------------------------------- MODULE MCVdlp -------------------------------
(* Small instances of Vdlp.  Width codes 0 and 1 stand for the region's    *)
(* width and a wider one.  Block 0 of the list memory is reached only      *)
(* through an address that is masked to it.                                *)
EXTENDS Vdlp

MCModulo == [m \in {0, 1} |-> m + 1]

Ctrl(n, dma, m) == [persist_len |-> n, prev_fba_tick |-> dma, enable_dma |-> dma,
                    fba_incr_modulo |-> m]
Display(p, only) == [display |-> TRUE, pal_ntsc |-> p, colors_only |-> only]
Colour == [display |-> FALSE, pal_ntsc |-> FALSE, colors_only |-> FALSE]

\* Stays for n lines, then a; a bitmap of its own.
At(n, a, words, dma) ==
  [ctrl |-> Ctrl(n, dma, 0), words |-> words, next |-> a, next_vdl_addr_rel |-> FALSE,
   curr_fba_override |-> TRUE, curr |-> 4, prev_fba_override |-> FALSE, prev |-> 0]
\* Continues the bitmap, wider; the successor is the block behind.
Wide(n, words) ==
  [ctrl |-> Ctrl(n, TRUE, 1), words |-> words, next |-> 0, next_vdl_addr_rel |-> TRUE,
   curr_fba_override |-> FALSE, curr |-> 0, prev_fba_override |-> TRUE, prev |-> 8]

Pal  == <<Colour, Display(TRUE, TRUE), Display(FALSE, FALSE)>>
Ntsc == <<Display(FALSE, FALSE)>>

MCEntries == {At(2, 2, Pal, TRUE), At(0, 1, Ntsc, TRUE), At(3, 3, <<>>, FALSE), Wide(1, <<>>)}
MCVrams == {[a \in 0..2 |-> IF a = 1 THEN At(2, 2, Pal, TRUE) ELSE At(0, 1, Ntsc, TRUE)],
            [a \in 0..2 |-> IF a = 1 THEN Wide(1, <<>>) ELSE At(3, 3, <<>>, FALSE)]}
=============================================================================
