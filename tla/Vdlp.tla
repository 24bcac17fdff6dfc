-------------------------------- MODULE Vdlp --------------------------------
(***************************************************************************)
(* The display list processor of opera_vdlp.c: one step per scanline of a  *)
(* field, during which the guest rewrites the list, its head and MADAM's   *)
(* DMA switches; between fields the frontend changes options, resets,      *)
(* saves and loads.                                                        *)
(*                                                                         *)
(* A list entry is one block of VRAM, its optional words with it.  Colours *)
(* and pixels are data and left out: a rendered line is where it is read   *)
(* from and how far it moves the output.                                   *)
(***************************************************************************)
EXTENDS Integers, Sequences, FiniteSetsExt

CONSTANTS Blocks,     \* blocks of VRAM, which addresses are masked to
          Entries,    \* what a block may hold
          Vrams,      \* contents of VRAM at the start
          Heads,      \* list heads the guest programs
          Bitmaps,    \* bitmap addresses wrap here: 2^32 in the program
          PIXELS_PER_LINE_MODULO,
          Scanlines, First, End, Width,  \* the region: lines, the visible ones, its width
          Formats,    \* pixel formats a session may choose
          MaxFields, MaxWrites  \* bounds: fields; guest and frontend operations

VDLP_FORCE_LINE == 5
VDLP_PAL_FORCE_DELAY == 3

Modulo == DOMAIN PIXELS_PER_LINE_MODULO
Bitmap == 0..(Bitmaps - 1)

\* Display control words; the others (colours, background, A/V output) are alike.
CtrlWord == [display : BOOLEAN, pal_ntsc : BOOLEAN, colors_only : BOOLEAN]

\* clut_dma_ctrl_word_s, without the fields only the fetch reads.
ClutCtrl == [persist_len : Nat, prev_fba_tick : BOOLEAN, enable_dma : BOOLEAN,
             fba_incr_modulo : Modulo]

Entry == [ctrl : ClutCtrl, words : Seq(CtrlWord), next : Nat, next_vdl_addr_rel : BOOLEAN,
          curr_fba_override : BOOLEAN, curr : Bitmap, prev_fba_override : BOOLEAN, prev : Bitmap]

ASSUME ListAssumption ==
  /\ Blocks \in Nat \ {0} /\ Heads \subseteq Nat /\ Entries \subseteq Entry
  /\ Vrams \subseteq [0..(Blocks - 1) -> Entries]
ASSUME BitmapsAssumption ==
  /\ Bitmaps \in Nat /\ Bitmaps > 0 /\ Bitmaps % 4 = 0
  /\ 0 \in Modulo /\ \A m \in Modulo : PIXELS_PER_LINE_MODULO[m] \in Nat \ {0}
ASSUME RegionAssumption ==
  /\ First \in Nat /\ End \in Nat /\ Scanlines \in Nat /\ Width \in Nat
  /\ VDLP_FORCE_LINE + VDLP_PAL_FORCE_DELAY < First /\ First < End /\ End <= Scanlines
ASSUME BoundsAssumption == MaxFields \in Nat /\ MaxWrites \in Nat

VARIABLES vdlp,    \* g_VDLP
          curbuf,  \* g_CURBUF - g_BUF, in pixels
          hires,   \* VDLP_FLAG_HIRES_CEL
          format,  \* g_PIXEL_FORMAT
          mctl,    \* MADAM's CLUTXEN and VSCTXEN
          vram,
          line,    \* the line processed next
          slot,    \* a saved state
          fields, writes,
          \* History: lines since the last fetch, the bitmap it began at, whether the
          \* list could run all the while; the address the next fetch is due at;
          \* fetches of this field that cut an entry short; PALSEL at its start;
          \* lines rendered in it, and whether all had the region's width.
          age, base, fed, due, cuts, pal, rows, plain

history == <<age, base, fed, due, cuts, pal, rows, plain>>
vars == <<vdlp, curbuf, hires, format, mctl, vram, line, slot, fields, writes, history>>

-----------------------------------------------------------------------------
vram_read(a) == vram[a % Blocks]

_forced_transfer_line(v) == VDLP_FORCE_LINE + IF v.pal_ntsc THEN VDLP_PAL_FORCE_DELAY ELSE 0

\* The last display word counts; one that asks for colours only disables those after it.
vdlp_process_optional_cmds(v, words) ==
  LET shown == {i \in DOMAIN words :
                  words[i].display /\ \A j \in 1..(i - 1) : ~(words[j].display /\ words[j].colors_only)}
  IN  [v EXCEPT !.pal_ntsc = IF shown = {} THEN @ ELSE words[Max(shown)].pal_ntsc]

vdlp_process_vdl_entry(v) ==
  LET e == vram_read(v.next_vdl)
      w == [v EXCEPT !.clut_ctrl = e.ctrl,
                     !.curr_bmp = IF e.curr_fba_override THEN e.curr ELSE @,
                     !.prev_bmp = IF e.prev_fba_override THEN e.prev ELSE @,
                     !.curr_vdl = v.next_vdl + 1]
  IN  IF v.next_vdl = 0 THEN v
      ELSE [vdlp_process_optional_cmds(w, e.words)
              EXCEPT !.next_vdl = e.next + (IF e.next_vdl_addr_rel THEN v.next_vdl + 1 ELSE 0),
                     !.line_cnt = e.ctrl.persist_len]

bitmap_dma_enabled(v) == mctl.video /\ v.clut_ctrl.enable_dma

LineWidth(v) == PIXELS_PER_LINE_MODULO[v.clut_ctrl.fba_incr_modulo]

\* What a renderer adds to g_CURBUF.  A black line of the two 0RGB1555 hires
\* renderers is vdlp_render_line_black's, the others' vdlp_render_line_black_hires's.
Rendered(v) ==
  IF hires /\ (bitmap_dma_enabled(v) \/ format # "0RGB1555") THEN 4 * LineWidth(v)
  ELSE LineWidth(v)

\* Mutant: both lines of a pair advance by the modulo.
tick_unpaired(v, fba) == (fba + 2 * LineWidth(v)) % Bitmaps

\* Two lines share a row of words: the second is two bytes on.
tick_fba(v, fba) ==
  (fba + IF (fba \div 2) % 2 = 1 THEN 4 * LineWidth(v) - 2 ELSE 2) % Bitmaps

\* Mutant: the last line is counted in.
visible_one_more(l) == First <= l /\ l <= End

visible_scanline(l) == First <= l /\ l < End

\* Mutant: an entry runs out below zero.
due_below_zero(v, l) == l = v.force_line \/ (v.line_cnt < 0 /\ v.clut_ctrl.persist_len # 0)

\* A line is due a fetch: the forced one, or the entry has run out.
Due(v, l) == l = v.force_line \/ (v.line_cnt <= 0 /\ v.clut_ctrl.persist_len # 0)

\* Mutant: PALSEL is not latched.
latch_dropped(v, l) == [v EXCEPT !.force_line = _forced_transfer_line(v)]

\* PALSEL is latched once per field.
Latched(v, l) == IF l = 0 THEN [v EXCEPT !.force_line = _forced_transfer_line(v)] ELSE v

\* What follows the rendering of a line.
Ticked(v) ==
  [v EXCEPT !.prev_bmp = IF v.clut_ctrl.prev_fba_tick THEN tick_fba(v, @) ELSE v.curr_bmp,
            !.curr_bmp = tick_fba(v, @),
            !.line_cnt = IF @ > 0 THEN @ - 1 ELSE @]

\* The histories of a line that is processed: v before its fetch, w after it.
Observe(v, w, fetched) ==
  /\ age' = IF fetched THEN 1 ELSE age + 1
  /\ base' = IF fetched THEN w.curr_bmp ELSE base
  /\ fed' = ((fetched \/ fed) /\ mctl.clut /\ v.next_vdl # 0)
  /\ due' = LET e == vram_read(due)
            IN  IF ~fetched THEN due ELSE IF e.next_vdl_addr_rel THEN due + 1 + e.next ELSE e.next
  /\ cuts' = IF fetched /\ (age < v.clut_ctrl.persist_len \/ v.clut_ctrl.persist_len = 0)
             THEN cuts + 1 ELSE cuts
  /\ rows' = (IF line = VDLP_FORCE_LINE THEN 0 ELSE rows) + IF visible_scanline(line) THEN 1 ELSE 0
  /\ plain' = ((line = VDLP_FORCE_LINE \/ plain)
               /\ (visible_scanline(line) => LineWidth(w) = Width))
  /\ UNCHANGED pal

opera_vdlp_process_line ==
  LET v == Latched(vdlp, line)
      fetches == mctl.clut /\ Due(v, line)
      w == IF fetches THEN vdlp_process_vdl_entry(v) ELSE v
      start == IF line = VDLP_FORCE_LINE THEN 0 ELSE curbuf
  IN  /\ line < Scanlines /\ fields < MaxFields
      /\ line' = line + 1
      /\ IF line < VDLP_FORCE_LINE
         THEN /\ vdlp' = v
              /\ IF line = 0 THEN cuts' = 0 /\ pal' = vdlp.pal_ntsc ELSE UNCHANGED <<cuts, pal>>
              /\ UNCHANGED <<curbuf, age, base, fed, due, rows, plain>>
         ELSE /\ vdlp' = Ticked(w)
              /\ curbuf' = start + IF visible_scanline(line) THEN Rendered(w) ELSE 0
              /\ Observe(v, w, fetches /\ v.next_vdl # 0)
      /\ UNCHANGED <<hires, format, mctl, vram, slot, fields, writes>>

\* opera_3do_process_frame ends at the last line of the field.
EndField ==
  /\ line = Scanlines
  /\ line' = 0 /\ fields' = fields + 1
  /\ UNCHANGED <<vdlp, curbuf, hires, format, mctl, vram, slot, writes, history>>

-----------------------------------------------------------------------------
(* The guest, between any two lines.                                       *)

Operation == writes < MaxWrites /\ fields < MaxFields /\ writes' = writes + 1

opera_vdlp_set_vdl_head ==
  /\ Operation
  /\ \E a \in Heads : vdlp' = [vdlp EXCEPT !.next_vdl = a] /\ due' = a
  /\ UNCHANGED <<curbuf, hires, format, mctl, vram, line, slot, fields,
                 age, base, fed, cuts, pal, rows, plain>>

PokeMctl ==
  /\ Operation
  /\ mctl' \in [clut : BOOLEAN, video : BOOLEAN]
  /\ UNCHANGED <<vdlp, curbuf, hires, format, vram, line, slot, fields, history>>

WriteVram ==
  /\ Operation
  /\ \E a \in 0..(Blocks - 1), e \in Entries : vram' = [vram EXCEPT ![a] = e]
  /\ UNCHANGED <<vdlp, curbuf, hires, format, mctl, line, slot, fields, history>>

-----------------------------------------------------------------------------
(* The frontend.                                                           *)

Cleared == [force_line |-> VDLP_FORCE_LINE, curr_vdl |-> 0, next_vdl |-> 0, prev_bmp |-> 0,
            curr_bmp |-> 0, line_cnt |-> 0, pal_ntsc |-> FALSE,
            clut_ctrl |-> [persist_len |-> 0, prev_fba_tick |-> FALSE, enable_dma |-> FALSE,
                           fba_incr_modulo |-> 0]]

\* retro_reset between frames; in the middle of one after an ODE launch, which
\* abandons the frame.  Memory is initialized anew.
opera_vdlp_init ==
  /\ Operation
  /\ vdlp' = Cleared /\ curbuf' = 0 /\ line' = 0
  /\ mctl' = [clut |-> FALSE, video |-> FALSE] /\ vram' \in Vrams
  /\ age' = 0 /\ base' = 0 /\ fed' = FALSE /\ due' = 0 /\ cuts' = 0 /\ pal' = FALSE
  /\ rows' = 0 /\ plain' = TRUE
  /\ UNCHANGED <<hires, format, slot, fields>>

opera_vdlp_set_hires ==
  /\ line = 0 /\ Operation
  /\ hires' = ~hires
  /\ UNCHANGED <<vdlp, curbuf, format, mctl, vram, line, slot, fields, history>>

opera_vdlp_state_save ==
  /\ line = 0 /\ Operation
  /\ slot' = [vdlp |-> vdlp, mctl |-> mctl, vram |-> vram,
              age |-> age, base |-> base, fed |-> fed, due |-> due]
  /\ UNCHANGED <<vdlp, curbuf, hires, format, mctl, vram, line, fields, history>>

\* Mutant: every file restarts at its cursor.
migrate_always(v) ==
  [v EXCEPT !.next_vdl = v.curr_vdl, !.force_line = _forced_transfer_line(v)]

\* Files of older versions have no force line, and the list's head in curr_vdl.
_migrate_vdlp_state(v) ==
  IF v.force_line # 0 THEN v
  ELSE [v EXCEPT !.next_vdl = v.curr_vdl, !.force_line = _forced_transfer_line(v)]

opera_vdlp_state_load ==
  /\ line = 0 /\ Operation
  /\ vdlp' = _migrate_vdlp_state(slot.vdlp) /\ mctl' = slot.mctl /\ vram' = slot.vram
  /\ age' = slot.age /\ base' = slot.base /\ fed' = slot.fed /\ due' = slot.due
  /\ UNCHANGED <<curbuf, hires, format, line, slot, fields, cuts, pal, rows, plain>>

\* A file of an older version: next_vdl is what the list had reached.
OldFile(h, n, u) ==
  [vdlp |-> [Cleared EXCEPT !.force_line = 0, !.curr_vdl = h, !.next_vdl = n],
   mctl |-> [clut |-> TRUE, video |-> TRUE], vram |-> u,
   age |-> 0, base |-> 0, fed |-> FALSE, due |-> h]

Init ==
  /\ vdlp = Cleared /\ curbuf = 0 /\ line = 0 /\ fields = 0 /\ writes = 0
  /\ hires \in BOOLEAN /\ format \in Formats /\ vram \in Vrams
  /\ mctl = [clut |-> FALSE, video |-> FALSE]
  /\ \E h, n \in Heads, u \in Vrams : slot = OldFile(h, n, u)
  /\ age = 0 /\ base = 0 /\ fed = FALSE /\ due = 0 /\ cuts = 0 /\ pal = FALSE
  /\ rows = 0 /\ plain = TRUE

\* The bound is reached.
Bounded == fields = MaxFields /\ UNCHANGED vars

Next == \/ opera_vdlp_process_line \/ EndField
        \/ opera_vdlp_set_vdl_head \/ PokeMctl \/ WriteVram
        \/ opera_vdlp_init \/ opera_vdlp_set_hires
        \/ opera_vdlp_state_save \/ opera_vdlp_state_load \/ Bounded

Spec == Init /\ [][Next]_vars

-----------------------------------------------------------------------------
\* An entry stays for exactly the lines it asks for, over field ends, DMA
\* switched off and on, saves and loads: line_cnt is what remains of them, and
\* no entry of a list that is being fed stays longer.
Persists ==
  LET p == vdlp.clut_ctrl.persist_len
  IN  /\ vdlp.line_cnt = IF age < p THEN p - age ELSE 0
      /\ fed /\ p # 0 => age <= p

\* Only the forced transfer cuts an entry short, or follows one that asks for no
\* lines: once in a field, on the line PALSEL chose when the field began
\* ("Latch PALSEL once per field; a loaded mode change applies to the next
\* field", opera_vdlp.c:867), whatever the entries of the field do to PALSEL.
ForcedTransfer ==
  [][cuts' > cuts =>
       cuts = 0 /\ line = VDLP_FORCE_LINE + IF pal THEN VDLP_PAL_FORCE_DELAY ELSE 0]_vars

\* The k-th line after a fetch shows line k of the bitmap the entry began at, in
\* the layout of left/right pairs (opera_vdlp.c:855-862): row k / 2, half k % 2.
ShowsBitmapInOrder ==
  (base \div 2) % 2 = 0 /\ age > 0 =>
    vdlp.curr_bmp = (base + (age \div 2) * 4 * LineWidth(vdlp) + 2 * (age % 2)) % Bitmaps

\* The next fetch is of the last fetched entry's successor, or of the head the
\* guest has programmed since; a load resumes there too, and a file of an older
\* version at the head it recorded.
ResumesTraversal == vdlp.next_vdl = due

\* Every visible line has been output, once and where the frontend looks for it:
\* black or drawn, with the options as they are ("The 4x multiplication is for
\* hires mode", opera_lr_opts.c:237), as long as the list keeps the region's width.
FrameLaidOut ==
  line > VDLP_FORCE_LINE =>
    /\ rows = IF line <= First THEN 0 ELSE IF line < End THEN line - First ELSE End - First
    /\ plain => curbuf = rows * Width * IF hires THEN 4 ELSE 1
=============================================================================
