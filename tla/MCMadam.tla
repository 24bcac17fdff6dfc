------------------------------ MODULE MCMadam -------------------------------
(* A small instance of Madam.                                              *)
EXTENDS Madam

Block(last, skip, npabs, next, pixels, texels) ==
  [last |-> last, skip |-> skip, npabs |-> npabs, next |-> next,
   pixels |-> pixels, texels |-> texels]

\* Block 1 leads to a skipped block 2, where the list ends or leaves RAM.
MCRam == {[a \in 0..2 |-> CASE a = 0 -> Block(TRUE, TRUE, TRUE, 0, 0, 0)
                            [] a = 1 -> Block(FALSE, FALSE, FALSE, 0, 1, 2)
                            [] a = 2 -> Block(last, TRUE, TRUE, 3, 4, 0)] : last \in BOOLEAN}

MCLengths == {-4, 0, 6, 20}

MCPorts == {<<"joypad", "none", "mouse">>, <<"orbatak_trackball", "flightstick">>}
=============================================================================
