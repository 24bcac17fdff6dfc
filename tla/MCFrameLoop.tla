----------------------------- MODULE MCFrameLoop -----------------------------
(* Instances of FrameLoop for TLC. *)
EXTENDS FrameLoop

\* Fields of different length; the shortest where the display does not matter.
Tiny == [lines |-> 1, rate |-> 2]
Long == [lines |-> 2, rate |-> 2]
mc_Regions == {Tiny, Long}

\* One session per group of registers, and one that changes the options.
mc_Programs ==
  {[uses |-> {"timers"}, freq |-> 4, region |-> Tiny],
   [uses |-> {"fifo_i", "dma"}, freq |-> 4, region |-> Tiny],
   [uses |-> {"fifo_o", "dma"}, freq |-> 4, region |-> Tiny],
   [uses |-> {"irq", "slack"}, freq |-> 6, region |-> Tiny],
   [uses |-> {"vint", "options"}, freq |-> 6, region |-> Long]}
=============================================================================
