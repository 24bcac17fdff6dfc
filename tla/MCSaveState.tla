---------------------------- MODULE MCSaveState ----------------------------
(***************************************************************************)
(* Two of the memory configurations, and a file that names none of them.   *)
(***************************************************************************)
EXTENDS SaveState

Stock == [dram |-> 2, vram |-> 1]
TwoConfigs == {Stock, [dram |-> 4, vram |-> 1]}
ThreeConfigs == TwoConfigs \cup {[dram |-> 0, vram |-> 0]}
=============================================================================
