------------------------------- MODULE MCArm -------------------------------
(* Small instance of Arm: one register banked for FIQ alone, R13, R14 and   *)
(* the PC, two memory configurations, and a file of a guest in each mode    *)
(* whose registers are all different.                                       *)
EXTENDS Arm

MCLists == {{8, 14}, {13, 15}}
MCPsr == {[mode |-> "user", F |-> FALSE], [mode |-> "fiq", F |-> TRUE],
          [mode |-> "irq", F |-> FALSE]}
MCConfigs == {[DRAM_SIZE |-> 1, RAM_SIZE |-> 2], [DRAM_SIZE |-> 2, RAM_SIZE |-> 4]}

Index == [user |-> 1, fiq |-> 2, irq |-> 3, svc |-> 4, abt |-> 5, und |-> 6]
Tag(m, r) == CASE r = 8 -> 8 + Index[m] [] r = 13 -> 14 + Index[m] [] OTHER -> 20 + Index[m]

\* The guest returns from each exception to another mode.
Back == [user |-> "user", fiq |-> "abt", irq |-> "user", svc |-> "fiq", abt |-> "und",
         und |-> "svc"]

Guest(m, g) ==
  [USER |-> [r \in Reg |-> IF r = 15 THEN 30 ELSE Tag(Owner(m, r), r)],
   bank |-> [n \in Mode |-> [r \in High |-> Tag(n, r)]],
   SPSR |-> [n \in Mode |-> [mode |-> Back[n], F |-> n = "svc"]],
   CPSR |-> [mode |-> m, F |-> m = "fiq"],
   MAS_Access_Exept |-> FALSE, pending |-> FALSE, bus |-> 0,
   overlay |-> FALSE, direct |-> g.RAM_SIZE, low |-> FALSE, clear |-> 0]

MCFiles == {[cpu |-> Guest(m, g), cfg |-> g] : m \in Mode, g \in {h \in Configs : h.DRAM_SIZE = 2}}
=============================================================================
