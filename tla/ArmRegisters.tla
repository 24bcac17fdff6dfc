---------------------------- MODULE ArmRegisters ----------------------------
(***************************************************************************)
(* What the ARM60 promises the guest about its registers: every mode has a *)
(* stack pointer and a link register of its own, FIQ mode has R8..R12 of   *)
(* its own too, and an instruction touches no register but those its own   *)
(* mode sees, or the user's when it is a user-bank transfer.  There is one *)
(* flat file of physical registers here; how opera_arm.c keeps it in       *)
(* USER[], CASH[] and the banks is not visible.                            *)
(***************************************************************************)
EXTENDS Integers

CONSTANTS Regs,   \* the general registers, R0..R14
          Words   \* number of word addresses; a register holds one

Mode == {"user", "fiq", "irq", "svc", "abt", "und"}
Reg  == Regs \cup {15}
Word == 0..(Words - 1)
Psr  == [mode : Mode, F : BOOLEAN]

\* Where each exception enters, in words.
Vector == [und |-> 1, svc |-> 2, abt |-> 4, fiq |-> 7]

\* The mode whose copy of register r an instruction in mode m sees.
Owner(m, r) == CASE r \in {13, 14} -> m
                 [] r \in 8..12    -> IF m = "fiq" THEN "fiq" ELSE "user"
                 [] OTHER          -> "user"

Phys == Mode \X Reg

Seen(m) == {<<Owner(m, r), r>> : r \in Reg}

PC == <<"user", 15>>

State == [file : [Phys -> Word], psr : Psr, spsr : [Mode -> Psr], bus : Word]

-----------------------------------------------------------------------------
(* What an instruction may make of state s: t.                             *)

Only(s, t, ps) == \A p \in Phys \ ps : t.file[p] = s.file[p]

\* A word goes out: the contents of one of ps, before or after the step, or
\* what the PC reads as in a store, two or three words past the instruction.
Stored(s, t, ps) == \/ t.bus = s.bus
                    \/ \E k \in {1, 2} : t.bus = (((s.file[PC] + 1) % Words) + k) % Words
                    \/ \E p \in ps : t.bus \in {s.file[p], t.file[p]}

Enter(s, t, m, from) ==
  /\ t.psr = [mode |-> m, F |-> IF m = "fiq" THEN TRUE ELSE from.F]
  /\ t.spsr = [s.spsr EXCEPT ![m] = from]
  /\ t.file[PC] = Vector[m]

\* An instruction that computes, loads or stores.
Compute(s, t) ==
  /\ Only(s, t, Seen(s.psr.mode)) /\ Stored(s, t, Seen(s.psr.mode))
  /\ t.psr = s.psr /\ t.spsr = s.spsr

\* A transfer of the user's registers from a privileged mode.
UserTransfer(s, t) ==
  /\ Only(s, t, Seen(s.psr.mode) \cup Seen("user")) /\ Stored(s, t, Seen("user"))
  /\ t.psr = s.psr /\ t.spsr = s.spsr

\* MSR, and the instructions that return from an exception: a privileged mode
\* may write its status registers, a user cannot leave user mode.
WritePsr(s, t) ==
  /\ Only(s, t, {PC})
  /\ t.psr \in Psr /\ (s.psr.mode = "user" => t.psr.mode \in {"user", s.spsr["user"].mode})
  /\ t.spsr = s.spsr /\ t.bus = s.bus

WriteSpsr(s, t) ==
  /\ Only(s, t, {PC})
  /\ t.spsr \in [Mode -> Psr]
  /\ \A m \in Mode \ ({s.psr.mode} \ {"user"}) : t.spsr[m] = s.spsr[m]
  /\ t.psr = s.psr /\ t.bus = s.bus

\* LDM with the PC and the S bit: loads, then returns.
LoadReturn(s, t) ==
  /\ s.psr.mode # "user"
  /\ Only(s, t, Seen(s.psr.mode))
  /\ t.psr = s.spsr[s.psr.mode]
  /\ t.spsr = s.spsr /\ t.bus = s.bus

\* SWI, an undefined instruction, and FIQ after an instruction.
Exception(s, t) ==
  \E m \in {"svc", "und", "fiq"} :
    Enter(s, t, m, s.psr) /\ Only(s, t, {PC, <<m, 14>>}) /\ t.bus = s.bus

\* A transfer that aborts, after writing some of the registers it may write.
Abort(s, t) ==
  \E from \in {s.psr} \cup (IF s.psr.mode = "user" THEN {} ELSE {s.spsr[s.psr.mode]}) :
    /\ Enter(s, t, "abt", from)
    /\ Only(s, t, Seen(s.psr.mode) \cup Seen("user") \cup {<<"abt", 14>>})
    /\ t.bus \in Word

\* A store that resets the machine, likewise.
Reset(s, t) ==
  /\ t.psr = [mode |-> "svc", F |-> TRUE]
  /\ t.spsr = [s.spsr EXCEPT !["svc"] = s.psr]
  /\ t.file[PC] = 0 /\ t.file[<<"svc", 14>>] = (s.file[PC] + 1) % Words
  /\ Only(s, t, Seen(s.psr.mode) \cup Seen("user") \cup {<<"svc", 14>>})
  /\ t.bus \in Word

Step(s, t) == \/ Compute(s, t) \/ UserTransfer(s, t) \/ WritePsr(s, t) \/ WriteSpsr(s, t)
              \/ LoadReturn(s, t) \/ Exception(s, t) \/ Abort(s, t) \/ Reset(s, t)

-----------------------------------------------------------------------------
VARIABLES state,  \* R15 is file[PC]; bus is the last word stored
          life    \* flips when the machine is switched on again or a state loaded

Init == state \in State /\ life = FALSE

Next == \/ Step(state, state') /\ life' = life
        \/ state' \in State /\ life' = ~life

Spec == Init /\ [][Next]_<<state, life>>
=============================================================================
