--------------------------------- MODULE Arm --------------------------------
(***************************************************************************)
(* The ARM60 of opera_arm.c: its register banks, exceptions, transfers of  *)
(* the user's registers, soft reset in the middle of a store, and the ROM  *)
(* overlay with the limits cached for it.                                  *)
(*                                                                         *)
(* opera_arm_execute is two steps that alternate: the instruction, and     *)
(* what follows the switch (the pending reset, then FIQ).  Nothing runs in *)
(* between.  What an instruction computes or loads is data, any word; the  *)
(* condition flags and I (which nothing in the core reads) are left out.   *)
(* Addresses and the PC count words, modulo Words.                         *)
(***************************************************************************)
EXTENDS Integers

CONSTANTS Regs,      \* general registers, some of R0..R14, R13 and R14 among them
          Words,     \* 2^30 in the program
          Data,      \* the words instructions compute or load
          Bases,     \* base registers of transfers
          Lists,     \* register lists of LDM and STM
          GuestPsr,  \* what MSR writes
          Configs,   \* memory configurations: DRAM_SIZE and RAM_SIZE
          RamAddr,   \* RAM addresses stores go to
          Files,     \* saved states of other sessions
          MaxInsns   \* bound: instructions, saves, loads and resets

Mode == {"user", "fiq", "irq", "svc", "abt", "und"}
Reg  == Regs \cup {15}
Word == 0..(Words - 1)
Psr  == [mode : Mode, F : BOOLEAN]
High == Regs \cap 8..14   \* held in CASH[] and FIQ[]
Pair == {13, 14}          \* held in SVC[], ABT[], IRQ[] and UND[]

ASSUME RegsAssumption  == Regs \subseteq 0..14 /\ Pair \subseteq Regs
ASSUME WordsAssumption == Words \in Nat /\ Words > 7 /\ Data \subseteq 0..(Words - 1)
ASSUME GuestAssumption == Bases \subseteq Regs /\ GuestPsr \subseteq Psr
ASSUME ListsAssumption == \A l \in Lists : l # {} /\ l \subseteq Regs \cup {15}
ASSUME ConfigAssumption ==
  /\ Configs \subseteq [DRAM_SIZE : Nat, RAM_SIZE : Nat] /\ Configs # {}
  /\ RamAddr \subseteq Nat
ASSUME MaxInsnsAssumption == MaxInsns \in Nat

\* Where a store goes: RAM, XBUS registers without a device, or the CLIO
\* register that resets the machine.  Any other device is to the core what RAM
\* outside the overlay is.
Target == [dev : {"ram"}, addr : RamAddr] \cup [dev : {"absent", "reset"}, addr : {0}]

\* CPU with the globals beside it; bus is the last word stored.
Core == [USER : [Reg -> Word], bank : [Mode -> [High -> Word]], SPSR : [Mode -> Psr],
         CPSR : Psr, MAS_Access_Exept : BOOLEAN, pending : BOOLEAN, bus : Word,
         overlay : BOOLEAN, direct : Nat, low : BOOLEAN, clear : Nat]

\* The overlay limits are those of the flag and of configuration g.
MapOf(c, g) ==
  /\ c.direct = IF c.overlay THEN 0 ELSE g.RAM_SIZE
  /\ c.clear = IF c.overlay THEN g.DRAM_SIZE ELSE 0
  /\ c.low = c.overlay

\* Between instructions no abort and no reset is left over, and the user's SPSR
\* names user mode.
Settled(c) == ~c.MAS_Access_Exept /\ ~c.pending /\ c.SPSR["user"].mode = "user"

ASSUME FilesAssumption ==
  /\ Files \subseteq [cpu : Core, cfg : Configs]
  /\ \A f \in Files : Settled(f.cpu) /\ MapOf(f.cpu, f.cfg)

VARIABLES cpu,    \* CPU, the pending flag and the overlay limits
          cfg,    \* memory configuration
          at,     \* "fetch": before an instruction; "done": after one
          slot,   \* a saved state: cpu and cfg
          insns,  \* instructions and frontend calls, at most MaxInsns
          life    \* history: flips when the registers are replaced as a whole

vars == <<cpu, cfg, at, slot, insns, life>>

Plus(w) == (w + 1) % Words

-----------------------------------------------------------------------------
(* Memory map.                                                             *)

\* direct: g_CPU_DIRECT_RAM_LIMIT; clear: g_ROM_OVERLAY_CLEAR_LIMIT; low:
\* whether g_ROM_OVERLAY_READ_LIMIT is set.
set_rom_overlay(c, g, on) ==
  [c EXCEPT !.overlay = on, !.direct = IF on THEN 0 ELSE g.RAM_SIZE, !.low = on,
            !.clear = IF on THEN g.DRAM_SIZE ELSE 0]

\* Mutant: nothing is recomputed.
sync_dropped(c, g) == c

opera_arm_sync_memory_map(c, g) == set_rom_overlay(c, g, c.overlay)

-----------------------------------------------------------------------------
(* Banks.  bank["user"] is CASH[], the user's registers while another mode *)
(* runs; bank["fiq"] is FIQ[]; the others hold R13 and R14.                *)

Save(c, m, rs) == [c EXCEPT !.bank[m] = [r \in High |-> IF r \in rs THEN c.USER[r] ELSE @[r]]]

Fetch(c, m, rs) == [c EXCEPT !.USER = [r \in Reg |-> IF r \in rs THEN c.bank[m][r] ELSE @[r]]]

ARM_RestUserRONS(c) ==
  IF c.CPSR.mode = "fiq" THEN Fetch(Save(c, "fiq", High), "user", High)
  ELSE Fetch(Save(c, c.CPSR.mode, Pair), "user", Pair)

ARM_RestFiqRONS(c) ==
  IF c.CPSR.mode = "user" THEN Fetch(Save(c, "user", High), "fiq", High)
  ELSE Fetch(Save(Save(c, "user", High \ Pair), c.CPSR.mode, Pair), "fiq", High)

\* Mutant: R8..R12 of FIQ mode stay in place.
irq_keeps_fiq(c, m) == Fetch(Save(c, c.CPSR.mode, Pair), m, Pair)

\* IRQ, SVC, ABT and UND.
ARM_RestPairRONS(c, m) ==
  IF c.CPSR.mode = "fiq"
  THEN Fetch(Fetch(Save(c, "fiq", High), "user", High \ Pair), m, Pair)
  ELSE Fetch(Save(c, c.CPSR.mode, Pair), m, Pair)

ARM_Change_ModeSafe(c, m) ==
  IF m = c.CPSR.mode THEN c
  ELSE CASE m = "user" -> ARM_RestUserRONS(c)
         [] m = "fiq"  -> ARM_RestFiqRONS(c)
         [] OTHER      -> ARM_RestPairRONS(c, m)

arm_cpsr_set(c, p) == [ARM_Change_ModeSafe(c, p.mode) EXCEPT !.CPSR = p]

\* What every exception does: SPSR of the new mode, the mode, R14 and the PC.
Exception(c, m, F, lr, vector) ==
  LET d == [arm_cpsr_set(c, [mode |-> m, F |-> F]) EXCEPT !.SPSR[m] = c.CPSR]
  IN  [d EXCEPT !.USER = [@ EXCEPT ![14] = lr, ![15] = vector]]

arm_data_abort(c) ==
  [Exception(c, "abt", c.CPSR.F, Plus(c.USER[15]), 4) EXCEPT !.MAS_Access_Exept = FALSE]

decode_swi_lle(c) == Exception(c, "svc", c.CPSR.F, c.USER[15], 2)

\* An undefined or a coprocessor instruction.
Undefine(c) == Exception(c, "und", c.CPSR.F, c.USER[15], 1)

opera_arm_soft_reset(c, g) ==
  [set_rom_overlay(Exception(c, "svc", TRUE, c.USER[15], 0), g, TRUE)
     EXCEPT !.pending = FALSE, !.MAS_Access_Exept = FALSE]

-----------------------------------------------------------------------------
(* Register and memory access.                                             *)

Write(c, r, v) == [c EXCEPT !.USER[r] = v]

InUser(c, n) == \/ n = 15 \/ c.CPSR.mode = "user"
                \/ n <= IF c.CPSR.mode = "fiq" THEN 7 ELSE 12

loadusr(c, n, v) == IF InUser(c, n) THEN Write(c, n, v) ELSE [c EXCEPT !.bank["user"][n] = v]

readusr(c, n) == IF InUser(c, n) THEN c.USER[n] ELSE c.bank["user"][n]

\* bus: the last word stored.  A reset store leaves the reset pending.
mwritew(c, g, t, v) ==
  LET d == [c EXCEPT !.bus = v]
  IN  CASE t.dev = "absent" -> [c EXCEPT !.MAS_Access_Exept = TRUE]
        [] t.dev = "reset"  -> [opera_arm_soft_reset(d, g) EXCEPT !.pending = TRUE]
        [] OTHER            -> IF t.addr < c.clear THEN set_rom_overlay(d, g, FALSE) ELSE d

-----------------------------------------------------------------------------
(* Instructions.  Each is what the switch of opera_arm_execute makes of c, *)
(* whose PC is already past the instruction.                               *)

\* Data processing, multiply, MRS and branches: rd := v, and for BL first R14.
Compute(c, rd, v) == Write(c, rd, v)
BranchLink(c, v)  == Write(Write(c, 14, c.USER[15]), 15, v)

\* Data processing to the PC with the S bit.
ReturnTo(c, v) ==
  LET d == Write(c, 15, v) IN arm_cpsr_set(d, d.SPSR[d.CPSR.mode])

\* In user mode MSR writes flags only.
MsrCpsr(c, p) == IF c.CPSR.mode = "user" THEN c ELSE arm_cpsr_set(c, p)

\* Mutant: MSR to the SPSR does not ask for the mode.
msr_spsr_unguarded(c, p) == [c EXCEPT !.SPSR[c.CPSR.mode] = p]

MsrSpsr(c, p) == IF c.CPSR.mode = "user" THEN c ELSE [c EXCEPT !.SPSR[c.CPSR.mode] = p]

\* A load of v into rd, with base write-back of b to rn when wb; usr: a
\* user-bank transfer; absent: the address has no device.
Ldr(c, rn, wb, b, rd, usr, v, absent) ==
  LET d == IF wb THEN Write(c, rn, b) ELSE c
  IN  IF absent THEN arm_data_abort([c EXCEPT !.MAS_Access_Exept = TRUE])
      ELSE IF usr THEN loadusr(d, rd, v) ELSE Write(d, rd, v)

\* What a store finds in rd: the PC reads one word further, two after a shift by
\* a register.
StoreValue(c, rd, usr, ahead) ==
  IF rd = 15 THEN (c.USER[15] + ahead) % Words ELSE IF usr THEN readusr(c, rd) ELSE c.USER[rd]

\* Mutant: the base is written back although the store reset the machine.
str_late_writeback(c, g, rn, wb, b, rd, usr, ahead, t) ==
  LET d == mwritew(c, g, t, StoreValue(c, rd, usr, ahead))
  IN  IF d.MAS_Access_Exept THEN arm_data_abort(d)
      ELSE IF wb THEN Write(d, rn, b) ELSE d

Str(c, g, rn, wb, b, rd, usr, ahead, t) ==
  LET d == mwritew(c, g, t, StoreValue(c, rd, usr, ahead))
  IN  IF d.pending THEN d
      ELSE IF d.MAS_Access_Exept THEN arm_data_abort(d)
      ELSE IF wb THEN Write(d, rn, b) ELSE d

\* SWP: a load and a store at one address.
ARM_SWAP(c, g, rd, rm, v, t) ==
  LET d == mwritew(c, g, t, c.USER[rm])
  IN  IF t.dev = "absent" THEN arm_data_abort([c EXCEPT !.MAS_Access_Exept = TRUE])
      ELSE IF d.pending THEN d ELSE Write(d, rd, v)

\* All of list := v; the user's registers when usr.
WriteAll(c, list, v) == [c EXCEPT !.USER = [r \in Reg |-> IF r \in list THEN v[r] ELSE @[r]]]
LoadAllUser(c, list, v) ==
  [c EXCEPT !.USER = [r \in Reg |-> IF r \in list /\ InUser(c, r) THEN v[r] ELSE @[r]],
            !.bank["user"] = [r \in High |-> IF r \in list /\ ~InUser(c, r) THEN v[r] ELSE @[r]]]

\* S with the PC in the list returns from an exception; without it the user's
\* registers are loaded.  A word without a device aborts after the loads.
ldm_accur(c, rn, wb, b, list, S, v, absent) ==
  LET usr == S /\ 15 \notin list
      d == IF ~wb THEN c ELSE IF usr THEN loadusr(c, rn, b) ELSE Write(c, rn, b)
      e == IF usr THEN LoadAllUser(d, list, v) ELSE WriteAll(d, list, v)
      f == IF S /\ ~usr /\ e.CPSR.mode # "user" THEN arm_cpsr_set(e, e.SPSR[e.CPSR.mode]) ELSE e
  IN  IF absent THEN arm_data_abort([f EXCEPT !.MAS_Access_Exept = TRUE]) ELSE f

\* Words of R0..R14 up to the one that resets, if any: they only clear the
\* overlay and set MAS_Access_Exept, and a reset overwrites both.
StoreAll(c, g, list, S, tgt) ==
  LET Value(r) == IF S THEN readusr(c, r) ELSE c.USER[r]
      Resets == {r \in list : tgt[r].dev = "reset"}
      Out    == {r \in list : tgt[r].dev # "absent"}
      First(rs) == CHOOSE r \in rs : \A q \in rs : r <= q
      Last(rs)  == CHOOSE r \in rs : \A q \in rs : q <= r
      d == IF \E r \in list : tgt[r].dev = "ram" /\ tgt[r].addr < c.clear
           THEN set_rom_overlay(c, g, FALSE) ELSE c
  IN  IF Resets # {} THEN mwritew(c, g, tgt[First(Resets)], Value(First(Resets)))
      ELSE [d EXCEPT !.MAS_Access_Exept = \E r \in list : tgt[r].dev = "absent",
                     !.bus = IF Out = {} THEN @ ELSE Value(Last(Out))]

\* The base is written back before the words when a lower register is listed,
\* and after them in any case; the PC's word comes last.
stm_accur(c, g, rn, wb, b, list, S, tgt) ==
  LET Back(x) == IF ~wb THEN x ELSE IF S THEN loadusr(x, rn, b) ELSE Write(x, rn, b)
      d == IF \E r \in list : r < rn THEN Back(c) ELSE c
      e == StoreAll(d, g, list \ {15}, S, tgt)
      f == Back(e)
      h == IF 15 \in list THEN mwritew(f, g, tgt[15], (f.USER[15] + 2) % Words) ELSE f
      k == IF e.pending THEN e ELSE h
  IN  IF k.MAS_Access_Exept THEN arm_data_abort(k) ELSE k

-----------------------------------------------------------------------------
\* The core once the instruction is fetched and the PC advanced.
Fetched == Write(cpu, 15, Plus(cpu.USER[15]))

\* The switch of opera_arm_execute made it c.
Insn(c) ==
  /\ at = "fetch" /\ insns < MaxInsns
  /\ cpu' = c
  /\ at' = "done" /\ insns' = insns + 1
  /\ UNCHANGED <<cfg, slot, life>>

Simple ==
  \/ Insn(Fetched)                        \* its condition fails
  \/ \E v \in Data : \/ \E rd \in Reg : Insn(Compute(Fetched, rd, v))
                     \/ Insn(BranchLink(Fetched, v))
                     \/ Insn(ReturnTo(Fetched, v))
  \/ \E p \in GuestPsr : Insn(MsrCpsr(Fetched, p)) \/ Insn(MsrSpsr(Fetched, p))
  \/ Insn(decode_swi_lle(Fetched))
  \/ Insn(Undefine(Fetched))

\* A user-bank transfer (W with post-indexing) always writes back.
Single ==
  \E rn \in Bases, rd \in Reg, wb \in BOOLEAN, b \in Data, usr \in BOOLEAN :
    /\ usr => wb
    /\ \/ \E v \in Data, absent \in BOOLEAN :
             Insn(Ldr(Fetched, rn, wb, b, rd, usr, v, absent))
       \/ \E ahead \in {1, 2}, t \in Target :
             Insn(Str(Fetched, cfg, rn, wb, b, rd, usr, ahead, t))

Swap ==
  \E rd, rm \in Regs, v \in Data, t \in Target : Insn(ARM_SWAP(Fetched, cfg, rd, rm, v, t))

bdt_core ==
  \E rn \in Bases, wb \in BOOLEAN, b \in Data, S \in BOOLEAN, list \in Lists :
    \/ \E v \in [list -> Data], absent \in BOOLEAN :
         Insn(ldm_accur(Fetched, rn, wb, b, list, S, v, absent))
    \/ \E tgt \in [list -> Target] : Insn(stm_accur(Fetched, cfg, rn, wb, b, list, S, tgt))

\* What follows the switch: a pending reset ends the instruction; otherwise a
\* FIQ is taken when CLIO asks for one.
AfterSwitch ==
  /\ at = "done" /\ at' = "fetch"
  /\ \E needed \in BOOLEAN :
       cpu' = IF cpu.pending THEN [cpu EXCEPT !.pending = FALSE]
              ELSE IF ~cpu.CPSR.F /\ needed
              THEN Exception(cpu, "fiq", TRUE, Plus(cpu.USER[15]), 7)
              ELSE cpu
  /\ UNCHANGED <<cfg, slot, insns, life>>

-----------------------------------------------------------------------------
(* The frontend, between frames.                                           *)

\* Power-on: every register cleared but the SPSRs.
PowerOn(spsr, g) ==
  LET c == [USER |-> [r \in Reg |-> 0], bank |-> [m \in Mode |-> [r \in High |-> 0]],
            SPSR |-> spsr, CPSR |-> [mode |-> "svc", F |-> TRUE],
            MAS_Access_Exept |-> FALSE, pending |-> FALSE, bus |-> 0,
            overlay |-> TRUE, direct |-> 0, low |-> TRUE, clear |-> 0]
  IN  set_rom_overlay(c, g, TRUE)

ColdSpsr == [m \in Mode |-> [mode |-> "user", F |-> FALSE]]

\* retro_reset, through opera_3do_init.
opera_arm_init ==
  /\ at = "fetch" /\ insns < MaxInsns
  /\ cpu' = [PowerOn(cpu.SPSR, cfg) EXCEPT !.bus = cpu.bus]
  /\ insns' = insns + 1 /\ life' = ~life
  /\ UNCHANGED <<cfg, at, slot>>

opera_arm_state_save ==
  /\ at = "fetch" /\ insns < MaxInsns
  /\ slot' = [cpu |-> cpu, cfg |-> cfg]
  /\ insns' = insns + 1
  /\ UNCHANGED <<cpu, cfg, at, life>>

\* The ARM chunk is loaded under the old memory configuration; the MEM chunk
\* then brings its own, after which the map is recomputed.  old: a version 1
\* file or one without the overlay byte, which has no overlay.
opera_3do_state_load ==
  /\ at = "fetch" /\ insns < MaxInsns
  /\ \E old \in BOOLEAN :
       LET c == set_rom_overlay([slot.cpu EXCEPT !.bus = cpu.bus], cfg, ~old /\ slot.cpu.overlay)
       IN  cpu' = opera_arm_sync_memory_map(c, slot.cfg)
  /\ cfg' = slot.cfg
  /\ insns' = insns + 1 /\ life' = ~life
  /\ UNCHANGED <<at, slot>>

\* A session that starts, or that has just loaded a file.  slot begins as a file
\* written at power-on.
Init ==
  /\ \/ cfg \in Configs /\ cpu = PowerOn(ColdSpsr, cfg)
     \/ \E f \in Files : cfg = f.cfg /\ cpu = f.cpu
  /\ \E g \in Configs : slot = [cpu |-> PowerOn(ColdSpsr, g), cfg |-> g]
  /\ at = "fetch" /\ insns = 0 /\ life = FALSE

\* The bound is reached.
Bounded == at = "fetch" /\ insns = MaxInsns /\ UNCHANGED vars

Next == \/ Simple \/ Single \/ Swap \/ bdt_core \/ AfterSwitch
        \/ opera_arm_init \/ opera_arm_state_save \/ opera_3do_state_load \/ Bounded

Spec == Init /\ [][Next]_vars

-----------------------------------------------------------------------------
\* Type invariant.  No abort, and between instructions no reset, is left over
\* (g_SOFT_RESET_PENDING, MAS_Access_Exept); the user's SPSR names user mode.
TypeOK ==
  /\ cpu \in Core /\ cfg \in Configs /\ at \in {"fetch", "done"}
  /\ slot \in [cpu : Core, cfg : Configs] /\ Settled(slot.cpu)
  /\ insns \in 0..MaxInsns /\ life \in BOOLEAN
  /\ Settled([cpu EXCEPT !.pending = @ /\ at = "fetch"])

\* The limits the memory paths compare with (set_rom_overlay) are those of the
\* overlay flag under the memory configuration in force, whatever stores,
\* resets, loads of other configurations and power-ons came before.
MapAgrees == MapOf(cpu, cfg)

\* The physical register an instruction of mode m means by r.
Owner(m, r) == CASE r \in Pair    -> m
                 [] r \in 8..12   -> IF m = "fiq" THEN "fiq" ELSE "user"
                 [] OTHER         -> "user"

\* The flat file: USER[] for what the current mode sees, the banks for the rest.
FileOf(c) ==
  [p \in Mode \X Reg |-> IF Owner(c.CPSR.mode, p[2]) = p[1] THEN c.USER[p[2]]
                         ELSE IF p[2] \in High THEN c.bank[p[1]][p[2]] ELSE 0]

StateOf(c) == [file |-> FileOf(c), psr |-> c.CPSR, spsr |-> c.SPSR, bus |-> c.bus]

Registers == INSTANCE ArmRegisters WITH state <- StateOf(cpu)

\* Bank switching (ARM_Change_ModeSafe and its six functions, loadusr, readusr)
\* implements one flat register file: no instruction, exception or reset
\* touches a register of another mode (the user's, for a user-bank transfer,
\* apart), and a mode change alone loses and moves none.
ImplementsRegisters == Registers!Spec

\* "Portfolio's DIPIR path relies on the interrupted CPSR and next PC being
\* visible as SPSR_svc and R14_svc" (opera_arm.c:780): so it is after any store
\* that resets, single, multiple or swap, from any mode, and nothing the store
\* would still have done lands in the reset's registers.
ResetHandsOver ==
  [][cpu'.pending /\ ~cpu.pending =>
       /\ cpu'.SPSR["svc"] = cpu.CPSR /\ cpu'.CPSR = [mode |-> "svc", F |-> TRUE]
       /\ cpu'.USER[14] = Plus(cpu.USER[15]) /\ cpu'.USER[15] = 0
       /\ cpu'.overlay]_vars

\* User mode is left through an exception vector with the user's CPSR saved, or
\* by replacing the whole core: no sequence of MSR, returns and user-mode SPSR
\* writes (ARM_ALU_Exec) reaches a privileged mode.
UserConfined ==
  [][cpu.CPSR.mode = "user" /\ cpu'.CPSR.mode # "user" /\ life' = life =>
       /\ cpu'.USER[15] \in {0, 1, 2, 4, 7}
       /\ cpu'.SPSR[cpu'.CPSR.mode] = cpu.CPSR]_vars
=============================================================================
