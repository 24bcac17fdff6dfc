-------------------------------- MODULE Madam -------------------------------
(***************************************************************************)
(* MADAM of opera_madam.c as the guest drives it: the cel engine's state   *)
(* machine with its deferred drawing and its busy time, and the DMA of the *)
(* control port.                                                           *)
(*                                                                         *)
(* Each turn of opera_3do_process_frame's loop ticks the engine, executes  *)
(* an instruction (here one register access, or none) and advances the     *)
(* clock.  The engine draws its list inside the tick, one cel a step;      *)
(* nothing else runs meanwhile.  Of a cel only what steers the walk and    *)
(* the busy time is kept.  Times are in units of a cel's setup.            *)
(***************************************************************************)
EXTENDS Pbus

CONSTANTS RAM_SIZE,    \* in control blocks
          Rams,        \* cel lists: functions from addresses to CCBs
          Ports,       \* devices connected: sequences
          Lengths,     \* what the guest writes to DMA8_LEN; negative: disabled
          MaxOps,      \* bound: register accesses and frontend calls
          MaxNow       \* bound: cycles the clock counts while the engine rests

\* A control block; its successor next is absolute or counts from the block
\* behind (CCB_NPABS); cost: pixels drawn and texels walked.
Ccb == [last : BOOLEAN, skip : BOOLEAN, npabs : BOOLEAN, next : Nat, pixels : Nat, texels : Nat]

\* Every list ends: from any address the walk meets the LAST flag, a zero
\* pointer or the end of RAM.  (On a list that does not, cel_handle never returns.)
Successor(u, a) == u[a].next + IF u[a].npabs THEN 0 ELSE a + 1
Terminates(u) ==
  \E rank \in [DOMAIN u -> DOMAIN u] : \A a \in DOMAIN u :
    LET b == Successor(u, a)
    IN  u[a].last \/ b = 0 \/ b \notin DOMAIN u \/ rank[b] < rank[a]

ASSUME RamsAssumption ==
  RAM_SIZE \in Nat /\ \A u \in Rams : u \in [0..(RAM_SIZE - 1) -> Ccb] /\ Terminates(u)
ASSUME PortsAssumption ==
  \A p \in Ports : Len(p) <= LR_INPUT_MAX_DEVICES /\ p \in Seq(Device)
ASSUME MadamBounds == Lengths \subseteq Int /\ MaxOps \in Nat /\ MaxNow \in Nat

VARIABLES cel,     \* FSM, g_CEL_DRAW_PENDING, g_CEL_BUSY_UNTIL, NEXTCCB
          walk,    \* the list being drawn: LAST flag, cels, pixels and texels so far
          at,      \* "tick", "walk" or "exec"
          now,     \* opera_clock_cpu_get_cycles()
          ram,
          dma8,    \* DMA8_LEN
          pbus,    \* PBUS
          slot,    \* a saved state
          ops,
          \* History: a started list that is neither drawn nor cancelled; the devices
          \* polled for this frame; what the last DMA wrote.
          owed, devices, image

vars == <<cel, walk, at, now, ram, dma8, pbus, slot, ops, owed, devices, image>>
engine == <<cel, walk, owed>>
port   == <<dma8, pbus, devices, image>>

Larger(a, b) == IF a > b THEN a ELSE b

-----------------------------------------------------------------------------
(* The engine.                                                             *)

Start == [last |-> FALSE, cels |-> 0, pixels |-> 0, texels |-> 0]

\* Mutant: the engine rests only at the very cycle its time is up.
cel_tick_exact ==
  /\ at = "tick"
  /\ \/ /\ cel.FSM # "INPROCESS"
        /\ at' = "exec" /\ UNCHANGED engine
     \/ /\ cel.FSM = "INPROCESS" /\ cel.pending
        /\ at' = "walk" /\ walk' = Start /\ UNCHANGED <<cel, owed>>
     \/ /\ cel.FSM = "INPROCESS" /\ ~cel.pending /\ now <= cel.busy_until
        /\ cel' = [cel EXCEPT !.FSM = IF now = cel.busy_until THEN "IDLE" ELSE @]
        /\ at' = "exec" /\ UNCHANGED <<walk, owed>>
  /\ UNCHANGED <<now, ram, slot, ops, port>>

opera_madam_cel_tick ==
  /\ at = "tick"
  /\ \/ /\ cel.FSM # "INPROCESS"
        /\ at' = "exec" /\ UNCHANGED engine
     \/ /\ cel.FSM = "INPROCESS" /\ cel.pending
        /\ at' = "walk" /\ walk' = Start /\ UNCHANGED <<cel, owed>>
     \/ /\ cel.FSM = "INPROCESS" /\ ~cel.pending
        /\ cel' = [cel EXCEPT !.FSM = IF now >= cel.busy_until THEN "IDLE" ELSE @]
        /\ at' = "exec" /\ UNCHANGED <<walk, owed>>
  /\ UNCHANGED <<now, ram, slot, ops, port>>

\* The walk's condition holds at NEXTCCB.
More == cel.NEXTCCB # 0 /\ ~walk.last

\* One turn of cel_handle's loop.  A list that leaves RAM ends the loop.
opera_madam_cel_handle ==
  /\ at = "walk" /\ More /\ cel.NEXTCCB < RAM_SIZE
  /\ LET ccb == ram[cel.NEXTCCB]
     IN  /\ walk' = [last |-> ccb.last, cels |-> walk.cels + 1,
                     pixels |-> walk.pixels + IF ccb.skip THEN 0 ELSE ccb.pixels,
                     texels |-> walk.texels + IF ccb.skip THEN 0 ELSE ccb.texels]
         /\ cel' = [cel EXCEPT !.NEXTCCB = Successor(ram, @)]
  /\ UNCHANGED <<at, now, ram, slot, ops, owed, port>>

\* Mutant: the list stays pending.
busy_start_keeps_pending(cels) ==
  [cel EXCEPT !.busy_until = now + Larger(walk.texels, walk.pixels) + cels]

madam_cel_busy_start(cels) ==
  [cel EXCEPT !.busy_until = now + Larger(walk.texels, walk.pixels) + cels, !.pending = FALSE]

EndOfList ==
  /\ at = "walk" /\ (~More \/ cel.NEXTCCB >= RAM_SIZE)
  /\ cel' = madam_cel_busy_start(walk.cels + IF More THEN 1 ELSE 0)
  /\ at' = "exec" /\ owed' = FALSE
  /\ UNCHANGED <<walk, now, ram, slot, ops, port>>

-----------------------------------------------------------------------------
(* The instruction, after which the clock advances.                        *)

\* The clock of a machine whose engine does not run stops at MaxNow.
Execute ==
  /\ at = "exec" /\ at' = "tick"
  /\ now' = IF now < MaxNow \/ cel.FSM = "INPROCESS" THEN now + 1 ELSE now

NoAccess == Execute /\ UNCHANGED <<ram, slot, ops, engine, port>>

Access == Execute /\ ops < MaxOps /\ ops' = ops + 1 /\ UNCHANGED <<ram, slot, walk>>

PokeNextCcb ==
  /\ Access
  /\ \E a \in DOMAIN ram : cel' = [cel EXCEPT !.NEXTCCB = a]
  /\ UNCHANGED <<owed, port>>

PokeSprStrt ==
  /\ Access
  /\ cel' = [cel EXCEPT !.FSM = IF @ = "IDLE" THEN "INPROCESS" ELSE @, !.pending = TRUE]
  /\ owed' = TRUE
  /\ UNCHANGED port

PokeSprStop ==
  /\ Access
  /\ cel' = [cel EXCEPT !.FSM = "IDLE", !.NEXTCCB = 0, !.pending = FALSE] /\ owed' = FALSE
  /\ UNCHANGED port

PokeSprCntu ==
  /\ Access
  /\ cel' = [cel EXCEPT !.FSM = IF @ = "SUSPENDED" THEN "INPROCESS" ELSE @]
  /\ UNCHANGED <<owed, port>>

PokeSprPaus ==
  /\ Access
  /\ cel' = [cel EXCEPT !.FSM = IF @ = "INPROCESS" THEN "SUSPENDED" ELSE @]
  /\ UNCHANGED <<owed, port>>

\* A store to CLIO resets the machine.
opera_madam_soft_reset ==
  /\ Access
  /\ cel' = [cel EXCEPT !.FSM = "IDLE"] /\ owed' = FALSE
  /\ UNCHANGED port

PokeDma8Len ==
  /\ Access
  /\ dma8' \in Lengths
  /\ UNCHANGED <<cel, owed, pbus, devices, image>>

MADAM_DMA8_IDLE_LEN == -4

\* Mutant: behind the chain memory is cleared.
transferred_zeros(chain, words) ==
  [i \in 1..(4 * words) |-> IF i <= Len(chain) THEN chain[i] ELSE <<-1, -1>>]

\* The words behind the first: the chain, then words of terminators.
Transferred(chain, words) ==
  [i \in 1..(4 * words) |-> IF i <= Len(chain) THEN chain[i] ELSE PBUS_END_CHAIN_ID]

\* A write of MCTL with PLAYXEN (HandleDMA8, DMAPBus).
DMAPBus ==
  /\ Access
  /\ IF dma8 < 0 THEN UNCHANGED <<dma8, pbus, image>>
     ELSE /\ pbus' = opera_pbus_pad(pbus)
          /\ image' = Transferred(pbus'.buf, (dma8 + 3) \div 4)
          /\ dma8' = MADAM_DMA8_IDLE_LEN
  /\ UNCHANGED <<cel, owed, devices>>

-----------------------------------------------------------------------------
(* The frontend, between frames.                                           *)

Call == at = "tick" /\ ops < MaxOps /\ ops' = ops + 1 /\ UNCHANGED at

\* lr_input_update of the next frame.
NextFrame ==
  /\ Call
  /\ devices' \in Ports /\ pbus' = lr_input_update(devices') /\ image' = <<>>
  /\ UNCHANGED <<now, ram, slot, engine, dma8>>

opera_madam_reset == [FSM |-> "IDLE", pending |-> FALSE, busy_until |-> 0, NEXTCCB |-> 0]

\* retro_reset: opera_3do_init resets the clock and the control port too.
opera_madam_init ==
  /\ Call
  /\ cel' = opera_madam_reset /\ owed' = FALSE /\ now' = 0
  /\ dma8' = MADAM_DMA8_IDLE_LEN /\ pbus' = opera_pbus_reset /\ devices' = <<>> /\ image' = <<>>
  /\ UNCHANGED <<walk, ram, slot>>

opera_madam_state_save ==
  /\ Call
  /\ slot' = [cel |-> cel, ram |-> ram, now |-> now, dma8 |-> dma8, owed |-> owed]
  /\ UNCHANGED <<now, ram, engine, port>>

\* A file without the timing fields (version 1, or an older chunk) was written
\* when a list was drawn as soon as the engine ran.
Legacy(c) == [c EXCEPT !.pending = c.FSM # "IDLE", !.busy_until = 0]

\* Mutant: the clock keeps its time.
load_without_clock ==
  /\ Call
  /\ cel' = slot.cel /\ owed' = slot.owed
  /\ ram' = slot.ram /\ dma8' = slot.dma8
  /\ UNCHANGED <<now, walk, slot, pbus, devices, image>>

\* A version 1 file has no clock.  The control port is not part of a state.
opera_madam_state_load ==
  /\ Call
  /\ \/ cel' = slot.cel /\ now' = slot.now /\ owed' = slot.owed
     \/ cel' = Legacy(slot.cel) /\ now' \in {now, slot.now} /\ owed' = (slot.cel.FSM # "IDLE")
  /\ ram' = slot.ram /\ dma8' = slot.dma8
  /\ UNCHANGED <<walk, slot, pbus, devices, image>>

Init ==
  /\ cel = opera_madam_reset /\ walk = Start /\ at = "tick" /\ now = 0 /\ ops = 0 /\ owed = FALSE
  /\ ram \in Rams /\ dma8 = MADAM_DMA8_IDLE_LEN
  /\ devices \in Ports /\ pbus = lr_input_update(devices) /\ image = <<>>
  /\ slot = [cel |-> opera_madam_reset, ram |-> ram, now |-> 0, dma8 |-> dma8, owed |-> FALSE]

Emulate == opera_madam_cel_tick \/ opera_madam_cel_handle \/ EndOfList \/ NoAccess

Next == \/ Emulate
        \/ PokeNextCcb \/ PokeSprStrt \/ PokeSprStop \/ PokeSprCntu \/ PokeSprPaus
        \/ opera_madam_soft_reset \/ PokeDma8Len \/ DMAPBus
        \/ NextFrame \/ opera_madam_init \/ opera_madam_state_save \/ opera_madam_state_load

Spec == Init /\ [][Next]_vars

\* The frontend calls retro_run again and again.
FairSpec == Spec /\ WF_vars(Emulate)

-----------------------------------------------------------------------------
\* A list the guest started is drawn once, unless it was stopped or the machine
\* reset first; a resumed, a restarted or a loaded engine draws nothing else:
\* the pending flag, wherever the engine can act on it, says what is owed, and
\* STATBITS shows an idle engine only when nothing is.
PendingIsOwed ==
  IF cel.FSM = "IDLE" THEN ~owed ELSE cel.pending = owed

\* The engine is never busy for longer than all control blocks would take: what
\* it compares with the clock moves with the clock, through resets and loads of
\* states with and without the timing fields ("The clock chunk restores the same
\* absolute CPU-cycle timebase", opera_madam.c:709).
BusyIsBounded ==
  LET Cost(a) == 1 + IF ram[a].skip THEN 0 ELSE Larger(ram[a].pixels, ram[a].texels)
      total[n \in 0..RAM_SIZE] == IF n = 0 THEN 1 ELSE total[n - 1] + Cost(n - 1)
  IN  cel.FSM # "IDLE" /\ ~cel.pending => cel.busy_until <= now + total[RAM_SIZE]

\* Every control port DMA of a frame brings the whole chain of the devices
\* polled for it, terminated, however often and at whatever length it is read.
PortImage == \A i \in 1..Len(image) : image[i] = Expected(devices, i)

\* A running engine comes to rest with its list drawn, unless it is paused.
EngineRests ==
  cel.FSM = "INPROCESS" ~> (cel.FSM = "IDLE" /\ ~owed) \/ cel.FSM = "SUSPENDED"
=============================================================================
