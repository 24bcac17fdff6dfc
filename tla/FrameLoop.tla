----------------------------- MODULE FrameLoop -----------------------------
(***************************************************************************)
(* The emulator's main loop (opera_3do_process_frame and                   *)
(* opera_3do_internal_frame of opera_3do.c) around CLIO: the guest runs,   *)
(* the cycles it used are turned into clock steps, and each step may run   *)
(* the DSP, some timer slots and a scanline, all of which raise interrupts.*)
(*                                                                         *)
(* CLIO's timers, interrupt registers, vertical interrupt lines and one    *)
(* input and one output channel to the DSP are here in full; a register of *)
(* bits is the set of bits that are up.  The DSP program and the guest are *)
(* any sequence of accesses.                                               *)
(***************************************************************************)
EXTENDS Clock, ClioFifo

CONSTANTS TimerMax,    \* 0xFFFF
          ExecCycles,  \* cycles opera_arm_execute may report
          Buffers,     \* addresses of the guest's audio buffers
          Lengths,     \* values it writes to a length register
          VintLines,   \* values it writes to a vertical interrupt register
          IntBits,     \* first-bank bits it sets and clears
          Programs     \* what a session does: [uses, freq, region]

ASSUME TimerMaxAssumption == TimerMax \in Nat \ {0}
ASSUME ExecCyclesAssumption == ExecCycles \subseteq Nat \ {0} /\ ExecCycles # {}
ASSUME GuestAssumption ==
  /\ Buffers \subseteq Nat /\ Lengths \subseteq Nat /\ VintLines \subseteq Nat
  /\ IntBits \subseteq 0..31
  /\ \A p \in Programs : p.freq \in Freqs /\ p.region \in Regions

VARIABLES pc,       \* where the loop is
          clk,      \* g_CLOCK
          cycles,   \* local cnt, between frames g_FRAME_CYCLE_REMAINDER
          line,     \* local line
          field,    \* field
          count,    \* the timers' counts, regs[0x100 + 8t]
          reload,   \* their reload values, regs[0x104 + 8t]
          flags,    \* their control bits in regs[0x200] and regs[0x208]
          carry,    \* TIMER_CARRY
          int0, en0, int1, en1,  \* regs[0x40], regs[0x48], regs[0x60], regs[0x68]
          vint,     \* regs[8] and regs[12]
          dma,      \* the bits of regs[0x304] for the two channels
          fi, fo,   \* fifo_i[0] and fifo_o[0]
          program,  \* fixed: the registers the guest uses, the options at power-on
          expect,   \* history: offset of the sample the input channel owes next
          touched,  \* history: timer registers written since the last even slot
          fed,      \* history: fixed-point cycles run, less those of finished fields
          vints     \* history: first vertical interrupts of this frame, -1 if unknown

clioVars  == <<count, reload, flags, carry, int0, en0, int1, en1, vint, dma, fi, fo>>
frameVars == <<pc, clk, cycles, line, field>>
histVars  == <<expect, touched, fed, vints>>
vars      == <<frameVars, clioVars, program, histVars>>

TimerIds == 0..(Timers - 1)
TimerFlags == {"DECREMENT", "RELOAD", "CASCADE"}

\* The interrupt sources, by their bit.
VINT0 == 0
VINT1 == 1
TimerInt(t) == 10 - t \div 2
AUDIO == 11
FIFO_O == 12
FIFO_I == 16
SECONDARY == 31
PBUS == 0
Vints == {VINT0, VINT1}
Int1 == {PBUS}

-----------------------------------------------------------------------------
(***************************************************************************)
(* CLIO.                                                                   *)
(***************************************************************************)
opera_clio_fiq_generate(reasons) == int0' = int0 \cup (reasons \ {SECONDARY})

\* Mutant: the interrupt belongs to the even timer.
timer_execute_interrupts_even(t) ==
  LET cin == IF t = 0 THEN 0 ELSE carry
      runs == "DECREMENT" \in flags[t] /\ ("CASCADE" \in flags[t] => cin = 1)
      under == runs /\ count[t] = 0
  IN  /\ carry' = IF under THEN 1 ELSE 0
      /\ count' = IF ~runs THEN count
                  ELSE [count EXCEPT ![t] = IF ~under THEN @ - 1
                                            ELSE IF "RELOAD" \in flags[t] THEN reload[t]
                                            ELSE TimerMax]
      /\ flags' = IF under /\ "RELOAD" \notin flags[t]
                    THEN [flags EXCEPT ![t] = @ \ {"DECREMENT"}] ELSE flags
      /\ opera_clio_fiq_generate(IF under /\ t % 2 = 0 THEN {TimerInt(t)} ELSE {})

\* A cascaded timer runs only on the carry of the timer before it; a timer
\* that underflows without RELOAD stops.
opera_clio_timer_execute(t) ==
  LET cin == IF t = 0 THEN 0 ELSE carry
      runs == "DECREMENT" \in flags[t] /\ ("CASCADE" \in flags[t] => cin = 1)
      under == runs /\ count[t] = 0
  IN  /\ carry' = IF under THEN 1 ELSE 0
      /\ count' = IF ~runs THEN count
                  ELSE [count EXCEPT ![t] = IF ~under THEN @ - 1
                                            ELSE IF "RELOAD" \in flags[t] THEN reload[t]
                                            ELSE TimerMax]
      /\ flags' = IF under /\ "RELOAD" \notin flags[t]
                    THEN [flags EXCEPT ![t] = @ \ {"DECREMENT"}] ELSE flags
      /\ opera_clio_fiq_generate(IF under /\ t % 2 = 1 THEN {TimerInt(t)} ELSE {})

-----------------------------------------------------------------------------
(***************************************************************************)
(* The guest, inside opera_arm_execute: one register write at a time.      *)
(***************************************************************************)
Guest(group) ==
  /\ pc = "guest" /\ group \in program.uses
  /\ UNCHANGED <<pc, cycles, line, field, program, fed>>

opera_clio_poke_int(reg, bits) ==
  /\ Guest("irq")
  /\ int0' = CASE reg = "0x40" -> int0 \cup (bits \ {SECONDARY})
               [] reg = "0x44" -> int0 \ bits
               [] OTHER -> int0
  /\ en0'  = CASE reg = "0x48" -> en0 \cup (bits \ {SECONDARY})
               [] reg = "0x4C" -> en0 \ (bits \cup {SECONDARY})
               [] OTHER -> en0
  /\ int1' = CASE reg = "0x60" -> int1 \cup bits [] reg = "0x64" -> int1 \ bits
               [] OTHER -> int1
  /\ en1'  = CASE reg = "0x68" -> en1 \cup bits [] reg = "0x6C" -> en1 \ bits
               [] OTHER -> en1
  /\ UNCHANGED <<clk, count, reload, flags, carry, vint, dma, fi, fo, expect,
                 touched, vints>>

\* The player bus DMA of MADAM raises the one source of the second bank.
HandleDMA8 ==
  /\ Guest("irq")
  /\ int1' = int1 \cup {PBUS}
  /\ UNCHANGED <<clk, count, reload, flags, carry, int0, en0, en1, vint, dma,
                 fi, fo, expect, touched, vints>>

opera_clio_poke_vint(v, l) ==
  /\ Guest("vint")
  /\ vint' = [vint EXCEPT ![v] = l]
  /\ vints' = -1
  /\ UNCHANGED <<clk, count, reload, flags, carry, int0, en0, int1, en1, dma,
                 fi, fo, expect, touched>>

opera_clio_poke_timer(t, n) ==
  /\ Guest("timers")
  /\ \/ count' = [count EXCEPT ![t] = n] /\ UNCHANGED reload
     \/ reload' = [reload EXCEPT ![t] = n] /\ UNCHANGED count
  /\ touched' = TRUE
  /\ UNCHANGED <<clk, flags, carry, int0, en0, int1, en1, vint, dma, fi, fo,
                 expect, vints>>

\* 0x200 and 0x208 set control bits, 0x204 and 0x20C clear them.
opera_clio_poke_control(t, bits) ==
  /\ Guest("timers")
  /\ \/ flags' = [flags EXCEPT ![t] = @ \cup bits]
     \/ flags' = [flags EXCEPT ![t] = @ \ bits]
  /\ touched' = TRUE
  /\ UNCHANGED <<clk, count, reload, carry, int0, en0, int1, en1, vint, dma,
                 fi, fo, expect, vints>>

opera_clio_poke_slack(s) ==
  /\ Guest("slack")
  /\ clk' = opera_clock_timer_set_delay(clk, s)
  /\ UNCHANGED <<clioVars, expect, touched, vints>>

opera_clio_poke_fifo(chan, reg, val) ==
  /\ Guest(chan)
  /\ IF chan = "fifo_i"
       THEN /\ fi' = opera_clio_fifo_write_i(fi, reg, val)
            /\ expect' = IF reg = "CURADR" THEN 0 ELSE expect
            /\ UNCHANGED fo
       ELSE /\ fo' = opera_clio_fifo_write_o(fo, reg, val)
            /\ UNCHANGED <<fi, expect>>
  /\ UNCHANGED <<clk, count, reload, flags, carry, int0, en0, int1, en1, vint,
                 dma, touched, vints>>

\* 0x304 and 0x308: enable and disable; 0x300: stop the channel and clear it.
opera_clio_poke_dma(chan) ==
  /\ Guest("dma")
  /\ \/ dma' \in {dma \cup {chan}, dma \ {chan}} /\ UNCHANGED <<fi, fo, expect>>
     \/ /\ dma' = dma \ {chan}
        /\ IF chan = "fifo_i" THEN fi' = ClearedInput /\ expect' = 0 /\ UNCHANGED fo
                              ELSE fo' = ClearedOutput /\ UNCHANGED <<fi, expect>>
  /\ UNCHANGED <<clk, count, reload, flags, carry, int0, en0, int1, en1, vint,
                 touched, vints>>

-----------------------------------------------------------------------------
(***************************************************************************)
(* The loop.                                                               *)
(***************************************************************************)
Scanlines == clk.region.lines
LineCycles == CYCLES_PER_SCANLINE(clk.freq, clk.region)

\* The conditions of the loops, tested after anything that changes them.
LoopAt(c, l) == IF l >= Scanlines THEN "frame" ELSE IF c >= Step THEN "step" ELSE "guest"

opera_3do_process_frame ==
  /\ pc = "frame"
  /\ line' = 0 /\ vints' = 0
  /\ pc' = LoopAt(cycles, 0)
  /\ UNCHANGED <<clk, cycles, field, clioVars, program, expect, touched, fed>>

opera_arm_execute(c) ==
  /\ pc = "guest"
  /\ cycles' = cycles + c
  /\ fed' = fed + c * One
  /\ pc' = LoopAt(cycles', line)
  /\ UNCHANGED <<clk, line, field, clioVars, program, expect, touched, vints>>

opera_3do_internal_frame ==
  /\ pc = "step"
  /\ LET c == opera_clock_push_cycles(clk)
     IN  /\ clk' = opera_clock_dsp_queued(c)
         /\ pc' = IF dsp_queued(c) THEN "dsp" ELSE "timers"
  /\ UNCHANGED <<cycles, line, field, clioVars, program, histVars>>

\* The DSP program, inside EXT_DSP_TRIGGER.
DspRead == opera_clio_fifo_ei(fi, "fifo_i" \in dma)
\* The reload is gated by bit 1 << channel: the bit of the input channel.
DspWrite == opera_clio_fifo_eo(fo, "fifo_i" \in dma)

dsp_read ==
  /\ pc = "dsp" /\ "fifo_i" \in program.uses
  /\ fi' = DspRead.f
  /\ opera_clio_fiq_generate(IF DspRead.irq THEN {FIFO_I} ELSE {})
  /\ expect' = IF ~DspRead.read THEN 0
               ELSE IF DspRead.at + SampleBytes >= DspRead.buf.len THEN 0
               ELSE DspRead.at + SampleBytes
  /\ UNCHANGED <<frameVars, count, reload, flags, carry, en0, int1, en1, vint, dma, fo,
                 program, touched, fed, vints>>

dsp_write ==
  /\ pc = "dsp" /\ "fifo_o" \in program.uses
  /\ fo' = DspWrite.f
  /\ opera_clio_fiq_generate(IF DspWrite.irq THEN {FIFO_O} ELSE {})
  /\ UNCHANGED <<frameVars, count, reload, flags, carry, en0, int1, en1, vint, dma, fi,
                 program, histVars>>

\* The end of opera_dsp_loop, with or without the audio interrupt.
opera_dsp_loop ==
  /\ pc = "dsp"
  /\ pc' = "timers"
  /\ \/ opera_clio_fiq_generate({})
     \/ "irq" \in program.uses /\ opera_clio_fiq_generate({AUDIO})
  /\ UNCHANGED <<clk, cycles, line, field, count, reload, flags, carry, en0, int1, en1, vint, dma,
                 fi, fo, program, histVars>>

TimerSlot(t) == pc = "timers" /\ timer_queued(clk) /\ clk.slot = t

timer_slot ==
  /\ TimerSlot(clk.slot)
  /\ opera_clio_timer_execute(clk.slot)
  /\ clk' = opera_clock_timer_queued(clk)
  /\ touched' = (touched /\ clk.slot % 2 = 1)
  /\ UNCHANGED <<pc, cycles, line, field, reload, en0, int1, en1, vint, dma, fi, fo,
                 program, expect, fed, vints>>

\* Mutant: the cycles left over at the end of a frame are dropped.
scanline_drops_remainder ==
  LET due == vdl_queued(clk)
      l   == IF due THEN line + 1 ELSE line
      hit == {v \in Vints : due /\ vint[v] = line}
  IN  /\ pc = "timers" /\ ~timer_queued(clk)
      /\ clk' = opera_clock_vdl_queued(clk)
      /\ opera_clio_fiq_generate(hit)
      /\ line' = l
      /\ cycles' = IF l >= Scanlines THEN 0 ELSE cycles - Step
      /\ pc' = LoopAt(cycles', l)
      /\ field' = IF l >= Scanlines THEN 1 - field ELSE field
      /\ fed' = IF l >= Scanlines THEN fed - Scanlines * LineCycles ELSE fed
      /\ vints' = IF vints >= 0 /\ VINT0 \in hit THEN vints + 1 ELSE vints
      /\ UNCHANGED <<count, reload, flags, carry, en0, int1, en1, vint, dma, fi, fo,
                     program, expect, touched>>

\* Mutant: the line is compared whether or not one is due.
scanline_compares_always ==
  LET due == vdl_queued(clk)
      l   == IF due THEN line + 1 ELSE line
      hit == {v \in Vints : vint[v] = line}
  IN  /\ pc = "timers" /\ ~timer_queued(clk)
      /\ clk' = opera_clock_vdl_queued(clk)
      /\ opera_clio_fiq_generate(hit)
      /\ line' = l
      /\ cycles' = cycles - Step
      /\ pc' = LoopAt(cycles', l)
      /\ field' = IF l >= Scanlines THEN 1 - field ELSE field
      /\ fed' = IF l >= Scanlines THEN fed - Scanlines * LineCycles ELSE fed
      /\ vints' = IF vints >= 0 /\ VINT0 \in hit THEN vints + 1 ELSE vints
      /\ UNCHANGED <<count, reload, flags, carry, en0, int1, en1, vint, dma, fi, fo,
                     program, expect, touched>>

\* The rest of the step: the scanline if one is due, and the loop's test.
\* The last line ends the frame: the cycles left over wait for the next one.
scanline ==
  LET due == vdl_queued(clk)
      l   == IF due THEN line + 1 ELSE line
      hit == {v \in Vints : due /\ vint[v] = line}
  IN  /\ pc = "timers" /\ ~timer_queued(clk)
      /\ clk' = opera_clock_vdl_queued(clk)
      /\ opera_clio_fiq_generate(hit)
      /\ line' = l
      /\ cycles' = cycles - Step
      /\ pc' = LoopAt(cycles', l)
      /\ field' = IF l >= Scanlines THEN 1 - field ELSE field
      /\ fed' = IF l >= Scanlines THEN fed - Scanlines * LineCycles ELSE fed
      /\ vints' = IF vints >= 0 /\ VINT0 \in hit THEN vints + 1 ELSE vints
      /\ UNCHANGED <<count, reload, flags, carry, en0, int1, en1, vint, dma, fi, fo,
                     program, expect, touched>>

-----------------------------------------------------------------------------
(***************************************************************************)
(* The frontend.                                                           *)
(***************************************************************************)
Zeros   == [t \in TimerIds |-> 0]
NoFlags == [t \in TimerIds |-> {}]
NoVint  == [v \in Vints |-> 0]

opera_clio_init ==
  /\ count' = Zeros /\ reload' = Zeros /\ flags' = NoFlags /\ carry' = 0
  /\ int0' = {} /\ en0' = {} /\ int1' = {} /\ en1' = {}
  /\ vint' = NoVint /\ dma' = {} /\ fi' = EmptyChannel /\ fo' = EmptyChannel

opera_3do_reset_runtime_state ==
  /\ field' = 0 /\ cycles' = 0 /\ clk' = opera_clock_reset(clk)

\* retro_reset between frames, or an ODE launch that makes process_frame
\* return in the middle of one.
opera_3do_init ==
  /\ pc \in {"frame", "guest"}
  /\ opera_3do_reset_runtime_state
  /\ opera_clio_init
  /\ pc' = "frame" /\ line' = 0
  /\ expect' = 0 /\ touched' = FALSE /\ fed' = 0 /\ vints' = -1
  /\ UNCHANGED program

Frontend ==
  /\ pc = "frame" /\ "options" \in program.uses
  /\ UNCHANGED <<pc, cycles, line, field, clioVars, program, histVars>>
set_freq(f)   == Frontend /\ clk' = opera_clock_cpu_set_freq(clk, f)
set_region(r) == Frontend /\ clk' = opera_clock_region_set(clk, r)

PowerOnClock(f, r) ==
  opera_clock_reset([freq |-> f, region |-> r, dsp_acc |-> 0, vdl_acc |-> 0, timer_acc |-> 0,
                     slack |-> DefaultSlack, slot |-> 0, in_gap |-> FALSE, until |-> 0])

Init ==
  /\ program \in Programs
  /\ clk = PowerOnClock(program.freq, program.region)
  /\ pc = "frame" /\ line = 0 /\ field = 0 /\ cycles = 0
  /\ count = Zeros /\ reload = Zeros /\ flags = NoFlags /\ carry = 0
  /\ int0 = {} /\ en0 = {} /\ int1 = {} /\ en1 = {}
  /\ vint = NoVint /\ dma = {} /\ fi = EmptyChannel /\ fo = EmptyChannel
  /\ expect = 0 /\ touched = FALSE /\ fed = 0 /\ vints = -1

GuestPokes ==
  \/ \E reg \in {"0x40", "0x44", "0x48", "0x4C"}, bits \in {{b} : b \in IntBits} :
       opera_clio_poke_int(reg, bits)
  \/ \E reg \in {"0x60", "0x64", "0x68", "0x6C"}, bits \in {{b} : b \in Int1} :
       opera_clio_poke_int(reg, bits)
  \/ HandleDMA8
  \/ \E v \in Vints, l \in VintLines : opera_clio_poke_vint(v, l)
  \/ \E t \in TimerIds, n \in 0..TimerMax : opera_clio_poke_timer(t, n)
  \/ \E t \in TimerIds, bits \in SUBSET TimerFlags : opera_clio_poke_control(t, bits)
  \/ \E s \in Slacks : opera_clio_poke_slack(s)
  \/ \E chan \in {"fifo_i", "fifo_o"} :
       \/ \E reg \in {"CURADR", "RLDADR"}, a \in Buffers : opera_clio_poke_fifo(chan, reg, a)
       \/ \E reg \in {"CURLEN", "RLDLEN"}, n \in Lengths : opera_clio_poke_fifo(chan, reg, n)
       \/ opera_clio_poke_dma(chan)

LoopStep ==
  \/ opera_3do_process_frame
  \/ \E c \in ExecCycles : opera_arm_execute(c)
  \/ opera_3do_internal_frame
  \/ opera_dsp_loop
  \/ timer_slot
  \/ scanline

Next ==
  \/ LoopStep
  \/ dsp_read \/ dsp_write
  \/ GuestPokes
  \/ opera_3do_init
  \/ \E f \in Freqs : set_freq(f)
  \/ \E r \in Regions : set_region(r)

Spec == Init /\ [][Next]_vars

\* An instruction of the guest ends and the loop goes on.  Nothing is assumed of
\* the frontend, nor of the DSP program: only its own sleep instruction ends a tick.
Inside == \/ \E c \in ExecCycles : opera_arm_execute(c)
          \/ opera_3do_internal_frame \/ timer_slot \/ scanline
FairSpec == Spec /\ WF_vars(Inside)

-----------------------------------------------------------------------------
(***************************************************************************)
(* Properties.                                                             *)
(***************************************************************************)
Clocks ==
  [freq : Freqs, region : Regions, dsp_acc : Nat, vdl_acc : Nat, timer_acc : Nat,
   slack : Slacks \cup {DefaultSlack}, slot : TimerIds, in_gap : BOOLEAN, until : Nat]
BufferRange == [addr : Nat, len : Nat]
Channels == [idx : Nat, start : BufferRange, next : BufferRange]

\* Type correctness of the frame loop: 16-bit timers, known interrupt bits, no
\* negative accumulator, cursor or cycle remainder.
TypeOK ==
  /\ pc \in {"frame", "guest", "step", "dsp", "timers"}
  /\ clk \in Clocks
  /\ cycles \in Nat /\ line \in Nat /\ field \in {0, 1}
  /\ count \in [TimerIds -> 0..TimerMax] /\ reload \in [TimerIds -> 0..TimerMax]
  /\ flags \in [TimerIds -> SUBSET TimerFlags] /\ carry \in {0, 1}
  /\ int0 \subseteq 0..31 /\ en0 \subseteq 0..31
  /\ int1 \subseteq Int1 /\ en1 \subseteq Int1
  /\ vint \in [Vints -> Nat] /\ dma \subseteq {"fifo_i", "fifo_o"}
  /\ fi \in Channels /\ fo \in Channels
  /\ program \in Programs
  /\ expect \in Nat /\ touched \in BOOLEAN /\ fed \in Int /\ vints \in Int

\* Timers t and t+1 chained: t free-running, t+1 counting its underflows.
Chained(t) == /\ flags[t] = {"DECREMENT", "RELOAD"}
              /\ flags[t + 1] = {"DECREMENT", "RELOAD", "CASCADE"}
\* The chain as one counter; borrow is an underflow of t not yet taken by t+1.
Wide(t, borrow) == (count[t + 1] - borrow) * (reload[t] + 1) + count[t]
WideSize(t) == (reload[t] + 1) * (reload[t + 1] + 1)

\* Two chained timers are one counter of the product of their periods: slot t
\* takes exactly one from it, slot t+1 reloads it exactly when it went below
\* zero, and only then interrupts, wherever the guest runs between the two
\* slots (unless it writes timer registers there).
CascadeCountsAsOne ==
  [][\A t \in TimerIds : t % 2 = 0 /\ t + 1 \in TimerIds /\ Chained(t) =>
       /\ TimerSlot(t) /\ timer_slot => Wide(t, carry)' = Wide(t, 0) - 1 /\ int0' = int0
       /\ TimerSlot(t + 1) /\ timer_slot /\ ~touched =>
            LET w == Wide(t, carry)
            IN  /\ Wide(t, 0)' = IF w < 0 THEN w + WideSize(t) ELSE w
                /\ TimerInt(t + 1) \in int0' <=> TimerInt(t + 1) \in int0 \/ w < 0]_vars

\* No cycle is lost or counted twice between the CPU and the display: the
\* cycles executed are the lines shown, the accumulator and the remainder, in
\* the middle of a step, across frames and changes of frequency or region.
CyclesConserved ==
  LET counted == IF pc \in {"dsp", "timers"} THEN Step ELSE 0
      shown   == IF pc = "frame" THEN 0 ELSE line * LineCycles
  IN  fed = (cycles - counted) * One + clk.vdl_acc + shown

TimerWaits == {SlotTicks} \cup {SlotTicks + s : s \in Slacks \cup {DefaultSlack}}

\* The accumulators stay below the longest period any setting gives them, so
\* their 32 bits suffice however long the session and whatever the options do.
NoBacklog ==
  /\ \E f \in Freqs : clk.dsp_acc < CYCLES_PER_SND(f)
  /\ \E f \in Freqs, r \in Regions :
       clk.vdl_acc < CYCLES_PER_SCANLINE(f, r) + (IF pc \in {"dsp", "timers"} THEN Step * One ELSE 0)
  /\ pc \notin {"dsp", "timers"} =>
       \E f \in Freqs, n \in TimerWaits : clk.timer_acc < CYCLES_PER_M25M(f, n)

\* A field during which the guest left the register alone raises the first
\* vertical interrupt once, at a line the field has, else not at all.
VintOncePerField ==
  [][pc = "timers" /\ pc' = "frame" /\ vints' # -1 =>
       vints' = IF vint[VINT0] < Scanlines THEN 1 ELSE 0]_vars

\* The DSP reads the samples of a buffer in order, each once, and none beyond
\* its end, and the next buffer from its start, whatever the guest does to the
\* registers between two samples.
SamplesInOrder ==
  pc = "dsp" /\ DspRead.read =>
    /\ DspRead.at = IF expect >= fi.start.len THEN 0 ELSE expect
    /\ DspRead.at < DspRead.buf.len \/ DspRead.buf.len = 0

\* Frames end (opera_3do_process_frame returns), whatever the guest writes to
\* the timers and the slack register and however the options change, unless a
\* DSP program never sleeps.
FrameEnds == []<>(pc = "frame") \/ <>[](pc = "dsp")
=============================================================================
