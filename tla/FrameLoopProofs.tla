-------------------------- MODULE FrameLoopProofs --------------------------
(***************************************************************************)
(* Proofs about FrameLoop, for every scale of the clock, every number of   *)
(* timers, every set of options and any guest.                             *)
(***************************************************************************)
EXTENDS FrameLoop, TLAPS

USE ScaleAssumption

-----------------------------------------------------------------------------
(***************************************************************************)
(* The clock.                                                              *)
(***************************************************************************)
\* A period of the clock is a natural number.
LEMMA DivType ==
  ASSUME NEW a \in Nat, NEW b \in Nat \ {0} PROVE a \div b \in Nat
  OBVIOUS

\* Products of naturals.
LEMMA MulType ==
  ASSUME NEW a \in Nat, NEW b \in Nat PROVE a * b \in Nat
  OBVIOUS

\* A product of positive numbers is positive.
LEMMA MulPositive ==
  ASSUME NEW a \in Nat \ {0}, NEW b \in Nat \ {0} PROVE a * b \in Nat \ {0}
  OBVIOUS

\* The periods the options can give.
LEMMA PeriodType ==
  ASSUME NEW f \in Freqs, NEW r \in Regions, NEW n \in Nat
  PROVE  /\ CYCLES_PER_SND(f) \in Nat /\ CYCLES_PER_SND(f) >= Step * One
         /\ CYCLES_PER_SCANLINE(f, r) \in Nat /\ CYCLES_PER_SCANLINE(f, r) >= Step * One
         /\ CYCLES_PER_M25M(f, n) \in Nat
         /\ r.lines \in Nat \ {0} /\ f \in Nat
<1>1. f \in Nat /\ r.lines \in Nat \ {0} /\ r.rate \in Nat \ {0}
  BY RatesAssumption
<1>2. f * One \in Nat /\ f * n \in Nat
  BY <1>1, MulType
<1>3. f * One * One \in Nat /\ f * n * One \in Nat
  BY <1>2, MulType
<1>4. r.rate * r.lines \in Nat \ {0}
  BY <1>1, MulPositive
<1>5. CYCLES_PER_SND(f) \in Nat
  BY <1>2, DivType DEF CYCLES_PER_SND
<1>6. CYCLES_PER_SCANLINE(f, r) \in Nat
  BY <1>3, <1>4, DivType DEF CYCLES_PER_SCANLINE
<1>7. CYCLES_PER_M25M(f, n) \in Nat
  BY <1>3, DivType DEF CYCLES_PER_M25M
<1> QED
  BY <1>1, <1>5, <1>6, <1>7, RatesAssumption

\* The parts of a clock record.
LEMMA ClockParts ==
  ASSUME NEW c \in Clocks
  PROVE  /\ c.freq \in Freqs /\ c.region \in Regions /\ c.slack \in Nat
         /\ c.dsp_acc \in Nat /\ c.vdl_acc \in Nat /\ c.timer_acc \in Nat
         /\ c.slot \in TimerIds /\ c.until \in Nat
         /\ CYCLES_PER_SND(c.freq) \in Nat
         /\ CYCLES_PER_SCANLINE(c.freq, c.region) \in Nat
         /\ CYCLES_PER_M25M(c.freq, SlotTicks) \in Nat
         /\ CYCLES_PER_M25M(c.freq, SlotTicks + c.slack) \in Nat
<1>1. c.freq \in Freqs /\ c.region \in Regions /\ c.slack \in Nat
  BY DEF Clocks
<1>2. SlotTicks + c.slack \in Nat
  BY <1>1
<1>3. c.dsp_acc \in Nat /\ c.vdl_acc \in Nat /\ c.timer_acc \in Nat /\ c.slot \in TimerIds
      /\ c.until \in Nat
  BY DEF Clocks
<1> QED
  BY <1>1, <1>2, <1>3, PeriodType

\* A recalculation gives a clock.
LEMMA RecalculateType ==
  ASSUME NEW c \in Clocks
  PROVE  recalculate_cycles_per(c) \in Clocks
  BY ClockParts DEF recalculate_cycles_per, Clocks

\* Zero is a timer slot.
LEMMA SlotZero == 0 \in TimerIds
  BY DEF TimerIds

\* Every operation on the clock gives a clock.
LEMMA ClockOps ==
  ASSUME NEW c \in Clocks
  PROVE  /\ opera_clock_reset(c) \in Clocks
         /\ \A f \in Freqs : opera_clock_cpu_set_freq(c, f) \in Clocks
         /\ \A r \in Regions : opera_clock_region_set(c, r) \in Clocks
         /\ \A s \in Slacks : opera_clock_timer_set_delay(c, s) \in Clocks
         /\ opera_clock_push_cycles(c) \in Clocks
         /\ opera_clock_dsp_queued(c) \in Clocks
         /\ opera_clock_vdl_queued(c) \in Clocks
         /\ timer_queued(c) => opera_clock_timer_queued(c) \in Clocks
<1> USE ClockParts
<1>1. opera_clock_reset(c) \in Clocks
  <2>1. [c EXCEPT !.dsp_acc = 0, !.vdl_acc = 0, !.timer_acc = 0,
                  !.slack = DefaultSlack, !.slot = 0, !.in_gap = FALSE] \in Clocks
    BY SlotZero DEF Clocks
  <2> QED
    BY <2>1, RecalculateType DEF opera_clock_reset
<1>2. ASSUME NEW f \in Freqs PROVE opera_clock_cpu_set_freq(c, f) \in Clocks
  <2>1. [c EXCEPT !.freq = f] \in Clocks
    BY DEF Clocks
  <2> QED
    BY <2>1, RecalculateType DEF opera_clock_cpu_set_freq
<1>3. ASSUME NEW r \in Regions PROVE opera_clock_region_set(c, r) \in Clocks
  <2>1. [c EXCEPT !.region = r] \in Clocks
    BY DEF Clocks
  <2> QED
    BY <2>1, RecalculateType DEF opera_clock_region_set
<1>4. ASSUME NEW s \in Slacks PROVE opera_clock_timer_set_delay(c, s) \in Clocks
  <2>1. [c EXCEPT !.slack = s] \in Clocks
    BY DEF Clocks
  <2> QED
    BY <2>1, RecalculateType DEF opera_clock_timer_set_delay
<1>5. opera_clock_push_cycles(c) \in Clocks
  <2> DEFINE x == c.dsp_acc + Step * One
             y == c.vdl_acc + Step * One
             z == c.timer_acc + Step * One
  <2>1. x \in Nat /\ y \in Nat /\ z \in Nat
    BY MulType
  <2>2. opera_clock_push_cycles(c) = [c EXCEPT !.dsp_acc = x, !.vdl_acc = y, !.timer_acc = z]
    BY DEF opera_clock_push_cycles
  <2> HIDE DEF x, y, z
  <2> QED
    BY <2>1, <2>2 DEF Clocks
<1>6. opera_clock_dsp_queued(c) \in Clocks
  BY DEF opera_clock_dsp_queued, dsp_queued, Clocks
<1>7. opera_clock_vdl_queued(c) \in Clocks
  BY DEF opera_clock_vdl_queued, vdl_queued, Clocks
<1>8. ASSUME timer_queued(c) PROVE opera_clock_timer_queued(c) \in Clocks
  <2> DEFINE last == c.slot + 1 >= Timers
             acc  == c.timer_acc - c.until
             slot == IF last THEN 0 ELSE c.slot + 1
             wait == CYCLES_PER_M25M(c.freq, IF last THEN SlotTicks + c.slack ELSE SlotTicks)
  <2>1. acc \in Nat
    BY <1>8 DEF timer_queued
  <2>2. slot \in TimerIds
    BY DEF TimerIds
  <2>3. wait \in Nat
    OBVIOUS
  <2>4. last \in BOOLEAN
    OBVIOUS
  <2>5. opera_clock_timer_queued(c)
          = [c EXCEPT !.timer_acc = acc, !.slot = slot, !.in_gap = last, !.until = wait]
    BY DEF opera_clock_timer_queued
  <2> HIDE DEF acc, slot, last, wait
  <2> QED
    BY <2>1, <2>2, <2>3, <2>4, <2>5 DEF Clocks
<1> QED
  BY <1>1, <1>2, <1>3, <1>4, <1>5, <1>6, <1>7, <1>8

\* Power-on gives a clock.
LEMMA PowerOnType ==
  ASSUME NEW f \in Freqs, NEW r \in Regions
  PROVE  PowerOnClock(f, r) \in Clocks
<1>1. [freq |-> f, region |-> r, dsp_acc |-> 0, vdl_acc |-> 0, timer_acc |-> 0,
       slack |-> DefaultSlack, slot |-> 0, in_gap |-> FALSE, until |-> 0] \in Clocks
  BY SlotZero DEF Clocks
<1> QED
  BY <1>1, ClockOps DEF PowerOnClock

-----------------------------------------------------------------------------
(***************************************************************************)
(* The channels.                                                           *)
(***************************************************************************)
\* Every write by the guest gives a channel.
LEMMA FifoWriteType ==
  ASSUME NEW f \in Channels, NEW reg \in {"CURADR", "CURLEN", "RLDADR", "RLDLEN"}, NEW val \in Nat
  PROVE  /\ opera_clio_fifo_write_i(f, reg, val) \in Channels
         /\ opera_clio_fifo_write_o(f, reg, val) \in Channels
<1>1. InputLen(val) \in Nat /\ OutputLen(val) \in Nat
  BY DEF InputLen, OutputLen
<1>2. CASE reg = "CURADR"
  BY <1>2 DEF opera_clio_fifo_write_i, opera_clio_fifo_write_o, Channels, BufferRange
<1>3. CASE reg = "CURLEN"
  BY <1>1, <1>3 DEF opera_clio_fifo_write_i, opera_clio_fifo_write_o, Channels, BufferRange
<1>4. CASE reg = "RLDADR"
  BY <1>4 DEF opera_clio_fifo_write_i, opera_clio_fifo_write_o, Channels, BufferRange
<1>5. CASE reg = "RLDLEN"
  BY <1>1, <1>5 DEF opera_clio_fifo_write_i, opera_clio_fifo_write_o, Channels, BufferRange
<1> QED
  BY <1>2, <1>3, <1>4, <1>5

\* The end of a buffer gives a channel.
LEMMA CompleteType ==
  ASSUME NEW f \in Channels, NEW e \in BOOLEAN
  PROVE  clio_fifo_complete(f, e) \in Channels
  BY DEF clio_fifo_complete, Channels, BufferRange

\* Every access by the DSP gives a channel.
LEMMA DspAccessType ==
  ASSUME NEW f \in Channels, NEW e \in BOOLEAN
  PROVE  /\ opera_clio_fifo_ei(f, e).f \in Channels
         /\ opera_clio_fifo_ei(f, e).at \in Nat
         /\ opera_clio_fifo_eo(f, e).f \in Channels
<1> DEFINE g == ReadyInput(f, e)
           h == [g EXCEPT !.idx = @ + SampleBytes]
<1>1. g \in Channels
  BY CompleteType DEF ReadyInput
<1>2. h \in Channels
  BY <1>1 DEF Channels, SampleBytes
<1>3. clio_fifo_complete(h, e) \in Channels
  BY <1>2, CompleteType
<1>4. g.idx \in Nat
  BY <1>1 DEF Channels
<1>5. opera_clio_fifo_ei(f, e).f \in Channels
  BY <1>1, <1>2, <1>3 DEF opera_clio_fifo_ei
<1>6. opera_clio_fifo_ei(f, e).at \in Nat
  BY <1>4 DEF opera_clio_fifo_ei
<1>7. [f EXCEPT !.idx = @ + SampleBytes] \in Channels
  BY DEF Channels, SampleBytes
<1>8. opera_clio_fifo_eo(f, e).f \in Channels
  BY <1>7, CompleteType DEF opera_clio_fifo_eo
<1> QED
  BY <1>5, <1>6, <1>8

-----------------------------------------------------------------------------
(***************************************************************************)
(* Types.  A step is only taken with its cycles in hand, and only while    *)
(* the field has a line left; without this the remainder could be          *)
(* negative.                                                               *)
(***************************************************************************)
LoopInv ==
  /\ pc # "frame" => line < Scanlines
  /\ pc \in {"step", "dsp", "timers"} => cycles >= Step

TypeInv == TypeOK /\ LoopInv

\* The region of the clock has a line.
LEMMA ScanlinesType ==
  ASSUME clk \in Clocks
  PROVE  Scanlines \in Nat \ {0} /\ LineCycles \in Nat
  BY ClockParts, PeriodType DEF Scanlines, LineCycles

\* Where the loop goes on, its own conditions hold.
LEMMA LoopAtType ==
  ASSUME NEW c \in Int, NEW l \in Int, clk \in Clocks
  PROVE  /\ LoopAt(c, l) \in {"frame", "guest", "step", "dsp", "timers"}
         /\ LoopAt(c, l) = "frame" <=> l >= Scanlines
         /\ LoopAt(c, l) \in {"step", "dsp", "timers"} => c >= Step
  BY ScanlinesType DEF LoopAt

\* The interrupt numbers fit the register.
LEMMA FiqType ==
  ASSUME NEW r, r \subseteq 0..31, int0 \subseteq 0..31, opera_clio_fiq_generate(r)
  PROVE  int0' \subseteq 0..31
  BY DEF opera_clio_fiq_generate

\* The timers' interrupts are bits of the register.
LEMMA TimerIntType == ASSUME NEW t \in TimerIds PROVE TimerInt(t) \in 0..31 /\ TimerInt(t) <= 10
<1>1. t \in Nat /\ t <= 15
  BY DEF TimerIds
<1>2. t \div 2 \in Nat /\ t \div 2 <= 7
  BY <1>1
<1> QED
  BY <1>2 DEF TimerInt

\* The power-on state has its types.
LEMMA TypeInit == Init => TypeInv
<1> SUFFICES ASSUME Init PROVE TypeInv
  OBVIOUS
<1>1. clk \in Clocks
  BY PowerOnType, GuestAssumption DEF Init
<1>2. EmptyChannel \in Channels
  BY DEF EmptyChannel, NoBuffer, Channels, BufferRange
<1>3. Zeros \in [TimerIds -> 0..TimerMax] /\ NoFlags \in [TimerIds -> SUBSET TimerFlags]
      /\ NoVint \in [Vints -> Nat]
  BY TimerMaxAssumption DEF Zeros, NoFlags, NoVint
<1>4. touched \in BOOLEAN
  BY Zenon DEF Init
<1>5. int0 \subseteq 0..31 /\ en0 \subseteq 0..31 /\ int1 \subseteq Int1 /\ en1 \subseteq Int1
      /\ dma \subseteq {"fifo_i", "fifo_o"}
  BY DEF Init
<1>6. /\ pc = "frame" /\ cycles \in Nat /\ line \in Nat /\ field \in {0, 1} /\ carry \in {0, 1}
      /\ program \in Programs /\ expect \in Nat /\ fed \in Int /\ vints \in Int
  BY DEF Init
<1>7. count = Zeros /\ reload = Zeros /\ flags = NoFlags /\ vint = NoVint /\ fi = EmptyChannel
      /\ fo = EmptyChannel
  BY DEF Init
<1> QED
  BY <1>1, <1>2, <1>3, <1>4, <1>5, <1>6, <1>7 DEF TypeInv, TypeOK, LoopInv

\* A reset has its types.
LEMMA TypeReset == TypeInv /\ opera_3do_init => TypeInv'
<1> SUFFICES ASSUME TypeInv, opera_3do_init PROVE TypeInv'
  OBVIOUS
<1>1. clk' \in Clocks
  BY ClockOps DEF TypeInv, TypeOK, opera_3do_init, opera_3do_reset_runtime_state
<1>2. EmptyChannel \in Channels
  BY DEF EmptyChannel, NoBuffer, Channels, BufferRange
<1>3. Zeros \in [TimerIds -> 0..TimerMax] /\ NoFlags \in [TimerIds -> SUBSET TimerFlags]
      /\ NoVint \in [Vints -> Nat]
  BY TimerMaxAssumption DEF Zeros, NoFlags, NoVint
<1>4. touched' \in BOOLEAN
  BY Zenon DEF opera_3do_init
<1>5. /\ int0' = {} /\ en0' = {} /\ int1' = {} /\ en1' = {} /\ dma' = {}
      /\ count' = Zeros /\ reload' = Zeros /\ flags' = NoFlags /\ vint' = NoVint
      /\ fi' = EmptyChannel /\ fo' = EmptyChannel /\ carry' = 0
  BY DEF opera_3do_init, opera_clio_init
<1>6. /\ pc' = "frame" /\ cycles' \in Nat /\ line' \in Nat /\ field' \in {0, 1}
      /\ program' \in Programs /\ expect' \in Nat /\ fed' \in Int /\ vints' \in Int
  BY DEF opera_3do_init, opera_3do_reset_runtime_state, TypeInv, TypeOK
<1>7. TypeOK'
  BY <1>1, <1>2, <1>3, <1>4, <1>5, <1>6 DEF TypeOK
<1> QED
  BY <1>6, <1>7 DEF TypeInv, LoopInv

\* The guest's writes keep the types.
LEMMA TypePokes == TypeInv /\ GuestPokes => TypeInv'
<1> SUFFICES ASSUME TypeInv, GuestPokes PROVE TypeInv'
  OBVIOUS
<1> USE DEF TypeInv, TypeOK, LoopInv, Guest
<1>1. ASSUME NEW reg, NEW bits, bits \subseteq 0..31, opera_clio_poke_int(reg, bits),
             reg \in {"0x40", "0x44", "0x48", "0x4C"} \/ bits \subseteq Int1
      PROVE  TypeInv'
  BY <1>1 DEF opera_clio_poke_int, Scanlines
<1>2. CASE HandleDMA8
  BY <1>2 DEF HandleDMA8, Int1, Scanlines
<1>3. ASSUME NEW v \in Vints, NEW l \in VintLines, opera_clio_poke_vint(v, l) PROVE TypeInv'
  BY <1>3, GuestAssumption DEF opera_clio_poke_vint, Scanlines
<1>4. ASSUME NEW t \in TimerIds, NEW n \in 0..TimerMax, opera_clio_poke_timer(t, n) PROVE TypeInv'
  BY <1>4 DEF opera_clio_poke_timer, Scanlines
<1>5. ASSUME NEW t \in TimerIds, NEW bits \in SUBSET TimerFlags, opera_clio_poke_control(t, bits)
      PROVE  TypeInv'
  BY <1>5 DEF opera_clio_poke_control, Scanlines
<1>6. ASSUME NEW s \in Slacks, opera_clio_poke_slack(s) PROVE TypeInv'
  <2>1. clk' \in Clocks /\ clk'.region = clk.region
    BY <1>6, ClockOps DEF opera_clio_poke_slack, opera_clock_timer_set_delay,
       recalculate_cycles_per, Clocks
  <2> QED
    BY <1>6, <2>1 DEF opera_clio_poke_slack, clioVars, Scanlines
<1>7. ASSUME NEW chan \in {"fifo_i", "fifo_o"}, NEW val \in Nat,
             NEW reg \in {"CURADR", "CURLEN", "RLDADR", "RLDLEN"},
             opera_clio_poke_fifo(chan, reg, val)
      PROVE  TypeInv'
  <2>1. fi' \in Channels /\ fo' \in Channels /\ expect' \in Nat
    <3>1. /\ opera_clio_fifo_write_i(fi, reg, val) \in Channels
          /\ opera_clio_fifo_write_o(fo, reg, val) \in Channels
      BY FifoWriteType
    <3>2. CASE chan = "fifo_i"
      BY <1>7, <3>1, <3>2 DEF opera_clio_poke_fifo
    <3>3. CASE chan = "fifo_o"
      BY <1>7, <3>1, <3>3 DEF opera_clio_poke_fifo
    <3> QED
      BY <3>2, <3>3
  <2> QED
    BY <1>7, <2>1 DEF opera_clio_poke_fifo, Scanlines
<1>8. ASSUME NEW chan \in {"fifo_i", "fifo_o"}, opera_clio_poke_dma(chan) PROVE TypeInv'
  <2>1. ClearedInput \in Channels /\ ClearedOutput \in Channels
    BY DEF ClearedInput, ClearedOutput, EmptyChannel, NoBuffer, OutputLen, Channels, BufferRange
  <2>2. dma' \subseteq {"fifo_i", "fifo_o"}
    BY <1>8 DEF opera_clio_poke_dma
  <2>3. fi' \in Channels /\ fo' \in Channels /\ expect' \in Nat
    <3>1. CASE UNCHANGED <<fi, fo, expect>>
      BY <3>1
    <3>2. CASE fi' = ClearedInput /\ expect' = 0 /\ UNCHANGED fo
      BY <2>1, <3>2
    <3>3. CASE fo' = ClearedOutput /\ UNCHANGED <<fi, expect>>
      BY <2>1, <3>3
    <3> QED
      BY <1>8, <3>1, <3>2, <3>3, Zenon DEF opera_clio_poke_dma
  <2> QED
    BY <1>8, <2>2, <2>3 DEF opera_clio_poke_dma, Scanlines
<1>9. {PBUS} \subseteq 0..31 /\ \A b \in IntBits : {b} \subseteq 0..31
  BY GuestAssumption DEF PBUS
<1> QED
  BY <1>1, <1>2, <1>3, <1>4, <1>5, <1>6, <1>7, <1>8, <1>9, GuestAssumption DEF GuestPokes, Int1

\* The steps of the loop and of the DSP keep the types.
LEMMA TypeLoop == TypeInv /\ (LoopStep \/ dsp_read \/ dsp_write) => TypeInv'
<1> SUFFICES ASSUME TypeInv, LoopStep \/ dsp_read \/ dsp_write PROVE TypeInv'
  OBVIOUS
<1> USE DEF TypeInv, TypeOK, LoopInv
<1>1. CASE opera_3do_process_frame
  <2>1. /\ pc' \in {"frame", "guest", "step", "dsp", "timers"}
        /\ pc' = "frame" <=> 0 >= Scanlines
        /\ pc' \in {"step", "dsp", "timers"} => cycles >= Step
    BY <1>1, LoopAtType DEF opera_3do_process_frame
  <2>2. Scanlines > 0 /\ Scanlines' = Scanlines
    BY <1>1, ScanlinesType DEF opera_3do_process_frame, Scanlines
  <2> QED
    BY <1>1, <2>1, <2>2 DEF opera_3do_process_frame, clioVars
<1>2. ASSUME NEW c \in ExecCycles, opera_arm_execute(c) PROVE TypeInv'
  <2>1. c \in Nat /\ c * One \in Nat
    BY ExecCyclesAssumption, MulType
  <2>2. cycles' \in Nat /\ fed' \in Int
    BY <1>2, <2>1 DEF opera_arm_execute
  <2>3. /\ pc' \in {"frame", "guest", "step", "dsp", "timers"}
        /\ pc' = "frame" <=> line >= Scanlines
        /\ pc' \in {"step", "dsp", "timers"} => cycles' >= Step
    BY <1>2, <2>2, LoopAtType DEF opera_arm_execute
  <2>4. Scanlines \in Nat /\ Scanlines' = Scanlines
    BY <1>2, ScanlinesType DEF opera_arm_execute, Scanlines
  <2> QED
    BY <1>2, <2>2, <2>3, <2>4 DEF opera_arm_execute, clioVars
<1>3. CASE opera_3do_internal_frame
  <2>1. clk' \in Clocks
    BY <1>3, ClockOps DEF opera_3do_internal_frame
  <2>2. Scanlines' = Scanlines
    BY <1>3 DEF opera_3do_internal_frame, Scanlines, opera_clock_dsp_queued,
       opera_clock_push_cycles, Clocks
  <2> QED
    BY <1>3, <2>1, <2>2 DEF opera_3do_internal_frame, clioVars, histVars
<1>4. CASE opera_dsp_loop
  <2>1. int0' \subseteq 0..31
    BY <1>4, FiqType DEF opera_dsp_loop, AUDIO
  <2> QED
    BY <1>4, <2>1 DEF opera_dsp_loop, histVars, Scanlines
<1>5. CASE timer_slot
  <2>1. clk' \in Clocks /\ clk.slot \in TimerIds
    BY <1>5, ClockOps, ClockParts DEF timer_slot, TimerSlot
  <2>2. Scanlines' = Scanlines
    BY <1>5 DEF timer_slot, Scanlines, opera_clock_timer_queued, Clocks
  <2>3. TimerInt(clk.slot) \in 0..31
    BY <2>1, TimerIntType
  <2>4. int0' \subseteq 0..31
    BY <1>5, <2>3, FiqType DEF timer_slot, opera_clio_timer_execute
  <2>5. count' \in [TimerIds -> 0..TimerMax]
    BY <1>5, <2>1, TimerMaxAssumption DEF timer_slot, opera_clio_timer_execute
  <2>6. flags' \in [TimerIds -> SUBSET TimerFlags] /\ carry' \in {0, 1}
    BY <1>5, <2>1 DEF timer_slot, opera_clio_timer_execute
  <2>7. touched' \in BOOLEAN
    BY <1>5 DEF timer_slot
  <2> QED
    BY <1>5, <2>1, <2>2, <2>4, <2>5, <2>6, <2>7 DEF timer_slot
<1>6. CASE scanline
  <2> DEFINE l == IF vdl_queued(clk) THEN line + 1 ELSE line
  <2>1. clk' \in Clocks
    BY <1>6, ClockOps DEF scanline
  <2>2. Scanlines' = Scanlines /\ Scanlines \in Nat /\ LineCycles \in Nat
    BY <1>6, ScanlinesType DEF scanline, Scanlines, opera_clock_vdl_queued, Clocks
  <2>3. l \in Nat /\ line' = l /\ cycles' = cycles - Step /\ pc' = LoopAt(cycles', l)
        /\ pc = "timers"
    BY <1>6 DEF scanline
  <2>4. cycles' \in Nat
    BY <2>3
  <2>5. /\ pc' \in {"frame", "guest", "step", "dsp", "timers"}
        /\ pc' = "frame" <=> l >= Scanlines
        /\ pc' \in {"step", "dsp", "timers"} => cycles' >= Step
    BY <2>3, <2>4, LoopAtType
  <2>6. int0' \subseteq 0..31
    BY <1>6, FiqType DEF scanline, Vints, VINT0, VINT1
  <2>7. Scanlines * LineCycles \in Nat
    BY <2>2, MulType
  <2>8. field' \in {0, 1} /\ fed' \in Int /\ vints' \in Int
    BY <1>6, <2>7 DEF scanline
  <2>9. UNCHANGED <<count, reload, flags, carry, en0, int1, en1, vint, dma, fi, fo,
                    program, expect, touched>>
    BY <1>6 DEF scanline
  <2> HIDE DEF l
  <2>10. TypeOK'
    BY <2>1, <2>3, <2>4, <2>5, <2>6, <2>8, <2>9
  <2>11. LoopInv'
    BY <2>2, <2>3, <2>5
  <2> QED
    BY <2>10, <2>11
<1>7. CASE dsp_read
  <2>1. DspRead.f \in Channels /\ DspRead.at \in Nat
    <3>1. ("fifo_i" \in dma) \in BOOLEAN
      OBVIOUS
    <3> QED
      BY <3>1, DspAccessType DEF DspRead
  <2>2. int0' \subseteq 0..31
    BY <1>7, FiqType DEF dsp_read, FIFO_I
  <2>3. expect' \in Nat /\ fi' \in Channels
    BY <1>7, <2>1 DEF dsp_read, SampleBytes
  <2> QED
    BY <1>7, <2>2, <2>3 DEF dsp_read, frameVars, Scanlines
<1>8. CASE dsp_write
  <2>1. DspWrite.f \in Channels
    <3>1. ("fifo_i" \in dma) \in BOOLEAN
      OBVIOUS
    <3> QED
      BY <3>1, DspAccessType DEF DspWrite
  <2>2. int0' \subseteq 0..31
    BY <1>8, FiqType DEF dsp_write, FIFO_O
  <2> QED
    BY <1>8, <2>1, <2>2 DEF dsp_write, frameVars, histVars, Scanlines
<1> QED
  BY <1>1, <1>2, <1>3, <1>4, <1>5, <1>6, <1>7, <1>8 DEF LoopStep

\* Every step keeps the types.
LEMMA TypeNext == TypeInv /\ [Next]_vars => TypeInv'
<1> SUFFICES ASSUME TypeInv, [Next]_vars PROVE TypeInv'
  OBVIOUS
<1>1. ASSUME NEW f \in Freqs, set_freq(f) PROVE TypeInv'
  <2>1. clk' \in Clocks
    BY <1>1, ClockOps DEF set_freq, TypeInv, TypeOK
  <2> QED
    BY <1>1, <2>1 DEF set_freq, Frontend, clioVars, histVars, TypeInv, TypeOK, LoopInv
<1>2. ASSUME NEW r \in Regions, set_region(r) PROVE TypeInv'
  <2>1. clk' \in Clocks
    BY <1>2, ClockOps DEF set_region, TypeInv, TypeOK
  <2> QED
    BY <1>2, <2>1 DEF set_region, Frontend, clioVars, histVars, TypeInv, TypeOK, LoopInv
<1>3. CASE UNCHANGED vars
  BY <1>3 DEF vars, frameVars, clioVars, histVars, TypeInv, TypeOK, LoopInv, Scanlines
<1> QED
  BY <1>1, <1>2, <1>3, TypePokes, TypeLoop, TypeReset DEF Next

\* Every variable of the frame loop stays in its type, for any clock scale,
\* options and guest: no accumulator, cursor or cycle remainder is ever negative
\* (opera_3do_process_frame, opera_3do_internal_frame).
THEOREM TypeCorrect == Spec => []TypeOK
<1>1. TypeInv => TypeOK
  BY DEF TypeInv
<1> QED
  BY <1>1, TypeInit, TypeNext, PTL DEF Spec

-----------------------------------------------------------------------------
(***************************************************************************)
(* Conservation of cycles.  CyclesConserved is inductive once the types    *)
(* and LoopInv are known: a field ends with exactly Scanlines lines because *)
(* a step is only taken with a line left.                                  *)
(***************************************************************************)
\* Sums and differences times a scale.
LEMMA Distribute ==
  ASSUME NEW a \in Int, NEW b \in Int, NEW n \in Int
  PROVE  (a + b) * n = a * n + b * n /\ (a - b) * n = a * n - b * n /\ a * n \in Int
  OBVIOUS

\* What the conservation depends on.
displayVars == <<pc, cycles, line, fed, clk.vdl_acc, clk.freq, clk.region>>

\* A step that leaves these alone conserves the cycles.
LEMMA ConservedFrame ==
  ASSUME CyclesConserved, UNCHANGED displayVars PROVE CyclesConserved'
<1>1. LineCycles' = LineCycles
  BY DEF displayVars, LineCycles
<1> QED
  BY <1>1 DEF displayVars, CyclesConserved

\* The guest's writes do not touch the display's clock.
LEMMA PokesKeepDisplay == TypeInv /\ GuestPokes => UNCHANGED displayVars
<1> SUFFICES ASSUME TypeInv, GuestPokes PROVE UNCHANGED displayVars
  OBVIOUS
<1> USE DEF Guest, displayVars
<1>1. ASSUME NEW s \in Slacks, opera_clio_poke_slack(s) PROVE UNCHANGED displayVars
  BY <1>1 DEF opera_clio_poke_slack, opera_clock_timer_set_delay, recalculate_cycles_per,
     TypeInv, TypeOK, Clocks
<1>2. ASSUME NEW reg, NEW bits, opera_clio_poke_int(reg, bits) PROVE UNCHANGED displayVars
  BY <1>2 DEF opera_clio_poke_int
<1>3. CASE HandleDMA8
  BY <1>3 DEF HandleDMA8
<1>4. ASSUME NEW v, NEW l, opera_clio_poke_vint(v, l) PROVE UNCHANGED displayVars
  BY <1>4 DEF opera_clio_poke_vint
<1>5. ASSUME NEW t, NEW n, opera_clio_poke_timer(t, n) PROVE UNCHANGED displayVars
  BY <1>5 DEF opera_clio_poke_timer
<1>6. ASSUME NEW t, NEW bits, opera_clio_poke_control(t, bits) PROVE UNCHANGED displayVars
  BY <1>6 DEF opera_clio_poke_control
<1>7. ASSUME NEW chan, NEW reg, NEW val, opera_clio_poke_fifo(chan, reg, val)
      PROVE  UNCHANGED displayVars
  BY <1>7 DEF opera_clio_poke_fifo
<1>8. ASSUME NEW chan, opera_clio_poke_dma(chan) PROVE UNCHANGED displayVars
  BY <1>8 DEF opera_clio_poke_dma
<1> QED
  BY <1>1, <1>2, <1>3, <1>4, <1>5, <1>6, <1>7, <1>8, Zenon DEF GuestPokes

\* Every step conserves the cycles.
LEMMA ConservedNext == TypeInv /\ CyclesConserved /\ [Next]_vars => CyclesConserved'
<1> SUFFICES ASSUME TypeInv, CyclesConserved, [Next]_vars PROVE CyclesConserved'
  OBVIOUS
<1>0. /\ clk \in Clocks /\ cycles \in Nat /\ line \in Nat /\ fed \in Int
      /\ clk.vdl_acc \in Nat /\ LineCycles \in Nat /\ Scanlines \in Nat
      /\ One \in Nat /\ Step \in Nat
  BY ClockParts, ScanlinesType DEF TypeInv, TypeOK
<1>1. CASE opera_3do_process_frame
  <2>1. LineCycles' = LineCycles /\ line' = 0 /\ UNCHANGED <<cycles, fed, clk>> /\ pc = "frame"
    BY <1>1 DEF opera_3do_process_frame, LineCycles
  <2>2. pc' \notin {"dsp", "timers"}
    BY <1>1 DEF opera_3do_process_frame, LoopAt
  <2>3. 0 * LineCycles = 0
    BY <1>0
  <2> QED
    BY <1>0, <2>1, <2>2, <2>3 DEF CyclesConserved
<1>2. ASSUME NEW c \in ExecCycles, opera_arm_execute(c) PROVE CyclesConserved'
  <2>1. /\ LineCycles' = LineCycles /\ cycles' = cycles + c /\ fed' = fed + c * One
        /\ UNCHANGED <<line, clk>> /\ pc = "guest" /\ c \in Nat
    BY <1>2, ExecCyclesAssumption DEF opera_arm_execute, LineCycles
  <2>2. pc' \in {"guest", "step"}
    BY <1>0, <1>2, <2>1 DEF opera_arm_execute, LoopAt, TypeInv, LoopInv
  <2>3. (cycles + c) * One = cycles * One + c * One /\ cycles * One \in Int /\ c * One \in Int
        /\ line * LineCycles \in Int
    BY <1>0, <2>1, Distribute
  <2>4. cycles - 0 = cycles /\ cycles' - 0 = cycles'
    BY <1>0, <2>1
  <2>5. fed = cycles * One + clk.vdl_acc + line * LineCycles
    BY <2>1, <2>4 DEF CyclesConserved
  <2>6. fed' = cycles' * One + clk'.vdl_acc + line' * LineCycles'
    BY <1>0, <2>1, <2>3, <2>5
  <2> QED
    BY <2>2, <2>4, <2>6 DEF CyclesConserved
<1>3. CASE opera_3do_internal_frame
  <2>1. /\ LineCycles' = LineCycles /\ UNCHANGED <<cycles, line, fed>> /\ pc = "step"
        /\ clk'.vdl_acc = clk.vdl_acc + Step * One /\ pc' \in {"dsp", "timers"}
    BY <1>0, <1>3 DEF opera_3do_internal_frame, LineCycles, opera_clock_dsp_queued,
       opera_clock_push_cycles, Clocks, histVars
  <2>2. (cycles - Step) * One = cycles * One - Step * One /\ cycles * One \in Int
        /\ Step * One \in Int /\ line * LineCycles \in Int
    BY <1>0, Distribute
  <2>3. fed = cycles * One + clk.vdl_acc + line * LineCycles
    BY <1>0, <2>1 DEF CyclesConserved
  <2>4. fed' = (cycles' - Step) * One + clk'.vdl_acc + line' * LineCycles'
    BY <1>0, <2>1, <2>2, <2>3
  <2> QED
    BY <2>1, <2>4 DEF CyclesConserved
<1>4. CASE opera_dsp_loop
  <2>1. LineCycles' = LineCycles /\ UNCHANGED <<cycles, line, fed, clk>>
        /\ pc = "dsp" /\ pc' = "timers"
    BY <1>4 DEF opera_dsp_loop, LineCycles, histVars
  <2> QED
    BY <2>1 DEF CyclesConserved
<1>5. CASE timer_slot
  <2>1. UNCHANGED displayVars
    BY <1>0, <1>5 DEF timer_slot, displayVars, opera_clock_timer_queued, Clocks
  <2> QED
    BY <2>1, ConservedFrame
<1>6. CASE scanline
  <2> DEFINE l == IF vdl_queued(clk) THEN line + 1 ELSE line
  <2>1. /\ line' = l /\ cycles' = cycles - Step /\ pc = "timers" /\ pc' = LoopAt(cycles', l)
        /\ fed' = IF l >= Scanlines THEN fed - Scanlines * LineCycles ELSE fed
    BY <1>6 DEF scanline
  <2>2. LineCycles' = LineCycles
    BY <1>0, <1>6 DEF scanline, LineCycles, opera_clock_vdl_queued, Clocks
  <2>3. fed = (cycles - Step) * One + clk.vdl_acc + line * LineCycles
    BY <2>1 DEF CyclesConserved
  <2>4. (line + 1) * LineCycles = line * LineCycles + LineCycles
        /\ line * LineCycles \in Int /\ (cycles - Step) * One \in Int
    BY <1>0, Distribute
  <2>5. clk'.vdl_acc = IF vdl_queued(clk) THEN clk.vdl_acc - LineCycles ELSE clk.vdl_acc
    BY <1>0, <1>6 DEF scanline, LineCycles, opera_clock_vdl_queued, Clocks
  <2>6. fed = cycles' * One + clk'.vdl_acc + l * LineCycles
    BY <1>0, <2>1, <2>3, <2>4, <2>5
  <2>7. pc' \in {"frame", "guest", "step"} /\ (pc' = "frame" <=> l >= Scanlines) /\ l \in Nat
        /\ cycles' \in Int
    BY <1>0, <2>1 DEF LoopAt
  <2>8. line < Scanlines
    BY <2>1 DEF TypeInv, LoopInv
  <2>9. CASE l >= Scanlines
    <3>1. l = Scanlines
      BY <1>0, <2>8, <2>9
    <3>2. Scanlines * LineCycles \in Int /\ cycles' * One \in Int /\ clk'.vdl_acc \in Int
      BY <1>0, <2>5, <2>7, Distribute
    <3>3. fed' = fed - Scanlines * LineCycles
      BY <2>1, <2>9
    <3>4. fed' = cycles' * One + clk'.vdl_acc
      BY <2>6, <3>1, <3>2, <3>3
    <3>5. pc' = "frame"
      BY <2>1, <2>9 DEF LoopAt
    <3>7. cycles' - 0 = cycles'
      BY <1>0, <2>1
    <3>6. cycles' * One + clk'.vdl_acc + 0 = cycles' * One + clk'.vdl_acc
      BY <3>2
    <3> QED
      BY <3>4, <3>5, <3>6, <3>7 DEF CyclesConserved
  <2>10. CASE ~(l >= Scanlines)
    <3>1. pc' \in {"guest", "step"} /\ fed' = fed /\ cycles' - 0 = cycles'
      BY <2>1, <2>7, <2>10
    <3> HIDE DEF l
    <3> QED
      BY <2>1, <2>2, <2>6, <3>1 DEF CyclesConserved
  <2> QED
    BY <2>9, <2>10
<1>7. CASE dsp_read \/ dsp_write
  <2>1. UNCHANGED displayVars
    BY <1>7 DEF dsp_read, dsp_write, frameVars, histVars, displayVars
  <2> QED
    BY <2>1, ConservedFrame
<1>8. CASE GuestPokes
  BY <1>8, PokesKeepDisplay, ConservedFrame
<1>9. CASE opera_3do_init
  <2>1. pc' = "frame" /\ cycles' = 0 /\ fed' = 0
    BY <1>9 DEF opera_3do_init, opera_3do_reset_runtime_state
  <2>2. clk'.vdl_acc = 0
    BY <1>0, <1>9 DEF opera_3do_init, opera_3do_reset_runtime_state, opera_clock_reset,
       recalculate_cycles_per, Clocks
  <2>3. (0 - 0) * One + 0 + 0 = 0
    BY <1>0
  <2> QED
    BY <2>1, <2>2, <2>3 DEF CyclesConserved
<1>10. ASSUME NEW f \in Freqs, set_freq(f) PROVE CyclesConserved'
  <2>1. /\ UNCHANGED <<pc, cycles, line, fed>> /\ pc = "frame" /\ clk'.vdl_acc = clk.vdl_acc
    BY <1>0, <1>10 DEF set_freq, Frontend, histVars, opera_clock_cpu_set_freq,
       recalculate_cycles_per, Clocks
  <2> QED
    BY <2>1 DEF CyclesConserved
<1>11. ASSUME NEW r \in Regions, set_region(r) PROVE CyclesConserved'
  <2>1. /\ UNCHANGED <<pc, cycles, line, fed>> /\ pc = "frame" /\ clk'.vdl_acc = clk.vdl_acc
    BY <1>0, <1>11 DEF set_region, Frontend, histVars, opera_clock_region_set,
       recalculate_cycles_per, Clocks
  <2> QED
    BY <2>1 DEF CyclesConserved
<1>12. CASE UNCHANGED vars
  <2>1. UNCHANGED displayVars
    BY <1>12 DEF vars, frameVars, histVars, displayVars
  <2> QED
    BY <2>1, ConservedFrame
<1> QED
  BY <1>1, <1>2, <1>3, <1>4, <1>5, <1>6, <1>7, <1>8, <1>9, <1>10, <1>11, <1>12
  DEF Next, LoopStep

\* No cycle the CPU executed is lost or shown twice: across partial steps,
\* frames, resets and changes of frequency or region, for every clock scale
\* (the remainder of opera_3do_process_frame and the accumulator of
\* opera_clock_vdl_queued).
THEOREM NoCycleLost == Spec => []CyclesConserved
<1>1. Init => CyclesConserved
  <2> SUFFICES ASSUME Init PROVE CyclesConserved
    OBVIOUS
  <2>1. pc = "frame" /\ cycles = 0 /\ fed = 0
    BY DEF Init
  <2>2. program.freq \in Freqs /\ program.region \in Regions
    BY GuestAssumption DEF Init
  <2>3. clk.vdl_acc = 0
    BY DEF Init, PowerOnClock, opera_clock_reset, recalculate_cycles_per
  <2>4. (0 - 0) * One + 0 + 0 = 0
    OBVIOUS
  <2> QED
    BY <2>1, <2>3, <2>4 DEF CyclesConserved
<1> QED
  BY <1>1, TypeInit, TypeNext, ConservedNext, PTL DEF Spec

-----------------------------------------------------------------------------
(***************************************************************************)
(* Chained timers.  Between the slots of t and t+1 the carry stands for a  *)
(* reload of t that just happened; without this the value of the chain     *)
(* cannot be told from the two counts.                                     *)
(***************************************************************************)
CarryInv ==
  \A t \in TimerIds : t % 2 = 0 /\ t + 1 \in TimerIds /\ clk.slot = t + 1 /\ ~touched
                      /\ Chained(t) /\ carry = 1 => count[t] = reload[t]

chainVars == <<clk.slot, touched, flags, carry, count, reload>>

\* A step that leaves the timers and the scan alone keeps the invariant.
LEMMA CarryFrame == ASSUME CarryInv, UNCHANGED chainVars PROVE CarryInv'
  BY DEF CarryInv, Chained, chainVars

\* The guest either leaves the timers alone or is seen to have written them.
LEMMA PokesKeepCarry == TypeInv /\ CarryInv /\ GuestPokes => CarryInv'
<1> SUFFICES ASSUME TypeInv, CarryInv, GuestPokes PROVE CarryInv'
  OBVIOUS
<1>1. ASSUME touched' = TRUE PROVE CarryInv'
  BY <1>1 DEF CarryInv
<1>2. ASSUME NEW s \in Slacks, opera_clio_poke_slack(s) PROVE UNCHANGED chainVars
  BY <1>2 DEF opera_clio_poke_slack, opera_clock_timer_set_delay, recalculate_cycles_per,
     TypeInv, TypeOK, Clocks, clioVars, chainVars
<1>3. ASSUME NEW reg, NEW bits, opera_clio_poke_int(reg, bits) PROVE UNCHANGED chainVars
  BY <1>3 DEF opera_clio_poke_int, chainVars
<1>4. CASE HandleDMA8
  BY <1>4, CarryFrame DEF HandleDMA8, chainVars
<1>5. ASSUME NEW v, NEW l, opera_clio_poke_vint(v, l) PROVE UNCHANGED chainVars
  BY <1>5 DEF opera_clio_poke_vint, chainVars
<1>6. ASSUME NEW t, NEW n, opera_clio_poke_timer(t, n) PROVE CarryInv'
  BY <1>1, <1>6 DEF opera_clio_poke_timer
<1>7. ASSUME NEW t, NEW bits, opera_clio_poke_control(t, bits) PROVE CarryInv'
  BY <1>1, <1>7 DEF opera_clio_poke_control
<1>8. ASSUME NEW chan, NEW reg, NEW val, opera_clio_poke_fifo(chan, reg, val)
      PROVE  UNCHANGED chainVars
  BY <1>8 DEF opera_clio_poke_fifo, chainVars
<1>9. ASSUME NEW chan, opera_clio_poke_dma(chan) PROVE UNCHANGED chainVars
  BY <1>9 DEF opera_clio_poke_dma, chainVars
<1> QED
  BY <1>2, <1>3, <1>4, <1>5, <1>6, <1>7, <1>8, <1>9, CarryFrame, Zenon DEF GuestPokes

\* Where the scan goes after a slot.
LEMMA NextSlot ==
  ASSUME NEW c \in Clocks
  PROVE  opera_clock_timer_queued(c).slot = IF c.slot + 1 >= Timers THEN 0 ELSE c.slot + 1
  BY DEF opera_clock_timer_queued, Clocks

\* A slot sets the carry only with a reload of its timer, if that is enabled.
LEMMA CarrySlot == TypeInv /\ CarryInv /\ timer_slot => CarryInv'
<1> SUFFICES ASSUME TypeInv, timer_slot,
                    NEW t \in TimerIds, t % 2 = 0, t + 1 \in TimerIds, clk'.slot = t + 1,
                    Chained(t)', carry' = 1
             PROVE  count'[t] = reload'[t]
  BY DEF CarryInv
<1>1. clk \in Clocks /\ clk.slot \in TimerIds /\ clk' = opera_clock_timer_queued(clk)
  BY ClockParts DEF TypeInv, TypeOK, timer_slot
<1>2. clk.slot = t
  BY <1>1, NextSlot DEF TimerIds
<1>3. opera_clio_timer_execute(t) /\ UNCHANGED reload
  BY <1>2 DEF timer_slot
<1>4. "DECREMENT" \in flags[t] /\ count[t] = 0
  BY <1>3 DEF opera_clio_timer_execute
<1>5. "RELOAD" \in flags[t]
  <2>1. "RELOAD" \in flags'[t]
    BY DEF Chained
  <2> QED
    BY <1>3, <2>1 DEF opera_clio_timer_execute, TypeInv, TypeOK
<1> QED
  BY <1>3, <1>4, <1>5 DEF opera_clio_timer_execute, TypeInv, TypeOK

\* Every step keeps the invariant of the carry.
LEMMA CarryNext == TypeInv /\ CarryInv /\ [Next]_vars => CarryInv'
<1> SUFFICES ASSUME TypeInv, CarryInv, [Next]_vars PROVE CarryInv'
  OBVIOUS
<1>0. clk \in Clocks
  BY DEF TypeInv, TypeOK
<1>1. CASE opera_3do_process_frame
  BY <1>1, CarryFrame DEF opera_3do_process_frame, clioVars, chainVars
<1>2. ASSUME NEW c \in ExecCycles, opera_arm_execute(c) PROVE CarryInv'
  BY <1>2, CarryFrame DEF opera_arm_execute, clioVars, chainVars
<1>3. CASE opera_3do_internal_frame
  <2>1. clk'.slot = clk.slot
    BY <1>0, <1>3 DEF opera_3do_internal_frame, opera_clock_dsp_queued, opera_clock_push_cycles,
       Clocks
  <2> QED
    BY <1>3, <2>1, CarryFrame DEF opera_3do_internal_frame, clioVars, histVars, chainVars
<1>4. CASE opera_dsp_loop
  BY <1>4, CarryFrame DEF opera_dsp_loop, histVars, chainVars
<1>5. CASE scanline
  <2>1. clk'.slot = clk.slot
    BY <1>0, <1>5 DEF scanline, opera_clock_vdl_queued, Clocks
  <2>2. UNCHANGED <<touched, flags, carry, count, reload>>
    BY <1>5 DEF scanline
  <2> QED
    BY <2>1, <2>2, CarryFrame DEF chainVars
<1>6. CASE dsp_read \/ dsp_write
  BY <1>6, CarryFrame DEF dsp_read, dsp_write, frameVars, histVars, chainVars
<1>7. CASE opera_3do_init
  <2>1. carry' = 0
    BY <1>7 DEF opera_3do_init, opera_clio_init
  <2> QED
    BY <2>1 DEF CarryInv
<1>8. ASSUME NEW f \in Freqs, set_freq(f) PROVE CarryInv'
  BY <1>0, <1>8, CarryFrame DEF set_freq, Frontend, opera_clock_cpu_set_freq,
     recalculate_cycles_per, Clocks, clioVars, histVars, chainVars
<1>9. ASSUME NEW r \in Regions, set_region(r) PROVE CarryInv'
  BY <1>0, <1>9, CarryFrame DEF set_region, Frontend, opera_clock_region_set,
     recalculate_cycles_per, Clocks, clioVars, histVars, chainVars
<1>10. CASE UNCHANGED vars
  BY <1>10, CarryFrame DEF vars, frameVars, clioVars, histVars, chainVars
<1> QED
  BY <1>1, <1>2, <1>3, <1>4, <1>5, <1>6, <1>7, <1>8, <1>9, <1>10, PokesKeepCarry, CarrySlot
  DEF Next, LoopStep

\* A slot of a free-running even timer.
LEMMA FreeSlot ==
  ASSUME TypeInv, NEW t \in TimerIds, opera_clio_timer_execute(t), t % 2 = 0,
         flags[t] = {"DECREMENT", "RELOAD"}
  PROVE  /\ carry' = IF count[t] = 0 THEN 1 ELSE 0
         /\ count' = [count EXCEPT ![t] = IF count[t] = 0 THEN reload[t] ELSE count[t] - 1]
         /\ int0' = int0
<1>1. "DECREMENT" \in flags[t] /\ "RELOAD" \in flags[t] /\ "CASCADE" \notin flags[t] /\ ~(t % 2 = 1)
  OBVIOUS
<1>2. carry' = IF count[t] = 0 THEN 1 ELSE 0
  BY <1>1 DEF opera_clio_timer_execute
<1>3. count' = [count EXCEPT ![t] = IF count[t] = 0 THEN reload[t] ELSE count[t] - 1]
  <2>1. CASE count[t] = 0
    BY <1>1, <2>1 DEF opera_clio_timer_execute
  <2>2. CASE count[t] # 0
    BY <1>1, <2>2 DEF opera_clio_timer_execute
  <2> QED
    BY <2>1, <2>2
<1>4. int0' = int0
  BY <1>1 DEF opera_clio_timer_execute, opera_clio_fiq_generate
<1> QED
  BY <1>2, <1>3, <1>4

\* A slot of a cascaded odd timer: it runs on a carry alone.
LEMMA CascadedSlot ==
  ASSUME TypeInv, NEW t \in TimerIds, opera_clio_timer_execute(t), t % 2 = 1,
         flags[t] = {"DECREMENT", "RELOAD", "CASCADE"}
  PROVE  /\ carry = 0 => count' = count /\ int0' = int0
         /\ carry = 1 =>
              /\ count' = [count EXCEPT ![t] = IF count[t] = 0 THEN reload[t] ELSE count[t] - 1]
              /\ int0' = IF count[t] = 0 THEN int0 \cup {TimerInt(t)} ELSE int0
<1>1. "DECREMENT" \in flags[t] /\ "RELOAD" \in flags[t] /\ "CASCADE" \in flags[t] /\ t # 0
  OBVIOUS
<1>2. TimerInt(t) # SECONDARY
  BY TimerIntType DEF SECONDARY
<1>3. ASSUME carry = 0 PROVE count' = count /\ int0' = int0
  BY <1>1, <1>3 DEF opera_clio_timer_execute, opera_clio_fiq_generate
<1>4. ASSUME carry = 1, count[t] = 0
      PROVE  count' = [count EXCEPT ![t] = reload[t]] /\ int0' = int0 \cup {TimerInt(t)}
  <2>1. count' = [count EXCEPT ![t] = reload[t]]
    BY <1>1, <1>4 DEF opera_clio_timer_execute
  <2>2. opera_clio_fiq_generate({TimerInt(t)})
    BY <1>1, <1>4 DEF opera_clio_timer_execute
  <2> QED
    BY <1>2, <2>1, <2>2 DEF opera_clio_fiq_generate
<1>5. ASSUME carry = 1, count[t] # 0
      PROVE  count' = [count EXCEPT ![t] = count[t] - 1] /\ int0' = int0
  BY <1>1, <1>5 DEF opera_clio_timer_execute, opera_clio_fiq_generate
<1> QED
  BY <1>3, <1>4, <1>5

\* Chained timers behave as one counter of the product of their periods, for
\* every number of timers, every width and all reload values, with the guest
\* running between the slots (opera_clio_timer_execute).
THEOREM CascadeIsOneCounter == Spec => CascadeCountsAsOne
<1> DEFINE A ==
  \A t \in TimerIds : t % 2 = 0 /\ t + 1 \in TimerIds /\ Chained(t) =>
       /\ TimerSlot(t) /\ timer_slot => Wide(t, carry)' = Wide(t, 0) - 1 /\ int0' = int0
       /\ TimerSlot(t + 1) /\ timer_slot /\ ~touched =>
            LET w == Wide(t, carry)
            IN  /\ Wide(t, 0)' = IF w < 0 THEN w + WideSize(t) ELSE w
                /\ TimerInt(t + 1) \in int0' <=> TimerInt(t + 1) \in int0 \/ w < 0
<1>1. ASSUME TypeInv, CarryInv PROVE A
  <2> SUFFICES ASSUME NEW t \in TimerIds, t % 2 = 0, t + 1 \in TimerIds, Chained(t), timer_slot
               PROVE  /\ TimerSlot(t) => Wide(t, carry)' = Wide(t, 0) - 1 /\ int0' = int0
                      /\ TimerSlot(t + 1) /\ ~touched =>
                           LET w == Wide(t, carry)
                           IN  /\ Wide(t, 0)' = IF w < 0 THEN w + WideSize(t) ELSE w
                               /\ TimerInt(t + 1) \in int0' <=> TimerInt(t + 1) \in int0 \/ w < 0
    OBVIOUS
  <2> DEFINE u == t + 1
             a == count[t]
             b == count[u]
             r == reload[t]
             q == reload[u]
  <2>1. a \in Nat /\ b \in Nat /\ r \in Nat /\ q \in Nat /\ carry \in {0, 1} /\ t \in Nat
    <3>1. a \in 0..TimerMax /\ b \in 0..TimerMax /\ r \in 0..TimerMax /\ q \in 0..TimerMax
      BY <1>1 DEF TypeInv, TypeOK
    <3>2. t \in Nat
      BY DEF TimerIds
    <3>3. carry \in {0, 1}
      BY <1>1 DEF TypeInv, TypeOK
    <3> QED
      BY <3>1, <3>2, <3>3, TimerMaxAssumption
  <2>2. reload' = reload /\ opera_clio_timer_execute(clk.slot)
    BY DEF timer_slot
  <2>3. t # u /\ u % 2 = 1
    BY <2>1
  <2>4. b * (r + 1) \in Int /\ (b - 1) * (r + 1) = b * (r + 1) - (r + 1)
        /\ (b - 0) * (r + 1) = b * (r + 1)
    BY <2>1, Distribute
  <2>5. ASSUME TimerSlot(t) PROVE Wide(t, carry)' = Wide(t, 0) - 1 /\ int0' = int0
    <3>1. opera_clio_timer_execute(t)
      BY <2>2, <2>5 DEF TimerSlot
    <3>2. /\ carry' = IF a = 0 THEN 1 ELSE 0
          /\ count' = [count EXCEPT ![t] = IF a = 0 THEN r ELSE a - 1]
          /\ int0' = int0
      BY <1>1, <3>1, FreeSlot DEF Chained
    <3>3. count'[t] = (IF a = 0 THEN r ELSE a - 1) /\ count'[u] = b
      BY <1>1, <2>3, <3>2 DEF TypeInv, TypeOK
    <3>4. Wide(t, carry)' = (b - carry') * (r + 1) + count'[t]
      BY <2>2, <3>3 DEF Wide
    <3>5. Wide(t, 0) = b * (r + 1) + a
      BY <2>4 DEF Wide
    <3>6. CASE a = 0
      BY <2>1, <2>4, <3>2, <3>3, <3>4, <3>5, <3>6
    <3>7. CASE a # 0
      BY <2>1, <2>4, <3>2, <3>3, <3>4, <3>5, <3>7
    <3> QED
      BY <3>2, <3>6, <3>7
  <2>6. ASSUME TimerSlot(u), ~touched
        PROVE  LET w == Wide(t, carry)
               IN  /\ Wide(t, 0)' = IF w < 0 THEN w + WideSize(t) ELSE w
                   /\ TimerInt(u) \in int0' <=> TimerInt(u) \in int0 \/ w < 0
    <3> DEFINE w == Wide(t, carry)
    <3>1. opera_clio_timer_execute(u) /\ clk.slot = u
      BY <2>2, <2>6 DEF TimerSlot
    <3>2. /\ carry = 0 => count' = count /\ int0' = int0
          /\ carry = 1 => /\ count' = [count EXCEPT ![u] = IF b = 0 THEN q ELSE b - 1]
                          /\ int0' = IF b = 0 THEN int0 \cup {TimerInt(u)} ELSE int0
      BY <1>1, <2>3, <3>1, CascadedSlot DEF Chained
    <3>3. carry = 1 => a = r
      BY <1>1, <2>6, <3>1 DEF CarryInv
    <3>4. Wide(t, 0)' = (count'[u] - 0) * (r + 1) + count'[t]
      BY <2>2 DEF Wide
    <3>5. w = (b - carry) * (r + 1) + a
      BY DEF Wide
    <3>6. CASE carry = 0
      <4>1. w = b * (r + 1) + a /\ Wide(t, 0)' = b * (r + 1) + a
        BY <2>4, <3>2, <3>4, <3>5, <3>6
      <4>2. b * (r + 1) >= 0
        BY <2>1
      <4>3. w >= 0 /\ w \in Int
        BY <2>1, <2>4, <4>1, <4>2
      <4> QED
        BY <3>2, <3>6, <4>1, <4>3
    <3>7. CASE carry = 1 /\ b = 0
      <4>1. count'[u] = q /\ count'[t] = a /\ int0' = int0 \cup {TimerInt(u)}
        BY <1>1, <2>3, <3>2, <3>7 DEF TypeInv, TypeOK
      <4>2. w = 0 - 1
        BY <2>1, <3>3, <3>5, <3>7
      <4>3. (q - 0) * (r + 1) = q * (r + 1) /\ q * (r + 1) \in Int
        BY <2>1, Distribute
      <4>4. WideSize(t) = q * (r + 1) + (r + 1)
        BY <2>1 DEF WideSize
      <4>5. Wide(t, 0)' = w + WideSize(t)
        BY <2>1, <3>3, <3>4, <3>7, <4>1, <4>2, <4>3, <4>4
      <4> QED
        BY <4>1, <4>2, <4>5
    <3>8. CASE carry = 1 /\ b # 0
      <4>1. count'[u] = b - 1 /\ count'[t] = a /\ int0' = int0
        BY <1>1, <2>3, <3>2, <3>8 DEF TypeInv, TypeOK
      <4>2. w = (b - 1) * (r + 1) + a /\ Wide(t, 0)' = w
        BY <2>1, <3>4, <3>5, <3>8, <4>1
      <4>3. (b - 1) * (r + 1) >= 0 /\ (b - 1) * (r + 1) \in Int
        BY <2>1, <3>8
      <4>4. w >= 0 /\ w \in Int
        BY <2>1, <4>2, <4>3
      <4> QED
        BY <4>1, <4>2, <4>4
    <3> QED
      BY <2>1, <3>6, <3>7, <3>8
  <2> QED
    BY <2>5, <2>6
<1>2. TypeInv /\ CarryInv /\ [Next]_vars => [A]_vars
  BY <1>1
<1>3. Init => CarryInv
  BY DEF Init, CarryInv
<1> QED
  BY <1>2, <1>3, TypeInit, TypeNext, CarryNext, PTL DEF Spec, CascadeCountsAsOne

-----------------------------------------------------------------------------
(***************************************************************************)
(* The accumulators.  NoBacklog is inductive with the fact that the wait   *)
(* of the timer scan is one of the periods.                                *)
(***************************************************************************)
WaitInv == \E f \in Freqs, n \in TimerWaits : clk.until = CYCLES_PER_M25M(f, n)

\* The waits of a clock are waits.
LEMMA Waits ==
  ASSUME NEW c \in Clocks
  PROVE  SlotTicks \in TimerWaits /\ SlotTicks + c.slack \in TimerWaits
  BY DEF TimerWaits, Clocks

\* Waits are numbers.
LEMMA WaitType == ASSUME NEW n \in TimerWaits PROVE n \in Nat
  BY DEF TimerWaits

\* A recalculation keeps the accumulators and gives a wait that is a period.
LEMMA RecalculateWait ==
  ASSUME NEW c \in Clocks
  PROVE  LET d == recalculate_cycles_per(c)
         IN  /\ d.dsp_acc = c.dsp_acc /\ d.vdl_acc = c.vdl_acc /\ d.timer_acc = c.timer_acc
             /\ \E f \in Freqs, n \in TimerWaits : d.until = CYCLES_PER_M25M(f, n)
<1> DEFINE d == recalculate_cycles_per(c)
<1>1. d.dsp_acc = c.dsp_acc /\ d.vdl_acc = c.vdl_acc /\ d.timer_acc = c.timer_acc
  BY DEF recalculate_cycles_per, Clocks
<1>2. d.until = CYCLES_PER_M25M(c.freq, SlotTicks + c.slack)
      \/ d.until = CYCLES_PER_M25M(c.freq, SlotTicks)
  BY DEF recalculate_cycles_per, Clocks
<1>3. c.freq \in Freqs
  BY ClockParts
<1> HIDE DEF d
<1>4. \E f \in Freqs, n \in TimerWaits : d.until = CYCLES_PER_M25M(f, n)
  BY <1>2, <1>3, Waits
<1> QED
  BY <1>1, <1>4 DEF d

accVars == <<pc, clk.dsp_acc, clk.vdl_acc, clk.timer_acc>>

\* A step that leaves the accumulators alone.
LEMMA BacklogFrame == ASSUME NoBacklog, UNCHANGED accVars PROVE NoBacklog'
  BY DEF NoBacklog, accVars

\* The guest may change the wait, never an accumulator.
LEMMA PokesKeepBacklog == TypeInv /\ WaitInv /\ GuestPokes => WaitInv' /\ UNCHANGED accVars
<1> SUFFICES ASSUME TypeInv, WaitInv, GuestPokes PROVE WaitInv' /\ UNCHANGED accVars
  OBVIOUS
<1>1. ASSUME UNCHANGED <<pc, clk>> PROVE WaitInv' /\ UNCHANGED accVars
  BY <1>1 DEF WaitInv, accVars
<1>2. ASSUME NEW s \in Slacks, opera_clio_poke_slack(s) PROVE WaitInv' /\ UNCHANGED accVars
  <2> DEFINE c == [clk EXCEPT !.slack = s]
  <2>1. c \in Clocks /\ c.dsp_acc = clk.dsp_acc /\ c.vdl_acc = clk.vdl_acc
        /\ c.timer_acc = clk.timer_acc
    BY DEF TypeInv, TypeOK, Clocks
  <2>2. clk' = recalculate_cycles_per(c) /\ pc' = pc
    BY <1>2 DEF opera_clio_poke_slack, opera_clock_timer_set_delay, Guest
  <2> HIDE DEF c
  <2> QED
    BY <2>1, <2>2, RecalculateWait DEF WaitInv, accVars
<1>3. ASSUME NEW reg, NEW bits, opera_clio_poke_int(reg, bits) PROVE UNCHANGED <<pc, clk>>
  BY <1>3 DEF opera_clio_poke_int, Guest
<1>4. CASE HandleDMA8
  BY <1>1, <1>4 DEF HandleDMA8, Guest
<1>5. ASSUME NEW v, NEW l, opera_clio_poke_vint(v, l) PROVE UNCHANGED <<pc, clk>>
  BY <1>5 DEF opera_clio_poke_vint, Guest
<1>6. ASSUME NEW t, NEW n, opera_clio_poke_timer(t, n) PROVE UNCHANGED <<pc, clk>>
  BY <1>6 DEF opera_clio_poke_timer, Guest
<1>7. ASSUME NEW t, NEW bits, opera_clio_poke_control(t, bits) PROVE UNCHANGED <<pc, clk>>
  BY <1>7 DEF opera_clio_poke_control, Guest
<1>8. ASSUME NEW chan, NEW reg, NEW val, opera_clio_poke_fifo(chan, reg, val)
      PROVE  UNCHANGED <<pc, clk>>
  BY <1>8 DEF opera_clio_poke_fifo, Guest
<1>9. ASSUME NEW chan, opera_clio_poke_dma(chan) PROVE UNCHANGED <<pc, clk>>
  BY <1>9 DEF opera_clio_poke_dma, Guest
<1> QED
  BY <1>1, <1>2, <1>3, <1>4, <1>5, <1>6, <1>7, <1>8, <1>9, Zenon DEF GuestPokes

\* There are options, and their periods are positive.
LEMMA PositivePeriods ==
  ASSUME NEW c \in Clocks
  PROVE  /\ \E f \in Freqs : 0 < CYCLES_PER_SND(f)
         /\ \E f \in Freqs, r \in Regions : 0 < CYCLES_PER_SCANLINE(f, r) + 0
         /\ \E f \in Freqs, n \in TimerWaits : 0 < CYCLES_PER_M25M(f, n)
<1>1. PICK f \in Freqs, r \in Regions : TRUE
  BY ClockParts
<1>2. Step * One \in Nat \ {0}
  BY MulPositive
<1>3. 0 < CYCLES_PER_SND(f) /\ 0 < CYCLES_PER_SCANLINE(f, r) + 0
  BY <1>2, PeriodType
<1>4. 0 < CYCLES_PER_M25M(f, SlotTicks) /\ SlotTicks \in TimerWaits
  BY RatesAssumption DEF TimerWaits
<1> QED
  BY <1>3, <1>4

\* What a reset of the clock leaves.
LEMMA ResetClock ==
  ASSUME NEW c \in Clocks
  PROVE  LET d == opera_clock_reset(c)
         IN  /\ d.dsp_acc = 0 /\ d.vdl_acc = 0 /\ d.timer_acc = 0
             /\ \E f \in Freqs, n \in TimerWaits : d.until = CYCLES_PER_M25M(f, n)
<1> DEFINE b == [c EXCEPT !.dsp_acc = 0, !.vdl_acc = 0, !.timer_acc = 0,
                          !.slack = DefaultSlack, !.slot = 0, !.in_gap = FALSE]
<1>1. b \in Clocks /\ b.dsp_acc = 0 /\ b.vdl_acc = 0 /\ b.timer_acc = 0
  BY SlotZero DEF Clocks
<1>2. opera_clock_reset(c) = recalculate_cycles_per(b)
  BY DEF opera_clock_reset
<1> HIDE DEF b
<1> QED
  BY <1>1, <1>2, RecalculateWait

BacklogInv == NoBacklog /\ WaitInv

\* Every step keeps the bounds of the accumulators.
LEMMA BacklogNext == TypeInv /\ BacklogInv /\ [Next]_vars => BacklogInv'
<1> SUFFICES ASSUME TypeInv, NoBacklog, WaitInv, [Next]_vars PROVE NoBacklog' /\ WaitInv'
  BY DEF BacklogInv
<1>0. /\ clk \in Clocks /\ clk.freq \in Freqs /\ clk.region \in Regions
      /\ clk.dsp_acc \in Nat /\ clk.vdl_acc \in Nat /\ clk.timer_acc \in Nat
      /\ clk.until \in Nat /\ Step * One \in Nat /\ LineCycles \in Nat
      /\ CYCLES_PER_SND(clk.freq) \in Nat
  BY ClockParts, ScanlinesType, MulType DEF TypeInv, TypeOK
<1>1. ASSUME UNCHANGED clk, pc' = pc \/ (pc \notin {"dsp", "timers"} /\ pc' \notin {"dsp", "timers"})
                            \/ (pc \in {"dsp", "timers"} /\ pc' \in {"dsp", "timers"})
      PROVE  NoBacklog' /\ WaitInv'
  BY <1>1 DEF NoBacklog, WaitInv
<1>2. CASE opera_3do_process_frame
  BY <1>1, <1>2 DEF opera_3do_process_frame, LoopAt
<1>3. ASSUME NEW c \in ExecCycles, opera_arm_execute(c) PROVE NoBacklog' /\ WaitInv'
  BY <1>1, <1>3 DEF opera_arm_execute, LoopAt
<1>4. CASE opera_3do_internal_frame
  <2> DEFINE c == opera_clock_push_cycles(clk)
             x == clk.dsp_acc + Step * One
             p == CYCLES_PER_SND(clk.freq)
  <2>1. /\ c.dsp_acc = x /\ c.freq = clk.freq /\ c.vdl_acc = clk.vdl_acc + Step * One
        /\ c.until = clk.until /\ c \in Clocks
    BY <1>0, ClockOps DEF opera_clock_push_cycles, Clocks
  <2>2. clk' = opera_clock_dsp_queued(c) /\ pc = "step" /\ pc' \in {"dsp", "timers"}
    BY <1>4 DEF opera_3do_internal_frame
  <2> HIDE DEF c
  <2>3. /\ clk'.dsp_acc = IF x >= p THEN x - p ELSE x
        /\ clk'.vdl_acc = clk.vdl_acc + Step * One /\ clk'.until = clk.until
    BY <2>1, <2>2 DEF opera_clock_dsp_queued, dsp_queued, Clocks
  <2>4. p >= Step * One
    BY <1>0, PeriodType
  <2>5. \E f \in Freqs : clk'.dsp_acc < CYCLES_PER_SND(f)
    <3>1. CASE x >= p
      <4>1. PICK f \in Freqs : clk.dsp_acc < CYCLES_PER_SND(f)
        BY DEF NoBacklog
      <4>2. CYCLES_PER_SND(f) \in Nat
        BY <1>0, PeriodType
      <4>3. clk'.dsp_acc < CYCLES_PER_SND(f)
        BY <1>0, <2>3, <2>4, <3>1, <4>1, <4>2
      <4> QED
        BY <4>3
    <3>2. CASE ~(x >= p)
      <4>1. clk'.dsp_acc < CYCLES_PER_SND(clk.freq)
        BY <1>0, <2>3, <3>2
      <4> QED
        BY <1>0, <4>1
    <3> QED
      BY <3>1, <3>2
  <2>6. \E f \in Freqs, r \in Regions : clk'.vdl_acc < CYCLES_PER_SCANLINE(f, r) + Step * One
    <3>1. PICK f \in Freqs, r \in Regions : clk.vdl_acc < CYCLES_PER_SCANLINE(f, r) + 0
      BY <2>2 DEF NoBacklog
    <3>2. CYCLES_PER_SCANLINE(f, r) \in Nat
      BY PeriodType
    <3>3. clk'.vdl_acc < CYCLES_PER_SCANLINE(f, r) + Step * One
      BY <1>0, <2>3, <3>1, <3>2
    <3> QED
      BY <3>3
  <2> QED
    BY <2>2, <2>3, <2>5, <2>6 DEF NoBacklog, WaitInv
<1>5. CASE opera_dsp_loop
  BY <1>1, <1>5 DEF opera_dsp_loop
<1>6. CASE timer_slot
  <2>1. /\ pc = "timers" /\ pc' = "timers" /\ clk' = opera_clock_timer_queued(clk)
    BY <1>6 DEF timer_slot, TimerSlot
  <2>2. /\ clk'.dsp_acc = clk.dsp_acc /\ clk'.vdl_acc = clk.vdl_acc
        /\ \/ clk'.until = CYCLES_PER_M25M(clk.freq, SlotTicks + clk.slack)
           \/ clk'.until = CYCLES_PER_M25M(clk.freq, SlotTicks)
    BY <1>0, <2>1 DEF opera_clock_timer_queued, Clocks
  <2>3. WaitInv'
    BY <1>0, <2>2, Waits DEF WaitInv
  <2> QED
    BY <2>1, <2>2, <2>3 DEF NoBacklog
<1>7. CASE scanline
  <2> DEFINE v == clk.vdl_acc
  <2>1. pc = "timers" /\ pc' \notin {"dsp", "timers"} /\ ~timer_queued(clk)
    BY <1>7 DEF scanline, LoopAt
  <2>2. /\ clk'.vdl_acc = IF v >= LineCycles THEN v - LineCycles ELSE v
        /\ clk'.dsp_acc = clk.dsp_acc /\ clk'.timer_acc = clk.timer_acc /\ clk'.until = clk.until
    BY <1>0, <1>7 DEF scanline, LineCycles, opera_clock_vdl_queued, vdl_queued, Clocks
  <2>3. LineCycles >= Step * One
    BY <1>0, PeriodType DEF LineCycles
  <2>4. \E f \in Freqs, r \in Regions : clk'.vdl_acc < CYCLES_PER_SCANLINE(f, r) + 0
    <3>1. CASE v >= LineCycles
      <4>1. PICK f \in Freqs, r \in Regions : v < CYCLES_PER_SCANLINE(f, r) + Step * One
        BY <2>1 DEF NoBacklog
      <4>2. CYCLES_PER_SCANLINE(f, r) \in Nat
        BY PeriodType
      <4>3. clk'.vdl_acc < CYCLES_PER_SCANLINE(f, r) + 0
        BY <1>0, <2>2, <2>3, <3>1, <4>1, <4>2
      <4> QED
        BY <4>3
    <3>2. CASE ~(v >= LineCycles)
      <4>1. clk'.vdl_acc < CYCLES_PER_SCANLINE(clk.freq, clk.region) + 0
        BY <1>0, <2>2, <3>2 DEF LineCycles
      <4> QED
        BY <1>0, <4>1
    <3> QED
      BY <3>1, <3>2
  <2>5. clk'.timer_acc < clk.until
    BY <1>0, <2>1, <2>2 DEF timer_queued
  <2>6. \E f \in Freqs, n \in TimerWaits : clk'.timer_acc < CYCLES_PER_M25M(f, n)
    BY <2>5 DEF WaitInv
  <2> QED
    BY <2>1, <2>2, <2>4, <2>6 DEF NoBacklog, WaitInv
<1>8. CASE dsp_read \/ dsp_write
  BY <1>1, <1>8 DEF dsp_read, dsp_write, frameVars
<1>9. CASE GuestPokes
  BY <1>9, PokesKeepBacklog, BacklogFrame
<1>10. CASE opera_3do_init
  <2>1. pc' = "frame" /\ clk' = opera_clock_reset(clk)
    BY <1>10 DEF opera_3do_init, opera_3do_reset_runtime_state
  <2>2. clk' \in Clocks
    BY <1>0, <2>1, ClockOps
  <2>3. /\ clk'.dsp_acc = 0 /\ clk'.vdl_acc = 0 /\ clk'.timer_acc = 0 /\ WaitInv'
    BY <1>0, <2>1, ResetClock DEF WaitInv
  <2> QED
    BY <2>1, <2>2, <2>3, PositivePeriods DEF NoBacklog
<1>11. ASSUME NEW f \in Freqs, set_freq(f) PROVE NoBacklog' /\ WaitInv'
  <2> DEFINE c == [clk EXCEPT !.freq = f]
  <2>1. /\ c \in Clocks /\ c.dsp_acc = clk.dsp_acc /\ c.vdl_acc = clk.vdl_acc
        /\ c.timer_acc = clk.timer_acc
    BY <1>0 DEF Clocks
  <2>2. clk' = recalculate_cycles_per(c) /\ pc' = pc
    BY <1>11 DEF set_freq, Frontend, opera_clock_cpu_set_freq
  <2> HIDE DEF c
  <2>3. WaitInv' /\ UNCHANGED accVars
    BY <2>1, <2>2, RecalculateWait DEF WaitInv, accVars
  <2> QED
    BY <2>3, BacklogFrame
<1>12. ASSUME NEW r \in Regions, set_region(r) PROVE NoBacklog' /\ WaitInv'
  <2> DEFINE c == [clk EXCEPT !.region = r]
  <2>1. /\ c \in Clocks /\ c.dsp_acc = clk.dsp_acc /\ c.vdl_acc = clk.vdl_acc
        /\ c.timer_acc = clk.timer_acc
    BY <1>0 DEF Clocks
  <2>2. clk' = recalculate_cycles_per(c) /\ pc' = pc
    BY <1>12 DEF set_region, Frontend, opera_clock_region_set
  <2> HIDE DEF c
  <2>3. WaitInv' /\ UNCHANGED accVars
    BY <2>1, <2>2, RecalculateWait DEF WaitInv, accVars
  <2> QED
    BY <2>3, BacklogFrame
<1>13. CASE UNCHANGED vars
  BY <1>1, <1>13 DEF vars, frameVars
<1> QED
  BY <1>2, <1>3, <1>4, <1>5, <1>6, <1>7, <1>8, <1>9, <1>10, <1>11, <1>12, <1>13
  DEF Next, LoopStep

\* The accumulators of opera_clock.c never pass the longest period by more than
\* the step in progress, in any session, for every set of options whose periods
\* are at least a step.  The core's longest period, a scanline at 50 MHz, is
\* below 2^28, so the int32_t accumulators do not overflow.
THEOREM AccumulatorsBounded == Spec => []NoBacklog
<1>1. Init => BacklogInv
  <2> SUFFICES ASSUME Init PROVE BacklogInv
    OBVIOUS
  <2> DEFINE f == program.freq
             r == program.region
             b == [freq |-> f, region |-> r, dsp_acc |-> 0, vdl_acc |-> 0, timer_acc |-> 0,
                   slack |-> DefaultSlack, slot |-> 0, in_gap |-> FALSE, until |-> 0]
  <2>1. f \in Freqs /\ r \in Regions
    BY GuestAssumption DEF Init
  <2>2. b \in Clocks
    BY <2>1, SlotZero DEF Clocks
  <2>3. clk = opera_clock_reset(b) /\ pc = "frame"
    BY DEF Init, PowerOnClock
  <2> HIDE DEF b
  <2>4. clk \in Clocks
    BY <2>2, <2>3, ClockOps
  <2>5. clk.dsp_acc = 0 /\ clk.vdl_acc = 0 /\ clk.timer_acc = 0 /\ WaitInv
    BY <2>2, <2>3, ResetClock DEF WaitInv
  <2> QED
    BY <2>3, <2>4, <2>5, PositivePeriods DEF BacklogInv, NoBacklog
<1>2. BacklogInv => NoBacklog
  BY DEF BacklogInv
<1> QED
  BY <1>1, <1>2, TypeInit, TypeNext, BacklogNext, PTL DEF Spec

-----------------------------------------------------------------------------
(***************************************************************************)
(* The samples the DSP reads.  While a buffer is being played its cursor   *)
(* stands at the sample the channel owes next.                             *)
(***************************************************************************)
CursorInv == fi.start.addr # 0 => fi.idx = expect

\* A step that leaves the channel alone keeps the cursor.
LEMMA CursorFrame == ASSUME CursorInv, UNCHANGED <<fi, expect>> PROVE CursorInv'
  BY DEF CursorInv

\* The cursor after a write by the guest.
LEMMA CursorWrite ==
  ASSUME TypeInv, CursorInv, NEW reg \in {"CURADR", "CURLEN", "RLDADR", "RLDLEN"}, NEW val \in Nat,
         fi' = opera_clio_fifo_write_i(fi, reg, val),
         expect' = IF reg = "CURADR" THEN 0 ELSE expect
  PROVE  CursorInv'
<1>1. fi \in Channels
  BY DEF TypeInv, TypeOK
<1>2. CASE reg = "CURADR"
  BY <1>1, <1>2 DEF opera_clio_fifo_write_i, Channels, BufferRange, CursorInv
<1>3. CASE reg = "CURLEN"
  BY <1>1, <1>3 DEF opera_clio_fifo_write_i, Channels, BufferRange, CursorInv
<1>4. CASE reg = "RLDADR"
  BY <1>1, <1>4 DEF opera_clio_fifo_write_i, Channels, BufferRange, CursorInv
<1>5. CASE reg = "RLDLEN"
  BY <1>1, <1>5 DEF opera_clio_fifo_write_i, Channels, BufferRange, CursorInv
<1> QED
  BY <1>2, <1>3, <1>4, <1>5

\* The guest moves the cursor only together with what is owed.
LEMMA PokesKeepCursor == TypeInv /\ CursorInv /\ GuestPokes => CursorInv'
<1> SUFFICES ASSUME TypeInv, CursorInv, GuestPokes PROVE CursorInv'
  OBVIOUS
<1>1. ASSUME NEW s \in Slacks, opera_clio_poke_slack(s) PROVE CursorInv'
  BY <1>1, CursorFrame DEF opera_clio_poke_slack, clioVars
<1>2. ASSUME NEW reg, NEW bits, opera_clio_poke_int(reg, bits) PROVE CursorInv'
  BY <1>2, CursorFrame DEF opera_clio_poke_int
<1>3. CASE HandleDMA8
  BY <1>3, CursorFrame DEF HandleDMA8
<1>4. ASSUME NEW v, NEW l, opera_clio_poke_vint(v, l) PROVE CursorInv'
  BY <1>4, CursorFrame DEF opera_clio_poke_vint
<1>5. ASSUME NEW t, NEW n, opera_clio_poke_timer(t, n) PROVE CursorInv'
  BY <1>5, CursorFrame DEF opera_clio_poke_timer
<1>6. ASSUME NEW t, NEW bits, opera_clio_poke_control(t, bits) PROVE CursorInv'
  BY <1>6, CursorFrame DEF opera_clio_poke_control
<1>7. ASSUME NEW chan, NEW reg \in {"CURADR", "CURLEN", "RLDADR", "RLDLEN"}, NEW val \in Nat,
             opera_clio_poke_fifo(chan, reg, val)
      PROVE  CursorInv'
  <2>1. CASE chan = "fifo_i"
    BY <1>7, <2>1, CursorWrite DEF opera_clio_poke_fifo
  <2>2. CASE chan # "fifo_i"
    BY <1>7, <2>2, CursorFrame DEF opera_clio_poke_fifo
  <2> QED
    BY <2>1, <2>2
<1>8. ASSUME NEW chan, opera_clio_poke_dma(chan) PROVE CursorInv'
  <2>1. CASE UNCHANGED <<fi, expect>>
    BY <2>1, CursorFrame
  <2>2. CASE fi' = ClearedInput
    BY <2>2 DEF ClearedInput, EmptyChannel, NoBuffer, CursorInv
  <2> QED
    BY <1>8, <2>1, <2>2 DEF opera_clio_poke_dma
<1>9. \A chan \in {"fifo_i", "fifo_o"} :
        /\ \A reg \in {"CURADR", "RLDADR"}, a \in Buffers :
             opera_clio_poke_fifo(chan, reg, a) => CursorInv'
        /\ \A reg \in {"CURLEN", "RLDLEN"}, n \in Lengths :
             opera_clio_poke_fifo(chan, reg, n) => CursorInv'
  BY <1>7, GuestAssumption
<1> QED
  BY <1>1, <1>2, <1>3, <1>4, <1>5, <1>6, <1>8, <1>9, Zenon DEF GuestPokes

\* A read by the DSP takes the sample x that is owed and leaves the cursor at the
\* one after it.
ReadsOwed(f, e, x) ==
  LET r == opera_clio_fifo_ei(f, e)
      y == IF ~r.read THEN 0
           ELSE IF r.at + SampleBytes >= r.buf.len THEN 0 ELSE r.at + SampleBytes
  IN  /\ r.read => /\ r.at = IF x >= f.start.len THEN 0 ELSE x
                   /\ r.at < r.buf.len \/ r.buf.len = 0
      /\ r.f.start.addr # 0 => r.f.idx = y

LEMMA ReadAtCursor ==
  ASSUME NEW f \in Channels, NEW e \in BOOLEAN, NEW x \in Nat, f.start.addr # 0 => f.idx = x
  PROVE  ReadsOwed(f, e, x)
<1> DEFINE g == ReadyInput(f, e)
           h == [g EXCEPT !.idx = @ + SampleBytes]
           c == clio_fifo_complete(h, e)
           r == opera_clio_fifo_ei(f, e)
<1>1. f.idx \in Nat /\ f.start.len \in Nat /\ f.next.len \in Nat
  BY DEF Channels, BufferRange
<1>2. /\ r.read = (g.start.addr # 0) /\ r.at = g.idx /\ r.buf = g.start
      /\ r.f = IF g.start.addr = 0 THEN g ELSE IF AtEnd(h) THEN c ELSE h
  BY DEF opera_clio_fifo_ei
<1> HIDE DEF r
<1>3. g.start.addr # 0 =>
        /\ g.idx = IF x >= f.start.len THEN 0 ELSE x
        /\ g.idx < g.start.len \/ g.start.len = 0
  BY <1>1 DEF ReadyInput, Stale, AtEnd, clio_fifo_complete, Channels, BufferRange
<1>4. g \in Channels
  BY CompleteType DEF ReadyInput
<1> HIDE DEF g
<1>5. h.idx = g.idx + SampleBytes /\ h.start = g.start /\ c.idx = 0
  BY <1>4 DEF Channels, clio_fifo_complete
<1>6. AtEnd(h) <=> g.idx + SampleBytes >= g.start.len
  BY <1>5 DEF AtEnd
<1> HIDE DEF h, c
<1> DEFINE y == IF ~r.read THEN 0
                ELSE IF r.at + SampleBytes >= r.buf.len THEN 0 ELSE r.at + SampleBytes
<1>7. CASE g.start.addr = 0
  <2>1. ~r.read /\ r.f = g
    BY <1>2, <1>7
  <2> QED
    BY <1>7, <2>1 DEF r, ReadsOwed
<1>8. CASE g.start.addr # 0
  <2>1. r.read /\ r.at = g.idx /\ r.buf = g.start /\ r.f = IF AtEnd(h) THEN c ELSE h
    BY <1>2, <1>8
  <2>2. r.f.idx = y
    BY <1>5, <1>6, <2>1
  <2> QED
    BY <1>3, <1>8, <2>1, <2>2 DEF r, ReadsOwed
<1> QED
  BY <1>7, <1>8

\* Every step keeps the cursor.
LEMMA CursorNext == TypeInv /\ CursorInv /\ [Next]_vars => CursorInv'
<1> SUFFICES ASSUME TypeInv, CursorInv, [Next]_vars PROVE CursorInv'
  OBVIOUS
<1>1. CASE LoopStep
  BY <1>1, CursorFrame DEF LoopStep, opera_3do_process_frame, opera_arm_execute,
     opera_3do_internal_frame, opera_dsp_loop, timer_slot, scanline, clioVars, histVars
<1>2. CASE dsp_read
  <2>1. fi \in Channels /\ expect \in Nat /\ ("fifo_i" \in dma) \in BOOLEAN
    BY DEF TypeInv, TypeOK
  <2> DEFINE r == opera_clio_fifo_ei(fi, "fifo_i" \in dma)
  <2>2. /\ fi' = r.f
        /\ expect' = IF ~r.read THEN 0
                     ELSE IF r.at + SampleBytes >= r.buf.len THEN 0 ELSE r.at + SampleBytes
    BY <1>2 DEF dsp_read, DspRead
  <2>3. ReadsOwed(fi, "fifo_i" \in dma, expect)
    BY <2>1, ReadAtCursor DEF CursorInv
  <2> QED
    BY <2>2, <2>3 DEF ReadsOwed, CursorInv
<1>3. CASE dsp_write
  BY <1>3, CursorFrame DEF dsp_write, histVars
<1>4. CASE opera_3do_init
  BY <1>4 DEF opera_3do_init, opera_clio_init, EmptyChannel, NoBuffer, CursorInv
<1>5. ASSUME NEW f \in Freqs, set_freq(f) PROVE CursorInv'
  BY <1>5, CursorFrame DEF set_freq, Frontend, clioVars, histVars
<1>6. ASSUME NEW r \in Regions, set_region(r) PROVE CursorInv'
  BY <1>6, CursorFrame DEF set_region, Frontend, clioVars, histVars
<1>7. CASE UNCHANGED vars
  BY <1>7, CursorFrame DEF vars, clioVars, histVars
<1> QED
  BY <1>1, <1>2, <1>3, <1>4, <1>5, <1>6, <1>7, PokesKeepCursor DEF Next

\* The DSP reads the samples of a buffer in order, each once and none beyond its
\* end, for any buffers and lengths and any writes of the guest to the channel's
\* registers between two samples.
THEOREM SamplesRead == Spec => []SamplesInOrder
<1>1. Init => CursorInv
  BY DEF Init, EmptyChannel, NoBuffer, CursorInv
<1>2. TypeInv /\ CursorInv => SamplesInOrder
  <2> SUFFICES ASSUME TypeInv, CursorInv PROVE SamplesInOrder
    OBVIOUS
  <2>1. fi \in Channels /\ expect \in Nat /\ ("fifo_i" \in dma) \in BOOLEAN
    BY DEF TypeInv, TypeOK
  <2>2. ReadsOwed(fi, "fifo_i" \in dma, expect)
    BY <2>1, ReadAtCursor DEF CursorInv
  <2> QED
    BY <2>2 DEF ReadsOwed, SamplesInOrder, DspRead
<1> QED
  BY <1>1, <1>2, TypeInit, TypeNext, CursorNext, PTL DEF Spec

-----------------------------------------------------------------------------
(***************************************************************************)
(* The vertical interrupt.  In the middle of a field it has been raised    *)
(* exactly if its line has been passed.                                    *)
(***************************************************************************)
VintInv ==
  pc # "frame" => vints = -1 \/ vints = IF vint[VINT0] < line THEN 1 ELSE 0

\* A step that leaves the line, the register and the count alone.
LEMMA VintFrame ==
  ASSUME VintInv, pc # "frame" \/ pc' = "frame", UNCHANGED <<line, vint, vints>> PROVE VintInv'
  BY DEF VintInv

\* The guest writes the register, and then the count is unknown, or leaves it alone.
LEMMA PokesKeepVint == VintInv /\ GuestPokes => VintInv'
<1> SUFFICES ASSUME VintInv, GuestPokes PROVE VintInv'
  OBVIOUS
<1>1. ASSUME pc' = pc, UNCHANGED <<line, vint, vints>> PROVE VintInv'
  BY <1>1, VintFrame
<1> USE DEF Guest
<1>2. ASSUME NEW s \in Slacks, opera_clio_poke_slack(s) PROVE VintInv'
  BY <1>1, <1>2 DEF opera_clio_poke_slack, clioVars
<1>3. ASSUME NEW reg, NEW bits, opera_clio_poke_int(reg, bits) PROVE VintInv'
  BY <1>1, <1>3 DEF opera_clio_poke_int
<1>4. CASE HandleDMA8
  BY <1>1, <1>4 DEF HandleDMA8
<1>5. ASSUME NEW v, NEW l, opera_clio_poke_vint(v, l) PROVE VintInv'
  BY <1>5 DEF opera_clio_poke_vint, VintInv
<1>6. ASSUME NEW t, NEW n, opera_clio_poke_timer(t, n) PROVE VintInv'
  BY <1>1, <1>6 DEF opera_clio_poke_timer
<1>7. ASSUME NEW t, NEW bits, opera_clio_poke_control(t, bits) PROVE VintInv'
  BY <1>1, <1>7 DEF opera_clio_poke_control
<1>8. ASSUME NEW chan, NEW reg, NEW val, opera_clio_poke_fifo(chan, reg, val) PROVE VintInv'
  BY <1>1, <1>8 DEF opera_clio_poke_fifo
<1>9. ASSUME NEW chan, opera_clio_poke_dma(chan) PROVE VintInv'
  BY <1>1, <1>9 DEF opera_clio_poke_dma
<1> QED
  BY <1>2, <1>3, <1>4, <1>5, <1>6, <1>7, <1>8, <1>9, Zenon DEF GuestPokes

\* A scanline counts the interrupt of its own line; the last one of the field
\* completes the count.
LEMMA VintScanline ==
  ASSUME TypeInv, VintInv, scanline
  PROVE  /\ vints' = -1 \/ vints' = IF vint[VINT0] < line' THEN 1 ELSE 0
         /\ vint' = vint /\ pc = "timers"
         /\ pc' = "frame" => line' = Scanlines
<1>1. /\ line \in Nat /\ vint[VINT0] \in Nat /\ VINT0 \in Vints /\ clk \in Clocks /\ cycles \in Nat
      /\ (pc # "frame" => line < Scanlines)
  BY DEF TypeInv, TypeOK, LoopInv, Vints, VINT0
<1>2. Scanlines \in Nat /\ Step \in Nat
  BY <1>1, ScanlinesType
<1>3. /\ pc = "timers" /\ vint' = vint /\ line' = (IF vdl_queued(clk) THEN line + 1 ELSE line)
      /\ cycles' = cycles - Step /\ pc' = LoopAt(cycles', line')
      /\ vints' = IF vints >= 0 /\ VINT0 \in {v \in Vints : vdl_queued(clk) /\ vint[v] = line}
                    THEN vints + 1 ELSE vints
  BY DEF scanline
<1>4. vints = -1 \/ vints = IF vint[VINT0] < line THEN 1 ELSE 0
  BY <1>3 DEF VintInv
<1>5. vints' = IF vints >= 0 /\ vdl_queued(clk) /\ vint[VINT0] = line THEN vints + 1 ELSE vints
  BY <1>1, <1>3
<1>6. vints' = -1 \/ vints' = IF vint[VINT0] < line' THEN 1 ELSE 0
  BY <1>1, <1>3, <1>4, <1>5
<1>7. pc' = "frame" => line' >= Scanlines
  BY <1>3 DEF LoopAt
<1>8. line' \in Nat /\ line' <= line + 1
  BY <1>1, <1>3
<1>9. pc' = "frame" => line' = Scanlines
  BY <1>1, <1>2, <1>3, <1>7, <1>8
<1> QED
  BY <1>3, <1>6, <1>9

\* Every step keeps the count.
LEMMA VintNext == TypeInv /\ VintInv /\ [Next]_vars => VintInv'
<1> SUFFICES ASSUME TypeInv, VintInv, [Next]_vars PROVE VintInv'
  OBVIOUS
<1>0. vint[VINT0] \in Nat
  BY DEF TypeInv, TypeOK, Vints, VINT0
<1>1. CASE opera_3do_process_frame
  BY <1>0, <1>1 DEF opera_3do_process_frame, VintInv, clioVars
<1>2. CASE (\E c \in ExecCycles : opera_arm_execute(c)) \/ opera_3do_internal_frame \/ opera_dsp_loop
           \/ timer_slot
  BY <1>2, VintFrame DEF opera_arm_execute, opera_3do_internal_frame, opera_dsp_loop, timer_slot,
     TimerSlot, clioVars, histVars
<1>3. CASE scanline
  BY <1>3, VintScanline DEF VintInv
<1>4. CASE dsp_read \/ dsp_write
  BY <1>4, VintFrame DEF dsp_read, dsp_write, frameVars, histVars
<1>5. CASE opera_3do_init
  BY <1>5 DEF opera_3do_init, VintInv
<1>6. ASSUME NEW f \in Freqs, set_freq(f) PROVE VintInv'
  BY <1>6, VintFrame DEF set_freq, Frontend, clioVars, histVars
<1>7. ASSUME NEW r \in Regions, set_region(r) PROVE VintInv'
  BY <1>7, VintFrame DEF set_region, Frontend, clioVars, histVars
<1>8. CASE UNCHANGED vars
  BY <1>8, VintFrame DEF vars, frameVars, clioVars, histVars
<1> QED
  BY <1>1, <1>2, <1>3, <1>4, <1>5, <1>6, <1>7, <1>8, PokesKeepVint DEF Next, LoopStep

\* A field during which the guest left the register alone raises the first
\* vertical interrupt once if the field has the line, else not at all, for every
\* region and every line written.
THEOREM VintOnce == Spec => VintOncePerField
<1>1. Init => VintInv
  BY DEF Init, VintInv
<1>2. ASSUME TypeInv, VintInv, [Next]_vars, pc = "timers", pc' = "frame", vints' # -1
      PROVE  vints' = IF vint[VINT0] < Scanlines THEN 1 ELSE 0
  <2>1. scanline
    <3>1. ~GuestPokes
      BY <1>2, Zenon DEF GuestPokes, opera_clio_poke_slack, opera_clio_poke_int, HandleDMA8,
         opera_clio_poke_vint, opera_clio_poke_timer, opera_clio_poke_control,
         opera_clio_poke_fifo, opera_clio_poke_dma, Guest
    <3> QED
      BY <1>2, <3>1 DEF Next, LoopStep, opera_3do_process_frame, opera_arm_execute,
         opera_3do_internal_frame, opera_dsp_loop, timer_slot, TimerSlot, dsp_read, dsp_write,
         frameVars, opera_3do_init, set_freq, set_region, Frontend, vars
  <2> QED
    BY <1>2, <2>1, VintScanline
<1>3. TypeInv /\ VintInv /\ [Next]_vars =>
        [pc = "timers" /\ pc' = "frame" /\ vints' # -1 =>
           vints' = IF vint[VINT0] < Scanlines THEN 1 ELSE 0]_vars
  BY <1>2
<1> QED
  BY <1>1, <1>3, TypeInit, TypeNext, VintNext, PTL DEF Spec, VintOncePerField
=============================================================================
