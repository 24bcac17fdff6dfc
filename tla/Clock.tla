------------------------------- MODULE Clock -------------------------------
(***************************************************************************)
(* opera_clock.c: CPU cycles into samples, timer slots and scanlines.  The *)
(* accumulators are fixed point, One to the cycle.                         *)
(***************************************************************************)
EXTENDS Integers

CONSTANTS One,          \* 2^16: one cycle in the accumulators
          Step,         \* OPERA_3DO_CLOCK_STEP: cycles of a clock step
          SndFreq,      \* SND_FREQ
          M25mFreq,     \* M25M_FREQ: the timers' clock
          SlotTicks,    \* TIMER_SLOT_TICKS
          Timers,       \* TIMER_SLOT_COUNT, the number of timers
          DefaultSlack, \* DEFAULT_TIMER_SLACK
          Freqs,        \* the CPU frequencies the options offer
          Regions,      \* [lines, rate]: scanlines of a field, fields per second * One
          Slacks        \* values the guest writes to the slack register

CYCLES_PER_SND(f) == (f * One) \div SndFreq
CYCLES_PER_SCANLINE(f, r) == (f * One * One) \div (r.rate * r.lines)
CYCLES_PER_M25M(f, ticks) == (f * ticks * One) \div M25mFreq

ASSUME ScaleAssumption ==
  /\ {One, Step, SndFreq, M25mFreq, SlotTicks} \subseteq Nat \ {0}
  /\ Timers \in 2..16 /\ DefaultSlack \in Nat /\ Slacks \subseteq Nat

\* Every frequency and region leave room for one sample, and one line, per step,
\* and for one slot in a finite time.
ASSUME RatesAssumption ==
  \A f \in Freqs, r \in Regions :
    /\ f \in Nat /\ r \in [lines : Nat \ {0}, rate : Nat \ {0}]
    /\ CYCLES_PER_SND(f) >= Step * One
    /\ CYCLES_PER_SCANLINE(f, r) >= Step * One
    /\ CYCLES_PER_M25M(f, SlotTicks) > 0

-----------------------------------------------------------------------------
recalculate_cycles_per(c) ==
  [c EXCEPT !.until = IF c.in_gap
                        THEN CYCLES_PER_M25M(c.freq, SlotTicks + c.slack)
                        ELSE CYCLES_PER_M25M(c.freq, SlotTicks)]

opera_clock_reset(c) ==
  recalculate_cycles_per(
    [c EXCEPT !.dsp_acc = 0, !.vdl_acc = 0, !.timer_acc = 0,
              !.slack = DefaultSlack, !.slot = 0, !.in_gap = FALSE])

opera_clock_cpu_set_freq(c, f) == recalculate_cycles_per([c EXCEPT !.freq = f])
opera_clock_region_set(c, r) == recalculate_cycles_per([c EXCEPT !.region = r])
opera_clock_timer_set_delay(c, s) == recalculate_cycles_per([c EXCEPT !.slack = s])

opera_clock_push_cycles(c) ==
  [c EXCEPT !.dsp_acc = @ + Step * One, !.vdl_acc = @ + Step * One,
            !.timer_acc = @ + Step * One]

\* Mutant: the sample's cycles stay in the accumulator.
dsp_queued_keeps_cycles(c) == c

dsp_queued(c) == c.dsp_acc >= CYCLES_PER_SND(c.freq)
opera_clock_dsp_queued(c) ==
  IF dsp_queued(c) THEN [c EXCEPT !.dsp_acc = @ - CYCLES_PER_SND(c.freq)] ELSE c

vdl_queued(c) == c.vdl_acc >= CYCLES_PER_SCANLINE(c.freq, c.region)
opera_clock_vdl_queued(c) ==
  IF vdl_queued(c)
    THEN [c EXCEPT !.vdl_acc = @ - CYCLES_PER_SCANLINE(c.freq, c.region)] ELSE c

timer_queued(c) == c.timer_acc >= c.until

\* Mutant: one slot too many before the scan starts over.
timer_queued_one_more(c) ==
  LET last == c.slot + 1 > Timers
  IN  [c EXCEPT !.timer_acc = @ - c.until,
                !.slot = IF last THEN 0 ELSE @ + 1,
                !.in_gap = last,
                !.until = CYCLES_PER_M25M(c.freq, IF last THEN SlotTicks + c.slack
                                                  ELSE SlotTicks)]

\* Mutant: the slot's cycles stay in the accumulator.
timer_queued_keeps_cycles(c) ==
  LET last == c.slot + 1 >= Timers
  IN  [c EXCEPT !.slot = IF last THEN 0 ELSE @ + 1,
                !.in_gap = last,
                !.until = CYCLES_PER_M25M(c.freq, IF last THEN SlotTicks + c.slack
                                                  ELSE SlotTicks)]

\* After the last slot the scan waits for the gap.
opera_clock_timer_queued(c) ==
  LET last == c.slot + 1 >= Timers
  IN  [c EXCEPT !.timer_acc = @ - c.until,
                !.slot = IF last THEN 0 ELSE @ + 1,
                !.in_gap = last,
                !.until = CYCLES_PER_M25M(c.freq, IF last THEN SlotTicks + c.slack
                                                  ELSE SlotTicks)]
=============================================================================
