-------------------------- MODULE DspThreadProofs --------------------------
(***************************************************************************)
(* Proofs about DspThread for every buffer size, wake batch and number of  *)
(* ticks.                                                                  *)
(***************************************************************************)
EXTENDS DspThread, SequenceTheorems, TLAPS

-----------------------------------------------------------------------------
(***************************************************************************)
(* The inductive invariant, one conjunct per idea.                         *)
(***************************************************************************)

\* The thread exists exactly while the mode is threaded; only then is the
\* emulation thread in the middle of a call; g_DSP_RUNNING is down exactly
\* from the first step of opera_lr_dsp_destroy.
Phase ==
  /\ threaded <=> tpc # "none"
  /\ mpc # "idle" => threaded
  /\ threaded => (running <=> mpc \notin {"stopNotify", "join"})

\* A wake is owed for less than a batch, except between the store and the
\* notify; inside upload nothing is owed.
WakeDebt ==
  /\ woken <= posted
  /\ posted - woken <= WakeBatch
  /\ mpc # "notify" => posted - woken < WakeBatch
  /\ mpc \in {"upBuf", "upRead", "upEnd"} => woken = posted

\* The thread's own count never passes the shared one.
DoneBehind ==
  threaded => /\ done <= posted
              /\ tpc \in {"run", "publish"} => done <= target /\ target <= posted

\* Past the re-check and not signalled, everything woken for has been run;
\* parked and not signalled, the stop flag was still up.
Unsignalled ==
  /\ (tpc \in {"recheckRunning", "wait"} /\ ~sig) => woken <= done
  /\ (tpc = "wait" /\ ~sig) => (running \/ mpc = "stopNotify")

\* Frames held by the reader and frames written but not published.
Spans ==
  /\ rspan # 0 => mpc = "upEnd"
  /\ wn # 0 => tpc = "publish"
  /\ tail + rspan <= head
  /\ head + wn <= tail + BufSize
  /\ tpc = "none" => head = 0 /\ tail = 0

\* Ticks asked for and not yet run.
Pending == IF tpc = "none" THEN 0
           ELSE IF tpc \in {"run", "publish"} THEN posted - target + count - wn
           ELSE posted - done

Accounting ==
  /\ tpc \in {"run", "publish"} => count <= target - done /\ wn <= count
  /\ loops + Pending <= requested

IInv == TypeOK /\ Phase /\ WakeDebt /\ DoneBehind /\ Unsignalled /\ Spans
        /\ Accounting

-----------------------------------------------------------------------------
\* The part of the ring up to its wrap is never empty.
LEMMA ContiguousPositive ==
  ASSUME NEW p \in Nat
  PROVE  Contiguous(p) \in Nat /\ Contiguous(p) > 0 /\ p % BufSize \in 0..BufSize-1
BY BufSizeAssumption DEF Contiguous

\* Frames read out of the ring are samples.
LEMMA RingFramesType ==
  ASSUME TypeOK, NEW n \in Nat
  PROVE  RingFrames(n) \in Seq(Nat)
<1>1. \A i \in 1..n : (tail + i - 1) \in Nat
  BY DEF TypeOK
<1>2. \A i \in 1..n : slot[(tail + i - 1) % BufSize] \in Nat
  BY <1>1, ContiguousPositive DEF TypeOK
<1> QED BY <1>2 DEF RingFrames

\* A span handed out by the ring stays inside what is free, resp. filled.
LEMMA SpanBounds ==
  ASSUME TypeOK, Spans
  PROVE  /\ retro_spsc_write_begin \in Nat
         /\ head + retro_spsc_write_begin <= tail + BufSize
         /\ retro_spsc_read_begin \in Nat
         /\ tail + retro_spsc_read_begin <= head
<1>1. Contiguous(head) \in Nat /\ Contiguous(tail) \in Nat
  BY ContiguousPositive DEF TypeOK
<1>2. tail <= head /\ head <= tail + BufSize /\ head \in Nat /\ tail \in Nat
  BY BufSizeAssumption DEF TypeOK, Spans
<1> QED BY <1>1, <1>2, BufSizeAssumption
        DEF retro_spsc_write_begin, retro_spsc_read_begin, MinOf

\* The state opera_lr_dsp_threaded.ic starts in satisfies the invariant.
LEMMA InitIInv == Init => IInv
<1> SUFFICES ASSUME Init PROVE IInv OBVIOUS
<1> USE BufSizeAssumption, WakeBatchAssumption DEF Init
<1>1. TypeOK      BY DEF TypeOK, EmuPC, DspPC
<1>2. Phase       BY DEF Phase
<1>3. WakeDebt    BY DEF WakeDebt
<1>4. DoneBehind  BY DEF DoneBehind
<1>5. Unsignalled BY DEF Unsignalled
<1>6. Spans       BY DEF Spans
<1>7. Accounting  BY DEF Accounting, Pending
<1> QED BY <1>1, <1>2, <1>3, <1>4, <1>5, <1>6, <1>7 DEF IInv

\* Every step of either thread keeps the invariant: one case per action.
LEMMA NextIInv == IInv /\ [Next]_vars => IInv'
<1> SUFFICES ASSUME IInv, [Next]_vars PROVE IInv'
  OBVIOUS
<1> USE BufSizeAssumption, WakeBatchAssumption
<1> USE DEF emuVars, dspVars, ringVars, histVars
<1>1. CASE dsp_process
  <2> USE <1>1 DEF dsp_process, IInv
  <2>1. TypeOK'      BY DEF TypeOK, EmuPC, DspPC
  <2>2. Phase'       BY DEF Phase, TypeOK
  <2>3. WakeDebt'    BY DEF WakeDebt, TypeOK
  <2>4. DoneBehind'  BY DEF DoneBehind, Phase, TypeOK
  <2>5. Unsignalled' BY DEF Unsignalled, Phase, WakeDebt, DoneBehind, TypeOK
  <2>6. Spans'       BY DEF Spans, Phase, TypeOK
  <2>7. Accounting'  BY DEF Accounting, Pending, Spans, DoneBehind, Phase, TypeOK
  <2> QED BY <2>1, <2>2, <2>3, <2>4, <2>5, <2>6, <2>7
<1>2. CASE dsp_process_threaded
  <2> USE <1>2 DEF dsp_process_threaded, IInv
  <2>1. TypeOK'      BY DEF TypeOK, EmuPC, DspPC
  <2>2. Phase'       BY DEF Phase, TypeOK
  <2>3. WakeDebt'    BY DEF WakeDebt, TypeOK
  <2>4. DoneBehind'  BY DEF DoneBehind, Phase, TypeOK
  <2>5. Unsignalled' BY DEF Unsignalled, Phase, WakeDebt, DoneBehind, TypeOK
  <2>6. Spans'       BY DEF Spans, Phase, TypeOK
  <2>7. Accounting'  BY DEF Accounting, Pending, Spans, DoneBehind, Phase, TypeOK
  <2> QED BY <2>1, <2>2, <2>3, <2>4, <2>5, <2>6, <2>7
<1>3. CASE dsp_process_threaded_notify
  <2> USE <1>3 DEF dsp_process_threaded_notify, IInv
  <2>1. TypeOK'      BY DEF TypeOK, EmuPC, DspPC
  <2>2. Phase'       BY DEF Phase, TypeOK
  <2>3. WakeDebt'    BY DEF WakeDebt, TypeOK
  <2>4. DoneBehind'  BY DEF DoneBehind, Phase, TypeOK
  <2>5. Unsignalled' BY DEF Unsignalled, Phase, WakeDebt, DoneBehind, TypeOK
  <2>6. Spans'       BY DEF Spans, Phase, TypeOK
  <2>7. Accounting'  BY DEF Accounting, Pending, Spans, DoneBehind, Phase, TypeOK
  <2> QED BY <2>1, <2>2, <2>3, <2>4, <2>5, <2>6, <2>7
<1>4. CASE dsp_upload
  <2> USE <1>4 DEF dsp_upload, IInv
  <2>1. TypeOK'      BY DEF TypeOK, EmuPC, DspPC
  <2>2. Phase'       BY DEF Phase, TypeOK
  <2>3. WakeDebt'    BY DEF WakeDebt, TypeOK
  <2>4. DoneBehind'  BY DEF DoneBehind, Phase, TypeOK
  <2>5. Unsignalled' BY DEF Unsignalled, Phase, WakeDebt, DoneBehind, TypeOK
  <2>6. Spans'       BY DEF Spans, Phase, TypeOK
  <2>7. Accounting'  BY DEF Accounting, Pending, Spans, DoneBehind, Phase, TypeOK
  <2> QED BY <2>1, <2>2, <2>3, <2>4, <2>5, <2>6, <2>7
<1>5. CASE dsp_upload_threaded_wake
  <2> USE <1>5 DEF dsp_upload_threaded_wake, IInv
  <2>1. TypeOK'      BY DEF TypeOK, EmuPC, DspPC
  <2>2. Phase'       BY DEF Phase, TypeOK
  <2>3. WakeDebt'    BY DEF WakeDebt, TypeOK
  <2>4. DoneBehind'  BY DEF DoneBehind, Phase, TypeOK
  <2>5. Unsignalled' BY DEF Unsignalled, Phase, WakeDebt, DoneBehind, TypeOK
  <2>6. Spans'       BY DEF Spans, Phase, TypeOK
  <2>7. Accounting'  BY DEF Accounting, Pending, Spans, DoneBehind, Phase, TypeOK
  <2> QED BY <2>1, <2>2, <2>3, <2>4, <2>5, <2>6, <2>7
<1>6. CASE dsp_upload_threaded_buf
  <2> USE <1>6 DEF dsp_upload_threaded_buf, IInv
  <2>1. TypeOK'      BY DEF TypeOK, EmuPC, DspPC
  <2>2. Phase'       BY DEF Phase, TypeOK
  <2>3. WakeDebt'    BY DEF WakeDebt, TypeOK
  <2>4. DoneBehind'  BY DEF DoneBehind, Phase, TypeOK
  <2>5. Unsignalled' BY DEF Unsignalled, Phase, WakeDebt, DoneBehind, TypeOK
  <2>6. Spans'       BY DEF Spans, Phase, TypeOK
  <2>7. Accounting'  BY DEF Accounting, Pending, Spans, DoneBehind, Phase, TypeOK
  <2> QED BY <2>1, <2>2, <2>3, <2>4, <2>5, <2>6, <2>7
<1>7. CASE dsp_upload_threaded_read
  <2> USE <1>7 DEF dsp_upload_threaded_read, IInv
  <2>0. rspan' \in Nat /\ tail + rspan' <= head   BY SpanBounds
  <2>1. TypeOK'      BY <2>0 DEF TypeOK, EmuPC
  <2>2. Phase'       BY DEF Phase, TypeOK
  <2>3. WakeDebt'    BY DEF WakeDebt, TypeOK
  <2>4. DoneBehind'  BY DEF DoneBehind, Phase, TypeOK
  <2>5. Unsignalled' BY DEF Unsignalled, Phase, WakeDebt, DoneBehind, TypeOK
  <2>6. Spans'       BY <2>0 DEF Spans, TypeOK
  <2>7. Accounting'  BY DEF Accounting, Pending, Spans, DoneBehind, Phase, TypeOK
  <2> QED BY <2>1, <2>2, <2>3, <2>4, <2>5, <2>6, <2>7
<1>8. CASE dsp_upload_threaded_end
  <2> USE <1>8 DEF dsp_upload_threaded_end, IInv
  <2>0. out \o RingFrames(rspan) \in Seq(Nat)
    <3>1. out \in Seq(Nat) /\ rspan \in Nat   BY DEF TypeOK
    <3>2. RingFrames(rspan) \in Seq(Nat)      BY <3>1, RingFramesType
    <3> QED BY <3>1, <3>2
  <2>1. TypeOK'      BY <2>0 DEF TypeOK, EmuPC
  <2>2. Phase'       BY DEF Phase, TypeOK
  <2>3. WakeDebt'    BY DEF WakeDebt, TypeOK
  <2>4. DoneBehind'  BY DEF DoneBehind, Phase, TypeOK
  <2>5. Unsignalled' BY DEF Unsignalled, Phase, WakeDebt, DoneBehind, TypeOK
  <2>6. Spans'       BY DEF Spans, Phase, TypeOK
  <2>7. Accounting'  BY DEF Accounting, Pending, Spans, DoneBehind, Phase, TypeOK
  <2> QED BY <2>1, <2>2, <2>3, <2>4, <2>5, <2>6, <2>7
<1>9. CASE dsp_thread_start
  <2> USE <1>9 DEF dsp_thread_start, IInv
  <2>1. TypeOK'      BY DEF TypeOK, EmuPC, DspPC
  <2>2. Phase'       BY DEF Phase, TypeOK
  <2>3. WakeDebt'    BY DEF WakeDebt, TypeOK
  <2>4. DoneBehind'  BY DEF DoneBehind, Phase, TypeOK
  <2>5. Unsignalled' BY DEF Unsignalled, Phase, WakeDebt, DoneBehind, TypeOK
  <2>6. Spans'       BY DEF Spans, Phase, TypeOK
  <2>7. Accounting'  BY DEF Accounting, Pending, Spans, DoneBehind, Phase, TypeOK
  <2> QED BY <2>1, <2>2, <2>3, <2>4, <2>5, <2>6, <2>7
<1>10. CASE dsp_thread_start_fails
  <2> USE <1>10 DEF dsp_thread_start_fails, IInv
  <2>1. TypeOK'      BY DEF TypeOK, EmuPC, DspPC
  <2>2. Phase'       BY DEF Phase, TypeOK
  <2>3. WakeDebt'    BY DEF WakeDebt, TypeOK
  <2>4. DoneBehind'  BY DEF DoneBehind, Phase, TypeOK
  <2>5. Unsignalled' BY DEF Unsignalled, Phase, WakeDebt, DoneBehind, TypeOK
  <2>6. Spans'       BY DEF Spans, Phase, TypeOK
  <2>7. Accounting'  BY DEF Accounting, Pending, Spans, DoneBehind, Phase, TypeOK
  <2> QED BY <2>1, <2>2, <2>3, <2>4, <2>5, <2>6, <2>7
<1>11. CASE opera_lr_dsp_destroy
  <2> USE <1>11 DEF opera_lr_dsp_destroy, IInv
  <2>1. TypeOK'      BY DEF TypeOK, EmuPC, DspPC
  <2>2. Phase'       BY DEF Phase, TypeOK
  <2>3. WakeDebt'    BY DEF WakeDebt, TypeOK
  <2>4. DoneBehind'  BY DEF DoneBehind, Phase, TypeOK
  <2>5. Unsignalled' BY DEF Unsignalled, Phase, WakeDebt, DoneBehind, TypeOK
  <2>6. Spans'       BY DEF Spans, Phase, TypeOK
  <2>7. Accounting'  BY DEF Accounting, Pending, Spans, DoneBehind, Phase, TypeOK
  <2> QED BY <2>1, <2>2, <2>3, <2>4, <2>5, <2>6, <2>7
<1>12. CASE opera_lr_dsp_destroy_notify
  <2> USE <1>12 DEF opera_lr_dsp_destroy_notify, IInv
  <2>1. TypeOK'      BY DEF TypeOK, EmuPC, DspPC
  <2>2. Phase'       BY DEF Phase, TypeOK
  <2>3. WakeDebt'    BY DEF WakeDebt, TypeOK
  <2>4. DoneBehind'  BY DEF DoneBehind, Phase, TypeOK
  <2>5. Unsignalled' BY DEF Unsignalled, Phase, WakeDebt, DoneBehind, TypeOK
  <2>6. Spans'       BY DEF Spans, Phase, TypeOK
  <2>7. Accounting'  BY DEF Accounting, Pending, Spans, DoneBehind, Phase, TypeOK
  <2> QED BY <2>1, <2>2, <2>3, <2>4, <2>5, <2>6, <2>7
<1>13. CASE opera_lr_dsp_destroy_join
  <2> USE <1>13 DEF opera_lr_dsp_destroy_join, IInv
  <2>0. RingFrames(MinOf(head - tail, CarryRoom)) \in Seq(Nat)
    <3>1. head - tail \in Nat   BY DEF Spans, TypeOK
    <3>2. CarryRoom \in Nat     BY DEF CarryRoom, TypeOK
    <3>3. MinOf(head - tail, CarryRoom) \in Nat   BY <3>1, <3>2 DEF MinOf
    <3> QED BY <3>3, RingFramesType
  <2>1. TypeOK'
    <3>1. buf' \in Seq(Nat)   BY <2>0 DEF TypeOK
    <3> QED BY <3>1 DEF TypeOK, EmuPC, DspPC
  <2>2. Phase'       BY DEF Phase, TypeOK
  <2>3. WakeDebt'    BY DEF WakeDebt, TypeOK
  <2>4. DoneBehind'  BY DEF DoneBehind, Phase, TypeOK
  <2>5. Unsignalled' BY DEF Unsignalled, Phase, WakeDebt, DoneBehind, TypeOK
  <2>6. Spans'       BY DEF Spans, Phase, TypeOK
  <2>7. Accounting'  BY DEF Accounting, Pending, Spans, DoneBehind, Phase, TypeOK
  <2> QED BY <2>1, <2>2, <2>3, <2>4, <2>5, <2>6, <2>7
<1>14. CASE dsp_thread_load
  <2> USE <1>14 DEF dsp_thread_load, IInv
  <2>0. posted - done \in Nat   BY DEF DoneBehind, Phase, TypeOK
  <2>1. TypeOK'      BY <2>0 DEF TypeOK, DspPC
  <2>2. Phase'       BY DEF Phase, TypeOK
  <2>3. WakeDebt'    BY DEF WakeDebt, TypeOK
  <2>4. DoneBehind'  BY DEF DoneBehind, Phase, TypeOK
  <2>5. Unsignalled' BY DEF Unsignalled, Phase, WakeDebt, DoneBehind, TypeOK
  <2>6. Spans'       BY DEF Spans, Phase, TypeOK
  <2>7. Accounting'
    <3>1. /\ posted \in Nat /\ done \in Nat /\ requested \in Nat /\ loops \in Nat
          /\ done <= posted /\ wn = 0 /\ loops + (posted - done) <= requested
      BY DEF Accounting, Pending, Spans, DoneBehind, Phase, TypeOK
    <3>2. wn' = wn /\ loops' = loops /\ requested' = requested
          /\ posted' = posted /\ done' = done
      BY DEF emuVars, histVars
    <3>3. CASE posted # done
      BY <3>1, <3>2, <3>3 DEF Accounting, Pending
    <3>4. CASE posted = done
      BY <3>1, <3>2, <3>4 DEF Accounting, Pending
    <3> QED BY <3>3, <3>4
  <2> QED BY <2>1, <2>2, <2>3, <2>4, <2>5, <2>6, <2>7
<1>15. CASE dsp_thread_run_ticks_drop
  <2> USE <1>15 DEF dsp_thread_run_ticks_drop, IInv
  <2>1. TypeOK'      BY DEF TypeOK, EmuPC, DspPC
  <2>2. Phase'       BY DEF Phase, TypeOK
  <2>3. WakeDebt'    BY DEF WakeDebt, TypeOK
  <2>4. DoneBehind'  BY DEF DoneBehind, Phase, TypeOK
  <2>5. Unsignalled' BY DEF Unsignalled, Phase, WakeDebt, DoneBehind, TypeOK
  <2>6. Spans'       BY DEF Spans, Phase, TypeOK
  <2>7. Accounting'  BY DEF Accounting, Pending, Spans, DoneBehind, Phase, TypeOK
  <2> QED BY <2>1, <2>2, <2>3, <2>4, <2>5, <2>6, <2>7
<1>16. CASE dsp_thread_run_ticks_fill
  <2> USE <1>16 DEF dsp_thread_run_ticks_fill, IInv
  <2>0. wn' \in Nat /\ wn' <= count /\ head + wn' <= tail + BufSize
    <3>1. /\ retro_spsc_write_begin \in Nat
          /\ head + retro_spsc_write_begin <= tail + BufSize
      BY SpanBounds
    <3>2. count \in Nat /\ head \in Nat /\ tail \in Nat   BY DEF TypeOK
    <3> QED BY <3>1, <3>2 DEF MinOf
  <2>1. TypeOK'
    <3>1. head % BufSize \in 0..BufSize-1   BY ContiguousPositive DEF TypeOK
    <3> DEFINE cell(i) == LET k == i - (head % BufSize)
                          IN  IF k >= 0 /\ k < wn' THEN loops + k + 1 ELSE slot[i]
    <3>2. slot \in [0..BufSize-1 -> Nat] /\ loops \in Nat   BY DEF TypeOK
    <3>3. \A i \in 0..BufSize-1 : cell(i) \in Nat           BY <3>1, <3>2
    <3>4. slot' = [i \in 0..BufSize-1 |-> cell(i)]          OBVIOUS
    <3> HIDE DEF cell
    <3>5. slot' \in [0..BufSize-1 -> Nat]                   BY <3>3, <3>4
    <3> QED BY <2>0, <3>2, <3>5 DEF TypeOK, DspPC
  <2>2. Phase'       BY DEF Phase, TypeOK
  <2>3. WakeDebt'    BY DEF WakeDebt, TypeOK
  <2>4. DoneBehind'  BY DEF DoneBehind, Phase, TypeOK
  <2>5. Unsignalled' BY DEF Unsignalled, Phase, WakeDebt, DoneBehind, TypeOK
  <2>6. Spans'       BY <2>0 DEF Spans, TypeOK
  <2>7. Accounting'
    <3>1. wn = 0                                   BY DEF Spans
    <3>2. Pending = posted - target + count        BY <3>1 DEF Pending, TypeOK
    <3>3. Pending' = posted - target + count - wn' BY DEF Pending
    <3>4. loops' + Pending' = loops + Pending      BY <2>0, <3>2, <3>3 DEF TypeOK
    <3> QED BY <2>0, <3>4 DEF Accounting
  <2> QED BY <2>1, <2>2, <2>3, <2>4, <2>5, <2>6, <2>7
<1>17. CASE dsp_thread_run_ticks_publish
  <2> USE <1>17 DEF dsp_thread_run_ticks_publish, IInv
  <2>0. wn <= count   BY DEF Accounting
  <2>1. TypeOK'
    <3>1. head' \in Nat /\ count' \in Nat   BY <2>0 DEF TypeOK
    <3> QED BY <3>1 DEF TypeOK, DspPC
  <2>2. Phase'       BY DEF Phase, TypeOK
  <2>3. WakeDebt'    BY DEF WakeDebt, TypeOK
  <2>4. DoneBehind'  BY DEF DoneBehind, Phase, TypeOK
  <2>5. Unsignalled' BY DEF Unsignalled, Phase, WakeDebt, DoneBehind, TypeOK
  <2>6. Spans'       BY DEF Spans, Phase, TypeOK
  <2>7. Accounting'  BY DEF Accounting, Pending, Spans, DoneBehind, Phase, TypeOK
  <2> QED BY <2>1, <2>2, <2>3, <2>4, <2>5, <2>6, <2>7
<1>18. CASE dsp_thread_run_ticks_done
  <2> USE <1>18 DEF dsp_thread_run_ticks_done, IInv
  <2>1. TypeOK'      BY DEF TypeOK, EmuPC, DspPC
  <2>2. Phase'       BY DEF Phase, TypeOK
  <2>3. WakeDebt'    BY DEF WakeDebt, TypeOK
  <2>4. DoneBehind'  BY DEF DoneBehind, Phase, TypeOK
  <2>5. Unsignalled' BY DEF Unsignalled, Phase, WakeDebt, DoneBehind, TypeOK
  <2>6. Spans'       BY DEF Spans, Phase, TypeOK
  <2>7. Accounting'  BY DEF Accounting, Pending, Spans, DoneBehind, Phase, TypeOK
  <2> QED BY <2>1, <2>2, <2>3, <2>4, <2>5, <2>6, <2>7
<1>19. CASE dsp_thread_check_running
  <2> USE <1>19 DEF dsp_thread_check_running, IInv
  <2>1. TypeOK'      BY DEF TypeOK, EmuPC, DspPC
  <2>2. Phase'       BY DEF Phase, TypeOK
  <2>3. WakeDebt'    BY DEF WakeDebt, TypeOK
  <2>4. DoneBehind'  BY DEF DoneBehind, Phase, TypeOK
  <2>5. Unsignalled' BY DEF Unsignalled, Phase, WakeDebt, DoneBehind, TypeOK
  <2>6. Spans'       BY DEF Spans, Phase, TypeOK
  <2>7. Accounting'  BY DEF Accounting, Pending, Spans, DoneBehind, Phase, TypeOK
  <2> QED BY <2>1, <2>2, <2>3, <2>4, <2>5, <2>6, <2>7
<1>20. CASE retro_eventcount_prepare_wait
  <2> USE <1>20 DEF retro_eventcount_prepare_wait, IInv
  <2>1. TypeOK'      BY DEF TypeOK, EmuPC, DspPC
  <2>2. Phase'       BY DEF Phase, TypeOK
  <2>3. WakeDebt'    BY DEF WakeDebt, TypeOK
  <2>4. DoneBehind'  BY DEF DoneBehind, Phase, TypeOK
  <2>5. Unsignalled' BY DEF Unsignalled, Phase, WakeDebt, DoneBehind, TypeOK
  <2>6. Spans'       BY DEF Spans, Phase, TypeOK
  <2>7. Accounting'  BY DEF Accounting, Pending, Spans, DoneBehind, Phase, TypeOK
  <2> QED BY <2>1, <2>2, <2>3, <2>4, <2>5, <2>6, <2>7
<1>21. CASE dsp_thread_recheck_ticks
  <2> USE <1>21 DEF dsp_thread_recheck_ticks, IInv
  <2>1. TypeOK'      BY DEF TypeOK, EmuPC, DspPC
  <2>2. Phase'       BY DEF Phase, TypeOK
  <2>3. WakeDebt'    BY DEF WakeDebt, TypeOK
  <2>4. DoneBehind'  BY DEF DoneBehind, Phase, TypeOK
  <2>5. Unsignalled' BY DEF Unsignalled, Phase, WakeDebt, DoneBehind, TypeOK
  <2>6. Spans'       BY DEF Spans, Phase, TypeOK
  <2>7. Accounting'  BY DEF Accounting, Pending, Spans, DoneBehind, Phase, TypeOK
  <2> QED BY <2>1, <2>2, <2>3, <2>4, <2>5, <2>6, <2>7
<1>22. CASE dsp_thread_recheck_running
  <2> USE <1>22 DEF dsp_thread_recheck_running, IInv
  <2>1. TypeOK'      BY DEF TypeOK, EmuPC, DspPC
  <2>2. Phase'       BY DEF Phase, TypeOK
  <2>3. WakeDebt'    BY DEF WakeDebt, TypeOK
  <2>4. DoneBehind'  BY DEF DoneBehind, Phase, TypeOK
  <2>5. Unsignalled' BY DEF Unsignalled, Phase, WakeDebt, DoneBehind, TypeOK
  <2>6. Spans'       BY DEF Spans, Phase, TypeOK
  <2>7. Accounting'  BY DEF Accounting, Pending, Spans, DoneBehind, Phase, TypeOK
  <2> QED BY <2>1, <2>2, <2>3, <2>4, <2>5, <2>6, <2>7
<1>23. CASE retro_eventcount_commit_wait
  <2> USE <1>23 DEF retro_eventcount_commit_wait, IInv
  <2>1. TypeOK'      BY DEF TypeOK, EmuPC, DspPC
  <2>2. Phase'       BY DEF Phase, TypeOK
  <2>3. WakeDebt'    BY DEF WakeDebt, TypeOK
  <2>4. DoneBehind'  BY DEF DoneBehind, Phase, TypeOK
  <2>5. Unsignalled' BY DEF Unsignalled, Phase, WakeDebt, DoneBehind, TypeOK
  <2>6. Spans'       BY DEF Spans, Phase, TypeOK
  <2>7. Accounting'  BY DEF Accounting, Pending, Spans, DoneBehind, Phase, TypeOK
  <2> QED BY <2>1, <2>2, <2>3, <2>4, <2>5, <2>6, <2>7
<1>24. CASE commit_wait_spurious
  <2> USE <1>24 DEF commit_wait_spurious, IInv
  <2>1. TypeOK'      BY DEF TypeOK, EmuPC, DspPC
  <2>2. Phase'       BY DEF Phase, TypeOK
  <2>3. WakeDebt'    BY DEF WakeDebt, TypeOK
  <2>4. DoneBehind'  BY DEF DoneBehind, Phase, TypeOK
  <2>5. Unsignalled' BY DEF Unsignalled, Phase, WakeDebt, DoneBehind, TypeOK
  <2>6. Spans'       BY DEF Spans, Phase, TypeOK
  <2>7. Accounting'  BY DEF Accounting, Pending, Spans, DoneBehind, Phase, TypeOK
  <2> QED BY <2>1, <2>2, <2>3, <2>4, <2>5, <2>6, <2>7
<1>25. CASE UNCHANGED vars
  BY <1>25 DEF vars, IInv, TypeOK, Phase, WakeDebt, DoneBehind, Unsignalled,
     Spans, Accounting, Pending
<1> QED BY <1>1, <1>2, <1>3, <1>4, <1>5, <1>6, <1>7, <1>8, <1>9, <1>10, <1>11, <1>12, <1>13, <1>14, <1>15, <1>16, <1>17, <1>18, <1>19, <1>20, <1>21, <1>22, <1>23, <1>24, <1>25 DEF Next, EmuCall, EmuStep, DspStep

\* The invariant holds in every state of every behaviour of the audio path.
LEMMA Invariance == Spec => []IInv
BY InitIInv, NextIInv, PTL DEF Spec

-----------------------------------------------------------------------------
\* Type correctness of every behaviour of the audio path.
THEOREM TypeCorrect == Spec => []TypeOK
<1>1. IInv => TypeOK   BY DEF IInv
<1> QED BY <1>1, Invariance, PTL

\* No lost wakeup, for every batch size: a DSP thread parked without a signal
\* lags by less than one batch (dsp_process_threaded / dsp_thread_loop).
THEOREM NoLostWakeup == Spec => []ParkedIsCaughtUp
<1>1. IInv => ParkedIsCaughtUp
  BY WakeBatchAssumption
     DEF IInv, ParkedIsCaughtUp, Unsignalled, WakeDebt, TypeOK
<1> QED BY <1>1, Invariance, PTL

\* Upload leaves no tick behind with a sleeping thread (dsp_upload_threaded).
THEOREM UploadWakes == Spec => []ParkedInUploadHasRunAll
<1>1. IInv => ParkedInUploadHasRunAll
  BY DEF IInv, ParkedInUploadHasRunAll, Unsignalled, WakeDebt, DoneBehind,
         Phase, TypeOK
<1> QED BY <1>1, Invariance, PTL

\* The thread that opera_lr_dsp_destroy joins is never asleep for good.
THEOREM JoinIsAnswered == Spec => []JoinNeverSleeps
<1>1. IInv => JoinNeverSleeps
  BY DEF IInv, JoinNeverSleeps, Unsignalled, Phase, TypeOK
<1> QED BY <1>1, Invariance, PTL

\* Reader's and writer's spans of the ring never overlap
\* (dsp_thread_run_ticks / dsp_upload_threaded).
THEOREM RingSafe == Spec => []SpansDisjoint
<1>1. IInv => SpansDisjoint   BY DEF IInv, SpansDisjoint, Spans
<1> QED BY <1>1, Invariance, PTL

\* The DSP never runs more ticks than it was asked for.
THEOREM TicksAccounted == Spec => []NoExtraTick
<1>1. IInv => NoExtraTick
  BY DEF IInv, NoExtraTick, Accounting, Pending, DoneBehind, Phase, Spans, TypeOK
<1> QED BY <1>1, Invariance, PTL

-----------------------------------------------------------------------------
(***************************************************************************)
(* DspThread implements DspStream.  What has been delivered, the buffer    *)
(* and the ring, its unpublished frames included, are one climbing         *)
(* sequence.                                                               *)
(***************************************************************************)
\* The frame at a position of the ring.
Cell(p) == slot[p % BufSize]

\* s climbs from above x to at most n; the newest sample of s, or x.
Climbing(s, x, n) ==
  \A i \in 1..Len(s) : s[i] <= n /\ s[i] > IF i = 1 THEN x ELSE s[i - 1]
NewestOf(s, x) == IF s = <<>> THEN x ELSE s[Len(s)]

LastOut == NewestOf(out, 0)
LastBuf == NewestOf(buf, LastOut)

RingOrdered ==
  \A p \in Nat : p >= tail /\ p < head + wn =>
    Cell(p) <= loops /\ Cell(p) > IF p = tail THEN LastBuf ELSE Cell(p - 1)

\* The ring is read only once the buffer has been delivered.
Ordered ==
  /\ mpc \in {"upRead", "upEnd"} => buf = <<>>
  /\ LastOut <= loops /\ Climbing(buf, LastOut, loops) /\ RingOrdered

\* The remainder is the number below the divisor that a multiple leaves.
LEMMA Remainder ==
  ASSUME NEW n \in Nat \ {0}, NEW a \in Int, NEW r \in 0..(n - 1), NEW p \in Int, p = n * a + r
  PROVE  p % n = r
<1> DEFINE b == p \div n
           m == p % n
<1>1. b \in Int /\ m \in 0..(n - 1) /\ p = n * b + m
  OBVIOUS
<1> HIDE DEF b, m
<1> DEFINE d == a - b
<1>2. n * a - n * b = n * d
  BY <1>1
<1>3. d \in Int
  BY <1>1
<1> HIDE DEF d
<1> DEFINE x == n * a
           y == n * b
           z == n * d
<1>4. x \in Int /\ y \in Int /\ z \in Int /\ x - y = z /\ p = x + r /\ p = y + m
  BY <1>1, <1>2, <1>3
<1>5. d = 0 \/ ((d > 0 => z >= n) /\ (d < 0 => z <= -n))
  BY <1>3
<1> HIDE DEF x, y
<1>6. z = m - r
  BY <1>1, <1>4
<1>7. z < n /\ z > -n
  BY <1>1, <1>6
<1>8. CASE d = 0
  <2>1. z = 0
    BY <1>8
  <2> QED
    BY <1>1, <1>6, <2>1 DEF m
<1>9. CASE d # 0
  BY <1>3, <1>4, <1>5, <1>7, <1>9
<1> QED
  BY <1>8, <1>9

\* Positions less than the ring's size apart have different cells; positions of
\* one span have neighbouring ones.
LEMMA CellsApart ==
  ASSUME NEW p \in Nat, NEW q \in Nat, p < q, q < p + BufSize
  PROVE  p % BufSize # q % BufSize
<1> DEFINE r == p % BufSize
           a == p \div BufSize
           k == q - p
<1>1. BufSize \in Nat \ {0}
  BY BufSizeAssumption
<1>2. a \in Int /\ r \in 0..(BufSize - 1) /\ p = BufSize * a + r
  BY <1>1
<1> HIDE DEF a, r
<1> DEFINE x == BufSize * a
<1>3. x \in Int /\ BufSize * (a + 1) = x + BufSize
  BY <1>1, <1>2
<1>4. k \in 1..(BufSize - 1) /\ p = x + r
  BY <1>1, <1>2
<1>5. CASE r + k < BufSize
  <2> DEFINE m == r + k
  <2>1. q = x + m /\ m \in 0..(BufSize - 1)
    BY <1>1, <1>2, <1>3, <1>4, <1>5
  <2> HIDE DEF m
  <2>2. q % BufSize = m
    BY <1>1, <1>2, <2>1, Remainder
  <2> QED
    BY <1>2, <1>4, <2>2 DEF r, m
<1>6. CASE r + k >= BufSize
  <2> DEFINE m == r + k - BufSize
             b == a + 1
  <2>1. q = (x + BufSize) + m
    BY <1>1, <1>2, <1>3, <1>4
  <2>2. m \in 0..(BufSize - 1) /\ b \in Int
    BY <1>1, <1>2, <1>4, <1>6
  <2> HIDE DEF m, b, x
  <2>3. q = BufSize * b + m
    BY <1>3, <2>1 DEF b
  <2>4. q % BufSize = m
    BY <1>1, <2>2, <2>3, Remainder
  <2> QED
    BY <1>1, <1>2, <1>4, <2>4 DEF r, m
<1> QED
  BY <1>1, <1>2, <1>4, <1>5, <1>6

LEMMA CellsTogether ==
  ASSUME NEW p \in Nat, NEW k \in Nat, k < Contiguous(p)
  PROVE  (p + k) % BufSize = (p % BufSize) + k
<1> DEFINE r == p % BufSize
           a == p \div BufSize
<1>1. BufSize \in Nat \ {0}
  BY BufSizeAssumption
<1>2. a \in Int /\ r \in 0..(BufSize - 1) /\ p = BufSize * a + r
  BY <1>1
<1>3. k < BufSize - r
  BY DEF Contiguous
<1> HIDE DEF a, r
<1>4. p + k = BufSize * a + (r + k) /\ r + k \in 0..(BufSize - 1) /\ p + k \in Int
  <2> DEFINE x == BufSize * a
  <2>1. x \in Int /\ p = x + r
    BY <1>1, <1>2
  <2> HIDE DEF x
  <2>2. p + k = x + (r + k) /\ r + k \in 0..(BufSize - 1) /\ p + k \in Int
    BY <1>1, <1>2, <1>3, <2>1
  <2> QED
    BY <2>2 DEF x
<1>5. (p + k) % BufSize = r + k
  BY <1>1, <1>2, <1>4, Remainder
<1> QED
  BY <1>5 DEF r

\* The n oldest frames of the ring, one by one.
LEMMA RingFramesAre ==
  ASSUME TypeOK, NEW n \in Nat
  PROVE  /\ RingFrames(n) \in Seq(Nat) /\ Len(RingFrames(n)) = n
         /\ \A i \in 1..n : RingFrames(n)[i] = Cell(tail + i - 1)
<1> DEFINE f == [i \in 1..n |-> slot[(tail + i - 1) % BufSize]]
<1>1. RingFrames(n) = f
  BY DEF RingFrames
<1>2. \A i \in 1..n : (tail + i - 1) \in Nat
  BY DEF TypeOK
<1>3. f \in [1..n -> Nat]
  BY <1>2, ContiguousPositive DEF TypeOK
<1>4. \A i \in 1..n : f[i] = Cell(tail + i - 1)
  BY DEF Cell
<1> HIDE DEF f
<1>5. f \in Seq(Nat) /\ DOMAIN f = 1..n
  BY <1>3, SeqDef
<1>6. DOMAIN f = 1..Len(f) /\ Len(f) \in Nat
  BY <1>5, LenProperties
<1>7. Len(f) = n
  BY <1>5, <1>6
<1> QED
  BY <1>1, <1>4, <1>5, <1>7

\* Types of what is ordered.
LEMMA NewestType ==
  ASSUME NEW s \in Seq(Nat), NEW x \in Nat
  PROVE  NewestOf(s, x) \in Nat /\ (s # <<>> => Len(s) \in 1..Len(s))
<1>1. CASE s = <<>>
  BY <1>1 DEF NewestOf
<1>2. CASE s # <<>>
  <2>1. Len(s) \in Nat \ {0}
    BY <1>2, EmptySeq
  <2>2. Len(s) \in 1..Len(s)
    BY <2>1
  <2>3. s[Len(s)] \in Nat
    BY <2>2, ElementOfSeq
  <2> QED
    BY <1>2, <2>2, <2>3 DEF NewestOf
<1> QED
  BY <1>1, <1>2

LEMMA OrderedTypes ==
  ASSUME TypeOK PROVE LastOut \in Nat /\ LastBuf \in Nat /\ \A p \in Nat : Cell(p) \in Nat
<1>1. \A p \in Nat : Cell(p) \in Nat
  BY ContiguousPositive DEF Cell, TypeOK
<1>2. out \in Seq(Nat) /\ buf \in Seq(Nat)
  BY DEF TypeOK
<1>3. LastOut \in Nat
  BY <1>2, NewestType DEF LastOut
<1>4. LastBuf \in Nat
  BY <1>2, <1>3, NewestType DEF LastBuf
<1> QED
  BY <1>1, <1>3, <1>4

\* A climbing sequence stays one when its limit is raised, and ends below it.
LEMMA ClimbsHigher ==
  ASSUME NEW s \in Seq(Nat), NEW x \in Nat, NEW n \in Nat, NEW m \in Nat, n <= m,
         Climbing(s, x, n), x <= n
  PROVE  Climbing(s, x, m) /\ NewestOf(s, x) <= n
<1>1. ASSUME NEW i \in 1..Len(s) PROVE s[i] <= m /\ s[i] > IF i = 1 THEN x ELSE s[i - 1]
  <2> DEFINE b == s[i]
  <2>1. b \in Nat
    BY ElementOfSeq
  <2>2. b <= n /\ b > IF i = 1 THEN x ELSE s[i - 1]
    BY DEF Climbing
  <2> HIDE DEF b
  <2>3. b <= m
    BY <2>1, <2>2
  <2> QED
    BY <2>2, <2>3 DEF b
<1>2. NewestOf(s, x) <= n
  <2>1. CASE s = <<>>
    BY <2>1 DEF NewestOf
  <2>2. CASE s # <<>>
    BY <2>2, NewestType DEF NewestOf, Climbing
  <2> QED
    BY <2>1, <2>2
<1> QED
  BY <1>1, <1>2 DEF Climbing

\* u is s followed by samples that climb from the newest of s, or from x.
Continues(s, u, x, n) ==
  /\ u \in Seq(Nat) /\ Len(s) <= Len(u)
  /\ \A i \in 1..Len(s) : u[i] = s[i]
  /\ \A i \in (Len(s) + 1)..Len(u) : u[i] <= n /\ u[i] > IF i = 1 THEN x ELSE u[i - 1]

LEMMA Joined ==
  ASSUME NEW s \in Seq(Nat), NEW t \in Seq(Nat), NEW x \in Nat, NEW n \in Nat,
         Climbing(t, NewestOf(s, x), n)
  PROVE  /\ Continues(s, s \o t, x, n)
         /\ NewestOf(s \o t, x) = NewestOf(t, NewestOf(s, x))
         /\ Climbing(s, x, n) => Climbing(s \o t, x, n)
<1> DEFINE u == s \o t
           l == Len(s)
           k == Len(t)
<1>1. /\ u \in Seq(Nat) /\ Len(u) = l + k /\ l \in Nat /\ k \in Nat
      /\ \A i \in 1..(l + k) : u[i] = IF i <= l THEN s[i] ELSE t[i - l]
  BY ConcatProperties, LenProperties
<1>2. l = 0 <=> s = <<>>
  BY EmptySeq
<1>3. k = 0 <=> t = <<>>
  BY EmptySeq
<1> DEFINE y == NewestOf(s, x)
<1>4. y = IF l = 0 THEN x ELSE s[l]
  BY <1>2 DEF NewestOf
<1> HIDE DEF y, u, l, k
<1>5. \A i \in 1..l : u[i] = s[i]
  BY <1>1
<1>6. \A j \in 1..k : u[l + j] = t[j]
  <2> SUFFICES ASSUME NEW j \in 1..k PROVE u[l + j] = t[j]
    OBVIOUS
  <2> DEFINE i == l + j
  <2>1. i \in 1..(l + k) /\ ~(i <= l) /\ i - l = j
    BY <1>1
  <2> HIDE DEF i
  <2>2. u[i] = t[i - l]
    BY <1>1, <2>1
  <2> QED
    BY <2>1, <2>2 DEF i
<1>7. ASSUME NEW i \in (l + 1)..(l + k) PROVE u[i] <= n /\ u[i] > IF i = 1 THEN x ELSE u[i - 1]
  <2> DEFINE j == i - l
  <2>1. j \in 1..k /\ i = l + j /\ i \in Nat
    BY <1>1
  <2> HIDE DEF j
  <2>2. u[i] = t[j]
    BY <1>6, <2>1
  <2>3. t[j] <= n /\ t[j] > IF j = 1 THEN y ELSE t[j - 1]
    BY <2>1 DEF Climbing, y, k
  <2>4. (IF j = 1 THEN y ELSE t[j - 1]) = IF i = 1 THEN x ELSE u[i - 1]
    <3>1. CASE j = 1 /\ l = 0
      BY <1>4, <2>1, <3>1
    <3>2. CASE j = 1 /\ l # 0
      <4>1. i - 1 = l /\ i # 1 /\ l \in 1..l
        BY <1>1, <2>1, <3>2
      <4>2. u[l] = s[l]
        BY <1>5, <4>1
      <4> QED
        BY <1>4, <3>2, <4>1, <4>2
    <3>3. CASE j # 1
      <4> DEFINE h == j - 1
      <4>1. h \in 1..k /\ i - 1 = l + h /\ i # 1
        BY <1>1, <2>1, <3>3
      <4> HIDE DEF h
      <4>2. u[l + h] = t[h]
        BY <1>6, <4>1
      <4>3. u[i - 1] = t[h]
        BY <4>1, <4>2
      <4> QED
        BY <3>3, <4>1, <4>3 DEF h
    <3> QED
      BY <3>1, <3>2, <3>3
  <2> QED
    BY <2>2, <2>3, <2>4
<1>8. Continues(s, u, x, n)
  BY <1>1, <1>5, <1>7 DEF Continues, l
<1>9. NewestOf(u, x) = NewestOf(t, y)
  <2>0. u = <<>> <=> l + k = 0
    BY <1>1, EmptySeq
  <2>1. CASE k = 0
    <3>1. NewestOf(t, y) = y
      BY <1>3, <2>1 DEF NewestOf
    <3>2. CASE l = 0
      BY <1>4, <2>0, <2>1, <3>1, <3>2 DEF NewestOf
    <3>3. CASE l # 0
      <4>1. Len(u) = l /\ u[l] = s[l] /\ u # <<>>
        BY <1>1, <1>5, <2>0, <2>1, <3>3
      <4> QED
        BY <1>4, <3>1, <3>3, <4>1 DEF NewestOf
    <3> QED
      BY <3>2, <3>3
  <2>2. CASE k # 0
    <3>1. NewestOf(t, y) = t[k]
      BY <1>3, <2>2 DEF NewestOf, k
    <3>2. u[l + k] = t[k] /\ u # <<>>
      BY <1>1, <1>6, <2>0, <2>2
    <3> QED
      BY <1>1, <3>1, <3>2 DEF NewestOf
  <2> QED
    BY <2>1, <2>2
<1>10. ASSUME Climbing(s, x, n) PROVE Climbing(u, x, n)
  <2> SUFFICES ASSUME NEW i \in 1..(l + k)
               PROVE  u[i] <= n /\ u[i] > IF i = 1 THEN x ELSE u[i - 1]
    BY <1>1 DEF Climbing
  <2>1. CASE i > l
    <3>1. i \in (l + 1)..(l + k)
      BY <1>1, <2>1
    <3> QED
      BY <1>7, <3>1
  <2>2. CASE i <= l
    <3>1. i \in 1..l /\ (i # 1 => i - 1 \in 1..l)
      BY <1>1, <2>2
    <3>2. u[i] = s[i] /\ (i # 1 => u[i - 1] = s[i - 1])
      BY <1>5, <3>1
    <3>3. s[i] <= n /\ s[i] > IF i = 1 THEN x ELSE s[i - 1]
      BY <1>10, <3>1 DEF Climbing, l
    <3> QED
      BY <3>2, <3>3
  <2> QED
    BY <1>1, <2>1, <2>2
<1> QED
  BY <1>8, <1>9, <1>10 DEF u, y

\* A step that moves no sample.
LEMMA OrderedFrame ==
  ASSUME Ordered, TypeOK, TypeOK', loops <= loops', head' + wn' = head + wn,
         UNCHANGED <<buf, out, tail, slot>>, mpc' \in {"upRead", "upEnd"} => buf = <<>>
  PROVE  Ordered'
<1>0. buf' = buf /\ out' = out /\ tail' = tail /\ slot' = slot
  OBVIOUS
<1>1. LastOut' = LastOut /\ LastBuf' = LastBuf /\ \A p : Cell(p)' = Cell(p)
  BY <1>0 DEF LastOut, LastBuf, Cell
<1>2. /\ LastOut \in Nat /\ loops \in Nat /\ loops' \in Nat /\ \A p \in Nat : Cell(p) \in Nat
      /\ buf \in Seq(Nat)
  BY OrderedTypes DEF TypeOK
<1>3. LastOut <= loops /\ Climbing(buf, LastOut, loops) /\ RingOrdered
  BY DEF Ordered
<1>4. LastOut' <= loops'
  BY <1>1, <1>2, <1>3
<1>5. Climbing(buf, LastOut, loops')
  BY <1>2, <1>3, ClimbsHigher
<1>6. RingOrdered'
  <2> SUFFICES ASSUME NEW p \in Nat, p >= tail, p < head + wn
               PROVE  Cell(p) <= loops' /\ Cell(p) > IF p = tail THEN LastBuf ELSE Cell(p - 1)
    BY <1>0, <1>1 DEF RingOrdered
  <2>1. Cell(p) <= loops /\ Cell(p) > IF p = tail THEN LastBuf ELSE Cell(p - 1)
    BY <1>3 DEF RingOrdered
  <2> QED
    BY <1>2, <2>1
<1> QED
  BY <1>0, <1>1, <1>4, <1>5, <1>6 DEF Ordered

\* The frames of a span climb from the newest sample before them.
LEMMA FramesClimb ==
  ASSUME TypeOK, RingOrdered, NEW n \in Nat, tail + n <= head + wn
  PROVE  Climbing(RingFrames(n), LastBuf, loops)
<1>1. /\ Len(RingFrames(n)) = n /\ \A i \in 1..n : RingFrames(n)[i] = Cell(tail + i - 1)
      /\ tail \in Nat /\ head \in Nat /\ wn \in Nat
  BY RingFramesAre DEF TypeOK
<1> DEFINE f == RingFrames(n)
<1> HIDE DEF f
<1> SUFFICES ASSUME NEW i \in 1..n
             PROVE  f[i] <= loops /\ f[i] > IF i = 1 THEN LastBuf ELSE f[i - 1]
  BY <1>1 DEF Climbing, f
<1> DEFINE p == tail + i - 1
<1>2. p \in Nat /\ p >= tail /\ p < head + wn /\ (p = tail <=> i = 1)
  BY <1>1
<1>3. f[i] = Cell(p)
  BY <1>1 DEF f
<1>4. i # 1 => f[i - 1] = Cell(p - 1)
  <2> SUFFICES ASSUME i # 1 PROVE f[i - 1] = Cell(p - 1)
    OBVIOUS
  <2> DEFINE j == i - 1
  <2>1. j \in 1..n /\ tail + j - 1 = p - 1
    BY <1>1
  <2> HIDE DEF j
  <2>2. f[j] = Cell(tail + j - 1)
    BY <1>1, <2>1 DEF f
  <2> QED
    BY <2>1, <2>2 DEF j
<1> HIDE DEF p
<1>5. Cell(p) <= loops /\ Cell(p) > IF p = tail THEN LastBuf ELSE Cell(p - 1)
  BY <1>2 DEF RingOrdered
<1> QED
  BY <1>2, <1>3, <1>4, <1>5

\* Delivering a sequence that climbs from the newest delivered sample.
LEMMA Delivered ==
  ASSUME TypeOK, LastOut <= loops, NEW s \in Seq(Nat), Climbing(s, LastOut, loops), out' = out \o s
  PROVE  /\ Continues(out, out', 0, loops) /\ LastOut' = NewestOf(s, LastOut)
         /\ LastOut' <= loops
<1>1. out \in Seq(Nat) /\ loops \in Nat /\ LastOut \in Nat
  BY OrderedTypes DEF TypeOK
<1>2. Climbing(s, NewestOf(out, 0), loops)
  BY DEF LastOut
<1>3. Continues(out, out', 0, loops) /\ NewestOf(out \o s, 0) = NewestOf(s, LastOut)
  BY <1>1, <1>2, Joined DEF LastOut
<1>4. LastOut' = NewestOf(s, LastOut)
  BY <1>3 DEF LastOut
<1>5. NewestOf(s, LastOut) <= loops
  BY <1>1, ClimbsHigher
<1> QED
  BY <1>3, <1>4, <1>5

\* The buffer goes to the frontend.
LEMMA BufferDelivered ==
  ASSUME Ordered, TypeOK, out' = out \o buf, buf' = <<>>, UNCHANGED <<slot, head, tail, wn, loops>>
  PROVE  Ordered' /\ Continues(out, out', 0, loops)
<1>1. buf \in Seq(Nat) /\ LastOut <= loops /\ Climbing(buf, LastOut, loops) /\ RingOrdered
  BY DEF Ordered, TypeOK
<1>2. Continues(out, out', 0, loops) /\ LastOut' = LastBuf /\ LastOut' <= loops
  BY <1>1, Delivered DEF LastBuf
<1>3. LastBuf' = LastBuf /\ \A p : Cell(p)' = Cell(p)
  BY <1>2 DEF LastBuf, NewestOf, Cell
<1>4. RingOrdered'
  <2>1. head' = head /\ tail' = tail /\ wn' = wn /\ loops' = loops
    OBVIOUS
  <2> QED
    BY <1>1, <1>3, <2>1, Zenon DEF RingOrdered
<1>5. Climbing(buf, LastOut, loops)'
  BY DEF Climbing
<1> QED
  BY <1>2, <1>4, <1>5 DEF Ordered

\* A span of the ring goes to the frontend.
LEMMA SpanDelivered ==
  ASSUME IInv, Ordered, dsp_upload_threaded_end
  PROVE  Ordered' /\ Continues(out, out', 0, loops)
<1>1. /\ TypeOK /\ tail + rspan <= head /\ buf = <<>> /\ mpc' = "upRead" /\ LastOut <= loops
      /\ rspan \in Nat /\ tail \in Nat /\ head \in Nat /\ wn \in Nat /\ RingOrdered
  BY DEF IInv, Spans, TypeOK, Ordered, dsp_upload_threaded_end
<1>2. /\ out' = out \o RingFrames(rspan) /\ tail' = tail + rspan
      /\ buf' = buf /\ slot' = slot /\ head' = head /\ wn' = wn /\ loops' = loops
  BY DEF dsp_upload_threaded_end, dspVars
<1>3. LastBuf = LastOut
  BY <1>1 DEF LastBuf, NewestOf
<1> DEFINE s == RingFrames(rspan)
<1>4. /\ s \in Seq(Nat) /\ Len(s) = rspan /\ \A i \in 1..rspan : s[i] = Cell(tail + i - 1)
  BY <1>1, RingFramesAre
<1>5. Climbing(s, LastOut, loops)
  BY <1>1, <1>3, FramesClimb
<1> HIDE DEF s
<1>6. /\ Continues(out, out', 0, loops) /\ LastOut' = NewestOf(s, LastOut) /\ LastOut' <= loops
  BY <1>1, <1>2, <1>4, <1>5, Delivered DEF s
<1>7. LastBuf' = LastOut' /\ (\A p : Cell(p)' = Cell(p)) /\ Climbing(buf, LastOut, loops)'
  BY <1>1, <1>2 DEF LastBuf, NewestOf, Cell, Climbing
<1>8. rspan # 0 => LastOut' = Cell(tail + rspan - 1)
  <2> SUFFICES ASSUME rspan # 0 PROVE LastOut' = Cell(tail + rspan - 1)
    OBVIOUS
  <2>1. rspan \in 1..rspan /\ s # <<>>
    BY <1>1, <1>4, EmptySeq
  <2> QED
    BY <1>4, <1>6, <2>1 DEF NewestOf
<1>9. RingOrdered'
  <2> SUFFICES ASSUME NEW p \in Nat, p >= tail + rspan, p < head + wn
               PROVE  Cell(p) <= loops /\ Cell(p) > IF p = tail + rspan THEN LastOut' ELSE Cell(p - 1)
    BY <1>2, <1>7, Zenon DEF RingOrdered
  <2>1. Cell(p) <= loops /\ Cell(p) > IF p = tail THEN LastOut ELSE Cell(p - 1)
    BY <1>1, <1>3 DEF RingOrdered
  <2>2. CASE rspan = 0
    <3>1. LastOut' = LastOut /\ tail + rspan = tail
      BY <1>1, <1>4, <1>6, <2>2, EmptySeq DEF NewestOf
    <3> QED
      BY <2>1, <3>1
  <2>3. CASE rspan # 0
    <3>1. p # tail /\ (p = tail + rspan => LastOut' = Cell(p - 1))
      BY <1>1, <1>8, <2>3
    <3> QED
      BY <2>1, <3>1
  <2> QED
    BY <2>2, <2>3
<1> QED
  BY <1>1, <1>2, <1>6, <1>7, <1>9 DEF Ordered

\* The samples written to a free span are the newest, and no frame that waits in
\* the ring is overwritten.
LEMMA SpanFilled ==
  ASSUME IInv, Ordered, dsp_thread_run_ticks_fill
  PROVE  Ordered' /\ wn' \in 1..count
<1>1. /\ TypeOK /\ wn = 0 /\ tail <= head /\ head \in Nat /\ tail \in Nat /\ loops \in Nat
      /\ count \in Nat \ {0} /\ LastOut \in Nat /\ LastBuf \in Nat /\ BufSize \in Nat \ {0}
      /\ retro_spsc_write_begin > 0 /\ buf \in Seq(Nat)
  <2>1. TypeOK /\ Spans /\ tpc = "run" /\ count > 0 /\ retro_spsc_write_begin > 0
    BY DEF IInv, dsp_thread_run_ticks_fill
  <2>2. LastOut \in Nat /\ LastBuf \in Nat
    BY <2>1, OrderedTypes
  <2>3. /\ head \in Nat /\ tail \in Nat /\ loops \in Nat /\ count \in Nat /\ rspan \in Nat
        /\ buf \in Seq(Nat)
    BY <2>1 DEF TypeOK
  <2>4. wn = 0 /\ tail + rspan <= head
    BY <2>1 DEF Spans
  <2> QED
    BY <2>1, <2>2, <2>3, <2>4, BufSizeAssumption
<1>2. /\ retro_spsc_write_begin \in Nat /\ head + retro_spsc_write_begin <= tail + BufSize
  BY <1>1, SpanBounds DEF IInv
<1>3. Contiguous(head) \in Nat /\ head % BufSize \in 0..(BufSize - 1)
  BY <1>1, ContiguousPositive
<1>4. retro_spsc_write_begin <= Contiguous(head)
  BY <1>1, <1>3 DEF retro_spsc_write_begin, MinOf
<1>5. /\ wn' = MinOf(retro_spsc_write_begin, count) /\ loops' = loops + wn'
      /\ slot' = [i \in 0..BufSize-1 |->
                    LET k == i - (head % BufSize)
                    IN  IF k >= 0 /\ k < wn' THEN loops + k + 1 ELSE slot[i]]
      /\ buf' = buf /\ out' = out /\ head' = head /\ tail' = tail /\ mpc' = mpc
  BY DEF dsp_thread_run_ticks_fill, emuVars
<1>6. wn' \in 1..count /\ wn' <= Contiguous(head) /\ head + wn' <= tail + BufSize
  BY <1>1, <1>2, <1>3, <1>4, <1>5 DEF MinOf
<1>6a. PICK n \in 1..count : n = wn'
  BY <1>6
<1> DEFINE New(p) == slot'[p % BufSize]
           c == Contiguous(head)
<1>6b. n \in Nat /\ n <= c /\ c \in Nat /\ head + n <= tail + BufSize
  <2>1. n <= c /\ c \in Nat /\ head + n <= tail + BufSize
    BY <1>3, <1>6, <1>6a, Zenon
  <2>2. n \in Nat
    BY <1>1
  <2> QED
    BY <2>1, <2>2
<1> HIDE DEF c
<1>7. ASSUME NEW k \in 0..(n - 1) PROVE New(head + k) = loops + k + 1
  <2>0. k \in Nat /\ k < c /\ k < n
    BY <1>6b
  <2>1. k \in Nat /\ k < Contiguous(head) /\ k < wn'
    BY <1>6a, <2>0 DEF c
  <2> DEFINE i == (head + k) % BufSize
  <2>2. i = (head % BufSize) + k
    BY <1>1, <2>1, CellsTogether
  <2>3. i \in 0..BufSize-1
    <3>1. head + k \in Nat
      BY <1>1, <2>1
    <3> QED
      BY <3>1, ContiguousPositive
  <2> HIDE DEF i
  <2>4. i - (head % BufSize) = k
    BY <1>3, <2>1, <2>2
  <2>5. slot'[i] = loops + k + 1
    BY <1>5, <2>1, <2>3, <2>4
  <2> QED
    BY <2>5 DEF i
<1>8. ASSUME NEW p \in Nat, p >= tail, p < head PROVE New(p) = Cell(p)
  <2> DEFINE i == p % BufSize
             k == i - (head % BufSize)
  <2>1. i \in 0..BufSize-1
    BY ContiguousPositive
  <2>2. ~(k >= 0 /\ k < wn')
    <3> SUFFICES ASSUME k >= 0, k < wn' PROVE FALSE
      OBVIOUS
    <3>0. k \in Nat /\ k < n
      BY <1>3, <1>6a, <2>1
    <3>1. k \in Nat /\ k < c
      BY <1>6b, <3>0
    <3>2. (head + k) % BufSize = (head % BufSize) + k
      BY <1>1, <3>1, CellsTogether DEF c
    <3>3. (head % BufSize) + k = i
      BY <1>3, <2>1
    <3> DEFINE q == head + k
    <3>4. q \in Nat /\ p < q /\ q < p + BufSize
      <4> HIDE DEF k
      <4> QED
        BY <1>1, <1>6b, <1>8, <3>0
    <3>5. p % BufSize # (head + k) % BufSize
      BY <3>4, CellsApart
    <3> QED
      BY <3>2, <3>3, <3>5
  <2>3. slot'[i] = slot[i]
    BY <1>5, <2>1, <2>2
  <2> QED
    BY <2>3 DEF Cell
<1>9. LastOut' = LastOut /\ LastBuf' = LastBuf
  BY <1>5 DEF LastOut, LastBuf
<1>10. LastOut <= loops /\ Climbing(buf, LastOut, loops) /\ RingOrdered
  BY DEF Ordered
<1>11. n \in Nat /\ loops' = loops + n /\ loops' \in Nat /\ loops <= loops'
  BY <1>1, <1>5, <1>6a, <1>6b
<1>12. LastBuf <= loops /\ Climbing(buf, LastOut, loops')
  BY <1>1, <1>10, <1>11, ClimbsHigher DEF LastBuf
<1>13. RingOrdered'
  <2> SUFFICES ASSUME NEW p \in Nat, p >= tail, p < head + n
               PROVE  New(p) <= loops' /\ New(p) > IF p = tail THEN LastBuf ELSE New(p - 1)
    BY <1>5, <1>6a, <1>9, Zenon DEF RingOrdered, Cell
  <2> HIDE DEF New
  <2>1. CASE p < head
    <3>1. New(p) = Cell(p) /\ (p # tail => New(p - 1) = Cell(p - 1))
      <4>1. p # tail => p - 1 \in Nat /\ p - 1 >= tail /\ p - 1 < head
        BY <1>1, <2>1
      <4> QED
        BY <1>8, <2>1, <4>1
    <3>2. Cell(p) <= loops /\ Cell(p) > IF p = tail THEN LastBuf ELSE Cell(p - 1)
      BY <1>1, <1>10, <2>1 DEF RingOrdered
    <3>3. Cell(p) \in Nat
      BY <1>1, OrderedTypes
    <3>4. Cell(p) <= loops'
      BY <1>1, <1>11, <3>2, <3>3
    <3> QED
      BY <3>1, <3>2, <3>4
  <2>2. CASE p >= head
    <3> DEFINE k == p - head
    <3>1. k \in 0..(n - 1) /\ p = head + k
      BY <1>1, <1>11, <2>2
    <3> HIDE DEF k
    <3>2. New(p) = loops + k + 1
      BY <1>7, <3>1
    <3>3. loops + k + 1 <= loops'
      BY <1>1, <1>5, <1>11, <3>1
    <3>4. loops + k + 1 > IF p = tail THEN LastBuf ELSE New(p - 1)
      <4>1. CASE p = tail
        BY <1>1, <1>12, <3>1, <4>1
      <4>2. CASE p # tail /\ k = 0
        <5>1. p - 1 \in Nat /\ p - 1 >= tail /\ p - 1 < head
          BY <1>1, <3>1, <4>2
        <5> DEFINE q == p - 1
        <5>1a. q \in Nat /\ q >= tail /\ q < head /\ q < head + wn
          BY <1>1, <5>1
        <5> HIDE DEF q
        <5>2. New(q) = Cell(q) /\ Cell(q) <= loops /\ Cell(q) \in Nat
          <6>1. New(q) = Cell(q)
            BY <1>8, <5>1a
          <6>2. Cell(q) <= loops
            BY <1>10, <5>1a DEF RingOrdered
          <6>3. Cell(q) \in Nat
            BY <1>1, <5>1a, OrderedTypes
          <6> QED
            BY <6>1, <6>2, <6>3
        <5>3. loops + k + 1 > New(q)
          BY <1>1, <4>2, <5>2
        <5> QED
          BY <4>2, <5>3 DEF q
      <4>3. CASE p # tail /\ k # 0
        <5> DEFINE j == k - 1
        <5>1. j \in 0..(n - 1) /\ p - 1 = head + j
          BY <1>1, <1>11, <3>1, <4>3
        <5> HIDE DEF j
        <5>2. New(p - 1) = loops + j + 1
          BY <1>7, <5>1
        <5>3. loops + k + 1 > loops + j + 1
          BY <1>1, <1>11, <3>1, <5>1 DEF j
        <5> QED
          BY <4>3, <5>2, <5>3
      <4> QED
        BY <4>1, <4>2, <4>3
    <3> QED
      BY <3>2, <3>3, <3>4
  <2> QED
    BY <1>1, <2>1, <2>2
<1>14. LastOut <= loops'
  BY <1>1, <1>10, <1>11
<1> QED
  BY <1>5, <1>6, <1>9, <1>12, <1>13, <1>14 DEF Ordered

\* The join keeps the oldest frames of the ring behind the buffer.
LEMMA JoinOrdered ==
  ASSUME IInv, Ordered, opera_lr_dsp_destroy_join
  PROVE  Ordered'
<1>1. /\ TypeOK /\ wn = 0 /\ tail <= head /\ head \in Nat /\ tail \in Nat /\ loops \in Nat
      /\ LastOut \in Nat /\ LastBuf \in Nat /\ buf \in Seq(Nat) /\ LastOut <= loops
      /\ Climbing(buf, LastOut, loops) /\ RingOrdered
  <2>1. TypeOK /\ Spans /\ tpc = "exit"
    BY DEF IInv, opera_lr_dsp_destroy_join
  <2>2. LastOut \in Nat /\ LastBuf \in Nat
    BY <2>1, OrderedTypes
  <2>3. /\ head \in Nat /\ tail \in Nat /\ loops \in Nat /\ rspan \in Nat /\ buf \in Seq(Nat)
    BY <2>1 DEF TypeOK
  <2>4. wn = 0 /\ tail + rspan <= head
    BY <2>1 DEF Spans
  <2> QED
    BY <2>1, <2>2, <2>3, <2>4 DEF Ordered
<1> DEFINE n == MinOf(head - tail, CarryRoom)
<1>2. /\ buf' = buf \o RingFrames(n) /\ head' = 0 /\ tail' = 0 /\ wn' = 0 /\ mpc' = "idle"
      /\ out' = out /\ loops' = loops
  BY <1>1 DEF opera_lr_dsp_destroy_join, histVars
<1>3. n \in Nat /\ tail + n <= head
  <2>1. CarryRoom \in Nat
    BY <1>1, BufSizeAssumption DEF CarryRoom
  <2> QED
    BY <1>1, <2>1 DEF MinOf
<1> HIDE DEF n
<1>4. RingFrames(n) \in Seq(Nat) /\ Climbing(RingFrames(n), LastBuf, loops)
  BY <1>1, <1>3, RingFramesAre, FramesClimb
<1>5. Climbing(buf', LastOut, loops)
  BY <1>1, <1>2, <1>4, Joined DEF LastBuf
<1>6. LastOut' = LastOut
  BY <1>2 DEF LastOut
<1>7. RingOrdered'
  BY <1>2 DEF RingOrdered
<1> QED
  BY <1>1, <1>2, <1>5, <1>6, <1>7 DEF Ordered

\* An unthreaded tick puts the newest sample behind the others, or drops them.
LEMMA ProcessOrdered ==
  ASSUME IInv, Ordered, dsp_process
  PROVE  Ordered'
<1>1. /\ TypeOK /\ wn = 0 /\ head = 0 /\ tail = 0 /\ loops \in Nat
      /\ LastOut \in Nat /\ LastBuf \in Nat /\ buf \in Seq(Nat) /\ LastOut <= loops
      /\ Climbing(buf, LastOut, loops)
  BY OrderedTypes DEF IInv, Spans, Phase, TypeOK, dsp_process, Ordered
<1>2. /\ head' = 0 /\ tail' = 0 /\ wn' = 0 /\ mpc' = "idle" /\ out' = out /\ loops' = loops + 1
      /\ buf' = IF Len(buf) + 1 = BufSize THEN <<>> ELSE Append(buf, loops + 1)
  BY <1>1 DEF dsp_process, dspVars, ringVars
<1>3. LastOut' = LastOut /\ RingOrdered' /\ LastOut <= loops'
  BY <1>1, <1>2 DEF LastOut, RingOrdered
<1>4. Climbing(buf, LastOut, loops') /\ LastBuf <= loops
  BY <1>1, <1>2, ClimbsHigher DEF LastBuf
<1>5. Climbing(buf', LastOut, loops')
  <2>1. CASE buf' = <<>>
    BY <2>1 DEF Climbing
  <2>2. CASE buf' = Append(buf, loops + 1)
    <3> DEFINE t == <<loops + 1>>
    <3>1. t \in Seq(Nat) /\ Len(t) = 1 /\ t[1] = loops + 1 /\ buf' = buf \o t
      BY <1>1, <2>2, AppendIsConcat
    <3> HIDE DEF t
    <3>2. Climbing(t, LastBuf, loops')
      <4>1. t[1] <= loops' /\ t[1] > LastBuf
        BY <1>1, <1>2, <1>4, <3>1
      <4>2. \A i \in 1..Len(t) : i = 1
        BY <3>1
      <4> QED
        BY <4>1, <4>2 DEF Climbing
    <3>3. loops' \in Nat
      BY <1>1, <1>2
    <3> QED
      BY <1>1, <1>4, <3>1, <3>2, <3>3, Joined DEF LastBuf
  <2> QED
    BY <1>2, <2>1, <2>2
<1> QED
  BY <1>2, <1>3, <1>5 DEF Ordered

LEMMA OrderedNext == IInv /\ IInv' /\ Ordered /\ [Next]_vars => Ordered'
<1> SUFFICES ASSUME IInv, IInv', Ordered, [Next]_vars PROVE Ordered'
  OBVIOUS
<1> USE DEF emuVars, dspVars, ringVars, histVars
<1>0. /\ TypeOK /\ TypeOK' /\ Spans /\ loops \in Nat /\ head \in Nat /\ wn \in Nat
      /\ (mpc \in {"upRead", "upEnd"} => buf = <<>>)
  BY DEF IInv, TypeOK, Ordered
<1>1. ASSUME UNCHANGED <<buf, out, tail, slot, head, wn, loops, mpc>> PROVE Ordered'
  BY <1>0, <1>1, OrderedFrame
<1>2. ASSUME UNCHANGED <<buf, out, tail, slot, head, wn, loops>>, mpc' \notin {"upRead", "upEnd"}
      PROVE  Ordered'
  BY <1>0, <1>2, OrderedFrame
<1>3. CASE dsp_process
  BY <1>3, ProcessOrdered
<1>4. CASE dsp_upload \/ dsp_upload_threaded_buf
  BY <1>0, <1>4, BufferDelivered DEF dsp_upload, dsp_upload_threaded_buf
<1>5. CASE dsp_upload_threaded_read
  <2>1. buf = <<>>
    BY <1>0, <1>5 DEF dsp_upload_threaded_read
  <2> QED
    BY <1>0, <1>5, <2>1, OrderedFrame DEF dsp_upload_threaded_read
<1>6. CASE dsp_upload_threaded_end
  BY <1>6, SpanDelivered
<1>7. CASE dsp_thread_start
  <2>1. /\ head = 0 /\ tail = 0 /\ wn = 0
    BY <1>0, <1>7 DEF IInv, Phase, Spans, dsp_thread_start
  <2> QED
    BY <1>0, <1>1, <1>7, <2>1 DEF dsp_thread_start
<1>8. CASE opera_lr_dsp_destroy_join
  BY <1>8, JoinOrdered
<1>9. CASE dsp_thread_run_ticks_drop
  <2>1. loops <= loops' /\ head' + wn' = head + wn /\ UNCHANGED <<buf, out, tail, slot, mpc>>
    BY <1>0, <1>9 DEF dsp_thread_run_ticks_drop
  <2> QED
    BY <1>0, <2>1, OrderedFrame
<1>10. CASE dsp_thread_run_ticks_fill
  BY <1>10, SpanFilled
<1>11. CASE dsp_thread_run_ticks_publish
  <2>1. loops <= loops' /\ head' + wn' = head + wn /\ UNCHANGED <<buf, out, tail, slot, mpc>>
    BY <1>0, <1>11 DEF dsp_thread_run_ticks_publish
  <2> QED
    BY <1>0, <2>1, OrderedFrame
<1>12. CASE dsp_process_threaded \/ dsp_process_threaded_notify \/ dsp_upload_threaded_wake
            \/ dsp_thread_start_fails \/ opera_lr_dsp_destroy \/ opera_lr_dsp_destroy_notify
  BY <1>1, <1>2, <1>12 DEF dsp_process_threaded, dsp_process_threaded_notify,
     dsp_upload_threaded_wake, dsp_thread_start_fails, opera_lr_dsp_destroy,
     opera_lr_dsp_destroy_notify
<1>13. CASE dsp_thread_load \/ dsp_thread_run_ticks_done \/ dsp_thread_check_running
            \/ retro_eventcount_prepare_wait \/ dsp_thread_recheck_ticks
            \/ dsp_thread_recheck_running \/ retro_eventcount_commit_wait \/ commit_wait_spurious
  BY <1>1, <1>13 DEF dsp_thread_load, dsp_thread_run_ticks_done, dsp_thread_check_running,
     retro_eventcount_prepare_wait, dsp_thread_recheck_ticks, dsp_thread_recheck_running,
     retro_eventcount_commit_wait, commit_wait_spurious
<1>14. CASE UNCHANGED vars
  BY <1>1, <1>14 DEF vars
<1> QED
  BY <1>3, <1>4, <1>5, <1>6, <1>7, <1>8, <1>9, <1>10, <1>11, <1>12, <1>13, <1>14
  DEF Next, EmuCall, EmuStep, DspStep

\* The ticks the stream waits for.
Waiting == IF threaded THEN posted - done - InBatch ELSE 0

\* The steps of the stream in terms of the threads.
LEMMA StreamSteps ==
  /\ Waiting' = Waiting /\ loops' = loops /\ out' = out => UNCHANGED Stream!svars
  /\ Waiting' = Waiting + 1 /\ loops' = loops /\ out' = out => Stream!Ask
  /\ Waiting' \in 0..(Waiting - 1) /\ loops' = loops + (Waiting - Waiting') /\ out' = out
       => Stream!Run
  /\ Waiting = 0 /\ Waiting' = 0 /\ loops' = loops + 1 /\ out' = out => Stream!RunNow
  /\ Waiting' = 0 /\ loops' = loops /\ out' = out => Stream!Dismiss
  /\ Waiting' = Waiting /\ loops' = loops /\ Continues(out, out', 0, loops) => Stream!Deliver
BY DEF Waiting, Continues, Stream!svars, Stream!Ask, Stream!Run, Stream!RunNow, Stream!Dismiss,
   Stream!Deliver

\* The ticks waited for, as the threads count them.
LEMMA WaitingIs ==
  ASSUME IInv
  PROVE  /\ Waiting \in Nat
         /\ ~threaded => Waiting = 0
         /\ threaded /\ tpc \notin {"run", "publish"} => Waiting = posted - done
         /\ threaded /\ tpc \in {"run", "publish"} => Waiting = posted - target + count - wn
<1>1. TypeOK /\ DoneBehind /\ Accounting /\ Spans
  BY DEF IInv
<1>2. /\ posted \in Nat /\ done \in Nat /\ target \in Nat /\ count \in Nat /\ wn \in Nat
      /\ threaded \in BOOLEAN
  BY <1>1 DEF TypeOK
<1>3. CASE ~threaded
  BY <1>3 DEF Waiting
<1>4. CASE threaded /\ tpc \notin {"run", "publish"}
  BY <1>1, <1>2, <1>4 DEF Waiting, InBatch, DoneBehind
<1>5. CASE threaded /\ tpc \in {"run", "publish"}
  <2>1. target <= posted /\ wn <= count
    BY <1>1, <1>5 DEF DoneBehind, Accounting
  <2> QED
    BY <1>2, <1>5, <2>1 DEF Waiting, InBatch
<1> QED
  BY <1>3, <1>4, <1>5

\* Every step of the threads is a step of the stream, or none.
LEMMA StepRefines ==
  IInv /\ IInv' /\ Ordered /\ [Next]_vars => [Stream!SNext]_(Stream!svars)
<1> SUFFICES ASSUME IInv, IInv', Ordered, [Next]_vars
             PROVE  Stream!SNext \/ UNCHANGED Stream!svars
  OBVIOUS
<1> USE DEF emuVars, dspVars, ringVars, histVars
<1>0. /\ TypeOK /\ Phase /\ Spans /\ DoneBehind
      /\ posted \in Nat /\ done \in Nat /\ target \in Nat /\ count \in Nat /\ wn \in Nat
      /\ loops \in Nat /\ Waiting \in Nat
  BY WaitingIs DEF IInv, TypeOK
<1>1. ASSUME UNCHANGED <<threaded, posted, done, target, count, wn, tpc, loops>>,
             out' = out \/ Continues(out, out', 0, loops)
      PROVE  Stream!SNext \/ UNCHANGED Stream!svars
  <2>1. Waiting' = Waiting
    BY <1>1 DEF Waiting, InBatch
  <2> QED
    BY <1>1, <2>1, StreamSteps DEF Stream!SNext
<1>2. CASE dsp_process
  <2>1. ~threaded /\ ~threaded' /\ loops' = loops + 1 /\ out' = out
    BY <1>2 DEF dsp_process
  <2>2. Waiting = 0 /\ Waiting' = 0
    BY <2>1 DEF Waiting
  <2> QED
    BY <2>1, <2>2, StreamSteps DEF Stream!SNext
<1>3. CASE dsp_process_threaded
  <2>1. /\ threaded /\ threaded' = threaded /\ posted' = posted + 1 /\ loops' = loops /\ out' = out
        /\ UNCHANGED <<done, target, count, wn, tpc>>
    BY <1>3 DEF dsp_process_threaded
  <2>2. InBatch' = InBatch
    BY <2>1 DEF InBatch
  <2>3. InBatch \in Int
    BY <1>0 DEF InBatch
  <2>4. Waiting' = Waiting + 1
    BY <1>0, <2>1, <2>2, <2>3 DEF Waiting
  <2> QED
    BY <2>1, <2>4, StreamSteps DEF Stream!SNext
<1>4. CASE dsp_upload \/ dsp_upload_threaded_buf
  <2>1. Continues(out, out', 0, loops)
    BY <1>0, <1>4, BufferDelivered DEF dsp_upload, dsp_upload_threaded_buf
  <2> QED
    BY <1>1, <1>4, <2>1 DEF dsp_upload, dsp_upload_threaded_buf
<1>5. CASE dsp_upload_threaded_end
  <2>1. Continues(out, out', 0, loops)
    BY <1>5, SpanDelivered
  <2> QED
    BY <1>1, <1>5, <2>1 DEF dsp_upload_threaded_end
<1>6. CASE dsp_thread_start
  <2>1. /\ ~threaded /\ threaded' /\ posted' = 0 /\ done' = 0 /\ tpc' = "load"
        /\ loops' = loops /\ out' = out
    BY <1>6 DEF dsp_thread_start
  <2>2. Waiting = 0 /\ Waiting' = 0
    BY <2>1 DEF Waiting, InBatch
  <2> QED
    BY <2>1, <2>2, StreamSteps DEF Stream!SNext
<1>7. CASE dsp_thread_start_fails
  <2>1. ~threaded /\ ~threaded' /\ loops' = loops /\ out' = out
    BY <1>7 DEF dsp_thread_start_fails
  <2>2. Waiting = 0 /\ Waiting' = 0
    BY <2>1 DEF Waiting
  <2> QED
    BY <2>1, <2>2, StreamSteps DEF Stream!SNext
<1>8. CASE opera_lr_dsp_destroy_join
  <2>1. ~threaded' /\ loops' = loops /\ out' = out
    BY <1>8 DEF opera_lr_dsp_destroy_join
  <2>2. Waiting' = 0
    BY <2>1 DEF Waiting
  <2> QED
    BY <2>1, <2>2, StreamSteps DEF Stream!SNext
<1>9. CASE dsp_thread_load
  <2>1. /\ tpc = "load" /\ threaded /\ threaded' = threaded /\ wn = 0 /\ wn' = 0
        /\ posted' = posted /\ done' = done /\ loops' = loops /\ out' = out
    BY <1>0, <1>9 DEF dsp_thread_load, Phase, Spans
  <2>2. Waiting = posted - done
    BY <2>1, WaitingIs
  <2>3. CASE posted # done
    <3>1. tpc' = "run" /\ target' = posted /\ count' = posted - done
      BY <1>9, <2>3 DEF dsp_thread_load
    <3>2. Waiting' = posted' - done' - InBatch' /\ InBatch' = (target' - done') - count' + wn'
      BY <2>1, <3>1 DEF Waiting, InBatch
    <3>3. Waiting' = Waiting
      BY <1>0, <2>1, <2>2, <3>1, <3>2
    <3> QED
      BY <2>1, <3>3, StreamSteps
  <2>4. CASE posted = done
    <3>1. tpc' = "chkRunning"
      BY <1>9, <2>4 DEF dsp_thread_load
    <3>2. Waiting' = posted' - done' - InBatch' /\ InBatch' = 0
      BY <2>1, <3>1 DEF Waiting, InBatch
    <3>3. Waiting' = Waiting
      BY <1>0, <2>1, <2>2, <3>2
    <3> QED
      BY <2>1, <3>3, StreamSteps
  <2> QED
    BY <2>3, <2>4
<1>10. CASE dsp_thread_run_ticks_drop
  <2>1. /\ tpc = "run" /\ tpc' = tpc /\ threaded /\ threaded' = threaded /\ count' = count - 1
        /\ UNCHANGED <<posted, done, target, wn>> /\ loops' = loops + 1 /\ out' = out
    BY <1>0, <1>10 DEF dsp_thread_run_ticks_drop, Phase
  <2>2. InBatch' = InBatch + 1 /\ InBatch \in Int
    BY <1>0, <2>1 DEF InBatch
  <2>3. Waiting' = Waiting - 1
    BY <1>0, <2>1, <2>2 DEF Waiting
  <2>4. Waiting >= 1
    <3>1. Waiting = posted - target + count - wn /\ target <= posted /\ count >= 1 /\ wn = 0
      BY <1>0, <1>10, <2>1, WaitingIs DEF DoneBehind, Spans, dsp_thread_run_ticks_drop
    <3> QED
      BY <1>0, <3>1
  <2>5. Waiting' \in 0..(Waiting - 1) /\ loops' = loops + (Waiting - Waiting')
    BY <1>0, <2>1, <2>3, <2>4
  <2> QED
    BY <2>1, <2>5, StreamSteps DEF Stream!SNext
<1>11. CASE dsp_thread_run_ticks_fill
  <2>1. /\ tpc = "run" /\ tpc' = "publish" /\ threaded /\ threaded' = threaded /\ wn = 0
        /\ UNCHANGED <<posted, done, target, count>> /\ loops' = loops + wn' /\ out' = out
    BY <1>0, <1>11 DEF dsp_thread_run_ticks_fill, Phase, Spans
  <2>2. wn' \in 1..count
    BY <1>11, SpanFilled
  <2>3. InBatch' = InBatch + wn' /\ InBatch \in Int
    BY <1>0, <2>1, <2>2 DEF InBatch
  <2>4. Waiting' = Waiting - wn'
    BY <1>0, <2>1, <2>2, <2>3 DEF Waiting
  <2>5. Waiting >= count
    <3>1. Waiting = posted - target + count - wn /\ target <= posted
      BY <1>0, <2>1, WaitingIs DEF DoneBehind
    <3> QED
      BY <1>0, <2>1, <3>1
  <2>6. PICK n \in 1..count : n = wn'
    BY <2>2
  <2>7. Waiting' = Waiting - n /\ loops' = loops + n
    BY <2>1, <2>4, <2>6
  <2>8. Waiting' \in 0..(Waiting - 1) /\ loops' = loops + (Waiting - Waiting')
    BY <1>0, <2>5, <2>7
  <2> QED
    BY <2>1, <2>8, StreamSteps DEF Stream!SNext
<1>12. CASE dsp_thread_run_ticks_publish
  <2>1. /\ tpc = "publish" /\ tpc' = "run" /\ threaded' = threaded /\ wn' = 0 /\ count' = count - wn
        /\ UNCHANGED <<posted, done, target>> /\ loops' = loops /\ out' = out
    BY <1>12 DEF dsp_thread_run_ticks_publish
  <2>2. InBatch' = InBatch
    BY <1>0, <2>1 DEF InBatch
  <2>3. Waiting' = Waiting
    BY <2>1, <2>2 DEF Waiting
  <2> QED
    BY <2>1, <2>3, StreamSteps
<1>13. CASE dsp_thread_run_ticks_done
  <2>1. /\ tpc = "run" /\ tpc' = "load" /\ threaded /\ threaded' = threaded /\ wn = 0 /\ count = 0
        /\ posted' = posted /\ done' = target /\ loops' = loops /\ out' = out
    BY <1>0, <1>13 DEF dsp_thread_run_ticks_done, Phase, Spans
  <2>2. Waiting = posted - done - InBatch /\ InBatch = (target - done) - count + wn
    BY <2>1 DEF Waiting, InBatch
  <2>3. Waiting' = posted' - done' - InBatch' /\ InBatch' = 0
    BY <2>1 DEF Waiting, InBatch
  <2>4. Waiting' = Waiting
    BY <1>0, <2>1, <2>2, <2>3
  <2> QED
    BY <2>1, <2>4, StreamSteps
<1>14. CASE dsp_process_threaded_notify \/ dsp_upload_threaded_wake \/ dsp_upload_threaded_read
            \/ opera_lr_dsp_destroy \/ opera_lr_dsp_destroy_notify
  BY <1>1, <1>14 DEF dsp_process_threaded_notify, dsp_upload_threaded_wake,
     dsp_upload_threaded_read, opera_lr_dsp_destroy, opera_lr_dsp_destroy_notify
<1>15. CASE dsp_thread_check_running \/ retro_eventcount_prepare_wait \/ dsp_thread_recheck_ticks
            \/ dsp_thread_recheck_running \/ retro_eventcount_commit_wait \/ commit_wait_spurious
  <2>1. /\ tpc \notin {"run", "publish"} /\ tpc' \notin {"run", "publish"}
        /\ UNCHANGED <<threaded, posted, done, loops, out>>
    BY <1>15 DEF dsp_thread_check_running, retro_eventcount_prepare_wait,
       dsp_thread_recheck_ticks, dsp_thread_recheck_running, retro_eventcount_commit_wait,
       commit_wait_spurious
  <2>2. Waiting' = Waiting
    BY <2>1 DEF Waiting, InBatch
  <2> QED
    BY <2>1, <2>2, StreamSteps
<1>16. CASE UNCHANGED vars
  BY <1>1, <1>16 DEF vars
<1> QED
  BY <1>2, <1>3, <1>4, <1>5, <1>6, <1>7, <1>8, <1>9, <1>10, <1>11, <1>12, <1>13, <1>14, <1>15, <1>16
  DEF Next, EmuCall, EmuStep, DspStep

\* The audio path implements DspStream for every buffer size, wake batch and
\* number of ticks: a tick is run once and in order, and the frontend is given
\* samples only in the order they were made, each at most once, whatever the
\* interleaving of the threads and however often the mode is switched.
THEOREM StreamRefined == Spec => ImplementsStream
<1>1. Init => Stream!SInit
  BY DEF Init, Stream!SInit
<1>2. Init => Ordered
  <2> SUFFICES ASSUME Init PROVE Ordered
    OBVIOUS
  <2>1. buf = <<>> /\ out = <<>> /\ head = 0 /\ tail = 0 /\ wn = 0 /\ loops = 0 /\ mpc = "idle"
    BY DEF Init
  <2>2. LastOut = 0 /\ Len(buf) = 0
    BY <2>1 DEF LastOut, NewestOf
  <2> QED
    BY <2>1, <2>2 DEF Ordered, Climbing, RingOrdered
<1> QED
  BY <1>1, <1>2, InitIInv, NextIInv, OrderedNext, StepRefines, PTL
  DEF Spec, ImplementsStream, Stream!SSpec
=============================================================================
