----------------------------- MODULE DspThread -----------------------------
(***************************************************************************)
(* The audio path of the libretro core when it is built with THREADED_DSP  *)
(* (opera_lr_dsp_threaded.ic).  The emulation thread posts DSP ticks; the  *)
(* DSP thread runs them and publishes the samples on a single-producer     *)
(* single-consumer ring; the emulation thread hands the ring's spans to    *)
(* the frontend.  The DSP thread parks on an eventcount when it is idle.   *)
(*                                                                         *)
(* retro_spsc and retro_eventcount are vendored: they are modelled by what *)
(* the code uses of them (a span that is contiguous and free, resp. "did a *)
(* notify happen since prepare_wait").                                     *)
(*                                                                         *)
(* A sample is the number of the opera_dsp_loop() call that made it, so    *)
(* order, loss and duplication are visible.                                *)
(***************************************************************************)
EXTENDS Integers, Sequences

CONSTANTS BufSize,    \* DSP_BUF_SIZE: frames in g_DSP_BUF and in the ring
          WakeBatch,  \* DSP_WAKE_BATCH
          MaxTicks    \* bound: calls of opera_lr_dsp_process in a behaviour

ASSUME BufSizeAssumption   == BufSize \in Nat /\ BufSize > 1
ASSUME WakeBatchAssumption == WakeBatch \in Nat /\ WakeBatch > 0
ASSUME MaxTicksAssumption  == MaxTicks \in Nat

VARIABLES
  threaded,   \* g_DSP_THREADED, and with it the two function pointers
  buf,        \* g_DSP_BUF[0 .. g_DSP_BUF_IDX-1]
  posted,     \* g_DSP_TICKS, and its private copy g_DSP_TICKS_POSTED
  woken,      \* g_DSP_TICKS_WOKEN
  running,    \* g_DSP_RUNNING
  mpc,        \* where the emulation thread is
  rspan,      \* frames of the span the emulation thread holds
  tpc,        \* where the DSP thread is ("none": there is no thread)
  done,       \* local 'done' of dsp_thread_loop
  target,     \* local 'posted' of dsp_thread_loop
  count,      \* local 'count_' of dsp_thread_run_ticks
  wn,         \* local 'n' of dsp_thread_run_ticks, written, not published
  sig,        \* the eventcount moved since the last prepare_wait
  slot,       \* the ring's memory
  head, tail, \* the ring's positions, in frames
  requested,  \* history: calls of opera_lr_dsp_process
  loops,      \* history: calls of opera_dsp_loop
  out         \* history: what retro_audio_sample_batch_cb was given

emuVars  == <<threaded, buf, posted, woken, running, mpc, rspan>>
dspVars  == <<tpc, done, target, count, wn>>
ringVars == <<slot, head, tail>>
histVars == <<requested, loops, out>>
vars     == <<emuVars, dspVars, sig, ringVars, histVars>>

MinOf(a, b) == IF a < b THEN a ELSE b

(***************************************************************************)
(* The ring: a span ends where the memory wraps.                           *)
(***************************************************************************)
Contiguous(pos) == BufSize - (pos % BufSize)
retro_spsc_write_begin == MinOf(Contiguous(head), BufSize - (head - tail))
retro_spsc_read_begin  == MinOf(Contiguous(tail), head - tail)

\* The n oldest frames of the ring.
RingFrames(n) == [i \in 1..n |-> slot[(tail + i - 1) % BufSize]]

Init ==
  /\ threaded = FALSE /\ buf = <<>> /\ posted = 0 /\ woken = 0
  /\ running = FALSE /\ mpc = "idle" /\ rspan = 0
  /\ tpc = "none" /\ done = 0 /\ target = 0 /\ count = 0 /\ wn = 0
  /\ sig = FALSE
  /\ slot = [i \in 0..BufSize-1 |-> 0] /\ head = 0 /\ tail = 0
  /\ requested = 0 /\ loops = 0 /\ out = <<>>

-----------------------------------------------------------------------------
(***************************************************************************)
(* The emulation thread.  opera_lr_dsp_process and opera_lr_dsp_upload go  *)
(* through the function pointers, which follow g_DSP_THREADED.             *)
(***************************************************************************)

\* The index is masked after the increment: a full buffer starts over.
dsp_process ==
  /\ mpc = "idle" /\ ~threaded /\ requested < MaxTicks
  /\ requested' = requested + 1
  /\ loops' = loops + 1
  /\ buf' = IF Len(buf) + 1 = BufSize THEN <<>> ELSE Append(buf, loops + 1)
  /\ UNCHANGED <<threaded, posted, woken, running, mpc, rspan, dspVars, sig,
                 ringVars, out>>

\* The store of g_DSP_TICKS; the wake, if one is due, is a later step.
dsp_process_threaded ==
  /\ mpc = "idle" /\ threaded /\ requested < MaxTicks
  /\ requested' = requested + 1
  /\ posted' = posted + 1
  /\ mpc' = IF posted' - woken >= WakeBatch THEN "notify" ELSE "idle"
  /\ UNCHANGED <<threaded, buf, woken, running, rspan, dspVars, sig,
                 ringVars, loops, out>>

\* Mutant: counts the ticks as woken, forgets the notify.
notify_forgotten ==
  /\ mpc = "notify"
  /\ woken' = posted
  /\ mpc' = "idle"
  /\ UNCHANGED <<threaded, buf, posted, running, rspan, dspVars, sig, ringVars,
                 histVars>>

dsp_process_threaded_notify ==
  /\ mpc = "notify"
  /\ woken' = posted
  /\ sig' = TRUE
  /\ mpc' = "idle"
  /\ UNCHANGED <<threaded, buf, posted, running, rspan, dspVars, ringVars,
                 histVars>>

dsp_upload ==
  /\ mpc = "idle" /\ ~threaded
  /\ out' = out \o buf
  /\ buf' = <<>>
  /\ UNCHANGED <<threaded, posted, woken, running, mpc, rspan, dspVars, sig,
                 ringVars, requested, loops>>

\* dsp_upload_threaded, step by step: wake for the last partial batch, ...
dsp_upload_threaded_wake ==
  /\ mpc = "idle" /\ threaded
  /\ woken' = posted
  /\ sig' = (sig \/ woken # posted)
  /\ mpc' = "upBuf"
  /\ UNCHANGED <<threaded, buf, posted, running, rspan, dspVars, ringVars,
                 histVars>>

\* ... then the samples made before the switch to threaded mode, ...
dsp_upload_threaded_buf ==
  /\ mpc = "upBuf"
  /\ out' = out \o buf
  /\ buf' = <<>>
  /\ mpc' = "upRead"
  /\ UNCHANGED <<threaded, posted, woken, running, rspan, dspVars, sig,
                 ringVars, requested, loops>>

\* ... then span after span of the ring until it is empty.
dsp_upload_threaded_read ==
  /\ mpc = "upRead"
  /\ rspan' = retro_spsc_read_begin
  /\ mpc' = IF rspan' = 0 THEN "idle" ELSE "upEnd"
  /\ UNCHANGED <<threaded, buf, posted, woken, running, dspVars, sig,
                 ringVars, histVars>>

dsp_upload_threaded_end ==
  /\ mpc = "upEnd"
  /\ out' = out \o RingFrames(rspan)
  /\ tail' = tail + rspan
  /\ rspan' = 0
  /\ mpc' = "upRead"
  /\ UNCHANGED <<threaded, buf, posted, woken, running, dspVars, sig, slot,
                 head, requested, loops>>

(***************************************************************************)
(* opera_lr_dsp_init and opera_lr_dsp_destroy.  Both return at once when   *)
(* the mode is already the one asked for; init(false) is then destroy.     *)
(***************************************************************************)
dsp_thread_start ==
  /\ mpc = "idle" /\ ~threaded
  /\ threaded' = TRUE
  /\ posted' = 0 /\ woken' = 0 /\ running' = TRUE
  /\ tpc' = "load" /\ done' = 0 /\ target' = 0 /\ count' = 0 /\ wn' = 0
  /\ sig' = FALSE
  /\ head' = 0 /\ tail' = 0
  /\ UNCHANGED <<buf, mpc, rspan, slot, histVars>>

\* sthread_create fails after the counters were reset (a failure of the ring
\* or of the eventcount changes nothing): the mode stays unthreaded.
dsp_thread_start_fails ==
  /\ mpc = "idle" /\ ~threaded
  /\ posted' = 0 /\ woken' = 0 /\ running' = TRUE
  /\ UNCHANGED <<threaded, buf, mpc, rspan, dspVars, sig, ringVars, histVars>>

opera_lr_dsp_destroy ==
  /\ mpc = "idle" /\ threaded
  /\ running' = FALSE
  /\ mpc' = "stopNotify"
  /\ UNCHANGED <<threaded, buf, posted, woken, rspan, dspVars, sig, ringVars,
                 histVars>>

\* Mutant: destroy goes straight to the join.
destroy_without_notify ==
  /\ mpc = "stopNotify"
  /\ mpc' = "join"
  /\ UNCHANGED <<threaded, buf, posted, woken, running, rspan, dspVars, sig,
                 ringVars, histVars>>

opera_lr_dsp_destroy_notify ==
  /\ mpc = "stopNotify"
  /\ sig' = TRUE
  /\ mpc' = "join"
  /\ UNCHANGED <<threaded, buf, posted, woken, running, rspan, dspVars,
                 ringVars, histVars>>

\* Frames of the ring that go to the unthreaded buffer: it is filled to half.
CarryRoom == IF Len(buf) < BufSize \div 2 THEN (BufSize \div 2) - Len(buf) ELSE 0

\* Mutant: the carried samples go in front of the buffered ones.
carry_in_front ==
  /\ mpc = "join" /\ tpc = "exit"
  /\ buf' = RingFrames(MinOf(head - tail, CarryRoom)) \o buf
  /\ tpc' = "none" /\ head' = 0 /\ tail' = 0
  /\ threaded' = FALSE
  /\ mpc' = "idle"
  /\ UNCHANGED <<posted, woken, running, rspan, done, target, count, wn, sig,
                 slot, histVars>>

\* sthread_join returned; what follows runs alone.
opera_lr_dsp_destroy_join ==
  /\ mpc = "join" /\ tpc = "exit"
  /\ buf' = buf \o RingFrames(MinOf(head - tail, CarryRoom))
  /\ tpc' = "none" /\ head' = 0 /\ tail' = 0
  /\ threaded' = FALSE
  /\ mpc' = "idle"
  /\ UNCHANGED <<posted, woken, running, rspan, done, target, count, wn, sig,
                 slot, histVars>>

-----------------------------------------------------------------------------
(***************************************************************************)
(* The DSP thread: dsp_thread_loop and dsp_thread_run_ticks.               *)
(***************************************************************************)
dsp_thread_load ==
  /\ tpc = "load"
  /\ IF posted # done
       THEN tpc' = "run" /\ target' = posted /\ count' = posted - done
       ELSE tpc' = "chkRunning" /\ UNCHANGED <<target, count>>
  /\ UNCHANGED <<emuVars, done, wn, sig, ringVars, histVars>>

\* The ring is full: the tick runs, its sample is dropped.
dsp_thread_run_ticks_drop ==
  /\ tpc = "run" /\ count > 0 /\ retro_spsc_write_begin = 0
  /\ loops' = loops + 1
  /\ count' = count - 1
  /\ UNCHANGED <<emuVars, tpc, done, target, wn, sig, ringVars, requested, out>>

\* Mutant: the span does not bound the batch.
fill_beyond_span ==
  /\ tpc = "run" /\ count > 0 /\ retro_spsc_write_begin > 0
  /\ wn' = count
  /\ slot' = [i \in 0..BufSize-1 |->
                LET k == i - (head % BufSize)
                IN  IF k >= 0 /\ k < wn' THEN loops + k + 1 ELSE slot[i]]
  /\ loops' = loops + wn'
  /\ tpc' = "publish"
  /\ UNCHANGED <<emuVars, done, target, count, sig, head, tail, requested, out>>

dsp_thread_run_ticks_fill ==
  /\ tpc = "run" /\ count > 0 /\ retro_spsc_write_begin > 0
  /\ wn' = MinOf(retro_spsc_write_begin, count)
  /\ slot' = [i \in 0..BufSize-1 |->
                LET k == i - (head % BufSize)
                IN  IF k >= 0 /\ k < wn' THEN loops + k + 1 ELSE slot[i]]
  /\ loops' = loops + wn'
  /\ tpc' = "publish"
  /\ UNCHANGED <<emuVars, done, target, count, sig, head, tail, requested, out>>

dsp_thread_run_ticks_publish ==
  /\ tpc = "publish"
  /\ head' = head + wn
  /\ count' = count - wn
  /\ wn' = 0
  /\ tpc' = "run"
  /\ UNCHANGED <<emuVars, done, target, sig, slot, tail, histVars>>

dsp_thread_run_ticks_done ==
  /\ tpc = "run" /\ count = 0
  /\ done' = target
  /\ tpc' = "load"
  /\ UNCHANGED <<emuVars, target, count, wn, sig, ringVars, histVars>>

dsp_thread_check_running ==
  /\ tpc = "chkRunning"
  /\ tpc' = IF running THEN "prepare" ELSE "exit"
  /\ UNCHANGED <<emuVars, done, target, count, wn, sig, ringVars, histVars>>

retro_eventcount_prepare_wait ==
  /\ tpc = "prepare"
  /\ sig' = FALSE
  /\ tpc' = "recheck"
  /\ UNCHANGED <<emuVars, done, target, count, wn, ringVars, histVars>>

\* Mutant: the ticks are not read again after prepare_wait.
recheck_skips_ticks ==
  /\ tpc = "recheck"
  /\ tpc' = "recheckRunning"
  /\ UNCHANGED <<emuVars, done, target, count, wn, sig, ringVars, histVars>>

\* The two loads of the re-check; either one cancels the wait.
dsp_thread_recheck_ticks ==
  /\ tpc = "recheck"
  /\ tpc' = IF posted # done THEN "load" ELSE "recheckRunning"
  /\ UNCHANGED <<emuVars, done, target, count, wn, sig, ringVars, histVars>>

\* Mutant: the running flag is not read again after prepare_wait.
recheck_skips_running ==
  /\ tpc = "recheckRunning"
  /\ tpc' = "wait"
  /\ UNCHANGED <<emuVars, done, target, count, wn, sig, ringVars, histVars>>

dsp_thread_recheck_running ==
  /\ tpc = "recheckRunning"
  /\ tpc' = IF running THEN "wait" ELSE "load"
  /\ UNCHANGED <<emuVars, done, target, count, wn, sig, ringVars, histVars>>

\* commit_wait returns at once if the eventcount has moved, else it parks.
retro_eventcount_commit_wait ==
  /\ tpc = "wait" /\ sig
  /\ tpc' = "load"
  /\ UNCHANGED <<emuVars, done, target, count, wn, sig, ringVars, histVars>>

\* commit_wait may return without a notify, as a condition variable may.
commit_wait_spurious ==
  /\ tpc = "wait" /\ ~sig
  /\ tpc' = "load"
  /\ UNCHANGED <<emuVars, done, target, count, wn, sig, ringVars, histVars>>

-----------------------------------------------------------------------------
\* Steps inside a call of the emulation thread: they are taken without any
\* decision of the frontend.
EmuStep ==
  \/ dsp_process_threaded_notify
  \/ dsp_upload_threaded_buf
  \/ dsp_upload_threaded_read
  \/ dsp_upload_threaded_end
  \/ opera_lr_dsp_destroy_notify
  \/ opera_lr_dsp_destroy_join

\* Calls the frontend and the emulated machine make.
EmuCall ==
  \/ dsp_process
  \/ dsp_process_threaded
  \/ dsp_upload
  \/ dsp_upload_threaded_wake
  \/ dsp_thread_start
  \/ dsp_thread_start_fails
  \/ opera_lr_dsp_destroy

DspStep ==
  \/ dsp_thread_load
  \/ dsp_thread_run_ticks_drop
  \/ dsp_thread_run_ticks_fill
  \/ dsp_thread_run_ticks_publish
  \/ dsp_thread_run_ticks_done
  \/ dsp_thread_check_running
  \/ retro_eventcount_prepare_wait
  \/ dsp_thread_recheck_ticks
  \/ dsp_thread_recheck_running
  \/ retro_eventcount_commit_wait

Next == EmuCall \/ EmuStep \/ DspStep \/ commit_wait_spurious

\* Both threads are scheduled; nobody is obliged to make another call, and
\* a spurious wake need never come.
Fairness == WF_vars(EmuStep) /\ WF_vars(DspStep)
Spec     == Init /\ [][Next]_vars
FairSpec == Spec /\ Fairness

-----------------------------------------------------------------------------
EmuPC == {"idle", "notify", "upBuf", "upRead", "upEnd", "stopNotify", "join"}
DspPC == {"none", "load", "run", "publish", "chkRunning", "prepare",
          "recheck", "recheckRunning", "wait", "exit"}

\* Type invariant of the two threads, the ring and the history.
TypeOK ==
  /\ threaded \in BOOLEAN /\ running \in BOOLEAN /\ sig \in BOOLEAN
  /\ buf \in Seq(Nat) /\ out \in Seq(Nat)
  /\ posted \in Nat /\ woken \in Nat /\ rspan \in Nat
  /\ mpc \in EmuPC /\ tpc \in DspPC
  /\ done \in Nat /\ target \in Nat /\ count \in Nat /\ wn \in Nat
  /\ slot \in [0..BufSize-1 -> Nat]
  /\ head \in Nat /\ tail \in Nat
  /\ requested \in Nat /\ loops \in Nat

\* No lost wakeup: a DSP thread that is parked and that nobody has signalled
\* is behind by less than one wake batch whenever the emulation thread is
\* not in the middle of a call (dsp_process_threaded, dsp_thread_loop).
ParkedIsCaughtUp ==
  (tpc = "wait" /\ ~sig /\ mpc \in {"idle", "upBuf", "upRead", "upEnd"})
     => posted - done < WakeBatch

\* Stronger, from upload's wake until the call returns to its caller: every
\* posted tick has reached the parked thread ("Wake the DSP thread for this
\* frame's last partial batch").
ParkedInUploadHasRunAll ==
  (tpc = "wait" /\ ~sig /\ mpc \in {"upBuf", "upRead", "upEnd"}) => posted = done

\* opera_lr_dsp_destroy cannot join a thread that sleeps for ever: while it
\* waits in sthread_join the DSP thread is not parked without a signal.
JoinNeverSleeps == mpc = "join" => ~(tpc = "wait" /\ ~sig)

\* The writer's unpublished frames never reach into the span the emulation
\* thread is handing to the frontend, nor past the ring's capacity.
SpansDisjoint ==
  /\ tail + rspan <= head
  /\ head + wn <= tail + BufSize

\* A tick is never run twice nor invented: the DSP runs no more ticks than the
\* emulated machine asked for.
NoExtraTick == loops <= requested

\* "Stop only once every posted tick has run." (dsp_thread_loop)
StopsOnceEveryTickHasRun == tpc = "exit" => done = posted

\* What was posted before a wake is run, unless the thread is told to stop.
WokenTicksRun ==
  \A n \in 1..MaxTicks :
     (threaded /\ running /\ woken >= n) ~> (done >= n \/ ~running)

\* opera_lr_dsp_destroy returns: the join is always answered.
DestroyReturns == (mpc = "stopNotify") ~> (mpc = "idle" /\ ~threaded)

-----------------------------------------------------------------------------
(***************************************************************************)
(* Refinement.                                                             *)
(***************************************************************************)
\* Ticks the DSP thread has run of the batch it is in.
InBatch == IF tpc \in {"run", "publish"} THEN (target - done) - count + wn ELSE 0

Stream == INSTANCE DspStream WITH
  pending   <- IF threaded THEN posted - done - InBatch ELSE 0,
  executed  <- loops,
  delivered <- out

\* The threaded and the unthreaded audio path both implement DspStream: ticks
\* run once each, and what opera_lr_dsp_upload gives the frontend is in the order
\* it was made, across switches of the mode.
ImplementsStream == Stream!SSpec
=============================================================================
