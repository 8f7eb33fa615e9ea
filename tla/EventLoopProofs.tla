--------------------------- MODULE EventLoopProofs ---------------------------
(***************************************************************************)
(* The safety properties of EventLoop, for any collectors, threadpool and  *)
(* number of signals.                                                      *)
(***************************************************************************)
EXTENDS EventLoop, TLAPS

Pending(c) == work[c].queued + work[c].reading + work[c].ended

\* A loop whose handles are armed has them open, and is only woken while it
\* runs: stop() on a loop that does not run closes the handles itself.
LoopInv ==
    /\ loop.armed <=> loop.handles = "open"
    /\ loop.async => loop.armed /\ loop.running

\* in_flight covers the whole way of a capture through the threadpool, and
\* there is one only while uv_run() is under way.
WorkInv ==
    /\ \A c \in Collectors : Pending(c) <= 1
    /\ \A c \in Collectors : ~work[c].in_flight => Pending(c) = 0
    /\ thread \notin {"loop", "sample"} => \A c \in Collectors : Pending(c) = 0

\* The core goes past the sampler only when its thread is gone; who clears
\* sampler_running is either that thread, at its end, or the core.
SamplerInv ==
    user = "sampler" =>
        /\ ~bound => core = "done"
        /\ core \in {"unbind", "done"} => thread = "gone"
        /\ core \in {"waiting", "traced"} /\ ~papi.running => thread = "gone"

Inv == TypeOK /\ LoopInv /\ WorkInv /\ SamplerInv


-----------------------------------------------------------------------------
\* Initially nothing is armed, queued or unbound.
LEMMA InvInit == Init => Inv
<1> SUFFICES ASSUME Init PROVE Inv
  OBVIOUS
<1>1. loop \in [initialized : BOOLEAN, armed : BOOLEAN, running : BOOLEAN,
                finished : BOOLEAN, async : BOOLEAN, handles : Handles]
  BY DEF Init, Handles
<1>2. papi \in [running : BOOLEAN, loop_ready : BOOLEAN, ready : BOOLEAN] /\ bound \in BOOLEAN
  BY Zenon DEF Init
<1>3. srv \in [running : BOOLEAN, stop_requested : BOOLEAN, raised : BOOLEAN]
  BY DEF Init
<1>4. work \in [Collectors -> [in_flight : BOOLEAN, queued : 0..1, reading : 0..1, ended : 0..1]]
  BY DEF Init, Idle
<1>5. TypeOK
  BY <1>1, <1>2, <1>3, <1>4, EventLoopAssumption DEF Init, TypeOK
<1>6. LoopInv
  BY DEF Init, LoopInv
<1>7. WorkInv
  BY DEF Init, WorkInv, Pending, Idle
<1>8. SamplerInv
  BY DEF Init, SamplerInv
<1> QED
  BY <1>5, <1>6, <1>7, <1>8 DEF Inv

\* What a step does to the loop object keeps its type and its invariant.
LEMMA LoopOps ==
    ASSUME TypeOK, LoopInv
    PROVE  /\ LET l == StopLoop(loop) IN
                /\ l \in [initialized : BOOLEAN, armed : BOOLEAN, running : BOOLEAN,
                          finished : BOOLEAN, async : BOOLEAN, handles : Handles]
                /\ l.armed <=> l.handles = "open"
                /\ l.async => l.armed /\ l.running
           /\ LET l == CloseHandles([loop EXCEPT !.async = FALSE]) IN
                /\ l \in [initialized : BOOLEAN, armed : BOOLEAN, running : BOOLEAN,
                          finished : BOOLEAN, async : BOOLEAN, handles : Handles]
                /\ l.armed <=> l.handles = "open"
                /\ ~l.async
BY DEF TypeOK, LoopInv, StopLoop, CloseHandles, Handles

\* Every step keeps the invariant.
LEMMA InvNext == Inv /\ [Next]_vars => Inv'
<1> SUFFICES ASSUME Inv, [Next]_vars PROVE Inv'
  OBVIOUS
<1>1. TypeOK /\ LoopInv /\ WorkInv /\ SamplerInv
  BY DEF Inv
<1>2. CASE Run
  <2>1. CASE UNCHANGED loop
    BY <1>1, <1>2, <2>1 DEF Run, Inv, TypeOK, LoopInv, WorkInv, SamplerInv, Pending
  <2>2. CASE loop' = [ArmHandles(loop) EXCEPT !.running = TRUE] /\ thread' = "loop"
    <3>1. loop' \in [initialized : BOOLEAN, armed : BOOLEAN, running : BOOLEAN,
                     finished : BOOLEAN, async : BOOLEAN, handles : Handles]
          /\ LoopInv'
      BY <1>1, <2>2 DEF ArmHandles, TypeOK, LoopInv, Handles
    <3> QED
      BY <1>1, <1>2, <2>2, <3>1 DEF Run, Inv, TypeOK, WorkInv, SamplerInv, Pending
  <2> QED
    BY <1>2, <2>1, <2>2 DEF Run
<1>3. CASE OnStopRequested
  BY <1>1, <1>3, LoopOps DEF OnStopRequested, Inv, TypeOK, LoopInv, WorkInv, SamplerInv, Pending
<1>4. CASE Drained
  <2>1. loop.handles # "open" /\ ~loop.armed /\ ~loop.async
    BY <1>1, <1>4 DEF Drained, LoopAlive, LoopInv
  <2>2. \A c \in Collectors : Pending(c) = 0
    BY <1>1, <1>4 DEF Drained, LoopAlive, TypeOK, Pending
  <2>3. loop' \in [initialized : BOOLEAN, armed : BOOLEAN, running : BOOLEAN,
                   finished : BOOLEAN, async : BOOLEAN, handles : Handles]
        /\ LoopInv'
    BY <1>1, <1>4, <2>1 DEF Drained, CloseHandles, TypeOK, LoopInv, Handles
  <2>4. WorkInv'
    BY <1>1, <1>4, <2>2 DEF Drained, WorkInv, Pending
  <2> QED
    BY <1>1, <1>4, <2>3, <2>4 DEF Drained, Inv, TypeOK, SamplerInv
<1>5. CASE SamplerFails \/ StartCounters \/ AddTimer
  <2>1. LoopInv' /\ SamplerInv'
    BY <1>1, <1>5 DEF SamplerFails, StartCounters, AddTimer, LoopInv, SamplerInv, TypeOK
  <2>2. WorkInv'
    BY <1>1, <1>5 DEF SamplerFails, StartCounters, AddTimer, WorkInv, Pending
  <2>3. papi' \in [running : BOOLEAN, loop_ready : BOOLEAN, ready : BOOLEAN]
    BY <1>1, <1>5 DEF SamplerFails, StartCounters, AddTimer, TypeOK
  <2>4. loop' \in [initialized : BOOLEAN, armed : BOOLEAN, running : BOOLEAN,
                   finished : BOOLEAN, async : BOOLEAN, handles : Handles]
    BY <1>1, <1>5 DEF SamplerFails, StartCounters, AddTimer, TypeOK
  <2>5. TypeOK'
    BY <1>1, <1>5, <2>3, <2>4 DEF SamplerFails, StartCounters, AddTimer, TypeOK
  <2> QED
    BY <2>1, <2>2, <2>5 DEF Inv
<1>6. CASE Sample \/ Sampled \/ SamplerEnds
  <2>1. CASE Sample
    BY <1>1, <2>1 DEF Sample, Inv, TypeOK, LoopInv, WorkInv, SamplerInv, Pending, Handles
  <2>2. CASE Sampled
    BY <1>1, <2>2 DEF Sampled, Inv, TypeOK, LoopInv, WorkInv, SamplerInv, Pending, Handles
  <2>3. CASE SamplerEnds
    <3>1. LoopInv' /\ SamplerInv'
      BY <1>1, <2>3 DEF SamplerEnds, LoopInv, SamplerInv
    <3>2. WorkInv'
      BY <1>1, <2>3 DEF SamplerEnds, WorkInv, Pending
    <3>3. papi' \in [running : BOOLEAN, loop_ready : BOOLEAN, ready : BOOLEAN]
      BY <1>1, <2>3 DEF SamplerEnds, TypeOK
    <3>4. TypeOK'
      BY <1>1, <2>3, <3>3 DEF SamplerEnds, TypeOK
    <3> QED
      BY <3>1, <3>2, <3>4 DEF Inv
  <2> QED
    BY <1>6, <2>1, <2>2, <2>3
<1>7. CASE ServiceStart \/ FinalizeService
  BY <1>1, <1>7, ZenonT(60) DEF ServiceStart, FinalizeService,
                    Inv, TypeOK, LoopInv, WorkInv, SamplerInv, Pending, Handles
<1>8. CASE RequestStop
  BY <1>1, <1>8, LoopOps DEF RequestStop, Inv, TypeOK, LoopInv, WorkInv, SamplerInv, Pending
<1>9. ASSUME NEW c \in Collectors, Tick(c) \/ OnWorkDone(c) \/ CaptureBegin(c) \/ CaptureEnd(c)
      PROVE  Inv'
  <2>1. \A d \in Collectors : d # c => work'[d] = work[d]
    BY <1>1, <1>9 DEF Tick, OnWorkDone, CaptureBegin, CaptureEnd, TypeOK
  <2>2. work'[c] \in [in_flight : BOOLEAN, queued : 0..1, reading : 0..1, ended : 0..1]
        /\ Pending(c)' <= 1 /\ (~work'[c].in_flight => Pending(c)' = 0)
    <3>5. /\ work[c] \in [in_flight : BOOLEAN, queued : 0..1, reading : 0..1, ended : 0..1]
          /\ work[c].queued \in 0..1 /\ work[c].reading \in 0..1 /\ work[c].ended \in 0..1
          /\ work[c].queued + work[c].reading + work[c].ended <= 1
          /\ ~work[c].in_flight => work[c].queued + work[c].reading + work[c].ended = 0
      BY <1>1 DEF TypeOK, WorkInv, Pending
    <3>1. CASE Tick(c)
      <4>1. work'[c] = [work[c] EXCEPT !.in_flight = TRUE, !.queued = work[c].queued + 1]
        BY <1>1, <3>1 DEF Tick, TypeOK
      <4>2. ~work[c].in_flight
        BY <3>1 DEF Tick
      <4>3. work[c].queued = 0 /\ work[c].reading = 0 /\ work[c].ended = 0
        BY <3>5, <4>2
      <4>4. work'[c].in_flight = TRUE /\ work'[c].queued = 1 /\ work'[c].reading = 0 /\ work'[c].ended = 0
        BY <3>5, <4>1, <4>3
      <4>5. work[c].queued + 1 \in 0..1
        BY <4>3
      <4>6. work'[c] \in [in_flight : BOOLEAN, queued : 0..1, reading : 0..1, ended : 0..1]
        BY <3>5, <4>1, <4>5
      <4> QED
        BY <3>5, <4>2, <4>3, <4>4, <4>6 DEF Pending
    <3>2. CASE OnWorkDone(c)
      <4>1. work'[c] = [work[c] EXCEPT !.ended = work[c].ended - 1, !.in_flight = FALSE]
        BY <1>1, <3>2 DEF OnWorkDone, TypeOK
      <4>2. work[c].ended > 0
        BY <3>2 DEF OnWorkDone
      <4>3. work[c].queued = 0 /\ work[c].reading = 0 /\ work[c].ended = 1
        BY <3>5, <4>2
      <4>4. work'[c].in_flight = FALSE /\ work'[c].queued = 0 /\ work'[c].reading = 0 /\ work'[c].ended = 0
        BY <3>5, <4>1, <4>3
      <4>5. work[c].ended - 1 \in 0..1
        BY <4>3
      <4>6. work'[c] \in [in_flight : BOOLEAN, queued : 0..1, reading : 0..1, ended : 0..1]
        BY <3>5, <4>1, <4>5
      <4> QED
        BY <3>5, <4>2, <4>3, <4>4, <4>6 DEF Pending
    <3>3. CASE CaptureBegin(c)
      <4>1. work'[c] = IF srv.running
                          THEN [work[c] EXCEPT !.queued = work[c].queued - 1, !.reading = work[c].reading + 1]
                          ELSE [work[c] EXCEPT !.queued = work[c].queued - 1, !.ended = work[c].ended + 1]
        BY <1>1, <3>3 DEF CaptureBegin, TypeOK
      <4>2. work[c].queued > 0
        BY <3>3 DEF CaptureBegin
      <4>3. work[c].queued = 1 /\ work[c].reading = 0 /\ work[c].ended = 0
        BY <3>5, <4>2
      <4>4. /\ work'[c].in_flight = work[c].in_flight /\ work'[c].queued = 0
            /\ \/ work'[c].reading = 1 /\ work'[c].ended = 0
               \/ work'[c].reading = 0 /\ work'[c].ended = 1
        BY <3>5, <4>1, <4>3
      <4>5. work[c].queued - 1 \in 0..1 /\ work[c].reading + 1 \in 0..1 /\ work[c].ended + 1 \in 0..1
        BY <4>3
      <4>6. work'[c] \in [in_flight : BOOLEAN, queued : 0..1, reading : 0..1, ended : 0..1]
        BY <3>5, <4>1, <4>5
      <4> QED
        BY <3>5, <4>2, <4>3, <4>4, <4>6 DEF Pending
    <3>4. CASE CaptureEnd(c)
      <4>1. work'[c] = [work[c] EXCEPT !.reading = work[c].reading - 1, !.ended = work[c].ended + 1]
        BY <1>1, <3>4 DEF CaptureEnd, TypeOK
      <4>2. work[c].reading > 0
        BY <3>4 DEF CaptureEnd
      <4>3. work[c].queued = 0 /\ work[c].reading = 1 /\ work[c].ended = 0
        BY <3>5, <4>2
      <4>4. work'[c].in_flight = work[c].in_flight /\ work'[c].queued = 0 /\ work'[c].reading = 0 /\ work'[c].ended = 1
        BY <3>5, <4>1, <4>3
      <4>5. work[c].reading - 1 \in 0..1 /\ work[c].ended + 1 \in 0..1
        BY <4>3
      <4>6. work'[c] \in [in_flight : BOOLEAN, queued : 0..1, reading : 0..1, ended : 0..1]
        BY <3>5, <4>1, <4>5
      <4> QED
        BY <3>5, <4>2, <4>3, <4>4, <4>6 DEF Pending
    <3> QED
      BY <1>9, <3>1, <3>2, <3>3, <3>4
  <2>3. thread \notin {"loop", "sample"} => FALSE
    BY <1>1, <1>9 DEF Tick, OnWorkDone, CaptureBegin, CaptureEnd, TypeOK, WorkInv, Pending
  <2>4. UNCHANGED <<user, thread, core, loop, papi, bound, srv, alive, signals>>
    BY <1>9 DEF Tick, OnWorkDone, CaptureBegin, CaptureEnd
  <2>5. work' \in [Collectors -> [in_flight : BOOLEAN, queued : 0..1, reading : 0..1, ended : 0..1]]
    BY <1>1, <1>9, <2>1, <2>2 DEF Tick, OnWorkDone, CaptureBegin, CaptureEnd, TypeOK
  <2>6. WorkInv'
    BY <1>1, <2>1, <2>2, <2>3, <2>4 DEF WorkInv, Pending
  <2> QED
    BY <1>1, <2>4, <2>5, <2>6 DEF Inv, TypeOK, LoopInv, SamplerInv
<1>10. ASSUME Initialized \/ FinalizeSampler \/ TestLoopReady \/ JoinSampler \/ Unbind
       PROVE  Inv'
  <2>1. UNCHANGED <<user, thread, loop, srv, work, alive, signals>>
    BY <1>10 DEF Initialized, FinalizeSampler, TestLoopReady, JoinSampler, Unbind
  <2>2. papi' \in [running : BOOLEAN, loop_ready : BOOLEAN, ready : BOOLEAN] /\ bound' \in BOOLEAN
        /\ core' \in {"waiting", "traced", "test", "stop", "join", "unbind", "done"}
    BY <1>1, <1>10 DEF Initialized, FinalizeSampler, TestLoopReady, JoinSampler, Unbind, TypeOK
  <2>3. SamplerInv'
    <3>1. CASE Initialized
      BY <1>1, <3>1 DEF Initialized, SamplerInv
    <3>2. CASE FinalizeSampler
      BY <1>1, <3>2 DEF FinalizeSampler, SamplerInv, TypeOK
    <3>3. CASE TestLoopReady
      BY <1>1, <3>3 DEF TestLoopReady, SamplerInv
    <3>4. CASE JoinSampler
      BY <1>1, <3>4 DEF JoinSampler, SamplerInv
    <3>5. CASE Unbind
      BY <1>1, <3>5 DEF Unbind, SamplerInv
    <3> QED
      BY <1>10, <3>1, <3>2, <3>3, <3>4, <3>5
  <2> QED
    BY <1>1, <2>1, <2>2, <2>3 DEF Inv, TypeOK, LoopInv, WorkInv, Pending
<1>11. CASE StopSampler
  BY <1>1, <1>11, LoopOps DEF StopSampler, Inv, TypeOK, LoopInv, WorkInv, SamplerInv, Pending
<1>12. CASE Signal
  <2>1. signals' \in 0 .. MaxSignals
    BY <1>1, <1>12, EventLoopAssumption DEF Signal, TypeOK
  <2>2. srv' \in [running : BOOLEAN, stop_requested : BOOLEAN, raised : BOOLEAN] /\ alive' \in BOOLEAN
    BY <1>1, <1>12 DEF Signal, TypeOK
  <2>3. UNCHANGED <<user, thread, core, loop, papi, bound, work>>
    BY <1>12 DEF Signal
  <2> QED
    BY <1>1, <2>1, <2>2, <2>3 DEF Inv, TypeOK, LoopInv, WorkInv, SamplerInv, Pending
<1>13. CASE UNCHANGED vars
  BY <1>1, <1>13 DEF vars, Inv, TypeOK, LoopInv, WorkInv, SamplerInv, Pending
<1> QED
  BY <1>2, <1>3, <1>4, <1>5, <1>6, <1>7, <1>8, <1>9, <1>10, <1>11, <1>12, <1>13
  DEF Next, LoopThread, CoreThread

\* The invariant holds throughout.
LEMMA InvAlways == Spec => []Inv
BY InvInit, InvNext, PTL DEF Spec

-----------------------------------------------------------------------------
\* stop() may come from any thread and at any time: its wake-up never goes to
\* a handle that is closed, closing or not made yet.
THEOREM WakeUpIsSafe == Spec => []AsyncToOpenHandle
<1>1. Inv => AsyncToOpenHandle
  BY DEF Inv, LoopInv, AsyncToOpenHandle
<1> QED
  BY InvAlways, <1>1, PTL

\* However slow its sources are and however many collectors share the
\* threadpool, a collector never has two captures on it.
THEOREM CapturesApart == Spec => []OneCapture
<1>1. Inv => OneCapture
  BY DEF Inv, WorkInv, OneCapture, Pending
<1> QED
  BY InvAlways, <1>1, PTL

\* The daemon finalizes its collectors and its buffer manager only when the
\* threadpool has no capture left that uses them, even if the loop never ran.
THEOREM FinalizeAlone == Spec => []NothingAbandoned
<1>1. Inv => NothingAbandoned
  BY DEF Inv, WorkInv, NothingAbandoned, Pending, TypeOK
<1> QED
  BY InvAlways, <1>1, PTL

\* The sampler never reads its counters through a wrapper that was unbound,
\* whether it came up, failed, or was still coming up when initialize() gave
\* up waiting for it.
THEOREM UnbindAfterSampler == Spec => []SamplerInside
<1>1. Inv => SamplerInside
  BY DEF Inv, SamplerInv, SamplerInside
<1> QED
  BY InvAlways, <1>1, PTL
=============================================================================
