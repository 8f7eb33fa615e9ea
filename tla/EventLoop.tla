------------------------------ MODULE EventLoop ------------------------------
(***************************************************************************)
(* The libuv loop of core/common/event_loop.cpp and the two programs that  *)
(* run it: the traced process, whose PAPI sampler thread drives it while   *)
(* DFTracerCore stops the sampler before it unbinds the I/O wrappers, and  *)
(* the service daemon, whose main thread drives it until SIGINT or SIGTERM *)
(* arrives.  A process is one or the other.                                *)
(*                                                                         *)
(* Every critical section of EventLoop::mutex is one action.  libuv itself *)
(* (which callbacks are due, when uv_run returns, what becomes of a signal *)
(* nobody handles) is external.  start_thread(), join() and the thread     *)
(* hooks have no caller in the repository and are left out.                *)
(***************************************************************************)
EXTENDS Naturals, FiniteSets

CONSTANTS Collectors,   \* the service's telemetry collectors
          PoolSize,     \* DFTRACER libuv_thread_count
          MaxSignals    \* bound: SIGINT and SIGTERM sent to the daemon

ASSUME EventLoopAssumption ==
    IsFiniteSet(Collectors) /\ PoolSize \in Nat \ {0} /\ MaxSignals \in Nat

VARIABLES user,    \* which program this process is
          thread,  \* where the thread that drives the loop is
          core,    \* where DFTracerCore is (traced process only)
          loop,    \* the EventLoop object
          papi,    \* sampler_running, loop_ready and the sampler_ready promise
          bound,   \* the I/O wrappers are bound
          srv,     \* running, stop_requested, and a signal yet to be handled
          work,    \* per collector: in_flight and its tasks on the threadpool
          alive,   \* the process has not been killed by a signal
          signals  \* signals sent so far

vars == <<user, thread, core, loop, papi, bound, srv, work, alive, signals>>

Handles == {"none", "open", "closed"}

TypeOK ==
    /\ user \in {"sampler", "service"}
    /\ thread \in {"setup", "timer", "run", "loop", "sample", "final",
                   "finalize", "gone"}
    /\ core \in {"waiting", "traced", "test", "stop", "join", "unbind", "done"}
    /\ loop \in [initialized : BOOLEAN, armed : BOOLEAN, running : BOOLEAN,
                 finished : BOOLEAN, async : BOOLEAN, handles : Handles]
    /\ papi \in [running : BOOLEAN, loop_ready : BOOLEAN, ready : BOOLEAN]
    /\ bound \in BOOLEAN /\ alive \in BOOLEAN
    /\ srv \in [running : BOOLEAN, stop_requested : BOOLEAN, raised : BOOLEAN]
    /\ work \in [Collectors -> [in_flight : BOOLEAN, queued : 0..1,
                                reading : 0..1, ended : 0..1]]
    /\ signals \in 0..MaxSignals

Idle == [in_flight |-> FALSE, queued |-> 0, reading |-> 0, ended |-> 0]

Init ==
    /\ user \in {"sampler", "service"}
    /\ thread = "setup" /\ core = "waiting"
    /\ loop = [initialized |-> FALSE, armed |-> FALSE, running |-> FALSE,
               finished |-> FALSE, async |-> FALSE, handles |-> "none"]
    /\ papi = [running |-> user = "sampler", loop_ready |-> FALSE,
               ready |-> FALSE]
    /\ bound = (user = "sampler")
    /\ srv = [running |-> FALSE, stop_requested |-> FALSE, raised |-> FALSE]
    /\ work = [c \in Collectors |-> Idle]
    /\ alive = TRUE /\ signals = 0

-----------------------------------------------------------------------------
(* EventLoop *)

ArmHandles(l) == [l EXCEPT !.armed = TRUE, !.handles = "open"]

CloseHandles(l) ==
    IF l.armed THEN [l EXCEPT !.armed = FALSE, !.handles = "closed"] ELSE l

\* Wakes the loop whatever became of its handles.
StopBlindly(l) == IF l.initialized THEN [l EXCEPT !.async = TRUE] ELSE l

StopLoop(l) ==
    IF ~l.initialized \/ ~l.armed THEN l
    ELSE IF ~l.running THEN CloseHandles(l)
    ELSE [l EXCEPT !.async = TRUE]

\* uv_run has something left to wait on (external).
LoopAlive ==
    loop.handles = "open"
    \/ \E c \in Collectors : work[c].queued + work[c].reading + work[c].ended > 0

\* run(): the locked section.  A loop that cannot be set up, or is running or
\* spent already, is not driven.
Run ==
    /\ alive /\ thread = "run"
    /\ \/ /\ loop.initialized /\ ~loop.running /\ ~loop.finished
          /\ loop' = [ArmHandles(loop) EXCEPT !.running = TRUE]
          /\ thread' = "loop"
       \/ /\ ~loop.initialized \/ loop.running \/ loop.finished
          /\ thread' = IF user = "sampler" THEN "final" ELSE "finalize"
          /\ UNCHANGED loop
    /\ UNCHANGED <<user, core, papi, bound, srv, work, alive, signals>>

\* Swallows the wake-up.
OnStopIgnored ==
    /\ alive /\ thread = "loop" /\ loop.async
    /\ loop' = [loop EXCEPT !.async = FALSE]
    /\ UNCHANGED <<user, thread, core, papi, bound, srv, work, alive, signals>>

\* on_stop_requested, on the loop thread.
OnStopRequested ==
    /\ alive /\ thread = "loop" /\ loop.async
    /\ loop' = CloseHandles([loop EXCEPT !.async = FALSE])
    /\ UNCHANGED <<user, thread, core, papi, bound, srv, work, alive, signals>>

\* Left by a uv_stop(): nothing waits for the threadpool.
DrainedAtOnce ==
    /\ alive /\ thread = "loop" /\ loop.handles # "open"
    /\ loop' = [loop EXCEPT !.running = FALSE, !.finished = TRUE]
    /\ thread' = IF user = "sampler" THEN "final" ELSE "finalize"
    /\ UNCHANGED <<user, core, papi, bound, srv, work, alive, signals>>

\* uv_run returns; drive() closes what is left and marks the loop spent.
Drained ==
    /\ alive /\ thread = "loop" /\ ~LoopAlive
    /\ loop' = [CloseHandles(loop) EXCEPT !.running = FALSE, !.finished = TRUE]
    /\ thread' = IF user = "sampler" THEN "final" ELSE "finalize"
    /\ UNCHANGED <<user, core, papi, bound, srv, work, alive, signals>>

-----------------------------------------------------------------------------
(* The PAPI sampler *)

\* The library or the counters do not come up, or add_timer() fails.
SamplerFails ==
    /\ user = "sampler" /\ thread \in {"setup", "timer"}
    /\ papi' = [papi EXCEPT !.running = FALSE, !.ready = TRUE]
    /\ thread' = "gone"
    /\ UNCHANGED <<user, core, loop, bound, srv, work, alive, signals>>

StartCounters ==
    /\ user = "sampler" /\ thread = "setup"
    /\ thread' = "timer"
    /\ UNCHANGED <<user, core, loop, papi, bound, srv, work, alive, signals>>

AddTimer ==
    /\ user = "sampler" /\ thread = "timer"
    /\ loop' = [loop EXCEPT !.initialized = TRUE]
    /\ papi' = [papi EXCEPT !.loop_ready = TRUE, !.ready = TRUE]
    /\ thread' = "run"
    /\ UNCHANGED <<user, core, bound, srv, work, alive, signals>>

\* on_timer calls emit_sample, which reads the counters with read(2).
Sample ==
    /\ user = "sampler" /\ thread = "loop" /\ loop.handles = "open"
    /\ thread' = "sample"
    /\ UNCHANGED <<user, core, loop, papi, bound, srv, work, alive, signals>>

Sampled ==
    /\ thread = "sample"
    /\ thread' = "loop"
    /\ UNCHANGED <<user, core, loop, papi, bound, srv, work, alive, signals>>

\* The last sample is read and the counters are torn down.
SamplerEnds ==
    /\ user = "sampler" /\ thread = "final"
    /\ papi' = [papi EXCEPT !.loop_ready = FALSE]
    /\ thread' = "gone"
    /\ UNCHANGED <<user, core, loop, bound, srv, work, alive, signals>>

-----------------------------------------------------------------------------
(* DFTracerCore in the traced process *)

\* initialize() waits for the promise, for at most 30 s.
Initialized ==
    /\ user = "sampler" /\ core = "waiting"
    /\ papi.ready \/ thread \in {"setup", "timer"}
    /\ core' = "traced"
    /\ UNCHANGED <<user, thread, loop, papi, bound, srv, work, alive, signals>>

\* The sampler is left for later, as before the fix the source describes.
FinalizeSamplerLater ==
    /\ core = "traced"
    /\ core' = "unbind"
    /\ UNCHANGED <<user, thread, loop, papi, bound, srv, work, alive, signals>>

\* PAPICounterFunction::finalize(): who finds sampler_running set stops it.
FinalizeSampler ==
    /\ core = "traced"
    /\ papi' = [papi EXCEPT !.running = FALSE]
    /\ core' = IF papi.running THEN "test" ELSE "unbind"
    /\ UNCHANGED <<user, thread, loop, bound, srv, work, alive, signals>>

TestLoopReady ==
    /\ core = "test"
    /\ core' = IF papi.loop_ready THEN "stop" ELSE "join"
    /\ UNCHANGED <<user, thread, loop, papi, bound, srv, work, alive, signals>>

StopSampler ==
    /\ core = "stop"
    /\ loop' = StopLoop(loop)
    /\ core' = "join"
    /\ UNCHANGED <<user, thread, papi, bound, srv, work, alive, signals>>

JoinSampler ==
    /\ core = "join" /\ thread = "gone"
    /\ core' = "unbind"
    /\ UNCHANGED <<user, thread, loop, papi, bound, srv, work, alive, signals>>

Unbind ==
    /\ core = "unbind"
    /\ bound' = FALSE /\ core' = "done"
    /\ UNCHANGED <<user, thread, loop, papi, srv, work, alive, signals>>

-----------------------------------------------------------------------------
(* DFTracerService *)

\* start(): a loop that cannot be initialised is noticed by run() only.
ServiceStart ==
    /\ user = "service" /\ alive /\ thread = "setup"
    /\ \E ok \in BOOLEAN : loop' = [loop EXCEPT !.initialized = ok]
    /\ srv' = [srv EXCEPT !.running = TRUE]
    /\ thread' = "run"
    /\ UNCHANGED <<user, core, papi, bound, work, alive, signals>>

\* A tick of c's timer: queue_capture().
Tick(c) ==
    /\ user = "service" /\ alive /\ thread = "loop" /\ loop.handles = "open"
    /\ srv.running /\ ~work[c].in_flight
    /\ work' = [work EXCEPT ![c].in_flight = TRUE, ![c].queued = @ + 1]
    /\ UNCHANGED <<user, thread, core, loop, papi, bound, srv, alive, signals>>

\* The flag cleared as soon as the read begins.
CaptureBeginClears(c) ==
    /\ alive /\ work[c].queued > 0
    /\ work' = [work EXCEPT ![c].queued = @ - 1, ![c].reading = @ + 1, ![c].in_flight = FALSE]
    /\ UNCHANGED <<user, thread, core, loop, papi, bound, srv, alive, signals>>

\* on_work, on a threadpool thread: reads unless the service is stopping.
CaptureBegin(c) ==
    /\ alive /\ work[c].queued > 0
    /\ Cardinality({d \in Collectors : work[d].reading > 0}) < PoolSize
    /\ work' = IF srv.running
               THEN [work EXCEPT ![c].queued = @ - 1, ![c].reading = @ + 1]
               ELSE [work EXCEPT ![c].queued = @ - 1, ![c].ended = @ + 1]
    /\ UNCHANGED <<user, thread, core, loop, papi, bound, srv, alive, signals>>

CaptureEnd(c) ==
    /\ alive /\ work[c].reading > 0
    /\ work' = [work EXCEPT ![c].reading = @ - 1, ![c].ended = @ + 1]
    /\ UNCHANGED <<user, thread, core, loop, papi, bound, srv, alive, signals>>

\* on_work_done, on the loop thread: the `after` callback.
OnWorkDone(c) ==
    /\ alive /\ thread = "loop" /\ work[c].ended > 0
    /\ work' = [work EXCEPT ![c].ended = @ - 1, ![c].in_flight = FALSE]
    /\ UNCHANGED <<user, thread, core, loop, papi, bound, srv, alive, signals>>

\* SIGINT or SIGTERM: left to the loop while a handle watches for it, the end
\* of the process otherwise (external).
Signal ==
    /\ user = "service" /\ alive /\ thread # "gone" /\ signals < MaxSignals
    /\ signals' = signals + 1
    /\ IF loop.handles = "open"
       THEN srv' = [srv EXCEPT !.raised = TRUE] /\ UNCHANGED alive
       ELSE alive' = FALSE /\ UNCHANGED srv
    /\ UNCHANGED <<user, thread, core, loop, papi, bound, work>>

\* on_signal_raised calls request_stop().
RequestStop ==
    /\ alive /\ thread = "loop" /\ loop.handles = "open" /\ srv.raised
    /\ srv' = [running |-> FALSE, stop_requested |-> TRUE, raised |-> FALSE]
    /\ loop' = IF srv.stop_requested THEN loop ELSE StopLoop(loop)
    /\ UNCHANGED <<user, thread, core, papi, bound, work, alive, signals>>

\* finalize_service(): collectors, buffer manager, ring sink.
FinalizeService ==
    /\ user = "service" /\ alive /\ thread = "finalize"
    /\ thread' = "gone"
    /\ UNCHANGED <<user, core, loop, papi, bound, srv, work, alive, signals>>

-----------------------------------------------------------------------------
LoopThread ==
    \/ Run \/ OnStopRequested \/ Drained
    \/ SamplerFails \/ StartCounters \/ AddTimer \/ Sample \/ Sampled
    \/ SamplerEnds
    \/ ServiceStart \/ RequestStop \/ FinalizeService
    \/ \E c \in Collectors : Tick(c) \/ OnWorkDone(c)

CoreThread ==
    \/ Initialized \/ FinalizeSampler \/ TestLoopReady \/ StopSampler
    \/ JoinSampler \/ Unbind

Next ==
    \/ LoopThread \/ CoreThread \/ Signal
    \/ \E c \in Collectors : CaptureBegin(c) \/ CaptureEnd(c)

(***************************************************************************)
(* The threads run.  An iteration of uv_run serves the timers and then     *)
(* every descriptor that is ready, so a callback that stays due is not     *)
(* passed over for ever: strong fairness for what the samples interrupt.   *)
(* Captures end.  Nobody has to finalize or to send a signal.              *)
(***************************************************************************)
Fairness ==
    /\ WF_vars(Run) /\ WF_vars(Drained) /\ WF_vars(Sampled)
    /\ SF_vars(OnStopRequested) /\ SF_vars(RequestStop)
    /\ WF_vars(SamplerFails \/ StartCounters \/ AddTimer)
    /\ WF_vars(SamplerEnds) /\ WF_vars(ServiceStart) /\ WF_vars(FinalizeService)
    /\ WF_vars(TestLoopReady) /\ WF_vars(StopSampler) /\ WF_vars(JoinSampler)
    /\ WF_vars(Unbind)
    /\ \A c \in Collectors : WF_vars(CaptureBegin(c)) /\ WF_vars(CaptureEnd(c))
                             /\ SF_vars(OnWorkDone(c))

Spec == Init /\ [][Next]_vars /\ Fairness

-----------------------------------------------------------------------------
(* stop() is called from other threads and after the loop is spent: its    *)
(* wake-up (event_loop.cpp stop) is only ever sent to a handle that is     *)
(* open, never to one that is closing or was not made yet.                 *)
AsyncToOpenHandle == loop.async => loop.handles = "open"

(* A tick that finds the previous capture of its collector still on the    *)
(* threadpool is dropped (service.h queue_capture): no source is read      *)
(* twice at once, and no second read waits behind the first.               *)
OneCapture ==
    \A c \in Collectors : work[c].queued + work[c].reading + work[c].ended <= 1

(* When finalize_service() (service.h) finalizes the collectors and the    *)
(* buffer manager, no capture that uses them is on the threadpool.         *)
NothingAbandoned ==
    thread \in {"finalize", "gone"} =>
        \A c \in Collectors : work[c].queued + work[c].reading = 0

(* While the sampler reads its counters, in a tick or in its last sample,  *)
(* the read(2) wrapper it goes through is bound: DFTracerCore::finalize    *)
(* (dftracer_main.cpp) unbinds only once the sampler cannot read again.    *)
SamplerInside == thread \in {"run", "loop", "sample", "final"}
                 /\ user = "sampler" => bound

(* A wake-up that stop() did send ends the loop, captures and all, and the *)
(* thread that drove it comes back (event_loop.cpp drive): unless a signal *)
(* kills the daemon first.                                                 *)
SentStopEnds == loop.async ~> (thread = "gone" \/ ~alive)

(* event_loop.h: stop() is "safe to call from any thread" and "the loop    *)
(* falls out on its own": the finalize() that asked for it comes back from *)
(* joining the sampler.                                                    *)
FinalizeReturns == (core = "stop") ~> (core = "done")
=============================================================================
