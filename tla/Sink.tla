--------------------------------- MODULE Sink ---------------------------------
(***************************************************************************)
(* The drain threads of RingSink (service/pipeline/ring_sink.h): claiming  *)
(* and replaying blocks, parking and waking as ConsumerScaler              *)
(* (service/pipeline/consumer_scaler.h) moves the active count, each       *)
(* thread's chunk, and stop().                                             *)
(*                                                                         *)
(* claim() and take_over() hand out each block once (BlocksLiveOnce of     *)
(* module Ring), so they are one step here.  A block stands for the lines  *)
(* its replay adds to a chunk.  Times are abstracted: a tick may be due    *)
(* whenever thread 0 looks, a chunk old enough whenever it is asked, a     *)
(* held block too.  The scaler's target is any count in its range: its     *)
(* arithmetic is on measured rates.                                        *)
(***************************************************************************)
EXTENDS Naturals, FiniteSets

CONSTANTS
    MinThreads, MaxThreads,   \* of ConsumerScaler
    DownTicks,                \* ConsumerScaler::down_ticks_
    Blocks                    \* blocks that producers fill

ASSUME SinkConstants ==
    /\ MinThreads \in Nat \ {0}
    /\ MaxThreads \in Nat /\ MaxThreads >= MinThreads
    /\ DownTicks \in Nat \ {0}

Ids == 0 .. MaxThreads - 1

VARIABLES
    held,      \* blocks producers hold unpublished
    ready,     \* complete blocks not yet claimed
    fresh,     \* blocks not yet claimed by a producer
    active,    \* active_
    stop,      \* stop_
    below,     \* ConsumerScaler::below_
    pc,        \* per drain thread
    hand,      \* per drain thread: the blocks it has claimed and not replayed
    seen,      \* thread 0: `active` as maybe_scale loaded it, then the count it wants
    chunk,     \* per drain thread: blocks whose lines are in its chunk
    file,      \* blocks whose lines are in the node file
    spc,       \* stop(): program point
    early      \* history: blocks published when stop() began

vars == <<held, ready, fresh, active, stop, below, pc, hand, seen, chunk, file, spc, early>>

\* start(), with MinThreads active
Init ==
    /\ held = {} /\ ready = {} /\ fresh = Blocks
    /\ active = MinThreads
    /\ stop = FALSE
    /\ below = 0
    /\ pc = [i \in Ids |-> "top"]
    /\ hand = [i \in Ids |-> {}]
    /\ seen = 0
    /\ chunk = [i \in Ids |-> {}]
    /\ file = {}
    /\ spc = "running"
    /\ early = {}

\* A step of drain thread i from a to b.
At(i, a, b) == pc[i] = a /\ pc' = [pc EXCEPT ![i] = b]

\* Nobody holds park_mtx_.  A parking thread holds it from its test of the
\* predicate until it sleeps or returns; who stores under it holds it for a step.
ParkFree == \A i \in Ids : pc[i] \notin {"sleepy", "woken"}

\* park_cv_.notify_all: the sleepers want park_mtx_ again
NotifyAll(i) == IF pc[i] = "asleep" THEN "park" ELSE pc[i]

----------------------------------------------------------------------------
(* Producers: external to RingSink, see module Ring *)

ProducerStep ==
    /\ \E b \in Blocks :
          \/ b \in fresh /\ fresh' = fresh \ {b} /\ held' = held \cup {b} /\ UNCHANGED ready
          \/ b \in held /\ held' = held \ {b} /\ ready' = ready \cup {b} /\ UNCHANGED fresh
    /\ UNCHANGED <<active, stop, below, pc, hand, seen, chunk, file, spc, early>>

----------------------------------------------------------------------------
(* drain() *)

\* wait_until_active: below the active count
GoOn(i) ==
    /\ i < active
    /\ At(i, "top", "claim")
    /\ UNCHANGED <<held, ready, fresh, active, stop, below, hand, seen, chunk, file, spc, early>>

\* Mutant: a thread parks with lines in its chunk.
ParkUnflushed(i) ==
    /\ i >= active
    /\ At(i, "top", "park")
    /\ UNCHANGED <<held, ready, fresh, active, stop, below, hand, seen, chunk, file, spc, early>>

\* wait_until_active: write out the chunk before parking
Park(i) ==
    /\ i >= active
    /\ At(i, "top", "park")
    /\ file' = file \cup chunk[i]
    /\ chunk' = [chunk EXCEPT ![i] = {}]
    /\ UNCHANGED <<held, ready, fresh, active, stop, below, hand, seen, spc, early>>

\* park_cv_.wait: take park_mtx_ and test the predicate: false
ParkWait(i) ==
    /\ ParkFree
    /\ ~stop /\ i >= active
    /\ At(i, "park", "sleepy")
    /\ UNCHANGED <<held, ready, fresh, active, stop, below, hand, seen, chunk, file, spc, early>>

\* park_cv_.wait: sleep and let park_mtx_ go, in one
Sleep(i) ==
    /\ At(i, "sleepy", "asleep")
    /\ UNCHANGED <<held, ready, fresh, active, stop, below, hand, seen, chunk, file, spc, early>>

\* park_cv_.wait returns: the predicate is true
ParkEnds(i) ==
    /\ ParkFree
    /\ stop \/ i < active
    /\ At(i, "park", "woken")
    /\ UNCHANGED <<held, ready, fresh, active, stop, below, hand, seen, chunk, file, spc, early>>

\* wait_until_active: load active_ again and unlock; false ends the thread
Woken(i) ==
    /\ At(i, "woken", IF i < active THEN "claim" ELSE "exit")
    /\ UNCHANGED <<held, ready, fresh, active, stop, below, hand, seen, chunk, file, spc, early>>

\* A condition variable may wake a thread for no reason.
SpuriousWake(i) ==
    /\ At(i, "asleep", "park")
    /\ UNCHANGED <<held, ready, fresh, active, stop, below, hand, seen, chunk, file, spc, early>>

\* claim() finds a complete block
Claim(i) ==
    /\ \E b \in ready : hand' = [hand EXCEPT ![i] = {b}] /\ ready' = ready \ {b}
    /\ At(i, "claim", "process")
    /\ UNCHANGED <<held, fresh, active, stop, below, seen, chunk, file, spc, early>>

\* claim() finds none
ClaimNone(i) ==
    /\ ready = {}
    /\ At(i, "claim", "none")
    /\ UNCHANGED <<held, ready, fresh, active, stop, below, hand, seen, chunk, file, spc, early>>

\* The lines of bs go into thread i's chunk, which is written out first, after
\* or not at all (it is full, or old enough for flush_if_older).
Replay(i, bs) ==
    \/ chunk' = [chunk EXCEPT ![i] = @ \cup bs] /\ UNCHANGED file
    \/ chunk' = [chunk EXCEPT ![i] = bs] /\ file' = file \cup chunk[i]
    \/ chunk' = [chunk EXCEPT ![i] = {}] /\ file' = file \cup chunk[i] \cup bs

\* What thread i does between blocks: thread 0 may scale.
Between(i) == IF i = 0 THEN "scale" ELSE "top"

\* process_block, release, flush_if_older
Process(i) ==
    /\ Replay(i, hand[i])
    /\ At(i, "process", Between(i))
    /\ hand' = [hand EXCEPT ![i] = {}]
    /\ UNCHANGED <<held, ready, fresh, active, stop, below, seen, spc, early>>

\* drain: nothing complete, and stopping
NoneStop(i) ==
    /\ stop
    /\ At(i, "none", "exit")
    /\ UNCHANGED <<held, ready, fresh, active, stop, below, hand, seen, chunk, file, spc, early>>

\* drain: nothing complete; flush_if_older
NoneIdle(i) ==
    /\ ~stop
    /\ At(i, "none", Between(i))
    /\ Replay(i, {})
    /\ UNCHANGED <<held, ready, fresh, active, stop, below, hand, seen, spc, early>>

\* drain: write out the chunk and return
ThreadEnds(i) ==
    /\ At(i, "exit", "ended")
    /\ file' = file \cup chunk[i]
    /\ chunk' = [chunk EXCEPT ![i] = {}]
    /\ UNCHANGED <<held, ready, fresh, active, stop, below, hand, seen, spc, early>>

----------------------------------------------------------------------------
(* maybe_scale(), on thread 0 *)

\* maybe_scale: the tick is not due, or the service is stopping
ScaleNot ==
    /\ At(0, "scale", "top")
    /\ UNCHANGED <<held, ready, fresh, active, stop, below, hand, seen, chunk, file, spc, early>>

\* maybe_scale: the tick is due; on to housekeeping
ScaleDue ==
    /\ ~stop
    /\ At(0, "scale", "house")
    /\ UNCHANGED <<held, ready, fresh, active, stop, below, hand, seen, chunk, file, spc, early>>

\* housekeeping: take over and replay a block held long enough
TakeOver ==
    /\ pc[0] = "house"
    /\ \E b \in held : held' = held \ {b} /\ Replay(0, {b})
    /\ UNCHANGED <<ready, fresh, active, stop, below, pc, hand, seen, spc, early>>

\* maybe_scale: load active_, after the sample
Sample ==
    /\ At(0, "house", "decide")
    /\ seen' = active
    /\ UNCHANGED <<held, ready, fresh, active, stop, below, hand, chunk, file, spc, early>>

\* ConsumerScaler::update for a target, once primed: the count to run and below_
Clamp(n) == IF n < MinThreads THEN MinThreads ELSE IF n > MaxThreads THEN MaxThreads ELSE n
Want(target, n) ==
    IF target < n /\ below + 1 >= DownTicks THEN n - 1
    ELSE IF target < n THEN n ELSE target
Below(target, n) ==
    IF target < n /\ below + 1 < DownTicks THEN below + 1 ELSE 0

\* Mutant: a step down does not stop at the minimum.
DecideBelowMin ==
    /\ \E target \in 0 .. MaxThreads :
          /\ below' = Below(target, seen)
          /\ active' = Want(target, seen)
    /\ At(0, "decide", "top")
    /\ UNCHANGED <<held, ready, fresh, stop, hand, seen, chunk, file, spc, early>>

\* maybe_scale: the count wanted.  More: on to Raise; the same, or the first
\* tick (scaler reset): nothing; fewer: a plain store.
Decide ==
    /\ pc[0] = "decide"
    /\ \/ \E target \in MinThreads .. MaxThreads :
             LET want == Want(target, Clamp(seen))
             IN  /\ below' = Below(target, Clamp(seen))
                 /\ seen' = want
                 /\ active' = IF want < seen THEN want ELSE active
                 /\ pc' = [pc EXCEPT ![0] = IF want > seen THEN "raise" ELSE "top"]
       \/ /\ below' = 0
          /\ pc' = [pc EXCEPT ![0] = "top"]
          /\ UNCHANGED <<active, seen>>
    /\ UNCHANGED <<held, ready, fresh, stop, hand, chunk, file, spc, early>>

\* Mutant: the larger count is stored without park_mtx_.
RaiseUnlocked ==
    /\ active' = seen
    /\ At(0, "raise", "notify")
    /\ UNCHANGED <<held, ready, fresh, stop, below, hand, seen, chunk, file, spc, early>>

\* maybe_scale: store the larger count under park_mtx_
Raise ==
    /\ ParkFree
    /\ active' = seen
    /\ At(0, "raise", "notify")
    /\ UNCHANGED <<held, ready, fresh, stop, below, hand, seen, chunk, file, spc, early>>

\* maybe_scale: notify_all
Notify ==
    /\ pc[0] = "notify"
    /\ pc' = [i \in Ids |-> IF i = 0 THEN "top" ELSE NotifyAll(i)]
    /\ UNCHANGED <<held, ready, fresh, active, stop, below, hand, seen, chunk, file, spc, early>>

----------------------------------------------------------------------------
(* stop() *)

\* stop: DRAINING
StopBegins ==
    /\ spc = "running"
    /\ spc' = "draining"
    /\ early' = Blocks \ (fresh \cup held)
    /\ UNCHANGED <<held, ready, fresh, active, stop, below, pc, hand, seen, chunk, file>>

\* Mutant: stop stores without park_mtx_.
StopSetsUnlocked ==
    /\ spc = "draining"
    /\ spc' = "notify"
    /\ active' = MaxThreads
    /\ stop' = TRUE
    /\ UNCHANGED <<held, ready, fresh, below, pc, hand, seen, chunk, file, early>>

\* stop: under park_mtx_, every thread active and stopping
StopSets ==
    /\ ParkFree
    /\ spc = "draining"
    /\ spc' = "notify"
    /\ active' = MaxThreads
    /\ stop' = TRUE
    /\ UNCHANGED <<held, ready, fresh, below, pc, hand, seen, chunk, file, early>>

\* stop: notify_all
StopNotifies ==
    /\ spc = "notify"
    /\ spc' = "join"
    /\ pc' = [i \in Ids |-> NotifyAll(i)]
    /\ UNCHANGED <<held, ready, fresh, active, stop, below, hand, seen, chunk, file, early>>

\* stop: join every thread
StopJoins ==
    /\ spc = "join"
    /\ \A i \in Ids : pc[i] = "ended"
    /\ spc' = "claim"
    /\ UNCHANGED <<held, ready, fresh, active, stop, below, pc, hand, seen, chunk, file, early>>

\* Mutant: stop trusts the threads to have drained everything.
StopClaimsNothing ==
    /\ spc = "claim"
    /\ spc' = "take"
    /\ UNCHANGED <<held, ready, fresh, active, stop, below, pc, hand, seen, chunk, file, early>>

\* stop: claim what is still complete, on thread 0's chunk
StopClaims ==
    /\ spc = "claim"
    /\ \/ \E b \in ready : ready' = ready \ {b} /\ Replay(0, {b}) /\ UNCHANGED spc
       \/ ready = {} /\ spc' = "take" /\ UNCHANGED <<ready, chunk, file>>
    /\ UNCHANGED <<held, fresh, active, stop, below, pc, hand, seen, early>>

\* stop: take over what is still held; "a block a live producer is writing into
\* at this very moment is left behind", as is one claimed after the last scan
StopTakes ==
    /\ spc = "take"
    /\ \/ \E b \in held : held' = held \ {b} /\ Replay(0, {b}) /\ UNCHANGED spc
       \/ spc' = "write" /\ UNCHANGED <<held, chunk, file>>
    /\ UNCHANGED <<ready, fresh, active, stop, below, pc, hand, seen, early>>

\* stop: finish the client processes, write every chunk out, close the file
StopWrites ==
    /\ spc = "write"
    /\ spc' = "closed"
    /\ file' = file \cup UNION {chunk[i] : i \in Ids}
    /\ chunk' = [i \in Ids |-> {}]
    /\ UNCHANGED <<held, ready, fresh, active, stop, below, pc, hand, seen, early>>

----------------------------------------------------------------------------

ThreadStep(i) ==
    \/ GoOn(i) \/ Park(i) \/ ParkWait(i) \/ Sleep(i) \/ ParkEnds(i) \/ Woken(i)
    \/ Claim(i) \/ ClaimNone(i) \/ Process(i) \/ NoneStop(i) \/ NoneIdle(i) \/ ThreadEnds(i)
    \/ i = 0 /\ (ScaleNot \/ ScaleDue \/ TakeOver \/ Sample \/ Decide \/ Raise \/ Notify)

StopStep == StopSets \/ StopNotifies \/ StopJoins \/ StopClaims \/ StopTakes \/ StopWrites

Next ==
    \/ ProducerStep
    \/ \E i \in Ids : ThreadStep(i) \/ SpuriousWake(i)
    \/ StopBegins \/ StopStep

Spec == Init /\ [][Next]_vars

\* A drain thread, or stop() once it is called, that can go on again and again
\* goes on: it waits for park_mtx_, a notification and the join only.  A chunk
\* that an idle thread looks at again and again is old enough (flush_if_older)
\* at some look.
FairSpec ==
    /\ Spec
    /\ \A i \in Ids : SF_vars(ThreadStep(i)) /\ SF_vars(NoneIdle(i) /\ chunk'[i] = {})
    /\ SF_vars(StopStep)

----------------------------------------------------------------------------
(* Properties *)

\* Every thread is at a point of its loop, every block in a known place, and
\* the active count is one the scaler or stop() may set.
TypeOK ==
    /\ held \cup ready \cup fresh \cup file \cup early \subseteq Blocks
    /\ active \in MinThreads .. MaxThreads
    /\ stop \in BOOLEAN
    /\ below \in 0 .. DownTicks - 1
    /\ pc \in [Ids -> {"top", "claim", "park", "sleepy", "asleep", "woken", "process", "none",
                       "scale", "house", "decide", "raise", "notify", "exit", "ended"}]
    /\ hand \in [Ids -> SUBSET Blocks] /\ chunk \in [Ids -> SUBSET Blocks]
    /\ seen \in 0 .. MaxThreads
    /\ spc \in {"running", "draining", "notify", "join", "claim", "take", "write", "closed"}

\* A parked or ended thread keeps no lines back: what it replayed is in the
\* file, however long it sleeps (stop() uses thread 0's chunk after the join).
ParkedEmpty ==
    \A i \in Ids :
        pc[i] \in {"park", "sleepy", "asleep", "woken", "ended"} /\ spc \notin {"claim", "take", "write"} =>
            chunk[i] = {}

\* stop(): "drain everything producers published": once it has closed the file,
\* every block published before it began is in the file, whichever threads were
\* parked, waking, scaling or draining at the time.
StopLosesNothing == spc = "closed" => early \subseteq file

\* stop() ends: no thread sleeps through it, and the join does not wait forever.
StopEnds == spc # "running" ~> spc = "closed"

\* A block published before stop() reaches the node file, although threads park
\* and wake with lines in their chunks: thread 0 always drains.
Drained == \A b \in Blocks : (b \in ready /\ spc = "running") ~> b \in file

\* A thread the scaler wants awake wakes up: the store and the notification of a
\* larger count do not fall between its test of the predicate and its sleep.
Wakes == \A i \in Ids : (pc[i] = "asleep" /\ i < active) ~> (pc[i] # "asleep" \/ i >= active)

\* wait_until_active(): "False: stopping."  A drain thread leaves its loop only
\* when the service stops.
FalseMeansStopping == [][\A i \in Ids : pc[i] # "exit" /\ pc'[i] = "exit" => stop]_vars

=============================================================================
