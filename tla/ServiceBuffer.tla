---------------------------- MODULE ServiceBuffer ----------------------------
(***************************************************************************)
(* ServiceBufferManager (core/buffer/service_buffer_manager.cpp): what     *)
(* becomes of an event between a log call of a traced process and the node *)
(* trace.  Threads log, exit and finalize; the service drains the ring,    *)
(* stops or crashes.                                                       *)
(*                                                                         *)
(* Lock-protected sections that touch only what their lock protects are    *)
(* one step; every other shared access is a step of its own.  The ring is  *)
(* abstracted to the events of each slot's unpublished block and of the    *)
(* published ones: module Ring checks the words underneath.  The behaviour *)
(* starts after initialize(): the service knows the spill file (its HELLO  *)
(* was drained) and accepts events.  fork() is not modelled.               *)
(***************************************************************************)
EXTENDS Naturals, FiniteSets

CONSTANTS
    Threads,      \* threads of the traced process
    Main,         \* the one that calls finalize()
    Orphan,       \* orphan_, the slot shared by threads past their exit
    NoOne,        \* no holder of a mutex
    MaxEvents,    \* bound: log calls per thread
    MaxFlushes,   \* bound: calls of flush()
    Finalizes,    \* finalize() is called
    Spurious,     \* compare_exchange_weak may fail with the value expected
    OpenFails,    \* the spill file may not open
    Stops,        \* the service may stop
    Crashes       \* the service may crash

ASSUME ServiceBufferConstants ==
    /\ Main \in Threads
    /\ Orphan \notin Threads
    /\ NoOne \notin Threads
    /\ MaxEvents \in Nat /\ MaxFlushes \in Nat
    /\ {Finalizes, Spurious, OpenFails, Stops, Crashes} \subseteq BOOLEAN

VARIABLES
    named,        \* spill_file_ is not empty
    ready,        \* BufferManager::ready
    gone,         \* service_gone_
    slots,        \* slots_
    state,        \* ServiceSlot::state, per slot; "none" before it exists
    slots_mtx,    \* holder of slots_mtx_ between steps
    orphan_mtx,   \* holder of orphan_mtx_
    spill_mtx,    \* holder of spill_mtx_
    spill,        \* spill_ready_, spill_failed_ and the ready flag of spill_
    lock_fd,      \* spill_lock_fd_ >= 0
    writable,     \* the spill writer has an open file (fh_)
    pc,           \* per thread
    goal,         \* per thread: what the call in progress is for
    exited,       \* tl_exited
    nev,          \* per thread: log calls so far
    backoff,      \* per thread: spill_until_ns is set
    flushes,      \* calls of flush() so far
    todo,         \* flush_all: slots still to visit
    cursor,       \* flush_all: the slot in hand
    path,         \* the spill file's name: none, file or unlinked
    flock,        \* holder of the file lock: none, process or service
    block,        \* per slot: events of the block its producer holds
    published,    \* events in published blocks
    spillbuf,     \* events the spill manager buffers
    spillfile,    \* events in complete members of the spill file
    svc,          \* where the service is
    traced,       \* events in the node trace
    dropped,      \* events counted by count_drop()
    before,       \* history: events whose log call returned before finalize()
    gaveup,       \* history: slots finalize()'s flush_all ran out of time for
    finalized     \* history: finalize() has returned

process == <<named, ready, gone, slots, state, slots_mtx, orphan_mtx, spill_mtx,
             spill, lock_fd, writable>>
thread  == <<pc, goal, exited, nev, backoff, flushes, todo, cursor>>
events  == <<block, published, spillbuf, spillfile, traced, dropped>>
history == <<before, gaveup, finalized>>
vars    == <<process, thread, path, flock, svc, events, history>>

Slots  == Threads \cup {Orphan}
Events == Threads \X (1 .. MaxEvents)

\* The event of t's log call, and the slot its calls use.
Event(t)  == <<t, nev[t]>>
MySlot(t) == IF exited[t] THEN Orphan ELSE t

Init ==
    /\ named \in BOOLEAN
    /\ ready = TRUE /\ gone = FALSE
    /\ slots = {} /\ state = [s \in Slots |-> "none"]
    /\ slots_mtx = NoOne /\ orphan_mtx = NoOne /\ spill_mtx = NoOne
    /\ spill = "none" /\ lock_fd = FALSE /\ writable = FALSE
    /\ pc = [t \in Threads |-> "out"] /\ goal = [t \in Threads |-> "event"]
    /\ exited = [t \in Threads |-> FALSE] /\ nev = [t \in Threads |-> 0]
    /\ backoff = [t \in Threads |-> FALSE] /\ flushes = 0
    /\ todo = {} /\ cursor = Orphan
    /\ path = "none" /\ flock = "none" /\ svc = "ACCEPTING"
    /\ block = [s \in Slots |-> {}] /\ published = {}
    /\ spillbuf = {} /\ spillfile = {}
    /\ traced = {} /\ dropped = {}
    /\ before = {} /\ gaveup = {} /\ finalized = FALSE

\* A step of thread t from a to b.
At(t, a, b) == pc[t] = a /\ pc' = [pc EXCEPT ![t] = b]

----------------------------------------------------------------------------
(* Log calls *)

\* log_*: rejected outside [initialize, finalize)
Log(t) ==
    /\ nev[t] < MaxEvents
    /\ nev' = [nev EXCEPT ![t] = @ + 1]
    /\ goal' = [goal EXCEPT ![t] = "event"]
    /\ At(t, "out", IF ready THEN "alive" ELSE "out")
    /\ UNCHANGED <<process, exited, backoff, flushes, todo, cursor, path, flock, svc,
                   events, history>>

\* Where emit() goes when it returns false, and emit_control() when it returns.
NotPushed(t) == IF goal[t] = "event" THEN "spill" ELSE "fin_ready"

\* Where acquire_slot() begins.
Acquire(t) == IF exited[t] THEN "orphan_lock"
              ELSE IF state[t] = "none" THEN "register" ELSE "cas"

\* service_alive: known to be gone, or found so by this call's check
ServiceGone(t) ==
    /\ gone \/ svc # "ACCEPTING"
    /\ At(t, "alive", NotPushed(t))
    /\ gone' = TRUE
    /\ UNCHANGED <<named, ready, slots, state, slots_mtx, orphan_mtx, spill_mtx, spill, lock_fd,
                   writable, goal, exited, nev, backoff, flushes, todo, cursor, path, flock,
                   svc, events, history>>

\* service_alive: true, by a check or because the last one is recent enough.
\* emit() then skips the ring while this thread is backing off from a full one.
ServiceAlive(t) ==
    /\ ~gone
    /\ \/ /\ goal[t] = "event" /\ backoff[t]
          /\ At(t, "alive", "spill")
          /\ UNCHANGED backoff
       \/ /\ At(t, "alive", Acquire(t))
          /\ backoff' = IF goal[t] = "event" THEN [backoff EXCEPT ![t] = FALSE] ELSE backoff
    /\ UNCHANGED <<process, goal, exited, nev, flushes, todo, cursor, path, flock, svc,
                   events, history>>

\* acquire_slot: the thread's own slot is gone, lock the shared one
OrphanLock(t) ==
    /\ orphan_mtx = NoOne
    /\ At(t, "orphan_lock", IF state[Orphan] = "none" THEN "register" ELSE "cas")
    /\ orphan_mtx' = t
    /\ UNCHANGED <<named, ready, gone, slots, state, slots_mtx, spill_mtx, spill, lock_fd, writable,
                   goal, exited, nev, backoff, flushes, todo, cursor, path, flock, svc,
                   events, history>>

\* create_slot: under slots_mtx_
Register(t) ==
    /\ slots_mtx = NoOne
    /\ At(t, "register", "cas")
    /\ slots' = slots \cup {MySlot(t)}
    /\ state' = [state EXCEPT ![MySlot(t)] = "IDLE"]
    /\ UNCHANGED <<named, ready, gone, slots_mtx, orphan_mtx, spill_mtx, spill, lock_fd, writable,
                   goal, exited, nev, backoff, flushes, todo, cursor, path, flock, svc,
                   events, history>>

\* Mutant: acquire_slot takes the slot without looking at its state.
AcquireStore(t) ==
    /\ At(t, "cas", "push")
    /\ state' = [state EXCEPT ![MySlot(t)] = "BUSY"]
    /\ UNCHANGED <<named, ready, gone, slots, slots_mtx, orphan_mtx, spill_mtx, spill, lock_fd,
                   writable, goal, exited, nev, backoff, flushes, todo, cursor, path, flock,
                   svc, events, history>>

\* acquire_slot: IDLE -> BUSY, retried until it succeeds
AcquireCas(t) ==
    /\ state[MySlot(t)] = "IDLE"
    /\ At(t, "cas", "push")
    /\ state' = [state EXCEPT ![MySlot(t)] = "BUSY"]
    /\ UNCHANGED <<named, ready, gone, slots, slots_mtx, orphan_mtx, spill_mtx, spill, lock_fd,
                   writable, goal, exited, nev, backoff, flushes, todo, cursor, path, flock,
                   svc, events, history>>

\* push: the record goes into the block in hand, or into a new one after the
\* old one was published; control records are no events
PushOK(t) ==
    LET s == MySlot(t)
        e == IF goal[t] = "event" THEN {Event(t)} ELSE {}
    IN  /\ At(t, "push", "release")
        /\ \/ block' = [block EXCEPT ![s] = @ \cup e] /\ UNCHANGED published
           \/ block' = [block EXCEPT ![s] = e] /\ published' = published \cup block[s]
        /\ UNCHANGED <<process, goal, exited, nev, backoff, flushes, todo, cursor, path,
                       flock, svc, spillbuf, spillfile, traced, dropped, history>>

\* push: FULL, after try_reserve published the block, or TOO_LARGE
PushFails(t) ==
    LET s == MySlot(t)
    IN  /\ At(t, "push", "release_fail")
        /\ \/ block' = [block EXCEPT ![s] = {}] /\ published' = published \cup block[s]
           \/ UNCHANGED <<block, published>>
        /\ UNCHANGED <<process, goal, exited, nev, backoff, flushes, todo, cursor, path,
                       flock, svc, spillbuf, spillfile, traced, dropped, history>>

\* Mutant: release_slot leaves the orphan mutex locked.
ReleaseKeepsOrphan(t) ==
    /\ \/ /\ At(t, "release", IF goal[t] = "event" THEN "out" ELSE "fin_ready")
          /\ UNCHANGED backoff
       \/ /\ At(t, "release_fail", NotPushed(t))
          /\ backoff' = IF goal[t] = "event" THEN [backoff EXCEPT ![t] = TRUE] ELSE backoff
    /\ state' = [state EXCEPT ![MySlot(t)] = "IDLE"]
    /\ UNCHANGED <<named, ready, gone, slots, slots_mtx, orphan_mtx, spill_mtx, spill, lock_fd,
                   writable, goal, exited, nev, flushes, todo, cursor, path, flock, svc,
                   events, history>>

\* release_slot, and the end of emit() or emit_control()
Release(t) ==
    /\ \/ /\ At(t, "release", IF goal[t] = "event" THEN "out" ELSE "fin_ready")
          /\ UNCHANGED backoff
       \/ /\ At(t, "release_fail", NotPushed(t))
          /\ backoff' = IF goal[t] = "event" THEN [backoff EXCEPT ![t] = TRUE] ELSE backoff
    /\ state' = [state EXCEPT ![MySlot(t)] = "IDLE"]
    /\ orphan_mtx' = IF exited[t] THEN NoOne ELSE orphan_mtx
    /\ UNCHANGED <<named, ready, gone, slots, slots_mtx, spill_mtx, spill, lock_fd, writable, goal,
                   exited, nev, flushes, todo, cursor, path, flock, svc, events, history>>

----------------------------------------------------------------------------
(* Spilling *)

\* spill_manager: is there one already?  spill_ready_ stays set after finalize.
SpillGet(t) ==
    /\ At(t, "spill", IF spill = "none" THEN "spill_lock" ELSE "spill_log")
    /\ UNCHANGED <<process, goal, exited, nev, backoff, flushes, todo, cursor, path, flock,
                   svc, events, history>>

\* spill_manager: lock, look again, and create one; without a file name the
\* event is dropped and counted
SpillLock(t) ==
    /\ spill_mtx = NoOne
    /\ \/ /\ spill = "none" /\ named
          /\ At(t, "spill_lock", "spill_init")
          /\ spill_mtx' = t
          /\ UNCHANGED dropped
       \/ /\ spill = "none" /\ ~named
          /\ At(t, "spill_lock", "out")
          /\ dropped' = dropped \cup {Event(t)}
          /\ UNCHANGED spill_mtx
       \/ /\ spill # "none"
          /\ At(t, "spill_lock", "spill_log")
          /\ UNCHANGED <<spill_mtx, dropped>>
    /\ UNCHANGED <<named, ready, gone, slots, state, slots_mtx, orphan_mtx, spill, lock_fd,
                   writable, goal, exited, nev, backoff, flushes, todo, cursor, path, flock,
                   svc, block, published, spillbuf, spillfile, traced, history>>

\* spill_manager: LocalBufferManager::initialize opens (and creates) the file.
\* It returns 0 even if that fails, so spill_failed_ is never set.
SpillInit(t) ==
    /\ At(t, "spill_init", "spill_open")
    /\ \/ path' = "file" /\ writable' = TRUE
       \/ OpenFails /\ UNCHANGED <<path, writable>>
    /\ UNCHANGED <<named, ready, gone, slots, state, slots_mtx, orphan_mtx, spill_mtx, spill,
                   lock_fd, goal, exited, nev, backoff, flushes, todo, cursor, flock, svc,
                   events, history>>

\* spill_manager: open the file by its name, for the lock
SpillOpen(t) ==
    /\ At(t, "spill_open", "spill_flock")
    /\ lock_fd' = (path = "file")
    /\ UNCHANGED <<named, ready, gone, slots, state, slots_mtx, orphan_mtx, spill_mtx, spill,
                   writable, goal, exited, nev, backoff, flushes, todo, cursor, path, flock,
                   svc, events, history>>

\* spill_manager: wait for the lock, publish the manager
SpillFlock(t) ==
    /\ IF lock_fd THEN flock = "none" /\ flock' = "process" ELSE UNCHANGED flock
    /\ At(t, "spill_flock", "spill_log")
    /\ spill' = "ready"
    /\ spill_mtx' = NoOne
    /\ UNCHANGED <<named, ready, gone, slots, state, slots_mtx, orphan_mtx, lock_fd, writable, goal,
                   exited, nev, backoff, flushes, todo, cursor, path, svc, events, history>>

\* The spill manager writes es out as members of its file, if it has one.
WriteOut(es) ==
    /\ spillbuf' = {}
    /\ spillfile' = IF writable THEN spillfile \cup es ELSE spillfile

\* spill: the manager buffers the event, and writes if the buffer is full; one
\* that was finalized meanwhile discards it
SpillLog(t) ==
    /\ At(t, "spill_log", "out")
    /\ \/ /\ spill = "ready"
          /\ spillbuf' = spillbuf \cup {Event(t)}
          /\ UNCHANGED spillfile
       \/ spill = "ready" /\ WriteOut(spillbuf \cup {Event(t)})
       \/ spill = "finalized" /\ UNCHANGED <<spillbuf, spillfile>>
    /\ UNCHANGED <<process, goal, exited, nev, backoff, flushes, todo, cursor, path, flock,
                   svc, block, published, traced, dropped, history>>

----------------------------------------------------------------------------
(* Thread exit, flush and finalize *)

\* ~ThreadRef
Exit(t) ==
    /\ ~exited[t]
    /\ At(t, "out", IF state[t] = "none" THEN "out" ELSE "exit_cas")
    /\ exited' = [exited EXCEPT ![t] = TRUE]
    /\ goal' = [goal EXCEPT ![t] = "exit"]
    /\ UNCHANGED <<process, nev, backoff, flushes, todo, cursor, path, flock, svc,
                   events, history>>

ExitCas(t) ==
    /\ state[t] = "IDLE"
    /\ At(t, "exit_cas", "exit_flush")
    /\ state' = [state EXCEPT ![t] = "BUSY"]
    /\ UNCHANGED <<named, ready, gone, slots, slots_mtx, orphan_mtx, spill_mtx, spill, lock_fd,
                   writable, goal, exited, nev, backoff, flushes, todo, cursor, path, flock,
                   svc, events, history>>

\* Mutant: the slot of an exiting thread is retired with its block unpublished.
ExitUnflushed(t) ==
    /\ At(t, "exit_flush", "exit_erase")
    /\ state' = [state EXCEPT ![t] = "DEAD"]
    /\ UNCHANGED <<named, ready, gone, slots, slots_mtx, orphan_mtx, spill_mtx, spill, lock_fd,
                   writable, goal, exited, nev, backoff, flushes, todo, cursor, path, flock,
                   svc, events, history>>

\* ~ThreadRef: publish the block, retire the slot
ExitFlush(t) ==
    /\ At(t, "exit_flush", "exit_erase")
    /\ published' = published \cup block[t]
    /\ block' = [block EXCEPT ![t] = {}]
    /\ state' = [state EXCEPT ![t] = "DEAD"]
    /\ UNCHANGED <<named, ready, gone, slots, slots_mtx, orphan_mtx, spill_mtx, spill, lock_fd,
                   writable, goal, exited, nev, backoff, flushes, todo, cursor, path, flock,
                   svc, spillbuf, spillfile, traced, dropped, history>>

ExitErase(t) ==
    /\ slots_mtx = NoOne
    /\ At(t, "exit_erase", "out")
    /\ slots' = slots \ {t}
    /\ UNCHANGED <<named, ready, gone, state, slots_mtx, orphan_mtx, spill_mtx, spill, lock_fd,
                   writable, goal, exited, nev, backoff, flushes, todo, cursor, path, flock,
                   svc, events, history>>

\* flush(): before exec()
Flush(t) ==
    /\ ready /\ flushes < MaxFlushes
    /\ At(t, "out", "flush_lock")
    /\ goal' = [goal EXCEPT ![t] = "flush"]
    /\ flushes' = flushes + 1
    /\ UNCHANGED <<process, exited, nev, backoff, todo, cursor, path, flock, svc, events,
                   history>>

\* A log call of t is under way.
InCall(t) == pc[t] # "out" /\ goal[t] = "event"

\* finalize(): GOODBYE first, as any control record
Finalize(t) ==
    /\ Finalizes /\ t = Main
    /\ ready
    /\ At(t, "out", "alive")
    /\ goal' = [goal EXCEPT ![t] = "bye"]
    /\ before' = {e \in Events : /\ e[2] <= nev[e[1]]
                                 /\ ~(e = Event(e[1]) /\ InCall(e[1]))}
    /\ UNCHANGED <<process, exited, nev, backoff, flushes, todo, cursor, path, flock, svc,
                   events, gaveup, finalized>>

\* finalize: stop accepting
FinReady(t) ==
    /\ At(t, "fin_ready", "flush_lock")
    /\ ready' = FALSE
    /\ UNCHANGED <<named, gone, slots, state, slots_mtx, orphan_mtx, spill_mtx, spill, lock_fd,
                   writable, goal, exited, nev, backoff, flushes, todo, cursor, path, flock,
                   svc, events, history>>

\* flush_all: lock slots_mtx_ for the whole walk
FlushLock(t) ==
    /\ slots_mtx = NoOne
    /\ At(t, "flush_lock", "flush_slot")
    /\ slots_mtx' = t
    /\ todo' = slots
    /\ UNCHANGED <<named, ready, gone, slots, state, orphan_mtx, spill_mtx, spill, lock_fd, writable,
                   goal, exited, nev, backoff, flushes, cursor, path, flock, svc, events,
                   history>>

\* flush_all: IDLE -> BUSY on the next slot
FlushCas(t, s) ==
    /\ s \in todo /\ state[s] = "IDLE"
    /\ At(t, "flush_slot", "flush_publish")
    /\ state' = [state EXCEPT ![s] = "BUSY"]
    /\ cursor' = s
    /\ UNCHANGED <<named, ready, gone, slots, slots_mtx, orphan_mtx, spill_mtx, spill, lock_fd,
                   writable, goal, exited, nev, backoff, flushes, todo, path, flock, svc,
                   events, history>>

\* flush_all: the CAS fails spuriously once the deadline has passed; the loop
\* breaks with the IDLE it expected, which reads as success
FlushSpurious(t, s) ==
    /\ Spurious
    /\ s \in todo /\ state[s] = "IDLE"
    /\ At(t, "flush_slot", "flush_publish")
    /\ cursor' = s
    /\ UNCHANGED <<process, goal, exited, nev, backoff, flushes, todo, path, flock, svc,
                   events, history>>

\* flush_all: the slot is DEAD, or BUSY and the deadline has passed
FlushSkip(t, s) ==
    /\ s \in todo /\ state[s] \in {"BUSY", "DEAD"}
    /\ At(t, "flush_slot", "flush_slot")
    /\ todo' = todo \ {s}
    /\ gaveup' = IF state[s] = "BUSY" /\ goal[t] = "bye" THEN gaveup \cup {s} ELSE gaveup
    /\ UNCHANGED <<process, goal, exited, nev, backoff, flushes, cursor, path, flock, svc,
                   events, before, finalized>>

\* flush_all: publish, and give the slot back
FlushPublish(t) ==
    /\ At(t, "flush_publish", "flush_slot")
    /\ published' = published \cup block[cursor]
    /\ block' = [block EXCEPT ![cursor] = {}]
    /\ state' = [state EXCEPT ![cursor] = "IDLE"]
    /\ todo' = todo \ {cursor}
    /\ UNCHANGED <<named, ready, gone, slots, slots_mtx, orphan_mtx, spill_mtx, spill, lock_fd,
                   writable, goal, exited, nev, backoff, flushes, cursor, path, flock, svc,
                   spillbuf, spillfile, traced, dropped, history>>

FlushDone(t) ==
    /\ todo = {}
    /\ At(t, "flush_slot", IF goal[t] = "flush" THEN "flush_spill" ELSE "fin_spill")
    /\ slots_mtx' = NoOne
    /\ UNCHANGED <<named, ready, gone, slots, state, orphan_mtx, spill_mtx, spill, lock_fd, writable,
                   goal, exited, nev, backoff, flushes, todo, cursor, path, flock, svc,
                   events, history>>

\* flush: what the spill manager buffers
FlushSpill(t) ==
    /\ At(t, "flush_spill", "out")
    /\ IF spill = "ready" THEN WriteOut(spillbuf) ELSE UNCHANGED <<spillbuf, spillfile>>
    /\ UNCHANGED <<process, goal, exited, nev, backoff, flushes, todo, cursor, path, flock,
                   svc, block, published, traced, dropped, history>>

\* finalize: finish the spill file (the writer deletes an empty one), then let
\* go of its lock
FinSpill(t) ==
    /\ At(t, "fin_spill", "out")
    /\ finalized' = TRUE
    /\ IF spill = "ready"
       THEN /\ WriteOut(spillbuf)
            /\ spill' = "finalized"
            /\ path' = IF writable /\ spillfile \cup spillbuf = {} THEN "none" ELSE path
            /\ writable' = FALSE
            /\ lock_fd' = FALSE
            /\ flock' = IF lock_fd THEN "none" ELSE flock
       ELSE UNCHANGED <<spill, spillbuf, spillfile, path, writable, lock_fd, flock>>
    /\ UNCHANGED <<named, ready, gone, slots, state, slots_mtx, orphan_mtx, spill_mtx, goal, exited,
                   nev, backoff, flushes, todo, cursor, svc, block, published, traced,
                   dropped, before, gaveup>>

----------------------------------------------------------------------------
(* The service: RingSink as far as this process can tell *)

\* claim() and process_block(): everything published so far
Drain ==
    /\ svc \in {"ACCEPTING", "DRAINING"} /\ published # {}
    /\ traced' = traced \cup published
    /\ published' = {}
    /\ UNCHANGED <<process, thread, path, flock, svc, block, spillbuf, spillfile, dropped, history>>

\* take_over(): the block an idle producer holds
TakeOver(s) ==
    /\ svc \in {"ACCEPTING", "DRAINING", "TAKING"} /\ block[s] # {}
    /\ traced' = traced \cup block[s]
    /\ block' = [block EXCEPT ![s] = {}]
    /\ UNCHANGED <<process, thread, path, flock, svc, published, spillbuf, spillfile, dropped, history>>

\* stop(): DRAINING, claim until nothing is published, take over until nothing
\* is held, then the spill file; append_spill_files skips a file that is locked
StopStep ==
    /\ \/ Stops /\ svc = "ACCEPTING" /\ svc' = "DRAINING" /\ UNCHANGED flock
       \/ svc = "DRAINING" /\ published = {} /\ svc' = "TAKING" /\ UNCHANGED flock
       \/ /\ svc = "TAKING" /\ \A s \in Slots : block[s] = {}
          /\ svc' = "SPILLS" /\ UNCHANGED flock
       \/ /\ svc = "SPILLS"
          /\ IF path = "file" /\ flock = "none"
             THEN svc' = "APPEND" /\ flock' = "service"
             ELSE svc' = "CLOSE" /\ UNCHANGED flock
    /\ UNCHANGED <<process, thread, path, events, history>>

\* append_members: the complete members, into the node trace
Append ==
    /\ svc = "APPEND" /\ svc' = "UNLINK"
    /\ traced' = traced \cup spillfile
    /\ UNCHANGED <<process, thread, path, flock, block, published, spillbuf, spillfile,
                   dropped, history>>

\* Mutant: the lock outlives the append.
UnlinkKeepsLock ==
    /\ svc = "UNLINK" /\ svc' = "CLOSE"
    /\ path' = "unlinked"
    /\ UNCHANGED <<flock, process, thread, events, history>>

\* unlink, close
Unlink ==
    /\ svc = "UNLINK" /\ svc' = "CLOSE"
    /\ path' = "unlinked" /\ flock' = "none"
    /\ UNCHANGED <<process, thread, events, history>>

\* stop(): CLOSED
Close ==
    /\ svc = "CLOSE" /\ svc' = "CLOSED"
    /\ UNCHANGED <<process, thread, path, flock, events, history>>

\* The service is killed; the kernel lets go of its locks.
Crash ==
    /\ Crashes /\ svc \notin {"CLOSED", "KILLED"} /\ svc' = "KILLED"
    /\ flock' = IF flock = "service" THEN "none" ELSE flock
    /\ UNCHANGED <<process, thread, path, events, history>>

----------------------------------------------------------------------------

CallStep(t) ==
    \/ ServiceGone(t) \/ ServiceAlive(t) \/ OrphanLock(t) \/ Register(t) \/ AcquireCas(t)
    \/ PushOK(t) \/ PushFails(t) \/ Release(t)
    \/ SpillGet(t) \/ SpillLock(t) \/ SpillInit(t) \/ SpillOpen(t) \/ SpillFlock(t) \/ SpillLog(t)
    \/ ExitCas(t) \/ ExitFlush(t) \/ ExitErase(t)
    \/ FinReady(t) \/ FlushLock(t) \/ FlushPublish(t) \/ FlushDone(t) \/ FlushSpill(t) \/ FinSpill(t)
    \/ \E s \in Slots : FlushCas(t, s) \/ FlushSpurious(t, s) \/ FlushSkip(t, s)

ServiceStep ==
    Drain \/ (\E s \in Slots : TakeOver(s)) \/ StopStep \/ Append \/ Unlink \/ Close

Next ==
    \/ \E t \in Threads : Log(t) \/ Exit(t) \/ Flush(t) \/ Finalize(t) \/ CallStep(t)
    \/ ServiceStep
    \/ Crash

Spec == Init /\ [][Next]_vars

(***************************************************************************)
(* Threads run; the service finishes what it began.  Nothing makes the     *)
(* application log, exit or finalize, or the service stop.                 *)
(***************************************************************************)
FairSpec ==
    /\ Spec
    /\ \A t \in Threads : WF_vars(CallStep(t))
    /\ WF_vars(Append) /\ WF_vars(Unlink)

----------------------------------------------------------------------------
(* Properties *)

Points ==
    {"out", "alive", "orphan_lock", "register", "cas", "push", "release", "release_fail",
     "spill", "spill_lock", "spill_init", "spill_open", "spill_flock", "spill_log",
     "exit_cas", "exit_flush", "exit_erase", "fin_ready", "flush_lock", "flush_slot",
     "flush_publish", "flush_spill", "fin_spill"}

\* A mutex is held by exactly the thread that is inside its section.
LocksHeld ==
    \A t \in Threads :
        /\ slots_mtx = t <=> pc[t] \in {"flush_slot", "flush_publish"}
        /\ spill_mtx = t <=> pc[t] \in {"spill_init", "spill_open", "spill_flock"}
        /\ orphan_mtx = t <=>
              exited[t] /\ pc[t] \in {"register", "cas", "push", "release", "release_fail"}

\* Every word of the manager, every local and every set of events is in range,
\* and the mutexes are held by the threads in their sections.
TypeOK ==
    /\ LocksHeld
    /\ {named, ready, gone, lock_fd, writable, finalized} \subseteq BOOLEAN
    /\ slots \subseteq Slots /\ todo \subseteq Slots /\ cursor \in Slots
    /\ state \in [Slots -> {"none", "IDLE", "BUSY", "DEAD"}]
    /\ {slots_mtx, orphan_mtx, spill_mtx} \subseteq Threads \cup {NoOne}
    /\ spill \in {"none", "ready", "finalized"}
    /\ pc \in [Threads -> Points]
    /\ goal \in [Threads -> {"event", "flush", "bye", "exit"}]
    /\ exited \in [Threads -> BOOLEAN] /\ backoff \in [Threads -> BOOLEAN]
    /\ nev \in [Threads -> 0 .. MaxEvents] /\ flushes \in 0 .. MaxFlushes
    /\ path \in {"none", "file", "unlinked"} /\ flock \in {"none", "process", "service"}
    /\ svc \in {"ACCEPTING", "DRAINING", "TAKING", "SPILLS", "APPEND", "UNLINK", "CLOSE",
                "CLOSED", "KILLED"}
    /\ block \in [Slots -> SUBSET Events]
    /\ published \cup spillbuf \cup spillfile \cup traced \cup dropped
          \cup before \subseteq Events
    /\ gaveup \subseteq Slots

\* Thread t is inside the RingProducer of slot s.
Uses(t, s) ==
    \/ pc[t] = "push" /\ s = MySlot(t)
    \/ pc[t] = "exit_flush" /\ s = t
    \/ pc[t] = "flush_publish" /\ s = cursor

\* A RingProducer is not thread-safe: the slot's state word lets "finalize()
\* publish a quiet thread's block without racing it", and an exiting thread too.
OneUser == \A s \in Slots, t, u \in Threads : Uses(t, s) /\ Uses(u, s) => t = u

\* "Nothing logged before it may be left in a block only the service's
\* take-over would find": once finalize() has returned, an event whose log call
\* returned before finalize() was called is published, traced or spilled to a
\* complete member, unless finalize()'s flush_all ran out of time for its slot.
FlushedAtFinalize ==
    finalized => \A e \in before :
        \/ e \in published \cup traced \cup spillfile \cup dropped
        \/ \E s \in gaveup : e \in block[s]

\* "The service appends a spill file to the node trace only once it can take
\* this lock, so never one this process is still writing."
NotDeletedWhileWritten == spill = "ready" => path # "unlinked"

\* Every call returns: the slot words, the three mutexes and the file lock
\* never leave threads waiting for one another.
CallsReturn == \A t \in Threads : []<>(pc[t] = "out")

=============================================================================
