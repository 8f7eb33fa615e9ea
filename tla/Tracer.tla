-------------------------------- MODULE Tracer ---------------------------------
(***************************************************************************)
(* The tracer inside an application: DFTracerCore and DFTLogger            *)
(* (common/dftracer_main.cpp, df_logger.h), the LocalBufferManager they    *)
(* log into (buffer/local_buffer_manager.cpp), its aggregator and its      *)
(* writer, over the life of a process: initialization, calls logged by     *)
(* threads that do not wait for it, fork, exec, finalization, and the      *)
(* calls that still come after it.                                         *)
(*                                                                         *)
(* After a fork the two processes share nothing, so the model follows one: *)
(* either no Fork is taken and it is the parent, or it becomes the child,  *)
(* which has a copy of the memory and only the thread that forked.  The    *)
(* buffer manager's mutex and the lock of the hash cache, map_mtx, are     *)
(* part of that memory: a copy taken while another thread held one stays   *)
(* locked.                                                                 *)
(*                                                                         *)
(* One file name is traced; hash stands for its entry in computed_hash,    *)
(* tracked for descriptors that were opened on it, whose slots point to    *)
(* the same string.  Metadata is always on (configuration_manager.h:45).   *)
(* An event is its caller, the number of the call and whether it carries   *)
(* the hash; a row of aggregates is the events in it.  Sizes are left      *)
(* out: any record may be the one that fills the buffer.  What the main    *)
(* thread does under the mutex is one action with the locking of it.       *)
(***************************************************************************)
EXTENDS Naturals, FiniteSets, Bags

CONSTANTS
    Threads,      \* application threads
    Main,         \* the one that initializes, forks, executes and finalizes
    Foreign,      \* one that calls the logger directly (a GPU runtime's flush thread)
    NoOne,
    TraceAll,     \* conf->trace_all_files
    Aggregation,  \* conf->aggregation_enable
    KeepFrom,     \* 5: a trace with a lower index is deleted
    MaxCalls,     \* bound: calls of each thread
    MaxInterval,  \* bound: trace intervals
    MaxForks      \* bound: forks in a line of descent

ASSUME TracerConstants ==
    /\ Main \in Threads /\ Foreign \in Threads \ {Main}
    /\ NoOne \notin Threads /\ Threads \cap {"name", "start", "end"} = {}
    /\ TraceAll \in BOOLEAN /\ Aggregation \in BOOLEAN
    /\ {KeepFrom, MaxInterval, MaxForks} \subseteq Nat /\ MaxCalls \in [Threads -> Nat]

Intervals == 1 .. MaxInterval
Name == <<"name", 0, FALSE>>             \* the record that names the hash
StartEvent(n) == <<"start", n, FALSE>>   \* of the n-th process
EndEvent(n) == <<"end", n, FALSE>>
Events == Threads \X Nat \X BOOLEAN
Records == Events \cup ({"name", "start", "end"} \X (0 .. MaxForks) \X {FALSE})

VARIABLES
    mem,    \* the memory of the process, and its trace file
    pc,     \* per thread: next step of the call it is in
    cur,    \* per thread: the event of that call
    ret,    \* per thread: what comes after that call: nothing, the tracking
            \* of what it opened, the flush of exec
    late,   \* per thread: did the call begin after finalize
    calls,  \* per thread: calls made
    crash   \* the thread that dereferenced a null pointer or a freed string

vars == <<mem, pc, cur, ret, late, calls, crash>>

\* The logger exists and has its buffer manager; nothing is initialized.
Init ==
    /\ mem = [
         live |-> TRUE, forks |-> 0, init |-> FALSE, active |-> TRUE,  \* is_initialized, is_init
         bound |-> FALSE, bind |-> TRUE, stop |-> FALSE, trie |-> TRUE,
         bm |-> TRUE, ready |-> FALSE, buf |-> FALSE,     \* pointers: are they set
         items |-> {}, mtx |-> NoOne, hash |-> FALSE, tracked |-> FALSE,
         map |-> {},                 \* holders of map_mtx
         freed |-> {},               \* threads whose hash string was freed
         index |-> 0, atfini |-> 0,
         agg |-> {}, last |-> 0, first |-> TRUE,          \* the aggregator
         file |-> EmptyBag, state |-> "none",             \* the trace file
         accepted |-> {}, counted |-> 0, due |-> {},      \* history: see the properties
         inherited |-> {}, known |-> FALSE, unnamed |-> FALSE, jammed |-> FALSE]
    /\ pc = [t \in Threads |-> IF t = Main THEN "boot" ELSE "idle"]
    /\ cur = [t \in Threads |-> <<t, 0, FALSE>>]
    /\ ret = [t \in Threads |-> "idle"]
    /\ late = [t \in Threads |-> FALSE]
    /\ calls = [t \in Threads |-> 0]
    /\ crash = NoOne

At(t, step) == pc[t] = step /\ mem.live /\ crash = NoOne
Goto(t, step) == pc' = [pc EXCEPT ![t] = step]
Crashes(t) == crash' = t /\ UNCHANGED <<mem, pc>>
Rest == UNCHANGED <<cur, ret, late, calls>>

----------------------------------------------------------------------------
(* The buffer, the writer and the aggregator, as operators on the memory r. *)

CompressAndWrite(r) == [r EXCEPT !.file = @ (+) SetToBag(r.items), !.items = {}]

\* A record fits, or is the one that makes the buffer full.
Append(r, new) ==
    LET s == [r EXCEPT !.items = @ \cup new]
    IN  {s} \cup (IF new = {} THEN {} ELSE {CompressAndWrite(s)})

\* Rows of the intervals before the last one, or of all.
Rows(r, all) == {x \in r.agg : all \/ x[2] < r.last}
Folded(rows) == {x[1] : x \in rows}

\* aggregate() folds the event into the bucket of its interval, and the first
\* event of a new interval moves the earlier ones out.
Aggregate(r, e, i) ==
    LET s == [r EXCEPT !.agg = @ \cup {<<e, i>>}, !.first = FALSE,
                       !.last = IF i > @ THEN i ELSE @]
        out == IF ~r.first /\ i > r.last THEN Rows(s, FALSE) ELSE {}
    IN  <<[s EXCEPT !.agg = @ \ out], out>>

\* flush() and finalize(): the aggregates of all intervals and the buffer.
WriteOut(r) ==
    CompressAndWrite([r EXCEPT !.items = @ \cup Folded(Rows(r, TRUE)), !.agg = {}])

----------------------------------------------------------------------------
(* A traced call: the name of its file, then its event.                    *)

Begin(t, step, hashed, after) ==
    /\ At(t, "idle") /\ calls[t] < MaxCalls[t]
    /\ Goto(t, step)
    /\ cur' = [cur EXCEPT ![t] = <<t, calls[t] + 1, hashed>>]
    /\ ret' = [ret EXCEPT ![t] = after]
    /\ late' = [late EXCEPT ![t] = ~mem.active]
    /\ calls' = [calls EXCEPT ![t] = @ + 1]
    /\ UNCHANGED <<mem, crash>>

\* The calls that reach the logger with no file: of the API while tracing is
\* on, and what the threads of a GPU runtime log whenever they flush.
Call(t) ==
    /\ mem.init \/ t = Foreign
    /\ Begin(t, "log", FALSE, "idle")

Wrapped == mem.bound /\ ~mem.stop

\* A wrapper of a call on a path that is traced; it tracks what it opens.
PathCall(t) ==
    /\ Wrapped /\ (TraceAll \/ mem.trie)
    /\ Begin(t, "hash", TRUE, "track")

\* A wrapper of a call on a tracked descriptor or stream.
FileCall(t) ==
    /\ Wrapped /\ mem.tracked
    /\ Begin(t, "read", TRUE, "idle")

\* openat, linkat, the AtRef wrappers, freopen: a call on a tracked descriptor
\* or stream that also names a path, traced or not.
AtCall(t) ==
    /\ Wrapped /\ mem.tracked
    /\ Begin(t, "read_dir", TRUE, "idle")

\* getcwd hashes the path it returns, while the logger is active.
Getcwd(t) ==
    /\ mem.bound /\ mem.active
    /\ Begin(t, "hash", TRUE, "idle")

\* exec, also of a path, records its call and flushes before the real call.
Exec ==
    /\ mem.bound /\ mem.init
    /\ Begin(Main, "hash", TRUE, "flush")

\* DFT_LOGGER_UPDATE puts a hash into the metadata, which reads the string.  It
\* was freed if clear_hash_cache ran after the thread had got it, or if a late
\* call got it from a descriptor.
ReadHash(t) ==
    /\ At(t, "read_dir") \/ At(t, "read")
    /\ \/ (t \in mem.freed \/ late[t]) /\ Crashes(t)
       \/ /\ Goto(t, IF pc[t] = "read_dir" THEN "hash" ELSE "log")
          /\ mem' = [mem EXCEPT !.freed = @ \ {t}]
          /\ UNCHANGED crash
    /\ Rest

\* has_hash takes map_mtx shared, and lets go of it with what it found.
HasHash(t) ==
    /\ At(t, "hash") /\ mem.map \subseteq {u \in Threads : pc[u] = "find"}
    /\ Goto(t, "find")
    /\ mem' = [mem EXCEPT !.map = @ \cup {t}]
    /\ Rest /\ UNCHANGED crash

Found(t) ==
    /\ At(t, "find")
    /\ Goto(t, IF mem.hash THEN "read" ELSE "insert")
    /\ mem' = [mem EXCEPT !.map = @ \ {t}]
    /\ Rest /\ UNCHANGED crash

\* insert_hash takes map_mtx for itself.
InsertHash(t) ==
    /\ At(t, "insert") /\ mem.map = {}
    /\ Goto(t, "store")
    /\ mem' = [mem EXCEPT !.map = {t}, !.hash = TRUE]
    /\ Rest /\ UNCHANGED crash

\* MUTANT of Inserted: the hash is cached, its name is not logged.
InsertedUnnamed(t) ==
    /\ At(t, "store")
    /\ Goto(t, "read")
    /\ mem' = [mem EXCEPT !.map = {}]
    /\ Rest /\ UNCHANGED crash

Inserted(t) ==
    /\ At(t, "store")
    /\ Goto(t, "name")
    /\ mem' = [mem EXCEPT !.map = {}]
    /\ Rest /\ UNCHANGED crash

\* hash_and_store_str calls log_metadata_event without testing the pointer.
NameHash(t) ==
    /\ At(t, "name")
    /\ \/ ~mem.bm /\ Crashes(t)
       \/ /\ mem.bm
          /\ Goto(t, IF mem.ready THEN "name_lock" ELSE "read")
          /\ mem' = [mem EXCEPT !.unnamed = @ \/ ~mem.ready]
          /\ UNCHANGED crash
    /\ Rest

\* DFTLogger::log: the index counts the call even if it is then refused.
Log(t) ==
    /\ At(t, "log")
    /\ mem' = [mem EXCEPT !.index = @ + 1]
    /\ Goto(t, IF mem.bm THEN "enter" ELSE ret[t])
    /\ Rest /\ UNCHANGED crash

\* The pointer is read again for the call, which then tests ready.
Enter(t) ==
    /\ At(t, "enter")
    /\ \/ ~mem.bm /\ Crashes(t)
       \/ mem.bm /\ Goto(t, IF mem.ready THEN "lock" ELSE ret[t]) /\ UNCHANGED <<mem, crash>>
    /\ Rest

\* MUTANT of Lock: a shared_lock.
LockShared(t) ==
    /\ \/ At(t, "name_lock") /\ Goto(t, "name_write")
       \/ At(t, "lock") /\ Goto(t, "write")
    /\ mem' = [mem EXCEPT !.mtx = t]
    /\ Rest /\ UNCHANGED crash

\* std::unique_lock lock(mtx) of log_metadata_event and of log_data_event.
Lock(t) ==
    /\ \/ At(t, "name_lock") /\ Goto(t, "name_write")
       \/ At(t, "lock") /\ Goto(t, "write")
    /\ mem.mtx = NoOne
    /\ mem' = [mem EXCEPT !.mtx = t]
    /\ Rest /\ UNCHANGED crash

\* A record is serialized at buffer + buffer_pos: finalize may have freed and
\* nulled the buffer while this thread waited for the mutex.
NameWrite(t) ==
    /\ At(t, "name_write")
    /\ \/ ~mem.buf /\ Crashes(t)
       \/ /\ mem.buf
          /\ \E r \in Append(mem, {Name}) : mem' = [r EXCEPT !.mtx = NoOne]
          /\ Goto(t, "read")
          /\ UNCHANGED crash
    /\ Rest

\* MUTANT of Write: the mutex is not released when an event is aggregated.
WriteLeavesLock(t) ==
    /\ At(t, "write") /\ mem.buf
    /\ \E i \in {0} \cup (IF Aggregation THEN Intervals ELSE {}) :
          LET a == IF i = 0 THEN <<mem, {}>> ELSE Aggregate(mem, cur[t], i)
          IN  \E r \in Append(a[1], IF i = 0 THEN {cur[t]} ELSE Folded(a[2])) :
                 mem' = [r EXCEPT !.accepted = @ \cup {cur[t]}, !.mtx = IF i = 0 THEN NoOne ELSE @]
    /\ Goto(t, ret[t])
    /\ Rest /\ UNCHANGED crash

\* log_data_event, traced in full or aggregated, which reads the hash again.
Write(t) ==
    /\ At(t, "write")
    /\ \E i \in {0} \cup (IF Aggregation THEN Intervals ELSE {}) :
          LET a == IF i = 0 THEN <<mem, {}>> ELSE Aggregate(mem, cur[t], i)
              new == IF i = 0 THEN {cur[t]} ELSE Folded(a[2])
          IN  \/ /\ ~mem.buf /\ (new # {} \/ (cur[t][3] /\ ~mem.active))
                 /\ Crashes(t)
              \/ /\ mem.buf \/ new = {}
                 /\ \E r \in Append(a[1], new) : mem' = [r EXCEPT !.mtx = NoOne,
                       !.accepted = IF mem.buf THEN @ \cup {cur[t]} ELSE @]
                 /\ Goto(t, ret[t])
                 /\ UNCHANGED crash
    /\ Rest

\* The wrapper of a call that opened the file tracks the descriptor.
Track(t) ==
    /\ At(t, "track")
    /\ Goto(t, "idle")
    /\ mem' = [mem EXCEPT !.tracked = TRUE]
    /\ Rest /\ UNCHANGED crash

----------------------------------------------------------------------------
(* initialize, in the first process and, by reinitialize, in a child.       *)

\* MUTANT of InitBuffer: a child keeps what the parent had in the buffer.
InitBufferKeeps ==
    /\ At(Main, "boot") /\ mem.map = {}
    /\ mem' = [mem EXCEPT !.buf = TRUE, !.file = EmptyBag, !.state = "open"]
    /\ Goto(Main, "boot_ready")
    /\ Rest /\ UNCHANGED crash

\* The host's name is hashed, under map_mtx; then LocalBufferManager::initialize
\* wires the buffer and the file.
InitBuffer ==
    /\ At(Main, "boot") /\ mem.map = {}
    /\ mem' = [mem EXCEPT !.buf = TRUE, !.items = {}, !.file = EmptyBag, !.state = "open"]
    /\ Goto(Main, "boot_ready")
    /\ Rest /\ UNCHANGED crash

InitReady ==
    /\ At(Main, "boot_ready")
    /\ mem' = [mem EXCEPT !.ready = TRUE, !.index = @ + 1]
    /\ Goto(Main, "start")
    /\ Rest /\ UNCHANGED crash

\* The event "start"; then the wrappers are bound, in the first process.
Started ==
    /\ At(Main, "start") /\ mem.mtx = NoOne
    /\ \E r \in Append(mem, {StartEvent(mem.forks)}) :
          mem' = [r EXCEPT !.accepted = @ \cup {StartEvent(mem.forks)},
                           !.active = TRUE, !.init = TRUE, !.bound = @ \/ mem.bind]
    /\ Goto(Main, "idle")
    /\ Rest /\ UNCHANGED crash

\* The child's reinitialize() starts over with index 0 and bind FALSE; the
\* wrappers stay bound in its copy.
Fork ==
    /\ At(Main, "idle") /\ mem.init /\ mem.forks < MaxForks
    /\ mem' = [mem EXCEPT
          !.forks = @ + 1, !.init = FALSE, !.bind = FALSE, !.index = 0, !.state = "none",
          !.accepted = {}, !.inherited = Folded(mem.agg), !.known = mem.hash,
          !.unnamed = FALSE, !.jammed = mem.mtx # NoOne \/ mem.map # {}]
    /\ pc' = [t \in Threads |-> IF t = Main THEN "boot" ELSE "gone"]
    /\ Rest /\ UNCHANGED crash

\* After finalize the core's singleton is gone: the wrapper, still bound in a
\* child, calls reinitialize() on a null pointer in the child it made.
ForkLate ==
    /\ At(Main, "idle") /\ ~mem.active /\ mem.bound /\ mem.forks < MaxForks
    /\ late' = [late EXCEPT ![Main] = TRUE]
    /\ Crashes(Main)
    /\ UNCHANGED <<cur, ret, calls>>

----------------------------------------------------------------------------
(* exec goes on with flush(), and replaces the image unless it fails.       *)

\* MUTANT of Flush: only the intervals before the last one are written.
FlushPrevious ==
    /\ At(Main, "flush") /\ mem.mtx = NoOne
    /\ mem' = [CompressAndWrite([mem EXCEPT !.items = @ \cup Folded(Rows(mem, FALSE)),
                  !.agg = @ \ Rows(mem, FALSE)]) EXCEPT !.due = mem.accepted]
    /\ Goto(Main, "exec")
    /\ Rest /\ UNCHANGED crash

Flush ==
    /\ At(Main, "flush") /\ mem.mtx = NoOne
    /\ mem' = [WriteOut(mem) EXCEPT !.due = mem.accepted]
    /\ Goto(Main, "exec")
    /\ Rest /\ UNCHANGED crash

RealExec ==
    /\ At(Main, "exec")
    /\ mem' \in {mem, [mem EXCEPT !.live = FALSE, !.state = "replaced"]}
    /\ Goto(Main, "idle")
    /\ Rest /\ UNCHANGED crash

----------------------------------------------------------------------------
(* finalize, step by step, while the other threads go on.                   *)

\* MUTANT of FinalizeTrie: the prefix tree is kept.
FinalizeKeepsTrie ==
    /\ At(Main, "idle") /\ mem.init
    /\ Goto(Main, "unbind")
    /\ Rest /\ UNCHANGED <<mem, crash>>

FinalizeTrie ==
    /\ At(Main, "idle") /\ mem.init
    /\ mem' = [mem EXCEPT !.trie = FALSE]
    /\ Goto(Main, "unbind")
    /\ Rest /\ UNCHANGED crash

Unbind ==
    /\ At(Main, "unbind")
    /\ mem' = [mem EXCEPT !.stop = @ \/ mem.bind, !.bound = @ /\ ~mem.bind, !.index = @ + 1]
    /\ Goto(Main, "end")
    /\ Rest /\ UNCHANGED crash

\* The event "end"; index.load() is evaluated for the call of finalize.
End ==
    /\ At(Main, "end") /\ mem.mtx = NoOne
    /\ \E r \in Append(mem, {EndEvent(mem.forks)}) :
          mem' = [r EXCEPT !.accepted = @ \cup {EndEvent(mem.forks)},
                           !.atfini = mem.index, !.counted = Cardinality(mem.accepted) + 1]
    /\ Goto(Main, "not_ready")
    /\ Rest /\ UNCHANGED crash

NotReady ==
    /\ At(Main, "not_ready")
    /\ mem' = [mem EXCEPT !.ready = FALSE]
    /\ Goto(Main, "close")
    /\ Rest /\ UNCHANGED crash

\* Aggregates, buffer, fclose, unlink of a trace with few events, free.
Close ==
    /\ At(Main, "close") /\ mem.mtx = NoOne
    /\ mem' = [WriteOut(mem) EXCEPT !.buf = FALSE,
                  !.state = IF mem.atfini < KeepFrom THEN "deleted" ELSE "closed"]
    /\ Goto(Main, "reset")
    /\ Rest /\ UNCHANGED crash

Reset ==
    /\ At(Main, "reset")
    /\ mem' = [mem EXCEPT !.bm = FALSE]
    /\ Goto(Main, "inactive")
    /\ Rest /\ UNCHANGED crash

\* is_init; clear_hash_cache, which frees the strings, under map_mtx;
\* is_initialized.  What runs between this and the exit of the process may
\* still call wrappers.
Finalized ==
    /\ At(Main, "inactive") /\ mem.map = {}
    /\ mem' = [mem EXCEPT !.active = FALSE, !.hash = FALSE, !.init = FALSE,
                          !.freed = {t \in Threads : pc[t] \in {"read_dir", "read"}}]
    /\ Goto(Main, "idle")
    /\ Rest /\ UNCHANGED crash

Exit ==
    /\ At(Main, "idle") /\ ~mem.active
    /\ mem' = [mem EXCEPT !.live = FALSE]
    /\ Rest /\ UNCHANGED <<pc, crash>>

----------------------------------------------------------------------------
\* A step inside the logger; idle threads need not begin a call.
Logging(t) ==
    \/ ReadHash(t) \/ HasHash(t) \/ Found(t) \/ InsertHash(t) \/ Inserted(t)
    \/ NameHash(t) \/ Lock(t) \/ NameWrite(t)
    \/ Log(t) \/ Enter(t) \/ Write(t)

Owning ==
    \/ InitBuffer \/ InitReady \/ Started \/ Flush \/ RealExec
    \/ Unbind \/ End \/ NotReady \/ Close \/ Reset \/ Finalized

Next ==
    \/ Fork \/ ForkLate \/ Exec \/ FinalizeTrie \/ Exit \/ Owning
    \/ \E t \in Threads :
          \/ Call(t) \/ PathCall(t) \/ FileCall(t) \/ AtCall(t) \/ Getcwd(t)
          \/ Logging(t) \/ Track(t)

Spec ==
    /\ Init /\ [][Next]_vars
    /\ WF_vars(Owning) /\ \A t \in Threads : WF_vars(Logging(t) \/ Track(t))

----------------------------------------------------------------------------
Steps == {"idle", "gone", "read_dir", "hash", "find", "insert", "store", "name",
          "name_lock", "name_write", "read", "log", "enter", "lock", "write", "track",
          "boot", "boot_ready", "start", "flush", "exec",
          "unbind", "end", "not_ready", "close", "reset", "inactive"}

\* Type invariant.  A thread that is about to write holds the mutex, and
\* records are in the buffer only while there is one.
TypeOK ==
    /\ pc \in [Threads -> Steps] /\ cur \in [Threads -> Events]
    /\ ret \in [Threads -> {"idle", "track", "flush"}]
    /\ late \in [Threads -> BOOLEAN] /\ calls \in [Threads -> Nat]
    /\ crash \in Threads \cup {NoOne}
    /\ IsABag(mem.file) /\ BagToSet(mem.file) \cup mem.items \subseteq Records
    /\ mem.agg \subseteq Events \X Intervals /\ mem.last \in 0 .. MaxInterval
    /\ mem.mtx \in Threads \cup {NoOne} /\ mem.map \cup mem.freed \subseteq Threads
    /\ mem.index \in Nat
    /\ mem.state \in {"none", "open", "closed", "deleted", "replaced"}
    /\ mem.items # {} => mem.buf
    /\ \A t \in Threads : pc[t] \in {"name_write", "write"} => mem.mtx = t

Times(e) == IF BagIn(e, mem.file) THEN mem.file[e] ELSE 0

\* Once a trace is closed, every event that log_data_event took while there
\* was a buffer is in it once, whichever threads were logging during finalize;
\* it is deleted only if it held few events when finalize read the index.
\* A trace that exec leaves behind has every event taken before its flush.
TraceComplete ==
    /\ mem.state \in {"closed", "deleted"} => \A e \in mem.accepted : Times(e) = 1
    /\ mem.state = "deleted" => mem.counted < KeepFrom
    /\ mem.state = "replaced" => \A e \in mem.due : Times(e) = 1

\* The trace of a forked child has an event of its parent only if that was in
\* an open aggregate at the fork, and then once.
OwnEventsOnly ==
    mem.state # "none" => \A e \in BagToSet(mem.file) \ {Name} :
       e \in mem.accepted \/ (e \in mem.inherited /\ Times(e) = 1)

\* A closed trace that has events of the traced file names its hash, unless
\* the hash was cached before the process was forked, or finalize came
\* between a thread's insert_hash and its record of the name.
HashNamed ==
    mem.state \in {"closed", "deleted"} /\ (\E e \in mem.accepted : e[3]) =>
       \/ Times(Name) > 0 \/ mem.known \/ mem.unnamed
       \/ \E t \in Threads : pc[t] \in {"store", "name", "name_lock", "name_write"}

\* Nothing crashes before the trace is closed, and the threads in a call at
\* that time are the only ones that do: a call that begins after finalize
\* returned is harmless but in a forked child, whose wrappers stay bound, and
\* there only if it forks again, or the child traces all files, or has a
\* tracked descriptor.
CrashOnlyInFinalize ==
    crash # NoOne =>
       /\ mem.state \in {"closed", "deleted"}
       /\ late[crash] \/ crash = Main =>
             mem.forks > 0 /\ (pc[crash] = "idle" \/ TraceAll \/ mem.tracked)

\* df_logger.h: any interceptor still firing after finalization must not
\* dereference a destroyed manager.
LateCallHarmless == crash # NoOne /\ late[crash] => pc[crash] \notin {"name", "enter"}

\* Every call returns, finalize, exec and fork's reinitialize too, unless the
\* process ends or crashes, or was forked while another thread held the buffer
\* manager's mutex or map_mtx.
CallsReturn ==
    \A t \in Threads : pc[t] # "idle" ~>
       pc[t] \in {"idle", "gone"} \/ ~mem.live \/ crash # NoOne \/ mem.jammed

\* dftracer_main.cpp: forked workers re-open their own log file.
ForkedChildReopens == mem.forks > 0 /\ pc[Main] = "boot" ~> mem.state = "open"
================================================================================
