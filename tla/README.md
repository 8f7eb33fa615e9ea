# A verification project for dftracer

dftracer traces the I/O of HPC applications. It intercepts their calls, and each process either writes a trace
of its own or, in service mode (`dftracer_service`), encodes events into one shared-memory ring per node; a daemon
drains the ring, aggregates, compresses and writes one trace file. This directory models both paths in TLA+, checks
them with TLC on small instances, and proves part of what is checked with TLAPS for every instance.

Paths below are relative to `src/src/dftracer/`.

## 1. The system

| part | source | state | operations | hard part |
|---|---|---|---|---|
| segment | `core/ipc/shm_layout.h` | `head`, per block `armed`, `committed`, `owner`, `claim_ns`, `owner_pid`, data area | format | shared by processes that may die |
| producer | `core/ipc/ring_producer.h` | block held, bytes used, epoch | `try_reserve`, `commit`, `flush` | lock-free claim; race with take-over; death at any instruction |
| claimer | `service/pipeline/block_tracker.h` | `next_`, `tail_`, `released_` | `claim`, `take_over`, `release`, `ready_blocks` | many drain threads, out-of-order release |
| ring sink | `service/pipeline/ring_sink.h`, `consumer_scaler.h` | drain threads, `active_`, `stop_`, statistics | `start`, `stop`, `drain`, `process_block`, `replay`, `housekeeping`, `maybe_scale` | shutdown while producers still push; scaling |
| client table | `service/pipeline/client_table.h` | processes, lanes, last-seen times | `process`, `lane`, `sync`, `take_finished` | lane finished while a thread replays into it |
| node trace file | `service/pipeline/node_trace_file.h` | end offset, open chunks | `reserve`, `write`, `append`, close | ranges reserved under a lock, written outside it |
| service buffer manager | `core/buffer/service_buffer_manager.cpp` | thread slots, spill file, `ready` | `initialize`, `push`, `flush_all`, `finalize`, fork handlers | service death, full ring, fork |
| local buffer manager | `core/buffer/local_buffer_manager.cpp` | buffer, sink, aggregator | `initialize`, `log_*`, `compress_and_write`, `finalize` | events after finalize |
| aggregator | `core/aggregator/*` | per-interval counters | `aggregate`, `get_previous_aggregations` | late events |
| interceptors | `core/brahma/posix.*`, `stdio.*` | `tracked_fd`, `tracked_fh` | one wrapper per libc call | numbers and addresses are reused while other threads are inside wrappers; vfork |
| logger and core | `core/df_logger.h`, `core/common/dftracer_main.cpp` | the singletons, `is_initialized`, the hash cache, event index | `initialize`, `log`, fork and exec handling, `finalize` | calls during and after finalize; fork with locks held |
| event loop | `core/common/event_loop.cpp` | handles, `armed`, `running` | `add_timer`, `run`, `stop`, `queue_work` | stop from any thread, handles closed under it |
| service daemon | `service/service.h`, `service.cpp` | collectors, timers, pid file | `start`, `stop`, ticks, captures | captures in flight at shutdown |
| PAPI sampler | `core/function/papi/*` | sampler thread, `loop_ready` | `initialize`, sample, `finalize` | reads through wrappers that are being unbound |

A wrapper looks its operand up in the tables, makes the real call, and hands an event to the logger, which hands it to
the buffer manager. The local one aggregates, buffers and writes; the service one pushes records through a `RingProducer` into the segment. The
service's drain threads use one `ParallelBlockClaimer` to get whole blocks, replay their records into the
client table's lanes, and hand finished chunks to the node trace file. Nothing but the segment is shared
between the two sides; a producer learns that its block was taken only when its next CAS on the block's owner
word fails, and the service learns that a producer died only through `kill(pid, 0)`.

What makes the ring correct: a block is never written by two threads, or written and read at once; every
committed record is replayed, and replayed once; blocks come back whatever happens to their producers; the
cursors `next_` and `tail_` never pass a block that still needs somebody.

What makes the other parts correct: an event handed to the buffer manager is traced, spilled, or counted as
dropped; calls return; stopping the service loses nothing that was published; chunks never damage one
another in the node file; a client's lanes are finished once, after their last record. The descriptor tables agree with the
kernel's, so an event names the file its call went to; a process's trace has its own events, each once, through fork,
exec and finalize; a loop that is told to stop does, with nothing of its work left behind.

## 2. Modules

| module | models | role |
|---|---|---|
| `Ring` | `ring_producer.h`, `block_tracker.h` (`ParallelBlockClaimer`), the words of `shm_layout.h` | the lock-free protocol, one step per atomic access |
| `BlockLife` | – | abstract: each block is claimed, drained and released once, in order; `Ring` implements it (`BlocksLiveOnce`) |
| `RingInv` | – | the inductive invariant `IInv` of the exclusion proof, and what cursors and records add to it |
| `RingProofs` | – | theorems `Typing`, `InvAlways`, `Exclusion`; `LivesOnce` (the refinement of `BlockLife`), `ScanPassesHandled`, `TailStaysBehind`, `BlocksTiled`, `NoRecordTwice`, `LossNeedsOvertaking` |
| `ServiceBuffer` | `service_buffer_manager.cpp`; the spill side of `local_buffer_manager.cpp`; `append_spill_files` of `ring_sink.h` | what becomes of an event between a log call and the node trace |
| `ServiceBufferProofs` | – | theorems `BufferTyping`, `BufferOneUser`, `BufferFlushedAtFinalize` |
| `Sink` | `ring_sink.h` (drain loop, parking, scaling, stop), the step rule of `consumer_scaler.h` | drain threads |
| `SinkProofs` | – | theorems `SinkTyping`, `SinkParkedEmpty`, `SinkStopLosesNothing` |
| `Clients` | `client_table.h`; `process_block`, `replay`, `finish`, `housekeeping` of `ring_sink.h` | lanes of client processes, and who finishes them |
| `ClientsProofs` | – | theorems `ClientsTyping`, `LanesFinalizedOnce`, `ClientsLoseOnlyStale` |
| `NodeFile` | `node_trace_file.h` | concurrent writers of one trace |
| `NodeFileProofs` | – | theorems `Typing`, `NoOverlap`, `NoGap`, `LimitKept` |
| `FdTable` | `brahma/posix.*`, `brahma/stdio.*` | which numbers and FILE* are traced, and as what |
| `FdTableProofs` | – | theorems `FdTyping`, `FdTableAgrees`, `FdCallNamesItsFile` |
| `Tracer` | `dftracer_main.cpp`, `df_logger.h`, `local_buffer_manager.cpp`, `aggregator.cpp` | a traced process from initialize to finalize, through fork and exec |
| `TracerProofs` | – | theorems `TracerTyping`, `TracerCrashOnlyInFinalize`, `TracerHashNamed`, `TracerTraceComplete`, `TracerOwnEventsOnly` |
| `EventLoop` | `event_loop.cpp`, the sampler of `function/papi/counters.cpp`, `service.h` | the loop, and the two programs that run it |
| `EventLoopProofs` | – | theorems `WakeUpIsSafe`, `CapturesApart`, `FinalizeAlone`, `UnbindAfterSampler` |
| `MCRing`, `MCServiceBuffer`, `MCSink`, `MCClients`, `MCNodeFile`, `MCFdTable`, `MCTracer`, `MCEventLoop` | – | model values and symmetry sets for TLC |

The modules split the paths at their interfaces. `FdTable` ends where a wrapper has the hash it logs under, `Tracer` begins with
a call that has one. `ServiceBuffer`, `Sink` and `Clients` take from the ring only that a block is
drained once and not shared, which is what `Ring` shows; `Clients` takes from `Sink` that drain threads claim blocks until
`stop()` joins them; `Sink` takes from the node file only that a chunk written
is in the file, which is what `NodeFile` shows. `PROJECT.json` maps each definition to its source lines.

### Ring

State: `head`; per slot `armed`, `committed`, `owner`, `owner_pid` and the record cells; per producer thread its
point in the call, `cur` (block held), `used`; per drain thread its point in `claim`, `take_over` or `release`;
`next_`, `tail_`, `released_`; and histories of what was logged and replayed. A program point stands before each
atomic access. Deviations from the code, each harmless or noted:

- memory is sequentially consistent. The code's acquire/release pairs order each word with the data it guards; no
  claim is made about reorderings of different words beyond that;
- a record is one cell, and `Capacity` cells fill a block; padding is a cell of its own kind;
- `DeathPoints` says where a process may be killed. The code allows all points; runs name the ones they allow,
  so that a known failure at one point does not hide others;
- a weak CAS that fails spuriously only repeats its loop and is left out; so is `header->tail`, a diagnostic copy;
- every reservation is committed before the next call, as `ServiceBufferManager::push` does.

### ServiceBuffer

One process with its threads, and the service as far as the process can tell. State: the slots and their
IDLE/BUSY/DEAD words, the three mutexes, the spill manager and the lock on its file, and for every event where it
is: in a block, published, buffered for the spill file, in the file, in the trace, counted, dropped. A section
that touches only what its mutex protects is one step. `compare_exchange_weak` may fail spuriously in `flush_all`
(`Spurious`), where that matters. The behaviour starts after `initialize()` with a service that accepts.

### Sink

State: blocks (not yet claimed by a producer, held, ready, in hand, in a thread's chunk, in the file), `active_`,
`stop_`, `below_`, and a program point per drain thread and for `stop()`. The condition variable and its mutex are explicit: a
thread takes `park_mtx_`, tests its predicate, sleeps and lets the mutex go in one, is woken by a notification or spuriously, takes
the mutex again, and reads `active_` before it lets it go; `maybe_scale` and `stop()` store under the mutex and notify in a step of
its own. Which points mean that a thread holds the mutex is `ParkFree`. `stop()` takes over held blocks and leaves any
of them behind, as it does those being written. Times are free
choices (a tick may be due, a chunk or a held block may be old enough), and the scaler's target is any count in its
range, since its arithmetic is on measured rates; the clamp, the immediate step up and the delayed step down are exact.

### NodeFile

State: the current file, per file the end reserved so far and the number of members, per writer the rest of its
range, and the bytes written or refused. `reserve` is one step (it is one critical section), `write_at` one step per
`pwrite`, which may be short or fail.

### Clients

State: the table from pid to `ClientProcess` object, the objects with their last-seen and GOODBYE times, their lanes
(ready or finalized, and the records in their open aggregates), and per drain thread the block in hand and the object it looked
up. Times are ages: `monotonic_ns` differences are then differences of ages, computed as the code does in
unsigned arithmetic (`Elapsed`), and the clock needs no bound. The table's mutex is held over the whole of `take_finished`, one
step per process visited; the process's and the lane's mutexes cover one step each. The behaviour starts with an
empty table, or with one process that said HELLO long ago. A block has one record, and
producers may exit without GOODBYE, write after it from other threads, and have their pid used again.

### FdTable

State: the kernel's descriptors (and a vfork child's copy), the number behind each FILE*, the two tables of the
interceptors, and per thread the wrapper it is in. A wrapper is up to four steps: look up, untrack, real call, track;
which of them it has, and in which order, is what the wrappers differ in. Wrappers that only look up (read, write, fstat
and the like) are one action per kind of operand. The application is assumed to be correct, in the sense the
module's header states. The history variable `off` has the entries that some wrapper is known to leave wrong; the properties
except them, and section 3 lists them.

### Tracer

One process: the record `mem` is its memory (pointers, buffer, the buffer manager's mutex, the hash cache with `map_mtx`, what
descriptors are tracked, aggregator) and its trace file, so that a fork is a copy of `mem` with one thread left; the model follows the
child or the parent. An event is its caller, the number of its call, and whether it carries the hash of the one traced file name.
Sizes are left out: any record may fill the buffer. `Foreign` is a thread that logs without an interceptor, as the GPU runtimes' flush
threads do.

A call is one of the kinds that differ in what they do before they log: without a file (`Call`), on a path (`PathCall`, which may
track what it opens), on a tracked descriptor (`FileCall`), at a tracked directory and on a path, as `openat` and the `AtRef` wrappers
(`AtCall`), `getcwd`, and `exec`. It then looks the hash up in the cache with `map_mtx` shared (`HasHash`, `Found`), or puts it there
with `map_mtx` to itself (`InsertHash`, `Inserted`) and logs its name, and reads its string for the metadata (`ReadHash`; metadata is
always on). Descriptors and threads point to strings that `clear_hash_cache` frees: `freed` has the threads that finalize
left with such a string, and every late call at a descriptor has one.

### EventLoop

A process is either a traced one, whose PAPI sampler thread drives the loop while `DFTracerCore` may finalize, or
the daemon, whose main thread drives it until a signal. Each critical section of the loop's mutex is one action. libuv is
external: which callback runs next, when `uv_run` returns (no active handle or request), and that a signal without a
handle kills the process. `start_thread()`, `join()` and the thread hooks have no caller and are left out.

## 3. Runs

Passing runs. Deadlock is checked where the system never rests by itself (`ring_*`, `clients_finish`, `fdtable_agree`).

| run | bounds | shows |
|---|---|---|
| `ring_crash` | 2 producers in 2 processes, 1 drain thread, 2 blocks of 1 record, 3 claims, 2 records each, death at 6 points | `TypeOK`, `DrainedOnce`, `LostOnlyIfOvertaken` |
| `ring_drainers` | 1 producer, 2 drain threads, 2 blocks, 3 claims | `Exclusive`, `PassedAreHandled`, `TailBehind`, refinement of `BlockLife` (`BlocksLiveOnce`) |
| `ring_back` | 1 producer that may die, 1 drain thread, blocks of 2 records, fair threads | `EveryBlockComesBack`, `PublishedTiled` |
| `buffer_safe` | 2 threads, 1 event each, exit, 1 flush, finalize, service crash | `TypeOK`, `OneUser`, `FlushedAtFinalize` |
| `buffer_return` | 2 threads, 1 flush, spurious CAS failures, service stop, unopenable spill file, fair threads | `CallsReturn` |
| `sink_stop` | 1 to 2 drain threads, 2 blocks, step down after 2 ticks, fair threads and mutex | `ParkedEmpty`, `StopLosesNothing`, `StopEnds`, `Drained`, `Wakes` |
| `nodefile_write` | 3 writers, members of 1, 2 and 4 bytes, limit 3, 3 files | `TypeOK`, `RangesApart`, `Tiled`, `RolloverKept` |
| `fdtable_agree` | 2 threads, 2 numbers of which the table has room for 1, 1 FILE*, a traced and an untraced file | `TypeOK`, `TableAgrees`, `CallNamesItsFile` |
| `clients_finish` | 1 pid that may be reused, 1 lane, 2 drain threads, 2 blocks, grace and reap interval of 1 tick, fair threads | `TypeOK`, `FinalizedOnce`, `LostOnlyIfStale`, `FinishedInTheEnd` |
| `tracer_trace` | main thread with 2 calls, a foreign one with 1, 2 trace intervals, 2 forks in line, a list of traced paths, aggregation on | `TypeOK`, `TraceComplete`, `OwnEventsOnly`, `HashNamed`, `CrashOnlyInFinalize`, `CallsReturn` |
| `eventloop_ends` | 3 collectors, a threadpool of 2, 2 signals, fair threads | `AsyncToOpenHandle`, `OneCapture`, `NothingAbandoned`, `SamplerInside`, `SentStopEnds` |

Why the bounds are enough to matter: 3 claims over 2 blocks make a slot go round to its second lap, which is where
stale words, late stores and re-armed slots meet; two threads on each side give every pairwise race; 2 records against
blocks of 1 or 2 give full, partly filled and empty blocks. In `ServiceBuffer` two threads suffice for every pair of
users of a slot (its own thread, an exiting one, a flushing one); an event comes before or after its thread's exit, and two exited
threads share the orphan slot. `buffer_return` leaves `finalize()` out: its loop over the slots is the one of `flush()`, and with
both the state space is twenty times larger. In `Sink` thread 0 never parks, and thread 1 parks, sleeps, wakes and ends against it and
against `stop()`; two blocks put lines into both chunks. The member of 4 bytes exceeds the limit of 3, those of 1 and 2 fill it exactly.
In `FdTable` one number is beyond the table, so both sides of the bound occur; with one number in it and one FILE* every reuse
is a reuse at once, by either thread. In `Clients` two blocks are a GOODBYE and a straggler, or the last block of one process
and the first of the next of the same pid; thread 0 reaps while thread 1 is anywhere in a block. In `Tracer` the second
fork is that of a child with inherited state, two intervals put rows on both sides of a flush, and `KeepFrom` (5 in the code) is
lowered to 4 so that three calls with the start and end events of a process fall on both sides of it. `TraceAll` is FALSE: what a late call can do is then decided by the
prefix tree and the tracked descriptors, and not by the setting (497,893 states; the safety properties hold with TRUE as well, by the proofs). Three captures on a pool of two leave one queued.

Fairness. Threads are scheduled, so each thread's steps are weakly fair; nothing makes an application log, exit, fork or
finalize, a producer publish, a process send a signal, or a service stop. `Ring`: weak fairness of every live thread and, for a scan that
thread 0 begins again and again, see `Fairness` there. `ServiceBuffer`: `CallStep` of each thread, and the service's append and
unlink, which it does not abandon once it has the lock. `Sink`: `ThreadStep` of each thread and `stop()` once called, strongly, since both wait for `park_mtx_`, which a
thread that wakes for no reason takes again and again, and
that `flush_if_older`, asked again and again, is at some time asked when the chunk is old: time passes. `Clients`: each
drain thread, time, and strong fairness for taking the table's mutex, which thread 0 unlocks again and again. `Tracer`: the
main thread inside its operations and each thread inside a call. `EventLoop`: the threads, captures end, and strong
fairness for the callbacks that a sample may come before: an iteration of `uv_run` serves every ready descriptor.

One run expects a violation. `tracer_late` checks `LateCallHarmless`, the comment at `df_logger.h:475`: an interceptor that fires
after finalization must not dereference the destroyed manager. A forked child is initialized without binding, so its
`finalize()` neither unbinds the wrappers nor sets `stop_trace`; a later call at a tracked directory, or on a path if all files are
traced, logs the name of its hash through the reset pointer (`df_logger.h:549`). `PROJECT.json` "findings" has the details.

### What the models contain and no comment promises

The properties above are stated so that they hold in spite of the following. The formulas named are in the modules; to
see the trace, check the formula (the first three as INVARIANT, the others as PROPERTY) with the constants of the configuration given.

| formula | configuration | what happens |
|---|---|---|
| `Ring!NothingLost` | `Ring_crash.cfg` | the late owner store of `publish()` hits the next lap, whose producer then drops a block nobody drains (`ring_producer.h:243`, against the comment at `:49`) |
| `Ring!DrainedOnce` | `Ring_drainers.cfg`, `DeathPoints = {"pub_owner"}` | a process killed between the two stores of `publish()`: its block is claimed and also taken over (`ring_producer.h:240`) |
| `ServiceBuffer!NotDeletedWhileWritten` | `Buffer_return.cfg` | the service deletes a spill file that is created and not yet locked (`service_buffer_manager.cpp:211`, against `:216`) |
| `Sink!FalseMeansStopping` | `Sink_stop.cfg` | a downscale between two reads of `active_` ends a drain thread for good (`ring_sink.h:289`, against `:279`) |
| `Clients!GraceKept` | `Clients_finish.cfg` | a GOODBYE time taken after the reaper's `now` makes the unsigned difference wrap, and the process is finished without its grace (`client_table.h:84`) |
| `Tracer!ForkedChildReopens` | `Tracer_late.cfg` | a fork copies `map_mtx` locked if another thread is in `has_hash` or `insert_hash`; the child hangs in `initialize()` before it opens its file (`df_logger.h:240`, against `dftracer_main.cpp:489`) |
| `EventLoop!FinalizeReturns` | `EventLoop_ends.cfg` | a `stop()` between `add_timer` and `run()` closes the handles or is not seen by `run()`, which arms them again; `finalize()` joins forever (`event_loop.cpp:183`) |

- `Ring`: a process killed after its CAS on `head` and before its owner store leaves a block that is never released
  (`ring_producer.h:174`); `ring_back` therefore allows death everywhere else. A slow `release()` can store the mark of an
  earlier lap over a later one, after which `tail_` stops at a released block (`block_tracker.h:226`); `TailBehind` says only
  that the tail never runs ahead.
- `ServiceBuffer`: `flush_all` takes a spurious CAS failure after its deadline for success
  (`service_buffer_manager.cpp:392`), so `OneUser` is checked without them; they occur on machines with LL/SC. An event spilled while `finalize()`
  closes the spill file, or into a file that did not open (`LocalBufferManager::initialize` returns 0 regardless), is discarded
  and counted as spilled (`:206`, `:211`). An event pushed after the service's last count is in neither its trace nor its report (`:145`).
- `Sink`: `maybe_scale` may store a count it computed before `stop()` over the one `stop()` set (`ring_sink.h:517`), so that a
  woken thread ends without helping; `StopLosesNothing` and `StopEnds` hold nevertheless.
- `NodeFile`: a failed `pwrite` leaves its range as a hole between members (`node_trace_file.h:142`); `Tiled` counts it as refused.
- `Clients`: a record whose drain thread looked the process up before `take_finished` removed it may be refused by the
  finalized lane, or stay in an aggregate of an object no longer in the table (`ring_sink.h:460`); `LostOnlyIfStale` says nothing else is lost.
- `FdTable`, the members of `off`: `closedir` untracks after the real close, when the number may be another thread's; `pclose` never
  untracks; `openat` without a directory looks up the number it was not given; a vfork child's `open` and `dup2` write the
  parent's table, where only `remove_trace` asks `in_vfork_child` (`posix.h:129`). `tracked_fh` is a plain map without a lock: the model takes its
  operations to be atomic.
- `Tracer`: a thread past `is_ready()` when `finalize()` frees the buffer writes into freed memory or through a null pointer
  (`local_buffer_manager.cpp:160`), and one that has got its hash reads a freed string. In a forked child, whose wrappers stay bound, a
  call that begins after `finalize()` crashes if it is at a tracked descriptor, whose string is freed, or on a path when all files
  are traced. `CrashOnlyInFinalize` says that nobody else does, and that nothing crashes before the trace is closed. Reading a freed
  string is undefined: `ReadHash` crashes or goes on.
- `Tracer`: a fork while another thread holds the buffer manager's mutex or `map_mtx` leaves a child that hangs when it logs or
  initializes; `CallsReturn` excepts it (`jammed`), and `ForkedChildReopens` is about it. Not modelled, with the same hazard: `used_extra_mtx_` and
  `app_metadata_mtx_`, which `finalize()` takes for the event "end" (`df_logger.h:603`, `:618`), and `g_region_lock` of the C API
  (`dftracer.cpp:31`). A child repeats its parent's open aggregates, and
  its trace does not name a hash that was cached before the fork. A fork after a child's finalize calls through a null core.
- `EventLoop`: a second SIGINT or SIGTERM after the signal handles are closed kills the daemon while it finalizes. If
  the sampler fails to start, its thread is never joined; if `initialize()` gives up waiting for it, `finalize()` does not stop it and joins forever.
  A forked child inherits `sampler_running` and starts no sampler.

Every property of a passing run has a mutant: a plausible slip in one mapped definition (a dropped guard, a store for
a CAS, a missing flush) that TLC then catches with that property. Mutant definitions stand next to the ones they replace.

## 4. Proofs

TLAPS checks these for every value of the constants that satisfies the modules' `ASSUME`s.

- `RingProofs!Typing`: `Spec => []TypeOK`, wherever processes die. `TypeOK` is not inductive: that `used` stays within
  the block needs what the position in the call says about it, which is `CallInv` of `RingInv`.
- `RingProofs!InvAlways` and `Exclusion`: `Spec => []IInv` and `Spec => []Exclusive`, assuming only `NoDeathInPublish` (no process dies between the two
  stores of `publish()`; section 3 says what happens otherwise). The inductive invariant `IInv` has one part per idea:
  a block has the producer that moved `head` over it (`ProducersInv`), slots behind `head` are armed for at least their lap
  and words ahead of it are of earlier laps (`LapsInv`), a fresh claim is alone with its block (`ClaimingInv`), a block being
  written is unpublished and untaken while its writer lives (`WritingInv`), the words of a block tell the truth (`WordsInv`), a
  drain thread is alone with its block until it arms the next lap (`DrainersInv`). `Exclusive` alone is not inductive,
  because every CAS succeeds or fails on words other threads left behind. There is a lemma per action that moves
  such a word.
- `RingProofs!LivesOnce`: `Spec => BlocksLiveOnce`, the refinement of `BlockLife`, under the same assumption. The mapping
  `StageOf` reads the stage of a block off `head`, `armed`, `committed` and the drain threads. Every step is one of five
  moves (the CAS on `head`, the store of `committed`, the winning CAS of `claim` or of `take_over`, the store of `armed`) or
  quiet (`Moves`); each move takes one block to its next stage and leaves the others where they were.
- `RingProofs!ScanPassesHandled` and `TailStaysBehind`: `PassedAreHandled` and `TailBehind`. `CursorsInv` adds what a thread
  that is about to advance a cursor knows: `next_` moves over a block only after `done()` has seen its words, which say
  released or in hand, and a mark in `released_` is stored after its block is armed again. Both facts outlive the moment they are
  read, since blocks only move forward.
- `RingProofs!BlocksTiled`, `NoRecordTwice`, `LossNeedsOvertaking`: `PublishedTiled`, `DrainedOnce`, `LostOnlyIfOvertaken`, for every
  block capacity. The invariant `LedgerInv` follows a record through its cell: a producer fills its block from the front while
  the slot is armed for it (`CellsInv`); the claimed word is there exactly while a drain thread has the block (`ClaimedInv`); a record is
  in one cell at most, and once it is replayed the drain thread of that lap has been through the cell (`RecordsInv`); until
  then it stays there, in a block with a stage before released (`KeptInv`); and a held block has an owner word that names its
  producer's state, or has been overtaken (`KnownInv`).
- `ServiceBufferProofs`: `BufferTyping` for every failure in the model; it includes that each of the three mutexes is held by
  exactly the threads inside its sections. `BufferOneUser` assumes `~Spurious`: with spurious failures the property is false
  (section 3). Its invariant: a slot outside `slots_` holds nothing (`SlotInv`), and a slot has one owner and is BUSY while
  it does (`OwnInv`). `BufferFlushedAtFinalize` assumes `~OpenFails`,
  since what is spilled into a file that did not open is gone; it needs no assumption on the CAS. Its invariant: every
  event whose log call returned is somewhere, and those logged before `finalize()` stay there (`KeptInv`); the slots the walk of
  `finalize()` has visited, and not given up, hold none of them, nor does the spill manager when it has returned (`WalkInv`); the spill manager is made once, not
  used after `finalize()`, and has its file open (`SpillInv`, `OpenInv`).
- `SinkProofs`: for any number of drain threads and blocks and any scaler. A block is with the producers, in the ring, in a
  thread's hand or chunk, or in the file, and those that `stop()` promised have left the producers (`PlaceInv`); only a thread that is
  processing has blocks in hand (`HandInv`); after the join `stop()` is alone, and has not to claim again what it has
  claimed, although producers still publish (`StopInv`); the count that thread 0 is about to store is in the scaler's range (`WantInv`).
- `FdTableProofs`: for any number of threads, numbers, FILE* and files, and any `max_fd`. `HoldInv` is the discipline of a
  correct application, which the actions' guards impose one at a time: a number or FILE* in use by a call stays open, one that is being closed is
  used by nobody else, and a stream and its number belong together (`HeldOpen`, `HeldAlone`, `FhOfFd`, `FdOfFh`, `StreamOwn`). With
  it, what a wrapper read or untracked is still true when its real call happens (`CallTables`), and the entries of both tables
  are right outside the wrappers that are changing them (`AgreeFd`, `AgreeFh`, `Pair`).
- `ClientsProofs`: for any number of processes, lanes, drain threads and blocks, any grace and any clock. An object is in the
  table, taken out by `take_finished` or `take_all`, in `finish()`'s hands, or done with, in that order (`ObjectsInv`); its lanes are finalized
  once, in the third place, and what an aggregate holds after that came through a stale reference (`LanesInv`); the
  table is empty when `stop()` is done (`HouseInv`). That objects can be numbered needs a count, each being made for a
  block of its own: `CountInv` bounds their number by a cardinality.
- `NodeFileProofs!Typing`, `NoOverlap`, `NoGap`, `LimitKept`: for any number of writers, member lengths and limit, with any
  failures. The invariant adds that ranges and written bytes lie below the file's end, so that a new range starts on
  free ground.
- `EventLoopProofs!WakeUpIsSafe`, `CapturesApart`, `FinalizeAlone`, `UnbindAfterSampler`: for any collectors, pool and number of
  signals. The invariant has one part per ownership: handles are open exactly while armed, and a wake-up is pending only while
  armed and running (`LoopInv`); `in_flight` covers a capture's whole way through the pool, and captures exist only inside
  `uv_run` (`WorkInv`); the core passes the sampler only when its thread is gone (`SamplerInv`). The properties alone are not
  inductive: that no wake-up goes to a closed handle depends on who closes it in which state of the loop.
- `TracerProofs`: for any number of threads, calls, trace intervals and forks, traced in full or aggregated, and any index below
  which a trace is deleted. A first lemma per action says what it does to the memory and leaves alone; then the invariant has
  three layers. *Who can meet what `finalize()` takes apart*: what the process has follows from where the main thread is
  (`MainInv`), a child has no other thread (`ThreadInv`), and after `finalize()` only a forked child's main thread gets past the
  first test of a wrapper, and only if it traces all files or has a tracked descriptor; strings are freed by then only (`LateInv`).
  `CrashOnlyInFinalize` is inductive on top of these. *What the trace says*: from the
  moment the hash is cached, its name is in the trace or buffer, a thread is on its way with it, or it is one of the two exceptions
  (`HashInv`, which also needs that, until `finalize()`, a hash that anybody has is cached); each event was counted by the index before it was accepted, which is a bound on a cardinality
  (`IndexInv`), so that a trace is unlinked only if it has few. *Where an event is*: callers number their events, so a new one differs from
  all accepted or inherited ones (`FreshInv`); and while there is a buffer, each of those is in one place, once: the file, the buffer, or
  one row of aggregates (`PlaceInv`, `Held`). Each of the four movements of `Held` (an event arrives, the name arrives, an event is
  aggregated and moves rows out, all is written out) is a lemma. `TraceComplete` alone is not inductive: it says nothing of a trace
  that is still open. The constants' assumption that no thread is called `"name"`, `"start"` or `"end"` only keeps the three
  kinds of records apart.

Only model-checked: liveness (`EveryBlockComesBack`, `CallsReturn`, `StopEnds`, `Drained`, `Wakes`, `FinishedInTheEnd`, `SentStopEnds`; fairness is out of
the prover's reach). Every other property of the passing runs is a theorem's, at the assumptions named above.

## 5. Not modelled

- The MPI, MPI-IO and HDF5 interceptors (`brahma/mpi.*`, `mpiio.*`, `hdf5.*`) are some three quarters of the lines of the
  implementation. They are generated, one wrapper like the other: find the real function, start an event, call, end the event.
  They keep no table and no state of their own, so there is nothing in them to check beyond one call of `Tracer`; the
  map leaves them out and its share of the lines is small for that reason. The same is true of the POSIX and STDIO wrappers
  that only look up, of which the map names one per kind of operand.
- Byte-level encoding (`event_codec.h`), JSON, gzip, the parser `complete_members`, and configuration have no protocol;
  so do `segment_region.h` (mmap and shm_open) and the names and ranks that `ClientTable::sync` copies.
- `service.cpp`: command line, pid file, detaching. What a collector reads.
- CUDA and HIP functions, apart from the threads they log from.
- The locks that `finalize()` and the C API take besides those of the buffer manager and the hash cache (section 3).
- Weak memory, and the 32-bit wrap of epochs: 2^32 laps of a slot between two steps of one thread.
- `fork()` in `ServiceBuffer`: abandoned slots and the inherited spill file.

`PROJECT.json` "components" lists every part, "hazards" what can go wrong in each.

## 6. Plan

Done: all eight models, and proofs of every safety property the runs check. Next, in order:

1. `fork()` in `ServiceBuffer`: a child image with inherited slots, mutexes and file lock.
2. `complete_members` and the close of a node file after a crash of the service.
