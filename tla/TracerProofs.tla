------------------------------ MODULE TracerProofs ------------------------------
(***************************************************************************)
(* The safety properties of Tracer, for any number of threads, calls,      *)
(* intervals and forks, with tracing in full and aggregated.  The          *)
(* inductive invariant IInv says what finalize has taken apart by where    *)
(* the main thread is, how far a late call gets, where the name of a       *)
(* cached hash is, that the index has counted each event, and in which one *)
(* place (file, buffer or row of aggregates) each event is.                *)
(***************************************************************************)
EXTENDS Tracer, TLAPS, FiniteSetTheorems

\* Inside the logger; between the caching of the hash and the record of the name;
\* past the count of the call.
Inside   == {"read_dir", "hash", "find", "insert", "store", "name", "name_lock", "name_write",
             "read", "log", "enter", "lock", "write"}
Naming   == {"store", "name", "name_lock", "name_write"}
Counting == {"enter", "lock", "write"}
Calling  == Inside \cup {"idle", "track", "flush", "exec"}
Booting  == {"boot", "boot_ready", "start"}
Ending   == {"unbind", "end", "not_ready", "close", "reset", "inactive"}

\* The calls, where in the logger they begin, and what comes after them.
First    == {"log", "hash", "read", "read_dir"}
After    == {"idle", "track", "flush"}
Beginning(t) ==
    \/ Call(t) \/ PathCall(t) \/ FileCall(t) \/ AtCall(t) \/ Getcwd(t)
    \/ (Exec /\ t = Main)

Fields == {"live", "forks", "init", "active", "bound", "bind", "stop", "trie", "bm", "ready",
           "buf", "items", "mtx", "hash", "tracked", "map", "freed", "index", "atfini", "agg", "last", "first", "file",
           "state", "accepted", "counted", "due", "inherited", "known", "unnamed", "jammed"}

Closed == mem.state \in {"closed", "deleted"}

\* Between the return of initialize and the call of finalize; after the latter.
Running ==
    /\ mem.init /\ mem.active /\ mem.bm /\ mem.ready /\ mem.buf
    /\ mem.state = "open" \/ (mem.state = "replaced" /\ ~mem.live)
Over ==
    /\ ~mem.init /\ ~mem.active /\ ~mem.bm /\ ~mem.ready /\ ~mem.buf /\ ~mem.trie
    /\ Closed /\ (mem.bound => mem.forks > 0)

\* What the process has, by where the main thread is.
MainInv ==
    /\ mem.forks \in 0 .. MaxForks /\ (mem.bind <=> mem.forks = 0)
    /\ pc[Main] \in Booting => ~mem.init /\ mem.active /\ mem.bm
    /\ pc[Main] = "boot" =>
          /\ mem.state = "none"
          /\ IF mem.forks = 0 THEN ~mem.buf /\ ~mem.ready ELSE mem.buf /\ mem.ready
    /\ pc[Main] \in {"boot", "boot_ready"} /\ mem.forks = 0 => ~mem.ready /\ ~mem.bound
    /\ pc[Main] \in {"boot_ready", "start"} => mem.buf /\ mem.state = "open"
    /\ pc[Main] = "start" => mem.ready
    /\ pc[Main] \in Ending => mem.init /\ mem.active /\ ~mem.trie
    /\ pc[Main] \in {"unbind", "end", "not_ready", "close"} =>
          mem.buf /\ mem.bm /\ mem.state = "open"
    /\ pc[Main] \in {"unbind", "end", "not_ready"} => mem.ready
    /\ pc[Main] \in {"close", "reset", "inactive"} => ~mem.ready
    /\ pc[Main] \in {"reset", "inactive"} => ~mem.buf /\ Closed
    /\ pc[Main] = "reset" => mem.bm
    /\ pc[Main] = "inactive" => ~mem.bm
    /\ pc[Main] \in {"end", "not_ready", "close", "reset", "inactive"} =>
          (mem.bound => mem.forks > 0)
    /\ pc[Main] \in Calling => Running \/ Over
    /\ pc[Main] \in {"flush", "exec"} => Running
    /\ pc[Main] \in Inside /\ ret[Main] = "flush" => Running

\* Where the threads can be: in a child, only the main one is left.
ThreadInv ==
    /\ pc[Main] # "gone"
    /\ \A t \in Threads \ {Main} :
          /\ pc[t] \in Inside \cup {"idle", "track", "gone"} /\ ret[t] # "flush"
          /\ pc[t] = "gone" <=> mem.forks > 0
          /\ pc[Main] \in {"boot", "boot_ready"} =>
                \/ pc[t] \in {"idle", "gone"}
                \/ pc[t] \in {"log", "enter"} /\ ret[t] = "idle"
    /\ \A t \in Threads : pc[t] \in Inside =>
          cur[t][1] = t /\ cur[t][2] = calls[t] /\ (ret[t] = "track" => cur[t][3])

\* A call that begins after finalize gets no further than the first test of
\* the buffer manager, but in a child that traces all files or tracks one.
LateInv ==
    /\ \A t \in Threads : late[t] => ~mem.active
    /\ mem.freed # {} => ~mem.active
    /\ \A t \in Threads \ {Main} :
          late[t] => pc[t] = "idle" \/ (pc[t] = "log" /\ ret[t] = "idle")
    /\ pc[Main] \in Inside /\ ~mem.active => mem.forks > 0 /\ (TraceAll \/ mem.tracked)

\* The name of the hash is on its way to the trace.
Named ==
    \/ mem.known \/ mem.unnamed \/ Name \in mem.items \cup BagToSet(mem.file)
    \/ \E t \in Threads : pc[t] \in Naming

\* The threads that have the hash, and whose event, if accepted, has it.
Hashed(t) ==
    \/ pc[t] = "track"
    \/ pc[t] \in {"read", "log"} \cup Counting /\ cur[t][3]

\* Whoever has the hash has it from the cache, which finalize alone clears.
HashInv ==
    /\ mem.hash \/ mem.tracked \/ (\E e \in mem.accepted : e[3])
          \/ (\E t \in Threads : Hashed(t)) => Named
    /\ mem.active /\ (mem.tracked \/ \E t \in Threads : Hashed(t) \/ pc[t] \in Naming) =>
          mem.hash
    /\ pc[Main] = "boot" => /\ mem.accepted = {} /\ (mem.hash => mem.known)
                            /\ \A t \in Threads : ~Hashed(t)

\* The events that the index has counted.
Counted ==
    mem.accepted \cup {cur[t] : t \in {u \in Threads : pc[u] \in Counting}}
       \cup {e \in {StartEvent(mem.forks)} : pc[Main] = "start"}
       \cup {e \in {EndEvent(mem.forks)} : pc[Main] = "end"}

IndexInv ==
    /\ mem.index \in Nat /\ mem.atfini \in Nat /\ mem.counted \in Nat
    /\ IsFiniteSet(Counted) /\ Cardinality(Counted) <= mem.index
    /\ pc[Main] \in {"not_ready", "close"} => mem.counted <= mem.atfini
    /\ mem.state = "deleted" => mem.counted < KeepFrom

\* The numbers of the events a process has, and of the one a call is about.
FreshInv ==
    /\ \A e \in mem.accepted \cup mem.inherited :
          e[1] \in Threads => /\ e[2] <= calls[e[1]]
                              /\ pc[e[1]] \in Inside => e[2] < calls[e[1]]
    /\ mem.inherited \subseteq Events
    /\ mem.accepted \subseteq
          Events \cup {StartEvent(mem.forks), EndEvent(mem.forks)}
    /\ pc[Main] \in Booting => StartEvent(mem.forks) \notin mem.accepted
    /\ mem.buf /\ pc[Main] \notin {"not_ready", "close"} => EndEvent(mem.forks) \notin mem.accepted

\* Every event of K is in one place: once in the file, in the buffer, or in one
\* row of aggregates; and nothing else is, but for the name.
Held(file, items, agg, K) ==
    /\ Name \notin K
    /\ BagToSet(file) \cup items \subseteq K \cup {Name}
    /\ Folded(agg) \subseteq K /\ K \subseteq BagToSet(file) \cup items \cup Folded(agg)
    /\ \A e \in K : /\ e \in BagToSet(file) => file[e] = 1 /\ e \notin items \cup Folded(agg)
                    /\ e \in items => e \notin Folded(agg)
    /\ \A x, y \in agg : x[1] = y[1] => x = y

\* While there is a buffer, the events accepted and those inherited in open
\* aggregates are held so; when it is gone, the file is what it will be.
PlaceInv ==
    /\ mem.buf /\ pc[Main] # "boot" =>
          Held(mem.file, mem.items, mem.agg, mem.accepted \cup mem.inherited)
    /\ pc[Main] = "boot" =>
          /\ Folded(mem.agg) = mem.inherited
          /\ \A x, y \in mem.agg : x[1] = y[1] => x = y
    /\ ~mem.buf /\ pc[Main] # "boot" =>
          /\ mem.accepted \subseteq BagToSet(mem.file)
          /\ BagToSet(mem.file) \subseteq mem.accepted \cup mem.inherited \cup {Name}
          /\ \A e \in mem.accepted \cup mem.inherited : e \in BagToSet(mem.file) => mem.file[e] = 1
    /\ pc[Main] = "exec" \/ mem.state = "replaced" =>
          mem.due \subseteq mem.accepted \cap BagToSet(mem.file)

IInv ==
    /\ DOMAIN mem = Fields
    /\ TypeOK /\ MainInv /\ ThreadInv /\ LateInv /\ CrashOnlyInFinalize
    /\ HashInv /\ IndexInv /\ FreshInv /\ PlaceInv
-----------------------------------------------------------------------------
(* What an action does to the memory. *)

Frame(F) == DOMAIN mem' = Fields /\ \A f \in Fields \ F : mem'[f] = mem[f]

\* The records new come into the buffer, which may be written to the file.
Gain(new) ==
    \/ mem'.items = mem.items \cup new /\ mem'.file = mem.file
    \/ /\ mem'.items = {} /\ new # {}
       /\ mem'.file = mem.file (+) SetToBag(mem.items \cup new)

Appends(r, new, s) ==
    /\ DOMAIN s = Fields /\ \A f \in Fields \ {"items", "file"} : s[f] = r[f]
    /\ \/ s.items = r.items \cup new /\ s.file = r.file
       \/ /\ s.items = {} /\ new # {}
          /\ s.file = r.file (+) SetToBag(r.items \cup new)

\* Append touches only the buffer and the file.
LEMMA AppendFrame ==
    ASSUME NEW r, DOMAIN r = Fields, NEW new, NEW s \in Append(r, new)
    PROVE  Appends(r, new, s)
<1> DEFINE a == [r EXCEPT !.items = @ \cup new]
<1>1. /\ DOMAIN a = Fields /\ \A f \in Fields \ {"items", "file"} : a[f] = r[f]
      /\ a.items = r.items \cup new /\ a.file = r.file
  BY DEF Fields
<1> DEFINE b == CompressAndWrite(a)
<1> HIDE DEF a
<1>2. /\ DOMAIN b = Fields /\ \A f \in Fields \ {"items", "file"} : b[f] = r[f]
      /\ b.items = {} /\ b.file = r.file (+) SetToBag(r.items \cup new)
  BY <1>1 DEF Fields, CompressAndWrite
<1> HIDE DEF b
<1>3. s = a \/ (s = b /\ new # {})
  BY DEF Append, a, b
<1> QED
  BY <1>1, <1>2, <1>3 DEF Appends

\* What is read of a hash changes only who can still meet a freed string.
LEMMA ReadHashMem ==
    ASSUME DOMAIN mem = Fields, NEW t \in Threads, ReadHash(t)
    PROVE  Frame({"freed"}) /\ mem'.freed \subseteq mem.freed
BY DEF ReadHash, Crashes, Frame, Fields

\* has_hash, and the return of either call, touch only map_mtx.
LEMMA MapMem ==
    ASSUME DOMAIN mem = Fields, NEW t \in Threads, HasHash(t) \/ Found(t) \/ Inserted(t)
    PROVE  Frame({"map"}) /\ mem'.map \subseteq mem.map \cup {t}
BY DEF HasHash, Found, Inserted, Frame, Fields

\* insert_hash caches the hash.
LEMMA InsertHashMem ==
    ASSUME DOMAIN mem = Fields, NEW t \in Threads, InsertHash(t)
    PROVE  /\ Frame({"hash", "map"})
           /\ mem'.hash /\ mem'.map = {t}
BY DEF InsertHash, Frame, Fields

\* A wrapper tracks what it opened.
LEMMA TrackMem ==
    ASSUME DOMAIN mem = Fields, NEW t \in Threads, Track(t)
    PROVE  /\ Frame({"tracked"})
           /\ mem'.tracked
BY DEF Track, Frame, Fields

\* DFTLogger::log counts the call.
LEMMA LogMem ==
    ASSUME DOMAIN mem = Fields, NEW t \in Threads, Log(t)
    PROVE  /\ Frame({"index"})
           /\ mem'.index = mem.index + 1
BY DEF Log, Frame, Fields

\* The thread becomes the holder of the mutex.
LEMMA LockMem ==
    ASSUME DOMAIN mem = Fields, NEW t \in Threads, Lock(t)
    PROVE  /\ Frame({"mtx"})
           /\ mem'.mtx = t
BY DEF Lock, Frame, Fields

\* A name that finds the manager not ready is remembered as unnamed.
LEMMA NameHashMem ==
    ASSUME DOMAIN mem = Fields, NEW t \in Threads, NameHash(t), mem.bm
    PROVE  Frame({"unnamed"}) /\ mem'.unnamed = (mem.unnamed \/ ~mem.ready)
BY DEF NameHash, Frame, Fields

\* log_metadata_event puts the name in the buffer, and unlocks.
LEMMA NameWriteMem ==
    ASSUME DOMAIN mem = Fields, NEW t \in Threads, NameWrite(t), mem.buf
    PROVE  Frame({"items", "file", "mtx"}) /\ Gain({Name}) /\ mem'.mtx = NoOne
<1>1. PICK r \in Append(mem, {Name}) : mem' = [r EXCEPT !.mtx = NoOne]
  BY DEF NameWrite
<1>2. Appends(mem, {Name}, r)
  BY <1>1, AppendFrame
<1>3. DOMAIN r = Fields
  BY <1>2 DEF Appends
<1>4. /\ DOMAIN mem' = Fields /\ mem'.mtx = NoOne
      /\ \A f \in Fields \ {"mtx"} : mem'[f] = r[f]
  BY <1>1, <1>3 DEF Fields
<1> QED
  BY <1>2, <1>4 DEF Frame, Gain, Fields, Appends

\* The event and the rows of earlier intervals that it moves out of agg.
Aggregated(e) ==
    \E i \in Intervals, out \in SUBSET mem.agg :
       /\ <<e, i>> \notin out /\ Gain(Folded(out))
       /\ mem'.agg = (mem.agg \cup {<<e, i>>}) \ out
       /\ mem.buf \/ Folded(out) = {}

\* aggregate() adds the row of the event, and never moves out that one.
LEMMA AggregateFrame ==
    ASSUME NEW r, DOMAIN r = Fields, NEW e, NEW i \in Intervals
    PROVE  LET a == Aggregate(r, e, i)
           IN  /\ DOMAIN a[1] = Fields
               /\ \A f \in Fields \ {"agg", "first", "last"} : a[1][f] = r[f]
               /\ a[1].last \in {i, r.last}
               /\ a[2] \subseteq r.agg /\ <<e, i>> \notin a[2]
               /\ a[1].agg = (r.agg \cup {<<e, i>>}) \ a[2]
<1> DEFINE s == [r EXCEPT !.agg = @ \cup {<<e, i>>}, !.first = FALSE,
                          !.last = IF i > @ THEN i ELSE @]
           out == IF ~r.first /\ i > r.last THEN Rows(s, FALSE) ELSE {}
           u == [s EXCEPT !.agg = @ \ out]
<1>1. Aggregate(r, e, i) = <<u, out>>
  BY DEF Aggregate
<1>2. /\ DOMAIN s = Fields
      /\ \A f \in Fields \ {"agg", "first", "last"} : s[f] = r[f]
      /\ s.agg = r.agg \cup {<<e, i>>} /\ s.last = IF i > r.last THEN i ELSE r.last
  BY DEF Fields
<1> HIDE DEF s
<1>3. out \subseteq r.agg /\ <<e, i>> \notin out
  <2>1. CASE ~r.first /\ i > r.last
    <3>1. s.last = i /\ ~(i < i)
      BY <2>1, <1>2 DEF Intervals
    <3> QED
      BY <2>1, <3>1, <1>2 DEF Rows
  <2> QED
    BY <2>1
<1> HIDE DEF out
<1>4. DOMAIN u = Fields /\ (\A f \in Fields \ {"agg"} : u[f] = s[f]) /\ u.agg = s.agg \ out
  BY <1>2 DEF Fields
<1> HIDE DEF u
<1> QED
  BY <1>1, <1>2, <1>3, <1>4 DEF Fields

\* log_data_event, unless it crashes: the event comes into the buffer or into a
\* row, it counts as accepted if there is a buffer, and the mutex is released.
LEMMA WriteMem ==
    ASSUME DOMAIN mem = Fields, NEW t \in Threads, Write(t), crash' = crash, crash = NoOne
    PROVE  /\ Frame({"items", "file", "agg", "first", "last", "accepted", "mtx"})
           /\ mem'.mtx = NoOne /\ mem'.last \in Intervals \cup {mem.last}
           /\ mem'.accepted = IF mem.buf THEN mem.accepted \cup {cur[t]} ELSE mem.accepted
           /\ \/ mem.buf /\ Gain({cur[t]}) /\ mem'.agg = mem.agg
              \/ Aggregated(cur[t])
<1>1. t # NoOne
  BY TracerConstants
<1> DEFINE A(i) == IF i = 0 THEN <<mem, {}>> ELSE Aggregate(mem, cur[t], i)
           N(i) == IF i = 0 THEN {cur[t]} ELSE Folded(A(i)[2])
<1>2. PICK i \in {0} \cup Intervals :
         /\ mem.buf \/ N(i) = {}
         /\ \E r \in Append(A(i)[1], N(i)) : mem' = [r EXCEPT !.mtx = NoOne,
                !.accepted = IF mem.buf THEN @ \cup {cur[t]} ELSE @]
  BY <1>1 DEF Write, Crashes
<1> DEFINE a == A(i)[1]
           out == A(i)[2]
           new == N(i)
<1>3. /\ DOMAIN a = Fields /\ \A f \in Fields \ {"agg", "first", "last"} : a[f] = mem[f]
      /\ \/ new = {cur[t]} /\ a = mem
         \/ /\ i \in Intervals /\ new = Folded(out) /\ a.last \in {i, mem.last}
            /\ out \subseteq mem.agg /\ <<cur[t], i>> \notin out
            /\ a.agg = (mem.agg \cup {<<cur[t], i>>}) \ out
  <2>1. CASE i = 0
    BY <2>1
  <2>2. CASE i \in Intervals
    <3>1. i # 0
      BY <2>2 DEF Intervals
    <3> QED
      BY <2>2, <3>1, AggregateFrame
  <2> QED
    BY <2>1, <2>2
<1> HIDE DEF A, N, a, new, out
<1>4. PICK r \in Append(a, new) : mem' = [r EXCEPT !.mtx = NoOne,
                                !.accepted = IF mem.buf THEN @ \cup {cur[t]} ELSE @]
  BY <1>2 DEF a, new
<1>5. Appends(a, new, r)
  BY <1>3, <1>4, AppendFrame
<1>6. DOMAIN r = Fields
  BY <1>5 DEF Appends
<1>7. /\ DOMAIN mem' = Fields /\ mem'.mtx = NoOne
      /\ \A f \in Fields \ {"mtx", "accepted"} : mem'[f] = r[f]
      /\ mem'.accepted = IF mem.buf THEN r.accepted \cup {cur[t]} ELSE r.accepted
  BY <1>4, <1>6 DEF Fields
<1>8. Gain(new)
  BY <1>3, <1>5, <1>7 DEF Gain, Appends, Fields
<1>9. mem'.agg = a.agg /\ mem'.last = a.last
  BY <1>5, <1>7 DEF Appends, Fields
<1>10. Frame({"items", "file", "agg", "first", "last", "accepted", "mtx"})
  BY <1>3, <1>5, <1>7 DEF Frame, Appends, Fields
<1>11. mem'.accepted = IF mem.buf THEN mem.accepted \cup {cur[t]} ELSE mem.accepted
  BY <1>3, <1>5, <1>7 DEF Appends, Fields
<1>12. mem.buf \/ new = {}
  BY <1>2 DEF new
<1>13. CASE new = {cur[t]} /\ a = mem
  BY <1>7, <1>8, <1>9, <1>10, <1>11, <1>12, <1>13
<1>14. CASE /\ i \in Intervals /\ new = Folded(out) /\ a.last \in {i, mem.last}
            /\ out \subseteq mem.agg /\ <<cur[t], i>> \notin out
            /\ a.agg = (mem.agg \cup {<<cur[t], i>>}) \ out
  BY <1>7, <1>8, <1>9, <1>10, <1>11, <1>12, <1>14 DEF Aggregated
<1> QED
  BY <1>3, <1>13, <1>14

\* LocalBufferManager::initialize: an empty buffer and a new file.
LEMMA InitBufferMem ==
    ASSUME DOMAIN mem = Fields, InitBuffer
    PROVE  /\ Frame({"buf", "items", "file", "state"})
           /\ mem'.buf /\ mem'.items = {} /\ mem'.file = EmptyBag /\ mem'.state = "open"
BY DEF InitBuffer, Frame, Fields

\* Then the manager is ready.
LEMMA InitReadyMem ==
    ASSUME DOMAIN mem = Fields, InitReady
    PROVE  /\ Frame({"ready", "index"})
           /\ mem'.ready /\ mem'.index = mem.index + 1
BY DEF InitReady, Frame, Fields

\* The event start; tracing is on, and the first process binds the wrappers.
LEMMA StartedMem ==
    ASSUME DOMAIN mem = Fields, Started
    PROVE  /\ Frame({"items", "file", "accepted", "active", "init", "bound"})
           /\ Gain({StartEvent(mem.forks)})
           /\ mem'.accepted = mem.accepted \cup {StartEvent(mem.forks)}
           /\ mem'.active /\ mem'.init /\ (mem'.bound <=> mem.bound \/ mem.bind)
<1>1. PICK r \in Append(mem, {StartEvent(mem.forks)}) :
         mem' = [r EXCEPT !.accepted = @ \cup {StartEvent(mem.forks)},
                           !.active = TRUE, !.init = TRUE, !.bound = @ \/ mem.bind]
  BY DEF Started
<1>2. Appends(mem, {StartEvent(mem.forks)}, r)
  BY <1>1, AppendFrame
<1>3. DOMAIN r = Fields
  BY <1>2 DEF Appends
<1>4. /\ DOMAIN mem' = Fields
      /\ \A f \in Fields \ {"accepted", "active", "init", "bound"} : mem'[f] = r[f]
      /\ mem'.accepted = r.accepted \cup {StartEvent(mem.forks)}
  BY <1>1, <1>3 DEF Fields
<1>5. mem'.active /\ mem'.init
  BY <1>1, <1>3 DEF Fields
<1>6. (mem'.bound <=> r.bound \/ mem.bind)
  BY <1>1, <1>3 DEF Fields
<1> QED
  BY <1>2, <1>4, <1>5, <1>6 DEF Frame, Gain, Fields, Appends

\* The child has what the parent had, and a history of its own.
LEMMA ForkMem ==
    ASSUME DOMAIN mem = Fields, Fork
    PROVE  /\ Frame({"forks", "init", "bind", "index", "state", "accepted", "inherited",
                     "known", "unnamed", "jammed"})
           /\ mem'.forks = mem.forks + 1 /\ ~mem'.init /\ ~mem'.bind /\ mem'.index = 0
           /\ mem'.state = "none" /\ mem'.accepted = {} /\ mem'.inherited = Folded(mem.agg)
           /\ mem'.known = mem.hash /\ ~mem'.unnamed
BY DEF Fork, Frame, Fields

\* What flush() and finalize() do with the rows and the buffer.
WrittenOut ==
    /\ mem'.items = {} /\ mem'.agg = {}
    /\ mem'.file = mem.file (+) SetToBag(mem.items \cup Folded(mem.agg))

\* All rows go to the buffer and the buffer to the file.
LEMMA WriteOutFrame ==
    ASSUME DOMAIN mem = Fields
    PROVE  LET w == WriteOut(mem)
           IN  /\ DOMAIN w = Fields
               /\ \A f \in Fields \ {"items", "file", "agg"} : w[f] = mem[f]
               /\ w.items = {} /\ w.agg = {}
               /\ w.file = mem.file (+) SetToBag(mem.items \cup Folded(mem.agg))
<1>1. Rows(mem, TRUE) = mem.agg
  BY DEF Rows
<1> DEFINE a == [mem EXCEPT !.items = @ \cup Folded(Rows(mem, TRUE)), !.agg = {}]
<1>2. /\ DOMAIN a = Fields /\ \A f \in Fields \ {"items", "agg"} : a[f] = mem[f]
      /\ a.items = mem.items \cup Folded(mem.agg) /\ a.agg = {}
  BY <1>1 DEF Fields
<1>3. WriteOut(mem) = CompressAndWrite(a)
  BY DEF WriteOut
<1> HIDE DEF a
<1> DEFINE b == CompressAndWrite(a)
<1>4. /\ DOMAIN b = Fields /\ \A f \in Fields \ {"items", "file"} : b[f] = a[f]
      /\ b.items = {} /\ b.file = a.file (+) SetToBag(a.items)
  BY <1>2 DEF CompressAndWrite, Fields
<1> HIDE DEF b
<1>5. WriteOut(mem) = b
  BY <1>3 DEF b
<1>6. b.file = mem.file (+) SetToBag(mem.items \cup Folded(mem.agg)) /\ b.agg = {}
  BY <1>2, <1>4 DEF Fields
<1> QED
  BY <1>2, <1>4, <1>5, <1>6 DEF Fields

\* flush() before exec writes all out; what was accepted is due.
LEMMA FlushMem ==
    ASSUME DOMAIN mem = Fields, Flush
    PROVE  Frame({"items", "file", "agg", "due"}) /\ WrittenOut /\ mem'.due = mem.accepted
<1> DEFINE w == WriteOut(mem)
<1>1. /\ DOMAIN w = Fields /\ \A f \in Fields \ {"items", "file", "agg"} : w[f] = mem[f]
      /\ w.items = {} /\ w.agg = {}
      /\ w.file = mem.file (+) SetToBag(mem.items \cup Folded(mem.agg))
  BY WriteOutFrame
<1>2. mem' = [w EXCEPT !.due = mem.accepted]
  BY DEF Flush
<1> HIDE DEF w
<1> QED
  BY <1>1, <1>2 DEF Frame, WrittenOut, Fields

\* finalize() writes all out, closes or unlinks the file and frees the buffer.
LEMMA CloseMem ==
    ASSUME DOMAIN mem = Fields, Close
    PROVE  /\ Frame({"items", "file", "agg", "buf", "state"}) /\ WrittenOut /\ ~mem'.buf
           /\ mem'.state = IF mem.atfini < KeepFrom THEN "deleted" ELSE "closed"
<1> DEFINE w == WriteOut(mem)
<1>1. /\ DOMAIN w = Fields /\ \A f \in Fields \ {"items", "file", "agg"} : w[f] = mem[f]
      /\ w.items = {} /\ w.agg = {}
      /\ w.file = mem.file (+) SetToBag(mem.items \cup Folded(mem.agg))
  BY WriteOutFrame
<1>2. mem' = [w EXCEPT !.buf = FALSE,
                       !.state = IF mem.atfini < KeepFrom THEN "deleted" ELSE "closed"]
  BY DEF Close
<1> HIDE DEF w
<1> QED
  BY <1>1, <1>2 DEF Frame, WrittenOut, Fields

\* exec fails and changes nothing, or replaces the image.
LEMMA RealExecMem ==
    ASSUME DOMAIN mem = Fields, RealExec
    PROVE  \/ mem' = mem
           \/ Frame({"live", "state"}) /\ ~mem'.live /\ mem'.state = "replaced"
BY DEF RealExec, Frame, Fields

\* finalize frees the trie.
LEMMA FinalizeTrieMem ==
    ASSUME DOMAIN mem = Fields, FinalizeTrie
    PROVE  /\ Frame({"trie"})
           /\ ~mem'.trie
BY DEF FinalizeTrie, Frame, Fields

\* Only the process that bound the wrappers unbinds them.
LEMMA UnbindMem ==
    ASSUME DOMAIN mem = Fields, Unbind
    PROVE  /\ Frame({"stop", "bound", "index"})
           /\ (mem'.bound <=> mem.bound /\ ~mem.bind) /\ mem'.index = mem.index + 1
BY DEF Unbind, Frame, Fields

\* The event end; finalize reads the index after it was counted.
LEMMA EndMem ==
    ASSUME DOMAIN mem = Fields, End
    PROVE  /\ Frame({"items", "file", "accepted", "atfini", "counted"})
           /\ Gain({EndEvent(mem.forks)})
           /\ mem'.accepted = mem.accepted \cup {EndEvent(mem.forks)}
           /\ mem'.atfini = mem.index /\ mem'.counted = Cardinality(mem.accepted) + 1
<1>1. PICK r \in Append(mem, {EndEvent(mem.forks)}) :
         mem' = [r EXCEPT !.accepted = @ \cup {EndEvent(mem.forks)},
                          !.atfini = mem.index, !.counted = Cardinality(mem.accepted) + 1]
  BY DEF End
<1>2. Appends(mem, {EndEvent(mem.forks)}, r)
  BY <1>1, AppendFrame
<1>3. DOMAIN r = Fields
  BY <1>2 DEF Appends
<1>4. /\ DOMAIN mem' = Fields
      /\ \A f \in Fields \ {"accepted", "atfini", "counted"} : mem'[f] = r[f]
      /\ mem'.accepted = r.accepted \cup {EndEvent(mem.forks)}
  BY <1>1, <1>3 DEF Fields
<1>5. mem'.atfini = mem.index /\ mem'.counted = Cardinality(mem.accepted) + 1
  BY <1>1, <1>3 DEF Fields
<1> QED
  BY <1>2, <1>4, <1>5 DEF Frame, Gain, Fields, Appends

\* The manager refuses calls from here on.
LEMMA NotReadyMem ==
    ASSUME DOMAIN mem = Fields, NotReady
    PROVE  /\ Frame({"ready"})
           /\ ~mem'.ready
BY DEF NotReady, Frame, Fields

\* The logger drops its buffer manager.
LEMMA ResetMem ==
    ASSUME DOMAIN mem = Fields, Reset
    PROVE  /\ Frame({"bm"})
           /\ ~mem'.bm
BY DEF Reset, Frame, Fields

\* Tracing is off, and the cache of hashes is cleared.
LEMMA FinalizedMem ==
    ASSUME DOMAIN mem = Fields, Finalized
    PROVE  /\ Frame({"active", "hash", "init", "freed"})
           /\ ~mem'.active /\ ~mem'.hash /\ ~mem'.init /\ mem'.freed \subseteq Threads
BY DEF Finalized, Frame, Fields

\* The process ends.
LEMMA ExitMem ==
    ASSUME DOMAIN mem = Fields, Exit
    PROVE  /\ Frame({"live"})
           /\ ~mem'.live
BY DEF Exit, Frame, Fields

-----------------------------------------------------------------------------
(* The steps of a call, and the state that finalize takes apart.           *)

\* A step inside a call writes records and counts; it takes nothing apart.
LoggingFields == {"hash", "map", "freed", "unnamed", "index", "mtx", "items", "file", "agg", "first", "last",
                  "accepted"}

\* A step of a call stays in the call or returns, to idle or to the flush of exec,
\* and touches none of the pointers and flags that finalize takes apart.
LEMMA LoggingStep ==
    ASSUME DOMAIN mem = Fields, TypeOK, NEW t \in Threads, Logging(t)
    PROVE  /\ Frame(LoggingFields) /\ pc[t] \in Inside /\ mem.live
           /\ crash = NoOne /\ crash' \in {NoOne, t}
           /\ UNCHANGED <<cur, ret, late, calls>>
           /\ \E step \in Inside \cup {ret[t]} : pc' = [pc EXCEPT ![t] = step]
<1> USE DEF At, Goto, Rest, Crashes, Inside
<1>0. pc = [pc EXCEPT ![t] = pc[t]] /\ (mem' = mem => Frame(LoggingFields))
  BY DEF TypeOK, Frame
<1>1. CASE ReadHash(t)
  BY <1>0, <1>1, ReadHashMem DEF ReadHash, Frame, LoggingFields
<1>2. CASE HasHash(t) \/ Found(t) \/ Inserted(t)
  <2>1. Frame(LoggingFields)
    BY <1>2, MapMem DEF Frame, LoggingFields
  <2> QED
    BY <1>2, <2>1 DEF HasHash, Found, Inserted
<1>3. CASE InsertHash(t)
  BY <1>3, InsertHashMem DEF InsertHash, Frame, LoggingFields
<1>4. CASE NameHash(t)
  <2>1. Frame(LoggingFields)
    BY <1>0, <1>4, NameHashMem DEF NameHash, Frame, LoggingFields
  <2> QED
    BY <1>0, <1>4, <2>1 DEF NameHash
<1>5. CASE Lock(t)
  BY <1>5, LockMem DEF Lock, Frame, LoggingFields
<1>6. CASE NameWrite(t)
  <2>1. Frame(LoggingFields)
    BY <1>0, <1>6, NameWriteMem DEF NameWrite, Frame, LoggingFields
  <2> QED
    BY <1>0, <1>6, <2>1 DEF NameWrite
<1>7. CASE Log(t)
  BY <1>7, LogMem DEF Log, Frame, LoggingFields
<1>8. CASE Enter(t)
  <2>1. mem' = mem
    BY <1>8 DEF Enter
  <2> QED
    BY <1>0, <1>8, <2>1 DEF Enter
<1>9. CASE Write(t)
  <2>1. /\ At(t, "write") /\ Rest
        /\ Crashes(t) \/ (Goto(t, ret[t]) /\ UNCHANGED crash)
    BY <1>9 DEF Write
  <2>2. CASE Crashes(t)
    BY <1>0, <2>1, <2>2
  <2>3. CASE Goto(t, ret[t]) /\ UNCHANGED crash
    <3>1. Frame(LoggingFields)
      BY <1>9, <2>1, <2>3, WriteMem DEF Frame, LoggingFields
    <3> QED
      BY <2>1, <2>3, <3>1
  <2> QED
    BY <2>1, <2>2, <2>3
<1> QED
  BY <1>1, <1>2, <1>3, <1>4, <1>5, <1>6, <1>7, <1>8, <1>9 DEF Logging

\* The calls, and where in the logger they begin: the ones with no hash to log at
\* once, those with a path at the test of the cache, unless they are on something
\* tracked, whose hash they read.  One with a file needs the wrappers bound, and a
\* late one a reason to trace.
LEMMA BeginStep ==
    ASSUME NEW t \in Threads, Beginning(t)
    PROVE  /\ At(t, "idle") /\ mem' = mem /\ crash' = crash
           /\ \E step \in First, h \in BOOLEAN, after \in After :
                 /\ Begin(t, step, h, after)
                 /\ step = "log" => ~h /\ after = "idle" /\ (mem.init \/ t = Foreign)
                 /\ step # "log" =>
                       mem.bound /\ (mem.active \/ mem.init \/ TraceAll \/ mem.trie \/ mem.tracked)
                 /\ step = "read" => mem.tracked
                 /\ after = "track" => h
                 /\ after = "flush" => t = Main /\ mem.init
<1>1. At(t, "idle") /\ mem' = mem /\ crash' = crash
  BY DEF Beginning, Call, PathCall, FileCall, AtCall, Getcwd, Exec, Begin
<1> USE DEF First, After
<1>2. CASE Call(t)
  BY <1>1, <1>2 DEF Call
<1>3. CASE PathCall(t)
  BY <1>1, <1>3 DEF PathCall, Wrapped
<1>4. CASE FileCall(t) \/ AtCall(t)
  BY <1>1, <1>4 DEF FileCall, AtCall, Wrapped
<1>5. CASE Getcwd(t) \/ (Exec /\ t = Main)
  BY <1>1, <1>5 DEF Getcwd, Exec
<1> QED
  BY <1>2, <1>3, <1>4, <1>5, Zenon DEF Beginning

\* finalize takes apart what the threads still use, step by step, and none of
\* them puts anything back.
LEMMA MainNext ==
    ASSUME DOMAIN mem = Fields, TypeOK, MainInv, ThreadInv, [Next]_vars
    PROVE  MainInv'
<1> USE TracerConstants DEF MainInv, Running, Over, Closed, Booting, Ending, Calling, Inside,
      At, Goto, Rest
<1>0. Main \in DOMAIN pc /\ Main \in DOMAIN ret
  BY DEF TypeOK
<1>1. ASSUME NEW t \in Threads, Logging(t) PROVE MainInv'
  <2>1. /\ Frame(LoggingFields) /\ pc[t] \in Inside /\ ret' = ret
        /\ \E step \in Inside \cup {ret[t]} : pc' = [pc EXCEPT ![t] = step]
    BY <1>1, LoggingStep
  <2>2. \/ pc'[Main] = pc[Main]
        \/ /\ pc[Main] \in Inside /\ pc'[Main] \in Inside \cup {ret[Main]}
    BY <2>1, <1>0
  <2>3. ret[Main] \in {"idle", "track", "flush"}
    BY DEF TypeOK
  <2> QED
    BY <2>1, <2>2, <2>3 DEF Frame, Fields, LoggingFields
<1>19. ASSUME NEW t \in Threads, Track(t) PROVE MainInv'
  <2>1. /\ pc[t] = "track" /\ pc' = [pc EXCEPT ![t] = "idle"] /\ ret' = ret
        /\ Frame({"tracked"})
    BY <1>19, TrackMem DEF Track
  <2>2. pc'[Main] = pc[Main] \/ (pc[Main] = "track" /\ pc'[Main] = "idle")
    BY <2>1, <1>0
  <2> QED
    BY <2>1, <2>2 DEF Frame, Fields
<1>2. ASSUME NEW t \in Threads, Beginning(t) PROVE MainInv'
  <2>1. At(t, "idle") /\ mem' = mem
    BY <1>2, BeginStep
  <2>2. PICK step \in First, h \in BOOLEAN, after \in After :
           Begin(t, step, h, after) /\ (after = "flush" => t = Main /\ mem.init)
    BY <1>2, BeginStep
  <2>3. \/ pc'[Main] = pc[Main] /\ ret'[Main] = ret[Main]
        \/ pc'[Main] = step /\ ret'[Main] = after /\ pc[Main] = "idle"
    BY <2>2, <1>0 DEF Begin
  <2> QED
    BY <2>1, <2>2, <2>3 DEF First
<1>3. CASE InitBuffer
  BY <1>0, <1>3, InitBufferMem DEF InitBuffer, Frame, Fields
<1>4. CASE InitReady
  BY <1>0, <1>4, InitReadyMem DEF InitReady, Frame, Fields
<1>5. CASE Started
  <2>1. pc[Main] = "start" /\ mem.live /\ pc'[Main] = "idle" /\ ret' = ret
    BY <1>0, <1>5 DEF Started
  <2>2. /\ mem'.active /\ mem'.init
        /\ mem'.ready = mem.ready /\ mem'.buf = mem.buf /\ mem'.bm = mem.bm
        /\ mem'.state = mem.state /\ mem'.forks = mem.forks /\ mem'.bind = mem.bind
    BY <1>5, StartedMem DEF Frame, Fields
  <2> QED
    BY <2>1, <2>2
<1>6. CASE Fork
  <2>1. pc[Main] = "idle" /\ mem.init /\ mem.forks < MaxForks /\ pc'[Main] = "boot" /\ ret' = ret
    BY <1>6 DEF Fork
  <2>2. MaxForks \in Nat
    OBVIOUS
  <2>3. mem'.forks \in 0 .. MaxForks /\ mem'.forks > 0 /\ ~mem'.bind /\ mem'.state = "none"
    BY <1>6, <2>1, <2>2, ForkMem
  <2>4. /\ mem'.ready = mem.ready /\ mem'.buf = mem.buf /\ mem'.bm = mem.bm
        /\ mem'.active = mem.active /\ ~mem'.init
    BY <1>6, ForkMem DEF Frame, Fields
  <2> QED
    BY <2>1, <2>3, <2>4
<1>7. CASE ForkLate
  BY <1>7 DEF ForkLate, Crashes
<1>8. CASE Flush
  BY <1>0, <1>8, FlushMem DEF Flush, Frame, Fields
<1>9. CASE RealExec
  BY <1>0, <1>9, RealExecMem DEF RealExec, Frame, Fields
<1>10. CASE FinalizeTrie
  BY <1>0, <1>10, FinalizeTrieMem DEF FinalizeTrie, Frame, Fields
<1>11. CASE Unbind
  <2>1. pc[Main] = "unbind" /\ pc'[Main] = "end" /\ ret' = ret
    BY <1>0, <1>11 DEF Unbind
  <2>2. /\ mem'.bound <=> mem.bound /\ ~mem.bind
        /\ \A f \in {"forks", "bind", "init", "active", "trie", "ready", "buf", "bm", "state"} :
              mem'[f] = mem[f]
    BY <1>11, UnbindMem DEF Frame, Fields
  <2> QED
    BY <2>1, <2>2
<1>12. CASE End
  <2>1. pc[Main] = "end" /\ pc'[Main] = "not_ready" /\ ret' = ret
    BY <1>0, <1>12 DEF End
  <2>2. \A f \in {"forks", "bind", "bound", "init", "active", "trie", "ready", "buf", "bm", "state"} :
           mem'[f] = mem[f]
    BY <1>12, EndMem DEF Frame, Fields
  <2> QED
    BY <2>1, <2>2
<1>13. CASE NotReady
  <2>1. pc[Main] = "not_ready" /\ pc'[Main] = "close" /\ ret' = ret
    BY <1>0, <1>13 DEF NotReady
  <2>2. /\ ~mem'.ready
        /\ \A f \in {"forks", "bind", "bound", "init", "active", "trie", "buf", "bm", "state"} :
              mem'[f] = mem[f]
    BY <1>13, NotReadyMem DEF Frame, Fields
  <2> QED
    BY <2>1, <2>2
<1>14. CASE Close
  <2>1. pc[Main] = "close" /\ pc'[Main] = "reset" /\ ret' = ret
    BY <1>0, <1>14 DEF Close
  <2>2. /\ ~mem'.buf /\ mem'.state \in {"closed", "deleted"}
        /\ \A f \in {"forks", "bind", "bound", "init", "active", "trie", "ready", "bm"} :
              mem'[f] = mem[f]
    BY <1>14, CloseMem DEF Frame, Fields
  <2> QED
    BY <2>1, <2>2
<1>15. CASE Reset
  BY <1>0, <1>15, ResetMem DEF Reset, Frame, Fields
<1>16. CASE Finalized
  <2>1. pc[Main] = "inactive" /\ pc'[Main] = "idle" /\ ret' = ret
    BY <1>0, <1>16 DEF Finalized
  <2>2. /\ ~mem'.active /\ ~mem'.init
        /\ \A f \in {"forks", "bind", "bound", "trie", "ready", "buf", "bm", "state"} :
              mem'[f] = mem[f]
    BY <1>16, FinalizedMem DEF Frame, Fields
  <2> QED
    BY <2>1, <2>2
<1>17. CASE Exit
  BY <1>0, <1>17, ExitMem DEF Exit, Frame, Fields
<1>18. CASE UNCHANGED vars
  BY <1>18 DEF vars
<1> QED
  BY <1>1, <1>2, <1>3, <1>4, <1>5, <1>6, <1>7, <1>8, <1>9, <1>10, <1>11, <1>12, <1>13, <1>14,
     <1>15, <1>16, <1>17, <1>18, <1>19, Zenon DEF Next, Owning, Beginning

-----------------------------------------------------------------------------
(* The bag of the records in the file.                                     *)

\* What writing the set S to the file does to the number of times a record is in it.
LEMMA BagGains ==
    ASSUME NEW B, IsABag(B), NEW S
    PROVE  LET C == B (+) SetToBag(S)
           IN  /\ IsABag(C) /\ BagToSet(C) = BagToSet(B) \cup S
               /\ \A e \in BagToSet(B) \ S : C[e] = B[e]
               /\ \A e \in S \ BagToSet(B) : C[e] = 1
BY DEF IsABag, SetToBag, BagToSet, (+)

\* A new file holds no record.
LEMMA BagEmpty == IsABag(EmptyBag) /\ BagToSet(EmptyBag) = {}
BY DEF IsABag, EmptyBag, SetToBag, BagToSet

\* What a gain adds to the records of the process.
LEMMA GainKeeps ==
    ASSUME IsABag(mem.file), NEW new, Gain(new)
    PROVE  /\ IsABag(mem'.file)
           /\ BagToSet(mem'.file) \cup mem'.items = BagToSet(mem.file) \cup mem.items \cup new
           /\ BagToSet(mem.file) \subseteq BagToSet(mem'.file)
           /\ mem'.items = {} \/ mem'.items = mem.items \cup new
           /\ \A e \in BagToSet(mem.file) \ (mem.items \cup new) : mem'.file[e] = mem.file[e]
           /\ \A e \in (mem.items \cup new) \ BagToSet(mem.file) :
                 IF mem'.items = {} /\ new # {} THEN e \in BagToSet(mem'.file) /\ mem'.file[e] = 1
                                                ELSE e \notin BagToSet(mem'.file)
<1>1. CASE mem'.items = mem.items \cup new /\ mem'.file = mem.file
  <2>1. mem'.items = {} => new = {}
    BY <1>1
  <2> QED
    BY <1>1, <2>1
<1>2. CASE /\ mem'.items = {} /\ new # {}
           /\ mem'.file = mem.file (+) SetToBag(mem.items \cup new)
  BY <1>2, BagGains
<1> QED
  BY <1>1, <1>2 DEF Gain

-----------------------------------------------------------------------------
(* Types: of the threads, of the memory, and the holder of the mutex.      *)

ThreadTypes ==
    /\ pc \in [Threads -> Steps] /\ cur \in [Threads -> Events]
    /\ ret \in [Threads -> After]
    /\ late \in [Threads -> BOOLEAN] /\ calls \in [Threads -> Nat]
    /\ crash \in Threads \cup {NoOne}
MemoryTypes ==
    /\ IsABag(mem.file) /\ BagToSet(mem.file) \cup mem.items \subseteq Records
    /\ mem.agg \subseteq Events \X Intervals /\ mem.last \in 0 .. MaxInterval
    /\ mem.mtx \in Threads \cup {NoOne} /\ mem.map \cup mem.freed \subseteq Threads
    /\ mem.index \in Nat
    /\ mem.state \in {"none", "open", "closed", "deleted", "replaced"}
    /\ mem.items # {} => mem.buf
Excluded == \A t \in Threads : pc[t] \in {"name_write", "write"} => mem.mtx = t

\* TypeOK is the types of the threads, those of the memory, and exclusion.
LEMMA TypeParts ==
    /\ TypeOK <=> ThreadTypes /\ MemoryTypes /\ Excluded
    /\ TypeOK' <=> ThreadTypes' /\ MemoryTypes' /\ Excluded'
BY DEF TypeOK, ThreadTypes, MemoryTypes, Excluded, After

\* Every step keeps the types of the threads' variables.
LEMMA ThreadTypesNext ==
    ASSUME DOMAIN mem = Fields, TypeOK, [Next]_vars
    PROVE  ThreadTypes'
<1> USE TracerConstants, TypeParts DEF ThreadTypes, Steps, Goto, Rest, At
<1>1. ASSUME NEW t \in Threads, Logging(t) PROVE ThreadTypes'
  BY <1>1, LoggingStep DEF Inside, After
<1>2. ASSUME NEW t \in Threads, Beginning(t) PROVE ThreadTypes'
  <2>1. PICK step \in First, h \in BOOLEAN, after \in After :
           Begin(t, step, h, after) /\ mem' = mem /\ crash' = crash
    BY <1>2, BeginStep
  <2>2. <<t, calls[t] + 1, h>> \in Events /\ step \in Steps
    BY DEF Events, First
  <2>3. pc' \in [Threads -> Steps] /\ cur' \in [Threads -> Events]
    BY <2>1, <2>2 DEF Begin
  <2>4. late' \in [Threads -> BOOLEAN]
    <3>1. late' = [late EXCEPT ![t] = ~mem.active] /\ late \in [Threads -> BOOLEAN]
      BY <2>1 DEF Begin
    <3>2. (~mem.active) \in BOOLEAN
      BY Zenon
    <3> QED
      BY <3>1, <3>2, Zenon
  <2> QED
    BY <2>1, <2>3, <2>4 DEF Begin
<1>3. CASE InitBuffer
  BY <1>3 DEF InitBuffer
<1>4. CASE InitReady
  BY <1>4 DEF InitReady
<1>5. CASE Started
  BY <1>5 DEF Started
<1>6. CASE Fork
  BY <1>6 DEF Fork
<1>7. CASE ForkLate
  <2>1. late' = [late EXCEPT ![Main] = TRUE] /\ late \in [Threads -> BOOLEAN]
    BY <1>7 DEF ForkLate
  <2>2. late' \in [Threads -> BOOLEAN]
    BY <2>1, Zenon
  <2> QED
    BY <1>7, <2>2 DEF ForkLate, Crashes
<1>8. CASE Flush
  BY <1>8 DEF Flush
<1>9. CASE RealExec
  BY <1>9 DEF RealExec
<1>10. CASE FinalizeTrie
  BY <1>10 DEF FinalizeTrie
<1>11. CASE Unbind
  BY <1>11 DEF Unbind
<1>12. CASE End
  BY <1>12 DEF End
<1>13. CASE NotReady
  BY <1>13 DEF NotReady
<1>14. CASE Close
  BY <1>14 DEF Close
<1>15. CASE Reset
  BY <1>15 DEF Reset
<1>16. CASE Finalized
  BY <1>16 DEF Finalized
<1>17. CASE Exit
  BY <1>17 DEF Exit
<1>18. CASE UNCHANGED vars
  BY <1>18 DEF vars
<1>19. ASSUME NEW t \in Threads, Track(t) PROVE ThreadTypes'
  BY <1>19 DEF Track
<1> QED
  BY <1>1, <1>2, <1>3, <1>4, <1>5, <1>6, <1>7, <1>8, <1>9, <1>10, <1>11, <1>12, <1>13, <1>14,
     <1>15, <1>16, <1>17, <1>18, <1>19, Zenon DEF Next, Owning, Beginning

\* Every step keeps the fields of the memory and their types.
LEMMA MemoryTypesNext ==
    ASSUME DOMAIN mem = Fields, TypeOK, MainInv, [Next]_vars
    PROVE  MemoryTypes' /\ DOMAIN mem' = Fields
<1> USE TypeParts DEF MemoryTypes, Frame, Fields
<1>0. Name \in Records /\ StartEvent(mem.forks) \in Records /\ EndEvent(mem.forks) \in Records
  <2>1. mem.forks \in 0 .. MaxForks /\ MaxForks \in Nat
    BY TracerConstants DEF MainInv
  <2>2. 0 \in 0 .. MaxForks
    BY <2>1
  <2> QED
    BY <2>1, <2>2 DEF Records, Name, StartEvent, EndEvent
<1>a. \A s : s \subseteq Events \X Intervals => Folded(s) \subseteq Events
  BY DEF Folded
<1>b. Events \subseteq Records
  BY DEF Records
<1>1. ASSUME NEW t \in Threads, InsertHash(t) PROVE MemoryTypes' /\ DOMAIN mem' = Fields
  BY <1>1, InsertHashMem
<1>2. ASSUME NEW t \in Threads, NameHash(t) PROVE MemoryTypes' /\ DOMAIN mem' = Fields
  <2>1. CASE ~mem.bm
    BY <1>2, <2>1 DEF NameHash, Crashes
  <2>2. CASE mem.bm
    BY <1>2, <2>2, NameHashMem
  <2> QED
    BY <2>1, <2>2
<1>3. ASSUME NEW t \in Threads, Lock(t) PROVE MemoryTypes' /\ DOMAIN mem' = Fields
  BY <1>3, LockMem
<1>4. ASSUME NEW t \in Threads, NameWrite(t) PROVE MemoryTypes' /\ DOMAIN mem' = Fields
  <2>1. CASE ~mem.buf
    BY <1>4, <2>1 DEF NameWrite, Crashes
  <2>2. CASE mem.buf
    BY <1>0, <1>4, <2>2, NameWriteMem, GainKeeps
  <2> QED
    BY <2>1, <2>2
<1>5. ASSUME NEW t \in Threads, Log(t) PROVE MemoryTypes' /\ DOMAIN mem' = Fields
  BY <1>5, LogMem
<1>6. ASSUME NEW t \in Threads, Write(t) PROVE MemoryTypes' /\ DOMAIN mem' = Fields
  <2>1. CASE Crashes(t)
    BY <2>1 DEF Crashes
  <2>2. CASE ~Crashes(t)
    <3>1. crash' = crash /\ crash = NoOne
      BY <1>6, <2>2 DEF Write, At
    <3>2. /\ Frame({"items", "file", "agg", "first", "last", "accepted", "mtx"})
          /\ mem'.mtx = NoOne /\ mem'.last \in Intervals \cup {mem.last}
          /\ (mem.buf /\ Gain({cur[t]}) /\ mem'.agg = mem.agg) \/ Aggregated(cur[t])
      BY <1>6, <3>1, WriteMem
    <3>3. cur[t] \in Events /\ mem'.last \in 0 .. MaxInterval
      BY <3>2, TracerConstants DEF ThreadTypes, Intervals
    <3>4. CASE mem.buf /\ Gain({cur[t]}) /\ mem'.agg = mem.agg
      BY <1>b, <3>2, <3>3, <3>4, GainKeeps
    <3>5. CASE Aggregated(cur[t])
      <4>1. PICK i \in Intervals, out \in SUBSET mem.agg :
               /\ Gain(Folded(out)) /\ mem'.agg = (mem.agg \cup {<<cur[t], i>>}) \ out
               /\ mem.buf \/ Folded(out) = {}
        BY <3>5 DEF Aggregated
      <4>2. Folded(out) \subseteq Records
        BY <1>a, <1>b
      <4> QED
        BY <3>2, <3>3, <4>1, <4>2, GainKeeps
    <3> QED
      BY <3>2, <3>4, <3>5
  <2> QED
    BY <2>1, <2>2
<1>7. ASSUME NEW t \in Threads, Enter(t) PROVE mem' = mem
  BY <1>7 DEF Enter, Crashes
<1>8. ASSUME NEW t \in Threads, Beginning(t) PROVE mem' = mem
  BY <1>8, BeginStep
<1>24. ASSUME NEW t \in Threads, ReadHash(t) PROVE MemoryTypes' /\ DOMAIN mem' = Fields
  BY <1>24, ReadHashMem
<1>25. ASSUME NEW t \in Threads, HasHash(t) \/ Found(t) \/ Inserted(t)
       PROVE  MemoryTypes' /\ DOMAIN mem' = Fields
  BY <1>25, MapMem
<1>26. ASSUME NEW t \in Threads, Track(t) PROVE MemoryTypes' /\ DOMAIN mem' = Fields
  BY <1>26, TrackMem
<1>27. CASE mem' = mem
  BY <1>27
<1>28. ASSUME NEW t \in Threads, Logging(t) PROVE MemoryTypes' /\ DOMAIN mem' = Fields
  BY <1>1, <1>2, <1>3, <1>4, <1>5, <1>6, <1>7, <1>24, <1>25, <1>27, <1>28 DEF Logging
<1>9. CASE InitBuffer
  BY <1>9, InitBufferMem, BagEmpty
<1>10. CASE InitReady
  BY <1>10, InitReadyMem
<1>11. CASE Started
  <2>1. mem.buf
    BY <1>11 DEF Started, MainInv, At
  <2> QED
    BY <1>0, <1>11, <2>1, StartedMem, GainKeeps
<1>12. CASE Fork
  BY <1>12, ForkMem
<1>13. CASE Flush
  <2>1. Folded(mem.agg) \subseteq Records
    BY <1>a, <1>b
  <2> QED
    BY <1>13, <2>1, FlushMem, BagGains DEF WrittenOut
<1>14. CASE RealExec
  BY <1>14, RealExecMem
<1>15. CASE FinalizeTrie
  BY <1>15, FinalizeTrieMem
<1>16. CASE Unbind
  BY <1>16, UnbindMem
<1>17. CASE End
  <2>1. mem.buf
    BY <1>17 DEF End, MainInv, At
  <2> QED
    BY <1>0, <1>17, <2>1, EndMem, GainKeeps
<1>18. CASE NotReady
  BY <1>18, NotReadyMem
<1>19. CASE Close
  <2>1. Folded(mem.agg) \subseteq Records
    BY <1>a, <1>b
  <2> QED
    BY <1>19, <2>1, CloseMem, BagGains DEF WrittenOut
<1>20. CASE Reset
  BY <1>20, ResetMem
<1>21. CASE Finalized
  BY <1>21, FinalizedMem
<1>22. CASE Exit
  BY <1>22, ExitMem
<1>23. CASE ForkLate \/ UNCHANGED vars
  BY <1>23 DEF ForkLate, Crashes, vars
<1>29. CASE Owning
  BY <1>9, <1>10, <1>11, <1>13, <1>14, <1>16, <1>17, <1>18, <1>19, <1>20, <1>21, <1>29 DEF Owning
<1> QED
  BY <1>8, <1>12, <1>15, <1>22, <1>23, <1>26, <1>27, <1>28, <1>29, TracerConstants, Zenon
     DEF Next, Beginning

\* A thread writes with the mutex held; the main thread waits until it is free.
LEMMA ExcludedNext ==
    ASSUME DOMAIN mem = Fields, TypeOK, MainInv, ThreadInv, [Next]_vars
    PROVE  Excluded'
<1> USE TypeParts DEF Excluded, Goto, At, ThreadTypes
<1>1. ASSUME NEW t \in Threads, Logging(t) PROVE Excluded'
  <2>1. CASE Lock(t)
    <3>1. mem.mtx = NoOne /\ mem'.mtx = t
      BY <2>1, LockMem DEF Lock
    <3>2. \A u \in Threads \ {t} : pc'[u] = pc[u] /\ pc[u] \notin {"name_write", "write"}
      BY <2>1, <3>1, TracerConstants DEF Lock
    <3> QED
      BY <3>1, <3>2
  <2>2. CASE NameWrite(t) \/ Write(t)
    <3>1. CASE Crashes(t)
      BY <3>1 DEF Crashes
    <3>2. CASE ~Crashes(t)
      <4>1. mem.mtx = t /\ pc'[t] \notin {"name_write", "write"}
        <5>1. pc[t] \in {"name_write", "write"} /\ (pc' = [pc EXCEPT ![t] = "read"]
                 \/ pc' = [pc EXCEPT ![t] = ret[t]])
          BY <2>2, <3>2 DEF NameWrite, Write
        <5> QED
          BY <5>1 DEF After
      <4>2. \A u \in Threads \ {t} : pc'[u] = pc[u] /\ pc[u] \notin {"name_write", "write"}
        BY <2>2, <3>2, <4>1 DEF NameWrite, Write
      <4> QED
        BY <4>1, <4>2
    <3> QED
      BY <3>1, <3>2
  <2>3. CASE ~Lock(t) /\ ~NameWrite(t) /\ ~Write(t)
    <3>1. \/ pc' = pc
          \/ \E s \in Steps \ {"name_write", "write"} : pc' = [pc EXCEPT ![t] = s]
      <4>1. CASE ReadHash(t) \/ HasHash(t) \/ Found(t) \/ InsertHash(t) \/ Inserted(t)
        BY <4>1 DEF ReadHash, HasHash, Found, InsertHash, Inserted, Crashes, Steps
      <4>2. CASE NameHash(t) \/ Log(t) \/ Enter(t)
        BY <4>2 DEF NameHash, Log, Enter, Crashes, Steps, After
      <4> QED
        BY <1>1, <2>3, <4>1, <4>2 DEF Logging
    <3>2. mem'.mtx = mem.mtx
      <4>1. CASE ReadHash(t) \/ HasHash(t) \/ Found(t) \/ Inserted(t)
        BY <4>1, ReadHashMem, MapMem DEF Frame, Fields
      <4>2. CASE InsertHash(t) \/ Log(t)
        BY <4>2, InsertHashMem, LogMem DEF Frame, Fields
      <4>3. CASE NameHash(t)
        BY <4>3, NameHashMem DEF NameHash, Crashes, Frame, Fields
      <4>4. CASE Enter(t)
        BY <4>4 DEF Enter, Crashes
      <4> QED
        BY <1>1, <2>3, <4>1, <4>2, <4>3, <4>4 DEF Logging
    <3> QED
      BY <3>1, <3>2
  <2> QED
    BY <2>1, <2>2, <2>3
<1>2. ASSUME NEW t \in Threads, Beginning(t) PROVE Excluded'
  BY <1>2, BeginStep DEF Begin, First
<1>3. CASE Fork
  BY <1>3, ForkMem DEF Fork, Frame, Fields
<1>4. CASE ForkLate \/ Exit \/ UNCHANGED vars
  BY <1>4, ExitMem DEF ForkLate, Exit, vars, Crashes, Frame, Fields
<1>5. CASE Owning \/ FinalizeTrie
  <2>1. mem'.mtx = mem.mtx
    BY <1>5, InitBufferMem, InitReadyMem, StartedMem, FlushMem, RealExecMem, FinalizeTrieMem,
       UnbindMem, EndMem, NotReadyMem, CloseMem, ResetMem, FinalizedMem DEF Owning, Frame, Fields
  <2>2. \E s \in Steps \ {"name_write", "write"} : pc' = [pc EXCEPT ![Main] = s]
    BY <1>5 DEF Owning, InitBuffer, InitReady, Started, Flush, RealExec, FinalizeTrie,
       Unbind, End, NotReady, Close, Reset, Finalized, Steps
  <2> QED
    BY <2>1, <2>2, TracerConstants
<1>6. ASSUME NEW t \in Threads, Track(t) PROVE Excluded'
  BY <1>6, TrackMem DEF Track, Frame, Fields
<1> QED
  BY <1>1, <1>2, <1>3, <1>4, <1>5, <1>6, TracerConstants DEF Next, Beginning

-----------------------------------------------------------------------------
(* Where the threads are, and which of them can still crash.               *)

\* At the end of the process, and in a crash, all is over.
LEMMA InactiveIsOver ==
    ASSUME TypeOK, MainInv, ThreadInv
    PROVE  /\ ~mem.active => Over
           /\ ~mem.bm => Closed
           /\ ~mem.buf => Closed \/ (pc[Main] = "boot" /\ mem.forks = 0)
<1>1. pc[Main] \in Booting \cup Ending \cup Calling
  BY TracerConstants DEF TypeOK, Steps, ThreadInv, Booting, Ending, Calling, Inside
<1> QED
  BY <1>1 DEF MainInv, Running, Over, Closed, Booting, Ending, Calling

\* Only the main thread leaves the calls, and a fork leaves it alone.
LEMMA ThreadNext ==
    ASSUME DOMAIN mem = Fields, TypeOK, MainInv, ThreadInv, [Next]_vars
    PROVE  ThreadInv'
<1> USE TracerConstants, TypeParts DEF ThreadTypes, ThreadInv, Goto, At, Inside
<1>1. ASSUME NEW t \in Threads, Logging(t) PROVE ThreadInv'
  <2>1. /\ Frame(LoggingFields) /\ pc[t] \in Inside /\ UNCHANGED <<cur, ret, calls>>
        /\ \E step \in Inside \cup {ret[t]} : pc' = [pc EXCEPT ![t] = step]
    BY <1>1, LoggingStep
  <2>2. mem'.forks = mem.forks
    BY <2>1 DEF Frame, Fields, LoggingFields
  <2>3. ASSUME t # Main, pc[Main] \in {"boot", "boot_ready"}
        PROVE  ret[t] = "idle" /\ pc'[t] \in {"idle", "log", "enter"}
    <3>1. pc[t] \in {"log", "enter"} /\ ret[t] = "idle" /\ ~mem.ready
      BY <2>1, <2>3 DEF MainInv
    <3>2. Log(t) \/ Enter(t)
      BY <1>1, <3>1 DEF Logging, ReadHash, HasHash, Found, InsertHash, Inserted, NameHash, Lock,
         NameWrite, Write
    <3> QED
      BY <3>1, <3>2 DEF Log, Enter, Crashes
  <2>4. ret[t] \in {"idle", "track", "flush"}
    BY DEF After
  <2>5. pc'[Main] \in {"boot", "boot_ready"} => pc'[Main] = pc[Main] /\ t # Main
    BY <2>1, <2>4
  <2>6. \A u \in Threads \ {t} : pc'[u] = pc[u]
    BY <2>1
  <2>7. pc'[t] \in Inside \cup {ret[t]} /\ pc[t] # "gone"
    BY <2>1
  <2>8. pc'[Main] # "gone"
    BY <2>4, <2>6, <2>7
  <2>9. \A u \in Threads \ {Main} : pc'[u] = "gone" <=> pc[u] = "gone"
    BY <2>4, <2>6, <2>7
  <2>10. \A u \in Threads \ {Main} : pc'[u] \in Inside \cup {"idle", "track", "gone"}
    BY <2>4, <2>6, <2>7
  <2>11. \A u \in Threads : pc'[u] \in Inside => pc[u] \in Inside
    BY <2>1, <2>6
  <2> HIDE DEF Inside
  <2> QED
    BY <2>1, <2>2, <2>3, <2>5, <2>6, <2>8, <2>9, <2>10, <2>11
<1>2. ASSUME NEW t \in Threads, Beginning(t) PROVE ThreadInv'
  <2>1. PICK step \in First, h \in BOOLEAN, after \in After :
           /\ Begin(t, step, h, after) /\ mem' = mem
           /\ after = "flush" => t = Main
           /\ after = "track" => h
           /\ step = "log" => after = "idle"
           /\ step # "log" => mem.bound
    BY <1>2, BeginStep
  <2>2. t # Main /\ pc[Main] \in {"boot", "boot_ready"} => step = "log"
    BY <2>1 DEF MainInv, Begin
  <2>3. pc' = [pc EXCEPT ![t] = step] /\ pc[t] = "idle" /\ ret' = [ret EXCEPT ![t] = after]
        /\ cur' = [cur EXCEPT ![t] = <<t, calls[t] + 1, h>>]
        /\ calls' = [calls EXCEPT ![t] = calls[t] + 1]
    BY <2>1 DEF Begin
  <2>4. cur'[t] = <<t, calls[t] + 1, h>> /\ <<t, calls[t] + 1, h>>[3] = h
    BY <2>3
  <2> QED
    BY <2>1, <2>2, <2>3, <2>4 DEF First, After
<1>3. CASE Fork
  BY <1>3, ForkMem DEF Fork, Rest, MainInv
<1>4. CASE ForkLate \/ Exit \/ UNCHANGED vars
  <2>1. UNCHANGED <<pc, cur, ret, calls>>
    BY <1>4 DEF ForkLate, Exit, vars, Crashes, Rest
  <2>2. mem'.forks = mem.forks
    BY <1>4, ExitMem DEF ForkLate, vars, Crashes, Frame, Fields
  <2> QED
    BY <2>1, <2>2
<1>5. CASE Owning \/ FinalizeTrie
  <2>1. mem'.forks = mem.forks
    BY <1>5, InitBufferMem, InitReadyMem, StartedMem, FlushMem, RealExecMem, FinalizeTrieMem,
       UnbindMem, EndMem, NotReadyMem, CloseMem, ResetMem, FinalizedMem DEF Owning, Frame, Fields
  <2>2. /\ UNCHANGED <<cur, ret, calls>>
        /\ \E s \in Steps \ ({"gone"} \cup Inside) : pc' = [pc EXCEPT ![Main] = s]
    BY <1>5 DEF Owning, InitBuffer, InitReady, Started, Flush, RealExec, FinalizeTrie,
       Unbind, End, NotReady, Close, Reset, Finalized, Steps, Rest
  <2>3. \/ InitBuffer
        \/ \E s \in Steps \ {"boot", "boot_ready"} : pc' = [pc EXCEPT ![Main] = s]
    BY <1>5 DEF Owning, InitReady, Started, Flush, RealExec, FinalizeTrie,
       Unbind, End, NotReady, Close, Reset, Finalized, Steps
  <2>4. pc'[Main] \in {"boot", "boot_ready"} => pc[Main] \in {"boot", "boot_ready"}
    BY <2>3 DEF InitBuffer
  <2> QED
    BY <2>1, <2>2, <2>4
<1>6. ASSUME NEW t \in Threads, Track(t) PROVE ThreadInv'
  <2>1. /\ pc[t] = "track" /\ pc' = [pc EXCEPT ![t] = "idle"] /\ UNCHANGED <<cur, ret, calls>>
        /\ mem'.forks = mem.forks
    BY <1>6, TrackMem DEF Track, Rest, Frame, Fields
  <2> QED
    BY <2>1
<1> QED
  BY <1>1, <1>2, <1>3, <1>4, <1>5, <1>6 DEF Next, Beginning

\* A call that finds tracing off stops at the first test of the pointer, but for
\* the paths of a child that traces all files.
LEMMA LateNext ==
    ASSUME DOMAIN mem = Fields, TypeOK, MainInv, ThreadInv, LateInv, [Next]_vars
    PROVE  LateInv'
<1> USE TracerConstants, TypeParts DEF ThreadTypes, LateInv, Goto, At, Inside
<1>0. /\ ~mem.active => Over
      /\ Over => pc[Main] \notin Ending \cup Booting
  BY InactiveIsOver DEF MainInv, Over
<1>1. ASSUME NEW t \in Threads, Logging(t) PROVE LateInv'
  <2>1. /\ Frame(LoggingFields) /\ pc[t] \in Inside /\ UNCHANGED <<cur, ret, late, calls>>
        /\ \E step \in Inside \cup {ret[t]} : pc' = [pc EXCEPT ![t] = step]
    BY <1>1, LoggingStep
  <2>2. /\ mem'.forks = mem.forks /\ mem'.active = mem.active /\ mem'.tracked = mem.tracked
        /\ mem'.freed \subseteq mem.freed
    <3>1. mem'.freed \subseteq mem.freed
      <4>1. CASE ReadHash(t)
        BY <4>1, ReadHashMem
      <4>2. CASE HasHash(t) \/ Found(t) \/ InsertHash(t) \/ Inserted(t)
        BY <4>2, MapMem, InsertHashMem DEF Frame, Fields
      <4>3. CASE NameHash(t) \/ Enter(t) \/ NameWrite(t)
        BY <4>3, NameHashMem, NameWriteMem DEF NameHash, Enter, NameWrite, Crashes, Frame, Fields
      <4>4. CASE Lock(t) \/ Log(t)
        BY <4>4, LockMem, LogMem DEF Frame, Fields
      <4>5. CASE Write(t)
        <5>1. Crashes(t) \/ (crash' = crash /\ crash = NoOne)
          BY <4>5 DEF Write
        <5> QED
          BY <4>5, <5>1, WriteMem DEF Crashes, Frame, Fields
      <4> QED
        BY <1>1, <4>1, <4>2, <4>3, <4>4, <4>5 DEF Logging
    <3> QED
      BY <2>1, <3>1 DEF Frame, Fields, LoggingFields
  <2>3. ASSUME t # Main, late[t] PROVE pc'[t] = "idle"
    <3>1. pc[t] = "log" /\ ~mem.bm /\ ret[t] = "idle"
      BY <1>0, <2>1, <2>3 DEF Over, ThreadInv
    <3>2. Log(t)
      BY <1>1, <3>1 DEF Logging, ReadHash, HasHash, Found, InsertHash, Inserted, NameHash, Lock,
         NameWrite, Write, Enter
    <3> QED
      BY <3>1, <3>2 DEF Log
  <2>4. pc'[Main] \in Inside => pc[Main] \in Inside
    BY <2>1
  <2> QED
    BY <2>1, <2>2, <2>3, <2>4
<1>2. ASSUME NEW t \in Threads, Beginning(t) PROVE LateInv'
  <2>1. PICK step \in First, h \in BOOLEAN, after \in After :
           /\ Begin(t, step, h, after) /\ mem' = mem
           /\ step = "log" => after = "idle" /\ (mem.init \/ t = Foreign)
           /\ step # "log" =>
                 mem.bound /\ (mem.active \/ mem.init \/ TraceAll \/ mem.trie \/ mem.tracked)
    BY <1>2, BeginStep
  <2>2. /\ pc' = [pc EXCEPT ![t] = step] /\ pc[t] = "idle"
        /\ \A u \in Threads \ {t} : late'[u] = late[u]
        /\ late'[t] <=> ~mem.active
    <3>1. pc' = [pc EXCEPT ![t] = step] /\ pc[t] = "idle"
      BY <2>1 DEF Begin
    <3>2. late' = [late EXCEPT ![t] = ~mem.active] /\ t \in DOMAIN late
      BY <2>1 DEF Begin, ThreadTypes
    <3>3. \A u \in Threads \ {t} : late'[u] = late[u]
      BY <3>2 DEF ThreadTypes
    <3>4. late'[t] = ~mem.active
      BY <3>2, Zenon
    <3> QED
      BY <3>1, <3>3, <3>4, Zenon
  <2>3. ASSUME t # Main, ~mem.active PROVE pc'[t] = "log" /\ ret'[t] = "idle"
    <3>1. step = "log" /\ after = "idle"
      BY <1>0, <2>1, <2>2, <2>3 DEF Over, ThreadInv
    <3>2. ret' = [ret EXCEPT ![t] = after] /\ ret \in [Threads -> After]
      BY <2>1 DEF Begin
    <3> QED
      BY <2>2, <3>1, <3>2
  <2>4. ASSUME t = Main, ~mem.active PROVE mem.forks > 0 /\ (TraceAll \/ mem.tracked)
    <3>1. ~mem.init /\ ~mem.trie /\ (mem.bound => mem.forks > 0) /\ Foreign # Main
      BY <1>0, <2>4 DEF Over
    <3> QED
      BY <2>1, <2>4, <3>1
  <2>5. \A u \in Threads \ {t} : pc'[u] = pc[u] /\ ret'[u] = ret[u]
    BY <2>1 DEF Begin
  <2> QED
    BY <2>1, <2>2, <2>3, <2>4, <2>5
<1>3. CASE Fork
  <2>1. mem.active /\ pc[Main] = "idle" /\ mem'.active = mem.active /\ mem'.freed = mem.freed
    BY <1>0, <1>3, ForkMem DEF Fork, Over, Frame, Fields
  <2>2. pc'[Main] = "boot" /\ late' = late
    BY <1>3 DEF Fork, Rest
  <2> QED
    BY <2>1, <2>2
<1>4. CASE ForkLate
  BY <1>4 DEF ForkLate, Crashes
<1>5. CASE Exit \/ UNCHANGED vars
  <2>1. UNCHANGED <<pc, ret, late>>
    BY <1>5 DEF Exit, vars, Rest
  <2>2. /\ mem'.forks = mem.forks /\ mem'.active = mem.active /\ mem'.tracked = mem.tracked
        /\ mem'.freed = mem.freed
    BY <1>5, ExitMem DEF vars, Frame, Fields
  <2> QED
    BY <2>1, <2>2
<1>6. CASE Owning \/ FinalizeTrie
  <2>1. /\ mem'.forks = mem.forks /\ mem'.tracked = mem.tracked
        /\ mem'.active = mem.active \/ mem.active
        /\ mem'.freed = mem.freed \/ ~mem'.active
    <3>1. CASE Started
      BY <1>0, <3>1, StartedMem DEF Started, Booting, Frame, Fields
    <3>2. CASE Finalized
      BY <1>0, <3>2, FinalizedMem DEF Finalized, Ending, Frame, Fields
    <3> QED
      BY <1>6, <3>1, <3>2, InitBufferMem, InitReadyMem, FlushMem, RealExecMem, FinalizeTrieMem,
         UnbindMem, EndMem, NotReadyMem, CloseMem, ResetMem DEF Owning, Frame, Fields
  <2>2. late' = late /\ ret' = ret
    BY <1>6 DEF Owning, InitBuffer, InitReady, Started, Flush, RealExec, FinalizeTrie,
       Unbind, End, NotReady, Close, Reset, Finalized, Rest
  <2>3. \E s \in Steps \ ({"gone"} \cup Inside) : pc' = [pc EXCEPT ![Main] = s]
    BY <1>6 DEF Owning, InitBuffer, InitReady, Started, Flush, RealExec, FinalizeTrie,
       Unbind, End, NotReady, Close, Reset, Finalized, Steps
  <2> QED
    BY <2>1, <2>2, <2>3
<1>7. ASSUME NEW t \in Threads, Track(t) PROVE LateInv'
  <2>1. /\ pc' = [pc EXCEPT ![t] = "idle"] /\ UNCHANGED <<ret, late>> /\ mem'.forks = mem.forks
        /\ mem'.active = mem.active /\ mem'.freed = mem.freed /\ mem'.tracked
    BY <1>7, TrackMem DEF Track, Rest, Frame, Fields
  <2> QED
    BY <2>1
<1> QED
  BY <1>1, <1>2, <1>3, <1>4, <1>5, <1>6, <1>7 DEF Next, Beginning

\* Whoever crashes has read a pointer that finalize has reset.
LEMMA CrashNext ==
    ASSUME DOMAIN mem = Fields, TypeOK, MainInv, ThreadInv, LateInv, CrashOnlyInFinalize,
           [Next]_vars
    PROVE  CrashOnlyInFinalize'
<1> USE TracerConstants, TypeParts DEF ThreadTypes, CrashOnlyInFinalize, Goto, At, Inside
<1>1. ASSUME NEW t \in Threads, Logging(t) PROVE CrashOnlyInFinalize'
  <2>1. CASE crash' = NoOne
    BY <2>1
  <2>2. CASE crash' # NoOne
    <3>1. crash = NoOne /\ crash' = t /\ late' = late
      BY <1>1, <2>2, LoggingStep
    <3>2. /\ mem' = mem /\ pc' = pc
          /\ \/ pc[t] \in {"read_dir", "read"} /\ ~mem.active
             \/ pc[t] \in {"name", "enter"} /\ ~mem.bm
             \/ pc[t] \in {"name_write", "write"} /\ ~mem.buf
      <4>1. CASE ReadHash(t)
        BY <2>2, <3>1, <4>1 DEF ReadHash, Crashes, LateInv
      <4>2. CASE NameHash(t) \/ Enter(t) \/ NameWrite(t)
        BY <2>2, <3>1, <4>2 DEF NameHash, Enter, NameWrite, Crashes
      <4>3. CASE Write(t)
        BY <2>2, <3>1, <4>3 DEF Write, Crashes
      <4>4. ~(HasHash(t) \/ Found(t) \/ InsertHash(t) \/ Inserted(t) \/ Lock(t) \/ Log(t))
        BY <2>2, <3>1 DEF HasHash, Found, InsertHash, Inserted, Lock, Log
      <4> QED
        BY <1>1, <4>1, <4>2, <4>3, <4>4 DEF Logging
    <3>3. Closed
      <4>1. pc[t] \in {"name_write", "write"} => ~(pc[Main] = "boot")
        BY DEF ThreadInv
      <4> QED
        BY <3>2, <4>1, InactiveIsOver DEF Over
    <3>4. CASE t # Main
      BY <3>1, <3>2, <3>3, <3>4 DEF LateInv, Closed
    <3>5. CASE t = Main
      <4>1. pc[Main] \in Inside /\ pc[Main] \in Calling /\ ~Running
        BY <3>2, <3>5 DEF Calling, Running
      <4>2. ~mem.active
        BY <4>1 DEF MainInv, Over
      <4> QED
        BY <3>1, <3>2, <3>3, <3>5, <4>2 DEF LateInv, Closed
    <3> QED
      BY <3>4, <3>5
  <2> QED
    BY <2>1, <2>2
<1>2. CASE ForkLate
  <2>1. Over
    BY <1>2, InactiveIsOver DEF ForkLate
  <2> QED
    BY <1>2, <2>1 DEF ForkLate, Crashes, Over, Closed
<1>3. CASE UNCHANGED vars
  BY <1>3 DEF vars
<1>4. ASSUME NEW t \in Threads, Beginning(t)
      PROVE  CrashOnlyInFinalize'
  BY <1>4, BeginStep DEF Begin
<1>5. CASE Fork \/ Exit \/ Owning \/ FinalizeTrie
  <2>1. crash' = NoOne
    BY <1>5 DEF Owning, InitBuffer, InitReady, Started, Flush, RealExec, FinalizeTrie,
       Unbind, End, NotReady, Close, Reset, Finalized, Fork, Exit
  <2> QED
    BY <2>1
<1>6. ASSUME NEW t \in Threads, Track(t) PROVE CrashOnlyInFinalize'
  BY <1>6 DEF Track
<1> QED
  BY <1>1, <1>2, <1>3, <1>4, <1>5, <1>6 DEF Next, Beginning

-----------------------------------------------------------------------------
(* The name of the hash.                                                   *)

\* No step but a child's initialization takes records away, and none but a
\* fork the other reasons.
LEMMA NamedStays ==
    ASSUME Named,
           mem.known => mem'.known, mem.unnamed => mem'.unnamed,
           mem.items \cup BagToSet(mem.file) \subseteq mem'.items \cup BagToSet(mem'.file),
           \A t \in Threads : pc[t] \in Naming => pc'[t] \in Naming
    PROVE  Named'
BY DEF Named

\* The hash is cached only by a thread that goes on to log the name, so until the
\* name is in the trace, that thread is on its way or found the manager not ready.
LEMMA HashNext ==
    ASSUME DOMAIN mem = Fields, TypeOK, MainInv, ThreadInv, HashInv, [Next]_vars
    PROVE  HashInv'
<1> DEFINE Cause == \/ mem.hash \/ mem.tracked \/ (\E e \in mem.accepted : e[3])
                    \/ (\E t \in Threads : Hashed(t))
           Has(t) == Hashed(t) \/ pc[t] \in Naming
           Cached == mem.active /\ (mem.tracked \/ \E t \in Threads : Has(t)) => mem.hash
           Boot == pc[Main] = "boot" => /\ mem.accepted = {} /\ (mem.hash => mem.known)
                                        /\ \A t \in Threads : ~Hashed(t)
<1>0. /\ HashInv <=> (Cause => Named) /\ Cached /\ Boot
      /\ HashInv' <=> (Cause' => Named') /\ Cached' /\ Boot'
  BY Zenon DEF HashInv
<1> USE TracerConstants, TypeParts DEF ThreadTypes, Goto, At
<1>1. ASSUME NEW t \in Threads, Logging(t) PROVE HashInv'
  <2>0. /\ UNCHANGED <<cur, ret>> /\ pc[t] \in Inside
        /\ \A u \in Threads \ {t} : (Hashed(u)' <=> Hashed(u)) /\ pc'[u] = pc[u]
        /\ pc'[Main] = "boot" =>
              /\ pc[Main] = "boot" /\ t # Main /\ ret[t] = "idle" /\ pc[t] \in {"log", "enter"}
    <3>1. /\ UNCHANGED <<cur, ret>> /\ pc[t] \in Inside
          /\ \E step \in Inside \cup {ret[t]} : pc' = [pc EXCEPT ![t] = step]
      BY <1>1, LoggingStep
    <3>2. pc'[Main] = "boot" => pc[Main] = "boot" /\ t # Main
      BY <3>1 DEF Inside, After
    <3> QED
      BY <3>1, <3>2 DEF Hashed, ThreadInv, Inside
  <2>a. mem'.active = mem.active /\ mem'.tracked = mem.tracked /\ mem'.known = mem.known
    BY <1>1, LoggingStep DEF Frame, Fields, LoggingFields
  <2>b. ASSUME Cause' => Named', mem.hash => mem'.hash, Has(t)' => Has(t) \/ mem'.hash, Boot'
        PROVE  HashInv'
    <3>1. \A u \in Threads : Has(u)' => Has(u) \/ mem'.hash
      BY <2>0, <2>b
    <3>2. Cached'
      BY <1>0, <2>a, <2>b, <3>1
    <3> QED
      BY <1>0, <2>b, <3>2
  <2>1. CASE ReadHash(t)
    <3>1. \A f \in {"hash", "accepted", "known", "unnamed", "items", "file"} : mem'[f] = mem[f]
      BY <2>1, ReadHashMem DEF Frame, Fields
    <3>2. /\ pc[t] \in {"read_dir", "read"}
          /\ pc'[t] = pc[t] \/ (pc'[t] = IF pc[t] = "read_dir" THEN "hash" ELSE "log")
      BY <2>1 DEF ReadHash, Crashes
    <3>3. (Hashed(t)' => Hashed(t)) /\ pc'[t] \notin Naming
      BY <2>0, <3>2 DEF Hashed, Counting, Naming
    <3>4. Cause' => Cause
      BY <2>0, <2>a, <3>1, <3>3
    <3>5. Named => Named'
      BY <2>0, <3>1, <3>2, NamedStays DEF Naming
    <3>6. pc'[Main] # "boot"
      BY <2>0, <3>2
    <3> QED
      BY <1>0, <2>b, <3>1, <3>3, <3>4, <3>5, <3>6
  <2>2. CASE HasHash(t) \/ Found(t)
    <3>1. \A f \in {"hash", "accepted", "known", "unnamed", "items", "file"} : mem'[f] = mem[f]
      BY <2>2, MapMem DEF Frame, Fields
    <3>2. pc[t] \in {"hash", "find"} /\ pc'[t] \in {"find", "read", "insert"}
          /\ (pc'[t] = "read" => mem.hash)
      BY <2>2 DEF HasHash, Found
    <3>3. (Hashed(t)' => mem.hash) /\ pc'[t] \notin Naming
      BY <2>0, <3>2 DEF Hashed, Counting, Naming
    <3>4. Cause' => Cause
      BY <2>0, <2>a, <3>1, <3>3
    <3>5. Named => Named'
      BY <2>0, <3>1, <3>2, NamedStays DEF Naming
    <3>6. pc'[Main] # "boot"
      BY <2>0, <3>2
    <3> QED
      BY <1>0, <2>b, <3>1, <3>3, <3>4, <3>5, <3>6
  <2>3. CASE InsertHash(t) \/ Inserted(t)
    <3>1. pc'[t] \in Naming /\ pc[t] \in {"insert", "store"} /\ (pc[t] = "store" => pc[t] \in Naming)
      BY <2>3 DEF InsertHash, Inserted, Naming
    <3>2. (mem.hash => mem'.hash) /\ (pc[t] = "insert" => mem'.hash)
      BY <2>3, InsertHashMem, MapMem DEF Inserted, Frame, Fields
    <3>3. Named' /\ pc'[Main] # "boot"
      BY <2>0, <3>1 DEF Named
    <3> QED
      BY <2>b, <3>1, <3>2, <3>3
  <2>4. CASE NameHash(t)
    <3>1. pc[t] = "name" /\ pc[t] \in Naming
      BY <2>4 DEF NameHash, Naming
    <3>2. Named'
      <4>1. CASE mem.bm /\ ~Crashes(t)
        <5>1. mem'.unnamed <=> mem.unnamed \/ ~mem.ready
          BY <2>4, <4>1, NameHashMem
        <5>2. mem.ready => pc'[t] = "name_lock"
          BY <2>4, <4>1 DEF NameHash
        <5> QED
          BY <5>1, <5>2 DEF Named, Naming
      <4>2. CASE Crashes(t)
        BY <3>1, <4>2 DEF Crashes, Named, Naming
      <4> QED
        BY <2>4, <4>1, <4>2 DEF NameHash
    <3>3. mem'.hash = mem.hash
      BY <2>4, NameHashMem DEF NameHash, Crashes, Frame, Fields
    <3> QED
      BY <2>0, <2>b, <3>1, <3>2, <3>3
  <2>5. CASE Lock(t) \/ Log(t) \/ Enter(t)
    <3>1. /\ \A f \in {"hash", "accepted", "known", "unnamed", "items", "file"} : mem'[f] = mem[f]
          /\ pc[t] = "name_lock" => pc'[t] = "name_write"
          /\ pc[t] \in {"name_lock", "lock", "log", "enter"}
          /\ pc[t] # "name_lock" => pc'[t] \in {"write", "enter", "lock", ret[t]}
      <4>1. CASE Lock(t)
        BY <4>1, LockMem DEF Lock, Frame, Fields
      <4>2. CASE Log(t)
        BY <4>2, LogMem DEF Log, Frame, Fields
      <4>3. CASE Enter(t)
        BY <4>3 DEF Enter, Crashes
      <4> QED
        BY <2>5, <4>1, <4>2, <4>3
    <3>2. (Hashed(t)' => Hashed(t)) /\ (Has(t)' => Has(t))
      <4>1. CASE pc[t] = "name_lock"
        BY <3>1, <4>1 DEF Hashed, Counting, Naming
      <4>2. CASE pc[t] # "name_lock"
        <5>1. pc[t] \in {"log"} \cup Counting
          BY <3>1, <4>2 DEF Counting
        <5>2. ret[t] \in {"idle", "track", "flush"} /\ (ret[t] = "track" => cur[t][3])
          BY <2>0 DEF After, ThreadInv
        <5>3. pc'[t] \notin Naming /\ pc'[t] # "read" /\ (pc'[t] = "track" => ret[t] = "track")
          BY <3>1, <4>2, <5>2 DEF Naming
        <5>4. Hashed(t)' => cur[t][3]
          BY <2>0, <5>2, <5>3 DEF Hashed
        <5> QED
          BY <5>1, <5>3, <5>4 DEF Hashed
      <4> QED
        BY <4>1, <4>2
    <3>3. Cause' => Cause
      BY <2>0, <2>a, <3>1, <3>2
    <3>4. Named => Named'
      BY <2>0, <3>1, NamedStays DEF Naming
    <3>5. Boot'
      BY <1>0, <2>0, <3>1, <3>2
    <3> QED
      BY <1>0, <2>b, <3>1, <3>2, <3>3, <3>4, <3>5
  <2>6. CASE NameWrite(t)
    <3>1. pc[t] = "name_write" /\ pc[t] \in Naming
      BY <2>6 DEF NameWrite, Naming
    <3>2. Named'
      <4>1. CASE mem.buf
        <5>1. Gain({Name})
          BY <2>6, <4>1, NameWriteMem
        <5> QED
          BY <5>1, GainKeeps DEF Named, MemoryTypes
      <4>2. CASE ~mem.buf
        BY <2>6, <3>1, <4>2 DEF NameWrite, Crashes, Named, Naming
      <4> QED
        BY <4>1, <4>2
    <3>3. mem'.hash = mem.hash
      BY <2>6, NameWriteMem DEF NameWrite, Crashes, Frame, Fields
    <3> QED
      BY <2>0, <2>b, <3>1, <3>2, <3>3
  <2>7. CASE Write(t)
    <3>1. pc[t] = "write"
      BY <2>7 DEF Write
    <3>2. CASE Crashes(t)
      <4>1. UNCHANGED <<mem, pc, cur>>
        BY <2>0, <3>2 DEF Crashes
      <4> QED
        BY <4>1 DEF HashInv, Named, Hashed
    <3>3. CASE ~Crashes(t)
      <4>1. crash' = crash /\ crash = NoOne /\ pc'[t] = ret[t]
        BY <2>7, <3>3 DEF Write
      <4>2. /\ Frame({"items", "file", "agg", "first", "last", "accepted", "mtx"})
            /\ mem'.accepted = IF mem.buf THEN mem.accepted \cup {cur[t]} ELSE mem.accepted
            /\ (mem.buf /\ Gain({cur[t]}) /\ mem'.agg = mem.agg) \/ Aggregated(cur[t])
        BY <2>7, <4>1, WriteMem
      <4>3. mem'.hash = mem.hash /\ mem'.known = mem.known /\ mem'.unnamed = mem.unnamed
        BY <4>2 DEF Frame, Fields
      <4>4. \E new : Gain(new)
        BY <4>2 DEF Aggregated
      <4>5. mem.items \cup BagToSet(mem.file) \subseteq mem'.items \cup BagToSet(mem'.file)
        BY <4>4, GainKeeps DEF MemoryTypes
      <4>6. Named => Named'
        BY <2>0, <3>1, <4>3, <4>5, NamedStays DEF Naming
      <4>7. (cur[t][3] => Hashed(t)) /\ (ret[t] = "track" => cur[t][3])
        BY <2>0, <3>1 DEF Hashed, Counting, ThreadInv
      <4>8. (Hashed(t)' => Hashed(t)) /\ pc'[t] \notin Naming
        <5>1. ret[t] \in {"idle", "track", "flush"}
          BY DEF After
        <5> QED
          BY <4>1, <4>7, <5>1 DEF Hashed, Counting, Naming
      <4>9. Cause' => Cause
        BY <2>0, <2>a, <4>2, <4>3, <4>7, <4>8
      <4>10. pc'[Main] # "boot"
        BY <2>0, <3>1
      <4> QED
        BY <1>0, <2>b, <4>3, <4>6, <4>8, <4>9, <4>10
    <3> QED
      BY <3>2, <3>3
  <2> QED
    BY <1>1, <2>1, <2>2, <2>3, <2>4, <2>5, <2>6, <2>7 DEF Logging
<1>2. ASSUME NEW t \in Threads, Beginning(t) PROVE HashInv'
  <2>1. PICK step \in First, h \in BOOLEAN, after \in After :
           /\ Begin(t, step, h, after) /\ mem' = mem
           /\ step = "log" => ~h
           /\ step # "log" => mem.bound
           /\ step = "read" => mem.tracked
    BY <1>2, BeginStep
  <2>2. pc' = [pc EXCEPT ![t] = step] /\ pc[t] = "idle"
        /\ cur' = [cur EXCEPT ![t] = <<t, calls[t] + 1, h>>]
    BY <2>1 DEF Begin
  <2>3. /\ Hashed(t)' => mem.tracked
        /\ pc'[t] \notin Naming
    BY <2>1, <2>2 DEF Hashed, Counting, Naming, First
  <2>4. \A u \in Threads \ {t} : pc'[u] = pc[u] /\ (Hashed(u)' <=> Hashed(u))
    BY <2>2 DEF Hashed
  <2>5. Cause' => Cause
    BY <2>1, <2>3, <2>4
  <2>6. Named => Named'
    BY <2>1, <2>2, NamedStays DEF Naming
  <2>7. Cached'
    BY <1>0, <2>1, <2>3, <2>4
  <2>8. Boot'
    <3> SUFFICES ASSUME pc'[Main] = "boot" PROVE Boot'
      OBVIOUS
    <3>1. pc[Main] = "boot" /\ t # Main
      BY <2>2, <2>4 DEF First
    <3>2. ~Hashed(t)'
      <4>1. ~mem.bound
        BY <2>2, <3>1 DEF MainInv, ThreadInv
      <4>2. step = "log" /\ ~h
        BY <2>1, <4>1
      <4>3. cur'[t] = <<t, calls[t] + 1, h>> /\ pc'[t] = "log"
        BY <2>2, <4>2
      <4> QED
        BY <4>2, <4>3 DEF Hashed
    <3> QED
      BY <1>0, <2>1, <2>4, <3>1, <3>2
  <2> QED
    BY <1>0, <2>5, <2>6, <2>7, <2>8
<1>3. CASE InitBuffer
  <2>1. /\ mem'.hash = mem.hash /\ mem'.known = mem.known /\ mem'.accepted = mem.accepted
        /\ mem'.tracked = mem.tracked /\ mem'.active = mem.active
        /\ pc[Main] = "boot" /\ pc' = [pc EXCEPT ![Main] = "boot_ready"] /\ cur' = cur
    BY <1>3, InitBufferMem DEF InitBuffer, Rest, Frame, Fields
  <2>2. \A t \in Threads : ~Hashed(t)' /\ (pc'[t] \in Naming => pc[t] \in Naming)
    BY <1>0, <2>1 DEF Hashed, Counting, Naming
  <2>3. mem.tracked => mem.hash
    BY <1>0, <2>1 DEF MainInv, Booting
  <2>4. Cause' => Named'
    BY <1>0, <2>1, <2>2, <2>3 DEF Named
  <2> QED
    BY <1>0, <2>1, <2>2, <2>3, <2>4
<1>4. CASE Fork
  <2>1. /\ mem'.hash = mem.hash /\ mem'.known = mem.hash /\ mem'.accepted = {}
        /\ mem'.tracked = mem.tracked
        /\ \A t \in Threads : pc'[t] \in {"boot", "gone"}
        /\ mem.init /\ pc[Main] = "idle"
    BY <1>4, ForkMem DEF Fork, Frame, Fields
  <2>2. \A t \in Threads : ~Hashed(t)' /\ pc'[t] \notin Naming
    BY <2>1 DEF Hashed, Counting, Naming
  <2>3. mem.active
    BY <2>1 DEF MainInv, Running, Over, Calling
  <2>4. mem.tracked => mem.hash
    BY <1>0, <2>3
  <2> QED
    BY <1>0, <2>1, <2>2, <2>4 DEF Named
<1>5. CASE ForkLate \/ Exit \/ UNCHANGED vars
  <2>1. UNCHANGED <<pc, cur>>
    BY <1>5 DEF ForkLate, Exit, vars, Crashes, Rest
  <2>2. \A f \in {"hash", "tracked", "active", "accepted", "known", "unnamed", "items", "file"} :
           mem'[f] = mem[f]
    BY <1>5, ExitMem DEF ForkLate, vars, Crashes, Frame, Fields
  <2> QED
    BY <2>1, <2>2 DEF HashInv, Named, Hashed
<1>6. CASE (Owning /\ ~InitBuffer) \/ FinalizeTrie
  <2>1. /\ cur' = cur /\ pc[Main] \notin Inside
        /\ \E s \in Steps \ ({"gone", "boot", "track"} \cup Inside) : pc' = [pc EXCEPT ![Main] = s]
    BY <1>6 DEF Owning, InitReady, Started, Flush, RealExec, FinalizeTrie,
       Unbind, End, NotReady, Close, Reset, Finalized, Steps, Rest, Inside
  <2>2. /\ mem'.hash => mem.hash
        /\ mem'.tracked = mem.tracked
        /\ mem'.active => mem.active /\ mem'.hash = mem.hash
        /\ mem'.known = mem.known /\ mem'.unnamed = mem.unnamed
        /\ mem'.accepted \subseteq
              mem.accepted \cup {StartEvent(mem.forks), EndEvent(mem.forks)}
    <3>1. CASE Started
      BY <3>1, StartedMem DEF Started, MainInv, Booting, Frame, Fields
    <3>2. CASE End
      BY <3>2, EndMem DEF Frame, Fields
    <3>3. CASE Finalized
      BY <3>3, FinalizedMem DEF Frame, Fields
    <3> QED
      BY <1>6, <3>1, <3>2, <3>3, InitReadyMem, FlushMem, RealExecMem, FinalizeTrieMem,
         UnbindMem, NotReadyMem, CloseMem, ResetMem DEF Owning, Frame, Fields
  <2>3. mem.items \cup BagToSet(mem.file) \subseteq mem'.items \cup BagToSet(mem'.file)
    <3>1. CASE Started
      BY <3>1, StartedMem, GainKeeps DEF MemoryTypes
    <3>2. CASE End
      BY <3>2, EndMem, GainKeeps DEF MemoryTypes
    <3>3. CASE Flush \/ Close
      BY <3>3, FlushMem, CloseMem, BagGains DEF WrittenOut, MemoryTypes
    <3> QED
      BY <1>6, <3>1, <3>2, <3>3, InitReadyMem, RealExecMem, FinalizeTrieMem, UnbindMem,
         NotReadyMem, ResetMem, FinalizedMem DEF Owning, Frame, Fields
  <2>4. Named => Named'
    BY <2>1, <2>2, <2>3, NamedStays DEF Naming, Inside
  <2>5. \A t \in Threads : (Hashed(t)' => Hashed(t)) /\ (pc'[t] \in Naming => pc[t] \in Naming)
    BY <2>1 DEF Hashed, Inside, Counting, Naming
  <2>6. Cause' => Cause
    <3>1. ~StartEvent(mem.forks)[3] /\ ~EndEvent(mem.forks)[3]
      BY DEF StartEvent, EndEvent
    <3>2. \A e \in mem'.accepted : e[3] => e \in mem.accepted
      BY <2>2, <3>1
    <3> QED
      BY <2>2, <2>5, <3>2
  <2>7. Cached'
    BY <1>0, <2>2, <2>5
  <2> QED
    BY <1>0, <2>1, <2>4, <2>6, <2>7
<1>7. ASSUME NEW t \in Threads, Track(t) PROVE HashInv'
  <2>1. /\ \A f \in {"hash", "active", "accepted", "known", "unnamed", "items", "file"} :
              mem'[f] = mem[f]
        /\ pc[t] = "track" /\ pc' = [pc EXCEPT ![t] = "idle"] /\ cur' = cur
    BY <1>7, TrackMem DEF Track, Rest, Frame, Fields
  <2>2. Hashed(t) /\ ~Hashed(t)' /\ pc'[t] \notin Naming
    BY <2>1 DEF Hashed, Counting, Naming
  <2>3. \A u \in Threads \ {t} : pc'[u] = pc[u] /\ (Hashed(u)' <=> Hashed(u))
    BY <2>1 DEF Hashed
  <2>4. Named /\ (mem.active => mem.hash)
    BY <1>0, <2>2
  <2>5. Named'
    BY <2>1, <2>4, NamedStays DEF Naming
  <2>6. Cached'
    BY <2>1, <2>4
  <2>7. pc'[Main] # "boot"
    BY <1>0, <2>1, <2>2
  <2> QED
    BY <1>0, <2>5, <2>6, <2>7
<1> QED
  BY <1>1, <1>2, <1>3, <1>4, <1>5, <1>6, <1>7 DEF Next, Beginning

\* So a closed trace with a hashed event names it.
LEMMA HashSound ==
    ASSUME TypeOK, MainInv, ThreadInv, HashInv
    PROVE  HashNamed
<1> SUFFICES ASSUME Closed, NEW e \in mem.accepted, e[3],
                    ~mem.known, ~mem.unnamed, \A t \in Threads : pc[t] \notin Naming
             PROVE  Times(Name) > 0
  BY DEF HashNamed, Closed, Naming
<1>0. Named
  BY DEF HashInv
<1>1. Name \in mem.items \cup BagToSet(mem.file)
  BY <1>0 DEF Named
<1>2. ~mem.buf
  <2>1. pc[Main] \in Booting \cup Ending \cup Calling
    BY TracerConstants DEF TypeOK, Steps, ThreadInv, Booting, Ending, Calling, Inside
  <2> QED
    BY <2>1 DEF MainInv, Running, Over, Closed, Booting, Ending, Calling
<1>3. Name \in BagToSet(mem.file) /\ IsABag(mem.file)
  BY <1>1, <1>2 DEF TypeOK
<1> QED
  BY <1>3 DEF Times, BagIn, IsABag, BagToSet

-----------------------------------------------------------------------------
(* The index counts at least the events that are accepted.                 *)

CountInv == IsFiniteSet(Counted) /\ Cardinality(Counted) <= mem.index
TallyInv ==
    /\ mem.atfini \in Nat /\ mem.counted \in Nat
    /\ pc[Main] \in {"not_ready", "close"} => mem.counted <= mem.atfini
    /\ mem.state = "deleted" => mem.counted < KeepFrom

\* IndexInv is the count of the events and the tally that finalize takes.
LEMMA IndexParts ==
    /\ IndexInv <=> mem.index \in Nat /\ CountInv /\ TallyInv
    /\ IndexInv' <=> mem'.index \in Nat /\ CountInv' /\ TallyInv'
BY DEF IndexInv, CountInv, TallyInv

\* A step that adds no event keeps the count.
LEMMA CountStays ==
    ASSUME CountInv, mem.index \in Nat, mem'.index = mem.index, Counted' \subseteq Counted
    PROVE  CountInv'
<1>1. /\ IsFiniteSet(Counted') /\ Cardinality(Counted') <= Cardinality(Counted)
      /\ Cardinality(Counted') \in Nat /\ Cardinality(Counted) \in Nat
  BY FS_Subset, FS_CardinalityType DEF CountInv
<1> QED
  BY <1>1 DEF CountInv

\* A step that adds one event, and counts it, keeps the count.
LEMMA CountGrows ==
    ASSUME CountInv, mem.index \in Nat, mem'.index = mem.index + 1,
           NEW e, Counted' \subseteq Counted \cup {e}
    PROVE  CountInv'
<1>a. IsFiniteSet(Counted) /\ Cardinality(Counted) \in Nat
  BY FS_CardinalityType DEF CountInv
<1>1. /\ IsFiniteSet(Counted \cup {e}) /\ Cardinality(Counted) \in Nat
      /\ Cardinality(Counted \cup {e}) <= Cardinality(Counted) + 1
  <2>1. /\ IsFiniteSet(Counted \cup {e})
        /\ Cardinality(Counted \cup {e}) =
              IF e \in Counted THEN Cardinality(Counted) ELSE Cardinality(Counted) + 1
    BY <1>a, FS_AddElement
  <2> QED
    BY <1>a, <2>1
<1>2. /\ IsFiniteSet(Counted') /\ Cardinality(Counted') <= Cardinality(Counted \cup {e})
      /\ Cardinality(Counted') \in Nat /\ Cardinality(Counted \cup {e}) \in Nat
  BY <1>1, FS_Subset, FS_CardinalityType
<1> QED
  BY <1>1, <1>2 DEF CountInv

\* The events counted when only thread t moves.
LEMMA CountedMove ==
    ASSUME TypeOK, NEW t \in Threads, NEW step \in Steps, pc' = [pc EXCEPT ![t] = step],
           cur' = cur, mem'.forks = mem.forks,
           NEW new, mem'.accepted \subseteq mem.accepted \cup new,
           step \in Counting => pc[t] \in Counting \/ cur[t] \in new,
           t = Main /\ step = "start" => StartEvent(mem.forks) \in new,
           t = Main /\ step = "end" => EndEvent(mem.forks) \in new
    PROVE  Counted' \subseteq Counted \cup new
<1> USE DEF StartEvent, EndEvent
<1>1. \A u \in Threads : pc'[u] = IF u = t THEN step ELSE pc[u]
  BY DEF TypeOK
<1> SUFFICES ASSUME NEW x \in Counted', x \notin new PROVE x \in Counted
  OBVIOUS
<1>2. CASE x \in mem'.accepted
  BY <1>2 DEF Counted
<1>3. CASE x \in {cur'[u] : u \in {v \in Threads : pc'[v] \in Counting}}
  BY <1>1, <1>3 DEF Counted
<1>4. CASE x = StartEvent(mem'.forks) /\ pc'[Main] = "start"
  BY <1>1, <1>4, TracerConstants DEF Counted
<1>5. CASE x = EndEvent(mem'.forks) /\ pc'[Main] = "end"
  BY <1>1, <1>5, TracerConstants DEF Counted
<1> QED
  BY <1>2, <1>3, <1>4, <1>5 DEF Counted

\* Log counts the event of its call, InitReady and Unbind those that follow.
LEMMA CountNext ==
    ASSUME DOMAIN mem = Fields, TypeOK, MainInv, CountInv, [Next]_vars
    PROVE  CountInv'
<1>0. /\ mem.index \in Nat /\ Main \in Threads /\ pc \in [Threads -> Steps]
      /\ cur \in [Threads -> Events] /\ ret \in [Threads -> After]
  BY TracerConstants, TypeParts DEF MemoryTypes, ThreadTypes
<1> USE <1>0 DEF Goto, At
<1>1. ASSUME NEW t \in Threads, Logging(t) PROVE CountInv'
  <2>0. cur' = cur /\ ret[t] \in {"idle", "track", "flush"}
    BY <1>1, LoggingStep DEF After
  <2>1. CASE Log(t)
    <3>1. /\ mem'.forks = mem.forks /\ mem'.accepted = mem.accepted
          /\ mem'.index = mem.index + 1
      BY <2>1, LogMem DEF Frame, Fields
    <3>2. PICK step \in Steps \ {"start", "end"} : pc' = [pc EXCEPT ![t] = step]
      BY <2>0, <2>1 DEF Log, Steps
    <3>3. Counted' \subseteq Counted \cup {cur[t]}
      <4> DEFINE new == {cur[t]}
      <4>1. /\ step \in Steps /\ step # "start" /\ step # "end" /\ cur[t] \in new
            /\ mem'.accepted \subseteq mem.accepted \cup new
        BY <3>1
      <4> HIDE DEF new
      <4>2. Counted' \subseteq Counted \cup new
        BY <2>0, <3>1, <3>2, <4>1, CountedMove
      <4> QED
        BY <4>2 DEF new
    <3> QED
      BY <1>0, <3>1, <3>3, CountGrows
  <2>2. CASE Write(t) /\ ~Crashes(t)
    <3>1. crash' = crash /\ crash = NoOne /\ pc' = [pc EXCEPT ![t] = ret[t]] /\ pc[t] = "write"
      <4>1. At(t, "write") /\ (Crashes(t) \/ (Goto(t, ret[t]) /\ UNCHANGED crash))
        BY <2>2 DEF Write
      <4> QED
        BY <2>2, <4>1
    <3>2. /\ mem'.forks = mem.forks /\ mem'.accepted \subseteq mem.accepted \cup {cur[t]}
          /\ mem'.index = mem.index
      BY <2>2, <3>1, WriteMem DEF Frame, Fields
    <3>3. Counted' \subseteq Counted \cup {cur[t]}
      <4> DEFINE step == ret[t]
                 new == {cur[t]}
      <4>1. /\ step \in Steps /\ step \notin Counting /\ step # "start" /\ step # "end"
            /\ pc' = [pc EXCEPT ![t] = step]
        BY <2>0, <3>1 DEF Steps, Counting
      <4>2. mem'.accepted \subseteq mem.accepted \cup new
        BY <3>2
      <4> HIDE DEF step, new
      <4>3. Counted' \subseteq Counted \cup new
        BY <2>0, <3>2, <4>1, <4>2, CountedMove
      <4> QED
        BY <4>3 DEF new
    <3>4. cur[t] \in Counted
      BY <3>1 DEF Counted, Counting
    <3> QED
      BY <1>0, <3>2, <3>3, <3>4, CountStays
  <2>3. CASE ~Log(t) /\ (Write(t) => Crashes(t))
    <3>1. /\ mem'.forks = mem.forks /\ mem'.accepted = mem.accepted
          /\ mem'.index = mem.index
      <4>1. CASE ReadHash(t) \/ HasHash(t) \/ Found(t) \/ Inserted(t)
        BY <4>1, ReadHashMem, MapMem DEF Frame, Fields
      <4>2. CASE InsertHash(t) \/ Lock(t)
        BY <4>2, InsertHashMem, LockMem DEF Frame, Fields
      <4>3. CASE NameHash(t)
        BY <4>3, NameHashMem DEF NameHash, Crashes, Frame, Fields
      <4>4. CASE NameWrite(t)
        BY <4>4, NameWriteMem DEF NameWrite, Crashes, Frame, Fields
      <4>5. CASE Enter(t) \/ Write(t)
        BY <2>3, <4>5 DEF Enter, Crashes
      <4> QED
        BY <1>1, <2>3, <4>1, <4>2, <4>3, <4>4, <4>5 DEF Logging
    <3>2. \E step \in Steps \ {"start", "end"} :
             /\ pc' = [pc EXCEPT ![t] = step]
             /\ step \in Counting => pc[t] \in Counting
      <4>1. pc[t] \in Inside /\ [pc EXCEPT ![t] = pc[t]] = pc
        BY <1>1, LoggingStep
      <4>2. CASE pc' = pc
        BY <4>1, <4>2 DEF Steps, Inside
      <4>3. CASE pc' # pc
        <5>1. CASE ReadHash(t) \/ HasHash(t) \/ Found(t) \/ InsertHash(t) \/ Inserted(t)
          BY <4>3, <5>1 DEF ReadHash, HasHash, Found, InsertHash, Inserted, Crashes, Steps, Counting
        <5>2. CASE NameHash(t) \/ Lock(t) \/ NameWrite(t) \/ Enter(t) \/ Write(t)
          BY <2>0, <2>3, <4>3, <5>2 DEF NameHash, Lock, NameWrite, Enter, Crashes, Steps, Counting
        <5> QED
          BY <1>1, <2>3, <5>1, <5>2 DEF Logging
      <4> QED
        BY <4>2, <4>3
    <3>3. Counted' \subseteq Counted
      <4>1. PICK step \in Steps \ {"start", "end"} :
               /\ pc' = [pc EXCEPT ![t] = step]
               /\ step \in Counting => pc[t] \in Counting
        BY <3>2
      <4>2. /\ step \in Steps /\ step # "start" /\ step # "end"
            /\ mem'.accepted \subseteq mem.accepted \cup {}
        BY <3>1
      <4>3. Counted' \subseteq Counted \cup {}
        BY <2>0, <3>1, <4>1, <4>2, CountedMove
      <4> QED
        BY <4>3
    <3> QED
      BY <1>0, <3>1, <3>3, CountStays
  <2> QED
    BY <2>1, <2>2, <2>3
<1>2. ASSUME NEW t \in Threads, Beginning(t) PROVE CountInv'
  <2>1. PICK step \in First, h \in BOOLEAN, after \in After :
           Begin(t, step, h, after) /\ mem' = mem
    BY <1>2, BeginStep
  <2>2. /\ \A u \in Threads \ {t} : pc'[u] = pc[u] /\ cur'[u] = cur[u]
        /\ pc'[t] \in First
    BY <2>1 DEF Begin
  <2>3. Counted' \subseteq Counted
    BY <2>1, <2>2 DEF Counted, Counting, First
  <2> QED
    BY <1>0, <2>1, <2>3, CountStays
<1>3. CASE InitReady
  <2>1. /\ mem'.forks = mem.forks /\ mem'.accepted = mem.accepted
        /\ mem'.index = mem.index + 1 /\ cur' = cur
        /\ pc' = [pc EXCEPT ![Main] = "start"]
    BY <1>3, InitReadyMem DEF InitReady, Rest, Frame, Fields
  <2>2. Counted' \subseteq Counted \cup {StartEvent(mem.forks)}
    <3> DEFINE new == {StartEvent(mem.forks)}
    <3>1. "start" \in Steps /\ "start" \notin Counting /\ "start" # "end"
      BY DEF Steps, Counting
    <3>2. mem'.accepted \subseteq mem.accepted \cup new /\ StartEvent(mem.forks) \in new
      BY <2>1
    <3> HIDE DEF new
    <3>3. Counted' \subseteq Counted \cup new
      BY <2>1, <3>1, <3>2, CountedMove
    <3> QED
      BY <3>3 DEF new
  <2> QED
    BY <1>0, <2>1, <2>2, CountGrows
<1>4. CASE Started
  <2>1. /\ mem'.forks = mem.forks /\ mem'.accepted = mem.accepted \cup {StartEvent(mem.forks)}
        /\ mem'.index = mem.index
    BY <1>4, StartedMem DEF Frame, Fields
  <2>2. cur' = cur /\ pc[Main] = "start" /\ pc' = [pc EXCEPT ![Main] = "idle"]
    BY <1>4 DEF Started, Rest
  <2>3. Counted' \subseteq Counted \cup {StartEvent(mem.forks)}
    <3> DEFINE new == {StartEvent(mem.forks)}
    <3>1. "idle" \in Steps /\ "idle" \notin Counting /\ "idle" # "start" /\ "idle" # "end"
      BY DEF Steps, Counting
    <3>2. mem'.accepted \subseteq mem.accepted \cup new
      BY <2>1
    <3> HIDE DEF new
    <3>3. Counted' \subseteq Counted \cup new
      BY <2>1, <2>2, <3>1, <3>2, CountedMove
    <3> QED
      BY <3>3 DEF new
  <2>4. StartEvent(mem.forks) \in Counted
    BY <2>2 DEF Counted
  <2> QED
    BY <1>0, <2>1, <2>3, <2>4, CountStays
<1>5. CASE Unbind
  <2>1. /\ mem'.forks = mem.forks /\ mem'.accepted = mem.accepted
        /\ mem'.index = mem.index + 1
    BY <1>5, UnbindMem DEF Frame, Fields
  <2>2. cur' = cur /\ pc' = [pc EXCEPT ![Main] = "end"]
    BY <1>5 DEF Unbind, Rest
  <2>3. Counted' \subseteq Counted \cup {EndEvent(mem.forks)}
    <3>1. "end" \in Steps /\ "end" \notin Counting /\ "end" # "start"
      BY DEF Steps, Counting
    <3> DEFINE new == {EndEvent(mem.forks)}
    <3>2. mem'.accepted \subseteq mem.accepted \cup new /\ EndEvent(mem.forks) \in new
      BY <2>1
    <3> HIDE DEF new
    <3>3. Counted' \subseteq Counted \cup new
      BY <2>1, <2>2, <3>1, <3>2, CountedMove
    <3> QED
      BY <3>3 DEF new
  <2> QED
    BY <1>0, <2>1, <2>3, CountGrows
<1>6. CASE End
  <2>1. /\ mem'.forks = mem.forks /\ mem'.accepted = mem.accepted \cup {EndEvent(mem.forks)}
        /\ mem'.index = mem.index
    BY <1>6, EndMem DEF Frame, Fields
  <2>2. cur' = cur /\ pc[Main] = "end" /\ pc' = [pc EXCEPT ![Main] = "not_ready"]
    BY <1>6 DEF End, Rest
  <2>3. Counted' \subseteq Counted \cup {EndEvent(mem.forks)}
    <3>1. /\ "not_ready" \in Steps /\ "not_ready" \notin Counting
          /\ "not_ready" # "start" /\ "not_ready" # "end"
      BY DEF Steps, Counting
    <3> DEFINE new == {EndEvent(mem.forks)}
    <3>2. mem'.accepted \subseteq mem.accepted \cup new
      BY <2>1
    <3> HIDE DEF new
    <3>3. Counted' \subseteq Counted \cup new
      BY <2>1, <2>2, <3>1, <3>2, CountedMove
    <3> QED
      BY <3>3 DEF new
  <2>4. EndEvent(mem.forks) \in Counted
    BY <2>2 DEF Counted
  <2> QED
    BY <1>0, <2>1, <2>3, <2>4, CountStays
<1>7. CASE Fork
  <2>1. /\ mem'.accepted = {} /\ mem'.index = 0
        /\ \A t \in Threads : pc'[t] \in {"boot", "gone"}
    BY <1>7, ForkMem DEF Fork
  <2>2. Counted' = {}
    BY <2>1 DEF Counted, Counting
  <2> QED
    BY <2>1, <2>2, FS_EmptySet DEF CountInv
<1>8. CASE ForkLate \/ Exit \/ UNCHANGED vars
  <2>1. UNCHANGED <<pc, cur>>
    BY <1>8 DEF ForkLate, Exit, vars, Crashes, Rest
  <2>2. \A f \in {"forks", "accepted", "index"} : mem'[f] = mem[f]
    BY <1>8, ExitMem DEF ForkLate, vars, Crashes, Frame, Fields
  <2>3. Counted' = Counted
    BY <2>1, <2>2 DEF Counted, StartEvent, EndEvent
  <2> QED
    BY <1>0, <2>2, <2>3, CountStays
<1>9. CASE \/ InitBuffer \/ Flush \/ RealExec \/ FinalizeTrie
           \/ NotReady \/ Close \/ Reset \/ Finalized
  <2>1. mem'.forks = mem.forks /\ mem'.accepted = mem.accepted /\ mem'.index = mem.index
    BY <1>9, InitBufferMem, FlushMem, RealExecMem, FinalizeTrieMem, NotReadyMem, CloseMem,
       ResetMem, FinalizedMem DEF Frame, Fields
  <2>2. /\ cur' = cur
        /\ \E step \in Steps : /\ pc' = [pc EXCEPT ![Main] = step]
                              /\ step \notin Counting /\ step # "start" /\ step # "end"
    BY <1>9 DEF InitBuffer, Flush, RealExec, FinalizeTrie, NotReady, Close, Reset, Finalized,
       Steps, Rest, Counting
  <2>3. Counted' \subseteq Counted \cup {}
    <3>1. PICK step \in Steps : /\ pc' = [pc EXCEPT ![Main] = step]
                               /\ step \notin Counting /\ step # "start" /\ step # "end"
      BY <2>2
    <3>2. mem'.accepted \subseteq mem.accepted \cup {}
      BY <2>1
    <3> QED
      BY <2>1, <2>2, <3>1, <3>2, CountedMove
  <2> QED
    BY <1>0, <2>1, <2>3, CountStays
<1>10. ASSUME NEW t \in Threads, Track(t) PROVE CountInv'
  <2>1. /\ mem'.forks = mem.forks /\ mem'.accepted = mem.accepted /\ mem'.index = mem.index
        /\ pc' = [pc EXCEPT ![t] = "idle"] /\ cur' = cur
    BY <1>10, TrackMem DEF Track, Rest, Frame, Fields
  <2>2. "idle" \in Steps /\ "idle" \notin Counting /\ mem'.accepted \subseteq mem.accepted \cup {}
    BY <2>1 DEF Steps, Counting
  <2>3. Counted' \subseteq Counted \cup {}
    BY <2>1, <2>2, CountedMove
  <2> QED
    BY <1>0, <2>1, <2>3, CountStays
<1> QED
  BY <1>1, <1>2, <1>3, <1>4, <1>5, <1>6, <1>7, <1>8, <1>9, <1>10, Zenon
     DEF Next, Owning, Beginning

\* finalize reads the index when it logs the event "end", which is not yet in.
LEMMA TallyNext ==
    ASSUME DOMAIN mem = Fields, TypeOK, MainInv, CountInv, TallyInv, FreshInv, [Next]_vars
    PROVE  TallyInv'
<1> USE TracerConstants, TypeParts DEF ThreadTypes, Goto, At, TallyInv
<1>1. CASE End
  <2>1. mem.index \in Nat /\ EndEvent(mem.forks) \notin mem.accepted /\ pc[Main] = "end"
    BY <1>1 DEF End, MainInv, FreshInv, MemoryTypes
  <2>2. mem.accepted \cup {EndEvent(mem.forks)} \subseteq Counted
    BY <2>1 DEF Counted
  <2>3. /\ IsFiniteSet(mem.accepted) /\ IsFiniteSet(mem.accepted \cup {EndEvent(mem.forks)})
        /\ Cardinality(mem.accepted \cup {EndEvent(mem.forks)}) <= Cardinality(Counted)
    BY <2>2, FS_Subset DEF CountInv
  <2>4. /\ Cardinality(mem.accepted) \in Nat /\ Cardinality(Counted) \in Nat
        /\ Cardinality(mem.accepted \cup {EndEvent(mem.forks)}) = Cardinality(mem.accepted) + 1
    BY <2>1, <2>3, FS_AddElement, FS_CardinalityType DEF CountInv
  <2>5. /\ mem'.atfini = mem.index /\ mem'.counted = Cardinality(mem.accepted) + 1
        /\ mem'.state = mem.state
    BY <1>1, EndMem DEF Frame, Fields
  <2>6. mem.state = "open"
    BY <2>1 DEF MainInv
  <2> QED
    BY <2>1, <2>3, <2>4, <2>5, <2>6 DEF CountInv
<1>2. CASE Close
  <2>1. mem.counted <= mem.atfini /\ KeepFrom \in Nat /\ pc' = [pc EXCEPT ![Main] = "reset"]
    BY <1>2 DEF Close
  <2>2. /\ mem'.atfini = mem.atfini /\ mem'.counted = mem.counted
        /\ mem'.state = "deleted" => mem.atfini < KeepFrom
    BY <1>2, CloseMem DEF Frame, Fields
  <2> QED
    BY <2>1, <2>2
<1>3. CASE ~End /\ ~Close
  <2>1. /\ mem'.atfini = mem.atfini /\ mem'.counted = mem.counted
        /\ mem'.state = "deleted" => mem.state = "deleted"
    <3>1. ASSUME NEW t \in Threads, Logging(t)
          PROVE  \A f \in {"atfini", "counted", "state"} : mem'[f] = mem[f]
      BY <3>1, LoggingStep DEF Frame, Fields, LoggingFields
    <3>2. ASSUME NEW t \in Threads, Beginning(t)
          PROVE  mem' = mem
      BY <3>2, BeginStep
    <3>3. CASE Owning \/ FinalizeTrie \/ Fork \/ Exit
      BY <1>3, <3>3, InitBufferMem, InitReadyMem, StartedMem, FlushMem, RealExecMem, ForkMem,
         FinalizeTrieMem, UnbindMem, NotReadyMem, ResetMem, FinalizedMem, ExitMem
         DEF Owning, Frame, Fields
    <3>4. CASE ForkLate \/ UNCHANGED vars
      BY <3>4 DEF ForkLate, Crashes, vars
    <3>5. ASSUME NEW t \in Threads, Track(t)
          PROVE  \A f \in {"atfini", "counted", "state"} : mem'[f] = mem[f]
      BY <3>5, TrackMem DEF Frame, Fields
    <3> QED
      BY <3>1, <3>2, <3>3, <3>4, <3>5 DEF Next, Beginning
  <2>2. pc'[Main] \in {"not_ready", "close"} => pc[Main] \in {"not_ready", "close"}
    <3>1. ASSUME NEW t \in Threads, Logging(t)
          PROVE  pc'[Main] = pc[Main] \/ pc'[Main] \in Inside \cup {"idle", "track", "flush"}
      BY <3>1, LoggingStep DEF After
    <3>2. ASSUME NEW t \in Threads, Beginning(t)
          PROVE  pc'[Main] = pc[Main] \/ pc'[Main] \in First
      BY <3>2, BeginStep DEF Begin
    <3>3. CASE NotReady
      BY <3>3 DEF NotReady
    <3>4. CASE (Owning /\ ~NotReady) \/ FinalizeTrie
      <4>1. \E s \in Steps \ {"not_ready", "close"} : pc' = [pc EXCEPT ![Main] = s]
        BY <1>3, <3>4 DEF Owning, InitBuffer, InitReady, Started, Flush, RealExec, FinalizeTrie,
           Unbind, Reset, Finalized, Steps
      <4> QED
        BY <4>1
    <3>5. CASE Fork \/ ForkLate \/ Exit \/ UNCHANGED vars
      BY <3>5 DEF Fork, ForkLate, Crashes, Exit, vars
    <3>6. ASSUME NEW t \in Threads, Track(t) PROVE pc'[Main] \in {pc[Main], "idle"}
      BY <3>6 DEF Track
    <3> QED
      BY <3>1, <3>2, <3>3, <3>4, <3>5, <3>6 DEF Next, Beginning, Inside, First
  <2> QED
    BY <2>1, <2>2
<1> QED
  BY <1>1, <1>2, <1>3

-----------------------------------------------------------------------------
(* Where an event of the process is.                                       *)

\* A new event that comes into the buffer has its place there, or in the file.
LEMMA HeldGain ==
    ASSUME IsABag(mem.file), NEW K, Held(mem.file, mem.items, mem.agg, K),
           NEW e, e \notin K, e # Name, Gain({e}), mem'.agg = mem.agg
    PROVE  Held(mem'.file, mem'.items, mem'.agg, K \cup {e})
<1>1. e \notin BagToSet(mem.file) \cup mem.items \cup Folded(mem.agg)
  BY DEF Held
<1>2. CASE mem'.items = mem.items \cup {e} /\ mem'.file = mem.file
  BY <1>1, <1>2 DEF Held
<1>3. CASE mem'.items = {} /\ mem'.file = mem.file (+) SetToBag(mem.items \cup {e})
  <2>1. /\ BagToSet(mem'.file) = BagToSet(mem.file) \cup mem.items \cup {e}
        /\ \A x \in BagToSet(mem.file) \ (mem.items \cup {e}) : mem'.file[x] = mem.file[x]
        /\ \A x \in (mem.items \cup {e}) \ BagToSet(mem.file) : mem'.file[x] = 1
    BY <1>3, BagGains
  <2> QED
    BY <1>1, <1>3, <2>1 DEF Held
<1> QED
  BY <1>2, <1>3 DEF Gain

\* The name of the hash disturbs no event.
LEMMA HeldName ==
    ASSUME IsABag(mem.file), NEW K, Held(mem.file, mem.items, mem.agg, K),
           Gain({Name}), mem'.agg = mem.agg
    PROVE  Held(mem'.file, mem'.items, mem'.agg, K)
<1>1. CASE mem'.items = mem.items \cup {Name} /\ mem'.file = mem.file
  BY <1>1 DEF Held
<1>2. CASE mem'.items = {} /\ mem'.file = mem.file (+) SetToBag(mem.items \cup {Name})
  BY <1>2, BagGains DEF Held
<1> QED
  BY <1>1, <1>2 DEF Gain

\* An event folded into a row, and the rows that it moves into the buffer.
LEMMA HeldAggregated ==
    ASSUME IsABag(mem.file), NEW K, Held(mem.file, mem.items, mem.agg, K),
           NEW e, e \notin K, e # Name, Aggregated(e)
    PROVE  Held(mem'.file, mem'.items, mem'.agg, K \cup {e})
<1>1. PICK i \in Intervals, out \in SUBSET mem.agg :
         /\ <<e, i>> \notin out /\ Gain(Folded(out))
         /\ mem'.agg = (mem.agg \cup {<<e, i>>}) \ out
  BY DEF Aggregated
<1>2. e \notin BagToSet(mem.file) \cup mem.items \cup Folded(mem.agg)
  BY DEF Held
<1>3. /\ Folded(out) \subseteq Folded(mem.agg)
      /\ Folded(mem'.agg) = (Folded(mem.agg) \ Folded(out)) \cup {e}
  <2>1. \A x \in mem.agg : x[1] # e
    BY <1>2 DEF Folded
  <2>2. \A x, y \in mem.agg : x[1] = y[1] => x = y
    BY DEF Held
  <2> QED
    BY <1>1, <2>1, <2>2 DEF Folded
<1>4. \A x, y \in mem'.agg : x[1] = y[1] => x = y
  <2>1. \A x \in mem.agg : x[1] # e
    BY <1>2 DEF Folded
  <2> QED
    BY <1>1, <2>1 DEF Held
<1>5. Folded(mem.agg) \cap (BagToSet(mem.file) \cup mem.items) = {}
  BY DEF Held
<1> DEFINE O == Folded(out)
           A == Folded(mem.agg)
           B == Folded(mem'.agg)
<1>6. /\ Name \notin K /\ BagToSet(mem.file) \cup mem.items \subseteq K \cup {Name}
      /\ A \subseteq K /\ K \subseteq BagToSet(mem.file) \cup mem.items \cup A
      /\ \A x \in K : x \in BagToSet(mem.file) => mem.file[x] = 1 /\ x \notin mem.items
  BY DEF Held
<1> SUFFICES /\ BagToSet(mem'.file) \cup mem'.items \subseteq K \cup {e, Name}
             /\ K \subseteq BagToSet(mem'.file) \cup mem'.items \cup (A \ O)
             /\ e \notin BagToSet(mem'.file) \cup mem'.items
             /\ \A x \in K : /\ x \in BagToSet(mem'.file) =>
                                   mem'.file[x] = 1 /\ x \notin mem'.items \cup (A \ O)
                             /\ x \in mem'.items => x \notin A \ O
  BY <1>3, <1>4, <1>6 DEF Held
<1>7. O \subseteq A
  BY <1>3
<1> HIDE DEF O, A, B
<1>8. CASE mem'.items = mem.items \cup O /\ mem'.file = mem.file
  BY <1>2, <1>5, <1>6, <1>7, <1>8 DEF A
<1>9. CASE mem'.items = {} /\ mem'.file = mem.file (+) SetToBag(mem.items \cup O)
  BY <1>2, <1>5, <1>6, <1>7, <1>9, BagGains DEF A
<1> QED
  BY <1>1, <1>8, <1>9 DEF Gain, O

\* flush() and finalize() bring each event into the file, none twice.
LEMMA HeldWritten ==
    ASSUME IsABag(mem.file), NEW K, Held(mem.file, mem.items, mem.agg, K), WrittenOut
    PROVE  Held(mem'.file, mem'.items, mem'.agg, K) /\ K \subseteq BagToSet(mem'.file)
<1>1. Folded({}) = {}
  BY DEF Folded
<1>2. Name \notin Folded(mem.agg)
  BY DEF Held
<1> QED
  BY <1>1, <1>2, BagGains DEF Held, WrittenOut

\* The events of threads, of the start and of the end are not the name.
LEMMA EventKinds ==
    /\ \A e \in Events : e[1] \in Threads
    /\ \A n : /\ StartEvent(n)[1] = "start" /\ EndEvent(n)[1] = "end"
              /\ StartEvent(n) \notin Events /\ EndEvent(n) \notin Events
              /\ StartEvent(n) # Name /\ EndEvent(n) # Name
              /\ \A k : StartEvent(n) # EndEvent(k)
    /\ Name \notin Events
    /\ "start" \notin Threads /\ "end" \notin Threads
<1>1. Threads \cap {"name", "start", "end"} = {}
  BY TracerConstants
<1> QED
  BY <1>1 DEF Events, StartEvent, EndEvent, Name

\* Events are numbered by their caller, so each new one differs from those before.
LEMMA FreshNext ==
    ASSUME DOMAIN mem = Fields, TypeOK, MainInv, ThreadInv, HashInv, FreshInv, PlaceInv,
           [Next]_vars
    PROVE  FreshInv'
<1> USE TracerConstants, TypeParts DEF ThreadTypes, Goto, At
<1> DEFINE Num == \A e \in mem.accepted \cup mem.inherited :
                     e[1] \in Threads => /\ e[2] <= calls[e[1]]
                                         /\ pc[e[1]] \in Inside => e[2] < calls[e[1]]
           Kinds == /\ mem.inherited \subseteq Events
                    /\ mem.accepted \subseteq
                          Events \cup {StartEvent(mem.forks), EndEvent(mem.forks)}
                    /\ pc[Main] \in Booting => StartEvent(mem.forks) \notin mem.accepted
                    /\ mem.buf /\ pc[Main] \notin {"not_ready", "close"} =>
                          EndEvent(mem.forks) \notin mem.accepted
<1>0. (FreshInv <=> Num /\ Kinds) /\ (FreshInv' <=> Num' /\ Kinds')
  BY DEF FreshInv
<1>1. ASSUME NEW t \in Threads, Logging(t) PROVE FreshInv'
  <2>0. /\ Frame(LoggingFields) /\ pc[t] \in Inside /\ UNCHANGED <<cur, ret, calls>>
        /\ \E step \in Inside \cup {ret[t]} : pc' = [pc EXCEPT ![t] = step]
    BY <1>1, LoggingStep
  <2>1. /\ mem'.forks = mem.forks /\ mem'.buf = mem.buf /\ mem'.inherited = mem.inherited
    BY <2>0 DEF Frame, Fields, LoggingFields
  <2>2. /\ pc'[Main] \in Booting => pc[Main] \in Booting
        /\ pc[Main] \in {"not_ready", "close"} => pc'[Main] \in {"not_ready", "close"}
    BY <2>0 DEF Inside, Booting, After
  <2>3. \A u \in Threads : pc'[u] \in Inside => pc[u] \in Inside
    BY <2>0
  <2>4. CASE mem'.accepted = mem.accepted
    <3>1. Num'
      BY <1>0, <2>0, <2>1, <2>3, <2>4
    <3>2. Kinds'
      BY <1>0, <2>1, <2>2, <2>4 DEF StartEvent, EndEvent
    <3> QED
      BY <1>0, <3>1, <3>2
  <2>5. CASE mem'.accepted # mem.accepted
    <3>1. Write(t) /\ ~Crashes(t)
      <4>1. ~(ReadHash(t) \/ HasHash(t) \/ Found(t) \/ InsertHash(t) \/ Inserted(t))
        BY <2>5, ReadHashMem, MapMem, InsertHashMem DEF Frame, Fields
      <4>2. ~(NameHash(t) \/ NameWrite(t) \/ Enter(t))
        BY <2>5, NameHashMem, NameWriteMem DEF NameHash, NameWrite, Enter, Crashes, Frame, Fields
      <4>3. ~(Lock(t) \/ Log(t) \/ Crashes(t))
        BY <2>5, LockMem, LogMem DEF Crashes, Frame, Fields
      <4> QED
        BY <1>1, <4>1, <4>2, <4>3 DEF Logging
    <3>2. crash' = crash /\ crash = NoOne /\ pc'[t] = ret[t]
      BY <3>1 DEF Write
    <3>3. mem'.accepted = mem.accepted \cup {cur[t]}
      BY <2>5, <3>1, <3>2, WriteMem
    <3>4. cur[t][1] = t /\ cur[t][2] = calls[t] /\ cur[t] \in Events /\ calls[t] \in Nat
      BY <2>0 DEF ThreadInv
    <3>5. pc'[t] \notin Inside
      BY <3>2 DEF Inside, After
    <3>6. Num'
      BY <1>0, <2>0, <2>1, <2>3, <3>3, <3>4, <3>5
    <3>7. StartEvent(mem.forks) # cur[t] /\ EndEvent(mem.forks) # cur[t]
      BY <3>4, EventKinds
    <3>8. Kinds'
      BY <1>0, <2>1, <2>2, <3>3, <3>4, <3>7 DEF StartEvent, EndEvent
    <3> QED
      BY <1>0, <3>6, <3>8
  <2> QED
    BY <2>4, <2>5
<1>2. ASSUME NEW t \in Threads, Beginning(t) PROVE FreshInv'
  <2>1. PICK step \in First, h \in BOOLEAN, after \in After :
           Begin(t, step, h, after) /\ mem' = mem
    BY <1>2, BeginStep
  <2>2. /\ pc' = [pc EXCEPT ![t] = step] /\ pc[t] = "idle"
        /\ calls' = [calls EXCEPT ![t] = calls[t] + 1]
    BY <2>1 DEF Begin
  <2>3. Num'
    <3> SUFFICES ASSUME NEW e \in mem.accepted \cup mem.inherited, e[1] \in Threads
                 PROVE  /\ e[2] <= calls'[e[1]]
                        /\ pc'[e[1]] \in Inside => e[2] < calls'[e[1]]
      BY <2>1
    <3>1. e[2] \in Nat
      <4>1. e \in Events
        BY <1>0, EventKinds
      <4> QED
        BY <4>1 DEF Events
    <3>2. CASE e[1] = t
      BY <1>0, <2>2, <3>1, <3>2
    <3>3. CASE e[1] # t
      BY <1>0, <2>2, <3>3
    <3> QED
      BY <3>2, <3>3
  <2>4. Kinds'
    BY <1>0, <2>1, <2>2 DEF Booting, First
  <2> QED
    BY <1>0, <2>3, <2>4
<1>3. CASE Started
  <2>1. /\ pc[Main] = "start" /\ pc' = [pc EXCEPT ![Main] = "idle"] /\ calls' = calls
        /\ mem'.accepted = mem.accepted \cup {StartEvent(mem.forks)}
        /\ mem'.forks = mem.forks /\ mem'.inherited = mem.inherited /\ mem'.buf = mem.buf
    BY <1>3, StartedMem DEF Started, Rest, Frame, Fields
  <2>2. Num'
    BY <1>0, <2>1, EventKinds DEF Inside
  <2>3. Kinds'
    BY <1>0, <2>1, EventKinds DEF Booting
  <2> QED
    BY <1>0, <2>2, <2>3
<1>4. CASE End
  <2>1. /\ pc[Main] = "end" /\ pc' = [pc EXCEPT ![Main] = "not_ready"] /\ calls' = calls
        /\ mem'.accepted = mem.accepted \cup {EndEvent(mem.forks)}
        /\ mem'.forks = mem.forks /\ mem'.inherited = mem.inherited /\ mem'.buf = mem.buf
    BY <1>4, EndMem DEF End, Rest, Frame, Fields
  <2>2. Num'
    BY <1>0, <2>1, EventKinds DEF Inside
  <2>3. Kinds'
    BY <1>0, <2>1, EventKinds DEF Booting
  <2> QED
    BY <1>0, <2>2, <2>3
<1>5. CASE Fork
  <2>1. /\ mem'.accepted = {} /\ mem'.inherited = Folded(mem.agg) /\ calls' = calls
        /\ \A t \in Threads : pc'[t] \in {"boot", "gone"}
        /\ pc[Main] = "idle" /\ mem.init
    BY <1>5, ForkMem DEF Fork, Rest
  <2>2. mem.buf
    BY <2>1 DEF MainInv, Running, Over, Calling
  <2>3. Folded(mem.agg) \subseteq mem.accepted \cup mem.inherited
    BY <2>1, <2>2 DEF PlaceInv, Held
  <2>4. Folded(mem.agg) \subseteq Events
    BY DEF Folded, MemoryTypes
  <2>5. Num'
    BY <1>0, <2>1, <2>3 DEF Inside
  <2> QED
    BY <1>0, <2>1, <2>4, <2>5
<1>6. CASE InitBuffer
  <2>1. /\ mem'.accepted = mem.accepted /\ mem'.inherited = mem.inherited
        /\ mem'.forks = mem.forks /\ calls' = calls
        /\ pc[Main] = "boot" /\ pc' = [pc EXCEPT ![Main] = "boot_ready"]
    BY <1>6, InitBufferMem DEF InitBuffer, Rest, Frame, Fields
  <2>2. mem.accepted = {}
    BY <2>1 DEF HashInv
  <2>3. Num'
    BY <1>0, <2>1 DEF Inside
  <2> QED
    BY <1>0, <2>1, <2>2, <2>3
<1>7. CASE \/ InitReady \/ Flush \/ RealExec \/ FinalizeTrie \/ Unbind
           \/ NotReady \/ Close \/ Reset \/ Finalized
           \/ ForkLate \/ Exit \/ UNCHANGED vars
  <2>1. /\ mem'.accepted = mem.accepted /\ mem'.inherited = mem.inherited
        /\ mem'.forks = mem.forks /\ (mem'.buf => mem.buf)
    BY <1>7, InitReadyMem, FlushMem, RealExecMem, FinalizeTrieMem, UnbindMem, NotReadyMem,
       CloseMem, ResetMem, FinalizedMem, ExitMem DEF ForkLate, Crashes, vars, Frame, Fields
  <2>2. /\ calls' = calls
        /\ pc' = pc \/ \E s \in Steps \ Inside : pc' = [pc EXCEPT ![Main] = s]
    BY <1>7 DEF InitReady, Flush, RealExec, FinalizeTrie, Unbind, NotReady, Close, Reset,
       Finalized, ForkLate, Crashes, Exit, vars, Rest, Steps, Inside
  <2>3. /\ pc'[Main] \in Booting => pc[Main] \in Booting
        /\ mem'.buf /\ pc[Main] \in {"not_ready", "close"} => pc'[Main] \in {"not_ready", "close"}
    <3>1. CASE Close
      BY <3>1, CloseMem DEF Close, Booting
    <3>2. CASE NotReady
      BY <3>2 DEF NotReady, Booting
    <3>3. CASE InitReady
      BY <3>3 DEF InitReady, Booting
    <3>4. CASE \/ Flush \/ RealExec \/ FinalizeTrie \/ Unbind \/ Reset \/ Finalized
               \/ ForkLate \/ Exit \/ UNCHANGED vars
      BY <3>4 DEF Flush, RealExec, FinalizeTrie, Unbind, Reset,
         Finalized, ForkLate, Crashes, Exit, vars, Rest, Booting
    <3> QED
      BY <1>7, <3>1, <3>2, <3>3, <3>4
  <2>4. Num'
    BY <1>0, <2>1, <2>2
  <2>5. Kinds'
    BY <1>0, <2>1, <2>3 DEF StartEvent, EndEvent
  <2> QED
    BY <1>0, <2>4, <2>5
<1>8. ASSUME NEW t \in Threads, Track(t) PROVE FreshInv'
  <2>1. /\ pc' = [pc EXCEPT ![t] = "idle"] /\ pc[t] = "track" /\ calls' = calls
        /\ mem'.accepted = mem.accepted /\ mem'.inherited = mem.inherited
        /\ mem'.forks = mem.forks /\ mem'.buf = mem.buf
    BY <1>8, TrackMem DEF Track, Rest, Frame, Fields
  <2>2. Num'
    BY <1>0, <2>1 DEF Inside
  <2>3. Kinds'
    BY <1>0, <2>1 DEF Booting, StartEvent, EndEvent
  <2> QED
    BY <1>0, <2>2, <2>3
<1> QED
  BY <1>1, <1>2, <1>3, <1>4, <1>5, <1>6, <1>7, <1>8 DEF Next, Owning, Beginning

\* The parts of PlaceInv.
HeldInv == mem.buf /\ pc[Main] # "boot" =>
              Held(mem.file, mem.items, mem.agg, mem.accepted \cup mem.inherited)
RowsInv == pc[Main] = "boot" => /\ Folded(mem.agg) = mem.inherited
                                /\ \A x, y \in mem.agg : x[1] = y[1] => x = y
GoneInv == ~mem.buf /\ pc[Main] # "boot" =>
              /\ mem.accepted \subseteq BagToSet(mem.file)
              /\ BagToSet(mem.file) \subseteq mem.accepted \cup mem.inherited \cup {Name}
              /\ \A e \in mem.accepted \cup mem.inherited :
                    e \in BagToSet(mem.file) => mem.file[e] = 1
DueInv == pc[Main] = "exec" \/ mem.state = "replaced" =>
             mem.due \subseteq mem.accepted \cap BagToSet(mem.file)

\* PlaceInv by what it says of the buffer, of the boot, and of the trace.
LEMMA PlaceParts ==
    /\ PlaceInv <=> HeldInv /\ RowsInv /\ GoneInv /\ DueInv
    /\ PlaceInv' <=> HeldInv' /\ RowsInv' /\ GoneInv' /\ DueInv'
BY DEF PlaceInv, HeldInv, RowsInv, GoneInv, DueInv

\* What is in the trace, or accepted, stays so.
LEMMA DueStays ==
    ASSUME DueInv, mem.accepted \subseteq mem'.accepted, mem'.due = mem.due,
           BagToSet(mem.file) \subseteq BagToSet(mem'.file),
           pc'[Main] = "exec" => pc[Main] = "exec", mem'.state = mem.state
    PROVE  DueInv'
BY DEF DueInv

\* An event is not yet held when it is accepted.
LEMMA CurFresh ==
    ASSUME TypeOK, ThreadInv, FreshInv, NEW t \in Threads, pc[t] \in Inside
    PROVE  cur[t] \notin mem.accepted \cup mem.inherited /\ cur[t] # Name
<1>1. cur[t][1] = t /\ cur[t][2] = calls[t] /\ cur[t] \in Events /\ calls[t] \in Nat
  BY DEF ThreadInv, TypeOK
<1>2. ~(calls[t] < calls[t])
  BY <1>1
<1>3. cur[t] # Name
  BY <1>1, EventKinds
<1> QED
  BY <1>1, <1>2, <1>3 DEF FreshInv

\* The steps of a call keep every event in its place.
LEMMA LoggingPlace ==
    ASSUME DOMAIN mem = Fields, TypeOK, MainInv, ThreadInv, FreshInv, PlaceInv,
           NEW t \in Threads, Logging(t)
    PROVE  PlaceInv'
<1> USE PlaceParts, TypeParts DEF MemoryTypes
<1>1. /\ Frame(LoggingFields) /\ pc[t] \in Inside
      /\ \E step \in Inside \cup {ret[t]} : pc' = [pc EXCEPT ![t] = step]
  BY LoggingStep
<1>2. /\ mem'.buf = mem.buf /\ mem'.inherited = mem.inherited /\ mem'.state = mem.state
      /\ mem'.due = mem.due
  BY <1>1 DEF Frame, Fields, LoggingFields
<1>3. /\ pc'[Main] = "boot" <=> pc[Main] = "boot"
      /\ pc'[Main] = "exec" => pc[Main] = "exec"
  BY <1>1, TracerConstants DEF ThreadTypes, Inside, After
<1>4. CASE /\ UNCHANGED <<mem.items, mem.file, mem.agg, mem.accepted>>
  BY <1>2, <1>3, <1>4 DEF HeldInv, RowsInv, GoneInv, DueInv
<1>5. CASE NameWrite(t) /\ mem.buf
  <2>1. /\ Frame({"items", "file", "mtx"}) /\ Gain({Name})
        /\ mem'.agg = mem.agg /\ mem'.accepted = mem.accepted
    BY <1>5, NameWriteMem DEF Frame, Fields
  <2>2. pc[t] = "name_write"
    BY <1>5 DEF NameWrite, At
  <2>3. RowsInv'
    BY <1>2, <1>3, <2>1 DEF RowsInv
  <2>4. HeldInv'
    BY <1>2, <1>3, <2>1, HeldName DEF HeldInv
  <2>5. BagToSet(mem.file) \subseteq BagToSet(mem'.file)
    BY <2>1, GainKeeps
  <2>6. DueInv'
    BY <1>2, <1>3, <2>1, <2>5, DueStays
  <2> QED
    BY <1>2, <1>5, <2>3, <2>4, <2>6 DEF GoneInv
<1>6. CASE Write(t) /\ crash' = crash
  <2>1. pc[t] = "write" /\ crash = NoOne
    BY <1>6 DEF Write, At
  <2>2. /\ mem'.accepted = IF mem.buf THEN mem.accepted \cup {cur[t]} ELSE mem.accepted
        /\ \/ mem.buf /\ Gain({cur[t]}) /\ mem'.agg = mem.agg
           \/ Aggregated(cur[t])
    BY <1>6, <2>1, WriteMem
  <2>3. pc[Main] # "boot"
    BY <2>1, TracerConstants DEF ThreadInv
  <2>4. cur[t] \notin mem.accepted \cup mem.inherited /\ cur[t] # Name
    BY <1>1, CurFresh
  <2>5. PICK new : Gain(new) /\ (mem.buf \/ new = {})
    BY <2>2 DEF Aggregated
  <2>6. BagToSet(mem.file) \subseteq BagToSet(mem'.file)
    BY <2>5, GainKeeps
  <2>7. DueInv'
    BY <1>2, <1>3, <2>2, <2>6, DueStays
  <2>8. HeldInv'
    <3> SUFFICES ASSUME mem.buf PROVE HeldInv'
      BY <1>2 DEF HeldInv
    <3> DEFINE K == mem.accepted \cup mem.inherited
    <3>1. Held(mem.file, mem.items, mem.agg, K)
      BY <2>3 DEF HeldInv
    <3>2. mem'.accepted \cup mem'.inherited = K \cup {cur[t]}
      BY <1>2, <2>2
    <3> HIDE DEF K
    <3>3. cur[t] \notin K /\ cur[t] # Name
      BY <2>4 DEF K
    <3>4. Held(mem'.file, mem'.items, mem'.agg, K \cup {cur[t]})
      <4>1. CASE Gain({cur[t]}) /\ mem'.agg = mem.agg
        BY <3>1, <3>3, <4>1, HeldGain
      <4>2. CASE Aggregated(cur[t])
        BY <3>1, <3>3, <4>2, HeldAggregated
      <4> QED
        BY <2>2, <4>1, <4>2
    <3> QED
      BY <3>2, <3>4 DEF HeldInv
  <2>9. GoneInv'
    <3> SUFFICES ASSUME ~mem.buf PROVE GoneInv'
      BY <1>2 DEF GoneInv
    <3>1. mem'.file = mem.file
      BY <2>5 DEF Gain
    <3> QED
      BY <1>2, <2>2, <2>3, <3>1 DEF GoneInv
  <2> QED
    BY <1>3, <2>3, <2>7, <2>8, <2>9 DEF RowsInv
<1>7. \/ UNCHANGED <<mem.items, mem.file, mem.agg, mem.accepted>>
      \/ NameWrite(t) /\ mem.buf
      \/ Write(t) /\ crash' = crash
  <2>1. CASE mem' = mem
    BY <2>1
  <2>2. CASE InsertHash(t) \/ Log(t) \/ Lock(t)
    BY <2>2, InsertHashMem, LogMem, LockMem DEF Frame, Fields
  <2>3. CASE ReadHash(t) \/ HasHash(t) \/ Found(t) \/ Inserted(t)
    BY <2>3, ReadHashMem, MapMem DEF Frame, Fields
  <2>4. CASE NameHash(t) /\ mem.bm
    BY <2>4, NameHashMem DEF Frame, Fields
  <2>5. (NameHash(t) /\ ~mem.bm) \/ Enter(t) => mem' = mem
    BY DEF NameHash, Enter, Crashes
  <2>6. NameWrite(t) /\ ~mem.buf => mem' = mem
    BY DEF NameWrite, Crashes
  <2>7. Write(t) => mem' = mem \/ crash' = crash
    BY DEF Write, Crashes
  <2> QED
    BY <2>1, <2>2, <2>3, <2>4, <2>5, <2>6, <2>7 DEF Logging
<1> QED
  BY <1>4, <1>5, <1>6, <1>7

\* Every step does: fork, which empties nothing, and initialize, which empties the
\* buffer but not the rows; flush and finalize, which write all out.
LEMMA PlaceNext ==
    ASSUME DOMAIN mem = Fields, TypeOK, MainInv, ThreadInv, HashInv, FreshInv, PlaceInv,
           [Next]_vars
    PROVE  PlaceInv'
<1> USE PlaceParts, TypeParts DEF MemoryTypes
<1>1. ASSUME NEW t \in Threads, Beginning(t) PROVE PlaceInv'
  <2>1. PICK step \in First, h \in BOOLEAN, after \in After :
           Begin(t, step, h, after) /\ mem' = mem
    BY <1>1, BeginStep
  <2>2. /\ pc'[Main] = "boot" <=> pc[Main] = "boot"
        /\ pc'[Main] = "exec" => pc[Main] = "exec"
    BY <2>1, TracerConstants DEF Begin, Goto, At, ThreadTypes, First
  <2> QED
    BY <2>1, <2>2 DEF HeldInv, RowsInv, GoneInv, DueInv
<1>2. CASE Started
  <2>1. pc[Main] = "start" /\ pc'[Main] = "idle" /\ mem.buf
    BY <1>2, TracerConstants DEF Started, At, Goto, ThreadTypes, MainInv
  <2> DEFINE e == StartEvent(mem.forks)
             K == mem.accepted \cup mem.inherited
  <2>2. /\ Gain({e}) /\ mem'.agg = mem.agg /\ mem'.accepted = mem.accepted \cup {e}
        /\ mem'.inherited = mem.inherited /\ mem'.state = mem.state /\ mem'.due = mem.due
        /\ mem'.buf = mem.buf
    BY <1>2, StartedMem DEF Frame, Fields
  <2>3. Held(mem.file, mem.items, mem.agg, K)
    BY <2>1 DEF HeldInv
  <2>4. e \notin K /\ e # Name
    BY <2>1, EventKinds DEF FreshInv, Booting
  <2>5. BagToSet(mem.file) \subseteq BagToSet(mem'.file)
    BY <2>2, GainKeeps
  <2>6. DueInv'
    BY <2>1, <2>2, <2>5, DueStays
  <2>7. mem'.accepted \cup mem'.inherited = K \cup {e}
    BY <2>2
  <2> HIDE DEF K, e
  <2>8. Held(mem'.file, mem'.items, mem'.agg, mem'.accepted \cup mem'.inherited)
    BY <2>2, <2>3, <2>4, <2>7, HeldGain
  <2> QED
    BY <2>1, <2>2, <2>6, <2>8 DEF HeldInv, RowsInv, GoneInv
<1>3. CASE End
  <2>1. pc[Main] = "end" /\ pc'[Main] = "not_ready" /\ mem.buf
    BY <1>3, TracerConstants DEF End, At, Goto, ThreadTypes, MainInv
  <2> DEFINE e == EndEvent(mem.forks)
             K == mem.accepted \cup mem.inherited
  <2>2. /\ Gain({e}) /\ mem'.agg = mem.agg /\ mem'.accepted = mem.accepted \cup {e}
        /\ mem'.inherited = mem.inherited /\ mem'.state = mem.state /\ mem'.due = mem.due
        /\ mem'.buf = mem.buf
    BY <1>3, EndMem DEF Frame, Fields
  <2>3. Held(mem.file, mem.items, mem.agg, K)
    BY <2>1 DEF HeldInv
  <2>4. e \notin K /\ e # Name
    BY <2>1, EventKinds DEF FreshInv
  <2>5. BagToSet(mem.file) \subseteq BagToSet(mem'.file)
    BY <2>2, GainKeeps
  <2>6. DueInv'
    BY <2>1, <2>2, <2>5, DueStays
  <2>7. mem'.accepted \cup mem'.inherited = K \cup {e}
    BY <2>2
  <2> HIDE DEF K, e
  <2>8. Held(mem'.file, mem'.items, mem'.agg, mem'.accepted \cup mem'.inherited)
    BY <2>2, <2>3, <2>4, <2>7, HeldGain
  <2> QED
    BY <2>1, <2>2, <2>6, <2>8 DEF HeldInv, RowsInv, GoneInv
<1>4. CASE Fork
  <2>1. pc[Main] = "idle" /\ mem.init /\ pc'[Main] = "boot"
    BY <1>4, TracerConstants DEF Fork, At
  <2>2. mem.buf
    BY <2>1 DEF MainInv, Running, Over, Calling
  <2>3. mem'.agg = mem.agg /\ mem'.inherited = Folded(mem.agg) /\ mem'.state = "none"
    BY <1>4, ForkMem DEF Frame, Fields
  <2>4. \A x, y \in mem.agg : x[1] = y[1] => x = y
    BY <2>1, <2>2 DEF HeldInv, Held
  <2> QED
    BY <2>1, <2>3, <2>4 DEF HeldInv, RowsInv, GoneInv, DueInv
<1>5. CASE InitBuffer
  <2>1. pc[Main] = "boot" /\ pc'[Main] = "boot_ready"
    BY <1>5, TracerConstants DEF InitBuffer, At, Goto, ThreadTypes
  <2>2. /\ mem'.buf /\ mem'.items = {} /\ mem'.file = EmptyBag /\ mem'.state = "open"
        /\ mem'.agg = mem.agg /\ mem'.accepted = mem.accepted /\ mem'.inherited = mem.inherited
    BY <1>5, InitBufferMem DEF Frame, Fields
  <2>3. mem.accepted = {} /\ Folded(mem.agg) = mem.inherited
    BY <2>1 DEF HashInv, RowsInv
  <2>4. Name \notin mem.inherited
    BY EventKinds DEF FreshInv
  <2>5. Held(mem'.file, mem'.items, mem'.agg, mem'.accepted \cup mem'.inherited)
    BY <2>1, <2>2, <2>3, <2>4, BagEmpty DEF Held, RowsInv
  <2> QED
    BY <2>1, <2>2, <2>5 DEF HeldInv, RowsInv, GoneInv, DueInv
<1>6. CASE Flush
  <2>1. pc[Main] = "flush" /\ pc'[Main] = "exec" /\ mem.buf
    BY <1>6, TracerConstants DEF Flush, At, Goto, ThreadTypes, MainInv, Running
  <2>2. /\ WrittenOut /\ mem'.due = mem.accepted /\ mem'.accepted = mem.accepted
        /\ mem'.inherited = mem.inherited /\ mem'.buf = mem.buf
    BY <1>6, FlushMem DEF Frame, Fields
  <2>3. /\ Held(mem'.file, mem'.items, mem'.agg, mem.accepted \cup mem.inherited)
        /\ mem.accepted \subseteq BagToSet(mem'.file)
    BY <2>1, <2>2, HeldWritten DEF HeldInv
  <2> QED
    BY <2>1, <2>2, <2>3 DEF HeldInv, RowsInv, GoneInv, DueInv
<1>7. CASE Close
  <2>1. pc[Main] = "close" /\ pc'[Main] = "reset" /\ mem.buf
    BY <1>7, TracerConstants DEF Close, At, Goto, ThreadTypes, MainInv
  <2>2. /\ WrittenOut /\ mem'.accepted = mem.accepted /\ ~mem'.buf
        /\ mem'.inherited = mem.inherited /\ mem'.state # "replaced"
    BY <1>7, CloseMem DEF Frame, Fields
  <2>3. /\ Held(mem'.file, mem'.items, mem'.agg, mem.accepted \cup mem.inherited)
        /\ mem.accepted \subseteq BagToSet(mem'.file)
    BY <2>1, <2>2, HeldWritten DEF HeldInv
  <2>4. GoneInv'
    BY <2>2, <2>3 DEF GoneInv, Held
  <2> QED
    BY <2>1, <2>2, <2>4 DEF HeldInv, RowsInv, DueInv
<1>8. CASE \/ InitReady \/ RealExec \/ FinalizeTrie \/ Unbind \/ NotReady \/ Reset
           \/ Finalized \/ ForkLate \/ Exit \/ UNCHANGED vars
  <2>1. /\ mem'.items = mem.items /\ mem'.file = mem.file /\ mem'.agg = mem.agg
        /\ mem'.accepted = mem.accepted /\ mem'.inherited = mem.inherited
        /\ mem'.buf = mem.buf /\ mem'.due = mem.due
    BY <1>8, InitReadyMem, RealExecMem, FinalizeTrieMem, UnbindMem, NotReadyMem,
       ResetMem, FinalizedMem, ExitMem DEF ForkLate, Crashes, vars, Frame, Fields
  <2>2. /\ pc'[Main] = "boot" <=> pc[Main] = "boot"
        /\ pc'[Main] = "exec" => pc[Main] = "exec"
    BY <1>8, TracerConstants DEF InitReady, RealExec, FinalizeTrie, Unbind, NotReady, Reset,
       Finalized, ForkLate, Crashes, Exit, vars, At, Goto, ThreadTypes
  <2>3. mem'.state = "replaced" => mem.state = "replaced" \/ pc[Main] = "exec"
    <3>1. CASE RealExec
      BY <3>1 DEF RealExec, At
    <3>2. CASE ~RealExec
      BY <1>8, <3>2, InitReadyMem, FinalizeTrieMem, UnbindMem, NotReadyMem,
         ResetMem, FinalizedMem, ExitMem DEF ForkLate, Crashes, vars, Frame, Fields
    <3> QED
      BY <3>1, <3>2
  <2> QED
    BY <2>1, <2>2, <2>3 DEF HeldInv, RowsInv, GoneInv, DueInv
<1>9. ASSUME NEW t \in Threads, Logging(t) PROVE PlaceInv'
  BY <1>9, LoggingPlace
<1>10. ASSUME NEW t \in Threads, Track(t) PROVE PlaceInv'
  <2>1. /\ mem'.items = mem.items /\ mem'.file = mem.file /\ mem'.agg = mem.agg
        /\ mem'.accepted = mem.accepted /\ mem'.inherited = mem.inherited
        /\ mem'.buf = mem.buf /\ mem'.due = mem.due /\ mem'.state = mem.state
    BY <1>10, TrackMem DEF Frame, Fields
  <2>2. /\ pc'[Main] = "boot" <=> pc[Main] = "boot"
        /\ pc'[Main] = "exec" => pc[Main] = "exec"
    BY <1>10, TracerConstants DEF Track, At, Goto, ThreadTypes
  <2> QED
    BY <2>1, <2>2 DEF HeldInv, RowsInv, GoneInv, DueInv
<1> QED
  BY <1>1, <1>2, <1>3, <1>4, <1>5, <1>6, <1>7, <1>8, <1>9, <1>10, TracerConstants
     DEF Next, Owning, Beginning

-----------------------------------------------------------------------------
(* What the invariant says of the trace.                                   *)

\* Times is the bag's count of a record that is in the file.
LEMMA TimesOf ==
    ASSUME NEW e, e \in BagToSet(mem.file)
    PROVE  Times(e) = mem.file[e]
BY DEF Times, BagIn, BagToSet

\* While the trace is written, each event has one place in it or before it.
LEMMA PlaceSound ==
    ASSUME TypeOK, MainInv, ThreadInv, PlaceInv, TallyInv
    PROVE  TraceComplete /\ OwnEventsOnly
<1> USE PlaceParts
<1> DEFINE K == mem.accepted \cup mem.inherited
<1>1. pc[Main] \in Calling \cup Booting \cup Ending
  BY TracerConstants DEF TypeOK, Steps, ThreadInv, Booting, Ending, Calling, Inside
<1>2. Closed => ~mem.buf /\ pc[Main] # "boot"
  BY <1>1 DEF MainInv, Running, Over, Closed, Booting, Ending, Calling
<1>3. mem.state = "replaced" => mem.buf /\ pc[Main] # "boot"
  BY <1>1 DEF MainInv, Running, Over, Closed, Booting, Ending, Calling
<1>4. \A e \in K : mem.state # "none" /\ e \in BagToSet(mem.file) => Times(e) = 1
  <2> SUFFICES ASSUME NEW e \in K, mem.state # "none", e \in BagToSet(mem.file)
               PROVE  mem.file[e] = 1
    BY TimesOf
  <2>1. pc[Main] # "boot"
    BY DEF MainInv
  <2>2. CASE mem.buf
    BY <2>1, <2>2 DEF HeldInv, Held
  <2>3. CASE ~mem.buf
    BY <2>1, <2>3 DEF GoneInv
  <2> QED
    BY <2>2, <2>3
<1>5. TraceComplete
  <2>1. Closed => \A e \in mem.accepted : Times(e) = 1
    BY <1>2, <1>4 DEF GoneInv, Closed
  <2>2. mem.state = "deleted" => mem.counted < KeepFrom
    BY DEF TallyInv
  <2>3. mem.state = "replaced" => \A e \in mem.due : Times(e) = 1
    BY <1>4 DEF DueInv
  <2> QED
    BY <2>1, <2>2, <2>3 DEF TraceComplete, Closed
<1>6. OwnEventsOnly
  <2> SUFFICES ASSUME mem.state # "none", NEW e \in BagToSet(mem.file) \ {Name}
               PROVE  e \in K
    BY <1>4 DEF OwnEventsOnly
  <2>1. pc[Main] # "boot"
    BY DEF MainInv
  <2>2. CASE mem.buf
    BY <2>1, <2>2 DEF HeldInv, Held
  <2>3. CASE ~mem.buf
    BY <2>1, <2>3 DEF GoneInv
  <2> QED
    BY <2>2, <2>3
<1> QED
  BY <1>5, <1>6

-----------------------------------------------------------------------------
(* The invariant, and what follows from it.                                *)

\* The invariant holds when the logger has been created.
LEMMA InvInit ==
    ASSUME Init
    PROVE  IInv
<1>0. Main \in Threads /\ MaxForks \in Nat /\ MaxInterval \in Nat
  BY TracerConstants
<1>1. /\ DOMAIN mem = Fields /\ mem.live /\ mem.forks = 0 /\ ~mem.init /\ mem.active
      /\ ~mem.bound /\ mem.bind /\ mem.bm /\ ~mem.ready /\ ~mem.buf
      /\ mem.items = {} /\ mem.mtx = NoOne /\ ~mem.hash /\ ~mem.tracked /\ mem.map = {}
      /\ mem.freed = {} /\ mem.index = 0 /\ mem.atfini = 0
      /\ mem.agg = {} /\ mem.last = 0 /\ mem.file = EmptyBag /\ mem.state = "none"
      /\ mem.accepted = {} /\ mem.counted = 0 /\ mem.inherited = {}
  BY DEF Init, Fields
<1>2. /\ \A t \in Threads : /\ pc[t] = IF t = Main THEN "boot" ELSE "idle"
                            /\ cur[t] = <<t, 0, FALSE>> /\ ret[t] = "idle"
                            /\ late[t] = FALSE /\ calls[t] = 0
      /\ crash = NoOne
  BY DEF Init
<1>3. cur \in [Threads -> Events]
  BY DEF Init, Events
<1>4. /\ pc[Main] = "boot"
      /\ \A t \in Threads : pc[t] = "boot" \/ pc[t] = "idle"
      /\ \A t \in Threads : t # Main => pc[t] = "idle"
  BY <1>0, <1>2
<1> USE <1>0 DEF Inside, Naming, Counting, Calling, Booting, Ending, After
<1>5. ThreadTypes
  <2>1. pc \in [Threads -> Steps] /\ ret \in [Threads -> After]
    BY DEF Init, Steps
  <2>2. late \in [Threads -> BOOLEAN] /\ calls \in [Threads -> Nat]
    BY DEF Init
  <2> QED
    BY <1>2, <1>3, <2>1, <2>2 DEF ThreadTypes
<1>6. MemoryTypes
  BY <1>1, BagEmpty DEF MemoryTypes
<1>7. Excluded
  BY <1>4 DEF Excluded
<1>8. MainInv
  BY <1>1, <1>4 DEF MainInv
<1>9. ThreadInv
  <2>1. \A t \in Threads : ret[t] = "idle"
    BY <1>2
  <2> QED
    BY <1>1, <1>4, <2>1 DEF ThreadInv
<1>10. LateInv /\ CrashOnlyInFinalize
  BY <1>1, <1>2, <1>4 DEF LateInv, CrashOnlyInFinalize
<1>11. HashInv
  BY <1>1, <1>2, <1>4 DEF HashInv, Hashed
<1>12. IndexInv
  <2>1. Counted = {}
    BY <1>1, <1>4 DEF Counted
  <2>2. IsFiniteSet({}) /\ Cardinality({}) = 0
    BY FS_EmptySet
  <2> QED
    BY <1>1, <1>4, <2>1, <2>2 DEF IndexInv
<1>13. FreshInv
  BY <1>1 DEF FreshInv
<1>14. PlaceInv
  <2>1. Folded({}) = {}
    BY DEF Folded
  <2> QED
    BY <1>1, <1>4, <2>1 DEF PlaceInv
<1> QED
  BY <1>1, <1>5, <1>6, <1>7, <1>8, <1>9, <1>10, <1>11, <1>12, <1>13, <1>14, TypeParts DEF IInv

\* Every step keeps the invariant.
LEMMA InvNext ==
    ASSUME IInv, [Next]_vars
    PROVE  IInv'
<1> USE DEF IInv
<1>1. mem.index \in Nat /\ CountInv /\ TallyInv
  BY IndexParts
<1>2. ThreadTypes' /\ Excluded'
  BY ThreadTypesNext, ExcludedNext
<1>3. MemoryTypes' /\ DOMAIN mem' = Fields
  BY MemoryTypesNext
<1>4. TypeOK'
  BY <1>2, <1>3, TypeParts
<1>5. MainInv' /\ ThreadInv'
  BY MainNext, ThreadNext
<1>6. LateInv' /\ CrashOnlyInFinalize'
  BY LateNext, CrashNext
<1>7. CountInv' /\ TallyInv'
  BY <1>1, CountNext, TallyNext
<1>8. IndexInv'
  BY <1>3, <1>7, IndexParts DEF MemoryTypes
<1>9. HashInv' /\ FreshInv' /\ PlaceInv'
  BY HashNext, FreshNext, PlaceNext
<1> QED
  BY <1>3, <1>4, <1>5, <1>6, <1>8, <1>9

\* The invariant implies the properties.
LEMMA InvSound ==
    ASSUME IInv
    PROVE  TypeOK /\ CrashOnlyInFinalize /\ HashNamed /\ TraceComplete /\ OwnEventsOnly
<1>1. TallyInv
  BY IndexParts DEF IInv
<1> QED
  BY <1>1, HashSound, PlaceSound DEF IInv

\* So it holds in every state the process reaches.
LEMMA InvHolds == Spec => []IInv
<1>1. IInv /\ UNCHANGED vars => IInv'
  BY InvNext
<1>2. IInv /\ Next => IInv'
  BY InvNext
<1>3. QED
  BY <1>2, <1>1, InvInit, PTL DEF Spec

\* Typing, in the states of a process whose threads log while it is initialized,
\* forked and finalized: whoever is about to write holds the manager's mutex,
\* and records wait in the buffer only while LocalBufferManager has one.
THEOREM TracerTyping == Spec => []TypeOK
<1>1. IInv => TypeOK
  BY InvSound
<1> QED
  BY <1>1, InvHolds, PTL

\* The pointers and the flag ready that DFTLogger and LocalBufferManager test
\* before they are used keep every call from a null pointer until finalize has
\* closed the trace, and until then no string of a hash is freed; a call that begins
\* after finalize returned meets such a pointer or string only in a forked child,
\* and there only in a fork, or if the child traces all files or tracks one.
THEOREM TracerCrashOnlyInFinalize == Spec => []CrashOnlyInFinalize
<1>1. IInv => CrashOnlyInFinalize
  BY InvSound
<1> QED
  BY <1>1, InvHolds, PTL

\* insert_hash caches the hash of a file name before hash_and_store_str logs the
\* record that names it; a closed trace has that record all the same, but in the
\* cases that HashNamed lists.
THEOREM TracerHashNamed == Spec => []HashNamed
<1>1. IInv => HashNamed
  BY InvSound
<1> QED
  BY <1>1, InvHolds, PTL

\* log_data_event, finalize and the flush of exec lose no event and write none
\* twice, in full or aggregated, whichever threads log meanwhile; and finalize
\* unlinks a trace by the index it read, which is at least the number of events.
THEOREM TracerTraceComplete == Spec => []TraceComplete
<1>1. IInv => TraceComplete
  BY InvSound
<1> QED
  BY <1>1, InvHolds, PTL

\* reinitialize in a forked child empties the buffer but not the aggregator: the
\* child's trace has of the parent's events only those of open aggregates.
THEOREM TracerOwnEventsOnly == Spec => []OwnEventsOnly
<1>1. IInv => OwnEventsOnly
  BY InvSound
<1> QED
  BY <1>1, InvHolds, PTL
=============================================================================
