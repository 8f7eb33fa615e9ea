--------------------------------- MODULE Ring ---------------------------------
(***************************************************************************)
(* The shared-memory ring between traced processes and dftracer_service:   *)
(* RingProducer (core/ipc/ring_producer.h) on one side and                 *)
(* ParallelBlockClaimer (service/pipeline/block_tracker.h) on the other.   *)
(*                                                                         *)
(* Every atomic access to the segment that another thread can observe is a *)
(* step of its own, so all interleavings of the lock-free protocol are     *)
(* behaviours of Spec.  Memory is sequentially consistent.  Two accesses   *)
(* are one step only where the text at the action says why no other thread *)
(* can tell.                                                               *)
(*                                                                         *)
(* Abstractions: a record is one cell, a block has Capacity cells; a block *)
(* is named by its sequence number (head counts them) and lives in slot    *)
(* seq % BlockCount; epochs are unbounded naturals (32 bits in the code);  *)
(* the age test of take_over is a free choice, since any held block        *)
(* becomes old enough if the scan comes late enough; a spurious failure of *)
(* a weak CAS repeats its loop with the same values and is left out; so is *)
(* header->tail, a copy of tail_ for diagnostics.  Every reservation is    *)
(* committed before the next call, as ServiceBufferManager::push does.     *)
(***************************************************************************)
EXTENDS Integers, FiniteSets

CONSTANTS
    Producers,     \* producer threads, one RingProducer each
    Pids,          \* traced processes
    Pid,           \* the process of each producer thread
    NoPid,         \* the zero owner_pid of a formatted block
    Drainers,      \* drain threads of the service
    Takers,        \* those that call take_over: drain thread 0 in RingSink
    BlockCount,    \* blocks in the ring
    Capacity,      \* records that fit in a block
    DeathPoints,   \* program points at which a process may be killed
    MaxHead,       \* bound: blocks ever claimed
    MaxRecords     \* bound: records per producer thread

\* Program points of a producer thread: between calls, and before each access.
ProducerPoints ==
    {"idle", "pub_cas", "pub_commit", "pub_owner", "load_head", "load_armed",
     "cas_head", "stamp", "own", "begin", "header", "commit", "end_write"}

ASSUME RingConstants ==
    /\ Pid \in [Producers -> Pids]
    /\ NoPid \notin Pids
    /\ Takers \subseteq Drainers
    /\ BlockCount \in Nat \ {0, 1}
    /\ Capacity \in Nat \ {0}
    /\ DeathPoints \subseteq ProducerPoints
    /\ MaxHead \in Nat
    /\ MaxRecords \in Nat

VARIABLES
    head,        \* SegmentHeader::head, the next block to claim
    armed,       \* BlockControl::armed, per slot: the lap it may be claimed for
    committed,   \* BlockControl::committed, per slot
    owner,       \* BlockControl::owner, per slot
    claim_ns,    \* BlockControl::claim_ns, per slot: stamped or zero
    owner_pid,   \* BlockControl::owner_pid, per slot
    cells,       \* the record headers of each slot's data area
    ppc,         \* producer: program point
    goal,        \* producer: the call in progress, reserve or flush
    seen,        \* producer: local `seq` of claim()
    cur,         \* producer: the block held (block_, data_), or NoBlock
    used,        \* producer: used_
    nrec,        \* producer: records reserved so far
    dead,        \* killed processes
    next,        \* ParallelBlockClaimer::next_
    tail,        \* ParallelBlockClaimer::tail_
    released,    \* ParallelBlockClaimer::released_, per slot
    dpc,         \* drain thread: program point
    mode,        \* drain thread: claim(), take_over() or ready_blocks()
    dhead,       \* drain thread: local `head`
    dseq,        \* drain thread: local `s`, then the block in hand
    downer,      \* drain thread: the owner word take_over loaded
    dtail,       \* drain thread: local `t` of release()
    uncommitted, \* records skipped as never committed (stats.uncommitted)
    drained,     \* history: times each record was replayed
    logged,      \* history: records committed by their producers
    overtaken    \* history: blocks whose owner word an earlier lap overwrote

segment  == <<head, armed, committed, owner, claim_ns, owner_pid, cells>>
producer == <<ppc, goal, seen, cur, used, nrec>>
claimer  == <<next, tail, released>>
drainer  == <<dpc, mode, dhead, dseq, downer, dtail>>
history  == <<uncommitted, drained, logged, overtaken>>
vars     == <<segment, producer, dead, claimer, drainer, history>>

Slots   == 0 .. BlockCount - 1
Records == Producers \X (1 .. MaxRecords)
NoBlock == -1

----------------------------------------------------------------------------
(* RingView: words and geometry *)

\* block(seq): the slot of a block
Slot(s) == s % BlockCount

\* epoch(seq): its lap around the ring, from 1
Epoch(s) == (s \div BlockCount) + 1

\* published_word, claimed_word
Published(e) == [lap |-> e, st |-> "published"]
Claimed(e)   == [lap |-> e, st |-> "claimed"]

\* owner_word
OwnerWord(e, st) == [lap |-> e, st |-> st]

ZeroWord == [lap |-> 0, st |-> "zero"]

Commits == [lap : Nat, st : {"zero", "published", "claimed"}]
Owners  == [lap : Nat, st : {"zero", "IDLE", "WRITING", "PUBLISHED", "TAKEN"}]
Cells   == [lap : Nat, st : {"none", "pad"}, rec : {<<>>}]
               \cup [lap : Nat, st : {"reserved", "committed"}, rec : Records]

Cell(e, st, r) == [lap |-> e, st |-> st, rec |-> r]

\* RingView::format, and an idle producer or drain thread
Init ==
    /\ head = 0
    /\ armed = [i \in Slots |-> Epoch(i)]
    /\ committed = [i \in Slots |-> ZeroWord]
    /\ owner = [i \in Slots |-> ZeroWord]
    /\ claim_ns = [i \in Slots |-> FALSE]
    /\ owner_pid = [i \in Slots |-> NoPid]
    /\ cells = [i \in Slots |-> [j \in 1 .. Capacity |-> Cell(0, "none", <<>>)]]
    /\ ppc = [p \in Producers |-> "idle"]
    /\ goal = [p \in Producers |-> "flush"]
    /\ seen = [p \in Producers |-> 0]
    /\ cur = [p \in Producers |-> NoBlock]
    /\ used = [p \in Producers |-> 0]
    /\ nrec = [p \in Producers |-> 0]
    /\ dead = {}
    /\ next = 0
    /\ tail = 0
    /\ released = [i \in Slots |-> 0]
    /\ dpc = [d \in Drainers |-> "idle"]
    /\ mode = [d \in Drainers |-> "claim"]
    /\ dhead = [d \in Drainers |-> 0]
    /\ dseq = [d \in Drainers |-> 0]
    /\ downer = [d \in Drainers |-> ZeroWord]
    /\ dtail = [d \in Drainers |-> 0]
    /\ drained = [r \in Records |-> 0]
    /\ uncommitted = {}
    /\ logged = {}
    /\ overtaken = {}

----------------------------------------------------------------------------
(* RingProducer *)

\* A step of producer p from program point a to program point b.
At(p, a, b) ==
    /\ ppc[p] = a
    /\ Pid[p] \notin dead
    /\ ppc' = [ppc EXCEPT ![p] = b]

\* The slot of the block p holds, and its epoch_.
MySlot(p)  == Slot(cur[p])
MyEpoch(p) == Epoch(cur[p])

\* Mutant: the room test of try_reserve is off by one.
TryReserveOffByOne(p) ==
    /\ nrec[p] < MaxRecords
    /\ goal' = [goal EXCEPT ![p] = "reserve"]
    /\ \/ cur[p] = NoBlock /\ At(p, "idle", "load_head")
       \/ cur[p] # NoBlock /\ used[p] <= Capacity /\ At(p, "idle", "begin")
    /\ UNCHANGED <<segment, seen, cur, used, nrec, dead, claimer, drainer, history>>

\* try_reserve: publish and claim if there is no block or no room in it,
\* otherwise straight to begin_write
TryReserve(p) ==
    /\ nrec[p] < MaxRecords
    /\ goal' = [goal EXCEPT ![p] = "reserve"]
    /\ \/ cur[p] = NoBlock /\ At(p, "idle", "load_head")
       \/ cur[p] # NoBlock /\ used[p] = Capacity /\ At(p, "idle", "pub_cas")
       \/ cur[p] # NoBlock /\ used[p] < Capacity /\ At(p, "idle", "begin")
    /\ UNCHANGED <<segment, seen, cur, used, nrec, dead, claimer, drainer, history>>

\* flush, flush_if_older or the destructor, with a block in hand
Flush(p) ==
    /\ cur[p] # NoBlock
    /\ goal' = [goal EXCEPT ![p] = "flush"]
    /\ At(p, "idle", "pub_cas")
    /\ UNCHANGED <<segment, seen, cur, used, nrec, dead, claimer, drainer, history>>

\* drop(), then on to claim() (in try_reserve) or back to the caller.  used_ is
\* not read again before claim() clears it; it is cleared here.
Drop(p) ==
    /\ cur' = [cur EXCEPT ![p] = NoBlock]
    /\ used' = [used EXCEPT ![p] = 0]
AfterPublish(p) == IF goal[p] = "reserve" THEN "load_head" ELSE "idle"

\* Mutant: publish leaves the unused tail of the block as it was.
PublishUnpadded(p) ==
    /\ owner[MySlot(p)] = OwnerWord(MyEpoch(p), "IDLE")
    /\ At(p, "pub_cas", "pub_commit")
    /\ owner' = [owner EXCEPT ![MySlot(p)] = OwnerWord(MyEpoch(p), "WRITING")]
    /\ UNCHANGED <<head, armed, committed, claim_ns, owner_pid, cells, goal, seen,
                   cur, used, nrec, dead, claimer, drainer, history>>

\* publish: begin_write by CAS.  On success the unused tail becomes padding;
\* no other thread reads the data area of a block that is WRITING.
PublishBegin(p) ==
    /\ owner[MySlot(p)] = OwnerWord(MyEpoch(p), "IDLE")
    /\ At(p, "pub_cas", "pub_commit")
    /\ owner' = [owner EXCEPT ![MySlot(p)] = OwnerWord(MyEpoch(p), "WRITING")]
    /\ cells' = IF used[p] < Capacity
                THEN [cells EXCEPT ![MySlot(p)][used[p] + 1] =
                                       Cell(MyEpoch(p), "pad", <<>>)]
                ELSE cells
    /\ UNCHANGED <<head, armed, committed, claim_ns, owner_pid, goal, seen, cur,
                   used, nrec, dead, claimer, drainer, history>>

\* publish: the service has the block
PublishTaken(p) ==
    /\ owner[MySlot(p)] # OwnerWord(MyEpoch(p), "IDLE")
    /\ At(p, "pub_cas", AfterPublish(p))
    /\ Drop(p)
    /\ UNCHANGED <<segment, goal, seen, nrec, dead, claimer, drainer, history>>

\* publish: the release store of committed
PublishCommit(p) ==
    /\ At(p, "pub_commit", "pub_owner")
    /\ committed' = [committed EXCEPT ![MySlot(p)] = Published(MyEpoch(p))]
    /\ UNCHANGED <<head, armed, owner, claim_ns, owner_pid, cells, goal, seen,
                   cur, used, nrec, dead, claimer, drainer, history>>

\* publish: the store of PUBLISHED that follows it, then drop().  By now the
\* block may have been drained, released and claimed for a later lap.
PublishOwner(p) ==
    /\ At(p, "pub_owner", AfterPublish(p))
    /\ owner' = [owner EXCEPT ![MySlot(p)] = OwnerWord(MyEpoch(p), "PUBLISHED")]
    /\ overtaken' = overtaken \cup
          {s \in 0 .. MaxHead : /\ Slot(s) = MySlot(p)
                               /\ s > cur[p]
                               /\ Epoch(s) = owner[MySlot(p)].lap}
    /\ Drop(p)
    /\ UNCHANGED <<head, armed, committed, claim_ns, owner_pid, cells, goal,
                   seen, nrec, dead, claimer, drainer,
                   uncommitted, drained, logged>>

\* claim: load head
ClaimLoadHead(p) ==
    /\ At(p, "load_head", "load_armed")
    /\ seen' = [seen EXCEPT ![p] = head]
    /\ UNCHANGED <<segment, goal, cur, used, nrec, dead, claimer, drainer, history>>

\* Mutant: claim does not wait for the slot to be armed.
ClaimUnarmed(p) ==
    /\ At(p, "load_armed", "cas_head")
    /\ UNCHANGED <<segment, goal, seen, cur, used, nrec, dead, claimer, drainer, history>>

\* claim: the block is armed for the lap of the head that was read
ClaimArmed(p) ==
    /\ armed[Slot(seen[p])] = Epoch(seen[p])
    /\ At(p, "load_armed", "cas_head")
    /\ UNCHANGED <<segment, goal, seen, cur, used, nrec, dead, claimer, drainer, history>>

\* claim: it is not; reload head, and if that has not moved the ring is FULL.
\* The reload is one step with the test: armed only grows, so a test that
\* failed still fails when head is read.
ClaimNotArmed(p) ==
    /\ armed[Slot(seen[p])] # Epoch(seen[p])
    /\ \/ /\ seen[p] = head
          /\ At(p, "load_armed", "idle")
          /\ seen' = [seen EXCEPT ![p] = 0]
       \/ /\ seen[p] # head
          /\ At(p, "load_armed", "load_armed")
          /\ seen' = [seen EXCEPT ![p] = head]
    /\ UNCHANGED <<segment, goal, cur, used, nrec, dead, claimer, drainer, history>>

\* claim: the CAS on head succeeds
ClaimHead(p) ==
    /\ head = seen[p]
    /\ head < MaxHead
    /\ At(p, "cas_head", "stamp")
    /\ head' = head + 1
    /\ cur' = [cur EXCEPT ![p] = seen[p]]
    /\ seen' = [seen EXCEPT ![p] = 0]
    /\ UNCHANGED <<armed, committed, owner, claim_ns, owner_pid, cells, goal,
                   used, nrec, dead, claimer, drainer, history>>

\* claim: the CAS fails and leaves the current head in seq
ClaimLost(p) ==
    /\ head # seen[p]
    /\ At(p, "cas_head", "load_armed")
    /\ seen' = [seen EXCEPT ![p] = head]
    /\ UNCHANGED <<segment, goal, cur, used, nrec, dead, claimer, drainer, history>>

\* claim: claim_ns, owner_pid and owner_tid, which are read only under this
\* lap's owner word, stored next
ClaimStamp(p) ==
    /\ At(p, "stamp", "own")
    /\ claim_ns' = [claim_ns EXCEPT ![MySlot(p)] = TRUE]
    /\ owner_pid' = [owner_pid EXCEPT ![MySlot(p)] = Pid[p]]
    /\ UNCHANGED <<head, armed, committed, owner, cells, goal, seen, cur, used,
                   nrec, dead, claimer, drainer, history>>

\* claim: the release store of IDLE
ClaimOwn(p) ==
    /\ At(p, "own", "begin")
    /\ owner' = [owner EXCEPT ![MySlot(p)] = OwnerWord(MyEpoch(p), "IDLE")]
    /\ UNCHANGED <<head, armed, committed, claim_ns, owner_pid, cells, goal,
                   seen, cur, used, nrec, dead, claimer, drainer, history>>

\* try_reserve: begin_write by CAS
BeginWrite(p) ==
    /\ owner[MySlot(p)] = OwnerWord(MyEpoch(p), "IDLE")
    /\ At(p, "begin", "header")
    /\ owner' = [owner EXCEPT ![MySlot(p)] = OwnerWord(MyEpoch(p), "WRITING")]
    /\ UNCHANGED <<head, armed, committed, claim_ns, owner_pid, cells, goal,
                   seen, cur, used, nrec, dead, claimer, drainer, history>>

\* try_reserve: taken over; drop() and go round the loop, which claims
BeginTaken(p) ==
    /\ owner[MySlot(p)] # OwnerWord(MyEpoch(p), "IDLE")
    /\ At(p, "begin", "load_head")
    /\ Drop(p)
    /\ UNCHANGED <<segment, goal, seen, nrec, dead, claimer, drainer, history>>

\* try_reserve: the header of the reservation, in state PAD until commit
WriteHeader(p) ==
    /\ At(p, "header", "commit")
    /\ cells' = [cells EXCEPT ![MySlot(p)][used[p] + 1] =
                                  Cell(MyEpoch(p), "reserved", <<p, nrec[p] + 1>>)]
    /\ used' = [used EXCEPT ![p] = @ + 1]
    /\ nrec' = [nrec EXCEPT ![p] = @ + 1]
    /\ UNCHANGED <<head, armed, committed, owner, claim_ns, owner_pid, goal,
                   seen, cur, dead, claimer, drainer, history>>

\* commit: the header word COMMITTED
Commit(p) ==
    /\ At(p, "commit", "end_write")
    /\ cells' = [cells EXCEPT ![MySlot(p)][used[p]] =
                                  Cell(MyEpoch(p), "committed", <<p, nrec[p]>>)]
    /\ logged' = logged \cup {<<p, nrec[p]>>}
    /\ UNCHANGED <<head, armed, committed, owner, claim_ns, owner_pid, goal,
                   seen, cur, used, nrec, dead, claimer, drainer,
                   uncommitted, drained, overtaken>>

\* commit: end_write
EndWrite(p) ==
    /\ At(p, "end_write", "idle")
    /\ owner' = [owner EXCEPT ![MySlot(p)] = OwnerWord(MyEpoch(p), "IDLE")]
    /\ UNCHANGED <<head, armed, committed, claim_ns, owner_pid, cells, goal,
                   seen, cur, used, nrec, dead, claimer, drainer, history>>

\* A process is killed: every thread of it stops where it is.  External: the
\* kernel; src/ sees it only through kill(pid, 0).
Die(q) ==
    /\ q \notin dead
    /\ \A p \in Producers : Pid[p] = q => ppc[p] \in DeathPoints
    /\ dead' = dead \cup {q}
    /\ UNCHANGED <<segment, producer, claimer, drainer, history>>

----------------------------------------------------------------------------
(* ParallelBlockClaimer *)

\* A step of drain thread d from program point a to program point b.
DAt(d, a, b) ==
    /\ dpc[d] = a
    /\ dpc' = [dpc EXCEPT ![d] = b]

\* The locals of a drain thread go out of scope.
Forget(d) ==
    /\ mode' = [mode EXCEPT ![d] = "claim"]
    /\ dhead' = [dhead EXCEPT ![d] = 0]
    /\ dseq' = [dseq EXCEPT ![d] = 0]
    /\ downer' = [downer EXCEPT ![d] = ZeroWord]
    /\ dtail' = [dtail EXCEPT ![d] = 0]

\* claim, take_over or ready_blocks: load head.  Only drain thread 0 calls the
\* last two (housekeeping and maybe_scale).
ScanStart(d) ==
    /\ DAt(d, "idle", "load_next")
    /\ dhead' = [dhead EXCEPT ![d] = head]
    /\ \E m \in {"claim", "take", "count"} :
          /\ m # "claim" => d \in Takers
          /\ mode' = [mode EXCEPT ![d] = m]
    /\ UNCHANGED <<segment, producer, dead, claimer, dseq, downer, dtail, history>>

\* advance: load next_
AdvanceLoad(d) ==
    /\ DAt(d, "load_next", "advance")
    /\ dseq' = [dseq EXCEPT ![d] = next]
    /\ UNCHANGED <<segment, producer, dead, claimer, mode, dhead, downer, dtail, history>>

\* CAS of next_ from s to s + 1; a failed one leaves the current value in s
MoveNext(d) ==
    IF next = dseq[d]
    THEN /\ next' = next + 1
         /\ dseq' = [dseq EXCEPT ![d] = next + 1]
    ELSE /\ UNCHANGED next
         /\ dseq' = [dseq EXCEPT ![d] = next]

\* Mutant: a published block counts as done.
DoneIfPublished(s) == \/ committed[Slot(s)].lap = Epoch(s)
                      \/ owner[Slot(s)] = OwnerWord(Epoch(s), "TAKEN")

\* done: the block was released, claimed or taken over in its lap.  Once true
\* it stays true, so the CAS that follows is one step with the last load.
DoneArmed(s) == armed[Slot(s)] # Epoch(s)
DoneWords(s) == \/ committed[Slot(s)] = Claimed(Epoch(s))
                \/ owner[Slot(s)] = OwnerWord(Epoch(s), "TAKEN")

\* advance: done() by the armed word
AdvanceArmed(d) ==
    /\ dseq[d] < dhead[d]
    /\ \/ DoneArmed(dseq[d]) /\ DAt(d, "advance", "advance") /\ MoveNext(d)
       \/ ~DoneArmed(dseq[d]) /\ DAt(d, "advance", "advance_words") /\ UNCHANGED <<next, dseq>>
    /\ UNCHANGED <<segment, producer, dead, tail, released, mode, dhead, downer, dtail, history>>

\* advance: done() by the committed and owner words
AdvanceWords(d) ==
    /\ \/ DoneWords(dseq[d]) /\ DAt(d, "advance_words", "advance") /\ MoveNext(d)
       \/ ~DoneWords(dseq[d]) /\ DAt(d, "advance_words", "scan") /\ UNCHANGED <<next, dseq>>
    /\ UNCHANGED <<segment, producer, dead, tail, released, mode, dhead, downer, dtail, history>>

\* claim or take_over: nothing up to the head that was read.  ready_blocks
\* only counts from here on, it changes nothing.
ScanEnd(d) ==
    /\ \/ dseq[d] >= dhead[d] /\ DAt(d, "advance", "idle")
       \/ (dseq[d] >= dhead[d] \/ mode[d] = "count") /\ DAt(d, "scan", "idle")
    /\ Forget(d)
    /\ UNCHANGED <<segment, producer, dead, claimer, history>>

\* Mutant: claim looks at the lap of the committed word only.
ScanClaimAnyState(d) ==
    LET s == dseq[d]
        free == committed[Slot(s)].lap = Epoch(s)
    IN  /\ mode[d] = "claim"
        /\ s < dhead[d]
        /\ DAt(d, "scan", IF free THEN "drain" ELSE "scan")
        /\ committed' = IF free THEN [committed EXCEPT ![Slot(s)] = Claimed(Epoch(s))]
                                ELSE committed
        /\ dseq' = IF free THEN dseq ELSE [dseq EXCEPT ![d] = s + 1]
        /\ UNCHANGED <<head, armed, owner, claim_ns, owner_pid, cells, producer,
                       dead, claimer, mode, dhead, downer, dtail, history>>

\* claim: load and CAS of committed, one step: the load only saves a CAS that
\* would fail
ScanClaim(d) ==
    LET s == dseq[d]
        free == committed[Slot(s)] = Published(Epoch(s))
    IN  /\ mode[d] = "claim"
        /\ s < dhead[d]
        /\ DAt(d, "scan", IF free THEN "drain" ELSE "scan")
        /\ committed' = IF free THEN [committed EXCEPT ![Slot(s)] = Claimed(Epoch(s))]
                                ELSE committed
        /\ dseq' = IF free THEN dseq ELSE [dseq EXCEPT ![d] = s + 1]
        /\ UNCHANGED <<head, armed, owner, claim_ns, owner_pid, cells, producer,
                       dead, claimer, mode, dhead, downer, dtail, history>>

\* alive(pid): pid 0 counts as alive
Alive(q) == q \notin dead

\* Mutant: take_over never takes a block that is being written into.
TakeableIdle(s) ==
    /\ owner[Slot(s)] = OwnerWord(Epoch(s), "IDLE")
    /\ claim_ns[Slot(s)]

\* take_over's tests: a block of this lap held unpublished; one being written
\* into only if its process is dead.  The three loads are one step: the CAS
\* that follows is on the owner word, whose lap never comes back, so a
\* claim_ns or owner_pid of a later lap is never acted on.
Takeable(s) ==
    /\ \/ owner[Slot(s)] = OwnerWord(Epoch(s), "IDLE")
       \/ /\ owner[Slot(s)] = OwnerWord(Epoch(s), "WRITING")
          /\ ~Alive(owner_pid[Slot(s)])
    /\ claim_ns[Slot(s)]

\* take_over: the block passes the tests and is old enough
TakeLook(d) ==
    /\ mode[d] = "take"
    /\ dseq[d] < dhead[d]
    /\ Takeable(dseq[d])
    /\ DAt(d, "scan", "take_cas")
    /\ downer' = [downer EXCEPT ![d] = owner[Slot(dseq[d])]]
    /\ UNCHANGED <<segment, producer, dead, claimer, mode, dhead, dseq, dtail, history>>

\* take_over: it does not, or was claimed too recently
TakePass(d) ==
    /\ mode[d] = "take"
    /\ dseq[d] < dhead[d]
    /\ DAt(d, "scan", "scan")
    /\ dseq' = [dseq EXCEPT ![d] = @ + 1]
    /\ UNCHANGED <<segment, producer, dead, claimer, mode, dhead, downer, dtail, history>>

\* take_over: CAS of the owner word to TAKEN
TakeCas(d) ==
    LET s == dseq[d]
        won == owner[Slot(s)] = downer[d]
    IN  /\ DAt(d, "take_cas", IF won THEN "drain" ELSE "scan")
        /\ owner' = IF won THEN [owner EXCEPT ![Slot(s)] = OwnerWord(Epoch(s), "TAKEN")]
                           ELSE owner
        /\ dseq' = IF won THEN dseq ELSE [dseq EXCEPT ![d] = s + 1]
        /\ downer' = [downer EXCEPT ![d] = ZeroWord]
        /\ UNCHANGED <<head, armed, committed, claim_ns, owner_pid, cells, producer,
                       dead, claimer, mode, dhead, dtail, history>>

\* Mutant: the salvage walk goes on over headers an earlier lap left.
VisitedAnyLap(s, salvage) ==
    {j \in 1 .. Capacity : \A k \in 1 .. j : cells[Slot(s)][k].st \notin {"pad", "none"}}

\* Mutant: the walk ends one record early.
VisitedShort(s, salvage) ==
    {j \in 1 .. Capacity - 1 : \A k \in 1 .. j : cells[Slot(s)][k].st # "pad"}

\* for_each_record: the cells it visits.  Padding runs to the end of the
\* block; a salvage walk also stops at the first header of another lap.
Visited(s, salvage) ==
    {j \in 1 .. Capacity :
        \A k \in 1 .. j :
            /\ cells[Slot(s)][k].st # "pad"
            /\ salvage => /\ cells[Slot(s)][k].lap = Epoch(s)
                          /\ cells[Slot(s)][k].st # "none"}

\* process_block up to release: the committed records are replayed, the
\* reservations nobody committed are counted (in a salvage walk)
Drain(d) ==
    LET s == dseq[d]
        in(st) == {cells[Slot(s)][j].rec :
                     j \in {k \in Visited(s, mode[d] = "take") :
                                cells[Slot(s)][k].st = st}}
    IN  /\ DAt(d, "drain", "rel_claim_ns")
        /\ drained' = [r \in Records |->
                          IF r \in in("committed") THEN drained[r] + 1 ELSE drained[r]]
        /\ uncommitted' = IF mode[d] = "take" THEN uncommitted \cup in("reserved")
                                              ELSE uncommitted
        /\ mode' = [mode EXCEPT ![d] = "claim"]
        /\ dhead' = [dhead EXCEPT ![d] = 0]
        /\ UNCHANGED <<segment, producer, dead, claimer, dseq, downer, dtail,
                       logged, overtaken>>

\* release: four stores that re-arm the block for its next lap
ReleaseClaimNs(d) ==
    /\ DAt(d, "rel_claim_ns", "rel_committed")
    /\ claim_ns' = [claim_ns EXCEPT ![Slot(dseq[d])] = FALSE]
    /\ UNCHANGED <<head, armed, committed, owner, owner_pid, cells, producer, dead,
                   claimer, mode, dhead, dseq, downer, dtail, history>>

ReleaseCommitted(d) ==
    /\ DAt(d, "rel_committed", "rel_owner")
    /\ committed' = [committed EXCEPT ![Slot(dseq[d])] = ZeroWord]
    /\ UNCHANGED <<head, armed, owner, claim_ns, owner_pid, cells, producer, dead,
                   claimer, mode, dhead, dseq, downer, dtail, history>>

ReleaseOwner(d) ==
    /\ DAt(d, "rel_owner", "rel_armed")
    /\ owner' = [owner EXCEPT ![Slot(dseq[d])] = ZeroWord]
    /\ UNCHANGED <<head, armed, committed, claim_ns, owner_pid, cells, producer, dead,
                   claimer, mode, dhead, dseq, downer, dtail, history>>

ReleaseArmed(d) ==
    /\ DAt(d, "rel_armed", "rel_mark")
    /\ armed' = [armed EXCEPT ![Slot(dseq[d])] = Epoch(dseq[d]) + 1]
    /\ UNCHANGED <<head, committed, owner, claim_ns, owner_pid, cells, producer, dead,
                   claimer, mode, dhead, dseq, downer, dtail, history>>

\* release: the mark that lets the tail pass the block
ReleaseMark(d) ==
    /\ DAt(d, "rel_mark", "rel_load_tail")
    /\ released' = [released EXCEPT ![Slot(dseq[d])] = dseq[d] + 1]
    /\ UNCHANGED <<segment, producer, dead, next, tail, mode, dhead, dseq, downer,
                   dtail, history>>

\* release: load tail_
ReleaseLoadTail(d) ==
    /\ DAt(d, "rel_load_tail", "rel_tail")
    /\ dtail' = [dtail EXCEPT ![d] = tail]
    /\ UNCHANGED <<segment, producer, dead, claimer, mode, dhead, dseq, downer, history>>

\* Mutant: the mark of an earlier lap lets the tail pass.
ReleaseTailAnyLap(d) ==
    /\ released[Slot(dtail[d])] # 0
    /\ DAt(d, "rel_tail", "rel_tail")
    /\ IF tail = dtail[d]
       THEN tail' = tail + 1 /\ dtail' = [dtail EXCEPT ![d] = tail + 1]
       ELSE UNCHANGED tail /\ dtail' = [dtail EXCEPT ![d] = tail]
    /\ UNCHANGED <<segment, producer, dead, next, released, mode, dhead, dseq, downer, history>>

\* release: block t is marked; CAS tail_ forward, or learn its value
ReleaseTail(d) ==
    /\ released[Slot(dtail[d])] > dtail[d]
    /\ DAt(d, "rel_tail", "rel_tail")
    /\ IF tail = dtail[d]
       THEN tail' = tail + 1 /\ dtail' = [dtail EXCEPT ![d] = tail + 1]
       ELSE UNCHANGED tail /\ dtail' = [dtail EXCEPT ![d] = tail]
    /\ UNCHANGED <<segment, producer, dead, next, released, mode, dhead, dseq, downer, history>>

\* release: block t is not marked, done
ReleaseEnd(d) ==
    /\ released[Slot(dtail[d])] <= dtail[d]
    /\ DAt(d, "rel_tail", "idle")
    /\ Forget(d)
    /\ UNCHANGED <<segment, producer, dead, claimer, history>>

----------------------------------------------------------------------------

ProducerStep(p) ==
    \/ TryReserve(p) \/ Flush(p)
    \/ PublishBegin(p) \/ PublishTaken(p) \/ PublishCommit(p) \/ PublishOwner(p)
    \/ ClaimLoadHead(p) \/ ClaimArmed(p) \/ ClaimNotArmed(p) \/ ClaimHead(p)
    \/ ClaimLost(p) \/ ClaimStamp(p) \/ ClaimOwn(p)
    \/ BeginWrite(p) \/ BeginTaken(p) \/ WriteHeader(p) \/ Commit(p) \/ EndWrite(p)

DrainerStep(d) ==
    \/ ScanStart(d) \/ AdvanceLoad(d) \/ AdvanceArmed(d) \/ AdvanceWords(d)
    \/ ScanEnd(d) \/ ScanClaim(d) \/ TakeLook(d) \/ TakePass(d)
    \/ TakeCas(d) \/ Drain(d)
    \/ ReleaseClaimNs(d) \/ ReleaseCommitted(d) \/ ReleaseOwner(d)
    \/ ReleaseArmed(d) \/ ReleaseMark(d) \/ ReleaseLoadTail(d)
    \/ ReleaseTail(d) \/ ReleaseEnd(d)

Next ==
    \/ \E p \in Producers : ProducerStep(p)
    \/ \E q \in Pids : Die(q)
    \/ \E d \in Drainers : DrainerStep(d)

Spec == Init /\ [][Next]_vars

(***************************************************************************)
(* Fairness.  A live producer thread finishes the call it is in (it never  *)
(* blocks: FULL returns); starting a call is the application's choice.     *)
(* Drain threads run; thread 0 calls both claim (every round) and          *)
(* take_over (every tick), and a block it passes as too young is old       *)
(* enough at some later tick.                                              *)
(***************************************************************************)
CallStep(p) == ProducerStep(p) /\ ppc[p] # "idle"

Fairness ==
    /\ \A p \in Producers : WF_vars(CallStep(p))
    /\ \A d \in Drainers :
          /\ WF_vars(DrainerStep(d))
          /\ SF_vars(ScanStart(d) /\ mode'[d] = "claim")
    /\ \A d \in Takers :
          /\ SF_vars(ScanStart(d) /\ mode'[d] = "take")
          /\ SF_vars(TakeLook(d))

FairSpec == Spec /\ Fairness

----------------------------------------------------------------------------
(* Properties *)

DrainerPoints ==
    {"idle", "load_next", "advance", "advance_words", "scan", "take_cas", "drain",
     "rel_claim_ns", "rel_committed", "rel_owner", "rel_armed", "rel_mark",
     "rel_load_tail", "rel_tail"}

SegmentOK ==
    /\ head \in Nat
    /\ armed \in [Slots -> Nat]
    /\ committed \in [Slots -> Commits]
    /\ owner \in [Slots -> Owners]
    /\ claim_ns \in [Slots -> BOOLEAN]
    /\ owner_pid \in [Slots -> Pids \cup {NoPid}]
    /\ cells \in [Slots -> [1 .. Capacity -> Cells]]

ProducerOK ==
    /\ ppc \in [Producers -> ProducerPoints]
    /\ goal \in [Producers -> {"reserve", "flush"}]
    /\ seen \in [Producers -> Nat]
    /\ cur \in [Producers -> Nat \cup {NoBlock}]
    /\ used \in [Producers -> 0 .. Capacity]
    /\ nrec \in [Producers -> 0 .. MaxRecords]

ClaimerOK ==
    /\ next \in Nat
    /\ tail \in Nat
    /\ released \in [Slots -> Nat]

DrainerOK ==
    /\ dpc \in [Drainers -> DrainerPoints]
    /\ mode \in [Drainers -> {"claim", "take", "count"}]
    /\ dhead \in [Drainers -> Nat]
    /\ dseq \in [Drainers -> Nat]
    /\ downer \in [Drainers -> Owners]
    /\ dtail \in [Drainers -> Nat]

HistoryOK ==
    /\ uncommitted \subseteq Records
    /\ drained \in [Records -> Nat]
    /\ logged \subseteq Records
    /\ overtaken \subseteq Nat

\* Every word of the segment, every local of a producer or a drain thread and
\* the claimer's cursors stay in their range: used_ within the block, records
\* only where a reservation put them.
TypeOK ==
    /\ SegmentOK
    /\ ProducerOK
    /\ ClaimerOK
    /\ DrainerOK
    /\ HistoryOK
    /\ dead \subseteq Pids

\* A live producer has the block WRITING: it may store into its data area.
Writing(p) == /\ Pid[p] \notin dead
              /\ ppc[p] \in {"pub_commit", "header", "commit", "end_write"}

\* A drain thread has the block from its winning CAS to the store of armed.
Draining(d) ==
    dpc[d] \in {"drain", "rel_claim_ns", "rel_committed", "rel_owner", "rel_armed"}

\* "So that it never reads a record being written": a block is never written
\* into by two producers, drained by two threads, or both at once.
Exclusive ==
    /\ \A p, q \in Producers :
          p # q /\ Writing(p) /\ Writing(q) => MySlot(p) # MySlot(q)
    /\ \A p \in Producers, d \in Drainers :
          Writing(p) /\ Draining(d) => MySlot(p) # Slot(dseq[d])
    /\ \A c, d \in Drainers :
          c # d /\ Draining(c) /\ Draining(d) => Slot(dseq[c]) # Slot(dseq[d])

\* No record reaches the trace twice, whichever of claim and take_over gets
\* its block, and however the two race.
DrainedOnce == \A r \in Records : drained[r] <= 1

\* A block that claims to be complete is: every header the drain walk visits
\* is a committed record of this lap, and they tile the block up to its end or
\* its padding (what BlockTracker::verify_block checks in the tests).
PublishedTiled ==
    \A s \in 0 .. head - 1 :
        committed[Slot(s)] \in {Published(Epoch(s)), Claimed(Epoch(s))} =>
            \A j \in 1 .. Capacity :
                \/ cells[Slot(s)][j].lap = Epoch(s) /\ cells[Slot(s)][j].st \in {"committed", "pad"}
                \/ \E k \in 1 .. j - 1 : cells[Slot(s)][k] = Cell(Epoch(s), "pad", <<>>)

\* The scan start never passes a block that still needs a drain thread: every
\* block below next_ is released or in the hands of one.
PassedAreHandled ==
    \A s \in 0 .. next - 1 :
        \/ armed[Slot(s)] > Epoch(s)
        \/ \E d \in Drainers : Draining(d) /\ dseq[d] = s

\* The tail never passes a block that has not been released, although blocks
\* are released out of order and the marks of two laps share a slot.
TailBehind == \A s \in 0 .. tail - 1 : armed[Slot(s)] > Epoch(s)

\* A record somebody can still bring into the trace: its block is published,
\* is in the hands of a drain thread that has not walked it yet, can be taken
\* over now or once its producer is idle, or its live producer is about to
\* store the owner word again.
InReach(s) ==
    /\ armed[Slot(s)] = Epoch(s)
    /\ \/ committed[Slot(s)] = Published(Epoch(s))
       \/ owner[Slot(s)] \in {OwnerWord(Epoch(s), "IDLE"), OwnerWord(Epoch(s), "WRITING")}
       \/ \E d \in Drainers : dpc[d] = "drain" /\ dseq[d] = s
       \/ \E p \in Producers : Writing(p) /\ cur[p] = s

\* The block a committed record not replayed yet was written to can still be
\* drained, unless ex(s) excuses it.
KeptOr(ex(_)) ==
    \A r \in logged :
        \/ drained[r] > 0
        \/ \E s \in 0 .. head - 1 :
              /\ \E j \in 1 .. Capacity : cells[Slot(s)][j] = Cell(Epoch(s), "committed", r)
              /\ InReach(s) \/ ex(s)

\* RingProducer: "A producer that finds its block taken drops it and claims
\* another; nothing is lost."
NothingLost == KeptOr(LAMBDA s : FALSE)

\* The only way a committed record is lost: the owner word of its block was
\* overwritten by the last store of publish() of an earlier lap.
LostOnlyIfOvertaken == KeptOr(LAMBDA s : s \in overtaken)

\* Every claimed block comes back to the producers: a quiet or dead producer
\* does not stop the ring.  (Unless its owner word was overwritten.)
EveryBlockComesBack ==
    \A s \in 0 .. MaxHead - 1 :
        s < head ~> (armed[Slot(s)] > Epoch(s) \/ s \in overtaken)

----------------------------------------------------------------------------
(* Refinement: the ring implements BlockLife. *)

\* The stage of block s, read off the segment and the drain threads.
StageOf(s) ==
    IF s >= head THEN "free"
    ELSE IF armed[Slot(s)] > Epoch(s) THEN "released"
    ELSE IF \E d \in Drainers : Draining(d) /\ dseq[d] = s THEN "draining"
    ELSE IF committed[Slot(s)] = Published(Epoch(s)) THEN "ready"
    ELSE "held"

Life == INSTANCE BlockLife
            WITH life <- [s \in 0 .. MaxHead - 1 |-> StageOf(s)],
                 holders <- [s \in 0 .. MaxHead - 1 |->
                                {d \in Drainers : Draining(d) /\ dseq[d] = s}]

\* Every step of producers and drain threads moves at most one block, along
\* the stages of BlockLife: no block is drained or released twice, released
\* before it is drained, or claimed again before it is released.
BlocksLiveOnce == Life!Spec

=============================================================================
