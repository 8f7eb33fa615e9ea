------------------------------ MODULE RingProofs ------------------------------
(***************************************************************************)
(* Type correctness of module Ring, and that a block of the ring is never  *)
(* in two hands (Exclusive), for every number of producers, drain threads  *)
(* and blocks and every block capacity.                                    *)
(*                                                                         *)
(* TypeOK is not inductive alone: that a store into the data area stays    *)
(* inside the block, and that a store to a control word has a block to go  *)
(* to, depends on where in its call the producer is (CallInv).  It holds   *)
(* for every set of DeathPoints.                                           *)
(*                                                                         *)
(* Exclusive: at any moment a slot is armed for one lap (OneArmed), so two *)
(* threads that hold blocks of the same slot and the lap it is armed for   *)
(* hold the same block.  It remains that a block has one producer (the CAS *)
(* on head), one drain thread (the CAS on committed or on owner), and      *)
(* never both: the drain thread's CAS needs the block published or idle,   *)
(* or its writer dead.  IInv of RingInv says so, and every action keeps    *)
(* it; the actions that move a word another thread may act on have a lemma *)
(* each (WriteBegins to Arms), the others are local to one thread          *)
(* (ProducerLocal, DrainerLocal).                                          *)
(*                                                                         *)
(* From there on, the same invariant gives the life of a block (LivesOnce, *)
(* the refinement of BlockLife: every step moves one block to its next     *)
(* stage, or none), what the claimer's cursors leave behind, and where a   *)
(* record is until it is replayed.                                         *)
(***************************************************************************)
EXTENDS RingInv, TLAPS

\* RingView::block and epoch: every sequence number has a slot and a lap,
\* blocks that share a slot have laps in the order of their numbers, and slot
\* and lap together name one block.
LEMMA SlotEpoch ==
    /\ \A s \in Nat : Slot(s) \in Slots /\ Epoch(s) \in Nat /\ Epoch(s) > 0
    /\ \A s, t \in Nat : s < t /\ Slot(s) = Slot(t) => Epoch(s) < Epoch(t)
    /\ \A s, t \in Nat : Slot(s) = Slot(t) /\ Epoch(s) = Epoch(t) => s = t
<1>1. BlockCount \in Nat /\ BlockCount > 0
    BY RingConstants
<1>2. ASSUME NEW s \in Nat
      PROVE  /\ s % BlockCount \in 0 .. BlockCount - 1
             /\ s \div BlockCount \in Nat
             /\ s = BlockCount * (s \div BlockCount) + (s % BlockCount)
    BY <1>1, Z3
<1>3. \A s \in Nat : Slot(s) \in Slots /\ Epoch(s) \in Nat /\ Epoch(s) > 0
    BY <1>2 DEF Slot, Epoch, Slots
<1>4. ASSUME NEW s \in Nat, NEW t \in Nat, s < t, Slot(s) = Slot(t)
      PROVE  Epoch(s) < Epoch(t)
    <2> DEFINE a == s \div BlockCount
               b == t \div BlockCount
               r == s % BlockCount
    <2>1. a \in Nat /\ b \in Nat /\ r \in Nat
        BY <1>1, <1>2
    <2>2. s = BlockCount * a + r /\ t = BlockCount * b + r
        BY <1>2, <1>4 DEF Slot
    <2> HIDE DEF a, b, r
    <2>3. BlockCount * a < BlockCount * b
        BY <2>1, <2>2, <1>1, <1>4
    <2>4. a < b
        BY <2>1, <2>3, <1>1
    <2>. QED
        BY <2>4, <2>1 DEF Epoch, a, b
<1>5. ASSUME NEW s \in Nat, NEW t \in Nat, Slot(s) = Slot(t), Epoch(s) = Epoch(t)
      PROVE  s = t
    <2>1. ~(s < t) BY <1>4, <1>3, <1>5
    <2>2. ~(t < s) BY <1>4, <1>3, <1>5
    <2>. QED BY <2>1, <2>2
<1>. QED BY <1>3, <1>4, <1>5

\* The block a producer holds has a slot and a lap.
LEMMA MyBlock ==
    ASSUME ProducerOK, NEW p \in Producers, cur[p] # NoBlock
    PROVE  cur[p] \in Nat /\ MySlot(p) \in Slots /\ MyEpoch(p) \in Nat /\ MyEpoch(p) > 0
BY SlotEpoch DEF ProducerOK, MySlot, MyEpoch

\* The words stored in a block control are words.
LEMMA WordTypes ==
    /\ ZeroWord \in Commits /\ ZeroWord \in Owners
    /\ \A e \in Nat : Published(e) \in Commits /\ Claimed(e) \in Commits
    /\ \A e \in Nat : \A st \in {"IDLE", "WRITING", "PUBLISHED", "TAKEN"} :
          OwnerWord(e, st) \in Owners
BY DEF ZeroWord, Commits, Owners, Published, Claimed, OwnerWord

\* What a group of variables keeps when a step leaves it alone.
LEMMA TypeFrame ==
    /\ SegmentOK /\ UNCHANGED segment => SegmentOK'
    /\ ProducerOK /\ UNCHANGED producer => ProducerOK'
    /\ ClaimerOK /\ UNCHANGED claimer => ClaimerOK'
    /\ DrainerOK /\ UNCHANGED drainer => DrainerOK'
    /\ HistoryOK /\ UNCHANGED history => HistoryOK'
BY DEF segment, producer, claimer, drainer, history,
       SegmentOK, ProducerOK, ClaimerOK, DrainerOK, HistoryOK

\* Every step of a producer call, a killed process, a scan, a take-over and a
\* release keeps the types and the shape of the calls.
LEMMA CallStepInv ==
    ASSUME TypeOK, CallInv, [Next]_vars
    PROVE  TypeOK' /\ CallInv'
<1>0. SegmentOK /\ ProducerOK /\ ClaimerOK /\ DrainerOK /\ HistoryOK
    BY DEF TypeOK
<1>1. ASSUME NEW p \in Producers, TryReserve(p)
      PROVE  TypeOK' /\ CallInv'
    <2>1. ProducerOK'
        BY <1>1, <1>0 DEF TryReserve, At, ProducerOK, ProducerPoints, CallInv, NoBlock
    <2>2. CallInv'
        BY <1>1, <1>0 DEF TryReserve, At, ProducerOK, CallInv, WithBlock, WithoutBlock, NoBlock
    <2>3. SegmentOK'
        BY <1>1, <1>0, TypeFrame DEF TryReserve
    <2>4. HistoryOK'
        BY <1>1, <1>0, TypeFrame DEF TryReserve
    <2>. QED
        BY <1>1, <1>0, <2>1, <2>2, <2>3, <2>4, TypeFrame DEF TryReserve, TypeOK
<1>2. ASSUME NEW p \in Producers, Flush(p)
      PROVE  TypeOK' /\ CallInv'
    <2>1. ProducerOK'
        BY <1>2, <1>0 DEF Flush, At, ProducerOK, ProducerPoints, CallInv, NoBlock
    <2>2. CallInv'
        BY <1>2, <1>0 DEF Flush, At, ProducerOK, CallInv, WithBlock, WithoutBlock, NoBlock
    <2>3. SegmentOK'
        BY <1>2, <1>0, TypeFrame DEF Flush
    <2>4. HistoryOK'
        BY <1>2, <1>0, TypeFrame DEF Flush
    <2>. QED
        BY <1>2, <1>0, <2>1, <2>2, <2>3, <2>4, TypeFrame DEF Flush, TypeOK
<1>3. ASSUME NEW p \in Producers, PublishBegin(p)
      PROVE  TypeOK' /\ CallInv'
    <2>1. ProducerOK'
        BY <1>3, <1>0 DEF PublishBegin, At, ProducerOK, ProducerPoints, CallInv, NoBlock
    <2>2. CallInv'
        BY <1>3, <1>0 DEF PublishBegin, At, ProducerOK, CallInv, WithBlock, WithoutBlock, NoBlock
    <2>3. cur[p] # NoBlock
        BY <1>3 DEF PublishBegin, At, CallInv, WithBlock
    <2>4. SegmentOK'
        BY <1>3, <1>0, <2>3, MyBlock, RingConstants, WordTypes DEF PublishBegin, SegmentOK, Cell, Cells, CallInv, At, ProducerOK, Records
    <2>5. HistoryOK'
        BY <1>3, <1>0, TypeFrame DEF PublishBegin
    <2>. QED
        BY <1>3, <1>0, <2>1, <2>2, <2>3, <2>4, <2>5, TypeFrame DEF PublishBegin, TypeOK
<1>4. ASSUME NEW p \in Producers, PublishTaken(p)
      PROVE  TypeOK' /\ CallInv'
    <2>1. ProducerOK'
        BY <1>4, <1>0, RingConstants DEF PublishTaken, At, Drop, AfterPublish, ProducerOK, ProducerPoints, NoBlock
    <2>2. CallInv'
        BY <1>4, <1>0 DEF PublishTaken, At, Drop, AfterPublish, ProducerOK, CallInv, WithBlock, WithoutBlock, NoBlock
    <2>3. SegmentOK'
        BY <1>4, <1>0, TypeFrame DEF PublishTaken
    <2>4. HistoryOK'
        BY <1>4, <1>0, TypeFrame DEF PublishTaken
    <2>. QED
        BY <1>4, <1>0, <2>1, <2>2, <2>3, <2>4, TypeFrame DEF PublishTaken, TypeOK
<1>5. ASSUME NEW p \in Producers, PublishCommit(p)
      PROVE  TypeOK' /\ CallInv'
    <2>1. ProducerOK'
        BY <1>5, <1>0 DEF PublishCommit, At, ProducerOK, ProducerPoints, CallInv, NoBlock
    <2>2. CallInv'
        BY <1>5, <1>0 DEF PublishCommit, At, ProducerOK, CallInv, WithBlock, WithoutBlock, NoBlock
    <2>3. cur[p] # NoBlock
        BY <1>5 DEF PublishCommit, At, CallInv, WithBlock
    <2>4. SegmentOK'
        BY <1>5, <1>0, <2>3, MyBlock, RingConstants, WordTypes DEF PublishCommit, SegmentOK
    <2>5. HistoryOK'
        BY <1>5, <1>0, TypeFrame DEF PublishCommit
    <2>. QED
        BY <1>5, <1>0, <2>1, <2>2, <2>3, <2>4, <2>5, TypeFrame DEF PublishCommit, TypeOK
<1>6. ASSUME NEW p \in Producers, PublishOwner(p)
      PROVE  TypeOK' /\ CallInv'
    <2>1. ProducerOK'
        BY <1>6, <1>0, RingConstants DEF PublishOwner, At, Drop, AfterPublish, ProducerOK, ProducerPoints, NoBlock
    <2>2. CallInv'
        BY <1>6, <1>0 DEF PublishOwner, At, Drop, AfterPublish, ProducerOK, CallInv, WithBlock, WithoutBlock, NoBlock
    <2>3. cur[p] # NoBlock
        BY <1>6 DEF PublishOwner, At, CallInv, WithBlock
    <2>4. SegmentOK'
        BY <1>6, <1>0, <2>3, MyBlock, RingConstants, WordTypes DEF PublishOwner, SegmentOK
    <2>5. HistoryOK'
        <3>1. overtaken' \subseteq overtaken \cup (0 .. MaxHead)
            BY <1>6 DEF PublishOwner
        <3>2. UNCHANGED <<uncommitted, drained, logged>>
            BY <1>6 DEF PublishOwner
        <3>. QED
            BY <1>0, <3>1, <3>2, RingConstants DEF HistoryOK
    <2>. QED
        BY <1>6, <1>0, <2>1, <2>2, <2>3, <2>4, <2>5, TypeFrame DEF PublishOwner, TypeOK
<1>7. ASSUME NEW p \in Producers, ClaimLoadHead(p)
      PROVE  TypeOK' /\ CallInv'
    <2>1. ProducerOK'
        BY <1>7, <1>0 DEF ClaimLoadHead, At, ProducerOK, ProducerPoints, CallInv, NoBlock, SegmentOK
    <2>2. CallInv'
        BY <1>7, <1>0 DEF ClaimLoadHead, At, ProducerOK, CallInv, WithBlock, WithoutBlock, NoBlock
    <2>3. SegmentOK'
        BY <1>7, <1>0, TypeFrame DEF ClaimLoadHead
    <2>4. HistoryOK'
        BY <1>7, <1>0, TypeFrame DEF ClaimLoadHead
    <2>. QED
        BY <1>7, <1>0, <2>1, <2>2, <2>3, <2>4, TypeFrame DEF ClaimLoadHead, TypeOK
<1>8. ASSUME NEW p \in Producers, ClaimArmed(p)
      PROVE  TypeOK' /\ CallInv'
    <2>1. ProducerOK'
        BY <1>8, <1>0 DEF ClaimArmed, At, ProducerOK, ProducerPoints, CallInv, NoBlock
    <2>2. CallInv'
        BY <1>8, <1>0 DEF ClaimArmed, At, ProducerOK, CallInv, WithBlock, WithoutBlock, NoBlock
    <2>3. SegmentOK'
        BY <1>8, <1>0, TypeFrame DEF ClaimArmed
    <2>4. HistoryOK'
        BY <1>8, <1>0, TypeFrame DEF ClaimArmed
    <2>. QED
        BY <1>8, <1>0, <2>1, <2>2, <2>3, <2>4, TypeFrame DEF ClaimArmed, TypeOK
<1>9. ASSUME NEW p \in Producers, ClaimNotArmed(p)
      PROVE  TypeOK' /\ CallInv'
    <2>1. ProducerOK'
        <3>1. ppc' \in [Producers -> ProducerPoints]
            BY <1>9, <1>0 DEF ClaimNotArmed, At, ProducerOK, ProducerPoints
        <3>2. seen' \in [Producers -> Nat]
            <4>1. \/ seen' = [seen EXCEPT ![p] = 0]
                  \/ seen' = [seen EXCEPT ![p] = head]
                BY <1>9 DEF ClaimNotArmed
            <4>2. CASE seen' = [seen EXCEPT ![p] = 0]
                BY <1>0, <4>2 DEF ProducerOK
            <4>3. CASE seen' = [seen EXCEPT ![p] = head]
                BY <1>0, <4>3 DEF ProducerOK, SegmentOK
            <4>. QED
                BY <4>1, <4>2, <4>3
        <3>. QED
            BY <1>9, <1>0, <3>1, <3>2 DEF ClaimNotArmed, ProducerOK
    <2>2. CallInv'
        BY <1>9, <1>0 DEF ClaimNotArmed, At, ProducerOK, CallInv, WithBlock, WithoutBlock, NoBlock
    <2>3. SegmentOK'
        BY <1>9, <1>0, TypeFrame DEF ClaimNotArmed
    <2>4. HistoryOK'
        BY <1>9, <1>0, TypeFrame DEF ClaimNotArmed
    <2>. QED
        BY <1>9, <1>0, <2>1, <2>2, <2>3, <2>4, TypeFrame DEF ClaimNotArmed, TypeOK
<1>10. ASSUME NEW p \in Producers, ClaimHead(p)
      PROVE  TypeOK' /\ CallInv'
    <2>1. ProducerOK'
        BY <1>10, <1>0 DEF ClaimHead, At, ProducerOK, ProducerPoints, CallInv, NoBlock, SegmentOK
    <2>2. CallInv'
        BY <1>10, <1>0 DEF ClaimHead, At, ProducerOK, CallInv, WithBlock, WithoutBlock, NoBlock
    <2>3. SegmentOK'
        BY <1>10, <1>0 DEF ClaimHead, SegmentOK
    <2>4. HistoryOK'
        BY <1>10, <1>0, TypeFrame DEF ClaimHead
    <2>. QED
        BY <1>10, <1>0, <2>1, <2>2, <2>3, <2>4, TypeFrame DEF ClaimHead, TypeOK
<1>11. ASSUME NEW p \in Producers, ClaimLost(p)
      PROVE  TypeOK' /\ CallInv'
    <2>1. ProducerOK'
        BY <1>11, <1>0 DEF ClaimLost, At, ProducerOK, ProducerPoints, CallInv, NoBlock, SegmentOK
    <2>2. CallInv'
        BY <1>11, <1>0 DEF ClaimLost, At, ProducerOK, CallInv, WithBlock, WithoutBlock, NoBlock
    <2>3. SegmentOK'
        BY <1>11, <1>0, TypeFrame DEF ClaimLost
    <2>4. HistoryOK'
        BY <1>11, <1>0, TypeFrame DEF ClaimLost
    <2>. QED
        BY <1>11, <1>0, <2>1, <2>2, <2>3, <2>4, TypeFrame DEF ClaimLost, TypeOK
<1>12. ASSUME NEW p \in Producers, ClaimStamp(p)
      PROVE  TypeOK' /\ CallInv'
    <2>1. ProducerOK'
        BY <1>12, <1>0 DEF ClaimStamp, At, ProducerOK, ProducerPoints, CallInv, NoBlock
    <2>2. CallInv'
        BY <1>12, <1>0 DEF ClaimStamp, At, ProducerOK, CallInv, WithBlock, WithoutBlock, NoBlock
    <2>3. cur[p] # NoBlock
        BY <1>12 DEF ClaimStamp, At, CallInv, WithBlock
    <2>4. SegmentOK'
        BY <1>12, <1>0, <2>3, MyBlock, RingConstants, WordTypes DEF ClaimStamp, SegmentOK
    <2>5. HistoryOK'
        BY <1>12, <1>0, TypeFrame DEF ClaimStamp
    <2>. QED
        BY <1>12, <1>0, <2>1, <2>2, <2>3, <2>4, <2>5, TypeFrame DEF ClaimStamp, TypeOK
<1>13. ASSUME NEW p \in Producers, ClaimOwn(p)
      PROVE  TypeOK' /\ CallInv'
    <2>1. ProducerOK'
        BY <1>13, <1>0 DEF ClaimOwn, At, ProducerOK, ProducerPoints, CallInv, NoBlock
    <2>2. CallInv'
        BY <1>13, <1>0, RingConstants DEF ClaimOwn, At, ProducerOK, CallInv, WithBlock, WithoutBlock, NoBlock
    <2>3. cur[p] # NoBlock
        BY <1>13 DEF ClaimOwn, At, CallInv, WithBlock
    <2>4. SegmentOK'
        BY <1>13, <1>0, <2>3, MyBlock, RingConstants, WordTypes DEF ClaimOwn, SegmentOK
    <2>5. HistoryOK'
        BY <1>13, <1>0, TypeFrame DEF ClaimOwn
    <2>. QED
        BY <1>13, <1>0, <2>1, <2>2, <2>3, <2>4, <2>5, TypeFrame DEF ClaimOwn, TypeOK
<1>14. ASSUME NEW p \in Producers, BeginWrite(p)
      PROVE  TypeOK' /\ CallInv'
    <2>1. ProducerOK'
        BY <1>14, <1>0 DEF BeginWrite, At, ProducerOK, ProducerPoints, CallInv, NoBlock
    <2>2. CallInv'
        BY <1>14, <1>0 DEF BeginWrite, At, ProducerOK, CallInv, WithBlock, WithoutBlock, NoBlock
    <2>3. cur[p] # NoBlock
        BY <1>14 DEF BeginWrite, At, CallInv, WithBlock
    <2>4. SegmentOK'
        BY <1>14, <1>0, <2>3, MyBlock, RingConstants, WordTypes DEF BeginWrite, SegmentOK
    <2>5. HistoryOK'
        BY <1>14, <1>0, TypeFrame DEF BeginWrite
    <2>. QED
        BY <1>14, <1>0, <2>1, <2>2, <2>3, <2>4, <2>5, TypeFrame DEF BeginWrite, TypeOK
<1>15. ASSUME NEW p \in Producers, BeginTaken(p)
      PROVE  TypeOK' /\ CallInv'
    <2>1. ProducerOK'
        BY <1>15, <1>0, RingConstants DEF BeginTaken, At, Drop, ProducerOK, ProducerPoints, NoBlock
    <2>2. CallInv'
        BY <1>15, <1>0 DEF BeginTaken, At, Drop, ProducerOK, CallInv, WithBlock, WithoutBlock, NoBlock
    <2>3. SegmentOK'
        BY <1>15, <1>0, TypeFrame DEF BeginTaken
    <2>4. HistoryOK'
        BY <1>15, <1>0, TypeFrame DEF BeginTaken
    <2>. QED
        BY <1>15, <1>0, <2>1, <2>2, <2>3, <2>4, TypeFrame DEF BeginTaken, TypeOK
<1>16. ASSUME NEW p \in Producers, WriteHeader(p)
      PROVE  TypeOK' /\ CallInv'
    <2>1. ProducerOK'
        BY <1>16, <1>0, RingConstants DEF WriteHeader, At, ProducerOK, ProducerPoints, CallInv
    <2>2. CallInv'
        BY <1>16, <1>0 DEF WriteHeader, At, ProducerOK, CallInv, WithBlock, WithoutBlock, NoBlock
    <2>3. cur[p] # NoBlock
        BY <1>16 DEF WriteHeader, At, CallInv, WithBlock
    <2>4. SegmentOK'
        <3>1. <<p, nrec[p] + 1>> \in Records
            BY <1>16, <1>0, RingConstants DEF WriteHeader, At, CallInv, ProducerOK, Records
        <3>2. Cell(MyEpoch(p), "reserved", <<p, nrec[p] + 1>>) \in Cells
            BY <1>0, <2>3, <3>1, MyBlock DEF Cell, Cells
        <3>. QED
            BY <1>16, <1>0, <3>2 DEF WriteHeader, SegmentOK
    <2>5. HistoryOK'
        BY <1>16, <1>0, TypeFrame DEF WriteHeader
    <2>. QED
        BY <1>16, <1>0, <2>1, <2>2, <2>3, <2>4, <2>5, TypeFrame DEF WriteHeader, TypeOK
<1>17. ASSUME NEW p \in Producers, Commit(p)
      PROVE  TypeOK' /\ CallInv'
    <2>1. ProducerOK'
        BY <1>17, <1>0 DEF Commit, At, ProducerOK, ProducerPoints, CallInv, NoBlock
    <2>2. CallInv'
        BY <1>17, <1>0 DEF Commit, At, ProducerOK, CallInv, WithBlock, WithoutBlock, NoBlock
    <2>3. cur[p] # NoBlock
        BY <1>17 DEF Commit, At, CallInv, WithBlock
    <2>4. SegmentOK'
        <3>1. <<p, nrec[p]>> \in Records
            BY <1>17, <1>0, RingConstants DEF Commit, At, CallInv, ProducerOK, Records
        <3>2. Cell(MyEpoch(p), "committed", <<p, nrec[p]>>) \in Cells
            BY <1>0, <2>3, <3>1, MyBlock DEF Cell, Cells
        <3>. QED
            BY <1>17, <1>0, <3>2 DEF Commit, SegmentOK
    <2>5. HistoryOK'
        BY <1>17, <1>0 DEF Commit, At, HistoryOK, ProducerOK, CallInv, Records
    <2>. QED
        BY <1>17, <1>0, <2>1, <2>2, <2>3, <2>4, <2>5, TypeFrame DEF Commit, TypeOK
<1>18. ASSUME NEW p \in Producers, EndWrite(p)
      PROVE  TypeOK' /\ CallInv'
    <2>1. ProducerOK'
        BY <1>18, <1>0 DEF EndWrite, At, ProducerOK, ProducerPoints, CallInv, NoBlock
    <2>2. CallInv'
        BY <1>18, <1>0 DEF EndWrite, At, ProducerOK, CallInv, WithBlock, WithoutBlock, NoBlock
    <2>3. cur[p] # NoBlock
        BY <1>18 DEF EndWrite, At, CallInv, WithBlock
    <2>4. SegmentOK'
        BY <1>18, <1>0, <2>3, MyBlock, RingConstants, WordTypes DEF EndWrite, SegmentOK
    <2>5. HistoryOK'
        BY <1>18, <1>0, TypeFrame DEF EndWrite
    <2>. QED
        BY <1>18, <1>0, <2>1, <2>2, <2>3, <2>4, <2>5, TypeFrame DEF EndWrite, TypeOK
<1>19. ASSUME NEW q \in Pids, Die(q)
      PROVE  TypeOK' /\ CallInv'
    BY <1>19, TypeFrame DEF Die, TypeOK, CallInv, producer
<1>20. ASSUME NEW d \in Drainers, ScanStart(d)
      PROVE  TypeOK' /\ CallInv'
    <2>1. DrainerOK'
        BY <1>20, <1>0, WordTypes DEF ScanStart, DAt, DrainerOK, DrainerPoints, SegmentOK, ClaimerOK
    <2>2. SegmentOK'
        BY <1>20, <1>0, TypeFrame DEF ScanStart
    <2>3. ClaimerOK'
        BY <1>20, <1>0, TypeFrame DEF ScanStart
    <2>4. HistoryOK'
        BY <1>20, <1>0, TypeFrame DEF ScanStart
    <2>. QED
        BY <1>20, <1>0, <2>1, <2>2, <2>3, <2>4, TypeFrame DEF ScanStart, TypeOK, CallInv, producer
<1>21. ASSUME NEW d \in Drainers, AdvanceLoad(d)
      PROVE  TypeOK' /\ CallInv'
    <2>1. DrainerOK'
        BY <1>21, <1>0, WordTypes DEF AdvanceLoad, DAt, DrainerOK, DrainerPoints, SegmentOK, ClaimerOK
    <2>2. SegmentOK'
        BY <1>21, <1>0, TypeFrame DEF AdvanceLoad
    <2>3. ClaimerOK'
        BY <1>21, <1>0, TypeFrame DEF AdvanceLoad
    <2>4. HistoryOK'
        BY <1>21, <1>0, TypeFrame DEF AdvanceLoad
    <2>. QED
        BY <1>21, <1>0, <2>1, <2>2, <2>3, <2>4, TypeFrame DEF AdvanceLoad, TypeOK, CallInv, producer
<1>22. ASSUME NEW d \in Drainers, AdvanceArmed(d)
      PROVE  TypeOK' /\ CallInv'
    <2>1. DrainerOK'
        <3>1. dpc' \in [Drainers -> DrainerPoints]
            BY <1>22, <1>0 DEF AdvanceArmed, DAt, DrainerOK, DrainerPoints
        <3>2. dseq' \in [Drainers -> Nat]
            BY <1>22, <1>0 DEF AdvanceArmed, MoveNext, DrainerOK, ClaimerOK
        <3>. QED
            BY <1>22, <1>0, <3>1, <3>2 DEF AdvanceArmed, DrainerOK
    <2>2. SegmentOK'
        BY <1>22, <1>0, TypeFrame DEF AdvanceArmed
    <2>3. ClaimerOK'
        BY <1>22, <1>0 DEF AdvanceArmed, MoveNext, ClaimerOK, DrainerOK
    <2>4. HistoryOK'
        BY <1>22, <1>0, TypeFrame DEF AdvanceArmed
    <2>. QED
        BY <1>22, <1>0, <2>1, <2>2, <2>3, <2>4, TypeFrame DEF AdvanceArmed, TypeOK, CallInv, producer
<1>23. ASSUME NEW d \in Drainers, AdvanceWords(d)
      PROVE  TypeOK' /\ CallInv'
    <2>1. DrainerOK'
        <3>1. dpc' \in [Drainers -> DrainerPoints]
            BY <1>23, <1>0 DEF AdvanceWords, DAt, DrainerOK, DrainerPoints
        <3>2. dseq' \in [Drainers -> Nat]
            BY <1>23, <1>0 DEF AdvanceWords, MoveNext, DrainerOK, ClaimerOK
        <3>. QED
            BY <1>23, <1>0, <3>1, <3>2 DEF AdvanceWords, DrainerOK
    <2>2. SegmentOK'
        BY <1>23, <1>0, TypeFrame DEF AdvanceWords
    <2>3. ClaimerOK'
        BY <1>23, <1>0 DEF AdvanceWords, MoveNext, ClaimerOK, DrainerOK
    <2>4. HistoryOK'
        BY <1>23, <1>0, TypeFrame DEF AdvanceWords
    <2>. QED
        BY <1>23, <1>0, <2>1, <2>2, <2>3, <2>4, TypeFrame DEF AdvanceWords, TypeOK, CallInv, producer
<1>24. ASSUME NEW d \in Drainers, ScanEnd(d)
      PROVE  TypeOK' /\ CallInv'
    <2>1. DrainerOK'
        BY <1>24, <1>0, WordTypes DEF ScanEnd, DAt, Forget, DrainerOK, DrainerPoints, SegmentOK, ClaimerOK
    <2>2. SegmentOK'
        BY <1>24, <1>0, TypeFrame DEF ScanEnd
    <2>3. ClaimerOK'
        BY <1>24, <1>0, TypeFrame DEF ScanEnd
    <2>4. HistoryOK'
        BY <1>24, <1>0, TypeFrame DEF ScanEnd
    <2>. QED
        BY <1>24, <1>0, <2>1, <2>2, <2>3, <2>4, TypeFrame DEF ScanEnd, TypeOK, CallInv, producer
<1>25. ASSUME NEW d \in Drainers, ScanClaim(d)
      PROVE  TypeOK' /\ CallInv'
    <2>1. DrainerOK'
        BY <1>25, <1>0, WordTypes DEF ScanClaim, DAt, DrainerOK, DrainerPoints, SegmentOK, ClaimerOK
    <2>2. SegmentOK'
        <3>1. Claimed(Epoch(dseq[d])) \in Commits
            BY <1>0, SlotEpoch, WordTypes DEF DrainerOK
        <3>. QED
            BY <1>25, <1>0, <3>1 DEF ScanClaim, SegmentOK
    <2>3. ClaimerOK'
        BY <1>25, <1>0, TypeFrame DEF ScanClaim
    <2>4. HistoryOK'
        BY <1>25, <1>0, TypeFrame DEF ScanClaim
    <2>. QED
        BY <1>25, <1>0, <2>1, <2>2, <2>3, <2>4, TypeFrame DEF ScanClaim, TypeOK, CallInv, producer
<1>26. ASSUME NEW d \in Drainers, TakeLook(d)
      PROVE  TypeOK' /\ CallInv'
    <2>1. DrainerOK'
        <3>1. owner[Slot(dseq[d])] \in Owners
            BY <1>0, SlotEpoch DEF DrainerOK, SegmentOK
        <3>. QED
            BY <1>26, <1>0, <3>1 DEF TakeLook, DAt, DrainerOK, DrainerPoints
    <2>2. SegmentOK'
        BY <1>26, <1>0, TypeFrame DEF TakeLook
    <2>3. ClaimerOK'
        BY <1>26, <1>0, TypeFrame DEF TakeLook
    <2>4. HistoryOK'
        BY <1>26, <1>0, TypeFrame DEF TakeLook
    <2>. QED
        BY <1>26, <1>0, <2>1, <2>2, <2>3, <2>4, TypeFrame DEF TakeLook, TypeOK, CallInv, producer
<1>27. ASSUME NEW d \in Drainers, TakePass(d)
      PROVE  TypeOK' /\ CallInv'
    <2>1. DrainerOK'
        BY <1>27, <1>0, WordTypes DEF TakePass, DAt, DrainerOK, DrainerPoints, SegmentOK, ClaimerOK
    <2>2. SegmentOK'
        BY <1>27, <1>0, TypeFrame DEF TakePass
    <2>3. ClaimerOK'
        BY <1>27, <1>0, TypeFrame DEF TakePass
    <2>4. HistoryOK'
        BY <1>27, <1>0, TypeFrame DEF TakePass
    <2>. QED
        BY <1>27, <1>0, <2>1, <2>2, <2>3, <2>4, TypeFrame DEF TakePass, TypeOK, CallInv, producer
<1>28. ASSUME NEW d \in Drainers, TakeCas(d)
      PROVE  TypeOK' /\ CallInv'
    <2>1. DrainerOK'
        BY <1>28, <1>0, WordTypes DEF TakeCas, DAt, DrainerOK, DrainerPoints, SegmentOK, ClaimerOK
    <2>2. SegmentOK'
        <3>1. OwnerWord(Epoch(dseq[d]), "TAKEN") \in Owners
            BY <1>0, SlotEpoch, WordTypes DEF DrainerOK
        <3>. QED
            BY <1>28, <1>0, <3>1 DEF TakeCas, SegmentOK
    <2>3. ClaimerOK'
        BY <1>28, <1>0, TypeFrame DEF TakeCas
    <2>4. HistoryOK'
        BY <1>28, <1>0, TypeFrame DEF TakeCas
    <2>. QED
        BY <1>28, <1>0, <2>1, <2>2, <2>3, <2>4, TypeFrame DEF TakeCas, TypeOK, CallInv, producer
<1>29. ASSUME NEW d \in Drainers, Drain(d)
      PROVE  TypeOK' /\ CallInv'
    <2>1. DrainerOK'
        BY <1>29, <1>0, WordTypes DEF Drain, DAt, DrainerOK, DrainerPoints, SegmentOK, ClaimerOK
    <2>2. SegmentOK'
        BY <1>29, <1>0, TypeFrame DEF Drain
    <2>3. ClaimerOK'
        BY <1>29, <1>0, TypeFrame DEF Drain
    <2>4. HistoryOK'
        <3>1. \A j \in Visited(dseq[d], mode[d] = "take") :
                 cells[Slot(dseq[d])][j].st = "reserved" => cells[Slot(dseq[d])][j].rec \in Records
            <4>1. \A j \in Visited(dseq[d], mode[d] = "take") : cells[Slot(dseq[d])][j] \in Cells
                <5>1. Visited(dseq[d], mode[d] = "take") \subseteq 1 .. Capacity
                    BY DEF Visited
                <5>2. Slot(dseq[d]) \in Slots
                    BY <1>0, SlotEpoch DEF DrainerOK
                <5>. QED
                    BY <1>0, <5>1, <5>2 DEF SegmentOK
            <4>. QED
                BY <4>1 DEF Cells
        <3>2. uncommitted' \subseteq Records
            BY <1>29, <1>0, <3>1 DEF Drain, HistoryOK
        <3>3. drained' \in [Records -> Nat]
            BY <1>29, <1>0 DEF Drain, HistoryOK
        <3>. QED
            BY <1>29, <1>0, <3>2, <3>3 DEF Drain, HistoryOK
    <2>. QED
        BY <1>29, <1>0, <2>1, <2>2, <2>3, <2>4, TypeFrame DEF Drain, TypeOK, CallInv, producer
<1>30. ASSUME NEW d \in Drainers, ReleaseClaimNs(d)
      PROVE  TypeOK' /\ CallInv'
    <2>1. DrainerOK'
        BY <1>30, <1>0, WordTypes DEF ReleaseClaimNs, DAt, DrainerOK, DrainerPoints, SegmentOK, ClaimerOK
    <2>2. SegmentOK'
        BY <1>30, <1>0, WordTypes DEF ReleaseClaimNs, SegmentOK, DrainerOK
    <2>3. ClaimerOK'
        BY <1>30, <1>0, TypeFrame DEF ReleaseClaimNs
    <2>4. HistoryOK'
        BY <1>30, <1>0, TypeFrame DEF ReleaseClaimNs
    <2>. QED
        BY <1>30, <1>0, <2>1, <2>2, <2>3, <2>4, TypeFrame DEF ReleaseClaimNs, TypeOK, CallInv, producer
<1>31. ASSUME NEW d \in Drainers, ReleaseCommitted(d)
      PROVE  TypeOK' /\ CallInv'
    <2>1. DrainerOK'
        BY <1>31, <1>0, WordTypes DEF ReleaseCommitted, DAt, DrainerOK, DrainerPoints, SegmentOK, ClaimerOK
    <2>2. SegmentOK'
        BY <1>31, <1>0, WordTypes DEF ReleaseCommitted, SegmentOK, DrainerOK
    <2>3. ClaimerOK'
        BY <1>31, <1>0, TypeFrame DEF ReleaseCommitted
    <2>4. HistoryOK'
        BY <1>31, <1>0, TypeFrame DEF ReleaseCommitted
    <2>. QED
        BY <1>31, <1>0, <2>1, <2>2, <2>3, <2>4, TypeFrame DEF ReleaseCommitted, TypeOK, CallInv, producer
<1>32. ASSUME NEW d \in Drainers, ReleaseOwner(d)
      PROVE  TypeOK' /\ CallInv'
    <2>1. DrainerOK'
        BY <1>32, <1>0, WordTypes DEF ReleaseOwner, DAt, DrainerOK, DrainerPoints, SegmentOK, ClaimerOK
    <2>2. SegmentOK'
        BY <1>32, <1>0, WordTypes DEF ReleaseOwner, SegmentOK, DrainerOK
    <2>3. ClaimerOK'
        BY <1>32, <1>0, TypeFrame DEF ReleaseOwner
    <2>4. HistoryOK'
        BY <1>32, <1>0, TypeFrame DEF ReleaseOwner
    <2>. QED
        BY <1>32, <1>0, <2>1, <2>2, <2>3, <2>4, TypeFrame DEF ReleaseOwner, TypeOK, CallInv, producer
<1>33. ASSUME NEW d \in Drainers, ReleaseArmed(d)
      PROVE  TypeOK' /\ CallInv'
    <2>1. DrainerOK'
        BY <1>33, <1>0, WordTypes DEF ReleaseArmed, DAt, DrainerOK, DrainerPoints, SegmentOK, ClaimerOK
    <2>2. SegmentOK'
        <3>1. Epoch(dseq[d]) + 1 \in Nat
            BY <1>0, SlotEpoch DEF DrainerOK
        <3>. QED
            BY <1>33, <1>0, <3>1 DEF ReleaseArmed, SegmentOK
    <2>3. ClaimerOK'
        BY <1>33, <1>0, TypeFrame DEF ReleaseArmed
    <2>4. HistoryOK'
        BY <1>33, <1>0, TypeFrame DEF ReleaseArmed
    <2>. QED
        BY <1>33, <1>0, <2>1, <2>2, <2>3, <2>4, TypeFrame DEF ReleaseArmed, TypeOK, CallInv, producer
<1>34. ASSUME NEW d \in Drainers, ReleaseMark(d)
      PROVE  TypeOK' /\ CallInv'
    <2>1. DrainerOK'
        BY <1>34, <1>0, WordTypes DEF ReleaseMark, DAt, DrainerOK, DrainerPoints, SegmentOK, ClaimerOK
    <2>2. SegmentOK'
        BY <1>34, <1>0, TypeFrame DEF ReleaseMark
    <2>3. ClaimerOK'
        BY <1>34, <1>0, SlotEpoch DEF ReleaseMark, ClaimerOK, DrainerOK
    <2>4. HistoryOK'
        BY <1>34, <1>0, TypeFrame DEF ReleaseMark
    <2>. QED
        BY <1>34, <1>0, <2>1, <2>2, <2>3, <2>4, TypeFrame DEF ReleaseMark, TypeOK, CallInv, producer
<1>35. ASSUME NEW d \in Drainers, ReleaseLoadTail(d)
      PROVE  TypeOK' /\ CallInv'
    <2>1. DrainerOK'
        BY <1>35, <1>0, WordTypes DEF ReleaseLoadTail, DAt, DrainerOK, DrainerPoints, SegmentOK, ClaimerOK
    <2>2. SegmentOK'
        BY <1>35, <1>0, TypeFrame DEF ReleaseLoadTail
    <2>3. ClaimerOK'
        BY <1>35, <1>0, TypeFrame DEF ReleaseLoadTail
    <2>4. HistoryOK'
        BY <1>35, <1>0, TypeFrame DEF ReleaseLoadTail
    <2>. QED
        BY <1>35, <1>0, <2>1, <2>2, <2>3, <2>4, TypeFrame DEF ReleaseLoadTail, TypeOK, CallInv, producer
<1>36. ASSUME NEW d \in Drainers, ReleaseTail(d)
      PROVE  TypeOK' /\ CallInv'
    <2>1. DrainerOK'
        <3>1. dtail' \in [Drainers -> Nat]
            BY <1>36, <1>0 DEF ReleaseTail, DrainerOK, ClaimerOK
        <3>. QED
            BY <1>36, <1>0, <3>1 DEF ReleaseTail, DAt, DrainerOK, DrainerPoints
    <2>2. SegmentOK'
        BY <1>36, <1>0, TypeFrame DEF ReleaseTail
    <2>3. ClaimerOK'
        BY <1>36, <1>0 DEF ReleaseTail, ClaimerOK, DrainerOK
    <2>4. HistoryOK'
        BY <1>36, <1>0, TypeFrame DEF ReleaseTail
    <2>. QED
        BY <1>36, <1>0, <2>1, <2>2, <2>3, <2>4, TypeFrame DEF ReleaseTail, TypeOK, CallInv, producer
<1>37. ASSUME NEW d \in Drainers, ReleaseEnd(d)
      PROVE  TypeOK' /\ CallInv'
    <2>1. DrainerOK'
        BY <1>37, <1>0, WordTypes DEF ReleaseEnd, DAt, Forget, DrainerOK, DrainerPoints, SegmentOK, ClaimerOK
    <2>2. SegmentOK'
        BY <1>37, <1>0, TypeFrame DEF ReleaseEnd
    <2>3. ClaimerOK'
        BY <1>37, <1>0, TypeFrame DEF ReleaseEnd
    <2>4. HistoryOK'
        BY <1>37, <1>0, TypeFrame DEF ReleaseEnd
    <2>. QED
        BY <1>37, <1>0, <2>1, <2>2, <2>3, <2>4, TypeFrame DEF ReleaseEnd, TypeOK, CallInv, producer
<1>38. CASE UNCHANGED vars
    BY <1>38, TypeFrame DEF TypeOK, CallInv, vars, producer
<1>. QED
    BY <1>1, <1>2, <1>3, <1>4, <1>5, <1>6, <1>7, <1>8, <1>9, <1>10, <1>11, <1>12, <1>13, <1>14, <1>15, <1>16, <1>17, <1>18, <1>19, <1>20, <1>21, <1>22, <1>23, <1>24, <1>25, <1>26, <1>27, <1>28, <1>29, <1>30, <1>31, <1>32, <1>33, <1>34, <1>35, <1>36, <1>37, <1>38 DEF Next, ProducerStep, DrainerStep

\* The formatted segment and the idle threads have their types.
LEMMA InitTypes == Init => TypeOK /\ CallInv
<1> SUFFICES ASSUME Init PROVE TypeOK /\ CallInv
    OBVIOUS
<1>1. SegmentOK
    <2>1. armed \in [Slots -> Nat]
        <3>1. Slots \subseteq Nat
            BY RingConstants DEF Slots
        <3>. QED
            BY <3>1, SlotEpoch DEF Init
    <2>2. Cell(0, "none", <<>>) \in Cells
        BY DEF Cell, Cells
    <2>3. cells \in [Slots -> [1 .. Capacity -> Cells]]
        BY <2>2 DEF Init
    <2>. QED
        BY <2>1, <2>3, WordTypes DEF Init, SegmentOK
<1>2. ProducerOK
    BY RingConstants DEF Init, ProducerOK, ProducerPoints
<1>3. ClaimerOK /\ DrainerOK
    BY WordTypes DEF Init, ClaimerOK, DrainerOK, DrainerPoints
<1>4. HistoryOK
    BY DEF Init, HistoryOK
<1>5. CallInv
    BY DEF Init, CallInv, WithBlock, WithoutBlock
<1>. QED
    BY <1>1, <1>2, <1>3, <1>4, <1>5 DEF Init, TypeOK

\* Every word of the segment and every local of RingProducer and
\* ParallelBlockClaimer stays in its range, in every interleaving and
\* wherever processes are killed; in particular used_ never leaves the block.
THEOREM Typing == Spec => []TypeOK
<1>1. Init => TypeOK /\ CallInv
    BY InitTypes
<1>2. TypeOK /\ CallInv /\ [Next]_vars => (TypeOK /\ CallInv)'
    BY CallStepInv
<1>. QED
    BY PTL, <1>2, <1>1 DEF Spec

-----------------------------------------------------------------------------

\* The words of a block control name their lap and state.
LEMMA Words ==
    /\ \A e, st : OwnerWord(e, st).lap = e
    /\ \A e, f, a, b : OwnerWord(e, a) = OwnerWord(f, b) <=> e = f /\ a = b
    /\ \A e : Published(e).lap = e /\ Claimed(e).lap = e
    /\ \A e, f : Published(e) # Claimed(f)
    /\ ZeroWord.lap = 0
BY DEF OwnerWord, Published, Claimed, ZeroWord

\* The numbers in the segment are naturals.
LEMMA SegmentTypes ==
    ASSUME TypeOK
    PROVE  /\ head \in Nat
           /\ \A i \in Slots : armed[i] \in Nat /\ owner[i].lap \in Nat
                                 /\ committed[i].lap \in Nat
           /\ \A p \in Producers : cur[p] # NoBlock => cur[p] \in Nat
           /\ \A p \in Producers : seen[p] \in Nat
           /\ \A d \in Drainers : dseq[d] \in Nat /\ dhead[d] \in Nat
BY DEF TypeOK, SegmentOK, ProducerOK, DrainerOK, Owners, Commits

\* A step of producer p that changes only where it is in its call, what it saw
\* of head and whether it keeps its block.
LEMMA ProducerLocal ==
    ASSUME IInv,
           NEW p \in Producers,
           UNCHANGED <<head, armed, committed, owner, owner_pid, dead, drainer>>,
           \A q \in Producers : q # p => /\ ppc'[q] = ppc[q]
                                         /\ seen'[q] = seen[q]
                                         /\ cur'[q] = cur[q],
           Pid[p] \notin dead,
           \/ cur'[p] = cur[p]
           \/ cur'[p] = NoBlock /\ ppc[p] \in {"pub_cas", "begin"},
           ppc'[p] \notin {"stamp", "own"},
           ppc[p] \notin {"stamp", "pub_owner"},
           ppc'[p] \in WritePoints <=> ppc[p] \in WritePoints,
           ppc'[p] = "cas_head" => armed[Slot(seen'[p])] >= Epoch(seen'[p])
    PROVE  ProducersInv' /\ LapsInv' /\ ClaimingInv' /\ WritingInv' /\ WordsInv'
             /\ DrainersInv'
<1> USE DEF IInv
<1>1. ProducersInv'
    BY DEF ProducersInv, IsArmed
<1>2. LapsInv'
    BY DEF LapsInv
<1>3. ClaimingInv'
    BY DEF ClaimingInv, IsArmed, HeldBy, Draining, drainer
<1>4. WritingInv'
    <2> SUFFICES ASSUME NEW q \in Producers, ppc'[q] \in WritePoints
                 PROVE  /\ ppc[q] \in WritePoints
                        /\ cur'[q] = cur[q]
        BY DEF WritingInv, IsArmed, IsPublished, BeingWritten, HeldBy, Draining, drainer
    <2>. QED
        BY DEF WritePoints
<1>5. WordsInv'
    <2>1. ASSUME NEW s \in 0 .. head - 1, NEW q \in Producers, cur'[q] = s
          PROVE  cur[q] = s
        BY <2>1, SegmentTypes DEF NoBlock
    <2>2. ASSUME NEW q \in Producers, ppc[q] \in WritePoints \cup {"pub_owner"}
          PROVE  /\ cur'[q] = cur[q]
                 /\ ppc'[q] \in WritePoints \cup {"pub_owner"}
                 /\ ppc[q] = "pub_owner" => ppc'[q] = "pub_owner"
        BY <2>2 DEF WritePoints
    <2>. QED
        BY <2>1, <2>2 DEF WordsInv, Idle, BeingWritten, IsPublished, IsArmed
<1>6. DrainersInv'
    <2>1. ASSUME NEW q \in Producers, ppc[q] = "pub_owner"
          PROVE  cur'[q] = cur[q] /\ ppc'[q] = "pub_owner"
        BY <2>1
    <2>2. ASSUME NEW q \in Producers, Pid[q] \in dead
          PROVE  cur'[q] = cur[q]
        BY <2>2
    <2>. QED
        BY <2>1, <2>2 DEF DrainersInv, Idle, BeingWritten, IsPublished, IsArmed, Draining, drainer
<1>. QED
    BY <1>1, <1>2, <1>3, <1>4, <1>5, <1>6

\* A step of drain thread d that changes only its own locals, and takes no
\* block in hand.
LEMMA DrainerLocal ==
    ASSUME IInv,
           NEW d \in Drainers,
           UNCHANGED <<head, armed, committed, owner, owner_pid, dead, producer>>,
           \A c \in Drainers : c # d => /\ dpc'[c] = dpc[c]
                                        /\ dhead'[c] = dhead[c]
                                        /\ dseq'[c] = dseq[c]
                                        /\ downer'[c] = downer[c],
           dhead'[d] <= head,
           dpc'[d] \notin {"take_cas", "rel_armed"},
           Draining(d)' => Draining(d) /\ dseq'[d] = dseq[d]
    PROVE  ProducersInv' /\ LapsInv' /\ ClaimingInv' /\ WritingInv' /\ WordsInv'
             /\ DrainersInv'
<1> USE DEF IInv
<1>1. ProducersInv'
    BY DEF ProducersInv, IsArmed, producer
<1>2. LapsInv'
    BY DEF LapsInv
<1>0. \A c \in Drainers : Draining(c)' => Draining(c) /\ dseq'[c] = dseq[c]
    BY DEF Draining
<1>3. ClaimingInv'
    BY <1>0 DEF ClaimingInv, IsArmed, HeldBy, producer
<1>4. WritingInv'
    BY <1>0 DEF WritingInv, IsArmed, IsPublished, BeingWritten, HeldBy, producer
<1>5. WordsInv'
    BY DEF WordsInv, Idle, BeingWritten, IsPublished, IsArmed, producer
<1>6. DrainersInv'
    <2>1. ASSUME NEW c \in Drainers, c # d
          PROVE  /\ dhead'[c] <= head
                 /\ dpc'[c] = dpc[c] /\ dseq'[c] = dseq[c] /\ downer'[c] = downer[c]
        BY <2>1 DEF DrainersInv
    <2>. QED
        BY <1>0, <2>1 DEF DrainersInv, Idle, BeingWritten, IsPublished, IsArmed, producer
<1>. QED
    BY <1>1, <1>2, <1>3, <1>4, <1>5, <1>6

\* Two blocks armed in one slot are one block.
LEMMA OneArmed ==
    \A s, t \in Nat : IsArmed(s) /\ IsArmed(t) /\ Slot(s) = Slot(t) => s = t
BY SlotEpoch DEF IsArmed

\* BeginWrite and PublishBegin: IDLE to WRITING.
LEMMA WriteBegins ==
    ASSUME IInv,
           NEW p \in Producers,
           ppc[p] \in {"begin", "pub_cas"},
           Pid[p] \notin dead,
           Idle(cur[p]),
           ppc'[p] \in {"header", "pub_commit"},
           \A q \in Producers : q # p => ppc'[q] = ppc[q],
           owner' = [owner EXCEPT ![MySlot(p)] = OwnerWord(MyEpoch(p), "WRITING")],
           UNCHANGED <<head, armed, committed, owner_pid, seen, cur, dead, drainer>>
    PROVE  ProducersInv' /\ LapsInv' /\ ClaimingInv' /\ WritingInv' /\ WordsInv'
             /\ DrainersInv'
<1> DEFINE s == cur[p]
           i == Slot(s)
           e == Epoch(s)
<1>1. s \in Nat /\ s < head /\ i \in Slots /\ e \in Nat
    BY SlotEpoch, SegmentTypes DEF IInv, CallInv, WithBlock, ProducersInv
<1>2. /\ owner[i] = OwnerWord(e, "IDLE")
      /\ owner'[i] = OwnerWord(e, "WRITING")
      /\ \A j \in Slots : j # i => owner'[j] = owner[j]
      /\ \A j \in Slots : owner'[j].lap = owner[j].lap
    BY <1>1, Words DEF IInv, TypeOK, SegmentOK, MySlot, MyEpoch, Idle
<1>3. IsArmed(s) /\ ~IsPublished(s)
    BY <1>1, SegmentTypes DEF IInv, WordsInv
<1>4. \A d \in Drainers : ~HeldBy(d, s)
    BY <1>1 DEF IInv, DrainersInv, HeldBy
<1>5. \A t \in Nat : IsArmed(t) /\ t # s => Slot(t) # i
    BY <1>1, <1>3, OneArmed
<1> HIDE DEF s, i, e
<1>6. \A t \in Nat : Slot(t) \in Slots
    BY SlotEpoch
<1>7. \A t \in Nat : Slot(t) # i => /\ Idle(t)' <=> Idle(t)
                                    /\ BeingWritten(t)' <=> BeingWritten(t)
    BY <1>2, <1>6 DEF Idle, BeingWritten
<1>8. \A t \in Nat : Slot(t) = i => /\ ~Idle(t)'
                                    /\ BeingWritten(t)' => t = s
    BY <1>1, <1>2, Words, SlotEpoch DEF Idle, BeingWritten, i, e
<1>9. BeingWritten(s)'
    BY <1>2 DEF BeingWritten, s, i, e
<1>10. \A t \in Nat : (IsPublished(t)' <=> IsPublished(t)) /\ (IsArmed(t)' <=> IsArmed(t))
    BY DEF IsPublished, IsArmed
<1>11. \A t \in Nat : \A d \in Drainers : HeldBy(d, t)' <=> HeldBy(d, t)
    BY DEF HeldBy, Draining, drainer
<1>a. ProducersInv'
    BY DEF IInv, ProducersInv, IsArmed
<1>b. LapsInv'
    BY <1>2, <1>6, SegmentTypes, RingConstants DEF IInv, LapsInv
<1>c. ClaimingInv'
    BY <1>2, <1>6, <1>10, <1>11, SegmentTypes DEF IInv, ClaimingInv, CallInv, WithBlock
<1>d. WritingInv'
    <2> SUFFICES ASSUME NEW q \in Producers, ppc'[q] \in WritePoints
                 PROVE  /\ ~IsPublished(cur[q])'
                        /\ Pid[q] \notin dead =>
                              /\ IsArmed(cur[q])'
                              /\ BeingWritten(cur[q])' \/ owner'[Slot(cur[q])].lap < Epoch(cur[q])
                              /\ \A d \in Drainers : ~HeldBy(d, cur[q])'
        BY DEF WritingInv
    <2>1. CASE q = p
        BY <2>1, <1>1, <1>3, <1>4, <1>9, <1>10, <1>11 DEF s
    <2>2. CASE q # p
        <3>1. ppc[q] \in WritePoints /\ cur[q] \in Nat /\ cur[q] # s
            BY <2>2, <1>1, SegmentTypes DEF s, IInv, CallInv, WithBlock, WritePoints, ProducersInv
        <3>. QED
            BY <3>1, <1>2, <1>5, <1>6, <1>7, <1>10, <1>11 DEF IInv, WritingInv
    <2>. QED
        BY <2>1, <2>2
<1>e. WordsInv'
    <2> SUFFICES ASSUME NEW t \in 0 .. head - 1
                 PROVE  /\ Idle(t)' => IsArmed(t)'
                        /\ BeingWritten(t)' =>
                              /\ IsArmed(t)'
                              /\ \E q \in Producers :
                                    cur[q] = t /\ ppc'[q] \in WritePoints \cup {"pub_owner"}
                        /\ IsPublished(t)' =>
                              /\ IsArmed(t)'
                              /\ ~Idle(t)'
                              /\ BeingWritten(t)' =>
                                    \E q \in Producers : cur[q] = t /\ ppc'[q] = "pub_owner"
        BY DEF WordsInv
    <2>0. t \in Nat
        OBVIOUS
    <2>1. CASE Slot(t) = i
        <3>1. ~Idle(t)' /\ (BeingWritten(t)' => t = s)
            BY <2>0, <2>1, <1>8
        <3>. QED
            BY <3>1, <2>0, <1>1, <1>3, <1>10 DEF s, IInv, WordsInv, WritePoints
    <2>2. CASE Slot(t) # i
        <3>1. \A q \in Producers : cur[q] = t => ppc'[q] = ppc[q]
            BY <2>2 DEF s, i
        <3>. QED
            BY <3>1, <2>0, <2>2, <1>7, <1>10 DEF IInv, WordsInv
    <2>. QED
        BY <2>1, <2>2
<1>f. DrainersInv'
    <2>1. ASSUME NEW d \in Drainers, Draining(d)
          PROVE  dseq[d] \in Nat /\ IsArmed(dseq[d]) /\ Slot(dseq[d]) # i
        <3>1. dseq[d] \in Nat /\ IsArmed(dseq[d]) /\ dseq[d] # s
            BY <2>1, <1>4, SegmentTypes DEF IInv, DrainersInv, HeldBy
        <3>. QED
            BY <3>1, <1>5
    <2>2. \A q \in Producers : ppc[q] = "pub_owner" => ppc'[q] = "pub_owner"
        OBVIOUS
    <2>3. \A d \in Drainers : Draining(d)' <=> Draining(d)
        BY DEF Draining, drainer
    <2>. QED
        BY <2>1, <2>2, <2>3, <1>7, <1>10 DEF IInv, DrainersInv, drainer
<1>. QED
    BY <1>a, <1>b, <1>c, <1>d, <1>e, <1>f

\* EndWrite and ClaimOwn: the owner word becomes IDLE.
LEMMA OwnerIdles ==
    ASSUME IInv,
           NEW p \in Producers,
           ppc[p] \in {"own", "end_write"},
           Pid[p] \notin dead,
           ppc'[p] \in {"begin", "idle"},
           \A q \in Producers : q # p => ppc'[q] = ppc[q],
           owner' = [owner EXCEPT ![MySlot(p)] = OwnerWord(MyEpoch(p), "IDLE")],
           UNCHANGED <<head, armed, committed, owner_pid, seen, cur, dead, drainer>>
    PROVE  ProducersInv' /\ LapsInv' /\ ClaimingInv' /\ WritingInv' /\ WordsInv'
             /\ DrainersInv'
<1> DEFINE s == cur[p]
           i == Slot(s)
           e == Epoch(s)
<1>1. s \in Nat /\ s < head /\ i \in Slots /\ e \in Nat
    BY SlotEpoch, SegmentTypes DEF IInv, CallInv, WithBlock, ProducersInv
<1>2. /\ owner'[i] = OwnerWord(e, "IDLE")
      /\ \A j \in Slots : j # i => owner'[j] = owner[j]
    BY <1>1 DEF IInv, TypeOK, SegmentOK, MySlot, MyEpoch
<1>3. IsArmed(s) /\ ~IsPublished(s) /\ \A d \in Drainers : ~HeldBy(d, s)
    <2>1. CASE ppc[p] = "own"
        BY <2>1, <1>1, Words DEF IInv, ClaimingInv, IsPublished
    <2>2. CASE ppc[p] = "end_write"
        BY <2>2 DEF IInv, WritingInv, WritePoints
    <2>. QED
        BY <2>1, <2>2
<1>5. \A t \in Nat : IsArmed(t) /\ t # s => Slot(t) # i
    BY <1>1, <1>3, OneArmed
<1>6. \A t \in Nat : Slot(t) \in Slots
    BY SlotEpoch
<1>12. \A t \in Nat : t >= head /\ Slot(t) = i => e < Epoch(t)
    BY <1>1, SlotEpoch, SegmentTypes DEF IInv
<1> HIDE DEF s, i, e
<1>7. \A t \in Nat : Slot(t) # i => /\ Idle(t)' <=> Idle(t)
                                    /\ BeingWritten(t)' <=> BeingWritten(t)
    BY <1>2, <1>6 DEF Idle, BeingWritten
<1>8. \A t \in Nat : Slot(t) = i => /\ ~BeingWritten(t)'
                                    /\ Idle(t)' => t = s
    BY <1>1, <1>2, Words, SlotEpoch DEF Idle, BeingWritten, i, e
<1>10. \A t \in Nat : (IsPublished(t)' <=> IsPublished(t)) /\ (IsArmed(t)' <=> IsArmed(t))
    BY DEF IsPublished, IsArmed
<1>11. \A t \in Nat : \A d \in Drainers : HeldBy(d, t)' <=> HeldBy(d, t)
    BY DEF HeldBy, Draining, drainer
<1>a. ProducersInv'
    BY DEF IInv, ProducersInv, IsArmed
<1>b. LapsInv'
    <2>1. ASSUME NEW t \in head .. MaxHead
          PROVE  owner'[Slot(t)].lap < Epoch(t)
        <3>1. t \in Nat /\ t >= head
            BY SegmentTypes, RingConstants DEF IInv
        <3>2. CASE Slot(t) = i
            BY <3>1, <3>2, <1>2, <1>12, Words
        <3>3. CASE Slot(t) # i
            BY <3>1, <3>3, <1>2, <1>6 DEF IInv, LapsInv
        <3>. QED
            BY <3>2, <3>3
    <2>. QED
        BY <2>1 DEF IInv, LapsInv
<1>13. ASSUME NEW q \in Producers, q # p, cur[q] # NoBlock, IsArmed(cur[q])
       PROVE  cur[q] \in Nat /\ Slot(cur[q]) # i /\ owner'[Slot(cur[q])] = owner[Slot(cur[q])]
    <2>1. cur[q] \in Nat /\ cur[q] # s
        BY <1>13, <1>1, SegmentTypes DEF s, IInv, ProducersInv
    <2>. QED
        BY <2>1, <1>13, <1>2, <1>5, <1>6
<1>c. ClaimingInv'
    <2>1. ASSUME NEW q \in Producers, ppc'[q] \in {"stamp", "own"}
          PROVE  /\ ppc[q] \in {"stamp", "own"}
                 /\ cur[q] \in Nat
                 /\ owner'[Slot(cur[q])] = owner[Slot(cur[q])]
        <3>1. q # p /\ ppc[q] \in {"stamp", "own"}
            BY <2>1
        <3>2. cur[q] # NoBlock /\ IsArmed(cur[q])
            BY <3>1 DEF IInv, CallInv, WithBlock, ClaimingInv
        <3>. QED
            BY <3>1, <3>2, <1>13
    <2>. QED
        BY <2>1, <1>10, <1>11 DEF IInv, ClaimingInv
<1>d. WritingInv'
    <2> SUFFICES ASSUME NEW q \in Producers, ppc'[q] \in WritePoints
                 PROVE  /\ ~IsPublished(cur[q])'
                        /\ Pid[q] \notin dead =>
                              /\ IsArmed(cur[q])'
                              /\ BeingWritten(cur[q])' \/ owner'[Slot(cur[q])].lap < Epoch(cur[q])
                              /\ \A d \in Drainers : ~HeldBy(d, cur[q])'
        BY DEF WritingInv
    <2>1. q # p /\ ppc[q] \in WritePoints
        BY DEF WritePoints
    <2>2. cur[q] # NoBlock /\ cur[q] \in Nat
        BY <2>1, SegmentTypes DEF IInv, CallInv, WithBlock, WritePoints
    <2>. QED
        BY <2>1, <2>2, <1>7, <1>10, <1>11, <1>13 DEF IInv, WritingInv
<1>e. WordsInv'
    <2> SUFFICES ASSUME NEW t \in 0 .. head - 1
                 PROVE  /\ Idle(t)' => IsArmed(t)'
                        /\ BeingWritten(t)' =>
                              /\ IsArmed(t)'
                              /\ \E q \in Producers :
                                    cur[q] = t /\ ppc'[q] \in WritePoints \cup {"pub_owner"}
                        /\ IsPublished(t)' =>
                              /\ IsArmed(t)'
                              /\ ~Idle(t)'
                              /\ BeingWritten(t)' =>
                                    \E q \in Producers : cur[q] = t /\ ppc'[q] = "pub_owner"
        BY DEF WordsInv
    <2>0. t \in Nat
        OBVIOUS
    <2>1. CASE Slot(t) = i
        BY <2>0, <2>1, <1>3, <1>8, <1>10 DEF IInv, WordsInv
    <2>2. CASE Slot(t) # i
        <3>1. \A q \in Producers : cur[q] = t => ppc'[q] = ppc[q]
            BY <2>2 DEF s, i
        <3>. QED
            BY <3>1, <2>0, <2>2, <1>7, <1>10 DEF IInv, WordsInv
    <2>. QED
        BY <2>1, <2>2
<1>f. DrainersInv'
    <2>1. ASSUME NEW d \in Drainers, Draining(d)
          PROVE  dseq[d] \in Nat /\ IsArmed(dseq[d]) /\ Slot(dseq[d]) # i
        <3>1. dseq[d] \in Nat /\ IsArmed(dseq[d]) /\ dseq[d] # s
            BY <2>1, <1>3, SegmentTypes DEF IInv, DrainersInv, HeldBy
        <3>. QED
            BY <3>1, <1>5
    <2>2. \A q \in Producers : ppc[q] = "pub_owner" => ppc'[q] = "pub_owner"
        OBVIOUS
    <2>3. \A d \in Drainers : Draining(d)' <=> Draining(d)
        BY DEF Draining, drainer
    <2>. QED
        BY <2>1, <2>2, <2>3, <1>7, <1>10 DEF IInv, DrainersInv, drainer
<1>. QED
    BY <1>a, <1>b, <1>c, <1>d, <1>e, <1>f

\* PublishCommit: a block that is WRITING becomes published.
LEMMA PublishCommits ==
    ASSUME IInv, NEW p \in Producers, PublishCommit(p)
    PROVE  ProducersInv' /\ LapsInv' /\ ClaimingInv' /\ WritingInv' /\ WordsInv'
             /\ DrainersInv'
<1> DEFINE s == cur[p]
           i == Slot(s)
           e == Epoch(s)
<1>0. /\ ppc[p] = "pub_commit" /\ Pid[p] \notin dead /\ ppc'[p] = "pub_owner"
      /\ \A q \in Producers : q # p => ppc'[q] = ppc[q]
      /\ committed' = [committed EXCEPT ![i] = Published(e)]
      /\ UNCHANGED <<head, armed, owner, owner_pid, seen, cur, dead, drainer>>
    BY DEF PublishCommit, At, MySlot, MyEpoch, IInv, TypeOK, ProducerOK
<1>1. s \in Nat /\ s < head /\ i \in Slots /\ e \in Nat
    BY <1>0, SlotEpoch, SegmentTypes DEF IInv, CallInv, WithBlock, ProducersInv
<1>2. /\ committed'[i] = Published(e)
      /\ \A j \in Slots : j # i => committed'[j] = committed[j]
    BY <1>0, <1>1 DEF IInv, TypeOK, SegmentOK
<1>3. /\ IsArmed(s)
      /\ BeingWritten(s) \/ owner[i].lap < e
      /\ \A d \in Drainers : ~HeldBy(d, s)
    BY <1>0 DEF IInv, WritingInv, WritePoints
<1>4. ~Idle(s)
    BY <1>1, <1>3, Words DEF Idle, BeingWritten
<1>5. \A t \in Nat : IsArmed(t) /\ t # s => Slot(t) # i
    BY <1>1, <1>3, OneArmed
<1>6. \A t \in Nat : Slot(t) \in Slots
    BY SlotEpoch
<1>12. \A t \in Nat : t >= head /\ Slot(t) = i => e < Epoch(t)
    BY <1>1, SlotEpoch, SegmentTypes DEF IInv
<1> HIDE DEF s, i, e
<1>7. \A t \in Nat : t # s => (IsPublished(t)' => IsPublished(t))
    <2> SUFFICES ASSUME NEW t \in Nat, t # s, IsPublished(t)'
                 PROVE  IsPublished(t)
        OBVIOUS
    <2>1. committed'[Slot(t)] = Published(Epoch(t))
        BY DEF IsPublished
    <2>2. Slot(t) # i
        BY <2>1, <1>1, <1>2, Words, SlotEpoch DEF i, e
    <2>. QED
        BY <2>1, <2>2, <1>2, <1>6 DEF IsPublished
<1>10. \A t \in Nat : /\ Idle(t)' <=> Idle(t)
                      /\ BeingWritten(t)' <=> BeingWritten(t)
                      /\ IsArmed(t)' <=> IsArmed(t)
    BY <1>0 DEF Idle, BeingWritten, IsArmed
<1>11. \A t \in Nat : \A d \in Drainers : HeldBy(d, t)' <=> HeldBy(d, t)
    BY <1>0 DEF HeldBy, Draining, drainer
<1>a. ProducersInv'
    BY <1>0 DEF IInv, ProducersInv, IsArmed
<1>b. LapsInv'
    <2>1. ASSUME NEW t \in head .. MaxHead
          PROVE  committed'[Slot(t)].lap < Epoch(t)
        <3>1. t \in Nat /\ t >= head
            BY SegmentTypes, RingConstants DEF IInv
        <3>2. CASE Slot(t) = i
            BY <3>1, <3>2, <1>2, <1>12, Words
        <3>3. CASE Slot(t) # i
            BY <3>1, <3>3, <1>2, <1>6 DEF IInv, LapsInv
        <3>. QED
            BY <3>2, <3>3
    <2>. QED
        BY <2>1, <1>0 DEF IInv, LapsInv
<1>c. ClaimingInv'
    <2>1. ASSUME NEW q \in Producers, ppc'[q] \in {"stamp", "own"}
          PROVE  /\ ppc[q] \in {"stamp", "own"}
                 /\ cur[q] \in Nat
                 /\ committed'[Slot(cur[q])] = committed[Slot(cur[q])]
        <3>1. q # p /\ ppc[q] \in {"stamp", "own"}
            BY <2>1, <1>0
        <3>2. cur[q] # NoBlock /\ IsArmed(cur[q])
            BY <3>1 DEF IInv, CallInv, WithBlock, ClaimingInv
        <3>3. cur[q] \in Nat /\ cur[q] # s
            BY <3>1, <3>2, SegmentTypes DEF s, IInv, ProducersInv
        <3>. QED
            BY <3>1, <3>2, <3>3, <1>2, <1>5, <1>6
    <2>. QED
        BY <2>1, <1>0, <1>10, <1>11 DEF IInv, ClaimingInv
<1>d. WritingInv'
    <2> SUFFICES ASSUME NEW q \in Producers, ppc'[q] \in WritePoints
                 PROVE  /\ ~IsPublished(cur[q])'
                        /\ Pid[q] \notin dead =>
                              /\ IsArmed(cur[q])'
                              /\ BeingWritten(cur[q])' \/ owner[Slot(cur[q])].lap < Epoch(cur[q])
                              /\ \A d \in Drainers : ~HeldBy(d, cur[q])'
        BY <1>0 DEF WritingInv
    <2>1. q # p /\ ppc[q] \in WritePoints
        BY <1>0 DEF WritePoints
    <2>2. cur[q] # NoBlock /\ cur[q] \in Nat /\ cur[q] # s
        BY <2>1, SegmentTypes DEF s, IInv, CallInv, WithBlock, WritePoints, ProducersInv
    <2>. QED
        BY <2>1, <2>2, <1>0, <1>7, <1>10, <1>11 DEF IInv, WritingInv
<1>e. WordsInv'
    <2>1. ASSUME NEW q \in Producers, ppc[q] \in WritePoints \cup {"pub_owner"}
          PROVE  /\ ppc'[q] \in WritePoints \cup {"pub_owner"}
                 /\ ppc[q] = "pub_owner" => ppc'[q] = "pub_owner"
        BY <2>1, <1>0
    <2> SUFFICES ASSUME NEW t \in 0 .. head - 1
                 PROVE  /\ Idle(t)' => IsArmed(t)'
                        /\ BeingWritten(t)' =>
                              /\ IsArmed(t)'
                              /\ \E q \in Producers :
                                    cur[q] = t /\ ppc'[q] \in WritePoints \cup {"pub_owner"}
                        /\ IsPublished(t)' =>
                              /\ IsArmed(t)'
                              /\ ~Idle(t)'
                              /\ BeingWritten(t)' =>
                                    \E q \in Producers : cur[q] = t /\ ppc'[q] = "pub_owner"
        BY <1>0 DEF WordsInv
    <2>0. t \in Nat
        OBVIOUS
    <2>2. CASE t = s
        BY <2>0, <2>1, <2>2, <1>0, <1>3, <1>4, <1>10 DEF s, IInv, WordsInv
    <2>3. CASE t # s
        BY <2>0, <2>1, <2>3, <1>7, <1>10 DEF IInv, WordsInv
    <2>. QED
        BY <2>2, <2>3
<1>f. DrainersInv'
    <2>1. ASSUME NEW d \in Drainers, Draining(d)
          PROVE  dseq[d] \in Nat /\ dseq[d] # s
        BY <2>1, <1>3, SegmentTypes DEF IInv, DrainersInv, HeldBy
    <2>2. \A q \in Producers : ppc[q] = "pub_owner" => ppc'[q] = "pub_owner"
        BY <1>0
    <2>3. \A d \in Drainers : Draining(d)' <=> Draining(d)
        BY <1>0 DEF Draining, drainer
    <2>. QED
        BY <2>1, <2>2, <2>3, <1>0, <1>7, <1>10 DEF IInv, DrainersInv, drainer
<1>. QED
    BY <1>a, <1>b, <1>c, <1>d, <1>e, <1>f

\* PublishOwner: the late store of PUBLISHED.  Its block may have been released
\* since; then the slot is armed for a later lap than the word stored.
LEMMA PublishOwns ==
    ASSUME IInv, NEW p \in Producers, PublishOwner(p)
    PROVE  ProducersInv' /\ LapsInv' /\ ClaimingInv' /\ WritingInv' /\ WordsInv'
             /\ DrainersInv'
<1> DEFINE s == cur[p]
           i == Slot(s)
           e == Epoch(s)
<1>0. /\ ppc[p] = "pub_owner" /\ Pid[p] \notin dead
      /\ ppc'[p] \in {"load_head", "idle"} /\ cur'[p] = NoBlock
      /\ \A q \in Producers : q # p => ppc'[q] = ppc[q] /\ cur'[q] = cur[q]
      /\ owner' = [owner EXCEPT ![i] = OwnerWord(e, "PUBLISHED")]
      /\ UNCHANGED <<head, armed, committed, owner_pid, seen, dead, drainer>>
    BY DEF PublishOwner, At, AfterPublish, Drop, MySlot, MyEpoch, IInv, TypeOK, ProducerOK
<1>1. s \in Nat /\ s < head /\ i \in Slots /\ e \in Nat
    BY <1>0, SlotEpoch, SegmentTypes DEF IInv, CallInv, WithBlock, ProducersInv
<1>2. /\ owner'[i] = OwnerWord(e, "PUBLISHED")
      /\ \A j \in Slots : j # i => owner'[j] = owner[j]
    BY <1>0, <1>1 DEF IInv, TypeOK, SegmentOK
<1>3. armed[i] >= e
    BY <1>1, SegmentTypes DEF IInv, LapsInv
<1>5. \A t \in Nat : IsArmed(t) /\ t # s /\ Slot(t) = i => e < Epoch(t)
    <2> SUFFICES ASSUME NEW t \in Nat, IsArmed(t), t # s, Slot(t) = i
                 PROVE  e < Epoch(t)
        OBVIOUS
    <2>1. Epoch(t) >= e /\ Epoch(t) \in Nat
        BY <1>3, SlotEpoch DEF IsArmed
    <2>2. Epoch(t) # e
        BY <1>1, SlotEpoch
    <2>. QED
        BY <2>1, <2>2, <1>1
<1>6. \A t \in Nat : Slot(t) \in Slots
    BY SlotEpoch
<1>12. \A t \in Nat : t >= head /\ Slot(t) = i => e < Epoch(t)
    BY <1>1, SlotEpoch, SegmentTypes DEF IInv
<1> HIDE DEF s, i, e
<1>7. \A t \in Nat : Slot(t) # i => /\ Idle(t)' <=> Idle(t)
                                    /\ BeingWritten(t)' <=> BeingWritten(t)
    BY <1>2, <1>6 DEF Idle, BeingWritten
<1>8. \A t \in Nat : Slot(t) = i => ~BeingWritten(t)' /\ ~Idle(t)'
    BY <1>1, <1>2, Words, SlotEpoch DEF Idle, BeingWritten
<1>10. \A t \in Nat : (IsPublished(t)' <=> IsPublished(t)) /\ (IsArmed(t)' <=> IsArmed(t))
    BY <1>0 DEF IsPublished, IsArmed
<1>11. \A t \in Nat : \A d \in Drainers : HeldBy(d, t)' <=> HeldBy(d, t)
    BY <1>0 DEF HeldBy, Draining, drainer
<1>a. ProducersInv'
    BY <1>0 DEF IInv, ProducersInv, IsArmed
<1>b. LapsInv'
    <2>1. ASSUME NEW t \in head .. MaxHead
          PROVE  owner'[Slot(t)].lap < Epoch(t)
        <3>1. t \in Nat /\ t >= head
            BY SegmentTypes, RingConstants DEF IInv
        <3>2. CASE Slot(t) = i
            BY <3>1, <3>2, <1>2, <1>12, Words
        <3>3. CASE Slot(t) # i
            BY <3>1, <3>3, <1>2, <1>6 DEF IInv, LapsInv
        <3>. QED
            BY <3>2, <3>3
    <2>. QED
        BY <2>1, <1>0 DEF IInv, LapsInv
<1>13. ASSUME NEW q \in Producers, q # p, cur[q] # NoBlock, IsArmed(cur[q])
       PROVE  /\ cur[q] \in Nat /\ cur[q] # s
              /\ \/ owner'[Slot(cur[q])] = owner[Slot(cur[q])] /\ Slot(cur[q]) # i
                 \/ owner'[Slot(cur[q])].lap < Epoch(cur[q])
    <2>1. cur[q] \in Nat /\ cur[q] # s
        BY <1>13, <1>1, SegmentTypes DEF s, IInv, ProducersInv
    <2>2. CASE Slot(cur[q]) = i
        BY <2>1, <2>2, <1>13, <1>2, <1>5, Words
    <2>3. CASE Slot(cur[q]) # i
        BY <2>1, <2>3, <1>2, <1>6
    <2>. QED
        BY <2>1, <2>2, <2>3
<1>c. ClaimingInv'
    <2>1. ASSUME NEW q \in Producers, ppc'[q] \in {"stamp", "own"}
          PROVE  /\ ppc[q] \in {"stamp", "own"} /\ cur'[q] = cur[q]
                 /\ cur[q] \in Nat
                 /\ \/ owner'[Slot(cur[q])] = owner[Slot(cur[q])]
                    \/ owner'[Slot(cur[q])].lap < Epoch(cur[q])
        <3>1. q # p /\ ppc[q] \in {"stamp", "own"} /\ cur'[q] = cur[q]
            BY <2>1, <1>0
        <3>2. cur[q] # NoBlock /\ IsArmed(cur[q])
            BY <3>1 DEF IInv, CallInv, WithBlock, ClaimingInv
        <3>. QED
            BY <3>1, <3>2, <1>13
    <2>. QED
        BY <2>1, <1>0, <1>10, <1>11 DEF IInv, ClaimingInv, IsArmed, HeldBy
<1>d. WritingInv'
    <2>1. ASSUME NEW q \in Producers, ppc'[q] \in WritePoints
          PROVE  /\ ppc[q] \in WritePoints /\ cur'[q] = cur[q]
                 /\ cur[q] \in Nat
                 /\ Pid[q] \notin dead =>
                        BeingWritten(cur[q])' \/ owner'[Slot(cur[q])].lap < Epoch(cur[q])
        <3>1. q # p /\ ppc[q] \in WritePoints /\ cur'[q] = cur[q]
            BY <2>1, <1>0 DEF WritePoints
        <3>2. cur[q] # NoBlock /\ cur[q] \in Nat
            BY <3>1, SegmentTypes DEF IInv, CallInv, WithBlock, WritePoints
        <3>3. Pid[q] \notin dead =>
                  /\ IsArmed(cur[q])
                  /\ BeingWritten(cur[q]) \/ owner[Slot(cur[q])].lap < Epoch(cur[q])
            BY <3>1 DEF IInv, WritingInv
        <3>. QED
            BY <3>1, <3>2, <3>3, <1>13 DEF BeingWritten
    <2>. QED
        BY <2>1, <1>0 DEF IInv, WritingInv, IsArmed, IsPublished, BeingWritten, HeldBy, Draining, drainer
<1>e. WordsInv'
    <2> SUFFICES ASSUME NEW t \in 0 .. head - 1
                 PROVE  /\ Idle(t)' => IsArmed(t)'
                        /\ BeingWritten(t)' =>
                              /\ IsArmed(t)'
                              /\ \E q \in Producers :
                                    cur'[q] = t /\ ppc'[q] \in WritePoints \cup {"pub_owner"}
                        /\ IsPublished(t)' =>
                              /\ IsArmed(t)'
                              /\ ~Idle(t)'
                              /\ BeingWritten(t)' =>
                                    \E q \in Producers : cur'[q] = t /\ ppc'[q] = "pub_owner"
        BY <1>0 DEF WordsInv
    <2>0. t \in Nat
        OBVIOUS
    <2>1. CASE Slot(t) = i
        BY <2>0, <2>1, <1>8, <1>10 DEF IInv, WordsInv
    <2>2. CASE Slot(t) # i
        <3>1. \A q \in Producers : cur[q] = t => ppc'[q] = ppc[q] /\ cur'[q] = cur[q]
            BY <2>2, <1>0 DEF s, i
        <3>. QED
            BY <3>1, <2>0, <2>2, <1>7, <1>10 DEF IInv, WordsInv
    <2>. QED
        BY <2>1, <2>2
<1>f. DrainersInv'
    <2>1. \A d \in Drainers : Draining(d)' <=> Draining(d)
        BY <1>0 DEF Draining, drainer
    <2>2. ASSUME NEW d \in Drainers, Draining(d)
          PROVE  /\ ~Idle(dseq[d])'
                 /\ BeingWritten(dseq[d])' =>
                       /\ dpc[d] # "rel_armed"
                       /\ \E q \in Producers : cur'[q] = dseq[d] /\ ppc'[q] = "pub_owner"
        <3>0. dseq[d] \in Nat /\ dseq'[d] = dseq[d]
            BY <1>0, SegmentTypes DEF IInv, drainer
        <3>1. CASE Slot(dseq[d]) = i
            BY <3>0, <3>1, <1>0, <1>2, <1>8, Words DEF Idle, BeingWritten
        <3>2. CASE Slot(dseq[d]) # i
            <4>1. \A q \in Producers : cur[q] = dseq[d] => ppc'[q] = ppc[q] /\ cur'[q] = cur[q]
                BY <3>2, <1>0 DEF s, i
            <4>2. /\ Idle(dseq[d])' <=> Idle(dseq[d])
                  /\ BeingWritten(dseq[d])' <=> BeingWritten(dseq[d])
                BY <3>0, <3>2, <1>2, <1>6 DEF Idle, BeingWritten
            <4>. QED
                BY <4>1, <4>2, <2>2 DEF IInv, DrainersInv
        <3>. QED
            BY <3>1, <3>2
    <2>3. \A q \in Producers : Pid[q] \in dead => cur'[q] = cur[q]
        BY <1>0
    <2>. QED
        BY <2>1, <2>2, <2>3, <1>0 DEF IInv, DrainersInv, IsArmed, IsPublished, drainer
<1>. QED
    BY <1>a, <1>b, <1>c, <1>d, <1>e, <1>f

\* ClaimHead: the block head names, armed for its lap, gets its producer.
LEMMA ClaimHeads ==
    ASSUME IInv, NEW p \in Producers, ClaimHead(p)
    PROVE  ProducersInv' /\ LapsInv' /\ ClaimingInv' /\ WritingInv' /\ WordsInv'
             /\ DrainersInv'
<1>0. /\ ppc[p] = "cas_head" /\ Pid[p] \notin dead /\ ppc'[p] = "stamp"
      /\ head = seen[p] /\ head < MaxHead /\ head' = head + 1
      /\ cur'[p] = head /\ seen'[p] = 0
      /\ \A q \in Producers : q # p =>
            ppc'[q] = ppc[q] /\ cur'[q] = cur[q] /\ seen'[q] = seen[q]
      /\ UNCHANGED <<armed, committed, owner, owner_pid, dead, drainer>>
    BY DEF ClaimHead, At, IInv, TypeOK, ProducerOK
<1>1. head \in Nat /\ MaxHead \in Nat /\ cur[p] = NoBlock
    BY <1>0, SegmentTypes, RingConstants DEF IInv, CallInv, WithoutBlock
<1>2. /\ IsArmed(head)
      /\ owner[Slot(head)].lap < Epoch(head)
      /\ committed[Slot(head)].lap < Epoch(head)
    <2>1. head \in head .. MaxHead
        BY <1>0, <1>1
    <2>2. armed[Slot(head)] \in Nat /\ Epoch(head) \in Nat
        BY <1>1, SegmentTypes, SlotEpoch DEF IInv
    <2>. QED
        BY <2>1, <2>2, <1>0 DEF IInv, LapsInv, ProducersInv, IsArmed
<1>3. /\ owner[Slot(head)].lap \in Nat
      /\ committed[Slot(head)].lap \in Nat
      /\ Epoch(head) \in Nat
    BY <1>1, SegmentTypes, SlotEpoch DEF IInv
<1>4. ~Idle(head) /\ ~BeingWritten(head) /\ ~IsPublished(head)
    BY <1>2, <1>3, Words DEF Idle, BeingWritten, IsPublished
<1>5. \A q \in Producers : q # p /\ cur[q] # NoBlock => cur[q] < head /\ cur[q] \in Nat
    BY SegmentTypes DEF IInv, ProducersInv
<1>6. \A d \in Drainers : ~HeldBy(d, head)
    BY <1>1, SegmentTypes DEF IInv, DrainersInv, HeldBy
<1>a. ProducersInv'
    BY <1>0, <1>1, <1>5 DEF IInv, ProducersInv, IsArmed
<1>b. LapsInv'
    BY <1>0, <1>1, <1>2, <1>3 DEF IInv, LapsInv, IsArmed
<1>c. ClaimingInv'
    BY <1>0, <1>1, <1>2, <1>6 DEF IInv, ClaimingInv, IsArmed, HeldBy, Draining, drainer
<1>d. WritingInv'
    BY <1>0 DEF IInv, WritingInv, WritePoints, IsArmed, IsPublished, BeingWritten, HeldBy,
                Draining, drainer
<1>e. WordsInv'
    <2>1. \A q \in Producers : ppc[q] \in WritePoints \cup {"pub_owner"} =>
              ppc'[q] = ppc[q] /\ cur'[q] = cur[q]
        BY <1>0 DEF WritePoints
    <2>2. \A t \in 0 .. head : t \in 0 .. head - 1 \/ t = head
        BY <1>1
    <2>3. \A t \in Nat : /\ Idle(t)' <=> Idle(t)
                         /\ BeingWritten(t)' <=> BeingWritten(t)
                         /\ IsPublished(t)' <=> IsPublished(t)
                         /\ IsArmed(t)' <=> IsArmed(t)
        BY <1>0 DEF Idle, BeingWritten, IsPublished, IsArmed
    <2> SUFFICES ASSUME NEW t \in 0 .. head
                 PROVE  /\ Idle(t)' => IsArmed(t)'
                        /\ BeingWritten(t)' =>
                              /\ IsArmed(t)'
                              /\ \E q \in Producers :
                                    cur'[q] = t /\ ppc'[q] \in WritePoints \cup {"pub_owner"}
                        /\ IsPublished(t)' =>
                              /\ IsArmed(t)'
                              /\ ~Idle(t)'
                              /\ BeingWritten(t)' =>
                                    \E q \in Producers : cur'[q] = t /\ ppc'[q] = "pub_owner"
        BY <1>0, <1>1 DEF WordsInv
    <2>4. CASE t = head
        BY <2>3, <2>4, <1>1, <1>4
    <2>5. CASE t \in 0 .. head - 1
        BY <2>1, <2>3, <2>5, <1>1 DEF IInv, WordsInv
    <2>. QED
        BY <2>2, <2>4, <2>5
<1>f. DrainersInv'
    <2>1. \A d \in Drainers : (Draining(d)' <=> Draining(d)) /\ dseq[d] \in Nat /\ dhead[d] \in Nat
        BY <1>0, SegmentTypes DEF IInv, Draining, drainer
    <2>2. \A q \in Producers : \A d \in Drainers : cur[q] = dseq[d] =>
              cur'[q] = cur[q] /\ ppc'[q] = ppc[q]
        BY <2>1, <1>0, <1>1 DEF NoBlock
    <2>. QED
        BY <2>1, <2>2, <1>0, <1>1
        DEF IInv, DrainersInv, Idle, BeingWritten, IsArmed, IsPublished, drainer
<1>. QED
    BY <1>a, <1>b, <1>c, <1>d, <1>e, <1>f

\* ClaimStamp: the new owner signs its block.
LEMMA ClaimStamps ==
    ASSUME IInv, NEW p \in Producers, ClaimStamp(p)
    PROVE  ProducersInv' /\ LapsInv' /\ ClaimingInv' /\ WritingInv' /\ WordsInv'
             /\ DrainersInv'
<1>0. /\ ppc[p] = "stamp" /\ Pid[p] \notin dead /\ ppc'[p] = "own"
      /\ \A q \in Producers : q # p => ppc'[q] = ppc[q]
      /\ owner_pid' = [owner_pid EXCEPT ![Slot(cur[p])] = Pid[p]]
      /\ UNCHANGED <<head, armed, committed, owner, seen, cur, dead, drainer>>
    BY DEF ClaimStamp, At, MySlot, IInv, TypeOK, ProducerOK
<1>1. cur[p] \in Nat /\ Slot(cur[p]) \in Slots /\ IsArmed(cur[p])
    BY <1>0, SlotEpoch, SegmentTypes DEF IInv, CallInv, WithBlock, ClaimingInv
<1>2. /\ owner_pid'[Slot(cur[p])] = Pid[p]
      /\ \A j \in Slots : j # Slot(cur[p]) => owner_pid'[j] = owner_pid[j]
    BY <1>0, <1>1 DEF IInv, TypeOK, SegmentOK
<1>3. ASSUME NEW q \in Producers, q # p, cur[q] # NoBlock, IsArmed(cur[q])
      PROVE  owner_pid'[Slot(cur[q])] = owner_pid[Slot(cur[q])]
    <2>1. cur[q] \in Nat /\ cur[q] # cur[p] /\ Slot(cur[q]) \in Slots
        BY <1>3, SegmentTypes, SlotEpoch DEF IInv, ProducersInv
    <2>. QED
        BY <2>1, <1>1, <1>2, <1>3, OneArmed
<1>a. ProducersInv'
    BY <1>0, <1>2, <1>3 DEF IInv, ProducersInv, IsArmed
<1>b. LapsInv'
    BY <1>0 DEF IInv, LapsInv
<1>c. ClaimingInv'
    BY <1>0 DEF IInv, ClaimingInv, IsArmed, HeldBy, Draining, drainer
<1>d. WritingInv'
    BY <1>0 DEF IInv, WritingInv, WritePoints, IsArmed, IsPublished, BeingWritten, HeldBy,
                Draining, drainer
<1>e. WordsInv'
    <2>1. \A q \in Producers : ppc[q] \in WritePoints \cup {"pub_owner"} => ppc'[q] = ppc[q]
        BY <1>0 DEF WritePoints
    <2>. QED
        BY <2>1, <1>0 DEF IInv, WordsInv, Idle, BeingWritten, IsPublished, IsArmed
<1>f. DrainersInv'
    BY <1>0 DEF IInv, DrainersInv, Idle, BeingWritten, IsPublished, IsArmed, Draining, drainer
<1>. QED
    BY <1>a, <1>b, <1>c, <1>d, <1>e, <1>f

\* A process dies at one of the DeathPoints.
LEMMA Dies ==
    ASSUME IInv, NEW k \in Pids, Die(k)
    PROVE  ProducersInv' /\ LapsInv' /\ ClaimingInv' /\ WritingInv' /\ WordsInv'
             /\ DrainersInv'
<1>0. /\ \A p \in Producers : Pid[p] = k => ppc[p] \in DeathPoints
      /\ dead' = dead \cup {k}
      /\ UNCHANGED <<head, armed, committed, owner, owner_pid, ppc, seen, cur, drainer>>
    BY DEF Die, segment, producer
<1>a. ProducersInv'
    BY <1>0 DEF IInv, ProducersInv, IsArmed
<1>b. LapsInv'
    BY <1>0 DEF IInv, LapsInv
<1>c. ClaimingInv'
    BY <1>0 DEF IInv, ClaimingInv, IsArmed, HeldBy, Draining, drainer
<1>d. WritingInv'
    BY <1>0 DEF IInv, WritingInv, IsArmed, IsPublished, BeingWritten, HeldBy, Draining, drainer
<1>e. WordsInv'
    BY <1>0 DEF IInv, WordsInv, Idle, BeingWritten, IsPublished, IsArmed
<1>f. DrainersInv'
    BY <1>0 DEF IInv, DrainersInv, Idle, BeingWritten, IsPublished, IsArmed, Draining, drainer
<1>. QED
    BY <1>a, <1>b, <1>c, <1>d, <1>e, <1>f

\* TakeLook: the owner word read is IDLE, or WRITING by a dead process.
LEMMA TakeLooks ==
    ASSUME IInv, NEW d \in Drainers, TakeLook(d)
    PROVE  ProducersInv' /\ LapsInv' /\ ClaimingInv' /\ WritingInv' /\ WordsInv'
             /\ DrainersInv'
<1> DEFINE s == dseq[d]
<1>0. /\ s < dhead[d] /\ Takeable(s) /\ dpc[d] = "scan" /\ dpc'[d] = "take_cas"
      /\ downer'[d] = owner[Slot(s)]
      /\ \A c \in Drainers : c # d => dpc'[c] = dpc[c] /\ downer'[c] = downer[c]
      /\ UNCHANGED <<head, armed, committed, owner, owner_pid, ppc, seen, cur, dead, dhead, dseq>>
    BY DEF TakeLook, DAt, IInv, TypeOK, DrainerOK, segment, producer
<1>1. s \in Nat /\ s < head
    BY <1>0, SegmentTypes DEF IInv, DrainersInv
<1>2. \/ owner[Slot(s)] = OwnerWord(Epoch(s), "IDLE")
      \/ /\ owner[Slot(s)] = OwnerWord(Epoch(s), "WRITING")
         /\ \E p \in Producers : cur[p] = s /\ Pid[p] \in dead
    <2>1. CASE owner[Slot(s)] = OwnerWord(Epoch(s), "IDLE")
        BY <2>1
    <2>2. CASE BeingWritten(s) /\ owner_pid[Slot(s)] \in dead
        <3>1. PICK p \in Producers : cur[p] = s /\ ppc[p] \in WritePoints \cup {"pub_owner"}
            BY <2>2, <1>1, SegmentTypes DEF IInv, WordsInv
        <3>2. IsArmed(s)
            BY <2>2, <1>1, SegmentTypes DEF IInv, WordsInv
        <3>3. Pid[p] \in dead
            BY <3>1, <3>2, <2>2, <1>1 DEF IInv, ProducersInv, WritePoints, NoBlock
        <3>. QED
            BY <3>1, <3>3, <2>2 DEF BeingWritten
    <2>. QED
        BY <2>1, <2>2, <1>0 DEF Takeable, Alive, BeingWritten
<1>3. \A c \in Drainers : Draining(c)' <=> Draining(c)
    BY <1>0 DEF Draining
<1> HIDE DEF s
<1>a. ProducersInv'
    BY <1>0 DEF IInv, ProducersInv, IsArmed
<1>b. LapsInv'
    BY <1>0 DEF IInv, LapsInv
<1>c. ClaimingInv'
    BY <1>0, <1>3 DEF IInv, ClaimingInv, IsArmed, HeldBy
<1>d. WritingInv'
    BY <1>0, <1>3 DEF IInv, WritingInv, IsArmed, IsPublished, BeingWritten, HeldBy
<1>e. WordsInv'
    BY <1>0 DEF IInv, WordsInv, Idle, BeingWritten, IsPublished, IsArmed
<1>f. DrainersInv'
    <2>1. ~Draining(d)
        BY <1>0 DEF Draining
    <2>. QED
        BY <2>1, <1>0, <1>1, <1>2, <1>3
        DEF s, IInv, DrainersInv, Idle, BeingWritten, IsPublished, IsArmed
<1>. QED
    BY <1>a, <1>b, <1>c, <1>d, <1>e, <1>f

\* A drain thread takes block s in hand: with the committed word (ScanClaim)
\* or with the owner word (TakeCas).  It then has it alone.
LEMMA InHand ==
    ASSUME IInv,
           NEW d \in Drainers,
           NEW s \in Nat,
           dseq[d] = s, s < head, IsArmed(s),
           \A c \in Drainers : ~HeldBy(c, s),
           dpc'[d] = "drain",
           \A c \in Drainers : c # d => dpc'[c] = dpc[c] /\ downer'[c] = downer[c],
           UNCHANGED <<head, armed, owner_pid, producer, dead, dhead, dseq>>,
           \A j \in Slots : /\ j # Slot(s) => owner'[j] = owner[j]
                            /\ owner'[j].lap = owner[j].lap
                            /\ committed'[j].lap = committed[j].lap,
           \A t \in Nat : /\ Idle(t)' => Idle(t)
                          /\ BeingWritten(t)' => BeingWritten(t)
                          /\ IsPublished(t)' => IsPublished(t),
           ~IsPublished(s)', ~Idle(s)',
           BeingWritten(s)' => \E p \in Producers : cur[p] = s /\ ppc[p] = "pub_owner",
           \A p \in Producers : ppc[p] \in {"stamp", "own"} => cur[p] # s,
           \A p \in Producers : ppc[p] \in WritePoints /\ Pid[p] \notin dead => cur[p] # s
    PROVE  ProducersInv' /\ LapsInv' /\ ClaimingInv' /\ WritingInv' /\ WordsInv'
             /\ DrainersInv'
<1>0. ppc' = ppc /\ cur' = cur
    BY DEF producer
<1>1. \A t \in Nat : Slot(t) \in Slots /\ Epoch(t) \in Nat
    BY SlotEpoch
<1>3. \A t \in Nat : IsArmed(t)' <=> IsArmed(t)
    BY DEF IsArmed
<1>5. \A t \in Nat : IsArmed(t) /\ t # s => Slot(t) # Slot(s)
    BY OneArmed
<1>6. \A t \in Nat : \A c \in Drainers : t # s /\ HeldBy(c, t)' => HeldBy(c, t)
    BY DEF HeldBy, Draining
<1>a. ProducersInv'
    BY DEF IInv, ProducersInv, IsArmed, producer
<1>b. LapsInv'
    <2>1. \A t \in head .. MaxHead : Slot(t) \in Slots
        BY <1>1, SegmentTypes, RingConstants DEF IInv
    <2>. QED
        BY <2>1 DEF IInv, LapsInv
<1>c. ClaimingInv'
    <2>1. \A p \in Producers : ppc[p] \in {"stamp", "own"} => cur[p] \in Nat
        BY SegmentTypes DEF IInv, CallInv, WithBlock
    <2>. QED
        BY <2>1, <1>0, <1>1, <1>6 DEF IInv, ClaimingInv, IsArmed, HeldBy
<1>d. WritingInv'
    <2>1. ASSUME NEW q \in Producers, ppc[q] \in WritePoints
          PROVE  /\ cur[q] \in Nat
                 /\ ~IsPublished(cur[q])
                 /\ Pid[q] \notin dead =>
                       /\ IsArmed(cur[q]) /\ cur[q] # s
                       /\ owner'[Slot(cur[q])] = owner[Slot(cur[q])]
        <3>1. cur[q] \in Nat
            BY <2>1, SegmentTypes DEF IInv, CallInv, WithBlock, WritePoints
        <3>2. ~IsPublished(cur[q]) /\ (Pid[q] \notin dead => IsArmed(cur[q]) /\ cur[q] # s)
            BY <2>1 DEF IInv, WritingInv
        <3>. QED
            BY <3>1, <3>2, <1>1, <1>5
    <2> SUFFICES ASSUME NEW q \in Producers, ppc[q] \in WritePoints
                 PROVE  /\ ~IsPublished(cur[q])'
                        /\ Pid[q] \notin dead =>
                              /\ IsArmed(cur[q])'
                              /\ BeingWritten(cur[q])' \/ owner'[Slot(cur[q])].lap < Epoch(cur[q])
                              /\ \A c \in Drainers : ~HeldBy(c, cur[q])'
        BY <1>0 DEF WritingInv
    <2>2. ~IsPublished(cur[q])'
        BY <2>1, <1>0 DEF IsPublished
    <2>3. ASSUME Pid[q] \notin dead
          PROVE  /\ IsArmed(cur[q])'
                 /\ BeingWritten(cur[q])' \/ owner'[Slot(cur[q])].lap < Epoch(cur[q])
        BY <2>1, <2>3, <1>0 DEF IInv, WritingInv, IsArmed, BeingWritten
    <2>4. ASSUME Pid[q] \notin dead
          PROVE  \A c \in Drainers : ~HeldBy(c, cur[q])'
        BY <2>1, <2>4, <1>0, <1>6 DEF IInv, WritingInv, HeldBy
    <2>. QED
        BY <2>2, <2>3, <2>4
<1>e. WordsInv'
    <2> SUFFICES ASSUME NEW t \in 0 .. head - 1
                 PROVE  /\ Idle(t)' => IsArmed(t)'
                        /\ BeingWritten(t)' =>
                              /\ IsArmed(t)'
                              /\ \E q \in Producers :
                                    cur[q] = t /\ ppc[q] \in WritePoints \cup {"pub_owner"}
                        /\ IsPublished(t)' =>
                              /\ IsArmed(t)'
                              /\ ~Idle(t)'
                              /\ BeingWritten(t)' =>
                                    \E q \in Producers : cur[q] = t /\ ppc[q] = "pub_owner"
        BY <1>0 DEF WordsInv
    <2>. QED
        BY <1>3 DEF IInv, WordsInv
<1>f. DrainersInv'
    <2>1. ASSUME NEW c \in Drainers, c # d
          PROVE  (Draining(c)' <=> Draining(c)) /\ (Draining(c) => dseq[c] # s)
        BY <2>1 DEF Draining, HeldBy
    <2>2. ASSUME NEW c \in Drainers, Draining(c)'
          PROVE  /\ dseq[c] < head
                 /\ IsArmed(dseq[c])'
                 /\ ~IsPublished(dseq[c])'
                 /\ ~Idle(dseq[c])'
                 /\ BeingWritten(dseq[c])' =>
                       /\ dpc'[c] # "rel_armed"
                       /\ \E p \in Producers : cur[p] = dseq[c] /\ ppc[p] = "pub_owner"
        <3>0. dseq[c] \in Nat /\ dseq' = dseq
            BY SegmentTypes DEF IInv
        <3>1. CASE c = d
            BY <3>0, <3>1, <1>3 DEF IsArmed, IsPublished, Idle, BeingWritten
        <3>2. CASE c # d
            <4>1. /\ dseq[c] < head
                  /\ IsArmed(dseq[c]) /\ ~IsPublished(dseq[c]) /\ ~Idle(dseq[c])
                  /\ BeingWritten(dseq[c]) =>
                       /\ dpc[c] # "rel_armed"
                       /\ \E p \in Producers : cur[p] = dseq[c] /\ ppc[p] = "pub_owner"
                BY <2>1, <2>2, <3>2 DEF IInv, DrainersInv
            <4>2. /\ IsArmed(dseq[c])'
                  /\ ~IsPublished(dseq[c])' /\ ~Idle(dseq[c])'
                  /\ BeingWritten(dseq[c])' => BeingWritten(dseq[c])
                BY <4>1, <3>0, <1>3 DEF IsArmed, IsPublished, Idle, BeingWritten
            <4>. QED
                BY <4>1, <4>2, <3>2
        <3>. QED
            BY <3>1, <3>2
    <2>3. ASSUME NEW c \in Drainers
          PROVE  /\ dhead[c] <= head
                 /\ dpc'[c] = "take_cas" => c # d /\ dpc[c] = "take_cas"
        BY DEF IInv, DrainersInv
    <2>. QED
        BY <2>1, <2>2, <2>3, <1>0 DEF IInv, DrainersInv, Draining
<1>. QED
    BY <1>a, <1>b, <1>c, <1>d, <1>e, <1>f

\* ScanClaim: the drain thread that turns the committed word has the block.
LEMMA ScanClaims ==
    ASSUME IInv, NEW d \in Drainers, ScanClaim(d)
    PROVE  ProducersInv' /\ LapsInv' /\ ClaimingInv' /\ WritingInv' /\ WordsInv'
             /\ DrainersInv'
<1>0. /\ dseq[d] \in Nat /\ dseq[d] < head /\ dhead[d] <= head
      /\ Slot(dseq[d]) \in Slots /\ Epoch(dseq[d]) \in Nat
    BY SegmentTypes, SlotEpoch DEF IInv, DrainersInv, ScanClaim
<1>1. CASE ~IsPublished(dseq[d])
    <2>1. /\ committed' = committed
          /\ dpc'[d] = "scan"
          /\ \A c \in Drainers : c # d => dpc'[c] = dpc[c] /\ dseq'[c] = dseq[c]
          /\ UNCHANGED <<head, armed, owner, owner_pid, dead, producer, dhead, downer>>
        BY <1>1, <1>0 DEF ScanClaim, DAt, IsPublished, IInv, TypeOK, DrainerOK
    <2>2. ~Draining(d)'
        BY <2>1 DEF Draining
    <2>. QED
        BY <2>1, <2>2, <1>0, DrainerLocal
<1>2. CASE IsPublished(dseq[d])
    <2> DEFINE s == dseq[d]
    <2>1. /\ committed' = [committed EXCEPT ![Slot(s)] = Claimed(Epoch(s))]
          /\ dpc'[d] = "drain"
          /\ \A c \in Drainers : c # d => dpc'[c] = dpc[c]
          /\ UNCHANGED <<head, armed, owner, owner_pid, dead, producer, dhead, dseq, downer>>
        BY <1>2, <1>0 DEF ScanClaim, DAt, IsPublished, IInv, TypeOK, DrainerOK
    <2>2. /\ committed[Slot(s)] = Published(Epoch(s))
          /\ committed'[Slot(s)] = Claimed(Epoch(s))
          /\ \A j \in Slots : j # Slot(s) => committed'[j] = committed[j]
          /\ \A j \in Slots : committed'[j].lap = committed[j].lap
        BY <2>1, <1>0, <1>2, Words DEF IsPublished, IInv, TypeOK, SegmentOK
    <2>3. /\ IsArmed(s) /\ ~Idle(s)
          /\ BeingWritten(s) => \E p \in Producers : cur[p] = s /\ ppc[p] = "pub_owner"
        BY <1>0, <1>2, SegmentTypes DEF IInv, WordsInv
    <2>4. \A c \in Drainers : ~HeldBy(c, s)
        BY <1>2 DEF IInv, DrainersInv, HeldBy
    <2>5. \A p \in Producers : ppc[p] \in {"stamp", "own"} => cur[p] # s
        BY <2>2, <1>0, Words DEF IInv, ClaimingInv
    <2>6. \A p \in Producers : ppc[p] \in WritePoints => cur[p] # s
        BY <1>2 DEF IInv, WritingInv
    <2> HIDE DEF s
    <2>7. \A t \in Nat : /\ Idle(t)' => Idle(t)
                         /\ BeingWritten(t)' => BeingWritten(t)
                         /\ IsPublished(t)' => IsPublished(t)
        <3>1. \A t \in Nat : Slot(t) \in Slots
            BY SlotEpoch
        <3>2. \A t \in Nat : Slot(t) = Slot(s) => ~IsPublished(t)'
            BY <2>2, Words DEF IsPublished
        <3>. QED
            BY <3>1, <3>2, <2>1, <2>2 DEF Idle, BeingWritten, IsPublished
    <2>8. ASSUME NEW t \in Nat, t = s
          PROVE  /\ ~IsPublished(t)' /\ ~Idle(t)'
                 /\ BeingWritten(t)' => \E p \in Producers : cur[p] = t /\ ppc[p] = "pub_owner"
        BY <2>8, <2>1, <2>2, <2>3, Words DEF IsPublished, Idle, BeingWritten
    <2>9. PICK t \in Nat : t = s
        BY <1>0 DEF s
    <2>10. /\ \A j \in Slots : /\ j # Slot(t) => owner'[j] = owner[j]
                               /\ owner'[j].lap = owner[j].lap
                               /\ committed'[j].lap = committed[j].lap
           /\ dseq[d] = t /\ t < head /\ IsArmed(t)
        BY <2>1, <2>2, <2>3, <2>9, <1>0 DEF s
    <2>11. \A c \in Drainers : c # d => dpc'[c] = dpc[c] /\ downer'[c] = downer[c]
        BY <2>1
    <2>. QED
        BY <2>1, <2>4, <2>5, <2>6, <2>7, <2>8, <2>9, <2>10, <2>11, InHand
<1>. QED
    BY <1>1, <1>2

\* TakeCas: the drain thread that turns the owner word has the block, unless
\* its producer died between the two stores of publish().
LEMMA TakeCases ==
    ASSUME NoDeathInPublish, IInv, NEW d \in Drainers, TakeCas(d)
    PROVE  ProducersInv' /\ LapsInv' /\ ClaimingInv' /\ WritingInv' /\ WordsInv'
             /\ DrainersInv'
<1>0. /\ dpc[d] = "take_cas" /\ dseq[d] \in Nat /\ dseq[d] < head /\ dhead[d] <= head
      /\ Slot(dseq[d]) \in Slots /\ Epoch(dseq[d]) \in Nat
      /\ \/ downer[d] = OwnerWord(Epoch(dseq[d]), "IDLE")
         \/ /\ downer[d] = OwnerWord(Epoch(dseq[d]), "WRITING")
            /\ \E p \in Producers : cur[p] = dseq[d] /\ Pid[p] \in dead
    BY SegmentTypes, SlotEpoch DEF IInv, DrainersInv, TakeCas, DAt
<1>1. CASE owner[Slot(dseq[d])] # downer[d]
    <2>1. /\ owner' = owner
          /\ dpc'[d] = "scan"
          /\ \A c \in Drainers : c # d =>
                dpc'[c] = dpc[c] /\ dseq'[c] = dseq[c] /\ downer'[c] = downer[c]
          /\ UNCHANGED <<head, armed, committed, owner_pid, dead, producer, dhead>>
        BY <1>1, <1>0 DEF TakeCas, DAt, IInv, TypeOK, DrainerOK
    <2>2. ~Draining(d)'
        BY <2>1 DEF Draining
    <2>. QED
        BY <2>1, <2>2, <1>0, DrainerLocal
<1>2. CASE owner[Slot(dseq[d])] = downer[d]
    <2> DEFINE s == dseq[d]
    <2>1. /\ owner' = [owner EXCEPT ![Slot(s)] = OwnerWord(Epoch(s), "TAKEN")]
          /\ dpc'[d] = "drain"
          /\ \A c \in Drainers : c # d => dpc'[c] = dpc[c] /\ downer'[c] = downer[c]
          /\ UNCHANGED <<head, armed, committed, owner_pid, dead, producer, dhead, dseq>>
        BY <1>2, <1>0 DEF TakeCas, DAt, IInv, TypeOK, DrainerOK
    <2>2. /\ owner[Slot(s)].lap = Epoch(s)
          /\ owner'[Slot(s)] = OwnerWord(Epoch(s), "TAKEN")
          /\ \A j \in Slots : j # Slot(s) => owner'[j] = owner[j]
          /\ \A j \in Slots : owner'[j].lap = owner[j].lap
        BY <2>1, <1>0, <1>2, Words DEF IInv, TypeOK, SegmentOK
    <2>a. Idle(s) \/ (BeingWritten(s) /\ ~Idle(s))
        BY <1>0, <1>2, Words DEF Idle, BeingWritten
    <2>b. \A p, q \in Producers : cur[p] = s /\ cur[q] = s => p = q
        BY <1>0 DEF IInv, ProducersInv, NoBlock
    <2>c. BeingWritten(s) => \A p \in Producers : cur[p] = s =>
              Pid[p] \in dead /\ ppc[p] # "pub_owner"
        <3> SUFFICES ASSUME BeingWritten(s), NEW p \in Producers, cur[p] = s
                     PROVE  Pid[p] \in dead /\ ppc[p] # "pub_owner"
            OBVIOUS
        <3>1. downer[d] # OwnerWord(Epoch(s), "IDLE")
            BY <1>2, Words DEF BeingWritten
        <3>2. PICK q \in Producers : cur[q] = s /\ Pid[q] \in dead
            BY <3>1, <1>0
        <3>. QED
            BY <3>2, <2>b DEF IInv, ProducersInv, NoDeathInPublish
    <2>3. IsArmed(s) /\ ~IsPublished(s)
        BY <1>0, <2>a, <2>c, SegmentTypes DEF IInv, WordsInv
    <2>4. \A c \in Drainers : ~HeldBy(c, s)
        BY <1>0, <2>a, <2>c DEF IInv, DrainersInv, HeldBy
    <2>5. \A p \in Producers : ppc[p] \in {"stamp", "own"} => cur[p] # s
        BY <2>2, <1>0 DEF IInv, ClaimingInv
    <2>6. \A p \in Producers : ppc[p] \in WritePoints /\ Pid[p] \notin dead => cur[p] # s
        BY <2>2, <2>c, <1>0 DEF IInv, WritingInv
    <2> HIDE DEF s
    <2>7. \A t \in Nat : /\ Idle(t)' => Idle(t)
                         /\ BeingWritten(t)' => BeingWritten(t)
                         /\ IsPublished(t)' => IsPublished(t)
        <3>1. \A t \in Nat : Slot(t) \in Slots
            BY SlotEpoch
        <3>2. \A t \in Nat : Slot(t) = Slot(s) => ~Idle(t)' /\ ~BeingWritten(t)'
            BY <2>2, Words DEF Idle, BeingWritten
        <3>. QED
            BY <3>1, <3>2, <2>1, <2>2 DEF Idle, BeingWritten, IsPublished
    <2>8. ASSUME NEW t \in Nat, t = s
          PROVE  ~IsPublished(t)' /\ ~Idle(t)' /\ ~BeingWritten(t)'
        BY <2>8, <2>1, <2>2, <2>3, Words DEF IsPublished, Idle, BeingWritten
    <2>9. PICK t \in Nat : t = s
        BY <1>0 DEF s
    <2>10. /\ \A j \in Slots : /\ j # Slot(t) => owner'[j] = owner[j]
                               /\ owner'[j].lap = owner[j].lap
                               /\ committed'[j].lap = committed[j].lap
           /\ dseq[d] = t /\ t < head /\ IsArmed(t)
        BY <2>1, <2>2, <2>3, <2>9, <1>0 DEF s
    <2>. QED
        BY <2>1, <2>4, <2>5, <2>6, <2>7, <2>8, <2>9, <2>10, InHand
<1>. QED
    BY <1>1, <1>2

\* ReleaseCommitted and ReleaseOwner: a word of the block in hand is cleared.
LEMMA WordCleared ==
    ASSUME IInv,
           NEW d \in Drainers,
           dpc[d] \in {"rel_committed", "rel_owner"},
           \/ /\ dpc'[d] = "rel_owner"
              /\ committed' = [committed EXCEPT ![Slot(dseq[d])] = ZeroWord]
              /\ owner' = owner
           \/ /\ dpc'[d] = "rel_armed"
              /\ owner' = [owner EXCEPT ![Slot(dseq[d])] = ZeroWord]
              /\ committed' = committed,
           \A c \in Drainers : c # d => dpc'[c] = dpc[c],
           UNCHANGED <<head, armed, owner_pid, producer, dead, dhead, dseq, downer>>
    PROVE  ProducersInv' /\ LapsInv' /\ ClaimingInv' /\ WritingInv' /\ WordsInv'
             /\ DrainersInv'
<1>0. /\ ppc' = ppc /\ cur' = cur
      /\ dseq[d] \in Nat /\ Slot(dseq[d]) \in Slots
    BY SegmentTypes, SlotEpoch DEF producer, IInv
<1>1. \A t \in Nat : Slot(t) \in Slots /\ Epoch(t) \in Nat /\ Epoch(t) > 0
    BY SlotEpoch
<1>2. \A j \in Slots : /\ owner'[j] = owner[j] \/ owner'[j] = ZeroWord
                       /\ committed'[j] = committed[j] \/ committed'[j] = ZeroWord
    BY <1>0 DEF IInv, TypeOK, SegmentOK
<1>3. \A t \in Nat : /\ Idle(t)' => Idle(t)
                     /\ BeingWritten(t)' => BeingWritten(t)
                     /\ IsPublished(t)' => IsPublished(t)
                     /\ IsArmed(t)' <=> IsArmed(t)
    BY <1>1, <1>2, Words DEF Idle, BeingWritten, IsPublished, IsArmed
<1>4. \A t \in Nat : /\ owner[Slot(t)].lap < Epoch(t) => owner'[Slot(t)].lap < Epoch(t)
                     /\ committed[Slot(t)].lap < Epoch(t) => committed'[Slot(t)].lap < Epoch(t)
                     /\ BeingWritten(t) => BeingWritten(t)' \/ owner'[Slot(t)].lap < Epoch(t)
    BY <1>1, <1>2, Words DEF BeingWritten
<1>5. \A c \in Drainers : Draining(c)' <=> Draining(c)
    BY DEF Draining
<1>6. \A p \in Producers : ppc[p] \in {"stamp", "own"} \cup WritePoints => cur[p] \in Nat
    BY SegmentTypes DEF IInv, CallInv, WithBlock, WritePoints
<1>a. ProducersInv'
    BY DEF IInv, ProducersInv, IsArmed, producer
<1>b. LapsInv'
    <2>1. \A t \in head .. MaxHead : t \in Nat
        BY SegmentTypes, RingConstants DEF IInv
    <2>. QED
        BY <2>1, <1>4 DEF IInv, LapsInv
<1>c. ClaimingInv'
    BY <1>0, <1>4, <1>5, <1>6 DEF IInv, ClaimingInv, IsArmed, HeldBy
<1>d. WritingInv'
    <2>1. ASSUME NEW q \in Producers, ppc[q] \in WritePoints
          PROVE  /\ ~IsPublished(cur[q])'
                 /\ Pid[q] \notin dead =>
                       BeingWritten(cur[q])' \/ owner'[Slot(cur[q])].lap < Epoch(cur[q])
        <3>1. cur[q] \in Nat
            BY <2>1, <1>6
        <3>2. ~IsPublished(cur[q])'
            BY <3>1, <2>1, <1>0, <1>3 DEF IInv, WritingInv, IsPublished
        <3>3. ASSUME Pid[q] \notin dead
              PROVE  BeingWritten(cur[q])' \/ owner'[Slot(cur[q])].lap < Epoch(cur[q])
            BY <3>1, <3>3, <2>1, <1>0, <1>4 DEF IInv, WritingInv, BeingWritten
        <3>. QED
            BY <3>2, <3>3
    <2>. QED
        BY <2>1, <1>0, <1>5 DEF IInv, WritingInv, IsArmed, HeldBy
<1>e. WordsInv'
    <2> SUFFICES ASSUME NEW t \in 0 .. head - 1
                 PROVE  /\ Idle(t)' => IsArmed(t)'
                        /\ BeingWritten(t)' =>
                              /\ IsArmed(t)'
                              /\ \E q \in Producers :
                                    cur[q] = t /\ ppc[q] \in WritePoints \cup {"pub_owner"}
                        /\ IsPublished(t)' =>
                              /\ IsArmed(t)'
                              /\ ~Idle(t)'
                              /\ BeingWritten(t)' =>
                                    \E q \in Producers : cur[q] = t /\ ppc[q] = "pub_owner"
        BY <1>0 DEF WordsInv
    <2>. QED
        BY <1>3 DEF IInv, WordsInv
<1>f. DrainersInv'
    <2>1. ASSUME NEW c \in Drainers, Draining(c)
          PROVE  /\ IsArmed(dseq[c])'
                 /\ ~IsPublished(dseq[c])'
                 /\ ~Idle(dseq[c])'
                 /\ BeingWritten(dseq[c])' =>
                       /\ dpc'[c] # "rel_armed"
                       /\ \E p \in Producers : cur[p] = dseq[c] /\ ppc[p] = "pub_owner"
        <3>0. dseq[c] \in Nat /\ dseq' = dseq
            BY SegmentTypes DEF IInv
        <3>1. /\ IsArmed(dseq[c])'
              /\ ~IsPublished(dseq[c])' /\ ~Idle(dseq[c])'
              /\ BeingWritten(dseq[c])' => BeingWritten(dseq[c])
            BY <3>0, <2>1, <1>3 DEF IInv, DrainersInv, IsArmed, IsPublished, Idle, BeingWritten
        <3>2. dpc'[d] = "rel_armed" => ~BeingWritten(dseq[d])'
            <4>1. dpc'[d] = "rel_armed" => owner'[Slot(dseq[d])] = ZeroWord
                BY <1>0 DEF IInv, TypeOK, SegmentOK
            <4>2. ZeroWord # OwnerWord(Epoch(dseq[d]), "WRITING")
                BY <1>0, <1>1, Words
            <4>. QED
                BY <4>1, <4>2, <3>0 DEF BeingWritten
        <3>. QED
            BY <3>1, <3>2, <2>1 DEF IInv, DrainersInv
    <2>. QED
        BY <2>1, <1>0, <1>5 DEF IInv, DrainersInv, Draining
<1>. QED
    BY <1>a, <1>b, <1>c, <1>d, <1>e, <1>f

\* ReleaseArmed: the block in hand is armed for its next lap, and is nobody's.
LEMMA Arms ==
    ASSUME IInv, NEW d \in Drainers, ReleaseArmed(d)
    PROVE  ProducersInv' /\ LapsInv' /\ ClaimingInv' /\ WritingInv' /\ WordsInv'
             /\ DrainersInv'
<1> DEFINE s == dseq[d]
           i == Slot(s)
           e == Epoch(s)
<1>0. /\ dpc[d] = "rel_armed" /\ dpc'[d] = "rel_mark"
      /\ armed' = [armed EXCEPT ![i] = e + 1]
      /\ \A c \in Drainers : c # d => dpc'[c] = dpc[c]
      /\ UNCHANGED <<head, committed, owner, owner_pid, ppc, seen, cur, dead, dhead, dseq, downer>>
    BY DEF ReleaseArmed, DAt, producer, IInv, TypeOK, DrainerOK
<1>1. /\ s \in Nat /\ s < head /\ i \in Slots /\ e \in Nat
      /\ IsArmed(s) /\ ~IsPublished(s) /\ ~Idle(s) /\ ~BeingWritten(s) /\ HeldBy(d, s)
    BY <1>0, SegmentTypes, SlotEpoch DEF IInv, DrainersInv, Draining, HeldBy
<1>2. /\ armed[i] = e
      /\ armed'[i] = e + 1
      /\ \A j \in Slots : j # i => armed'[j] = armed[j]
      /\ \A j \in Slots : armed'[j] >= armed[j] /\ armed[j] \in Nat /\ armed'[j] \in Nat
    BY <1>0, <1>1, SegmentTypes DEF IInv, TypeOK, SegmentOK, IsArmed
<1>3. \A t \in Nat : Slot(t) \in Slots /\ Epoch(t) \in Nat
    BY SlotEpoch
<1>4. \A t \in Nat : IsArmed(t) /\ t # s => Slot(t) # i
    BY <1>1, OneArmed
<1>5. \A t \in Nat : t >= head /\ Slot(t) = i => e + 1 <= Epoch(t)
    BY <1>1, <1>3, SlotEpoch, SegmentTypes DEF IInv
<1>6. \A t \in Nat : t < head => Epoch(t) <= armed[Slot(t)]
    BY SegmentTypes DEF IInv, LapsInv
<1> HIDE DEF s, i, e
<1>7. \A t \in Nat : IsArmed(t) /\ t # s => IsArmed(t)'
    BY <1>2, <1>3, <1>4 DEF IsArmed
<1>8. \A t \in Nat : t < head /\ IsArmed(t)' => IsArmed(t)
    <2> SUFFICES ASSUME NEW t \in Nat, t < head, armed'[Slot(t)] = Epoch(t)
                 PROVE  armed[Slot(t)] = Epoch(t)
        BY DEF IsArmed
    <2>1. CASE Slot(t) = i
        BY <2>1, <1>1, <1>2, <1>6
    <2>2. CASE Slot(t) # i
        BY <2>2, <1>2, <1>3
    <2>. QED
        BY <2>1, <2>2
<1>9. \A c \in Drainers : Draining(c)' <=> Draining(c) /\ c # d
    BY <1>0 DEF Draining
<1>a. ProducersInv'
    <2>1. ASSUME NEW p \in Producers, ppc[p] = "cas_head"
          PROVE  armed'[Slot(seen[p])] >= Epoch(seen[p])
        <3>1. seen[p] \in Nat /\ armed[Slot(seen[p])] >= Epoch(seen[p])
            BY <2>1, SegmentTypes DEF IInv, ProducersInv
        <3>. QED
            BY <3>1, <1>2, <1>3
    <2>2. ASSUME NEW p \in Producers, cur[p] # NoBlock, IsArmed(cur[p])'
          PROVE  IsArmed(cur[p])
        <3>1. cur[p] \in Nat /\ cur[p] < head /\ cur' = cur
            BY <2>2, <1>0, SegmentTypes DEF IInv, ProducersInv
        <3>. QED
            BY <3>1, <2>2, <1>8 DEF IsArmed
    <2>. QED
        BY <2>1, <2>2, <1>0 DEF IInv, ProducersInv
<1>b. LapsInv'
    <2>1. ASSUME NEW t \in 0 .. head - 1
          PROVE  armed'[Slot(t)] >= Epoch(t)
        <3>1. t \in Nat /\ t < head
            BY SegmentTypes DEF IInv
        <3>. QED
            BY <3>1, <1>2, <1>3, <1>6
    <2>2. ASSUME NEW t \in head .. MaxHead
          PROVE  armed'[Slot(t)] <= Epoch(t)
        <3>1. t \in Nat /\ t >= head
            BY SegmentTypes, RingConstants DEF IInv
        <3>2. CASE Slot(t) = i
            BY <3>1, <3>2, <1>2, <1>5
        <3>3. CASE Slot(t) # i
            BY <3>1, <3>3, <1>2, <1>3 DEF IInv, LapsInv
        <3>. QED
            BY <3>2, <3>3
    <2>. QED
        BY <2>1, <2>2, <1>0 DEF IInv, LapsInv
<1>c. ClaimingInv'
    <2>1. ASSUME NEW p \in Producers, ppc[p] \in {"stamp", "own"}
          PROVE  IsArmed(cur[p])'
        <3>1. cur[p] \in Nat /\ IsArmed(cur[p]) /\ cur[p] # s /\ cur' = cur
            BY <2>1, <1>0, <1>1, SegmentTypes DEF IInv, ClaimingInv, CallInv, WithBlock
        <3>. QED
            BY <3>1, <1>7 DEF IsArmed
    <2>. QED
        BY <2>1, <1>0, <1>9 DEF IInv, ClaimingInv, HeldBy
<1>d. WritingInv'
    <2>1. ASSUME NEW p \in Producers, ppc[p] \in WritePoints, Pid[p] \notin dead
          PROVE  IsArmed(cur[p])'
        <3>1. cur[p] \in Nat /\ IsArmed(cur[p]) /\ cur[p] # s /\ cur' = cur
            BY <2>1, <1>0, <1>1, SegmentTypes DEF IInv, WritingInv, CallInv, WithBlock, WritePoints
        <3>. QED
            BY <3>1, <1>7 DEF IsArmed
    <2>. QED
        BY <2>1, <1>0, <1>9 DEF IInv, WritingInv, IsPublished, BeingWritten, HeldBy
<1>e. WordsInv'
    <2>1. ASSUME NEW t \in 0 .. head - 1, Idle(t) \/ BeingWritten(t) \/ IsPublished(t)
          PROVE  IsArmed(t)'
        <3>1. t \in Nat /\ IsArmed(t) /\ t # s
            BY <2>1, <1>1 DEF IInv, WordsInv
        <3>. QED
            BY <3>1, <1>7
    <2>. QED
        BY <2>1, <1>0 DEF IInv, WordsInv, Idle, BeingWritten, IsPublished
<1>f. DrainersInv'
    <2>1. ASSUME NEW c \in Drainers, Draining(c), c # d
          PROVE  IsArmed(dseq[c])'
        <3>1. dseq[c] \in Nat /\ IsArmed(dseq[c]) /\ dseq[c] # s /\ dseq' = dseq
            BY <2>1, <1>0, <1>1, SegmentTypes DEF s, IInv, DrainersInv, HeldBy
        <3>. QED
            BY <3>1, <1>7 DEF IsArmed
    <2>. QED
        BY <2>1, <1>0, <1>9 DEF IInv, DrainersInv, Idle, BeingWritten, IsPublished
<1>. QED
    BY <1>a, <1>b, <1>c, <1>d, <1>e, <1>f

\* Every step keeps the whole invariant.
LEMMA Inductive ==
    ASSUME NoDeathInPublish, IInv, [Next]_vars
    PROVE  IInv'
<1> DEFINE Rest == ProducersInv /\ LapsInv /\ ClaimingInv /\ WritingInv /\ WordsInv
                     /\ DrainersInv
<1>0. TypeOK' /\ CallInv'
    BY CallStepInv DEF IInv
<1>p. ppc \in [Producers -> ProducerPoints] /\ seen \in [Producers -> Nat]
        /\ cur \in [Producers -> Nat \cup {NoBlock}]
    BY DEF IInv, TypeOK, ProducerOK
<1>d. /\ dpc \in [Drainers -> DrainerPoints] /\ dhead \in [Drainers -> Nat]
      /\ dseq \in [Drainers -> Nat] /\ downer \in [Drainers -> Owners]
      /\ \A d \in Drainers : dhead[d] <= head
      /\ head \in Nat
    BY DEF IInv, TypeOK, DrainerOK, SegmentOK, DrainersInv
<1>1. ASSUME NEW p \in Producers, TryReserve(p) \/ Flush(p)
      PROVE  Rest'
    <2>1. /\ UNCHANGED <<head, armed, committed, owner, owner_pid, dead, drainer, seen, cur>>
          /\ ppc[p] = "idle" /\ Pid[p] \notin dead
          /\ ppc'[p] \in {"load_head", "pub_cas", "begin"}
          /\ \A q \in Producers : q # p => ppc'[q] = ppc[q]
        BY <1>1, <1>p DEF TryReserve, Flush, At, segment
    <2>. QED
        BY <2>1, ProducerLocal DEF WritePoints
<1>2. ASSUME NEW p \in Producers, PublishBegin(p) \/ BeginWrite(p)
      PROVE  Rest'
    <2>1. /\ ppc[p] \in {"begin", "pub_cas"} /\ Pid[p] \notin dead
          /\ ppc'[p] \in {"header", "pub_commit"}
          /\ \A q \in Producers : q # p => ppc'[q] = ppc[q]
        BY <1>2, <1>p DEF PublishBegin, BeginWrite, At
    <2>2. /\ Idle(cur[p])
          /\ owner' = [owner EXCEPT ![MySlot(p)] = OwnerWord(MyEpoch(p), "WRITING")]
          /\ UNCHANGED <<head, armed, committed, owner_pid, seen, cur, dead, drainer>>
        BY <1>2 DEF PublishBegin, BeginWrite, Idle, MySlot, MyEpoch
    <2>. QED
        BY <2>1, <2>2, WriteBegins
<1>3. ASSUME NEW p \in Producers, PublishTaken(p) \/ BeginTaken(p)
      PROVE  Rest'
    <2>1. /\ UNCHANGED <<head, armed, committed, owner, owner_pid, dead, drainer, seen>>
          /\ ppc[p] \in {"pub_cas", "begin"} /\ Pid[p] \notin dead
          /\ ppc'[p] \in {"load_head", "idle"}
          /\ cur'[p] = NoBlock
          /\ \A q \in Producers : q # p => ppc'[q] = ppc[q] /\ cur'[q] = cur[q]
        BY <1>3, <1>p DEF PublishTaken, BeginTaken, AfterPublish, Drop, At, segment
    <2>. QED
        BY <2>1, ProducerLocal DEF WritePoints
<1>4. ASSUME NEW p \in Producers, PublishCommit(p)
      PROVE  Rest'
    BY <1>4, PublishCommits
<1>5. ASSUME NEW p \in Producers, PublishOwner(p)
      PROVE  Rest'
    BY <1>5, PublishOwns
<1>6. ASSUME NEW p \in Producers,
             ClaimLoadHead(p) \/ ClaimArmed(p) \/ ClaimNotArmed(p) \/ ClaimLost(p)
      PROVE  Rest'
    <2>1. /\ UNCHANGED <<head, armed, committed, owner, owner_pid, dead, drainer, cur>>
          /\ ppc[p] \in {"load_head", "load_armed", "cas_head"} /\ Pid[p] \notin dead
          /\ ppc'[p] \in {"load_armed", "cas_head", "idle"}
          /\ \A q \in Producers : q # p => ppc'[q] = ppc[q] /\ seen'[q] = seen[q]
        BY <1>6, <1>p DEF ClaimLoadHead, ClaimArmed, ClaimNotArmed, ClaimLost, At, segment
    <2>2. ppc'[p] = "cas_head" => armed[Slot(seen'[p])] >= Epoch(seen'[p])
        <3>1. ppc'[p] = "cas_head" => seen' = seen /\ armed[Slot(seen[p])] = Epoch(seen[p])
            BY <1>6, <1>p DEF ClaimLoadHead, ClaimArmed, ClaimNotArmed, ClaimLost, At
        <3>2. Epoch(seen[p]) \in Nat
            BY <1>p, SlotEpoch
        <3>. QED
            BY <3>1, <3>2
    <2>. QED
        BY <2>1, <2>2, ProducerLocal DEF WritePoints
<1>7. ASSUME NEW p \in Producers, ClaimHead(p)
      PROVE  Rest'
    BY <1>7, ClaimHeads
<1>8. ASSUME NEW p \in Producers, ClaimStamp(p)
      PROVE  Rest'
    BY <1>8, ClaimStamps
<1>9. ASSUME NEW p \in Producers, ClaimOwn(p) \/ EndWrite(p)
      PROVE  Rest'
    <2>1. /\ ppc[p] \in {"own", "end_write"} /\ Pid[p] \notin dead
          /\ ppc'[p] \in {"begin", "idle"}
          /\ \A q \in Producers : q # p => ppc'[q] = ppc[q]
          /\ owner' = [owner EXCEPT ![MySlot(p)] = OwnerWord(MyEpoch(p), "IDLE")]
          /\ UNCHANGED <<head, armed, committed, owner_pid, seen, cur, dead, drainer>>
        BY <1>9, <1>p DEF ClaimOwn, EndWrite, At
    <2>. QED
        BY <2>1, OwnerIdles
<1>10. ASSUME NEW p \in Producers, WriteHeader(p) \/ Commit(p)
       PROVE  Rest'
    <2>1. /\ UNCHANGED <<head, armed, committed, owner, owner_pid, dead, drainer, seen, cur>>
          /\ ppc[p] \in {"header", "commit"} /\ Pid[p] \notin dead
          /\ ppc'[p] \in {"commit", "end_write"}
          /\ \A q \in Producers : q # p => ppc'[q] = ppc[q]
        BY <1>10, <1>p DEF WriteHeader, Commit, At
    <2>. QED
        BY <2>1, ProducerLocal DEF WritePoints
<1>11. ASSUME NEW k \in Pids, Die(k)
       PROVE  Rest'
    BY <1>11, Dies
<1>12. ASSUME NEW d \in Drainers,
              \/ ScanStart(d) \/ AdvanceLoad(d) \/ AdvanceArmed(d) \/ AdvanceWords(d)
              \/ ScanEnd(d) \/ TakePass(d) \/ ReleaseMark(d) \/ ReleaseLoadTail(d)
              \/ ReleaseTail(d) \/ ReleaseEnd(d)
       PROVE  Rest'
    <2>1. UNCHANGED <<head, armed, committed, owner, owner_pid, dead, producer>>
        BY <1>12 DEF ScanStart, AdvanceLoad, AdvanceArmed, AdvanceWords, ScanEnd, TakePass,
                     ReleaseMark, ReleaseLoadTail, ReleaseTail, ReleaseEnd, segment
    <2>2. /\ dpc'[d] \in {"load_next", "advance", "advance_words", "scan", "idle",
                          "rel_load_tail", "rel_tail"}
          /\ \A c \in Drainers : c # d => dpc'[c] = dpc[c]
        BY <1>12, <1>d DEF ScanStart, AdvanceLoad, AdvanceArmed, AdvanceWords, ScanEnd, TakePass,
                     ReleaseMark, ReleaseLoadTail, ReleaseTail, ReleaseEnd, DAt
    <2>3. /\ \A c \in Drainers : c # d => dhead'[c] = dhead[c]
          /\ dhead'[d] <= head
        BY <1>12, <1>d DEF ScanStart, AdvanceLoad, AdvanceArmed, AdvanceWords, ScanEnd, TakePass,
                     ReleaseMark, ReleaseLoadTail, ReleaseTail, ReleaseEnd, Forget
    <2>4. \A c \in Drainers : c # d => dseq'[c] = dseq[c]
        BY <1>12, <1>d DEF ScanStart, AdvanceLoad, AdvanceArmed, AdvanceWords, ScanEnd, TakePass,
                     ReleaseMark, ReleaseLoadTail, ReleaseTail, ReleaseEnd, Forget, MoveNext
    <2>5. \A c \in Drainers : c # d => downer'[c] = downer[c]
        BY <1>12, <1>d DEF ScanStart, AdvanceLoad, AdvanceArmed, AdvanceWords, ScanEnd, TakePass,
                     ReleaseMark, ReleaseLoadTail, ReleaseTail, ReleaseEnd, Forget
    <2>6. ~Draining(d)'
        BY <2>2 DEF Draining
    <2>. QED
        BY DrainerLocal, <2>1, <2>2, <2>3, <2>4, <2>6, <2>5
<1>13. ASSUME NEW d \in Drainers, TakeLook(d)
       PROVE  Rest'
    BY <1>13, TakeLooks
<1>14. ASSUME NEW d \in Drainers, ScanClaim(d)
       PROVE  Rest'
    BY <1>14, ScanClaims
<1>15. ASSUME NEW d \in Drainers, TakeCas(d)
       PROVE  Rest'
    BY <1>15, TakeCases
<1>16. ASSUME NEW d \in Drainers, Drain(d) \/ ReleaseClaimNs(d)
       PROVE  Rest'
    <2>1. UNCHANGED <<head, armed, committed, owner, owner_pid, dead, producer, dseq, downer>>
        BY <1>16 DEF Drain, ReleaseClaimNs, segment
    <2>2. /\ dpc[d] \in {"drain", "rel_claim_ns"}
          /\ dpc'[d] \in {"rel_claim_ns", "rel_committed"}
          /\ \A c \in Drainers : c # d => dpc'[c] = dpc[c] /\ dhead'[c] = dhead[c]
          /\ dhead'[d] <= head
        BY <1>16, <1>d DEF Drain, ReleaseClaimNs, DAt
    <2>3. Draining(d)
        BY <2>2 DEF Draining
    <2>. QED
        BY <2>1, <2>2, <2>3, DrainerLocal
<1>17. ASSUME NEW d \in Drainers, ReleaseCommitted(d) \/ ReleaseOwner(d)
       PROVE  Rest'
    <2>1. /\ dpc[d] \in {"rel_committed", "rel_owner"}
          /\ \/ /\ dpc'[d] = "rel_owner"
                /\ committed' = [committed EXCEPT ![Slot(dseq[d])] = ZeroWord]
                /\ owner' = owner
             \/ /\ dpc'[d] = "rel_armed"
                /\ owner' = [owner EXCEPT ![Slot(dseq[d])] = ZeroWord]
                /\ committed' = committed
          /\ \A c \in Drainers : c # d => dpc'[c] = dpc[c]
          /\ UNCHANGED <<head, armed, owner_pid, producer, dead, dhead, dseq, downer>>
        BY <1>17, <1>d DEF ReleaseCommitted, ReleaseOwner, DAt
    <2>. QED
        BY <2>1, WordCleared
<1>18. ASSUME NEW d \in Drainers, ReleaseArmed(d)
       PROVE  Rest'
    BY <1>18, Arms
<1>19. ASSUME UNCHANGED vars
       PROVE  Rest'
    <2>1. UNCHANGED <<head, armed, committed, owner, owner_pid, ppc, seen, cur, dead,
                      dpc, dhead, dseq, downer>>
        BY <1>19 DEF vars, segment, producer, drainer
    <2>2. ProducersInv' /\ LapsInv'
        BY <2>1 DEF IInv, ProducersInv, LapsInv, IsArmed
    <2>3. ClaimingInv' /\ WritingInv'
        BY <2>1 DEF IInv, ClaimingInv, WritingInv, IsArmed, IsPublished, BeingWritten, HeldBy,
                    Draining
    <2>4. WordsInv' /\ DrainersInv'
        BY <2>1 DEF IInv, WordsInv, DrainersInv, Idle, IsArmed, IsPublished, BeingWritten,
                    Draining
    <2>. QED
        BY <2>2, <2>3, <2>4
<1> HIDE DEF Rest
<1>20. ASSUME NEW p \in Producers, ProducerStep(p)
       PROVE  Rest'
    BY <1>20, <1>1, <1>2, <1>3, <1>4, <1>5, <1>6, <1>7, <1>8, <1>9, <1>10 DEF ProducerStep
<1>21. ASSUME NEW d \in Drainers, DrainerStep(d)
       PROVE  Rest'
    BY <1>21, <1>12, <1>13, <1>14, <1>15, <1>16, <1>17, <1>18 DEF DrainerStep
<1>22. Rest'
    BY <1>20, <1>21, <1>11, <1>19 DEF Next
<1>. QED
    BY <1>0, <1>22 DEF IInv, Rest

\* The formatted segment satisfies the invariant.
LEMMA InitInv == Init => IInv
<1> SUFFICES ASSUME Init PROVE IInv
    OBVIOUS
<1>1. TypeOK /\ CallInv
    BY InitTypes
<1>2. ProducersInv /\ ClaimingInv /\ WritingInv
    BY DEF Init, ProducersInv, ClaimingInv, WritingInv, WritePoints, NoBlock
<1>3. WordsInv /\ DrainersInv
    BY DEF Init, WordsInv, DrainersInv, Draining
<1>4. LapsInv
    <2>1. ASSUME NEW t \in Nat
          PROVE  /\ Slot(t) \in Slots /\ Slot(t) \in Nat
                 /\ Epoch(t) >= 1 /\ Epoch(t) \in Nat
                 /\ Epoch(Slot(t)) <= Epoch(t)
        <3>1. Slot(t) \in Slots /\ Slot(t) \in Nat /\ Epoch(t) \in Nat /\ Epoch(t) >= 1
            BY SlotEpoch, RingConstants DEF Slots
        <3>2. Epoch(Slot(t)) = 1
            BY <3>1, RingConstants, Z3 DEF Slots, Epoch
        <3>. QED
            BY <3>1, <3>2
    <2>2. head = 0 /\ MaxHead \in Nat
        BY RingConstants DEF Init
    <2>3. ASSUME NEW i \in Slots
          PROVE  armed[i] = Epoch(i) /\ owner[i].lap = 0 /\ committed[i].lap = 0
        BY <2>3, Words DEF Init
    <2>4. \A s \in 0 .. head - 1 : armed[Slot(s)] >= Epoch(s)
        BY <2>2
    <2>5. ASSUME NEW s \in head .. MaxHead
          PROVE  /\ armed[Slot(s)] <= Epoch(s)
                 /\ owner[Slot(s)].lap < Epoch(s)
                 /\ committed[Slot(s)].lap < Epoch(s)
        <3>1. s \in Nat
            BY <2>2
        <3>2. /\ Slot(s) \in Slots
              /\ Epoch(s) >= 1 /\ Epoch(s) \in Nat
              /\ Epoch(Slot(s)) <= Epoch(s)
            BY <3>1, <2>1
        <3>. QED
            BY <3>2, <2>3
    <2>. QED
        BY <2>4, <2>5 DEF LapsInv
<1>. QED
    BY <1>1, <1>2, <1>3, <1>4 DEF IInv

\* The invariant excludes two threads in one block.
LEMMA InvExcludes == IInv => Exclusive
<1> SUFFICES ASSUME IInv PROVE Exclusive
    OBVIOUS
<1>1. ASSUME NEW p \in Producers, Writing(p)
      PROVE  cur[p] \in Nat /\ IsArmed(cur[p]) /\ \A d \in Drainers : ~HeldBy(d, cur[p])
    BY <1>1, SegmentTypes
    DEF Writing, IInv, WritingInv, WritePoints, CallInv, WithBlock
<1>2. ASSUME NEW d \in Drainers, Draining(d)
      PROVE  dseq[d] \in Nat /\ IsArmed(dseq[d]) /\ HeldBy(d, dseq[d])
    BY <1>2, SegmentTypes DEF IInv, DrainersInv, HeldBy
<1>3. ASSUME NEW p \in Producers, NEW q \in Producers, p # q, Writing(p), Writing(q)
      PROVE  MySlot(p) # MySlot(q)
    <2>1. cur[p] # cur[q]
        BY <1>1, <1>3 DEF IInv, ProducersInv, NoBlock
    <2>. QED
        BY <2>1, <1>1, <1>3, OneArmed DEF MySlot
<1>4. ASSUME NEW p \in Producers, NEW d \in Drainers, Writing(p), Draining(d)
      PROVE  MySlot(p) # Slot(dseq[d])
    BY <1>1, <1>2, <1>4, OneArmed DEF MySlot
<1>5. ASSUME NEW c \in Drainers, NEW d \in Drainers, c # d, Draining(c), Draining(d)
      PROVE  Slot(dseq[c]) # Slot(dseq[d])
    <2>1. dseq[c] # dseq[d]
        BY <1>5 DEF IInv, DrainersInv
    <2>. QED
        BY <2>1, <1>2, <1>5, OneArmed
<1>. QED
    BY <1>3, <1>4, <1>5 DEF Exclusive

\* The invariant behind the exclusion holds throughout: the words of a block
\* (owner, committed, armed) tell the truth about who has it, on every lap.
THEOREM InvAlways == ASSUME NoDeathInPublish PROVE Spec => []IInv
<1>1. Init => IInv
    BY InitInv
<1>2. IInv /\ [Next]_vars => IInv'
    BY Inductive
<1>. QED
    BY PTL, <1>2, <1>1 DEF Spec

\* As long as no process is killed between the two stores of publish(), a block
\* of the ring is never in two hands: not written by two producers, not drained
\* by two threads, not drained while it is written -- for any number of
\* producers, drain threads and blocks, wherever else processes are killed.
THEOREM Exclusion == ASSUME NoDeathInPublish PROVE Spec => []Exclusive
<1>1. IInv => Exclusive
    BY InvExcludes
<1>. QED
    BY InvAlways, <1>1, PTL

----------------------------------------------------------------------------
(* The life of a block: claimed, drained and released once, in order.      *)

\* One lap later a slot's block has the next epoch.
LEMMA NextLap ==
    \A t \in Nat : /\ t + BlockCount \in Nat
                   /\ Slot(t + BlockCount) = Slot(t)
                   /\ Epoch(t + BlockCount) = Epoch(t) + 1
<1> SUFFICES ASSUME NEW t \in Nat
             PROVE  /\ t + BlockCount \in Nat
                    /\ (t + BlockCount) % BlockCount = t % BlockCount
                    /\ (t + BlockCount) \div BlockCount = (t \div BlockCount) + 1
    BY DEF Slot, Epoch
<1>1. BlockCount \in Nat /\ BlockCount > 0
    BY RingConstants
<1> DEFINE a == t \div BlockCount
           r == t % BlockCount
           b == (t + BlockCount) \div BlockCount
           u == (t + BlockCount) % BlockCount
<1>2. /\ a \in Nat /\ r \in 0 .. BlockCount - 1 /\ t = BlockCount * a + r
      /\ b \in Nat /\ u \in 0 .. BlockCount - 1 /\ t + BlockCount = BlockCount * b + u
    BY <1>1, Z3
<1> HIDE DEF a, b, r, u
<1>3. BlockCount * b + u = BlockCount * (a + 1) + r
    BY <1>1, <1>2
<1>4. b = a + 1
    <2>1. ~(b < a + 1)
        <3>1. b < a + 1 => BlockCount * (b + 1) <= BlockCount * (a + 1)
            BY <1>1, <1>2
        <3>. QED
            BY <3>1, <1>1, <1>2, <1>3
    <2>2. ~(a + 1 < b)
        <3>1. a + 1 < b => BlockCount * (a + 2) <= BlockCount * b
            BY <1>1, <1>2
        <3>. QED
            BY <3>1, <1>1, <1>2, <1>3
    <2>. QED
        BY <2>1, <2>2, <1>2
<1>. QED
    BY <1>1, <1>2, <1>3, <1>4 DEF a, b, r, u

\* A step that moves no block.
Quiet ==
    /\ UNCHANGED <<head, armed>>
    /\ \A d \in Drainers : /\ Draining(d)' <=> Draining(d)
                           /\ Draining(d) => dseq'[d] = dseq[d]
    /\ \A s \in 0 .. head - 1 : /\ IsPublished(s)' <=> IsPublished(s)
                                /\ IsClaimed(s)' => IsClaimed(s)
                                /\ DoneWords(s)' => DoneWords(s)

\* The winning CAS of claim and of take_over.
ClaimWins(d) == ScanClaim(d) /\ IsPublished(dseq[d])
TakeWins(d)  == TakeCas(d) /\ owner[Slot(dseq[d])] = downer[d]

\* Every step moves a block in one of five ways, or none.
LEMMA Moves ==
    ASSUME IInv, [Next]_vars
    PROVE  \/ Quiet
           \/ \E p \in Producers : ClaimHead(p) \/ PublishCommit(p)
           \/ \E d \in Drainers : ClaimWins(d) \/ TakeWins(d) \/ ReleaseArmed(d)
<1>t. /\ head \in Nat
      /\ committed \in [Slots -> Commits] /\ owner \in [Slots -> Owners]
      /\ dpc \in [Drainers -> DrainerPoints] /\ dseq \in [Drainers -> Nat]
    BY DEF IInv, TypeOK, SegmentOK, DrainerOK
<1>n. \A s \in 0 .. head - 1 : s \in Nat
    BY <1>t
<1>0. /\ \A s \in 0 .. head - 1 : s \in Nat /\ Slot(s) \in Slots /\ Epoch(s) \in Nat /\ Epoch(s) > 0
      /\ committed \in [Slots -> Commits] /\ owner \in [Slots -> Owners]
      /\ dpc \in [Drainers -> DrainerPoints] /\ dseq \in [Drainers -> Nat]
    BY SlotEpoch, <1>t, <1>n
<1>1. ASSUME UNCHANGED <<head, armed, committed, dpc, dseq>>,
             \/ owner' = owner
             \/ \E i \in Slots : \E e \in Nat : \E st \in {"IDLE", "WRITING", "PUBLISHED"} :
                   owner' = [owner EXCEPT ![i] = OwnerWord(e, st)]
      PROVE  Quiet
    <2>1. \A s \in 0 .. head - 1 : owner'[Slot(s)] = OwnerWord(Epoch(s), "TAKEN") =>
                                   owner[Slot(s)] = OwnerWord(Epoch(s), "TAKEN")
        BY <1>0, <1>1, Words
    <2>. QED
        BY <1>1, <2>1 DEF Quiet, Draining, IsPublished, IsClaimed, DoneWords
<1>2. ASSUME NEW p \in Producers, ProducerStep(p), ~ClaimHead(p), ~PublishCommit(p)
      PROVE  Quiet
    <2>1. cur[p] # NoBlock => MySlot(p) \in Slots /\ MyEpoch(p) \in Nat
        BY MyBlock DEF IInv, TypeOK
    <2>2. ppc[p] \in WithBlock => cur[p] # NoBlock
        BY DEF IInv, CallInv
    <2>3. UNCHANGED <<head, armed, committed, dpc, dseq>>
        BY <1>2 DEF ProducerStep, TryReserve, Flush, PublishBegin, PublishTaken, PublishOwner,
            ClaimLoadHead, ClaimArmed, ClaimNotArmed, ClaimLost, ClaimStamp, ClaimOwn, BeginWrite,
            BeginTaken, WriteHeader, Commit, EndWrite, segment, drainer
    <2>4. \/ owner' = owner
          \/ /\ ppc[p] \in WithBlock
             /\ \E st \in {"IDLE", "WRITING", "PUBLISHED"} :
                   owner' = [owner EXCEPT ![MySlot(p)] = OwnerWord(MyEpoch(p), st)]
        BY <1>2 DEF ProducerStep, TryReserve, Flush, PublishBegin, PublishTaken, PublishOwner,
            ClaimLoadHead, ClaimArmed, ClaimNotArmed, ClaimLost, ClaimStamp, ClaimOwn, BeginWrite,
            BeginTaken, WriteHeader, Commit, EndWrite, segment, At, WithBlock
    <2>. QED
        BY <2>1, <2>2, <2>3, <2>4, <1>1
<1>3. ASSUME NEW q \in Pids, Die(q)
      PROVE  Quiet
    BY <1>3, <1>1 DEF Die, segment, drainer
<1>4. ASSUME UNCHANGED vars
      PROVE  Quiet
    BY <1>4, <1>1 DEF vars, segment, drainer
<1>5. ASSUME NEW d \in Drainers, DrainerStep(d),
             ~ClaimWins(d), ~TakeWins(d), ~ReleaseArmed(d)
      PROVE  Quiet
    <2>1. CASE ScanStart(d) \/ AdvanceLoad(d) \/ AdvanceArmed(d) \/ AdvanceWords(d) \/ ScanEnd(d)
               \/ TakeLook(d) \/ TakePass(d)
        <3>1. UNCHANGED <<head, armed, committed, owner>>
            BY <2>1 DEF ScanStart, AdvanceLoad, AdvanceArmed, AdvanceWords, ScanEnd, TakeLook,
                        TakePass, segment
        <3>2. /\ \A c \in Drainers : c # d => dpc'[c] = dpc[c] /\ dseq'[c] = dseq[c]
              /\ ~Draining(d) /\ ~Draining(d)'
            BY <2>1, <1>0 DEF ScanStart, AdvanceLoad, AdvanceArmed, AdvanceWords, ScanEnd, TakeLook,
                        TakePass, MoveNext, Forget, DAt, Draining
        <3>. QED
            BY <3>1, <3>2 DEF Quiet, Draining, IsPublished, IsClaimed, DoneWords
    <2>2. CASE ScanClaim(d) \/ TakeCas(d)
        <3>1. UNCHANGED <<head, armed, committed, owner>>
            BY <2>2, <1>5 DEF ClaimWins, TakeWins, ScanClaim, TakeCas, IsPublished
        <3>2. /\ \A c \in Drainers : c # d => dpc'[c] = dpc[c] /\ dseq'[c] = dseq[c]
              /\ ~Draining(d) /\ ~Draining(d)'
            BY <2>2, <1>5, <1>0 DEF ClaimWins, TakeWins, ScanClaim, TakeCas, IsPublished, DAt, Draining
        <3>. QED
            BY <3>1, <3>2 DEF Quiet, Draining, IsPublished, IsClaimed, DoneWords
    <2>3. CASE Drain(d) \/ ReleaseClaimNs(d) \/ ReleaseMark(d) \/ ReleaseLoadTail(d)
               \/ ReleaseTail(d) \/ ReleaseEnd(d)
        <3>1. UNCHANGED <<head, armed, committed, owner>>
            BY <2>3 DEF Drain, ReleaseClaimNs, ReleaseMark, ReleaseLoadTail, ReleaseTail, ReleaseEnd,
                        segment
        <3>2. /\ \A c \in Drainers : c # d => dpc'[c] = dpc[c] /\ dseq'[c] = dseq[c]
              /\ Draining(d)' <=> Draining(d)
              /\ Draining(d) => dseq'[d] = dseq[d]
            BY <2>3, <1>0 DEF Drain, ReleaseClaimNs, ReleaseMark, ReleaseLoadTail, ReleaseTail,
                        ReleaseEnd, Forget, DAt, Draining
        <3>. QED
            BY <3>1, <3>2 DEF Quiet, Draining, IsPublished, IsClaimed, DoneWords
    <2>4. CASE ReleaseCommitted(d) \/ ReleaseOwner(d)
        <3>1. /\ UNCHANGED <<head, armed, dseq>>
              /\ \/ owner' = owner /\ committed' = [committed EXCEPT ![Slot(dseq[d])] = ZeroWord]
                 \/ committed' = committed /\ owner' = [owner EXCEPT ![Slot(dseq[d])] = ZeroWord]
            BY <2>4 DEF ReleaseCommitted, ReleaseOwner
        <3>2. /\ \A c \in Drainers : c # d => dpc'[c] = dpc[c]
              /\ Draining(d)' /\ Draining(d)
            BY <2>4, <1>0 DEF ReleaseCommitted, ReleaseOwner, DAt, Draining
        <3>3. dseq[d] \in Nat /\ Slot(dseq[d]) \in Slots /\ IsArmed(dseq[d]) /\ ~IsPublished(dseq[d])
            BY <3>2, <1>0, SlotEpoch DEF IInv, DrainersInv
        <3>4. ASSUME NEW s \in 0 .. head - 1
              PROVE  /\ IsPublished(s)' <=> IsPublished(s)
                     /\ IsClaimed(s)' => IsClaimed(s)
                     /\ DoneWords(s)' => DoneWords(s)
            <4>1. CASE Slot(s) # Slot(dseq[d])
                BY <4>1, <3>1, <3>3, <1>0 DEF IsPublished, IsClaimed, DoneWords
            <4>2. CASE Slot(s) = Slot(dseq[d])
                <5>1. ~IsPublished(s)
                    <6>1. IsPublished(s) => IsArmed(s)
                        BY DEF IInv, WordsInv
                    <6>. QED
                        BY <6>1, <4>2, <3>3, <1>0, OneArmed
                <5>2. \/ committed'[Slot(s)] = ZeroWord /\ owner'[Slot(s)] = owner[Slot(s)]
                      \/ committed'[Slot(s)] = committed[Slot(s)] /\ owner'[Slot(s)] = ZeroWord
                    BY <3>1, <4>2, <1>0
                <5>3. Epoch(s) # 0
                    BY <1>0
                <5>4. ZeroWord # Published(Epoch(s)) /\ ZeroWord # Claimed(Epoch(s))
                        /\ ZeroWord # OwnerWord(Epoch(s), "TAKEN")
                    BY <5>3, Words
                <5>. QED
                    BY <5>1, <5>2, <5>4 DEF IsPublished, IsClaimed, DoneWords
            <4>. QED
                BY <4>1, <4>2
        <3>. QED
            BY <3>1, <3>2, <3>4 DEF Quiet, Draining
    <2>. QED
        BY <1>5, <2>1, <2>2, <2>3, <2>4 DEF DrainerStep
<1> HIDE DEF Quiet
<1>. QED
    BY <1>2, <1>3, <1>4, <1>5 DEF Next

-----------------------------------------------------------------------------
(* What the five moves do to the stage of a block. *)

\* Block s moves from one stage to another, and no other block moves.
Moved(s, from, to) ==
    /\ StageOf(s) = from
    /\ StageOf(s)' = to
    /\ \A t \in Nat : t # s => StageOf(t)' = StageOf(t)

\* A quiet step leaves every block where it is.
LEMMA QuietStages ==
    ASSUME IInv, Quiet, NEW s \in Nat
    PROVE  /\ StageOf(s)' = StageOf(s)
           /\ \A d \in Drainers : HeldBy(d, s)' <=> HeldBy(d, s)
<1>1. \A d \in Drainers : HeldBy(d, s)' <=> HeldBy(d, s)
    BY DEF Quiet, HeldBy
<1>2. s < head => s \in 0 .. head - 1
    BY SegmentTypes DEF IInv
<1>3. s < head => (IsPublished(s)' <=> IsPublished(s))
    BY <1>2 DEF Quiet
<1>4. UNCHANGED <<head, armed>>
    BY DEF Quiet
<1>5. ~(s >= head) => s < head
    BY SegmentTypes DEF IInv
<1>. QED
    BY <1>1, <1>3, <1>4, <1>5 DEF StageOf, HeldBy, IsPublished


\* The CAS on head: the next block is held, and the block a lap before it has
\* been released.
LEMMA HeadMoves ==
    ASSUME IInv, NEW p \in Producers, ClaimHead(p), NEW s \in Nat, s = head
    PROVE  /\ s < MaxHead
           /\ Moved(s, "free", "held")
           /\ \A t \in Nat : t + BlockCount = s => StageOf(t) = "released"
           /\ \A d \in Drainers, t \in Nat : HeldBy(d, t)' <=> HeldBy(d, t)
<1>1. /\ head' = head + 1 /\ head < MaxHead /\ seen[p] = head /\ ppc[p] = "cas_head"
      /\ UNCHANGED <<armed, committed, dpc, dseq>>
    BY DEF ClaimHead, At, drainer
<1>2. Slot(s) \in Slots /\ Epoch(s) \in Nat /\ armed[Slot(s)] \in Nat
    BY SlotEpoch, SegmentTypes DEF IInv
<1>3. s \in head .. MaxHead
    BY <1>1, RingConstants
<1>4. armed[Slot(s)] = Epoch(s) /\ committed[Slot(s)].lap < Epoch(s)
    BY <1>1, <1>2, <1>3 DEF IInv, LapsInv, ProducersInv
<1>5. \A d \in Drainers : ~HeldBy(d, s)
    BY SegmentTypes DEF IInv, DrainersInv, HeldBy
<1>6. ~IsPublished(s)
    BY <1>2, <1>4, Words DEF IsPublished
<1>7. \A d \in Drainers, t \in Nat : HeldBy(d, t)' <=> HeldBy(d, t)
    BY <1>1 DEF HeldBy, Draining
<1>8. Moved(s, "free", "held")
    <2>1. StageOf(s) = "free"
        BY DEF StageOf
    <2>2. StageOf(s)' = "held"
        BY <1>1, <1>2, <1>4, <1>5, <1>6 DEF StageOf, HeldBy, Draining, IsPublished
    <2>3. ASSUME NEW t \in Nat, t # s
          PROVE  StageOf(t)' = StageOf(t)
        <3>1. t >= head' <=> t >= head
            BY <1>1, <2>3
        <3>. QED
            BY <1>1, <3>1 DEF StageOf, Draining
    <2>. QED
        BY <2>1, <2>2, <2>3 DEF Moved
<1>9. ASSUME NEW t \in Nat, t + BlockCount = s
      PROVE  StageOf(t) = "released"
    <2>1. Slot(s) = Slot(t) /\ Epoch(s) = Epoch(t) + 1 /\ Epoch(t) \in Nat
        BY <1>9, NextLap, SlotEpoch
    <2>2. armed[Slot(t)] > Epoch(t)
        BY <2>1, <1>4
    <2>3. ~(t >= head)
        BY <1>9, RingConstants
    <2>. QED
        BY <2>2, <2>3 DEF StageOf
<1>. QED
    BY <1>1, <1>7, <1>8, <1>9

\* The other four moves are on a claimed block that its slot is armed for; the
\* other blocks of the slot are released, or free.
LEMMA OthersDone ==
    ASSUME IInv, NEW s \in Nat, s < head, IsArmed(s),
           NEW t \in Nat, t # s, Slot(t) = Slot(s), t < head
    PROVE  armed[Slot(t)] > Epoch(t) /\ ~IsPublished(t) /\ Epoch(t) < Epoch(s)
<1>1. t \in 0 .. head - 1 /\ Epoch(t) \in Nat /\ Epoch(s) \in Nat
    BY SegmentTypes, SlotEpoch DEF IInv
<1>2. armed[Slot(t)] >= Epoch(t)
    BY <1>1 DEF IInv, LapsInv
<1>3. Epoch(t) # Epoch(s)
    BY SlotEpoch
<1>4. IsPublished(t) => IsArmed(t)
    BY <1>1 DEF IInv, WordsInv
<1>. QED
    BY <1>1, <1>2, <1>3, <1>4, OneArmed DEF IsArmed

\* The store of committed in publish.
LEMMA PublishMoves ==
    ASSUME IInv, NEW p \in Producers, PublishCommit(p), NEW s \in Nat, s = cur[p]
    PROVE  /\ s < head
           /\ Moved(s, "held", "ready")
           /\ \A d \in Drainers, t \in Nat : HeldBy(d, t)' <=> HeldBy(d, t)
<1>1. /\ UNCHANGED <<head, armed, dpc, dseq>>
      /\ committed' = [committed EXCEPT ![Slot(s)] = Published(Epoch(s))]
      /\ ppc[p] \in WritePoints /\ Pid[p] \notin dead
    BY DEF PublishCommit, At, MySlot, MyEpoch, drainer, WritePoints
<1>2. /\ s < head /\ IsArmed(s) /\ ~IsPublished(s)
      /\ \A d \in Drainers : ~HeldBy(d, s)
    BY <1>1 DEF IInv, WritingInv, ProducersInv, NoBlock
<1>3. Slot(s) \in Slots /\ Epoch(s) \in Nat /\ committed \in [Slots -> Commits] /\ head \in Nat
    BY SlotEpoch DEF IInv, TypeOK, SegmentOK
<1>4. \A d \in Drainers, t \in Nat : HeldBy(d, t)' <=> HeldBy(d, t)
    BY <1>1 DEF HeldBy, Draining
<1>5. StageOf(s) = "held" /\ StageOf(s)' = "ready"
    BY <1>1, <1>2, <1>3 DEF StageOf, IsArmed, IsPublished, HeldBy, Draining
<1>6. ASSUME NEW t \in Nat, t # s, t < head
      PROVE  StageOf(t)' = StageOf(t)
    <2>1. CASE Slot(t) = Slot(s)
        BY <2>1, <1>1, <1>2, <1>3, <1>6, OthersDone DEF StageOf
    <2>2. CASE Slot(t) # Slot(s)
        <3>1. committed'[Slot(t)] = committed[Slot(t)]
            BY <2>2, <1>1, <1>3, SlotEpoch
        <3>. QED
            BY <3>1, <1>1 DEF StageOf, Draining
    <2>. QED
        BY <2>1, <2>2
<1>7. ASSUME NEW t \in Nat, ~(t < head)
      PROVE  StageOf(t)' = StageOf(t)
    BY <1>1, <1>3, <1>7 DEF StageOf
<1>. QED
    BY <1>2, <1>4, <1>5, <1>6, <1>7 DEF Moved

\* A winning CAS of a drain thread, of claim or take_over.
LEMMA WinMoves ==
    ASSUME IInv, NEW d \in Drainers, ClaimWins(d) \/ TakeWins(d), NoDeathInPublish,
           NEW s \in Nat, s = dseq[d]
    PROVE  /\ s < head
           /\ Moved(s, "ready", "draining") \/ Moved(s, "held", "draining")
           /\ ~Draining(d)
           /\ \A c \in Drainers : ~HeldBy(c, s) /\ (HeldBy(c, s)' <=> c = d)
           /\ \A c \in Drainers, t \in Nat : t # s => (HeldBy(c, t)' <=> HeldBy(c, t))
<1>1. /\ UNCHANGED <<head, armed, dseq>>
      /\ dpc[d] \in {"scan", "take_cas"}
      /\ dpc' = [dpc EXCEPT ![d] = "drain"]
      /\ committed' = [committed EXCEPT ![Slot(s)] = Claimed(Epoch(s))] \/ committed' = committed
    BY DEF ClaimWins, TakeWins, ScanClaim, TakeCas, DAt, IsPublished
<1>2. /\ Slot(s) \in Slots /\ Epoch(s) \in Nat /\ committed \in [Slots -> Commits] /\ head \in Nat
      /\ dpc \in [Drainers -> DrainerPoints]
    BY SlotEpoch DEF IInv, TypeOK, SegmentOK, DrainerOK
<1>3. /\ s < head /\ IsArmed(s)
      /\ \A c \in Drainers : ~HeldBy(c, s)
    <2>1. CASE ClaimWins(d)
        <3>1. s < head
            BY <2>1, <1>2, SegmentTypes DEF ClaimWins, ScanClaim, IInv, DrainersInv
        <3>2. IsPublished(s) /\ s \in 0 .. head - 1
            BY <2>1, <1>2, <3>1 DEF ClaimWins
        <3>. QED
            BY <3>1, <3>2 DEF IInv, WordsInv, DrainersInv, HeldBy
    <2>2. CASE TakeWins(d)
        <3>1. /\ s < head /\ s \in 0 .. head - 1
              /\ \/ Idle(s)
                 \/ BeingWritten(s) /\ \E p \in Producers : cur[p] = s /\ Pid[p] \in dead
            BY <2>2, <1>2 DEF TakeWins, TakeCas, DAt, IInv, DrainersInv, Idle, BeingWritten
        <3>2. ASSUME NEW p \in Producers, cur[p] = s, ppc[p] = "pub_owner"
              PROVE  ~(\E q \in Producers : cur[q] = s /\ Pid[q] \in dead)
            BY <3>2 DEF IInv, ProducersInv, NoBlock, NoDeathInPublish
        <3>. QED
            BY <3>1, <3>2 DEF IInv, WordsInv, DrainersInv, HeldBy
    <2>. QED
        BY <2>1, <2>2
<1>4. ~Draining(d) /\ Draining(d)' /\ \A c \in Drainers : c # d => (Draining(c)' <=> Draining(c))
    BY <1>1, <1>2 DEF Draining
<1>5. \A c \in Drainers : ~HeldBy(c, s) /\ (HeldBy(c, s)' <=> c = d)
    BY <1>1, <1>3, <1>4 DEF HeldBy
<1>6. \A c \in Drainers, t \in Nat : t # s => (HeldBy(c, t)' <=> HeldBy(c, t))
    BY <1>1, <1>4 DEF HeldBy
<1>7. StageOf(s)' = "draining"
    BY <1>1, <1>2, <1>3, <1>5 DEF StageOf, IsArmed, HeldBy
<1>8. StageOf(s) = "ready" \/ StageOf(s) = "held"
    BY <1>2, <1>3 DEF StageOf, IsArmed, HeldBy
<1>9. ASSUME NEW t \in Nat, t # s, t < head
      PROVE  StageOf(t)' = StageOf(t)
    <2>1. CASE Slot(t) = Slot(s)
        BY <2>1, <1>1, <1>2, <1>3, <1>9, OthersDone DEF StageOf
    <2>2. CASE Slot(t) # Slot(s)
        <3>1. committed'[Slot(t)] = committed[Slot(t)]
            BY <2>2, <1>1, <1>2, <1>9, SlotEpoch
        <3>2. (\E c \in Drainers : HeldBy(c, t))' <=> \E c \in Drainers : HeldBy(c, t)
            BY <1>6, <1>9
        <3>. QED
            BY <3>1, <3>2, <1>1 DEF StageOf, HeldBy
    <2>. QED
        BY <2>1, <2>2
<1>10. ASSUME NEW t \in Nat, ~(t < head)
       PROVE  StageOf(t)' = StageOf(t)
    BY <1>1, <1>2, <1>10 DEF StageOf
<1>. QED
    BY <1>3, <1>4, <1>5, <1>6, <1>7, <1>8, <1>9, <1>10 DEF Moved

\* The store of armed in release.
LEMMA ReleaseMoves ==
    ASSUME IInv, NEW d \in Drainers, ReleaseArmed(d), NEW s \in Nat, s = dseq[d]
    PROVE  /\ s < head
           /\ Moved(s, "draining", "released")
           /\ \A c \in Drainers : (HeldBy(c, s) <=> c = d) /\ ~HeldBy(c, s)'
           /\ \A c \in Drainers, t \in Nat : t # s => (HeldBy(c, t)' <=> HeldBy(c, t))
           /\ armed' = [armed EXCEPT ![Slot(s)] = Epoch(s) + 1]
<1>1. /\ UNCHANGED <<head, committed, dseq>>
      /\ dpc[d] = "rel_armed"
      /\ dpc' = [dpc EXCEPT ![d] = "rel_mark"]
      /\ armed' = [armed EXCEPT ![Slot(s)] = Epoch(s) + 1]
    BY DEF ReleaseArmed, DAt
<1>2. /\ Slot(s) \in Slots /\ Epoch(s) \in Nat /\ armed \in [Slots -> Nat] /\ head \in Nat
      /\ dpc \in [Drainers -> DrainerPoints]
    BY SlotEpoch DEF IInv, TypeOK, SegmentOK, DrainerOK
<1>3. Draining(d) /\ ~Draining(d)' /\ \A c \in Drainers : c # d => (Draining(c)' <=> Draining(c))
    BY <1>1, <1>2 DEF Draining
<1>4. s < head /\ IsArmed(s)
    BY <1>3 DEF IInv, DrainersInv
<1>5. \A c \in Drainers : (HeldBy(c, s) <=> c = d) /\ ~HeldBy(c, s)'
    BY <1>1, <1>3 DEF HeldBy, IInv, DrainersInv
<1>6. \A c \in Drainers, t \in Nat : t # s => (HeldBy(c, t)' <=> HeldBy(c, t))
    BY <1>1, <1>3 DEF HeldBy
<1>7. StageOf(s) = "draining"
    BY <1>2, <1>4, <1>5 DEF StageOf, IsArmed, HeldBy
<1>8. StageOf(s)' = "released"
    BY <1>1, <1>2, <1>4 DEF StageOf
<1>9. ASSUME NEW t \in Nat, t # s, t < head
      PROVE  StageOf(t)' = StageOf(t)
    <2>1. CASE Slot(t) = Slot(s)
        <3>1. armed[Slot(t)] > Epoch(t) /\ Epoch(t) < Epoch(s) /\ Epoch(t) \in Nat
            BY <2>1, <1>4, <1>9, OthersDone, SlotEpoch
        <3>2. armed'[Slot(t)] > Epoch(t)
            BY <2>1, <3>1, <1>1, <1>2
        <3>. QED
            BY <3>1, <3>2, <1>1, <1>2, <1>9 DEF StageOf
    <2>2. CASE Slot(t) # Slot(s)
        <3>1. armed'[Slot(t)] = armed[Slot(t)]
            BY <2>2, <1>1, <1>2, <1>9, SlotEpoch
        <3>2. (\E c \in Drainers : HeldBy(c, t))' <=> \E c \in Drainers : HeldBy(c, t)
            BY <1>6, <1>9
        <3>. QED
            BY <3>1, <3>2, <1>1 DEF StageOf, HeldBy
    <2>. QED
        BY <2>1, <2>2
<1>10. ASSUME NEW t \in Nat, ~(t < head)
       PROVE  StageOf(t)' = StageOf(t)
    BY <1>1, <1>2, <1>10 DEF StageOf
<1>. QED
    BY <1>1, <1>4, <1>5, <1>6, <1>7, <1>8, <1>9, <1>10 DEF Moved


-----------------------------------------------------------------------------
(* The cursors next_ and tail_. *)

\* Slots are only ever armed for later laps, head only grows, and a block that
\* is handled stays so.
LEMMA Forward ==
    ASSUME NoDeathInPublish, IInv, [Next]_vars
    PROVE  /\ \A i \in Slots : armed'[i] >= armed[i]
           /\ head' >= head
           /\ head' # head => head' = head + 1 /\ head < MaxHead
           /\ \A s \in Nat : Handled(s) => Handled(s)'
<1>0. head \in Nat /\ armed \in [Slots -> Nat] /\ \A d \in Drainers : dseq[d] \in Nat
    BY SegmentTypes DEF IInv, TypeOK, SegmentOK
<1>1. CASE Quiet
    BY <1>0, <1>1 DEF Quiet, Handled, HeldBy
<1>2. ASSUME NEW p \in Producers, ClaimHead(p) \/ PublishCommit(p)
      PROVE  /\ armed' = armed /\ UNCHANGED <<dpc, dseq>>
             /\ head' = head \/ (head' = head + 1 /\ head < MaxHead)
    BY <1>2 DEF ClaimHead, PublishCommit, drainer
<1>3. CASE \E p \in Producers : ClaimHead(p) \/ PublishCommit(p)
    BY <1>0, <1>2, <1>3 DEF Handled, HeldBy, Draining
<1>4. ASSUME NEW d \in Drainers, ClaimWins(d) \/ TakeWins(d)
      PROVE  /\ UNCHANGED <<head, armed, dseq>>
             /\ \A c \in Drainers : Draining(c) => Draining(c)'
    <2>1. UNCHANGED <<head, armed, dseq>> /\ dpc' = [dpc EXCEPT ![d] = "drain"]
        BY <1>4 DEF ClaimWins, TakeWins, ScanClaim, TakeCas, DAt, IsPublished
    <2>. QED
        BY <2>1 DEF Draining, IInv, TypeOK, DrainerOK
<1>5. CASE \E d \in Drainers : ClaimWins(d) \/ TakeWins(d)
    BY <1>0, <1>4, <1>5 DEF Handled, HeldBy
<1>6. ASSUME NEW d \in Drainers, ReleaseArmed(d)
      PROVE  /\ \A i \in Slots : armed'[i] >= armed[i]
             /\ head' = head
             /\ \A s \in Nat : Handled(s) => Handled(s)'
    <2> PICK s \in Nat : s = dseq[d]
        BY <1>0
    <2>1. /\ head' = head /\ s < head
          /\ armed' = [armed EXCEPT ![Slot(s)] = Epoch(s) + 1]
          /\ \A c \in Drainers, t \in Nat : t # s => (HeldBy(c, t)' <=> HeldBy(c, t))
        BY <1>6, ReleaseMoves DEF ReleaseArmed
    <2>2. armed[Slot(s)] = Epoch(s) /\ Epoch(s) \in Nat /\ Slot(s) \in Slots
        BY <1>6, SlotEpoch DEF ReleaseArmed, DAt, Draining, IInv, DrainersInv, IsArmed
    <2>3. \A i \in Slots : armed'[i] >= armed[i]
        BY <2>1, <2>2, <1>0
    <2>4. armed'[Slot(s)] > Epoch(s)
        BY <2>1, <2>2, <1>0
    <2>5. ASSUME NEW t \in Nat, Handled(t)
          PROVE  Handled(t)'
        <3>1. CASE t = s
            BY <3>1, <2>4 DEF Handled
        <3>2. ASSUME t # s, armed[Slot(t)] > Epoch(t)
              PROVE  armed'[Slot(t)] > Epoch(t)
            <4>1. Slot(t) \in Slots /\ Epoch(t) \in Nat
                BY SlotEpoch
            <4>2. armed'[Slot(t)] \in Nat
                BY <4>1, <2>1, <2>2, <1>0
            <4>. QED
                BY <3>2, <4>1, <4>2, <2>3, <1>0
        <3>. QED
            BY <3>1, <3>2, <2>1, <2>5 DEF Handled
    <2>. QED
        BY <2>1, <2>3, <2>5
<1>7. CASE \E d \in Drainers : ReleaseArmed(d)
    BY <1>0, <1>6, <1>7
<1>. QED
    BY <1>1, <1>3, <1>5, <1>7, Moves

\* A block whose committed or owner word says that a drain thread had it is
\* handled.
LEMMA WordsHandled ==
    ASSUME NoDeathInPublish, IInv, [Next]_vars,
           \A s \in 0 .. head - 1 : DoneWords(s) => Handled(s),
           NEW s \in 0 .. head' - 1, DoneWords(s)'
    PROVE  Handled(s)'
<1>0. /\ head \in Nat /\ s \in Nat /\ Slot(s) \in Slots /\ Epoch(s) \in Nat
      /\ committed \in [Slots -> Commits] /\ owner \in [Slots -> Owners]
      /\ \A d \in Drainers : dseq[d] \in Nat
    <2>1. head \in Nat /\ (head' = head \/ head' = head + 1)
        BY Forward, SegmentTypes DEF IInv
    <2>2. s \in Nat
        BY <2>1
    <2>. QED
        BY <2>1, <2>2, SlotEpoch, SegmentTypes DEF IInv, TypeOK, SegmentOK
<1>1. s \in 0 .. head - 1 /\ DoneWords(s) => Handled(s)'
    BY <1>0, Forward
<1>2. CASE Quiet
    BY <1>1, <1>2 DEF Quiet
<1>3. ASSUME NEW p \in Producers, ClaimHead(p)
      PROVE  Handled(s)'
    <2>1. UNCHANGED <<committed, owner>> /\ head' = head + 1 /\ head < MaxHead
        BY <1>3 DEF ClaimHead
    <2>2. CASE s # head
        BY <2>1, <2>2, <1>0, <1>1 DEF DoneWords
    <2>3. CASE s = head
        <3>1. s \in head .. MaxHead
            BY <2>1, <2>3, <1>0, RingConstants
        <3>2. owner[Slot(s)].lap < Epoch(s) /\ committed[Slot(s)].lap < Epoch(s)
            BY <3>1 DEF IInv, LapsInv
        <3>. QED
            BY <3>2, <2>1, <1>0, Words DEF DoneWords
    <2>. QED
        BY <2>2, <2>3
<1>4. ASSUME NEW p \in Producers, PublishCommit(p)
      PROVE  Handled(s)'
    <2>1. /\ UNCHANGED <<head, owner>>
          /\ committed' = [committed EXCEPT ![MySlot(p)] = Published(MyEpoch(p))]
        BY <1>4 DEF PublishCommit
    <2>2. committed'[Slot(s)] = Claimed(Epoch(s)) => committed[Slot(s)] = Claimed(Epoch(s))
        BY <2>1, <1>0, Words
    <2>. QED
        BY <2>1, <2>2, <1>1 DEF DoneWords
<1>5. ASSUME NEW d \in Drainers, ClaimWins(d) \/ TakeWins(d)
      PROVE  Handled(s)'
    <2> PICK t \in Nat : t = dseq[d]
        BY <1>0
    <2>1. HeldBy(d, t)'
        BY <1>5, WinMoves
    <2>2. CASE s = t
        BY <2>1, <2>2 DEF Handled
    <2>3. CASE s # t
        <3>1. /\ head' = head
              /\ \/ committed' = committed
                 \/ committed' = [committed EXCEPT ![Slot(t)] = Claimed(Epoch(t))]
              /\ \/ owner' = owner
                 \/ owner' = [owner EXCEPT ![Slot(t)] = OwnerWord(Epoch(t), "TAKEN")]
            BY <1>5 DEF ClaimWins, TakeWins, ScanClaim, TakeCas, IsPublished
        <3>2. Slot(s) = Slot(t) => Epoch(s) # Epoch(t)
            BY <2>3, <1>0, SlotEpoch
        <3>3. Epoch(s) # Epoch(t) => Claimed(Epoch(s)) # Claimed(Epoch(t))
            BY Words
        <3>4. committed'[Slot(s)] = Claimed(Epoch(s)) => committed[Slot(s)] = Claimed(Epoch(s))
            BY <3>1, <3>2, <3>3, <1>0
        <3>5. owner'[Slot(s)] = OwnerWord(Epoch(s), "TAKEN") =>
                 owner[Slot(s)] = OwnerWord(Epoch(s), "TAKEN")
            BY <3>1, <3>2, <1>0, Words
        <3>. QED
            BY <3>1, <3>4, <3>5, <1>1 DEF DoneWords
    <2>. QED
        BY <2>2, <2>3
<1>6. ASSUME NEW d \in Drainers, ReleaseArmed(d)
      PROVE  Handled(s)'
    BY <1>6, <1>1 DEF ReleaseArmed, DoneWords
<1>. QED
    BY <1>2, <1>3, <1>4, <1>5, <1>6, Moves

\* The scan and release locals, the marks and the head keep CursorsInv.
LEMMA CursorsStep ==
    ASSUME NoDeathInPublish, IInv, CursorsInv, [Next]_vars
    PROVE  CursorsInv'
<1>0. /\ head \in Nat /\ armed \in [Slots -> Nat] /\ armed' \in [Slots -> Nat]
      /\ dpc \in [Drainers -> DrainerPoints] /\ dseq \in [Drainers -> Nat]
      /\ dhead \in [Drainers -> Nat] /\ released \in [Slots -> Nat]
    <2>1. TypeOK'
        BY CallStepInv DEF IInv
    <2>. QED
        BY <2>1 DEF IInv, TypeOK, SegmentOK, DrainerOK, ClaimerOK
<1>1. head' <= MaxHead
    BY Forward, <1>0, RingConstants DEF CursorsInv
<1>2. \A s \in 0 .. head' - 1 : DoneWords(s)' => Handled(s)'
    BY WordsHandled DEF CursorsInv
<1>3. ASSUME NEW s \in Nat, armed[Slot(s)] > Epoch(s)
      PROVE  armed'[Slot(s)] > Epoch(s)
    <2>1. Slot(s) \in Slots /\ Epoch(s) \in Nat
        BY SlotEpoch
    <2>. QED
        BY <2>1, <1>0, <1>3, Forward
<1>4. ASSUME NEW d \in Drainers
      PROVE  /\ dpc'[d] = "advance_words" => dseq'[d] < dhead'[d]
             /\ dpc'[d] = "rel_mark" => armed'[Slot(dseq'[d])] > Epoch(dseq'[d])
    <2>1. \/ UNCHANGED <<dpc, dseq, dhead>>
          \/ \E c \in Drainers : DrainerStep(c)
        <3>1. ASSUME NEW p \in Producers, ProducerStep(p)
              PROVE  UNCHANGED drainer
            <4>1. CASE TryReserve(p) \/ Flush(p) \/ PublishBegin(p) \/ PublishTaken(p)
                         \/ PublishCommit(p) \/ PublishOwner(p)
                BY <4>1 DEF TryReserve, Flush, PublishBegin, PublishTaken, PublishCommit, PublishOwner
            <4>2. CASE ClaimLoadHead(p) \/ ClaimArmed(p) \/ ClaimNotArmed(p) \/ ClaimHead(p)
                         \/ ClaimLost(p) \/ ClaimStamp(p) \/ ClaimOwn(p)
                BY <4>2 DEF ClaimLoadHead, ClaimArmed, ClaimNotArmed, ClaimHead, ClaimLost,
                            ClaimStamp, ClaimOwn
            <4>3. CASE BeginWrite(p) \/ BeginTaken(p) \/ WriteHeader(p) \/ Commit(p) \/ EndWrite(p)
                BY <4>3 DEF BeginWrite, BeginTaken, WriteHeader, Commit, EndWrite
            <4>. QED
                BY <3>1, <4>1, <4>2, <4>3 DEF ProducerStep
        <3>2. ASSUME NEW q \in Pids, Die(q)
              PROVE  UNCHANGED drainer
            BY <3>2 DEF Die
        <3>3. UNCHANGED vars => UNCHANGED drainer
            BY DEF vars
        <3>4. UNCHANGED drainer => UNCHANGED <<dpc, dseq, dhead>>
            BY DEF drainer
        <3>. QED
            BY <3>1, <3>2, <3>3, <3>4 DEF Next
    <2>2. CASE UNCHANGED <<dpc, dseq, dhead>>
        BY <2>2, <1>0, <1>3 DEF CursorsInv
    <2>3. ASSUME NEW c \in Drainers, DrainerStep(c), c # d
          PROVE  dpc'[d] = dpc[d] /\ dseq'[d] = dseq[d] /\ dhead'[d] = dhead[d]
        BY <2>3, <1>0 DEF DrainerStep, ScanStart, AdvanceLoad, AdvanceArmed, AdvanceWords, ScanEnd,
               ScanClaim, TakeLook, TakePass, TakeCas, Drain, ReleaseClaimNs, ReleaseCommitted,
               ReleaseOwner, ReleaseArmed, ReleaseMark, ReleaseLoadTail, ReleaseTail, ReleaseEnd,
               MoveNext, Forget, DAt
    <2>4. CASE DrainerStep(d)
        <3>1. dpc'[d] = "advance_words" => dseq'[d] = dseq[d] /\ dhead'[d] = dhead[d] /\ dseq[d] < dhead[d]
            BY <2>4, <1>0 DEF DrainerStep, ScanStart, AdvanceLoad, AdvanceArmed, AdvanceWords, ScanEnd,
               ScanClaim, TakeLook, TakePass, TakeCas, Drain, ReleaseClaimNs, ReleaseCommitted,
               ReleaseOwner, ReleaseArmed, ReleaseMark, ReleaseLoadTail, ReleaseTail, ReleaseEnd,
               MoveNext, Forget, DAt
        <3>2. dpc'[d] = "rel_mark" => ReleaseArmed(d)
            BY <2>4, <1>0 DEF DrainerStep, ScanStart, AdvanceLoad, AdvanceArmed, AdvanceWords, ScanEnd,
               ScanClaim, TakeLook, TakePass, TakeCas, Drain, ReleaseClaimNs, ReleaseCommitted,
               ReleaseOwner, ReleaseMark, ReleaseLoadTail, ReleaseTail, ReleaseEnd, DAt
        <3>3. ReleaseArmed(d) => armed'[Slot(dseq'[d])] > Epoch(dseq'[d])
            BY <1>0, SlotEpoch, SMTT(20) DEF ReleaseArmed
        <3>. QED
            BY <3>1, <3>2, <3>3
    <2>. QED
        BY <1>0, <1>3, <2>1, <2>2, <2>3, <2>4 DEF CursorsInv
<1>5. ASSUME NEW i \in Slots, released'[i] # 0
      PROVE  Slot(released'[i] - 1) = i /\ armed'[i] > Epoch(released'[i] - 1)
    <2>1. \/ released' = released
          \/ \E d \in Drainers : ReleaseMark(d)
        BY ZenonT(60) DEF Next, ProducerStep, TryReserve, Flush, PublishBegin, PublishTaken, PublishCommit,
               PublishOwner, ClaimLoadHead, ClaimArmed, ClaimNotArmed, ClaimHead, ClaimLost,
               ClaimStamp, ClaimOwn, BeginWrite, BeginTaken, WriteHeader, Commit, EndWrite, Die,
               DrainerStep, ScanStart, AdvanceLoad, AdvanceArmed, AdvanceWords, ScanEnd,
               ScanClaim, TakeLook, TakePass, TakeCas, Drain, ReleaseClaimNs, ReleaseCommitted,
               ReleaseOwner, ReleaseArmed, ReleaseLoadTail, ReleaseTail, ReleaseEnd,
               vars, claimer
    <2>2. CASE released[i] = released'[i]
        <3>1. Slot(released[i] - 1) = i /\ armed[i] > Epoch(released[i] - 1)
            BY <2>2, <1>5 DEF CursorsInv
        <3>2. released[i] - 1 \in Nat
            BY <2>2, <1>5, <1>0
        <3>. QED
            BY <3>1, <3>2, <2>2, <1>3
    <2>3. ASSUME NEW d \in Drainers, ReleaseMark(d), released[i] # released'[i]
          PROVE  Slot(released'[i] - 1) = i /\ armed'[i] > Epoch(released'[i] - 1)
        <3>1. /\ released' = [released EXCEPT ![Slot(dseq[d])] = dseq[d] + 1]
              /\ dpc[d] = "rel_mark"
            BY <2>3 DEF ReleaseMark, DAt
        <3>2. i = Slot(dseq[d]) /\ released'[i] = dseq[d] + 1
            BY <3>1, <2>3, <1>0
        <3>3. armed[i] > Epoch(dseq[d])
            BY <3>1, <3>2 DEF CursorsInv
        <3>4. released'[i] - 1 = dseq[d]
            BY <3>2, <1>0
        <3>. QED
            BY <3>2, <3>3, <3>4, <1>3, <1>0
    <2>. QED
        BY <2>1, <2>2, <2>3
<1>. QED
    BY <1>1, <1>2, <1>4, <1>5 DEF CursorsInv

\* next_ moves over a block only after done() has seen it handled.
LEMMA NextStep ==
    ASSUME NoDeathInPublish, IInv, CursorsInv, PassedAreHandled, [Next]_vars
    PROVE  PassedAreHandled'
<1>0. next \in Nat /\ head \in Nat /\ dseq \in [Drainers -> Nat] /\ dhead \in [Drainers -> Nat]
      /\ \A i \in Slots : armed[i] \in Nat
    BY SegmentTypes DEF IInv, TypeOK, DrainerOK, ClaimerOK
<1>1. \A s \in Nat : s < next => Handled(s)'
    <2>1. \A s \in Nat : s < next => s \in 0 .. next - 1
        BY <1>0
    <2>2. \A s \in Nat : s < next => Handled(s)
        BY <2>1, SMTT(20) DEF PassedAreHandled, Handled, HeldBy
    <2>. QED
        BY <2>2, Forward
<1>2. \/ next' = next
      \/ \E d \in Drainers :
            /\ AdvanceArmed(d) \/ AdvanceWords(d)
            /\ next' # next
    BY ZenonT(60) DEF Next, ProducerStep, TryReserve, Flush, PublishBegin, PublishTaken, PublishCommit,
           PublishOwner, ClaimLoadHead, ClaimArmed, ClaimNotArmed, ClaimHead, ClaimLost,
           ClaimStamp, ClaimOwn, BeginWrite, BeginTaken, WriteHeader, Commit, EndWrite, Die,
           DrainerStep, ScanStart, AdvanceLoad, ScanEnd,
           ScanClaim, TakeLook, TakePass, TakeCas, Drain, ReleaseClaimNs, ReleaseCommitted,
           ReleaseOwner, ReleaseArmed, ReleaseMark, ReleaseLoadTail, ReleaseTail, ReleaseEnd,
           vars, claimer
<1>3. ASSUME NEW d \in Drainers, AdvanceArmed(d) \/ AdvanceWords(d), next' # next
      PROVE  next' = next + 1 /\ Handled(next)
    <2>1. /\ next = dseq[d] /\ next' = next + 1
          /\ DoneArmed(next) \/ DoneWords(next)
          /\ dseq[d] < dhead[d]
        BY <1>3 DEF AdvanceArmed, AdvanceWords, MoveNext, DAt, CursorsInv
    <2>2. next \in 0 .. head - 1
        BY <2>1, <1>0 DEF IInv, DrainersInv
    <2>3. armed[Slot(next)] >= Epoch(next) /\ Slot(next) \in Slots /\ Epoch(next) \in Nat
        BY <2>2, <1>0, SlotEpoch DEF IInv, LapsInv
    <2>4. DoneArmed(next) => Handled(next)
        BY <2>3, <1>0 DEF DoneArmed, Handled
    <2>5. DoneWords(next) => Handled(next)
        BY <2>2 DEF CursorsInv
    <2>. QED
        BY <2>1, <2>4, <2>5
<1>4. \A s \in Nat : s < next' => Handled(s)'
    <2>1. ASSUME NEW s \in Nat, s = next, Handled(next)
          PROVE  Handled(s)'
        BY <2>1, Forward
    <2>. QED
        BY <1>0, <1>1, <1>2, <1>3, <2>1
<1>5. next' \in Nat
    BY <1>0, <1>2, <1>3
<1>. QED
    BY <1>4, <1>5 DEF PassedAreHandled, Handled, HeldBy

\* tail_ moves over a block only when a mark of its lap or a later one says it
\* was released.
LEMMA TailStep ==
    ASSUME NoDeathInPublish, IInv, CursorsInv, TailBehind, [Next]_vars
    PROVE  TailBehind'
<1>0. tail \in Nat /\ released \in [Slots -> Nat]
      /\ armed \in [Slots -> Nat] /\ armed' \in [Slots -> Nat]
    <2>1. TypeOK'
        BY CallStepInv DEF IInv
    <2>. QED
        BY <2>1 DEF IInv, TypeOK, ClaimerOK, SegmentOK
<1>1. ASSUME NEW s \in Nat, armed[Slot(s)] > Epoch(s)
      PROVE  armed'[Slot(s)] > Epoch(s)
    <2>1. Slot(s) \in Slots /\ Epoch(s) \in Nat
        BY SlotEpoch, SMTT(20)
    <2>. QED
        BY <2>1, <1>0, <1>1, Forward
<1>2. \/ tail' = tail
      \/ \E d \in Drainers : ReleaseTail(d) /\ tail' # tail
    BY ZenonT(60) DEF Next, ProducerStep, TryReserve, Flush, PublishBegin, PublishTaken, PublishCommit,
           PublishOwner, ClaimLoadHead, ClaimArmed, ClaimNotArmed, ClaimHead, ClaimLost,
           ClaimStamp, ClaimOwn, BeginWrite, BeginTaken, WriteHeader, Commit, EndWrite, Die,
           DrainerStep, ScanStart, AdvanceLoad, AdvanceArmed, AdvanceWords, ScanEnd,
           ScanClaim, TakeLook, TakePass, TakeCas, Drain, ReleaseClaimNs, ReleaseCommitted,
           ReleaseOwner, ReleaseArmed, ReleaseMark, ReleaseLoadTail, ReleaseEnd,
           vars, claimer
<1>3. ASSUME NEW d \in Drainers, ReleaseTail(d), tail' # tail
      PROVE  tail' = tail + 1 /\ armed[Slot(tail)] > Epoch(tail)
    <2>1. tail' = tail + 1 /\ released[Slot(tail)] > tail
        BY <1>3 DEF ReleaseTail
    <2>2. Slot(tail) \in Slots /\ Epoch(tail) \in Nat
        BY <1>0, SlotEpoch
    <2>3. released[Slot(tail)] # 0
        BY <2>1, <1>0
    <2> DEFINE s == released[Slot(tail)] - 1
    <2>4. /\ s \in Nat /\ s >= tail /\ Slot(s) = Slot(tail)
          /\ armed[Slot(tail)] > Epoch(s)
        BY <2>1, <2>2, <2>3, <1>0 DEF CursorsInv
    <2> HIDE DEF s
    <2>5. s = tail \/ tail < s
        BY <2>4, <1>0
    <2>6. Epoch(tail) <= Epoch(s) /\ Epoch(s) \in Nat
        <3>1. Epoch(s) \in Nat
            BY <2>4, SlotEpoch
        <3>2. tail < s => Epoch(tail) < Epoch(s)
            BY <2>4, <1>0, SlotEpoch
        <3>. QED
            BY <3>1, <3>2, <2>2, <2>5
    <2>. QED
        BY <2>1, <2>2, <2>4, <2>6, <1>0
<1>4. \A s \in Nat : s < tail => armed'[Slot(s)] > Epoch(s)
    <2>1. \A s \in Nat : s < tail => s \in 0 .. tail - 1
        BY <1>0
    <2>. QED
        BY <2>1, <1>1 DEF TailBehind
<1>5. \A s \in Nat : s < tail' => armed'[Slot(s)] > Epoch(s)
    BY <1>0, <1>1, <1>2, <1>3, <1>4
<1>6. tail' = tail \/ tail' = tail + 1
    BY <1>2, <1>3
<1>7. ASSUME NEW s \in 0 .. tail' - 1
      PROVE  s \in Nat /\ s < tail'
    BY <1>0, <1>6
<1>. QED
    BY <1>5, <1>7 DEF TailBehind

\* The formatted ring has nothing to pass.
LEMMA CursorsInit == Init => CursorsInv /\ PassedAreHandled /\ TailBehind
<1> SUFFICES ASSUME Init PROVE CursorsInv /\ PassedAreHandled /\ TailBehind
    OBVIOUS
<1>1. CursorsInv
    BY RingConstants DEF Init, CursorsInv
<1>2. PassedAreHandled /\ TailBehind
    BY DEF Init, PassedAreHandled, TailBehind
<1>. QED
    BY <1>1, <1>2

\* Both cursors, with what their moves rest on.
LEMMA CursorsAlways ==
    ASSUME NoDeathInPublish
    PROVE  Spec => [](CursorsInv /\ PassedAreHandled /\ TailBehind)
<1>1. Init => CursorsInv /\ PassedAreHandled /\ TailBehind
    BY CursorsInit
<1>2. IInv /\ CursorsInv /\ PassedAreHandled /\ TailBehind /\ [Next]_vars
         => (CursorsInv /\ PassedAreHandled /\ TailBehind)'
    BY CursorsStep, NextStep, TailStep
<1>3. Spec => []IInv
    BY InvAlways
<1>. QED
    BY <1>1, <1>2, <1>3, PTL DEF Spec

\* The scan start of claim() and take_over(), next_, never passes a block that
\* still needs a drain thread, however many threads move it and however stale
\* the head and the block they read are.
THEOREM ScanPassesHandled == ASSUME NoDeathInPublish PROVE Spec => []PassedAreHandled
BY CursorsAlways, PTL

\* The tail never passes a block that has not been released, in whatever order
\* the drain threads release, and although the marks of two laps share a slot.
THEOREM TailStaysBehind == ASSUME NoDeathInPublish PROVE Spec => []TailBehind
BY CursorsAlways, PTL

-----------------------------------------------------------------------------
(* The ring implements BlockLife. *)

\* A formatted ring maps to blocks that are all free.
LEMMA LifeInit == Init => Life!Init
<1> SUFFICES ASSUME Init PROVE Life!Init
    OBVIOUS
<1>1. \A s \in 0 .. MaxHead - 1 : StageOf(s) = "free"
    BY RingConstants DEF Init, StageOf
<1>2. \A d \in Drainers : ~Draining(d)
    BY DEF Init, Draining
<1>. QED
    BY <1>1, <1>2 DEF Life!Init, Life!Blocks

\* Every step of the ring maps to a step of BlockLife or to none.
LEMMA LifeStep ==
    ASSUME NoDeathInPublish, IInv, head <= MaxHead, [Next]_vars
    PROVE  [Life!Next]_(Life!vars)
<1> DEFINE Seqs == 0 .. MaxHead - 1
           life == [s \in Seqs |-> StageOf(s)]
           holders == [s \in Seqs |-> {d \in Drainers : Draining(d) /\ dseq[d] = s}]
<1>0. Seqs \subseteq Nat
    OBVIOUS
<1>1. CASE Quiet
    <2>1. \A s \in Seqs : StageOf(s)' = StageOf(s)
        BY <1>0, <1>1, QuietStages
    <2>2. \A s \in Seqs : {d \in Drainers : Draining(d) /\ dseq[d] = s}' =
                          {d \in Drainers : Draining(d) /\ dseq[d] = s}
        BY <1>0, <1>1, QuietStages DEF HeldBy
    <2>. QED
        BY <2>1, <2>2 DEF Life!vars
<1>2. ASSUME NEW p \in Producers, ClaimHead(p)
      PROVE  Life!Next
    <2>0. head \in Nat
        BY SegmentTypes DEF IInv
    <2> PICK s \in Nat : s = head
        BY <2>0
    <2>1. /\ s < MaxHead
          /\ Moved(s, "free", "held")
          /\ \A t \in Nat : t + BlockCount = s => StageOf(t) = "released"
          /\ \A d \in Drainers, t \in Nat : HeldBy(d, t)' <=> HeldBy(d, t)
        BY <1>2, HeadMoves
    <2>2. s \in Seqs
        BY <2>1, RingConstants
    <2>3. \A t \in Seqs : t < s => StageOf(t) # "free"
        BY <1>0, <2>0 DEF StageOf
    <2>4. life' = [life EXCEPT ![s] = "held"] /\ life[s] = "free"
        BY <1>0, <2>1, <2>2 DEF Moved
    <2>5. holders' = holders
        BY <1>0, <2>1 DEF HeldBy
    <2>6. Life!Claim(s)
        BY <1>0, <2>1, <2>2, <2>3, <2>4, <2>5 DEF Life!Claim, Life!Move, Life!Blocks
    <2>. QED
        BY <2>2, <2>6 DEF Life!Next, Life!Blocks
<1>3. ASSUME NEW s \in Nat, s < head
      PROVE  s \in Seqs
    BY <1>3, SegmentTypes, RingConstants DEF IInv
<1>4. ASSUME NEW p \in Producers, PublishCommit(p)
      PROVE  Life!Next
    <2>0. cur[p] \in Nat
        BY <1>4, SegmentTypes DEF IInv, CallInv, WithBlock, PublishCommit, At
    <2> PICK s \in Nat : s = cur[p]
        BY <2>0
    <2>1. /\ s \in Seqs
          /\ Moved(s, "held", "ready")
          /\ \A d \in Drainers, t \in Nat : HeldBy(d, t)' <=> HeldBy(d, t)
        BY <1>3, <1>4, PublishMoves
    <2>2. life' = [life EXCEPT ![s] = "ready"] /\ life[s] = "held"
        BY <1>0, <2>1 DEF Moved
    <2>3. holders' = holders
        BY <1>0, <2>1 DEF HeldBy
    <2>4. Life!Publish(s)
        BY <2>2, <2>3 DEF Life!Publish, Life!Move
    <2>. QED
        BY <2>1, <2>4 DEF Life!Next, Life!Blocks
<1>5. ASSUME NEW d \in Drainers, ClaimWins(d) \/ TakeWins(d)
      PROVE  Life!Next
    <2>0. dseq[d] \in Nat
        BY SegmentTypes DEF IInv
    <2> PICK s \in Nat : s = dseq[d]
        BY <2>0
    <2>1. /\ s \in Seqs
          /\ Moved(s, "ready", "draining") \/ Moved(s, "held", "draining")
          /\ \A c \in Drainers : HeldBy(c, s)' <=> c = d
          /\ \A c \in Drainers, t \in Nat : t # s => (HeldBy(c, t)' <=> HeldBy(c, t))
        BY <1>3, <1>5, WinMoves
    <2>2. life' = [life EXCEPT ![s] = "draining"] /\ life[s] \in {"ready", "held"}
        BY <1>0, <2>1 DEF Moved
    <2>3. holders' = [holders EXCEPT ![s] = {d}]
        <3>1. ASSUME NEW t \in Seqs
              PROVE  holders'[t] = IF t = s THEN {d} ELSE holders[t]
            BY <1>0, <2>1 DEF HeldBy
        <3>. QED
            BY <2>1, <3>1
    <2>4. Life!DrainBy(s, d)
        BY <2>2, <2>3 DEF Life!DrainBy, Life!Move
    <2>. QED
        BY <2>1, <2>4 DEF Life!Next, Life!Blocks
<1>6. ASSUME NEW d \in Drainers, ReleaseArmed(d)
      PROVE  Life!Next
    <2>0. dseq[d] \in Nat
        BY SegmentTypes DEF IInv
    <2> PICK s \in Nat : s = dseq[d]
        BY <2>0
    <2>1. /\ s \in Seqs
          /\ Moved(s, "draining", "released")
          /\ \A c \in Drainers : (HeldBy(c, s) <=> c = d) /\ ~HeldBy(c, s)'
          /\ \A c \in Drainers, t \in Nat : t # s => (HeldBy(c, t)' <=> HeldBy(c, t))
        BY <1>3, <1>6, ReleaseMoves
    <2>2. life' = [life EXCEPT ![s] = "released"] /\ life[s] = "draining"
        BY <1>0, <2>1 DEF Moved
    <2>3. holders' = [holders EXCEPT ![s] = {}]
        <3>1. ASSUME NEW t \in Seqs
              PROVE  holders'[t] = IF t = s THEN {} ELSE holders[t]
            BY <1>0, <2>1 DEF HeldBy
        <3>. QED
            BY <2>1, <3>1
    <2>4. holders[s] = {d}
        BY <2>1 DEF HeldBy
    <2>5. Life!Release(s, d)
        BY <2>2, <2>3, <2>4 DEF Life!Release, Life!Move
    <2>. QED
        BY <2>1, <2>5 DEF Life!Next, Life!Blocks
<1>. QED
    BY <1>1, <1>2, <1>4, <1>5, <1>6, Moves


\* The ring implements BlockLife: every block is claimed, published or taken
\* over, drained and released once per lap, by one drain thread, and its slot is
\* claimed again only after that.
THEOREM LivesOnce == ASSUME NoDeathInPublish PROVE Spec => BlocksLiveOnce
<1>1. Init => Life!Init
    BY LifeInit
<1>2. IInv /\ head <= MaxHead /\ [Next]_vars => [Life!Next]_(Life!vars)
    BY LifeStep
<1>3. Spec => []IInv
    BY InvAlways
<1>4. CursorsInv => head <= MaxHead
    BY DEF CursorsInv
<1>. QED
    BY <1>1, <1>2, <1>3, <1>4, CursorsAlways, PTL DEF Spec, BlocksLiveOnce, Life!Spec

-----------------------------------------------------------------------------
(***************************************************************************)
(* The records of the ring, for every number of producers, drain threads   *)
(* and blocks and every block capacity: a published block is a run of      *)
(* committed records and then at most one padding (PublishedTiled), no     *)
(* record is replayed twice (DrainedOnce), and a committed record is       *)
(* replayed or in a block somebody can still drain, unless the last store  *)
(* of publish() of an earlier lap overwrote the block's owner word         *)
(* (LostOnlyIfOvertaken).                                                  *)
(*                                                                         *)
(* A block fills from the front while its slot is armed for it (CellsInv), *)
(* so the walk of a drain thread meets every committed record of the block *)
(* (WalkFinds).  A record is written into one cell, which is not           *)
(* overwritten before the slot is armed for the next lap, and the walk of  *)
(* a lap happens once (RecordsInv): that is DrainedOnce.  Until it is      *)
(* walked the record stays where it is (KeptInv), and a block that stays   *)
(* held has an owner word that says who has it, unless that word was       *)
(* overwritten (KnownInv).  LedgerInv is the conjunction.                  *)
(***************************************************************************)

\* The stages in their order: a block leaves held for good, and becomes held
\* only when head moves over it.
LEMMA StageSteps ==
    ASSUME NoDeathInPublish, IInv, [Next]_vars, NEW s \in Nat
    PROVE  /\ StageOf(s)' = "held" /\ StageOf(s) # "held" =>
                 s = head /\ head' = head + 1 /\ \E p \in Producers : ClaimHead(p)
           /\ s < head => s < head'
<1>0. head \in Nat
    BY SegmentTypes DEF IInv
<1>f. s < head => s < head'
    BY <1>0, Forward
<1>1. CASE Quiet
    BY <1>1, <1>f, QuietStages
<1>2. ASSUME NEW p \in Producers, ClaimHead(p)
      PROVE  /\ head' = head + 1
             /\ StageOf(s)' = "held" /\ StageOf(s) # "held" => s = head
    <2> PICK t \in Nat : t = head
        BY <1>0
    <2>1. Moved(t, "free", "held")
        BY <1>2, HeadMoves
    <2>. QED
        BY <2>1, <1>2 DEF Moved, ClaimHead
<1>3. ASSUME NEW p \in Producers, PublishCommit(p)
      PROVE  StageOf(s)' = "held" => StageOf(s) = "held"
    <2>0. cur[p] \in Nat
        BY <1>3, SegmentTypes DEF IInv, CallInv, WithBlock, PublishCommit, At
    <2> PICK t \in Nat : t = cur[p]
        BY <2>0
    <2>1. Moved(t, "held", "ready")
        BY <1>3, PublishMoves
    <2>. QED
        BY <2>1 DEF Moved
<1>4. ASSUME NEW d \in Drainers, ClaimWins(d) \/ TakeWins(d) \/ ReleaseArmed(d)
      PROVE  StageOf(s)' = "held" => StageOf(s) = "held"
    <2>0. dseq[d] \in Nat
        BY SegmentTypes DEF IInv
    <2> PICK t \in Nat : t = dseq[d]
        BY <2>0
    <2>1. \/ Moved(t, "ready", "draining") \/ Moved(t, "held", "draining")
          \/ Moved(t, "draining", "released")
        BY <1>4, WinMoves, ReleaseMoves
    <2>. QED
        BY <2>1 DEF Moved
<1>. QED
    BY <1>f, <1>1, <1>2, <1>3, <1>4, Moves

\* A claimed block is armed until it is released.
LEMMA ArmedStages ==
    ASSUME IInv, NEW s \in Nat, s < head
    PROVE  /\ IsArmed(s) <=> StageOf(s) # "released"
           /\ StageOf(s) # "free"
           /\ IsArmed(s) <=> ~(armed[Slot(s)] > Epoch(s))
<1>1. s \in 0 .. head - 1 /\ head \in Nat
    BY SegmentTypes DEF IInv
<1>2. Slot(s) \in Slots /\ Epoch(s) \in Nat /\ armed[Slot(s)] \in Nat
    BY SlotEpoch, SegmentTypes DEF IInv
<1>3. armed[Slot(s)] >= Epoch(s)
    BY <1>1 DEF IInv, LapsInv
<1>. QED
    BY <1>1, <1>2, <1>3 DEF IsArmed, StageOf

\* No step arms a claimed block again.
LEMMA ArmedBefore ==
    ASSUME NoDeathInPublish, IInv, [Next]_vars, NEW s \in Nat, s < head, IsArmed(s)'
    PROVE  IsArmed(s)
<1>1. Slot(s) \in Slots /\ Epoch(s) \in Nat /\ armed[Slot(s)] \in Nat /\ armed'[Slot(s)] = Epoch(s)
    BY SlotEpoch, SegmentTypes DEF IInv, IsArmed
<1>2. armed'[Slot(s)] >= armed[Slot(s)]
    BY <1>1, Forward
<1>3. armed[Slot(s)] >= Epoch(s)
    BY SegmentTypes DEF IInv, LapsInv
<1>. QED
    BY <1>1, <1>2, <1>3 DEF IsArmed

\* Who may store committed, and that the block it belongs to is the one the
\* slot is armed for.
LEMMA CommittedStores ==
    ASSUME NoDeathInPublish, IInv, [Next]_vars
    PROVE  \/ committed' = committed
           \/ \E p \in Producers :
                 /\ PublishCommit(p) /\ cur[p] \in Nat /\ cur[p] < head /\ IsArmed(cur[p])
                 /\ \A d \in Drainers : ~HeldBy(d, cur[p])
                 /\ committed' = [committed EXCEPT ![Slot(cur[p])] = Published(Epoch(cur[p]))]
           \/ \E d \in Drainers :
                 /\ ClaimWins(d) /\ dseq[d] < head /\ IsArmed(dseq[d])
                 /\ \A c \in Drainers : ~HeldBy(c, dseq[d])
                 /\ committed' = [committed EXCEPT ![Slot(dseq[d])] = Claimed(Epoch(dseq[d]))]
           \/ \E d \in Drainers :
                 /\ ReleaseCommitted(d) /\ HeldBy(d, dseq[d]) /\ dseq[d] < head /\ IsArmed(dseq[d])
                 /\ committed' = [committed EXCEPT ![Slot(dseq[d])] = ZeroWord]
<1>1. \/ committed' = committed
      \/ \E p \in Producers : PublishCommit(p)
      \/ \E d \in Drainers : ClaimWins(d) \/ ReleaseCommitted(d)
    BY ZenonT(60) DEF Next, ProducerStep, TryReserve, Flush, PublishBegin, PublishTaken,
           PublishOwner, ClaimLoadHead, ClaimArmed, ClaimNotArmed, ClaimHead, ClaimLost,
           ClaimStamp, ClaimOwn, BeginWrite, BeginTaken, WriteHeader, Commit, EndWrite, Die,
           DrainerStep, ScanStart, AdvanceLoad, AdvanceArmed, AdvanceWords, ScanEnd,
           ScanClaim, TakeLook, TakePass, TakeCas, Drain, ReleaseClaimNs,
           ReleaseOwner, ReleaseArmed, ReleaseMark, ReleaseLoadTail, ReleaseTail, ReleaseEnd,
           ClaimWins, IsPublished, vars, segment
<1>2. ASSUME NEW p \in Producers, PublishCommit(p)
      PROVE  /\ cur[p] \in Nat /\ cur[p] < head /\ IsArmed(cur[p])
             /\ \A d \in Drainers : ~HeldBy(d, cur[p])
             /\ committed' = [committed EXCEPT ![Slot(cur[p])] = Published(Epoch(cur[p]))]
    <2>1. ppc[p] \in WritePoints /\ ppc[p] \in WithBlock /\ Pid[p] \notin dead
        BY <1>2 DEF PublishCommit, At, WritePoints, WithBlock
    <2>2. cur[p] # NoBlock
        BY <2>1 DEF IInv, CallInv
    <2>. QED
        BY <1>2, <2>1, <2>2, SegmentTypes
        DEF PublishCommit, MySlot, MyEpoch, IInv, WritingInv, ProducersInv
<1>3. ASSUME NEW d \in Drainers, ClaimWins(d)
      PROVE  /\ dseq[d] < head /\ IsArmed(dseq[d])
             /\ \A c \in Drainers : ~HeldBy(c, dseq[d])
             /\ committed' = [committed EXCEPT ![Slot(dseq[d])] = Claimed(Epoch(dseq[d]))]
    <2>0. dseq[d] \in Nat /\ dhead[d] \in Nat /\ head \in Nat
        BY SegmentTypes DEF IInv
    <2>1. dseq[d] < head /\ IsPublished(dseq[d]) /\ dseq[d] \in 0 .. head - 1
        BY <1>3, <2>0 DEF ClaimWins, ScanClaim, IInv, DrainersInv
    <2>. QED
        BY <1>3, <2>1 DEF ClaimWins, ScanClaim, IsPublished, IInv, WordsInv, DrainersInv, HeldBy
<1>4. ASSUME NEW d \in Drainers, ReleaseCommitted(d)
      PROVE  /\ HeldBy(d, dseq[d]) /\ dseq[d] < head /\ IsArmed(dseq[d])
             /\ committed' = [committed EXCEPT ![Slot(dseq[d])] = ZeroWord]
    BY <1>4 DEF ReleaseCommitted, DAt, HeldBy, Draining, IInv, DrainersInv
<1>. QED
    BY <1>1, <1>2, <1>3, <1>4, SMTT(20)

\* A thread's locals change only in its own steps.
LEMMA OwnSteps ==
    ASSUME IInv, [Next]_vars
    PROVE  /\ \A d \in Drainers : \/ DrainerStep(d)
                                  \/ /\ dpc'[d] = dpc[d] /\ dseq'[d] = dseq[d]
                                     /\ mode'[d] = mode[d] /\ downer'[d] = downer[d]
           /\ \A p \in Producers : \/ ProducerStep(p)
                                   \/ /\ ppc'[p] = ppc[p] /\ cur'[p] = cur[p]
                                      /\ used'[p] = used[p] /\ nrec'[p] = nrec[p]
<1>0. DrainerOK /\ ProducerOK
    BY DEF IInv, TypeOK
<1>1. ASSUME NEW d \in Drainers, DrainerStep(d)
      PROVE  /\ \A c \in Drainers : c # d => /\ dpc'[c] = dpc[c] /\ dseq'[c] = dseq[c]
                                             /\ mode'[c] = mode[c] /\ downer'[c] = downer[c]
             /\ UNCHANGED <<ppc, cur, used, nrec>>
    BY <1>1, <1>0 DEF DrainerOK, DrainerStep, ScanStart, AdvanceLoad, AdvanceArmed, AdvanceWords,
           ScanEnd, ScanClaim, TakeLook, TakePass, TakeCas, Drain, ReleaseClaimNs,
           ReleaseCommitted, ReleaseOwner, ReleaseArmed, ReleaseMark, ReleaseLoadTail, ReleaseTail,
           ReleaseEnd, MoveNext, Forget, DAt, producer
<1>2. ASSUME NEW p \in Producers, ProducerStep(p)
      PROVE  /\ \A q \in Producers : q # p => /\ ppc'[q] = ppc[q] /\ cur'[q] = cur[q]
                                              /\ used'[q] = used[q] /\ nrec'[q] = nrec[q]
             /\ UNCHANGED <<dpc, dseq, mode, downer>>
    BY <1>2, <1>0 DEF ProducerOK, ProducerStep, TryReserve, Flush, PublishBegin, PublishTaken,
           PublishCommit, PublishOwner, ClaimLoadHead, ClaimArmed, ClaimNotArmed, ClaimHead,
           ClaimLost, ClaimStamp, ClaimOwn, BeginWrite, BeginTaken, WriteHeader, Commit, EndWrite,
           At, Drop, drainer
<1>3. ASSUME (\E q \in Pids : Die(q)) \/ UNCHANGED vars
      PROVE  UNCHANGED <<ppc, cur, used, nrec, dpc, dseq, mode, downer>>
    BY <1>3 DEF Die, vars, producer, drainer
<1>. QED
    BY <1>1, <1>2, <1>3 DEF Next

\* Only the winning CAS of claim makes a block claimed.
LEMMA NewlyClaimed ==
    ASSUME NoDeathInPublish, IInv, [Next]_vars, NEW s \in Nat, s < head, IsClaimed(s)'
    PROVE  IsClaimed(s) \/ \E d \in Drainers : ClaimWins(d) /\ dseq[d] = s
<1>0. /\ Slot(s) \in Slots /\ Epoch(s) \in Nat /\ Epoch(s) > 0 /\ committed \in [Slots -> Commits]
      /\ \A d \in Drainers : dseq[d] \in Nat
    BY SlotEpoch, SegmentTypes DEF IInv, TypeOK, SegmentOK
<1>1. CASE committed' = committed
    BY <1>1 DEF IsClaimed
<1>2. ASSUME NEW t \in Nat, committed' = [committed EXCEPT ![Slot(t)] = Published(Epoch(t))]
      PROVE  IsClaimed(s)
    BY <1>0, <1>2, Words DEF IsClaimed
<1>3. ASSUME NEW t \in Nat, committed' = [committed EXCEPT ![Slot(t)] = ZeroWord]
      PROVE  IsClaimed(s)
    BY <1>0, <1>3, Words DEF IsClaimed
<1>4. ASSUME NEW t \in Nat, committed' = [committed EXCEPT ![Slot(t)] = Claimed(Epoch(t))]
      PROVE  IsClaimed(s) \/ s = t
    <2>1. CASE Slot(s) = Slot(t)
        <3>1. Claimed(Epoch(s)) = Claimed(Epoch(t))
            BY <2>1, <1>0, <1>4 DEF IsClaimed
        <3>2. Epoch(s) = Epoch(t)
            BY <3>1, Words
        <3>. QED
            BY <2>1, <3>2, SlotEpoch
    <2>2. CASE Slot(s) # Slot(t)
        BY <2>2, <1>0, <1>4 DEF IsClaimed
    <2>. QED
        BY <2>1, <2>2
<1>. QED
    BY <1>0, <1>1, <1>2, <1>3, <1>4, CommittedStores

\* ClaimedInv is kept.
LEMMA ClaimedStep ==
    ASSUME NoDeathInPublish, IInv, ClaimedInv, [Next]_vars
    PROVE  ClaimedInv'
<1>0. /\ head \in Nat /\ committed \in [Slots -> Commits] /\ dpc \in [Drainers -> DrainerPoints]
      /\ dseq \in [Drainers -> Nat] /\ mode \in [Drainers -> {"claim", "take", "count"}]
    BY DEF IInv, TypeOK, SegmentOK, DrainerOK
<1>1. ASSUME NEW s \in 0 .. head' - 1, IsClaimed(s)'
      PROVE  (\E d \in Drainers : HeldBy(d, s))'
    <2>0. head' = head \/ (head' = head + 1 /\ head < MaxHead)
        BY <1>0, Forward
    <2>1. s \in Nat
        BY <2>0, <1>0
    <2>2. CASE s < head
        <3>1. CASE \E d \in Drainers : HeldBy(d, s)
            <4>1. CASE Quiet
                BY <4>1, <3>1, QuietStages
            <4>2. ASSUME NEW p \in Producers, ClaimHead(p) \/ PublishCommit(p)
                  PROVE  UNCHANGED <<dpc, dseq>>
                BY <4>2 DEF ClaimHead, PublishCommit, drainer
            <4>3. ASSUME NEW d \in Drainers, ClaimWins(d) \/ TakeWins(d)
                  PROVE  \E c \in Drainers : HeldBy(c, s)'
                <5> PICK t \in Nat : t = dseq[d]
                    BY <1>0
                <5>. QED
                    BY <4>3, <3>1, WinMoves
            <4>4. ASSUME NEW d \in Drainers, ReleaseArmed(d)
                  PROVE  \E c \in Drainers : HeldBy(c, s)'
                <5> PICK t \in Nat : t = dseq[d]
                    BY <1>0
                <5>1. dpc[d] = "rel_armed" /\ committed' = committed
                    BY <4>4 DEF ReleaseArmed, DAt
                <5>2. ~IsClaimed(t)
                    BY <5>1 DEF ClaimedInv
                <5>3. s # t
                    BY <5>1, <5>2, <1>1 DEF IsClaimed
                <5>. QED
                    BY <4>4, <3>1, <5>3, ReleaseMoves
            <4>. QED
                BY <3>1, <4>1, <4>2, <4>3, <4>4, Moves DEF HeldBy, Draining
        <3>2. CASE ~IsClaimed(s)
            <4>1. PICK d \in Drainers : ClaimWins(d) /\ dseq[d] = s
                BY <2>1, <2>2, <3>2, <1>1, NewlyClaimed
            <4>. QED
                BY <4>1, <2>1, WinMoves
        <3>. QED
            BY <3>1, <3>2, <2>1, <2>2, <1>0 DEF ClaimedInv
    <2>3. CASE ~(s < head)
        <3>1. s = head /\ head' = head + 1 /\ s \in head .. MaxHead
            BY <2>3, <2>0, <1>0, <1>1, RingConstants
        <3>2. committed[Slot(s)].lap < Epoch(s) /\ Epoch(s) \in Nat
            BY <3>1, <2>1, SlotEpoch DEF IInv, LapsInv
        <3>3. committed' = committed
            <4>1. head' # head
                BY <3>1, <1>0
            <4>. QED
                BY <4>1, CommittedStores DEF PublishCommit, ClaimWins, ScanClaim, ReleaseCommitted
        <3>. QED
            BY <3>2, <3>3, <1>1, Words DEF IsClaimed
    <2>. QED
        BY <2>2, <2>3
<1>2. ASSUME NEW d \in Drainers, NEW s \in Nat, s = dseq'[d], dpc'[d] \in {"rel_owner", "rel_armed"}
      PROVE  ~IsClaimed(s)'
    <2>1. CASE DrainerStep(d)
        <3>1. \/ ReleaseCommitted(d) /\ dseq[d] = s
              \/ /\ committed' = committed /\ dseq[d] = s
                 /\ dpc[d] \in {"rel_owner", "rel_armed"}
            BY <2>1, <1>0, <1>2 DEF DrainerStep, ScanStart, AdvanceLoad, AdvanceArmed, AdvanceWords,
               ScanEnd, ScanClaim, TakeLook, TakePass, TakeCas, Drain, ReleaseClaimNs,
               ReleaseCommitted, ReleaseOwner, ReleaseArmed, ReleaseMark, ReleaseLoadTail,
               ReleaseTail, ReleaseEnd, DAt
        <3>2. CASE ReleaseCommitted(d) /\ dseq[d] = s
            <4>1. committed'[Slot(s)] = ZeroWord /\ Epoch(s) # 0
                BY <3>2, <1>0, SlotEpoch DEF ReleaseCommitted
            <4>. QED
                BY <4>1, Words DEF IsClaimed
        <3>. QED
            BY <3>1, <3>2 DEF ClaimedInv, IsClaimed
    <2>2. CASE dpc'[d] = dpc[d] /\ dseq'[d] = dseq[d]
        <3>1. Draining(d) /\ HeldBy(d, s) /\ s < head /\ ~IsClaimed(s)
            BY <2>2, <1>2 DEF Draining, HeldBy, IInv, DrainersInv, ClaimedInv
        <3>2. ASSUME NEW c \in Drainers, ClaimWins(c), dseq[c] = s
              PROVE  FALSE
            BY <3>1, <3>2, WinMoves
        <3>. QED
            BY <3>1, <3>2, NewlyClaimed
    <2>. QED
        BY <2>1, <2>2, OwnSteps
<1>3. ASSUME NEW d \in Drainers, NEW s \in Nat, s = dseq'[d], dpc'[d] = "drain", mode'[d] # "take"
      PROVE  IsClaimed(s)'
    <2>1. CASE DrainerStep(d)
        <3>1. \/ ClaimWins(d) /\ dseq[d] = s
              \/ dpc[d] = "take_cas" /\ mode'[d] = mode[d]
            BY <2>1, <1>0, <1>3 DEF DrainerStep, ScanStart, AdvanceLoad, AdvanceArmed, AdvanceWords,
               ScanEnd, ScanClaim, TakeLook, TakePass, TakeCas, Drain, ReleaseClaimNs,
               ReleaseCommitted, ReleaseOwner, ReleaseArmed, ReleaseMark, ReleaseLoadTail,
               ReleaseTail, ReleaseEnd, DAt, ClaimWins, IsPublished
        <3>2. ~(dpc[d] = "take_cas" /\ mode'[d] = mode[d])
            BY <1>3 DEF ClaimedInv
        <3>3. Slot(s) \in Slots
            BY SlotEpoch
        <3>. QED
            BY <3>1, <3>2, <3>3, <1>0 DEF ClaimWins, ScanClaim, IsPublished, IsClaimed
    <2>2. CASE dpc'[d] = dpc[d] /\ dseq'[d] = dseq[d] /\ mode'[d] = mode[d]
        <3>1. HeldBy(d, s) /\ s < head /\ IsArmed(s) /\ IsClaimed(s) /\ Slot(s) \in Slots
            BY <2>2, <1>3, SlotEpoch DEF Draining, HeldBy, IInv, DrainersInv, ClaimedInv
        <3>2. ASSUME NEW t \in Nat, IsArmed(t), t # s
              PROVE  Slot(t) # Slot(s)
            BY <3>1, <3>2, OneArmed
        <3>3. ASSUME NEW c \in Drainers, HeldBy(c, s)
              PROVE  c = d
            BY <3>1, <3>3 DEF HeldBy, IInv, DrainersInv
        <3>4. ~ReleaseCommitted(d)
            BY <2>2, <1>3 DEF ReleaseCommitted, DAt
        <3>. QED
            BY <3>1, <3>2, <3>3, <3>4, <1>0, CommittedStores DEF IsClaimed
    <2>. QED
        BY <2>1, <2>2, OwnSteps
<1>4. ASSUME NEW d \in Drainers, dpc'[d] = "take_cas"
      PROVE  mode'[d] = "take"
    <2>1. CASE DrainerStep(d)
        BY <2>1, <1>0, <1>4 DEF DrainerStep, ScanStart, AdvanceLoad, AdvanceArmed, AdvanceWords,
               ScanEnd, ScanClaim, TakeLook, TakePass, TakeCas, Drain, ReleaseClaimNs,
               ReleaseCommitted, ReleaseOwner, ReleaseArmed, ReleaseMark, ReleaseLoadTail,
               ReleaseTail, ReleaseEnd, DAt
    <2>. QED
        BY <2>1, <1>4, OwnSteps DEF ClaimedInv
<1>5. ASSUME NEW p \in Producers, ppc'[p] = "pub_owner", NEW s \in Nat, s = cur'[p]
      PROVE  StageOf(s)' # "held"
    <2>1. CASE ProducerStep(p)
        <3>1. PublishCommit(p) /\ cur[p] = s
            BY <2>1, <1>5 DEF ProducerStep, TryReserve, Flush, PublishBegin, PublishTaken,
               PublishCommit, PublishOwner, ClaimLoadHead, ClaimArmed, ClaimNotArmed, ClaimHead,
               ClaimLost, ClaimStamp, ClaimOwn, BeginWrite, BeginTaken, WriteHeader, Commit,
               EndWrite, At, AfterPublish, IInv, TypeOK, ProducerOK
        <3>. QED
            BY <3>1, PublishMoves DEF Moved
    <2>2. CASE ppc'[p] = ppc[p] /\ cur'[p] = cur[p]
        <3>1. s = cur[p] /\ ppc[p] = "pub_owner"
            BY <2>2, <1>5
        <3>2. StageOf(s) # "held"
            BY <3>1 DEF ClaimedInv
        <3>3. s < head
            BY <3>1 DEF IInv, ProducersInv, NoBlock
        <3>. QED
            BY <3>2, <3>3, <1>0, StageSteps
    <2>. QED
        BY <2>1, <2>2, OwnSteps
<1>6. IInv'
    BY Inductive
<1>7. ASSUME NEW p \in Producers, ppc'[p] = "pub_owner"
      PROVE  cur'[p] \in Nat
    <2>1. cur'[p] # NoBlock
        BY <1>6, <1>7 DEF IInv, CallInv, WithBlock
    <2>. QED
        BY <2>1, <1>6 DEF IInv, TypeOK, ProducerOK
<1>8. \A d \in Drainers : dseq'[d] \in Nat
    BY <1>6 DEF IInv, TypeOK, DrainerOK
<1>. QED
    BY <1>1, <1>2, <1>3, <1>4, <1>5, <1>7, <1>8 DEF ClaimedInv

-----------------------------------------------------------------------------
(* The data areas. *)

\* A store of cell c as the j-th of the block p has: the slot is armed for that
\* block, and no drain thread has it or may claim it.
Stores(p, j, c) ==
    /\ cur[p] \in Nat /\ cur[p] < head /\ IsArmed(cur[p]) /\ ~IsPublished(cur[p])
    /\ \A d \in Drainers : ~HeldBy(d, cur[p])
    /\ j \in 1 .. Capacity
    /\ cells' = [cells EXCEPT ![Slot(cur[p])][j] = c]
    /\ UNCHANGED <<head, armed, committed, dpc, dseq, mode, drained, cur>>

\* The three cells a producer stores into its block: the padding of publish(),
\* the header of a new record, and the same record committed.
Padding(p)     == Cell(Epoch(cur[p]), "pad", <<>>)
Reservation(p) == Cell(Epoch(cur[p]), "reserved", <<p, nrec[p] + 1>>)
Committing(p)  == Cell(Epoch(cur[p]), "committed", <<p, nrec[p]>>)

\* The block p has while it writes is its own.
LEMMA WritersBlock ==
    ASSUME IInv, NEW p \in Producers, ppc[p] \in WritePoints, Pid[p] \notin dead
    PROVE  /\ cur[p] \in Nat /\ cur[p] < head /\ IsArmed(cur[p]) /\ ~IsPublished(cur[p])
           /\ \A d \in Drainers : ~HeldBy(d, cur[p])
<1>1. cur[p] # NoBlock
    BY DEF WritePoints, WithBlock, IInv, CallInv
<1>. QED
    BY <1>1, SegmentTypes DEF IInv, ProducersInv, WritingInv

\* commit stores the header word of the record reserved last.
LEMMA CommitStores ==
    ASSUME IInv, NEW p \in Producers, Commit(p)
    PROVE  Stores(p, used[p], Committing(p))
<1>1. /\ cells' = [cells EXCEPT ![Slot(cur[p])][used[p]] = Committing(p)]
      /\ UNCHANGED <<head, armed, committed, dpc, dseq, mode, drained, cur>>
      /\ ppc[p] = "commit" /\ Pid[p] \notin dead
    BY DEF Commit, At, MySlot, MyEpoch, Committing, drainer
<1>2. used[p] \in 1 .. Capacity
    BY <1>1, RingConstants DEF IInv, CallInv, TypeOK, ProducerOK
<1>. QED
    BY <1>1, <1>2, WritersBlock DEF Stores, WritePoints

\* Three actions write into data areas, all of them of the block in hand.
LEMMA CellStores ==
    ASSUME IInv, [Next]_vars
    PROVE  \/ cells' = cells
           \/ \E p \in Producers :
                 \/ PublishBegin(p) /\ Stores(p, used[p] + 1, Padding(p))
                 \/ WriteHeader(p) /\ Stores(p, used[p] + 1, Reservation(p))
                 \/ Commit(p) /\ Stores(p, used[p], Committing(p))
<1>1. \/ cells' = cells
      \/ \E p \in Producers : \/ PublishBegin(p) /\ cells' # cells
                              \/ WriteHeader(p) \/ Commit(p)
    BY DEF Next, ProducerStep, TryReserve, Flush, PublishBegin, PublishTaken, PublishCommit,
           PublishOwner, ClaimLoadHead, ClaimArmed, ClaimNotArmed, ClaimHead, ClaimLost,
           ClaimStamp, ClaimOwn, BeginWrite, BeginTaken, EndWrite, Die,
           DrainerStep, ScanStart, AdvanceLoad, AdvanceArmed, AdvanceWords, ScanEnd,
           ScanClaim, TakeLook, TakePass, TakeCas, Drain, ReleaseClaimNs, ReleaseCommitted,
           ReleaseOwner, ReleaseArmed, ReleaseMark, ReleaseLoadTail, ReleaseTail, ReleaseEnd,
           vars, segment
<1>t. /\ ProducerOK /\ head \in Nat /\ Capacity \in Nat /\ \A p \in Producers : used[p] \in 0 .. Capacity
    BY RingConstants, SegmentTypes DEF IInv, TypeOK, ProducerOK
<1>2. ASSUME NEW p \in Producers, ppc[p] \in WithBlock
      PROVE  cur[p] \in Nat /\ cur[p] < head /\ cur[p] \in 0 .. head - 1
    <2>1. cur[p] # NoBlock
        BY <1>2 DEF IInv, CallInv
    <2>. QED
        BY <1>t, <2>1, SegmentTypes DEF IInv, ProducersInv
<1>3. ASSUME NEW p \in Producers, PublishBegin(p), cells' # cells
      PROVE  Stores(p, used[p] + 1, Padding(p))
    <2>1. /\ used[p] < Capacity
          /\ cells' = [cells EXCEPT ![Slot(cur[p])][used[p] + 1] = Padding(p)]
          /\ UNCHANGED <<head, armed, committed, dpc, dseq, mode, drained, cur>>
          /\ ppc[p] \in WithBlock /\ Idle(cur[p])
        BY <1>3 DEF PublishBegin, At, MySlot, MyEpoch, Padding, drainer, history, WithBlock, Idle
    <2>2. used[p] + 1 \in 1 .. Capacity
        BY <1>t, <2>1
    <2>3. IsArmed(cur[p]) /\ ~IsPublished(cur[p])
        BY <1>2, <2>1 DEF IInv, WordsInv
    <2>4. \A d \in Drainers : ~HeldBy(d, cur[p])
        BY <2>1 DEF HeldBy, IInv, DrainersInv
    <2>. QED
        BY <1>2, <2>1, <2>2, <2>3, <2>4 DEF Stores
<1>5. ASSUME NEW p \in Producers, WriteHeader(p)
      PROVE  Stores(p, used[p] + 1, Reservation(p))
    <2>1. /\ cells' = [cells EXCEPT ![Slot(cur[p])][used[p] + 1] = Reservation(p)]
          /\ UNCHANGED <<head, armed, committed, dpc, dseq, mode, drained, cur>>
          /\ ppc[p] = "header" /\ Pid[p] \notin dead
        BY <1>5 DEF WriteHeader, At, MySlot, MyEpoch, Reservation, drainer, history
    <2>2. used[p] + 1 \in 1 .. Capacity
        BY <1>t, <2>1 DEF IInv, CallInv
    <2>. QED
        BY <2>1, <2>2, WritersBlock DEF Stores, WritePoints
<1>. QED
    BY <1>1, <1>3, <1>5, CommitStores

\* A store changes one cell.
LEMMA OneCell ==
    ASSUME IInv, NEW p \in Producers, NEW j, NEW c, Stores(p, j, c),
           NEW i \in Slots, NEW k \in 1 .. Capacity
    PROVE  /\ i = Slot(cur[p]) /\ k = j => cells'[i][k] = c
           /\ i # Slot(cur[p]) \/ k # j => cells'[i][k] = cells[i][k]
<1>1. cells \in [Slots -> [1 .. Capacity -> Cells]]
    BY DEF IInv, TypeOK, SegmentOK
<1>. QED
    BY <1>1 DEF Stores

\* The fields of a cell.
LEMMA CellFields ==
    \A e, st, r : Cell(e, st, r).lap = e /\ Cell(e, st, r).st = st /\ Cell(e, st, r).rec = r
BY DEF Cell

\* What is stored is of the lap of the block.
LEMMA LapStores ==
    ASSUME IInv, [Next]_vars
    PROVE  \/ cells' = cells
           \/ \E p \in Producers : \E j, c : Stores(p, j, c) /\ c.lap = Epoch(cur[p])
<1>1. \A p : /\ Padding(p).lap = Epoch(cur[p]) /\ Reservation(p).lap = Epoch(cur[p])
            /\ Committing(p).lap = Epoch(cur[p])
    BY CellFields DEF Padding, Reservation, Committing
<1>2. CASE cells' = cells
    BY <1>2
<1>3. ASSUME NEW p \in Producers, \/ Stores(p, used[p] + 1, Padding(p))
                                  \/ Stores(p, used[p] + 1, Reservation(p))
                                  \/ Stores(p, used[p], Committing(p))
      PROVE  \E j, c : Stores(p, j, c) /\ c.lap = Epoch(cur[p])
    BY <1>1, <1>3
<1>. QED
    BY <1>2, <1>3, CellStores

\* A lap not claimed yet has nothing in the data area.
LEMMA FreshStep ==
    ASSUME NoDeathInPublish, IInv, CellsInv, [Next]_vars,
           NEW s \in head' .. MaxHead, NEW j \in 1 .. Capacity
    PROVE  cells'[Slot(s)][j].lap < Epoch(s)
<1>0. s \in head .. MaxHead /\ s \in Nat /\ head \in Nat /\ ~(s < head)
    <2>1. head \in Nat /\ (head' = head \/ head' = head + 1)
        BY SegmentTypes, Forward DEF IInv
    <2>. QED
        BY <2>1, RingConstants
<1>1. Slot(s) \in Slots /\ Epoch(s) \in Nat
    BY <1>0, SlotEpoch
<1>2. cells[Slot(s)][j].lap < Epoch(s)
    BY <1>0 DEF CellsInv
<1>3. ASSUME NEW p \in Producers, NEW k, NEW c, Stores(p, k, c), c.lap = Epoch(cur[p])
      PROVE  cells'[Slot(s)][j].lap < Epoch(s)
    <2>1. CASE Slot(s) = Slot(cur[p]) /\ j = k
        <3>1. cur[p] < s /\ cur[p] \in Nat
            BY <1>3, <1>0 DEF Stores
        <3>2. Epoch(cur[p]) < Epoch(s)
            BY <2>1, <3>1, <1>0, SlotEpoch
        <3>. QED
            BY <2>1, <3>2, <1>1, <1>3, OneCell
    <2>2. CASE ~(Slot(s) = Slot(cur[p]) /\ j = k)
        BY <2>2, <1>1, <1>2, <1>3, OneCell
    <2>. QED
        BY <2>1, <2>2
<1>. QED
    BY <1>2, <1>3, LapStores

\* A producer's block fills from the front.
LEMMA FilledStep ==
    ASSUME NoDeathInPublish, IInv, CellsInv, [Next]_vars,
           NEW p \in Producers, NEW s \in Nat, cur'[p] = s, IsArmed(s)'
    PROVE  /\ Filled(p)'
           /\ ppc'[p] = "pub_commit" /\ used'[p] < Capacity =>
                 cells'[Slot(s)][used'[p] + 1] = Cell(Epoch(s), "pad", <<>>)
<1>0. /\ Slot(s) \in Slots /\ Epoch(s) \in Nat /\ head \in Nat /\ Capacity \in Nat
      /\ used[p] \in 0 .. Capacity /\ nrec[p] \in Nat /\ s # NoBlock
    BY SlotEpoch, RingConstants, SegmentTypes DEF IInv, TypeOK, ProducerOK, NoBlock
<1>a. ASSUME cur[p] = s
      PROVE  /\ Filled(p) /\ s < head /\ IsArmed(s)
             /\ ppc[p] = "pub_commit" /\ used[p] < Capacity =>
                   cells[Slot(s)][used[p] + 1] = Cell(Epoch(s), "pad", <<>>)
    <2>1. s < head
        BY <1>a, <1>0 DEF IInv, ProducersInv
    <2>2. IsArmed(s)
        BY <2>1, ArmedBefore
    <2>. QED
        BY <1>a, <1>0, <2>1, <2>2 DEF CellsInv
<1>1. ASSUME ~ProducerStep(p)
      PROVE  /\ ppc'[p] = ppc[p] /\ cur'[p] = cur[p] /\ cur[p] = s
             /\ used'[p] = used[p] /\ nrec'[p] = nrec[p]
             /\ \A j \in 1 .. Capacity : cells'[Slot(s)][j] = cells[Slot(s)][j]
    <2>1. /\ ppc'[p] = ppc[p] /\ cur'[p] = cur[p] /\ cur[p] = s
          /\ used'[p] = used[p] /\ nrec'[p] = nrec[p]
        BY <1>1, OwnSteps
    <2>2. ASSUME NEW q \in Producers, NEW k, NEW c, Stores(q, k, c), q # p
          PROVE  \A j \in 1 .. Capacity : cells'[Slot(s)][j] = cells[Slot(s)][j]
        <3>1. cur[q] \in Nat /\ IsArmed(cur[q]) /\ IsArmed(s)
            BY <2>1, <2>2, <1>a DEF Stores
        <3>2. cur[q] # s
            BY <2>1, <2>2, <1>0 DEF IInv, ProducersInv
        <3>3. Slot(cur[q]) # Slot(s)
            BY <3>1, <3>2, OneArmed
        <3>. QED
            BY <3>3, <2>2, <1>0, OneCell
    <2>3. ASSUME NEW q \in Producers, PublishBegin(q) \/ WriteHeader(q) \/ Commit(q)
          PROVE  q # p
        BY <1>1, <2>3 DEF ProducerStep
    <2>. QED
        BY <2>1, <2>2, <2>3, CellStores
<1>2. CASE ~ProducerStep(p)
    <2>1. Filled(p)'
        BY <1>1, <1>2, <1>a DEF Filled
    <2>. QED
        <3>1. used[p] < Capacity => used[p] + 1 \in 1 .. Capacity
            BY <1>0
        <3>. QED
            BY <2>1, <3>1, <1>1, <1>2, <1>a
<1>3. CASE PublishBegin(p)
    <2>1. /\ cur[p] = s /\ used'[p] = used[p] /\ nrec'[p] = nrec[p]
          /\ ppc[p] = "pub_cas" /\ ppc'[p] = "pub_commit"
        BY <1>3 DEF PublishBegin, At, IInv, TypeOK, ProducerOK
    <2>2. CASE used[p] < Capacity
        <3>2. used[p] + 1 \in 1 .. Capacity
            BY <2>2, <1>0
        <3>3. /\ cells'[Slot(s)][used[p] + 1] = Cell(Epoch(s), "pad", <<>>)
              /\ \A j \in 1 .. Capacity : j # used[p] + 1 => cells'[Slot(s)][j] = cells[Slot(s)][j]
            <4>1. cells \in [Slots -> [1 .. Capacity -> Cells]]
                BY DEF IInv, TypeOK, SegmentOK
            <4>2. cells' = [cells EXCEPT ![Slot(s)][used[p] + 1] = Cell(Epoch(s), "pad", <<>>)]
                BY <1>3, <2>1, <2>2 DEF PublishBegin, MySlot, MyEpoch
            <4>. QED
                BY <4>1, <4>2, <3>2, <1>0
        <3>4. Filled(p)'
            BY <2>1, <3>3, <1>a DEF Filled
        <3>. QED
            BY <2>1, <3>3, <3>4
    <2>3. CASE ~(used[p] < Capacity)
        <3>1. cells' = cells
            BY <1>3, <2>3 DEF PublishBegin
        <3>. QED
            BY <2>1, <2>3, <3>1, <1>a DEF Filled
    <2>. QED
        BY <2>2, <2>3
<1>4. CASE WriteHeader(p)
    <2>1. /\ cur[p] = s /\ used'[p] = used[p] + 1 /\ nrec'[p] = nrec[p] + 1
          /\ ppc[p] = "header" /\ ppc'[p] = "commit"
          /\ cells' = [cells EXCEPT ![Slot(s)][used[p] + 1] =
                          Cell(Epoch(s), "reserved", <<p, nrec[p] + 1>>)]
        BY <1>4 DEF WriteHeader, At, IInv, TypeOK, ProducerOK, MySlot, MyEpoch
    <2>2. used[p] + 1 \in 1 .. Capacity
        BY <2>1, <1>0 DEF IInv, CallInv
    <2>3. /\ cells'[Slot(s)][used[p] + 1] = Cell(Epoch(s), "reserved", <<p, nrec[p] + 1>>)
          /\ \A j \in 1 .. Capacity : j # used[p] + 1 => cells'[Slot(s)][j] = cells[Slot(s)][j]
        <3>1. cells \in [Slots -> [1 .. Capacity -> Cells]]
            BY DEF IInv, TypeOK, SegmentOK
        <3>. QED
            BY <3>1, <2>1, <2>2, <1>0
    <2>4. Filled(p)'
        <3> SUFFICES ASSUME NEW j \in 1 .. Capacity
                     PROVE  \/ /\ j <= used[p] + 1 /\ j # used[p] + 1
                               /\ cells'[Slot(s)][j].lap = Epoch(s)
                               /\ cells'[Slot(s)][j].st = "committed"
                            \/ /\ j = used[p] + 1
                               /\ cells'[Slot(s)][j] = Cell(Epoch(s), "reserved", <<p, nrec[p] + 1>>)
                            \/ j > used[p] + 1 /\ cells'[Slot(s)][j].lap < Epoch(s)
            BY <2>1 DEF Filled
        <3>1. CASE j = used[p] + 1
            BY <3>1, <2>3
        <3>2. CASE j # used[p] + 1
            <4>1. \/ /\ j <= used[p] /\ cells[Slot(s)][j].lap = Epoch(s)
                     /\ cells[Slot(s)][j].st = "committed"
                  \/ j > used[p] /\ cells[Slot(s)][j].lap < Epoch(s)
                BY <2>1, <1>a DEF Filled
            <4>. QED
                BY <4>1, <3>2, <2>3, <1>0
        <3>. QED
            BY <3>1, <3>2
    <2>. QED
        BY <2>1, <2>4
<1>5. CASE Commit(p)
    <2>1. /\ cur[p] = s /\ used'[p] = used[p] /\ nrec'[p] = nrec[p]
          /\ ppc[p] = "commit" /\ ppc'[p] = "end_write"
          /\ cells' = [cells EXCEPT ![Slot(s)][used[p]] =
                          Cell(Epoch(s), "committed", <<p, nrec[p]>>)]
        BY <1>5 DEF Commit, At, IInv, TypeOK, ProducerOK, MySlot, MyEpoch
    <2>2. used[p] \in 1 .. Capacity
        BY <2>1, <1>0 DEF IInv, CallInv
    <2>3. /\ cells'[Slot(s)][used[p]] = Cell(Epoch(s), "committed", <<p, nrec[p]>>)
          /\ \A j \in 1 .. Capacity : j # used[p] => cells'[Slot(s)][j] = cells[Slot(s)][j]
        <3>1. cells \in [Slots -> [1 .. Capacity -> Cells]]
            BY DEF IInv, TypeOK, SegmentOK
        <3>. QED
            BY <3>1, <2>1, <2>2, <1>0
    <2>4. Filled(p)'
        <3> SUFFICES ASSUME NEW j \in 1 .. Capacity
                     PROVE  \/ /\ j <= used[p] /\ cells'[Slot(s)][j].lap = Epoch(s)
                               /\ cells'[Slot(s)][j].st = "committed"
                            \/ j > used[p] /\ cells'[Slot(s)][j].lap < Epoch(s)
            BY <2>1 DEF Filled
        <3>1. CASE j = used[p]
            BY <3>1, <2>2, <2>3, CellFields
        <3>2. CASE j # used[p]
            BY <3>2, <2>1, <2>3, <1>a DEF Filled
        <3>. QED
            BY <3>1, <3>2
    <2>. QED
        BY <2>1, <2>4
<1>6. CASE ClaimHead(p)
    <2>1. /\ cells' = cells /\ used' = used /\ ppc'[p] = "stamp" /\ s = head /\ head < MaxHead
          /\ ppc[p] = "cas_head"
        BY <1>6 DEF ClaimHead, At, IInv, TypeOK, ProducerOK
    <2>2. used[p] = 0
        BY <2>1 DEF IInv, CallInv, WithoutBlock
    <2>3. s \in head .. MaxHead
        BY <2>1, <1>0, RingConstants
    <2>4. \A j \in 1 .. Capacity : cells[Slot(s)][j].lap < Epoch(s) /\ j > 0
        BY <2>3 DEF CellsInv
    <2>. QED
        BY <2>1, <2>2, <2>4 DEF Filled
<1>7. CASE ProducerStep(p) /\ ~PublishBegin(p) /\ ~WriteHeader(p) /\ ~Commit(p) /\ ~ClaimHead(p)
    <2>1. /\ cells' = cells /\ used' = used /\ nrec' = nrec /\ cur[p] = s
          /\ ppc[p] # "commit" /\ ppc'[p] # "commit" /\ ppc'[p] # "pub_commit"
          /\ ppc[p] \in {"pub_commit", "pub_owner"} => ppc'[p] \in {"pub_commit", "pub_owner"}
        BY <1>7, <1>0 DEF ProducerStep, TryReserve, Flush, PublishTaken,
               PublishCommit, PublishOwner, ClaimLoadHead, ClaimArmed, ClaimNotArmed,
               ClaimLost, ClaimStamp, ClaimOwn, BeginWrite, BeginTaken, EndWrite,
               At, AfterPublish, Drop, segment, IInv, TypeOK, ProducerOK
    <2>. QED
        BY <2>1, <1>a DEF Filled
<1>. QED
    BY <1>2, <1>3, <1>4, <1>5, <1>6, <1>7

\* The data areas are filled in order, lap after lap.
LEMMA CellsStep ==
    ASSUME NoDeathInPublish, IInv, CellsInv, [Next]_vars
    PROVE  CellsInv'
<1>0. IInv'
    BY Inductive
<1>1. ASSUME NEW p \in Producers, cur'[p] # NoBlock
      PROVE  cur'[p] \in Nat
    BY <1>0, <1>1 DEF IInv, TypeOK, ProducerOK
<1>2. ASSUME NEW s \in 0 .. head' - 1, IsArmed(s)', NEW j \in 1 .. Capacity, NEW k \in 1 .. Capacity,
             k < j, cells'[Slot(s)][j].lap = Epoch(s),
             cells'[Slot(s)][j].st \in {"reserved", "committed"}
      PROVE  cells'[Slot(s)][k].lap = Epoch(s) /\ cells'[Slot(s)][k].st = "committed"
    <2>0. head \in Nat /\ (head' = head \/ head' = head + 1)
        BY SegmentTypes, Forward DEF IInv
    <2>1. s \in Nat /\ Slot(s) \in Slots /\ Epoch(s) \in Nat
        BY <2>0, SlotEpoch
    <2>2. CASE s < head
        <3>1. IsArmed(s) /\ s \in 0 .. head - 1
            BY <2>0, <2>1, <2>2, <1>2, ArmedBefore
        <3>2. CASE \A l \in 1 .. Capacity : cells'[Slot(s)][l] = cells[Slot(s)][l]
            BY <3>1, <3>2, <1>2 DEF CellsInv
        <3>3. ASSUME NEW p \in Producers, NEW l, NEW c, Stores(p, l, c), Slot(cur[p]) = Slot(s)
              PROVE  cells'[Slot(s)][k].lap = Epoch(s) /\ cells'[Slot(s)][k].st = "committed"
            <4>1. cur[p] = s /\ cur'[p] = s
                BY <3>1, <3>3, <2>1, OneArmed DEF Stores
            <4>2. Filled(p)'
                BY <4>1, <2>1, <1>2, FilledStep
            <4>3. TypeOK'
                BY <1>0 DEF IInv
            <4>4. used'[p] \in 0 .. Capacity /\ Capacity \in Nat
                BY <4>3, RingConstants DEF TypeOK, ProducerOK
            <4>5. j <= used'[p]
                BY <4>1, <4>2, <4>4, <2>1, <1>2, CellFields DEF Filled
            <4>. QED
                BY <4>1, <4>2, <4>4, <4>5, <2>1, <1>2, CellFields DEF Filled
        <3>4. ASSUME NEW p \in Producers, NEW l, NEW c, Stores(p, l, c), Slot(cur[p]) # Slot(s)
              PROVE  \A m \in 1 .. Capacity : cells'[Slot(s)][m] = cells[Slot(s)][m]
            BY <3>4, <2>1, OneCell
        <3>. QED
            BY <3>2, <3>3, <3>4, LapStores
    <2>3. CASE ~(s < head)
        <3>1. s = head /\ head' # head
            BY <2>0, <2>1, <2>3, <1>2
        <3>2. s \in head .. MaxHead /\ cells' = cells
            <4>1. head < MaxHead
                BY <3>1, Forward
            <4>2. cells' = cells
                BY <3>1, LapStores DEF Stores
            <4>. QED
                BY <4>1, <4>2, <3>1, <2>0, RingConstants
        <3>. QED
            BY <3>2, <2>1, <1>2 DEF CellsInv
    <2>. QED
        BY <2>2, <2>3
<1>. QED
    BY <1>1, <1>2, FreshStep, FilledStep DEF CellsInv

\* The headers of block s tile it, as the drain walk expects.
Tiled(s) ==
    \A j \in 1 .. Capacity :
        \/ cells[Slot(s)][j].lap = Epoch(s) /\ cells[Slot(s)][j].st \in {"committed", "pad"}
        \/ \E k \in 1 .. j - 1 : cells[Slot(s)][k] = Cell(Epoch(s), "pad", <<>>)

\* PublishedTiled with the block named by its sequence number.
LEMMA TiledDef ==
    PublishedTiled <=> \A s \in 0 .. head - 1 : IsPublished(s) \/ IsClaimed(s) => Tiled(s)
BY DEF PublishedTiled, Tiled, IsPublished, IsClaimed

\* A block is published when it is full or padded, and nobody writes into it
\* while it is published or claimed.
LEMMA TiledStep ==
    ASSUME NoDeathInPublish, IInv, ClaimedInv, CellsInv, PublishedTiled, [Next]_vars
    PROVE  PublishedTiled'
<1>0. head \in Nat /\ (head' = head \/ (head' = head + 1 /\ head < MaxHead))
      /\ committed \in [Slots -> Commits]
    BY SegmentTypes, Forward DEF IInv, TypeOK, SegmentOK
<1>1. ASSUME NEW s \in 0 .. head' - 1, (IsPublished(s) \/ IsClaimed(s))'
      PROVE  Tiled(s)'
    <2>1. s \in Nat /\ Slot(s) \in Slots /\ Epoch(s) \in Nat
        BY <1>0, SlotEpoch
    <2>2. CASE s < head /\ (IsPublished(s) \/ IsClaimed(s))
        <3>1. s \in 0 .. head - 1
            BY <2>1, <2>2, <1>0
        <3>2. Tiled(s)
            BY <2>2, <3>1, TiledDef
        <3>3. IsArmed(s) /\ (IsPublished(s) \/ \E d \in Drainers : HeldBy(d, s))
            BY <2>2, <3>1 DEF IInv, WordsInv, DrainersInv, ClaimedInv, HeldBy
        <3>4. ASSUME NEW p \in Producers, NEW j, NEW c, Stores(p, j, c)
              PROVE  Slot(s) # Slot(cur[p])
            BY <3>3, <3>4, <2>1, OneArmed DEF Stores
        <3>5. \A j \in 1 .. Capacity : cells'[Slot(s)][j] = cells[Slot(s)][j]
            BY <3>4, <2>1, LapStores, OneCell
        <3>6. \A j \in 1 .. Capacity : \A k \in 1 .. j - 1 : k \in 1 .. Capacity
            BY RingConstants
        <3>. QED
            BY <3>2, <3>5, <3>6 DEF Tiled
    <2>3. CASE s < head /\ ~IsPublished(s) /\ ~IsClaimed(s)
        <3>1. ASSUME NEW d \in Drainers, ClaimWins(d), dseq[d] = s
              PROVE  FALSE
            BY <2>3, <3>1 DEF ClaimWins
        <3>2. ~IsClaimed(s)'
            BY <2>1, <2>3, <3>1, NewlyClaimed
        <3>3. IsPublished(s)'
            BY <1>1, <3>2
        <3>4. Epoch(s) # 0
            BY <2>1, SlotEpoch
        <3>5. PICK p \in Producers : PublishCommit(p) /\ cur[p] \in Nat /\ IsArmed(cur[p])
                  /\ committed' = [committed EXCEPT ![Slot(cur[p])] = Published(Epoch(cur[p]))]
            BY <2>1, <2>3, <3>3, <3>4, <1>0, CommittedStores, Words DEF IsPublished
        <3>6. cur[p] = s
            <4>1. Slot(s) = Slot(cur[p])
                BY <3>3, <3>5, <2>1, <2>3, <1>0 DEF IsPublished
            <4>2. Published(Epoch(s)) = Published(Epoch(cur[p]))
                BY <3>3, <3>5, <4>1, <2>1, <1>0 DEF IsPublished
            <4>3. Epoch(s) = Epoch(cur[p])
                BY <4>2, Words
            <4>. QED
                BY <4>1, <4>3, <3>5, <2>1, SlotEpoch
        <3>7. /\ cells' = cells /\ ppc[p] = "pub_commit" /\ s # NoBlock
              /\ used[p] \in 0 .. Capacity /\ Capacity \in Nat
            BY <3>5, <2>1, RingConstants
            DEF PublishCommit, At, NoBlock, IInv, TypeOK, ProducerOK
        <3>8. /\ Filled(p)
              /\ used[p] < Capacity => cells[Slot(s)][used[p] + 1] = Cell(Epoch(s), "pad", <<>>)
            BY <3>5, <3>6, <3>7 DEF CellsInv
        <3>9. ASSUME NEW j \in 1 .. Capacity
              PROVE  \/ /\ cells[Slot(s)][j].lap = Epoch(s)
                        /\ cells[Slot(s)][j].st \in {"committed", "pad"}
                     \/ \E k \in 1 .. j - 1 : cells[Slot(s)][k] = Cell(Epoch(s), "pad", <<>>)
            <4>1. CASE j <= used[p]
                BY <4>1, <3>6, <3>7, <3>8, CellFields DEF Filled
            <4>2. CASE j = used[p] + 1
                BY <4>2, <3>7, <3>8, CellFields
            <4>3. CASE j > used[p] + 1
                <5>1. used[p] + 1 \in 1 .. j - 1 /\ used[p] < Capacity
                    BY <4>3, <3>7
                <5>. QED
                    BY <5>1, <3>8
            <4>. QED
                BY <4>1, <4>2, <4>3, <3>7
        <3>. QED
            BY <3>7, <3>9 DEF Tiled
    <2>4. CASE ~(s < head)
        <3>1. s = head /\ head' # head /\ s \in head .. MaxHead
            BY <2>1, <2>4, <1>0, <1>1, RingConstants
        <3>2. committed[Slot(s)].lap < Epoch(s)
            BY <3>1 DEF IInv, LapsInv
        <3>3. committed' = committed
            BY <3>1, CommittedStores DEF PublishCommit, ClaimWins, ScanClaim, ReleaseCommitted
        <3>. QED
            BY <3>2, <3>3, <2>1, <1>1, Words DEF IsClaimed, IsPublished
    <2>. QED
        BY <2>2, <2>3, <2>4
<1>. QED
    BY <1>1, TiledDef DEF PublishedTiled, Tiled, IsPublished, IsClaimed

-----------------------------------------------------------------------------
(* The records. *)

\* The walk of a drain thread meets records of its own lap only: in a block it
\* claimed because the block is tiled, in one it took over by the lap test.
LEMMA WalkOwnLap ==
    ASSUME IInv, ClaimedInv, PublishedTiled,
           NEW d \in Drainers, dpc[d] = "drain", NEW s \in Nat, s = dseq[d],
           NEW j \in Visited(s, mode[d] = "take"),
           cells[Slot(s)][j].st \in {"reserved", "committed"}
    PROVE  cells[Slot(s)][j].lap = Epoch(s)
<1>0. j \in 1 .. Capacity /\ Capacity \in Nat
    BY RingConstants DEF Visited
<1>1. CASE mode[d] = "take"
    BY <1>0, <1>1 DEF Visited
<1>2. CASE mode[d] # "take"
    <2>1. s < head /\ IsClaimed(s)
        BY <1>2 DEF ClaimedInv, IInv, DrainersInv, Draining
    <2>2. s \in 0 .. head - 1
        BY <2>1, SegmentTypes DEF IInv
    <2>3. Tiled(s)
        BY <2>1, <2>2, TiledDef
    <2>4. \A k \in 1 .. j : cells[Slot(s)][k].st # "pad"
        BY DEF Visited
    <2>5. \A k \in 1 .. j - 1 : cells[Slot(s)][k].st # "pad"
        BY <2>4, <1>0
    <2>6. \A k \in 1 .. j - 1 : cells[Slot(s)][k] # Cell(Epoch(s), "pad", <<>>)
        BY <2>5, CellFields
    <2>. QED
        BY <2>3, <2>6, <1>0 DEF Tiled
<1>. QED
    BY <1>1, <1>2

\* Once a drain thread has been through a block, the slot remembers it: first
\* by the thread's position, then by the lap it is armed for.
LEMMA WalkedStays ==
    ASSUME NoDeathInPublish, IInv, [Next]_vars, NEW i \in Slots, NEW e \in Nat, Walked(i, e)
    PROVE  Walked(i, e)'
<1>0. armed \in [Slots -> Nat] /\ armed' \in [Slots -> Nat] /\ dpc \in [Drainers -> DrainerPoints]
      /\ dseq \in [Drainers -> Nat]
    <2>1. TypeOK'
        BY CallStepInv DEF IInv
    <2>. QED
        BY <2>1 DEF IInv, TypeOK, SegmentOK, DrainerOK
<1>1. CASE armed[i] > e
    BY <1>0, <1>1, Forward DEF Walked
<1>2. ASSUME NEW d \in Drainers, Draining(d), dpc[d] # "drain", Slot(dseq[d]) = i, Epoch(dseq[d]) = e
      PROVE  Walked(i, e)'
    <2>1. CASE dpc'[d] = dpc[d] /\ dseq'[d] = dseq[d]
        BY <2>1, <1>2 DEF Walked, Draining
    <2>2. CASE ReleaseArmed(d)
        BY <2>2, <1>0, <1>2 DEF ReleaseArmed, Walked
    <2>3. CASE DrainerStep(d) /\ ~ReleaseArmed(d)
        <3>1. /\ dpc'[d] \in {"rel_committed", "rel_owner", "rel_armed"}
              /\ dseq'[d] = dseq[d]
            BY <2>3, <1>0, <1>2 DEF Draining, DrainerStep, ScanStart, AdvanceLoad, AdvanceArmed,
               AdvanceWords, ScanEnd, ScanClaim, TakeLook, TakePass, TakeCas, Drain, ReleaseClaimNs,
               ReleaseCommitted, ReleaseOwner, ReleaseMark, ReleaseLoadTail,
               ReleaseTail, ReleaseEnd, DAt
        <3>. QED
            BY <3>1, <1>2 DEF Walked, Draining
    <2>. QED
        BY <2>1, <2>2, <2>3, OwnSteps
<1>. QED
    BY <1>1, <1>2 DEF Walked

\* Where a record found in a cell after a step was before it: in the same cell,
\* or it is new.
LEMMA RecordCells ==
    ASSUME NoDeathInPublish, IInv, CellsInv, [Next]_vars,
           NEW r \in Records, NEW i \in Slots, NEW j \in 1 .. Capacity, Has(i, j, r)'
    PROVE  \/ Has(i, j, r) /\ cells'[i][j].lap = cells[i][j].lap
           \/ \E p \in Producers :
                 /\ WriteHeader(p) /\ r = <<p, nrec[p] + 1>> /\ nrec'[p] = nrec[p] + 1
                 /\ i = Slot(cur[p]) /\ j = used[p] + 1
                 /\ \A k \in Slots, l \in 1 .. Capacity :
                       Has(k, l, r)' => Has(k, l, r) \/ (k = i /\ l = j)
<1>1. CASE cells'[i][j] = cells[i][j]
    BY <1>1 DEF Has
<1>2. ASSUME NEW p \in Producers, PublishBegin(p), Stores(p, used[p] + 1, Padding(p))
      PROVE  cells'[i][j] = cells[i][j]
    <2>1. Padding(p).st = "pad"
        BY CellFields DEF Padding
    <2>. QED
        BY <2>1, <1>2, OneCell DEF Has
<1>3. ASSUME NEW p \in Producers, WriteHeader(p), Stores(p, used[p] + 1, Reservation(p)),
             cells'[i][j] # cells[i][j]
      PROVE  /\ r = <<p, nrec[p] + 1>> /\ nrec'[p] = nrec[p] + 1
             /\ i = Slot(cur[p]) /\ j = used[p] + 1
             /\ \A k \in Slots, l \in 1 .. Capacity :
                   Has(k, l, r)' => Has(k, l, r) \/ (k = i /\ l = j)
    <2>1. i = Slot(cur[p]) /\ j = used[p] + 1 /\ cells'[i][j] = Reservation(p)
        BY <1>3, OneCell
    <2>2. r = <<p, nrec[p] + 1>>
        BY <2>1, CellFields DEF Reservation, Has
    <2>3. nrec'[p] = nrec[p] + 1
        BY <1>3 DEF WriteHeader, IInv, TypeOK, ProducerOK
    <2>4. \A k \in Slots, l \in 1 .. Capacity : Has(k, l, r)' => Has(k, l, r) \/ (k = i /\ l = j)
        BY <1>3, <2>1, OneCell DEF Has
    <2>. QED
        BY <2>1, <2>2, <2>3, <2>4
<1>4. ASSUME NEW p \in Producers, Commit(p), Stores(p, used[p], Committing(p)),
             cells'[i][j] # cells[i][j]
      PROVE  Has(i, j, r) /\ cells'[i][j].lap = cells[i][j].lap
    <2>1. i = Slot(cur[p]) /\ j = used[p] /\ cells'[i][j] = Committing(p)
        BY <1>4, OneCell
    <2>2. ppc[p] = "commit" /\ cur[p] # NoBlock /\ IsArmed(cur[p]) /\ used[p] \in 0 .. Capacity
        BY <1>4 DEF Commit, At, Stores, NoBlock, IInv, TypeOK, ProducerOK
    <2>3. Filled(p)
        BY <2>2 DEF CellsInv
    <2>4. cells[i][j] = Cell(Epoch(cur[p]), "reserved", <<p, nrec[p]>>)
        BY <2>1, <2>2, <2>3 DEF Filled
    <2>. QED
        BY <2>1, <2>4, CellFields DEF Has, Committing
<1>. QED
    BY <1>1, <1>2, <1>3, <1>4, CellStores

\* How the histories of a record change.
LEMMA RecordHistory ==
    ASSUME IInv, [Next]_vars, NEW r \in Records
    PROVE  /\ \/ drained'[r] = drained[r]
              \/ \E d \in Drainers :
                    /\ Drain(d) /\ drained'[r] = drained[r] + 1 /\ cells' = cells
                    /\ \E j \in Visited(dseq[d], mode[d] = "take") :
                          /\ cells[Slot(dseq[d])][j].st = "committed"
                          /\ cells[Slot(dseq[d])][j].rec = r
           /\ r \in logged' => \/ r \in logged
                               \/ \E p \in Producers : Commit(p) /\ r = <<p, nrec[p]>>
           /\ \A p \in Producers : nrec'[p] >= nrec[p]
<1>0. drained \in [Records -> Nat] /\ nrec \in [Producers -> 0 .. MaxRecords] /\ MaxRecords \in Nat
    BY RingConstants DEF IInv, TypeOK, HistoryOK, ProducerOK
<1>1. ASSUME NEW p \in Producers, ProducerStep(p)
      PROVE  drained' = drained /\ (logged' = logged \/ (Commit(p) /\ logged' = logged \cup {<<p, nrec[p]>>}))
    BY <1>1 DEF ProducerStep, TryReserve, Flush, PublishBegin, PublishTaken, PublishCommit,
           PublishOwner, ClaimLoadHead, ClaimArmed, ClaimNotArmed, ClaimHead, ClaimLost,
           ClaimStamp, ClaimOwn, BeginWrite, BeginTaken, WriteHeader, Commit, EndWrite, history
<1>2. ASSUME NEW p \in Producers, ProducerStep(p)
      PROVE  nrec' = nrec \/ nrec' = [nrec EXCEPT ![p] = @ + 1]
    BY <1>2 DEF ProducerStep, TryReserve, Flush, PublishBegin, PublishTaken, PublishCommit,
           PublishOwner, ClaimLoadHead, ClaimArmed, ClaimNotArmed, ClaimHead, ClaimLost,
           ClaimStamp, ClaimOwn, BeginWrite, BeginTaken, WriteHeader, Commit, EndWrite
<1>3. ASSUME NEW d \in Drainers, DrainerStep(d)
      PROVE  logged' = logged /\ nrec' = nrec /\ (drained' = drained \/ Drain(d))
    BY <1>3 DEF DrainerStep, ScanStart, AdvanceLoad, AdvanceArmed, AdvanceWords, ScanEnd,
           ScanClaim, TakeLook, TakePass, TakeCas, Drain, ReleaseClaimNs, ReleaseCommitted,
           ReleaseOwner, ReleaseArmed, ReleaseMark, ReleaseLoadTail, ReleaseTail, ReleaseEnd,
           producer, history
<1>4. ASSUME NEW d \in Drainers, Drain(d), drained'[r] # drained[r]
      PROVE  /\ drained'[r] = drained[r] + 1 /\ cells' = cells
             /\ \E j \in Visited(dseq[d], mode[d] = "take") :
                   /\ cells[Slot(dseq[d])][j].st = "committed"
                   /\ cells[Slot(dseq[d])][j].rec = r
    BY <1>4, <1>0 DEF Drain, segment
<1>5. ASSUME (\E q \in Pids : Die(q)) \/ UNCHANGED vars
      PROVE  drained' = drained /\ logged' = logged /\ nrec' = nrec
    BY <1>5 DEF Die, vars, producer, history
<1>6. \A p \in Producers : nrec'[p] >= nrec[p]
    <2>1. \/ nrec' = nrec
          \/ \E p \in Producers : nrec' = [nrec EXCEPT ![p] = @ + 1]
        BY <1>2, <1>3, <1>5 DEF Next
    <2>. QED
        BY <2>1, <1>0
<1>7. r \in logged' => \/ r \in logged
                       \/ \E p \in Producers : Commit(p) /\ r = <<p, nrec[p]>>
    BY <1>1, <1>3, <1>5 DEF Next
<1>8. \/ drained'[r] = drained[r]
      \/ \E d \in Drainers : Drain(d) /\ drained'[r] # drained[r]
    BY <1>1, <1>3, <1>5 DEF Next
<1>. QED
    BY <1>4, <1>6, <1>7, <1>8

\* The cell of a record its drain thread is about to replay has not been walked
\* in its lap, and a record replayed before is not met again.
LEMMA FirstReplay ==
    ASSUME IInv, ClaimedInv, PublishedTiled, RecordsInv,
           NEW d \in Drainers, dpc[d] = "drain", NEW s \in Nat, s = dseq[d], NEW r \in Records,
           NEW j \in Visited(s, mode[d] = "take"),
           cells[Slot(s)][j].st = "committed", cells[Slot(s)][j].rec = r
    PROVE  /\ drained[r] = 0 /\ Slot(s) \in Slots /\ j \in 1 .. Capacity
           /\ Has(Slot(s), j, r) /\ cells[Slot(s)][j].lap = Epoch(s)
<1>0. Slot(s) \in Slots /\ Epoch(s) \in Nat /\ j \in 1 .. Capacity /\ drained[r] \in Nat
    BY SlotEpoch DEF Visited, IInv, TypeOK, HistoryOK
<1>1. Has(Slot(s), j, r)
    BY DEF Has
<1>2. cells[Slot(s)][j].lap = Epoch(s)
    BY WalkOwnLap
<1>3. Draining(d) /\ armed[Slot(s)] = Epoch(s)
    BY DEF Draining, IInv, DrainersInv, IsArmed
<1>4. ~Walked(Slot(s), Epoch(s))
    <2>1. ASSUME NEW c \in Drainers, Draining(c), dpc[c] # "drain",
                 Slot(dseq[c]) = Slot(s), Epoch(dseq[c]) = Epoch(s)
          PROVE  FALSE
        <3>1. dseq[c] = s
            BY <2>1, SlotEpoch, SegmentTypes DEF IInv
        <3>. QED
            BY <2>1, <3>1, <1>3 DEF IInv, DrainersInv
    <2>. QED
        BY <2>1, <1>0, <1>3 DEF Walked
<1>5. ~(drained[r] > 0)
    BY <1>0, <1>1, <1>2, <1>4 DEF RecordsInv
<1>. QED
    BY <1>0, <1>1, <1>2, <1>5

\* Records keep their cells, and are replayed from them once.
LEMMA RecordsStep ==
    ASSUME NoDeathInPublish, IInv, ClaimedInv, CellsInv, PublishedTiled, RecordsInv, [Next]_vars
    PROVE  RecordsInv'
<1>0. /\ nrec \in [Producers -> Nat] /\ nrec' \in [Producers -> Nat]
      /\ drained \in [Records -> Nat]
      /\ \A r \in Records : r[1] \in Producers /\ r[2] \in Nat
      /\ \A d \in Drainers : dseq[d] \in Nat
    <2>1. TypeOK' /\ MaxRecords \in Nat
        BY CallStepInv, RingConstants DEF IInv
    <2>2. \A r \in Records : r[1] \in Producers /\ r[2] \in Nat
        BY <2>1 DEF Records
    <2>3. \A n \in 0 .. MaxRecords : n \in Nat
        BY <2>1
    <2>. QED
        BY <2>1, <2>2, <2>3 DEF IInv, TypeOK, ProducerOK, HistoryOK, DrainerOK
<1>1. ASSUME NEW r \in Records, NEW d \in Drainers, Drain(d),
             NEW j \in Visited(dseq[d], mode[d] = "take"),
             cells[Slot(dseq[d])][j].st = "committed", cells[Slot(dseq[d])][j].rec = r
      PROVE  /\ drained[r] = 0 /\ Slot(dseq[d]) \in Slots /\ j \in 1 .. Capacity
             /\ Has(Slot(dseq[d]), j, r) /\ cells[Slot(dseq[d])][j].lap = Epoch(dseq[d])
    BY <1>0, <1>1, FirstReplay DEF Drain, DAt
<1>2. ASSUME NEW r \in Records,
             r \in logged' \/ drained'[r] > 0 \/ (\E i \in Slots, j \in 1 .. Capacity : Has(i, j, r)')
      PROVE  r[2] <= nrec'[r[1]]
    <2>1. ASSUME r[2] <= nrec[r[1]]
          PROVE  r[2] <= nrec'[r[1]]
        BY <2>1, <1>0, RecordHistory
    <2>2. CASE \E i \in Slots, j \in 1 .. Capacity : Has(i, j, r)'
        <3>1. PICK i \in Slots, j \in 1 .. Capacity : Has(i, j, r)'
            BY <2>2
        <3>2. CASE Has(i, j, r)
            BY <3>2, <2>1 DEF RecordsInv
        <3>3. ASSUME NEW p \in Producers, r = <<p, nrec[p] + 1>>, nrec'[p] = nrec[p] + 1
              PROVE  r[2] <= nrec'[r[1]]
            BY <3>3, <1>0
        <3>. QED
            BY <3>1, <3>2, <3>3, RecordCells
    <2>3. CASE r \in logged'
        <3>1. CASE r \in logged
            BY <3>1, <2>1 DEF RecordsInv
        <3>2. ASSUME NEW p \in Producers, r = <<p, nrec[p]>>
              PROVE  r[2] <= nrec[r[1]]
            BY <3>2, <1>0
        <3>. QED
            BY <2>1, <2>3, <3>1, <3>2, RecordHistory
    <2>4. CASE drained'[r] > 0
        <3>1. CASE drained'[r] = drained[r]
            BY <3>1, <2>4, <2>1 DEF RecordsInv
        <3>2. ASSUME NEW d \in Drainers, Drain(d),
                     NEW j \in Visited(dseq[d], mode[d] = "take"),
                     cells[Slot(dseq[d])][j].st = "committed", cells[Slot(dseq[d])][j].rec = r
              PROVE  r[2] <= nrec[r[1]]
            BY <3>2, <1>1 DEF RecordsInv
        <3>. QED
            BY <2>1, <3>1, <3>2, RecordHistory
    <2>. QED
        BY <1>2, <2>2, <2>3, <2>4
<1>3. ASSUME NEW r \in Records, NEW p \in Producers, r = <<p, nrec[p] + 1>>,
             \/ drained[r] > 0
             \/ \E i \in Slots, j \in 1 .. Capacity : Has(i, j, r)
      PROVE  FALSE
    <2>1. r[2] <= nrec[r[1]]
        BY <1>3 DEF RecordsInv
    <2>. QED
        BY <2>1, <1>0, <1>3
<1>4. ASSUME NEW r \in Records, NEW i \in Slots, NEW k \in Slots,
             NEW j \in 1 .. Capacity, NEW l \in 1 .. Capacity, Has(i, j, r)', Has(k, l, r)'
      PROVE  i = k /\ j = l
    <2>1. CASE Has(i, j, r) /\ Has(k, l, r)
        BY <2>1 DEF RecordsInv
    <2>2. CASE ~Has(i, j, r)
        BY <2>2, <1>3, <1>4, RecordCells
    <2>3. CASE ~Has(k, l, r)
        BY <2>3, <1>3, <1>4, RecordCells
    <2>. QED
        BY <2>1, <2>2, <2>3
<1>5. ASSUME NEW r \in Records, NEW i \in Slots, NEW j \in 1 .. Capacity, Has(i, j, r)',
             drained'[r] > 0, NEW e \in Nat, e = cells'[i][j].lap
      PROVE  Walked(i, e)'
    <2>1. CASE drained'[r] = drained[r]
        <3>1. Has(i, j, r) /\ cells'[i][j].lap = cells[i][j].lap
            BY <2>1, <1>3, <1>5, RecordCells
        <3>2. Walked(i, e)
            BY <3>1, <2>1, <1>5 DEF RecordsInv
        <3>. QED
            BY <3>2, WalkedStays
    <2>2. ASSUME NEW d \in Drainers, Drain(d), cells' = cells,
                 NEW k \in Visited(dseq[d], mode[d] = "take"),
                 cells[Slot(dseq[d])][k].st = "committed", cells[Slot(dseq[d])][k].rec = r
          PROVE  Walked(i, e)'
        <3>1. /\ Slot(dseq[d]) \in Slots /\ k \in 1 .. Capacity
              /\ Has(Slot(dseq[d]), k, r) /\ cells[Slot(dseq[d])][k].lap = Epoch(dseq[d])
            BY <2>2, <1>1
        <3>2. Has(i, j, r)
            BY <2>2, <1>5 DEF Has
        <3>3. i = Slot(dseq[d]) /\ j = k
            BY <3>1, <3>2 DEF RecordsInv
        <3>4. e = Epoch(dseq[d])
            BY <3>1, <3>3, <2>2, <1>5
        <3>5. dpc'[d] = "rel_claim_ns" /\ dseq'[d] = dseq[d]
            BY <2>2 DEF Drain, DAt, IInv, TypeOK, DrainerOK
        <3>. QED
            BY <3>3, <3>4, <3>5 DEF Walked, Draining
    <2>. QED
        BY <2>1, <2>2, RecordHistory
<1>6. IInv'
    BY Inductive
<1>7. ASSUME NEW i \in Slots, NEW j \in 1 .. Capacity
      PROVE  cells'[i][j].lap \in Nat
    <2>0. cells' \in [Slots -> [1 .. Capacity -> Cells]]
        BY <1>6 DEF IInv, TypeOK, SegmentOK
    <2>1. cells'[i][j] \in Cells
        BY <2>0
    <2>. QED
        BY <2>1 DEF Cells
<1>. QED
    BY <1>2, <1>4, <1>5, <1>7 DEF RecordsInv

\* A replay is the record's first.
LEMMA OnceStep ==
    ASSUME NoDeathInPublish, IInv, ClaimedInv, PublishedTiled, RecordsInv, DrainedOnce, [Next]_vars
    PROVE  DrainedOnce'
<1>1. ASSUME NEW r \in Records
      PROVE  drained'[r] <= 1
    <2>1. CASE drained'[r] = drained[r]
        BY <2>1 DEF DrainedOnce
    <2>2. ASSUME NEW d \in Drainers, Drain(d), drained'[r] = drained[r] + 1,
                 NEW j \in Visited(dseq[d], mode[d] = "take"),
                 cells[Slot(dseq[d])][j].st = "committed", cells[Slot(dseq[d])][j].rec = r
          PROVE  drained'[r] = 1
        <3>1. dseq[d] \in Nat /\ dpc[d] = "drain"
            BY <2>2, SegmentTypes DEF Drain, DAt, IInv
        <3>2. drained[r] = 0
            BY <2>2, <3>1, FirstReplay
        <3>. QED
            BY <2>2, <3>2
    <2>. QED
        BY <2>1, <2>2, RecordHistory
<1>. QED
    BY <1>1 DEF DrainedOnce

\* Only release arms a slot.
LEMMA ArmedStores ==
    ASSUME [Next]_vars
    PROVE  armed' = armed \/ \E d \in Drainers : ReleaseArmed(d)
BY ZenonT(60) DEF Next, ProducerStep, TryReserve, Flush, PublishBegin, PublishTaken, PublishCommit,
       PublishOwner, ClaimLoadHead, ClaimArmed, ClaimNotArmed, ClaimHead, ClaimLost,
       ClaimStamp, ClaimOwn, BeginWrite, BeginTaken, WriteHeader, Commit, EndWrite, Die,
       DrainerStep, ScanStart, AdvanceLoad, AdvanceArmed, AdvanceWords, ScanEnd,
       ScanClaim, TakeLook, TakePass, TakeCas, Drain, ReleaseClaimNs, ReleaseCommitted,
       ReleaseOwner, ReleaseMark, ReleaseLoadTail, ReleaseTail, ReleaseEnd, vars, segment

\* A committed record of a block in hand is among those the walk replays.
LEMMA WalkFinds ==
    ASSUME IInv, CellsInv, NEW d \in Drainers, Drain(d), NEW s \in Nat, s = dseq[d],
           NEW j \in 1 .. Capacity, NEW r \in Records,
           cells[Slot(s)][j] = Cell(Epoch(s), "committed", r)
    PROVE  drained'[r] = drained[r] + 1
<1>1. s < head /\ IsArmed(s)
    BY DEF Drain, DAt, Draining, IInv, DrainersInv
<1>2. s \in 0 .. head - 1 /\ Capacity \in Nat
    BY <1>1, RingConstants, SegmentTypes DEF IInv
<1>3. ASSUME NEW k \in 1 .. j
      PROVE  cells[Slot(s)][k].lap = Epoch(s) /\ cells[Slot(s)][k].st = "committed"
    <2>1. CASE k = j
        BY <2>1, CellFields
    <2>2. CASE k # j
        <3>1. k \in 1 .. Capacity /\ k < j
            BY <2>2, <1>2
        <3>2. cells[Slot(s)][j].lap = Epoch(s) /\ cells[Slot(s)][j].st = "committed"
            BY CellFields
        <3>. QED
            BY <3>1, <3>2, <1>1, <1>2 DEF CellsInv
    <2>. QED
        BY <2>1, <2>2
<1>4. j \in Visited(s, mode[d] = "take")
    BY <1>3 DEF Visited
<1>5. cells[Slot(s)][j].st = "committed" /\ cells[Slot(s)][j].rec = r
    BY CellFields
<1>. QED
    BY <1>4, <1>5 DEF Drain

\* A committed record stays where it is until it is replayed.
LEMMA KeptStep ==
    ASSUME NoDeathInPublish, IInv, CellsInv, KeptInv, [Next]_vars
    PROVE  KeptInv'
<1>0. /\ head \in Nat /\ armed \in [Slots -> Nat] /\ drained \in [Records -> Nat]
      /\ logged \subseteq Records /\ (head' = head \/ head' = head + 1)
      /\ dpc \in [Drainers -> DrainerPoints] /\ \A d \in Drainers : dseq[d] \in Nat
      /\ Capacity \in Nat /\ \A p \in Producers : used[p] \in 0 .. Capacity
    BY Forward, RingConstants
    DEF IInv, TypeOK, SegmentOK, HistoryOK, DrainerOK, ProducerOK
<1>1. ASSUME NEW r \in logged, ~(drained'[r] > 0)
      PROVE  \E s \in 0 .. head' - 1, j \in 1 .. Capacity :
                /\ cells'[Slot(s)][j] = Cell(Epoch(s), "committed", r)
                /\ IsArmed(s)'
                /\ \A d \in Drainers : HeldBy(d, s)' => dpc'[d] = "drain"
    <2>0. r \in Records
        BY <1>0
    <2>1. ~(drained[r] > 0)
        BY <1>0, <1>1, <2>0, RecordHistory
    <2>2. PICK s \in 0 .. head - 1, j \in 1 .. Capacity :
              /\ cells[Slot(s)][j] = Cell(Epoch(s), "committed", r)
              /\ IsArmed(s)
              /\ \A d \in Drainers : HeldBy(d, s) => dpc[d] = "drain"
        BY <2>1 DEF KeptInv
    <2>3. s \in Nat /\ Slot(s) \in Slots /\ Epoch(s) \in Nat /\ s \in 0 .. head' - 1 /\ s < head
        BY <1>0, SlotEpoch
    <2>4. /\ cells[Slot(s)][j].lap = Epoch(s) /\ cells[Slot(s)][j].st = "committed"
        BY <2>2, CellFields
    <2>5. ASSUME NEW p \in Producers, NEW k, NEW c, Stores(p, k, c), Slot(cur[p]) = Slot(s)
          PROVE  cur[p] = s /\ Filled(p)
        <3>1. cur[p] = s
            BY <2>2, <2>3, <2>5, OneArmed DEF Stores
        <3>. QED
            BY <3>1, <2>2, <2>3 DEF CellsInv, NoBlock
    <2>6. cells'[Slot(s)][j] = cells[Slot(s)][j]
        <3>1. ASSUME NEW p \in Producers, NEW c, Stores(p, used[p] + 1, c),
                     ppc[p] \in {"pub_cas", "header"}
              PROVE  cells'[Slot(s)][j] = cells[Slot(s)][j]
            <4>1. ASSUME Slot(cur[p]) = Slot(s)
                  PROVE  j # used[p] + 1
                <5>1. cur[p] = s /\ Filled(p)
                    BY <3>1, <4>1, <2>5
                <5>2. j <= used[p]
                    BY <5>1, <3>1, <2>3, <2>4, <1>0, CellFields DEF Filled
                <5>. QED
                    BY <5>2, <1>0
            <4>. QED
                BY <4>1, <3>1, <2>3, OneCell
        <3>2. ASSUME NEW p \in Producers, NEW c, Stores(p, used[p], c), ppc[p] = "commit"
              PROVE  cells'[Slot(s)][j] = cells[Slot(s)][j]
            <4>1. ASSUME Slot(cur[p]) = Slot(s)
                  PROVE  j # used[p]
                <5>1. cur[p] = s /\ Filled(p)
                    BY <3>2, <4>1, <2>5
                <5>. QED
                    BY <5>1, <3>2, <2>3, <2>4, <1>0, CellFields DEF Filled
            <4>. QED
                BY <4>1, <3>2, <2>3, OneCell
        <3>3. ASSUME NEW p \in Producers
              PROVE  /\ PublishBegin(p) => ppc[p] = "pub_cas"
                     /\ WriteHeader(p) => ppc[p] = "header"
                     /\ Commit(p) => ppc[p] = "commit"
            BY DEF PublishBegin, WriteHeader, Commit, At
        <3>. QED
            BY <3>1, <3>2, <3>3, CellStores
    <2>7. IsArmed(s)'
        <3>1. ASSUME NEW d \in Drainers, ReleaseArmed(d)
              PROVE  armed'[Slot(s)] = armed[Slot(s)]
            <4>1. /\ HeldBy(d, dseq[d]) /\ IsArmed(dseq[d]) /\ dpc[d] = "rel_armed"
                  /\ armed' = [armed EXCEPT ![Slot(dseq[d])] = Epoch(dseq[d]) + 1]
                BY <3>1 DEF ReleaseArmed, DAt, HeldBy, Draining, IInv, DrainersInv
            <4>2. dseq[d] # s
                BY <4>1, <2>2
            <4>3. Slot(dseq[d]) # Slot(s)
                BY <4>1, <4>2, <2>2, <2>3, <1>0, OneArmed
            <4>. QED
                BY <4>1, <4>3, <2>3, <1>0
        <3>. QED
            BY <3>1, <2>2, ArmedStores DEF IsArmed
    <2>8. ASSUME NEW d \in Drainers, HeldBy(d, s)'
          PROVE  dpc'[d] = "drain"
        <3>1. CASE dpc'[d] = dpc[d] /\ dseq'[d] = dseq[d]
            BY <3>1, <2>2, <2>8 DEF HeldBy, Draining
        <3>2. CASE DrainerStep(d) /\ dpc'[d] # "drain"
            <4>1. /\ dpc[d] \in {"drain", "rel_claim_ns", "rel_committed", "rel_owner"}
                  /\ dseq[d] = s
                  /\ dpc[d] = "drain" => Drain(d)
                BY <3>2, <2>8, <1>0 DEF HeldBy, Draining, DrainerStep, ScanStart, AdvanceLoad,
                   AdvanceArmed, AdvanceWords, ScanEnd, ScanClaim, TakeLook, TakePass, TakeCas,
                   Drain, ReleaseClaimNs, ReleaseCommitted, ReleaseOwner, ReleaseArmed,
                   ReleaseMark, ReleaseLoadTail, ReleaseTail, ReleaseEnd, DAt
            <4>2. HeldBy(d, s)
                BY <4>1 DEF HeldBy, Draining
            <4>3. Drain(d)
                BY <4>1, <4>2, <2>2
            <4>4. drained'[r] = drained[r] + 1
                BY <4>1, <4>3, <2>0, <2>2, <2>3, WalkFinds
            <4>. QED
                BY <4>4, <2>0, <1>0, <1>1
        <3>. QED
            BY <3>1, <3>2, OwnSteps
    <2>. QED
        BY <2>2, <2>3, <2>6, <2>7, <2>8
<1>2. ASSUME NEW r \in logged', r \notin logged
      PROVE  \E s \in 0 .. head' - 1, j \in 1 .. Capacity :
                /\ cells'[Slot(s)][j] = Cell(Epoch(s), "committed", r)
                /\ IsArmed(s)'
                /\ \A d \in Drainers : HeldBy(d, s)' => dpc'[d] = "drain"
    <2>1. r \in Records
        <3>1. TypeOK'
            BY CallStepInv DEF IInv
        <3>. QED
            BY <3>1, <1>2 DEF TypeOK, HistoryOK
    <2>2. PICK p \in Producers : Commit(p) /\ r = <<p, nrec[p]>>
        BY <2>1, <1>2, RecordHistory
    <2>3. Stores(p, used[p], Committing(p))
        BY <2>2, CommitStores
    <2>4. PICK s \in Nat : s = cur[p]
        BY <2>3 DEF Stores
    <2>5. s \in 0 .. head' - 1 /\ IsArmed(s)' /\ \A d \in Drainers : ~HeldBy(d, s)'
        BY <2>3, <2>4, <1>0 DEF Stores, IsArmed, HeldBy, Draining
    <2>6. cells'[Slot(s)][used[p]] = Cell(Epoch(s), "committed", r) /\ used[p] \in 1 .. Capacity
        <3>1. Slot(s) \in Slots /\ used[p] \in 1 .. Capacity
            BY <2>3, SlotEpoch DEF Stores
        <3>2. cells'[Slot(s)][used[p]] = Committing(p)
            BY <3>1, <2>3, <2>4, OneCell
        <3>. QED
            BY <3>1, <3>2, <2>2, <2>4 DEF Committing
    <2>. QED
        BY <2>5, <2>6
<1>. QED
    BY <1>1, <1>2 DEF KeptInv

\* The stores into the owner word of the slot of a block that stays held: by its
\* own producer, or by the late last store of publish() of an earlier lap.
LEMMA OwnerStores ==
    ASSUME NoDeathInPublish, IInv, CursorsInv, ClaimedInv, [Next]_vars,
           NEW s \in Nat, s < head, StageOf(s) = "held", StageOf(s)' = "held",
           Idle(s) \/ BeingWritten(s)
    PROVE  s \in overtaken' \/ Idle(s)' \/ BeingWritten(s)'
<1>0. /\ Slot(s) \in Slots /\ Epoch(s) \in Nat /\ owner \in [Slots -> Owners] /\ head \in Nat
      /\ head <= MaxHead /\ MaxHead \in Nat /\ s \in 0 .. head - 1
    BY SlotEpoch, RingConstants DEF IInv, TypeOK, SegmentOK, CursorsInv
<1>1. IsArmed(s) /\ \A d \in Drainers : ~HeldBy(d, s)
    <2>1. IsArmed(s)
        BY ArmedStages
    <2>2. ~(armed[Slot(s)] > Epoch(s)) /\ ~(s >= head)
        BY <2>1, <1>0, ArmedStages
    <2>. QED
        BY <2>1, <2>2 DEF StageOf, HeldBy
<1>2. CASE owner'[Slot(s)] = owner[Slot(s)]
    BY <1>2 DEF Idle, BeingWritten
<1>3. ASSUME NEW p \in Producers, ProducerStep(p), ~PublishOwner(p),
             owner'[Slot(s)] # owner[Slot(s)]
      PROVE  Idle(s)' \/ BeingWritten(s)'
    <2>1. /\ \E st \in {"IDLE", "WRITING"} :
                owner' = [owner EXCEPT ![Slot(cur[p])] = OwnerWord(Epoch(cur[p]), st)]
          /\ \/ ppc[p] \in WritePoints /\ Pid[p] \notin dead
             \/ ppc[p] = "own"
             \/ ppc[p] \in WithBlock /\ Idle(cur[p])
        BY <1>3 DEF ProducerStep, TryReserve, Flush, PublishBegin, PublishTaken, PublishCommit,
           ClaimLoadHead, ClaimArmed, ClaimNotArmed, ClaimHead, ClaimLost,
           ClaimStamp, ClaimOwn, BeginWrite, BeginTaken, WriteHeader, Commit, EndWrite, segment,
           At, MySlot, MyEpoch, WritePoints, WithBlock, Idle
    <2>2. cur[p] \in Nat /\ IsArmed(cur[p])
        <3>1. ppc[p] \in WithBlock
            BY <2>1 DEF WritePoints, WithBlock
        <3>2. cur[p] \in Nat /\ cur[p] \in 0 .. head - 1
            BY <3>1, <1>0, SegmentTypes DEF IInv, CallInv, ProducersInv
        <3>. QED
            BY <3>2, <2>1 DEF IInv, WritingInv, ClaimingInv, WordsInv
    <2>3. Slot(cur[p]) = Slot(s)
        BY <2>1, <1>0, <1>3
    <2>4. cur[p] = s
        BY <2>2, <2>3, <1>1, OneArmed
    <2>. QED
        BY <2>1, <2>4, <1>0 DEF Idle, BeingWritten
<1>4. ASSUME NEW p \in Producers, PublishOwner(p), owner'[Slot(s)] # owner[Slot(s)]
      PROVE  s \in overtaken'
    <2>1. /\ ppc[p] = "pub_owner"
          /\ owner' = [owner EXCEPT ![Slot(cur[p])] = OwnerWord(Epoch(cur[p]), "PUBLISHED")]
          /\ overtaken' = overtaken \cup
                {t \in 0 .. MaxHead : /\ Slot(t) = Slot(cur[p]) /\ t > cur[p]
                                     /\ Epoch(t) = owner[Slot(cur[p])].lap}
        BY <1>4 DEF PublishOwner, At, MySlot, MyEpoch
    <2>2. cur[p] \in Nat /\ cur[p] \in 0 .. head - 1
        BY <2>1, <1>0, SegmentTypes DEF IInv, CallInv, WithBlock, ProducersInv
    <2>3. Slot(cur[p]) = Slot(s)
        BY <2>1, <1>0, <1>4
    <2>4. cur[p] # s
        BY <2>1 DEF ClaimedInv
    <2>5. s > cur[p]
        <3>1. cur[p] < head
            BY <2>2, <1>0
        <3>2. Epoch(cur[p]) < Epoch(s)
            BY <2>2, <2>3, <2>4, <3>1, <1>1, OthersDone
        <3>3. ~(s < cur[p])
            BY <3>2, <2>2, <2>3, <1>0, SlotEpoch
        <3>. QED
            BY <3>3, <2>2, <2>4, <1>0
    <2>6. owner[Slot(s)].lap = Epoch(s)
        BY Words DEF Idle, BeingWritten
    <2>7. s \in 0 .. MaxHead
        BY <1>0
    <2>. QED
        BY <2>1, <2>3, <2>5, <2>6, <2>7
<1>5. ASSUME NEW d \in Drainers, DrainerStep(d), owner'[Slot(s)] # owner[Slot(s)]
      PROVE  FALSE
    <2>0. dseq[d] \in Nat
        BY SegmentTypes DEF IInv
    <2>1. TakeWins(d) \/ ReleaseOwner(d)
        BY <1>5 DEF DrainerStep, ScanStart, AdvanceLoad, AdvanceArmed, AdvanceWords, ScanEnd,
           ScanClaim, TakeLook, TakePass, TakeCas, Drain, ReleaseClaimNs, ReleaseCommitted,
           ReleaseArmed, ReleaseMark, ReleaseLoadTail, ReleaseTail, ReleaseEnd,
           TakeWins, segment
    <2>2. Slot(dseq[d]) = Slot(s)
        BY <2>1, <1>0, <1>5 DEF TakeWins, TakeCas, ReleaseOwner
    <2>3. CASE ReleaseOwner(d)
        <3>1. HeldBy(d, dseq[d]) /\ IsArmed(dseq[d])
            BY <2>3 DEF ReleaseOwner, DAt, HeldBy, Draining, IInv, DrainersInv
        <3>2. dseq[d] = s
            BY <3>1, <2>0, <2>2, <1>1, OneArmed
        <3>. QED
            BY <3>1, <3>2, <1>1
    <2>4. CASE TakeWins(d)
        <3> PICK t \in Nat : t = dseq[d]
            BY <2>0
        <3>1. /\ t < head
              /\ Moved(t, "ready", "draining") \/ Moved(t, "held", "draining")
            BY <2>4, WinMoves
        <3>2. IsArmed(t)
            BY <3>1, ArmedStages DEF Moved
        <3>3. t = s
            BY <3>2, <2>2, <1>1, OneArmed
        <3>. QED
            BY <3>1, <3>3 DEF Moved
    <2>. QED
        BY <2>1, <2>3, <2>4
<1>6. ASSUME (\E q \in Pids : Die(q)) \/ UNCHANGED vars
      PROVE  owner' = owner
    BY <1>6 DEF Die, vars, segment
<1>. QED
    BY <1>2, <1>3, <1>4, <1>5, <1>6 DEF Next

\* A held block is known to its producer or by its owner word.
LEMMA KnownStep ==
    ASSUME NoDeathInPublish, IInv, CursorsInv, ClaimedInv, KnownInv, [Next]_vars
    PROVE  KnownInv'
<1>0. head \in Nat /\ (head' = head \/ head' = head + 1)
    BY SegmentTypes, Forward, SMTT(20) DEF IInv
<1>1. overtaken \subseteq overtaken'
    BY ZenonT(60) DEF Next, ProducerStep, TryReserve, Flush, PublishBegin, PublishTaken, PublishCommit,
       PublishOwner, ClaimLoadHead, ClaimArmed, ClaimNotArmed, ClaimHead, ClaimLost,
       ClaimStamp, ClaimOwn, BeginWrite, BeginTaken, WriteHeader, Commit, EndWrite, Die,
       DrainerStep, ScanStart, AdvanceLoad, AdvanceArmed, AdvanceWords, ScanEnd,
       ScanClaim, TakeLook, TakePass, TakeCas, Drain, ReleaseClaimNs, ReleaseCommitted,
       ReleaseOwner, ReleaseArmed, ReleaseMark, ReleaseLoadTail, ReleaseTail, ReleaseEnd,
       vars, history
<1>2. ASSUME NEW s \in 0 .. head' - 1, StageOf(s)' = "held"
      PROVE  \/ s \in overtaken' \/ Idle(s)' \/ BeingWritten(s)'
             \/ \E p \in Producers : cur'[p] = s /\ ppc'[p] \in {"stamp", "own"}
    <2>1. s \in Nat
        BY <1>0
    <2>2. CASE StageOf(s) # "held"
        <3>1. PICK p \in Producers : ClaimHead(p) /\ s = head
            BY <2>1, <2>2, <1>2, StageSteps
        <3>2. cur'[p] = s /\ ppc'[p] = "stamp"
            BY <3>1 DEF ClaimHead, At, IInv, TypeOK, ProducerOK
        <3>. QED
            BY <3>2
    <2>3. CASE StageOf(s) = "held"
        <3>1. s < head /\ s \in 0 .. head - 1
            BY <2>1, <2>3, <1>0 DEF StageOf
        <3>2. CASE s \in overtaken
            BY <3>2, <1>1
        <3>3. CASE Idle(s) \/ BeingWritten(s)
            BY <2>1, <2>3, <3>1, <3>3, <1>2, OwnerStores
        <3>4. ASSUME NEW p \in Producers, cur[p] = s, ppc[p] \in {"stamp", "own"}
              PROVE  Idle(s)' \/ (cur'[p] = s /\ ppc'[p] \in {"stamp", "own"})
            <4>1. CASE ppc'[p] = ppc[p] /\ cur'[p] = cur[p]
                BY <4>1, <3>4
            <4>2. CASE ProducerStep(p)
                <5>1. ClaimStamp(p) \/ ClaimOwn(p)
                    BY <4>2, <3>4 DEF ProducerStep, TryReserve, Flush, PublishBegin, PublishTaken,
                       PublishCommit, PublishOwner, ClaimLoadHead, ClaimArmed, ClaimNotArmed,
                       ClaimHead, ClaimLost, BeginWrite, BeginTaken, WriteHeader, Commit,
                       EndWrite, At
                <5>2. CASE ClaimStamp(p)
                    BY <5>2, <3>4 DEF ClaimStamp, At, IInv, TypeOK, ProducerOK
                <5>3. CASE ClaimOwn(p)
                    <6>1. owner' = [owner EXCEPT ![Slot(s)] = OwnerWord(Epoch(s), "IDLE")]
                        BY <5>3, <3>4 DEF ClaimOwn, MySlot, MyEpoch
                    <6>. QED
                        BY <6>1, <2>1, SlotEpoch DEF Idle, IInv, TypeOK, SegmentOK
                <5>. QED
                    BY <5>1, <5>2, <5>3
            <4>. QED
                BY <4>1, <4>2, OwnSteps
        <3>. QED
            BY <2>3, <3>1, <3>2, <3>3, <3>4 DEF KnownInv
    <2>. QED
        BY <2>2, <2>3
<1>. QED
    BY <1>2 DEF KnownInv

-----------------------------------------------------------------------------
(* The theorems. *)

\* The parts about committed words, data areas and records, together.
LedgerInv ==
    /\ ClaimedInv
    /\ CellsInv
    /\ PublishedTiled
    /\ RecordsInv
    /\ DrainedOnce
    /\ KnownInv
    /\ KeptInv

\* The formatted segment has no records.
LEMMA LedgerInit == Init => LedgerInv
<1> SUFFICES ASSUME Init PROVE LedgerInv
    OBVIOUS
<1>1. ClaimedInv /\ PublishedTiled /\ KnownInv /\ KeptInv /\ DrainedOnce
    <2>1. ClaimedInv
        BY DEF Init, ClaimedInv
    <2>2. PublishedTiled /\ KnownInv
        BY DEF Init, PublishedTiled, KnownInv
    <2>3. KeptInv /\ DrainedOnce
        BY DEF Init, KeptInv, DrainedOnce
    <2>. QED
        BY <2>1, <2>2, <2>3
<1>2. \A i \in Slots, j \in 1 .. Capacity : cells[i][j] = Cell(0, "none", <<>>)
    BY DEF Init
<1>3. CellsInv
    <2>1. head = 0 /\ MaxHead \in Nat /\ \A p \in Producers : cur[p] = NoBlock
        BY RingConstants DEF Init
    <2>2. ASSUME NEW s \in head .. MaxHead, NEW j \in 1 .. Capacity
          PROVE  cells[Slot(s)][j].lap < Epoch(s)
        <3>1. s \in Nat
            BY <2>1
        <3>2. Slot(s) \in Slots /\ Epoch(s) > 0
            BY <3>1, SlotEpoch
        <3>. QED
            BY <3>2, <1>2, CellFields
    <2>. QED
        BY <2>1, <2>2 DEF CellsInv
<1>4. RecordsInv
    <2>1. \A r \in Records, i \in Slots, j \in 1 .. Capacity : ~Has(i, j, r)
        BY <1>2, CellFields DEF Has
    <2>2. \A r \in Records : ~(drained[r] > 0) /\ r \notin logged
        BY DEF Init
    <2>. QED
        BY <2>1, <2>2 DEF RecordsInv
<1>. QED
    BY <1>1, <1>3, <1>4 DEF LedgerInv

\* They hold throughout.
LEMMA LedgerAlways == ASSUME NoDeathInPublish PROVE Spec => []LedgerInv
<1>1. Init => LedgerInv
    BY LedgerInit
<1>2. IInv /\ CursorsInv /\ LedgerInv /\ [Next]_vars => LedgerInv'
    BY ClaimedStep, CellsStep, TiledStep, RecordsStep, OnceStep, KnownStep, KeptStep
    DEF LedgerInv
<1>3. Spec => []IInv
    BY InvAlways
<1>. QED
    BY <1>1, <1>2, <1>3, CursorsAlways, PTL DEF Spec

\* A block that its committed word calls published or claimed is complete: what
\* the drain walk meets are committed records of the block's lap, up to the end
\* of the block or its padding.
THEOREM BlocksTiled == ASSUME NoDeathInPublish PROVE Spec => []PublishedTiled
<1>1. LedgerInv => PublishedTiled
    BY DEF LedgerInv
<1>. QED
    BY <1>1, LedgerAlways, PTL

\* No record is replayed twice, whichever of claim and take_over gets its block,
\* whoever dies meanwhile (other than inside the last two stores of publish).
THEOREM NoRecordTwice == ASSUME NoDeathInPublish PROVE Spec => []DrainedOnce
<1>1. LedgerInv => DrainedOnce
    BY DEF LedgerInv
<1>. QED
    BY <1>1, LedgerAlways, PTL

\* A committed record that has not been replayed is in a block somebody can
\* still drain, except where the last store of publish() of an earlier lap
\* overwrote the block's owner word.
THEOREM LossNeedsOvertaking == ASSUME NoDeathInPublish PROVE Spec => []LostOnlyIfOvertaken
<1>1. ASSUME IInv, LedgerInv
      PROVE  LostOnlyIfOvertaken
    <2> SUFFICES ASSUME NEW r \in logged, ~(drained[r] > 0)
                 PROVE  \E s \in 0 .. head - 1 :
                           /\ \E j \in 1 .. Capacity :
                                 cells[Slot(s)][j] = Cell(Epoch(s), "committed", r)
                           /\ InReach(s) \/ s \in overtaken
        BY DEF LostOnlyIfOvertaken, KeptOr
    <2>1. PICK s \in 0 .. head - 1, j \in 1 .. Capacity :
              /\ cells[Slot(s)][j] = Cell(Epoch(s), "committed", r)
              /\ IsArmed(s)
              /\ \A d \in Drainers : HeldBy(d, s) => dpc[d] = "drain"
        BY <1>1 DEF LedgerInv, KeptInv
    <2>2. s \in Nat /\ s < head /\ Epoch(s) \in Nat
        BY <1>1, SegmentTypes, SlotEpoch DEF IInv
    <2>3. CASE StageOf(s) # "held"
        <3>1. (\E d \in Drainers : HeldBy(d, s)) \/ IsPublished(s)
            BY <1>1, <2>1, <2>2, <2>3, ArmedStages DEF StageOf, HeldBy, IsPublished
        <3>. QED
            BY <3>1, <2>1 DEF InReach, IsArmed, IsPublished, HeldBy
    <2>4. ASSUME NEW p \in Producers, cur[p] = s, ppc[p] \in {"stamp", "own"}
          PROVE  FALSE
        <3>1. Filled(p) /\ used[p] = 0
            BY <1>1, <2>1, <2>2, <2>4 DEF LedgerInv, CellsInv, NoBlock, IInv, CallInv
        <3>2. cells[Slot(s)][j].lap = Epoch(s)
            BY <2>1, CellFields
        <3>. QED
            BY <3>1, <3>2, <2>2, <2>4 DEF Filled
    <2>5. CASE StageOf(s) = "held"
        <3>1. s \in overtaken \/ Idle(s) \/ BeingWritten(s)
            BY <1>1, <2>4, <2>5 DEF LedgerInv, KnownInv
        <3>. QED
            BY <3>1, <2>1 DEF InReach, IsArmed, Idle, BeingWritten
    <2>. QED
        BY <2>3, <2>5
<1>2. IInv /\ LedgerInv => LostOnlyIfOvertaken
    BY <1>1
<1>. QED
    BY <1>2, InvAlways, LedgerAlways, PTL

=============================================================================
