------------------------------- MODULE RingInv -------------------------------
(***************************************************************************)
(* The inductive invariant behind Exclusive and BlocksLiveOnce of module   *)
(* Ring (IInv), and what the other properties need on top of it: the       *)
(* cursors (CursorsInv) and the records (ClaimedInv to KeptInv).  It holds *)
(* as long as no process is killed between the two stores of publish()     *)
(* (NoDeathInPublish); everywhere else a process may die.                  *)
(***************************************************************************)
EXTENDS Ring

NoDeathInPublish == "pub_owner" \notin DeathPoints

\* Points at which a producer has a block, and at which it has none.
WithBlock    == {"pub_cas", "pub_commit", "pub_owner", "stamp", "own", "begin",
                 "header", "commit", "end_write"}
WithoutBlock == {"load_head", "load_armed", "cas_head"}

\* Points at which the block is WRITING and not yet published.
WritePoints == {"pub_commit", "header", "commit", "end_write"}

Idle(s)       == owner[Slot(s)] = OwnerWord(Epoch(s), "IDLE")
BeingWritten(s) == owner[Slot(s)] = OwnerWord(Epoch(s), "WRITING")
IsPublished(s)  == committed[Slot(s)] = Published(Epoch(s))
IsClaimed(s)    == committed[Slot(s)] = Claimed(Epoch(s))
IsArmed(s)      == armed[Slot(s)] = Epoch(s)
HeldBy(d, s)    == Draining(d) /\ dseq[d] = s

\* Where a producer is in its call says whether it has a block, and whether
\* there is room in it for the record it is about to write.
CallInv ==
    \A p \in Producers :
        /\ ppc[p] \in WithBlock => cur[p] # NoBlock
        /\ ppc[p] \in WithoutBlock => cur[p] = NoBlock
        /\ cur[p] = NoBlock \/ ppc[p] \in {"stamp", "own"} => used[p] = 0
        /\ ppc[p] \in {"begin", "header"} => used[p] < Capacity
        /\ ppc[p] = "commit" => used[p] > 0 /\ nrec[p] > 0
        /\ ppc[p] \in WithoutBlock \cup {"stamp", "own", "begin", "header"} =>
              goal[p] = "reserve"
        /\ goal[p] = "reserve" /\ ppc[p] \notin {"idle", "commit", "end_write"} =>
              nrec[p] < MaxRecords

\* A block belongs to the one producer that moved head over it, and until it
\* is released its owner_pid is that of this producer's process.
ProducersInv ==
    /\ \A p \in Producers :
          /\ cur[p] # NoBlock => cur[p] < head
          /\ ppc[p] = "cas_head" => armed[Slot(seen[p])] >= Epoch(seen[p])
          /\ Pid[p] \in dead => ppc[p] \in DeathPoints
          /\ cur[p] # NoBlock /\ ppc[p] # "stamp" /\ IsArmed(cur[p]) =>
                owner_pid[Slot(cur[p])] = Pid[p]
    /\ \A p, q \in Producers : p # q /\ cur[p] # NoBlock => cur[p] # cur[q]

\* Behind head every slot is armed at least for the block's lap, ahead of it
\* at most; the words of a block not yet claimed are of earlier laps.
LapsInv ==
    /\ \A s \in 0 .. head - 1 : armed[Slot(s)] >= Epoch(s)
    /\ \A s \in head .. MaxHead :
          /\ armed[Slot(s)] <= Epoch(s)
          /\ owner[Slot(s)].lap < Epoch(s)
          /\ committed[Slot(s)].lap < Epoch(s)

\* A producer that has just claimed a block is alone with it.
ClaimingInv ==
    \A p \in Producers : ppc[p] \in {"stamp", "own"} =>
        /\ IsArmed(cur[p])
        /\ owner[Slot(cur[p])].lap < Epoch(cur[p])
        /\ committed[Slot(cur[p])].lap < Epoch(cur[p])
        /\ \A d \in Drainers : ~HeldBy(d, cur[p])

\* A block being written into is unpublished, and while its writer lives no
\* drain thread has it.
WritingInv ==
    \A p \in Producers : ppc[p] \in WritePoints =>
        /\ ~IsPublished(cur[p])
        /\ Pid[p] \notin dead =>
              /\ IsArmed(cur[p])
              /\ BeingWritten(cur[p]) \/ owner[Slot(cur[p])].lap < Epoch(cur[p])
              /\ \A d \in Drainers : ~HeldBy(d, cur[p])

\* What the owner and committed words of a claimed block say is true of it.
WordsInv ==
    \A s \in 0 .. head - 1 :
        /\ Idle(s) => IsArmed(s)
        /\ BeingWritten(s) =>
              /\ IsArmed(s)
              /\ \E p \in Producers :
                    cur[p] = s /\ ppc[p] \in WritePoints \cup {"pub_owner"}
        /\ IsPublished(s) =>
              /\ IsArmed(s)
              /\ ~Idle(s)
              /\ BeingWritten(s) =>
                    \E p \in Producers : cur[p] = s /\ ppc[p] = "pub_owner"

\* A drain thread has its block to itself until it arms the next lap.
DrainersInv ==
    /\ \A d \in Drainers :
          /\ dhead[d] <= head
          /\ dpc[d] = "take_cas" =>
                /\ dseq[d] < head
                /\ \/ downer[d] = OwnerWord(Epoch(dseq[d]), "IDLE")
                   \/ /\ downer[d] = OwnerWord(Epoch(dseq[d]), "WRITING")
                      /\ \E p \in Producers : cur[p] = dseq[d] /\ Pid[p] \in dead
          /\ Draining(d) =>
                /\ dseq[d] < head
                /\ IsArmed(dseq[d])
                /\ ~IsPublished(dseq[d])
                /\ ~Idle(dseq[d])
                /\ BeingWritten(dseq[d]) =>
                      /\ dpc[d] # "rel_armed"
                      /\ \E p \in Producers : cur[p] = dseq[d] /\ ppc[p] = "pub_owner"
    /\ \A c, d \in Drainers :
          c # d /\ Draining(c) /\ Draining(d) => dseq[c] # dseq[d]

\* The parts together hold initially and are kept by every step.
IInv ==
    /\ TypeOK
    /\ CallInv
    /\ ProducersInv
    /\ LapsInv
    /\ ClaimingInv
    /\ WritingInv
    /\ WordsInv
    /\ DrainersInv

-----------------------------------------------------------------------------
(* What the cursors, the data areas and the histories add to it. *)

\* A block that next_ may pass: released, or in a drain thread's hands.
Handled(s) == armed[Slot(s)] > Epoch(s) \/ \E d \in Drainers : HeldBy(d, s)

\* next_ moves over blocks that done() has seen below the head, tail_ over
\* blocks with a mark, and a mark is stored after the block is armed again.
CursorsInv ==
    /\ head <= MaxHead
    /\ \A d \in Drainers :
          /\ dpc[d] = "advance_words" => dseq[d] < dhead[d]
          /\ dpc[d] = "rel_mark" => armed[Slot(dseq[d])] > Epoch(dseq[d])
    /\ \A s \in 0 .. head - 1 : DoneWords(s) => Handled(s)
    /\ \A i \in Slots : released[i] # 0 =>
          Slot(released[i] - 1) = i /\ armed[i] > Epoch(released[i] - 1)

\* The committed word says claimed only while a drain thread has the block and
\* has not cleared it; a published block stays so until a drain thread has it.
ClaimedInv ==
    /\ \A s \in 0 .. head - 1 : IsClaimed(s) => \E d \in Drainers : HeldBy(d, s)
    /\ \A d \in Drainers :
          /\ dpc[d] \in {"rel_owner", "rel_armed"} => ~IsClaimed(dseq[d])
          /\ dpc[d] = "drain" /\ mode[d] # "take" => IsClaimed(dseq[d])
          /\ dpc[d] = "take_cas" => mode[d] = "take"
    /\ \A p \in Producers : ppc[p] = "pub_owner" => StageOf(cur[p]) # "held"

\* The cells of a producer's block while its slot is armed for it: committed
\* records up to used_, the last of them perhaps not committed yet, and behind
\* them nothing of this lap but the padding that publish() writes.
Filled(p) ==
    \A j \in 1 .. Capacity :
        LET c == cells[Slot(cur[p])][j]
        IN  \/ /\ j <= used[p] /\ ~(ppc[p] = "commit" /\ j = used[p])
               /\ c.lap = Epoch(cur[p]) /\ c.st = "committed"
            \/ /\ ppc[p] = "commit" /\ j = used[p]
               /\ c = Cell(Epoch(cur[p]), "reserved", <<p, nrec[p]>>)
            \/ j > used[p] /\ c.lap < Epoch(cur[p])
            \/ /\ ppc[p] \in {"pub_commit", "pub_owner"} /\ j = used[p] + 1
               /\ c = Cell(Epoch(cur[p]), "pad", <<>>)

\* Cell j of slot i has record r.
Has(i, j, r) == cells[i][j].st \in {"reserved", "committed"} /\ cells[i][j].rec = r

\* A lap is new to the data area when it is claimed, and a block fills from the
\* front: before a record of its lap there are only committed ones.
CellsInv ==
    /\ \A s \in head .. MaxHead, j \in 1 .. Capacity : cells[Slot(s)][j].lap < Epoch(s)
    /\ \A p \in Producers : cur[p] # NoBlock /\ IsArmed(cur[p]) =>
          /\ Filled(p)
          /\ ppc[p] = "pub_commit" /\ used[p] < Capacity =>
                cells[Slot(cur[p])][used[p] + 1] = Cell(Epoch(cur[p]), "pad", <<>>)
    /\ \A s \in 0 .. head - 1 : IsArmed(s) =>
          \A j, k \in 1 .. Capacity :
             /\ k < j
             /\ cells[Slot(s)][j].lap = Epoch(s)
             /\ cells[Slot(s)][j].st \in {"reserved", "committed"}
             => cells[Slot(s)][k].lap = Epoch(s) /\ cells[Slot(s)][k].st = "committed"

\* The drain thread of lap e has been through slot i.
Walked(i, e) ==
    \/ armed[i] > e
    \/ \E d \in Drainers : /\ Draining(d) /\ dpc[d] # "drain"
                           /\ Slot(dseq[d]) = i /\ Epoch(dseq[d]) = e

\* A record is in one cell at most, and if it has been replayed the drain
\* thread has been through that cell.
RecordsInv ==
    /\ \A r \in Records :
          r \in logged \/ drained[r] > 0 \/ (\E i \in Slots, j \in 1 .. Capacity : Has(i, j, r))
             => r[2] <= nrec[r[1]]
    /\ \A r \in Records : \A i, k \in Slots : \A j, l \in 1 .. Capacity :
          Has(i, j, r) /\ Has(k, l, r) => i = k /\ j = l
    /\ \A r \in Records : \A i \in Slots : \A j \in 1 .. Capacity :
          Has(i, j, r) /\ drained[r] > 0 => Walked(i, cells[i][j].lap)

\* Somebody knows of every held block, or its owner word was overwritten.
KnownInv ==
    \A s \in 0 .. head - 1 : StageOf(s) = "held" =>
        \/ s \in overtaken \/ Idle(s) \/ BeingWritten(s)
        \/ \E p \in Producers : cur[p] = s /\ ppc[p] \in {"stamp", "own"}

\* A committed record that has not been replayed is still in its cell, in a
\* block that no drain thread has been through.
KeptInv ==
    \A r \in logged : drained[r] > 0 \/
        \E s \in 0 .. head - 1, j \in 1 .. Capacity :
            /\ cells[Slot(s)][j] = Cell(Epoch(s), "committed", r)
            /\ IsArmed(s)
            /\ \A d \in Drainers : HeldBy(d, s) => dpc[d] = "drain"

=============================================================================
