---------------------------- MODULE ClientsProofs ----------------------------
(***************************************************************************)
(* The client table, for every number of processes, threads, drain threads *)
(* and blocks, every grace and every speed of the clock: types hold, a     *)
(* lane is finalized once, and an event is lost only when its drain thread *)
(* had looked the process up before it was removed.                        *)
(*                                                                         *)
(* A ClientProcess object is in the table, among the objects take_finished *)
(* took out of it (house.done), in finish()'s hands (house.cur), or done   *)
(* with, and moves in that order (ObjectsInv).  Its lanes are finalized in *)
(* the third place only, and what is in an aggregate after that came       *)
(* through a reference that was stale (LanesInv).  That the objects can be *)
(* numbered at all rests on a count: each is created for a block of its    *)
(* own (CountInv).                                                         *)
(***************************************************************************)
EXTENDS Clients, FiniteSetTheorems, TLAPS

\* Some process of the table has object i.
Registered(i) == \E p \in Pids : table[p] = i

\* The numbers of the blocks that no drain thread has looked the process up for.
Waiting == {n \in Recs : \/ \E b \in blocks : b.n = n
                         \/ \E d \in Ids : pc[d] = "table" /\ blk[d].n = n}

\* Blocks are told apart by their numbers, and there are no more objects than
\* blocks that have been looked up, and the one of Init.
CountInv ==
    /\ \A b, c \in blocks : b.n = c.n => b = c
    /\ \A d \in Ids : pc[d] = "table" => \A b \in blocks : b.n # blk[d].n
    /\ \A d, e \in Ids : d # e /\ pc[d] = "table" /\ pc[e] = "table" => blk[d].n # blk[e].n
    /\ \A n \in Waiting : n <= made
    /\ made_procs + Cardinality(Waiting) <= made + 1

\* Only thread 0 reaps, and stop() empties the table when it alone is left.
HouseInv ==
    /\ pc[0] # "reap" => house.todo = {} /\ house.done = {} /\ house.tids = {}
    /\ house.due => house.on
    /\ pc[0] \in {"idle", "quit"} => ~house.on
    /\ \A d \in Ids : d # 0 => pc[d] \notin {"over", "reap"}
    /\ stop \in {"last", "done"} => ~house.on /\ \A d \in Ids : d # 0 => pc[d] = "quit"
    /\ stop = "last" => pc[0] # "quit"
    /\ stop = "done" => pc[0] = "quit"
    /\ stop = "done" \/ (stop = "last" /\ pc[0] = "reap") => \A p \in Pids : table[p] = 0

\* Where each object is.
ObjectsInv ==
    /\ \A p \in Pids : table[p] <= made_procs
    /\ \A p, q \in Pids : p # q /\ table[p] = table[q] => table[p] = 0
    /\ \A p \in house.todo : table[p] # 0
    /\ \A d \in Ids : pc[d] \in {"lane", "replay"} => at[d] \in 1 .. made_procs
    /\ \A i \in house.done : i <= made_procs /\ ~Registered(i)
    /\ house.tids # {} => /\ house.cur \in 1 .. made_procs
                          /\ house.cur \notin house.done /\ ~Registered(house.cur)

\* Lane t of object i is still to be finalized.
ToFinalize(i, t) == Registered(i) \/ i \in house.done \/ (i = house.cur /\ t \in house.tids)

\* What the place of an object says of its lanes.
LanesInv ==
    /\ \A i \in Insts, t \in Tids :
          /\ i > made_procs => lanes[i][t].state = "none"
          /\ lanes[i][t].state = "none" => lanes[i][t].open = {}
          /\ lanes[i][t].state = "final" => ~ToFinalize(i, t)
          /\ lanes[i][t].open \subseteq stale \/ ToFinalize(i, t)
    /\ FinalizedOnce
    /\ dropped \subseteq stale

IInv == TypeOK /\ CountInv /\ HouseInv /\ ObjectsInv /\ LanesInv

-----------------------------------------------------------------------------

\* The numbers of the model.
LEMMA Numbers ==
    /\ Drains \in Nat /\ 0 \in Ids /\ Grace \in Nat /\ ReapEvery \in Nat /\ MaxLag \in Nat
    /\ MaxBlocks \in Nat
    /\ MaxAge \in Nat /\ MaxLag <= MaxAge
    /\ 0 \in 0 .. MaxAge /\ MaxAge \in 0 .. MaxAge
BY ClientsConstants DEF Ids, MaxAge

\* A block that is taken goes from the ring into the thread's hand.
LEMMA TakeTypes ==
    ASSUME TypeOK, NEW d \in Ids, NEW b \in blocks, Take(d, b), ~InBlock(d)
    PROVE  /\ blocks' \subseteq Blocks
           /\ blk' \in [Ids -> Blocks \cup {NoBlock}]
           /\ pc' \in [Ids -> {"idle", "table", "lane", "replay", "over", "reap", "quit"}]
           /\ age' \in [Ids -> 0 .. MaxLag]
           /\ \A e \in Ids : InBlock(e)' <=> blk'[e] # NoBlock
<1>1. b \in Blocks /\ b # NoBlock
    <2>1. b \in Blocks
        BY DEF TypeOK
    <2>2. b.n \in Recs /\ b.n # 0
        BY <2>1, Numbers DEF Blocks, Recs
    <2>. QED
        BY <2>1, <2>2 DEF NoBlock
<1>. QED
    BY <1>1, Numbers DEF TypeOK, Take, InBlock

\* A store into one lane.
LEMMA LaneStore ==
    ASSUME TypeOK, NEW i \in Insts, NEW t \in Tids, NEW v \in LaneVals,
           lanes' = [lanes EXCEPT ![i][t] = v]
    PROVE  /\ lanes' \in [Insts -> [Tids -> LaneVals]]
           /\ \A j \in Insts, u \in Tids :
                 lanes'[j][u] = IF j = i /\ u = t THEN v ELSE lanes[j][u]
<1>1. lanes \in [Insts -> [Tids -> LaneVals]]
    BY DEF TypeOK
<1>2. lanes[i] \in [Tids -> LaneVals]
    BY <1>1
<1>3. [lanes[i] EXCEPT ![t] = v] \in [Tids -> LaneVals]
    BY <1>2
<1>4. lanes' = [lanes EXCEPT ![i] = [lanes[i] EXCEPT ![t] = v]]
    OBVIOUS
<1>. QED
    BY <1>1, <1>2, <1>3, <1>4

\* Lane and replay store into one lane, or none.
LEMMA LaneStores ==
    ASSUME TypeOK, ObjectsInv, NEW d \in Ids, Lane(d) \/ Replay(d)
    PROVE  /\ blk[d] \in Blocks /\ blk[d].n \in Recs /\ blk[d].tid \in Tids /\ blk[d].pid \in Pids
           /\ at[d] \in Insts /\ at[d] <= made_procs
           /\ lanes[at[d]][blk[d].tid] \in LaneVals
           /\ lanes' \in [Insts -> [Tids -> LaneVals]]
           /\ \/ lanes' = lanes
              \/ \E v \in LaneVals :
                    /\ lanes' = [lanes EXCEPT ![at[d]][blk[d].tid] = v]
                    /\ \/ /\ Lane(d) /\ lanes[at[d]][blk[d].tid].state = "none"
                          /\ v.state = "ready" /\ v.open = lanes[at[d]][blk[d].tid].open
                       \/ /\ Replay(d) /\ blk[d].kind = "data"
                          /\ lanes[at[d]][blk[d].tid].state = "ready" /\ v.state = "ready"
                          /\ v.open = lanes[at[d]][blk[d].tid].open \cup {blk[d].n}
<1>1. blk[d] \in Blocks
    BY DEF TypeOK, Lane, Replay, InBlock
<1>2. blk[d].n \in Recs /\ blk[d].tid \in Tids /\ blk[d].pid \in Pids
    BY <1>1 DEF Blocks
<1>3. at[d] \in Insts /\ at[d] <= made_procs
    BY Numbers, SMTT(20) DEF ObjectsInv, Lane, Replay, TypeOK, Insts
<1>4. lanes[at[d]][blk[d].tid] \in LaneVals
    BY <1>2, <1>3 DEF TypeOK
<1> DEFINE l == lanes[at[d]][blk[d].tid]
<1>5. CASE Lane(d)
    <2> DEFINE v == [l EXCEPT !.state = "ready"]
    <2>1. v \in LaneVals /\ v.state = "ready" /\ v.open = l.open
        BY <1>4 DEF LaneVals
    <2>2. lanes' = lanes \/ (l.state = "none" /\ lanes' = [lanes EXCEPT ![at[d]][blk[d].tid] = v])
        BY <1>5, <1>4 DEF Lane, LaneVals
    <2> HIDE DEF v, l
    <2>3. lanes' \in [Insts -> [Tids -> LaneVals]]
        <3>1. CASE lanes' = lanes
            BY <3>1 DEF TypeOK
        <3>2. CASE lanes' = [lanes EXCEPT ![at[d]][blk[d].tid] = v]
            BY <3>2, <2>1, <1>2, <1>3, LaneStore
        <3>. QED
            BY <3>1, <3>2, <2>2
    <2>. QED
        BY <1>1, <1>2, <1>3, <1>4, <1>5, <2>1, <2>2, <2>3 DEF l
<1>6. CASE Replay(d)
    <2> DEFINE v == [l EXCEPT !.open = @ \cup {blk[d].n}]
    <2>1. v \in LaneVals /\ v.state = l.state /\ v.open = l.open \cup {blk[d].n}
        BY <1>2, <1>4 DEF LaneVals
    <2>2. \/ lanes' = lanes
          \/ /\ blk[d].kind = "data" /\ l.state = "ready"
             /\ lanes' = [lanes EXCEPT ![at[d]][blk[d].tid] = v]
        BY <1>6 DEF Replay
    <2> HIDE DEF v
    <2>3. lanes' \in [Insts -> [Tids -> LaneVals]]
        <3>1. CASE lanes' = lanes
            BY <3>1 DEF TypeOK
        <3>2. CASE lanes' = [lanes EXCEPT ![at[d]][blk[d].tid] = v]
            BY <3>2, <2>1, <1>2, <1>3, LaneStore
        <3>. QED
            BY <3>1, <3>2, <2>2
    <2>. QED
        BY <1>1, <1>2, <1>3, <1>4, <1>6, <2>1, <2>2, <2>3
<1>. QED
    BY <1>5, <1>6

\* Steps that only make clocks older.
LEMMA TickTypes ==
    ASSUME TypeOK, Tick
    PROVE  TypeOK'
<1>1. /\ procs \in [Insts -> ProcVals]
      /\ age \in [Ids -> 0 .. MaxLag] /\ reaped \in 0 .. ReapEvery + MaxLag
      /\ house \in HouseVals
    BY DEF TypeOK
<1>2. \A a \in 0 .. MaxAge : Older(a) \in 0 .. MaxAge
    BY Numbers DEF Older
<1>3. procs' \in [Insts -> ProcVals]
    <2> SUFFICES ASSUME NEW i \in Insts
                 PROVE  procs'[i] \in ProcVals
        BY DEF Tick
    <2>1. procs[i] \in ProcVals
        BY <1>1
    <2>2. procs'[i] = (IF \A p \in Pids : table[p] # i THEN procs[i] ELSE
                    [procs[i] EXCEPT !.seen = Older(@), !.bye_age = IF procs[i].bye THEN Older(@) ELSE 0])
        BY DEF Tick
    <2>. QED
        BY <2>1, <2>2, <1>2, Numbers DEF ProcVals
<1>4. age' \in [Ids -> 0 .. MaxLag]
    <2>1. /\ age' = [d \in Ids |-> IF InBlock(d) THEN age[d] + 1 ELSE 0]
          /\ \A d \in Ids : InBlock(d) => age[d] < MaxLag
        BY DEF Tick
    <2>2. \A d \in Ids : age[d] \in Nat
        BY <1>1
    <2> HIDE DEF InBlock
    <2>. QED
        BY <2>1, <2>2, Numbers
<1>5. house' \in HouseVals
    <2>1. /\ house' = IF house.on THEN [house EXCEPT !.age = @ + 1] ELSE house
          /\ house.on => house.age < MaxLag
        BY DEF Tick
    <2>2. house.on => house.age + 1 \in 0 .. MaxLag
        BY <2>1, <1>1, Numbers DEF HouseVals
    <2>. QED
        BY <2>1, <2>2, <1>1 DEF HouseVals
<1>6. reaped' \in 0 .. ReapEvery + MaxLag
    <2>1. reaped' = IF reaped < ReapEvery THEN reaped + 1 ELSE reaped
        BY DEF Tick
    <2>. QED
        BY <2>1, <1>1, Numbers
<1>7. \A d \in Ids : InBlock(d)' <=> blk'[d] # NoBlock
    BY DEF TypeOK, Tick, InBlock
<1>. QED
    BY <1>3, <1>4, <1>5, <1>6, <1>7 DEF TypeOK, Tick, trace

\* A block waits, so there is an object left for it.
LEMMA ObjectLeft ==
    ASSUME TypeOK, CountInv, NEW d \in Ids, pc[d] = "table"
    PROVE  made_procs < MaxBlocks + 1
<1>1. blk[d] \in Blocks /\ blk[d].n \in Recs
    BY DEF TypeOK, InBlock, Blocks, NoBlock
<1>2. blk[d].n \in Waiting
    BY <1>1 DEF Waiting
<1>3. IsFiniteSet(Waiting)
    <2>1. IsFiniteSet(Recs)
        BY Numbers, FS_Interval DEF Recs
    <2>. QED
        BY <2>1, FS_Subset DEF Waiting
<1>4. Cardinality(Waiting) \in Nat /\ Cardinality(Waiting) # 0
    BY <1>2, <1>3, FS_CardinalityType, FS_EmptySet
<1>5. made_procs + Cardinality(Waiting) <= made + 1
    BY DEF CountInv
<1>6. made_procs \in Nat /\ made \in 0 .. MaxBlocks
    BY Numbers DEF TypeOK
<1>. QED
    BY <1>4, <1>5, <1>6, Numbers

\* Process finds or makes an object, and knows its block's process.
LEMMA ProcessTypes ==
    ASSUME TypeOK, CountInv, NEW d \in Ids, Process(d)
    PROVE  TypeOK'
<1>1. blk[d] \in Blocks /\ blk[d].pid \in Pids
    BY DEF TypeOK, Process, InBlock, Blocks, NoBlock
<1>2. made_procs < MaxBlocks + 1
    BY ObjectLeft DEF Process
<1> DEFINE p == blk[d].pid
           i == IF table[p] = 0 THEN made_procs + 1 ELSE table[p]
<1>3. i \in Insts /\ i \in 0 .. MaxBlocks + 1
    BY <1>1, <1>2, Numbers DEF TypeOK, Insts
<1>4. table' = [table EXCEPT ![p] = i] /\ (made_procs' = i \/ made_procs' = made_procs)
    BY DEF Process
<1>5. procs' \in [Insts -> ProcVals]
    <2>1. age[d] \in 0 .. MaxAge
        BY Numbers DEF TypeOK
    <2>2. procs[i] \in ProcVals
        BY <1>3 DEF TypeOK
    <2>3. procs' = [procs EXCEPT ![i] = [(IF table[p] = 0 THEN NoProc ELSE procs[i]) EXCEPT !.seen = age[d]]]
        BY DEF Process
    <2>4. NoProc \in ProcVals
        BY Numbers DEF NoProc, ProcVals
    <2>. QED
        BY <2>1, <2>2, <2>3, <2>4, <1>3 DEF TypeOK, ProcVals
<1>6. at' = [at EXCEPT ![d] = i] /\ pc' = [pc EXCEPT ![d] = "lane"]
    BY DEF Process
<1> HIDE DEF i, p
<1>7. \A e \in Ids : InBlock(e)' <=> blk'[e] # NoBlock
    BY <1>6 DEF TypeOK, Process, InBlock
<1>. QED
    BY <1>1, <1>3, <1>4, <1>5, <1>6, <1>7 DEF TypeOK, Process, trace, p

\* Replay ends the thread's block.
LEMMA ReplayTypes ==
    ASSUME TypeOK, ObjectsInv, NEW d \in Ids, Replay(d)
    PROVE  TypeOK'
<1>1. blk[d].n \in Recs /\ blk[d].tid \in Tids /\ at[d] \in Insts
    BY LaneStores
<1>3. lanes' \in [Insts -> [Tids -> LaneVals]]
    BY LaneStores
<1>4. procs' \in [Insts -> ProcVals]
    <2>1. procs \in [Insts -> ProcVals] /\ procs[at[d]] \in ProcVals
        BY <1>1 DEF TypeOK
    <2>2. age[d] \in 0 .. MaxAge /\ 0 \in 0 .. MaxAge
        BY Numbers DEF TypeOK
    <2> PICK bye \in BOOLEAN : bye <=> (blk[d].kind = "goodbye")
        OBVIOUS
    <2> PICK a \in 0 .. MaxAge : a = IF bye THEN age[d] ELSE 0
        BY <2>2
    <2>3. \/ procs' = procs
          \/ procs' = [procs EXCEPT ![at[d]] = [procs[at[d]] EXCEPT !.bye = (blk[d].kind = "goodbye"), !.bye_age = a]]
        BY <1>1, <2>1 DEF Replay
    <2>4. [procs[at[d]] EXCEPT !.bye = (blk[d].kind = "goodbye"), !.bye_age = a] \in ProcVals
        BY <2>1 DEF ProcVals
    <2>. QED
        BY <2>1, <2>3, <2>4, <1>1
<1>5. dropped' \subseteq Recs /\ stale' \subseteq Recs
    BY <1>1 DEF TypeOK, Replay
<1>6. /\ pc' \in [Ids -> {"idle", "table", "lane", "replay", "over", "reap", "quit"}]
      /\ blk' \in [Ids -> Blocks \cup {NoBlock}] /\ at' \in [Ids -> 0 .. MaxBlocks + 1]
      /\ age' \in [Ids -> 0 .. MaxLag]
    BY Numbers DEF TypeOK, Replay
<1>7. \A e \in Ids : InBlock(e)' <=> blk'[e] # NoBlock
    BY DEF TypeOK, Replay, InBlock
<1>. QED
    BY <1>3, <1>4, <1>5, <1>6, <1>7 DEF TypeOK, Replay

\* Types are kept.
LEMMA TypeStep ==
    ASSUME IInv, [Next]_vars
    PROVE  TypeOK'
<1>0. TypeOK /\ CountInv /\ ObjectsInv
    BY DEF IInv
<1>1. CASE UNCHANGED vars
    BY <1>0, <1>1 DEF vars, objs, drain, trace, TypeOK, InBlock
<1>2. ASSUME NEW p \in Pids, Exit(p) \/ PidReused(p)
      PROVE  TypeOK'
    BY <1>0, <1>2 DEF Exit, PidReused, objs, drain, trace, TypeOK, InBlock
<1>3. ASSUME NEW p \in Pids, NEW t \in Tids, NEW k \in Kinds, Write(p, t, k)
      PROVE  TypeOK'
    <2>1. made + 1 \in Recs /\ made' \in 0 .. MaxBlocks
        BY <1>0, <1>3, Numbers DEF Write, TypeOK, Recs
    <2>2. \A h \in BOOLEAN : [n |-> made + 1, pid |-> p, tid |-> t, kind |-> k, held |-> h] \in Blocks
        BY <2>1 DEF Blocks
    <2>3. blocks' \subseteq Blocks
        BY <1>0, <1>3, <2>2 DEF Write, TypeOK
    <2>4. said' \in [Pids -> {"new", "hello", "goodbye"}]
        BY <1>0, <1>3 DEF Write, TypeOK, Kinds
    <2>. QED
        BY <1>0, <1>3, <2>1, <2>3, <2>4 DEF Write, objs, drain, trace, TypeOK, InBlock
<1>4. ASSUME NEW d \in Ids, Claim(d)
      PROVE  TypeOK'
    <2> PICK b \in blocks : Take(d, b)
        BY <1>4 DEF Claim
    <2>. QED
        BY <1>0, <1>4, TakeTypes DEF Claim, objs, trace, TypeOK, InBlock
<1>5. ASSUME NEW d \in Ids, Process(d)
      PROVE  TypeOK'
    BY <1>0, <1>5, ProcessTypes
<1>6. ASSUME NEW d \in Ids, Lane(d)
      PROVE  TypeOK'
    <2>2. lanes' \in [Insts -> [Tids -> LaneVals]]
        BY <1>0, <1>6, LaneStores
    <2>. QED
        BY <1>0, <1>6, <2>2 DEF Lane, trace, TypeOK, InBlock
<1>7. ASSUME NEW d \in Ids, Replay(d)
      PROVE  TypeOK'
    BY <1>0, <1>7, ReplayTypes
<1>8. ASSUME NEW d \in Ids, Quit(d)
      PROVE  TypeOK'
    BY <1>0, <1>8 DEF Quit, objs, trace, TypeOK, InBlock
<1>9. CASE Housekeeping
    <2> DEFINE due == (reaped >= ReapEvery)
    <2>0. due \in BOOLEAN
        OBVIOUS
    <2>1. NoHouse \in HouseVals
        BY Numbers DEF NoHouse, HouseVals
    <2>2. house' = [NoHouse EXCEPT !.on = TRUE, !.due = due]
        BY <1>9 DEF Housekeeping
    <2> HIDE DEF due
    <2>3. house' \in HouseVals
        BY <2>0, <2>1, <2>2 DEF HouseVals
    <2>. QED
        BY <1>0, <1>9, <2>3 DEF Housekeeping, objs, trace, TypeOK, InBlock
<1>10. CASE TakeOver
    <2> PICK b \in blocks : Take(0, b)
        BY <1>10 DEF TakeOver
    <2>. QED
        BY <1>0, <1>10, TakeTypes, Numbers DEF TakeOver, objs, trace, TypeOK, InBlock
<1>11. CASE NoReap
    BY <1>0, <1>11, Numbers DEF NoReap, NoHouse, HouseVals, objs, trace, TypeOK, InBlock
<1>12. CASE Reap
    <2>1. reaped' \in 0 .. ReapEvery + MaxLag
        BY <1>0, <1>12, Numbers DEF Reap, HouseVals, TypeOK
    <2>. QED
        BY <1>0, <1>12, <2>1, Numbers DEF Reap, HouseVals, objs, trace, TypeOK, InBlock
<1>13. CASE Visit
    <2> PICK p \in house.todo :
             /\ house' = [house EXCEPT !.todo = @ \ {p},
                                       !.done = IF Finished(p) THEN @ \cup {table[p]} ELSE @]
             /\ table' = IF Finished(p) THEN [table EXCEPT ![p] = 0] ELSE table
             /\ procs' = IF Finished(p) THEN [procs EXCEPT ![table[p]] = NoProc] ELSE procs
        BY <1>13 DEF Visit
    <2>1. table[p] \in Insts
        BY <1>0, Numbers DEF TypeOK, ObjectsInv, Insts, HouseVals
    <2>2. NoProc \in ProcVals
        BY Numbers DEF NoProc, ProcVals
    <2>3. house \in HouseVals /\ table \in [Pids -> 0 .. MaxBlocks + 1] /\ procs \in [Insts -> ProcVals]
        BY <1>0 DEF TypeOK
    <2>4. house' \in HouseVals
        BY <2>1, <2>3 DEF HouseVals
    <2>5. table' \in [Pids -> 0 .. MaxBlocks + 1]
        <3>1. table' = table \/ table' = [table EXCEPT ![p] = 0]
            OBVIOUS
        <3>2. 0 \in 0 .. MaxBlocks + 1
            BY Numbers
        <3>. QED
            BY <2>3, <3>1, <3>2
    <2>6. procs' \in [Insts -> ProcVals]
        BY <2>2, <2>3 DEF ProcVals
    <2>. QED
        BY <1>0, <1>13, <2>4, <2>5, <2>6 DEF Visit, drain, trace, TypeOK, InBlock
<1>14. CASE Finish
    <2> PICK i \in house.done :
             house' = [house EXCEPT !.done = @ \ {i}, !.cur = i,
                                    !.tids = {t \in Tids : lanes[i][t].state # "none"}]
        BY <1>14 DEF Finish
    <2>1. house \in HouseVals
        BY <1>0 DEF TypeOK
    <2>2. i \in 0 .. MaxBlocks + 1
        BY <2>1, Numbers DEF HouseVals, Insts
    <2>3. house' \in HouseVals
        BY <2>1, <2>2 DEF HouseVals
    <2>. QED
        BY <1>0, <1>14, <2>3 DEF Finish, objs, drain, trace, TypeOK, InBlock
<1>15. CASE FinishLane
    <2> PICK t \in house.tids :
             /\ written' = written \cup lanes[house.cur][t].open
             /\ lanes' = [lanes EXCEPT ![house.cur][t] = [state |-> "final", open |-> {}]]
             /\ house' = [house EXCEPT !.tids = @ \ {t}]
        BY <1>15 DEF FinishLane
    <2>1. house.cur \in Insts /\ t \in Tids
        BY <1>0, Numbers DEF TypeOK, ObjectsInv, Insts, HouseVals
    <2>2. house \in HouseVals /\ lanes \in [Insts -> [Tids -> LaneVals]] /\ written \subseteq Recs
        BY <1>0 DEF TypeOK
    <2>3. [state |-> "final", open |-> {}] \in LaneVals
        BY DEF LaneVals
    <2>4. lanes' \in [Insts -> [Tids -> LaneVals]]
        BY <2>1, <2>3, <1>0, LaneStore
    <2>5. house' \in HouseVals
        BY <2>2 DEF HouseVals
    <2>6. written' \subseteq Recs
        BY <2>1, <2>2 DEF LaneVals
    <2>. QED
        BY <1>0, <1>15, <2>4, <2>5, <2>6 DEF FinishLane, drain, TypeOK, InBlock
<1>16. CASE FinishDone
    BY <1>0, <1>16, Numbers DEF FinishDone, NoHouse, HouseVals, objs, trace, TypeOK, InBlock
<1>17. CASE Joined
    BY <1>0, <1>17, Numbers DEF Joined, objs, trace, TypeOK, InBlock
<1>18. CASE TakeAll
    <2>1. {table[p] : p \in Pids} \ {0} \subseteq Insts
        BY <1>0, Numbers DEF TypeOK, Insts
    <2>2. table' \in [Pids -> 0 .. MaxBlocks + 1]
        BY <1>18, Numbers DEF TakeAll
    <2>3. house' \in HouseVals
        BY <1>0, <1>18, <2>1 DEF TakeAll, TypeOK, HouseVals
    <2>. QED
        BY <1>0, <1>18, <2>2, <2>3 DEF TakeAll, objs, trace, TypeOK, InBlock
<1>19. CASE Tick
    BY <1>0, <1>19, TickTypes
<1>20. CASE Stop
    BY <1>0, <1>20 DEF Stop, objs, drain, trace, TypeOK, InBlock
<1>. QED
    BY <1>1, <1>2, <1>3, <1>4, <1>5, <1>6, <1>7, <1>8, <1>9, <1>10, <1>11, <1>12, <1>13,
       <1>14, <1>15, <1>16, <1>17, <1>18, <1>19, <1>20
       DEF Next, DrainStep, HouseStep, StopStep

-----------------------------------------------------------------------------
(* CountInv *)

\* What CountInv is about is finite.
LEMMA WaitingFinite ==
    ASSUME TypeOK
    PROVE  /\ IsFiniteSet(Waiting) /\ Cardinality(Waiting) \in Nat
           /\ made \in 0 .. MaxBlocks /\ made_procs \in Nat
           /\ \A b \in blocks : b \in Blocks /\ b.n \in Recs
           /\ \A d \in Ids : pc[d] = "table" => blk[d] \in Blocks /\ blk[d].n \in Recs
<1>1. IsFiniteSet(Recs)
    BY Numbers, FS_Interval DEF Recs
<1>2. IsFiniteSet(Waiting)
    BY <1>1, FS_Subset DEF Waiting
<1>. QED
    BY <1>2, FS_CardinalityType, Numbers DEF TypeOK, InBlock, Blocks

\* A step that leaves the blocks, the objects and the lookups to come alone.
LEMMA CountQuiet ==
    ASSUME CountInv, UNCHANGED <<blocks, made, made_procs>>,
           \A d \in Ids : /\ pc'[d] = "table" <=> pc[d] = "table"
                          /\ pc[d] = "table" => blk'[d] = blk[d]
    PROVE  CountInv'
<1>1. Waiting' = Waiting
    BY DEF Waiting
<1>. QED
    BY <1>1 DEF CountInv

\* Taking a block changes who has it, and nothing else.
LEMMA CountTake ==
    ASSUME TypeOK, CountInv, NEW d \in Ids, NEW b \in blocks, Take(d, b),
           ~InBlock(d), UNCHANGED <<made, made_procs>>
    PROVE  CountInv'
<1>0. /\ blocks' = blocks \ {b} /\ blk' = [blk EXCEPT ![d] = b] /\ pc' = [pc EXCEPT ![d] = "table"]
      /\ pc[d] # "table"
      /\ pc \in [Ids -> {"idle", "table", "lane", "replay", "over", "reap", "quit"}]
      /\ blk \in [Ids -> Blocks \cup {NoBlock}]
    BY DEF Take, TypeOK, InBlock
<1>1. Waiting' = Waiting
    BY <1>0 DEF Waiting
<1>2. /\ \A a, c \in blocks : a.n = c.n => a = c
      /\ \A e \in Ids : pc[e] = "table" => \A c \in blocks : c.n # blk[e].n
      /\ \A e, f \in Ids : e # f /\ pc[e] = "table" /\ pc[f] = "table" => blk[e].n # blk[f].n
    BY DEF CountInv
<1>3. \A e \in Ids : pc'[e] = "table" => \A c \in blocks' : c.n # blk'[e].n
    BY <1>0, <1>2
<1>4. \A e, f \in Ids : e # f /\ pc'[e] = "table" /\ pc'[f] = "table" => blk'[e].n # blk'[f].n
    BY <1>0, <1>2
<1>. QED
    BY <1>0, <1>1, <1>3, <1>4 DEF CountInv

\* Every step keeps the count.
LEMMA CountStep ==
    ASSUME IInv, [Next]_vars
    PROVE  CountInv'
<1>0. TypeOK /\ CountInv
    BY DEF IInv
<1>1. ASSUME NEW p \in Pids, NEW t \in Tids, NEW k \in Kinds, Write(p, t, k)
      PROVE  CountInv'
    <2> PICK h \in {FALSE, k # "goodbye"} : blocks' = blocks \cup
                {[n |-> made + 1, pid |-> p, tid |-> t, kind |-> k, held |-> h]}
        BY <1>1 DEF Write
    <2> DEFINE b == [n |-> made + 1, pid |-> p, tid |-> t, kind |-> k, held |-> h]
    <2>0. blocks' = blocks \cup {b} /\ b.n = made + 1
        OBVIOUS
    <2> HIDE DEF b
    <2>1. made' = made + 1 /\ made + 1 \in Recs /\ made + 1 \notin Waiting
        BY <1>0, <1>1, Numbers, WaitingFinite DEF Write, Recs, CountInv
    <2>2. UNCHANGED <<pc, blk, made_procs>>
        BY <1>1 DEF Write, drain, objs
    <2>3. Waiting' = Waiting \cup {made + 1}
        BY <2>0, <2>1, <2>2 DEF Waiting
    <2>4. Cardinality(Waiting') = Cardinality(Waiting) + 1
        BY <1>0, <2>1, <2>3, WaitingFinite, FS_AddElement
    <2>5. made_procs' + Cardinality(Waiting') <= made' + 1
        BY <1>0, <2>1, <2>2, <2>4, WaitingFinite DEF CountInv
    <2>6. \A n \in Waiting' : n <= made'
        BY <1>0, <2>1, <2>3, WaitingFinite DEF CountInv, Waiting, Recs
    <2>7. /\ \A c \in blocks : c.n # made + 1
          /\ \A d \in Ids : pc[d] = "table" => blk[d].n # made + 1
        BY <1>0, <2>1 DEF Waiting
    <2>. QED
        BY <1>0, <2>0, <2>2, <2>5, <2>6, <2>7 DEF CountInv
<1>2. ASSUME NEW d \in Ids, Claim(d)
      PROVE  CountInv'
    <2> PICK b \in blocks : Take(d, b)
        BY <1>2 DEF Claim
    <2>. QED
        BY <1>0, <1>2, CountTake DEF Claim, InBlock, objs
<1>3. CASE TakeOver
    <2> PICK b \in blocks : Take(0, b)
        BY <1>3 DEF TakeOver
    <2>. QED
        BY <1>0, <1>3, CountTake, Numbers DEF TakeOver, InBlock, objs
<1>4. ASSUME NEW d \in Ids, Process(d)
      PROVE  CountInv'
    <2>1. /\ UNCHANGED <<blocks, made, blk>> /\ pc[d] = "table" /\ pc' = [pc EXCEPT ![d] = "lane"]
          /\ (made_procs' = made_procs \/ made_procs' = made_procs + 1)
          /\ pc \in [Ids -> {"idle", "table", "lane", "replay", "over", "reap", "quit"}]
        BY <1>0, <1>4 DEF Process, TypeOK
    <2>2. blk[d].n \in Waiting
        BY <1>0, <2>1, WaitingFinite DEF Waiting
    <2>3. Waiting' = Waiting \ {blk[d].n}
        BY <1>0, <2>1 DEF Waiting, CountInv
    <2>4. Cardinality(Waiting') = Cardinality(Waiting) - 1
        BY <1>0, <2>2, <2>3, WaitingFinite, FS_RemoveElement
    <2>5. made_procs' + Cardinality(Waiting') <= made' + 1
        BY <1>0, <2>1, <2>4, WaitingFinite DEF CountInv
    <2>. QED
        BY <1>0, <2>1, <2>3, <2>5 DEF CountInv
<1>5. ASSUME NEW d \in Ids, Lane(d) \/ Replay(d) \/ Quit(d)
      PROVE  CountInv'
    BY <1>0, <1>5, CountQuiet DEF Lane, Replay, Quit, objs, TypeOK
<1>6. CASE Housekeeping \/ NoReap \/ Reap \/ FinishDone \/ Joined \/ TakeAll
    BY <1>0, <1>6, CountQuiet, Numbers
       DEF Housekeeping, NoReap, Reap, FinishDone, Joined, TakeAll, objs, TypeOK
<1>7. CASE Visit \/ Finish \/ FinishLane \/ Stop \/ Tick \/ UNCHANGED vars
    BY <1>0, <1>7, CountQuiet DEF Visit, Finish, FinishLane, Stop, Tick, vars, drain, objs
<1>8. ASSUME NEW p \in Pids, Exit(p) \/ PidReused(p)
      PROVE  CountInv'
    BY <1>0, <1>8, CountQuiet DEF Exit, PidReused, drain, objs
<1>. QED
    BY <1>1, <1>2, <1>3, <1>4, <1>5, <1>6, <1>7, <1>8 DEF Next, DrainStep, HouseStep, StopStep

-----------------------------------------------------------------------------
(* HouseInv and ObjectsInv *)

\* The locals of thread 0 after a step of it.
LEMMA HouseFields ==
    ASSUME TypeOK
    PROVE  /\ NoHouse.on = FALSE /\ NoHouse.due = FALSE /\ NoHouse.todo = {}
           /\ NoHouse.done = {} /\ NoHouse.tids = {}
           /\ Housekeeping => /\ house'.todo = {} /\ house'.done = {} /\ house'.tids = {}
                              /\ house'.on = TRUE
           /\ Reap => /\ house'.todo = {p \in Pids : table[p] # 0} /\ house'.done = house.done
                      /\ house'.tids = house.tids /\ house'.cur = house.cur
                      /\ house'.on = house.on /\ house'.due = house.due
           /\ TakeAll => /\ house'.todo = house.todo /\ house'.done = {table[p] : p \in Pids} \ {0}
                         /\ house'.tids = house.tids /\ house'.cur = house.cur
                         /\ house'.on = house.on /\ house'.due = house.due
           /\ Tick => /\ house'.todo = house.todo /\ house'.done = house.done
                      /\ house'.tids = house.tids /\ house'.cur = house.cur
                      /\ house'.on = house.on /\ house'.due = house.due
<1>1. house \in HouseVals
    BY DEF TypeOK
<1>2. Housekeeping => /\ house'.todo = {} /\ house'.done = {} /\ house'.tids = {}
                      /\ house'.on = TRUE
    BY DEF Housekeeping, NoHouse
<1>3. Reap => /\ house'.todo = {p \in Pids : table[p] # 0} /\ house'.done = house.done
              /\ house'.tids = house.tids /\ house'.cur = house.cur
              /\ house'.on = house.on /\ house'.due = house.due
    BY <1>1 DEF Reap, HouseVals
<1>4. TakeAll => /\ house'.todo = house.todo /\ house'.done = {table[p] : p \in Pids} \ {0}
                 /\ house'.tids = house.tids /\ house'.cur = house.cur
                 /\ house'.on = house.on /\ house'.due = house.due
    BY <1>1 DEF TakeAll, HouseVals
<1>5. Tick => /\ house'.todo = house.todo /\ house'.done = house.done
              /\ house'.tids = house.tids /\ house'.cur = house.cur
              /\ house'.on = house.on /\ house'.due = house.due
    BY <1>1 DEF Tick, HouseVals
<1>. QED
    BY <1>2, <1>3, <1>4, <1>5 DEF NoHouse

\* Visit takes a finished process out of the table, or leaves it there.
LEMMA VisitFields ==
    ASSUME TypeOK, ObjectsInv, Visit
    PROVE  \E p \in Pids :
              /\ p \in house.todo /\ table[p] \in Insts
              /\ house'.todo = house.todo \ {p} /\ house'.tids = house.tids /\ house'.cur = house.cur
              /\ house'.on = house.on /\ house'.due = house.due
              /\ \/ UNCHANGED table /\ house'.done = house.done
                 \/ table' = [table EXCEPT ![p] = 0] /\ house'.done = house.done \cup {table[p]}
<1> PICK p \in house.todo :
         /\ house' = [house EXCEPT !.todo = @ \ {p},
                                   !.done = IF Finished(p) THEN @ \cup {table[p]} ELSE @]
         /\ table' = IF Finished(p) THEN [table EXCEPT ![p] = 0] ELSE table
    BY DEF Visit
<1>1. house \in HouseVals
    BY DEF TypeOK
<1>2. p \in Pids
    BY <1>1 DEF HouseVals
<1>3. table[p] \in Insts
    BY <1>2, Numbers, SMTT(20) DEF TypeOK, ObjectsInv, Insts
<1>4. /\ house'.todo = house.todo \ {p} /\ house'.tids = house.tids /\ house'.cur = house.cur
      /\ house'.on = house.on /\ house'.due = house.due
      /\ house'.done = IF Finished(p) THEN house.done \cup {table[p]} ELSE house.done
    BY <1>1 DEF HouseVals
<1>. QED
    BY <1>2, <1>3, <1>4

\* Finish takes an object in hand, with the lanes it has.
LEMMA FinishFields ==
    ASSUME TypeOK, Finish
    PROVE  \E i \in Insts :
              /\ i \in house.done /\ house'.done = house.done \ {i} /\ house'.cur = i
              /\ house'.tids = {t \in Tids : lanes[i][t].state # "none"}
              /\ house.tids = {}
              /\ house'.todo = house.todo /\ house'.on = house.on /\ house'.due = house.due
<1> PICK i \in house.done :
         house' = [house EXCEPT !.done = @ \ {i}, !.cur = i,
                                !.tids = {t \in Tids : lanes[i][t].state # "none"}]
    BY DEF Finish
<1>1. house \in HouseVals
    BY DEF TypeOK
<1>2. i \in Insts
    BY <1>1 DEF HouseVals
<1>3. /\ house'.done = house.done \ {i} /\ house'.cur = i
      /\ house'.tids = {t \in Tids : lanes[i][t].state # "none"}
      /\ house'.todo = house.todo /\ house'.on = house.on /\ house'.due = house.due
    BY <1>1 DEF HouseVals
<1>. QED
    BY <1>2, <1>3 DEF Finish

\* FinishLane finalizes one of them.
LEMMA FinishLaneFields ==
    ASSUME TypeOK, ObjectsInv, FinishLane
    PROVE  \E t \in Tids : \E v \in LaneVals :
              /\ t \in house.tids /\ house'.tids = house.tids \ {t} /\ house'.cur = house.cur
              /\ house.cur \in Insts
              /\ house'.done = house.done /\ house'.todo = house.todo
              /\ house'.on = house.on /\ house'.due = house.due
              /\ lanes' = [lanes EXCEPT ![house.cur][t] = v] /\ v.state = "final" /\ v.open = {}
<1> PICK t \in house.tids :
         /\ lanes' = [lanes EXCEPT ![house.cur][t] = [state |-> "final", open |-> {}]]
         /\ house' = [house EXCEPT !.tids = @ \ {t}]
    BY DEF FinishLane
<1>1. house \in HouseVals
    BY DEF TypeOK
<1>2. t \in Tids /\ house.cur \in Insts
    BY <1>1, Numbers DEF HouseVals, ObjectsInv, Insts, TypeOK
<1> DEFINE v == [state |-> "final", open |-> {}]
<1>3. v \in LaneVals /\ v.state = "final" /\ v.open = {}
    BY DEF LaneVals
<1>4. /\ house'.tids = house.tids \ {t} /\ house'.cur = house.cur
      /\ house'.done = house.done /\ house'.todo = house.todo
      /\ house'.on = house.on /\ house'.due = house.due
    BY <1>1 DEF HouseVals
<1>5. lanes' = [lanes EXCEPT ![house.cur][t] = v]
    OBVIOUS
<1> HIDE DEF v
<1>. QED
    BY <1>2, <1>3, <1>4, <1>5

\* Every step keeps HouseInv.
LEMMA HouseKept ==
    ASSUME IInv, [Next]_vars
    PROVE  HouseInv'
<1>0. /\ TypeOK /\ HouseInv /\ ObjectsInv /\ 0 \in Ids
      /\ pc \in [Ids -> {"idle", "table", "lane", "replay", "over", "reap", "quit"}]
      /\ table \in [Pids -> 0 .. MaxBlocks + 1]
    BY Numbers DEF IInv, TypeOK
<1>1. CASE UNCHANGED <<pc, stop, table, house>>
    BY <1>0, <1>1 DEF HouseInv
<1>2. ASSUME NEW d \in Ids, Claim(d) \/ Lane(d) \/ Quit(d)
      PROVE  HouseInv'
    <2>1. /\ UNCHANGED <<stop, table, house>>
          /\ \/ pc[d] = "idle" /\ pc' = [pc EXCEPT ![d] = "table"]
             \/ pc[d] = "lane" /\ pc' = [pc EXCEPT ![d] = "replay"]
             \/ pc[d] = "idle" /\ pc' = [pc EXCEPT ![d] = "quit"] /\ stop = "asked"
        BY <1>2 DEF Claim, Take, Lane, Quit
    <2>. QED
        BY <1>0, <2>1 DEF HouseInv
<1>3. ASSUME NEW d \in Ids, Process(d)
      PROVE  HouseInv'
    <2>1. /\ UNCHANGED <<stop, house>> /\ pc[d] = "table" /\ pc' = [pc EXCEPT ![d] = "lane"]
        BY <1>3 DEF Process
    <2>2. stop # "done" /\ ~(stop = "last" /\ pc'[0] = "reap")
        BY <1>0, <2>1 DEF HouseInv
    <2>. QED
        BY <1>0, <2>1, <2>2 DEF HouseInv
<1>4. ASSUME NEW d \in Ids, Replay(d)
      PROVE  HouseInv'
    <2>1. /\ UNCHANGED <<stop, house, table>> /\ pc[d] = "replay"
          /\ \/ pc' = [pc EXCEPT ![d] = "idle"] /\ ~(d = 0 /\ (house.on \/ stop = "last"))
             \/ pc' = [pc EXCEPT ![d] = "over"] /\ d = 0
        BY <1>4 DEF Replay
    <2>. QED
        BY <1>0, <2>1 DEF HouseInv
<1>5. CASE Housekeeping
    <2>1. /\ UNCHANGED <<stop, table>> /\ stop = "run" /\ pc' = [pc EXCEPT ![0] = "over"]
        BY <1>5 DEF Housekeeping
    <2>. QED
        BY <1>0, <1>5, <2>1, HouseFields DEF HouseInv
<1>6. CASE TakeOver
    <2>1. /\ UNCHANGED <<stop, table, house>> /\ pc[0] = "over" /\ pc' = [pc EXCEPT ![0] = "table"]
        BY <1>6 DEF TakeOver, Take
    <2>. QED
        BY <1>0, <2>1 DEF HouseInv
<1>7. CASE NoReap
    <2>1. /\ UNCHANGED <<stop, table>> /\ house' = NoHouse /\ house.on /\ pc[0] = "over"
          /\ pc' = [pc EXCEPT ![0] = "idle"]
        BY <1>7 DEF NoReap
    <2>. QED
        BY <1>0, <2>1, HouseFields DEF HouseInv
<1>8. CASE Reap
    <2>1. /\ UNCHANGED <<stop, table>> /\ house.due /\ pc[0] = "over"
          /\ pc' = [pc EXCEPT ![0] = "reap"]
        BY <1>8 DEF Reap
    <2>. QED
        BY <1>0, <1>8, <2>1, HouseFields DEF HouseInv
<1>9. CASE Visit
    <2>1. UNCHANGED <<pc, stop>> /\ pc[0] = "reap"
        BY <1>9 DEF Visit, drain
    <2> PICK p \in Pids :
             /\ house'.on = house.on /\ house'.due = house.due
             /\ UNCHANGED table \/ table' = [table EXCEPT ![p] = 0]
        BY <1>0, <1>9, VisitFields
    <2>2. \A q \in Pids : table[q] = 0 => table'[q] = 0
        BY <1>0
    <2>. QED
        BY <1>0, <2>1, <2>2 DEF HouseInv
<1>10. CASE Finish \/ FinishLane
    <2>1. UNCHANGED <<pc, stop, table>> /\ pc[0] = "reap"
        BY <1>10 DEF Finish, FinishLane, drain
    <2>2. house'.on = house.on /\ house'.due = house.due
        BY <1>0, <1>10, FinishFields, FinishLaneFields
    <2>. QED
        BY <1>0, <2>1, <2>2 DEF HouseInv
<1>11. CASE FinishDone
    <2>1. /\ UNCHANGED table /\ house' = NoHouse /\ pc[0] = "reap"
          /\ \/ stop = "last" /\ stop' = "done" /\ pc' = [pc EXCEPT ![0] = "quit"]
             \/ stop # "last" /\ stop' = stop /\ pc' = [pc EXCEPT ![0] = "idle"]
        BY <1>11 DEF FinishDone
    <2>. QED
        BY <1>0, <2>1, HouseFields DEF HouseInv
<1>12. CASE Joined
    <2>1. /\ UNCHANGED <<table, house>> /\ stop' = "last" /\ (\A d \in Ids : pc[d] = "quit")
          /\ pc' = [pc EXCEPT ![0] = "over"]
        BY <1>12 DEF Joined
    <2>. QED
        BY <1>0, <2>1 DEF HouseInv
<1>13. CASE TakeAll
    <2>1. /\ UNCHANGED stop /\ stop = "last" /\ pc[0] = "over" /\ pc' = [pc EXCEPT ![0] = "reap"]
          /\ \A p \in Pids : table'[p] = 0
        BY <1>13 DEF TakeAll
    <2>. QED
        BY <1>0, <1>13, <2>1, HouseFields DEF HouseInv
<1>14. CASE Tick
    <2>1. UNCHANGED <<pc, stop, table>>
        BY <1>14 DEF Tick
    <2>. QED
        BY <1>0, <1>14, <2>1, HouseFields DEF HouseInv
<1>15. CASE Stop
    <2>1. UNCHANGED <<pc, house, table>> /\ stop = "run" /\ stop' = "asked"
        BY <1>15 DEF Stop, drain
    <2>. QED
        BY <1>0, <2>1 DEF HouseInv
<1>16. ASSUME NEW p \in Pids, Exit(p) \/ PidReused(p) \/ \E t \in Tids, k \in Kinds : Write(p, t, k)
       PROVE  HouseInv'
    BY <1>1, <1>16 DEF Exit, PidReused, Write, drain
<1>17. CASE UNCHANGED vars
    BY <1>1, <1>17 DEF vars, drain
<1>. QED
    BY <1>2, <1>3, <1>4, <1>5, <1>6, <1>7, <1>8, <1>9, <1>10, <1>11, <1>12, <1>13, <1>14,
       <1>15, <1>16, <1>17 DEF Next, DrainStep, HouseStep, StopStep

\* Every step keeps ObjectsInv.
LEMMA ObjectsKept ==
    ASSUME IInv, [Next]_vars
    PROVE  ObjectsInv'
<1>0. /\ TypeOK /\ HouseInv /\ ObjectsInv /\ 0 \in Ids
      /\ pc \in [Ids -> {"idle", "table", "lane", "replay", "over", "reap", "quit"}]
      /\ table \in [Pids -> 0 .. MaxBlocks + 1] /\ made_procs \in 0 .. MaxBlocks + 1
      /\ house \in HouseVals
    BY Numbers DEF IInv, TypeOK
<1>1. ASSUME UNCHANGED <<table, made_procs>>,
             house'.todo = house.todo, house'.done = house.done, house'.tids = house.tids,
             house'.cur = house.cur,
             \A d \in Ids : pc'[d] \in {"lane", "replay"} =>
                               pc[d] \in {"lane", "replay"} /\ at'[d] = at[d]
      PROVE  ObjectsInv'
    BY <1>0, <1>1 DEF ObjectsInv, Registered
<1>2. ASSUME NEW d \in Ids, Claim(d) \/ Lane(d) \/ Quit(d) \/ Replay(d)
      PROVE  ObjectsInv'
    <2>1. /\ UNCHANGED <<table, made_procs, house>>
          /\ \A e \in Ids : pc'[e] \in {"lane", "replay"} =>
                               pc[e] \in {"lane", "replay"} /\ at'[e] = at[e]
        BY <1>0, <1>2 DEF Claim, Take, Lane, Quit, Replay, objs, TypeOK
    <2>. QED
        BY <1>1, <2>1
<1>3. ASSUME NEW d \in Ids, Process(d)
      PROVE  ObjectsInv'
    <2>1. blk[d].pid \in Pids
        BY <1>0, <1>3 DEF Process, TypeOK, InBlock, Blocks
    <2>2. \A p \in house.todo : FALSE
        BY <1>3 DEF Process
    <2>3. /\ UNCHANGED house /\ pc' = [pc EXCEPT ![d] = "lane"] /\ at \in [Ids -> 0 .. MaxBlocks + 1]
        BY <1>0, <1>3 DEF Process, TypeOK
    <2>4. CASE table[blk[d].pid] # 0
        <3>1. /\ UNCHANGED made_procs /\ table' = [table EXCEPT ![blk[d].pid] = table[blk[d].pid]]
              /\ at' = [at EXCEPT ![d] = table[blk[d].pid]]
            BY <1>3, <2>4 DEF Process
        <3>2. table' = table
            BY <3>1, <1>0
        <3>3. table[blk[d].pid] \in 1 .. made_procs
            BY <1>0, <2>1, <2>4 DEF ObjectsInv
        <3>. QED
            BY <1>0, <2>2, <2>3, <3>1, <3>2, <3>3 DEF ObjectsInv, Registered
    <2>5. CASE table[blk[d].pid] = 0
        <3> DEFINE i == made_procs + 1
        <3>1. /\ made_procs' = i /\ table' = [table EXCEPT ![blk[d].pid] = i]
              /\ at' = [at EXCEPT ![d] = i]
            BY <1>3, <2>5 DEF Process
        <3>2. /\ i \in Nat /\ i # 0 /\ made_procs \in Nat /\ made_procs < i /\ \A j \in Int : j <= made_procs => j # i
              /\ i \in 1 .. i /\ \A j \in 1 .. made_procs : j \in 1 .. i
            BY <1>0
        <3>3. \A p \in Pids : table[p] \in Nat /\ table[p] <= made_procs /\ table[p] # i
            BY <1>0, <3>2 DEF ObjectsInv
        <3>4. \A j \in house.done : j \in Nat /\ j # i /\ j <= i
            BY <1>0, <3>2, Numbers DEF ObjectsInv, HouseVals, Insts
        <3>5. house.tids # {} => house.cur # i
            BY <1>0, <3>2 DEF ObjectsInv
        <3> HIDE DEF i
        <3>6. \A p \in Pids : table'[p] <= i
            BY <3>1, <3>2, <3>3, <1>0
        <3>7. \A p, q \in Pids : p # q /\ table'[p] = table'[q] => table'[p] = 0
            BY <3>1, <3>2, <3>3, <1>0 DEF ObjectsInv
        <3>8. \A j : j # i /\ ~Registered(j) => ~Registered(j)'
            BY <3>1, <1>0 DEF Registered
        <3>9. \A e \in Ids : pc'[e] \in {"lane", "replay"} => at'[e] \in 1 .. i
            BY <3>1, <3>2, <2>3, <1>0 DEF ObjectsInv
        <3>10. \A j \in house.done : j <= i /\ ~Registered(j)'
            BY <3>4, <3>8, <1>0 DEF ObjectsInv
        <3>11. house.tids # {} => house.cur \in 1 .. i /\ house.cur \notin house.done /\ ~Registered(house.cur)'
            <4>1. house.tids # {} => ~Registered(house.cur) /\ house.cur \in 1 .. made_procs
                                       /\ house.cur \notin house.done
                BY <1>0 DEF ObjectsInv
            <4> PICK c : c = house.cur
                OBVIOUS
            <4>. QED
                BY <4>1, <3>2, <3>5, <3>8, <2>3
        <3>. QED
            BY <2>2, <2>3, <3>1, <3>6, <3>7, <3>9, <3>10, <3>11 DEF ObjectsInv
    <2>. QED
        BY <2>4, <2>5
<1>4. CASE Housekeeping \/ NoReap \/ FinishDone
    <2>1. /\ UNCHANGED <<table, made_procs, at>>
          /\ house'.todo = {} /\ house'.done = {} /\ house'.tids = {}
          /\ \A e \in Ids : pc'[e] \in {"lane", "replay"} => pc[e] \in {"lane", "replay"}
        BY <1>0, <1>4, HouseFields DEF Housekeeping, NoReap, FinishDone, objs
    <2>. QED
        BY <1>0, <2>1 DEF ObjectsInv, Registered
<1>5. CASE TakeOver \/ Joined \/ Stop \/ UNCHANGED vars
    <2>1. /\ UNCHANGED <<table, made_procs, house, at>>
          /\ \A e \in Ids : pc'[e] \in {"lane", "replay"} => pc[e] \in {"lane", "replay"}
        BY <1>0, <1>5 DEF TakeOver, Take, Joined, Stop, vars, objs, drain
    <2>. QED
        BY <1>1, <2>1
<1>6. CASE Reap
    <2>1. /\ UNCHANGED <<table, made_procs, at>>
          /\ \A e \in Ids : pc'[e] \in {"lane", "replay"} => pc[e] \in {"lane", "replay"}
        BY <1>0, <1>6 DEF Reap, objs
    <2>. QED
        BY <1>0, <1>6, <2>1, HouseFields DEF ObjectsInv, Registered
<1>7. CASE Visit
    <2>1. UNCHANGED <<pc, at, made_procs>>
        BY <1>7 DEF Visit, drain
    <2> PICK p \in Pids :
              /\ p \in house.todo /\ table[p] \in Insts
              /\ house'.todo = house.todo \ {p} /\ house'.tids = house.tids /\ house'.cur = house.cur
              /\ \/ UNCHANGED table /\ house'.done = house.done
                 \/ table' = [table EXCEPT ![p] = 0] /\ house'.done = house.done \cup {table[p]}
        BY <1>0, <1>7, VisitFields
    <2>2. CASE UNCHANGED table /\ house'.done = house.done
        BY <1>0, <2>1, <2>2 DEF ObjectsInv, Registered
    <2>3. CASE table' = [table EXCEPT ![p] = 0] /\ house'.done = house.done \cup {table[p]}
        <3>1. 0 \notin Insts /\ table[p] # 0 /\ table[p] <= made_procs
            BY <1>0 DEF ObjectsInv, Insts
        <3> PICK c \in Insts : c = table[p]
            OBVIOUS
        <3>2. /\ ~Registered(c)'
              /\ \A i \in Insts : ~Registered(i) => ~Registered(i)'
            <4>1. ~Registered(c)'
                BY <1>0, <2>3, <3>1 DEF Registered, ObjectsInv
            <4>2. \A i \in Insts : ~Registered(i) => ~Registered(i)'
                BY <1>0, <2>3, <3>1 DEF Registered
            <4>. QED
                BY <4>1, <4>2
        <3>3. house.tids # {} => house.cur # table[p]
            BY <1>0 DEF ObjectsInv, Registered
        <3>4. house.done \subseteq Insts /\ (house.tids # {} => house.cur \in Insts)
            BY <1>0, Numbers DEF HouseVals, ObjectsInv, Insts
        <3>5. \A i \in house'.done : i <= made_procs /\ ~Registered(i)'
            <4>1. \A i \in house.done : i <= made_procs /\ ~Registered(i)'
                BY <1>0, <3>2, <3>4 DEF ObjectsInv
            <4>. QED
                BY <4>1, <2>3, <3>1, <3>2
        <3>6. \A q \in Pids : table'[q] <= made_procs
            BY <1>0, <2>3 DEF ObjectsInv
        <3>7. \A q \in house'.todo : table'[q] # 0
            BY <1>0, <2>3 DEF ObjectsInv, HouseVals
        <3>8. house.tids # {} => ~Registered(house.cur)'
            <4> PICK i : i = house.cur
                OBVIOUS
            <4>1. house.tids # {} => ~Registered(i)'
                BY <1>0, <3>2, <3>4 DEF ObjectsInv
            <4>. QED
                BY <4>1 DEF Registered
        <3>. QED
            BY <1>0, <2>1, <2>3, <3>3, <3>5, <3>6, <3>7, <3>8 DEF ObjectsInv
    <2>. QED
        BY <2>2, <2>3
<1>8. CASE Finish
    <2>1. UNCHANGED <<pc, at, table, made_procs>>
        BY <1>8 DEF Finish, drain, objs
    <2> PICK i \in Insts :
              /\ i \in house.done /\ house'.done = house.done \ {i} /\ house'.cur = i
              /\ house'.todo = house.todo
        BY <1>0, <1>8, FinishFields
    <2>2. i \in 1 .. made_procs /\ ~Registered(i)
        BY <1>0 DEF ObjectsInv, Insts
    <2>. QED
        BY <1>0, <2>1, <2>2 DEF ObjectsInv, Registered
<1>9. CASE FinishLane
    <2>1. UNCHANGED <<pc, at, table, made_procs>>
        BY <1>9 DEF FinishLane, drain, objs
    <2>. QED
        BY <1>0, <1>9, <2>1, FinishLaneFields DEF ObjectsInv, Registered
<1>10. CASE TakeAll
    <2>1. /\ UNCHANGED <<made_procs, at>> /\ pc[0] = "over"
          /\ \A e \in Ids : pc'[e] \in {"lane", "replay"} => pc[e] \in {"lane", "replay"}
          /\ \A p \in Pids : table'[p] = 0
        BY <1>0, <1>10 DEF TakeAll, objs
    <2>2. /\ house'.todo = {} /\ house'.tids = {} /\ house'.done = {table[p] : p \in Pids} \ {0}
        BY <1>0, <1>10, <2>1, HouseFields DEF HouseInv
    <2>3. \A i : i # 0 => ~Registered(i)'
        BY <2>1 DEF Registered
    <2>. QED
        BY <1>0, <2>1, <2>2, <2>3 DEF ObjectsInv
<1>11. CASE Tick
    <2>1. UNCHANGED <<pc, at, table, made_procs>>
        BY <1>11 DEF Tick
    <2>. QED
        BY <1>0, <1>1, <1>11, <2>1, HouseFields
<1>12. ASSUME NEW p \in Pids, Exit(p) \/ PidReused(p) \/ \E t \in Tids, k \in Kinds : Write(p, t, k)
       PROVE  ObjectsInv'
    BY <1>1, <1>12 DEF Exit, PidReused, Write, drain, objs
<1>. QED
    BY <1>2, <1>3, <1>4, <1>5, <1>6, <1>7, <1>8, <1>9, <1>10, <1>11, <1>12
       DEF Next, DrainStep, HouseStep, StopStep

-----------------------------------------------------------------------------
(* LanesInv *)

\* Every step keeps LanesInv.
LEMMA LanesKept ==
    ASSUME IInv, [Next]_vars
    PROVE  LanesInv'
<1>0. /\ TypeOK /\ HouseInv /\ ObjectsInv /\ LanesInv /\ 0 \in Ids
      /\ table \in [Pids -> 0 .. MaxBlocks + 1] /\ made_procs \in 0 .. MaxBlocks + 1
      /\ house \in HouseVals /\ lanes \in [Insts -> [Tids -> LaneVals]]
    BY Numbers DEF IInv, TypeOK
<1>1. ASSUME UNCHANGED <<table, lanes, made_procs, dropped, stale>>,
             house'.done = house.done, house'.tids = house.tids, house'.cur = house.cur
      PROVE  LanesInv'
    <2>1. \A i \in Insts : \A t \in Tids : ToFinalize(i, t)' <=> ToFinalize(i, t)
        BY <1>1 DEF ToFinalize, Registered
    <2>2. FinalizedOnce'
        BY <1>0, <1>1 DEF LanesInv, FinalizedOnce
    <2>. QED
        BY <1>0, <1>1, <2>1, <2>2 DEF LanesInv
<1>2. ASSUME NEW d \in Ids, Claim(d) \/ Quit(d)
      PROVE  LanesInv'
    BY <1>1, <1>2 DEF Claim, Quit, objs, trace
<1>3. ASSUME NEW d \in Ids, Process(d)
      PROVE  LanesInv'
    <2>1. UNCHANGED <<lanes, dropped, stale, house>> /\ blk[d].pid \in Pids
        BY <1>0, <1>3 DEF Process, trace, TypeOK, InBlock, Blocks
    <2>2. CASE table[blk[d].pid] # 0
        <3>1. UNCHANGED <<made_procs, table>>
            BY <1>0, <1>3, <2>1, <2>2 DEF Process
        <3>. QED
            BY <1>1, <2>1, <3>1
    <2>3. CASE table[blk[d].pid] = 0
        <3>1. made_procs' = made_procs + 1 /\ table' = [table EXCEPT ![blk[d].pid] = made_procs + 1]
            BY <1>3, <2>3 DEF Process
        <3>2. \A i \in Insts : i # made_procs + 1 => (Registered(i)' <=> Registered(i))
            BY <1>0, <2>1, <2>3, <3>1 DEF Registered, Insts
        <3>3. \A i \in Insts, t \in Tids : i # made_procs + 1 => (ToFinalize(i, t)' <=> ToFinalize(i, t))
            BY <2>1, <3>2 DEF ToFinalize
        <3>4. FinalizedOnce'
            BY <1>0, <2>1 DEF LanesInv, FinalizedOnce
        <3>5. ASSUME NEW i \in Insts, NEW t \in Tids
              PROVE  /\ i > made_procs' => lanes[i][t].state = "none"
                     /\ lanes[i][t].state = "none" => lanes[i][t].open = {}
                     /\ lanes[i][t].state = "final" => ~ToFinalize(i, t)'
                     /\ lanes[i][t].open \subseteq stale \/ ToFinalize(i, t)'
            <4>1. i \in Int
                BY DEF Insts
            <4>2. CASE i = made_procs + 1
                <5>1. i > made_procs
                    BY <4>2, <1>0
                <5>. QED
                    BY <1>0, <5>1, <4>2, <3>1 DEF LanesInv
            <4>3. CASE i # made_procs + 1
                <5>1. i > made_procs' => i > made_procs
                    BY <3>1, <4>1, <1>0
                <5>. QED
                    BY <1>0, <5>1, <4>3, <3>3 DEF LanesInv
            <4>. QED
                BY <4>2, <4>3
        <3>. QED
            BY <1>0, <2>1, <3>4, <3>5 DEF LanesInv
    <2>. QED
        BY <2>2, <2>3
<1>4. ASSUME NEW d \in Ids, Lane(d)
      PROVE  LanesInv'
    <2>1. UNCHANGED <<made_procs, table, house, dropped, stale>>
        BY <1>4 DEF Lane, trace
    <2>2. \A i \in Insts, t \in Tids : ToFinalize(i, t)' <=> ToFinalize(i, t)
        BY <2>1 DEF ToFinalize, Registered
    <2>3. CASE lanes' = lanes
        BY <1>1, <2>1, <2>3
    <2>4. ASSUME NEW i \in Insts, NEW t \in Tids, NEW v \in LaneVals,
                 i <= made_procs, lanes' = [lanes EXCEPT ![i][t] = v],
                 lanes[i][t].state = "none", v.state = "ready", v.open = lanes[i][t].open
          PROVE  LanesInv'
        <3>1. \A j \in Insts, u \in Tids :
                 lanes'[j][u] = IF j = i /\ u = t THEN v ELSE lanes[j][u]
            BY <1>0, <2>4, LaneStore
        <3>2. ~(i > made_procs)
            BY <2>4, <1>0 DEF Insts
        <3>3. FinalizedOnce'
            <4>1. house.tids # {} => house.cur \in Insts
                BY <1>0, Numbers DEF ObjectsInv, Insts
            <4>2. house.tids \subseteq Tids
                BY <1>0 DEF HouseVals
            <4>. QED
                BY <1>0, <2>1, <2>4, <3>1, <4>1, <4>2 DEF LanesInv, FinalizedOnce
        <3>4. \A j \in Insts, u \in Tids :
                 /\ j > made_procs => lanes'[j][u].state = "none"
                 /\ lanes'[j][u].state = "none" => lanes'[j][u].open = {}
                 /\ lanes'[j][u].state = "final" => ~ToFinalize(j, u)
                 /\ lanes'[j][u].open \subseteq stale \/ ToFinalize(j, u)
            BY <1>0, <2>4, <3>1, <3>2 DEF LanesInv
        <3>. QED
            BY <1>0, <2>1, <2>2, <3>3, <3>4 DEF LanesInv
    <2>5. ~Replay(d)
        BY <1>4 DEF Lane, Replay
    <2>6. /\ blk[d].tid \in Tids /\ at[d] \in Insts /\ at[d] <= made_procs
          /\ \/ lanes' = lanes
             \/ \E v \in LaneVals :
                   /\ lanes' = [lanes EXCEPT ![at[d]][blk[d].tid] = v]
                   /\ lanes[at[d]][blk[d].tid].state = "none"
                   /\ v.state = "ready" /\ v.open = lanes[at[d]][blk[d].tid].open
        BY <1>0, <1>4, <2>5, LaneStores
    <2>. QED
        BY <2>3, <2>4, <2>6
<1>5. ASSUME NEW d \in Ids, Replay(d)
      PROVE  LanesInv'
    <2>0. /\ blk[d].tid \in Tids /\ blk[d].pid \in Pids
          /\ at[d] \in Insts /\ at[d] <= made_procs
        BY <1>0, <1>5, LaneStores
    <2> PICK i \in Insts, t \in Tids : i = at[d] /\ t = blk[d].tid
        BY <2>0
    <2>1. UNCHANGED <<made_procs, table, house>>
        BY <1>5 DEF Replay
    <2>2. \A j \in Insts, u \in Tids : ToFinalize(j, u)' <=> ToFinalize(j, u)
        BY <2>1 DEF ToFinalize, Registered
    <2>3. stale \subseteq stale' /\ (blk[d].kind = "data" => blk[d].n \in stale' \/ Registered(i))
        BY <1>5, <2>0 DEF Replay, Registered
    <2>4. Registered(i) => ToFinalize(i, t)
        BY DEF ToFinalize
    <2>5. dropped' \subseteq stale'
        <3>1. dropped' = dropped \/ (/\ dropped' = dropped \cup {blk[d].n} /\ blk[d].kind = "data"
                                    /\ lanes[i][t].state = "final")
            BY <1>5 DEF Replay
        <3>2. dropped \subseteq stale
            BY <1>0 DEF LanesInv
        <3>3. lanes[i][t].state = "final" => ~Registered(i)
            BY <1>0, <2>4 DEF LanesInv
        <3>. QED
            BY <2>3, <3>1, <3>2, <3>3
    <2>6. CASE lanes' = lanes
        <3>1. FinalizedOnce'
            BY <1>0, <2>1, <2>6 DEF LanesInv, FinalizedOnce
        <3>. QED
            BY <1>0, <2>1, <2>2, <2>3, <2>5, <2>6, <3>1 DEF LanesInv
    <2>7. ASSUME NEW v \in LaneVals, lanes' = [lanes EXCEPT ![i][t] = v], blk[d].kind = "data",
                 lanes[i][t].state = "ready", v.state = "ready",
                 v.open = lanes[i][t].open \cup {blk[d].n}
          PROVE  LanesInv'
        <3>1. \A j \in Insts, u \in Tids :
                 lanes'[j][u] = IF j = i /\ u = t THEN v ELSE lanes[j][u]
            BY <1>0, <2>7, LaneStore
        <3>2. ~(i > made_procs)
            BY <2>0, <1>0 DEF Insts
        <3>3. FinalizedOnce'
            <4>1. house.tids # {} => house.cur \in Insts
                BY <1>0, Numbers DEF ObjectsInv, Insts
            <4>2. house.tids \subseteq Tids
                BY <1>0 DEF HouseVals
            <4>. QED
                BY <1>0, <2>1, <2>7, <3>1, <4>1, <4>2 DEF LanesInv, FinalizedOnce
        <3>4. v.open \subseteq stale' \/ ToFinalize(i, t)
            BY <1>0, <2>3, <2>4, <2>7 DEF LanesInv
        <3>5. \A j \in Insts, u \in Tids :
                 /\ j > made_procs => lanes'[j][u].state = "none"
                 /\ lanes'[j][u].state = "none" => lanes'[j][u].open = {}
                 /\ lanes'[j][u].state = "final" => ~ToFinalize(j, u)
                 /\ lanes'[j][u].open \subseteq stale' \/ ToFinalize(j, u)
            BY <1>0, <2>3, <2>7, <3>1, <3>2, <3>4 DEF LanesInv
        <3>. QED
            BY <2>1, <2>2, <2>5, <3>3, <3>5 DEF LanesInv
    <2>8. ~Lane(d)
        BY <1>5 DEF Lane, Replay
    <2>. QED
        BY <1>0, <1>5, <2>6, <2>7, <2>8, LaneStores
<1>6. CASE Housekeeping \/ NoReap \/ FinishDone
    <2>1. /\ UNCHANGED <<table, lanes, made_procs, dropped, stale>>
          /\ house'.done = {} /\ house'.tids = {} /\ house.done = {} /\ house.tids = {}
        BY <1>0, <1>6, HouseFields DEF Housekeeping, NoReap, FinishDone, objs, trace, HouseInv
    <2>2. \A i \in Insts, t \in Tids : ToFinalize(i, t)' <=> ToFinalize(i, t)
        BY <2>1 DEF ToFinalize, Registered
    <2>3. FinalizedOnce'
        BY <2>1 DEF FinalizedOnce
    <2>. QED
        BY <1>0, <2>1, <2>2, <2>3 DEF LanesInv
<1>7. CASE TakeOver \/ Joined \/ Stop \/ UNCHANGED vars
    BY <1>1, <1>7 DEF TakeOver, Joined, Stop, vars, objs, trace
<1>8. CASE Reap \/ Tick
    <2>1. UNCHANGED <<table, lanes, made_procs, dropped, stale>>
        BY <1>8 DEF Reap, Tick, objs, trace
    <2>. QED
        BY <1>0, <1>1, <1>8, <2>1, HouseFields
<1>9. CASE Visit
    <2>1. UNCHANGED <<lanes, made_procs, dropped, stale>>
        BY <1>9 DEF Visit, trace
    <2> PICK p \in Pids :
              /\ p \in house.todo /\ table[p] \in Insts
              /\ house'.tids = house.tids /\ house'.cur = house.cur
              /\ \/ UNCHANGED table /\ house'.done = house.done
                 \/ table' = [table EXCEPT ![p] = 0] /\ house'.done = house.done \cup {table[p]}
        BY <1>0, <1>9, VisitFields
    <2>2. 0 \notin Insts
        BY DEF Insts
    <2>3. \A i \in Insts, t \in Tids : ToFinalize(i, t)' <=> ToFinalize(i, t)
        BY <1>0, <2>2 DEF ToFinalize, Registered
    <2>4. FinalizedOnce'
        BY <1>0, <2>1 DEF LanesInv, FinalizedOnce
    <2>. QED
        BY <1>0, <2>1, <2>3, <2>4 DEF LanesInv
<1>10. CASE Finish
    <2>1. UNCHANGED <<table, lanes, made_procs, dropped, stale>>
        BY <1>10 DEF Finish, objs, trace
    <2> PICK i \in Insts :
              /\ i \in house.done /\ house'.done = house.done \ {i} /\ house'.cur = i
              /\ house'.tids = {t \in Tids : lanes[i][t].state # "none"}
              /\ house.tids = {}
        BY <1>0, <1>10, FinishFields
    <2>2. \A t \in Tids : ToFinalize(i, t)
        BY DEF ToFinalize
    <2>3. \A j \in Insts, t \in Tids :
             \/ ToFinalize(j, t)' <=> ToFinalize(j, t)
             \/ j = i /\ lanes[j][t].state = "none"
        BY <2>1 DEF ToFinalize, Registered
    <2>4. FinalizedOnce'
        <3>1. \A t \in Tids : lanes[i][t] \in LaneVals
            BY <1>0
        <3>2. \A t \in Tids : lanes[i][t].state # "final"
            BY <1>0, <2>2 DEF LanesInv
        <3>. QED
            BY <2>1, <3>1, <3>2 DEF FinalizedOnce, LaneVals
    <2>. QED
        BY <1>0, <2>1, <2>3, <2>4 DEF LanesInv
<1>11. CASE FinishLane
    <2>1. UNCHANGED <<table, made_procs, dropped, stale>>
        BY <1>11 DEF FinishLane
    <2> PICK t \in Tids, v \in LaneVals :
              /\ t \in house.tids /\ house'.tids = house.tids \ {t} /\ house'.cur = house.cur
              /\ house.cur \in Insts
              /\ house'.done = house.done
              /\ lanes' = [lanes EXCEPT ![house.cur][t] = v] /\ v.state = "final" /\ v.open = {}
        BY <1>0, <1>11, FinishLaneFields
    <2> PICK i \in Insts : i = house.cur
        OBVIOUS
    <2>2. \A j \in Insts, u \in Tids :
              lanes'[j][u] = IF j = i /\ u = t THEN v ELSE lanes[j][u]
        BY <1>0, LaneStore
    <2>3. ~Registered(i) /\ i \notin house.done /\ ~(i > made_procs)
        BY <1>0 DEF ObjectsInv, Insts
    <2>4. /\ ~ToFinalize(i, t)'
          /\ \A j \in Insts, u \in Tids : ~(j = i /\ u = t) => (ToFinalize(j, u)' <=> ToFinalize(j, u))
        BY <2>1, <2>3 DEF ToFinalize, Registered
    <2>5. FinalizedOnce'
        <3>1. house.tids \subseteq Tids
            BY <1>0 DEF HouseVals
        <3>. QED
            BY <1>0, <2>2, <3>1 DEF LanesInv, FinalizedOnce
    <2>6. ASSUME NEW j \in Insts, NEW u \in Tids
          PROVE  /\ j > made_procs => lanes'[j][u].state = "none"
                 /\ lanes'[j][u].state = "none" => lanes'[j][u].open = {}
                 /\ lanes'[j][u].state = "final" => ~ToFinalize(j, u)'
                 /\ lanes'[j][u].open \subseteq stale \/ ToFinalize(j, u)'
        <3>1. CASE j = i /\ u = t
            BY <2>2, <2>3, <2>4, <3>1
        <3>2. CASE ~(j = i /\ u = t)
            BY <1>0, <2>2, <2>4, <3>2 DEF LanesInv
        <3>. QED
            BY <3>1, <3>2
    <2>. QED
        BY <1>0, <2>1, <2>5, <2>6 DEF LanesInv
<1>12. CASE TakeAll
    <2>1. UNCHANGED <<lanes, made_procs, dropped, stale>> /\ pc[0] = "over" /\ \A p \in Pids : table'[p] = 0
        BY <1>12 DEF TakeAll, objs, trace
    <2>2. /\ house'.tids = {} /\ house'.done = {table[p] : p \in Pids} \ {0}
          /\ house.tids = {} /\ house.done = {}
        BY <1>0, <1>12, <2>1, HouseFields DEF HouseInv
    <2>3. 0 \notin Insts
        BY DEF Insts
    <2>4. \A i \in Insts, t \in Tids : ToFinalize(i, t)' <=> ToFinalize(i, t)
        BY <2>1, <2>2, <2>3 DEF ToFinalize, Registered
    <2>5. FinalizedOnce'
        BY <2>2 DEF FinalizedOnce
    <2>. QED
        BY <1>0, <2>1, <2>4, <2>5 DEF LanesInv
<1>13. ASSUME NEW p \in Pids, Exit(p) \/ PidReused(p) \/ \E t \in Tids, k \in Kinds : Write(p, t, k)
       PROVE  LanesInv'
    BY <1>1, <1>13 DEF Exit, PidReused, Write, objs, trace
<1>. QED
    BY <1>2, <1>3, <1>4, <1>5, <1>6, <1>7, <1>8, <1>9, <1>10, <1>11, <1>12, <1>13
       DEF Next, DrainStep, HouseStep, StopStep

-----------------------------------------------------------------------------
(* The theorems *)

\* The initial states satisfy the invariant.
LEMMA InitInv == Init => IInv
<1> SUFFICES ASSUME Init PROVE IInv
    OBVIOUS
<1> PICK quiet \in {{}} \cup {{p} : p \in Pids} :
          /\ said = [p \in Pids |-> IF p \in quiet THEN "hello" ELSE "new"]
          /\ table = [p \in Pids |-> IF p \in quiet THEN 1 ELSE 0]
          /\ made_procs = IF quiet = {} THEN 0 ELSE 1
          /\ procs = [i \in Insts |-> IF i <= made_procs THEN [NoProc EXCEPT !.seen = MaxAge] ELSE NoProc]
          /\ lanes = [i \in Insts |-> [t \in Tids |->
                         IF i <= made_procs THEN [NoLane EXCEPT !.state = "ready"] ELSE NoLane]]
    BY DEF Init
<1>0. /\ alive = [p \in Pids |-> TRUE]
      /\ blocks = {} /\ made = 0
      /\ pc = [d \in Ids |-> "idle"]
      /\ blk = [d \in Ids |-> NoBlock] /\ at = [d \in Ids |-> 0] /\ age = [d \in Ids |-> 0]
      /\ house = NoHouse /\ reaped = ReapEvery
      /\ stop = "run"
      /\ written = {} /\ dropped = {} /\ stale = {}
    BY DEF Init
<1>1. /\ NoProc \in ProcVals /\ [NoProc EXCEPT !.seen = MaxAge] \in ProcVals
      /\ NoLane \in LaneVals /\ [NoLane EXCEPT !.state = "ready"] \in LaneVals
      /\ NoLane.state = "none" /\ NoLane.open = {}
      /\ [NoLane EXCEPT !.state = "ready"].state = "ready"
      /\ [NoLane EXCEPT !.state = "ready"].open = {}
      /\ NoHouse \in HouseVals
    <2>1. 0 \in 0 .. MaxAge /\ 0 \in 0 .. MaxLag /\ 0 \in 0 .. MaxBlocks + 1 /\ MaxAge \in 0 .. MaxAge
        BY Numbers
    <2>2. NoProc \in ProcVals /\ [NoProc EXCEPT !.seen = MaxAge] \in ProcVals
        BY <2>1 DEF NoProc, ProcVals
    <2>3. /\ NoLane \in LaneVals /\ [NoLane EXCEPT !.state = "ready"] \in LaneVals
          /\ NoLane.state = "none" /\ NoLane.open = {}
          /\ [NoLane EXCEPT !.state = "ready"].state = "ready"
          /\ [NoLane EXCEPT !.state = "ready"].open = {}
        BY DEF NoLane, LaneVals
    <2>4. NoHouse \in HouseVals
        BY <2>1 DEF NoHouse, HouseVals
    <2>. QED
        BY <2>2, <2>3, <2>4
<1>2. /\ NoHouse.on = FALSE /\ NoHouse.due = FALSE /\ NoHouse.todo = {}
      /\ NoHouse.done = {} /\ NoHouse.tids = {}
    BY DEF NoHouse
<1>3. TypeOK
    <2>1. /\ 0 \in 0 .. MaxBlocks + 1 /\ 1 \in 0 .. MaxBlocks + 1 /\ 0 \in 0 .. MaxBlocks
          /\ 0 \in 0 .. MaxLag /\ ReapEvery \in 0 .. ReapEvery + MaxLag
        BY Numbers
    <2>2. /\ table \in [Pids -> 0 .. MaxBlocks + 1] /\ made_procs \in 0 .. MaxBlocks + 1
          /\ said \in [Pids -> {"new", "hello", "goodbye"}]
        BY <2>1
    <2>3. procs \in [Insts -> ProcVals] /\ lanes \in [Insts -> [Tids -> LaneVals]]
        BY <1>1
    <2>4. \A d \in Ids : InBlock(d) <=> blk[d] # NoBlock
        BY <1>0 DEF InBlock
    <2>. QED
        BY <1>0, <1>1, <2>1, <2>2, <2>3, <2>4 DEF TypeOK
<1>4. CountInv
    <2>1. Waiting = {}
        BY <1>0 DEF Waiting
    <2>2. Cardinality(Waiting) = 0
        BY <2>1, FS_EmptySet
    <2>3. made_procs \in {0, 1}
        OBVIOUS
    <2>. QED
        BY <1>0, <2>1, <2>2, <2>3 DEF CountInv
<1>5. HouseInv
    BY <1>0, <1>2, Numbers DEF HouseInv
<1>6. ObjectsInv
    <2>1. \A p \in Pids : table[p] <= made_procs
        OBVIOUS
    <2>2. \A p, q \in Pids : p # q /\ table[p] = table[q] => table[p] = 0
        OBVIOUS
    <2>. QED
        BY <1>0, <1>2, <2>1, <2>2 DEF ObjectsInv
<1>7. LanesInv
    <2>1. FinalizedOnce
        BY <1>0, <1>2 DEF FinalizedOnce
    <2>2. ASSUME NEW i \in Insts, NEW t \in Tids
          PROVE  /\ i > made_procs => lanes[i][t].state = "none"
                 /\ lanes[i][t].state = "none" => lanes[i][t].open = {}
                 /\ lanes[i][t].state # "final"
                 /\ lanes[i][t].open = {}
        <3>1. i > made_procs => ~(i <= made_procs)
            BY DEF Insts
        <3>. QED
            BY <1>1, <3>1
    <2>. QED
        BY <1>0, <2>1, <2>2 DEF LanesInv
<1>. QED
    BY <1>3, <1>4, <1>5, <1>6, <1>7 DEF IInv

\* The invariant holds in every reachable state.
LEMMA InvAlways == Spec => []IInv
<1>1. Init => IInv
    BY InitInv
<1>2. IInv /\ [Next]_vars => IInv'
    BY TypeStep, CountStep, HouseKept, ObjectsKept, LanesKept DEF IInv
<1>. QED
    BY PTL, <1>2, <1>1 DEF Spec

\* The table, the objects, the lanes and every thread's locals stay in range;
\* in particular a ClientProcess is never made without a block of its own.
THEOREM ClientsTyping == Spec => []TypeOK
<1>1. IInv => TypeOK
    BY DEF IInv
<1>. QED
    BY <1>1, InvAlways, PTL

\* No lane is finalized twice, by take_finished and take_all or by two reaps,
\* whatever is replayed into it meanwhile.
THEOREM LanesFinalizedOnce == Spec => []FinalizedOnce
<1>1. IInv => FinalizedOnce
    BY DEF IInv, LanesInv
<1>. QED
    BY <1>1, InvAlways, PTL

\* After stop() every event that was replayed is in the trace, except those
\* whose drain thread had looked the process up before it was taken out of the
\* table; and only such are refused by a finalized lane.
THEOREM ClientsLoseOnlyStale == Spec => []LostOnlyIfStale
<1>1. ASSUME IInv
      PROVE  LostOnlyIfStale
    <2>1. dropped \subseteq stale
        BY <1>1 DEF IInv, LanesInv
    <2>2. ASSUME stop = "done", NEW i \in Insts, NEW t \in Tids
          PROVE  lanes[i][t].open \subseteq stale
        <3>1. /\ \A p \in Pids : table[p] = 0
              /\ house.done = {} /\ house.tids = {}
            BY <1>1, <2>2 DEF IInv, HouseInv
        <3>2. i # 0
            BY DEF Insts
        <3>3. ~ToFinalize(i, t)
            BY <3>1, <3>2 DEF ToFinalize, Registered
        <3>. QED
            BY <1>1, <3>3 DEF IInv, LanesInv
    <2>. QED
        BY <2>1, <2>2 DEF LostOnlyIfStale
<1>. QED
    BY <1>1, InvAlways, PTL

=============================================================================
