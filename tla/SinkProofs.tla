------------------------------ MODULE SinkProofs ------------------------------
(***************************************************************************)
(* The safety properties of Sink, for any number of drain threads and of   *)
(* blocks.                                                                 *)
(***************************************************************************)
EXTENDS Sink, TLAPS

\* Block b has left the producers: somebody has it, or its lines are written.
Kept(b) == \/ b \in ready \cup file
           \/ \E i \in Ids : b \in hand[i] \cup chunk[i]

\* A block is with the producers or kept; those that stop() promised are kept.
PlaceInv ==
    /\ \A b \in Blocks : b \in fresh \cup held \/ Kept(b)
    /\ early \cap (fresh \cup held) = {}

\* Only a thread that is processing has blocks in hand.
HandInv == \A i \in Ids : hand[i] # {} => pc[i] = "process"

\* After the join stop() is alone, and what it has claimed it need not claim
\* again: producers still publish, but nothing it promised.
StopInv ==
    /\ spc \in {"claim", "take", "write", "closed"} => \A i \in Ids : pc[i] = "ended"
    /\ spc \in {"take", "write", "closed"} => early \cap ready = {}

\* The larger count that thread 0 is about to store is one the scaler may want.
WantInv == pc[0] = "raise" => seen \in MinThreads .. MaxThreads

Inv == TypeOK /\ PlaceInv /\ HandInv /\ StopInv /\ WantInv /\ ParkedEmpty

-----------------------------------------------------------------------------
\* There is a thread 0.
LEMMA ZeroId == 0 \in Ids
BY SinkConstants DEF Ids

\* ConsumerScaler::update stays within its bounds, whatever count it was given.
LEMMA ScalerInRange ==
    ASSUME NEW target \in MinThreads .. MaxThreads, NEW n \in Nat, below \in 0 .. DownTicks - 1
    PROVE  /\ Want(target, Clamp(n)) \in MinThreads .. MaxThreads
           /\ Below(target, Clamp(n)) \in 0 .. DownTicks - 1
<1>1. Clamp(n) \in MinThreads .. MaxThreads
  BY SinkConstants DEF Clamp
<1>2. Want(target, Clamp(n)) \in MinThreads .. MaxThreads
  BY <1>1, SinkConstants DEF Want
<1>3. Below(target, Clamp(n)) \in 0 .. DownTicks - 1
  BY <1>1, SinkConstants DEF Below
<1> QED
  BY <1>2, <1>3

\* However the chunk is written out, no line is lost and no other chunk moves.
LEMMA ReplayKeeps ==
    ASSUME NEW i \in Ids, NEW bs \in SUBSET Blocks, chunk \in [Ids -> SUBSET Blocks],
           file \subseteq Blocks, Replay(i, bs)
    PROVE  /\ chunk' \in [Ids -> SUBSET Blocks] /\ file' \subseteq Blocks
           /\ file \subseteq file'
           /\ file \cup chunk[i] \cup bs \subseteq file' \cup chunk'[i]
           /\ \A j \in Ids \ {i} : chunk'[j] = chunk[j]
BY DEF Replay

\* At start() nothing is drained and every block is with the producers.
LEMMA InvInit == Init => Inv
<1> SUFFICES ASSUME Init PROVE Inv
  OBVIOUS
<1>1. stop \in BOOLEAN
  BY Zenon DEF Init
<1>2. pc \in [Ids -> {"top"}] /\ below \in 0 .. DownTicks - 1 /\ seen \in 0 .. MaxThreads
  BY SinkConstants DEF Init
<1>3. TypeOK
  BY <1>1, <1>2, SinkConstants DEF Init, TypeOK
<1>4. PlaceInv /\ HandInv /\ StopInv /\ ParkedEmpty
  BY DEF Init, PlaceInv, HandInv, StopInv, ParkedEmpty
<1>5. WantInv
  BY ZeroId DEF Init, WantInv
<1> QED
  BY <1>3, <1>4, <1>5 DEF Inv

\* Steps of the producers.
LEMMA ProducerKeeps == Inv /\ ProducerStep => Inv'
<1> SUFFICES ASSUME Inv, ProducerStep PROVE Inv'
  OBVIOUS
<1> USE DEF Inv, ProducerStep
<1>1. TypeOK'
  BY DEF TypeOK
<1>2. PlaceInv'
  BY DEF TypeOK, PlaceInv, Kept
<1>3. HandInv' /\ WantInv' /\ ParkedEmpty'
  BY DEF HandInv, WantInv, ParkedEmpty
<1>4. StopInv'
  BY DEF StopInv, PlaceInv, TypeOK
<1> QED
  BY <1>1, <1>2, <1>3, <1>4

Parked == {"park", "sleepy", "asleep", "woken"}
Points == {"top", "claim", "process", "none", "scale", "house", "decide", "raise", "notify",
           "exit", "ended"} \cup Parked

\* A thread that only moves on: it has nothing in hand, and it gets to a parked
\* point only from one.
LEMMA MoveKeeps ==
    ASSUME Inv, NEW i \in Ids, NEW b \in Points, pc' = [pc EXCEPT ![i] = b],
           pc[i] \notin {"process", "ended"}, b # "ended",
           b \in Parked => pc[i] \in Parked, b # "raise",
           seen' \in 0 .. MaxThreads, seen' = seen \/ i = 0,
           UNCHANGED <<held, ready, fresh, active, stop, below, hand, chunk, file, spc, early>>
    PROVE  Inv'
<1> USE DEF Inv, Points, Parked
<1>1. TypeOK'
  BY DEF TypeOK
<1>2. PlaceInv'
  BY DEF PlaceInv, Kept
<1>3. HandInv' /\ StopInv' /\ WantInv' /\ ParkedEmpty'
  BY ZeroId DEF TypeOK, HandInv, StopInv, WantInv, ParkedEmpty
<1> QED
  BY <1>1, <1>2, <1>3

\* A thread that writes its chunk out: before it parks, and at its end.
LEMMA WriteOutKeeps ==
    ASSUME Inv, NEW i \in Ids, NEW b \in Parked \cup {"ended"}, pc' = [pc EXCEPT ![i] = b],
           pc[i] \notin {"process", "ended"},
           file' = file \cup chunk[i], chunk' = [chunk EXCEPT ![i] = {}],
           UNCHANGED <<held, ready, fresh, active, stop, below, hand, seen, spc, early>>
    PROVE  Inv'
<1> USE DEF Inv, Parked
<1>1. TypeOK'
  BY DEF TypeOK
<1>2. PlaceInv'
  BY DEF PlaceInv, Kept, TypeOK
<1>3. HandInv' /\ StopInv' /\ WantInv' /\ ParkedEmpty'
  BY ZeroId DEF TypeOK, HandInv, StopInv, WantInv, ParkedEmpty
<1> QED
  BY <1>1, <1>2, <1>3

\* claim() gives thread i a block.
LEMMA ClaimKeeps == ASSUME Inv, NEW i \in Ids, Claim(i) PROVE Inv'
<1> USE DEF Inv, Claim, At
<1> PICK b \in ready : hand' = [hand EXCEPT ![i] = {b}] /\ ready' = ready \ {b}
  OBVIOUS
<1>1. TypeOK'
  BY DEF TypeOK
<1>2. hand[i] = {}
  BY DEF HandInv
<1>3. PlaceInv'
  BY <1>2 DEF PlaceInv, Kept, TypeOK
<1>4. HandInv' /\ StopInv' /\ WantInv' /\ ParkedEmpty'
  BY ZeroId DEF TypeOK, HandInv, StopInv, WantInv, ParkedEmpty
<1> QED
  BY <1>1, <1>3, <1>4

\* Thread i puts the lines of its blocks, or of none, into its chunk.
LEMMA ReplayInv ==
    ASSUME Inv, NEW i \in Ids, NEW b \in {"top", "scale"}, pc' = [pc EXCEPT ![i] = b],
           pc[i] # "ended", Replay(i, hand[i]), hand' = [hand EXCEPT ![i] = {}],
           UNCHANGED <<held, ready, fresh, active, stop, below, seen, spc, early>>
    PROVE  Inv'
<1> USE DEF Inv
<1>1. /\ chunk' \in [Ids -> SUBSET Blocks] /\ file' \subseteq Blocks
      /\ file \subseteq file'
      /\ file \cup chunk[i] \cup hand[i] \subseteq file' \cup chunk'[i]
      /\ \A j \in Ids \ {i} : chunk'[j] = chunk[j]
  BY ReplayKeeps DEF TypeOK
<1>2. TypeOK'
  BY <1>1 DEF TypeOK
<1>3. PlaceInv'
  <2>1. ASSUME NEW c, Kept(c) PROVE Kept(c)'
    BY <1>1, <2>1 DEF Kept, TypeOK
  <2> QED
    BY <2>1 DEF PlaceInv
<1>4. HandInv' /\ StopInv' /\ WantInv' /\ ParkedEmpty'
  BY ZeroId, <1>1 DEF TypeOK, HandInv, StopInv, WantInv, ParkedEmpty
<1> QED
  BY <1>2, <1>3, <1>4

\* Thread 0, or stop() in its place, puts the lines of one more block into the
\* chunk: a block taken from the producers or from the complete ones.
LEMMA ReplayOne ==
    ASSUME Inv, NEW b \in Blocks, Replay(0, {b}),
           spc \in {"claim", "take"} \/ pc[0] = "house",
           \/ b \in held /\ held' = held \ {b} /\ UNCHANGED ready
           \/ b \in ready /\ ready' = ready \ {b} /\ UNCHANGED held,
           UNCHANGED <<fresh, active, stop, below, pc, hand, seen, spc, early>>
    PROVE  Inv'
<1> USE ZeroId DEF Inv
<1>1. /\ chunk' \in [Ids -> SUBSET Blocks] /\ file' \subseteq Blocks
      /\ file \subseteq file'
      /\ file \cup chunk[0] \cup {b} \subseteq file' \cup chunk'[0]
      /\ \A j \in Ids \ {0} : chunk'[j] = chunk[j]
  BY ReplayKeeps DEF TypeOK
<1>2. TypeOK'
  BY <1>1 DEF TypeOK
<1>3. PlaceInv'
  <2>1. ASSUME NEW c, Kept(c) PROVE Kept(c)'
    BY <1>1, <2>1 DEF Kept, TypeOK
  <2>2. Kept(b)'
    BY <1>1 DEF Kept
  <2> QED
    BY <2>1, <2>2 DEF PlaceInv
<1>4. HandInv' /\ StopInv' /\ WantInv' /\ ParkedEmpty'
  BY ZeroId, <1>1 DEF TypeOK, HandInv, StopInv, WantInv, ParkedEmpty
<1> QED
  BY <1>2, <1>3, <1>4

\* The scaler lowers the active count, or keeps the larger one it wants for Raise.
LEMMA DecideKeeps == ASSUME Inv, Decide PROVE Inv'
<1> USE ZeroId DEF Inv
<1> DEFINE Goes ==
             /\ below' \in 0 .. DownTicks - 1 /\ active' \in MinThreads .. MaxThreads
             /\ seen' \in 0 .. MaxThreads
             /\ \/ pc' = [pc EXCEPT ![0] = "top"]
                \/ pc' = [pc EXCEPT ![0] = "raise"] /\ seen' \in MinThreads .. MaxThreads
<1>1. Goes
  <2>1. CASE below' = 0 /\ pc' = [pc EXCEPT ![0] = "top"] /\ UNCHANGED <<active, seen>>
    BY <2>1, SinkConstants DEF TypeOK
  <2>2. ASSUME NEW target \in MinThreads .. MaxThreads,
               below' = Below(target, Clamp(seen)),
               seen' = Want(target, Clamp(seen)),
               active' = IF Want(target, Clamp(seen)) < seen
                         THEN Want(target, Clamp(seen)) ELSE active,
               pc' = [pc EXCEPT ![0] = IF Want(target, Clamp(seen)) > seen
                                       THEN "raise" ELSE "top"]
        PROVE  Goes
    <3>1. /\ below' \in 0 .. DownTicks - 1
          /\ Want(target, Clamp(seen)) \in MinThreads .. MaxThreads
      BY <2>2, SinkConstants, ScalerInRange DEF TypeOK
    <3>2. active' \in MinThreads .. MaxThreads /\ seen' \in 0 .. MaxThreads
      BY <2>2, <3>1, SinkConstants DEF TypeOK
    <3>3. CASE Want(target, Clamp(seen)) > seen
      BY <2>2, <3>1, <3>2, <3>3
    <3>4. CASE ~(Want(target, Clamp(seen)) > seen)
      BY <2>2, <3>1, <3>2, <3>4
    <3> QED
      BY <3>3, <3>4
  <2> HIDE DEF Goes, Inv
  <2> QED
    BY <2>1, <2>2, Zenon DEF Decide
<1>2. pc[0] = "decide" /\ UNCHANGED <<held, ready, fresh, stop, hand, chunk, file, spc, early>>
  BY DEF Decide
<1>3. TypeOK'
  BY <1>1, <1>2 DEF TypeOK
<1>4. PlaceInv'
  BY <1>2 DEF PlaceInv, Kept
<1>5. HandInv' /\ StopInv' /\ WantInv' /\ ParkedEmpty'
  BY <1>1, <1>2 DEF TypeOK, HandInv, StopInv, WantInv, ParkedEmpty
<1> QED
  BY <1>3, <1>4, <1>5

\* Thread 0 stores the larger count and wakes the sleepers.
LEMMA RaiseKeeps == ASSUME Inv, Raise \/ Notify PROVE Inv'
<1> USE ZeroId DEF Inv
<1>1. /\ active' \in MinThreads .. MaxThreads
      /\ pc' \in [Ids -> Points] /\ pc[0] \in {"raise", "notify"} /\ pc'[0] \in {"notify", "top"}
      /\ \A i \in Ids \ {0} : pc'[i] = pc[i] \/ (pc[i] = "asleep" /\ pc'[i] = "park")
  BY DEF Raise, Notify, NotifyAll, At, TypeOK, WantInv, Points, Parked
<1>2. UNCHANGED <<held, ready, fresh, stop, below, hand, seen, chunk, file, spc, early>>
  BY DEF Raise, Notify
<1>3. TypeOK'
  BY <1>1, <1>2 DEF TypeOK, Points, Parked
<1>4. PlaceInv'
  BY <1>2 DEF PlaceInv, Kept
<1>5. HandInv' /\ StopInv' /\ WantInv' /\ ParkedEmpty'
  BY <1>1, <1>2 DEF TypeOK, HandInv, StopInv, WantInv, ParkedEmpty
<1> QED
  BY <1>3, <1>4, <1>5

\* stop() sends every thread home.
LEMMA StopSignals == Inv /\ (StopBegins \/ StopSets \/ StopNotifies \/ StopJoins) => Inv'
<1> USE SinkConstants DEF Inv
<1>1. Inv /\ StopBegins => Inv'
  <2> SUFFICES ASSUME Inv, StopBegins PROVE Inv'
    OBVIOUS
  <2>1. TypeOK' /\ PlaceInv' /\ HandInv'
    BY DEF StopBegins, TypeOK, PlaceInv, Kept, HandInv
  <2>2. StopInv' /\ WantInv' /\ ParkedEmpty'
    BY ZeroId DEF StopBegins, StopInv, WantInv, ParkedEmpty
  <2> QED
    BY <2>1, <2>2
<1>2. Inv /\ StopSets => Inv'
  <2> SUFFICES ASSUME Inv, StopSets PROVE Inv'
    OBVIOUS
  <2>1. stop' \in BOOLEAN
    BY Zenon DEF StopSets
  <2>2. active' \in MinThreads .. MaxThreads
    BY DEF StopSets
  <2>3. TypeOK'
    BY <2>1, <2>2 DEF StopSets, TypeOK
  <2>4. PlaceInv' /\ HandInv'
    BY DEF StopSets, PlaceInv, Kept, HandInv
  <2>5. StopInv' /\ WantInv' /\ ParkedEmpty'
    BY ZeroId DEF StopSets, StopInv, WantInv, ParkedEmpty
  <2> QED
    BY <2>3, <2>4, <2>5
<1>3. Inv /\ StopNotifies => Inv'
  <2> SUFFICES ASSUME Inv, StopNotifies PROVE Inv'
    OBVIOUS
  <2>1. TypeOK'
    BY DEF StopNotifies, NotifyAll, TypeOK
  <2>2. PlaceInv' /\ HandInv'
    BY DEF StopNotifies, NotifyAll, TypeOK, PlaceInv, Kept, HandInv
  <2>3. StopInv' /\ WantInv' /\ ParkedEmpty'
    BY ZeroId DEF StopNotifies, StopInv, WantInv, ParkedEmpty, NotifyAll, TypeOK
  <2> QED
    BY <2>1, <2>2, <2>3
<1>4. Inv /\ StopJoins => Inv'
  <2> SUFFICES ASSUME Inv, StopJoins PROVE Inv'
    OBVIOUS
  <2>1. TypeOK' /\ PlaceInv' /\ HandInv'
    BY DEF StopJoins, TypeOK, PlaceInv, Kept, HandInv
  <2>2. StopInv' /\ WantInv' /\ ParkedEmpty'
    BY ZeroId DEF StopJoins, StopInv, WantInv, ParkedEmpty
  <2> QED
    BY <2>1, <2>2
<1> QED
  BY <1>1, <1>2, <1>3, <1>4

\* stop() drains what the threads left, and closes the file.
LEMMA StopDrains == Inv /\ (StopClaims \/ StopTakes \/ StopWrites) => Inv'
<1>1. ASSUME Inv, StopClaims PROVE Inv'
  <2>1. CASE \E b \in ready : ready' = ready \ {b} /\ Replay(0, {b}) /\ UNCHANGED spc
    <3> PICK b \in ready : ready' = ready \ {b} /\ Replay(0, {b}) /\ UNCHANGED spc
      BY <2>1
    <3>1. b \in Blocks
      BY <1>1 DEF Inv, TypeOK
    <3>2. spc = "claim" /\ UNCHANGED <<held, fresh, active, stop, below, pc, hand, seen, early>>
      BY <1>1 DEF StopClaims
    <3> QED
      BY <1>1, <3>1, <3>2, ReplayOne
  <2>2. CASE ready = {} /\ spc' = "take" /\ UNCHANGED <<ready, chunk, file>>
    <3> USE <1>1, <2>2 DEF Inv, StopClaims
    <3>1. TypeOK' /\ PlaceInv' /\ HandInv'
      BY DEF TypeOK, PlaceInv, Kept, HandInv
    <3>2. StopInv' /\ WantInv' /\ ParkedEmpty'
      BY DEF StopInv, WantInv, ParkedEmpty
    <3> QED
      BY <3>1, <3>2
  <2> QED
    BY <1>1, <2>1, <2>2 DEF StopClaims
<1>2. ASSUME Inv, StopTakes PROVE Inv'
  <2>1. CASE \E b \in held : held' = held \ {b} /\ Replay(0, {b}) /\ UNCHANGED spc
    <3> PICK b \in held : held' = held \ {b} /\ Replay(0, {b}) /\ UNCHANGED spc
      BY <2>1
    <3>1. b \in Blocks
      BY <1>2 DEF Inv, TypeOK
    <3>2. spc = "take" /\ UNCHANGED <<ready, fresh, active, stop, below, pc, hand, seen, early>>
      BY <1>2 DEF StopTakes
    <3> QED
      BY <1>2, <3>1, <3>2, ReplayOne
  <2>2. CASE spc' = "write" /\ UNCHANGED <<held, chunk, file>>
    <3> USE <1>2, <2>2 DEF Inv, StopTakes
    <3>1. TypeOK' /\ PlaceInv' /\ HandInv'
      BY DEF TypeOK, PlaceInv, Kept, HandInv
    <3>2. StopInv' /\ WantInv' /\ ParkedEmpty'
      BY DEF StopInv, WantInv, ParkedEmpty
    <3> QED
      BY <3>1, <3>2
  <2> QED
    BY <1>2, <2>1, <2>2 DEF StopTakes
<1>3. ASSUME Inv, StopWrites PROVE Inv'
  <2> USE <1>3 DEF Inv, StopWrites
  <2>1. TypeOK'
    BY DEF TypeOK
  <2>2. PlaceInv'
    <3>1. ASSUME NEW c, Kept(c) PROVE Kept(c)'
      BY <3>1 DEF Kept
    <3> QED
      BY <3>1 DEF PlaceInv
  <2>3. HandInv' /\ StopInv' /\ WantInv' /\ ParkedEmpty'
    BY DEF HandInv, StopInv, WantInv, ParkedEmpty
  <2> QED
    BY <2>1, <2>2, <2>3
<1> QED
  BY <1>1, <1>2, <1>3

\* Every step of a drain thread.
LEMMA ThreadKeeps ==
    ASSUME Inv, NEW i \in Ids, ThreadStep(i) \/ SpuriousWake(i) PROVE Inv'
<1> USE DEF At, Points, Parked
<1>0. pc[i] \in Points /\ seen \in 0 .. MaxThreads /\ active \in 0 .. MaxThreads /\ hand \in [Ids -> SUBSET Blocks]
  BY SinkConstants DEF Inv, TypeOK
<1>1. CASE GoOn(i) \/ ParkWait(i) \/ Sleep(i) \/ ParkEnds(i)
  BY <1>0, <1>1, MoveKeeps DEF GoOn, ParkWait, Sleep, ParkEnds
<1>2. CASE ClaimNone(i) \/ NoneStop(i) \/ SpuriousWake(i)
  BY <1>0, <1>2, MoveKeeps DEF ClaimNone, NoneStop, SpuriousWake
<1>3. CASE Woken(i)
  <2> DEFINE b == IF i < active THEN "claim" ELSE "exit"
  <2>1. b \in {"claim", "exit"}
    OBVIOUS
  <2> HIDE DEF b
  <2>2. pc[i] = "woken" /\ pc' = [pc EXCEPT ![i] = b]
    BY <1>3 DEF Woken, b
  <2>3. UNCHANGED <<held, ready, fresh, active, stop, below, hand, seen, chunk, file, spc, early>>
    BY <1>3 DEF Woken
  <2> QED
    BY <1>0, <2>1, <2>2, <2>3, MoveKeeps
<1>4. CASE Park(i)
  BY <1>4, WriteOutKeeps DEF Park
<1>5. CASE ThreadEnds(i)
  BY <1>5, WriteOutKeeps DEF ThreadEnds
<1>6. CASE Claim(i)
  BY <1>6, ClaimKeeps
<1>7. Between(i) \in {"top", "scale"}
  BY DEF Between
<1>8. CASE Process(i)
  BY <1>7, <1>8, ReplayInv DEF Process
<1>9. CASE NoneIdle(i)
  <2>1. hand[i] = {}
    BY <1>9 DEF NoneIdle, Inv, HandInv
  <2>2. hand' = [hand EXCEPT ![i] = {}]
    BY <1>0, <1>9, <2>1 DEF NoneIdle
  <2> QED
    BY <1>7, <1>9, <2>1, <2>2, ReplayInv DEF NoneIdle
<1>10. CASE i = 0 /\ (ScaleNot \/ ScaleDue)
  BY <1>0, <1>10, MoveKeeps DEF ScaleNot, ScaleDue
<1>11. CASE i = 0 /\ TakeOver
  <2> PICK b \in held : held' = held \ {b} /\ Replay(0, {b})
    BY <1>11 DEF TakeOver
  <2>1. b \in Blocks
    BY DEF Inv, TypeOK
  <2> QED
    BY <1>11, <2>1, ReplayOne DEF TakeOver
<1>12. CASE i = 0 /\ Sample
  BY <1>0, <1>12, MoveKeeps DEF Sample
<1>13. CASE i = 0 /\ Decide
  BY <1>13, DecideKeeps
<1>14. CASE i = 0 /\ (Raise \/ Notify)
  BY <1>14, RaiseKeeps
<1> QED
  BY <1>1, <1>2, <1>3, <1>4, <1>5, <1>6, <1>8, <1>9, <1>10, <1>11, <1>12, <1>13, <1>14 DEF ThreadStep

\* Every step keeps the invariant.
LEMMA InvNext == Inv /\ [Next]_vars => Inv'
<1> SUFFICES ASSUME Inv, [Next]_vars PROVE Inv'
  OBVIOUS
<1>1. CASE UNCHANGED vars
  <2>1. TypeOK' /\ PlaceInv' /\ HandInv'
    BY <1>1 DEF vars, Inv, TypeOK, PlaceInv, Kept, HandInv
  <2>2. StopInv' /\ WantInv' /\ ParkedEmpty'
    BY <1>1 DEF vars, Inv, StopInv, WantInv, ParkedEmpty
  <2> QED
    BY <2>1, <2>2 DEF Inv
<1>2. CASE ProducerStep
  BY <1>2, ProducerKeeps
<1>3. CASE \E i \in Ids : ThreadStep(i) \/ SpuriousWake(i)
  BY <1>3, ThreadKeeps
<1>4. CASE StopBegins \/ StopStep
  BY <1>4, StopSignals, StopDrains DEF StopStep
<1> QED
  BY <1>1, <1>2, <1>3, <1>4 DEF Next

\* Once stop() has closed the file nothing is kept anywhere else: every thread
\* has ended with an empty hand and an empty chunk.
LEMMA InvImplies == Inv => StopLosesNothing
<1> SUFFICES ASSUME Inv, spc = "closed", NEW b \in early PROVE b \in file
  BY DEF StopLosesNothing
<1>1. b \in Blocks /\ b \notin fresh \cup held /\ b \notin ready
  BY DEF Inv, TypeOK, PlaceInv, StopInv
<1>2. Kept(b)
  BY <1>1 DEF Inv, PlaceInv
<1>3. \A i \in Ids : hand[i] = {} /\ chunk[i] = {}
  BY DEF Inv, HandInv, StopInv, ParkedEmpty
<1> QED
  BY <1>1, <1>2, <1>3 DEF Kept

LEMMA InvAlways == Spec => []Inv
BY InvInit, InvNext, PTL DEF Spec

\* Every thread stays at a point of drain(), every block in a known place, and
\* the active count between the scaler's bounds, whoever stores it.
THEOREM SinkTyping == Spec => []TypeOK
<1>1. Inv => TypeOK
  BY DEF Inv
<1> QED
  BY <1>1, InvAlways, PTL

\* wait_until_active() and drain(): a parked or ended thread has written its
\* chunk out, however many threads there are and however often they are scaled.
THEOREM SinkParkedEmpty == Spec => []ParkedEmpty
<1>1. Inv => ParkedEmpty
  BY DEF Inv
<1> QED
  BY <1>1, InvAlways, PTL

\* stop(): when the file is closed, every block that was published when stop()
\* began is in it.
THEOREM SinkStopLosesNothing == Spec => []StopLosesNothing
BY InvImplies, InvAlways, PTL

=============================================================================
