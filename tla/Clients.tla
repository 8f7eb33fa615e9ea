-------------------------------- MODULE Clients --------------------------------
(***************************************************************************)
(* The service's table of client processes and their lanes                 *)
(* (service/pipeline/client_table.h), and the part of the ring sink that   *)
(* works on it (ring_sink.h: process_block, replay, finish, housekeeping,  *)
(* the end of stop).                                                       *)
(*                                                                         *)
(* Every drain thread replays blocks into the lane of the producer thread  *)
(* that wrote them: it looks the process up under the table's mutex, the   *)
(* lane under the process's, then logs under the lane's.  Between the      *)
(* three, thread 0 may remove the process and finalize its lanes.  What a  *)
(* mutex protects is one action, except take_finished, which holds the     *)
(* table's for one step per process.  A block holds one record here.       *)
(*                                                                         *)
(* monotonic_ns is modelled by ages: an age is how long ago a time was     *)
(* taken, so that the code's a - b is the age of b minus the age of a, in  *)
(* unsigned arithmetic.  The names and ranks of processes are left out.    *)
(***************************************************************************)
EXTENDS Integers, FiniteSets

CONSTANTS
    Pids, Tids,
    Drains,      \* number of drain threads, 0 .. Drains - 1
    Grace,       \* 2 * flush_ns, in ticks
    ReapEvery,   \* the second between two reaps, in ticks
    MaxLag,      \* bound: ticks that a pass of a drain thread lasts
    Wrap,        \* 2^64
    MaxBlocks    \* bound: blocks the producers write

ASSUME ClientsConstants ==
    /\ Drains \in Nat \ {0} /\ Grace \in Nat /\ ReapEvery \in Nat /\ MaxLag \in Nat /\ MaxBlocks \in Nat
    /\ Wrap \in Nat /\ Wrap > 2 * (Grace + MaxLag + 1)

Ids   == 0 .. Drains - 1
Recs  == 1 .. MaxBlocks          \* records, in the order written
Insts == 1 .. MaxBlocks + 1      \* ClientProcess objects, in order of creation
MaxAge == Grace + MaxLag + 1     \* ages stop here: every comparison is settled
Kinds == {"hello", "data", "goodbye"}
Blocks == [n : Recs, pid : Pids, tid : Tids, kind : Kinds, held : BOOLEAN]
NoProc == [seen |-> 0, bye |-> FALSE, bye_age |-> 0]
NoBlock == [n |-> 0]
NoLane == [state |-> "none", open |-> {}]

VARIABLES
    alive, said,  \* per pid: is it running, and has it written HELLO, GOODBYE
    blocks,       \* blocks written and not yet claimed; held: only to be taken over
    made,         \* how many there were
    table,        \* processes_: pid to object, 0 when absent
    procs, made_procs,  \* the ClientProcess objects, and how many there are
    lanes,        \* per object and tid: its LocalBufferManager, ready or
                  \* finalized, and the records in its open aggregates
    pc, blk, at,  \* per drain thread: next step, block in hand, process looked up
    age,          \* per drain thread: of its block's now
    reaped,       \* age of the last reap's now (next_reap_)
    house,        \* thread 0's housekeeping: is it in it, age of its now, is a reap due,
                  \* entries to visit, objects to finish, the one in hand, its lanes left
    stop,         \* "run", "asked" for (stop_), "last" (threads joined), "done"
    written, dropped,   \* records in the trace, or refused by a finalized lane
    stale         \* history: records replayed through an object not in the table

drain == <<pc, blk, at, age>>
objs  == <<procs, made_procs, lanes>>
trace == <<written, dropped, stale>>
vars  == <<alive, said, blocks, made, table, objs, drain, reaped, house, stop, trace>>

NoHouse == [on |-> FALSE, age |-> 0, due |-> FALSE, todo |-> {}, done |-> {}, cur |-> 0, tids |-> {}]

\* One process said HELLO and has been quiet since, or there is none.
Init ==
    /\ \E quiet \in {{}} \cup {{p} : p \in Pids} :
          /\ said = [p \in Pids |-> IF p \in quiet THEN "hello" ELSE "new"]
          /\ table = [p \in Pids |-> IF p \in quiet THEN 1 ELSE 0]
          /\ made_procs = IF quiet = {} THEN 0 ELSE 1
          /\ procs = [i \in Insts |-> IF i <= made_procs THEN [NoProc EXCEPT !.seen = MaxAge] ELSE NoProc]
          /\ lanes = [i \in Insts |-> [t \in Tids |->
                         IF i <= made_procs THEN [NoLane EXCEPT !.state = "ready"] ELSE NoLane]]
    /\ alive = [p \in Pids |-> TRUE]
    /\ blocks = {} /\ made = 0
    /\ pc = [d \in Ids |-> "idle"]
    /\ blk = [d \in Ids |-> NoBlock] /\ at = [d \in Ids |-> 0] /\ age = [d \in Ids |-> 0]
    /\ house = NoHouse /\ reaped = ReapEvery
    /\ stop = "run"
    /\ written = {} /\ dropped = {} /\ stale = {}

----------------------------------------------------------------------------
(* The producers: a process says HELLO first and GOODBYE at its end, but    *)
(* its other threads may still write; finalize() publishes the block of the *)
(* GOODBYE; the process exits at any time, and its pid is used again.       *)

Write(p, t, k) ==
    /\ alive[p] /\ made < MaxBlocks
    /\ said[p] = CASE k = "hello" -> "new" [] k = "goodbye" -> "hello" [] OTHER -> said[p]
    /\ k = "data" => said[p] # "new"
    /\ \E h \in {FALSE, k # "goodbye"} : blocks' = blocks \cup
          {[n |-> made + 1, pid |-> p, tid |-> t, kind |-> k, held |-> h]}
    /\ made' = made + 1
    /\ said' = IF k = "data" THEN said ELSE [said EXCEPT ![p] = k]
    /\ UNCHANGED <<alive, table, objs, drain, reaped, house, stop, trace>>

Exit(p) ==
    /\ alive[p]
    /\ alive' = [alive EXCEPT ![p] = FALSE]
    /\ UNCHANGED <<said, blocks, made, table, objs, drain, reaped, house, stop, trace>>

PidReused(p) ==
    /\ ~alive[p] /\ said[p] # "new"
    /\ alive' = [alive EXCEPT ![p] = TRUE]
    /\ said' = [said EXCEPT ![p] = "new"]
    /\ UNCHANGED <<blocks, made, table, objs, drain, reaped, house, stop, trace>>

----------------------------------------------------------------------------
(* Time *)

Older(a) == IF a < MaxAge THEN a + 1 ELSE a
InBlock(d) == pc[d] \in {"table", "lane", "replay"}

\* now - then, where the two have these ages
Elapsed(now, then) == (then - now) % Wrap

Tick ==
    /\ \A d \in Ids : InBlock(d) => age[d] < MaxLag
    /\ house.on => house.age < MaxLag
    /\ procs' = [i \in Insts |-> IF \A p \in Pids : table[p] # i THEN procs[i] ELSE
                    [procs[i] EXCEPT !.seen = Older(@), !.bye_age = IF procs[i].bye THEN Older(@) ELSE 0]]
    /\ age' = [d \in Ids |-> IF InBlock(d) THEN age[d] + 1 ELSE 0]
    /\ house' = IF house.on THEN [house EXCEPT !.age = @ + 1] ELSE house
    /\ reaped' = IF reaped < ReapEvery THEN reaped + 1 ELSE reaped
    /\ UNCHANGED <<alive, said, blocks, made, table, made_procs, lanes, pc, blk, at, stop, trace>>

----------------------------------------------------------------------------
(* process_block *)

Take(d, b) ==
    /\ blocks' = blocks \ {b}
    /\ blk' = [blk EXCEPT ![d] = b]
    /\ pc' = [pc EXCEPT ![d] = "table"]
    /\ age' = [age EXCEPT ![d] = 0]

\* drain: claim a published block
Claim(d) ==
    /\ pc[d] = "idle"
    /\ \E b \in blocks : ~b.held /\ Take(d, b)
    /\ UNCHANGED <<alive, reaped, said, made, table, objs, at, house, stop, trace>>

\* ClientTable::process; take_finished holds the table's mutex while it visits
Process(d) ==
    LET p   == blk[d].pid
        new == table[p] = 0
        i   == IF new THEN made_procs + 1 ELSE table[p]
    IN  /\ pc[d] = "table" /\ house.todo = {}
        /\ table' = [table EXCEPT ![p] = i]
        /\ made_procs' = IF new THEN i ELSE made_procs
        /\ procs' = [procs EXCEPT ![i] = [(IF new THEN NoProc ELSE @) EXCEPT !.seen = age[d]]]
        /\ at' = [at EXCEPT ![d] = i]
        /\ pc' = [pc EXCEPT ![d] = "lane"]
        /\ UNCHANGED <<alive, reaped, said, blocks, made, lanes, blk, age, house, stop, trace>>

\* ClientTable::lane
Lane(d) ==
    /\ pc[d] = "lane"
    /\ lanes' = IF lanes[at[d]][blk[d].tid].state # "none" THEN lanes
                ELSE [lanes EXCEPT ![at[d]][blk[d].tid].state = "ready"]
    /\ pc' = [pc EXCEPT ![d] = "replay"]
    /\ UNCHANGED <<alive, reaped, said, blocks, made, table, procs, made_procs, blk, at, age,
                   house, stop, trace>>

\* Mutant of Replay: the block is not released.
ReplayUnreleased(d) ==
    LET b == blk[d]
        i == at[d]
        l == lanes[i][b.tid]
    IN
    /\ pc[d] = "replay"
    /\ \/ /\ b.kind = "data" /\ l.state = "ready"
          /\ lanes' = [lanes EXCEPT ![i][b.tid].open = @ \cup {b.n}]
          /\ UNCHANGED <<procs, dropped>>
       \/ /\ b.kind = "data" /\ l.state = "final"
          /\ dropped' = dropped \cup {b.n}
          /\ UNCHANGED <<procs, lanes>>
       \/ /\ b.kind \in {"hello", "goodbye"}
          /\ procs' = IF table[b.pid] # i THEN procs ELSE
                      [procs EXCEPT ![i].bye = (b.kind = "goodbye"),
                                    ![i].bye_age = IF b.kind = "goodbye" THEN age[d] ELSE 0]
          /\ UNCHANGED <<lanes, dropped>>
    /\ stale' = IF b.kind # "data" \/ table[b.pid] = i THEN stale ELSE stale \cup {b.n}
    /\ pc' = [pc EXCEPT ![d] = IF d = 0 /\ (house.on \/ stop = "last") THEN "over" ELSE "idle"]
    /\ at' = [at EXCEPT ![d] = 0]
    /\ age' = [age EXCEPT ![d] = 0]
    /\ UNCHANGED <<alive, reaped, said, blocks, made, table, made_procs, house, stop, written, blk>>

\* replay, under the lane's mutex, and release of the block.  An event goes
\* into an open aggregate, unless the lane is finalized.  (The fields of an
\* object that has left the table are not read again, and not kept here.)
Replay(d) ==
    LET b == blk[d]
        i == at[d]
        l == lanes[i][b.tid]
    IN
    /\ pc[d] = "replay"
    /\ \/ /\ b.kind = "data" /\ l.state = "ready"
          /\ lanes' = [lanes EXCEPT ![i][b.tid].open = @ \cup {b.n}]
          /\ UNCHANGED <<procs, dropped>>
       \/ /\ b.kind = "data" /\ l.state = "final"
          /\ dropped' = dropped \cup {b.n}
          /\ UNCHANGED <<procs, lanes>>
       \/ /\ b.kind \in {"hello", "goodbye"}
          /\ procs' = IF table[b.pid] # i THEN procs ELSE
                      [procs EXCEPT ![i].bye = (b.kind = "goodbye"),
                                    ![i].bye_age = IF b.kind = "goodbye" THEN age[d] ELSE 0]
          /\ UNCHANGED <<lanes, dropped>>
    /\ stale' = IF b.kind # "data" \/ table[b.pid] = i THEN stale ELSE stale \cup {b.n}
    /\ pc' = [pc EXCEPT ![d] = IF d = 0 /\ (house.on \/ stop = "last") THEN "over" ELSE "idle"]
    /\ blk' = [blk EXCEPT ![d] = NoBlock] /\ at' = [at EXCEPT ![d] = 0]
    /\ age' = [age EXCEPT ![d] = 0]
    /\ UNCHANGED <<alive, reaped, said, blocks, made, table, made_procs, house, stop, written>>

----------------------------------------------------------------------------
(* housekeeping, by thread 0 between blocks *)

Housekeeping ==
    /\ pc[0] = "idle" /\ stop = "run"
    /\ pc' = [pc EXCEPT ![0] = "over"]
    /\ house' = [NoHouse EXCEPT !.on = TRUE, !.due = (reaped >= ReapEvery)]
    /\ UNCHANGED <<alive, reaped, said, blocks, made, table, objs, blk, at, age, stop, trace>>

\* take_over, and process_block of what it gives; at the end of stop() any block
TakeOver ==
    /\ pc[0] = "over"
    /\ \E b \in blocks : (b.held \/ stop = "last") /\ Take(0, b)
    /\ UNCHANGED <<alive, reaped, said, made, table, objs, at, house, stop, trace>>

\* now < next_reap_
NoReap ==
    /\ pc[0] = "over" /\ house.on /\ ~house.due
    /\ pc' = [pc EXCEPT ![0] = "idle"] /\ house' = NoHouse
    /\ UNCHANGED <<alive, reaped, said, blocks, made, table, objs, blk, at, age, stop, trace>>

\* take_finished
Reap ==
    /\ pc[0] = "over" /\ house.due
    /\ reaped' = house.age
    /\ pc' = [pc EXCEPT ![0] = "reap"]
    /\ house' = [house EXCEPT !.todo = {p \in Pids : table[p] # 0}]
    /\ UNCHANGED <<alive, said, blocks, made, table, objs, blk, at, age, stop, trace>>

\* Mutant of Finished: a process that exits without GOODBYE is never finished.
FinishedByGoodbye(p) ==
    procs[table[p]].bye /\ Elapsed(house.age, procs[table[p]].bye_age) > Grace

Finished(p) ==
    LET o == procs[table[p]] IN
    IF o.bye THEN Elapsed(house.age, o.bye_age) > Grace
    ELSE Elapsed(house.age, o.seen) > Grace /\ ~alive[p]

\* Mutant of Visit: a finished process stays in the table.
VisitKeeps ==
    /\ pc[0] = "reap"
    /\ \E p \in house.todo :
          /\ house' = [house EXCEPT !.todo = @ \ {p},
                                   !.done = IF Finished(p) THEN @ \cup {table[p]} ELSE @]
    /\ UNCHANGED <<alive, reaped, said, blocks, made, table, objs, drain, stop, trace>>

Visit ==
    /\ pc[0] = "reap"
    /\ \E p \in house.todo :
          /\ house' = [house EXCEPT !.todo = @ \ {p},
                                   !.done = IF Finished(p) THEN @ \cup {table[p]} ELSE @]
          /\ table' = IF Finished(p) THEN [table EXCEPT ![p] = 0] ELSE table
          /\ procs' = IF Finished(p) THEN [procs EXCEPT ![table[p]] = NoProc] ELSE procs
    /\ UNCHANGED <<alive, reaped, said, blocks, made, made_procs, lanes, drain, stop, trace>>

\* finish: collect a process's lanes ...
Finish ==
    /\ pc[0] = "reap" /\ house.todo = {} /\ house.tids = {}
    /\ \E i \in house.done :
          house' = [house EXCEPT !.done = @ \ {i}, !.cur = i,
                                 !.tids = {t \in Tids : lanes[i][t].state # "none"}]
    /\ UNCHANGED <<alive, reaped, said, blocks, made, table, objs, drain, stop, trace>>

\* Mutant of FinishLane: the open aggregates are not written.
FinishLaneUndrained ==
    /\ pc[0] = "reap"
    /\ \E t \in house.tids :
          /\ lanes' = [lanes EXCEPT ![house.cur][t].state = "final"]
          /\ house' = [house EXCEPT !.tids = @ \ {t}]
    /\ UNCHANGED <<alive, reaped, said, blocks, made, table, procs, made_procs, drain, stop, trace>>

\* ... and finalize each: LocalBufferManager::finalize writes its open
\* aggregates and refuses what comes later
FinishLane ==
    /\ pc[0] = "reap"
    /\ \E t \in house.tids :
          /\ written' = written \cup lanes[house.cur][t].open
          /\ lanes' = [lanes EXCEPT ![house.cur][t] = [state |-> "final", open |-> {}]]
          /\ house' = [house EXCEPT !.tids = @ \ {t}]
    /\ UNCHANGED <<alive, reaped, said, blocks, made, table, procs, made_procs, drain, stop, dropped, stale>>

FinishDone ==
    /\ pc[0] = "reap" /\ house.todo = {} /\ house.done = {} /\ house.tids = {}
    /\ pc' = [pc EXCEPT ![0] = IF stop = "last" THEN "quit" ELSE "idle"]
    /\ stop' = IF stop = "last" THEN "done" ELSE stop
    /\ house' = NoHouse
    /\ UNCHANGED <<alive, reaped, said, blocks, made, table, objs, blk, at, age, trace>>

----------------------------------------------------------------------------
(* stop *)

Stop ==
    /\ stop = "run"
    /\ stop' = "asked"
    /\ UNCHANGED <<alive, said, blocks, made, table, objs, drain, reaped, house, trace>>

\* A drain thread finds nothing to claim after stop_ is set.
Quit(d) ==
    /\ pc[d] = "idle" /\ stop = "asked" /\ \A b \in blocks : b.held
    /\ pc' = [pc EXCEPT ![d] = "quit"]
    /\ UNCHANGED <<alive, reaped, said, blocks, made, table, objs, blk, at, age, house, stop, trace>>

\* The threads are joined; stop() goes on alone, as thread 0.
Joined ==
    /\ stop = "asked" /\ \A d \in Ids : pc[d] = "quit"
    /\ stop' = "last"
    /\ pc' = [pc EXCEPT ![0] = "over"]
    /\ UNCHANGED <<alive, reaped, said, blocks, made, table, objs, blk, at, age, house, trace>>

\* take_all
TakeAll ==
    /\ pc[0] = "over" /\ stop = "last" /\ blocks = {}
    /\ house' = [house EXCEPT !.done = {table[p] : p \in Pids} \ {0}]
    /\ table' = [p \in Pids |-> 0]
    /\ pc' = [pc EXCEPT ![0] = "reap"]
    /\ UNCHANGED <<alive, reaped, said, blocks, made, objs, blk, at, age, stop, trace>>

----------------------------------------------------------------------------

DrainStep(d) == Claim(d) \/ Process(d) \/ Lane(d) \/ Replay(d) \/ Quit(d)
HouseStep == Housekeeping \/ TakeOver \/ NoReap \/ Reap \/ Visit \/ Finish \/ FinishLane \/ FinishDone
StopStep  == Joined \/ TakeAll

Next ==
    \/ \E p \in Pids : Exit(p) \/ PidReused(p) \/ \E t \in Tids, k \in Kinds : Write(p, t, k)
    \/ \E d \in Ids : DrainStep(d)
    \/ HouseStep \/ StopStep \/ Tick \/ Stop

\* Every thread runs, time passes, and a thread gets a mutex that is unlocked
\* again and again.
Fairness ==
    /\ WF_vars(DrainStep(0) \/ HouseStep \/ StopStep) /\ WF_vars(Tick)
    /\ \A d \in Ids \ {0} : WF_vars(DrainStep(d)) /\ SF_vars(Process(d))

Spec == Init /\ [][Next]_vars /\ Fairness

----------------------------------------------------------------------------
(* Properties *)

\* The values of a lane, of a ClientProcess, and of thread 0's locals.
LaneVals  == [state : {"none", "ready", "final"}, open : SUBSET Recs]
ProcVals  == [seen : 0 .. MaxAge, bye : BOOLEAN, bye_age : 0 .. MaxAge]
HouseVals == [on : BOOLEAN, age : 0 .. MaxLag, due : BOOLEAN, todo : SUBSET Pids,
              done : SUBSET Insts, cur : 0 .. MaxBlocks + 1, tids : SUBSET Tids]

\* Every variable has its type, and a thread outside a block has none in hand.
TypeOK ==
    /\ alive \in [Pids -> BOOLEAN] /\ said \in [Pids -> {"new", "hello", "goodbye"}]
    /\ blocks \subseteq Blocks /\ made \in 0 .. MaxBlocks
    /\ table \in [Pids -> 0 .. MaxBlocks + 1] /\ made_procs \in 0 .. MaxBlocks + 1
    /\ procs \in [Insts -> ProcVals]
    /\ lanes \in [Insts -> [Tids -> LaneVals]]
    /\ pc \in [Ids -> {"idle", "table", "lane", "replay", "over", "reap", "quit"}]
    /\ blk \in [Ids -> Blocks \cup {NoBlock}] /\ at \in [Ids -> 0 .. MaxBlocks + 1]
    /\ \A d \in Ids : InBlock(d) <=> blk[d] # NoBlock
    /\ age \in [Ids -> 0 .. MaxLag]
    /\ reaped \in 0 .. ReapEvery + MaxLag
    /\ house \in HouseVals
    /\ stop \in {"run", "asked", "last", "done"}
    /\ written \subseteq Recs /\ dropped \subseteq Recs /\ stale \subseteq Recs

\* A lane is finalized once: taking a process out of the table is what decides
\* who finishes it, whoever still replays into it.
FinalizedOnce == \A t \in house.tids : lanes[house.cur][t].state = "ready"

\* An event that reached the service is refused by a finalized lane, or left in
\* an aggregate that nothing writes, only when its drain thread had looked the
\* process up before it was removed; after stop() every other one is written.
LostOnlyIfStale ==
    /\ dropped \subseteq stale
    /\ stop = "done" => \A i \in Insts, t \in Tids : lanes[i][t].open \subseteq stale

\* A process that said GOODBYE, or exited without one, is finished in the end:
\* its aggregates do not wait for the service to stop.
Gone(p) == table[p] # 0 /\ (procs[table[p]].bye \/ ~alive[p])
FinishedInTheEnd == \A p \in Pids : Gone(p) ~> ~Gone(p)

\* "said GOODBYE ... more than grace_ns ago": the comment on take_finished
\* (client_table.h:69-70).  now was read before other threads' GOODBYE times.
GraceKept == [][\A p \in Pids :
    table[p] # 0 /\ table'[p] = 0 /\ stop # "last" /\ procs[table[p]].bye
        => procs[table[p]].bye_age > Grace]_vars

================================================================================
