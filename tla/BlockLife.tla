------------------------------ MODULE BlockLife ------------------------------
(***************************************************************************)
(* What the ring promises about a block, with the protocol left out: blocks *)
(* are claimed in sequence order, each goes once through held, ready and   *)
(* draining to released, by way of ready when its producer publishes it    *)
(* and directly when the service takes it over, and it shares memory with  *)
(* the block one lap later only after it has been released.                *)
(***************************************************************************)
EXTENDS Integers

CONSTANTS
    BlockCount,   \* blocks in the ring
    Drainers,     \* drain threads
    MaxHead       \* blocks ever claimed

VARIABLES
    life,         \* the stage each block is in
    holders       \* the drain threads that have it in hand

Blocks == 0 .. MaxHead - 1

Init ==
    /\ life = [s \in Blocks |-> "free"]
    /\ holders = [s \in Blocks |-> {}]

Move(s, from, to) ==
    /\ life[s] = from
    /\ life' = [life EXCEPT ![s] = to]

\* A producer claims the next block once its slot is free again.
Claim(s) ==
    /\ \A t \in Blocks : t < s => life[t] # "free"
    /\ \A t \in Blocks : t + BlockCount = s => life[t] = "released"
    /\ Move(s, "free", "held")
    /\ UNCHANGED holders

\* Its producer publishes it.
Publish(s) ==
    /\ Move(s, "held", "ready")
    /\ UNCHANGED holders

\* A drain thread claims it, or takes it over from a producer that holds it.
DrainBy(s, d) ==
    /\ \/ Move(s, "ready", "draining")
       \/ Move(s, "held", "draining")
    /\ holders' = [holders EXCEPT ![s] = {d}]

\* The drain thread that has it gives it back.
Release(s, d) ==
    /\ holders[s] = {d}
    /\ Move(s, "draining", "released")
    /\ holders' = [holders EXCEPT ![s] = {}]

Next ==
    \E s \in Blocks :
        \/ Claim(s)
        \/ Publish(s)
        \/ \E d \in Drainers : DrainBy(s, d) \/ Release(s, d)

vars == <<life, holders>>

Spec == Init /\ [][Next]_vars

=============================================================================
