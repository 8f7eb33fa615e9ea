-------------------------------- MODULE MCRing --------------------------------
(***************************************************************************)
(* Instances of Ring for TLC: one or two producer threads in processes of  *)
(* their own, one or two drain threads of which d1 calls take_over, and a  *)
(* ring of two blocks.                                                     *)
(***************************************************************************)
EXTENDS RingInv, TLC

CONSTANTS p1, p2, d1, d2, q1, q2

MCPid  == p1 :> q1 @@ p2 :> q2
MCPid1 == p1 :> q1

\* Two producers are interchangeable together with their processes.
MCSwap == {f \in Permutations({p1, p2, q1, q2}) :
              {f[p1], f[p2]} = {p1, p2} /\ \A p \in {p1, p2} : f[MCPid[p]] = MCPid[f[p]]}

=============================================================================
