------------------------------ MODULE MCNodeFile ------------------------------
(* NodeFile on three writers. *)
EXTENDS NodeFile, TLC

CONSTANTS w1, w2, w3

\* No operation tells writers apart.
MCWriters == Permutations(Writers)

===============================================================================
