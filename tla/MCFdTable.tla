------------------------------- MODULE MCFdTable -------------------------------
(* FdTable for TLC. *)
EXTENDS FdTable, TLC

Symmetry == Permutations(Threads)
================================================================================
