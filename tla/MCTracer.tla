-------------------------------- MODULE MCTracer -------------------------------
(* Tracer for TLC. *)
EXTENDS Tracer

MCCalls == [t \in Threads |-> IF t = Main THEN 2 ELSE 1]
================================================================================
