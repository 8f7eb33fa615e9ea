--------------------------- MODULE MCServiceBuffer ---------------------------
(* ServiceBuffer on a main thread and a worker. *)
EXTENDS ServiceBuffer

CONSTANTS main, worker

=============================================================================
