-------------------------------- MODULE MCSink --------------------------------
(* Sink on a few drain threads and blocks. *)
EXTENDS Sink

CONSTANTS b1, b2, b3

===============================================================================
