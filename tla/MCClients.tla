------------------------------- MODULE MCClients -------------------------------
(* Clients for TLC. *)
EXTENDS Clients
================================================================================
