----------------------------- MODULE MCEventLoop -----------------------------
(* Three collectors that share two threadpool threads, and two signals. *)
EXTENDS EventLoop
=============================================================================
