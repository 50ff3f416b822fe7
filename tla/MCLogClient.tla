---------------------------- MODULE MCLogClient ----------------------------
(***************************************************************************)
(* A logging client with two application threads and a small ring.  The    *)
(* threads are not declared symmetric, because liveness is checked as well. *)
(***************************************************************************)
EXTENDS LogClient
=============================================================================
