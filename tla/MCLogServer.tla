---------------------------- MODULE MCLogServer ----------------------------
(***************************************************************************)
(* A log daemon with fewer slots than clients.                             *)
(***************************************************************************)
EXTENDS LogServer, TLC

Symmetry == Permutations(Conns)
=============================================================================
