----------------------------- MODULE MCLucpDemo -----------------------------
(***************************************************************************)
(* Demo clients, and a daemon with one slot.                               *)
(***************************************************************************)
EXTENDS LucpDemo, TLC

Symmetry == Permutations(Conns)
=============================================================================
