----------------------------- MODULE MCLucpNet -----------------------------
(***************************************************************************)
(* A small LUCP stream: 2-byte headers, texts of at most 1 byte, a buffer  *)
(* one byte larger than the largest frame.                                 *)
(***************************************************************************)
EXTENDS LucpNet

MCTextLens == {0, 2}
=============================================================================
