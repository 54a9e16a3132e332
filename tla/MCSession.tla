----------------------------- MODULE MCSession -----------------------------
(***************************************************************************)
(* Instances of Session for TLC: two or three connections, two names, and  *)
(* a socket number for each connection and printsvr at the same time.      *)
(***************************************************************************)
EXTENDS SessionDirectory, TLC

\* Connections other than their order of acceptance, and numbers, are alike.
Alike == Permutations(Conn) \cup Permutations(Num)
=============================================================================
