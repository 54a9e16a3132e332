---------------------------- MODULE MCWriteQueue ----------------------------
(* Packets of one, two and three bytes for TLC. *)
EXTENDS WriteQueue

MCSize == [f \in Frame |-> IF f % 2 = 1 THEN 2 ELSE IF f % 4 = 2 THEN 3 ELSE 1]
=============================================================================
