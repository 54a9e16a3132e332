------------------------------- MODULE MCComs -------------------------------
(* What the readers send, for TLC. *)
EXTENDS Coms, Bitwise

MCXor(a, b) == a ^^ b

\* A frame like those of devexpat.c:66-70, with a body of two bytes.
Short(a) == <<0, 255, 2, 213, a, 213 ^^ a>>

MCStreams ==
    [p \in 1 .. num |->
        IF p = 1 THEN {<<7, 0>> \o Short(4) \o Short(0),
                      <<0, 255, 1, 213, 7>> \o Short(4),
                      <<0, 255, 100>> \o Short(0)}
        ELSE {<<0>> \o Short(255)}]
=============================================================================
