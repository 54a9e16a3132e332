------------------------------ MODULE Allocator ------------------------------
(***************************************************************************)
(* What the callers of response_pkt_new and response_pkt_free count on,    *)
(* whatever packets the pool keeps: a packet they are given is nobody      *)
(* else's, holds what they asked for and is empty; it stays theirs until   *)
(* they give it back.                                                      *)
(***************************************************************************)
EXTENDS Integers

CONSTANT Sizes   \* bytes a caller may ask for

VARIABLE held   \* packets that callers have: [asked, room, filled] of each

Init == held = <<>>

New(p, n, room) ==
    /\ p \notin DOMAIN held /\ room >= n
    /\ held' = [q \in DOMAIN held \cup {p} |->
                   IF q = p THEN [asked |-> n, room |-> room, filled |-> FALSE]
                   ELSE held[q]]

Fill(p) ==
    /\ p \in DOMAIN held
    /\ held' = [held EXCEPT ![p].filled = TRUE]

Free(p) ==
    /\ p \in DOMAIN held
    /\ held' = [q \in DOMAIN held \ {p} |-> held[q]]

Next ==
    \/ \E p \in DOMAIN held', n, room \in Sizes : New(p, n, room)
    \/ \E p \in DOMAIN held : Fill(p) \/ Free(p)

Spec == Init /\ [][Next]_held
=============================================================================
