--------------------------- MODULE NameDirectory ---------------------------
(***************************************************************************)
(* What the table of sessions promises its users: a name leads to at most  *)
(* one connection, the last one that logged in under it, as long as that   *)
(* connection is online; logging in disconnects whoever held the name; a   *)
(* connection that went away stays away and holds nothing.                 *)
(***************************************************************************)
CONSTANTS Client, Name

VARIABLES
    online,   \* clients connected now
    gone,     \* clients that were connected
    held      \* <<n, c>>: looking up n leads to c

vars == <<online, gone, held>>

Holders(n) == {c \in Client : <<n, c>> \in held}

Holding(c) == \E n \in Name : <<n, c>> \in held

Init == online = {} /\ gone = {} /\ held = {}

Connect(c) ==
    /\ c \notin online \cup gone
    /\ online' = online \cup {c}
    /\ UNCHANGED <<gone, held>>

Login(c, n) ==
    /\ c \in online /\ ~Holding(c)
    /\ held' = {p \in held : p[1] # n} \cup {<<n, c>>}
    /\ online' = online \ Holders(n)
    /\ gone' = gone \cup Holders(n)

Leave(c) ==
    /\ c \in online
    /\ held' = {p \in held : p[2] # c}
    /\ online' = online \ {c}
    /\ gone' = gone \cup {c}

Next == \E c \in Client : Connect(c) \/ Leave(c) \/ \E n \in Name : Login(c, n)

Spec == Init /\ [][Next]_vars

\* Every entry leads to a client that is online, and no name to two of them.
Sound ==
    /\ held \subseteq Name \X online
    /\ \A n \in Name, c, d \in Client : <<n, c>> \in held /\ <<n, d>> \in held => c = d
=============================================================================
