------------------------------- MODULE PktPool -------------------------------
(***************************************************************************)
(* The pool of packets (responsepkt.c) from which every frame that is sent *)
(* takes its memory.  A pool has the packets in use and the free ones;     *)
(* response_pkt_new takes the first free packet that is large enough and   *)
(* makes a new one when there is none, response_pkt_free puts a packet     *)
(* behind the free ones.  No packet is ever released, so what the pool     *)
(* grows to is what the server keeps.                                      *)
(*                                                                         *)
(* Packets are numbered as they are made.  cacheque_use is only searched   *)
(* for a packet, so its order is left out.  Each call holds the mutex.     *)
(* Left out: response_pkt_clone, whose callers nobody calls, and a pool    *)
(* that gets no memory from the system.                                    *)
(***************************************************************************)
EXTENDS Integers, Sequences, FiniteSets

CONSTANTS
    Sizes,         \* bytes a caller may ask for
    RESONSE_MTU,   \* the largest packet the pool makes (64 KB)
    MaxHeld        \* bound: packets in use at a time

ASSUME PktPoolAssumption == Sizes \subseteq Nat /\ RESONSE_MTU \in Nat /\ MaxHeld \in Nat

VARIABLES
    size,            \* size of each packet made so far
    cacheque_use,    \* the packets that callers have
    cacheque_free,   \* the others, in the queue's order
    filled,          \* packets whose len or data is not the initial one
    asked,           \* history: what the last caller of a packet asked for
    peak             \* history: the most packets that were in use at a time

vars == <<size, cacheque_use, cacheque_free, filled, asked, peak>>

Packet == 1 .. Len(size)

TypeOK ==
    /\ size \in Seq(Sizes) /\ asked \in Seq(Sizes) /\ Len(asked) = Len(size)
    /\ cacheque_use \subseteq Packet
    /\ cacheque_free \in Seq(Packet)
    /\ filled \subseteq Packet
    /\ peak \in Nat

Init ==
    /\ size = <<>> /\ cacheque_use = {} /\ cacheque_free = <<>>
    /\ filled = {} /\ asked = <<>> /\ peak = 0
----------------------------------------------------------------------------
\* The i-th free packet is the first that n bytes fit into.
Fits(i, n) ==
    /\ i \in DOMAIN cacheque_free /\ size[cacheque_free[i]] >= n
    /\ \A j \in 1 .. i - 1 : size[cacheque_free[j]] < n

InUse(p) ==
    /\ cacheque_use' = cacheque_use \cup {p}
    /\ LET count == Cardinality(cacheque_use \cup {p})
       IN  peak' = IF count > peak THEN count ELSE peak

\* Variant: only the packet at the queue's head is looked at.
NewPacket_Head(n) ==
    /\ \A i \in DOMAIN cacheque_free : i = 1 => size[cacheque_free[i]] < n
    /\ size' = Append(size, n) /\ asked' = Append(asked, n)
    /\ InUse(Len(size) + 1)
    /\ UNCHANGED <<cacheque_free, filled>>

\* Variant: no memory for the packet is not noticed before it is put in use.
NewPacket_NoMemory(n) ==
    /\ \A i \in DOMAIN cacheque_free : size[cacheque_free[i]] < n
    /\ InUse(Len(size) + 1)
    /\ UNCHANGED <<size, asked, cacheque_free, filled>>

\* No free packet is large enough: one of just the size asked for is made.
NewPacket(n) ==
    /\ \A i \in DOMAIN cacheque_free : size[cacheque_free[i]] < n
    /\ size' = Append(size, n) /\ asked' = Append(asked, n)
    /\ InUse(Len(size) + 1)
    /\ UNCHANGED <<cacheque_free, filled>>

\* The packets looked at before the one taken are put behind the others.
FreePacket(i, n) ==
    /\ Fits(i, n)
    /\ LET p == cacheque_free[i]
       IN  InUse(p) /\ asked' = [asked EXCEPT ![p] = n]
    /\ cacheque_free' = SubSeq(cacheque_free, i + 1, Len(cacheque_free))
                            \o SubSeq(cacheque_free, 1, i - 1)
    /\ UNCHANGED <<size, filled>>

\* response_pkt_new(pool, n); beyond RESONSE_MTU it returns NULL.
New(n) ==
    /\ n <= RESONSE_MTU /\ Cardinality(cacheque_use) < MaxHeld
    /\ NewPacket(n) \/ \E i \in DOMAIN cacheque_free : FreePacket(i, n)

\* The caller writes the frame (len) or has sent part of it (data).
Fill(p) ==
    /\ p \in cacheque_use
    /\ filled' = filled \cup {p}
    /\ UNCHANGED <<size, cacheque_use, cacheque_free, asked, peak>>

\* Variant: len and data stay as the caller left them.
Free_Filled(p) ==
    /\ p \in cacheque_use
    /\ cacheque_use' = cacheque_use \ {p}
    /\ cacheque_free' = Append(cacheque_free, p)
    /\ UNCHANGED <<size, filled, asked, peak>>

\* Variant: the packet stays in the queue of those in use.
Free_Stays(p) ==
    /\ p \in cacheque_use
    /\ cacheque_free' = Append(cacheque_free, p)
    /\ filled' = filled \ {p}
    /\ UNCHANGED <<size, cacheque_use, asked, peak>>

\* response_pkt_free(p); a packet that is not in use is left where it is.
Free(p) ==
    /\ p \in cacheque_use
    /\ cacheque_use' = cacheque_use \ {p}
    /\ cacheque_free' = Append(cacheque_free, p)
    /\ filled' = filled \ {p}
    /\ UNCHANGED <<size, asked, peak>>

Next ==
    \/ \E n \in Sizes : New(n)
    \/ \E p \in cacheque_use : Fill(p) \/ Free(p)

Spec == Init /\ [][Next]_vars
----------------------------------------------------------------------------
(***************************************************************************)
(* Of each size there are never more packets than were in use at one time: *)
(* though packets are never released, the pool does not grow with the      *)
(* number of frames sent (responsepkt.c:48, 60).  It may grow with the     *)
(* number of different sizes asked for.                                    *)
(***************************************************************************)
OfSize(n) == {p \in Packet : size[p] = n}

PoolBounded == \A n \in Sizes : Cardinality(OfSize(n)) <= peak

(***************************************************************************)
(* A packet is in one queue, once, and a free one is as it was made, which *)
(* response_pkt_new asserts of the packet it returns (responsepkt.c:72).   *)
(***************************************************************************)
FreeOnes == {cacheque_free[i] : i \in DOMAIN cacheque_free}

InOneQueue ==
    /\ \A i, j \in DOMAIN cacheque_free :
          cacheque_free[i] = cacheque_free[j] => i = j
    /\ FreeOnes \cap cacheque_use = {}
    /\ FreeOnes \cup cacheque_use = Packet
    /\ filled \subseteq cacheque_use

(***************************************************************************)
(* The pool is an allocator: its callers never share a packet, never get   *)
(* one that is too small, and never find an earlier frame in it.           *)
(***************************************************************************)
held == [p \in cacheque_use |->
            [asked |-> asked[p], room |-> size[p], filled |-> p \in filled]]

A == INSTANCE Allocator WITH held <- held

Allocates == A!Spec
=============================================================================
