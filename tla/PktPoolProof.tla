---------------------------- MODULE PktPoolProof ----------------------------
(***************************************************************************)
(* What the runs check of the pool, for any sizes and any number of        *)
(* packets in use: it stays bounded and it implements Allocator.           *)
(***************************************************************************)
EXTENDS PktPool, FiniteSetTheorems, TLAPS

PeakReached == Cardinality(cacheque_use) <= peak

IInv == TypeOK /\ InOneQueue /\ PeakReached /\ PoolBounded

\* The queue without its i-th element, the ones before it behind the others.
Others(q, i) == SubSeq(q, i + 1, Len(q)) \o SubSeq(q, 1, i - 1)

\* Where the j-th of the others was.
Was(q, i, j) == IF j <= Len(q) - i THEN i + j ELSE j - (Len(q) - i)

LEMMA OthersOf ==
    ASSUME NEW S, NEW q \in Seq(S), NEW i \in DOMAIN q
    PROVE  /\ Others(q, i) \in Seq(S)
           /\ DOMAIN Others(q, i) = 1 .. Len(q) - 1
           /\ \A j \in 1 .. Len(q) - 1 :
                 /\ Was(q, i, j) \in DOMAIN q \ {i}
                 /\ Others(q, i)[j] = q[Was(q, i, j)]
<1> DEFINE a == SubSeq(q, i + 1, Len(q))
           b == SubSeq(q, 1, i - 1)
<1>1. i \in 1 .. Len(q) /\ Len(q) \in Nat
  OBVIOUS
<1>2. a \in Seq(S) /\ Len(a) = Len(q) - i /\ \A j \in 1 .. Len(q) - i : a[j] = q[i + j]
  BY <1>1
<1>3. b \in Seq(S) /\ Len(b) = i - 1 /\ \A j \in 1 .. i - 1 : b[j] = q[j]
  BY <1>1
<1>4. Others(q, i) = a \o b
  BY DEF Others
<1> HIDE DEF a, b
<1>5. a \o b \in Seq(S) /\ Len(a \o b) = Len(q) - 1
  BY <1>1, <1>2, <1>3
<1>6. ASSUME NEW j \in 1 .. Len(q) - 1
      PROVE  Was(q, i, j) \in DOMAIN q \ {i} /\ (a \o b)[j] = q[Was(q, i, j)]
  <2>1. Was(q, i, j) \in DOMAIN q \ {i}
    BY <1>1 DEF Was
  <2>2. CASE j <= Len(q) - i
    BY <2>2, <1>1, <1>2, <1>3 DEF Was
  <2>3. CASE ~(j <= Len(q) - i)
    <3>1. j - (Len(q) - i) \in 1 .. i - 1
      BY <2>3, <1>1
    <3>2. (a \o b)[j] = b[j - Len(a)]
      BY <2>3, <1>1, <1>2, <1>3
    <3> QED  BY <3>1, <3>2, <2>3, <1>2, <1>3 DEF Was
  <2> QED  BY <2>1, <2>2, <2>3
<1> QED  BY <1>4, <1>5, <1>6

\* Every other position of the queue is still there.
LEMMA WasAll ==
    ASSUME NEW S, NEW q \in Seq(S), NEW i \in DOMAIN q, NEW k \in DOMAIN q \ {i}
    PROVE  \E j \in 1 .. Len(q) - 1 : Was(q, i, j) = k
<1>1. CASE k > i
  <2>1. k - i \in 1 .. Len(q) - 1 /\ Was(q, i, k - i) = k
    BY <1>1 DEF Was
  <2> QED  BY <2>1
<1>2. CASE k < i
  <2>1. k + (Len(q) - i) \in 1 .. Len(q) - 1 /\ Was(q, i, k + (Len(q) - i)) = k
    BY <1>2 DEF Was
  <2> QED  BY <2>1
<1> QED  BY <1>1, <1>2

LEMMA WasOnce ==
    ASSUME NEW S, NEW q \in Seq(S), NEW i \in DOMAIN q,
           NEW j \in 1 .. Len(q) - 1, NEW k \in 1 .. Len(q) - 1,
           Was(q, i, j) = Was(q, i, k)
    PROVE  j = k
BY DEF Was

\* Counting packets: there are finitely many.
LEMMA PacketsFinite ==
    ASSUME TypeOK
    PROVE  /\ IsFiniteSet(Packet)
           /\ IsFiniteSet(cacheque_use) /\ Cardinality(cacheque_use) \in Nat
<1>1. Len(size) \in Nat
  BY DEF TypeOK
<1>2. IsFiniteSet(Packet)
  BY <1>1, FS_Interval DEF Packet
<1> QED  BY <1>2, FS_Subset, FS_CardinalityType DEF TypeOK

\* A call that takes a packet keeps the peak.
LEMMA PeakTaken ==
    ASSUME TypeOK, PeakReached, NEW p, InUse(p)
    PROVE  /\ peak' \in Nat /\ peak' >= peak /\ PeakReached'
           /\ IsFiniteSet(cacheque_use')
<1>1. IsFiniteSet(cacheque_use \cup {p}) /\ Cardinality(cacheque_use \cup {p}) \in Nat
  BY PacketsFinite, FS_AddElement, FS_CardinalityType
<1>2. peak \in Nat
  BY DEF TypeOK
<1> DEFINE count == Cardinality(cacheque_use \cup {p})
<1>3. cacheque_use' = cacheque_use \cup {p} /\ peak' = IF count > peak THEN count ELSE peak
  BY DEF InUse
<1>4. count \in Nat
  BY <1>1
<1> HIDE DEF count
<1>5. peak' \in Nat /\ peak' >= peak /\ count <= peak'
  BY <1>2, <1>3, <1>4
<1> QED  BY <1>1, <1>3, <1>5 DEF count, PeakReached
----------------------------------------------------------------------------
LEMMA InitInv == Init => IInv
<1> SUFFICES ASSUME Init PROVE IInv
  OBVIOUS
<1>1. Packet = {} /\ FreeOnes = {}
  BY DEF Init, Packet, FreeOnes
<1>2. TypeOK
  BY <1>1 DEF Init, TypeOK
<1>3. InOneQueue
  BY <1>1 DEF Init, InOneQueue
<1>4. PeakReached
  BY FS_EmptySet DEF Init, PeakReached
<1>5. PoolBounded
  <2> SUFFICES ASSUME NEW n \in Sizes PROVE Cardinality(OfSize(n)) <= peak
    BY DEF PoolBounded
  <2>1. OfSize(n) = {}
    BY <1>1 DEF OfSize
  <2> QED  BY <2>1, FS_EmptySet DEF Init
<1> QED  BY <1>2, <1>3, <1>4, <1>5 DEF IInv

\* The packets of a size stay the same ones, and the peak only grows.
LEMMA SameSizes ==
    ASSUME IInv, UNCHANGED size, peak' \in Nat, peak' >= peak
    PROVE  PoolBounded'
<1> SUFFICES ASSUME NEW n \in Sizes PROVE Cardinality(OfSize(n))' <= peak'
  BY DEF PoolBounded
<1>1. Packet' = Packet /\ OfSize(n)' = OfSize(n)
  BY DEF OfSize, Packet
<1>2. Cardinality(OfSize(n)) <= peak
  BY DEF IInv, PoolBounded
<1>3. Cardinality(OfSize(n)) \in Nat
  <2>1. OfSize(n) \subseteq Packet
    BY DEF OfSize
  <2> QED  BY <2>1, PacketsFinite, FS_Subset, FS_CardinalityType DEF IInv
<1>4. peak \in Nat
  BY DEF IInv, TypeOK
<1> DEFINE c == Cardinality(OfSize(n))
<1>5. Cardinality(OfSize(n))' = c
  BY <1>1
<1>6. c \in Nat /\ c <= peak
  BY <1>2, <1>3
<1> HIDE DEF c
<1> QED  BY <1>4, <1>5, <1>6

\* A new packet: all the others of its size are in use.
LEMMA NewPacketInv ==
    ASSUME IInv, NEW n \in Sizes, NewPacket(n)
    PROVE  IInv'
<1> DEFINE new == Len(size) + 1
<1>0. TypeOK /\ InOneQueue /\ PeakReached /\ PoolBounded /\ InUse(new)
  BY DEF IInv, NewPacket
<1>1. /\ peak' \in Nat /\ peak' >= peak /\ PeakReached'
      /\ IsFiniteSet(cacheque_use') /\ cacheque_use' = cacheque_use \cup {new}
  BY <1>0, PeakTaken DEF InUse
<1>2. /\ Len(size) \in Nat /\ Packet' = Packet \cup {new} /\ new \notin Packet
      /\ size' \in Seq(Sizes) /\ Len(size') = new
      /\ \A p \in Packet : size'[p] = size[p]
      /\ size'[new] = n
  BY <1>0 DEF TypeOK, Packet, NewPacket
<1>3. asked' \in Seq(Sizes) /\ Len(asked') = Len(size')
  BY <1>0 DEF TypeOK, NewPacket
<1>4. UNCHANGED <<cacheque_free, filled>> /\ FreeOnes' = FreeOnes
  BY DEF NewPacket, FreeOnes
<1> HIDE DEF new
<1>5. TypeOK'
  <2>1. cacheque_free' \in Seq(Packet')
    <3>1. cacheque_free \in Seq(Packet) /\ Packet \subseteq Packet'
      BY <1>0, <1>2 DEF TypeOK
    <3> QED  BY <3>1, <1>4
  <2>2. cacheque_use' \subseteq Packet' /\ filled' \subseteq Packet'
    BY <1>0, <1>1, <1>2, <1>4 DEF TypeOK
  <2> QED  BY <2>1, <2>2, <1>1, <1>2, <1>3 DEF TypeOK
<1>6. InOneQueue'
  <2>1. FreeOnes' \cap cacheque_use' = {} /\ FreeOnes' \cup cacheque_use' = Packet'
    BY <1>0, <1>1, <1>2, <1>4 DEF InOneQueue
  <2>2. filled' \subseteq cacheque_use'
    BY <1>0, <1>1, <1>4 DEF InOneQueue
  <2> QED  BY <2>1, <2>2, <1>0, <1>4 DEF InOneQueue
<1>7. PoolBounded'
  <2> SUFFICES ASSUME NEW m \in Sizes PROVE Cardinality(OfSize(m))' <= peak'
    BY DEF PoolBounded
  <2>1. CASE m = n
    <3>1. OfSize(m)' \subseteq cacheque_use'
      <4> SUFFICES ASSUME NEW p \in Packet', size'[p] = n PROVE p \in cacheque_use'
        BY <2>1 DEF OfSize
      <4>1. CASE p = new
        BY <4>1, <1>1
      <4>2. CASE p \in Packet
        <5>1. size[p] = n
          BY <4>2, <1>2
        <5>2. p \notin FreeOnes
          <6> SUFFICES ASSUME NEW i \in DOMAIN cacheque_free, cacheque_free[i] = p
                       PROVE  FALSE
            BY DEF FreeOnes
          <6>1. size[p] < n
            BY DEF NewPacket
          <6>2. n \in Nat
            BY PktPoolAssumption
          <6> QED  BY <5>1, <6>1, <6>2
        <5> QED  BY <4>2, <5>2, <1>0, <1>1 DEF InOneQueue
      <4> QED  BY <4>1, <4>2, <1>2
    <3>2. Cardinality(OfSize(m)') <= Cardinality(cacheque_use') /\ Cardinality(OfSize(m)') \in Nat
      BY <3>1, <1>1, FS_Subset, FS_CardinalityType
    <3>3. Cardinality(cacheque_use') <= peak' /\ Cardinality(cacheque_use') \in Nat
      BY <1>1, FS_CardinalityType DEF PeakReached
    <3> DEFINE c == Cardinality(OfSize(m)')
               d == Cardinality(cacheque_use')
    <3>4. c <= d /\ d <= peak' /\ c \in Nat /\ d \in Nat
      BY <3>2, <3>3
    <3> HIDE DEF c, d
    <3>5. c <= peak'
      BY <3>4, <1>1
    <3> QED  BY <3>5 DEF c
  <2>2. CASE m # n
    <3>1. OfSize(m)' = OfSize(m)
      BY <2>2, <1>2 DEF OfSize
    <3>2. Cardinality(OfSize(m)) <= peak
      BY <1>0 DEF PoolBounded
    <3>3. Cardinality(OfSize(m)) \in Nat
      <4>1. OfSize(m) \subseteq Packet
        BY DEF OfSize
      <4> QED  BY <4>1, <1>0, PacketsFinite, FS_Subset, FS_CardinalityType
    <3> DEFINE c == Cardinality(OfSize(m))
    <3>4. Cardinality(OfSize(m))' = c
      BY <3>1
    <3>5. c \in Nat /\ c <= peak /\ peak \in Nat
      BY <3>2, <3>3, <1>0 DEF TypeOK
    <3> HIDE DEF c
    <3> QED  BY <3>4, <3>5, <1>1
  <2> QED  BY <2>1, <2>2
<1> QED  BY <1>1, <1>5, <1>6, <1>7 DEF IInv

\* A free packet is taken: the others keep their places, turned.
LEMMA FreePacketInv ==
    ASSUME IInv, NEW n \in Sizes, NEW i \in DOMAIN cacheque_free, FreePacket(i, n)
    PROVE  IInv'
<1> DEFINE q == cacheque_free
           p == q[i]
<1>0. TypeOK /\ InOneQueue /\ PeakReached /\ InUse(p) /\ UNCHANGED <<size, filled>>
  BY DEF IInv, FreePacket
<1>1. /\ peak' \in Nat /\ peak' >= peak /\ PeakReached'
      /\ cacheque_use' = cacheque_use \cup {p}
  BY <1>0, PeakTaken DEF InUse
<1>2. q \in Seq(Packet) /\ p \in Packet /\ Packet' = Packet
  BY <1>0 DEF TypeOK, Packet
<1>3. cacheque_free' = Others(q, i)
  BY DEF FreePacket, Others
<1>4. /\ cacheque_free' \in Seq(Packet)
      /\ DOMAIN cacheque_free' = 1 .. Len(q) - 1
      /\ \A j \in 1 .. Len(q) - 1 :
            Was(q, i, j) \in DOMAIN q \ {i} /\ cacheque_free'[j] = q[Was(q, i, j)]
  BY <1>2, <1>3, OthersOf
<1>5. \A j, k \in DOMAIN q : q[j] = q[k] => j = k
  BY <1>0 DEF InOneQueue
<1>6. FreeOnes' = FreeOnes \ {p} /\ p \in FreeOnes
  <2>1. FreeOnes = {q[k] : k \in DOMAIN q}
        /\ FreeOnes' = {cacheque_free'[k] : k \in DOMAIN cacheque_free'}
    BY DEF FreeOnes
  <2>2. ASSUME NEW x \in FreeOnes' PROVE x \in FreeOnes \ {p}
    <3>1. PICK j \in 1 .. Len(q) - 1 : x = q[Was(q, i, j)] /\ Was(q, i, j) \in DOMAIN q \ {i}
      BY <2>1, <2>2, <1>4
    <3> QED  BY <3>1, <2>1, <1>5
  <2>3. ASSUME NEW x \in FreeOnes \ {p} PROVE x \in FreeOnes'
    <3>1. PICK k \in DOMAIN q \ {i} : x = q[k]
      BY <2>1
    <3>2. PICK j \in 1 .. Len(q) - 1 : Was(q, i, j) = k
      BY <1>2, WasAll
    <3> QED  BY <3>1, <3>2, <2>1, <1>4
  <2> QED  BY <2>1, <2>2, <2>3
<1>7. \A j, k \in DOMAIN cacheque_free' : cacheque_free'[j] = cacheque_free'[k] => j = k
  <2> SUFFICES ASSUME NEW j \in 1 .. Len(q) - 1, NEW k \in 1 .. Len(q) - 1,
                      cacheque_free'[j] = cacheque_free'[k]
               PROVE  j = k
    BY <1>4
  <2>1. Was(q, i, j) = Was(q, i, k)
    BY <1>4, <1>5
  <2> QED  BY <2>1, <1>2, WasOnce
<1>8. asked' \in Seq(Sizes) /\ Len(asked') = Len(size')
  BY <1>0, <1>2 DEF TypeOK, Packet, FreePacket
<1> HIDE DEF p, q
<1>9. TypeOK'
  BY <1>0, <1>1, <1>2, <1>4, <1>8 DEF TypeOK
<1>10. InOneQueue'
  BY <1>0, <1>1, <1>2, <1>6, <1>7 DEF InOneQueue
<1>11. PoolBounded'
  BY <1>0, <1>1, SameSizes
<1> QED  BY <1>1, <1>9, <1>10, <1>11 DEF IInv

LEMMA FillInv == ASSUME IInv, NEW p \in cacheque_use, Fill(p) PROVE IInv'
<1>0. /\ TypeOK /\ InOneQueue /\ PeakReached /\ filled' = filled \cup {p}
      /\ UNCHANGED <<size, cacheque_use, cacheque_free, asked, peak>>
  BY DEF IInv, Fill
<1>1. Packet' = Packet /\ FreeOnes' = FreeOnes
  BY <1>0 DEF Packet, FreeOnes
<1>2. TypeOK'
  BY <1>0, <1>1 DEF TypeOK
<1>3. InOneQueue'
  BY <1>0, <1>1 DEF InOneQueue
<1>4. PeakReached' /\ PoolBounded'
  BY <1>0, SameSizes DEF PeakReached, TypeOK
<1> QED  BY <1>2, <1>3, <1>4 DEF IInv

LEMMA FreeInv == ASSUME IInv, NEW p \in cacheque_use, Free(p) PROVE IInv'
<1> DEFINE q == cacheque_free
<1>0. /\ TypeOK /\ InOneQueue /\ PeakReached
      /\ cacheque_use' = cacheque_use \ {p} /\ cacheque_free' = Append(q, p)
      /\ filled' = filled \ {p} /\ UNCHANGED <<size, asked, peak>>
  BY DEF IInv, Free
<1>1. Packet' = Packet /\ q \in Seq(Packet) /\ p \in Packet
  BY <1>0 DEF Packet, TypeOK
<1>2. /\ cacheque_free' \in Seq(Packet) /\ Len(q) \in Nat
      /\ DOMAIN q = 1 .. Len(q) /\ DOMAIN cacheque_free' = 1 .. Len(q) + 1
      /\ cacheque_free'[Len(q) + 1] = p
      /\ \A j \in 1 .. Len(q) : cacheque_free'[j] = q[j]
  BY <1>0, <1>1
<1>3. FreeOnes = {q[k] : k \in DOMAIN q} /\ p \notin FreeOnes
  BY <1>0 DEF FreeOnes, InOneQueue
<1>4. FreeOnes' = FreeOnes \cup {p}
  <2>1. FreeOnes' = {cacheque_free'[k] : k \in 1 .. Len(q) + 1}
    BY <1>2 DEF FreeOnes
  <2>2. 1 .. Len(q) + 1 = DOMAIN q \cup {Len(q) + 1}
    BY <1>2
  <2> QED  BY <2>1, <2>2, <1>2, <1>3
<1>5. ASSUME NEW j \in DOMAIN cacheque_free', NEW k \in DOMAIN cacheque_free',
             cacheque_free'[j] = cacheque_free'[k]
      PROVE  j = k
  <2>1. j \in DOMAIN q \/ j = Len(q) + 1
    BY <1>2
  <2>2. k \in DOMAIN q \/ k = Len(q) + 1
    BY <1>2
  <2>3. \A m \in DOMAIN q : cacheque_free'[m] # p
    BY <1>2, <1>3
  <2> QED  BY <2>1, <2>2, <2>3, <1>0, <1>2, <1>5 DEF InOneQueue
<1> HIDE DEF q
<1>6. TypeOK'
  BY <1>0, <1>1, <1>2 DEF TypeOK
<1>7. InOneQueue'
  <2>1. /\ FreeOnes' \cap cacheque_use' = {} /\ FreeOnes' \cup cacheque_use' = Packet'
        /\ filled' \subseteq cacheque_use'
    BY <1>0, <1>1, <1>4 DEF InOneQueue
  <2> QED  BY <2>1, <1>5 DEF InOneQueue
<1>8. PeakReached'
  <2> DEFINE c == Cardinality(cacheque_use)
             d == Cardinality(cacheque_use')
  <2>1. d <= c /\ d \in Nat /\ c \in Nat
    <3>1. cacheque_use' \subseteq cacheque_use
      BY <1>0
    <3> QED  BY <3>1, <1>0, PacketsFinite, FS_Subset, FS_CardinalityType
  <2>2. c <= peak /\ peak \in Nat /\ peak' = peak
    BY <1>0 DEF PeakReached, TypeOK
  <2> HIDE DEF c, d
  <2>3. d <= peak'
    BY <2>1, <2>2
  <2> QED  BY <2>3 DEF d, PeakReached
<1>9. PoolBounded'
  BY <1>0, SameSizes DEF TypeOK
<1> QED  BY <1>6, <1>7, <1>8, <1>9 DEF IInv

LEMMA StepInv == IInv /\ [Next]_vars => IInv'
<1> SUFFICES ASSUME IInv, [Next]_vars PROVE IInv'
  OBVIOUS
<1>1. ASSUME NEW n \in Sizes, New(n) PROVE IInv'
  <2>1. CASE NewPacket(n)
    BY <2>1, NewPacketInv
  <2>2. CASE \E i \in DOMAIN cacheque_free : FreePacket(i, n)
    BY <2>2, FreePacketInv
  <2> QED  BY <1>1, <2>1, <2>2 DEF New
<1>2. ASSUME NEW p \in cacheque_use, Fill(p) PROVE IInv'
  BY <1>2, FillInv
<1>3. ASSUME NEW p \in cacheque_use, Free(p) PROVE IInv'
  BY <1>3, FreeInv
<1>4. CASE UNCHANGED vars
  <2>1. UNCHANGED <<Packet, FreeOnes>>
    BY <1>4 DEF vars, Packet, FreeOnes
  <2>2. TypeOK' /\ InOneQueue' /\ PeakReached'
    BY <1>4, <2>1 DEF vars, IInv, TypeOK, InOneQueue, PeakReached
  <2>3. PoolBounded'
    BY <1>4, SameSizes DEF vars, IInv, TypeOK
  <2> QED  BY <2>2, <2>3 DEF IInv
<1> QED  BY <1>1, <1>2, <1>3, <1>4 DEF Next

LEMMA Invariance == Spec => []IInv
BY InitInv, StepInv, PTL DEF Spec
----------------------------------------------------------------------------
(***************************************************************************)
(* The types hold: every packet in a queue is one of the pool's.           *)
(***************************************************************************)
THEOREM PoolTyped == Spec => []TypeOK
<1>1. IInv => TypeOK
  BY DEF IInv
<1> QED  BY <1>1, Invariance, PTL

(***************************************************************************)
(* response_pkt_new and response_pkt_free lose and double no packet, and   *)
(* the assertion of responsepkt.c:72 holds.                                *)
(***************************************************************************)
THEOREM QueuesDisjoint == Spec => []InOneQueue
<1>1. IInv => InOneQueue
  BY DEF IInv
<1> QED  BY <1>1, Invariance, PTL

(***************************************************************************)
(* Of no size does the pool keep more packets than were in use at a time.  *)
(***************************************************************************)
THEOREM PoolStaysBounded == Spec => []PoolBounded
<1>1. IInv => PoolBounded
  BY DEF IInv
<1> QED  BY <1>1, Invariance, PTL

(***************************************************************************)
(* Every step of the pool is a step of Allocator, or none: a caller never  *)
(* shares a packet, gets one too small, or finds an earlier frame in it.   *)
(***************************************************************************)
LEMMA HeldOf ==
    /\ DOMAIN held = cacheque_use
    /\ \A p \in cacheque_use :
          held[p] = [asked |-> asked[p], room |-> size[p], filled |-> p \in filled]
BY DEF held

LEMMA FilledRecord ==
    ASSUME NEW a, NEW r, NEW f, NEW g
    PROVE  [[asked |-> a, room |-> r, filled |-> f] EXCEPT !.filled = g] =
              [asked |-> a, room |-> r, filled |-> g]
OBVIOUS

LEMMA TakenIsNew ==
    ASSUME IInv, NEW n \in Sizes, NEW p, NEW r \in Sizes,
           p \notin cacheque_use, p \notin filled, r >= n,
           cacheque_use' = cacheque_use \cup {p}, filled' = filled,
           asked'[p] = n, size'[p] = r,
           \A q \in cacheque_use : asked'[q] = asked[q] /\ size'[q] = size[q]
    PROVE  A!Next
<1>1. held' = [q \in cacheque_use' |->
                 [asked |-> asked'[q], room |-> size'[q], filled |-> q \in filled']]
  BY DEF held
<1>2. held' = [q \in DOMAIN held \cup {p} |->
                 IF q = p THEN [asked |-> n, room |-> r, filled |-> FALSE] ELSE held[q]]
  <2>1. (p \in filled') = FALSE
    OBVIOUS
  <2>2. \A q \in cacheque_use : held[q] =
           [asked |-> asked'[q], room |-> size'[q], filled |-> q \in filled']
    BY HeldOf
  <2>3. \A q \in cacheque_use' :
           [asked |-> asked'[q], room |-> size'[q], filled |-> q \in filled'] =
              IF q = p THEN [asked |-> n, room |-> r, filled |-> FALSE] ELSE held[q]
    BY <2>1, <2>2
  <2> HIDE DEF held
  <2> QED  BY <1>1, <2>3, HeldOf
<1>3. A!New(p, n, r)
  BY <1>2, HeldOf DEF A!New
<1>4. p \in DOMAIN held'
  BY <1>1
<1> QED  BY <1>3, <1>4 DEF A!Next

(***************************************************************************)
(* The pool implements the allocator its callers count on: whichever       *)
(* packets it reuses, a packet is one caller's, large enough and empty     *)
(* (responsepkt.c:26-106).                                                 *)
(***************************************************************************)
THEOREM PoolAllocates == Spec => Allocates
<1>1. Init => A!Init
  <2> SUFFICES ASSUME Init PROVE held = <<>>
    BY DEF A!Init
  <2>1. DOMAIN held = {}
    BY HeldOf DEF Init
  <2> QED  BY <2>1 DEF held, Init
<1>2. IInv /\ [Next]_vars => [A!Next]_held
  <2> SUFFICES ASSUME IInv, [Next]_vars PROVE [A!Next]_held
    OBVIOUS
  <2>0. TypeOK /\ InOneQueue
    BY DEF IInv
  <2>1. ASSUME NEW n \in Sizes, NewPacket(n) PROVE A!Next
    <3> DEFINE new == Len(size) + 1
    <3>1. /\ cacheque_use' = cacheque_use \cup {new} /\ filled' = filled
          /\ size' = Append(size, n) /\ asked' = Append(asked, n)
      BY <2>1 DEF NewPacket, InUse
    <3>2. new \notin cacheque_use /\ new \notin filled
      BY <2>0 DEF TypeOK, Packet
    <3>3. size'[new] = n /\ asked'[new] = n /\ n >= n
      BY <2>0, <3>1, PktPoolAssumption DEF TypeOK
    <3>4. \A q \in cacheque_use : asked'[q] = asked[q] /\ size'[q] = size[q]
      BY <2>0, <3>1 DEF TypeOK, Packet
    <3> HIDE DEF new
    <3> QED  BY <3>1, <3>2, <3>3, <3>4, TakenIsNew
  <2>2. ASSUME NEW n \in Sizes, NEW i \in DOMAIN cacheque_free, FreePacket(i, n)
        PROVE  A!Next
    <3> DEFINE p == cacheque_free[i]
    <3>1. /\ cacheque_use' = cacheque_use \cup {p} /\ filled' = filled
          /\ size' = size /\ asked' = [asked EXCEPT ![p] = n] /\ size[p] >= n
      BY <2>2 DEF FreePacket, InUse, Fits
    <3>2. p \notin cacheque_use /\ p \notin filled
      BY <2>0 DEF InOneQueue, FreeOnes
    <3>3. p \in 1 .. Len(size) /\ p \in DOMAIN asked /\ size[p] \in Sizes
      BY <2>0 DEF TypeOK, Packet
    <3>4. asked'[p] = n /\ \A q \in cacheque_use : asked'[q] = asked[q]
      BY <2>0, <3>1, <3>2, <3>3 DEF TypeOK, Packet
    <3> HIDE DEF p
    <3> QED  BY <3>1, <3>2, <3>3, <3>4, TakenIsNew
  <2>3. ASSUME NEW p \in cacheque_use, Fill(p) PROVE A!Next
    <3>1. held' = [q \in cacheque_use' |->
                 [asked |-> asked'[q], room |-> size'[q], filled |-> q \in filled']]
      BY DEF held
    <3>2. /\ cacheque_use' = cacheque_use /\ size' = size /\ asked' = asked
          /\ filled' = filled \cup {p}
      BY <2>3 DEF Fill
    <3>3. (p \in filled') = TRUE /\ \A q \in cacheque_use \ {p} : (q \in filled') = (q \in filled)
      BY <3>2
    <3>4. [held EXCEPT ![p].filled = TRUE] =
             [q \in cacheque_use |-> IF q = p THEN [held[p] EXCEPT !.filled = TRUE] ELSE held[q]]
      BY HeldOf DEF held
    <3>5. [held[p] EXCEPT !.filled = TRUE] =
             [asked |-> asked[p], room |-> size[p], filled |-> TRUE]
      <4>1. held[p] = [asked |-> asked[p], room |-> size[p], filled |-> p \in filled]
        BY HeldOf
      <4>2. [[asked |-> asked[p], room |-> size[p], filled |-> p \in filled]
                EXCEPT !.filled = TRUE] = [asked |-> asked[p], room |-> size[p], filled |-> TRUE]
        BY FilledRecord
      <4> QED  BY <4>1, <4>2, Zenon
    <3>6. \A q \in cacheque_use :
             [asked |-> asked'[q], room |-> size'[q], filled |-> q \in filled'] =
                IF q = p THEN [held[p] EXCEPT !.filled = TRUE] ELSE held[q]
      BY <3>2, <3>3, <3>5, HeldOf
    <3>7. held' = [held EXCEPT ![p].filled = TRUE]
      BY <3>1, <3>2, <3>4, <3>6
    <3> QED  BY <3>7, HeldOf DEF A!Next, A!Fill
  <2>4. ASSUME NEW p \in cacheque_use, Free(p) PROVE A!Next
    <3>1. held' = [q \in cacheque_use' |->
                 [asked |-> asked'[q], room |-> size'[q], filled |-> q \in filled']]
      BY DEF held
    <3>2. held' = [q \in DOMAIN held \ {p} |-> held[q]]
      BY <3>1, <2>4, HeldOf DEF Free
    <3> QED  BY <3>2, HeldOf DEF A!Next, A!Free
  <2>5. CASE UNCHANGED vars
    BY <2>5 DEF vars, held
  <2> QED  BY <2>1, <2>2, <2>3, <2>4, <2>5 DEF Next, New
<1> QED  BY <1>1, <1>2, Invariance, PTL DEF Spec, Allocates, A!Spec
=============================================================================
