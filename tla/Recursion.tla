----------------------------- MODULE Recursion ------------------------------
(***************************************************************************)
(* Induction and recursion over integers, with sets and functions in the   *)
(* place of predicates and operators, so that the lemmas can be applied.   *)
(* What is proved of every n is stated as a set of numbers, what a         *)
(* recursive function does in a step as a function.                        *)
(***************************************************************************)
EXTENDS WellFoundedInduction, TLAPS

\* A set of natural numbers that is not empty has a least element.
LEMMA LeastNat ==
    ASSUME NEW T, T \subseteq Nat, T # {}
    PROVE  \E m \in T : \A k \in T : m <= k
<1> DEFINE R == OpToRel(<, Nat)
<1>1. IsWellFoundedOn(R, Nat)
  BY NatLessThanWellFounded
<1>2. \A i, j \in Nat : i < j => <<i, j>> \in R
  BY DEF OpToRel
<1> HIDE DEF R
<1>3. PICK x \in T : \A y \in T : ~ (<<y, x>> \in R)
  BY <1>1, WFMin
<1>4. \A y \in T : x \in Nat /\ y \in Nat /\ ~(y < x)
  BY <1>2, <1>3
<1>5. \A y \in T : x <= y
  BY <1>4
<1> QED BY <1>5

\* Induction: the set holds its start and the successor of what it holds.
LEMMA Induction ==
    ASSUME NEW T, NEW a \in Int, a \in T,
           \A k \in Int : a <= k /\ k \in T => k + 1 \in T
    PROVE  \A k \in Int : a <= k => k \in T
<1> SUFFICES ASSUME NEW b \in Int, a <= b, b \notin T PROVE FALSE
  OBVIOUS
<1> DEFINE U == {n \in Nat : a + n \notin T}
<1>1. b - a \in U
  BY a + (b - a) = b
<1>2. U \subseteq Nat /\ U # {}
  BY <1>1
<1>3. PICK m \in U : \A k \in U : m <= k
  <2> HIDE DEF U
  <2> QED BY <1>2, LeastNat
<1>4. m \in Nat /\ a + m \notin T /\ m # 0
  BY <1>3
<1>5. m - 1 \in Nat /\ ~(m <= m - 1)
  BY <1>4
<1>6. a + (m - 1) \in T
  BY <1>3, <1>5
<1>7. a + (m - 1) \in Int /\ a <= a + (m - 1) /\ (a + (m - 1)) + 1 = a + m
  BY <1>4, <1>5
<1> QED BY <1>4, <1>6, <1>7

(***************************************************************************)
(* A function whose value at k depends on its values below k exists: D[k]  *)
(* is what gives the value at k.                                           *)
(***************************************************************************)
LooksBack(D, a, b, S) ==
    /\ D \in [a .. b -> [[a .. b -> S] -> S]]
    /\ \A g, h \in [a .. b -> S], k \in a .. b :
          (\A i \in a .. k - 1 : g[i] = h[i]) => D[k][g] = D[k][h]

Solves(f, D, a, b) == f = [k \in a .. b |-> D[k][f]]

LEMMA CourseOfValues ==
    ASSUME NEW a \in Int, NEW b \in Int, NEW S, NEW s0 \in S,
           NEW D, LooksBack(D, a, b, S)
    PROVE  \E f \in [a .. b -> S] : Solves(f, D, a, b)
<1> USE DEF LooksBack, Solves
<1> DEFINE Upto(m) == \E f \in [a .. b -> S] : \A k \in a .. b : k < m => f[k] = D[k][f]
           T == {m \in Int : Upto(m)}
<1>1. a \in T
  <2>1. [k \in a .. b |-> s0] \in [a .. b -> S]
    OBVIOUS
  <2>2. \A k \in a .. b : ~(k < a)
    OBVIOUS
  <2>3. Upto(a)
    BY <2>1, <2>2
  <2> QED BY <2>3
<1>2. ASSUME NEW m \in Int, a <= m, m \in T PROVE m + 1 \in T
  <2>1. PICK f \in [a .. b -> S] : \A k \in a .. b : k < m => f[k] = D[k][f]
    BY <1>2
  <2> DEFINE g == [k \in a .. b |-> IF k = m THEN D[k][f] ELSE f[k]]
  <2>2. \A k \in a .. b : D[k][f] \in S
    OBVIOUS
  <2>3. g \in [a .. b -> S] /\ \A k \in a .. b : g[k] = IF k = m THEN D[k][f] ELSE f[k]
    BY <2>2
  <2> HIDE DEF g
  <2>4. ASSUME NEW k \in a .. b, k < m + 1 PROVE g[k] = D[k][g]
    <3>1. \A i \in a .. k - 1 : i \in a .. b /\ i # m
      BY <2>4
    <3>2. \A i \in a .. k - 1 : f[i] = g[i]
      BY <2>3, <3>1
    <3>3. D[k][f] = D[k][g]
      BY <2>3, <3>2
    <3>4. CASE k = m
      BY <2>3, <3>3, <3>4
    <3>5. CASE k # m
      BY <2>1, <2>3, <2>4, <3>3, <3>5
    <3> QED BY <3>4, <3>5
  <2>5. Upto(m + 1)
    BY <2>3, <2>4
  <2> QED BY <2>5
<1>3. ASSUME NEW m \in Int, a <= m PROVE m \in T
  <2> HIDE DEF T
  <2> QED BY <1>1, <1>2, <1>3, Induction
<1>4. PICK m \in Int : a <= m /\ b < m
  <2>1. CASE a <= b
    <3>1. b + 1 \in Int /\ a <= b + 1 /\ b < b + 1
      BY <2>1
    <3> QED BY <3>1
  <2>2. CASE ~(a <= b)
    <3>1. a <= a /\ b < a
      BY <2>2
    <3> QED BY <3>1
  <2> QED BY <2>1, <2>2
<1>5. Upto(m)
  BY <1>3, <1>4
<1>6. PICK f \in [a .. b -> S] : \A k \in a .. b : k < m => f[k] = D[k][f]
  BY <1>5
<1>7. \A k \in a .. b : f[k] = D[k][f]
  BY <1>4, <1>6
<1>8. f = [k \in a .. b |-> D[k][f]]
  BY <1>7
<1> QED BY <1>8

\* A function whose value at k depends on the one at k - 1, and c is the first.
Steps(f, D, c, a, b) == f = [k \in a .. b |-> IF k = a THEN c ELSE D[k][f[k - 1]]]

LEMMA StepByStep ==
    ASSUME NEW a \in Int, NEW b \in Int, NEW S, NEW c \in S,
           NEW D, D \in [a .. b -> [S -> S]]
    PROVE  \E f \in [a .. b -> S] : Steps(f, D, c, a, b)
<1> DEFINE E == [k \in a .. b |-> [g \in [a .. b -> S] |->
                                      IF k = a THEN c ELSE D[k][g[k - 1]]]]
<1>1. ASSUME NEW k \in a .. b, NEW g \in [a .. b -> S]
      PROVE  (IF k = a THEN c ELSE D[k][g[k - 1]]) \in S
  <2>1. CASE k # a
    <3>1. k - 1 \in a .. b
      BY <2>1
    <3> QED BY <3>1
  <2> QED BY <2>1
<1>2. E \in [a .. b -> [[a .. b -> S] -> S]]
  BY <1>1
<1>3. \A k \in a .. b : \A g \in [a .. b -> S] :
         E[k][g] = IF k = a THEN c ELSE D[k][g[k - 1]]
  OBVIOUS
<1> HIDE DEF E
<1>4. ASSUME NEW g \in [a .. b -> S], NEW h \in [a .. b -> S], NEW k \in a .. b,
             \A i \in a .. k - 1 : g[i] = h[i]
      PROVE  E[k][g] = E[k][h]
  <2>1. k # a => k - 1 \in a .. k - 1
    OBVIOUS
  <2> QED BY <1>3, <1>4, <2>1
<1>5. \A g, h \in [a .. b -> S], k \in a .. b :
         (\A i \in a .. k - 1 : g[i] = h[i]) => E[k][g] = E[k][h]
  BY <1>4
<1>6. PICK f \in [a .. b -> S] : Solves(f, E, a, b)
  <2>1. LooksBack(E, a, b, S)
    BY <1>2, <1>5 DEF LooksBack
  <2> QED BY <2>1, CourseOfValues
<1>7. Steps(f, D, c, a, b)
  BY <1>3, <1>6 DEF Solves, Steps
<1> QED BY <1>7

\* The same for a function whose value at k depends on its values above k.
LooksAhead(D, a, b, S) ==
    /\ D \in [a .. b -> [[a .. b -> S] -> S]]
    /\ \A g, h \in [a .. b -> S], k \in a .. b :
          (\A i \in k + 1 .. b : g[i] = h[i]) => D[k][g] = D[k][h]

LEMMA Backwards ==
    ASSUME NEW a \in Int, NEW b \in Int, NEW S, NEW s0 \in S,
           NEW D, LooksAhead(D, a, b, S)
    PROVE  \E f \in [a .. b -> S] : Solves(f, D, a, b)
<1> DEFINE F == [a .. b -> S]
           Turned(g) == [i \in a .. b |-> g[a + b - i]]
           E == [k \in a .. b |-> [g \in F |-> D[a + b - k][Turned(g)]]]
<1>1. \A i \in a .. b : a + b - i \in a .. b /\ a + b - (a + b - i) = i
  OBVIOUS
<1>2. \A g \in F : Turned(g) \in F /\ \A i \in a .. b : Turned(g)[i] = g[a + b - i]
  BY <1>1
<1> HIDE DEF Turned
<1>3. /\ D \in [a .. b -> [F -> S]]
      /\ \A g, h \in F, k \in a .. b : (\A i \in k + 1 .. b : g[i] = h[i]) => D[k][g] = D[k][h]
  BY DEF LooksAhead
<1> HIDE DEF F
<1>4. E \in [a .. b -> [F -> S]] /\ \A k \in a .. b, g \in F : E[k][g] = D[a + b - k][Turned(g)]
  <2>1. \A k \in a .. b, g \in F : D[a + b - k][Turned(g)] \in S
    BY <1>1, <1>2, <1>3
  <2> QED  BY <2>1
<1> HIDE DEF E
<1>5. ASSUME NEW g \in F, NEW h \in F, NEW k \in a .. b, \A i \in a .. k - 1 : g[i] = h[i]
      PROVE  E[k][g] = E[k][h]
  <2>1. \A i \in (a + b - k) + 1 .. b : a + b - i \in a .. k - 1 /\ i \in a .. b
    OBVIOUS
  <2>2. \A i \in (a + b - k) + 1 .. b : Turned(g)[i] = Turned(h)[i]
    BY <1>2, <1>5, <2>1
  <2>3. a + b - k \in a .. b /\ Turned(g) \in F /\ Turned(h) \in F
    BY <1>1, <1>2
  <2> QED  BY <1>3, <1>4, <2>2, <2>3
<1>6. PICK f \in F : Solves(f, E, a, b)
  <2>1. LooksBack(E, a, b, S)
    BY <1>4, <1>5 DEF LooksBack, F
  <2> QED  BY <2>1, CourseOfValues DEF F
<1>7. \A k \in a .. b : Turned(f)[k] = D[k][Turned(f)]
  <2> SUFFICES ASSUME NEW k \in a .. b PROVE Turned(f)[k] = D[k][Turned(f)]
    OBVIOUS
  <2>1. f[a + b - k] = E[a + b - k][f]
    BY <1>1, <1>6 DEF Solves
  <2>2. E[a + b - k][f] = D[k][Turned(f)]
    BY <1>1, <1>4
  <2> QED  BY <1>2, <2>1, <2>2
<1>8. Turned(f) \in [a .. b -> S]
  BY <1>2 DEF F
<1>9. Solves(Turned(f), D, a, b)
  BY <1>7, <1>8 DEF Solves
<1> QED  BY <1>8, <1>9
=============================================================================
