------------------------------ MODULE ComsProof ------------------------------
(***************************************************************************)
(* The serial ports, for any number of them and any streams: every byte    *)
(* reaches the scanner (NothingLost), whatever that does with it, and the  *)
(* scanner finds the frames of the stream, however its chunks cut them     *)
(* (FramesFound).                                                          *)
(***************************************************************************)
EXTENDS Coms, Recursion, SequenceTheorems

(***************************************************************************)
(* The scanner of the card readers.  Sees(s, e, f) says what the scanner e *)
(* keeps of a stream s after it has given f away; every byte keeps it      *)
(* (SeesByte), so does every search and every chunk (ProcessData), and     *)
(* with it f is what the definition by the comments of devexpat.c finds in *)
(* s (SeesAll).                                                            *)
(***************************************************************************)

\* The check byte is an exclusive or, byte by byte.
LEMMA ChecksumSteps ==
    ASSUME NEW s \in Seq(Byte), NEW i \in 1 .. Len(s) + 1, NEW j \in i - 1 .. Len(s)
    PROVE  \E x \in [i - 1 .. j -> Byte] :
              /\ \A k \in i - 1 .. j : x[k] = IF k < i THEN 0 ELSE ByteXor(x[k - 1], s[k])
              /\ Checksum(s, i, j) = x[j]
<1> DEFINE x[k \in i - 1 .. j] == IF k < i THEN 0 ELSE ByteXor(x[k - 1], s[k])
           D == [k \in i - 1 .. j |-> [v \in Byte |-> IF k < i THEN 0 ELSE ByteXor(v, s[k])]]
<1>0. /\ i \in Int /\ j \in Int /\ i - 1 \in Int /\ 0 \in Byte
      /\ \A k \in i - 1 .. j : k \in Int /\ (~(k < i) => s[k] \in Byte)
  <2>1. Len(s) \in Nat /\ 0 \in Byte /\ i \in Int /\ i >= 1 /\ j \in Int /\ j <= Len(s)
    BY DEF Byte
  <2>2. \A k \in 1 .. Len(s) : s[k] \in Byte
    OBVIOUS
  <2> QED  BY <2>1, <2>2
<1>1. D \in [i - 1 .. j -> [Byte -> Byte]]
  <2>1. \A k \in i - 1 .. j, v \in Byte : (IF k < i THEN 0 ELSE ByteXor(v, s[k])) \in Byte
    BY <1>0, DevScanAssumption
  <2> QED  BY <2>1
<1>2. \A k \in i - 1 .. j, v \in Byte : D[k][v] = IF k < i THEN 0 ELSE ByteXor(v, s[k])
  OBVIOUS
<1> HIDE DEF D
<1>4. PICK f \in [i - 1 .. j -> Byte] : Steps(f, D, 0, i - 1, j)
  BY <1>0, <1>1, StepByStep
<1>5. f = [k \in i - 1 .. j |-> IF k < i THEN 0 ELSE ByteXor(f[k - 1], s[k])]
  BY <1>0, <1>2, <1>4 DEF Steps
<1>6. x = [k \in i - 1 .. j |-> IF k < i THEN 0 ELSE ByteXor(x[k - 1], s[k])]
  BY <1>5
<1>8. Checksum(s, i, j) = x[j]
  BY DEF Checksum
<1> HIDE DEF x
<1>7. \A k \in i - 1 .. j : x[k] \in Byte
  <2> DEFINE T == {k \in Int : k <= j => x[k] \in Byte}
  <2>1. i - 1 \in T
    BY <1>0, <1>6
  <2>2. ASSUME NEW k \in Int, i - 1 <= k, k \in T PROVE k + 1 \in T
    <3>1. SUFFICES ASSUME k + 1 <= j PROVE x[k + 1] \in Byte
      OBVIOUS
    <3>2. k + 1 \in i - 1 .. j /\ ~(k + 1 < i) /\ (k + 1) - 1 = k /\ x[k] \in Byte
      BY <1>0, <2>2, <3>1
    <3>3. x[k + 1] = ByteXor(x[k], s[k + 1]) /\ s[k + 1] \in Byte
      BY <1>0, <1>6, <3>2
    <3> QED  BY <3>2, <3>3, DevScanAssumption
  <2>3. \A k \in Int : i - 1 <= k => k \in T
    <3> HIDE DEF T
    <3> QED  BY <1>0, <2>1, <2>2, Induction
  <2> QED  BY <1>0, <2>3
<1>9. x \in [i - 1 .. j -> Byte]
  BY <1>6, <1>7
<1> QED  BY <1>6, <1>8, <1>9

----------------------------------------------------------------------------
\* z begins with s.
Prefixed(s, z) == Len(s) <= Len(z) /\ \A k \in 1 .. Len(s) : z[k] = s[k]

\* The check byte grows by one byte, and does not depend on what follows.
LEMMA ChecksumGrows ==
    ASSUME NEW s \in Seq(Byte), NEW z \in Seq(Byte), Prefixed(s, z),
           NEW i \in 1 .. Len(s) + 1, NEW j \in i - 1 .. Len(s)
    PROVE  /\ Checksum(s, i, j) \in Byte
           /\ j = i - 1 => Checksum(s, i, j) = 0
           /\ j < Len(z) => Checksum(z, i, j + 1) = ByteXor(Checksum(s, i, j), z[j + 1])
           /\ Checksum(z, i, j) = Checksum(s, i, j)
<1>0. /\ Len(s) \in Nat /\ Len(z) \in Nat /\ Len(s) <= Len(z) /\ \A k \in 1 .. Len(s) : z[k] = s[k]
      /\ i \in Int /\ j \in Int /\ 1 <= i /\ i - 1 <= j /\ j <= Len(s)
      /\ i \in 1 .. Len(z) + 1 /\ j \in i - 1 .. Len(z) /\ i - 1 \in Int
  BY DEF Prefixed
<1>1. PICK x \in [i - 1 .. j -> Byte] :
        /\ \A k \in i - 1 .. j : x[k] = IF k < i THEN 0 ELSE ByteXor(x[k - 1], s[k])
        /\ Checksum(s, i, j) = x[j]
  BY ChecksumSteps
<1>2. ASSUME NEW e \in j .. Len(z),
             NEW y \in [i - 1 .. e -> Byte],
             \A k \in i - 1 .. e : y[k] = IF k < i THEN 0 ELSE ByteXor(y[k - 1], z[k])
      PROVE  y[j] = x[j]
  <2> DEFINE T == {k \in Int : k <= j => y[k] = x[k]}
  <2>1. i - 1 \in T
    BY <1>0, <1>1, <1>2
  <2>2. ASSUME NEW k \in Int, i - 1 <= k, k \in T PROVE k + 1 \in T
    <3>1. SUFFICES ASSUME k + 1 <= j PROVE y[k + 1] = x[k + 1]
      OBVIOUS
    <3>2. /\ k + 1 \in i - 1 .. j /\ k + 1 \in i - 1 .. e /\ ~(k + 1 < i) /\ (k + 1) - 1 = k
          /\ y[k] = x[k] /\ z[k + 1] = s[k + 1]
      BY <1>0, <2>2, <3>1
    <3> QED  BY <1>1, <1>2, <3>2
  <2>3. \A k \in Int : i - 1 <= k => k \in T
    <3> HIDE DEF T
    <3> QED  BY <1>0, <2>1, <2>2, Induction
  <2> QED  BY <1>0, <2>3
<1>3. Checksum(z, i, j) = x[j]
  <2>1. j \in j .. Len(z)
    BY <1>0
  <2>2. PICK y \in [i - 1 .. j -> Byte] :
          /\ \A k \in i - 1 .. j : y[k] = IF k < i THEN 0 ELSE ByteXor(y[k - 1], z[k])
          /\ Checksum(z, i, j) = y[j]
    BY <1>0, ChecksumSteps
  <2> QED  BY <1>2, <2>1, <2>2
<1>4. ASSUME j < Len(z) PROVE Checksum(z, i, j + 1) = ByteXor(x[j], z[j + 1])
  <2>1. j + 1 \in i - 1 .. Len(z) /\ j + 1 \in j .. Len(z) /\ ~(j + 1 < i) /\ (j + 1) - 1 = j
    BY <1>0, <1>4
  <2>2. PICK y \in [i - 1 .. j + 1 -> Byte] :
          /\ \A k \in i - 1 .. j + 1 : y[k] = IF k < i THEN 0 ELSE ByteXor(y[k - 1], z[k])
          /\ Checksum(z, i, j + 1) = y[j + 1]
    BY <1>0, <2>1, ChecksumSteps
  <2>3. y[j] = x[j]
    BY <1>2, <2>1, <2>2
  <2>4. j + 1 \in i - 1 .. j + 1
    BY <1>0
  <2> QED  BY <2>1, <2>2, <2>3, <2>4
<1>5. x[j] \in Byte /\ (j = i - 1 => x[j] = 0)
  BY <1>0, <1>1
<1> QED  BY <1>1, <1>3, <1>4, <1>5

----------------------------------------------------------------------------
\* A title starts at t.
Titled(s, t) == s[t] = 0 /\ s[t + 1] = 255

\* No title among the bytes behind the c-th and before the n-th, or at its first byte.
NoTitle(s, c, n) == \A t \in c + 1 .. n - 1 : ~Titled(s, t)

\* Start finds the first title.
LEMMA StartIs ==
    ASSUME NEW s \in Seq(Byte), NEW c \in 0 .. Len(s)
    PROVE  /\ Start(s, c + 1) \in c + 1 .. Len(s) - 2 \cup {Len(s)}
           /\ NoTitle(s, c, Len(s) - 1) => Start(s, c + 1) = Len(s)
           /\ \A i \in c + 1 .. Len(s) - 2 :
                 Titled(s, i) /\ NoTitle(s, c, i) => Start(s, c + 1) = i
<1> DEFINE T == {t \in c + 1 .. Len(s) - 2 : s[t] = 0 /\ s[t + 1] = 255}
<1>0. Len(s) \in Nat /\ c \in Nat
  OBVIOUS
<1>1. Start(s, c + 1) = IF T = {} THEN Len(s) ELSE CHOOSE t \in T : \A u \in T : t <= u
  BY DEF Start
<1>2. T \subseteq Nat /\ T \subseteq c + 1 .. Len(s) - 2
      /\ \A t \in c + 1 .. Len(s) - 2 : t \in T <=> Titled(s, t)
  BY <1>0 DEF Titled
<1> HIDE DEF T
<1>3. T # {} => Start(s, c + 1) \in T /\ \A u \in T : Start(s, c + 1) <= u
  <2> SUFFICES ASSUME T # {}
               PROVE  Start(s, c + 1) \in T /\ \A u \in T : Start(s, c + 1) <= u
    OBVIOUS
  <2>1. \E t \in T : \A u \in T : t <= u
    BY <1>2, LeastNat
  <2> QED  BY <1>1, <2>1
<1>4. NoTitle(s, c, Len(s) - 1) => T = {}
  BY <1>0, <1>2 DEF NoTitle
<1>5. ASSUME NEW i \in c + 1 .. Len(s) - 2, Titled(s, i), NoTitle(s, c, i)
      PROVE  Start(s, c + 1) = i
  <2>1. i \in T
    BY <1>2, <1>5
  <2>2. PICK m \in T : m = Start(s, c + 1) /\ m <= i
    BY <1>3, <2>1
  <2>3. m \in Int /\ i \in Int /\ c + 1 <= m /\ Titled(s, m)
    BY <1>0, <1>2, <2>2
  <2>4. \A t \in Int : c + 1 <= t /\ t < i => ~Titled(s, t)
    BY <1>0, <1>5, <2>3 DEF NoTitle
  <2>5. ~(m < i)
    BY <2>3, <2>4
  <2> QED  BY <2>2, <2>3, <2>5
<1> QED  BY <1>1, <1>2, <1>3, <1>4, <1>5

----------------------------------------------------------------------------
\* What LastFrames does behind the c-th byte.
FramesBehind(s, f, c) ==
    LET i == Start(s, c + 1)
        n == FrameLength(s, i)
        j == i + n - 1
    IN  IF i + 2 > Len(s) THEN <<>>
        ELSE IF n >= UNPACKBUFFSIZE - 1 THEN f[Len(s) - (i + 2)]
        ELSE IF j > Len(s) THEN <<>>
        ELSE IF Checksum(s, i + 3, j) = 0 THEN <<SubSeq(s, i, j)>> \o f[Len(s) - j]
        ELSE f[Len(s) - j]

\* Strings of frames.
Strs == Seq(Seq(Byte))

\* A whole frame has four bytes at least.
LEMMA FrameIsLong ==
    ASSUME NEW s \in Seq(Byte), NEW i \in 1 .. Len(s) - 2
    PROVE  FrameLength(s, i) \in Int /\ 4 <= FrameLength(s, i)
<1>1. i + 2 \in 1 .. Len(s)
  OBVIOUS
<1>2. \A b \in Byte : b + 4 \in Int /\ 4 <= b + 4
  BY DEF Byte
<1> QED  BY <1>1, <1>2 DEF FrameLength

\* Where it goes on lies behind, and what it gives is a string.
LEMMA BehindIsLater ==
    ASSUME NEW s \in Seq(Byte), NEW c \in 0 .. Len(s),
           NEW i \in c + 1 .. Len(s) - 2, NEW n \in Int, 4 <= n
    PROVE  /\ Len(s) - (i + 2) \in 0 .. Len(s) - c - 1
           /\ ~(i + n - 1 > Len(s)) => /\ Len(s) - (i + n - 1) \in 0 .. Len(s) - c - 1
                                       /\ SubSeq(s, i, i + n - 1) \in Seq(Byte)
OBVIOUS

\* FramesBehind is of the right type, and looks at later places only.
LEMMA BehindType ==
    ASSUME NEW s \in Seq(Byte), NEW c \in 0 .. Len(s), NEW f, NEW g,
           \A m \in 0 .. Len(s) - c - 1 : f[m] \in Strs /\ f[m] = g[m]
    PROVE  FramesBehind(s, f, c) \in Strs /\ FramesBehind(s, f, c) = FramesBehind(s, g, c)
<1> DEFINE i == Start(s, c + 1)
           n == FrameLength(s, i)
<1>0. /\ \A q \in Seq(Byte), r \in Strs : <<q>> \o r \in Strs
      /\ <<>> \in Strs
  BY DEF Strs
<1>1. CASE i + 2 > Len(s)
  BY <1>0, <1>1 DEF FramesBehind
<1>2. CASE ~(i + 2 > Len(s))
  <2>1. i \in c + 1 .. Len(s) - 2
    <3>1. i \in c + 1 .. Len(s) - 2 \cup {Len(s)} /\ Len(s) \in Nat
      BY StartIs
    <3> QED  BY <1>2, <3>1
  <2>2. n \in Int /\ 4 <= n
    <3>1. i \in 1 .. Len(s) - 2
      BY <2>1
    <3> QED  BY <3>1, FrameIsLong
  <2> HIDE DEF i, n
  <2>3. /\ Len(s) - (i + 2) \in 0 .. Len(s) - c - 1
        /\ ~(i + n - 1 > Len(s)) => /\ Len(s) - (i + n - 1) \in 0 .. Len(s) - c - 1
                                    /\ SubSeq(s, i, i + n - 1) \in Seq(Byte)
    BY <2>1, <2>2, BehindIsLater
  <2> DEFINE j == i + n - 1
  <2>4. \A h : FramesBehind(s, h, c) =
              IF n >= UNPACKBUFFSIZE - 1 THEN h[Len(s) - (i + 2)]
              ELSE IF j > Len(s) THEN <<>>
              ELSE IF Checksum(s, i + 3, j) = 0 THEN <<SubSeq(s, i, j)>> \o h[Len(s) - j]
              ELSE h[Len(s) - j]
    BY <1>2 DEF FramesBehind, i, n
  <2>5. /\ Len(s) - (i + 2) \in 0 .. Len(s) - c - 1
        /\ ~(j > Len(s)) => Len(s) - j \in 0 .. Len(s) - c - 1 /\ SubSeq(s, i, j) \in Seq(Byte)
    BY <2>3
  <2> HIDE DEF j
  <2> QED  BY <1>0, <2>4, <2>5
<1> QED  BY <1>1, <1>2

\* LastFrames satisfies its recursive definition.
LEMMA LastFramesDef ==
    ASSUME NEW s \in Seq(Byte)
    PROVE  /\ LastFrames(s)[0] = <<>>
           /\ \A c \in 0 .. Len(s) :
                /\ LastFrames(s)[Len(s) - c] \in Strs
                /\ c < Len(s) => LastFrames(s)[Len(s) - c] = FramesBehind(s, LastFrames(s), c)
<1> DEFINE N == Len(s)
           from[k \in 0 .. Len(s)] ==
              LET i == Start(s, Len(s) - k + 1)
                  n == FrameLength(s, i)
                  j == i + n - 1
              IN  IF k = 0 THEN <<>>
                  ELSE IF i + 2 > Len(s) THEN <<>>
                  ELSE IF n >= UNPACKBUFFSIZE - 1 THEN from[Len(s) - (i + 2)]
                  ELSE IF j > Len(s) THEN <<>>
                  ELSE IF Checksum(s, i + 3, j) = 0
                       THEN <<SubSeq(s, i, j)>> \o from[Len(s) - j]
                  ELSE from[Len(s) - j]
           Body(f, k) == IF k = 0 THEN <<>> ELSE FramesBehind(s, f, Len(s) - k)
           D == [k \in 0 .. N |-> [f \in [0 .. N -> Strs] |-> Body(f, k)]]
<1>1. LastFrames(s) = from
  BY DEF LastFrames
<1> HIDE DEF from
<1>2. N \in Nat /\ N \in Int /\ 0 \in Int /\ <<>> \in Strs
  BY DEF Strs
<1>3. ASSUME NEW k \in 1 .. N
      PROVE  Len(s) - k \in 0 .. Len(s) /\ Len(s) - (Len(s) - k) - 1 = k - 1
  BY <1>2
<1>4. ASSUME NEW k \in 0 .. N, NEW f, NEW g, \A m \in 0 .. k - 1 : f[m] \in Strs /\ f[m] = g[m]
      PROVE  Body(f, k) \in Strs /\ Body(f, k) = Body(g, k)
  <2>1. CASE k = 0
    BY <1>2, <2>1
  <2>2. CASE k # 0
    <3>1. Len(s) - k \in 0 .. Len(s) /\ Len(s) - (Len(s) - k) - 1 = k - 1
      BY <1>2, <2>2
    <3>2. \A m \in 0 .. Len(s) - (Len(s) - k) - 1 : f[m] \in Strs /\ f[m] = g[m]
      BY <1>4, <3>1
    <3> QED  BY <2>2, <3>1, <3>2, BehindType
  <2> QED  BY <2>1, <2>2
<1> HIDE DEF Body
<1>5. LooksBack(D, 0, N, Strs)
  <2>1. \A k \in 0 .. N, f \in [0 .. N -> Strs] : Body(f, k) \in Strs
    <3> SUFFICES ASSUME NEW k \in 0 .. N, NEW f \in [0 .. N -> Strs] PROVE Body(f, k) \in Strs
      OBVIOUS
    <3>1. \A m \in 0 .. k - 1 : f[m] \in Strs /\ f[m] = f[m]
      BY <1>2
    <3> QED  BY <1>4, <3>1
  <2>2. D \in [0 .. N -> [[0 .. N -> Strs] -> Strs]]
    BY <2>1
  <2>3. \A k \in 0 .. N, f \in [0 .. N -> Strs] : D[k][f] = Body(f, k)
    OBVIOUS
  <2> HIDE DEF D
  <2>4. ASSUME NEW f \in [0 .. N -> Strs], NEW g \in [0 .. N -> Strs], NEW k \in 0 .. N,
               \A m \in 0 .. k - 1 : f[m] = g[m]
        PROVE  D[k][f] = D[k][g]
    <3>1. \A m \in 0 .. k - 1 : f[m] \in Strs /\ f[m] = g[m]
      BY <1>2, <2>4
    <3>2. Body(f, k) = Body(g, k)
      BY <1>4, <3>1
    <3> QED  BY <2>3, <3>2
  <2> QED  BY <2>2, <2>4 DEF LooksBack
<1>6. PICK f \in [0 .. N -> Strs] : Solves(f, D, 0, N)
  <2> HIDE DEF D
  <2> QED  BY <1>2, <1>5, CourseOfValues
<1>7. f = [k \in 0 .. N |-> Body(f, k)]
  BY <1>6 DEF Solves
<1>8. from = [k \in 0 .. N |-> Body(from, k)]
  <2> DEFINE Eq(g) == g = [k \in 0 .. N |-> Body(g, k)]
  <2>1. from = CHOOSE g : Eq(g)
    BY DEF from, Body, FramesBehind
  <2>2. Eq(f)
    BY <1>7
  <2> HIDE DEF Eq
  <2>3. Eq(from)
    BY <2>1, <2>2
  <2> QED  BY <2>3 DEF Eq
<1>9. \A k \in Int : 0 <= k /\ k <= N => \A m \in 0 .. k : from[m] \in Strs
  <2> DEFINE T == {k \in Int : k <= N => \A m \in 0 .. k : from[m] \in Strs}
  <2>1. 0 \in T
    BY <1>2, <1>8 DEF Body
  <2>2. ASSUME NEW k \in Int, 0 <= k, k \in T PROVE k + 1 \in T
    <3>1. SUFFICES ASSUME k + 1 <= N PROVE \A m \in 0 .. k + 1 : from[m] \in Strs
      OBVIOUS
    <3>2. k + 1 \in 0 .. N /\ (k + 1) - 1 = k /\ \A m \in 0 .. k : from[m] \in Strs
      BY <1>2, <2>2, <3>1
    <3>3. from[k + 1] \in Strs
      BY <1>4, <1>8, <3>2
    <3> QED  BY <3>2, <3>3
  <2>3. \A k \in Int : 0 <= k => k \in T
    <3> HIDE DEF T
    <3> QED  BY <2>1, <2>2, Induction
  <2> QED  BY <2>3
<1>10. \A k \in 0 .. N : from[k] \in Strs /\ from[k] = Body(from, k)
  BY <1>2, <1>8, <1>9
<1>11. ASSUME NEW c \in 0 .. Len(s) PROVE
         /\ from[Len(s) - c] \in Strs
         /\ c < Len(s) => from[Len(s) - c] = FramesBehind(s, from, c)
  <2>1. Len(s) - c \in 0 .. N /\ Len(s) - (Len(s) - c) = c /\ (c < Len(s) => Len(s) - c # 0)
    BY <1>2
  <2> QED  BY <1>10, <2>1 DEF Body
<1>12. from[0] = <<>>
  BY <1>2, <1>10 DEF Body
<1> QED  BY <1>1, <1>11, <1>12

(***************************************************************************)
(* What the scanner is done with.  After the first c bytes of s it has     *)
(* found f, and whatever is behind s, the rest is found from there.        *)
(***************************************************************************)
Parsed(s, c, f) ==
    \A z \in Seq(Byte) : Prefixed(s, z) => Frames(z) = f \o LastFrames(z)[Len(z) - c]

\* A prefix of a prefix is a prefix.
LEMMA PrefixedFacts ==
    ASSUME NEW s \in Seq(Byte), NEW y \in Seq(Byte), NEW z \in Seq(Byte),
           Prefixed(s, y), Prefixed(y, z)
    PROVE  Prefixed(s, z) /\ Len(s) <= Len(y) /\ Len(y) <= Len(z)
<1>1. Len(s) \in Nat /\ Len(y) \in Nat /\ Len(z) \in Nat
  OBVIOUS
<1> QED  BY <1>1 DEF Prefixed

\* More bytes leave what was found as it is.
LEMMA ParsedOnward ==
    ASSUME NEW s \in Seq(Byte), NEW y \in Seq(Byte), Prefixed(s, y),
           NEW c, NEW f, Parsed(s, c, f)
    PROVE  Parsed(y, c, f)
<1> SUFFICES ASSUME NEW z \in Seq(Byte), Prefixed(y, z)
             PROVE  Frames(z) = f \o LastFrames(z)[Len(z) - c]
  BY DEF Parsed
<1>1. Prefixed(s, z)
  BY PrefixedFacts
<1> QED  BY <1>1 DEF Parsed

\* Strings of frames, joined and appended to.
LEMMA StrsJoin ==
    ASSUME NEW f \in Strs, NEW q \in Seq(Byte), NEW g \in Strs
    PROVE  f \o (<<q>> \o g) = Append(f, q) \o g /\ Append(f, q) \in Strs /\ f \o <<>> = f
           /\ f \o <<q>> = Append(f, q)
<1> DEFINE S == Seq(Byte)
<1>1. f \in Seq(S) /\ g \in Seq(S) /\ q \in S
  BY DEF Strs
<1>2. Strs = Seq(S)
  BY DEF Strs
<1> HIDE DEF S
<1> QED  BY <1>1, <1>2

\* The first of it for all of them.
LEMMA StrsTaken == \A x, y \in Strs, b \in Seq(Byte) : x \o (<<b>> \o y) = Append(x, b) \o y
  BY StrsJoin

\* What Start, FrameLength and Checksum read is the same in both.
LEMMA SameBehind ==
    ASSUME NEW s \in Seq(Byte), NEW z \in Seq(Byte), Prefixed(s, z), NEW c \in 0 .. Len(s),
           NEW i \in c + 1 .. Len(s) - 2, Titled(s, i), NoTitle(s, c, i)
    PROVE  Start(z, c + 1) = i /\ FrameLength(z, i) = FrameLength(s, i)
<1>1. Len(s) \in Nat /\ Len(z) \in Nat /\ c \in Nat /\ i \in Nat /\ c < i /\ i <= Len(s) - 2
      /\ Len(s) <= Len(z) /\ \A k \in 1 .. Len(s) : z[k] = s[k]
  BY DEF Prefixed
<1>2. z[i] = s[i] /\ z[i + 1] = s[i + 1] /\ z[i + 2] = s[i + 2]
  BY <1>1
<1>3. Titled(z, i)
  BY <1>2 DEF Titled
<1>4. \A t \in c + 1 .. i - 1 : Titled(z, t) <=> Titled(s, t)
  <2> SUFFICES ASSUME NEW t \in c + 1 .. i - 1 PROVE Titled(z, t) <=> Titled(s, t)
    OBVIOUS
  <2>1. z[t] = s[t] /\ z[t + 1] = s[t + 1]
    BY <1>1
  <2> QED  BY <2>1 DEF Titled
<1>5. NoTitle(z, c, i)
  BY <1>4 DEF NoTitle
<1>6. c \in 0 .. Len(z) /\ i \in c + 1 .. Len(z) - 2
  BY <1>1
<1> QED  BY <1>2, <1>3, <1>5, <1>6, StartIs DEF FrameLength

\* A frame that does not fit is passed over with its length byte.
LEMMA PassesOver ==
    ASSUME NEW s \in Seq(Byte), NEW c \in 0 .. Len(s), NEW f \in Strs, Parsed(s, c, f),
           NEW i \in c + 1 .. Len(s) - 2, Titled(s, i), NoTitle(s, c, i),
           FrameLength(s, i) >= UNPACKBUFFSIZE - 1
    PROVE  Parsed(s, i + 2, f)
<1> SUFFICES ASSUME NEW z \in Seq(Byte), Prefixed(s, z)
             PROVE  Frames(z) = f \o LastFrames(z)[Len(z) - (i + 2)]
  BY DEF Parsed
<1>1. Frames(z) = f \o LastFrames(z)[Len(z) - c]
  BY DEF Parsed
<1>2. /\ c \in 0 .. Len(z) /\ c < Len(z) /\ ~(i + 2 > Len(z))
  BY DEF Prefixed
<1>3. LastFrames(z)[Len(z) - c] = FramesBehind(z, LastFrames(z), c)
  BY <1>2, LastFramesDef
<1>4. Start(z, c + 1) = i /\ FrameLength(z, i) = FrameLength(s, i)
  BY SameBehind
<1>5. FramesBehind(z, LastFrames(z), c) = LastFrames(z)[Len(z) - (i + 2)]
  BY <1>2, <1>4 DEF FramesBehind
<1> QED  BY <1>1, <1>3, <1>5

\* A whole frame is given away or thrown away, and left behind.
LEMMA GoesBehind ==
    ASSUME NEW s \in Seq(Byte), NEW c \in 0 .. Len(s), NEW f \in Strs, Parsed(s, c, f),
           NEW i \in c + 1 .. Len(s) - 2, Titled(s, i), NoTitle(s, c, i),
           FrameLength(s, i) < UNPACKBUFFSIZE - 1,
           i + FrameLength(s, i) - 1 = Len(s)
    PROVE  Parsed(s, Len(s), IF Checksum(s, i + 3, Len(s)) = 0
                             THEN Append(f, SubSeq(s, i, Len(s))) ELSE f)
<1> DEFINE j == Len(s)
<1> SUFFICES ASSUME NEW z \in Seq(Byte), Prefixed(s, z)
             PROVE  Frames(z) = (IF Checksum(s, i + 3, j) = 0 THEN Append(f, SubSeq(s, i, j)) ELSE f)
                                \o LastFrames(z)[Len(z) - j]
  BY DEF Parsed
<1>1. Frames(z) = f \o LastFrames(z)[Len(z) - c]
  BY DEF Parsed
<1>0. /\ Len(s) \in Nat /\ Len(z) \in Nat /\ Len(s) <= Len(z)
      /\ i \in Nat /\ c \in Nat /\ c < i /\ i <= j - 2 /\ j \in Nat
      /\ \A k \in 1 .. Len(s) : z[k] = s[k]
  BY DEF Prefixed
<1>2. /\ c \in 0 .. Len(z) /\ c < Len(z) /\ ~(i + 2 > Len(z)) /\ ~(j > Len(z)) /\ j \in 0 .. Len(z)
      /\ i + 3 \in 1 .. Len(s) + 1 /\ j \in (i + 3) - 1 .. Len(s)
  BY <1>0
<1>3. LastFrames(z)[Len(z) - c] = FramesBehind(z, LastFrames(z), c)
  BY <1>2, LastFramesDef
<1>4. Start(z, c + 1) = i /\ FrameLength(z, i) = FrameLength(s, i)
  BY SameBehind
<1>5. Checksum(z, i + 3, j) = Checksum(s, i + 3, j)
  BY <1>2, ChecksumGrows
<1>6. SubSeq(z, i, j) = SubSeq(s, i, j) /\ SubSeq(s, i, j) \in Seq(Byte)
  <2>1. SubSeq(s, i, j) \in Seq(Byte)
    BY <1>0
  <2> HIDE DEF j
  <2>2. j <= Len(s) /\ \A k \in 1 .. j - i + 1 : k + i - 1 \in 1 .. Len(s)
    BY <1>0 DEF j
  <2> QED  BY <1>0, <2>1, <2>2
<1>7. LastFrames(z)[Len(z) - j] \in Strs
  BY <1>2, LastFramesDef
<1>8. i + FrameLength(z, i) - 1 = j /\ ~(FrameLength(z, i) >= UNPACKBUFFSIZE - 1)
  <2>1. FrameLength(s, i) \in Int /\ UNPACKBUFFSIZE \in Nat
    <3>1. i \in 1 .. Len(s) - 2
      BY <1>0
    <3> QED  BY <3>1, FrameIsLong, DevScanAssumption
  <2> QED  BY <1>4, <2>1
<1> HIDE DEF j
<1>9. FramesBehind(z, LastFrames(z), c) =
        IF Checksum(s, i + 3, j) = 0 THEN <<SubSeq(s, i, j)>> \o LastFrames(z)[Len(z) - j]
        ELSE LastFrames(z)[Len(z) - j]
  BY <1>2, <1>4, <1>5, <1>6, <1>8 DEF FramesBehind
<1>10. CASE Checksum(s, i + 3, j) = 0
  <2> DEFINE q == SubSeq(s, i, j)
             g == LastFrames(z)[Len(z) - j]
  <2>1. Frames(z) = f \o (<<q>> \o g)
    BY <1>1, <1>3, <1>9, <1>10
  <2>2. q \in Seq(Byte) /\ g \in Strs
    BY <1>6, <1>7
  <2> HIDE DEF q, g
  <2>3. Frames(z) = Append(f, q) \o g
    <3>1. f \o (<<q>> \o g) = Append(f, q) \o g
      BY <2>2, StrsTaken, Zenon
    <3> QED  BY <2>1, <3>1
  <2> QED  BY <1>10, <2>3 DEF q, g
<1>11. CASE Checksum(s, i + 3, j) # 0
  BY <1>1, <1>3, <1>9, <1>11
<1> QED  BY <1>10, <1>11

----------------------------------------------------------------------------
(***************************************************************************)
(* A scanner: its frame never runs over, and it remembers one byte at most *)
(* of a title.                                                             *)
(***************************************************************************)
ScannerFields ==
    [searchstatus : {"NULL", "IDENTIFIER"}, Head : Seq(Byte),
     frame : [0 .. UNPACKBUFFSIZE - 1 -> Byte], framelen : 0 .. UNPACKBUFFSIZE - 1,
     indlen : Int, checksum : Byte]

Scanners ==
    {e \in ScannerFields :
        /\ Len(e.Head) < HEADLEN
        /\ e.searchstatus = "IDENTIFIER" =>
              e.Head = <<>> /\ HEADLEN <= e.framelen /\ e.framelen < UNPACKBUFFSIZE - 1}

\* The fields of a scanner and their types.
LEMMA ScannerHas ==
    ASSUME NEW e \in Scanners
    PROVE  /\ e.searchstatus \in {"NULL", "IDENTIFIER"} /\ e.Head \in Seq(Byte)
           /\ e.frame \in [0 .. UNPACKBUFFSIZE - 1 -> Byte]
           /\ e.framelen \in Nat /\ e.framelen <= UNPACKBUFFSIZE - 1
           /\ e.indlen \in Int /\ e.checksum \in Byte /\ Len(e.Head) < 2
           /\ e.searchstatus = "IDENTIFIER" =>
                 e.Head = <<>> /\ 2 <= e.framelen /\ e.framelen < UNPACKBUFFSIZE - 1
BY DevScanAssumption DEF Scanners, ScannerFields, HEADLEN

\* Nothing, or one byte.
LEMMA ShortHead ==
    ASSUME NEW h \in Seq(Byte), Len(h) < 2
    PROVE  h = <<>> \/ (\E x \in Byte : h = <<x>>)
<1> DEFINE S == Byte
<1>1. h \in Seq(S)
  OBVIOUS
<1> HIDE DEF S
<1>2. Len(h) \in Nat
  BY <1>1
<1>3. CASE Len(h) = 0
  BY <1>1, <1>3
<1>4. CASE Len(h) = 1
  <2>1. h[1] \in S
    BY <1>1, <1>4
  <2>2. h = <<h[1]>>
    BY <1>1, <1>4, <2>1
  <2> QED  BY <2>1, <2>2 DEF S
<1>5. Len(h) = 0 \/ Len(h) = 1
  <2>1. \A m \in Nat : m < 2 => m = 0 \/ m = 1
    OBVIOUS
  <2> QED  BY <1>2, <2>1
<1> QED  BY <1>3, <1>4, <1>5

\* A byte behind another one.
LEMMA TwoBytes ==
    ASSUME NEW S, NEW h \in S, NEW b \in S
    PROVE  Append(<<h>>, b) = <<h, b>> /\ Len(<<h, b>>) = 2
<1> DEFINE z == Append(<<h>>, b)
<1>1. <<h>> \in Seq(S) /\ Len(<<h>>) = 1 /\ <<h>>[1] = h
  OBVIOUS
<1>2. z \in Seq(S) /\ Len(z) = 2 /\ z[1] = h /\ z[2] = b
  BY <1>1, AppendProperties
<1> HIDE DEF z
<1>3. z = <<z[1], z[2]>>
  BY <1>2
<1>4. z = <<h, b>>
  BY <1>2, <1>3, Zenon
<1> QED  BY <1>2, <1>4 DEF z

\* A title is kept in the frame.
LEMMA KeepsTitle ==
    ASSUME NEW e \in ScannerFields, 0 \in Byte, 255 \in Byte,
           0 \in 0 .. UNPACKBUFFSIZE - 1, 1 \in 0 .. UNPACKBUFFSIZE - 1
    PROVE  LET x == [e EXCEPT !.searchstatus = "IDENTIFIER", !.Head = <<>>, !.frame[0] = 0,
                              !.frame[1] = 255, !.framelen = 2, !.checksum = 0]
           IN  x.frame[0] = 0 /\ x.frame[1] = 255
<1> DEFINE x == [e EXCEPT !.searchstatus = "IDENTIFIER", !.Head = <<>>, !.frame[0] = 0,
                          !.frame[1] = 255, !.framelen = 2, !.checksum = 0]
<1>1. x.frame = [[e.frame EXCEPT ![0] = 0] EXCEPT ![1] = 255]
  BY DEF ScannerFields
<1>2. e.frame \in [0 .. UNPACKBUFFSIZE - 1 -> Byte]
  BY DEF ScannerFields
<1> HIDE DEF x
<1>3. x.frame[0] = 0 /\ x.frame[1] = 255
  <2> DEFINE f == e.frame
             g == [f EXCEPT ![0] = 0]
             h == [g EXCEPT ![1] = 255]
  <2>1. f \in [0 .. UNPACKBUFFSIZE - 1 -> Byte] /\ x.frame = h
    BY <1>1, <1>2
  <2> HIDE DEF f
  <2>2. g \in [0 .. UNPACKBUFFSIZE - 1 -> Byte] /\ g[0] = 0
    BY <2>1
  <2> HIDE DEF g
  <2>3. h[0] = 0 /\ h[1] = 255
    BY <2>2
  <2> QED  BY <2>1, <2>3
<1> QED  BY <1>3 DEF x

----------------------------------------------------------------------------
\* What a byte makes of a scanner that looks for a title.
TitleLeaves(e, b, x) ==
    /\ e.Head = <<>> => x.searchstatus = "NULL" /\ x.Head = <<b>>
    /\ \A h \in Byte : e.Head = <<h>> =>
         IF h = 0 /\ b = 255
         THEN /\ x.searchstatus = "IDENTIFIER" /\ x.framelen = 2
              /\ x.frame[0] = 0 /\ x.frame[1] = 255 /\ x.checksum = 0
         ELSE x.searchstatus = "NULL" /\ x.Head = IF b = 0 THEN <<0>> ELSE <<>>

\* Title, field by field.
LEMMA TitleDoes ==
    ASSUME NEW e \in Scanners, e.searchstatus = "NULL", NEW b \in Byte
    PROVE  /\ Title(e, b).exp \in Scanners /\ Title(e, b).finished = FALSE
           /\ TitleLeaves(e, b, Title(e, b).exp)
<1> USE DEF TitleLeaves
<1>0. /\ 0 \in Byte /\ 255 \in Byte /\ 0 \in 0 .. UNPACKBUFFSIZE - 1
      /\ 1 \in 0 .. UNPACKBUFFSIZE - 1 /\ 2 < UNPACKBUFFSIZE - 1
      /\ 2 \in 0 .. UNPACKBUFFSIZE - 1 /\ <<>> \in Seq(Byte) /\ Len(<<>>) < 2
      /\ e \in ScannerFields
  <2>1. 0 \in Byte /\ 255 \in Byte
    BY DEF Byte
  <2>2. e \in ScannerFields
    BY DEF Scanners
  <2> QED  BY <2>1, <2>2, DevScanAssumption
<1>2. ASSUME NEW hd \in Seq(Byte), Len(hd) < 2
      PROVE  LET x == [e EXCEPT !.Head = hd]
             IN  x \in Scanners /\ x.searchstatus = "NULL" /\ x.Head = hd
  BY <1>0, <1>2 DEF Scanners, ScannerFields, HEADLEN
<1>3. CASE e.Head = <<>>
  <2> DEFINE hd == <<b>>
             x == [e EXCEPT !.Head = hd]
  <2>1. Append(e.Head, b) = <<b>> /\ Len(<<b>>) = 1 /\ <<b>> \in Seq(Byte)
    BY <1>3
  <2>2. Title(e, b) = Went(x)
    BY <2>1 DEF Title, HEADLEN
  <2>3. x \in Scanners /\ x.searchstatus = "NULL" /\ x.Head = hd
    <3>1. hd \in Seq(Byte) /\ Len(hd) < 2
      BY <2>1
    <3> HIDE DEF hd
    <3> QED  BY <1>2, <3>1
  <2> HIDE DEF x
  <2> QED  BY <1>3, <2>2, <2>3 DEF Went
<1>4. CASE e.Head # <<>>
  <2>1. PICK h \in Byte : e.Head = <<h>>
    BY <1>4, ScannerHas, ShortHead
  <2>2. Append(e.Head, b) = <<h, b>> /\ Len(<<h, b>>) = 2
    BY <2>1, TwoBytes
  <2>3. \A k \in Byte : e.Head = <<k>> => k = h
    BY <2>1
  <2>4. CASE h = 0 /\ b = 255
    <3> DEFINE x == [e EXCEPT !.searchstatus = "IDENTIFIER", !.Head = <<>>, !.frame[0] = 0,
                              !.frame[1] = 255, !.framelen = 2, !.checksum = 0]
    <3>1. <<h, b>> = <<0, 255>>
      BY <2>4
    <3>2. Title(e, b) = Went(x)
      BY <2>2, <3>1 DEF Title, HEADLEN, g_title
    <3>3. x \in ScannerFields
      BY <1>0 DEF ScannerFields, HEADLEN
    <3>4. /\ x.searchstatus = "IDENTIFIER" /\ x.framelen = 2 /\ x.Head = <<>> /\ x.checksum = 0
      BY <1>0 DEF ScannerFields, HEADLEN
    <3>5. x.frame[0] = 0 /\ x.frame[1] = 255
      BY <1>0, KeepsTitle
    <3> HIDE DEF x
    <3>6. x \in Scanners
      BY <1>0, <3>3, <3>4 DEF Scanners, HEADLEN
    <3> QED  BY <1>4, <2>3, <2>4, <3>2, <3>4, <3>5, <3>6 DEF Went
  <2>5. CASE ~(h = 0 /\ b = 255)
    <3> DEFINE hd == IF b = 0 THEN <<0>> ELSE <<>>
               x == [e EXCEPT !.Head = hd]
    <3>1. hd \in Seq(Byte) /\ Len(hd) < 2
      BY <1>0
    <3>2. <<h, b>> # <<0, 255>>
      BY <2>5
    <3>3. x \in Scanners /\ x.searchstatus = "NULL" /\ x.Head = hd
      <4> HIDE DEF hd
      <4> QED  BY <1>2, <3>1
    <3>4. Title(e, b) = Went(x)
      BY <2>2, <3>2 DEF Title, HEADLEN, g_title
    <3> HIDE DEF x
    <3> QED  BY <1>4, <2>3, <2>5, <3>3, <3>4 DEF Went
  <2> QED  BY <2>4, <2>5
<1> QED  BY <1>3, <1>4

\* What a byte of a frame makes of a scanner, and whether the frame ends with it.
IdentifierLeaves(e, b, x, finished) ==
    LET n == e.framelen + 1
        il == IF n = 3 THEN Signed(b) + 4 ELSE e.indlen
        ck == IF n >= 4 THEN ByteXor(e.checksum, b) ELSE e.checksum
        over == (n = 3 /\ il >= UNPACKBUFFSIZE - 1) \/ n >= UNPACKBUFFSIZE - 1
    IN  /\ x.framelen = n /\ x.Head = <<>> /\ x.indlen = il /\ x.checksum = ck
        /\ x.frame = [e.frame EXCEPT ![e.framelen] = b]
        /\ x.searchstatus = IF over \/ n = il THEN "NULL" ELSE "IDENTIFIER"
        /\ finished <=> ~over /\ n = il /\ ck = 0

\* Identifier, field by field.
LEMMA IdentifierDoes ==
    ASSUME NEW e \in Scanners, e.searchstatus = "IDENTIFIER", NEW b \in Byte
    PROVE  /\ Identifier(e, b).exp \in Scanners /\ Identifier(e, b).finished \in BOOLEAN
           /\ IdentifierLeaves(e, b, Identifier(e, b).exp, Identifier(e, b).finished)
<1> DEFINE n == e.framelen + 1
           il == IF n = 3 THEN Signed(b) + 4 ELSE e.indlen
           ck == IF n >= 4 THEN ByteXor(e.checksum, b) ELSE e.checksum
           fr == [e.frame EXCEPT ![e.framelen] = b]
           over == (n = 3 /\ il >= UNPACKBUFFSIZE - 1) \/ n >= UNPACKBUFFSIZE - 1
           x == [e EXCEPT !.frame[e.framelen] = b, !.framelen = n,
                          !.checksum = IF n >= 4 THEN ByteXor(@, b) ELSE @,
                          !.indlen = IF n = 3 THEN Signed(b) + 4 ELSE @]
           y == [x EXCEPT !.searchstatus = "NULL"]
<1>1. /\ n \in Nat /\ 3 <= n /\ n <= UNPACKBUFFSIZE - 1
      /\ e.framelen \in 0 .. UNPACKBUFFSIZE - 1 /\ n \in 0 .. UNPACKBUFFSIZE - 1
      /\ (~over => n < UNPACKBUFFSIZE - 1)
      /\ e \in ScannerFields /\ e.Head = <<>> /\ Len(<<>>) < 2
  BY ScannerHas, DevScanAssumption DEF Scanners
<1>2. il \in Int
  <2>1. Signed(b) + 4 \in Int
    BY DEF Signed, Byte
  <2> QED  BY <2>1, ScannerHas
<1>3. ck \in Byte
  BY ScannerHas, DevScanAssumption
<1>4. Identifier(e, b) = IF over THEN Went(y)
                         ELSE IF n = il THEN [exp |-> y, finished |-> x.checksum = 0]
                         ELSE Went(x)
  <2>1. x.indlen = il
    BY <1>1 DEF ScannerFields
  <2>2. Identifier(e, b) = IF \/ n = 3 /\ x.indlen >= UNPACKBUFFSIZE - 1
                              \/ n >= UNPACKBUFFSIZE - 1
                           THEN GaveUp(x)
                           ELSE IF n = x.indlen THEN Ended(x) ELSE Went(x)
    BY DEF Identifier
  <2> HIDE DEF x, il, n
  <2> QED  BY <2>1, <2>2 DEF GaveUp, Ended, Went
<1>5. /\ x \in ScannerFields /\ x.searchstatus = "IDENTIFIER" /\ x.Head = <<>>
      /\ x.frame = fr /\ x.framelen = n /\ x.indlen = il /\ x.checksum = ck
  <2> DEFINE z == [e EXCEPT !.frame[e.framelen] = b, !.framelen = n, !.checksum = ck,
                            !.indlen = il]
  <2>1. x = z
    OBVIOUS
  <2> HIDE DEF x, n, il, ck
  <2>2. /\ z \in ScannerFields /\ z.searchstatus = "IDENTIFIER" /\ z.Head = <<>>
        /\ z.frame = fr /\ z.framelen = n /\ z.indlen = il /\ z.checksum = ck
    BY <1>1, <1>2, <1>3 DEF ScannerFields
  <2> QED  BY <2>1, <2>2
<1> HIDE DEF x
<1>6. /\ y \in ScannerFields /\ y.searchstatus = "NULL" /\ y.Head = <<>>
      /\ y.frame = fr /\ y.framelen = n /\ y.indlen = il /\ y.checksum = ck
  <2> HIDE DEF n, il, ck, fr
  <2> QED  BY <1>5 DEF ScannerFields
<1> HIDE DEF y, n, il, ck, fr, over
<1>7. y \in Scanners /\ (~over => x \in Scanners)
  BY <1>1, <1>5, <1>6 DEF Scanners, HEADLEN
<1>8. LET r == Identifier(e, b) IN
           /\ r.exp \in Scanners /\ r.exp.framelen = n /\ r.exp.Head = <<>>
           /\ r.exp.frame = fr
           /\ r.exp.indlen = il /\ r.exp.checksum = ck
           /\ r.exp.searchstatus = IF over \/ n = il THEN "NULL" ELSE "IDENTIFIER"
           /\ r.finished \in BOOLEAN /\ (r.finished <=> ~over /\ n = il /\ ck = 0)
  <2>1. CASE over
    BY <1>4, <1>6, <1>7, <2>1 DEF Went
  <2>2. CASE ~over /\ n = il
    <3> DEFINE t == x.checksum = 0
    <3>1. Identifier(e, b) = [exp |-> y, finished |-> t]
      BY <1>4, <2>2
    <3>2. t \in BOOLEAN /\ (t <=> ck = 0)
      BY <1>5
    <3> HIDE DEF t
    <3>3. Identifier(e, b).exp = y /\ Identifier(e, b).finished = t
      BY <3>1
    <3> QED  BY <1>6, <1>7, <2>2, <3>2, <3>3
  <2>3. CASE ~over /\ n # il
    BY <1>4, <1>5, <1>7, <2>3 DEF Went
  <2> QED  BY <2>1, <2>2, <2>3
<1> QED  BY <1>8 DEF n, il, ck, fr, over, IdentifierLeaves

----------------------------------------------------------------------------
\* The length bytes are below 128.
ShortLengths(s) == \A t \in 1 .. Len(s) - 2 : Titled(s, t) => s[t + 2] < 128

\* Behind the first c bytes of s the scanner has met no title so far.
Searching(s, c, e) ==
    /\ e.searchstatus = "NULL" /\ NoTitle(s, c, Len(s))
    /\ e.Head = <<>> => Len(s) = c \/ s[Len(s)] # 0
    /\ \A h \in Byte : e.Head = <<h>> => c < Len(s) /\ s[Len(s)] = h

\* It has met one at i, and gathers the frame.
Gathering(s, c, e, i) ==
    /\ e.searchstatus = "IDENTIFIER"
    /\ i \in c + 1 .. Len(s) - 1 /\ Titled(s, i) /\ NoTitle(s, c, i)
    /\ e.framelen = Len(s) - i + 1
    /\ \A k \in 0 .. e.framelen - 1 : e.frame[k] = s[i + k]
    /\ i = Len(s) - 1 => e.checksum = 0
    /\ i <= Len(s) - 2 => /\ e.indlen = FrameLength(s, i)
                          /\ e.framelen < e.indlen /\ e.indlen < UNPACKBUFFSIZE - 1
                          /\ e.checksum = Checksum(s, i + 3, Len(s))

\* One byte behind a string.
LEMMA AppendByte ==
    ASSUME NEW s \in Seq(Byte), NEW b \in Byte
    PROVE  LET z == Append(s, b)
           IN  /\ z \in Seq(Byte) /\ Len(s) \in Nat /\ Len(z) \in Nat /\ Len(z) = Len(s) + 1
               /\ \A k \in 1 .. Len(s) : z[k] = s[k]
               /\ z[Len(s) + 1] = b /\ Prefixed(s, z)
<1> DEFINE S == Byte
           z == Append(s, b)
<1>1. s \in Seq(S) /\ b \in S
  OBVIOUS
<1> HIDE DEF S
<1>2. Len(s) \in Nat /\ z \in Seq(S) /\ Len(z) = Len(s) + 1
  BY <1>1, AppendProperties
<1>3. (\A k \in 1 .. Len(s) : z[k] = s[k]) /\ z[Len(s) + 1] = b
  BY <1>1, AppendProperties
<1>4. Prefixed(s, z) /\ Len(z) \in Nat
  <2> HIDE DEF z
  <2> QED  BY <1>2, <1>3 DEF Prefixed
<1> QED  BY <1>2, <1>3, <1>4 DEF S

\* While it searches, the scanner goes on searching or has met a title.
LEMMA HearsTitle ==
    ASSUME NEW s \in Seq(Byte), NEW b \in Byte, NEW c \in 0 .. Len(s),
           NEW e \in Scanners, Searching(s, c, e)
    PROVE  \/ Searching(Append(s, b), c, Title(e, b).exp)
           \/ Gathering(Append(s, b), c, Title(e, b).exp, Len(s))
<1> DEFINE z == Append(s, b)
           x == Title(e, b).exp
<1>0. e.searchstatus = "NULL" /\ NoTitle(s, c, Len(s))
  BY DEF Searching
<1>1. /\ z \in Seq(Byte) /\ Len(s) \in Nat /\ Len(z) = Len(s) + 1
      /\ \A k \in 1 .. Len(s) : z[k] = s[k]
      /\ z[Len(s) + 1] = b
  BY AppendByte
<1>2. TitleLeaves(e, b, x)
  BY <1>0, TitleDoes
<1> HIDE DEF z, x
<1>3. c \in Nat /\ c <= Len(s)
  BY <1>1
<1>4. ASSUME c < Len(s) => ~(s[Len(s)] = 0 /\ b = 255) PROVE NoTitle(z, c, Len(z))
  <2> SUFFICES ASSUME NEW t \in c + 1 .. Len(s) PROVE ~Titled(z, t)
    BY <1>1 DEF NoTitle
  <2>1. z[t] = s[t]
    BY <1>1, <1>3
  <2>2. CASE t = Len(s)
    BY <1>1, <1>3, <1>4, <2>1, <2>2 DEF Titled
  <2>3. CASE t # Len(s)
    <3>1. z[t + 1] = s[t + 1] /\ t \in c + 1 .. Len(s) - 1
      BY <1>1, <1>3, <2>3
    <3> QED  BY <1>0, <2>1, <3>1 DEF NoTitle, Titled
  <2> QED  BY <2>2, <2>3
<1>5. CASE e.Head = <<>>
  <2>1. c < Len(s) => s[Len(s)] # 0
    BY <1>3, <1>5 DEF Searching
  <2>2. NoTitle(z, c, Len(z))
    BY <1>4, <2>1
  <2>3. x.Head = <<b>> /\ x.searchstatus = "NULL"
    BY <1>2, <1>5 DEF TitleLeaves
  <2>4. x.Head # <<>> /\ \A h \in Byte : x.Head = <<h>> => h = b
    BY <2>3
  <2>5. c < Len(z) /\ z[Len(z)] = b
    BY <1>1, <1>3
  <2>6. Searching(z, c, x)
    BY <2>2, <2>3, <2>4, <2>5 DEF Searching
  <2> QED  BY <2>6 DEF z, x
<1>6. CASE e.Head # <<>>
  <2>1. PICK h \in Byte : e.Head = <<h>>
    BY <1>6, ScannerHas, ShortHead
  <2>2. c < Len(s) /\ s[Len(s)] = h
    BY <2>1 DEF Searching
  <2>3. CASE h = 0 /\ b = 255
    <3>1. /\ x.searchstatus = "IDENTIFIER" /\ x.framelen = 2
          /\ x.frame[0] = 0 /\ x.frame[1] = 255 /\ x.checksum = 0
      BY <1>2, <2>1, <2>3 DEF TitleLeaves
    <3> DEFINE i == Len(s)
    <3>2. i \in c + 1 .. Len(z) - 1 /\ x.framelen = Len(z) - i + 1 /\ i = Len(z) - 1
          /\ ~(i <= Len(z) - 2)
      BY <1>1, <1>3, <2>2, <3>1
    <3>3. z[i] = 0 /\ z[i + 1] = 255
      BY <1>1, <1>3, <2>2, <2>3
    <3>4. Titled(z, i)
      BY <3>3 DEF Titled
    <3>5. NoTitle(z, c, i)
      <4> SUFFICES ASSUME NEW t \in c + 1 .. Len(s) - 1 PROVE ~Titled(z, t)
        BY DEF NoTitle
      <4>1. z[t] = s[t] /\ z[t + 1] = s[t + 1]
        BY <1>1, <1>3
      <4> QED  BY <1>0, <4>1 DEF NoTitle, Titled
    <3>6. \A k \in 0 .. x.framelen - 1 : x.frame[k] = z[i + k]
      <4>1. i \in Nat
        BY <1>1
      <4> HIDE DEF i
      <4>2. i + 0 = i
        BY <4>1
      <4>3. x.frame[0] = z[i + 0] /\ x.frame[1] = z[i + 1]
        BY <3>1, <3>3, <4>2
      <4>4. \A k \in 0 .. x.framelen - 1 : k = 0 \/ k = 1
        BY <3>1
      <4> QED  BY <4>3, <4>4
    <3>7. Gathering(z, c, x, i)
      <4> HIDE DEF i
      <4> QED  BY <3>1, <3>2, <3>4, <3>5, <3>6 DEF Gathering
    <3> QED  BY <3>7 DEF z, x
  <2>4. CASE ~(h = 0 /\ b = 255)
    <3>1. x.searchstatus = "NULL" /\ x.Head = IF b = 0 THEN <<0>> ELSE <<>>
      BY <1>2, <2>1, <2>4 DEF TitleLeaves
    <3>2. NoTitle(z, c, Len(z))
      BY <1>4, <2>2, <2>4
    <3>3. c < Len(z) /\ z[Len(z)] = b
      BY <1>1, <1>3
    <3>4. (x.Head = <<>> => b # 0) /\ (\A k \in Byte : x.Head = <<k>> => k = b)
      <4>1. CASE b = 0
        <5>1. x.Head = <<0>>
          BY <3>1, <4>1
        <5> QED  BY <4>1, <5>1
      <4>2. CASE b # 0
        <5>1. x.Head = <<>>
          BY <3>1, <4>2
        <5> QED  BY <4>2, <5>1
      <4> QED  BY <4>1, <4>2
    <3>6. Searching(z, c, x)
      BY <3>1, <3>2, <3>3, <3>4 DEF Searching
    <3> QED  BY <3>6 DEF z, x
  <2> QED  BY <2>3, <2>4
<1> QED  BY <1>5, <1>6

\* The frame in the scanner's buffer.
InFrame(x) == [k \in 1 .. x.framelen |-> x.frame[k - 1]]

\* The scanner is where it should be, with the first c bytes behind it.
Follows(s, c, e) ==
    \/ Searching(s, c, e)
    \/ \E i \in c + 1 .. Len(s) - 1 : Gathering(s, c, e, i)

\* Behind a frame the search begins anew.
LEMMA SearchesAgain ==
    ASSUME NEW z \in Seq(Byte), NEW x, x.searchstatus = "NULL", x.Head = <<>>
    PROVE  Searching(z, Len(z), x)
<1>1. \A h \in Byte : x.Head # <<h>>
  OBVIOUS
<1>2. NoTitle(z, Len(z), Len(z))
  <2>1. Len(z) \in Nat
    OBVIOUS
  <2> QED  BY <2>1 DEF NoTitle
<1> QED  BY <1>1, <1>2 DEF Searching

\* What is known of a frame after one more byte of it.
Grown(z, c, x, i) ==
    /\ i \in c + 1 .. Len(z) - 2 /\ Titled(z, i) /\ NoTitle(z, c, i)
    /\ x.framelen = Len(z) - i + 1 /\ x.framelen \in Nat /\ 3 <= x.framelen
    /\ \A k \in 0 .. x.framelen - 1 : x.frame[k] = z[i + k]
    /\ x.indlen = FrameLength(z, i)
    /\ x.checksum = Checksum(z, i + 3, Len(z))
    /\ x.framelen = 3 \/ (x.framelen <= x.indlen /\ x.indlen < UNPACKBUFFSIZE - 1)

\* While it gathers, each byte is copied behind those of the frame in the stream.
LEMMA FrameGrows ==
    ASSUME NEW s \in Seq(Byte), NEW b \in Byte, NEW c \in 0 .. Len(s), NEW e \in Scanners,
           NEW i, Gathering(s, c, e, i), NEW x, NEW finished,
           IdentifierLeaves(e, b, x, finished), ShortLengths(Append(s, b))
    PROVE  Grown(Append(s, b), c, x, i)
<1> DEFINE z == Append(s, b)
           n == e.framelen + 1
<1>0. /\ i \in c + 1 .. Len(s) - 1 /\ Titled(s, i) /\ NoTitle(s, c, i)
      /\ e.framelen = Len(s) - i + 1
      /\ \A k \in 0 .. e.framelen - 1 : e.frame[k] = s[i + k]
      /\ i = Len(s) - 1 => e.checksum = 0
      /\ i <= Len(s) - 2 => /\ e.indlen = FrameLength(s, i)
                            /\ e.framelen < e.indlen /\ e.indlen < UNPACKBUFFSIZE - 1
                            /\ e.checksum = Checksum(s, i + 3, Len(s))
  BY DEF Gathering
<1>1. /\ z \in Seq(Byte) /\ Len(s) \in Nat /\ Len(z) \in Nat /\ Len(z) = Len(s) + 1
      /\ \A k \in 1 .. Len(s) : z[k] = s[k]
      /\ z[Len(s) + 1] = b /\ Prefixed(s, z)
  BY AppendByte
<1>2. /\ x.framelen = n
      /\ x.indlen = IF n = 3 THEN Signed(b) + 4 ELSE e.indlen
      /\ x.checksum = IF n >= 4 THEN ByteXor(e.checksum, b) ELSE e.checksum
      /\ x.frame = [e.frame EXCEPT ![e.framelen] = b]
  BY DEF IdentifierLeaves
<1>3. ShortLengths(z)
  OBVIOUS
<1> HIDE DEF z
<1>4. /\ c \in Nat /\ i \in Nat /\ c < i /\ i <= Len(s) - 1 /\ i <= Len(z) - 2
      /\ n = Len(z) - i + 1 /\ n \in Nat /\ 3 <= n /\ e.framelen \in Nat
  BY <1>0, <1>1
<1>5. i \in c + 1 .. Len(z) - 2 /\ i \in 1 .. Len(z) - 2
  BY <1>1, <1>4
<1>6. Titled(z, i) /\ NoTitle(z, c, i)
  <2>0. \A t \in c + 1 .. i : t \in 1 .. Len(s) /\ t + 1 \in 1 .. Len(s)
    BY <1>0, <1>4
  <2>1. \A t \in c + 1 .. i : z[t] = s[t] /\ z[t + 1] = s[t + 1]
    BY <1>1, <2>0
  <2>2. \A t \in c + 1 .. i : Titled(z, t) <=> Titled(s, t)
    BY <2>1 DEF Titled
  <2>3. i \in c + 1 .. i /\ \A t \in c + 1 .. i - 1 : t \in c + 1 .. i
    BY <1>4
  <2> QED  BY <1>0, <2>2, <2>3 DEF NoTitle
<1>7. ASSUME NEW k \in 0 .. n - 1 PROVE x.frame[k] = z[i + k]
  <2>1. e.frame \in [0 .. UNPACKBUFFSIZE - 1 -> Byte] /\ e.framelen <= UNPACKBUFFSIZE - 1
        /\ UNPACKBUFFSIZE \in Nat
    BY ScannerHas, DevScanAssumption
  <2>2. k \in 0 .. UNPACKBUFFSIZE - 1
    BY <1>4, <2>1
  <2>3. CASE k = e.framelen
    <3>1. i + k = Len(s) + 1
      BY <1>0, <1>1, <1>4, <2>3
    <3> QED  BY <1>1, <1>2, <2>1, <2>2, <2>3, <3>1
  <2>4. CASE k # e.framelen
    <3>1. k \in 0 .. e.framelen - 1 /\ i + k \in 1 .. Len(s)
      BY <1>0, <1>1, <1>4, <2>4
    <3>2. x.frame[k] = e.frame[k]
      BY <1>2, <2>1, <2>2, <2>4
    <3> QED  BY <1>0, <1>1, <3>1, <3>2
  <2> QED  BY <2>3, <2>4
<1>8. CASE n = 3
  <2>1. i = Len(s) - 1 /\ i + 2 = Len(z) /\ z[i + 2] = b
    BY <1>1, <1>4, <1>8
  <2>2. b < 128
    BY <1>3, <1>5, <1>6, <2>1 DEF ShortLengths
  <2>3. x.indlen = FrameLength(z, i)
    BY <1>2, <1>8, <2>1, <2>2 DEF Signed, FrameLength
  <2>4. x.checksum = 0
    BY <1>0, <1>2, <1>8, <2>1
  <2>5. i + 3 \in 1 .. Len(z) + 1 /\ Len(z) \in (i + 3) - 1 .. Len(z) /\ Len(z) = (i + 3) - 1
    BY <1>1, <1>4, <2>1
  <2>6. Prefixed(z, z)
    BY <1>1 DEF Prefixed
  <2>7. Checksum(z, i + 3, Len(z)) = 0
    BY <1>1, <2>5, <2>6, ChecksumGrows
  <2> QED  BY <1>2, <1>4, <1>5, <1>6, <1>7, <1>8, <2>3, <2>4, <2>7 DEF Grown, z
<1>9. CASE n # 3
  <2>1. i <= Len(s) - 2 /\ i + 2 \in 1 .. Len(s) /\ n >= 4
    BY <1>1, <1>4, <1>9
  <2>2. /\ e.indlen = FrameLength(s, i)
        /\ e.framelen < e.indlen /\ e.indlen < UNPACKBUFFSIZE - 1
        /\ e.checksum = Checksum(s, i + 3, Len(s))
    BY <1>0, <2>1
  <2>3. x.indlen = FrameLength(z, i) /\ x.indlen = e.indlen
    BY <1>1, <1>2, <1>9, <2>1, <2>2 DEF FrameLength
  <2>4. /\ i + 3 \in 1 .. Len(s) + 1 /\ Len(s) \in (i + 3) - 1 .. Len(s)
        /\ Len(s) < Len(z)
    BY <1>1, <1>4, <2>1
  <2>5. Checksum(z, i + 3, Len(s) + 1) = ByteXor(Checksum(s, i + 3, Len(s)), z[Len(s) + 1])
    BY <1>1, <2>4, ChecksumGrows
  <2>6. x.checksum = Checksum(z, i + 3, Len(z))
    BY <1>1, <1>2, <2>1, <2>2, <2>5
  <2>7. n <= x.indlen
    BY <1>4, <2>2, <2>3, ScannerHas
  <2> QED  BY <1>2, <1>4, <1>5, <1>6, <1>7, <2>2, <2>3, <2>6, <2>7 DEF Grown, z
<1> QED  BY <1>8, <1>9

\* The frame in the buffer is the one in the stream.
LEMMA FrameCopied ==
    ASSUME NEW z \in Seq(Byte), NEW i \in 1 .. Len(z), NEW x,
           x.framelen = Len(z) - i + 1, \A k \in 0 .. x.framelen - 1 : x.frame[k] = z[i + k]
    PROVE  InFrame(x) = SubSeq(z, i, Len(z))
<1>1. Len(z) \in Nat /\ i \in Nat /\ x.framelen \in Nat
  OBVIOUS
<1>2. \A k \in 1 .. x.framelen : x.frame[k - 1] = z[i + k - 1]
  <2> SUFFICES ASSUME NEW k \in 1 .. x.framelen PROVE x.frame[k - 1] = z[i + k - 1]
    OBVIOUS
  <2>1. k - 1 \in 0 .. x.framelen - 1 /\ i + (k - 1) = i + k - 1
    BY <1>1
  <2> QED  BY <2>1
<1>3. InFrame(x) = [k \in 1 .. x.framelen |-> z[i + k - 1]]
  BY <1>2 DEF InFrame
<1>4. SubSeq(z, i, Len(z)) = [k \in 1 .. Len(z) - i + 1 |-> z[i + k - 1]]
  BY <1>1
<1> QED  BY <1>3, <1>4

\* While it gathers, the scanner goes on gathering, or is done with the frame:
\* it passed over it, threw it away, or gives it.
LEMMA HearsFrame ==
    ASSUME NEW s \in Seq(Byte), NEW b \in Byte, NEW c \in 0 .. Len(s), NEW e \in Scanners,
           NEW i, Gathering(s, c, e, i), ShortLengths(Append(s, b)),
           NEW f \in Strs, Parsed(s, c, f), NEW x, NEW finished \in BOOLEAN,
           IdentifierLeaves(e, b, x, finished)
    PROVE  \E d \in 0 .. Len(Append(s, b)) :
              /\ Parsed(Append(s, b), d, IF finished THEN Append(f, InFrame(x)) ELSE f)
              /\ Follows(Append(s, b), d, x)
<1> DEFINE z == Append(s, b)
           n == x.framelen
           L == FrameLength(z, i)
<1>1. /\ i \in c + 1 .. Len(z) - 2 /\ Titled(z, i) /\ NoTitle(z, c, i)
      /\ n = Len(z) - i + 1 /\ n \in Nat /\ 3 <= n
      /\ \A k \in 0 .. n - 1 : x.frame[k] = z[i + k]
      /\ x.indlen = L
      /\ x.checksum = Checksum(z, i + 3, Len(z))
      /\ n = 3 \/ (n <= L /\ L < UNPACKBUFFSIZE - 1)
  <2>1. Grown(z, c, x, i)
    BY FrameGrows
  <2> QED  BY <2>1 DEF Grown
<1>2. z \in Seq(Byte) /\ Len(z) \in Nat /\ Prefixed(s, z) /\ Len(z) = Len(s) + 1 /\ Len(s) \in Nat
  BY AppendByte
<1>3. Parsed(z, c, f)
  BY <1>2, ParsedOnward
<1>4. /\ x.Head = <<>>
      /\ x.searchstatus = IF (n = 3 /\ L >= UNPACKBUFFSIZE - 1) \/ n >= UNPACKBUFFSIZE - 1 \/ n = L
                          THEN "NULL" ELSE "IDENTIFIER"
      /\ finished <=> /\ ~((n = 3 /\ L >= UNPACKBUFFSIZE - 1) \/ n >= UNPACKBUFFSIZE - 1)
                      /\ n = L /\ x.checksum = 0
  BY <1>1 DEF IdentifierLeaves
<1> HIDE DEF z
<1>5. /\ c \in Nat /\ i \in Nat /\ c < i /\ i <= Len(z) - 2 /\ c \in 0 .. Len(z)
      /\ Len(z) \in 0 .. Len(z) /\ i \in 1 .. Len(z) - 2 /\ UNPACKBUFFSIZE \in Nat
      /\ UNPACKBUFFSIZE > 8 /\ i \in 1 .. Len(z) /\ i \in c + 1 .. Len(z) - 1
  BY <1>1, <1>2, DevScanAssumption
<1>6. L \in Int /\ 4 <= L
  BY <1>2, <1>5, FrameIsLong
<1> HIDE DEF n, L
<1>7. CASE n = 3 /\ L >= UNPACKBUFFSIZE - 1
  <2>1. i + 2 = Len(z)
    BY <1>1, <1>2, <1>5, <1>7
  <2>2. Parsed(z, Len(z), f)
    BY <1>1, <1>2, <1>3, <1>5, <1>7, <2>1, PassesOver DEF L
  <2>3. Searching(z, Len(z), x)
    BY <1>2, <1>4, <1>7, SearchesAgain
  <2> QED  BY <1>4, <1>5, <1>7, <2>2, <2>3 DEF z, Follows
<1>8. CASE ~(n = 3 /\ L >= UNPACKBUFFSIZE - 1)
  <2>0. n <= L /\ L < UNPACKBUFFSIZE - 1 /\ ~(n >= UNPACKBUFFSIZE - 1)
    BY <1>1, <1>5, <1>6, <1>8
  <2>1. CASE n = L
    <3>1. i + L - 1 = Len(z)
      BY <1>1, <1>2, <1>5, <2>1
    <3>2. Parsed(z, Len(z), IF Checksum(z, i + 3, Len(z)) = 0
                            THEN Append(f, SubSeq(z, i, Len(z))) ELSE f)
      BY <1>1, <1>2, <1>3, <1>5, <2>0, <3>1, GoesBehind DEF L
    <3>3. InFrame(x) = SubSeq(z, i, Len(z))
      BY <1>1, <1>2, <1>5, FrameCopied DEF n
    <3>4. finished <=> Checksum(z, i + 3, Len(z)) = 0
      BY <1>1, <1>4, <1>8, <2>0, <2>1
    <3>5. Parsed(z, Len(z), IF finished THEN Append(f, InFrame(x)) ELSE f)
      BY <3>2, <3>3, <3>4
    <3>6. Searching(z, Len(z), x)
      BY <1>2, <1>4, <2>1, SearchesAgain
    <3> QED  BY <1>5, <3>5, <3>6 DEF z, Follows
  <2>2. CASE n # L
    <3>1. x.searchstatus = "IDENTIFIER" /\ ~finished
      BY <1>4, <1>8, <2>0, <2>2
    <3>2. n < L
      <4>1. n \in Int /\ L \in Int /\ n <= L
        BY <1>1, <1>6, <2>0
      <4> QED  BY <2>2, <4>1
    <3>3. ~(i = Len(z) - 1)
      BY <1>2, <1>5
    <3>4. Gathering(z, c, x, i)
      BY <1>1, <1>5, <2>0, <3>1, <3>2, <3>3 DEF Gathering, n, L
    <3> QED  BY <1>3, <1>5, <3>1, <3>4 DEF z, Follows
  <2> QED  BY <2>1, <2>2
<1> QED  BY <1>7, <1>8

----------------------------------------------------------------------------
(***************************************************************************)
(* A scanner that s went through, and that gave f away: what it keeps of s *)
(* is what the frames behind those of f begin with.                        *)
(***************************************************************************)
Sees(s, e, f) ==
    /\ s \in Seq(Byte) /\ e \in Scanners /\ f \in Strs
    /\ ShortLengths(s) => \E c \in 0 .. Len(s) : Parsed(s, c, f) /\ Follows(s, c, e)

\* What it has given away when it is done with a byte, or with several.
Gives(f, r) == IF r.finished THEN Append(f, InFrame(r.exp)) ELSE f

\* What is in the buffer are bytes.
LEMMA InFrameType ==
    ASSUME NEW e \in Scanners
    PROVE  InFrame(e) \in Seq(Byte)
<1>1. /\ e.frame \in [0 .. UNPACKBUFFSIZE - 1 -> Byte] /\ e.framelen \in Nat
      /\ e.framelen <= UNPACKBUFFSIZE - 1 /\ UNPACKBUFFSIZE \in Nat
  BY ScannerHas, DevScanAssumption
<1>2. \A k \in 1 .. e.framelen : e.frame[k - 1] \in Byte
  <2> SUFFICES ASSUME NEW k \in 1 .. e.framelen PROVE e.frame[k - 1] \in Byte
    OBVIOUS
  <2>1. k - 1 \in 0 .. UNPACKBUFFSIZE - 1
    BY <1>1
  <2> QED  BY <1>1, <2>1
<1> QED  BY <1>1, <1>2 DEF InFrame

\* A part of a stream has length bytes of the stream only.
LEMMA ShortBefore ==
    ASSUME NEW s \in Seq(Byte), NEW z \in Seq(Byte), Prefixed(s, z), ShortLengths(z)
    PROVE  ShortLengths(s)
<1> SUFFICES ASSUME NEW t \in 1 .. Len(s) - 2, Titled(s, t) PROVE s[t + 2] < 128
  BY DEF ShortLengths
<1>1. Len(s) \in Nat /\ Len(z) \in Nat /\ Len(s) <= Len(z) /\ \A k \in 1 .. Len(s) : z[k] = s[k]
  BY DEF Prefixed
<1>2. z[t] = s[t] /\ z[t + 1] = s[t + 1] /\ z[t + 2] = s[t + 2] /\ t \in 1 .. Len(z) - 2
  BY <1>1
<1>3. Titled(z, t)
  BY <1>2 DEF Titled
<1> QED  BY <1>2, <1>3 DEF ShortLengths

\* Scan does what Title or Identifier does.
LEMMA ScanIs ==
    ASSUME NEW e \in Scanners, NEW b \in Byte
    PROVE  /\ Scan(e, b).exp \in Scanners /\ Scan(e, b).finished \in BOOLEAN
           /\ e.searchstatus = "NULL" =>
                 ~Scan(e, b).finished /\ Scan(e, b).exp = Title(e, b).exp
           /\ e.searchstatus # "NULL" =>
                 /\ e.searchstatus = "IDENTIFIER"
                 /\ IdentifierLeaves(e, b, Scan(e, b).exp, Scan(e, b).finished)
<1>1. CASE e.searchstatus = "NULL"
  <2>1. Scan(e, b) = Title(e, b)
    BY <1>1 DEF Scan
  <2> QED  BY <1>1, <2>1, TitleDoes
<1>2. CASE e.searchstatus # "NULL"
  <2>1. Scan(e, b) = Identifier(e, b)
    BY <1>2 DEF Scan
  <2>2. e.searchstatus = "IDENTIFIER"
    BY <1>2, ScannerHas
  <2> QED  BY <1>2, <2>1, <2>2, IdentifierDoes
<1> QED  BY <1>1, <1>2

\* The scanner sees one byte more.
LEMMA SeesByte ==
    ASSUME NEW s, NEW e, NEW f, Sees(s, e, f), NEW b \in Byte
    PROVE  Sees(Append(s, b), Scan(e, b).exp, Gives(f, Scan(e, b)))
<1> DEFINE r == Scan(e, b)
           z == Append(s, b)
           g == Gives(f, r)
<1>1. s \in Seq(Byte) /\ e \in Scanners /\ f \in Strs
  BY DEF Sees
<1>2. z \in Seq(Byte) /\ Prefixed(s, z) /\ Len(z) = Len(s) + 1 /\ Len(s) \in Nat
  BY <1>1, AppendByte
<1>3. /\ r.exp \in Scanners /\ r.finished \in BOOLEAN
      /\ e.searchstatus = "NULL" => ~r.finished /\ r.exp = Title(e, b).exp
      /\ e.searchstatus # "NULL" => /\ e.searchstatus = "IDENTIFIER"
                                    /\ IdentifierLeaves(e, b, r.exp, r.finished)
  BY <1>1, ScanIs
<1>4. g \in Strs /\ g = IF r.finished THEN Append(f, InFrame(r.exp)) ELSE f
  <2>1. InFrame(r.exp) \in Seq(Byte) /\ <<>> \in Strs
    BY <1>3, InFrameType DEF Strs
  <2>2. Append(f, InFrame(r.exp)) \in Strs
    BY <1>1, <2>1, StrsJoin
  <2> QED  BY <1>1, <2>2 DEF Gives
<1>5. ASSUME ShortLengths(z) PROVE \E d \in 0 .. Len(z) : Parsed(z, d, g) /\ Follows(z, d, r.exp)
  <2>1. PICK c \in 0 .. Len(s) : Parsed(s, c, f) /\ Follows(s, c, e)
    BY <1>1, <1>2, <1>5, ShortBefore DEF Sees
  <2>2. CASE Searching(s, c, e)
    <3>1. e.searchstatus = "NULL"
      BY <2>2 DEF Searching
    <3>2. g = f /\ r.exp = Title(e, b).exp
      BY <1>3, <1>4, <3>1
    <3>3. Searching(z, c, r.exp) \/ Gathering(z, c, r.exp, Len(s))
      BY <1>1, <2>2, <3>2, HearsTitle
    <3>4. Gathering(z, c, r.exp, Len(s)) => Len(s) \in c + 1 .. Len(z) - 1
      BY DEF Gathering
    <3>5. Follows(z, c, r.exp)
      BY <3>3, <3>4 DEF Follows
    <3>6. Parsed(z, c, f) /\ c \in 0 .. Len(z)
      <4> HIDE DEF z
      <4>1. Parsed(z, c, f)
        BY <1>1, <1>2, <2>1, ParsedOnward
      <4>2. c \in 0 .. Len(z)
        BY <1>2
      <4> QED  BY <4>1, <4>2
    <3> QED  BY <3>2, <3>5, <3>6
  <2>3. CASE \E i \in c + 1 .. Len(s) - 1 : Gathering(s, c, e, i)
    <3>1. PICK i \in c + 1 .. Len(s) - 1 : Gathering(s, c, e, i)
      BY <2>3
    <3>2. e.searchstatus # "NULL"
      BY <3>1 DEF Gathering
    <3>3. \E d \in 0 .. Len(z) :
             /\ Parsed(z, d, IF r.finished THEN Append(f, InFrame(r.exp)) ELSE f)
             /\ Follows(z, d, r.exp)
      <4> DEFINE x == r.exp
                 finished == r.finished
      <4>1. IdentifierLeaves(e, b, x, finished) /\ finished \in BOOLEAN
        BY <1>3, <3>2
      <4> HIDE DEF x, finished
      <4>2. \E d \in 0 .. Len(z) :
               /\ Parsed(z, d, IF finished THEN Append(f, InFrame(x)) ELSE f)
               /\ Follows(z, d, x)
        BY <1>1, <1>5, <2>1, <3>1, <4>1, HearsFrame
      <4> QED  BY <4>2 DEF x, finished
    <3> QED  BY <1>4, <3>3
  <2> QED  BY <2>1, <2>2, <2>3 DEF Follows
<1>6. Sees(z, r.exp, g)
  BY <1>2, <1>3, <1>4, <1>5 DEF Sees
<1> QED  BY <1>6

\* Before the first byte.
LEMMA SeesNothing == Sees(<<>>, dev_exp_new, <<>>)
<1> DEFINE e == dev_exp_new
<1>1. e \in Scanners /\ e.searchstatus = "NULL" /\ e.Head = <<>>
  <2>1. 0 \in Byte /\ 0 \in 0 .. UNPACKBUFFSIZE - 1 /\ Len(<<>>) < 2 /\ <<>> \in Seq(Byte)
        /\ [i \in 0 .. UNPACKBUFFSIZE - 1 |-> 0] \in [0 .. UNPACKBUFFSIZE - 1 -> Byte]
    <3>1. 0 \in Byte
      BY DEF Byte
    <3> QED  BY <3>1, DevScanAssumption
  <2> QED  BY <2>1 DEF dev_exp_new, Scanners, ScannerFields, HEADLEN
<1>2. <<>> \in Seq(Byte) /\ Len(<<>>) = 0 /\ <<>> \in Strs /\ 0 \in 0 .. Len(<<>>)
  BY DEF Strs
<1> HIDE DEF e
<1>3. Parsed(<<>>, 0, <<>>)
  <2> SUFFICES ASSUME NEW z \in Seq(Byte) PROVE Frames(z) = <<>> \o LastFrames(z)[Len(z) - 0]
    BY DEF Parsed
  <2>1. Len(z) - 0 = Len(z) /\ 0 \in 0 .. Len(z)
    OBVIOUS
  <2>2. LastFrames(z)[Len(z)] \in Strs
    BY <2>1, LastFramesDef
  <2>3. <<>> \o LastFrames(z)[Len(z)] = LastFrames(z)[Len(z)]
    BY <2>2 DEF Strs
  <2> QED  BY <2>1, <2>3 DEF Frames
<1>4. Follows(<<>>, 0, e)
  BY <1>1, <1>2, SearchesAgain DEF Follows
<1>5. Sees(<<>>, e, <<>>)
  BY <1>1, <1>2, <1>3, <1>4 DEF Sees
<1> QED  BY <1>5 DEF e

\* It has found all frames that are there.
LEMMA SeesAll ==
    ASSUME NEW s, NEW e, NEW f, Sees(s, e, f), ShortLengths(s)
    PROVE  Frames(s) = f
<1>1. s \in Seq(Byte) /\ e \in Scanners /\ f \in Strs
  BY DEF Sees
<1>2. PICK c \in 0 .. Len(s) : Parsed(s, c, f) /\ Follows(s, c, e)
  BY DEF Sees
<1>3. Prefixed(s, s) /\ Len(s) \in Nat /\ c \in Nat /\ c <= Len(s)
  BY <1>1 DEF Prefixed
<1>4. Frames(s) = f \o LastFrames(s)[Len(s) - c]
  BY <1>1, <1>2, <1>3 DEF Parsed
<1>5. LastFrames(s)[Len(s) - c] = <<>>
  <2>1. CASE c = Len(s)
    <3>1. Len(s) - c = 0
      BY <1>3, <2>1
    <3> QED  BY <1>1, <3>1, LastFramesDef
  <2>2. CASE c # Len(s)
    <3>1. LastFrames(s)[Len(s) - c] = FramesBehind(s, LastFrames(s), c)
      <4>1. c < Len(s)
        BY <1>3, <2>2
      <4> QED  BY <1>1, <4>1, LastFramesDef
    <3>2. ASSUME NoTitle(s, c, Len(s) - 1) PROVE FramesBehind(s, LastFrames(s), c) = <<>>
      <4>1. Start(s, c + 1) = Len(s)
        BY <1>1, <3>2, StartIs
      <4>2. Len(s) + 2 > Len(s)
        BY <1>3
      <4> QED  BY <4>1, <4>2 DEF FramesBehind
    <3>3. CASE Searching(s, c, e)
      <4>1. NoTitle(s, c, Len(s))
        BY <3>3 DEF Searching
      <4>2. NoTitle(s, c, Len(s) - 1)
        BY <1>3, <4>1 DEF NoTitle
      <4> QED  BY <3>1, <3>2, <4>2
    <3>4. CASE \E i \in c + 1 .. Len(s) - 1 : Gathering(s, c, e, i)
      <4>1. PICK i \in c + 1 .. Len(s) - 1 : Gathering(s, c, e, i)
        BY <3>4
      <4>2. /\ Titled(s, i) /\ NoTitle(s, c, i) /\ e.framelen = Len(s) - i + 1
            /\ i <= Len(s) - 2 => /\ e.indlen = FrameLength(s, i)
                                  /\ e.framelen < e.indlen /\ e.indlen < UNPACKBUFFSIZE - 1
        BY <4>1 DEF Gathering
      <4>3. CASE i = Len(s) - 1
        BY <3>1, <3>2, <4>2, <4>3
      <4>4. CASE i # Len(s) - 1
        <5>1. i \in c + 1 .. Len(s) - 2 /\ i <= Len(s) - 2 /\ i \in 1 .. Len(s) - 2
          BY <1>3, <4>4
        <5>2. Start(s, c + 1) = i
          BY <1>1, <4>2, <5>1, StartIs
        <5> DEFINE n == FrameLength(s, i)
        <5>3. n \in Int
          BY <1>1, <5>1, FrameIsLong
        <5>4. Len(s) - i + 1 < n /\ n < UNPACKBUFFSIZE - 1
          BY <4>2, <5>1
        <5> HIDE DEF n
        <5>5. i + n - 1 > Len(s) /\ ~(n >= UNPACKBUFFSIZE - 1) /\ ~(i + 2 > Len(s))
          BY <1>3, <5>1, <5>3, <5>4, DevScanAssumption
        <5> QED  BY <3>1, <5>2, <5>5 DEF FramesBehind, n
      <4> QED  BY <4>3, <4>4
    <3> QED  BY <1>2, <3>3, <3>4 DEF Follows
  <2> QED  BY <2>1, <2>2
<1> QED  BY <1>1, <1>4, <1>5, StrsJoin

----------------------------------------------------------------------------
\* What a search comes to.
Searches == [exp : Scanners, finished : BOOLEAN, searchpos : Nat]

\* A search of p by the scanner e came to r.
Searched(e, p, r) ==
    /\ r \in Searches /\ r.searchpos <= Len(p) /\ (p # <<>> => 1 <= r.searchpos)
    /\ \A s, f : Sees(s, e, f) => Sees(s \o SubSeq(p, 1, r.searchpos), r.exp, Gives(f, r))

\* The first i bytes are the first i - 1 and the i-th.
LEMMA OneMore ==
    ASSUME NEW s \in Seq(Byte), NEW p \in Seq(Byte), NEW i \in 1 .. Len(p)
    PROVE  /\ Append(s \o SubSeq(p, 1, i - 1), p[i]) = s \o SubSeq(p, 1, i)
           /\ p[i] \in Byte
<1> DEFINE S == Byte
<1>1. s \in Seq(S) /\ p \in Seq(S)
  OBVIOUS
<1> HIDE DEF S
<1>2. p[i] \in S /\ Append(s \o SubSeq(p, 1, i - 1), p[i]) = s \o SubSeq(p, 1, i)
  BY <1>1
<1> QED  BY <1>2 DEF S

\* No bytes change nothing.
LEMMA NoBytes ==
    ASSUME NEW s \in Seq(Byte), NEW p \in Seq(Byte)
    PROVE  s \o SubSeq(p, 1, 0) = s /\ s \o <<>> = s
<1> DEFINE S == Byte
<1>1. s \in Seq(S) /\ p \in Seq(S)
  OBVIOUS
<1> HIDE DEF S
<1>2. SubSeq(p, 1, 0) = <<>>
  BY <1>1
<1> QED  BY <1>1, <1>2

\* A search of a chunk: the bytes it went through are seen, and some of a chunk
\* that is not empty.
LEMMA SearchFrame ==
    ASSUME NEW e \in Scanners, NEW p \in Seq(Byte)
    PROVE  Searched(e, p, search_frame(e, p))
<1> DEFINE Start0 == [exp |-> e, finished |-> FALSE, searchpos |-> 0]
           More(v, i) == IF v.finished THEN v
                         ELSE [exp |-> Scan(v.exp, p[i]).exp,
                               finished |-> Scan(v.exp, p[i]).finished, searchpos |-> i]
           upto[i \in 0 .. Len(p)] ==
              IF i = 0 THEN [exp |-> e, finished |-> FALSE, searchpos |-> 0]
              ELSE IF upto[i - 1].finished THEN upto[i - 1]
              ELSE LET s == Scan(upto[i - 1].exp, p[i])
                   IN  [exp |-> s.exp, finished |-> s.finished, searchpos |-> i]
           D == [i \in 0 .. Len(p) |-> [v \in Searches |-> IF i = 0 THEN Start0 ELSE More(v, i)]]
<1>0. Len(p) \in Nat /\ Len(p) \in Int /\ 0 \in Int /\ \A i \in 1 .. Len(p) : p[i] \in Byte
  OBVIOUS
<1>1. Start0 \in Searches /\ Start0.exp = e /\ ~Start0.finished /\ Start0.searchpos = 0
  BY DEF Searches
<1>2. ASSUME NEW v \in Searches, NEW i \in 1 .. Len(p)
      PROVE  /\ More(v, i) \in Searches
             /\ v.finished => More(v, i) = v
             /\ ~v.finished => /\ More(v, i).exp = Scan(v.exp, p[i]).exp
                               /\ More(v, i).finished = Scan(v.exp, p[i]).finished
                               /\ More(v, i).searchpos = i
  <2>1. v.exp \in Scanners /\ p[i] \in Byte /\ i \in Nat
    BY <1>0 DEF Searches
  <2>2. Scan(v.exp, p[i]).exp \in Scanners /\ Scan(v.exp, p[i]).finished \in BOOLEAN
    BY <2>1, ScanIs
  <2> QED  BY <2>1, <2>2 DEF Searches
<1>3. D \in [0 .. Len(p) -> [Searches -> Searches]]
  <2>1. \A i \in 0 .. Len(p), v \in Searches : (IF i = 0 THEN Start0 ELSE More(v, i)) \in Searches
    <3> SUFFICES ASSUME NEW i \in 0 .. Len(p), NEW v \in Searches
                 PROVE  (IF i = 0 THEN Start0 ELSE More(v, i)) \in Searches
      OBVIOUS
    <3> HIDE DEF More, Start0
    <3>1. i = 0 \/ i \in 1 .. Len(p)
      BY <1>0
    <3> QED  BY <1>1, <1>2, <3>1
  <2> HIDE DEF More, Start0
  <2> QED  BY <2>1
<1>4. \A i \in 0 .. Len(p), v \in Searches : D[i][v] = IF i = 0 THEN Start0 ELSE More(v, i)
  <2> HIDE DEF More, Start0
  <2> QED  OBVIOUS
<1> HIDE DEF D
<1>5. PICK f \in [0 .. Len(p) -> Searches] : Steps(f, D, Start0, 0, Len(p))
  BY <1>0, <1>1, <1>3, StepByStep
<1>6. f = [i \in 0 .. Len(p) |-> IF i = 0 THEN Start0 ELSE More(f[i - 1], i)]
  <2> HIDE DEF More, Start0
  <2>1. \A i \in 0 .. Len(p) : i # 0 => i - 1 \in 0 .. Len(p)
    BY <1>0
  <2>2. \A i \in 0 .. Len(p) : i # 0 => D[i][f[i - 1]] = More(f[i - 1], i)
    BY <1>4, <2>1
  <2> QED  BY <1>5, <2>2 DEF Steps
<1>7. upto = [i \in 0 .. Len(p) |-> IF i = 0 THEN Start0 ELSE More(upto[i - 1], i)]
  <2> DEFINE Eq(g) == g = [i \in 0 .. Len(p) |-> IF i = 0 THEN Start0 ELSE More(g[i - 1], i)]
  <2>1. upto = CHOOSE g : Eq(g)
    BY DEF upto
  <2>2. Eq(f)
    BY <1>6
  <2> HIDE DEF Eq
  <2>3. Eq(upto)
    BY <2>1, <2>2
  <2> QED  BY <2>3 DEF Eq
<1>8. search_frame(e, p) = upto[Len(p)]
  BY DEF search_frame
<1> HIDE DEF upto, More, Start0
<1> DEFINE Inv(i) ==
       /\ upto[i] \in Searches /\ upto[i].searchpos <= i /\ (1 <= i => 1 <= upto[i].searchpos)
       /\ upto[i].finished => 1 <= upto[i].searchpos
       /\ ~upto[i].finished => upto[i].searchpos = i
       /\ \A s, g : Sees(s, e, g) => Sees(s \o SubSeq(p, 1, upto[i].searchpos), upto[i].exp, Gives(g, upto[i]))
<1>9. Inv(0)
  <2>1. upto[0] = Start0
    BY <1>0, <1>7
  <2>2. ASSUME NEW s, NEW g, Sees(s, e, g) PROVE Sees(s \o SubSeq(p, 1, 0), e, g)
    BY <2>2, NoBytes DEF Sees
  <2> QED  BY <1>1, <2>1, <2>2 DEF Gives
<1>10. ASSUME NEW i \in Int, 0 <= i, i + 1 <= Len(p), Inv(i) PROVE Inv(i + 1)
  <2>1. i + 1 \in 1 .. Len(p) /\ i + 1 \in 0 .. Len(p) /\ i + 1 # 0 /\ (i + 1) - 1 = i
    <3> HIDE DEF Inv
    <3> QED  BY <1>0, <1>10
  <2> DEFINE v == upto[i]
             w == upto[i + 1]
             b == p[i + 1]
  <2>2. w = More(v, i + 1)
    BY <1>7, <2>1
  <2>3. /\ w \in Searches /\ v \in Searches /\ v.exp \in Scanners
        /\ v.finished => w = v
        /\ ~v.finished => /\ w.exp = Scan(v.exp, b).exp
                          /\ w.finished = Scan(v.exp, b).finished
                          /\ w.searchpos = i + 1
    <3>1. v \in Searches
      BY <1>10
    <3>2. v.exp \in Scanners
      BY <3>1 DEF Searches
    <3> QED  BY <1>2, <2>1, <2>2, <3>1, <3>2
  <2>4. CASE v.finished
    <3>1. v.searchpos \in Nat
      BY <2>3 DEF Searches
    <3> QED  BY <1>10, <2>1, <2>3, <2>4, <3>1
  <2>5. CASE ~v.finished
    <3>1. v.searchpos = i
      BY <1>10, <2>5
    <3>2. ASSUME NEW s, NEW g, Sees(s, e, g)
          PROVE  Sees(s \o SubSeq(p, 1, w.searchpos), w.exp, Gives(g, w))
      <4>1. Gives(g, v) = g /\ Gives(g, w) = Gives(g, Scan(v.exp, b))
        BY <2>3, <2>5 DEF Gives
      <4>2. Sees(s \o SubSeq(p, 1, i), v.exp, g)
        BY <1>10, <3>1, <3>2, <4>1
      <4>3. b \in Byte /\ Append(s \o SubSeq(p, 1, i), b) = s \o SubSeq(p, 1, i + 1)
        <5>1. s \in Seq(Byte)
          BY <3>2 DEF Sees
        <5> QED  BY <2>1, <5>1, OneMore
      <4> HIDE DEF v, w, b
      <4>4. Sees(Append(s \o SubSeq(p, 1, i), b), Scan(v.exp, b).exp, Gives(g, Scan(v.exp, b)))
        BY <4>2, <4>3, SeesByte
      <4> QED  BY <2>3, <2>5, <4>1, <4>3, <4>4
    <3> QED  BY <1>10, <2>1, <2>3, <2>5, <3>2
  <2> QED  BY <2>4, <2>5
<1>11. Inv(Len(p))
  <2> DEFINE T == {i \in Int : i <= Len(p) => Inv(i)}
  <2> HIDE DEF Inv
  <2>1. 0 \in T
    BY <1>9
  <2>2. ASSUME NEW i \in Int, 0 <= i, i \in T PROVE i + 1 \in T
    <3>1. SUFFICES ASSUME i + 1 <= Len(p) PROVE Inv(i + 1)
      OBVIOUS
    <3>2. Inv(i)
      BY <1>0, <2>2, <3>1
    <3> QED  BY <1>10, <2>2, <3>1, <3>2
  <2>3. \A i \in Int : 0 <= i => i \in T
    <3> HIDE DEF T
    <3> QED  BY <2>1, <2>2, Induction
  <2> QED  BY <1>0, <2>3
<1>12. p # <<>> => 1 <= Len(p)
  BY <1>0
<1> QED  BY <1>8, <1>11, <1>12 DEF Searched

----------------------------------------------------------------------------
\* What the callback is given.
Msgs == [frame : Seq(Byte), card : Seq(Byte)]

\* The frames of the messages.
FramesOf(m) == [i \in 1 .. Len(m) |-> m[i].frame]

\* The frames of messages that are appended.
LEMMA FramesGrow ==
    ASSUME NEW m \in Seq(Msgs), NEW x \in Msgs, NEW n \in Seq(Msgs)
    PROVE  /\ FramesOf(m) \in Strs
           /\ FramesOf(Append(m, x)) = Append(FramesOf(m), x.frame)
           /\ FramesOf(m \o n) = FramesOf(m) \o FramesOf(n)
           /\ FramesOf(<<>>) = <<>>
<1> DEFINE S == Seq(Byte)
           C == S
<1>1. Strs = Seq(S) /\ m \in Seq([frame : S, card : C]) /\ n \in Seq([frame : S, card : C])
      /\ x \in [frame : S, card : C]
  BY DEF Strs, Msgs
<1> HIDE DEF S, C
<1>2. FramesOf(m) \in Seq(S) /\ FramesOf(n) \in Seq(S) /\ x.frame \in S
      /\ Len(FramesOf(m)) = Len(m) /\ Len(FramesOf(n)) = Len(n)
  <2>1. ASSUME NEW q \in Seq([frame : S, card : C])
        PROVE  FramesOf(q) \in Seq(S) /\ Len(FramesOf(q)) = Len(q)
    <3>1. Len(q) \in Nat /\ \A i \in 1 .. Len(q) : q[i] \in [frame : S, card : C]
      <4> DEFINE M == [frame : S, card : C]
      <4>1. q \in Seq(M)
        OBVIOUS
      <4> HIDE DEF M
      <4>2. Len(q) \in Nat /\ \A i \in 1 .. Len(q) : q[i] \in M
        BY <4>1
      <4> QED  BY <4>2 DEF M
    <3>2. \A i \in 1 .. Len(q) : q[i].frame \in S
      BY <3>1
    <3> QED  BY <3>1, <3>2 DEF FramesOf
  <2>2. x.frame \in S
    BY <1>1
  <2> QED  BY <1>1, <2>1, <2>2
<1>3. FramesOf(Append(m, x)) = Append(FramesOf(m), x.frame)
  BY <1>1, <1>2 DEF FramesOf
<1>4. FramesOf(m \o n) = FramesOf(m) \o FramesOf(n)
  BY <1>1, <1>2 DEF FramesOf
<1>5. FramesOf(<<>>) = <<>>
  BY DEF FramesOf
<1> QED  BY <1>1, <1>2, <1>3, <1>4, <1>5

\* A message holds the frame in the buffer.
LEMMA MessageIs ==
    ASSUME NEW e \in Scanners
    PROVE  Message(e) \in Msgs /\ Message(e).frame = InFrame(e)
<1>1. InFrame(e) \in Seq(Byte)
  BY InFrameType
<1>2. e.frame[5] \in Byte /\ e.frame[6] \in Byte /\ e.frame[7] \in Byte
  BY ScannerHas, DevScanAssumption
<1>3. <<e.frame[5], e.frame[6], e.frame[7]>> \in Seq(Byte)
  BY <1>2
<1>4. Message(e) = [frame |-> InFrame(e), card |-> <<e.frame[5], e.frame[6], e.frame[7]>>]
  BY DEF Message, InFrame
<1> QED  BY <1>1, <1>3, <1>4 DEF Msgs

----------------------------------------------------------------------------
\* A chunk of bytes went through the scanner.
Took(e, data, r) ==
    /\ r.exp \in Scanners /\ r.msgs \in Seq(Msgs)
    /\ \A s, f : Sees(s, e, f) => Sees(s \o data, r.exp, f \o FramesOf(r.msgs))

\* After some searches of it: str is left of it.
Takings == [exp : Scanners, str : Seq(Byte), msgs : Seq(Msgs)]

TookSome(e, data, a) ==
    /\ a \in Takings
    /\ \E u \in Seq(Byte) :
          /\ u \o a.str = data
          /\ \A s, f : Sees(s, e, f) => Sees(s \o u, a.exp, f \o FramesOf(a.msgs))

\* What a search leaves.
SearchOf(a) ==
    LET s == search_frame(a.exp, a.str)
    IN  IF a.str = <<>> THEN a
        ELSE [exp  |-> s.exp, str |-> SubSeq(a.str, s.searchpos + 1, Len(a.str)),
              msgs |-> IF s.finished THEN Append(a.msgs, Message(s.exp)) ELSE a.msgs]

\* Appended behind two strings, appended to the second one.
LEMMA AppendBehind ==
    ASSUME NEW f \in Strs, NEW g \in Strs, NEW q \in Seq(Byte)
    PROVE  Append(f \o g, q) = f \o Append(g, q)
<1> DEFINE S == Seq(Byte)
<1>1. f \in Seq(S) /\ g \in Seq(S) /\ q \in S
  BY DEF Strs
<1> HIDE DEF S
<1> QED  BY <1>1

\* Strings in front of strings.
LEMMA JoinBytes ==
    \A a, b, c \in Seq(Byte) : (a \o b) \o c = a \o (b \o c) /\ a \o b \in Seq(Byte)
<1> SUFFICES ASSUME NEW a \in Seq(Byte), NEW b \in Seq(Byte), NEW c \in Seq(Byte)
             PROVE  (a \o b) \o c = a \o (b \o c) /\ a \o b \in Seq(Byte)
  OBVIOUS
<1>1. a \in Seq(Byte) /\ b \in Seq(Byte) /\ c \in Seq(Byte)
  OBVIOUS
<1> HIDE DEF Byte
<1>2. a \o b \in Seq(Byte)
  BY <1>1
<1> QED  BY <1>1, <1>2, ConcatAssociative

\* The first n bytes of a string, and the others.
FirstOf(p, n) == SubSeq(p, 1, n)
Others(p, n)  == SubSeq(p, n + 1, Len(p))

\* A string is cut in two.
LEMMA CutInTwo ==
    ASSUME NEW p \in Seq(Byte), NEW n \in Nat, n <= Len(p)
    PROVE  /\ FirstOf(p, n) \in Seq(Byte) /\ Others(p, n) \in Seq(Byte)
           /\ Len(Others(p, n)) = Len(p) - n
           /\ FirstOf(p, n) \o Others(p, n) = p
<1> DEFINE S == Byte
<1>1. p \in Seq(S)
  OBVIOUS
<1> HIDE DEF S
<1>2. FirstOf(p, n) \in Seq(S) /\ Others(p, n) \in Seq(S) /\ Len(Others(p, n)) = Len(p) - n
  BY <1>1 DEF FirstOf, Others
<1>3. FirstOf(p, n) \o Others(p, n) = p
  <2>1. 1 \in 1 .. Len(p) + 1 /\ n \in 1 - 1 .. Len(p) /\ Len(p) \in n .. Len(p)
    BY <1>1
  <2>2. SubSeq(p, 1, n) \o SubSeq(p, n + 1, Len(p)) = SubSeq(p, 1, Len(p))
    BY <1>1, <2>1, ConcatAdjacentSubSeq
  <2> QED  BY <1>1, <2>2, SubSeqFull DEF FirstOf, Others
<1> QED  BY <1>2, <1>3 DEF S

\* A search takes some of what is left of a chunk.
LEMMA SearchTakes ==
    ASSUME NEW e, NEW data, NEW a, TookSome(e, data, a)
    PROVE  /\ TookSome(e, data, SearchOf(a))
           /\ a.str # <<>> => Len(SearchOf(a).str) < Len(a.str)
<1>1. a \in Takings /\ a.exp \in Scanners /\ a.str \in Seq(Byte) /\ a.msgs \in Seq(Msgs)
  BY DEF TookSome, Takings
<1>2. CASE a.str = <<>>
  <2>1. SearchOf(a) = a
    BY <1>2 DEF SearchOf
  <2> QED  BY <1>2, <2>1
<1>3. CASE a.str # <<>>
  <2> DEFINE r == search_frame(a.exp, a.str)
             p == a.str
             n == r.searchpos
             m == IF r.finished THEN Append(a.msgs, Message(r.exp)) ELSE a.msgs
             c == SearchOf(a)
  <2>1. Searched(a.exp, a.str, r)
    BY <1>1, SearchFrame
  <2>2. c = [exp |-> r.exp, str |-> Others(p, n), msgs |-> m]
    BY <1>3 DEF SearchOf, Others
  <2> HIDE DEF r
  <2>3. /\ r.exp \in Scanners /\ n \in Nat /\ n <= Len(p) /\ 1 <= n /\ p \in Seq(Byte)
        /\ Len(p) \in Nat
        /\ \A s, f : Sees(s, a.exp, f) => Sees(s \o FirstOf(p, n), r.exp, Gives(f, r))
    BY <1>1, <1>3, <2>1 DEF Searched, Searches, FirstOf
  <2>4. Message(r.exp) \in Msgs /\ Message(r.exp).frame = InFrame(r.exp)
    BY <2>3, MessageIs
  <2>5. m \in Seq(Msgs)
    BY <1>1, <2>4
  <2>6. ASSUME NEW f \in Strs
        PROVE  Gives(f \o FramesOf(a.msgs), r) = f \o FramesOf(m)
    <3> DEFINE g == FramesOf(a.msgs)
    <3>1. g \in Strs
      BY <1>1, <2>4, FramesGrow
    <3>2. CASE r.finished
      <4>1. FramesOf(m) = Append(g, InFrame(r.exp))
        BY <1>1, <2>4, <3>2, FramesGrow
      <4>2. Gives(f \o g, r) = Append(f \o g, InFrame(r.exp))
        BY <3>2 DEF Gives
      <4>3. InFrame(r.exp) \in Seq(Byte)
        BY <2>3, InFrameType
      <4> HIDE DEF g
      <4>4. Append(f \o g, InFrame(r.exp)) = f \o Append(g, InFrame(r.exp))
        BY <3>1, <4>3, AppendBehind
      <4> QED  BY <4>1, <4>2, <4>4 DEF g
    <3>3. CASE ~r.finished
      BY <3>3 DEF Gives
    <3> QED  BY <3>2, <3>3
  <2>7. PICK u \in Seq(Byte) :
           /\ u \o p = data
           /\ \A s, f : Sees(s, e, f) => Sees(s \o u, a.exp, f \o FramesOf(a.msgs))
    BY DEF TookSome
  <2> HIDE DEF p, n, m, c
  <2>0. u \in Seq(Byte) /\ p \in Seq(Byte) /\ n \in Nat /\ n <= Len(p)
    BY <2>3
  <2>01. /\ FirstOf(p, n) \in Seq(Byte) /\ Others(p, n) \in Seq(Byte)
         /\ Len(Others(p, n)) = Len(p) - n /\ FirstOf(p, n) \o Others(p, n) = p
    BY <2>0, CutInTwo
  <2> DEFINE w == u \o FirstOf(p, n)
  <2>8. w \in Seq(Byte) /\ w \o Others(p, n) = data
    <3>1. u \o FirstOf(p, n) \in Seq(Byte)
          /\ (u \o FirstOf(p, n)) \o Others(p, n) = u \o (FirstOf(p, n) \o Others(p, n))
      BY <2>0, <2>01, JoinBytes
    <3> QED  BY <2>7, <2>01, <3>1
  <2>9. ASSUME NEW s, NEW f, Sees(s, e, f) PROVE Sees(s \o w, r.exp, f \o FramesOf(m))
    <3>1. s \in Seq(Byte) /\ f \in Strs
      BY <2>9 DEF Sees
    <3>2. Sees(s \o u, a.exp, f \o FramesOf(a.msgs))
      BY <2>7, <2>9
    <3>3. Sees((s \o u) \o FirstOf(p, n), r.exp, Gives(f \o FramesOf(a.msgs), r))
      BY <2>3, <3>2
    <3>4. (s \o u) \o FirstOf(p, n) = s \o w
      <4>1. s \in Seq(Byte) /\ u \in Seq(Byte) /\ FirstOf(p, n) \in Seq(Byte)
        BY <2>01, <3>1
      <4>2. (s \o u) \o FirstOf(p, n) = s \o (u \o FirstOf(p, n))
        BY <4>1, JoinBytes
      <4> QED  BY <4>2
    <3> QED  BY <2>6, <3>1, <3>3, <3>4
  <2> HIDE DEF w
  <2>10. c \in Takings /\ c.exp = r.exp /\ c.str = Others(p, n) /\ c.msgs = m
    BY <2>2, <2>3, <2>5, <2>01 DEF Takings
  <2>11. TookSome(e, data, c)
    BY <2>8, <2>9, <2>10 DEF TookSome
  <2>12. Len(c.str) < Len(p)
    BY <2>3, <2>01, <2>10
  <2> QED  BY <2>11, <2>12 DEF c, p
<1> QED  BY <1>2, <1>3

\* What is left of a chunk after a search of it, whatever was before.
LEMMA SearchType ==
    ASSUME NEW a \in Takings
    PROVE  SearchOf(a) \in Takings
<1>1. a.exp \in Scanners /\ a.str \in Seq(Byte) /\ a.msgs \in Seq(Msgs)
  BY DEF Takings
<1>2. CASE a.str = <<>>
  BY <1>2 DEF SearchOf
<1>3. CASE a.str # <<>>
  <2> DEFINE r == search_frame(a.exp, a.str)
             p == a.str
             n == r.searchpos
             m == IF r.finished THEN Append(a.msgs, Message(r.exp)) ELSE a.msgs
  <2>1. Searched(a.exp, a.str, r)
    BY <1>1, SearchFrame
  <2>2. SearchOf(a) = [exp |-> r.exp, str |-> Others(p, n), msgs |-> m]
    BY <1>3 DEF SearchOf, Others
  <2> HIDE DEF r
  <2>3. r.exp \in Scanners /\ n \in Nat /\ n <= Len(p) /\ p \in Seq(Byte)
    BY <1>1, <2>1 DEF Searched, Searches
  <2>4. m \in Seq(Msgs)
    BY <1>1, <2>3, MessageIs
  <2> HIDE DEF p, n, m
  <2>5. Others(p, n) \in Seq(Byte)
    BY <2>3, CutInTwo
  <2> QED  BY <2>2, <2>3, <2>4, <2>5 DEF Takings
<1> QED  BY <1>2, <1>3

\* exp_process_data goes through the whole chunk: what is seen after it is what
\* was seen before and the chunk, and its messages are the frames that end in it.
LEMMA ProcessData ==
    ASSUME NEW e \in Scanners, NEW data \in Seq(Byte)
    PROVE  Took(e, data, exp_process_data(e, data))
<1> DEFINE N == Len(data)
           first == [exp |-> e, str |-> data, msgs |-> <<>>]
           after[n \in 0 .. Len(data)] ==
              IF n = 0 THEN [exp |-> e, str |-> data, msgs |-> <<>>]
              ELSE LET a == after[n - 1]
                       s == search_frame(a.exp, a.str)
                   IN  IF a.str = <<>> THEN a
                       ELSE [exp  |-> s.exp,
                             str  |-> SubSeq(a.str, s.searchpos + 1, Len(a.str)),
                             msgs |-> IF s.finished THEN Append(a.msgs, Message(s.exp))
                                      ELSE a.msgs]
           D == [n \in 0 .. N |-> [a \in Takings |-> SearchOf(a)]]
<1>0. N \in Nat /\ N \in Int /\ 0 \in Int
  OBVIOUS
<1>1. first \in Takings /\ first.exp = e /\ first.str = data /\ first.msgs = <<>>
  BY DEF Takings
<1>2. D \in [0 .. N -> [Takings -> Takings]]
  BY SearchType
<1>3. \A n \in 0 .. N, a \in Takings : D[n][a] = SearchOf(a)
  OBVIOUS
<1> HIDE DEF D, first
<1>4. PICK f \in [0 .. N -> Takings] : Steps(f, D, first, 0, N)
  BY <1>0, <1>1, <1>2, StepByStep
<1>5. f = [n \in 0 .. N |-> IF n = 0 THEN first ELSE SearchOf(f[n - 1])]
  <2>1. \A n \in 0 .. N : n # 0 => n - 1 \in 0 .. N
    BY <1>0
  <2>2. \A n \in 0 .. N : n # 0 => D[n][f[n - 1]] = SearchOf(f[n - 1])
    BY <1>3, <2>1
  <2> QED  BY <1>4, <2>2 DEF Steps
<1>6. after = [n \in 0 .. N |-> IF n = 0 THEN first ELSE SearchOf(after[n - 1])]
  <2> DEFINE Eq(g) == g = [n \in 0 .. N |-> IF n = 0 THEN first ELSE SearchOf(g[n - 1])]
  <2>1. after = CHOOSE g : Eq(g)
    BY DEF after, first, SearchOf
  <2>2. Eq(f)
    BY <1>5
  <2> HIDE DEF Eq
  <2>3. Eq(after)
    BY <2>1, <2>2
  <2> QED  BY <2>3 DEF Eq
<1>7. exp_process_data(e, data) = [exp |-> after[N].exp, msgs |-> after[N].msgs]
  BY DEF exp_process_data
<1> HIDE DEF after
<1> DEFINE Inv(n) == TookSome(e, data, after[n]) /\ Len(after[n].str) <= N - n
<1>8. Inv(0)
  <2>1. after[0] = first
    BY <1>0, <1>6
  <2>2. <<>> \o data = data /\ <<>> \in Seq(Byte) /\ Len(data) <= N - 0
    OBVIOUS
  <2>3. ASSUME NEW s, NEW g, Sees(s, e, g) PROVE Sees(s \o <<>>, e, g \o FramesOf(<<>>))
    <3>1. s \o <<>> = s /\ g \o <<>> = g
      BY <2>3, NoBytes, StrsJoin DEF Sees
    <3>2. FramesOf(<<>>) = <<>>
      BY DEF FramesOf
    <3> QED  BY <2>3, <3>1, <3>2
  <2>4. TookSome(e, data, first)
    BY <1>1, <2>2, <2>3 DEF TookSome
  <2> QED  BY <1>1, <2>1, <2>2, <2>4
<1>9. ASSUME NEW n \in Int, 0 <= n, n + 1 <= N, Inv(n) PROVE Inv(n + 1)
  <2> DEFINE a == after[n]
             c == after[n + 1]
  <2>1. c = SearchOf(a)
    <3> HIDE DEF Inv
    <3>1. n + 1 \in 0 .. N /\ n + 1 # 0 /\ (n + 1) - 1 = n
      BY <1>0, <1>9
    <3> QED  BY <1>6, <3>1
  <2>2. TookSome(e, data, a) /\ Len(a.str) <= N - n
    BY <1>9
  <2> HIDE DEF a, c
  <2>3. TookSome(e, data, c) /\ (a.str # <<>> => Len(c.str) < Len(a.str))
    BY <2>1, <2>2, SearchTakes
  <2>4. Len(c.str) <= N - (n + 1)
    <3>1. Len(c.str) \in Nat /\ Len(a.str) \in Nat
      BY <2>2, <2>3 DEF TookSome, Takings
    <3>2. CASE a.str = <<>>
      <4>1. c.str = <<>>
        BY <2>1, <3>2 DEF SearchOf
      <4>2. Len(c.str) = 0
        BY <4>1
      <4>3. 0 <= N - (n + 1)
        <5> HIDE DEF Inv
        <5> QED  BY <1>0, <1>9
      <4> QED  BY <4>2, <4>3
    <3>3. CASE a.str # <<>>
      BY <1>0, <2>2, <2>3, <3>1, <3>3
    <3> QED  BY <3>2, <3>3
  <2> QED  BY <2>3, <2>4 DEF c
<1>10. Inv(N)
  <2> DEFINE T == {n \in Int : n <= N => Inv(n)}
  <2> HIDE DEF Inv
  <2>1. 0 \in T
    BY <1>8
  <2>2. ASSUME NEW n \in Int, 0 <= n, n \in T PROVE n + 1 \in T
    <3>1. SUFFICES ASSUME n + 1 <= N PROVE Inv(n + 1)
      OBVIOUS
    <3>2. Inv(n)
      BY <1>0, <2>2, <3>1
    <3> QED  BY <1>9, <2>2, <3>1, <3>2
  <2>3. \A n \in Int : 0 <= n => n \in T
    <3> HIDE DEF T
    <3> QED  BY <2>1, <2>2, Induction
  <2> QED  BY <1>0, <2>3
<1>11. PICK u \in Seq(Byte) :
          /\ u \o after[N].str = data
          /\ \A s, g : Sees(s, e, g) => Sees(s \o u, after[N].exp, g \o FramesOf(after[N].msgs))
  BY <1>10 DEF TookSome
<1>12. u = data
  <2>1. after[N].str \in Seq(Byte) /\ Len(after[N].str) <= 0
    BY <1>0, <1>10 DEF TookSome, Takings
  <2>2. after[N].str = <<>>
    BY <2>1
  <2>3. u \o <<>> = u
    BY NoBytes
  <2> QED  BY <1>11, <2>2, <2>3
<1>13. after[N].exp \in Scanners /\ after[N].msgs \in Seq(Msgs)
  BY <1>10 DEF TookSome, Takings
<1> QED  BY <1>7, <1>11, <1>12, <1>13 DEF Took

----------------------------------------------------------------------------
(***************************************************************************)
(* The ports.                                                              *)
(***************************************************************************)

\* The bytes of a port on their way.
Strings ==
    /\ stream \in [Port -> Seq(Byte)] /\ unread \in [Port -> Seq(Byte)]
    /\ taken \in [Port -> Seq(Byte)]
    /\ done \in [Port -> [what : {"none", "read", "failed"}, bytes : Seq(Byte)]]
    /\ ifreadwating \in [Port -> BOOLEAN]

\* Bytes wait to be looked at only behind a read that is pending and got some.
Waits ==
    \A p \in Port :
        /\ done[p].what # "read" => done[p].bytes = <<>>
        /\ ~ifreadwating[p] => done[p] = Nothing

BInv == Strings /\ Waits /\ NothingLost

\* What a read takes and what it leaves are the bytes that were there.
LEMMA TakesSome ==
    ASSUME Strings, NEW p \in Port, NEW least \in Nat, NEW bytes \in Takes(p, least)
    PROVE  /\ bytes \in Seq(Byte) /\ Left(p, bytes) \in Seq(Byte)
           /\ bytes \o Left(p, bytes) = unread[p]
<1> DEFINE u == unread[p]
<1>1. u \in Seq(Byte)
  BY DEF Strings
<1>2. PICK n \in Nat : bytes = SubSeq(u, 1, n) /\ n <= Len(u)
  <2>1. RbufSize \in Nat
    BY ComsAssumption
  <2>2. Len(u) \in Nat
    BY <1>1
  <2> DEFINE top == IF Len(u) < RbufSize THEN Len(u) ELSE RbufSize
  <2>3. top \in Nat /\ top <= Len(u)
    BY <2>1, <2>2
  <2>4. PICK n \in least .. top : bytes = SubSeq(u, 1, n)
    BY DEF Takes
  <2> HIDE DEF top
  <2>5. n \in Nat /\ n <= Len(u)
    BY <2>2, <2>3, <2>4
  <2> QED  BY <2>4, <2>5
<1> HIDE DEF u
<1>3. bytes \in Seq(Byte) /\ Len(bytes) = n
  BY <1>1, <1>2
<1>4. Left(p, bytes) = SubSeq(u, n + 1, Len(u))
  BY <1>3 DEF Left, u
<1>5. SubSeq(u, n + 1, Len(u)) \in Seq(Byte)
  BY <1>1, <1>2
<1>6. SubSeq(u, 1, n) \o SubSeq(u, n + 1, Len(u)) = u
  <2>1. 1 \in 1 .. Len(u) + 1 /\ n \in 1 - 1 .. Len(u) /\ Len(u) \in n .. Len(u)
    BY <1>1, <1>2
  <2>2. SubSeq(u, 1, n) \o SubSeq(u, n + 1, Len(u)) = SubSeq(u, 1, Len(u))
    BY <1>1, <2>1, ConcatAdjacentSubSeq
  <2> QED  BY <1>1, <2>2, SubSeqFull
<1> QED  BY <1>2, <1>3, <1>4, <1>5, <1>6 DEF u

LEMMA JoinAssoc ==
    ASSUME NEW S, NEW a \in Seq(S), NEW b \in Seq(S), NEW c \in Seq(S)
    PROVE  /\ (a \o b) \o c = a \o (b \o c)
           /\ a \o <<>> = a /\ <<>> \o a = a /\ a \o b \in Seq(S)
OBVIOUS

\* Bytes that move from what is unread to what waits leave the whole as it is.
LEMMA Moved ==
    ASSUME NEW t \in Seq(Byte), NEW b \in Seq(Byte), NEW l \in Seq(Byte)
    PROVE  t \o b \o l = t \o <<>> \o (b \o l)
<1>1. t \o <<>> = t
  BY ConcatEmptySeq
<1>2. (t \o b) \o l = t \o (b \o l)
  BY JoinBytes
<1> QED  BY <1>1, <1>2

LEMMA NothingHas == Nothing.what = "none" /\ Nothing.bytes = <<>>
BY DEF Nothing

\* Nothing moves.
LEMMA Still ==
    ASSUME BInv, UNCHANGED <<done, ifreadwating, stream, unread, taken>>
    PROVE  BInv'
BY DEF BInv, Strings, Waits, NothingLost

LEMMA InitBInv == Init => BInv
<1> SUFFICES ASSUME Init PROVE BInv
  OBVIOUS
<1>1. stream \in [Port -> Seq(Byte)]
  <2>1. stream \in [Port -> UNION {Streams[p] : p \in Port}]
        /\ \A p \in Port : stream[p] \in Streams[p]
    BY DEF Init
  <2>2. \A p \in Port : Streams[p] \subseteq Seq(Byte)
    BY ComsAssumption
  <2> QED  BY <2>1, <2>2
<1>2. /\ unread = stream /\ taken = [p \in Port |-> <<>>]
      /\ done = [p \in Port |-> Nothing] /\ ifreadwating = [p \in Port |-> FALSE]
  BY DEF Init
<1>3. Strings
  BY <1>1, <1>2 DEF Strings, Nothing
<1>4. Waits
  BY <1>2, NothingHas DEF Waits
<1>5. NothingLost
  <2> SUFFICES ASSUME NEW p \in Port
               PROVE  taken[p] \o done[p].bytes \o unread[p] = stream[p]
    BY DEF NothingLost
  <2>1. taken[p] = <<>> /\ done[p].bytes = <<>> /\ unread[p] = stream[p]
        /\ stream[p] \in Seq(Byte)
    BY <1>1, <1>2, NothingHas
  <2> QED  BY <2>1
<1> QED  BY <1>3, <1>4, <1>5 DEF BInv

\* A read that is done at once.
LEMMA ReadAtOnceInv ==
    ASSUME BInv, NEW p \in Port, ReadAtOnce(p), ~ifreadwating[p], stream' = stream
    PROVE  BInv'
<1>1. PICK bytes \in Takes(p, 1) :
         /\ taken' = [taken EXCEPT ![p] = @ \o bytes]
         /\ unread' = [unread EXCEPT ![p] = Left(p, bytes)]
  BY DEF ReadAtOnce, OnComRead
<1>2. /\ bytes \in Seq(Byte) /\ Left(p, bytes) \in Seq(Byte)
      /\ bytes \o Left(p, bytes) = unread[p]
  BY TakesSome DEF BInv
<1>3. done' = done /\ ifreadwating' = ifreadwating
  BY DEF ReadAtOnce, port
<1>4. Strings
  BY DEF BInv
<1>5. taken[p] \in Seq(Byte) /\ taken[p] \o bytes \in Seq(Byte)
  BY <1>2, <1>4 DEF Strings
<1>6. Strings'
  BY <1>1, <1>2, <1>3, <1>4, <1>5 DEF Strings
<1>7. Waits'
  BY <1>3 DEF BInv, Waits
<1>8. NothingLost'
  <2> SUFFICES ASSUME NEW q \in Port
               PROVE  taken'[q] \o done'[q].bytes \o unread'[q] = stream'[q]
    BY DEF NothingLost
  <2>1. CASE q = p
    <3>1. done[p].bytes = <<>>
      BY NothingHas DEF BInv, Waits
    <3>2. taken'[p] = taken[p] \o bytes /\ unread'[p] = Left(p, bytes)
      BY <1>1, <1>4 DEF Strings
    <3>3. taken[p] \o <<>> \o unread[p] = stream[p]
      BY <3>1 DEF BInv, NothingLost
    <3>4. unread[p] \in Seq(Byte)
      BY <1>4 DEF Strings
    <3>5. taken[p] \o unread[p] = stream[p]
      BY <3>3, <1>5, JoinAssoc
    <3>6. (taken[p] \o bytes) \o <<>> \o Left(p, bytes) = taken[p] \o (bytes \o Left(p, bytes))
      <4>1. (taken[p] \o bytes) \o <<>> = taken[p] \o bytes
        BY <1>5, ConcatEmptySeq
      <4>2. (taken[p] \o bytes) \o Left(p, bytes) = taken[p] \o (bytes \o Left(p, bytes))
        <5>1. /\ taken[p] \in Seq(Byte) /\ bytes \in Seq(Byte)
              /\ Left(p, bytes) \in Seq(Byte)
          BY <1>2, <1>5
        <5> QED  BY <5>1, JoinBytes
      <4> QED  BY <4>1, <4>2
    <3> QED  BY <2>1, <3>1, <3>2, <3>5, <3>6, <1>2, <1>3
  <2>2. CASE q # p
    <3>1. taken'[q] = taken[q] /\ unread'[q] = unread[q]
      BY <2>2, <1>1, <1>4 DEF Strings
    <3> QED  BY <3>1, <1>3 DEF BInv, NothingLost
  <2> QED  BY <2>1, <2>2
<1> QED  BY <1>6, <1>7, <1>8 DEF BInv

\* A pending read is completed: what the device takes is kept in done.
Completed(p, w, got, rest) ==
    /\ ifreadwating[p] /\ done[p] = Nothing
    /\ w \in {"read", "failed"} /\ (w # "read" => got = <<>>)
    /\ got \in Seq(Byte) /\ rest \in Seq(Byte) /\ got \o rest = unread[p]
    /\ done' = [done EXCEPT ![p] = [what |-> w, bytes |-> got]]
    /\ unread' = [unread EXCEPT ![p] = rest]
    /\ UNCHANGED <<ifreadwating, taken, stream>>

LEMMA CompletedInv ==
    ASSUME BInv, NEW p \in Port, NEW w, NEW got, NEW rest, Completed(p, w, got, rest)
    PROVE  BInv'
<1>1. Strings
  BY DEF BInv
<1>2. /\ \A q \in Port : done'[q] = IF q = p THEN [what |-> w, bytes |-> got] ELSE done[q]
      /\ \A q \in Port : unread'[q] = IF q = p THEN rest ELSE unread[q]
  BY <1>1 DEF Strings, Completed
<1>3. Strings'
  BY <1>1 DEF Strings, Completed
<1>4. Waits'
  BY <1>2 DEF BInv, Waits, Completed
<1>5. NothingLost'
  <2> SUFFICES ASSUME NEW q \in Port
               PROVE  taken[q] \o done'[q].bytes \o unread'[q] = stream[q]
    BY DEF NothingLost, Completed
  <2>1. CASE q = p
    <3>1. done'[q].bytes = got /\ unread'[q] = rest
      BY <1>2, <2>1
    <3>0. /\ got \in Seq(Byte) /\ rest \in Seq(Byte) /\ got \o rest = unread[p]
          /\ done[p] = Nothing
      BY DEF Completed
    <3>2. taken[p] \o <<>> \o unread[p] = stream[p]
      BY <3>0, NothingHas DEF BInv, NothingLost
    <3>3. taken[p] \in Seq(Byte) /\ unread[p] \in Seq(Byte)
      BY <1>1 DEF Strings
    <3>4. taken[p] \o got \o rest = taken[p] \o <<>> \o (got \o rest)
      BY <3>0, <3>3, Moved
    <3> QED  BY <2>1, <3>0, <3>1, <3>2, <3>4
  <2>2. CASE q # p
    <3>1. done'[q] = done[q] /\ unread'[q] = unread[q]
      BY <1>2, <2>2
    <3> QED  BY <3>1 DEF BInv, NothingLost
  <2> QED  BY <2>1, <2>2
<1> QED  BY <1>3, <1>4, <1>5 DEF BInv

\* A pass looks at a completed read: its bytes go to the scanner.
LEMMA WaitInv == ASSUME BInv, WaitOnReads PROVE BInv'
<1>1. CASE Signalled = {}
  BY <1>1, Still DEF WaitOnReads
<1>2. CASE Signalled # {}
  <2> DEFINE p == Least(Signalled)
  <2>1. /\ ifreadwating' = [ifreadwating EXCEPT ![p] = FALSE]
        /\ done' = [done EXCEPT ![p] = Nothing]
        /\ stream' = stream /\ unread' = unread
        /\ IF done[p].what = "read" THEN taken' = [taken EXCEPT ![p] = @ \o done[p].bytes]
           ELSE taken' = taken
    BY <1>2 DEF WaitOnReads, Served, OnComRead
  <2> HIDE DEF p
  <2>2. Strings
    BY DEF BInv
  <2>3. \A q \in Port :
           /\ ifreadwating'[q] = IF q = p THEN FALSE ELSE ifreadwating[q]
           /\ done'[q] = IF q = p THEN Nothing ELSE done[q]
           /\ taken'[q] = IF q = p /\ done[p].what = "read" THEN taken[q] \o done[q].bytes
                          ELSE taken[q]
    BY <2>1, <2>2 DEF Strings
  <2>4. Strings'
    <3>0. Nothing \in [what : {"none", "read", "failed"}, bytes : Seq(Byte)]
      BY DEF Nothing
    <3>1. ifreadwating' \in [Port -> BOOLEAN]
          /\ done' \in [Port -> [what : {"none", "read", "failed"}, bytes : Seq(Byte)]]
      BY <2>1, <2>2, <3>0 DEF Strings
    <3>2. ASSUME NEW q \in Port PROVE taken[q] \o done[q].bytes \in Seq(Byte)
      BY <2>2 DEF Strings
    <3>3. taken' \in [Port -> Seq(Byte)]
      <4>1. taken \in [Port -> Seq(Byte)]
        BY <2>2 DEF Strings
      <4>2. CASE taken' = taken
        BY <4>1, <4>2
      <4>3. CASE taken' = [taken EXCEPT ![p] = @ \o done[p].bytes]
        <5>1. taken' = [q \in Port |->
                          IF q = p THEN taken[q] \o done[q].bytes ELSE taken[q]]
          BY <4>1, <4>3
        <5> QED  BY <4>1, <5>1, <3>2, Zenon
      <4> QED  BY <4>2, <4>3, <2>1
    <3> QED  BY <2>1, <2>2, <3>1, <3>3 DEF Strings
  <2>5. Waits'
    BY <2>3, NothingHas DEF BInv, Waits
  <2>6. NothingLost'
    <3> SUFFICES ASSUME NEW q \in Port
                 PROVE  taken'[q] \o done'[q].bytes \o unread[q] = stream[q]
      BY <2>1 DEF NothingLost
    <3>0. taken[q] \in Seq(Byte) /\ done[q].bytes \in Seq(Byte)
      BY <2>2 DEF Strings
    <3>1. taken[q] \o done[q].bytes \o unread[q] = stream[q]
      BY DEF BInv, NothingLost
    <3>2. CASE q = p
      <4>1. done'[q].bytes = <<>>
        BY <2>3, <3>2, NothingHas
      <4>2. taken'[q] = taken[q] \o done[q].bytes
        <5>1. CASE done[p].what = "read"
          BY <5>1, <2>3, <3>2
        <5>2. CASE done[p].what # "read"
          <6>1. done[q].bytes = <<>> /\ taken'[q] = taken[q]
            BY <5>2, <2>3, <3>2 DEF BInv, Waits
          <6> QED  BY <6>1, <3>0, JoinAssoc
        <5> QED  BY <5>1, <5>2
      <4>3. (taken[q] \o done[q].bytes) \o <<>> = taken[q] \o done[q].bytes
        BY <3>0, JoinAssoc
      <4> QED  BY <4>1, <4>2, <4>3, <3>1
    <3>3. CASE q # p
      BY <3>3, <2>3, <3>1
    <3> QED  BY <3>2, <3>3
  <2> QED  BY <2>4, <2>5, <2>6 DEF BInv
<1> QED  BY <1>1, <1>2

LEMMA ReadComInv == ASSUME BInv, ReadCom PROVE BInv'
<1>0. at \in Port /\ stream' = stream
  BY DEF ReadCom
<1>1. CASE ~ifreadwating[at] /\ ReadAtOnce(at)
  BY <1>0, <1>1, ReadAtOnceInv
<1>2. CASE ~ifreadwating[at] /\ ReadLater(at)
  <2>1. /\ ifreadwating' = [ifreadwating EXCEPT ![at] = TRUE]
        /\ done' = [done EXCEPT ![at] = Nothing] /\ UNCHANGED <<unread, taken>>
    BY <1>2 DEF ReadLater
  <2>2. done[at] = Nothing /\ Strings
    BY <1>0, <1>2 DEF BInv, Waits
  <2>3. done' = done
    BY <1>0, <2>1, <2>2 DEF Strings
  <2>4. Strings'
    BY <1>0, <2>1, <2>2, <2>3 DEF Strings
  <2>5. Waits'
    BY <1>0, <2>1, <2>2, <2>3 DEF BInv, Waits, Strings
  <2>6. NothingLost'
    BY <1>0, <2>1, <2>3 DEF BInv, NothingLost
  <2> QED  BY <2>4, <2>5, <2>6 DEF BInv
<1>3. CASE ReadFails(at)
  BY <1>0, <1>3, Still DEF ReadFails
<1>4. CASE UNCHANGED <<port, unread, expat, msgs, taken>>
  BY <1>0, <1>4, Still DEF port
<1> QED  BY <1>1, <1>2, <1>3, <1>4 DEF ReadCom

LEMMA DevicesInv == ASSUME BInv, NEW p \in Port PROVE
    /\ Complete(p) => BInv'
    /\ TimeOut(p) => BInv'
    /\ Fail(p) => BInv'
    /\ Unplug(p) \/ Replug(p) => BInv'
<1>0. Strings /\ unread[p] \in Seq(Byte) /\ <<>> \o unread[p] = unread[p]
      /\ unread = [unread EXCEPT ![p] = unread[p]] /\ <<>> \in Seq(Byte)
  BY DEF BInv, Strings
<1>1. ASSUME Complete(p) PROVE BInv'
  <2>1. PICK bytes \in Takes(p, 1) :
           /\ done' = [done EXCEPT ![p] = [what |-> "read", bytes |-> bytes]]
           /\ unread' = [unread EXCEPT ![p] = Left(p, bytes)]
    BY <1>1 DEF Complete
  <2>2. /\ bytes \in Seq(Byte) /\ Left(p, bytes) \in Seq(Byte)
        /\ bytes \o Left(p, bytes) = unread[p]
    BY <1>0, TakesSome
  <2>3. /\ ifreadwating[p] /\ done[p] = Nothing
        /\ UNCHANGED <<ifreadwating, taken, stream>>
    BY <1>1 DEF Complete, Pending
  <2>4. Completed(p, "read", bytes, Left(p, bytes))
    BY <2>1, <2>2, <2>3 DEF Completed
  <2> QED  BY <2>4, CompletedInv
<1>2. ASSUME TimeOut(p) PROVE BInv'
  <2>1. /\ done' = [done EXCEPT ![p] = [what |-> "read", bytes |-> <<>>]]
        /\ ifreadwating[p] /\ done[p] = Nothing
        /\ UNCHANGED <<ifreadwating, unread, taken, stream>>
    BY <1>2 DEF TimeOut, Pending
  <2>2. unread' = [unread EXCEPT ![p] = unread[p]]
    BY <2>1, <1>0
  <2>3. Completed(p, "read", <<>>, unread[p])
    BY <1>0, <2>1, <2>2 DEF Completed
  <2> QED  BY <2>3, CompletedInv
<1>3. ASSUME Fail(p) PROVE BInv'
  <2>1. /\ done' = [done EXCEPT ![p] = [what |-> "failed", bytes |-> <<>>]]
        /\ ifreadwating[p] /\ done[p] = Nothing
        /\ UNCHANGED <<ifreadwating, unread, taken, stream>>
    BY <1>3 DEF Fail, Pending
  <2>2. unread' = [unread EXCEPT ![p] = unread[p]]
    BY <2>1, <1>0
  <2>3. Completed(p, "failed", <<>>, unread[p])
    BY <1>0, <2>1, <2>2 DEF Completed
  <2> QED  BY <2>3, CompletedInv
<1>4. ASSUME Unplug(p) \/ Replug(p) PROVE BInv'
  BY <1>4, Still DEF Unplug, Replug, port
<1> QED  BY <1>1, <1>2, <1>3, <1>4

LEMMA StepBInv == BInv /\ [Next]_vars => BInv'
<1> SUFFICES ASSUME BInv, [Next]_vars PROVE BInv'
  OBVIOUS
<1>1. CASE Pass
  <2>1. CheckComs => UNCHANGED <<done, ifreadwating, stream, unread, taken>>
    BY DEF CheckComs
  <2> QED  BY <1>1, <2>1, Still, ReadComInv, WaitInv DEF Pass
<1>2. CASE Devices
  BY <1>2, DevicesInv DEF Devices
<1>3. CASE UNCHANGED vars
  BY <1>3, Still DEF vars, port
<1> QED  BY <1>1, <1>2, <1>3 DEF Next

(***************************************************************************)
(* Whatever the reads cut, time out on or fail at, for any number of ports *)
(* and any streams, each byte reaches the port's scanner once and in order.*)
(***************************************************************************)
THEOREM EveryByteOnce == Spec => []NothingLost
<1>1. BInv => NothingLost
  BY DEF BInv
<1>2. Spec => []BInv
  BY InitBInv, StepBInv, PTL DEF Spec
<1> QED  BY <1>1, <1>2, PTL

----------------------------------------------------------------------------
(***************************************************************************)
(* The scanners.  A step that touches one reads a chunk of its port.       *)
(***************************************************************************)
Heard == <<expat, msgs, taken>>

Scanned ==
    /\ stream \in [Port -> Seq(Byte)] /\ \A p \in Port : stream[p] \in Streams[p]
    /\ expat \in [Port -> Scanners] /\ msgs \in [Port -> Seq(Msgs)]
    /\ \A p \in Port : Sees(taken[p], expat[p], FramesOf(msgs[p]))

LEMMA InitScanned == Init => Scanned
<1> SUFFICES ASSUME Init PROVE Scanned
  OBVIOUS
<1>1. BInv /\ \A p \in Port : stream[p] \in Streams[p]
  BY InitBInv DEF Init
<1>2. /\ expat = [p \in Port |-> dev_exp_new] /\ taken = [p \in Port |-> <<>>]
      /\ msgs = [p \in Port |-> <<>>]
  BY DEF Init
<1>3. Sees(<<>>, dev_exp_new, <<>>) /\ dev_exp_new \in Scanners
  BY SeesNothing DEF Sees
<1>4. FramesOf(<<>>) = <<>> /\ <<>> \in Seq(Msgs)
  BY DEF FramesOf
<1>5. expat \in [Port -> Scanners] /\ msgs \in [Port -> Seq(Msgs)]
  BY <1>2, <1>3, <1>4
<1>6. ASSUME NEW p \in Port PROVE Sees(taken[p], expat[p], FramesOf(msgs[p]))
  BY <1>2, <1>3, <1>4
<1>7. stream \in [Port -> Seq(Byte)]
  BY <1>1 DEF BInv, Strings
<1> QED  BY <1>1, <1>5, <1>6, <1>7 DEF Scanned

\* Wherever they come from, bytes that are read go through the port's scanner.
LEMMA OnComReadScanned ==
    ASSUME BInv, Scanned, NEW p \in Port, NEW bytes \in Seq(Byte), OnComRead(p, bytes),
           stream' = stream
    PROVE  Scanned'
<1> DEFINE r == exp_process_data(expat[p], bytes)
<1>1. /\ expat \in [Port -> Scanners] /\ msgs \in [Port -> Seq(Msgs)]
      /\ taken \in [Port -> Seq(Byte)]
  BY DEF Scanned, BInv, Strings
<1>2. expat[p] \in Scanners /\ msgs[p] \in Seq(Msgs) /\ taken[p] \in Seq(Byte)
  BY <1>1
<1>3. Took(expat[p], bytes, r)
  BY <1>2, ProcessData
<1>4. /\ expat' = [expat EXCEPT ![p] = r.exp]
      /\ msgs' = [msgs EXCEPT ![p] = msgs[p] \o r.msgs]
      /\ taken' = [taken EXCEPT ![p] = taken[p] \o bytes]
  BY DEF OnComRead
<1> HIDE DEF r
<1>5. /\ r.exp \in Scanners /\ r.msgs \in Seq(Msgs)
      /\ \A s, f : Sees(s, expat[p], f) => Sees(s \o bytes, r.exp, f \o FramesOf(r.msgs))
  BY <1>3 DEF Took
<1>6. msgs[p] \o r.msgs \in Seq(Msgs)
      /\ FramesOf(msgs[p] \o r.msgs) = FramesOf(msgs[p]) \o FramesOf(r.msgs)
  <2>1. msgs[p] \o r.msgs \in Seq(Msgs)
    BY <1>2, <1>5, JoinAssoc
  <2>2. Message(expat[p]) \in Msgs
    BY <1>2, MessageIs
  <2> QED  BY <1>2, <1>5, <2>1, <2>2, FramesGrow
<1>7. expat' \in [Port -> Scanners] /\ msgs' \in [Port -> Seq(Msgs)]
  BY <1>1, <1>4, <1>5, <1>6
<1>8. ASSUME NEW q \in Port PROVE Sees(taken'[q], expat'[q], FramesOf(msgs'[q]))
  <2>1. Sees(taken[q], expat[q], FramesOf(msgs[q]))
    BY DEF Scanned
  <2>2. CASE q = p
    <3>1. expat'[q] = r.exp /\ msgs'[q] = msgs[p] \o r.msgs /\ taken'[q] = taken[p] \o bytes
      BY <1>1, <1>4, <2>2
    <3>2. Sees(taken[p], expat[p], FramesOf(msgs[p]))
      BY <2>1, <2>2
    <3>3. Sees(taken[p] \o bytes, r.exp, FramesOf(msgs[p]) \o FramesOf(r.msgs))
      BY <1>5, <3>2
    <3> QED  BY <1>6, <3>1, <3>3
  <2>3. CASE q # p
    <3>1. expat'[q] = expat[q] /\ msgs'[q] = msgs[q] /\ taken'[q] = taken[q]
      BY <1>1, <1>4, <2>3
    <3> QED  BY <2>1, <3>1
  <2> QED  BY <2>2, <2>3
<1> QED  BY <1>7, <1>8 DEF Scanned

\* The wait serves a port whose read is completed.
LEMMA ServesSignalled ==
    ASSUME Signalled # {}
    PROVE  Least(Signalled) \in Signalled /\ Least(Signalled) \in Port
<1>1. Signalled \subseteq Port /\ Port \subseteq Nat
  BY ComsAssumption DEF Signalled, Port
<1>2. \E p \in Signalled : \A q \in Signalled : p <= q
  BY <1>1, LeastNat
<1> QED  BY <1>1, <1>2 DEF Least

\* What a step does to the scanners: nothing, or it reads a chunk.
LEMMA StepReads ==
    ASSUME BInv, [Next]_vars
    PROVE  /\ stream' = stream
           /\ \/ UNCHANGED Heard
              \/ \E p \in Port : \E bytes \in Seq(Byte) : OnComRead(p, bytes)
<1>1. CASE ReadCom
  <2>1. ASSUME ReadAtOnce(at), at \in Port
        PROVE  \E bytes \in Seq(Byte) : OnComRead(at, bytes)
    <3>1. PICK bytes \in Takes(at, 1) : OnComRead(at, bytes)
      BY <2>1 DEF ReadAtOnce
    <3>2. bytes \in Seq(Byte)
      BY <2>1, TakesSome DEF BInv
    <3> QED  BY <3>1, <3>2
  <2> QED  BY <1>1, <2>1 DEF ReadCom, ReadLater, ReadFails, Heard
<1>2. CASE WaitOnReads
  <2>1. CASE Signalled = {} \/ done[Least(Signalled)].what # "read"
    BY <1>2, <2>1 DEF WaitOnReads, Heard
  <2>2. CASE Signalled # {} /\ done[Least(Signalled)].what = "read"
    <3> DEFINE p == Least(Signalled)
    <3>1. p \in Port
      BY <2>2, ServesSignalled
    <3>2. OnComRead(p, done[p].bytes) /\ stream' = stream
      BY <1>2, <2>2 DEF WaitOnReads
    <3> HIDE DEF p
    <3>3. done[p].bytes \in Seq(Byte)
      BY <3>1 DEF BInv, Strings
    <3> QED  BY <3>1, <3>2, <3>3
  <2> QED  BY <2>1, <2>2
<1>3. CASE CheckComs
  BY <1>3 DEF CheckComs, Heard
<1>4. CASE Devices
  BY <1>4 DEF Devices, Complete, TimeOut, Fail, Unplug, Replug, Heard
<1>5. CASE UNCHANGED vars
  BY <1>5 DEF vars, Heard
<1> QED  BY <1>1, <1>2, <1>3, <1>4, <1>5 DEF Next, Pass

LEMMA StepScanned == BInv /\ Scanned /\ [Next]_vars => Scanned'
<1> SUFFICES ASSUME BInv, Scanned, [Next]_vars PROVE Scanned'
  OBVIOUS
<1>1. stream' = stream
  BY StepReads
<1>2. CASE UNCHANGED Heard
  BY <1>1, <1>2 DEF Scanned, Heard
<1>3. CASE \E p \in Port : \E bytes \in Seq(Byte) : OnComRead(p, bytes)
  BY <1>1, <1>3, OnComReadScanned
<1> QED  BY <1>2, <1>3, StepReads

\* The readers send length bytes below 128 only.
ShortStreams == \A p \in Port : \A s \in Streams[p] : ShortLengths(s)

\* The bytes taken are the first ones of the stream.
LEMMA TakenFirst ==
    ASSUME BInv, NEW p \in Port
    PROVE  Prefixed(taken[p], stream[p]) /\ taken[p] \in Seq(Byte) /\ stream[p] \in Seq(Byte)
<1> DEFINE S == Byte
           t == taken[p]
           d == done[p].bytes
           u == unread[p]
           s == stream[p]
<1>1. t \in Seq(S) /\ d \in Seq(S) /\ u \in Seq(S) /\ s \in Seq(S) /\ t \o d \o u = s
  BY DEF BInv, Strings, NothingLost
<1> HIDE DEF S, t, d, u, s
<1>2. Prefixed(t, s)
  <2>1. Len(t) \in Nat /\ Len(s) = Len(t) + Len(d) + Len(u) /\ Len(d) \in Nat /\ Len(u) \in Nat
    BY <1>1
  <2>2. t \o d \in Seq(S) /\ Len(t \o d) = Len(t) + Len(d)
    BY <1>1
  <2>3. \A k \in 1 .. Len(t) : (t \o d)[k] = t[k]
    BY <1>1
  <2>4. \A k \in 1 .. Len(t \o d) : (t \o d \o u)[k] = (t \o d)[k]
    BY <1>1, <2>2
  <2>5. \A k \in 1 .. Len(t) : s[k] = t[k]
    BY <1>1, <2>1, <2>2, <2>3, <2>4
  <2> QED  BY <2>1, <2>5 DEF Prefixed
<1> QED  BY <1>1, <1>2 DEF S, t, s

(***************************************************************************)
(* However the reads cut the streams, and whatever fails between them, the *)
(* callback has been given the frames of the bytes taken, no more and no   *)
(* others, for readers whose length bytes are below 128.                   *)
(***************************************************************************)
THEOREM EveryFrameFound ==
    ASSUME ShortStreams
    PROVE  Spec => []FramesFound
<1>1. BInv /\ Scanned => FramesFound
  <2> SUFFICES ASSUME BInv, Scanned, NEW p \in Port
               PROVE  Frames(taken[p]) = [i \in 1 .. Len(msgs[p]) |-> msgs[p][i].frame]
    BY DEF FramesFound
  <2>1. ShortLengths(stream[p])
    BY DEF Scanned, ShortStreams
  <2>2. ShortLengths(taken[p])
    BY <2>1, TakenFirst, ShortBefore
  <2>3. Sees(taken[p], expat[p], FramesOf(msgs[p]))
    BY DEF Scanned
  <2>4. Frames(taken[p]) = FramesOf(msgs[p])
    BY <2>2, <2>3, SeesAll
  <2> QED  BY <2>4 DEF FramesOf
<1>2. Spec => []BInv
  BY InitBInv, StepBInv, PTL DEF Spec
<1>3. Spec => [](BInv /\ Scanned)
  BY InitBInv, InitScanned, StepBInv, StepScanned, PTL DEF Spec
<1> QED  BY <1>1, <1>3, PTL

----------------------------------------------------------------------------
(***************************************************************************)
(* The types.  What is left of them when bytes and scanners are known.     *)
(***************************************************************************)
Ports ==
    /\ at \in 1 .. Check /\ checked \in BOOLEAN
    /\ state \in [Port -> {"new", "open", "init"}]
    /\ hcom \in [Port -> {"null", "open", "stale"}]
    /\ device \in [Port -> {"fine", "gone", "back"}]
    /\ \A p \in Port :
          /\ ifreadwating[p] => hcom[p] = "open"
          /\ hcom[p] = "open" <=> state[p] # "new"
          /\ Len(done[p].bytes) <= RbufSize

LEMMA PortsTyped == ASSUME BInv, Scanned, Ports PROVE TypeOK
<1>1. ASSUME NEW p \in Port
      PROVE  /\ done[p].what \in {"none", "read", "failed"}
             /\ done[p] # Nothing => ifreadwating[p]
             /\ expat[p].framelen < UNPACKBUFFSIZE /\ Len(expat[p].Head) < HEADLEN
  <2>1. done[p].what \in {"none", "read", "failed"} /\ ifreadwating[p] \in BOOLEAN
    BY DEF BInv, Strings
  <2>2. ~ifreadwating[p] => done[p] = Nothing
    BY DEF BInv, Waits
  <2>3. expat[p] \in Scanners
    BY DEF Scanned
  <2>4. expat[p].framelen < UNPACKBUFFSIZE /\ Len(expat[p].Head) < HEADLEN
    BY <2>3, ScannerHas, DevScanAssumption DEF HEADLEN
  <2> QED  BY <2>1, <2>2, <2>4
<1>2. ifreadwating \in [Port -> BOOLEAN]
  BY DEF BInv, Strings
<1> QED  BY <1>1, <1>2 DEF Ports, TypeOK

LEMMA InitPorts == Init => Ports
<1> SUFFICES ASSUME Init PROVE Ports
  OBVIOUS
<1>1. num \in Nat /\ 0 < num /\ RbufSize \in Nat /\ Len(<<>>) = 0
  BY ComsAssumption
<1>2. at \in 1 .. Check
  BY <1>1 DEF Init, Check
<1>3. /\ state = [p \in Port |-> "init"] /\ hcom = [p \in Port |-> "open"]
      /\ done = [p \in Port |-> Nothing] /\ device = [p \in Port |-> "fine"]
      /\ checked = FALSE
  BY DEF Init
<1>4. ASSUME NEW p \in Port PROVE Len(done[p].bytes) <= RbufSize
  BY <1>1, <1>3, NothingHas
<1>5. ASSUME NEW p \in Port PROVE hcom[p] = "open" /\ state[p] # "new"
  BY <1>3
<1> QED  BY <1>2, <1>3, <1>4, <1>5 DEF Ports

\* A read takes no more than rbuffer holds.
LEMMA TakesFit ==
    ASSUME Strings, NEW p \in Port, NEW bytes \in Takes(p, 1)
    PROVE  Len(bytes) <= RbufSize
<1> DEFINE S == Byte
           u == unread[p]
           top == IF Len(u) < RbufSize THEN Len(u) ELSE RbufSize
<1>1. u \in Seq(S) /\ RbufSize \in Nat /\ Len(u) \in Nat
  BY ComsAssumption DEF Strings
<1>2. PICK n \in 1 .. top : bytes = SubSeq(u, 1, n)
  BY DEF Takes
<1>3. top \in Nat /\ top <= RbufSize /\ top <= Len(u)
  BY <1>1
<1> HIDE DEF S, u, top
<1>4. n \in Nat /\ n <= RbufSize /\ n <= Len(u)
  BY <1>1, <1>3
<1>5. Len(SubSeq(u, 1, n)) = n
  BY <1>1, <1>4
<1> QED  BY <1>2, <1>4, <1>5

\* A port that is passed over, read from, served, completed or unplugged.
LEMMA ReadComPorts == ASSUME BInv, Ports, ReadCom PROVE Ports'
<1>1. at' \in 1 .. Check /\ at \in Port /\ checked' = checked /\ device' = device
  BY ComsAssumption DEF ReadCom, Port, Check
<1>2. Strings /\ Waits
  BY DEF BInv
<1>3. CASE UNCHANGED port
  BY <1>1, <1>3 DEF Ports, port
<1>4. CASE hcom[at] = "open" /\ ReadLater(at)
  <2>1. UNCHANGED <<state, hcom>>
    BY <1>4 DEF ReadLater
  <2>2. ASSUME NEW p \in Port
        PROVE  /\ ifreadwating'[p] => hcom[p] = "open"
               /\ Len(done'[p].bytes) <= RbufSize
    <3>1. ifreadwating'[p] = (IF p = at THEN TRUE ELSE ifreadwating[p])
          /\ done'[p] = (IF p = at THEN Nothing ELSE done[p])
      BY <1>1, <1>2, <1>4 DEF ReadLater, Strings
    <3>2. Len(Nothing.bytes) <= RbufSize
      BY ComsAssumption, NothingHas
    <3> QED  BY <1>4, <3>1, <3>2 DEF Ports
  <2> QED  BY <1>1, <2>1, <2>2 DEF Ports
<1>5. CASE ~ifreadwating[at] /\ ReadFails(at)
  <2>1. /\ hcom' = [hcom EXCEPT ![at] = "null"] /\ state' = [state EXCEPT ![at] = "new"]
        /\ UNCHANGED <<ifreadwating, done>>
    BY <1>5 DEF ReadFails
  <2>2. /\ hcom' \in [Port -> {"null", "open", "stale"}]
        /\ state' \in [Port -> {"new", "open", "init"}]
    BY <2>1 DEF Ports
  <2>3. ASSUME NEW p \in Port
        PROVE  /\ ifreadwating[p] => hcom'[p] = "open"
               /\ hcom'[p] = "open" <=> state'[p] # "new"
    BY <1>1, <1>5, <2>1 DEF Ports
  <2> QED  BY <1>1, <2>1, <2>2, <2>3 DEF Ports
<1> QED  BY <1>3, <1>4, <1>5 DEF ReadCom, ReadAtOnce

LEMMA WaitPorts == ASSUME BInv, Ports, WaitOnReads PROVE Ports'
<1>1. /\ at' \in 1 .. Check /\ UNCHANGED <<state, hcom, checked, device>>
  BY ComsAssumption DEF WaitOnReads, Check
<1>2. CASE Signalled = {}
  BY <1>1, <1>2 DEF WaitOnReads, Ports
<1>3. CASE Signalled # {}
  <2> DEFINE q == Least(Signalled)
  <2>1. q \in Port /\ Served(q)
    BY <1>3, ServesSignalled DEF WaitOnReads
  <2> HIDE DEF q
  <2>2. ASSUME NEW p \in Port
        PROVE  /\ ifreadwating'[p] => hcom[p] = "open"
               /\ Len(done'[p].bytes) <= RbufSize
    <3>1. ifreadwating'[p] = (IF p = q THEN FALSE ELSE ifreadwating[p])
          /\ done'[p] = (IF p = q THEN Nothing ELSE done[p])
      BY <2>1 DEF BInv, Served, Strings
    <3>2. Len(Nothing.bytes) <= RbufSize
      BY ComsAssumption, NothingHas
    <3> QED  BY <3>1, <3>2 DEF Ports
  <2> QED  BY <1>1, <2>2 DEF Ports
<1> QED  BY <1>2, <1>3

LEMMA CheckPorts == ASSUME Ports, CheckComs PROVE Ports'
<1>1. at' \in 1 .. Check /\ checked' = TRUE /\ UNCHANGED <<ifreadwating, done, device>>
  BY ComsAssumption DEF CheckComs, Check
<1>2. CASE checked
  BY <1>1, <1>2 DEF CheckComs, Ports
<1>3. CASE ~checked
  <2>1. PICK r : /\ \A p \in Port : r[p] \in Checks(p)
                 /\ state' = [p \in Port |-> r[p].state] /\ hcom' = [p \in Port |-> r[p].hcom]
    BY <1>3 DEF CheckComs
  <2>2. ASSUME NEW p \in Port
        PROVE  /\ r[p].state \in {"new", "open", "init"}
               /\ r[p].hcom \in {"null", "open", "stale"}
               /\ r[p].hcom = "open" <=> r[p].state # "new"
               /\ ifreadwating[p] => r[p].hcom = "open"
    <3>1. /\ state[p] \in {"new", "open", "init"} /\ hcom[p] \in {"null", "open", "stale"}
          /\ ifreadwating[p] => hcom[p] = "open"
          /\ hcom[p] = "open" <=> state[p] # "new"
      BY DEF Ports
    <3>2. CASE state[p] = "new"
      <4>1. r[p] \in Opens(p)
        BY <2>1, <3>2 DEF Checks
      <4> QED  BY <3>1, <3>2, <4>1 DEF Opens
    <3>3. CASE state[p] # "new"
      <4>1. r[p] = [state |-> "init", hcom |-> hcom[p]]
        BY <2>1, <3>1, <3>3 DEF Checks
      <4> QED  BY <3>1, <3>3, <4>1
    <3> QED  BY <3>2, <3>3
  <2> QED  BY <1>1, <2>1, <2>2 DEF Ports
<1> QED  BY <1>2, <1>3

LEMMA DevicesPorts == ASSUME BInv, Ports, NEW p \in Port,
                             Complete(p) \/ TimeOut(p) \/ Fail(p) \/ Unplug(p) \/ Replug(p)
                      PROVE  Ports'
<1>1. UNCHANGED <<at, state, hcom, ifreadwating, checked>>
  BY DEF Complete, TimeOut, Fail, Unplug, Replug, port
<1>2. device' \in [Port -> {"fine", "gone", "back"}]
  BY DEF Ports, Complete, TimeOut, Fail, Unplug, Replug
<1>3. ASSUME NEW q \in Port PROVE Len(done'[q].bytes) <= RbufSize
  <2>1. \/ UNCHANGED done
        \/ \E w, b : Len(b) <= RbufSize /\ done' = [done EXCEPT ![p] = [what |-> w, bytes |-> b]]
    <3>1. Len(<<>>) <= RbufSize
      BY ComsAssumption
    <3>2. \A bytes \in Takes(p, 1) : Len(bytes) <= RbufSize
      BY TakesFit DEF BInv
    <3> QED  BY <3>1, <3>2 DEF Complete, TimeOut, Fail, Unplug, Replug, port
  <2>2. CASE UNCHANGED done
    BY <2>2 DEF Ports
  <2>3. ASSUME NEW w, NEW b, Len(b) <= RbufSize,
               done' = [done EXCEPT ![p] = [what |-> w, bytes |-> b]]
        PROVE  Len(done'[q].bytes) <= RbufSize
    <3>1. done'[q] = IF q = p THEN [what |-> w, bytes |-> b] ELSE done[q]
      BY <2>3 DEF BInv, Strings
    <3> QED  BY <2>3, <3>1 DEF Ports
  <2> QED  BY <2>1, <2>2, <2>3
<1> QED  BY <1>1, <1>2, <1>3 DEF Ports

LEMMA StepPorts == BInv /\ Ports /\ [Next]_vars => Ports'
<1> SUFFICES ASSUME BInv, Ports, [Next]_vars PROVE Ports'
  OBVIOUS
<1>1. CASE Pass
  BY <1>1, ReadComPorts, WaitPorts, CheckPorts DEF Pass
<1>2. CASE Devices
  BY <1>2, DevicesPorts DEF Devices
<1>3. CASE UNCHANGED vars
  BY <1>3 DEF vars, port, Ports
<1> QED  BY <1>1, <1>2, <1>3 DEF Next

(***************************************************************************)
(* The types of the ports: a read is pending on an open port only, no read *)
(* is longer than rbuffer, and no scanner writes behind its frame buffer.  *)
(***************************************************************************)
THEOREM TypesOfPorts == Spec => []TypeOK
<1>1. BInv /\ Scanned /\ Ports => TypeOK
  BY PortsTyped
<1>2. Spec => [](BInv /\ Scanned /\ Ports)
  BY InitBInv, InitScanned, InitPorts, StepBInv, StepScanned, StepPorts, PTL DEF Spec
<1> QED  BY <1>1, <1>2, PTL
=============================================================================
