--------------------------- MODULE TextScanProof ---------------------------
(***************************************************************************)
(* The scanners of the text frames hear what they promise, of any streams  *)
(* of plain texts and however the chunks cut them.                         *)
(*                                                                         *)
(* A stream is laid out (Layout): its frames lie one behind the other, a   *)
(* '$' begins one and a line's end ends one.  Between two searches a       *)
(* scanner is at a byte of it (At): idle, and in no frame but a lost one,  *)
(* or gathering the frame it is in, from a byte that may lie before its    *)
(* text.  A search finds the next frame that is not lost, or the chunk     *)
(* ends (SearchIs); so does every search of a chunk (ChunkIs) and every    *)
(* chunk (Keeps), and with it what was heard is accounted for (Hears).     *)
(***************************************************************************)
EXTENDS TextScan, Recursion, SequenceTheorems, FiniteSetTheorems

\* What a stream is made of (the provers take no literal for a string).
Symbol == STRING \cup DOMAIN TitleLen \cup {"$", "*", "hex", "CR", "LF", "NUL"}

\* The least of a set of positions.
LEMMA MinIs ==
    ASSUME NEW S, S \subseteq Nat, S # {}
    PROVE  Min(S) \in S /\ \A k \in S : Min(S) <= k
<1>1. \E m \in S : \A k \in S : m <= k
  BY LeastNat
<1> QED  BY <1>1 DEF Min

\* What is in it and not greater than another is the least.
LEMMA MinUnique ==
    ASSUME NEW S, S \subseteq Nat, NEW m \in S, \A k \in S : m <= k
    PROVE  Min(S) = m
<1>1. Min(S) \in S /\ \A k \in S : Min(S) <= k
  BY MinIs
<1>2. Min(S) <= m /\ m <= Min(S) /\ m \in Nat /\ Min(S) \in Nat
  BY <1>1
<1> QED  BY <1>2

\* Every title is of five bytes at least, and fits in a head.
LEMMA HeadIs == iHeadLen \in Nat /\ 9 <= iHeadLen
<1>1. "initsess" \in DOMAIN TitleLen /\ TitleLen["initsess"] = 9
  BY DEF TitleLen
<1>2. iHeadLen \in Nat /\ TitleLen["initsess"] <= iHeadLen
  BY <1>1, TextScanAssumption
<1> QED  BY <1>1, <1>2

\* A title: its length and what it is spelled with.
LEMMA TitleIs ==
    ASSUME NEW t \in DOMAIN TitleLen
    PROVE  /\ TitleLen[t] \in 5 .. 9 /\ TitleLen[t] <= iHeadLen
           /\ Title(t) \in Seq(Symbol) /\ Len(Title(t)) = TitleLen[t]
           /\ Title(t)[1] = "$" /\ Title(t)[2] = t
           /\ \A j \in 2 .. TitleLen[t] : Title(t)[j] = t
           /\ t \in {"initsess", "ping", "auth", "initack", "pong", "printack", "show"}
<1>1. t \in {"initsess", "ping", "auth", "initack", "pong", "printack", "show"}
  BY DEF TitleLen
<1>2. TitleLen[t] \in 5 .. 9
  BY <1>1 DEF TitleLen
<1> DEFINE L == TitleLen[t]
<1>3. Title(t) = [i \in 1 .. L |-> IF i = 1 THEN "$" ELSE t]
  BY DEF Title
<1>4. L \in 5 .. 9 /\ L <= iHeadLen
  BY <1>2, HeadIs
<1> HIDE DEF L
<1>5. \A i \in 1 .. L : (IF i = 1 THEN "$" ELSE t) \in Symbol
  BY DEF Symbol
<1>6. Title(t) \in [1 .. L -> Symbol] /\ \A j \in 1 .. L : Title(t)[j] = IF j = 1 THEN "$" ELSE t
  BY <1>3, <1>5
<1>7. Title(t) \in Seq(Symbol) /\ Len(Title(t)) = L
  BY <1>4, <1>6
<1>8. 1 \in 1 .. L /\ 2 \in 1 .. L /\ 2 # 1 /\ \A j \in 2 .. L : j \in 1 .. L /\ j # 1
  BY <1>4
<1>9. Title(t)[1] = "$" /\ Title(t)[2] = t /\ \A j \in 2 .. L : Title(t)[j] = t
  BY <1>6, <1>8
<1> QED  BY <1>1, <1>4, <1>7, <1>9 DEF L

\* The title at the beginning of a head.
LEMMA HeadHas ==
    ASSUME NEW titles, titles \subseteq DOMAIN TitleLen, NEW p \in Seq(Symbol), NEW w \in Nat, 1 <= w,
           NEW n \in Nat, w + n - 1 <= Len(p), NEW t \in titles, IsPrefix(Title(t), SubSeq(p, w, w + n - 1)),
           n >= 2
    PROVE  p[w] = "$" /\ p[w + 1] = t
<1> DEFINE T == Title(t)
           L == TitleLen[t]
           head == SubSeq(p, w, w + n - 1)
<1>1. T \in Seq(Symbol) /\ Len(T) = L /\ T[1] = "$" /\ T[2] = t /\ L \in 5 .. 9
  BY TitleIs
<1>2. Len(p) \in Nat /\ head \in Seq(Symbol) /\ Len(head) = n /\ \A j \in 1 .. n : head[j] = p[w + j - 1]
  <2>1. Len(p) \in Nat /\ \A j \in w .. w + n - 1 : p[j] \in Symbol
    OBVIOUS
  <2> QED  BY <2>1
<1>3. L <= n /\ SubSeq(T, 1, L) = SubSeq(head, 1, L)
  BY <1>1, <1>2 DEF IsPrefix
<1> HIDE DEF T, L, head
<1>4. SubSeq(T, 1, L)[1] = T[1] /\ SubSeq(T, 1, L)[2] = T[2]
  BY <1>1
<1>5. SubSeq(head, 1, L)[1] = head[1] /\ SubSeq(head, 1, L)[2] = head[2]
  BY <1>1, <1>2, <1>3
<1>6. head[1] = p[w] /\ head[2] = p[w + 1]
  <2>1. 1 \in 1 .. n /\ 2 \in 1 .. n /\ w + 1 - 1 = w /\ w + 2 - 1 = w + 1
    OBVIOUS
  <2> QED  BY <1>2, <2>1
<1> QED  BY <1>1, <1>3, <1>4, <1>5, <1>6

\* A complete head with a title at w.
HeadAt(titles, p, w) ==
    /\ w \in 1 .. Len(p) - iHeadLen + 1
    /\ istitle(titles, SubSeq(p, w, w + iHeadLen - 1)) # {}

\* A head with a title begins with '$', and its second byte tells the title.
LEMMA HeadBegins ==
    ASSUME NEW titles, titles \subseteq DOMAIN TitleLen, NEW p \in Seq(Symbol), NEW w, HeadAt(titles, p, w)
    PROVE  p[w] = "$" /\ w \in Nat /\ 1 <= w /\ w + iHeadLen - 1 <= Len(p)
           /\ \E t \in titles : IsPrefix(Title(t), SubSeq(p, w, w + iHeadLen - 1)) /\ p[w + 1] = t
<1>1. PICK t \in titles : IsPrefix(Title(t), SubSeq(p, w, w + iHeadLen - 1))
  BY DEF HeadAt, istitle
<1>2. Len(p) \in Nat /\ iHeadLen \in Nat /\ 5 <= iHeadLen
  BY HeadIs
<1>3. w \in Nat /\ 1 <= w /\ w + iHeadLen - 1 <= Len(p)
  BY <1>2 DEF HeadAt
<1>4. p[w] = "$" /\ p[w + 1] = t
  <2>1. 2 <= iHeadLen
    BY <1>2
  <2> QED  BY <1>1, <1>2, <1>3, <2>1, HeadHas
<1> QED  BY <1>1, <1>3, <1>4

\* No '$' is passed over.
LEMMA ShiftIs ==
    ASSUME NEW p \in Seq(Symbol), NEW w \in Nat, iHeadLen \in Nat, 5 <= iHeadLen
    PROVE  /\ Shift(p, w) \in w + 1 .. w + iHeadLen
           /\ \A v \in w + 1 .. Shift(p, w) - 1 : p[v] # "$"
<1> DEFINE A == {i \in w + 1 .. w + iHeadLen - 1 : p[i] = "$"}
           S == A \cup {w + iHeadLen}
<1>1. S \subseteq Nat /\ S # {} /\ \A i \in S : i \in w + 1 .. w + iHeadLen
  OBVIOUS
<1>2. Shift(p, w) = Min(S)
  BY DEF Shift
<1>3. \A v \in w + 1 .. w + iHeadLen - 1 : p[v] = "$" => v \in S
  OBVIOUS
<1> HIDE DEF S
<1>4. Min(S) \in S /\ \A k \in S : Min(S) <= k
  BY <1>1, MinIs
<1>5. Min(S) \in w + 1 .. w + iHeadLen
  BY <1>1, <1>4
<1>6. ASSUME NEW v \in w + 1 .. Min(S) - 1 PROVE p[v] # "$"
  <2>1. v \in w + 1 .. w + iHeadLen - 1 /\ ~(Min(S) <= v)
    BY <1>5
  <2> QED  BY <1>3, <1>4, <2>1
<1> QED  BY <1>2, <1>5, <1>6

\* Header finds the first complete head with a title.
LEMMA HeaderIs ==
    ASSUME NEW titles, titles \subseteq DOMAIN TitleLen, NEW p \in Seq(Symbol)
    PROVE  \/ Header(titles, p) = 0 /\ \A w : ~HeadAt(titles, p, w)
           \/ /\ HeadAt(titles, p, Header(titles, p))
              /\ \A w : HeadAt(titles, p, w) => Header(titles, p) <= w
<1> DEFINE N == Len(p) + 1
           S == 0 .. N
           from[w \in 1 .. Len(p) + 1] ==
              IF w + iHeadLen - 1 > Len(p) THEN 0
              ELSE IF istitle(titles, SubSeq(p, w, w + iHeadLen - 1)) # {} THEN w
              ELSE from[Shift(p, w)]
           Value(g, w) == IF w + iHeadLen - 1 > Len(p) THEN 0
                          ELSE IF istitle(titles, SubSeq(p, w, w + iHeadLen - 1)) # {} THEN w
                          ELSE g[Shift(p, w)]
           D == [w \in 1 .. N |-> [g \in [1 .. N -> S] |-> Value(g, w)]]
<1>0. N \in Nat /\ 1 \in Int /\ N \in Int /\ 0 \in S /\ iHeadLen \in Nat /\ 5 <= iHeadLen /\ Len(p) \in Nat
      /\ 1 <= N
  BY HeadIs
<1>1. ASSUME NEW w \in 1 .. N, ~(w + iHeadLen - 1 > Len(p))
      PROVE  /\ Shift(p, w) \in w + 1 .. N
             /\ \A v \in w + 1 .. Shift(p, w) - 1 : p[v] # "$"
  <2>1. Shift(p, w) \in w + 1 .. w + iHeadLen /\ \A v \in w + 1 .. Shift(p, w) - 1 : p[v] # "$"
    BY <1>0, ShiftIs
  <2>2. w + iHeadLen <= N /\ w \in Nat
    BY <1>0, <1>1
  <2> DEFINE u == Shift(p, w)
  <2> HIDE DEF u, N
  <2>3. u \in w + 1 .. w + iHeadLen => u \in w + 1 .. N
    BY <1>0, <2>2
  <2> QED  BY <2>1, <2>3 DEF u
<1>2. ASSUME NEW w \in 1 .. N, NEW g \in [1 .. N -> S] PROVE Value(g, w) \in S
  <2>1. ~(w + iHeadLen - 1 > Len(p)) => g[Shift(p, w)] \in S
    <3> HIDE DEF S, N
    <3>1. Shift(p, w) \in w + 1 .. N => Shift(p, w) \in 1 .. N
      BY <1>0
    <3> QED  BY <1>1, <3>1
  <2> QED  BY <1>0, <2>1
<1>3. ASSUME NEW w \in 1 .. N, NEW g, NEW h, \A i \in w + 1 .. N : g[i] = h[i]
      PROVE  Value(g, w) = Value(h, w)
  BY <1>1, <1>3
<1> HIDE DEF Value, S
<1>4. D \in [1 .. N -> [[1 .. N -> S] -> S]]
  BY <1>2
<1>5. \A w \in 1 .. N, g \in [1 .. N -> S] : D[w][g] = Value(g, w)
  OBVIOUS
<1> HIDE DEF D
<1>6. PICK f \in [1 .. N -> S] : Solves(f, D, 1, N)
  <2>1. \A g, h \in [1 .. N -> S], w \in 1 .. N :
           (\A i \in w + 1 .. N : g[i] = h[i]) => D[w][g] = D[w][h]
    BY <1>3, <1>5
  <2>2. LooksAhead(D, 1, N, S)
    BY <1>4, <2>1 DEF LooksAhead
  <2> QED  BY <1>0, <2>2, Backwards
<1>7. f = [w \in 1 .. N |-> Value(f, w)]
  BY <1>5, <1>6 DEF Solves
<1>8. from = [w \in 1 .. N |-> Value(from, w)]
  <2> DEFINE Eq(g) == g = [w \in 1 .. N |-> Value(g, w)]
  <2>1. from = CHOOSE g : Eq(g)
    BY DEF from, Value
  <2>2. Eq(f)
    BY <1>7
  <2> HIDE DEF Eq
  <2>3. Eq(from)
    BY <2>1, <2>2
  <2> QED  BY <2>3 DEF Eq
<1>9. Header(titles, p) = from[1]
  BY DEF Header
<1> HIDE DEF from
<1> DEFINE Right(w) == \/ from[w] = 0 /\ \A v \in w .. N : ~HeadAt(titles, p, v)
                       \/ /\ from[w] \in w .. N /\ HeadAt(titles, p, from[w])
                          /\ \A v \in w .. from[w] - 1 : ~HeadAt(titles, p, v)
           T == {k \in Int : \A w \in 1 .. N : w >= N - k => Right(w)}
<1>10. ASSUME NEW w \in 1 .. N, \A v \in w + 1 .. N : Right(v) PROVE Right(w)
  <2>1. from[w] = Value(from, w)
    BY <1>8
  <2>2. CASE w + iHeadLen - 1 > Len(p)
    <3>1. from[w] = 0
      BY <2>1, <2>2 DEF Value
    <3>2. \A v \in w .. N : ~(v \in 1 .. Len(p) - iHeadLen + 1)
      BY <1>0, <2>2
    <3> QED  BY <3>1, <3>2 DEF HeadAt
  <2>3. CASE ~(w + iHeadLen - 1 > Len(p)) /\ istitle(titles, SubSeq(p, w, w + iHeadLen - 1)) # {}
    <3>1. from[w] = w
      BY <2>1, <2>3 DEF Value
    <3>2. HeadAt(titles, p, w)
      <4>1. w \in 1 .. Len(p) - iHeadLen + 1
        BY <1>0, <2>3
      <4> QED  BY <2>3, <4>1 DEF HeadAt
    <3>3. w \in w .. N /\ ~\E v \in w .. w - 1 : TRUE
      BY <1>0
    <3> QED  BY <3>1, <3>2, <3>3
  <2>4. CASE ~(w + iHeadLen - 1 > Len(p)) /\ istitle(titles, SubSeq(p, w, w + iHeadLen - 1)) = {}
    <3> DEFINE u == Shift(p, w)
    <3>1. from[w] = from[u]
      BY <2>1, <2>4 DEF Value
    <3>2. u \in w + 1 .. N /\ \A v \in w + 1 .. u - 1 : p[v] # "$"
      BY <1>1, <2>4
    <3> HIDE DEF u
    <3>3. Right(u)
      BY <1>10, <3>2
    <3>4. \A v \in w .. u - 1 : ~HeadAt(titles, p, v)
      <4>1. ~HeadAt(titles, p, w)
        BY <2>4 DEF HeadAt
      <4>2. \A v \in w + 1 .. u - 1 : ~HeadAt(titles, p, v)
        BY <3>2, HeadBegins
      <4>3. \A v \in w .. u - 1 : v = w \/ v \in w + 1 .. u - 1
        BY <1>0, <3>2
      <4> QED  BY <4>1, <4>2, <4>3
    <3>5. CASE from[u] = 0 /\ \A v \in u .. N : ~HeadAt(titles, p, v)
      <4>1. \A v \in w .. N : v \in w .. u - 1 \/ v \in u .. N
        BY <1>0, <3>2
      <4> QED  BY <3>1, <3>4, <3>5, <4>1
    <3>6. CASE /\ from[u] \in u .. N /\ HeadAt(titles, p, from[u])
               /\ \A v \in u .. from[u] - 1 : ~HeadAt(titles, p, v)
      <4>1. from[u] \in w .. N /\ \A v \in w .. from[u] - 1 : v \in w .. u - 1 \/ v \in u .. from[u] - 1
        BY <1>0, <3>2, <3>6
      <4> QED  BY <3>1, <3>4, <3>6, <4>1
    <3> QED  BY <3>3, <3>5, <3>6
  <2> QED  BY <2>2, <2>3, <2>4
<1>11. Right(1)
  <2> HIDE DEF Right
  <2>1. 0 \in T
    <3> SUFFICES ASSUME NEW w \in 1 .. N, w >= N - 0 PROVE Right(w)
      OBVIOUS
    <3>1. ~\E v \in w + 1 .. N : TRUE
      BY <1>0
    <3> QED  BY <1>10, <3>1
  <2>2. ASSUME NEW k \in Int, 0 <= k, k \in T PROVE k + 1 \in T
    <3> SUFFICES ASSUME NEW w \in 1 .. N, w >= N - (k + 1) PROVE Right(w)
      OBVIOUS
    <3>1. \A v \in w + 1 .. N : v \in 1 .. N /\ v >= N - k
      BY <1>0
    <3> QED  BY <1>10, <2>2, <3>1
  <2>3. \A k \in Int : 0 <= k => k \in T
    <3> HIDE DEF T
    <3> QED  BY <2>1, <2>2, Induction
  <2>4. N \in T
    BY <1>0, <2>3
  <2>5. 1 \in 1 .. N /\ 1 >= N - N
    BY <1>0
  <2> QED  BY <2>4, <2>5
<1>12. \A w : HeadAt(titles, p, w) => w \in 1 .. N
  BY <1>0, HeadBegins
<1>13. CASE from[1] = 0 /\ \A v \in 1 .. N : ~HeadAt(titles, p, v)
  BY <1>9, <1>12, <1>13
<1>14. CASE /\ from[1] \in 1 .. N /\ HeadAt(titles, p, from[1])
            /\ \A v \in 1 .. from[1] - 1 : ~HeadAt(titles, p, v)
  <2>1. ASSUME NEW w, HeadAt(titles, p, w) PROVE from[1] <= w
    <3>1. w \in 1 .. N /\ ~(w \in 1 .. from[1] - 1)
      BY <1>12, <1>14, <2>1
    <3> QED  BY <1>0, <1>14, <3>1
  <2> QED  BY <1>9, <1>14, <2>1
<1> QED  BY <1>11, <1>13, <1>14

----------------------------------------------------------------------------
\* Parts of sequences.
LEMMA PartIs ==
    ASSUME NEW S, NEW s \in Seq(S), NEW i \in 1 .. Len(s) + 1, NEW j \in i - 1 .. Len(s)
    PROVE  /\ SubSeq(s, i, j) \in Seq(S) /\ Len(SubSeq(s, i, j)) = j - i + 1
           /\ \A n \in 1 .. j - i + 1 : SubSeq(s, i, j)[n] = s[i + n - 1]
<1>1. Len(s) \in Nat /\ i \in Int /\ j \in Int /\ 1 <= i /\ j <= Len(s) /\ i - 1 <= j
  OBVIOUS
<1>2. \A n \in i .. j : s[n] \in S
  BY <1>1
<1> QED  BY <1>1, <1>2, SubSeqProperties

\* A part of a part is a part of the whole.
LEMMA PartOfPart ==
    ASSUME NEW S, NEW s \in Seq(S), NEW a \in Nat, NEW b \in Nat, a <= b, b <= Len(s),
           NEW i \in 1 .. b - a + 1, NEW j \in i - 1 .. b - a
    PROVE  SubSeq(SubSeq(s, a + 1, b), i, j) = SubSeq(s, a + i, a + j)
<1> DEFINE p == SubSeq(s, a + 1, b)
<1>1. Len(s) \in Nat /\ a + 1 \in 1 .. Len(s) + 1 /\ b \in a + 1 - 1 .. Len(s)
      /\ a + i \in 1 .. Len(s) + 1 /\ a + j \in a + i - 1 .. Len(s) /\ b - (a + 1) + 1 = b - a
      /\ (a + j) - (a + i) + 1 = j - i + 1
  OBVIOUS
<1>2. p \in Seq(S) /\ Len(p) = b - a /\ \A n \in 1 .. b - a : p[n] = s[a + 1 + n - 1]
  BY <1>1, PartIs
<1>3. /\ SubSeq(s, a + i, a + j) \in Seq(S) /\ Len(SubSeq(s, a + i, a + j)) = j - i + 1
      /\ \A n \in 1 .. j - i + 1 : SubSeq(s, a + i, a + j)[n] = s[a + i + n - 1]
  BY <1>1, PartIs
<1> HIDE DEF p
<1>4. /\ SubSeq(p, i, j) \in Seq(S) /\ Len(SubSeq(p, i, j)) = j - i + 1
      /\ \A n \in 1 .. j - i + 1 : SubSeq(p, i, j)[n] = p[i + n - 1]
  BY <1>2, PartIs
<1>5. \A n \in 1 .. j - i + 1 : i + n - 1 \in 1 .. b - a /\ a + 1 + (i + n - 1) - 1 = a + i + n - 1
  OBVIOUS
<1>6. \A n \in 1 .. j - i + 1 : SubSeq(p, i, j)[n] = SubSeq(s, a + i, a + j)[n]
  BY <1>2, <1>3, <1>4, <1>5
<1>7. SubSeq(p, i, j) = SubSeq(s, a + i, a + j)
  BY <1>3, <1>4, <1>6, SeqEqual
<1> QED  BY <1>7 DEF p

\* What a scanner gathers: a title, and the stream from the m-th byte to the q-th.
Gathered(t, D, m, q) == Title(t) \o SubSeq(D, m + 1, q)

\* The bytes of it: the title's, then the stream's behind the m-th.
LEMMA GatheredIs ==
    ASSUME NEW t \in DOMAIN TitleLen, NEW D \in Seq(Symbol), NEW m \in Nat, NEW q \in m .. Len(D)
    PROVE  /\ Gathered(t, D, m, q) \in Seq(Symbol)
           /\ Len(Gathered(t, D, m, q)) = TitleLen[t] + q - m
           /\ \A j \in 1 .. TitleLen[t] : Gathered(t, D, m, q)[j] = Title(t)[j]
           /\ \A j \in TitleLen[t] + 1 .. TitleLen[t] + q - m :
                 Gathered(t, D, m, q)[j] = D[m + j - TitleLen[t]]
<1> DEFINE L == TitleLen[t]
           T == Title(t)
           P == SubSeq(D, m + 1, q)
<1>1. L \in Nat /\ T \in Seq(Symbol) /\ Len(T) = L
  BY TitleIs
<1>2. Len(D) \in Nat /\ m + 1 \in 1 .. Len(D) + 1 /\ q \in m + 1 - 1 .. Len(D) /\ q - (m + 1) + 1 = q - m
  OBVIOUS
<1>3. P \in Seq(Symbol) /\ Len(P) = q - m /\ \A n \in 1 .. q - m : P[n] = D[m + 1 + n - 1]
  BY <1>2, PartIs
<1> HIDE DEF L, T, P
<1>4. /\ T \o P \in Seq(Symbol) /\ Len(T \o P) = L + (q - m)
      /\ \A i \in 1 .. L + (q - m) : (T \o P)[i] = IF i <= L THEN T[i] ELSE P[i - L]
  <2>1. /\ T \o P \in Seq(Symbol) /\ Len(T \o P) = Len(T) + Len(P)
        /\ \A i \in 1 .. Len(T) + Len(P) : (T \o P)[i] = IF i <= Len(T) THEN T[i] ELSE P[i - Len(T)]
    BY <1>1, <1>3, ConcatProperties
  <2> QED  BY <1>1, <1>3, <2>1
<1>5. \A j \in 1 .. L : j \in 1 .. L + (q - m) /\ j <= L
  BY <1>1, <1>2
<1>6. \A j \in L + 1 .. L + q - m : j \in 1 .. L + (q - m) /\ ~(j <= L) /\ j - L \in 1 .. q - m
                                    /\ m + 1 + (j - L) - 1 = m + j - L
  BY <1>1, <1>2
<1>7. L + (q - m) = L + q - m
  BY <1>1, <1>2
<1>8. Gathered(t, D, m, q) = T \o P
  BY DEF Gathered, T, P
<1>9. \A j \in L + 1 .. L + q - m : (T \o P)[j] = D[m + j - L]
  BY <1>3, <1>4, <1>6
<1>10. \A j \in 1 .. L : (T \o P)[j] = T[j]
  BY <1>4, <1>5
<1> QED  BY <1>4, <1>7, <1>8, <1>9, <1>10 DEF L, T

\* What was gathered before is its beginning, what comes next its end.
LEMMA GatheredParts ==
    ASSUME NEW t \in DOMAIN TitleLen, NEW D \in Seq(Symbol), NEW m \in Nat,
           NEW k \in m .. Len(D), NEW q \in m .. k
    PROVE  /\ SubSeq(Gathered(t, D, m, k), 1, TitleLen[t] + q - m) = Gathered(t, D, m, q)
           /\ Gathered(t, D, m, q) \o SubSeq(D, q + 1, k) = Gathered(t, D, m, k)
<1> DEFINE L == TitleLen[t]
           G == Gathered(t, D, m, k)
           H == Gathered(t, D, m, q)
           P == SubSeq(D, q + 1, k)
<1>0. L \in Nat /\ Len(D) \in Nat /\ q \in Int /\ k \in Int /\ m <= q /\ q <= k /\ k <= Len(D)
  BY TitleIs
<1>1. G \in Seq(Symbol) /\ Len(G) = L + k - m
      /\ (\A j \in 1 .. L : G[j] = Title(t)[j]) /\ (\A j \in L + 1 .. L + k - m : G[j] = D[m + j - L])
  BY GatheredIs
<1>2. q \in m .. Len(D)
  BY <1>0
<1>3. H \in Seq(Symbol) /\ Len(H) = L + q - m
      /\ (\A j \in 1 .. L : H[j] = Title(t)[j]) /\ (\A j \in L + 1 .. L + q - m : H[j] = D[m + j - L])
  BY <1>2, GatheredIs
<1>4. q + 1 \in 1 .. Len(D) + 1 /\ k \in (q + 1) - 1 .. Len(D) /\ k - (q + 1) + 1 = k - q
  BY <1>0
<1>5. P \in Seq(Symbol) /\ Len(P) = k - q /\ \A n \in 1 .. k - q : P[n] = D[q + 1 + n - 1]
  BY <1>4, PartIs
<1> HIDE DEF L, G, H, P
<1>6. \A j \in 1 .. L + q - m : H[j] = G[j]
  <2>1. \A j \in 1 .. L + q - m : j \in 1 .. L \/ (j \in L + 1 .. L + q - m /\ j \in L + 1 .. L + k - m)
    BY <1>0
  <2> QED  BY <1>1, <1>3, <2>1
<1>7. SubSeq(G, 1, L + q - m) = H
  <2>1. 1 \in 1 .. Len(G) + 1 /\ L + q - m \in 1 - 1 .. Len(G) /\ (L + q - m) - 1 + 1 = L + q - m
    BY <1>0, <1>1
  <2>2. /\ SubSeq(G, 1, L + q - m) \in Seq(Symbol) /\ Len(SubSeq(G, 1, L + q - m)) = L + q - m
        /\ \A n \in 1 .. L + q - m : SubSeq(G, 1, L + q - m)[n] = G[1 + n - 1]
    BY <1>1, <2>1, PartIs
  <2>3. \A n \in 1 .. L + q - m : 1 + n - 1 = n
    BY <1>0
  <2>4. \A n \in 1 .. L + q - m : SubSeq(G, 1, L + q - m)[n] = H[n]
    BY <1>6, <2>2, <2>3
  <2> QED  BY <1>3, <2>2, <2>4, SeqEqual
<1>8. H \o P = G
  <2>1. /\ H \o P \in Seq(Symbol) /\ Len(H \o P) = Len(H) + Len(P)
        /\ \A i \in 1 .. Len(H) + Len(P) : (H \o P)[i] = IF i <= Len(H) THEN H[i] ELSE P[i - Len(H)]
    BY <1>3, <1>5, ConcatProperties
  <2>2. Len(H) + Len(P) = L + k - m
    BY <1>0, <1>3, <1>5
  <2>3. ASSUME NEW i \in 1 .. L + k - m PROVE (H \o P)[i] = G[i]
    <3>1. CASE i <= Len(H)
      BY <1>0, <1>3, <1>6, <2>1, <2>2, <3>1
    <3>2. CASE ~(i <= Len(H))
      <4>1. i - Len(H) \in 1 .. k - q /\ q + 1 + (i - Len(H)) - 1 = m + i - L /\ i \in L + 1 .. L + k - m
        BY <1>0, <1>3, <3>2
      <4> QED  BY <1>1, <1>5, <2>1, <2>2, <3>2, <4>1
    <3> QED  BY <3>1, <3>2
  <2> QED  BY <1>1, <2>1, <2>2, <2>3, SeqEqual
<1> QED  BY <1>7, <1>8 DEF L, G, H, P

\* An end of a frame at the q-th byte of a stream, and how far it is behind
\* the beginning of what is gathered.
Ends(D, q, star) ==
    /\ D[q - 1] = "CR" /\ D[q] = "LF"
    /\ star => D[q - 4] = "*"

Apart(star) == IF star THEN 5 ELSE 2

\* A frame that is gathered ends where the stream has an end, but not at
\* one that is too near to where it was begun.
LEMMA GatheredEnds ==
    ASSUME NEW t \in DOMAIN TitleLen, NEW D \in Seq(Symbol), NEW m \in Nat,
           NEW q \in m + 1 .. Len(D), NEW star \in BOOLEAN
    PROVE  (/\ LineEnds(Gathered(t, D, m, q))
            /\ star => StarBefore(Gathered(t, D, m, q)))
           <=> (m + Apart(star) <= q /\ Ends(D, q, star))
<1> DEFINE L == TitleLen[t]
           G == Gathered(t, D, m, q)
           n == L + q - m
<1>0. L \in 5 .. 9 /\ Len(D) \in Nat /\ q \in Int /\ m + 1 <= q /\ q <= Len(D) /\ q \in m .. Len(D)
  BY TitleIs
<1>1. Len(G) = n /\ (\A j \in 1 .. L : G[j] = Title(t)[j]) /\ (\A j \in L + 1 .. n : G[j] = D[m + j - L])
  BY <1>0, GatheredIs
<1>2. \A j \in 2 .. L : Title(t)[j] # "CR" /\ Title(t)[j] # "*" /\ Title(t)[j] # "LF"
  BY TitleIs
<1>3. n \in Int /\ n >= 6
  BY <1>0
<1> HIDE DEF G, L
<1>4. G[n] = D[q]
  <2>1. n \in L + 1 .. n /\ m + n - L = q
    BY <1>0
  <2> QED  BY <1>1, <2>1
<1>5. IF m + 2 <= q THEN G[n - 1] = D[q - 1] ELSE G[n - 1] # "CR"
  <2>1. CASE m + 2 <= q
    <3>1. n - 1 \in L + 1 .. n /\ m + (n - 1) - L = q - 1
      BY <1>0, <2>1
    <3> QED  BY <1>1, <2>1, <3>1
  <2>2. CASE ~(m + 2 <= q)
    <3>1. n - 1 \in 1 .. L /\ n - 1 \in 2 .. L
      BY <1>0, <2>2
    <3> QED  BY <1>1, <1>2, <2>2, <3>1
  <2> QED  BY <2>1, <2>2
<1>6. IF m + 5 <= q THEN G[n - 4] = D[q - 4] ELSE G[n - 4] # "*"
  <2>1. CASE m + 5 <= q
    <3>1. n - 4 \in L + 1 .. n /\ m + (n - 4) - L = q - 4
      BY <1>0, <2>1
    <3> QED  BY <1>1, <2>1, <3>1
  <2>2. CASE ~(m + 5 <= q)
    <3>1. n - 4 \in 1 .. L /\ n - 4 \in 2 .. L
      BY <1>0, <2>2
    <3> QED  BY <1>1, <1>2, <2>2, <3>1
  <2> QED  BY <2>1, <2>2
<1>7. LineEnds(G) <=> (G[n - 1] = "CR" /\ G[n] = "LF")
  BY <1>1, <1>3 DEF LineEnds
<1>8. StarBefore(G) <=> G[n - 4] = "*"
  BY <1>1, <1>3 DEF StarBefore
<1> HIDE DEF n
<1>9. LineEnds(G) <=> (m + 2 <= q /\ D[q - 1] = "CR" /\ D[q] = "LF")
  BY <1>4, <1>5, <1>7
<1>10. StarBefore(G) <=> (m + 5 <= q /\ D[q - 4] = "*")
  BY <1>6, <1>8
<1>11. m + 5 <= q => m + 2 <= q
  BY <1>0
<1>12. CASE star
  BY <1>9, <1>10, <1>11, <1>12 DEF Ends, Apart, G
<1>13. CASE ~star
  BY <1>9, <1>13 DEF Ends, Apart, G
<1> QED  BY <1>12, <1>13

\* Identifier gathers up to the next end that is far enough from the beginning.
EndsIn(D, m, r, k, star) == {q \in r + 1 .. k : m + Apart(star) <= q /\ Ends(D, q, star)}

Identifies(t, D, m, r, s, k, star, I) ==
    LET Q == EndsIn(D, m, r, k, star)
    IN  /\ Q = {} => /\ ~I.finished
                     /\ I.exp = [searchstatus |-> "IDENTIFIER", frame |-> Gathered(t, D, m, k)]
        /\ Q # {} => /\ I.finished /\ I.searchpos = Min(Q) - s
                     /\ I.exp = [searchstatus |-> "NULL", frame |-> Gathered(t, D, m, Min(Q))]

\* SEARCHMACHINE_IDENTIFIER gathers up to the first such end, if there is one.
LEMMA IdentifierIs ==
    ASSUME NEW t \in DOMAIN TitleLen, NEW D \in Seq(Symbol), NEW star \in BOOLEAN,
           NEW m \in Nat, NEW r \in Nat, NEW s \in Nat, NEW k \in Nat,
           m <= r, s <= r, r <= k, k <= Len(D)
    PROVE  Identifies(t, D, m, r, s, k, star,
                      Identifier(Gathered(t, D, m, r), SubSeq(D, s + 1, k), r + 1 - s, star))
<1> DEFINE L == TitleLen[t]
           frame == Gathered(t, D, m, r)
           p == SubSeq(D, s + 1, k)
           i == r + 1 - s
           all == frame \o SubSeq(p, i, Len(p))
           end == {n \in Len(frame) + 1 .. Len(all) :
                     /\ LineEnds(SubSeq(all, 1, n))
                     /\ star => StarBefore(SubSeq(all, 1, n))}
           I == Identifier(frame, p, i, star)
           Q == EndsIn(D, m, r, k, star)
           G(q) == Gathered(t, D, m, q)
<1>0. L \in 5 .. 9 /\ Len(D) \in Nat /\ r \in m .. k /\ r \in m .. Len(D) /\ k \in m .. Len(D)
  BY TitleIs
<1>1. Len(frame) = L + r - m
  BY <1>0, GatheredIs
<1>2. Len(p) = k - s
  <2>1. s + 1 \in 1 .. Len(D) + 1 /\ k \in s + 1 - 1 .. Len(D) /\ k - (s + 1) + 1 = k - s
    BY <1>0
  <2> QED  BY <2>1, PartIs
<1>3. SubSeq(p, i, Len(p)) = SubSeq(D, r + 1, k)
  <2>1. i \in 1 .. k - s + 1 /\ k - s \in i - 1 .. k - s /\ s + i = r + 1 /\ s + (k - s) = k /\ s <= k
    BY <1>0
  <2>2. SubSeq(p, i, k - s) = SubSeq(D, s + i, s + (k - s))
    BY <2>1, PartOfPart
  <2> QED  BY <1>2, <2>1, <2>2
<1>4. all = G(k)
  BY <1>0, <1>3, GatheredParts
<1>5. Len(all) = L + k - m
  <2>1. Len(G(k)) = L + k - m
    BY <1>0, GatheredIs
  <2> HIDE DEF all
  <2> QED  BY <1>4, <2>1
<1>6. \A q \in r + 1 .. k : SubSeq(all, 1, L + q - m) = G(q)
  <2>1. \A q \in r + 1 .. k : q \in m .. k
    BY <1>0
  <2>2. \A q \in r + 1 .. k : SubSeq(G(k), 1, L + q - m) = G(q)
    BY <1>0, <2>1, GatheredParts
  <2> HIDE DEF all
  <2> QED  BY <1>4, <2>2
<1>7. \A q \in r + 1 .. k : (LineEnds(G(q)) /\ (star => StarBefore(G(q))))
                             <=> (m + Apart(star) <= q /\ Ends(D, q, star))
  <2>1. \A q \in r + 1 .. k : q \in m + 1 .. Len(D)
    BY <1>0
  <2> QED  BY <2>1, GatheredEnds
<1>8. I = IF end = {}
          THEN [exp |-> [searchstatus |-> "IDENTIFIER", frame |-> all],
                finished |-> FALSE, searchpos |-> Len(p)]
          ELSE [exp |-> [searchstatus |-> "NULL", frame |-> SubSeq(all, 1, Min(end))],
                finished |-> TRUE, searchpos |-> i + Min(end) - Len(frame) - 1]
  BY DEF Identifier
<1>9. \A q \in r + 1 .. k : q \in Q <=> (m + Apart(star) <= q /\ Ends(D, q, star))
  BY DEF EndsIn
<1>10. Q \subseteq Nat /\ \A q \in Q : q \in r + 1 .. k
  BY DEF EndsIn
<1>11. \A n : n \in end <=> /\ n \in L + r - m + 1 .. L + k - m
                            /\ LineEnds(SubSeq(all, 1, n)) /\ (star => StarBefore(SubSeq(all, 1, n)))
  BY <1>1, <1>5
<1> HIDE DEF L, frame, p, i, all, end, I, Q, G
<1>12. \A q \in r + 1 .. k : L + q - m \in L + r - m + 1 .. L + k - m
  BY <1>0
<1>13. \A q \in r + 1 .. k : L + q - m \in end <=> q \in Q
  BY <1>6, <1>7, <1>9, <1>11, <1>12
<1>14. \A n \in end : n \in Nat /\ n - L + m \in r + 1 .. k /\ L + (n - L + m) - m = n
  BY <1>0, <1>11
<1>15. CASE Q = {}
  <2>1. end = {}
    BY <1>13, <1>14, <1>15
  <2> QED  BY <1>4, <1>8, <1>15, <2>1 DEF Identifies, I, Q, G, frame, p, i
<1>16. CASE Q # {}
  <2> DEFINE q == Min(Q)
  <2>1. q \in Q /\ (\A x \in Q : q <= x) /\ q \in r + 1 .. k
    BY <1>10, <1>16, MinIs
  <2> HIDE DEF q
  <2>2. L + q - m \in end
    BY <1>13, <2>1
  <2>3. \A n \in end : L + q - m <= n
    <3> SUFFICES ASSUME NEW n \in end PROVE L + q - m <= n
      OBVIOUS
    <3>1. n - L + m \in Q
      BY <1>13, <1>14
    <3>2. q <= n - L + m /\ n \in Nat
      BY <1>14, <2>1, <3>1
    <3> QED  BY <1>0, <2>1, <3>2
  <2>4. end \subseteq Nat
    BY <1>14
  <2>5. Min(end) = L + q - m
    BY <2>2, <2>3, <2>4, MinUnique
  <2>6. I.finished /\ I.searchpos = i + (L + q - m) - (L + r - m) - 1
        /\ I.exp = [searchstatus |-> "NULL", frame |-> SubSeq(all, 1, L + q - m)]
    BY <1>1, <1>8, <2>2, <2>5
  <2>7. I.searchpos = q - s
    BY <1>0, <2>1, <2>6 DEF i
  <2>8. I.exp = [searchstatus |-> "NULL", frame |-> G(q)]
    BY <1>6, <2>1, <2>6
  <2> QED  BY <1>16, <2>6, <2>7, <2>8 DEF Identifies, I, Q, G, frame, p, i, q
<1> QED  BY <1>15, <1>16

----------------------------------------------------------------------------
\* What a JSON object begins with, by a name that the provers can read.
Brace == "{"

\* No byte around a text is a brace.
LEMMA BraceIs ==
    /\ Brace # "$" /\ Brace # "*" /\ Brace # "hex" /\ Brace # "CR" /\ Brace # "LF" /\ Brace # "NUL"
    /\ \A t \in {"initsess", "ping", "auth", "initack", "pong", "printack", "show"} : t # Brace
<1>1. Brace # "$" /\ Brace # "*" /\ Brace # "hex" /\ Brace # "CR" /\ Brace # "LF" /\ Brace # "NUL"
  BY Zenon DEF Brace
<1>2. \A t \in {"initsess", "ping", "auth", "initack", "pong", "printack", "show"} : t # Brace
  BY Zenon DEF Brace
<1> QED  BY <1>1, <1>2

(***************************************************************************)
(* A stream y as the scanners meet it: its frames and bytes, where each    *)
(* frame begins and ends, and whether '*' is looked for at an end.         *)
(***************************************************************************)
FramesOf(y) == 1 .. Len(y.frames)
TitleOf(y, f) == y.frames[f].title
TextOf(y, f)  == y.frames[f].text
SizeOf(y, f)  == TitleLen[TitleOf(y, f)]

Placed(y) ==
    /\ y.bytes \in Seq(Symbol) /\ y.star \in BOOLEAN /\ Len(y.frames) \in Nat
    /\ \A f \in FramesOf(y) :
          /\ TitleOf(y, f) \in DOMAIN TitleLen
          /\ TextOf(y, f) \in Seq(Symbol) /\ TextOf(y, f) # <<>> /\ Opens(TextOf(y, f)) # {}
          /\ y.begin[f] \in Nat /\ 1 <= y.begin[f]
          /\ y.end[f] = y.begin[f] + SizeOf(y, f) + Len(TextOf(y, f)) + 4
          /\ y.end[f] <= Len(y.bytes)
    /\ \A f, g \in FramesOf(y) : f < g => y.end[f] < y.begin[g]

Spelled(y) ==
    \A f \in FramesOf(y) :
       /\ \A i \in 1 .. SizeOf(y, f) : y.bytes[y.begin[f] + i - 1] = Title(TitleOf(y, f))[i]
       /\ \A i \in 1 .. Len(TextOf(y, f)) :
             y.bytes[y.begin[f] + SizeOf(y, f) + i - 1] = TextOf(y, f)[i]

DollarsBegin(y) ==
    \A j \in 1 .. Len(y.bytes) :
       y.bytes[j] = "$" => \E f \in FramesOf(y) : j = y.begin[f]

EndsEnd(y) ==
    \A q \in 6 .. Len(y.bytes) :
       Ends(y.bytes, q, y.star) <=> \E f \in FramesOf(y) : q = y.end[f]

\* Gathering from the m-th byte on is gathering the frame f.
GathersOf(y, f, m) ==
    /\ m \in Nat /\ 5 <= m /\ m < y.begin[f] + SizeOf(y, f)
    /\ \A g \in FramesOf(y) : g < f => y.end[g] - 4 <= m

TextsOpen(y) ==
    \A f \in FramesOf(y), m \in Nat :
       GathersOf(y, f, m) =>
          \A j \in m + 1 .. y.begin[f] + SizeOf(y, f) - 1 : y.bytes[j] # Brace

Layout(y) == Placed(y) /\ Spelled(y) /\ DollarsBegin(y) /\ EndsEnd(y) /\ TextsOpen(y)

\* The numbers of a frame.
LEMMA PlacedIs ==
    ASSUME NEW y, Placed(y), NEW f \in FramesOf(y)
    PROVE  /\ f \in Nat /\ Len(y.bytes) \in Nat
           /\ TitleOf(y, f) \in DOMAIN TitleLen /\ SizeOf(y, f) \in 5 .. 9 /\ SizeOf(y, f) <= iHeadLen
           /\ Len(TextOf(y, f)) \in Nat /\ 1 <= Len(TextOf(y, f))
           /\ y.begin[f] \in Nat /\ 1 <= y.begin[f]
           /\ y.end[f] \in Nat /\ y.end[f] <= Len(y.bytes)
           /\ y.end[f] = y.begin[f] + SizeOf(y, f) + Len(TextOf(y, f)) + 4
           /\ y.begin[f] + SizeOf(y, f) + 5 <= y.end[f]
<1>1. /\ TitleOf(y, f) \in DOMAIN TitleLen
      /\ TextOf(y, f) \in Seq(Symbol) /\ TextOf(y, f) # <<>>
      /\ y.begin[f] \in Nat /\ 1 <= y.begin[f]
      /\ y.end[f] = y.begin[f] + SizeOf(y, f) + Len(TextOf(y, f)) + 4
      /\ y.end[f] <= Len(y.bytes)
      /\ y.bytes \in Seq(Symbol) /\ Len(y.frames) \in Nat
  BY DEF Placed
<1>2. Len(y.bytes) \in Nat
  BY <1>1
<1>3. SizeOf(y, f) \in 5 .. 9 /\ SizeOf(y, f) <= iHeadLen
  BY <1>1, TitleIs DEF SizeOf
<1>4. Len(TextOf(y, f)) \in Nat /\ Len(TextOf(y, f)) # 0
  <2> DEFINE x == TextOf(y, f)
  <2> HIDE DEF x
  <2>1. x \in Seq(Symbol) /\ x # <<>> => Len(x) \in Nat /\ Len(x) # 0
    BY EmptySeq
  <2> QED  BY <1>1, <2>1 DEF x
<1>5. f \in Nat
  BY <1>1 DEF FramesOf
<1> DEFINE a == Len(TextOf(y, f))
           b == SizeOf(y, f)
           c == y.begin[f]
           d == y.end[f]
<1> HIDE DEF a, b, c, d
<1>6. a \in Nat /\ 1 <= a /\ b \in 5 .. 9 /\ c \in Nat /\ d = c + b + a + 4
  BY <1>1, <1>3, <1>4 DEF a, b, c, d
<1>7. d \in Nat /\ c + b + 5 <= d
  BY <1>6
<1> QED  BY <1>1, <1>2, <1>3, <1>5, <1>6, <1>7 DEF a, b, c, d

\* One frame ends before the next begins.
LEMMA InOrder ==
    ASSUME NEW y, Placed(y), NEW f \in FramesOf(y), NEW g \in FramesOf(y)
    PROVE  /\ f < g => y.end[f] < y.begin[g] /\ y.begin[f] < y.begin[g] /\ y.end[f] < y.end[g]
           /\ y.end[f] <= y.end[g] => f <= g
           /\ y.begin[f] <= y.begin[g] => f <= g
           /\ f = g \/ f < g \/ g < f
<1>1. \A h \in FramesOf(y) : h \in Nat /\ y.begin[h] \in Nat /\ y.end[h] \in Nat /\ y.begin[h] < y.end[h]
  <2> SUFFICES ASSUME NEW h \in FramesOf(y)
               PROVE  h \in Nat /\ y.begin[h] \in Nat /\ y.end[h] \in Nat /\ y.begin[h] < y.end[h]
    OBVIOUS
  <2> DEFINE a == SizeOf(y, h)
             b == y.begin[h]
             c == y.end[h]
  <2>1. h \in Nat /\ a \in 5 .. 9 /\ b \in Nat /\ c \in Nat /\ b + a + 5 <= c
    BY PlacedIs
  <2> HIDE DEF a, b, c
  <2>2. b < c
    BY <2>1
  <2> QED  BY <2>1, <2>2 DEF b, c
<1>2. y.begin[f] \in Nat /\ y.end[f] \in Nat /\ y.begin[g] \in Nat /\ y.end[g] \in Nat
      /\ f \in Nat /\ g \in Nat
  BY <1>1
<1>3. (f < g => y.end[f] < y.begin[g]) /\ (g < f => y.end[g] < y.begin[f])
  BY DEF Placed
<1> QED  BY <1>1, <1>2, <1>3

\* What a handler is given of a frame.
Sent(y, f) == [title |-> TitleOf(y, f), json |-> Json(TextOf(y, f))]

\* An object of a text begins with a brace.
LEMMA OpensIs ==
    ASSUME NEW x
    PROVE  \A i : i \in Opens(x) <=> (i \in 1 .. Len(x) /\ x[i] = Brace)
BY Zenon DEF Opens, Brace

\* The message is of the frame that is gathered: its title, and its text from
\* the first brace on, as no brace comes between m and the text.
LEMMA MessageIs ==
    ASSUME NEW y, Layout(y), NEW f \in FramesOf(y), NEW m \in Nat, GathersOf(y, f, m)
    PROVE  Message(Gathered(TitleOf(y, f), y.bytes, m, y.end[f])) = Sent(y, f)
<1> DEFINE t == TitleOf(y, f)
           x == TextOf(y, f)
           L == SizeOf(y, f)
           D == y.bytes
           b == y.begin[f]
           e == y.end[f]
           G == Gathered(t, D, m, e)
           n == L + e - m - 5
           T == SubSeq(G, 1, n)
           a0 == b + L + L - m
           j0 == Min(Opens(x))
           i0 == a0 + j0 - 1
           open == Opens(T)
<1>0. Placed(y) /\ Spelled(y) /\ TextsOpen(y)
  BY DEF Layout
<1>1. /\ t \in DOMAIN TitleLen /\ L = TitleLen[t] /\ L \in 5 .. 9 /\ Len(D) \in Nat /\ D \in Seq(Symbol)
      /\ b \in Nat /\ 1 <= b /\ e \in Nat /\ e <= Len(D) /\ Len(x) \in Nat /\ 1 <= Len(x)
      /\ e = b + L + Len(x) + 4
      /\ x \in Seq(Symbol) /\ Opens(x) # {}
  <2>1. y.bytes \in Seq(Symbol) /\ TextOf(y, f) \in Seq(Symbol) /\ Opens(TextOf(y, f)) # {}
    BY <1>0 DEF Placed
  <2> QED  BY <1>0, <2>1, PlacedIs DEF SizeOf
<1>2. /\ m \in Nat /\ m < b + L
      /\ \A j \in m + 1 .. b + L - 1 : D[j] # Brace
  <2>1. m \in Nat /\ m < b + L
    BY DEF GathersOf
  <2> QED  BY <1>0, <2>1 DEF TextsOpen
<1>3. \A i \in 1 .. Len(x) : D[b + L + i - 1] = x[i]
  BY <1>0 DEF Spelled
<1>4. (\A j \in 2 .. L : Title(t)[j] = t) /\ Title(t)[1] = "$" /\ t # Brace
  <2>1. t # Brace
    BY <1>1, TitleIs, BraceIs
  <2> QED  BY <1>1, <2>1, TitleIs
<1> HIDE DEF t, x, L, D, b, e
<1>x. Opens(x) \subseteq Nat /\ \A i : i \in Opens(x) <=> (i \in 1 .. Len(x) /\ x[i] = Brace)
  BY OpensIs
<1>j. j0 \in Opens(x) /\ \A i \in Opens(x) : j0 <= i
  BY <1>1, <1>x, MinIs
<1>l. j0 \in 1 .. Len(x) /\ x[j0] = Brace
  BY <1>x, <1>j
<1>u. Json(x) = SubSeq(x, j0, Len(x))
  BY <1>1 DEF Json
<1> HIDE DEF j0
<1>n. /\ L \in Nat /\ 5 <= L /\ b \in Nat /\ 1 <= b /\ e \in Nat /\ Len(x) \in Nat /\ 1 <= Len(x)
      /\ e = b + L + Len(x) + 4 /\ m \in Nat /\ m < b + L /\ j0 \in Nat /\ 1 <= j0 /\ j0 <= Len(x)
  BY <1>1, <1>2, <1>l
<1>5. G \in Seq(Symbol) /\ Len(G) = L + e - m
      /\ (\A j \in 1 .. L : G[j] = Title(t)[j]) /\ (\A j \in L + 1 .. L + e - m : G[j] = D[m + j - L])
  <2>1. e \in m .. Len(D)
    BY <1>1, <1>2
  <2>2. G \in Seq(Symbol) /\ Len(G) = TitleLen[t] + e - m
        /\ (\A j \in 1 .. TitleLen[t] : G[j] = Title(t)[j])
        /\ (\A j \in TitleLen[t] + 1 .. TitleLen[t] + e - m : G[j] = D[m + j - TitleLen[t]])
    <3>1. t \in DOMAIN TitleLen /\ D \in Seq(Symbol) /\ m \in Nat
      BY <1>1
    <3> QED  BY <2>1, <3>1, GatheredIs
  <2> HIDE DEF G
  <2>3. TitleLen[t] = L
    BY <1>1
  <2> QED  BY <2>2, <2>3
<1> HIDE DEF G
<1>a. /\ n \in Nat /\ a0 \in L + 1 .. n /\ n - a0 + 1 = Len(x) /\ n <= L + e - m /\ m + a0 - L = b + L
      /\ L + e - m - 5 = n /\ L + e - m \in Nat /\ i0 \in a0 .. n /\ i0 = a0 + j0 - 1
  BY <1>n
<1>6. T \in Seq(Symbol) /\ Len(T) = n /\ \A j \in 1 .. n : T[j] = G[j]
  <2> HIDE DEF n
  <2>0. Len(G) = L + e - m /\ Len(G) \in Nat /\ n <= Len(G) /\ n \in Nat
    BY <1>a, <1>5
  <2>1. 1 \in 1 .. Len(G) + 1 /\ n \in 1 - 1 .. Len(G) /\ n - 1 + 1 = n /\ \A j \in 1 .. n : 1 + j - 1 = j
    BY <2>0
  <2>2. T \in Seq(Symbol) /\ Len(T) = n - 1 + 1 /\ \A j \in 1 .. n - 1 + 1 : T[j] = G[1 + j - 1]
    BY <1>5, <2>1, PartIs
  <2> QED  BY <2>1, <2>2
<1>7. /\ n \in Nat /\ a0 \in L + 1 .. n /\ n - a0 + 1 = Len(x) /\ n <= L + e - m /\ m + a0 - L = b + L
      /\ i0 \in a0 .. n /\ i0 = a0 + j0 - 1
  BY <1>a
<1>8. Message(G) = [title |-> G[2],
                    json |-> IF open = {} THEN <<"stale">> ELSE SubSeq(T, Min(open), Len(T))]
  <2>1. Len(G) - 5 = n
    BY <1>1, <1>2, <1>5
  <2> HIDE DEF n
  <2>2. Message(G) = [title |-> G[2], json |-> Json(SubSeq(G, 1, Len(G) - 5))]
    BY DEF Message
  <2>3. Json(T) = IF open = {} THEN <<"stale">> ELSE SubSeq(T, Min(open), Len(T))
    BY DEF Json
  <2> QED  BY <2>1, <2>2, <2>3
<1>9. G[2] = t
  <2>1. 2 \in 1 .. L /\ 2 \in 2 .. L
    BY <1>n
  <2> QED  BY <1>4, <1>5, <2>1
<1>10. open \subseteq Nat /\ \A i : i \in open <=> (i \in 1 .. n /\ T[i] = Brace)
  <2>1. \A i : i \in open <=> (i \in 1 .. Len(T) /\ T[i] = Brace)
    BY OpensIs
  <2> HIDE DEF T, n, open
  <2> QED  BY <1>6, <1>7, <2>1
<1> HIDE DEF T, n, a0, i0, open
<1>11. \A i \in 1 .. Len(x) : T[a0 + i - 1] = x[i]
  <2> SUFFICES ASSUME NEW i \in 1 .. Len(x) PROVE T[a0 + i - 1] = x[i]
    OBVIOUS
  <2>1. /\ a0 + i - 1 \in 1 .. n /\ a0 + i - 1 \in L + 1 .. L + e - m
        /\ m + (a0 + i - 1) - L = b + L + i - 1
    BY <1>n, <1>7
  <2>2. T[a0 + i - 1] = G[a0 + i - 1]
    BY <1>6, <2>1
  <2>3. G[a0 + i - 1] = D[b + L + i - 1]
    BY <1>5, <2>1
  <2> QED  BY <1>3, <2>2, <2>3
<1>12. i0 \in open
  <2>1. i0 \in 1 .. n /\ i0 = a0 + j0 - 1
    BY <1>n, <1>7
  <2> QED  BY <1>l, <1>10, <1>11, <2>1
<1>13. \A i \in open : i0 <= i
  <2> SUFFICES ASSUME NEW i \in open, ~(i0 <= i) PROVE FALSE
    OBVIOUS
  <2>1. i \in 1 .. n /\ i < i0 /\ G[i] = Brace /\ T[i] = Brace
    BY <1>6, <1>7, <1>10
  <2>2. CASE i <= L
    <3>1. i \in 1 .. L /\ (i = 1 \/ i \in 2 .. L)
      BY <1>1, <2>1, <2>2
    <3>2. Title(t)[i] # Brace
      BY <1>4, <3>1, BraceIs
    <3> QED  BY <1>5, <2>1, <3>1, <3>2
  <2>3. CASE ~(i <= L) /\ i < a0
    <3>1. i \in L + 1 .. L + e - m /\ m + i - L \in m + 1 .. b + L - 1
      BY <1>n, <1>7, <2>1, <2>3
    <3> QED  BY <1>2, <1>5, <2>1, <3>1
  <2>4. CASE ~(i < a0)
    <3>1. i - a0 + 1 \in 1 .. Len(x) /\ a0 + (i - a0 + 1) - 1 = i /\ i - a0 + 1 < j0
      BY <1>n, <1>7, <2>1, <2>4
    <3>2. x[i - a0 + 1] = Brace
      BY <1>11, <2>1, <3>1
    <3>3. i - a0 + 1 \in Opens(x)
      BY <1>x, <3>1, <3>2
    <3> QED  BY <1>j, <1>n, <3>1, <3>3
  <2> QED  BY <2>2, <2>3, <2>4
<1>14. Min(open) = i0
  BY <1>10, <1>12, <1>13, MinUnique
<1>15. SubSeq(T, i0, n) = SubSeq(x, j0, Len(x))
  <2>1. i0 \in 1 .. Len(T) + 1 /\ n \in i0 - 1 .. Len(T) /\ n - i0 + 1 = Len(x) - j0 + 1
        /\ j0 \in 1 .. Len(x) + 1 /\ Len(x) \in j0 - 1 .. Len(x)
    BY <1>n, <1>6, <1>7
  <2>2. /\ SubSeq(T, i0, n) \in Seq(Symbol) /\ Len(SubSeq(T, i0, n)) = n - i0 + 1
        /\ \A i \in 1 .. n - i0 + 1 : SubSeq(T, i0, n)[i] = T[i0 + i - 1]
    BY <1>6, <2>1, PartIs
  <2>3. /\ SubSeq(x, j0, Len(x)) \in Seq(Symbol) /\ Len(SubSeq(x, j0, Len(x))) = Len(x) - j0 + 1
        /\ \A i \in 1 .. Len(x) - j0 + 1 : SubSeq(x, j0, Len(x))[i] = x[j0 + i - 1]
    BY <1>1, <2>1, PartIs
  <2>4. \A i \in 1 .. Len(x) - j0 + 1 : T[i0 + i - 1] = x[j0 + i - 1]
    <3> SUFFICES ASSUME NEW i \in 1 .. Len(x) - j0 + 1 PROVE T[i0 + i - 1] = x[j0 + i - 1]
      OBVIOUS
    <3>1. j0 + i - 1 \in 1 .. Len(x) /\ i0 + i - 1 = a0 + (j0 + i - 1) - 1
      BY <1>n, <1>7
    <3> QED  BY <1>11, <3>1
  <2> DEFINE A == SubSeq(T, i0, n)
             C == SubSeq(x, j0, Len(x))
  <2>5. /\ A \in Seq(Symbol) /\ C \in Seq(Symbol) /\ Len(A) = Len(x) - j0 + 1 /\ Len(C) = Len(A)
        /\ \A i \in 1 .. Len(x) - j0 + 1 : A[i] = C[i]
    BY <2>1, <2>2, <2>3, <2>4
  <2> HIDE DEF A, C
  <2>6. \A i \in 1 .. Len(A) : A[i] = C[i]
    BY <2>5
  <2>7. A = C
    BY <2>5, <2>6, SeqEqual
  <2> QED  BY <2>7 DEF A, C
<1>16. Message(G) = [title |-> t, json |-> Json(x)]
  BY <1>u, <1>6, <1>8, <1>9, <1>12, <1>14, <1>15
<1> QED  BY <1>16 DEF G, t, x, D, e, Sent

\* A head that is not cut is found, where it begins.
LEMMA HeadComes ==
    ASSUME NEW y, Layout(y), NEW f \in FramesOf(y), NEW titles, titles \subseteq DOMAIN TitleLen,
           TitleOf(y, f) \in titles,
           NEW s \in Nat, NEW k \in Nat, k <= Len(y.bytes), s < y.begin[f], y.begin[f] + iHeadLen - 1 <= k
    PROVE  HeadAt(titles, SubSeq(y.bytes, s + 1, k), y.begin[f] - s)
<1> DEFINE t == TitleOf(y, f)
           L == SizeOf(y, f)
           D == y.bytes
           b == y.begin[f]
           p == SubSeq(D, s + 1, k)
           w == b - s
           head == SubSeq(p, w, w + iHeadLen - 1)
           T == Title(t)
<1>0. Placed(y) /\ Spelled(y)
  BY DEF Layout
<1>1. t \in titles /\ t \in DOMAIN TitleLen /\ L = TitleLen[t]
  BY DEF SizeOf
<1>2. /\ L \in Nat /\ L <= iHeadLen /\ Len(D) \in Nat /\ b \in Nat /\ 1 <= b
      /\ iHeadLen \in Nat /\ 9 <= iHeadLen
  BY <1>0, PlacedIs, HeadIs
<1>3. D \in Seq(Symbol)
  BY <1>0 DEF Placed
<1>4. T \in Seq(Symbol) /\ Len(T) = L
  BY <1>1, TitleIs
<1>5. \A i \in 1 .. L : D[b + i - 1] = T[i]
  BY <1>0 DEF Spelled
<1> HIDE DEF t, L, D, b, T
<1>6. k <= Len(D) /\ s < b /\ b + iHeadLen - 1 <= k
  BY DEF D, b
<1>7. /\ w \in Nat /\ 1 <= w /\ w \in 1 .. k - s + 1 /\ w + iHeadLen - 1 \in w - 1 .. k - s
      /\ s + w = b /\ s + (w + iHeadLen - 1) = b + iHeadLen - 1 /\ s <= k
      /\ w \in 1 .. k - s - iHeadLen + 1
      /\ s + 1 \in 1 .. Len(D) + 1 /\ k \in s + 1 - 1 .. Len(D) /\ k - (s + 1) + 1 = k - s
      /\ b \in 1 .. Len(D) + 1 /\ b + iHeadLen - 1 \in b - 1 .. Len(D)
      /\ (b + iHeadLen - 1) - b + 1 = iHeadLen
  BY <1>2, <1>6
<1>8. Len(p) = k - s
  BY <1>3, <1>7, PartIs
<1> HIDE DEF w
<1>9. head = SubSeq(D, b, b + iHeadLen - 1)
  <2>1. SubSeq(p, w, w + iHeadLen - 1) = SubSeq(D, s + w, s + (w + iHeadLen - 1))
    BY <1>3, <1>6, <1>7, PartOfPart
  <2> HIDE DEF p
  <2> QED  BY <1>7, <2>1
<1>10. head \in Seq(Symbol) /\ Len(head) = iHeadLen /\ \A i \in 1 .. iHeadLen : head[i] = D[b + i - 1]
  <2> DEFINE q == b + iHeadLen - 1
             h == SubSeq(D, b, q)
  <2>1. b \in 1 .. Len(D) + 1 /\ q \in b - 1 .. Len(D) /\ q - b + 1 = iHeadLen
    BY <1>7
  <2>2. head = h
    BY <1>9
  <2> HIDE DEF q
  <2>3. h \in Seq(Symbol) /\ Len(h) = q - b + 1 /\ \A i \in 1 .. q - b + 1 : h[i] = D[b + i - 1]
    BY <1>3, <2>1, PartIs
  <2> HIDE DEF h, head
  <2> QED  BY <2>1, <2>2, <2>3
<1> HIDE DEF head
<1>11. SubSeq(T, 1, L) = SubSeq(head, 1, L)
  <2>1. 1 \in 1 .. Len(T) + 1 /\ L \in 1 - 1 .. Len(T) /\ 1 \in 1 .. Len(head) + 1 /\ L \in 1 - 1 .. Len(head)
        /\ L - 1 + 1 = L
    BY <1>2, <1>4, <1>10
  <2>2. /\ SubSeq(T, 1, L) \in Seq(Symbol) /\ Len(SubSeq(T, 1, L)) = L - 1 + 1
        /\ \A i \in 1 .. L - 1 + 1 : SubSeq(T, 1, L)[i] = T[1 + i - 1]
    BY <1>4, <2>1, PartIs
  <2>3. /\ SubSeq(head, 1, L) \in Seq(Symbol) /\ Len(SubSeq(head, 1, L)) = L - 1 + 1
        /\ \A i \in 1 .. L - 1 + 1 : SubSeq(head, 1, L)[i] = head[1 + i - 1]
    BY <1>10, <2>1, PartIs
  <2>4. \A i \in 1 .. L : 1 + i - 1 = i /\ i \in 1 .. iHeadLen
    BY <1>2
  <2>5. \A i \in 1 .. L : SubSeq(T, 1, L)[i] = SubSeq(head, 1, L)[i]
    BY <1>5, <1>10, <2>1, <2>2, <2>3, <2>4
  <2> QED  BY <2>1, <2>2, <2>3, <2>5, SeqEqual
<1>12. IsPrefix(T, head)
  BY <1>2, <1>4, <1>10, <1>11 DEF IsPrefix
<1>13. istitle(titles, head) # {}
  BY <1>1, <1>12 DEF istitle, T
<1>14. w \in 1 .. Len(p) - iHeadLen + 1
  <2> HIDE DEF p
  <2> QED  BY <1>7, <1>8
<1>15. HeadAt(titles, p, w)
  BY <1>13, <1>14 DEF HeadAt, head
<1> QED  BY <1>15 DEF p, D, w, b

----------------------------------------------------------------------------
(***************************************************************************)
(* What a scanner e, which looks for these titles, keeps of a stream y     *)
(* when the bytes up to the s-th were used; L are the lost frames.  Idle,  *)
(* it is in no frame but a lost one; else it gathers the frame it is in.   *)
(***************************************************************************)
Idles(y, s, L) ==
    \A f \in FramesOf(y) : y.begin[f] <= s /\ s < y.end[f] => f \in L

Gathering(y, s, titles, f, m) ==
    /\ y.begin[f] <= s /\ s < y.end[f] /\ m <= s
    /\ GathersOf(y, f, m) /\ TitleOf(y, f) \in titles

At(y, s, titles, e, L) ==
    \/ e.searchstatus = "NULL" /\ Idles(y, s, L)
    \/ \E f \in FramesOf(y), m \in Nat :
          /\ Gathering(y, s, titles, f, m)
          /\ e = [searchstatus |-> "IDENTIFIER",
                  frame |-> Gathered(TitleOf(y, f), y.bytes, m, s)]

\* Of the frames that begin behind s, in bytes up to the k-th, those that
\* are not lost have a title that is looked for, and their heads whole.
Whole(y, s, k, titles, L) ==
    \A f \in FramesOf(y) :
       s < y.begin[f] /\ y.begin[f] <= k /\ f \notin L =>
          TitleOf(y, f) \in titles /\ y.begin[f] + iHeadLen - 1 <= k

\* What a search R does with the bytes s + 1 .. k: it finds the end of a
\* frame h, with only lost ones before it, or the bytes end, with only lost
\* ones in them.
Missed(y, s, k, L) ==
    \A f \in FramesOf(y) : s < y.end[f] /\ y.end[f] <= k => f \in L

Finds(y, s, k, L, R, h) ==
    /\ R.finished /\ R.exp.searchstatus = "NULL"
    /\ R.searchpos = y.end[h] - s /\ s < y.end[h] /\ y.end[h] <= k
    /\ \A f \in FramesOf(y) : s < y.end[f] /\ y.end[f] < y.end[h] => f \in L
    /\ h \notin L => Message(R.exp.frame) = Sent(y, h)

Searches(y, s, k, titles, L, R) ==
    \/ ~R.finished /\ At(y, k, titles, R.exp, L) /\ Missed(y, s, k, L)
    \/ \E h \in FramesOf(y) : Finds(y, s, k, L, R, h)

\* The ends that a scanner finds are those of frames, and it finds all but
\* those too near to where the frame was begun.
LEMMA EndsAre ==
    ASSUME NEW y, Layout(y), NEW m \in Nat, 5 <= m, NEW r \in Nat, m <= r,
           NEW k \in Nat, k <= Len(y.bytes)
    PROVE  /\ \A q \in EndsIn(y.bytes, m, r, k, y.star) :
                 /\ q \in Nat /\ r < q /\ q <= k /\ m + 2 <= q
                 /\ \E h \in FramesOf(y) : q = y.end[h]
           /\ \A h \in FramesOf(y) :
                 r < y.end[h] /\ y.end[h] <= k /\ m + 5 <= y.end[h]
                    => y.end[h] \in EndsIn(y.bytes, m, r, k, y.star)
<1> DEFINE Q == EndsIn(y.bytes, m, r, k, y.star)
           a == Apart(y.star)
<1>1. a \in 2 .. 5
  BY DEF Apart
<1>2. \A q \in 6 .. Len(y.bytes) : Ends(y.bytes, q, y.star) <=> \E f \in FramesOf(y) : q = y.end[f]
  BY DEF Layout, EndsEnd
<1>3. Placed(y) /\ Len(y.bytes) \in Nat
  BY DEF Layout, Placed
<1>4. \A q : q \in Q <=> (q \in r + 1 .. k /\ m + a <= q /\ Ends(y.bytes, q, y.star))
  BY DEF EndsIn
<1> HIDE DEF Q, a
<1>5. ASSUME NEW q \in Q
      PROVE  q \in Nat /\ r < q /\ q <= k /\ m + 2 <= q /\ \E h \in FramesOf(y) : q = y.end[h]
  <2>1. q \in r + 1 .. k /\ m + a <= q /\ Ends(y.bytes, q, y.star)
    BY <1>4
  <2>2. q \in 6 .. Len(y.bytes) /\ q \in Nat /\ r < q /\ q <= k /\ m + 2 <= q
    BY <1>1, <1>3, <2>1
  <2> QED  BY <1>2, <2>1, <2>2
<1>6. ASSUME NEW h \in FramesOf(y), r < y.end[h], y.end[h] <= k, m + 5 <= y.end[h]
      PROVE  y.end[h] \in Q
  <2> DEFINE q == y.end[h]
  <2>1. q \in Nat
    BY <1>3, PlacedIs
  <2>2. r < q /\ q <= k /\ m + 5 <= q
    BY <1>6
  <2>3. \E f \in FramesOf(y) : q = y.end[f]
    OBVIOUS
  <2> HIDE DEF q
  <2>4. q \in 6 .. Len(y.bytes) /\ q \in r + 1 .. k /\ m + a <= q
    BY <1>1, <1>3, <2>1, <2>2
  <2>5. q \in Q
    BY <1>2, <1>4, <2>3, <2>4
  <2> QED  BY <2>5 DEF q
<1> QED  BY <1>5, <1>6 DEF Q

\* A frame f is gathered from the m-th byte on; the bytes up to the r-th
\* were gathered before.
LEMMA GatherIs ==
    ASSUME NEW y, Layout(y), NEW L, NEW s \in Nat, NEW r \in Nat, NEW k \in Nat,
           s <= r, r <= k, k <= Len(y.bytes),
           NEW titles, NEW f \in FramesOf(y), TitleOf(y, f) \in titles,
           NEW m \in Nat, 5 <= m, m <= r, m < y.begin[f] + SizeOf(y, f),
           y.begin[f] <= k, r < y.end[f],
           \A g \in FramesOf(y) : g < f /\ g \notin L => y.end[g] <= s,
           \A g \in FramesOf(y) : g < f /\ y.end[g] <= r => y.end[g] - 4 <= m
    PROVE  Searches(y, s, k, titles, L,
                    Identifier(Gathered(TitleOf(y, f), y.bytes, m, r), SubSeq(y.bytes, s + 1, k),
                               r + 1 - s, y.star))
<1> DEFINE D == y.bytes
           t == TitleOf(y, f)
           Q == EndsIn(D, m, r, k, y.star)
           R == Identifier(Gathered(t, D, m, r), SubSeq(D, s + 1, k), r + 1 - s, y.star)
           F == FramesOf(y)
           e == y.end
           b == y.begin
<1>0. Placed(y) /\ D \in Seq(Symbol) /\ y.star \in BOOLEAN /\ t \in DOMAIN TitleLen
  BY PlacedIs DEF Layout, Placed
<1>1. \A g \in F : g \in Nat /\ b[g] \in Nat /\ e[g] \in Nat /\ b[g] < e[g]
  <2> SUFFICES ASSUME NEW g \in F PROVE g \in Nat /\ b[g] \in Nat /\ e[g] \in Nat /\ b[g] < e[g]
    OBVIOUS
  <2> DEFINE l == SizeOf(y, g)
  <2>1. g \in Nat /\ l \in 5 .. 9 /\ b[g] \in Nat /\ e[g] \in Nat /\ b[g] + l + 5 <= e[g]
    BY <1>0, PlacedIs
  <2> HIDE DEF l, b, e
  <2> QED  BY <2>1
<1>2. m + 6 <= e[f] /\ f \in F
  <2>1. \A l, v, u \in Int : v + l + 5 <= u /\ m < v + l => m + 6 <= u
    <3> HIDE DEF D, t, Q, R, F, e, b
    <3> QED  OBVIOUS
  <2>2. /\ SizeOf(y, f) \in Int /\ b[f] \in Int /\ e[f] \in Int
        /\ b[f] + SizeOf(y, f) + 5 <= e[f] /\ m < b[f] + SizeOf(y, f)
    BY <1>0, PlacedIs
  <2> QED  BY <2>1, <2>2
<1>3. \A g, h \in F : /\ g < h => e[g] < b[h] /\ e[g] < e[h]
                      /\ e[g] <= e[h] => g <= h
                      /\ g = h \/ g < h \/ h < g
  BY <1>0, InOrder
<1>4. (\A q \in Q : q \in Nat /\ r < q /\ q <= k /\ \E h \in F : q = e[h])
      /\ (\A h \in F : r < e[h] /\ e[h] <= k /\ m + 5 <= e[h] => e[h] \in Q)
  BY EndsAre
<1>5. /\ Q = {} => /\ ~R.finished
                   /\ R.exp = [searchstatus |-> "IDENTIFIER", frame |-> Gathered(t, D, m, k)]
      /\ Q # {} => /\ R.finished /\ R.searchpos = Min(Q) - s
                   /\ R.exp = [searchstatus |-> "NULL", frame |-> Gathered(t, D, m, Min(Q))]
  <2>1. Identifies(t, D, m, r, s, k, y.star, R)
    <3>1. k <= Len(D)
      OBVIOUS
    <3> HIDE DEF t, D
    <3> QED  BY <1>0, <3>1, IdentifierIs
  <2> HIDE DEF R, t, D
  <2> QED  BY <2>1 DEF Identifies, Q
<1>6. /\ \A g \in F : g < f /\ g \notin L => e[g] <= s
      /\ \A g \in F : g < f /\ e[g] <= r => e[g] - 4 <= m
      /\ m < b[f] + SizeOf(y, f) /\ b[f] <= k /\ r < e[f] /\ t \in titles /\ k <= Len(D)
  OBVIOUS
<1>7. ASSUME NEW g \in F, g < f, e[g] \notin Q PROVE e[g] - 4 <= m
  <2>1. e[g] \in Nat /\ e[g] <= k
    <3>1. e[g] < b[f] /\ e[g] \in Nat /\ b[f] \in Nat
      BY <1>1, <1>3, <1>7
    <3> HIDE DEF e, b
    <3> QED  BY <1>6, <3>1
  <2>2. CASE e[g] <= r
    BY <1>6, <1>7, <2>2
  <2>3. CASE ~(e[g] <= r)
    <3>1. ~(m + 5 <= e[g])
      <4> HIDE DEF e, b, Q, F
      <4> QED  BY <1>4, <1>7, <2>1, <2>3
    <3> HIDE DEF e, b, Q, F
    <3> QED  BY <2>1, <3>1
  <2> QED  BY <2>2, <2>3
<1> HIDE DEF D, t, Q, R, F, e, b
<1>8. CASE Q = {}
  <2>1. k < e[f]
    BY <1>1, <1>2, <1>4, <1>6, <1>8
  <2>2. \A g \in F : g < f => e[g] - 4 <= m
    BY <1>7, <1>8
  <2>3. GathersOf(y, f, m)
    BY <1>6, <2>2 DEF GathersOf, F, b, e
  <2>4. Gathering(y, k, titles, f, m)
    <3>1. m <= k
      OBVIOUS
    <3> QED  BY <1>6, <2>1, <2>3, <3>1 DEF Gathering, b, e, t
  <2>5. At(y, k, titles, R.exp, L)
    BY <1>5, <1>8, <2>4 DEF At, F, t, D
  <2>6. Missed(y, s, k, L)
    <3> SUFFICES ASSUME NEW g \in F, s < e[g], e[g] <= k PROVE g \in L
      BY DEF Missed, F, e
    <3>1. e[g] <= e[f] /\ g # f
      BY <1>2, <1>1, <2>1
    <3>2. g < f /\ ~(e[g] <= s)
      BY <1>2, <1>1, <1>3, <3>1
    <3> QED  BY <1>6, <3>2
  <2> QED  BY <1>5, <1>8, <2>5, <2>6 DEF Searches, R, t, D
<1>9. CASE Q # {}
  <2> DEFINE q == Min(Q)
  <2>1. Q \subseteq Nat
    BY <1>4
  <2>2. q \in Q /\ \A x \in Q : q <= x
    BY <1>9, <2>1, MinIs
  <2>3. R.finished /\ R.searchpos = q - s
        /\ R.exp = [searchstatus |-> "NULL", frame |-> Gathered(t, D, m, q)]
    BY <1>5, <1>9
  <2> HIDE DEF q
  <2>4. PICK h \in F : q = e[h]
    BY <1>4, <2>2
  <2>5. q \in Nat /\ r < q /\ q <= k /\ s < q
    BY <1>4, <2>2
  <2>6. h <= f
    <3>1. CASE e[f] <= k
      <4>1. e[f] \in Q
        BY <1>1, <1>2, <1>4, <1>6, <3>1
      <4>2. e[h] <= e[f]
        BY <2>2, <2>4, <4>1
      <4> QED  BY <1>2, <1>3, <4>2
    <3>2. CASE ~(e[f] <= k)
      <4>1. e[h] <= e[f]
        BY <1>2, <1>1, <2>4, <2>5, <3>2
      <4> QED  BY <1>2, <1>3, <4>1
    <3> QED  BY <3>1, <3>2
  <2>7. \A g \in F : s < e[g] /\ e[g] < e[h] => g \in L
    <3> SUFFICES ASSUME NEW g \in F, s < e[g], e[g] < e[h] PROVE g \in L
      OBVIOUS
    <3>1. g < h
      <4>1. e[g] <= e[h] /\ g # h
        BY <1>1
      <4>2. g <= h
        BY <1>3, <4>1
      <4> QED  BY <1>1, <4>1, <4>2
    <3>2. g < f /\ ~(e[g] <= s)
      BY <1>2, <1>1, <2>6, <3>1
    <3> QED  BY <1>6, <3>2
  <2>8. ASSUME h \notin L PROVE Message(R.exp.frame) = Sent(y, h)
    <3>1. h = f
      <4>1. ~(e[h] <= s)
        BY <1>1, <2>4, <2>5
      <4>2. ~(h < f)
        BY <1>6, <2>8, <4>1
      <4> QED  BY <1>2, <1>1, <2>6, <4>2
    <3>2. \A g \in F : g < f => e[g] \notin Q
      <4> SUFFICES ASSUME NEW g \in F, g < f, e[g] \in Q PROVE FALSE
        OBVIOUS
      <4>1. e[h] <= e[g] /\ e[g] < e[f]
        BY <1>2, <1>3, <2>2, <2>4
      <4> QED  BY <1>1, <3>1, <4>1
    <3>3. \A g \in F : g < f => e[g] - 4 <= m
      BY <1>7, <3>2
    <3>4. GathersOf(y, f, m)
      BY <1>6, <3>3 DEF GathersOf, F, b, e
    <3>5. Message(Gathered(TitleOf(y, f), y.bytes, m, y.end[f])) = Sent(y, f)
      BY <3>4, MessageIs
    <3>6. R.exp.frame = Gathered(t, D, m, q)
      BY <2>3
    <3> QED  BY <2>4, <3>1, <3>5, <3>6 DEF t, D, e
  <2>9. Finds(y, s, k, L, R, h)
    <3>1. R.exp.searchstatus = "NULL"
      BY <2>3
    <3> QED  BY <2>3, <2>4, <2>5, <2>7, <2>8, <3>1 DEF Finds, F, e
  <2> QED  BY <2>9 DEF Searches, R, F, t, D
<1> QED  BY <1>8, <1>9

----------------------------------------------------------------------------
\* A scanner in a frame searches on in it.
LEMMA GathersOn ==
    ASSUME NEW y, Layout(y), NEW L, NEW s \in Nat, NEW k \in Nat, s <= k, k <= Len(y.bytes),
           NEW titles, NEW f \in FramesOf(y), NEW m \in Nat, Gathering(y, s, titles, f, m)
    PROVE  Searches(y, s, k, titles, L,
                    Identifier(Gathered(TitleOf(y, f), y.bytes, m, s), SubSeq(y.bytes, s + 1, k), 1, y.star))
<1>1. /\ y.begin[f] <= s /\ s < y.end[f] /\ m <= s /\ TitleOf(y, f) \in titles
      /\ 5 <= m /\ m < y.begin[f] + SizeOf(y, f)
      /\ \A g \in FramesOf(y) : g < f => y.end[g] - 4 <= m
  BY DEF Gathering, GathersOf
<1>2. Placed(y)
  BY DEF Layout
<1>3. ASSUME NEW g \in FramesOf(y), g < f PROVE y.end[g] <= s
  <2>1. y.end[g] < y.begin[f]
    BY <1>2, <1>3, InOrder
  <2>2. y.end[g] \in Nat /\ y.begin[f] \in Nat
    BY <1>2, PlacedIs
  <2> QED  BY <1>1, <2>1, <2>2
<1>4. y.begin[f] <= k
  <2>1. y.begin[f] \in Nat
    BY <1>2, PlacedIs
  <2> QED  BY <1>1, <2>1
<1>5. s <= s /\ s + 1 - s = 1
  OBVIOUS
<1>6. Searches(y, s, k, titles, L,
               Identifier(Gathered(TitleOf(y, f), y.bytes, m, s), SubSeq(y.bytes, s + 1, k), s + 1 - s, y.star))
  BY <1>1, <1>3, <1>4, <1>5, GatherIs
<1> QED  BY <1>5, <1>6

\* A frame that begins behind s, and is not lost, has a head that is found.
LEMMA HeadsFound ==
    ASSUME NEW y, Layout(y), NEW L, NEW s \in Nat, NEW k \in Nat, k <= Len(y.bytes),
           NEW titles, titles \subseteq DOMAIN TitleLen, Idles(y, s, L), Whole(y, s, k, titles, L),
           NEW f \in FramesOf(y), f \notin L, s < y.end[f], y.begin[f] <= k
    PROVE  HeadAt(titles, SubSeq(y.bytes, s + 1, k), y.begin[f] - s)
<1>1. y.begin[f] \in Nat /\ y.end[f] \in Nat
  BY PlacedIs DEF Layout
<1>2. s < y.begin[f]
  BY <1>1 DEF Idles
<1>3. TitleOf(y, f) \in titles /\ y.begin[f] + iHeadLen - 1 <= k
  BY <1>2 DEF Whole
<1> QED  BY <1>2, <1>3, HeadComes

\* The title that a search begins to gather is the one of the frame there.
LEMMA TitleThere ==
    ASSUME NEW y, Layout(y), NEW s \in Nat, NEW k \in Nat, s <= k, k <= Len(y.bytes),
           NEW titles, titles \subseteq DOMAIN TitleLen,
           NEW w, HeadAt(titles, SubSeq(y.bytes, s + 1, k), w)
    PROVE  /\ w \in Nat /\ 1 <= w /\ s + w + iHeadLen - 1 <= k
           /\ \E f \in FramesOf(y) :
                 /\ y.begin[f] = s + w /\ TitleOf(y, f) \in titles
                 /\ (CHOOSE t \in titles : IsPrefix(Title(t), SubSeq(SubSeq(y.bytes, s + 1, k), w, Len(SubSeq(y.bytes, s + 1, k)))))
                       = TitleOf(y, f)
<1> DEFINE D == y.bytes
           p == SubSeq(D, s + 1, k)
           n == Len(p) - w + 1
           tail == SubSeq(p, w, Len(p))
           head == SubSeq(p, w, w + iHeadLen - 1)
           t0 == CHOOSE t \in titles : IsPrefix(Title(t), tail)
<1>0. Placed(y) /\ Spelled(y) /\ DollarsBegin(y) /\ D \in Seq(Symbol) /\ Len(D) \in Nat /\ k <= Len(D)
      /\ iHeadLen \in Nat /\ 9 <= iHeadLen
  BY HeadIs DEF Layout, Placed
<1> HIDE DEF D
<1>1. p \in Seq(Symbol) /\ Len(p) = k - s /\ \A i \in 1 .. k - s : p[i] = D[s + i]
  <2>1. s + 1 \in 1 .. Len(D) + 1 /\ k \in s + 1 - 1 .. Len(D) /\ k - (s + 1) + 1 = k - s
        /\ \A i \in 1 .. k - s : (s + 1) + i - 1 = s + i
    BY <1>0
  <2>2. /\ p \in Seq(Symbol) /\ Len(p) = k - (s + 1) + 1
        /\ \A i \in 1 .. k - (s + 1) + 1 : p[i] = D[(s + 1) + i - 1]
    BY <1>0, <2>1, PartIs
  <2> HIDE DEF p
  <2> QED  BY <2>1, <2>2
<1>2. HeadAt(titles, p, w)
  BY DEF D
<1> HIDE DEF p
<1>3. p[w] = "$" /\ w \in Nat /\ 1 <= w /\ w + iHeadLen - 1 <= Len(p)
  BY <1>1, <1>2, HeadBegins
<1>4. PICK t \in titles : IsPrefix(Title(t), head)
  BY <1>1, <1>2, HeadBegins
<1>5. n \in Nat /\ w + n - 1 <= Len(p) /\ w + n - 1 = Len(p) /\ n >= 2
      /\ w \in 1 .. k - s /\ w + 1 \in 1 .. k - s
      /\ iHeadLen <= n
  BY <1>0, <1>1, <1>3
<1>6. IsPrefix(Title(t), tail)
  <2> DEFINE T == Title(t)
             l == TitleLen[t]
  <2>1. T \in Seq(Symbol) /\ Len(T) = l /\ l \in 5 .. 9
    BY TitleIs
  <2>2. w \in 1 .. Len(p) + 1 /\ w + iHeadLen - 1 \in w - 1 .. Len(p) /\ Len(p) \in w - 1 .. Len(p)
        /\ (w + iHeadLen - 1) - w + 1 = iHeadLen /\ Len(p) - w + 1 = n
    BY <1>0, <1>1, <1>3, <1>5
  <2>3. tail \in Seq(Symbol) /\ Len(tail) = n /\ \A i \in 1 .. n : tail[i] = p[w + i - 1]
    <3>1. /\ tail \in Seq(Symbol) /\ Len(tail) = Len(p) - w + 1
          /\ \A i \in 1 .. Len(p) - w + 1 : tail[i] = p[w + i - 1]
      BY <1>1, <2>2, PartIs
    <3> QED  BY <3>1
  <2>4. head \in Seq(Symbol) /\ Len(head) = iHeadLen /\ \A i \in 1 .. iHeadLen : head[i] = p[w + i - 1]
    <3> DEFINE q == w + iHeadLen - 1
               h == SubSeq(p, w, q)
    <3>1. q \in w - 1 .. Len(p) /\ q - w + 1 = iHeadLen /\ w \in 1 .. Len(p) + 1
      BY <2>2
    <3>2. head = h
      OBVIOUS
    <3> HIDE DEF q
    <3>3. h \in Seq(Symbol) /\ Len(h) = q - w + 1 /\ \A i \in 1 .. q - w + 1 : h[i] = p[w + i - 1]
      BY <1>1, <3>1, PartIs
    <3> HIDE DEF h, head
    <3> QED  BY <3>1, <3>2, <3>3
  <2> HIDE DEF head, tail, T, n, l
  <2>5. SubSeq(T, 1, l) = SubSeq(head, 1, l)
    BY <1>4, <2>1 DEF IsPrefix, T
  <2>6. SubSeq(head, 1, l) = SubSeq(tail, 1, l)
    <3>1. 1 \in 1 .. Len(head) + 1 /\ l \in 1 - 1 .. Len(head)
          /\ 1 \in 1 .. Len(tail) + 1 /\ l \in 1 - 1 .. Len(tail)
          /\ l - 1 + 1 = l /\ \A i \in 1 .. l : 1 + i - 1 = i /\ i \in 1 .. iHeadLen /\ i \in 1 .. n
      BY <1>0, <1>5, <2>1, <2>3, <2>4
    <3>2. /\ SubSeq(head, 1, l) \in Seq(Symbol) /\ Len(SubSeq(head, 1, l)) = l - 1 + 1
          /\ \A i \in 1 .. l - 1 + 1 : SubSeq(head, 1, l)[i] = head[1 + i - 1]
      BY <2>4, <3>1, PartIs
    <3>3. /\ SubSeq(tail, 1, l) \in Seq(Symbol) /\ Len(SubSeq(tail, 1, l)) = l - 1 + 1
          /\ \A i \in 1 .. l - 1 + 1 : SubSeq(tail, 1, l)[i] = tail[1 + i - 1]
      BY <2>3, <3>1, PartIs
    <3>4. \A i \in 1 .. l : SubSeq(head, 1, l)[i] = SubSeq(tail, 1, l)[i]
      <4> SUFFICES ASSUME NEW i \in 1 .. l PROVE SubSeq(head, 1, l)[i] = SubSeq(tail, 1, l)[i]
        OBVIOUS
      <4>1. i \in 1 .. l - 1 + 1 /\ 1 + i - 1 = i /\ i \in 1 .. iHeadLen /\ i \in 1 .. n
        BY <3>1
      <4>2. SubSeq(head, 1, l)[i] = head[i] /\ SubSeq(tail, 1, l)[i] = tail[i]
        BY <3>2, <3>3, <4>1
      <4>3. head[i] = tail[i]
        BY <2>3, <2>4, <4>1
      <4> QED  BY <4>2, <4>3
    <3> QED  BY <3>1, <3>2, <3>3, <3>4, SeqEqual
  <2>7. l <= n
    BY <1>0, <1>5, <2>1
  <2> QED  BY <2>1, <2>3, <2>5, <2>6, <2>7 DEF IsPrefix, T
<1>7. t0 \in titles /\ IsPrefix(Title(t0), tail)
  <2> HIDE DEF tail
  <2> QED  BY <1>6
<1> HIDE DEF t0
<1>8. p[w + 1] = t0
  <2>1. tail = SubSeq(p, w, w + n - 1)
    BY <1>5
  <2> HIDE DEF n
  <2>2. IsPrefix(Title(t0), SubSeq(p, w, w + n - 1))
    BY <1>7, <2>1
  <2>3. p \in Seq(Symbol) /\ w \in Nat /\ 1 <= w /\ n \in Nat /\ w + n - 1 <= Len(p) /\ n >= 2
        /\ t0 \in titles
    BY <1>1, <1>3, <1>5, <1>7
  <2> QED  BY <2>2, <2>3, HeadHas
<1>9. D[s + w] = "$" /\ D[s + w + 1] = t0
  <2>1. s + (w + 1) = s + w + 1
    BY <1>3
  <2> QED  BY <1>1, <1>3, <1>5, <1>8, <2>1
<1>10. s + w \in 1 .. Len(D)
  BY <1>0, <1>5
<1>11. PICK f \in FramesOf(y) : s + w = y.begin[f]
  BY <1>0, <1>9, <1>10 DEF DollarsBegin, D
<1>12. TitleOf(y, f) = t0
  <2> DEFINE l == SizeOf(y, f)
             b == y.begin[f]
  <2>1. l \in 5 .. 9 /\ TitleOf(y, f) \in DOMAIN TitleLen
    BY <1>0, PlacedIs
  <2>2. \A i \in 1 .. l : D[b + i - 1] = Title(TitleOf(y, f))[i]
    BY <1>0 DEF Spelled, D
  <2>3. Title(TitleOf(y, f))[2] = TitleOf(y, f)
    BY <2>1, TitleIs
  <2> HIDE DEF l, b
  <2>4. 2 \in 1 .. l /\ b + 2 - 1 = s + w + 1
    BY <1>3, <1>11, <2>1 DEF b
  <2> QED  BY <1>9, <2>2, <2>3, <2>4
<1>13. s + w + iHeadLen - 1 <= k
  BY <1>0, <1>1, <1>3
<1> QED  BY <1>3, <1>7, <1>11, <1>12, <1>13 DEF t0, tail, p, D

\* Every search of a chunk.
LEMMA SearchIs ==
    ASSUME NEW y, Layout(y), NEW L, NEW s \in Nat, NEW k \in Nat, s <= k, k <= Len(y.bytes),
           NEW titles, titles \subseteq DOMAIN TitleLen, NEW e, At(y, s, titles, e, L),
           Whole(y, s, k, titles, L)
    PROVE  Searches(y, s, k, titles, L, Search(titles, e, SubSeq(y.bytes, s + 1, k), y.star))
<1> DEFINE D == y.bytes
           p == SubSeq(D, s + 1, k)
           w == Header(titles, p)
           t0 == CHOOSE t \in titles : IsPrefix(Title(t), SubSeq(p, w, Len(p)))
           R == Search(titles, e, p, y.star)
           F == FramesOf(y)
<1>0. Placed(y) /\ D \in Seq(Symbol) /\ Len(D) \in Nat /\ k <= Len(D)
      /\ iHeadLen \in Nat /\ 9 <= iHeadLen
  BY HeadIs DEF Layout, Placed
<1>1. R = IF e.searchstatus = "IDENTIFIER" THEN Identifier(e.frame, p, 1, y.star)
          ELSE IF w = 0 THEN [exp |-> e, finished |-> FALSE, searchpos |-> Len(p)]
          ELSE Identifier(Title(t0), p, TitleLen[t0] + 1, y.star)
  BY DEF Search
<1>2. CASE \E f \in F, m \in Nat :
              /\ Gathering(y, s, titles, f, m)
              /\ e = [searchstatus |-> "IDENTIFIER",
                      frame |-> Gathered(TitleOf(y, f), y.bytes, m, s)]
  <2>1. PICK f \in F, m \in Nat :
              /\ Gathering(y, s, titles, f, m)
              /\ e = [searchstatus |-> "IDENTIFIER",
                      frame |-> Gathered(TitleOf(y, f), y.bytes, m, s)]
    BY <1>2
  <2>2. R = Identifier(Gathered(TitleOf(y, f), y.bytes, m, s), p, 1, y.star)
    <3>1. e.searchstatus = "IDENTIFIER" /\ e.frame = Gathered(TitleOf(y, f), y.bytes, m, s)
      BY <2>1
    <3> HIDE DEF p, w, t0, R
    <3> QED  BY <1>1, <3>1
  <2>3. Searches(y, s, k, titles, L, Identifier(Gathered(TitleOf(y, f), y.bytes, m, s), p, 1, y.star))
    BY <2>1, GathersOn
  <2> HIDE DEF R
  <2>4. Searches(y, s, k, titles, L, R)
    BY <2>2, <2>3
  <2> QED  BY <2>4 DEF R
<1>3. CASE e.searchstatus = "NULL" /\ Idles(y, s, L)
  <2>0. p \in Seq(Symbol)
    <3>1. s + 1 \in 1 .. Len(D) + 1 /\ k \in s + 1 - 1 .. Len(D)
      BY <1>0
    <3> QED  BY <1>0, <3>1, PartIs
  <2>1. \/ w = 0 /\ \A v : ~HeadAt(titles, p, v)
        \/ HeadAt(titles, p, w) /\ \A v : HeadAt(titles, p, v) => w <= v
    <3> HIDE DEF p
    <3> QED  BY <2>0, HeaderIs DEF w
  <2>2. \A f \in F : f \notin L /\ s < y.end[f] /\ y.begin[f] <= k => HeadAt(titles, p, y.begin[f] - s)
    BY <1>3, HeadsFound
  <2>3. \A f \in F : f \in Nat /\ y.begin[f] \in Nat /\ y.end[f] \in Nat /\ y.begin[f] < y.end[f]
    <3> SUFFICES ASSUME NEW f \in F
                 PROVE  f \in Nat /\ y.begin[f] \in Nat /\ y.end[f] \in Nat /\ y.begin[f] < y.end[f]
      OBVIOUS
    <3> DEFINE a == SizeOf(y, f)
               b == y.begin[f]
               c == y.end[f]
    <3>1. f \in Nat /\ a \in 5 .. 9 /\ b \in Nat /\ c \in Nat /\ b + a + 5 <= c
      BY <1>0, PlacedIs
    <3> HIDE DEF a, b, c
    <3>2. b < c
      BY <3>1
    <3> QED  BY <3>1, <3>2 DEF b, c
  <2>4. CASE w = 0 /\ \A v : ~HeadAt(titles, p, v)
    <3>1. R = [exp |-> e, finished |-> FALSE, searchpos |-> Len(p)]
      BY <1>1, <1>3, <2>4
    <3>2. \A f \in F : s < y.end[f] /\ y.begin[f] <= k => f \in L
      BY <2>2, <2>4
    <3>3. Idles(y, k, L)
      <4> SUFFICES ASSUME NEW f \in F, y.begin[f] <= k, k < y.end[f] PROVE f \in L
        BY DEF Idles
      <4>1. s < y.end[f]
        BY <2>3
      <4> QED  BY <3>2, <4>1
    <3>4. Missed(y, s, k, L)
      <4> SUFFICES ASSUME NEW f \in F, s < y.end[f], y.end[f] <= k PROVE f \in L
        BY DEF Missed
      <4>1. y.begin[f] <= k
        BY <2>3
      <4> QED  BY <3>2, <4>1
    <3>5. ~R.finished /\ At(y, k, titles, R.exp, L)
      <4> HIDE DEF R
      <4> QED  BY <1>3, <3>1, <3>3 DEF At
    <3> QED  BY <3>4, <3>5 DEF Searches
  <2>5. CASE HeadAt(titles, p, w) /\ \A v : HeadAt(titles, p, v) => w <= v
    <3>1. w \in Nat /\ 1 <= w /\ s + w + iHeadLen - 1 <= k
          /\ \E f \in F : y.begin[f] = s + w /\ TitleOf(y, f) \in titles /\ t0 = TitleOf(y, f)
      <4> HIDE DEF w
      <4> QED  BY <2>5, TitleThere
    <3>2. PICK f \in F : y.begin[f] = s + w /\ TitleOf(y, f) \in titles /\ t0 = TitleOf(y, f)
      BY <3>1
    <3> DEFINE t == TitleOf(y, f)
               l == TitleLen[t]
               m == s + l
    <3> HIDE DEF w
    <3>3. l \in 5 .. 9 /\ l <= iHeadLen /\ t \in DOMAIN TitleLen /\ SizeOf(y, f) = l
      BY <1>0, PlacedIs DEF SizeOf
    <3>4. R = Identifier(Title(t), p, l + 1, y.star)
      <4>1. w # 0 /\ e.searchstatus # "IDENTIFIER"
        BY <1>3, <3>1
      <4> HIDE DEF R, t0, p
      <4> QED  BY <1>1, <3>2, <4>1
    <3>5. Gathered(t, D, m, m) = Title(t)
      <4>1. Title(t) \in Seq(Symbol)
        BY <3>3, TitleIs
      <4> HIDE DEF t, l
      <4>2. m \in Int /\ m + 1 \in Int /\ m < m + 1
        BY <3>3
      <4> HIDE DEF m
      <4>3. SubSeq(D, m + 1, m) = <<>>
        BY <4>2, SubSeqEmpty
      <4>4. Title(t) \o <<>> = Title(t)
        BY <4>1, ConcatEmptySeq
      <4> QED  BY <4>3, <4>4 DEF Gathered
    <3> HIDE DEF l
    <3>6. m \in Nat /\ 5 <= m /\ s <= m /\ m <= k /\ m + 1 - s = l + 1 /\ m < s + w + l
      <4>1. \A v, i, n \in Nat : 1 <= v /\ 5 <= n /\ n <= i /\ s + v + i - 1 <= k
               => s + n \in Nat /\ 5 <= s + n /\ s <= s + n /\ s + n <= k
                  /\ s + n + 1 - s = n + 1 /\ s + n < s + v + n
        <5> HIDE DEF D, p, w, t0, R, F, t, m
        <5> QED  OBVIOUS
      <4>2. l \in Nat /\ 5 <= l
        <5> HIDE DEF D, p, w, t0, R, F, t, m
        <5> QED  BY <3>3
      <4> QED  BY <1>0, <3>1, <3>3, <4>1, <4>2
    <3>7. m < y.begin[f] + SizeOf(y, f)
      BY <3>2, <3>3, <3>6
    <3>8. y.begin[f] <= k /\ m < y.end[f]
      <4> DEFINE c == y.end[f]
                 b == y.begin[f]
      <4>1. b + l + 5 <= c /\ b \in Nat /\ c \in Nat
        BY <1>0, <3>3, PlacedIs
      <4>2. b = s + w
        BY <3>2
      <4> HIDE DEF b, c
      <4>3. b <= k /\ m < c
        BY <1>0, <3>1, <3>3, <3>6, <4>1, <4>2
      <4> QED  BY <4>3 DEF b, c
    <3>9. ASSUME NEW g \in F, g < f, g \notin L PROVE y.end[g] <= s
      <4> SUFFICES ASSUME s < y.end[g] PROVE FALSE
        BY <2>3
      <4>1. y.begin[g] < y.begin[f]
        BY <1>0, <3>9, InOrder
      <4> DEFINE b == y.begin
      <4>2. b[g] \in Nat /\ b[f] \in Nat
        BY <2>3
      <4>3. HeadAt(titles, p, b[g] - s)
        BY <2>2, <2>3, <3>8, <3>9, <4>1
      <4>4. w <= b[g] - s
        BY <2>5, <4>3
      <4>5. b[g] < s + w
        BY <3>2, <4>1
      <4> HIDE DEF b
      <4> QED  BY <3>1, <4>2, <4>4, <4>5
    <3>10. \A g \in F : g < f /\ y.end[g] <= m => y.end[g] - 4 <= m
      <4> HIDE DEF m
      <4> QED  BY <2>3, <3>6
    <3>11. Searches(y, s, k, titles, L, Identifier(Gathered(t, D, m, m), p, m + 1 - s, y.star))
      <4>1. TitleOf(y, f) \in titles
        BY <3>2
      <4>2. \A g \in FramesOf(y) : g < f /\ g \notin L => y.end[g] <= s
        BY <3>9
      <4>3. \A g \in FramesOf(y) : g < f /\ y.end[g] <= m => y.end[g] - 4 <= m
        BY <3>10
      <4>4. m \in Nat /\ 5 <= m /\ s <= m /\ m <= k
        BY <3>6
      <4> HIDE DEF m
      <4>5. m <= m /\ k <= Len(y.bytes) /\ m < y.begin[f] + SizeOf(y, f) /\ y.begin[f] <= k /\ m < y.end[f]
        BY <3>7, <3>8, <4>4
      <4> QED  BY <4>1, <4>2, <4>3, <4>4, <4>5, GatherIs
    <3> HIDE DEF R, p, D, m
    <3>12. Searches(y, s, k, titles, L, R)
      BY <3>4, <3>5, <3>6, <3>11
    <3> QED  BY <3>12 DEF R, p, D
  <2> QED  BY <2>1, <2>4, <2>5
<1> QED  BY <1>2, <1>3 DEF At

----------------------------------------------------------------------------
(***************************************************************************)
(* What was heard, H, when the bytes up to the s-th were used: at most one *)
(* message of each frame that has ended, in order, and of one that is not  *)
(* lost what was sent.                                                     *)
(***************************************************************************)
IsSequence(H) == \E M : H \in Seq(M)

HeardOf(y, s, H, L, g) ==
    /\ g \in [1 .. Len(H) -> FramesOf(y)]
    /\ \A i, j \in 1 .. Len(H) : i < j => g[i] < g[j]
    /\ \A i \in 1 .. Len(H) : y.end[g[i]] <= s
    /\ \A f \in FramesOf(y) :
          y.end[f] <= s /\ f \notin L => \E i \in 1 .. Len(H) : g[i] = f /\ H[i] = Sent(y, f)

Hears(y, s, H, L) == IsSequence(H) /\ \E g : HeardOf(y, s, H, L, g)

\* A message more.
LEMMA AppendTo ==
    ASSUME NEW H, IsSequence(H), NEW x
    PROVE  /\ IsSequence(Append(H, x)) /\ Len(H) \in Nat /\ Len(Append(H, x)) = Len(H) + 1
           /\ \A i \in 1 .. Len(H) : Append(H, x)[i] = H[i]
           /\ Append(H, x)[Len(H) + 1] = x
<1>1. PICK M : H \in Seq(M)
  BY DEF IsSequence
<1> DEFINE N == M \cup {x}
<1>2. M \subseteq N /\ x \in N
  OBVIOUS
<1> HIDE DEF N
<1>3. H \in Seq(N)
  BY <1>1, <1>2, SeqMonotonic
<1>4. Append(H, x) \in Seq(N) /\ Len(H) \in Nat /\ Len(Append(H, x)) = Len(H) + 1
      /\ (\A i \in 1 .. Len(H) : Append(H, x)[i] = H[i]) /\ Append(H, x)[Len(H) + 1] = x
  BY <1>2, <1>3
<1> QED  BY <1>4 DEF IsSequence

\* Messages that are appended to what was heard before.
LEMMA JoinAppend ==
    ASSUME NEW G, IsSequence(G), NEW H, IsSequence(H), NEW x
    PROVE  IsSequence(G \o H) /\ G \o Append(H, x) = Append(G \o H, x)
<1>1. PICK M : G \in Seq(M)
  BY DEF IsSequence
<1>2. PICK O : H \in Seq(O)
  BY DEF IsSequence
<1> DEFINE N == M \cup O \cup {x}
<1>3. M \subseteq N /\ O \subseteq N /\ x \in N
  OBVIOUS
<1> HIDE DEF N
<1>4. G \in Seq(N) /\ H \in Seq(N)
  BY <1>1, <1>2, <1>3, SeqMonotonic
<1>5. G \o H \in Seq(N) /\ Append(H, x) \in Seq(N) /\ Len(G \o H) = Len(G) + Len(H)
      /\ Len(G) \in Nat /\ Len(H) \in Nat
  BY <1>3, <1>4
<1>6. Append(H, x) = H \o <<x>> /\ Append(G \o H, x) = (G \o H) \o <<x>> /\ <<x>> \in Seq(N)
  BY <1>3, <1>4, <1>5
<1>7. (G \o H) \o <<x>> = G \o (H \o <<x>>)
  BY <1>4, <1>6, ConcatAssociative
<1> QED  BY <1>5, <1>6, <1>7 DEF IsSequence

\* When the next frame that is not lost is heard, what is heard is as it should
\* be up to its end.
LEMMA HearsOne ==
    ASSUME NEW y, Placed(y), NEW s \in Nat, NEW H, NEW L, Hears(y, s, H, L),
           NEW h \in FramesOf(y), s < y.end[h],
           \A f \in FramesOf(y) : s < y.end[f] /\ y.end[f] < y.end[h] => f \in L,
           NEW x, h \notin L => x = Sent(y, h)
    PROVE  Hears(y, y.end[h], Append(H, x), L)
<1> DEFINE F == FramesOf(y)
           e == y.end
           K == Append(H, x)
           n == Len(H) + 1
<1>1. IsSequence(H)
  BY DEF Hears
<1>2. PICK g : HeardOf(y, s, H, L, g)
  BY DEF Hears
<1>3. /\ IsSequence(K) /\ Len(H) \in Nat /\ Len(K) = n
      /\ \A i \in 1 .. Len(H) : K[i] = H[i]
      /\ K[n] = x
  BY <1>1, AppendTo
<1>4. /\ g \in [1 .. Len(H) -> F]
      /\ \A i, j \in 1 .. Len(H) : i < j => g[i] < g[j]
      /\ \A i \in 1 .. Len(H) : e[g[i]] <= s
      /\ \A f \in F : e[f] <= s /\ f \notin L => \E i \in 1 .. Len(H) : g[i] = f /\ H[i] = Sent(y, f)
  BY <1>2 DEF HeardOf
<1>5. \A f \in F : f \in Nat /\ e[f] \in Nat
  BY PlacedIs
<1>6. \A f \in F : (e[f] <= e[h] => f <= h) /\ (f < h => e[f] < e[h]) /\ (f = h \/ f < h \/ h < f)
  BY InOrder
<1>7. /\ \A f \in F : s < e[f] /\ e[f] < e[h] => f \in L
      /\ h \in F /\ s < e[h] /\ (h \notin L => x = Sent(y, h))
  OBVIOUS
<1> DEFINE k == [i \in 1 .. n |-> IF i = n THEN h ELSE g[i]]
<1> HIDE DEF F, e, K
<1>8. \A i \in 1 .. n : i = n \/ i \in 1 .. Len(H)
  BY <1>3
<1>9. k \in [1 .. n -> F] /\ k[n] = h /\ \A i \in 1 .. Len(H) : k[i] = g[i]
  <2>1. n \in 1 .. n /\ \A i \in 1 .. Len(H) : i \in 1 .. n /\ i # n
    BY <1>3
  <2>2. \A i \in 1 .. n : (IF i = n THEN h ELSE g[i]) \in F
    BY <1>4, <1>7, <1>8
  <2> HIDE DEF n
  <2> QED  BY <2>1, <2>2
<1> HIDE DEF k
<1>10. \A i \in 1 .. Len(H) : g[i] \in F /\ g[i] < h /\ e[g[i]] <= e[h]
  <2> SUFFICES ASSUME NEW i \in 1 .. Len(H) PROVE g[i] \in F /\ g[i] < h /\ e[g[i]] <= e[h]
    OBVIOUS
  <2>1. g[i] \in F /\ e[g[i]] <= s
    BY <1>4
  <2>2. e[g[i]] <= e[h] /\ g[i] # h
    BY <1>5, <1>7, <2>1
  <2> QED  BY <1>5, <1>6, <1>7, <2>1, <2>2
<1>11. \A i, j \in 1 .. n : i < j => k[i] < k[j]
  <2> SUFFICES ASSUME NEW i \in 1 .. n, NEW j \in 1 .. n, i < j PROVE k[i] < k[j]
    OBVIOUS
  <2>1. i \in 1 .. Len(H)
    BY <1>3
  <2> QED  BY <1>4, <1>8, <1>9, <1>10, <2>1
<1>12. \A i \in 1 .. n : e[k[i]] <= e[h]
  <2>1. e[h] <= e[h]
    BY <1>5, <1>7
  <2> HIDE DEF n
  <2> QED  BY <1>8, <1>9, <1>10, <2>1
<1>13. ASSUME NEW f \in F, e[f] <= e[h], f \notin L
       PROVE  \E i \in 1 .. n : k[i] = f /\ K[i] = Sent(y, f)
  <2>1. CASE e[f] <= s
    <3>1. PICK i \in 1 .. Len(H) : g[i] = f /\ H[i] = Sent(y, f)
      BY <1>4, <1>13, <2>1
    <3>2. i \in 1 .. n
      BY <1>3
    <3> QED  BY <1>3, <1>9, <3>1, <3>2
  <2>2. CASE ~(e[f] <= s)
    <3>1. f = h
      BY <1>5, <1>6, <1>7, <1>13, <2>2
    <3>2. n \in 1 .. n
      BY <1>3
    <3> QED  BY <1>3, <1>7, <1>9, <1>13, <3>1, <3>2
  <2> QED  BY <2>1, <2>2
<1>14. HeardOf(y, y.end[h], K, L, k)
  <2> HIDE DEF n
  <2> QED  BY <1>3, <1>9, <1>11, <1>12, <1>13 DEF HeardOf, F, e
<1> QED  BY <1>3, <1>14 DEF Hears, K

\* Nothing need be heard of bytes in which only lost frames end.
LEMMA HearsNone ==
    ASSUME NEW y, Placed(y), NEW s \in Nat, NEW k \in Nat, s <= k, NEW H, NEW L, NEW O, L \subseteq O,
           Hears(y, s, H, L), Missed(y, s, k, O)
    PROVE  Hears(y, k, H, O)
<1>1. PICK g : HeardOf(y, s, H, L, g)
  BY DEF Hears
<1>2. \A f \in FramesOf(y) : y.end[f] \in Nat
  BY PlacedIs
<1>3. \A f \in FramesOf(y) : y.end[f] <= k /\ f \notin O => y.end[f] <= s /\ f \notin L
  BY <1>2 DEF Missed
<1>4. \A f \in FramesOf(y) : y.end[f] <= s => y.end[f] <= k
  BY <1>2
<1>5. HeardOf(y, k, H, O, g)
  BY <1>1, <1>3, <1>4 DEF HeardOf
<1> QED  BY <1>5 DEF Hears

----------------------------------------------------------------------------
(***************************************************************************)
(* A chunk: exp_process_data with the bytes up to the k-th.                *)
(***************************************************************************)
TitlesOf(pa) ==
    IF pa = "opensess" THEN opensess_titles
    ELSE IF pa = "moniclient" THEN moniclient_titles ELSE printsvr_titles

\* The titles that are looked for are titles.
LEMMA TitlesAre ==
    /\ opensess_titles \subseteq DOMAIN TitleLen
    /\ moniclient_titles \subseteq DOMAIN TitleLen
    /\ printsvr_titles \subseteq DOMAIN TitleLen
  BY DEF opensess_titles, moniclient_titles, printsvr_titles, TitleLen

\* The scanner is the one of the peer; the first one of a client reads its
\* first frame only.
Serves(y, k, pa, L) ==
    /\ pa \in {"opensess", "moniclient", "printsvr"} /\ y.star = (pa = "printsvr")
    /\ pa = "opensess" => \A f \in FramesOf(y) : f > 1 /\ y.begin[f] <= k => f \in L
    /\ pa = "moniclient" => \A f \in FramesOf(y) : f = 1 => y.end[f] <= k

\* What is so after some searches of a chunk: G was heard before the chunk.
After(y, k, L, G, a, s) ==
    /\ a = [parser |-> a.parser, exp |-> a.exp, str |-> a.str, heard |-> a.heard]
    /\ a.str = SubSeq(y.bytes, s + 1, k)
    /\ Serves(y, k, a.parser, L)
    /\ At(y, s, TitlesOf(a.parser), a.exp, L)
    /\ Whole(y, s, k, TitlesOf(a.parser), L)
    /\ IsSequence(a.heard) /\ Hears(y, s, G \o a.heard, L)

\* One search of a chunk and what is done about it.
OneSearch(a) ==
    LET s == search_frame(a.parser, a.exp, a.str)
    IN  IF a.str = <<>> THEN a
        ELSE IF ~s.finished THEN [a EXCEPT !.exp = s.exp, !.str = <<>>]
        ELSE LET h == Append(a.heard, Message(s.exp.frame))
             IN  IF a.parser = "opensess"
                 THEN [parser |-> "moniclient", exp |-> Idle, str |-> <<>>,
                       heard |-> h]
                 ELSE [parser |-> a.parser, exp |-> s.exp, heard |-> h,
                       str |-> SubSeq(a.str, s.searchpos + 1, Len(a.str))]

\* The three scanners are one but for the titles and the star.
LEMMA SearchedBy ==
    ASSUME NEW y, NEW k, NEW pa, NEW L, Serves(y, k, pa, L), NEW e, NEW p
    PROVE  search_frame(pa, e, p) = Search(TitlesOf(pa), e, p, y.star)
<1>1. CASE pa = "opensess"
  BY <1>1 DEF Serves, search_frame, opensess_search, TitlesOf
<1>2. CASE pa = "moniclient"
  BY <1>2 DEF Serves, search_frame, moniclient_search, TitlesOf
<1>3. CASE pa = "printsvr"
  BY <1>3 DEF Serves, search_frame, printsvr_search, TitlesOf
<1> QED  BY <1>1, <1>2, <1>3 DEF Serves

\* When nothing is left of a chunk, its last byte was used.
LEMMA AllUsed ==
    ASSUME NEW y, Placed(y), NEW s \in Nat, NEW k \in Nat, s <= k, k <= Len(y.bytes)
    PROVE  /\ SubSeq(y.bytes, k + 1, k) = <<>>
           /\ SubSeq(y.bytes, s + 1, k) = <<>> => s = k
           /\ Len(SubSeq(y.bytes, s + 1, k)) = k - s
<1>1. y.bytes \in Seq(Symbol) /\ Len(y.bytes) \in Nat
  BY DEF Placed
<1>2. s + 1 \in 1 .. Len(y.bytes) + 1 /\ k \in s + 1 - 1 .. Len(y.bytes) /\ k - (s + 1) + 1 = k - s
  BY <1>1
<1>3. Len(SubSeq(y.bytes, s + 1, k)) = k - s
  BY <1>1, <1>2, PartIs
<1>4. SubSeq(y.bytes, k + 1, k) = <<>>
  <2>1. k + 1 \in Int /\ k \in Int /\ k < k + 1
    OBVIOUS
  <2> QED  BY <2>1, SubSeqEmpty
<1>5. ASSUME SubSeq(y.bytes, s + 1, k) = <<>> PROVE s = k
  <2>1. Len(SubSeq(y.bytes, s + 1, k)) = 0
    BY <1>5
  <2> QED  BY <1>3, <2>1
<1> QED  BY <1>3, <1>4, <1>5

\* No head is cut behind the end of the chunk.
LEMMA NothingBehind ==
    ASSUME NEW y, Placed(y), NEW k \in Nat, NEW titles, NEW L
    PROVE  Whole(y, k, k, titles, L)
<1>1. \A f \in FramesOf(y) : y.begin[f] \in Nat
  BY PlacedIs
<1> QED  BY <1>1 DEF Whole

\* Behind the end of a frame a scanner is in no frame.
LEMMA IdlesAtEnd ==
    ASSUME NEW y, Placed(y), NEW h \in FramesOf(y), NEW L
    PROVE  Idles(y, y.end[h], L)
<1> SUFFICES ASSUME NEW f \in FramesOf(y), y.begin[f] <= y.end[h], y.end[h] < y.end[f] PROVE FALSE
  BY DEF Idles
<1>1. y.end[h] \in Nat /\ y.end[f] \in Nat /\ y.begin[f] \in Nat
  BY PlacedIs
<1>2. (h < f => y.end[h] < y.begin[f]) /\ (f < h => y.end[f] < y.end[h]) /\ (f = h \/ f < h \/ h < f)
  BY InOrder
<1> QED  BY <1>1, <1>2

\* One search keeps it so, and uses a byte at least, or all of the chunk.
LEMMA AfterSearch ==
    ASSUME NEW y, Layout(y), NEW k \in Nat, k <= Len(y.bytes), NEW L, NEW G, IsSequence(G),
           NEW a, NEW s \in Nat, s <= k, After(y, k, L, G, a, s)
    PROVE  \E u \in Nat : /\ u <= k /\ (u = k \/ s < u)
                          /\ After(y, k, L, G, OneSearch(a), u)
<1> DEFINE pa == a.parser
           e == a.exp
           p == SubSeq(y.bytes, s + 1, k)
           R == search_frame(pa, e, a.str)
           b == OneSearch(a)
<1>1. /\ a = [parser |-> pa, exp |-> e, str |-> a.str, heard |-> a.heard]
      /\ a.str = p /\ Serves(y, k, pa, L) /\ At(y, s, TitlesOf(pa), e, L)
      /\ Whole(y, s, k, TitlesOf(pa), L)
      /\ IsSequence(a.heard) /\ Hears(y, s, G \o a.heard, L)
  BY DEF After
<1>2. Placed(y) /\ Len(y.bytes) \in Nat /\ y.bytes \in Seq(Symbol)
  BY DEF Layout, Placed
<1>3. Len(p) = k - s /\ (p = <<>> => s = k) /\ SubSeq(y.bytes, k + 1, k) = <<>>
  BY <1>2, AllUsed
<1>4. Searches(y, s, k, TitlesOf(pa), L, R)
  <2>1. TitlesOf(pa) \subseteq DOMAIN TitleLen
    BY TitlesAre DEF TitlesOf
  <2>2. R = Search(TitlesOf(pa), e, p, y.star)
    <3>1. search_frame(pa, e, p) = Search(TitlesOf(pa), e, p, y.star)
      BY <1>1, SearchedBy
    <3> QED  BY <1>1, <3>1
  <2>3. Searches(y, s, k, TitlesOf(pa), L, Search(TitlesOf(pa), e, p, y.star))
    <3> HIDE DEF pa, e
    <3> QED  BY <1>1, <2>1, SearchIs
  <2> HIDE DEF R
  <2> QED  BY <2>2, <2>3
<1>5. b = IF a.str = <<>> THEN a
          ELSE IF ~R.finished THEN [a EXCEPT !.exp = R.exp, !.str = <<>>]
          ELSE IF pa = "opensess"
               THEN [parser |-> "moniclient", exp |-> Idle, str |-> <<>>,
                     heard |-> Append(a.heard, Message(R.exp.frame))]
               ELSE [parser |-> pa, exp |-> R.exp, heard |-> Append(a.heard, Message(R.exp.frame)),
                     str |-> SubSeq(a.str, R.searchpos + 1, Len(a.str))]
  BY DEF OneSearch
<1> HIDE DEF pa, e, R, b, p
<1>6. CASE a.str = <<>>
  <2>1. b = a /\ s = k
    BY <1>1, <1>3, <1>5, <1>6
  <2>2. After(y, k, L, G, b, s)
    BY <2>1
  <2> QED  BY <2>1, <2>2 DEF b
<1>7. CASE a.str # <<>> /\ ~R.finished
  <2>1. At(y, k, TitlesOf(pa), R.exp, L) /\ Missed(y, s, k, L)
    BY <1>4, <1>7 DEF Searches, Finds
  <2>2. b = [parser |-> pa, exp |-> R.exp, str |-> <<>>, heard |-> a.heard]
    <3>1. b = [a EXCEPT !.exp = R.exp, !.str = <<>>]
      BY <1>5, <1>7
    <3> DEFINE h == a.heard
               q == a.str
    <3>2. a = [parser |-> pa, exp |-> e, str |-> q, heard |-> h]
      BY <1>1
    <3> HIDE DEF h, q
    <3>3. [a EXCEPT !.exp = R.exp, !.str = <<>>] = [parser |-> pa, exp |-> R.exp, str |-> <<>>, heard |-> h]
      <4>1. [[parser |-> pa, exp |-> e, str |-> q, heard |-> h] EXCEPT !.exp = R.exp, !.str = <<>>]
               = [parser |-> pa, exp |-> R.exp, str |-> <<>>, heard |-> h]
        <5> DEFINE r == [parser |-> pa, exp |-> e, str |-> q, heard |-> h]
                   r1 == [parser |-> pa, exp |-> R.exp, str |-> q, heard |-> h]
                   v == R.exp
        <5>1. [r EXCEPT !.exp = v, !.str = <<>>] = [[r EXCEPT !.exp = v] EXCEPT !.str = <<>>]
          <6> HIDE DEF r, v
          <6> QED  OBVIOUS
        <5>2. [r EXCEPT !.exp = v] = r1
          <6> HIDE DEF v
          <6> QED  BY DEF v
        <5>3. [r1 EXCEPT !.str = <<>>] = [parser |-> pa, exp |-> R.exp, str |-> <<>>, heard |-> h]
          OBVIOUS
        <5> HIDE DEF r1
        <5> QED  BY <5>1, <5>2, <5>3
      <4> QED  BY <3>2, <4>1
    <3> QED  BY <3>1, <3>3 DEF h
  <2>3. Hears(y, k, G \o a.heard, L)
    BY <1>1, <1>2, <2>1, HearsNone
  <2>4. Whole(y, k, k, TitlesOf(pa), L)
    BY <1>2, NothingBehind
  <2>5. After(y, k, L, G, b, k)
    <3>1. b.parser = pa /\ b.exp = R.exp /\ b.str = <<>> /\ b.heard = a.heard
      BY <2>2
    <3> QED  BY <1>1, <1>3, <2>1, <2>2, <2>3, <2>4, <3>1 DEF After
  <2>6. k <= k
    OBVIOUS
  <2> QED  BY <2>5, <2>6 DEF b
<1>8. CASE a.str # <<>> /\ R.finished
  <2>1. PICK h \in FramesOf(y) : Finds(y, s, k, L, R, h)
    BY <1>4, <1>8 DEF Searches
  <2> DEFINE x == Message(R.exp.frame)
             q == y.end[h]
             H == Append(a.heard, x)
  <2>2. /\ R.exp.searchstatus = "NULL" /\ R.searchpos = q - s /\ s < q /\ q <= k
        /\ \A f \in FramesOf(y) : s < y.end[f] /\ y.end[f] < q => f \in L
        /\ h \notin L => x = Sent(y, h)
    BY <2>1 DEF Finds
  <2>3. q \in Nat
    BY <1>2, PlacedIs
  <2> HIDE DEF x
  <2>4. IsSequence(H) /\ Hears(y, q, G \o H, L)
    <3>1. IsSequence(G \o a.heard) /\ G \o H = Append(G \o a.heard, x) /\ IsSequence(H)
      <4> DEFINE ah == a.heard
      <4>1. IsSequence(ah)
        BY <1>1
      <4> HIDE DEF ah
      <4>2. IsSequence(G \o ah) /\ G \o Append(ah, x) = Append(G \o ah, x) /\ IsSequence(Append(ah, x))
        BY <4>1, JoinAppend, AppendTo
      <4> QED  BY <4>2 DEF ah
    <3>2. Hears(y, q, Append(G \o a.heard, x), L)
      BY <1>1, <1>2, <2>2, HearsOne
    <3> HIDE DEF H, q
    <3> QED  BY <3>1, <3>2
  <2>5. Idles(y, q, L)
    BY <1>2, IdlesAtEnd
  <2> HIDE DEF q
  <2>6. CASE pa = "opensess"
    <3>1. b = [parser |-> "moniclient", exp |-> Idle, str |-> <<>>, heard |-> H]
      BY <1>5, <1>8, <2>6 DEF x
    <3> HIDE DEF H
    <3>2. b.parser = "moniclient" /\ b.exp = Idle /\ b.str = <<>> /\ b.heard = H
      BY <3>1
    <3>3. \A f \in FramesOf(y) : f > 1 /\ y.begin[f] <= k => f \in L
      BY <1>1, <2>6 DEF Serves
    <3>4. \A f \in FramesOf(y) : /\ f \in Nat /\ 1 <= f /\ y.begin[f] \in Nat /\ y.end[f] \in Nat
                                 /\ y.begin[f] <= y.end[f]
      <4> SUFFICES ASSUME NEW f \in FramesOf(y)
                   PROVE  /\ f \in Nat /\ 1 <= f /\ y.begin[f] \in Nat /\ y.end[f] \in Nat
                          /\ y.begin[f] <= y.end[f]
        OBVIOUS
      <4>1. f \in Nat /\ 1 <= f
        BY <1>2 DEF FramesOf, Placed
      <4> DEFINE l == SizeOf(y, f)
                 b1 == y.begin[f]
                 c == y.end[f]
      <4>2. l \in 5 .. 9 /\ b1 \in Nat /\ c \in Nat /\ b1 + l + 5 <= c
        BY <1>2, PlacedIs
      <4> HIDE DEF l, b1, c
      <4>3. b1 <= c
        BY <4>2
      <4> QED  BY <4>1, <4>2, <4>3 DEF b1, c
    <3>5. \A f \in FramesOf(y) : f = 1 => y.end[f] <= k
      <4> SUFFICES ASSUME NEW f \in FramesOf(y), f = 1 PROVE y.end[f] <= k
        OBVIOUS
      <4>1. y.end[f] <= q
        <5>1. f = h \/ f < h
          <6>1. h \in Nat /\ 1 <= h /\ f \in Nat
            BY <2>1, <3>4
          <6> QED  BY <6>1
        <5>2. f < h => y.end[f] < y.end[h]
          BY <1>2, <2>1, InOrder
        <5>3. y.end[f] \in Nat /\ y.end[h] \in Nat
          BY <2>1, <3>4
        <5> DEFINE c == y.end
        <5>4. c[f] \in Nat /\ c[h] \in Nat /\ (f = h \/ c[f] < c[h])
          BY <5>1, <5>2, <5>3
        <5> HIDE DEF c
        <5>5. c[f] <= c[h]
          BY <5>4
        <5> QED  BY <5>5 DEF c, q
      <4> QED  BY <2>2, <2>3, <3>4, <4>1
    <3>6. Serves(y, k, "moniclient", L)
      <4>1. y.star = FALSE
        BY <1>1, <2>6 DEF Serves
      <4> QED  BY <3>5, <4>1 DEF Serves
    <3>7. Idles(y, k, L)
      <4> SUFFICES ASSUME NEW f \in FramesOf(y), y.begin[f] <= k, k < y.end[f] PROVE f \in L
        BY DEF Idles
      <4>1. f # 1
        BY <3>4, <3>5
      <4> QED  BY <3>3, <3>4, <4>1
    <3>8. Missed(y, q, k, L)
      <4> SUFFICES ASSUME NEW f \in FramesOf(y), q < y.end[f], y.end[f] <= k PROVE f \in L
        BY DEF Missed
      <4>1. y.begin[f] <= k
        BY <3>4
      <4>2. f # 1
        <5> SUFFICES ASSUME f = 1 PROVE FALSE
          OBVIOUS
        <5>1. f = h \/ f < h
          <6>1. h \in Nat /\ 1 <= h /\ f \in Nat
            BY <2>1, <3>4
          <6> QED  BY <6>1
        <5>2. f < h => y.end[f] < y.end[h]
          BY <1>2, InOrder
        <5> QED  BY <2>3, <3>4, <5>1, <5>2 DEF q
      <4> QED  BY <3>3, <3>4, <4>1, <4>2
    <3>9. Hears(y, k, G \o H, L)
      BY <1>2, <2>2, <2>3, <2>4, <3>8, HearsNone
    <3>10. Whole(y, k, k, TitlesOf("moniclient"), L)
      BY <1>2, NothingBehind
    <3>11. At(y, k, TitlesOf("moniclient"), Idle, L)
      BY <3>7 DEF At, Idle
    <3>12. After(y, k, L, G, b, k)
      BY <1>3, <2>4, <3>1, <3>2, <3>6, <3>9, <3>10, <3>11 DEF After
    <3>13. k <= k
      OBVIOUS
    <3> QED  BY <3>12, <3>13 DEF b
  <2>7. CASE pa # "opensess"
    <3>1. b = [parser |-> pa, exp |-> R.exp, heard |-> H, str |-> SubSeq(a.str, R.searchpos + 1, Len(a.str))]
      BY <1>5, <1>8, <2>7 DEF x
    <3> HIDE DEF H
    <3>2. SubSeq(a.str, R.searchpos + 1, Len(a.str)) = SubSeq(y.bytes, q + 1, k)
      <4> DEFINE i == q - s + 1
      <4>1. R.searchpos + 1 = i
        <5>1. R.searchpos = q - s
          BY <2>2
        <5> QED  BY <2>3, <5>1
      <4>2. i \in 1 .. k - s + 1 /\ k - s \in i - 1 .. k - s /\ s + i = q + 1 /\ s + (k - s) = k
        BY <2>2, <2>3
      <4> HIDE DEF i
      <4>3. SubSeq(SubSeq(y.bytes, s + 1, k), i, k - s) = SubSeq(y.bytes, s + i, s + (k - s))
        BY <1>2, <4>2, PartOfPart
      <4> QED  BY <1>1, <1>3, <4>1, <4>2, <4>3 DEF p
    <3>3. b = [parser |-> pa, exp |-> R.exp, str |-> SubSeq(y.bytes, q + 1, k), heard |-> H]
      BY <3>1, <3>2
    <3>4. b.parser = pa /\ b.exp = R.exp /\ b.str = SubSeq(y.bytes, q + 1, k) /\ b.heard = H
      BY <3>3
    <3>5. At(y, q, TitlesOf(pa), R.exp, L)
      BY <2>2, <2>5 DEF At
    <3>6. Whole(y, q, k, TitlesOf(pa), L)
      <4>1. \A f \in FramesOf(y) : y.begin[f] \in Nat
        BY <1>2, PlacedIs
      <4>2. \A f \in FramesOf(y) : q < y.begin[f] => s < y.begin[f]
        BY <2>2, <2>3, <4>1
      <4> QED  BY <1>1, <4>2 DEF Whole
    <3>7. After(y, k, L, G, b, q)
      BY <1>1, <2>4, <3>3, <3>4, <3>5, <3>6 DEF After
    <3> QED  BY <2>2, <2>3, <3>7 DEF b
  <2> QED  BY <2>6, <2>7
<1> QED  BY <1>6, <1>7, <1>8

\* All searches of a chunk.
SearchesOf(f, a, n) == f = [i \in 0 .. n |-> IF i = 0 THEN a ELSE OneSearch(f[i - 1])]

\* The loop of exp_process_data is a function that exists.
LEMMA SearchesExist ==
    ASSUME NEW a, NEW n \in Nat
    PROVE  \E f : SearchesOf(f, a, n)
<1> DEFINE T == {k \in Int : \E f : SearchesOf(f, a, k)}
<1>1. 0 \in T
  <2> DEFINE f == [i \in 0 .. 0 |-> a]
  <2>1. f = [i \in 0 .. 0 |-> IF i = 0 THEN a ELSE OneSearch(f[i - 1])]
    <3>1. \A i \in 0 .. 0 : i = 0
      OBVIOUS
    <3> QED  BY <3>1
  <2>2. SearchesOf(f, a, 0)
    BY <2>1 DEF SearchesOf
  <2> HIDE DEF f
  <2> QED  BY <2>2
<1>2. ASSUME NEW k \in Int, 0 <= k, k \in T PROVE k + 1 \in T
  <2>1. PICK f : SearchesOf(f, a, k)
    BY <1>2
  <2> DEFINE g == [i \in 0 .. k + 1 |-> IF i = k + 1 THEN OneSearch(f[k]) ELSE f[i]]
  <2>2. \A i \in 0 .. k : f[i] = IF i = 0 THEN a ELSE OneSearch(f[i - 1])
    BY <2>1 DEF SearchesOf
  <2>3. \A i \in 0 .. k + 1 : g[i] = IF i = k + 1 THEN OneSearch(f[k]) ELSE f[i]
    OBVIOUS
  <2>4. ASSUME NEW i \in 0 .. k + 1 PROVE g[i] = IF i = 0 THEN a ELSE OneSearch(g[i - 1])
    <3> HIDE DEF g
    <3>1. CASE i = k + 1
      <4>1. i # 0 /\ i - 1 = k /\ k \in 0 .. k + 1 /\ k # k + 1
        BY <1>2, <3>1
      <4>2. g[k] = f[k] /\ g[i] = OneSearch(f[k])
        BY <2>3, <3>1, <4>1
      <4> QED  BY <4>1, <4>2
    <3>2. CASE i # k + 1 /\ i # 0
      <4>1. i \in 0 .. k /\ i - 1 \in 0 .. k + 1 /\ i - 1 # k + 1
        BY <1>2, <3>2
      <4>2. g[i] = f[i] /\ g[i - 1] = f[i - 1] /\ f[i] = OneSearch(f[i - 1])
        BY <2>2, <2>3, <3>2, <4>1
      <4> QED  BY <3>2, <4>2
    <3>3. CASE i # k + 1 /\ i = 0
      <4>1. i \in 0 .. k
        BY <1>2, <3>3
      <4> QED  BY <2>2, <2>3, <3>3, <4>1
    <3> QED  BY <3>1, <3>2, <3>3
  <2>5. SearchesOf(g, a, k + 1)
    <3>1. g = [i \in 0 .. k + 1 |-> g[i]]
      OBVIOUS
    <3> HIDE DEF g
    <3>2. [i \in 0 .. k + 1 |-> g[i]] = [i \in 0 .. k + 1 |-> IF i = 0 THEN a ELSE OneSearch(g[i - 1])]
      BY <2>4
    <3> QED  BY <3>1, <3>2 DEF SearchesOf
  <2> QED  BY <2>5
<1>3. \A k \in Int : 0 <= k => k \in T
  <2> HIDE DEF T
  <2>1. 0 \in Int
    OBVIOUS
  <2> QED  BY <1>1, <1>2, <2>1, Induction
<1>4. n \in T
  BY <1>3
<1> QED  BY <1>4

\* exp_process_data is the last value of it.
LEMMA ProcessDef ==
    ASSUME NEW pa, NEW e, NEW p, Len(p) \in Nat
    PROVE  \E f : /\ SearchesOf(f, [parser |-> pa, exp |-> e, str |-> p, heard |-> <<>>], Len(p))
                  /\ exp_process_data(pa, e, p) =
                        [parser |-> f[Len(p)].parser, exp |-> f[Len(p)].exp, heard |-> f[Len(p)].heard]
<1> DEFINE a0 == [parser |-> pa, exp |-> e, str |-> p, heard |-> <<>>]
           after[n \in 0 .. Len(p)] ==
             IF n = 0 THEN [parser |-> pa, exp |-> e, str |-> p, heard |-> <<>>]
             ELSE LET a == after[n - 1]
                      s == search_frame(a.parser, a.exp, a.str)
                  IN  IF a.str = <<>> THEN a
                      ELSE IF ~s.finished THEN [a EXCEPT !.exp = s.exp, !.str = <<>>]
                      ELSE LET heard1 == Append(a.heard, Message(s.exp.frame))
                           IN  IF a.parser = "opensess"
                               THEN [parser |-> "moniclient", exp |-> Idle, str |-> <<>>,
                                     heard |-> heard1]
                               ELSE [parser |-> a.parser, exp |-> s.exp, heard |-> heard1,
                                     str |-> SubSeq(a.str, s.searchpos + 1, Len(a.str))]
<1>1. exp_process_data(pa, e, p) =
        [parser |-> after[Len(p)].parser, exp |-> after[Len(p)].exp, heard |-> after[Len(p)].heard]
  BY DEF exp_process_data
<1>2. after = CHOOSE f : SearchesOf(f, a0, Len(p))
  BY DEF SearchesOf, OneSearch
<1> HIDE DEF after
<1>3. \E f : SearchesOf(f, a0, Len(p))
  <2> HIDE DEF a0
  <2> QED  BY SearchesExist
<1>4. SearchesOf(after, a0, Len(p))
  <2> HIDE DEF a0
  <2> QED  BY <1>2, <1>3
<1> QED  BY <1>1, <1>4

\* The whole chunk keeps it so: there are as many searches as bytes.
LEMMA ChunkIs ==
    ASSUME NEW y, Layout(y), NEW c \in Nat, NEW k \in Nat, c <= k, k <= Len(y.bytes), NEW L,
           NEW G, IsSequence(G), NEW pa, Serves(y, k, pa, L), NEW e, At(y, c, TitlesOf(pa), e, L),
           Whole(y, c, k, TitlesOf(pa), L), Hears(y, c, G, L),
           NEW r, r = exp_process_data(pa, e, SubSeq(y.bytes, c + 1, k))
    PROVE  /\ Serves(y, k, r.parser, L) /\ At(y, k, TitlesOf(r.parser), r.exp, L)
           /\ IsSequence(G \o r.heard) /\ Hears(y, k, G \o r.heard, L)
<1> DEFINE p == SubSeq(y.bytes, c + 1, k)
           a0 == [parser |-> pa, exp |-> e, str |-> p, heard |-> <<>>]
           N == Len(p)
<1>0. Placed(y) /\ Len(y.bytes) \in Nat
  BY DEF Layout, Placed
<1>1. N = k - c /\ N \in Nat
  <2>1. Len(p) = k - c
    BY <1>0, AllUsed
  <2> QED  BY <2>1
<1>2. PICK f : SearchesOf(f, a0, N) /\ r = [parser |-> f[N].parser, exp |-> f[N].exp, heard |-> f[N].heard]
  <2> HIDE DEF p
  <2> QED  BY <1>1, ProcessDef DEF p
<1>3. \A i \in 0 .. N : f[i] = IF i = 0 THEN a0 ELSE OneSearch(f[i - 1])
  BY <1>2 DEF SearchesOf
<1> DEFINE Used(n) == \E s \in Nat : s <= k /\ (s = k \/ c + n <= s) /\ After(y, k, L, G, f[n], s)
           T == {n \in Int : n <= N => Used(n)}
<1>4. 0 \in T
  <2>1. G \o <<>> = G /\ IsSequence(<<>>)
    <3>1. PICK M : G \in Seq(M)
      BY DEF IsSequence
    <3> QED  BY <3>1, ConcatEmptySeq, EmptySeq DEF IsSequence
  <2>2. f[0] = a0
    <3> HIDE DEF a0, N
    <3>1. 0 \in 0 .. N
      BY <1>1
    <3> QED  BY <1>3, <3>1
  <2>3. After(y, k, L, G, a0, c)
    <3> HIDE DEF p
    <3> QED  BY <2>1 DEF After, p
  <2>4. Used(0)
    <3>1. c + 0 <= c
      OBVIOUS
    <3> HIDE DEF a0
    <3> QED  BY <2>2, <2>3, <3>1
  <2> QED  BY <2>4
<1>5. ASSUME NEW n \in Int, 0 <= n, n \in T PROVE n + 1 \in T
  <2> SUFFICES ASSUME n + 1 <= N PROVE Used(n + 1)
    OBVIOUS
  <2>1. n <= N /\ n + 1 \in 0 .. N /\ n + 1 # 0 /\ n + 1 - 1 = n
    BY <1>1, <1>5
  <2>2. PICK s \in Nat : s <= k /\ (s = k \/ c + n <= s) /\ After(y, k, L, G, f[n], s)
    BY <1>5, <2>1
  <2>3. PICK u \in Nat : u <= k /\ (u = k \/ s < u) /\ After(y, k, L, G, OneSearch(f[n]), u)
    BY <2>2, AfterSearch
  <2>4. f[n + 1] = OneSearch(f[n])
    <3> HIDE DEF a0, N
    <3> QED  BY <1>3, <2>1
  <2>5. u = k \/ c + (n + 1) <= u
    BY <1>5, <2>2, <2>3
  <2>6. After(y, k, L, G, f[n + 1], u)
    BY <2>3, <2>4
  <2> QED  BY <2>3, <2>5, <2>6
<1>6. N \in T
  <2>1. \A n \in Int : 0 <= n => n \in T
    <3> HIDE DEF T
    <3>1. 0 \in Int
      OBVIOUS
    <3> QED  BY <1>4, <1>5, <3>1, Induction
  <2> HIDE DEF T
  <2> QED  BY <1>1, <2>1
<1>7. After(y, k, L, G, f[N], k)
  <2> HIDE DEF N
  <2>1. PICK s \in Nat : s <= k /\ (s = k \/ c + N <= s) /\ After(y, k, L, G, f[N], s)
    BY <1>1, <1>6
  <2>2. s = k
    BY <1>1, <2>1
  <2> QED  BY <2>1, <2>2
<1>8. r.parser = f[N].parser /\ r.exp = f[N].exp /\ r.heard = f[N].heard
  BY <1>2
<1>9. IsSequence(G \o f[N].heard)
  <2>1. IsSequence(f[N].heard)
    BY <1>7 DEF After
  <2> QED  BY <2>1, JoinAppend
<1> QED  BY <1>7, <1>8, <1>9 DEF After

----------------------------------------------------------------------------
FrameSet == [title : DOMAIN TitleLen, text : Seq(STRING), nul : BOOLEAN]

\* The bytes of a frame.
LEMMA BytesAre ==
    ASSUME NEW f, f.title \in DOMAIN TitleLen, f.text \in Seq(STRING), f.nul \in BOOLEAN,
           NEW l, l = TitleLen[f.title], NEW n, n = Len(f.text)
    PROVE  /\ l \in 5 .. 9 /\ n \in Nat /\ f.text \in Seq(Symbol)
           /\ Bytes(f) \in Seq(Symbol) /\ Len(Bytes(f)) = l + n + (IF f.nul THEN 6 ELSE 5)
           /\ \A i \in 1 .. l : Bytes(f)[i] = Title(f.title)[i]
           /\ \A i \in 1 .. n : Bytes(f)[l + i] = f.text[i]
           /\ Bytes(f)[l + n + 1] = "*" /\ Bytes(f)[l + n + 2] = "hex" /\ Bytes(f)[l + n + 3] = "hex"
           /\ Bytes(f)[l + n + 4] = "CR" /\ Bytes(f)[l + n + 5] = "LF"
           /\ f.nul => Bytes(f)[l + n + 6] = "NUL"
<1> DEFINE T == Title(f.title)
           X == f.text
           E == <<"*", "hex", "hex", "CR", "LF">>
           Z == IF f.nul THEN <<"NUL">> ELSE <<>>
           z == IF f.nul THEN 1 ELSE 0
<1>1. STRING \subseteq Symbol /\ "*" \in Symbol /\ "hex" \in Symbol
      /\ "CR" \in Symbol /\ "LF" \in Symbol /\ "NUL" \in Symbol
  BY DEF Symbol
<1>2. T \in Seq(Symbol) /\ Len(T) = l /\ l \in 5 .. 9
  BY TitleIs
<1>3. X \in Seq(Symbol) /\ Len(X) = n /\ n \in Nat
  <2>1. X \in Seq(Symbol)
    BY <1>1, SeqMonotonic
  <2> HIDE DEF X
  <2>2. Len(X) \in Nat
    BY <2>1
  <2> QED  BY <2>1, <2>2 DEF X
<1>4. E \in Seq(Symbol) /\ Len(E) = 5
      /\ E[1] = "*" /\ E[2] = "hex" /\ E[3] = "hex" /\ E[4] = "CR" /\ E[5] = "LF"
  BY <1>1
<1>5. Z \in Seq(Symbol) /\ Len(Z) = z /\ z \in 0 .. 1 /\ (f.nul => Z[1] = "NUL" /\ z = 1)
  <2>1. CASE f.nul
    <3>1. <<"NUL">> \in Seq(Symbol) /\ Len(<<"NUL">>) = 1 /\ <<"NUL">>[1] = "NUL"
      BY <1>1
    <3> QED  BY <2>1, <3>1
  <2>2. CASE ~f.nul
    BY <2>2, EmptySeq
  <2> QED  BY <2>1, <2>2
<1>6. Bytes(f) = ((T \o X) \o E) \o Z
  BY DEF Bytes
<1> HIDE DEF T, X, E, Z
<1>7. /\ T \o X \in Seq(Symbol) /\ Len(T \o X) = l + n
      /\ \A i \in 1 .. l + n : (T \o X)[i] = IF i <= l THEN T[i] ELSE X[i - l]
  <2>1. /\ T \o X \in Seq(Symbol) /\ Len(T \o X) = Len(T) + Len(X)
        /\ \A i \in 1 .. Len(T) + Len(X) : (T \o X)[i] = IF i <= Len(T) THEN T[i] ELSE X[i - Len(T)]
    BY <1>2, <1>3, ConcatProperties
  <2> QED  BY <1>2, <1>3, <2>1
<1> DEFINE A == T \o X
           m == l + n
<1>a. m \in Nat /\ m = l + n
  BY <1>2, <1>3
<1>b. A \in Seq(Symbol) /\ Len(A) = m
  BY <1>7
<1>c. \A i \in 1 .. m : A[i] = IF i <= l THEN T[i] ELSE X[i - l]
  BY <1>7
<1> HIDE DEF A, m
<1>8. A \o E \in Seq(Symbol) /\ Len(A \o E) = m + 5
      /\ \A i \in 1 .. m + 5 : (A \o E)[i] = IF i <= m THEN A[i] ELSE E[i - m]
  <2>1. /\ A \o E \in Seq(Symbol) /\ Len(A \o E) = Len(A) + Len(E)
        /\ \A i \in 1 .. Len(A) + Len(E) : (A \o E)[i] = IF i <= Len(A) THEN A[i] ELSE E[i - Len(A)]
    BY <1>4, <1>b, ConcatProperties
  <2> QED  BY <1>4, <1>b, <2>1
<1> DEFINE B == A \o E
<1>d. B \in Seq(Symbol) /\ Len(B) = m + 5
  BY <1>8
<1>e. \A i \in 1 .. m + 5 : B[i] = IF i <= m THEN A[i] ELSE E[i - m]
  BY <1>8
<1> HIDE DEF B, z
<1>9. B \o Z \in Seq(Symbol) /\ Len(B \o Z) = m + 5 + z
      /\ \A i \in 1 .. m + 5 + z : (B \o Z)[i] = IF i <= m + 5 THEN B[i] ELSE Z[i - (m + 5)]
  <2>1. /\ B \o Z \in Seq(Symbol) /\ Len(B \o Z) = Len(B) + Len(Z)
        /\ \A i \in 1 .. Len(B) + Len(Z) : (B \o Z)[i] = IF i <= Len(B) THEN B[i] ELSE Z[i - Len(B)]
    BY <1>5, <1>d, ConcatProperties
  <2> QED  BY <1>5, <1>d, <2>1
<1> DEFINE C == B \o Z
<1>f. Bytes(f) = C
  BY <1>6 DEF A, B
<1>g. C \in Seq(Symbol) /\ Len(C) = m + 5 + z
  BY <1>9
<1>h. \A i \in 1 .. m + 5 : C[i] = B[i]
  <2>1. \A i \in 1 .. m + 5 : i \in 1 .. m + 5 + z /\ i <= m + 5
    BY <1>5, <1>a
  <2> QED  BY <1>9, <2>1
<1>i. f.nul => C[m + 6] = "NUL"
  <2>1. f.nul => m + 6 \in 1 .. m + 5 + z /\ ~(m + 6 <= m + 5) /\ (m + 6) - (m + 5) = 1
    BY <1>5, <1>a
  <2> QED  BY <1>5, <1>9, <2>1
<1> HIDE DEF C
<1>10. \A i \in 1 .. m : C[i] = A[i]
  <2>1. \A i \in 1 .. m : i \in 1 .. m + 5 /\ i <= m
    BY <1>a
  <2> QED  BY <1>e, <1>h, <2>1
<1>11. C[m + 1] = "*" /\ C[m + 2] = "hex" /\ C[m + 3] = "hex" /\ C[m + 4] = "CR" /\ C[m + 5] = "LF"
  <2>1. \A i \in 1 .. 5 : m + i \in 1 .. m + 5 /\ ~(m + i <= m) /\ (m + i) - m = i
    BY <1>a
  <2>2. \A i \in 1 .. 5 : C[m + i] = E[i]
    BY <1>e, <1>h, <2>1
  <2>3. 1 \in 1 .. 5 /\ 2 \in 1 .. 5 /\ 3 \in 1 .. 5 /\ 4 \in 1 .. 5 /\ 5 \in 1 .. 5
    OBVIOUS
  <2> QED  BY <1>4, <2>2, <2>3
<1>12. \A i \in 1 .. l : C[i] = T[i]
  <2>1. \A i \in 1 .. l : i \in 1 .. m /\ i <= l
    BY <1>2, <1>3, <1>a
  <2> QED  BY <1>10, <1>c, <2>1
<1>13. \A i \in 1 .. n : C[l + i] = X[i]
  <2>1. \A i \in 1 .. n : l + i \in 1 .. m /\ ~(l + i <= l) /\ (l + i) - l = i
    <3>1. l \in Nat /\ n \in Nat /\ m = l + n /\ 1 <= l
      BY <1>2, <1>3, <1>a
    <3> QED  BY <3>1
  <2> QED  BY <1>10, <1>c, <2>1
<1>14. m + 5 + z = l + n + (IF f.nul THEN 6 ELSE 5)
  BY <1>2, <1>3, <1>a DEF z
<1>15. /\ l + n + 1 = m + 1 /\ l + n + 2 = m + 2 /\ l + n + 3 = m + 3 /\ l + n + 4 = m + 4
       /\ l + n + 5 = m + 5 /\ l + n + 6 = m + 6
  BY <1>a
<1>16. Len(C) = l + n + (IF f.nul THEN 6 ELSE 5)
  BY <1>g, <1>14
<1> HIDE DEF m
<1> QED  BY <1>2, <1>3, <1>f, <1>g, <1>i, <1>11, <1>12, <1>13, <1>15, <1>16 DEF T, X

----------------------------------------------------------------------------
\* The bytes of the first n frames of F.
Upto(F, n) == FlattenSeq([i \in 1 .. n |-> Bytes(F[i])])

\* They are put together frame after frame.
LEMMA UptoIs ==
    ASSUME NEW F, NEW N \in Nat, \A i \in 1 .. N : Bytes(F[i]) \in Seq(Symbol)
    PROVE  /\ Upto(F, 0) = <<>>
           /\ \A n \in 0 .. N : Upto(F, n) \in Seq(Symbol)
           /\ \A n \in 0 .. N - 1 : Upto(F, n + 1) = Upto(F, n) \o Bytes(F[n + 1])
<1> DEFINE S == Seq(Symbol)
           B == [i \in 1 .. N |-> Bytes(F[i])]
           c == B[1]
           D == [i \in 1 .. N |-> [v \in S |-> v \o B[i]]]
           P(n) == [i \in 1 .. n |-> B[i]]
           U(n) == FlattenSeq(P(n))
<1>1. B \in [1 .. N -> S]
  OBVIOUS
<1>2. \A n \in 0 .. N : Upto(F, n) = U(n)
  <2> SUFFICES ASSUME NEW n \in 0 .. N PROVE Upto(F, n) = U(n)
    OBVIOUS
  <2>1. \A i \in 1 .. n : i \in 1 .. N /\ B[i] = Bytes(F[i])
    OBVIOUS
  <2>2. [i \in 1 .. n |-> Bytes(F[i])] = P(n)
    BY <2>1
  <2> HIDE DEF P
  <2> QED  BY <2>2 DEF Upto
<1>e. <<>> \in S
  BY EmptySeq
<1>3. \A u, v \in S : u \o v \in S
  BY ConcatProperties
<1>4. \A i \in 1 .. N : B[i] = Bytes(F[i])
  OBVIOUS
<1> HIDE DEF B, S
<1>5. U(0) = <<>>
  <2>1. P(0) \in Seq(S) /\ Len(P(0)) = 0
    <3>1. 0 \in Nat /\ \A i \in 1 .. 0 : B[i] \in S
      BY <1>1
    <3> QED  BY <3>1, IsASeq
  <2>2. P(0) = <<>>
    BY <2>1, EmptySeq
  <2> HIDE DEF P
  <2> QED  BY <2>1, <2>2 DEF FlattenSeq
<1>6. CASE N = 0
  <2> HIDE DEF U
  <2>1. \A n \in 0 .. N : n = 0
    BY <1>6
  <2>2. 0 \in 0 .. N /\ 0 .. N - 1 = {}
    BY <1>6
  <2>3. Upto(F, 0) = <<>>
    BY <1>2, <1>5, <2>2
  <2> QED  BY <1>e, <2>1, <2>2, <2>3 DEF S
<1>7. CASE N # 0
  <2>0. N \in Nat /\ 1 <= N /\ 1 \in 1 .. N /\ 1 \in Int /\ N \in Int
    BY <1>7
  <2>1. c \in S
    BY <1>1, <2>0
  <2>2. D \in [1 .. N -> [S -> S]] /\ \A i \in 1 .. N, v \in S : D[i][v] = v \o B[i]
    BY <1>1, <1>3
  <2> HIDE DEF D, c
  <2>3. PICK h \in [1 .. N -> S] : Steps(h, D, c, 1, N)
    BY <2>0, <2>1, <2>2, StepByStep
  <2>4. h[1] = c /\ \A i \in 2 .. N : h[i] = h[i - 1] \o B[i]
    <3>1. \A i \in 2 .. N : i \in 1 .. N /\ i # 1 /\ i - 1 \in 1 .. N
      BY <2>0
    <3>2. \A k \in 1 .. N : h[k] = IF k = 1 THEN c ELSE D[k][h[k - 1]]
      BY <2>3 DEF Steps
    <3> QED  BY <2>0, <2>2, <3>1, <3>2
  <2>5. \A n \in 1 .. N : U(n) = h[n]
    <3> SUFFICES ASSUME NEW n \in 1 .. N PROVE U(n) = h[n]
      OBVIOUS
    <3> DEFINE p == P(n)
               Eq(g) == g = [i \in 1 .. Len(p) |-> IF i = 1 THEN p[i] ELSE g[i - 1] \o p[i]]
               fl == CHOOSE g : Eq(g)
               hn == [i \in 1 .. n |-> h[i]]
    <3>0. n \in Nat /\ n # 0 /\ n \in 1 .. n /\ 1 \in 1 .. n /\ n <= N /\ 1 <= n
      BY <2>0
    <3>1. p \in Seq(S) /\ Len(p) = n /\ \A i \in 1 .. n : p[i] = B[i]
      <4>1. \A i \in 1 .. n : B[i] \in S
        BY <1>1, <3>0
      <4>2. P(n) \in Seq(S)
        BY <3>0, <4>1, IsASeq
      <4> QED  BY <3>0, <4>2
    <3> HIDE DEF p
    <3>2. FlattenSeq(p) = fl[n]
      BY <3>0, <3>1 DEF FlattenSeq
    <3>3. Eq(hn)
      <4>1. \A i \in 1 .. n : /\ i # 1 => i - 1 \in 1 .. n /\ i \in 2 .. N
                              /\ i \in 1 .. N
        BY <3>0
      <4>2. \A i \in 1 .. n : hn[i] = IF i = 1 THEN p[i] ELSE hn[i - 1] \o p[i]
        BY <2>4, <3>1, <4>1 DEF c
      <4> QED  BY <3>1, <4>2
    <3>4. Eq(fl)
      <4> HIDE DEF Eq
      <4> QED  BY <3>3
    <3> HIDE DEF fl, hn
    <3>5. fl[1] = p[1] /\ \A i \in 2 .. n : fl[i] = fl[i - 1] \o p[i]
      <4>1. \A i \in 2 .. n : i \in 1 .. n /\ i # 1
        BY <3>0
      <4>2. \A i \in 1 .. n : fl[i] = IF i = 1 THEN p[i] ELSE fl[i - 1] \o p[i]
        BY <3>1, <3>4
      <4> QED  BY <3>0, <4>1, <4>2
    <3> DEFINE T == {i \in Int : i <= n => fl[i] = h[i]}
    <3>6. 1 \in T
      BY <2>4, <3>0, <3>1, <3>5 DEF c
    <3>7. ASSUME NEW i \in Int, 1 <= i, i \in T PROVE i + 1 \in T
      <4> SUFFICES ASSUME i + 1 <= n PROVE fl[i + 1] = h[i + 1]
        BY <3>7
      <4>1. i + 1 \in 2 .. n /\ i + 1 \in 2 .. N /\ (i + 1) - 1 = i /\ i + 1 \in 1 .. n /\ i <= n
        BY <3>0, <3>7
      <4>2. fl[i] = h[i]
        BY <3>7, <4>1
      <4>3. fl[i + 1] = fl[i] \o p[i + 1] /\ h[i + 1] = h[i] \o B[i + 1] /\ p[i + 1] = B[i + 1]
        <5> DEFINE j == i + 1
        <5>1. fl[j] = fl[j - 1] \o p[j] /\ h[j] = h[j - 1] \o B[j] /\ p[j] = B[j] /\ j - 1 = i
          BY <2>4, <3>1, <3>5, <4>1
        <5> HIDE DEF j
        <5>2. fl[j] = fl[i] \o p[j] /\ h[j] = h[i] \o B[j] /\ p[j] = B[j]
          BY <5>1
        <5> QED  BY <5>2 DEF j
      <4> QED  BY <4>2, <4>3
    <3> HIDE DEF T
    <3>8. \A i \in Int : 1 <= i => i \in T
      BY <3>6, <3>7, Induction
    <3>9. fl[n] = h[n]
      BY <3>0, <3>8 DEF T
    <3> QED  BY <3>2, <3>9 DEF p
  <2> HIDE DEF U
  <2>6. \A n \in 0 .. N : U(n) \in S
    <3>1. \A n \in 0 .. N : n = 0 \/ n \in 1 .. N
      OBVIOUS
    <3> QED  BY <1>5, <1>e, <2>5, <3>1
  <2>7. ASSUME NEW n \in 0 .. N - 1 PROVE U(n + 1) = U(n) \o B[n + 1]
    <3>1. CASE n = 0
      <4>1. B[1] \in S /\ U(0) = <<>> /\ U(1) = B[1] /\ n + 1 = 1
        BY <1>1, <1>5, <2>0, <2>4, <2>5, <3>1 DEF c
      <4>2. <<>> \o B[1] = B[1]
        BY <4>1, ConcatEmptySeq DEF S
      <4> QED  BY <3>1, <4>1, <4>2
    <3>2. CASE n # 0
      <4>1. n \in 1 .. N /\ n + 1 \in 1 .. N /\ n + 1 \in 2 .. N /\ (n + 1) - 1 = n
        BY <3>2
      <4> QED  BY <2>4, <2>5, <4>1
    <3> QED  BY <3>1, <3>2
  <2>8. \A n \in 0 .. N - 1 : n \in 0 .. N /\ n + 1 \in 0 .. N /\ n + 1 \in 1 .. N
    OBVIOUS
  <2>9. 0 \in 0 .. N
    BY <2>0
  <2> QED  BY <1>2, <1>4, <1>5, <2>6, <2>7, <2>8, <2>9 DEF S
<1> QED  BY <1>6, <1>7

----------------------------------------------------------------------------
\* Where the frames lie in it: the f-th is behind the first f - 1, and every
\* byte is one of a frame.
LEMMA Placing ==
    ASSUME NEW F, NEW N \in Nat, \A i \in 1 .. N : Bytes(F[i]) \in Seq(Symbol)
    PROVE  /\ \A n \in 0 .. N : Len(Upto(F, n)) \in Nat
           /\ \A f \in 1 .. N : Len(Upto(F, f)) = Len(Upto(F, f - 1)) + Len(Bytes(F[f]))
           /\ \A n, m \in 0 .. N : n <= m => Len(Upto(F, n)) <= Len(Upto(F, m))
           /\ \A f \in 1 .. N : \A i \in 1 .. Len(Bytes(F[f])) :
                 Upto(F, N)[Len(Upto(F, f - 1)) + i] = Bytes(F[f])[i]
           /\ \A j \in 1 .. Len(Upto(F, N)) : \E f \in 1 .. N : \E i \in 1 .. Len(Bytes(F[f])) :
                 j = Len(Upto(F, f - 1)) + i
<1> DEFINE U == [n \in 0 .. N |-> Upto(F, n)]
           P == [n \in 0 .. N |-> Len(Upto(F, n))]
           B == [f \in 1 .. N |-> Bytes(F[f])]
           b == [f \in 1 .. N |-> Len(Bytes(F[f]))]
<1>1. \A n \in 0 .. N : U[n] = Upto(F, n) /\ P[n] = Len(U[n]) /\ P[n] = Len(Upto(F, n))
  OBVIOUS
<1>2. \A f \in 1 .. N : B[f] = Bytes(F[f]) /\ b[f] = Len(B[f]) /\ b[f] = Len(Bytes(F[f]))
  OBVIOUS
<1>3. U[0] = <<>> /\ (\A n \in 0 .. N : U[n] \in Seq(Symbol))
      /\ \A n \in 0 .. N - 1 : U[n + 1] = U[n] \o B[n + 1]
  <2>0. 0 \in 0 .. N /\ \A n \in 0 .. N - 1 : n \in 0 .. N /\ n + 1 \in 0 .. N /\ n + 1 \in 1 .. N
    OBVIOUS
  <2> HIDE DEF U, B
  <2> QED  BY <1>1, <1>2, <2>0, UptoIs
<1>4. \A f \in 1 .. N : B[f] \in Seq(Symbol)
  OBVIOUS
<1> HIDE DEF U, P, B, b
<1>5. (\A n \in 0 .. N : P[n] \in Nat) /\ P[0] = 0 /\ \A f \in 1 .. N : b[f] \in Nat
  <2>1. Len(<<>>) = 0 /\ 0 \in 0 .. N
    BY EmptySeq
  <2>2. \A s \in Seq(Symbol) : Len(s) \in Nat
    OBVIOUS
  <2> QED  BY <1>1, <1>2, <1>3, <1>4, <2>1, <2>2
<1>6. \A n \in 0 .. N - 1 : /\ P[n + 1] = P[n] + b[n + 1]
                            /\ \A i \in 1 .. P[n] : U[n + 1][i] = U[n][i]
                            /\ \A i \in 1 .. b[n + 1] : U[n + 1][P[n] + i] = B[n + 1][i]
  <2> SUFFICES ASSUME NEW n \in 0 .. N - 1
               PROVE  /\ P[n + 1] = P[n] + b[n + 1]
                      /\ \A i \in 1 .. P[n] : U[n + 1][i] = U[n][i]
                      /\ \A i \in 1 .. b[n + 1] : U[n + 1][P[n] + i] = B[n + 1][i]
    OBVIOUS
  <2> DEFINE f == n + 1
  <2>1. n \in 0 .. N /\ f \in 0 .. N /\ f \in 1 .. N
    OBVIOUS
  <2>2. U[n] \in Seq(Symbol) /\ B[f] \in Seq(Symbol) /\ U[f] = U[n] \o B[f]
    BY <1>3, <1>4, <2>1
  <2> HIDE DEF f
  <2>3. P[n] = Len(U[n]) /\ P[f] = Len(U[f]) /\ b[f] = Len(B[f]) /\ P[n] \in Nat /\ b[f] \in Nat
    BY <1>1, <1>2, <1>5, <2>1
  <2> DEFINE u == U[n]
             v == B[f]
             p == P[n]
             q == b[f]
  <2> HIDE DEF u, v, p, q
  <2>4. u \in Seq(Symbol) /\ v \in Seq(Symbol) /\ p = Len(u) /\ q = Len(v) /\ p \in Nat /\ q \in Nat
        /\ U[f] = u \o v /\ P[f] = Len(U[f])
    BY <2>2, <2>3 DEF u, v, p, q
  <2>5. Len(u \o v) = Len(u) + Len(v) /\ \A i \in 1 .. Len(u) + Len(v) :
                                  (u \o v)[i] = IF i <= Len(u) THEN u[i] ELSE v[i - Len(u)]
    BY <2>4, ConcatProperties
  <2>6. P[f] = p + q /\ \A i \in 1 .. p + q : U[f][i] = IF i <= p THEN u[i] ELSE v[i - p]
    BY <2>4, <2>5
  <2>7. \A i \in 1 .. p : i \in 1 .. p + q /\ i <= p
    BY <2>4
  <2>8. \A i \in 1 .. q : p + i \in 1 .. p + q /\ ~(p + i <= p) /\ (p + i) - p = i
    BY <2>4
  <2>9. (\A i \in 1 .. p : U[f][i] = u[i]) /\ \A i \in 1 .. q : U[f][p + i] = v[i]
    BY <2>6, <2>7, <2>8
  <2> QED  BY <2>6, <2>9 DEF f, u, v, p, q
<1> DEFINE T == {m \in Int : m <= N =>
                   /\ \A n \in 0 .. m : P[n] <= P[m]
                   /\ \A f \in 1 .. m : \A i \in 1 .. b[f] : U[m][P[f - 1] + i] = B[f][i]
                   /\ \A j \in 1 .. P[m] : \E f \in 1 .. m : \E i \in 1 .. b[f] : j = P[f - 1] + i}
<1>7. 0 \in T
  <2>1. 1 .. 0 = {} /\ \A n \in 0 .. 0 : n = 0
    OBVIOUS
  <2>2. P[0] <= P[0]
    BY <1>5
  <2> QED  BY <1>5, <2>1, <2>2
<1>8. ASSUME NEW m \in Int, 0 <= m, m \in T PROVE m + 1 \in T
  <2> DEFINE g == m + 1
  <2> SUFFICES ASSUME g <= N
               PROVE  /\ \A n \in 0 .. g : P[n] <= P[g]
                      /\ \A f \in 1 .. g : \A i \in 1 .. b[f] : U[g][P[f - 1] + i] = B[f][i]
                      /\ \A j \in 1 .. P[g] : \E f \in 1 .. g : \E i \in 1 .. b[f] : j = P[f - 1] + i
    OBVIOUS
  <2>0. m \in 0 .. N /\ m \in 0 .. N - 1 /\ g \in 1 .. N /\ g \in 0 .. N
        /\ m <= N /\ g - 1 = m /\ g \in 1 .. g
    BY <1>8
  <2>1. /\ \A n \in 0 .. m : P[n] <= P[m]
        /\ \A f \in 1 .. m : \A i \in 1 .. b[f] : U[m][P[f - 1] + i] = B[f][i]
        /\ \A j \in 1 .. P[m] : \E f \in 1 .. m : \E i \in 1 .. b[f] : j = P[f - 1] + i
    BY <1>8, <2>0
  <2>2. /\ P[g] = P[m] + b[g] /\ (\A i \in 1 .. P[m] : U[g][i] = U[m][i])
        /\ \A i \in 1 .. b[g] : U[g][P[m] + i] = B[g][i]
    BY <1>6, <2>0
  <2>3. P[m] \in Nat /\ b[g] \in Nat /\ P[g] \in Nat
    BY <1>5, <2>0
  <2>4. (\A n \in 0 .. g : n = g \/ n \in 0 .. m) /\ \A f \in 1 .. g : f = g \/ f \in 1 .. m
    BY <2>0
  <2>5. \A f \in 1 .. m : /\ f \in 1 .. g /\ f \in 0 .. N - 1 + 1 /\ f - 1 \in 0 .. N - 1 /\ f \in 1 .. N
                          /\ f \in 0 .. N /\ f \in 0 .. m /\ (f - 1) + 1 = f /\ f - 1 \in 0 .. N
    BY <2>0
  <2> HIDE DEF g
  <2>6. \A n \in 0 .. g : P[n] <= P[g]
    <3>1. \A n \in 0 .. m : P[n] \in Nat
      <4>1. \A n \in 0 .. m : n \in 0 .. N
        BY <2>0
      <4> QED  BY <1>5, <4>1
    <3>2. P[m] <= P[g] /\ P[g] <= P[g]
      BY <2>2, <2>3
    <3> QED  BY <2>1, <2>3, <2>4, <3>1, <3>2
  <2>7. ASSUME NEW f \in 1 .. g, NEW i \in 1 .. b[f] PROVE U[g][P[f - 1] + i] = B[f][i]
    <3>1. CASE f = g
      BY <2>0, <2>2, <2>7, <3>1
    <3>2. CASE f \in 1 .. m
      <4> DEFINE x == P[f - 1]
      <4>1. P[f] <= P[m] /\ P[f] \in Nat /\ x \in Nat /\ b[f] \in Nat /\ P[f] = x + b[f]
        <5>1. P[f] <= P[m]
          BY <2>1, <2>5, <3>2
        <5>2. P[f] \in Nat /\ P[f - 1] \in Nat /\ b[f] \in Nat
          BY <1>5, <2>5, <3>2
        <5>3. P[(f - 1) + 1] = P[f - 1] + b[(f - 1) + 1]
          BY <1>6, <2>5, <3>2
        <5>4. (f - 1) + 1 = f
          BY <2>5, <3>2
        <5>5. P[f] = P[f - 1] + b[f]
          BY <5>3, <5>4
        <5> QED  BY <5>1, <5>2, <5>5
      <4> HIDE DEF x
      <4>2. x + i \in 1 .. P[m]
        BY <2>3, <2>7, <4>1
      <4>3. U[m][x + i] = B[f][i]
        BY <2>1, <2>7, <3>2 DEF x
      <4> QED  BY <2>2, <4>2, <4>3 DEF x
    <3> QED  BY <2>4, <2>7, <3>1, <3>2
  <2>8. ASSUME NEW j \in 1 .. P[g] PROVE \E f \in 1 .. g : \E i \in 1 .. b[f] : j = P[f - 1] + i
    <3>1. CASE j <= P[m]
      <4>1. j \in 1 .. P[m]
        BY <2>3, <2>8, <3>1
      <4>2. PICK f \in 1 .. m : \E i \in 1 .. b[f] : j = P[f - 1] + i
        BY <2>1, <4>1
      <4> QED  BY <2>5, <4>2
    <3>2. CASE ~(j <= P[m])
      <4>1. j - P[m] \in 1 .. b[g] /\ j = P[m] + (j - P[m])
        BY <2>2, <2>3, <2>8, <3>2
      <4> QED  BY <2>0, <4>1
    <3> QED  BY <3>1, <3>2
  <2> QED  BY <2>6, <2>7, <2>8
<1> HIDE DEF T
<1>9. \A m \in Int : 0 <= m => m \in T
  BY <1>7, <1>8, Induction
<1>10. N \in T /\ \A m \in 0 .. N : m \in T /\ m <= N /\ m \in Int
  BY <1>9
<1>11. \A n, m \in 0 .. N : n <= m => P[n] <= P[m]
  <2> SUFFICES ASSUME NEW n \in 0 .. N, NEW m \in 0 .. N, n <= m PROVE P[n] <= P[m]
    OBVIOUS
  <2>1. n \in 0 .. m
    OBVIOUS
  <2> QED  BY <1>10, <2>1 DEF T
<1>12. /\ \A f \in 1 .. N : \A i \in 1 .. b[f] : U[N][P[f - 1] + i] = B[f][i]
       /\ \A j \in 1 .. P[N] : \E f \in 1 .. N : \E i \in 1 .. b[f] : j = P[f - 1] + i
  <2>1. N <= N
    OBVIOUS
  <2> QED  BY <1>10, <2>1 DEF T
<1>13. \A f \in 1 .. N : P[f] = P[f - 1] + b[f]
  <2> SUFFICES ASSUME NEW f \in 1 .. N PROVE P[f] = P[f - 1] + b[f]
    OBVIOUS
  <2>1. f - 1 \in 0 .. N - 1 /\ (f - 1) + 1 = f
    OBVIOUS
  <2>2. P[(f - 1) + 1] = P[f - 1] + b[(f - 1) + 1]
    BY <1>6, <2>1
  <2> QED  BY <2>1, <2>2
<1>14. N \in 0 .. N /\ \A f \in 1 .. N : f \in 0 .. N /\ f - 1 \in 0 .. N
  OBVIOUS
<1>15. /\ \A n \in 0 .. N : P[n] = Len(Upto(F, n))
       /\ \A f \in 1 .. N : P[f - 1] = Len(Upto(F, f - 1)) /\ b[f] = Len(Bytes(F[f])) /\ B[f] = Bytes(F[f])
       /\ U[N] = Upto(F, N)
  BY <1>1, <1>2, <1>14
<1>a. \A n \in 0 .. N : Len(Upto(F, n)) \in Nat
  BY <1>5, <1>15
<1>b. \A f \in 1 .. N : Len(Upto(F, f)) = Len(Upto(F, f - 1)) + Len(Bytes(F[f]))
  BY <1>13, <1>14, <1>15
<1>c. \A n, m \in 0 .. N : n <= m => Len(Upto(F, n)) <= Len(Upto(F, m))
  BY <1>11, <1>15
<1>d. \A f \in 1 .. N : \A i \in 1 .. Len(Bytes(F[f])) :
                 Upto(F, N)[Len(Upto(F, f - 1)) + i] = Bytes(F[f])[i]
  BY <1>12, <1>15
<1>e. \A j \in 1 .. Len(Upto(F, N)) : \E f \in 1 .. N : \E i \in 1 .. Len(Bytes(F[f])) :
                 j = Len(Upto(F, f - 1)) + i
  <2> SUFFICES ASSUME NEW j \in 1 .. Len(Upto(F, N))
               PROVE  \E f \in 1 .. N : \E i \in 1 .. Len(Bytes(F[f])) : j = Len(Upto(F, f - 1)) + i
    OBVIOUS
  <2>1. j \in 1 .. P[N]
    BY <1>14, <1>15
  <2>2. PICK f \in 1 .. N : \E i \in 1 .. b[f] : j = P[f - 1] + i
    BY <1>12, <2>1
  <2>3. PICK i \in 1 .. b[f] : j = P[f - 1] + i
    BY <2>2
  <2>4. b[f] = Len(Bytes(F[f])) /\ P[f - 1] = Len(Upto(F, f - 1))
    BY <1>15, <2>2
  <2>5. i \in 1 .. Len(Bytes(F[f])) /\ j = Len(Upto(F, f - 1)) + i
    BY <2>3, <2>4
  <2> QED  BY <2>2, <2>5
<1> QED  BY <1>a, <1>b, <1>c, <1>d, <1>e

----------------------------------------------------------------------------
\* Plain, with the brace by its name.
LEMMA PlainIs ==
    ASSUME NEW text \in Seq(STRING), NEW star, Plain(text, star)
    PROVE  /\ text # <<>> /\ 1 <= Len(text) /\ Opens(text) # {}
           /\ \A i \in 1 .. Len(text) : text[i] # "$"
           /\ \A i \in 2 .. Len(text) :
                 ~(text[i - 1] = "CR" /\ text[i] = "LF" /\ (star => i > 4 /\ text[i - 4] = "*"))
<1>1. Opens(text) # {}
  BY Zenon DEF Plain
<1>2. \A i \in 1 .. Len(text) : text[i] # "$"
  BY Zenon DEF Plain
<1>3. \A i \in 2 .. Len(text) :
         ~(text[i - 1] = "CR" /\ text[i] = "LF" /\ (star => i > 4 /\ text[i - 4] = "*"))
  BY Zenon DEF Plain
<1>4. 1 <= Len(text)
  <2>1. PICK i : i \in 1 .. Len(text)
    BY <1>1, OpensIs
  <2>2. Len(text) \in Nat
    OBVIOUS
  <2> QED  BY <2>1, <2>2
<1>5. text # <<>>
  BY <1>4, EmptySeq
<1> QED  BY <1>1, <1>2, <1>3, <1>4, <1>5

\* The places in a frame.
LEMMA Places ==
    ASSUME NEW l \in Nat, 5 <= l, NEW n \in Nat, NEW i \in Nat, 1 <= i
    PROVE  /\ i <= l + n + 5 =>
                 \/ i = 1 \/ i \in 2 .. l \/ i \in l + 1 .. l + n \/ i = l + n + 1
                 \/ i = l + n + 2 \/ i = l + n + 3 \/ i = l + n + 4 \/ i = l + n + 5
           /\ i <= l + n + 6 => i <= l + n + 5 \/ i = l + n + 6
  OBVIOUS

\* Which bytes of a frame can be which.
LEMMA BytesKinds ==
    ASSUME NEW f, f.title \in DOMAIN TitleLen, f.text \in Seq(STRING), f.nul \in BOOLEAN,
           NEW l, l = TitleLen[f.title], NEW n, n = Len(f.text),
           NEW star \in BOOLEAN, Plain(f.text, star)
    PROVE  \A i \in 1 .. Len(Bytes(f)) :
              /\ Bytes(f)[i] = "$" => i = 1
              /\ Bytes(f)[i] = Brace => i \in l + 1 .. l + n
              /\ Bytes(f)[i] = "LF" => 6 <= i
              /\ (6 <= i /\ Ends(Bytes(f), i, star)) => i = l + n + 5
<1> DEFINE B == Bytes(f)
           X == f.text
           t == f.title
<1>n. l \in Nat /\ 5 <= l /\ n \in Nat
  <2>1. l \in 5 .. 9 /\ n \in Nat
    BY BytesAre
  <2> QED  BY <2>1
<1>z. Len(B) = l + n + (IF f.nul THEN 6 ELSE 5)
  BY BytesAre
<1>1. /\ B[l + n + 1] = "*" /\ B[l + n + 2] = "hex" /\ B[l + n + 3] = "hex"
      /\ B[l + n + 4] = "CR" /\ B[l + n + 5] = "LF" /\ (f.nul => B[l + n + 6] = "NUL")
  BY BytesAre
<1>2. (\A i \in 1 .. l : B[i] = Title(t)[i]) /\ (\A i \in 1 .. n : B[l + i] = X[i])
  BY BytesAre
<1>3. /\ t \in {"initsess", "ping", "auth", "initack", "pong", "printack", "show"}
      /\ Title(t)[1] = "$" /\ \A i \in 2 .. l : Title(t)[i] = t
  BY TitleIs
<1>4. /\ 1 <= n /\ (\A i \in 1 .. n : X[i] # "$")
      /\ \A i \in 2 .. n : ~(X[i - 1] = "CR" /\ X[i] = "LF" /\ (star => i > 4 /\ X[i - 4] = "*"))
  BY PlainIs
<1> HIDE DEF B, X, t
<1>5. t # "$" /\ t # Brace /\ t # "LF" /\ t # "CR" /\ t # "*"
  BY <1>3, BraceIs
<1>6. Brace # "$" /\ Brace # "*" /\ Brace # "hex" /\ Brace # "CR" /\ Brace # "LF" /\ Brace # "NUL"
  BY BraceIs
<1>7. B[1] = "$" /\ \A i \in 2 .. l : B[i] = t
  <2>1. 1 \in 1 .. l /\ \A i \in 2 .. l : i \in 1 .. l
    BY <1>n
  <2> QED  BY <1>2, <1>3, <2>1
<1>8. \A i \in l + 1 .. l + n : B[i] = X[i - l] /\ i - l \in 1 .. n
  <2>1. \A i \in l + 1 .. l + n : i - l \in 1 .. n /\ l + (i - l) = i
    BY <1>n
  <2> QED  BY <1>2, <2>1
<1> SUFFICES ASSUME NEW i \in 1 .. Len(B)
             PROVE  /\ B[i] = "$" => i = 1
                    /\ B[i] = Brace => i \in l + 1 .. l + n
                    /\ B[i] = "LF" => 6 <= i
                    /\ (6 <= i /\ Ends(B, i, star)) => i = l + n + 5
  BY DEF B
<1>9. \/ i = 1 \/ i \in 2 .. l \/ i \in l + 1 .. l + n
      \/ i = l + n + 1 \/ i = l + n + 2 \/ i = l + n + 3 \/ i = l + n + 4 \/ i = l + n + 5
      \/ f.nul /\ i = l + n + 6
  <2>1. i \in Nat /\ 1 <= i /\ i <= l + n + (IF f.nul THEN 6 ELSE 5)
    BY <1>n, <1>z
  <2>2. i <= l + n + 5 \/ (f.nul /\ i <= l + n + 6)
    BY <2>1
  <2> QED  BY <1>n, <2>1, <2>2, Places
<1>10. i \in l + 1 .. l + n => 6 <= i
  BY <1>n
<1>11. 6 <= l + n + 5
  BY <1>n
<1>12. ASSUME i \in l + 1 .. l + n, Ends(B, i, star) PROVE FALSE
  <2> DEFINE j == i - l
  <2>0. j \in 1 .. n /\ B[i] = X[j] /\ l + j = i
    <3>1. i \in l + 1 .. l + n
      BY <1>12
    <3>2. l + (i - l) = i
      BY <1>n, <3>1
    <3> QED  BY <1>8, <3>1, <3>2
  <2>1. B[i - 1] = "CR" /\ B[i] = "LF" /\ (star => B[i - 4] = "*")
    BY <1>12 DEF Ends
  <2>a. i \in Int /\ j \in 1 .. n /\ l + j = i
    BY <1>12, <2>0
  <2> HIDE DEF j
  <2>2. j # 1
    <3> SUFFICES ASSUME j = 1 PROVE FALSE
      OBVIOUS
    <3>1. i - 1 \in 2 .. l
      BY <1>n, <2>a
    <3> QED  BY <1>5, <1>7, <2>1, <3>1
  <2>3. j \in 2 .. n /\ i - 1 \in l + 1 .. l + n /\ (i - 1) - l = j - 1
    BY <1>n, <2>a, <2>2
  <2>4. X[j - 1] = "CR" /\ X[j] = "LF"
    BY <1>8, <2>0, <2>1, <2>3
  <2>5. star /\ ~(j > 4 /\ X[j - 4] = "*") /\ B[i - 4] = "*"
    BY <1>4, <2>1, <2>3, <2>4
  <2>6. CASE j > 4
    <3>1. i - 4 \in l + 1 .. l + n /\ (i - 4) - l = j - 4
      BY <1>n, <2>a, <2>6
    <3> QED  BY <1>8, <2>5, <2>6, <3>1
  <2>7. CASE ~(j > 4)
    <3>1. i - 4 \in 2 .. l
      BY <1>n, <2>a, <2>7
    <3> QED  BY <1>5, <1>7, <2>5, <3>1
  <2> QED  BY <2>6, <2>7
<1>13. Ends(B, i, star) => B[i] = "LF"
  BY DEF Ends
<1>14. CASE i = 1
  BY <1>1, <1>6, <1>7, <1>14
<1>15. CASE i \in 2 .. l
  BY <1>5, <1>7, <1>13, <1>15
<1>16. CASE i \in l + 1 .. l + n
  BY <1>4, <1>8, <1>10, <1>12, <1>16
<1>17. CASE i = l + n + 5
  BY <1>1, <1>6, <1>11, <1>17
<1>18. CASE i = l + n + 1 \/ i = l + n + 2 \/ i = l + n + 3 \/ i = l + n + 4 \/ (f.nul /\ i = l + n + 6)
  <2>1. B[i] # "LF" /\ B[i] # "$" /\ B[i] # Brace
    BY <1>1, <1>6, <1>18
  <2> QED  BY <1>13, <2>1
<1> QED  BY <1>9, <1>14, <1>15, <1>16, <1>17, <1>18

----------------------------------------------------------------------------
\* The stream of the frames F, as the scanners meet it.
StreamOf(F, star) ==
    [frames |-> F, bytes |-> Upto(F, Len(F)), star |-> star,
     begin  |-> [f \in 1 .. Len(F) |-> Len(Upto(F, f - 1)) + 1],
     end    |-> [f \in 1 .. Len(F) |->
                    Len(Upto(F, f - 1)) + TitleLen[F[f].title] + Len(F[f].text) + 5]]

\* The numbers of a frame that is behind p bytes: its title is of l bytes,
\* its text of n, and the whole of z.
LEMMA Sizes ==
    ASSUME NEW p \in Nat, NEW l \in Nat, 5 <= l, NEW n \in Nat, NEW z \in Nat, l + n + 5 <= z,
           NEW b, b = p + 1, NEW e, e = p + l + n + 5
    PROVE  /\ b \in Nat /\ 1 <= b /\ e \in Nat /\ e = b + l + n + 4 /\ e <= p + z
           /\ \A i \in 1 .. l : i \in 1 .. z /\ b + i - 1 = p + i
           /\ \A i \in 1 .. n : l + i \in 1 .. z /\ b + l + i - 1 = p + (l + i)
           /\ l + n + 1 \in 1 .. z /\ l + n + 4 \in 1 .. z /\ l + n + 5 \in 1 .. z
           /\ e = p + (l + n + 5) /\ e - 1 = p + (l + n + 4) /\ e - 4 = p + (l + n + 1)
           /\ \A i \in 1 .. z : 6 <= i => /\ i - 1 \in 1 .. z /\ i - 4 \in 1 .. z
                                         /\ (p + i) - 1 = p + (i - 1) /\ (p + i) - 4 = p + (i - 4)
  OBVIOUS

\* The bytes B of a frame, as they lie in the stream D.
Lies(p, l, n, z, b, e, D, B, T, X, star) ==
    /\ p \in Nat /\ l \in Nat /\ 5 <= l /\ n \in Nat /\ z \in Nat /\ l + n + 5 <= z
    /\ b = p + 1 /\ e = p + l + n + 5
    /\ \A i \in 1 .. z : D[p + i] = B[i]
    /\ \A i \in 1 .. l : B[i] = T[i]
    /\ \A i \in 1 .. n : B[l + i] = X[i]
    /\ B[l + n + 1] = "*" /\ B[l + n + 4] = "CR" /\ B[l + n + 5] = "LF"
    /\ \A i \in 1 .. z : B[i] = "LF" => 6 <= i
    /\ \A i \in 1 .. z : (6 <= i /\ Ends(B, i, star)) => i = l + n + 5

\* Its title, its text and its end are where the sizes say.
LEMMA FrameAt ==
    ASSUME NEW p, NEW l, NEW n, NEW z, NEW b, NEW e, NEW D, NEW B, NEW T, NEW X, NEW star,
           Lies(p, l, n, z, b, e, D, B, T, X, star)
    PROVE  /\ \A i \in 1 .. l : D[b + i - 1] = T[i]
           /\ \A i \in 1 .. n : D[b + l + i - 1] = X[i]
           /\ Ends(D, e, star)
           /\ \A i \in 1 .. z : Ends(D, p + i, star) => p + i = e
<1>n. /\ p \in Nat /\ l \in Nat /\ 5 <= l /\ n \in Nat /\ z \in Nat /\ l + n + 5 <= z
      /\ b = p + 1 /\ e = p + l + n + 5
  BY DEF Lies
<1>0. /\ \A i \in 1 .. z : D[p + i] = B[i]
      /\ \A i \in 1 .. l : B[i] = T[i]
      /\ \A i \in 1 .. n : B[l + i] = X[i]
      /\ B[l + n + 1] = "*" /\ B[l + n + 4] = "CR" /\ B[l + n + 5] = "LF"
      /\ \A i \in 1 .. z : B[i] = "LF" => 6 <= i
      /\ \A i \in 1 .. z : (6 <= i /\ Ends(B, i, star)) => i = l + n + 5
  BY DEF Lies
<1>1. ASSUME NEW i \in 1 .. l PROVE D[b + i - 1] = T[i]
  <2>1. i \in 1 .. z /\ b + i - 1 = p + i
    BY <1>n, Sizes
  <2> QED  BY <1>0, <2>1
<1>2. ASSUME NEW i \in 1 .. n PROVE D[b + l + i - 1] = X[i]
  <2> DEFINE k == l + i
  <2>1. k \in 1 .. z /\ b + l + i - 1 = p + k
    BY <1>n, Sizes
  <2>2. B[k] = X[i]
    BY <1>0
  <2> HIDE DEF k
  <2> QED  BY <1>0, <2>1, <2>2
<1>3. Ends(D, e, star)
  <2> DEFINE k == l + n + 5
             j == l + n + 4
             g == l + n + 1
  <2>1. /\ k \in 1 .. z /\ j \in 1 .. z /\ g \in 1 .. z
        /\ e = p + k /\ e - 1 = p + j /\ e - 4 = p + g
    BY <1>n, Sizes
  <2>2. B[g] = "*" /\ B[j] = "CR" /\ B[k] = "LF"
    BY <1>0
  <2> HIDE DEF k, j, g
  <2>3. D[p + k] = B[k] /\ D[p + j] = B[j] /\ D[p + g] = B[g]
    BY <1>0, <2>1
  <2> QED  BY <2>1, <2>2, <2>3 DEF Ends
<1>4. ASSUME NEW i \in 1 .. z, Ends(D, p + i, star) PROVE p + i = e
  <2>1. D[p + i] = B[i]
    BY <1>0
  <2>2. D[(p + i) - 1] = "CR" /\ D[p + i] = "LF" /\ (star => D[(p + i) - 4] = "*")
    BY <1>4 DEF Ends
  <2>3. 6 <= i
    BY <1>0, <2>1, <2>2
  <2>4. i - 1 \in 1 .. z /\ i - 4 \in 1 .. z /\ (p + i) - 1 = p + (i - 1) /\ (p + i) - 4 = p + (i - 4)
    BY <1>n, <2>3, Sizes
  <2> DEFINE j == i - 1
             g == i - 4
  <2>5. j \in 1 .. z /\ g \in 1 .. z /\ D[p + j] = "CR" /\ (star => D[p + g] = "*")
    BY <2>2, <2>4
  <2>6. Ends(B, i, star) <=> B[j] = "CR" /\ B[i] = "LF" /\ (star => B[g] = "*")
    BY DEF Ends
  <2> HIDE DEF j, g
  <2>7. Ends(B, i, star)
    BY <1>0, <2>1, <2>2, <2>5, <2>6
  <2>8. i = l + n + 5
    BY <1>0, <2>3, <2>7
  <2> QED  BY <1>n, <2>8
<1> QED  BY <1>1, <1>2, <1>3, <1>4

\* What is read of a text behind m does not lie before m.
LEMMA NoneBefore ==
    ASSUME NEW p \in Nat, NEW l \in Nat, NEW n \in Nat, NEW i \in l + 1 .. l + n, NEW m \in Nat,
           m < p + i
    PROVE  ~(p + l + n + 5 - 4 <= m)
  OBVIOUS

\* A stream of frames with plain texts is laid out as the scanners need it.
LEMMA LayoutOf ==
    ASSUME NEW F \in Seq(FrameSet), NEW star \in BOOLEAN,
           \A f \in 1 .. Len(F) : Plain(F[f].text, star)
    PROVE  Layout(StreamOf(F, star))
<1> DEFINE N == Len(F)
           y == StreamOf(F, star)
           D == y.bytes
           b == y.begin
           e == y.end
           p == [f \in 1 .. N |-> Len(Upto(F, f - 1))]
           l == [f \in 1 .. N |-> TitleLen[F[f].title]]
           n == [f \in 1 .. N |-> Len(F[f].text)]
           B == [f \in 1 .. N |-> Bytes(F[f])]
           z == [f \in 1 .. N |-> Len(Bytes(F[f]))]
<1>1. N \in Nat /\ \A f \in 1 .. N : F[f] \in FrameSet
  BY ElementOfSeq
<1>2. \A f \in 1 .. N : F[f].title \in DOMAIN TitleLen /\ F[f].text \in Seq(STRING) /\ F[f].nul \in BOOLEAN
  BY <1>1 DEF FrameSet
<1>3. /\ y.frames = F /\ y.star = star /\ D = Upto(F, N)
      /\ \A f \in 1 .. N : b[f] = p[f] + 1 /\ e[f] = p[f] + l[f] + n[f] + 5
  BY DEF StreamOf
<1>4. \A f \in 1 .. N : TitleOf(y, f) = F[f].title /\ TextOf(y, f) = F[f].text /\ SizeOf(y, f) = l[f]
  BY <1>3 DEF TitleOf, TextOf, SizeOf
<1>5. \A f \in 1 .. N : Len(F[f].text) = n[f] /\ B[f] = Bytes(F[f]) /\ z[f] = Len(B[f])
                        /\ p[f] = Len(Upto(F, f - 1)) /\ TitleLen[F[f].title] = l[f]
  OBVIOUS
<1>6. FramesOf(y) = 1 .. N
  BY <1>3 DEF FramesOf
<1> HIDE DEF N, y, D, b, e, p, l, n, B, z
<1>7. \A f \in 1 .. N : Bytes(F[f]) \in Seq(Symbol)
  <2> SUFFICES ASSUME NEW f \in 1 .. N PROVE Bytes(F[f]) \in Seq(Symbol)
    OBVIOUS
  <2>1. F[f].title \in DOMAIN TitleLen /\ F[f].text \in Seq(STRING) /\ F[f].nul \in BOOLEAN
    BY <1>2
  <2> QED  BY <2>1, BytesAre
<1>8. \A f \in 1 .. N : /\ l[f] \in Nat /\ 5 <= l[f] /\ n[f] \in Nat /\ 1 <= n[f] /\ z[f] \in Nat
                        /\ l[f] + n[f] + 5 <= z[f]
                        /\ F[f].text \in Seq(Symbol) /\ F[f].text # <<>> /\ Opens(F[f].text) # {}
                        /\ (\A i \in 1 .. l[f] : B[f][i] = Title(F[f].title)[i])
                        /\ (\A i \in 1 .. n[f] : B[f][l[f] + i] = F[f].text[i])
                        /\ B[f][l[f] + n[f] + 1] = "*"
                        /\ B[f][l[f] + n[f] + 4] = "CR" /\ B[f][l[f] + n[f] + 5] = "LF"
  <2> SUFFICES ASSUME NEW f \in 1 .. N
               PROVE  /\ l[f] \in Nat /\ 5 <= l[f] /\ n[f] \in Nat /\ 1 <= n[f] /\ z[f] \in Nat
                      /\ l[f] + n[f] + 5 <= z[f]
                      /\ F[f].text \in Seq(Symbol) /\ F[f].text # <<>> /\ Opens(F[f].text) # {}
                      /\ (\A i \in 1 .. l[f] : B[f][i] = Title(F[f].title)[i])
                      /\ (\A i \in 1 .. n[f] : B[f][l[f] + i] = F[f].text[i])
                      /\ B[f][l[f] + n[f] + 1] = "*"
                      /\ B[f][l[f] + n[f] + 4] = "CR" /\ B[f][l[f] + n[f] + 5] = "LF"
    OBVIOUS
  <2>1. /\ F[f].title \in DOMAIN TitleLen /\ F[f].text \in Seq(STRING) /\ F[f].nul \in BOOLEAN
        /\ l[f] = TitleLen[F[f].title] /\ n[f] = Len(F[f].text) /\ B[f] = Bytes(F[f]) /\ z[f] = Len(B[f])
        /\ Plain(F[f].text, star)
    BY <1>2, <1>5 DEF N
  <2> DEFINE g == F[f]
             lf == l[f]
             nf == n[f]
  <2> HIDE DEF g, lf, nf
  <2>2. /\ g.title \in DOMAIN TitleLen /\ g.text \in Seq(STRING) /\ g.nul \in BOOLEAN
        /\ lf = TitleLen[g.title] /\ nf = Len(g.text) /\ B[f] = Bytes(g) /\ z[f] = Len(Bytes(g))
        /\ Plain(g.text, star)
    BY <2>1 DEF g, lf, nf
  <2>3. g.text # <<>> /\ 1 <= Len(g.text) /\ Opens(g.text) # {}
    BY <2>2, PlainIs
  <2>0. g.title \in DOMAIN TitleLen /\ g.text \in Seq(STRING) /\ g.nul \in BOOLEAN
        /\ lf = TitleLen[g.title] /\ nf = Len(g.text)
    BY <2>2
  <2>a. /\ lf \in Nat /\ 5 <= lf /\ nf \in Nat /\ g.text \in Seq(Symbol)
        /\ Len(Bytes(g)) = lf + nf + (IF g.nul THEN 6 ELSE 5)
    <3>1. lf \in 5 .. 9 /\ nf \in Nat /\ g.text \in Seq(Symbol)
          /\ Len(Bytes(g)) = lf + nf + (IF g.nul THEN 6 ELSE 5)
      BY <2>0, BytesAre
    <3>2. lf \in Nat /\ 5 <= lf
      <4>1. lf \in 5 .. 9
        BY <3>1
      <4> QED  BY <4>1
    <3> QED  BY <3>1, <3>2
  <2>4. /\ \A i \in 1 .. lf : Bytes(g)[i] = Title(g.title)[i]
        /\ \A i \in 1 .. nf : Bytes(g)[lf + i] = g.text[i]
        /\ Bytes(g)[lf + nf + 1] = "*"
        /\ Bytes(g)[lf + nf + 4] = "CR" /\ Bytes(g)[lf + nf + 5] = "LF"
    BY <2>0, BytesAre
  <2>5. Len(Bytes(g)) \in Nat /\ lf + nf + 5 <= Len(Bytes(g))
    <3> DEFINE w == Len(Bytes(g))
    <3>1. w = lf + nf + 6 \/ w = lf + nf + 5
      BY <2>a
    <3> HIDE DEF w
    <3>2. lf \in Nat /\ nf \in Nat
      BY <2>a
    <3>3. w \in Nat /\ lf + nf + 5 <= w
      BY <3>1, <3>2
    <3> QED  BY <3>3 DEF w
  <2> QED  BY <2>2, <2>3, <2>a, <2>4, <2>5 DEF g, lf, nf
<1>9. /\ D \in Seq(Symbol) /\ Len(D) \in Nat
      /\ \A f \in 1 .. N : p[f] \in Nat /\ p[f] + z[f] <= Len(D)
      /\ \A f, g \in 1 .. N : f < g => p[f] + z[f] <= p[g]
  <2> DEFINE P == [i \in 0 .. N |-> Len(Upto(F, i))]
  <2>1. \A i \in 0 .. N : P[i] = Len(Upto(F, i))
    OBVIOUS
  <2>2. \A f \in 1 .. N : f \in 0 .. N /\ f - 1 \in 0 .. N
    BY <1>1
  <2> HIDE DEF P
  <2>3. /\ \A i \in 0 .. N : P[i] \in Nat
        /\ \A f \in 1 .. N : P[f] = P[f - 1] + z[f]
        /\ \A i, j \in 0 .. N : i <= j => P[i] <= P[j]
    <3>1. /\ \A i \in 0 .. N : Len(Upto(F, i)) \in Nat
          /\ \A f \in 1 .. N : Len(Upto(F, f)) = Len(Upto(F, f - 1)) + Len(Bytes(F[f]))
          /\ \A i, j \in 0 .. N : i <= j => Len(Upto(F, i)) <= Len(Upto(F, j))
      BY <1>1, <1>7, Placing
    <3> QED  BY <1>5, <2>1, <2>2, <3>1
  <2>4. \A f \in 1 .. N : P[f - 1] = p[f]
    BY <1>5, <2>1, <2>2
  <2>5. N \in 0 .. N /\ \A f \in 1 .. N : f <= N
    BY <1>1
  <2>6. D \in Seq(Symbol) /\ Len(D) = P[N] /\ P[N] \in Nat
    BY <1>1, <1>3, <1>7, <2>1, <2>3, <2>5, UptoIs
  <2>7. \A f \in 1 .. N : P[f] = p[f] + z[f] /\ p[f] \in Nat /\ P[f] <= P[N]
    BY <2>2, <2>3, <2>4, <2>5
  <2>8. \A f, g \in 1 .. N : f < g => P[f] <= p[g]
    <3> SUFFICES ASSUME NEW f \in 1 .. N, NEW g \in 1 .. N, f < g PROVE P[f] <= P[g - 1]
      BY <2>4
    <3>1. f <= g - 1
      BY <1>1
    <3> QED  BY <2>2, <2>3, <3>1
  <2> QED  BY <2>6, <2>7, <2>8
<1>10. \A f \in 1 .. N : \A i \in 1 .. z[f] : D[p[f] + i] = B[f][i]
  <2>1. \A f \in 1 .. N : \A i \in 1 .. Len(Bytes(F[f])) :
                 Upto(F, N)[Len(Upto(F, f - 1)) + i] = Bytes(F[f])[i]
    BY <1>1, <1>7, Placing
  <2> SUFFICES ASSUME NEW f \in 1 .. N PROVE \A i \in 1 .. z[f] : D[p[f] + i] = B[f][i]
    OBVIOUS
  <2>2. /\ z[f] = Len(Bytes(F[f])) /\ p[f] = Len(Upto(F, f - 1)) /\ B[f] = Bytes(F[f])
        /\ D = Upto(F, N)
    BY <1>3, <1>5
  <2> HIDE DEF FrameSet
  <2> QED  BY <2>1, <2>2
<1>11. \A j \in 1 .. Len(D) : \E f \in 1 .. N : \E i \in 1 .. z[f] : j = p[f] + i
  <2>1. \A j \in 1 .. Len(Upto(F, N)) : \E f \in 1 .. N : \E i \in 1 .. Len(Bytes(F[f])) :
                 j = Len(Upto(F, f - 1)) + i
    BY <1>1, <1>7, Placing
  <2> SUFFICES ASSUME NEW j \in 1 .. Len(D) PROVE \E f \in 1 .. N : \E i \in 1 .. z[f] : j = p[f] + i
    OBVIOUS
  <2>2. PICK f \in 1 .. N : \E i \in 1 .. Len(Bytes(F[f])) : j = Len(Upto(F, f - 1)) + i
    BY <1>3, <2>1
  <2>3. z[f] = Len(Bytes(F[f])) /\ p[f] = Len(Upto(F, f - 1))
    BY <1>5, <2>2
  <2> QED  BY <2>2, <2>3
<1>12. \A f \in 1 .. N : \A i \in 1 .. z[f] :
              /\ B[f][i] = "$" => i = 1
              /\ B[f][i] = Brace => i \in l[f] + 1 .. l[f] + n[f]
              /\ B[f][i] = "LF" => 6 <= i
              /\ (6 <= i /\ Ends(B[f], i, star)) => i = l[f] + n[f] + 5
  <2> SUFFICES ASSUME NEW f \in 1 .. N
               PROVE  \A i \in 1 .. z[f] :
                        /\ B[f][i] = "$" => i = 1
                        /\ B[f][i] = Brace => i \in l[f] + 1 .. l[f] + n[f]
                        /\ B[f][i] = "LF" => 6 <= i
                        /\ (6 <= i /\ Ends(B[f], i, star)) => i = l[f] + n[f] + 5
    OBVIOUS
  <2>1. /\ F[f].title \in DOMAIN TitleLen /\ F[f].text \in Seq(STRING) /\ F[f].nul \in BOOLEAN
        /\ l[f] = TitleLen[F[f].title] /\ n[f] = Len(F[f].text) /\ B[f] = Bytes(F[f]) /\ z[f] = Len(B[f])
        /\ Plain(F[f].text, star)
    BY <1>2, <1>5 DEF N
  <2> DEFINE g == F[f]
             lf == l[f]
             nf == n[f]
  <2> HIDE DEF g, lf, nf
  <2>2. /\ g.title \in DOMAIN TitleLen /\ g.text \in Seq(STRING) /\ g.nul \in BOOLEAN
        /\ lf = TitleLen[g.title] /\ nf = Len(g.text) /\ B[f] = Bytes(g) /\ z[f] = Len(Bytes(g))
        /\ Plain(g.text, star)
    BY <2>1 DEF g, lf, nf
  <2>3. \A i \in 1 .. Len(Bytes(g)) :
              /\ Bytes(g)[i] = "$" => i = 1
              /\ Bytes(g)[i] = Brace => i \in lf + 1 .. lf + nf
              /\ Bytes(g)[i] = "LF" => 6 <= i
              /\ (6 <= i /\ Ends(Bytes(g), i, star)) => i = lf + nf + 5
    BY <2>2, BytesKinds
  <2> QED  BY <2>2, <2>3 DEF lf, nf
<1>n. \A f \in 1 .. N :
         /\ p[f] \in Nat /\ l[f] \in Nat /\ 5 <= l[f] /\ n[f] \in Nat /\ 1 <= n[f] /\ z[f] \in Nat
         /\ l[f] + n[f] + 5 <= z[f] /\ p[f] + z[f] <= Len(D)
         /\ b[f] = p[f] + 1 /\ e[f] = p[f] + l[f] + n[f] + 5
  BY <1>3, <1>8, <1>9
<1>s. \A f \in 1 .. N :
         /\ b[f] \in Nat /\ 1 <= b[f] /\ e[f] \in Nat /\ e[f] = b[f] + l[f] + n[f] + 4
         /\ e[f] <= p[f] + z[f]
         /\ \A i \in 1 .. l[f] : D[b[f] + i - 1] = Title(F[f].title)[i]
         /\ \A i \in 1 .. n[f] : D[b[f] + l[f] + i - 1] = F[f].text[i]
         /\ Ends(D, e[f], star)
         /\ \A i \in 1 .. z[f] : Ends(D, p[f] + i, star) => p[f] + i = e[f]
  <2> SUFFICES ASSUME NEW f \in 1 .. N
               PROVE  /\ b[f] \in Nat /\ 1 <= b[f] /\ e[f] \in Nat /\ e[f] = b[f] + l[f] + n[f] + 4
                      /\ e[f] <= p[f] + z[f]
                      /\ \A i \in 1 .. l[f] : D[b[f] + i - 1] = Title(F[f].title)[i]
                      /\ \A i \in 1 .. n[f] : D[b[f] + l[f] + i - 1] = F[f].text[i]
                      /\ Ends(D, e[f], star)
                      /\ \A i \in 1 .. z[f] : Ends(D, p[f] + i, star) => p[f] + i = e[f]
    OBVIOUS
  <2> DEFINE pf == p[f]
             lf == l[f]
             nf == n[f]
             zf == z[f]
             bf == b[f]
             ef == e[f]
             Bf == B[f]
             Tf == Title(F[f].title)
             Xf == F[f].text
  <2>1. pf \in Nat /\ lf \in Nat /\ 5 <= lf /\ nf \in Nat /\ zf \in Nat /\ lf + nf + 5 <= zf
        /\ bf = pf + 1 /\ ef = pf + lf + nf + 5
    BY <1>n
  <2>2. \A i \in 1 .. zf : D[pf + i] = Bf[i]
    BY <1>10
  <2>3. /\ \A i \in 1 .. lf : Bf[i] = Tf[i]
        /\ \A i \in 1 .. nf : Bf[lf + i] = Xf[i]
        /\ Bf[lf + nf + 1] = "*" /\ Bf[lf + nf + 4] = "CR" /\ Bf[lf + nf + 5] = "LF"
    BY <1>8
  <2>4. /\ \A i \in 1 .. zf : Bf[i] = "LF" => 6 <= i
        /\ \A i \in 1 .. zf : (6 <= i /\ Ends(Bf, i, star)) => i = lf + nf + 5
    BY <1>12
  <2> HIDE DEF pf, lf, nf, zf, bf, ef, Bf, Tf, Xf
  <2>5. bf \in Nat /\ 1 <= bf /\ ef \in Nat /\ ef = bf + lf + nf + 4 /\ ef <= pf + zf
    BY <2>1
  <2>6. /\ \A i \in 1 .. lf : D[bf + i - 1] = Tf[i]
        /\ \A i \in 1 .. nf : D[bf + lf + i - 1] = Xf[i]
        /\ Ends(D, ef, star)
        /\ \A i \in 1 .. zf : Ends(D, pf + i, star) => pf + i = ef
    <3>1. Lies(pf, lf, nf, zf, bf, ef, D, Bf, Tf, Xf, star)
      BY <2>1, <2>2, <2>3, <2>4 DEF Lies
    <3> QED  BY <3>1, FrameAt
  <2> QED  BY <2>5, <2>6 DEF pf, lf, nf, zf, bf, ef, Bf, Tf, Xf
<1>13. Placed(y)
  <2>1. \A f \in 1 .. N : e[f] <= Len(D)
    <3> SUFFICES ASSUME NEW f \in 1 .. N PROVE e[f] <= Len(D)
      OBVIOUS
    <3>1. p[f] + z[f] <= Len(D) /\ Len(D) \in Nat /\ p[f] \in Nat /\ z[f] \in Nat
          /\ e[f] \in Nat /\ e[f] <= p[f] + z[f]
      BY <1>n, <1>s, <1>9
    <3> QED  BY <3>1
  <2>2. \A f, g \in 1 .. N : f < g => e[f] < b[g]
    <3> SUFFICES ASSUME NEW f \in 1 .. N, NEW g \in 1 .. N, f < g PROVE e[f] < b[g]
      OBVIOUS
    <3>1. e[f] <= p[f] + z[f] /\ b[g] = p[g] + 1 /\ p[f] + z[f] <= p[g]
      BY <1>n, <1>s, <1>9
    <3>2. e[f] \in Nat /\ p[f] \in Nat /\ z[f] \in Nat /\ p[g] \in Nat
      BY <1>n, <1>s
    <3> QED  BY <3>1, <3>2
  <2>3. y.bytes \in Seq(Symbol) /\ y.star \in BOOLEAN /\ Len(y.frames) \in Nat
    BY <1>1, <1>3, <1>9 DEF D, N
  <2>4. ASSUME NEW f \in FramesOf(y)
        PROVE  /\ TitleOf(y, f) \in DOMAIN TitleLen
               /\ TextOf(y, f) \in Seq(Symbol) /\ TextOf(y, f) # <<>> /\ Opens(TextOf(y, f)) # {}
               /\ b[f] \in Nat /\ 1 <= b[f]
               /\ e[f] = b[f] + SizeOf(y, f) + Len(TextOf(y, f)) + 4
               /\ e[f] <= Len(D)
    <3>1. f \in 1 .. N
      BY <1>6
    <3>2. TitleOf(y, f) = F[f].title /\ TextOf(y, f) = F[f].text /\ SizeOf(y, f) = l[f]
          /\ Len(TextOf(y, f)) = n[f]
      BY <1>4, <1>5, <3>1
    <3>3. F[f].title \in DOMAIN TitleLen /\ F[f].text \in Seq(Symbol) /\ F[f].text # <<>>
          /\ Opens(F[f].text) # {}
      BY <1>2, <1>8, <3>1
    <3>4. b[f] \in Nat /\ 1 <= b[f] /\ e[f] = b[f] + l[f] + n[f] + 4 /\ e[f] <= Len(D)
      BY <1>s, <2>1, <3>1
    <3> QED  BY <3>2, <3>3, <3>4
  <2> QED  BY <1>6, <2>2, <2>3, <2>4 DEF Placed, D, b, e
<1>14. Spelled(y)
  <2> SUFFICES ASSUME NEW f \in 1 .. N
               PROVE  /\ \A i \in 1 .. SizeOf(y, f) : D[b[f] + i - 1] = Title(TitleOf(y, f))[i]
                      /\ \A i \in 1 .. Len(TextOf(y, f)) : D[b[f] + SizeOf(y, f) + i - 1] = TextOf(y, f)[i]
    BY <1>6 DEF Spelled, D, b
  <2>1. SizeOf(y, f) = l[f] /\ TitleOf(y, f) = F[f].title /\ TextOf(y, f) = F[f].text
        /\ Len(TextOf(y, f)) = n[f]
    BY <1>4, <1>5
  <2>2. /\ \A i \in 1 .. l[f] : D[b[f] + i - 1] = Title(F[f].title)[i]
        /\ \A i \in 1 .. n[f] : D[b[f] + l[f] + i - 1] = F[f].text[i]
    BY <1>s
  <2> QED  BY <2>1, <2>2
<1>15. DollarsBegin(y)
  <2> SUFFICES ASSUME NEW j \in 1 .. Len(D), D[j] = "$" PROVE \E f \in 1 .. N : j = b[f]
    BY <1>6 DEF DollarsBegin, D, b
  <2>1. PICK f \in 1 .. N : \E i \in 1 .. z[f] : j = p[f] + i
    BY <1>11
  <2>2. PICK i \in 1 .. z[f] : j = p[f] + i
    BY <2>1
  <2>3. i = 1
    BY <1>10, <1>12, <2>2
  <2> QED  BY <1>3, <2>2, <2>3
<1>16. EndsEnd(y)
  <2>1. ASSUME NEW q \in 6 .. Len(D), Ends(D, q, star) PROVE \E f \in 1 .. N : q = e[f]
    <3>1. q \in 1 .. Len(D)
      BY <1>9
    <3>2. PICK f \in 1 .. N : \E i \in 1 .. z[f] : q = p[f] + i
      BY <1>11, <3>1
    <3>3. PICK i \in 1 .. z[f] : q = p[f] + i
      BY <3>2
    <3>4. p[f] + i = e[f]
      BY <1>s, <2>1, <3>3
    <3> QED  BY <3>3, <3>4
  <2>2. \A f \in 1 .. N : Ends(D, e[f], star)
    BY <1>s
  <2>3. \A q \in 6 .. Len(D) : Ends(D, q, star) <=> \E f \in 1 .. N : q = e[f]
    BY <2>1, <2>2
  <2> QED  BY <1>3, <1>6, <2>3 DEF EndsEnd, D, e
<1>17. TextsOpen(y)
  <2> SUFFICES ASSUME NEW f \in 1 .. N, NEW m \in Nat, GathersOf(y, f, m),
                      NEW j \in m + 1 .. b[f] + l[f] - 1, D[j] = Brace
               PROVE  FALSE
    BY <1>4, <1>6 DEF TextsOpen, D, b
  <2>1. m < b[f] + l[f] /\ \A g \in 1 .. N : g < f => e[g] - 4 <= m
    BY <1>4, <1>6 DEF GathersOf, b, e
  <2>2. /\ p[f] \in Nat /\ z[f] \in Nat /\ l[f] \in Nat /\ l[f] <= z[f] /\ b[f] = p[f] + 1
        /\ b[f] + l[f] - 1 <= Len(D) /\ Len(D) \in Nat
    <3> DEFINE pf == p[f]
               lf == l[f]
               nf == n[f]
               zf == z[f]
    <3>1. pf \in Nat /\ lf \in Nat /\ nf \in Nat /\ zf \in Nat /\ lf + nf + 5 <= zf
          /\ pf + zf <= Len(D) /\ Len(D) \in Nat /\ b[f] = pf + 1
      BY <1>n, <1>9
    <3> HIDE DEF pf, lf, nf, zf
    <3>2. lf <= zf /\ (pf + 1) + lf - 1 <= Len(D)
      BY <3>1
    <3> QED  BY <3>1, <3>2 DEF pf, lf, zf
  <2> DEFINE bl == b[f] + l[f] - 1
  <2>a. bl \in Int /\ j \in m + 1 .. bl /\ bl <= Len(D)
    BY <2>2
  <2> HIDE DEF bl
  <2>3. j \in 1 .. Len(D) /\ m < j /\ j <= bl
    BY <2>2, <2>a
  <2>4. PICK g \in 1 .. N : \E i \in 1 .. z[g] : j = p[g] + i
    BY <1>11, <2>3
  <2>5. PICK i \in 1 .. z[g] : j = p[g] + i
    BY <2>4
  <2>6. i \in l[g] + 1 .. l[g] + n[g]
    BY <1>10, <1>12, <2>5
  <2>7. p[g] \in Nat /\ z[g] \in Nat /\ l[g] \in Nat /\ n[g] \in Nat /\ e[g] = p[g] + l[g] + n[g] + 5
    BY <1>n
  <2>8. CASE g < f
    <3>1. e[g] - 4 <= m /\ m < p[g] + i
      BY <2>1, <2>3, <2>5, <2>8
    <3>2. ~(p[g] + l[g] + n[g] + 5 - 4 <= m)
      BY <2>6, <2>7, <3>1, NoneBefore
    <3> QED  BY <2>7, <3>1, <3>2
  <2>9. CASE g = f \/ f < g
    <3> DEFINE pf == p[f]
               lf == l[f]
               zf == z[f]
               q  == p[g]
               k  == l[g]
    <3>1. pf \in Nat /\ lf \in Nat /\ zf \in Nat /\ lf <= zf /\ q \in Nat /\ k \in Nat
      BY <2>2, <2>7
    <3>2. (q = pf /\ k = lf) \/ (pf + zf <= q)
      BY <1>9, <2>9
    <3>3. i \in k + 1 .. k + n[g] /\ n[g] \in Nat
      BY <2>6, <2>7
    <3>4. q + i <= bl /\ bl = pf + 1 + lf - 1
      BY <2>2, <2>3, <2>5 DEF bl
    <3> HIDE DEF pf, lf, zf, q, k
    <3>5. i \in Nat /\ k + 1 <= i /\ q + i <= pf + 1 + lf - 1
      BY <3>1, <3>3, <3>4
    <3>6. CASE q = pf /\ k = lf
      BY <3>1, <3>5, <3>6
    <3>7. CASE pf + zf <= q
      BY <3>1, <3>5, <3>7
    <3> QED  BY <3>2, <3>6, <3>7
  <2>11. g < f \/ g = f \/ f < g
    BY <1>1
  <2> QED  BY <2>8, <2>9, <2>11
<1> QED  BY <1>13, <1>14, <1>15, <1>16, <1>17 DEF Layout, y

----------------------------------------------------------------------------
(***************************************************************************)
(* What is so of a stream y between two chunks: c bytes were received, by  *)
(* the scanner pa, which keeps e; H was heard and L is lost.               *)
(***************************************************************************)
Fits(y, L) ==
    \A f \in FramesOf(y) : f \notin L =>
       TitleOf(y, f) \in IF y.star THEN printsvr_titles
                         ELSE IF f = 1 THEN opensess_titles ELSE moniclient_titles

Kept(y, c, pa, e, H, L) ==
    /\ c \in Nat /\ c <= Len(y.bytes)
    /\ Serves(y, c, pa, L) /\ At(y, c, TitlesOf(pa), e, L)
    /\ IsSequence(H) /\ Hears(y, c, H, L)
    /\ Fits(y, L)

\* What is so of fewer lost frames is so of more.
LEMMA MoreLost ==
    ASSUME NEW y, NEW c, NEW titles, NEW e, NEW H, NEW L, NEW M, L \subseteq M
    PROVE  /\ At(y, c, titles, e, L) => At(y, c, titles, e, M)
           /\ Hears(y, c, H, L) => Hears(y, c, H, M)
           /\ Fits(y, L) => Fits(y, M)
<1>1. At(y, c, titles, e, L) => At(y, c, titles, e, M)
  BY DEF At, Idles
<1>2. Hears(y, c, H, L) => Hears(y, c, H, M)
  <2>1. \A g : HeardOf(y, c, H, L, g) => HeardOf(y, c, H, M, g)
    BY DEF HeardOf
  <2> QED  BY <2>1 DEF Hears
<1>3. Fits(y, L) => Fits(y, M)
  BY DEF Fits
<1> QED  BY <1>1, <1>2, <1>3

\* The frames that are lost with a chunk, up to the k-th byte.
Loses(y, k, pa, M) ==
    /\ \A f \in FramesOf(y) : y.begin[f] <= k /\ k < y.begin[f] + iHeadLen - 1 => f \in M
    /\ pa = "opensess" => \A f \in FramesOf(y) : f > 1 /\ y.begin[f] <= k => f \in M

\* The others are whole when the chunk is parsed.
LEMMA Ready ==
    ASSUME NEW y, Placed(y), NEW c \in Nat, NEW k \in Nat, c <= k, NEW pa, NEW L, NEW M,
           Serves(y, c, pa, L), L \subseteq M, Fits(y, L), Loses(y, k, pa, M)
    PROVE  Serves(y, k, pa, M) /\ Whole(y, c, k, TitlesOf(pa), M)
<1>1. \A f \in FramesOf(y) : f \in Nat /\ 1 <= f /\ y.begin[f] \in Nat /\ y.end[f] \in Nat
                             /\ y.begin[f] < y.end[f]
  <2> SUFFICES ASSUME NEW f \in FramesOf(y)
               PROVE  f \in Nat /\ 1 <= f /\ y.begin[f] \in Nat /\ y.end[f] \in Nat
                      /\ y.begin[f] < y.end[f]
    OBVIOUS
  <2> DEFINE b == y.begin[f]
             e == y.end[f]
             l == SizeOf(y, f)
  <2>1. f \in Nat /\ b \in Nat /\ e \in Nat /\ l \in 5 .. 9 /\ b + l + 5 <= e
    BY PlacedIs
  <2>2. 1 <= f
    <3>1. Len(y.frames) \in Nat
      BY DEF Placed
    <3> QED  BY <3>1 DEF FramesOf
  <2> HIDE DEF b, e, l
  <2>3. b < e
    BY <2>1
  <2> QED  BY <2>1, <2>2, <2>3 DEF b, e
<1>2. /\ pa \in {"opensess", "moniclient", "printsvr"} /\ y.star = (pa = "printsvr")
      /\ pa = "moniclient" => \A f \in FramesOf(y) : f = 1 => y.end[f] <= c
  BY DEF Serves
<1>3. Serves(y, k, pa, M)
  <2>1. pa = "opensess" => \A f \in FramesOf(y) : f > 1 /\ y.begin[f] <= k => f \in M
    BY DEF Loses
  <2>2. pa = "moniclient" => \A f \in FramesOf(y) : f = 1 => y.end[f] <= k
    BY <1>1, <1>2
  <2> QED  BY <1>2, <2>1, <2>2 DEF Serves
<1>4. ASSUME NEW f \in FramesOf(y), c < y.begin[f], y.begin[f] <= k, f \notin M
      PROVE  TitleOf(y, f) \in TitlesOf(pa) /\ y.begin[f] + iHeadLen - 1 <= k
  <2>1. y.begin[f] + iHeadLen - 1 <= k
    <3>1. ~(k < y.begin[f] + iHeadLen - 1)
      BY <1>4 DEF Loses
    <3>2. y.begin[f] \in Nat /\ iHeadLen \in Nat
      BY <1>1, HeadIs
    <3> QED  BY <3>1, <3>2
  <2>2. TitleOf(y, f) \in IF y.star THEN printsvr_titles
                          ELSE IF f = 1 THEN opensess_titles ELSE moniclient_titles
    BY <1>4 DEF Fits
  <2>3. pa = "opensess" => f = 1
    <3>1. pa = "opensess" => ~(f > 1)
      BY <1>4 DEF Loses
    <3> QED  BY <1>1, <3>1
  <2>4. pa = "moniclient" => f # 1
    BY <1>1, <1>2, <1>4
  <2> QED  BY <1>2, <2>1, <2>2, <2>3, <2>4 DEF TitlesOf
<1>5. Whole(y, c, k, TitlesOf(pa), M)
  BY <1>4 DEF Whole
<1> QED  BY <1>3, <1>5

\* A chunk leaves it so.
LEMMA Keeps ==
    ASSUME NEW y, Layout(y), NEW c, NEW pa, NEW e, NEW H, NEW L, Kept(y, c, pa, e, H, L),
           NEW k \in Nat, c <= k, k <= Len(y.bytes),
           NEW M, L \subseteq M, Loses(y, k, pa, M),
           NEW r, r = exp_process_data(pa, e, SubSeq(y.bytes, c + 1, k))
    PROVE  Kept(y, k, r.parser, r.exp, H \o r.heard, M)
<1>1. /\ c \in Nat /\ c <= Len(y.bytes)
      /\ Serves(y, c, pa, L) /\ At(y, c, TitlesOf(pa), e, L)
      /\ IsSequence(H) /\ Hears(y, c, H, L)
      /\ Fits(y, L)
  BY DEF Kept
<1>2. Placed(y)
  BY DEF Layout
<1>3. Serves(y, k, pa, M) /\ Whole(y, c, k, TitlesOf(pa), M)
  BY <1>1, <1>2, Ready
<1>4. At(y, c, TitlesOf(pa), e, M) /\ Hears(y, c, H, M) /\ Fits(y, M)
  BY <1>1, MoreLost
<1>5. /\ Serves(y, k, r.parser, M) /\ At(y, k, TitlesOf(r.parser), r.exp, M)
      /\ IsSequence(H \o r.heard) /\ Hears(y, k, H \o r.heard, M)
  BY <1>1, <1>3, <1>4, ChunkIs
<1> QED  BY <1>4, <1>5 DEF Kept

\* It is so when the stream begins.
LEMMA KeptAtFirst ==
    ASSUME NEW y, Layout(y), NEW L, Fits(y, L), NEW pa, pa = IF y.star THEN "printsvr" ELSE "opensess"
    PROVE  Kept(y, 0, pa, Idle, <<>>, L)
<1>1. Placed(y) /\ y.bytes \in Seq(Symbol) /\ y.star \in BOOLEAN
  BY DEF Layout, Placed
<1>2. \A f \in FramesOf(y) : ~(y.begin[f] <= 0) /\ ~(y.end[f] <= 0)
  <2> SUFFICES ASSUME NEW f \in FramesOf(y) PROVE ~(y.begin[f] <= 0) /\ ~(y.end[f] <= 0)
    OBVIOUS
  <2> DEFINE b == y.begin[f]
             e == y.end[f]
             l == SizeOf(y, f)
  <2>1. b \in Nat /\ 1 <= b /\ e \in Nat /\ l \in 5 .. 9 /\ b + l + 5 <= e
    BY <1>1, PlacedIs
  <2> HIDE DEF b, e, l
  <2>2. ~(b <= 0) /\ ~(e <= 0)
    BY <2>1
  <2> QED  BY <2>2 DEF b, e
<1>3. 0 \in Nat /\ 0 <= Len(y.bytes)
  BY <1>1
<1>4. Serves(y, 0, pa, L)
  BY <1>1, <1>2 DEF Serves
<1>5. At(y, 0, TitlesOf(pa), Idle, L)
  BY <1>2 DEF At, Idles, Idle
<1>6. IsSequence(<<>>) /\ Len(<<>>) = 0
  <2>1. <<>> \in Seq({}) /\ Len(<<>>) = 0
    BY EmptySeq
  <2> QED  BY <2>1 DEF IsSequence
<1>7. Hears(y, 0, <<>>, L)
  <2> DEFINE g == [i \in 1 .. 0 |-> i]
  <2>1. 1 .. 0 = {}
    OBVIOUS
  <2>2. HeardOf(y, 0, <<>>, L, g)
    BY <1>2, <1>6, <2>1 DEF HeardOf
  <2> QED  BY <1>6, <2>2 DEF Hears
<1> QED  BY <1>3, <1>4, <1>5, <1>6, <1>7 DEF Kept

\* What the properties say of the frames R that were read.
Accounts(y, R, H, L) ==
    /\ \E as \in [R \ L -> DOMAIN H] :
          /\ \A f \in R \ L : H[as[f]] = Sent(y, f)
          /\ \A f, g \in R \ L : f < g => as[f] < as[g]
    /\ Len(H) <= Cardinality(R)

\* They are so when the state is as it should be: what was heard is numbered
\* by frames, which gives the one and the other.
LEMMA KeptPromised ==
    ASSUME NEW y, Layout(y), NEW c, NEW pa, NEW e, NEW H, NEW L, Kept(y, c, pa, e, H, L),
           NEW R, R = {f \in FramesOf(y) : y.end[f] <= c}
    PROVE  Accounts(y, R, H, L)
<1>1. PICK M : H \in Seq(M)
  BY DEF Kept, IsSequence
<1>2. PICK g : HeardOf(y, c, H, L, g)
  BY DEF Kept, Hears
<1>3. DOMAIN H = 1 .. Len(H) /\ Len(H) \in Nat
  BY <1>1
<1>4. /\ g \in [1 .. Len(H) -> FramesOf(y)]
      /\ \A i, j \in 1 .. Len(H) : i < j => g[i] < g[j]
      /\ \A i \in 1 .. Len(H) : y.end[g[i]] <= c
      /\ \A f \in FramesOf(y) :
            y.end[f] <= c /\ f \notin L => \E i \in 1 .. Len(H) : g[i] = f /\ H[i] = Sent(y, f)
  BY <1>2 DEF HeardOf
<1>n. Len(y.frames) \in Nat
  BY DEF Layout, Placed
<1>5. FramesOf(y) \subseteq Nat
  BY <1>n DEF FramesOf
<1>6. \A i, j \in 1 .. Len(H) : g[i] < g[j] => i < j
  <2> SUFFICES ASSUME NEW i \in 1 .. Len(H), NEW j \in 1 .. Len(H), g[i] < g[j], ~(i < j)
               PROVE  FALSE
    OBVIOUS
  <2>1. i = j \/ j < i
    BY <1>3
  <2>2. g[i] \in Nat /\ g[j] \in Nat
    BY <1>4, <1>5
  <2>3. i = j \/ g[j] < g[i]
    BY <1>4, <2>1
  <2> QED  BY <2>2, <2>3
<1>7. \E as \in [R \ L -> DOMAIN H] :
         /\ \A f \in R \ L : H[as[f]] = Sent(y, f)
         /\ \A f, h \in R \ L : f < h => as[f] < as[h]
  <2> DEFINE as == [f \in R \ L |-> CHOOSE i \in 1 .. Len(H) : g[i] = f /\ H[i] = Sent(y, f)]
  <2>1. \A f \in R \ L : as[f] \in 1 .. Len(H) /\ g[as[f]] = f /\ H[as[f]] = Sent(y, f)
    <3> SUFFICES ASSUME NEW f \in R \ L
                 PROVE  as[f] \in 1 .. Len(H) /\ g[as[f]] = f /\ H[as[f]] = Sent(y, f)
      OBVIOUS
    <3>1. \E i \in 1 .. Len(H) : g[i] = f /\ H[i] = Sent(y, f)
      BY <1>4
    <3>2. as[f] = CHOOSE i \in 1 .. Len(H) : g[i] = f /\ H[i] = Sent(y, f)
      OBVIOUS
    <3> HIDE DEF as
    <3> QED  BY <3>1, <3>2
  <2>2. as \in [R \ L -> 1 .. Len(H)]
    <3>1. as = [f \in R \ L |-> as[f]]
      OBVIOUS
    <3> HIDE DEF as
    <3> QED  BY <2>1, <3>1
  <2> HIDE DEF as
  <2>3. \A f, h \in R \ L : f < h => as[f] < as[h]
    <3> SUFFICES ASSUME NEW f \in R \ L, NEW h \in R \ L, f < h PROVE as[f] < as[h]
      OBVIOUS
    <3> DEFINE i == as[f]
               j == as[h]
    <3>1. i \in 1 .. Len(H) /\ j \in 1 .. Len(H) /\ g[i] = f /\ g[j] = h
      BY <2>1
    <3> HIDE DEF i, j
    <3>2. i < j
      BY <1>6, <3>1
    <3> QED  BY <3>2 DEF i, j
  <2> QED  BY <1>3, <2>1, <2>2, <2>3
<1>8. Len(H) <= Cardinality(R)
  <2>1. IsFiniteSet(R)
    <3>1. 1 \in Int /\ Len(y.frames) \in Int
      BY <1>n
    <3>2. IsFiniteSet(1 .. Len(y.frames))
      BY <3>1, FS_Interval
    <3>3. R \subseteq 1 .. Len(y.frames)
      BY DEF FramesOf
    <3> QED  BY <3>2, <3>3, FS_Subset
  <2>2. g \in Injection(1 .. Len(H), R)
    <3>1. g \in [1 .. Len(H) -> R]
      BY <1>4
    <3>2. ASSUME NEW i \in 1 .. Len(H), NEW j \in 1 .. Len(H), g[i] = g[j] PROVE i = j
      <4>1. i < j \/ j < i \/ i = j
        BY <1>3
      <4>2. g[i] \in Nat
        BY <1>4, <1>5
      <4>3. ~(g[i] < g[j]) /\ ~(g[j] < g[i])
        BY <3>2, <4>2
      <4> QED  BY <1>4, <4>1, <4>3
    <3> QED  BY <3>1, <3>2 DEF Injection, IsInjective
  <2>3. Cardinality(1 .. Len(H)) <= Cardinality(R)
    BY <2>1, <2>2, FS_Injection
  <2>4. Cardinality(1 .. Len(H)) = Len(H)
    <3>1. 1 \in Int /\ Len(H) \in Int /\ Len(H) - 1 + 1 = Len(H)
      BY <1>3
    <3>2. Cardinality(1 .. Len(H)) = IF 1 > Len(H) THEN 0 ELSE Len(H) - 1 + 1
      BY <3>1, FS_Interval
    <3> QED  BY <1>3, <3>2
  <2> QED  BY <2>3, <2>4
<1> QED  BY <1>7, <1>8 DEF Accounts

\* At the end of a frame the scanner gathers none.
LEMMA KeptResynchronised ==
    ASSUME NEW y, Layout(y), NEW c, NEW pa, NEW e, NEW H, NEW L, Kept(y, c, pa, e, H, L),
           NEW f \in FramesOf(y), c = y.end[f]
    PROVE  e.searchstatus = "NULL"
<1>0. Placed(y)
  BY DEF Layout
<1> SUFFICES ASSUME NEW h \in FramesOf(y), y.begin[h] <= c, c < y.end[h] PROVE FALSE
  BY DEF Kept, At, Gathering
<1>1. y.begin[h] \in Nat /\ y.end[h] \in Nat /\ y.end[f] \in Nat
  BY <1>0, PlacedIs
<1>2. f < h => y.end[f] < y.begin[h]
  BY <1>0, InOrder
<1>3. f = h \/ f < h \/ (h < f /\ y.end[h] < y.end[f])
  BY <1>0, InOrder
<1> QED  BY <1>1, <1>2, <1>3

----------------------------------------------------------------------------
\* The stream of the specification.
Sending == StreamOf(sent.frames, sent.from = "printsvr")

\* It is laid out, and its places are those of the specification.
LEMMA SendingIs ==
    ASSUME PlainTexts, sent \in Streams
    PROVE  /\ Layout(Sending) /\ data = Sending.bytes /\ Sending.star = (sent.from = "printsvr")
           /\ Frame = FramesOf(Sending)
           /\ \A f \in Frame : /\ Begin(f) = Sending.begin[f] /\ End(f) = Sending.end[f]
                               /\ sent.frames[f].title = TitleOf(Sending, f)
                               /\ sent.frames[f].text = TextOf(Sending, f)
<1> DEFINE F == sent.frames
           N == Len(F)
           star == sent.from = "printsvr"
           y == StreamOf(F, star)
<1>1. F \in Seq(FrameSet)
  BY TextScanAssumption DEF FrameSet
<1>2. star \in BOOLEAN
  OBVIOUS
<1>3. \A f \in 1 .. N : Plain(F[f].text, star)
  <2>1. DOMAIN F = 1 .. N
    BY <1>1
  <2> QED  BY <2>1 DEF PlainTexts
<1>4. Layout(y)
  <2> HIDE DEF F, star
  <2> QED  BY <1>1, <1>2, <1>3, LayoutOf DEF N
<1>5. DOMAIN F = 1 .. N /\ N \in Nat
  BY <1>1
<1>6. /\ y.frames = F /\ y.star = star /\ y.bytes = Upto(F, N)
      /\ \A f \in 1 .. N : /\ y.begin[f] = Len(Upto(F, f - 1)) + 1
                           /\ y.end[f] = Len(Upto(F, f - 1)) + TitleLen[F[f].title] + Len(F[f].text) + 5
  BY DEF StreamOf
<1>7. FramesOf(y) = 1 .. N /\ Frame = 1 .. N
  BY <1>5, <1>6 DEF FramesOf, Frame
<1>8. data = y.bytes
  BY <1>6 DEF data, Upto
<1>9. \A f \in 1 .. N : F[f].title = TitleOf(y, f) /\ F[f].text = TextOf(y, f)
  BY <1>6 DEF TitleOf, TextOf
<1>10. ASSUME NEW f \in 1 .. N PROVE Begin(f) = y.begin[f] /\ End(f) = y.end[f]
  <2> DEFINE x == F[f]
             u == Len(Upto(F, f - 1))
             l == TitleLen[x.title]
             n == Len(x.text)
             v == [x EXCEPT !.nul = FALSE]
  <2>1. Begin(f) = 1 + u
    BY DEF Begin, Upto
  <2>2. u \in Nat
    <3>1. \A i \in 1 .. N : Bytes(F[i]) \in Seq(Symbol)
      <4> SUFFICES ASSUME NEW i \in 1 .. N PROVE Bytes(F[i]) \in Seq(Symbol)
        OBVIOUS
      <4>1. F[i] \in FrameSet
        <5> HIDE DEF F
        <5> QED  BY <1>1, ElementOfSeq
      <4>2. F[i].title \in DOMAIN TitleLen /\ F[i].text \in Seq(STRING) /\ F[i].nul \in BOOLEAN
        BY <4>1 DEF FrameSet
      <4> QED  BY <4>2, BytesAre
    <3>2. f - 1 \in 0 .. N
      BY <1>5
    <3> HIDE DEF F, N
    <3> QED  BY <1>5, <3>1, <3>2, Placing
  <2>3. x \in FrameSet
    <3> HIDE DEF F
    <3> QED  BY <1>1, ElementOfSeq
  <2>4. v.title = x.title /\ v.text = x.text /\ v.nul = FALSE
        /\ x.title \in DOMAIN TitleLen /\ x.text \in Seq(STRING)
    <3> HIDE DEF x
    <3> QED  BY <2>3 DEF FrameSet
  <2>5. Len(Bytes(v)) = l + n + 5 /\ l \in Nat /\ n \in Nat
    <3> HIDE DEF v, x
    <3>1. v.title \in DOMAIN TitleLen /\ v.text \in Seq(STRING) /\ v.nul \in BOOLEAN
          /\ l = TitleLen[v.title] /\ n = Len(v.text)
      BY <2>4
    <3> HIDE DEF l, n
    <3>2. l \in 5 .. 9 /\ n \in Nat /\ Len(Bytes(v)) = l + n + (IF v.nul THEN 6 ELSE 5)
      BY <3>1, BytesAre
    <3>3. ~v.nul
      BY <2>4
    <3> QED  BY <3>2, <3>3
  <2>6. End(f) = Begin(f) + Len(Bytes(v)) - 1
    BY DEF End
  <2>7. y.begin[f] = u + 1 /\ y.end[f] = u + l + n + 5
    BY <1>6
  <2> HIDE DEF u, l, n, v
  <2>8. Begin(f) = u + 1 /\ End(f) = u + l + n + 5
    BY <2>1, <2>2, <2>5, <2>6
  <2> QED  BY <2>7, <2>8
<1> QED  BY <1>4, <1>6, <1>7, <1>8, <1>9, <1>10 DEF Sending

(***************************************************************************)
(* The inductive invariant: the scanner's state is that of the bytes that  *)
(* were received.  No property is inductive by itself: where the scanner   *)
(* is in a frame, and which byte of it it gathers from, is part of it.     *)
(***************************************************************************)
ScanInv == sent \in Streams /\ Kept(Sending, pos, parser, exp, heard, lost)

\* The titles that are known of a frame.
LEMMA FitsKnown ==
    ASSUME PlainTexts, sent \in Streams, NEW f \in Frame
    PROVE  Known(f) = IF Sending.star THEN printsvr_titles
                      ELSE IF f = 1 THEN opensess_titles ELSE moniclient_titles
  BY SendingIs DEF Known

\* The invariant holds at first,
LEMMA ScanInit ==
    ASSUME PlainTexts, Init
    PROVE  ScanInv
<1>1. /\ sent \in Streams /\ pos = 0 /\ heard = <<>> /\ exp = Idle
      /\ parser = IF sent.from = "printsvr" THEN "printsvr" ELSE "opensess"
      /\ lost = {f \in Frame : sent.frames[f].title \notin Known(f)}
  BY DEF Init
<1>2. Fits(Sending, lost)
  <2> SUFFICES ASSUME NEW f \in FramesOf(Sending), f \notin lost
               PROVE  TitleOf(Sending, f) \in IF Sending.star THEN printsvr_titles
                                              ELSE IF f = 1 THEN opensess_titles ELSE moniclient_titles
    BY DEF Fits
  <2>1. f \in Frame
    BY <1>1, SendingIs
  <2>2. sent.frames[f].title \in Known(f)
    BY <1>1, <2>1
  <2> QED  BY <1>1, <2>1, <2>2, SendingIs, FitsKnown
<1>3. Layout(Sending) /\ parser = IF Sending.star THEN "printsvr" ELSE "opensess"
  BY <1>1, SendingIs
<1>4. Kept(Sending, 0, parser, Idle, <<>>, lost)
  BY <1>2, <1>3, KeptAtFirst
<1> QED  BY <1>1, <1>4 DEF ScanInv

\* Receive keeps it,
LEMMA ScanReceive ==
    ASSUME PlainTexts, ScanInv, NEW k \in pos + 1 .. Len(data), Receive(k)
    PROVE  ScanInv'
<1> DEFINE y == Sending
           r == exp_process_data(parser, exp, SubSeq(data, pos + 1, k))
           M == lost \cup CutHead(k) \cup Overlooked(k)
<1>1. /\ pos' = k /\ parser' = r.parser /\ exp' = r.exp /\ heard' = heard \o r.heard
      /\ lost' = M /\ sent' = sent
  BY DEF Receive
<1>2. sent \in Streams /\ Kept(y, pos, parser, exp, heard, lost)
  BY DEF ScanInv
<1>3. Layout(y) /\ data = y.bytes /\ Frame = FramesOf(y) /\ \A f \in Frame : Begin(f) = y.begin[f]
  BY <1>2, SendingIs
<1>4. pos \in Nat
  BY <1>2 DEF Kept
<1>5. Loses(y, k, parser, M)
  <2>1. ASSUME NEW f \in FramesOf(y), y.begin[f] <= k, k < y.begin[f] + iHeadLen - 1
        PROVE  f \in M
    BY <1>3, <2>1 DEF CutHead
  <2>2. ASSUME parser = "opensess", NEW f \in FramesOf(y), f > 1, y.begin[f] <= k
        PROVE  f \in M
    BY <1>3, <2>2 DEF Overlooked
  <2> QED  BY <2>1, <2>2 DEF Loses
<1>6. r = exp_process_data(parser, exp, SubSeq(y.bytes, pos + 1, k))
  BY <1>3
<1>7. k \in Nat /\ pos <= k /\ k <= Len(y.bytes)
  <2>1. Len(data) \in Nat
    <3>1. data \in Seq(Symbol)
      BY <1>3 DEF Layout, Placed
    <3> QED  BY <3>1
  <2>2. k \in Nat /\ pos <= k /\ k <= Len(data)
    BY <1>4, <2>1
  <2> QED  BY <1>3, <2>2
<1>8. lost \subseteq M
  OBVIOUS
<1> HIDE DEF r, M
<1>9. Kept(y, k, r.parser, r.exp, heard \o r.heard, M)
  BY <1>2, <1>3, <1>5, <1>6, <1>7, <1>8, Keeps
<1>10. Sending' = y
  BY <1>1 DEF Sending
<1>11. Kept(y, pos', parser', exp', heard', lost')
  BY <1>1, <1>9
<1> QED  BY <1>1, <1>2, <1>10, <1>11 DEF ScanInv

\* so every step does,
LEMMA ScanStep ==
    ASSUME PlainTexts, ScanInv, [Next]_vars
    PROVE  ScanInv'
<1>1. ASSUME NEW k \in pos + 1 .. Len(data), Receive(k) PROVE ScanInv'
  BY <1>1, ScanReceive
<1>2. CASE UNCHANGED vars
  <2>1. /\ sent' = sent /\ pos' = pos /\ parser' = parser /\ exp' = exp /\ heard' = heard /\ lost' = lost
    BY <1>2 DEF vars
  <2>2. Sending' = Sending
    BY <2>1 DEF Sending
  <2> QED  BY <2>1, <2>2 DEF ScanInv
<1>3. CASE Done
  BY <1>2, <1>3 DEF Done
<1> QED  BY <1>1, <1>2, <1>3 DEF Next

\* and it says what the properties say.
LEMMA ScanSays ==
    ASSUME PlainTexts, ScanInv
    PROVE  PromisedHeard /\ OneForEachFrame /\ Resynchronised
<1> DEFINE y == Sending
<1>1. sent \in Streams /\ Kept(y, pos, parser, exp, heard, lost)
  BY DEF ScanInv
<1>2. /\ Layout(y) /\ Frame = FramesOf(y)
      /\ \A f \in Frame : /\ End(f) = y.end[f] /\ sent.frames[f].title = TitleOf(y, f)
                          /\ sent.frames[f].text = TextOf(y, f)
  BY <1>1, SendingIs
<1>3. Read = {f \in FramesOf(y) : y.end[f] <= pos} /\ Read \subseteq Frame
  BY <1>2 DEF Read
<1>4. /\ \E as \in [Read \ lost -> DOMAIN heard] :
            /\ \A f \in Read \ lost : heard[as[f]] = Sent(y, f)
            /\ \A f, g \in Read \ lost : f < g => as[f] < as[g]
      /\ Len(heard) <= Cardinality(Read)
  <2>1. Accounts(y, Read, heard, lost)
    BY <1>1, <1>2, <1>3, KeptPromised
  <2> QED  BY <2>1 DEF Accounts
<1>5. PromisedHeard
  <2>1. PICK as \in [Read \ lost -> DOMAIN heard] :
            /\ \A f \in Read \ lost : heard[as[f]] = Sent(y, f)
            /\ \A f, g \in Read \ lost : f < g => as[f] < as[g]
    BY <1>4
  <2>2. \A f \in Read \ lost : Sent(y, f) = [title |-> sent.frames[f].title, json |-> Json(sent.frames[f].text)]
    BY <1>2, <1>3 DEF Sent
  <2> QED  BY <2>1, <2>2 DEF PromisedHeard
<1>6. OneForEachFrame
  BY <1>4 DEF OneForEachFrame
<1>7. Resynchronised
  <2> SUFFICES ASSUME NEW f \in Frame, pos = End(f) PROVE exp.searchstatus = "NULL"
    BY DEF Resynchronised
  <2>1. f \in FramesOf(y) /\ pos = y.end[f]
    BY <1>2
  <2> QED  BY <1>1, <1>2, <2>1, KeptResynchronised
<1> QED  BY <1>5, <1>6, <1>7

\* Hence it always holds.
LEMMA ScanAlways ==
    ASSUME PlainTexts
    PROVE  Spec => []ScanInv
<1>1. Init => ScanInv
  BY ScanInit
<1>2. ScanInv /\ [Next]_vars => ScanInv'
  BY ScanStep
<1> QED  BY <1>1, <1>2, PTL DEF Spec

\* For all streams of plain texts, however they are cut: every frame whose
\* head came in one chunk is heard, whole and in order.
THEOREM PromisesKept ==
    ASSUME PlainTexts
    PROVE  Spec => []PromisedHeard
<1>1. ScanInv => PromisedHeard
  BY ScanSays
<1> QED  BY <1>1, ScanAlways, PTL

\* For all such streams: nothing else is heard, but at most one message for
\* each lost frame.
THEOREM NothingInvented ==
    ASSUME PlainTexts
    PROVE  Spec => []OneForEachFrame
<1>1. ScanInv => OneForEachFrame
  BY ScanSays
<1> QED  BY <1>1, ScanAlways, PTL

\* For all such streams: no frame, lost or invented, runs into the next one.
THEOREM FramesApart ==
    ASSUME PlainTexts
    PROVE  Spec => []Resynchronised
<1>1. ScanInv => Resynchronised
  BY ScanSays
<1> QED  BY <1>1, ScanAlways, PTL
=============================================================================
