--------------------------- MODULE CardFlowProof ---------------------------
(***************************************************************************)
(* For any number of swipes: a card is handed back only after it was       *)
(* printed, and the stages shown are in order and true, however the        *)
(* moniclient and the connection to printsvr come and go.  The invariant   *)
(* holds of each swipe alone; a step is one handler for one swipe, or      *)
(* something that happens to jobs and acks on the way.                     *)
(***************************************************************************)
EXTENDS CardFlow, SequenceTheorems, TLAPS

\* Every stage shown ranks below n, and none of them is a last one.
Before(q, n) == \A i \in 1 .. Len(q) : Rank[q[i]] < n /\ q[i] \notin Final

\* Every stage shown is one of S.
Within(q, S) == \A i \in 1 .. Len(q) : q[i] \in S

Early == {"querying", "queryok", "printing"}

\* What is known of a swipe by where its job is.
Consistent(s) ==
    /\ shown[s] = <<>> /\ s \notin upset => score[s] = "none"
    /\ job[s] # "none" => score[s] = "ok"
    /\ job[s] \in {"none", "sent", "lost", "queued"} =>
          ack[s] = "none" /\ returned[s] = 0
    /\ job[s] = "none" => Within(shown[s], Early \cup {"queryfail"})
    /\ job[s] \in {"sent", "lost", "queued"} => Within(shown[s], Early)
    /\ ack[s] # "none" => returned[s] = 0 /\ Within(shown[s], Early)
    /\ ack[s] = "ok" => job[s] = "printed"
    /\ ack[s] = "err" => job[s] = "failed"
    /\ job[s] = "failed" => returned[s] = 0 /\ Within(shown[s], Early \cup {"printerr"})
    /\ returned[s] \in {0, 1}
    /\ Shows(s, "queryfail") => job[s] = "none"
    /\ Shows(s, "backcardok") => returned[s] = 1
    /\ Shows(s, "backcarderr") => returned[s] = 0
    /\ Shows(s, "printok") => job[s] = "printed"
    /\ Shows(s, "printerr") => job[s] = "failed"
    /\ InOrder(shown[s])

IInv == TypeOK /\ \A s \in Swipe : Consistent(s)

----------------------------------------------------------------------------
(***************************************************************************)
(* The first k stages of p shown after those of q.                         *)
(***************************************************************************)
LEMMA Extended ==
    ASSUME NEW q \in Seq(Stage), NEW p \in Seq(Stage), NEW k \in 0 .. Len(p),
           NEW r, r = q \o SubSeq(p, 1, k)
    PROVE  /\ r \in Seq(Stage) /\ Len(r) = Len(q) + k
           /\ \A i \in 1 .. Len(q) : r[i] = q[i]
           /\ \A i \in 1 .. k : r[Len(q) + i] = p[i]
  OBVIOUS

\* Every stage has a rank.
LEMMA RankNat == \A t \in Stage : Rank[t] \in Nat
  BY DEF Stage, Rank

\* The order is kept when all stages of p rank above those of q.
LEMMA KeepsOrder ==
    ASSUME NEW q \in Seq(Stage), NEW p \in Seq(Stage), NEW k \in 0 .. Len(p),
           NEW r, r = q \o SubSeq(p, 1, k), NEW n \in Nat,
           InOrder(q), InOrder(p), Before(q, n),
           \A i \in 1 .. Len(p) : Rank[p[i]] >= n
    PROVE  InOrder(r)
  <1>1. /\ r \in Seq(Stage) /\ Len(r) = Len(q) + k
        /\ \A i \in 1 .. Len(q) : r[i] = q[i]
        /\ \A i \in 1 .. k : r[Len(q) + i] = p[i]
    BY Extended
  <1>2. \A t \in Stage : Rank[t] \in Nat
    BY RankNat
  <1> SUFFICES ASSUME NEW i \in 1 .. Len(r), NEW j \in 1 .. Len(r), i < j
               PROVE  Rank[r[i]] < Rank[r[j]] /\ r[i] \notin Final
    BY DEF InOrder
  <1>3. CASE j <= Len(q)
    BY <1>1, <1>3 DEF InOrder
  <1>4. CASE i <= Len(q) /\ j > Len(q)
    <2>1. r[i] = q[i] /\ r[j] = p[j - Len(q)] /\ j - Len(q) \in 1 .. Len(p)
      BY <1>1, <1>4
    <2>2. Rank[q[i]] < n /\ q[i] \notin Final /\ Rank[p[j - Len(q)]] >= n
      BY <1>4, <2>1 DEF Before
    <2>3. Rank[q[i]] \in Nat /\ Rank[p[j - Len(q)]] \in Nat
      BY <1>2, <1>4, <2>1
    <2>4. Rank[q[i]] < Rank[p[j - Len(q)]]
      <3>1. \A x, y \in Nat : x < n /\ y >= n => x < y
        OBVIOUS
      <3> QED BY <2>2, <2>3, <3>1
    <2> QED BY <2>1, <2>2, <2>4
  <1>5. CASE i > Len(q)
    <2>1. /\ r[i] = p[i - Len(q)] /\ r[j] = p[j - Len(q)]
          /\ i - Len(q) \in 1 .. Len(p) /\ j - Len(q) \in 1 .. Len(p)
          /\ i - Len(q) < j - Len(q)
      BY <1>1, <1>5
    <2> QED BY <2>1 DEF InOrder
  <1> QED BY <1>3, <1>4, <1>5

\* Each stage shown is one of q's or one of p's.
LEMMA KeepsWithin ==
    ASSUME NEW q \in Seq(Stage), NEW p \in Seq(Stage), NEW k \in 0 .. Len(p),
           NEW r, r = q \o SubSeq(p, 1, k), NEW S, Within(q, S), Within(p, S)
    PROVE  Within(r, S)
  <1>1. /\ r \in Seq(Stage) /\ Len(r) = Len(q) + k
        /\ \A i \in 1 .. Len(q) : r[i] = q[i]
        /\ \A i \in 1 .. k : r[Len(q) + i] = p[i]
    BY Extended
  <1> SUFFICES ASSUME NEW i \in 1 .. Len(r) PROVE r[i] \in S
    BY DEF Within
  <1>2. CASE i <= Len(q)
    BY <1>1, <1>2 DEF Within
  <1>3. CASE i > Len(q)
    <2>1. r[i] = p[i - Len(q)] /\ i - Len(q) \in 1 .. Len(p)
      BY <1>1, <1>3
    <2> QED BY <2>1 DEF Within
  <1> QED BY <1>2, <1>3

\* Early stages rank below 4, and more may follow each of them.
LEMMA EarlyBefore ==
    ASSUME NEW q \in Seq(Stage), Within(q, Early)
    PROVE  Before(q, 4)
  BY DEF Within, Early, Before, Rank, Final

\* The stages a handler shows, one list for each of its outcomes.
Lists == {<<"querying">>, <<"querying", "queryfail">>,
          <<"querying", "queryok", "printing">>}

Lates == {<<"printerr">>, <<"printok", "backcarding">>,
          <<"printok", "backcarding", "backcardok">>,
          <<"printok", "backcarding", "backcarderr">>}

\* Every such list is in order itself.
LEMMA ListsInOrder ==
    ASSUME NEW p \in Lists \cup Lates
    PROVE  p \in Seq(Stage) /\ Len(p) > 0 /\ InOrder(p)
  <1>1. CASE p = <<"querying">>
    BY <1>1 DEF Stage, InOrder, Rank, Final
  <1>2. CASE p = <<"querying", "queryfail">>
    BY <1>2 DEF Stage, InOrder, Rank, Final
  <1>3. CASE p = <<"querying", "queryok", "printing">>
    BY <1>3 DEF Stage, InOrder, Rank, Final
  <1>4. CASE p = <<"printerr">>
    BY <1>4 DEF Stage, InOrder, Rank, Final
  <1>5. CASE p = <<"printok", "backcarding">>
    BY <1>5 DEF Stage, InOrder, Rank, Final
  <1>6. CASE p = <<"printok", "backcarding", "backcardok">>
    BY <1>6 DEF Stage, InOrder, Rank, Final
  <1>7. CASE p = <<"printok", "backcarding", "backcarderr">>
    BY <1>7 DEF Stage, InOrder, Rank, Final
  <1> QED BY <1>1, <1>2, <1>3, <1>4, <1>5, <1>6, <1>7 DEF Lists, Lates

\* What printack and Parker's second answer show ranks 4 and above.
LEMMA LatesRank ==
    ASSUME NEW p \in Lates
    PROVE  \A i \in 1 .. Len(p) : Rank[p[i]] >= 4
  BY DEF Lates, Rank

\* printok and backcarding, and what Parker's answer adds.
LEMMA Answered ==
    ASSUME NEW z
    PROVE  /\ <<"printok", "backcarding">> \o <<z>> = <<"printok", "backcarding", z>>
           /\ <<"printok", "backcarding">> \o <<>> = <<"printok", "backcarding">>
  <1>1. <<"printok", "backcarding">> \o <<z>> = <<"printok", "backcarding", z>>
    <2> DEFINE S == {"printok", "backcarding", z}
               l == <<"printok", "backcarding">> \o <<z>>
               m == <<"printok", "backcarding", z>>
    <2>1. l \in Seq(S) /\ m \in Seq(S) /\ Len(l) = 3 /\ Len(m) = 3
      OBVIOUS
    <2>2. l[1] = m[1] /\ l[2] = m[2] /\ l[3] = m[3]
      OBVIOUS
    <2> HIDE DEF l, m
    <2>3. \A i \in 1 .. Len(l) : l[i] = m[i]
      BY <2>1, <2>2
    <2>4. l = m
      BY <2>1, <2>3, SeqEqual
    <2> QED BY <2>4 DEF l, m
  <1>2. <<"printok", "backcarding">> \o <<>> = <<"printok", "backcarding">>
    OBVIOUS
  <1> QED BY <1>1, <1>2

\* What a handler that shows p leaves of a swipe.
LEMMA Showing ==
    ASSUME IInv, NEW s \in Swipe, NEW p \in Lists \cup Lates, Show(s, p),
           IF p \in Lists THEN shown[s] = <<>> ELSE Within(shown[s], Early)
    PROVE  /\ shown' \in [Swipe -> Seq(Stage)] /\ moni' \in BOOLEAN
           /\ \A t \in Swipe \ {s} : shown'[t] = shown[t]
           /\ InOrder(shown'[s])
           /\ \A S : Within(shown[s], S) /\ Within(p, S) => Within(shown'[s], S)
           /\ moni' => shown'[s] # <<>>
  <1> USE DEF IInv, TypeOK
  <1>1. PICK k \in 0 .. Len(p) :
           /\ shown' = [shown EXCEPT ![s] = shown[s] \o SubSeq(p, 1, k)]
           /\ moni' = (moni /\ k = Len(p))
    BY DEF Show
  <1>2. p \in Seq(Stage) /\ InOrder(p) /\ Len(p) > 0
    BY ListsInOrder
  <1>3. shown[s] \in Seq(Stage) /\ shown'[s] = shown[s] \o SubSeq(p, 1, k)
    BY <1>1
  <1>4. shown'[s] \in Seq(Stage) /\ Len(shown'[s]) = Len(shown[s]) + k
    BY <1>2, <1>3, Extended
  <1>5. InOrder(shown'[s])
    <2>1. InOrder(shown[s])
      BY DEF Consistent
    <2>2. CASE p \in Lists
      <3>1. shown[s] = <<>>
        BY <2>2
      <3>2. Before(shown[s], 0)
        BY <3>1 DEF Before
      <3>3. \A i \in 1 .. Len(p) : Rank[p[i]] >= 0
        BY <1>2, RankNat
      <3> QED BY <1>2, <1>3, <2>1, <3>2, <3>3, KeepsOrder
    <2>3. CASE p \notin Lists
      <3>1. p \in Lates /\ Within(shown[s], Early)
        BY <2>3
      <3>2. Before(shown[s], 4)
        BY <1>3, <3>1, EarlyBefore
      <3> QED BY <1>2, <1>3, <2>1, <3>1, <3>2, LatesRank, KeepsOrder
    <2> QED BY <2>2, <2>3
  <1>6. ASSUME NEW S, Within(shown[s], S), Within(p, S)
        PROVE  Within(shown'[s], S)
    BY <1>2, <1>3, <1>6, KeepsWithin
  <1>7. moni' => shown'[s] # <<>>
    <2> SUFFICES ASSUME moni' PROVE Len(shown'[s]) # 0
      BY <1>4
    <2>1. k = Len(p)
      BY <1>1
    <2>2. Len(shown[s]) \in Nat /\ Len(p) \in Nat
      BY <1>2, <1>3
    <2> QED BY <1>2, <1>4, <2>1, <2>2
  <1> QED BY <1>1, <1>3, <1>4, <1>5, <1>6, <1>7

\* A swipe whose job or ack is lost on the way, or to which nothing happens.
LEMMA Left ==
    ASSUME NEW s \in Swipe, Consistent(s),
           shown'[s] = shown[s], score'[s] = score[s], returned'[s] = returned[s],
           s \in upset => s \in upset',
           job'[s] = job[s] \/ (job[s] = "sent" /\ job'[s] = "lost"),
           ack'[s] \in {ack[s], "none"}
    PROVE  Consistent(s)'
  <1>1. /\ \A S : Within(shown[s], S)' <=> Within(shown[s], S)
        /\ \A st : Shows(s, st)' <=> Shows(s, st)
        /\ InOrder(shown[s])' <=> InOrder(shown[s])
    BY DEF Within, Shows, InOrder
  <1> QED BY <1>1 DEF Consistent

\* forward_to_printsvr puts the job of s where it puts it, and may lose others.
LEMMA Forwarding ==
    ASSUME IInv, NEW s \in Swipe, ForwardToPrintsvr(s),
           job[s] = "none", ack[s] = "none"
    PROVE  /\ link' \in BOOLEAN
           /\ job' \in [Swipe -> Job] /\ ack' \in [Swipe -> {"none", "ok", "err", "bad"}]
           /\ \A t \in Swipe : ack'[t] # "none" =>
                  ack'[t] = ack[t] /\ job'[t] = job[t] /\ link'
           /\ job'[s] \in {"none", "sent", "lost"} /\ ack'[s] = "none"
           /\ \A t \in Swipe \ {s} :
                  /\ job'[t] = job[t] \/ (job[t] = "sent" /\ job'[t] = "lost")
                  /\ ack'[t] \in {ack[t], "none"}
  <1> USE DEF IInv, TypeOK, Job
  <1>1. CASE link /\ job' = [job EXCEPT ![s] = "sent"] /\ UNCHANGED <<link, ack>>
    BY <1>1
  <1>2. CASE link /\ Disconnected([job EXCEPT ![s] = "sent"])
    BY <1>2 DEF Disconnected, Dropped
  <1>3. CASE ~link /\ UNCHANGED <<link, job, ack>>
    BY <1>3
  <1> QED BY <1>1, <1>2, <1>3 DEF ForwardToPrintsvr

----------------------------------------------------------------------------
LEMMA InitInv == Init => IInv
  BY DEF Init, IInv, TypeOK, Job, Consistent, Shows, InOrder, Within

\* A frame of the card reader: the swipe was not seen before.
LEMMA MessageInv ==
    ASSUME IInv, NEW s \in Swipe, OnComMessage(s)
    PROVE  IInv'
  <1> USE DEF IInv, TypeOK
  <1>1. /\ shown[s] = <<>> /\ s \notin upset /\ score[s] = "none"
        /\ job[s] = "none" /\ ack[s] = "none" /\ returned[s] = 0
    BY DEF OnComMessage, Swiped, Consistent, Job
  <1>2. upset' \subseteq Swipe /\ \A t \in Swipe : t \in upset => t \in upset'
    BY DEF OnComMessage, ScoreMissing, ScoreFail, ScoreOk, Missed, Broken, OnTheWay
  <1>3. CASE ScoreMissing(s)
    <2>1. Show(s, <<"querying">>) /\ <<"querying">> \in Lists
      BY <1>3 DEF ScoreMissing, Lists
    <2>2. TypeOK'
      BY <1>2, <1>3, <2>1, <1>1, Showing DEF ScoreMissing, services
    <2>3. ASSUME NEW t \in Swipe \ {s} PROVE Consistent(t)'
      <3> QED BY <1>1, <1>2, <1>3, <2>1, Showing, Left DEF ScoreMissing, services
    <2>4. Consistent(s)'
      <3>1. Within(shown[s], {"querying"}) /\ Within(<<"querying">>, {"querying"})
        BY <1>1 DEF Within
      <3>2. InOrder(shown'[s]) /\ Within(shown'[s], {"querying"})
        BY <1>1, <2>1, <3>1, Showing
      <3> QED BY <1>1, <1>3, <3>2
              DEF ScoreMissing, services, Consistent, Within, Shows, Early, InOrder
    <2> QED BY <2>2, <2>3, <2>4
  <1>4. CASE ScoreFail(s)
    <2>1. Show(s, <<"querying", "queryfail">>) /\ <<"querying", "queryfail">> \in Lists
      BY <1>4 DEF ScoreFail, Lists
    <2>2. TypeOK'
      BY <1>1, <1>2, <1>4, <2>1, Showing DEF ScoreFail
    <2>3. ASSUME NEW t \in Swipe \ {s} PROVE Consistent(t)'
      BY <1>1, <1>2, <1>4, <2>1, Showing, Left DEF ScoreFail
    <2>4. Consistent(s)'
      <3> DEFINE S == {"querying", "queryfail"}
      <3>1. Within(shown[s], S) /\ Within(<<"querying", "queryfail">>, S)
        BY <1>1 DEF Within
      <3>2. InOrder(shown'[s]) /\ Within(shown'[s], S)
        BY <1>1, <2>1, <3>1, Showing
      <3>3. shown'[s] # <<>> \/ s \in upset'
        BY <1>1, <1>4, <2>1, Showing DEF ScoreFail, Missed
      <3> QED BY <1>1, <1>4, <3>2, <3>3
              DEF ScoreFail, Consistent, Within, Shows, Early, InOrder
    <2> QED BY <2>2, <2>3, <2>4
  <1>5. CASE ScoreOk(s)
    <2> DEFINE p == <<"querying", "queryok", "printing">>
    <2>1. Show(s, p) /\ p \in Lists
      BY <1>5 DEF ScoreOk, Lists
    <2>2. ForwardToPrintsvr(s) /\ returned' = returned
      BY <1>5 DEF ScoreOk
    <2>3. TypeOK'
      BY <1>1, <1>2, <1>5, <2>1, <2>2, Showing, Forwarding DEF ScoreOk
    <2>4. ASSUME NEW t \in Swipe \ {s} PROVE Consistent(t)'
      BY <1>1, <1>2, <1>5, <2>1, <2>2, Showing, Forwarding, Left DEF ScoreOk
    <2>5. Consistent(s)'
      <3>1. Within(shown[s], Early) /\ Within(p, Early)
        BY <1>1 DEF Within, Early
      <3>2. InOrder(shown'[s]) /\ Within(shown'[s], Early)
        BY <1>1, <2>1, <3>1, Showing
      <3>3. shown'[s] # <<>> \/ s \in upset'
        BY <1>1, <1>5, <2>1, Showing DEF ScoreOk, Missed
      <3>4. job'[s] \in {"none", "sent", "lost"} /\ ack'[s] = "none" /\ score'[s] = "ok"
        BY <1>1, <1>5, <2>2, Forwarding DEF ScoreOk
      <3> QED BY <1>1, <2>2, <3>2, <3>3, <3>4
              DEF Consistent, Within, Shows, Early, InOrder
    <2> QED BY <2>3, <2>4, <2>5
  <1> QED BY <1>3, <1>4, <1>5 DEF OnComMessage

\* A printack: the job is done, and only early stages were shown.
LEMMA PrintAckInv ==
    ASSUME IInv, NEW s \in Swipe, OnPrintAck(s)
    PROVE  IInv'
  <1> USE DEF IInv, TypeOK
  <1>1. /\ ack[s] # "none" /\ ack' = [ack EXCEPT ![s] = "none"]
        /\ link' = link /\ score' = score /\ job' = job
        /\ returned[s] = 0 /\ Within(shown[s], Early) /\ job[s] \in {"printed", "failed"}
    BY DEF OnPrintAck, Consistent
  <1>2. CASE ack[s] = "ok" /\ PrintOk(s)
    <2>1. PICK a \in BackCardAnswer :
             /\ returned' = [returned EXCEPT ![s] = returned[s] + a.done]
             /\ Show(s, <<"printok", "backcarding">> \o a.show)
             /\ upset' = upset \cup Missed(s) \cup (IF a.show = <<>> THEN {s} ELSE {})
      BY <1>2 DEF PrintOk
    <2> DEFINE p == <<"printok", "backcarding">> \o a.show
    <2>2. \/ a.done = 1 /\ a.show = <<"backcardok">>
          \/ a.done = 0 /\ a.show = <<"backcarderr">>
          \/ a.done \in {0, 1} /\ a.show = <<>>
      BY DEF BackCardAnswer
    <2>3. \/ a.done = 1 /\ p = <<"printok", "backcarding", "backcardok">>
          \/ a.done = 0 /\ p = <<"printok", "backcarding", "backcarderr">>
          \/ a.done \in {0, 1} /\ p = <<"printok", "backcarding">>
      BY <2>2, Answered
    <2>4. p \in Lates /\ p \notin Lists /\ Show(s, p)
      BY <2>1, <2>3 DEF Lates, Lists
    <2> HIDE DEF p
    <2>5. upset' \subseteq Swipe /\ \A t \in Swipe : t \in upset => t \in upset'
      BY <2>1 DEF Missed
    <2>6. returned'[s] = a.done /\ returned' \in [Swipe -> Nat]
      BY <1>1, <2>1, <2>3
    <2>7. TypeOK'
      BY <1>1, <2>1, <2>4, <2>5, <2>6, Showing
    <2>8. ASSUME NEW t \in Swipe \ {s} PROVE Consistent(t)'
      BY <1>1, <2>1, <2>4, <2>5, Showing, Left
    <2>9. Consistent(s)'
      <3> DEFINE S == Early \cup {"printok", "backcarding"}
                       \cup (IF a.done = 1 THEN {"backcardok"} ELSE {"backcarderr"})
      <3>1. Within(shown[s], S) /\ Within(p, S)
        <4>1. Within(shown[s], S)
          BY <1>1 DEF Within
        <4>2. CASE a.done = 1 /\ p = <<"printok", "backcarding", "backcardok">>
          BY <4>1, <4>2 DEF Within
        <4>3. CASE a.done = 0 /\ p = <<"printok", "backcarding", "backcarderr">>
          BY <4>1, <4>3 DEF Within
        <4>4. CASE p = <<"printok", "backcarding">>
          BY <4>1, <4>4 DEF Within
        <4> QED BY <2>3, <4>2, <4>3, <4>4
      <3>2. InOrder(shown'[s]) /\ Within(shown'[s], S)
        BY <1>1, <2>1, <2>4, <3>1, Showing
      <3>3. job'[s] = "printed" /\ ack'[s] = "none" /\ score'[s] = "ok"
        BY <1>1, <1>2 DEF Consistent
      <3>4. ~Shows(s, "queryfail")' /\ ~Shows(s, "printerr")'
        BY <3>2 DEF Shows, Within, Early
      <3>5. /\ Shows(s, "backcardok")' => returned'[s] = 1
            /\ Shows(s, "backcarderr")' => returned'[s] = 0
        BY <2>3, <2>6, <3>2 DEF Shows, Within, Early
      <3>6. shown'[s] # <<>> \/ s \in upset'
        BY <1>1, <2>1, <2>4, Showing DEF Missed
      <3> QED BY <2>3, <2>6, <3>2, <3>3, <3>4, <3>5, <3>6 DEF Consistent, InOrder
    <2> QED BY <2>7, <2>8, <2>9
  <1>3. CASE ack[s] = "err" /\ PrintErr(s)
    <2>1. /\ Show(s, <<"printerr">>) /\ returned' = returned
          /\ upset' = upset \cup Missed(s)
      BY <1>3 DEF PrintErr
    <2>2. <<"printerr">> \in Lates /\ <<"printerr">> \notin Lists
      BY DEF Lates, Lists
    <2>3. upset' \subseteq Swipe /\ \A t \in Swipe : t \in upset => t \in upset'
      BY <2>1 DEF Missed
    <2>4. TypeOK'
      BY <1>1, <2>1, <2>2, <2>3, Showing
    <2>5. ASSUME NEW t \in Swipe \ {s} PROVE Consistent(t)'
      BY <1>1, <2>1, <2>2, <2>3, Showing, Left
    <2>6. Consistent(s)'
      <3> DEFINE S == Early \cup {"printerr"}
      <3>1. Within(shown[s], S) /\ Within(<<"printerr">>, S)
        BY <1>1 DEF Within
      <3>2. InOrder(shown'[s]) /\ Within(shown'[s], S)
        BY <1>1, <2>1, <2>2, <3>1, Showing
      <3>3. job'[s] = "failed" /\ ack'[s] = "none" /\ score'[s] = "ok" /\ returned'[s] = 0
        BY <1>1, <1>3, <2>1 DEF Consistent
      <3>4. shown'[s] # <<>> \/ s \in upset'
        BY <1>1, <2>1, <2>2, Showing DEF Missed
      <3>5. /\ ~Shows(s, "queryfail")' /\ ~Shows(s, "printok")'
            /\ ~Shows(s, "backcardok")' /\ ~Shows(s, "backcarderr")'
        BY <3>2 DEF Shows, Within, Early
      <3> QED BY <3>2, <3>3, <3>4, <3>5 DEF Consistent, InOrder
    <2> QED BY <2>4, <2>5, <2>6
  <1>4. CASE ack[s] = "bad" /\ upset' = upset \cup {s} /\ UNCHANGED <<returned, shown, moni>>
    <2>1. TypeOK'
      BY <1>1, <1>4
    <2>2. ASSUME NEW t \in Swipe PROVE Consistent(t)'
      BY <1>1, <1>4, Left
    <2> QED BY <2>1, <2>2
  <1> QED BY <1>1, <1>2, <1>3, <1>4 DEF OnPrintAck

\* printsvr receives a job or is done with it.
LEMMA PrintsvrInv ==
    ASSUME IInv, NEW s \in Swipe, Receive(s) \/ PrintJob(s)
    PROVE  IInv'
  <1> USE DEF IInv, TypeOK, Job
  <1>1. /\ UNCHANGED <<moni, link, score, returned, shown>>
        /\ upset \subseteq upset' /\ upset' \subseteq Swipe
        /\ job' \in [Swipe -> Job] /\ ack' \in [Swipe -> {"none", "ok", "err", "bad"}]
        /\ \A t \in Swipe \ {s} : job'[t] = job[t] /\ ack'[t] = ack[t]
    BY DEF Receive, PrintJob
  <1>2. ASSUME NEW t \in Swipe \ {s} PROVE Consistent(t)'
    BY <1>1, Left
  <1>3. \/ job[s] = "sent" /\ job'[s] = "queued" /\ ack'[s] = ack[s]
        \/ /\ job[s] = "queued" /\ job'[s] \in {"printed", "failed"}
           /\ ack'[s] # "none" => link
           /\ ack'[s] = "ok" => job'[s] = "printed"
           /\ ack'[s] = "err" => job'[s] = "failed"
    BY DEF Receive, PrintJob
  <1>4. TypeOK'
    BY <1>1, <1>3 DEF Consistent
  <1>5. Consistent(s)'
    BY <1>1, <1>3 DEF Consistent, Shows, Within, Early, InOrder
  <1> QED BY <1>2, <1>4, <1>5

\* Things happen to the connections.
LEMMA ConnectionInv ==
    ASSUME IInv, QueueDropped \/ LinkLost \/ LinkBack \/ MoniLeaves \/ MoniComes
    PROVE  IInv'
  <1> USE DEF IInv, TypeOK, Job
  <1>1. /\ UNCHANGED <<score, returned, shown>>
        /\ upset \subseteq upset' /\ upset' \subseteq Swipe
        /\ moni' \in BOOLEAN /\ link' \in BOOLEAN
        /\ job' \in [Swipe -> Job] /\ ack' \in [Swipe -> {"none", "ok", "err", "bad"}]
        /\ \A t \in Swipe :
              /\ job'[t] = job[t] \/ (job[t] = "sent" /\ job'[t] = "lost")
              /\ ack'[t] \in {ack[t], "none"}
              /\ ack'[t] # "none" => link'
    <2>1. CASE QueueDropped
      BY <2>1 DEF QueueDropped
    <2>2. CASE LinkLost
      BY <2>2 DEF LinkLost, Disconnected, Dropped, OnTheWay
    <2>3. CASE LinkBack \/ MoniLeaves \/ MoniComes
      BY <2>3 DEF LinkBack, MoniLeaves, MoniComes, services
    <2> QED BY <2>1, <2>2, <2>3
  <1>2. TypeOK'
    BY <1>1
  <1>3. ASSUME NEW t \in Swipe PROVE Consistent(t)'
    BY <1>1, Left
  <1> QED BY <1>2, <1>3

LEMMA StepInv == IInv /\ [Next]_vars => IInv'
  <1> SUFFICES ASSUME IInv, [Next]_vars PROVE IInv'
    OBVIOUS
  <1>1. ASSUME NEW s \in Swipe, OnComMessage(s) PROVE IInv'
    BY <1>1, MessageInv
  <1>2. ASSUME NEW s \in Swipe, OnPrintAck(s) PROVE IInv'
    BY <1>2, PrintAckInv
  <1>3. ASSUME NEW s \in Swipe, Receive(s) \/ PrintJob(s) PROVE IInv'
    BY <1>3, PrintsvrInv
  <1>4. CASE QueueDropped \/ LinkLost \/ LinkBack \/ MoniLeaves \/ MoniComes
    BY <1>4, ConnectionInv
  <1>5. CASE UNCHANGED vars
    BY <1>5 DEF vars, services, IInv, TypeOK, Job, Consistent, Shows, Within, InOrder
  <1> QED BY <1>1, <1>2, <1>3, <1>4, <1>5 DEF Next

LEMMA Invariance == Spec => []IInv
  BY InitInv, StepInv, PTL DEF Spec

\* Types, and acks only of jobs that are done, over a connection.
THEOREM TypesHold == Spec => []TypeOK
  <1>1. IInv => TypeOK
    BY DEF IInv
  <1> QED BY <1>1, Invariance, PTL

\* A card is handed back at most once, and only when its score was printed.
THEOREM BacksOnlyPrinted == Spec => []BackOnlyPrinted
  <1>1. IInv => BackOnlyPrinted
    <2> SUFFICES ASSUME IInv, NEW s \in Swipe
                 PROVE  /\ returned[s] <= 1 /\ (returned[s] > 0 => job[s] = "printed")
                        /\ (job[s] # "none" => score[s] = "ok")
      BY DEF BackOnlyPrinted
    <2>1. Consistent(s) /\ job[s] \in Job
      BY DEF IInv, TypeOK
    <2> QED BY <2>1 DEF Consistent, Job
  <1> QED BY <1>1, Invariance, PTL

\* The moniclient sees the stages of a swipe in order, none after a last one.
THEOREM ShowsInOrder == Spec => []StagesInOrder
  <1>1. IInv => StagesInOrder
    BY DEF IInv, Consistent, StagesInOrder
  <1> QED BY <1>1, Invariance, PTL

\* The last stages shown tell what happened to the job and to the card.
THEOREM ShowsTrue == Spec => []StagesTrue
  <1>1. IInv => StagesTrue
    <2> SUFFICES ASSUME IInv, NEW s \in Swipe
                 PROVE  /\ Shows(s, "queryfail") => job[s] = "none"
                        /\ Shows(s, "printerr") => job[s] = "failed" /\ returned[s] = 0
                        /\ Shows(s, "printok") => job[s] = "printed"
                        /\ Shows(s, "backcardok") => returned[s] = 1
                        /\ Shows(s, "backcarderr") => returned[s] = 0
      BY DEF StagesTrue
    <2>1. Consistent(s)
      BY DEF IInv
    <2> QED BY <2>1 DEF Consistent
  <1> QED BY <1>1, Invariance, PTL
=============================================================================
