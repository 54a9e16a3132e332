-------------------------- MODULE WriteQueueProof --------------------------
(***************************************************************************)
(* Proofs about WriteQueue, for packets of any number and size and any     *)
(* max_queue, and for both kinds of session.                               *)
(*                                                                         *)
(* All three ways to send (a push, a writable socket, a new connection)    *)
(* run one write callback on some queue q with some used packets u and     *)
(* some number p of packets made.  The invariant is stated of (q, u, p),   *)
(* so that one lemma about the callback serves the three of them.          *)
(***************************************************************************)
EXTENDS WriteQueue, FiniteSetTheorems, TLAPS

Unsent(q) == InQueue(q) \cup ({wbufpending} \ {NoFrame})

\* The queue is in the order of pushing, behind the packet sent in part.
Ordered(q, p) ==
    /\ q \in Seq(1 .. p) /\ wbufpending \in 0 .. p
    /\ \A i, j \in 1 .. Len(q) : i < j => q[i] < q[j]
    /\ wbufpending # NoFrame => \A g \in InQueue(q) : wbufpending < g
    /\ data \in Nat
    /\ IF wbufpending = NoFrame THEN data = 0 ELSE data < Size[wbufpending]

Last == stream[Len(stream)]

\* What is sent next goes on where the stream ends.
Resumes(q) ==
    stream # <<>> =>
        IF Last.to < Size[Last.frame]
        THEN wbufpending = Last.frame /\ data = Last.to
        ELSE data = 0 /\ \A g \in Unsent(q) : Last.frame < g

Accounted(q, u) == u = Unsent(q) \cup refused /\ Unsent(q) \cap refused = {}

\* The part of the invariant that a close and a connect change.
Connection ==
    /\ fd # "open" => stream = <<>>
    /\ fd = "open" /\ stream = <<>> => data = 0
    /\ kind = "p2pclient" /\ fd # "open" => wbufq = <<>> /\ wbufpending = NoFrame
    /\ kind = "p2pclient" /\ fd = "open" /\ stream = <<>> =>
          wbufpending = hello /\ hello # NoFrame
    /\ HelloFirst

StreamInv ==
    /\ stream \in Seq(Chunk)
    /\ stream # <<>> => Last.frame <= pushed
    /\ Intact

Plain ==
    /\ kind \in Kinds
    /\ fd \in {"new", "open", "closed", "freed"}
    /\ pushed \in 0 .. MaxFrame
    /\ want_write \in BOOLEAN /\ watched \in BOOLEAN
    /\ refused \subseteq 1 .. pushed
    /\ hello \in 0 .. pushed

IInv ==
    /\ Plain
    /\ Ordered(wbufq, pushed) /\ Resumes(wbufq) /\ Accounted(wbufq, used)
    /\ StreamInv /\ Connection /\ NoStall
----------------------------------------------------------------------------
\* Sequences as queues: what pulling the head leaves.
LEMMA HeadAndTail ==
    ASSUME NEW S, NEW q \in Seq(S), q # <<>>
    PROVE  /\ Head(q) \in S /\ Tail(q) \in Seq(S)
           /\ Head(q) = q[1] /\ Len(Tail(q)) = Len(q) - 1 /\ Len(q) >= 1
           /\ \A i \in 1 .. Len(q) - 1 : Tail(q)[i] = q[i + 1]
           /\ InQueue(q) = {Head(q)} \cup InQueue(Tail(q))
<1>1. /\ Head(q) \in S /\ Tail(q) \in Seq(S)
      /\ Head(q) = q[1] /\ Len(Tail(q)) = Len(q) - 1
      /\ \A i \in 1 .. Len(q) - 1 : Tail(q)[i] = q[i + 1]
    OBVIOUS
<1>2. Len(q) \in Nat /\ Len(q) >= 1
    OBVIOUS
<1>3. InQueue(q) \subseteq {Head(q)} \cup InQueue(Tail(q))
    <2> SUFFICES ASSUME NEW i \in 1 .. Len(q), q[i] # q[1]
                 PROVE  q[i] \in InQueue(Tail(q))
        BY <1>1 DEF InQueue
    <2>1. i - 1 \in 1 .. Len(Tail(q)) /\ Tail(q)[i - 1] = q[i]
        BY <1>1, <1>2
    <2> QED BY <2>1 DEF InQueue
<1>4. {Head(q)} \cup InQueue(Tail(q)) \subseteq InQueue(q)
    <2>1. Head(q) \in InQueue(q)
        BY <1>1, <1>2 DEF InQueue
    <2>2. ASSUME NEW i \in 1 .. Len(Tail(q)) PROVE Tail(q)[i] \in InQueue(q)
        <3>1. i + 1 \in 1 .. Len(q) /\ Tail(q)[i] = q[i + 1]
            BY <1>1, <1>2
        <3> QED BY <3>1 DEF InQueue
    <2> QED BY <2>1, <2>2 DEF InQueue
<1> QED BY <1>1, <1>2, <1>3, <1>4

LEMMA Members ==
    ASSUME NEW S, NEW q \in Seq(S)
    PROVE  InQueue(q) \subseteq S
BY DEF InQueue

\* A packet pushed is behind all others.
LEMMA Appended ==
    ASSUME NEW S, NEW q \in Seq(S), NEW f \in S
    PROVE  /\ Append(q, f) \in Seq(S) /\ Len(Append(q, f)) = Len(q) + 1
           /\ \A i \in 1 .. Len(q) : Append(q, f)[i] = q[i]
           /\ Append(q, f)[Len(q) + 1] = f
           /\ InQueue(Append(q, f)) = InQueue(q) \cup {f}
<1>1. /\ Append(q, f) \in Seq(S) /\ Len(Append(q, f)) = Len(q) + 1
      /\ \A i \in 1 .. Len(q) : Append(q, f)[i] = q[i]
      /\ Append(q, f)[Len(q) + 1] = f
      /\ Len(q) \in Nat
    OBVIOUS
<1>2. 1 .. Len(q) + 1 = (1 .. Len(q)) \cup {Len(q) + 1}
    BY <1>1
<1> QED BY <1>1, <1>2 DEF InQueue

LEMMA LastChunk ==
    ASSUME stream \in Seq(Chunk), stream # <<>>
    PROVE  /\ Len(stream) \in Nat /\ Len(stream) >= 1
           /\ Last \in Chunk
           /\ Last.frame \in Frame /\ Last.from \in Nat /\ Last.to \in Nat
<1>1. Len(stream) \in Nat /\ Len(stream) >= 1 /\ Last \in Chunk
    BY DEF Last
<1> QED BY <1>1 DEF Chunk

\* Pulling the next packet: it comes before everything left, it goes on where
\* the stream ends, and every other packet is either left or dropped.
LEMMA Pulling ==
    ASSUME NEW q, NEW p \in 0 .. MaxFrame, NEW u,
           Ordered(q, p), Resumes(q), Accounted(q, u),
           stream \in Seq(Chunk), stream = <<>> => data = 0, Out(q) # NoFrame
    PROVE  /\ Rest(q) \in Seq(1 .. p)
           /\ Out(q) \in 1 .. p /\ data < Size[Out(q)]
           /\ \A i, j \in 1 .. Len(Rest(q)) : i < j => Rest(q)[i] < Rest(q)[j]
           /\ \A g \in InQueue(Rest(q)) : Out(q) < g
           /\ Unsent(q) = InQueue(Rest(q)) \cup {Out(q)} \cup Dropped(q)
           /\ Dropped(q) \cap (InQueue(Rest(q)) \cup {Out(q)}) = {}
           /\ stream # <<>> =>
                IF Last.to < Size[Last.frame]
                THEN Out(q) = Last.frame /\ data = Last.to
                ELSE data = 0 /\ Last.frame < Out(q)
<1> USE DEF NoFrame
<1>1. CASE wbufpending # NoFrame
    <2>1. Out(q) = wbufpending /\ Rest(q) = q /\ Dropped(q) = {}
        BY <1>1 DEF Out, Rest, Overflow, Behind, Dropped
    <2>2. /\ q \in Seq(1 .. p) /\ wbufpending \in 1 .. p /\ data < Size[wbufpending]
          /\ \A i, j \in 1 .. Len(q) : i < j => q[i] < q[j]
          /\ \A g \in InQueue(q) : wbufpending < g
        BY <1>1 DEF Ordered
    <2>3. Unsent(q) = InQueue(q) \cup {wbufpending}
        BY <1>1 DEF Unsent
    <2>4. stream # <<>> =>
            IF Last.to < Size[Last.frame]
            THEN wbufpending = Last.frame /\ data = Last.to
            ELSE data = 0 /\ Last.frame < wbufpending
        BY <2>3 DEF Resumes
    <2> HIDE DEF NoFrame
    <2> QED BY <2>1, <2>2, <2>3, <2>4
<1>2. CASE wbufpending = NoFrame
    <2>1. q # <<>> /\ Out(q) = Head(q) /\ Behind(q) = Tail(q)
        BY <1>2 DEF Out, Behind
    <2>2. /\ q \in Seq(1 .. p) /\ data = 0
          /\ \A i, j \in 1 .. Len(q) : i < j => q[i] < q[j]
        BY <1>2 DEF Ordered
    <2>3. /\ Head(q) \in 1 .. p /\ Tail(q) \in Seq(1 .. p)
          /\ Head(q) = q[1] /\ Len(Tail(q)) = Len(q) - 1 /\ Len(q) >= 1 /\ Len(q) \in Nat
          /\ \A i \in 1 .. Len(q) - 1 : Tail(q)[i] = q[i + 1]
          /\ InQueue(q) = {Head(q)} \cup InQueue(Tail(q))
        BY <2>1, <2>2, HeadAndTail
    <2>4. \A g \in InQueue(Tail(q)) : Head(q) < g
        BY <2>2, <2>3 DEF InQueue
    <2>5. \A i, j \in 1 .. Len(Tail(q)) : i < j => Tail(q)[i] < Tail(q)[j]
        BY <2>2, <2>3
    <2>6. Rest(q) = <<>> \/ Rest(q) = Tail(q)
        BY <2>1 DEF Rest
    <2>7. /\ Rest(q) \in Seq(1 .. p)
          /\ \A i, j \in 1 .. Len(Rest(q)) : i < j => Rest(q)[i] < Rest(q)[j]
          /\ InQueue(Rest(q)) \subseteq InQueue(Tail(q))
        <3>1. CASE Rest(q) = Tail(q)
            BY <2>3, <2>5, <3>1
        <3>2. CASE Rest(q) = <<>>
            BY <3>2 DEF InQueue
        <3> QED BY <2>6, <3>1, <3>2
    <2>8. Unsent(q) = InQueue(q)
        BY <1>2 DEF Unsent
    <2>9. Head(q) \notin InQueue(Tail(q))
        <3> SUFFICES ASSUME Head(q) \in InQueue(Tail(q)) PROVE FALSE
            OBVIOUS
        <3> QED BY <2>3, <2>4
    <2>10. /\ Unsent(q) = InQueue(Rest(q)) \cup {Out(q)} \cup Dropped(q)
           /\ Dropped(q) \cap (InQueue(Rest(q)) \cup {Out(q)}) = {}
        BY <2>1, <2>3, <2>7, <2>8, <2>9 DEF Dropped
    <2>11. stream # <<>> => /\ ~(Last.to < Size[Last.frame])
                            /\ data = 0 /\ Last.frame < Head(q)
        <3>1. stream # <<>> /\ Last.to < Size[Last.frame] => FALSE
            <4> SUFFICES ASSUME stream # <<>>, Last.to < Size[Last.frame] PROVE FALSE
                OBVIOUS
            <4>1. Last.frame = NoFrame
                BY <1>2 DEF Resumes
            <4>2. Last.frame \in Frame
                BY LastChunk
            <4> QED BY <4>1, <4>2 DEF Frame
        <3>2. Head(q) \in Unsent(q)
            BY <2>3, <2>8
        <3> QED BY <3>1, <3>2 DEF Resumes
    <2>12. Out(q) \in 1 .. p /\ data < Size[Out(q)]
        <3>1. Out(q) \in 1 .. p
            BY <2>1, <2>3
        <3>2. Size[Out(q)] \in Nat \ {0}
            BY <3>1, WriteQueueAssumption DEF Frame
        <3> QED BY <2>2, <3>1, <3>2
    <2> HIDE DEF NoFrame
    <2>13. \A g \in InQueue(Rest(q)) : Out(q) < g
        BY <2>1, <2>4, <2>7
    <2> QED BY <2>1, <2>7, <2>10, <2>11, <2>12, <2>13
<1> QED BY <1>1, <1>2
----------------------------------------------------------------------------
\* What a write callback may rely on.
Ready(q, u, p) ==
    /\ p \in 0 .. MaxFrame
    /\ Ordered(q, p) /\ Resumes(q) /\ Accounted(q, u)
    /\ stream \in Seq(Chunk) /\ Intact
    /\ stream = <<>> => data = 0
    /\ refused \subseteq 1 .. p

\* A chunk of the packet pulled, from where its data pointer is, goes on where
\* the stream ends.
LEMMA Extended ==
    ASSUME NEW q, NEW u, NEW p, Ready(q, u, p), Out(q) # NoFrame,
           NEW t \in Nat,
           stream' = Append(stream, [frame |-> Out(q), from |-> data, to |-> t])
    PROVE  /\ stream' \in Seq(Chunk) /\ stream' # <<>> /\ Intact'
           /\ Last' = [frame |-> Out(q), from |-> data, to |-> t]
           /\ stream'[1] = IF stream = <<>> THEN Last' ELSE stream[1]
           /\ Out(q) <= p
<1> DEFINE c == [frame |-> Out(q), from |-> data, to |-> t]
<1>1. /\ Out(q) \in 1 .. p /\ data \in Nat
      /\ stream # <<>> =>
            IF Last.to < Size[Last.frame]
            THEN Out(q) = Last.frame /\ data = Last.to
            ELSE data = 0 /\ Last.frame < Out(q)
      /\ stream \in Seq(Chunk)
      /\ stream = <<>> => data = 0
    BY Pulling DEF Ready, Ordered
<1>2. c \in Chunk
    BY <1>1, WriteQueueAssumption DEF Chunk, Frame, Ready
<1>3. /\ stream' \in Seq(Chunk) /\ Len(stream') = Len(stream) + 1 /\ Len(stream) \in Nat
      /\ stream'[Len(stream) + 1] = c
      /\ \A i \in 1 .. Len(stream) : stream'[i] = stream[i]
    <2> HIDE DEF c
    <2>1. stream' = Append(stream, c)
        BY DEF c
    <2> QED BY <1>1, <1>2, <2>1, Appended
<1>4. Last' = c
    BY <1>3 DEF Last
<1>5. stream'[1] = IF stream = <<>> THEN c ELSE stream[1]
    BY <1>1, <1>3
<1>6. stream'[1].from = 0
    BY <1>1, <1>5, <1>2 DEF Ready, Intact
<1>7. ASSUME NEW i \in 1 .. Len(stream') - 1 PROVE Follows(stream'[i], stream'[i + 1])
    <2>1. CASE i = Len(stream)
        <3>1. stream # <<>> /\ stream'[i] = Last /\ stream'[i + 1] = c
            BY <1>1, <1>3, <2>1 DEF Last
        <3> QED BY <1>1, <3>1 DEF Follows
    <2>2. CASE i # Len(stream)
        <3>1. i \in 1 .. Len(stream) - 1
            BY <1>3, <2>2
        <3>2. stream'[i] = stream[i] /\ stream'[i + 1] = stream[i + 1]
            BY <1>3, <3>1
        <3> QED BY <3>1, <3>2 DEF Ready, Intact
    <2> QED BY <2>1, <2>2
<1> QED BY <1>1, <1>3, <1>4, <1>5, <1>6, <1>7 DEF Intact

CallbackDone(q) ==
    /\ Ordered(wbufq, pushed)' /\ Resumes(wbufq)' /\ Accounted(wbufq, used)'
    /\ StreamInv' /\ NoStall'
    /\ fd' \in {"open", "closed"}
    /\ want_write' \in BOOLEAN /\ watched' \in BOOLEAN
    /\ fd' # "open" => stream' = <<>>
    /\ fd' = "open" /\ stream' = <<>> =>
          data' = 0 /\ stream = <<>> /\ wbufpending' = Out(q)
    /\ fd' = "open" /\ stream' # <<>> =>
          stream'[1].frame = IF stream = <<>> THEN Out(q) ELSE stream[1].frame
    /\ kind = "p2pclient" /\ fd' # "open" => wbufq' = <<>> /\ wbufpending' = NoFrame

\* One write callback.  Afterwards everything the invariant says of the queue, the
\* pool and the stream holds of the new ones, whatever send() did.
LEMMA Written ==
    ASSUME NEW q, NEW u, NEW p, NEW stay \in BOOLEAN, Ready(q, u, p),
           CanWrite(q, u, stay), UNCHANGED <<kind, refused>>, pushed' = p
    PROVE  CallbackDone(q)
<1> USE DEF CallbackDone
<1> DEFINE o == Out(q)
           r == Rest(q)
<1>1. o # NoFrame
    BY DEF CanWrite, Answered, Blocked, SendAll, SendFails
<1>2. /\ r \in Seq(1 .. p) /\ o \in 1 .. p /\ data < Size[o]
      /\ \A i, j \in 1 .. Len(r) : i < j => r[i] < r[j]
      /\ \A g \in InQueue(r) : o < g
      /\ Unsent(q) = InQueue(r) \cup {o} \cup Dropped(q)
      /\ Dropped(q) \cap (InQueue(r) \cup {o}) = {}
      /\ stream # <<>> =>
            IF Last.to < Size[Last.frame]
            THEN o = Last.frame /\ data = Last.to
            ELSE data = 0 /\ Last.frame < o
      /\ data \in Nat
    BY <1>1, Pulling DEF Ready, Ordered
<1>3. /\ u = InQueue(r) \cup {o} \cup Dropped(q) \cup refused
      /\ (InQueue(r) \cup {o} \cup Dropped(q)) \cap refused = {}
    BY <1>2 DEF Ready, Accounted
<1>4. /\ Size[o] \in Nat /\ NoFrame = 0 /\ NoFrame \notin InQueue(r)
      /\ o \notin InQueue(r)
    <2>1. Size[o] \in Nat /\ NoFrame = 0
        BY <1>2, WriteQueueAssumption DEF Frame, Ready, NoFrame
    <2>2. ASSUME NEW g \in InQueue(r) PROVE g # 0 /\ g # o
        BY <1>2, <2>2
    <2> QED BY <2>1, <2>2
<1> HIDE DEF o, r
\* The packet is sent to its end.
<1>5. CASE SendAll(q, u, stay)
    <2>1. /\ wbufq' = r /\ wbufpending' = NoFrame /\ data' = 0 /\ fd' = "open"
          /\ want_write' = (wbufpending # NoFrame \/ r # <<>>)
          /\ watched' = (stay \/ want_write')
          /\ used' = u \ (Dropped(q) \cup {o})
          /\ stream' = Append(stream, [frame |-> o, from |-> data, to |-> Size[o]])
        BY <1>5 DEF SendAll, StillWanted, o, r
    <2>2. /\ StreamInv' /\ stream' # <<>>
          /\ Last' = [frame |-> o, from |-> data, to |-> Size[o]]
          /\ stream'[1] = IF stream = <<>> THEN Last' ELSE stream[1]
        BY <1>1, <1>4, <2>1, Extended DEF StreamInv, o
    <2>3. Ordered(wbufq, pushed)'
        BY <1>2, <1>4, <2>1 DEF Ordered, Ready
    <2>4. Unsent(wbufq)' = InQueue(r)
        BY <2>1 DEF Unsent, InQueue
    <2>5. Resumes(wbufq)'
        BY <1>2, <1>4, <2>1, <2>2, <2>4 DEF Resumes
    <2>6. Accounted(wbufq, used)'
        BY <1>2, <1>3, <1>4, <2>1, <2>4 DEF Accounted
    <2>7. NoStall'
        <3>1. r = <<>> => InQueue(r) = {}
            BY DEF InQueue
        <3> QED BY <2>1, <3>1 DEF NoStall, Owed, InQueue
    <2> QED BY <1>1, <2>1, <2>2, <2>3, <2>5, <2>6, <2>7 DEF o
\* Part of it is sent, or nothing: it stays the packet to go on with.
<1>6. ASSUME wbufq' = r, wbufpending' = o, want_write' = TRUE, watched' = TRUE,
             used' = u \ Dropped(q), fd' = "open", data' \in Nat, data' < Size[o]
      PROVE  /\ Ordered(wbufq, pushed)' /\ Accounted(wbufq, used)' /\ NoStall'
             /\ Unsent(wbufq)' = InQueue(r) \cup {o}
    <2>1. Ordered(wbufq, pushed)'
        BY <1>2, <1>4, <1>6 DEF Ordered, Ready, InQueue
    <2>2. Unsent(wbufq)' = InQueue(r) \cup {o}
        BY <1>1, <1>6 DEF Unsent, InQueue, o
    <2>3. Accounted(wbufq, used)'
        BY <1>2, <1>3, <1>6, <2>2 DEF Accounted
    <2> QED BY <1>6, <2>1, <2>2, <2>3 DEF NoStall
<1>7. ASSUME NEW n \in 1 .. Size[o] - data - 1, SendPart(q, u, n)
      PROVE  /\ Ordered(wbufq, pushed)' /\ Resumes(wbufq)' /\ Accounted(wbufq, used)'
             /\ StreamInv' /\ NoStall' /\ stream' # <<>> /\ fd' = "open"
             /\ want_write' = TRUE /\ watched' = TRUE
             /\ stream'[1].frame = IF stream = <<>> THEN o ELSE stream[1].frame
    <2>1. /\ wbufq' = r /\ wbufpending' = o /\ data' = data + n /\ fd' = "open"
          /\ want_write' = TRUE /\ watched' = TRUE
          /\ used' = u \ Dropped(q)
          /\ stream' = Append(stream, [frame |-> o, from |-> data, to |-> data + n])
        BY <1>7 DEF SendPart, o, r
    <2>2. data + n \in Nat /\ data + n < Size[o]
        BY <1>2, <1>4
    <2>3. /\ StreamInv' /\ stream' # <<>>
          /\ Last' = [frame |-> o, from |-> data, to |-> data + n]
          /\ stream'[1] = IF stream = <<>> THEN Last' ELSE stream[1]
        BY <1>1, <2>1, <2>2, Extended DEF StreamInv, o
    <2>4. Resumes(wbufq)'
        BY <2>1, <2>2, <2>3 DEF Resumes
    <2> QED BY <1>6, <2>1, <2>2, <2>3, <2>4
<1>8. CASE Blocked(q, u)
    <2>1. /\ wbufq' = r /\ wbufpending' = o /\ data' = data /\ fd' = "open"
          /\ want_write' = TRUE /\ watched' = TRUE
          /\ used' = u \ Dropped(q) /\ stream' = stream
        BY <1>8 DEF Blocked, o, r
    <2>2. /\ Ordered(wbufq, pushed)' /\ Accounted(wbufq, used)' /\ NoStall'
          /\ Unsent(wbufq)' = InQueue(r) \cup {o}
        BY <1>2, <1>6, <2>1
    <2>3. StreamInv'
        <3>1. stream # <<>> => Last.frame <= p
            <4>1. stream # <<>> => Last.frame \in Nat
                BY LastChunk DEF Ready, Frame
            <4> QED BY <1>2, <4>1 DEF Ready
        <3> QED BY <2>1, <3>1 DEF StreamInv, Ready, Intact, Last
    <2>4. Resumes(wbufq)'
        <3>1. stream # <<>> /\ ~(Last.to < Size[Last.frame]) =>
                 data = 0 /\ \A g \in InQueue(r) \cup {o} : Last.frame < g
            <4> SUFFICES ASSUME stream # <<>>, ~(Last.to < Size[Last.frame]),
                                NEW g \in InQueue(r)
                         PROVE  data = 0 /\ Last.frame < g
                BY <1>2
            <4>1. Last.frame \in Nat /\ o < g /\ Last.frame < o /\ data = 0
                BY <1>2, LastChunk DEF Ready, Frame
            <4>2. o \in Nat /\ p \in Nat
                BY <1>2 DEF Ready
            <4>3. r \in Seq(1 .. p)
                BY <1>2
            <4>4. g \in 1 .. p
                BY <4>3, Members
            <4>5. g \in Nat
                BY <4>2, <4>4
            <4> QED BY <4>1, <4>2, <4>5
        <3> QED BY <1>2, <2>1, <2>2, <3>1 DEF Resumes, Last
    <2> QED BY <1>1, <2>1, <2>2, <2>3, <2>4 DEF Ready, o
\* send() fails.
<1>9. CASE SendFails(q, u)
    <2>1. /\ fd' = "closed" /\ data' = 0 /\ want_write' = FALSE /\ watched' = FALSE
          /\ stream' = <<>> /\ wbufpending' = NoFrame
        BY <1>9 DEF SendFails, Release
    <2>2. StreamInv'
        BY <2>1 DEF StreamInv, Intact
    <2>3. CASE kind = "p2pclient"
        <3>1. wbufq' = <<>> /\ used' = u \ (Dropped(q) \cup (InQueue(r) \cup {NoFrame}) \cup {o})
            BY <1>9, <2>3 DEF SendFails, Release, o, r
        <3>2. Ordered(wbufq, pushed)'
            BY <2>1, <3>1 DEF Ordered, InQueue, Ready, NoFrame
        <3>3. Unsent(wbufq)' = {}
            BY <2>1, <3>1 DEF Unsent, InQueue
        <3>4. NoFrame \notin refused
            BY DEF Ready, NoFrame
        <3>5. Accounted(wbufq, used)'
            BY <1>2, <1>3, <3>1, <3>3, <3>4 DEF Accounted
        <3> QED BY <2>1, <2>2, <3>1, <3>2, <3>5 DEF NoStall, Resumes
    <2>4. CASE kind # "p2pclient"
        <3>1. wbufq' = r /\ used' = u \ (Dropped(q) \cup {o})
            BY <1>9, <2>4 DEF SendFails, Release, o, r
        <3>2. Ordered(wbufq, pushed)'
            BY <1>2, <2>1, <3>1 DEF Ordered, InQueue, Ready, NoFrame
        <3>3. Unsent(wbufq)' = InQueue(r)
            BY <2>1, <3>1 DEF Unsent, InQueue
        <3>4. Accounted(wbufq, used)'
            BY <1>2, <1>3, <1>4, <3>1, <3>3 DEF Accounted
        <3> QED BY <2>1, <2>2, <2>4, <3>2, <3>4 DEF NoStall, Resumes
    <2> QED BY <2>3, <2>4
<1> QED
    <2>1. \/ SendAll(q, u, stay) \/ Blocked(q, u) \/ SendFails(q, u)
          \/ \E n \in 1 .. Size[o] - data - 1 : SendPart(q, u, n)
        BY DEF CanWrite, Answered, o
    <2>2. CASE \E n \in 1 .. Size[o] - data - 1 : SendPart(q, u, n)
        BY <1>7, <2>2 DEF o
    <2> QED BY <1>5, <1>8, <1>9, <2>1, <2>2
----------------------------------------------------------------------------
LEMMA InitInv == Init => IInv
<1> SUFFICES ASSUME Init PROVE IInv
    OBVIOUS
<1>1. Plain /\ NoStall /\ Resumes(wbufq)
    <2>1. Plain
        <3>1. want_write \in BOOLEAN /\ watched \in BOOLEAN
            BY DEF Init
        <3>2. pushed \in 0 .. MaxFrame /\ hello \in 0 .. pushed /\ refused \subseteq 1 .. pushed
            BY WriteQueueAssumption DEF Init, NoFrame
        <3>3. kind \in Kinds /\ fd \in {"new", "open", "closed", "freed"}
            BY DEF Init
        <3> QED BY <3>1, <3>2, <3>3 DEF Plain
    <2>2. InQueue(wbufq) = {}
        BY DEF Init, InQueue
    <2>3. NoStall
        BY <2>2 DEF Init, NoStall, Owed
    <2> QED BY <2>1, <2>3 DEF Init, Resumes
<1>2. Connection
    BY WriteQueueAssumption DEF Init, Connection, HelloFirst
<1>3. Ordered(wbufq, pushed)
    BY DEF Init, Ordered, InQueue, NoFrame
<1>4. StreamInv
    BY DEF Init, StreamInv, Intact
<1>5. Accounted(wbufq, used)
    BY DEF Init, Accounted, Unsent, InQueue
<1> QED BY <1>1, <1>2, <1>3, <1>4, <1>5 DEF IInv

\* A packet pushed goes behind everything there is.
LEMMA PushReady ==
    ASSUME IInv, pushed < MaxFrame
    PROVE  /\ Ordered(Append(wbufq, NextFrame), NextFrame)
           /\ Resumes(Append(wbufq, NextFrame))
           /\ Accounted(Append(wbufq, NextFrame), used \cup {NextFrame})
           /\ (stream = <<>> => data = 0) =>
                Ready(Append(wbufq, NextFrame), used \cup {NextFrame}, NextFrame)
           /\ NextFrame \in 1 .. MaxFrame /\ pushed < NextFrame
           /\ 1 .. pushed \subseteq 1 .. NextFrame
           /\ wbufq = <<>> /\ wbufpending = NoFrame
                => Out(Append(wbufq, NextFrame)) = NextFrame
<1> DEFINE q == Append(wbufq, NextFrame)
<1>1. /\ pushed \in Nat /\ NextFrame = pushed + 1 /\ NextFrame \in 1 .. MaxFrame
      /\ 1 .. pushed \subseteq 1 .. NextFrame /\ NextFrame \in 1 .. NextFrame
    BY WriteQueueAssumption DEF IInv, Plain, NextFrame
<1>2. wbufq \in Seq(1 .. pushed) /\ wbufq \in Seq(1 .. NextFrame)
    BY <1>1 DEF IInv, Ordered
<1>3. /\ q \in Seq(1 .. NextFrame) /\ Len(q) = Len(wbufq) + 1 /\ Len(wbufq) \in Nat
      /\ \A i \in 1 .. Len(wbufq) : q[i] = wbufq[i] /\ wbufq[i] \in 1 .. pushed
      /\ q[Len(wbufq) + 1] = NextFrame
      /\ InQueue(q) = InQueue(wbufq) \cup {NextFrame}
    BY <1>1, <1>2, Appended
<1>4. InQueue(wbufq) \subseteq 1 .. pushed
    BY <1>2, Members
<1>5. Ordered(q, NextFrame)
    <2>1. ASSUME NEW i \in 1 .. Len(q), NEW j \in 1 .. Len(q), i < j PROVE q[i] < q[j]
        <3>1. i \in 1 .. Len(wbufq)
            BY <1>3, <2>1
        <3>2. CASE j \in 1 .. Len(wbufq)
            BY <1>3, <2>1, <3>1, <3>2 DEF IInv, Ordered
        <3>3. CASE j = Len(wbufq) + 1
            BY <1>1, <1>3, <3>1, <3>3
        <3> QED BY <1>3, <3>2, <3>3
    <2>2. wbufpending \in 0 .. pushed
        BY DEF IInv, Ordered
    <2>3. wbufpending # NoFrame => \A g \in InQueue(q) : wbufpending < g
        BY <1>1, <1>3, <2>2 DEF IInv, Ordered
    <2> HIDE DEF q
    <2> QED BY <1>1, <1>3, <2>1, <2>2, <2>3 DEF IInv, Ordered
<1>6. Unsent(q) = Unsent(wbufq) \cup {NextFrame}
    BY <1>3 DEF Unsent
<1>7. Resumes(q)
    <2>1. stream # <<>> => Last.frame < NextFrame
        <3>1. stream # <<>> => Last.frame \in Nat
            BY LastChunk DEF IInv, StreamInv, Frame
        <3> QED BY <1>1, <3>1 DEF IInv, StreamInv
    <2> HIDE DEF q
    <2> QED BY <1>6, <2>1 DEF IInv, Resumes
<1>8. Accounted(q, used \cup {NextFrame})
    <2>1. NextFrame \notin refused
        BY <1>1 DEF IInv, Plain
    <2> HIDE DEF q
    <2> QED BY <1>6, <2>1 DEF IInv, Accounted
<1>9. wbufq = <<>> /\ wbufpending = NoFrame => Out(q) = NextFrame
    BY <1>3 DEF Out
<1>10. refused \subseteq 1 .. NextFrame
    BY <1>1 DEF IInv, Plain
<1> QED BY <1>1, <1>5, <1>7, <1>8, <1>9, <1>10 DEF Ready, IInv, StreamInv

LEMMA StepInv == IInv /\ [Next]_vars => IInv'
<1> SUFFICES ASSUME IInv, [Next]_vars PROVE IInv'
    OBVIOUS
<1> USE DEF IInv
<1>1. CASE PushOpen
    <2> DEFINE q == Append(wbufq, NextFrame)
               u == used \cup {NextFrame}
    <2>1. /\ fd = "open" /\ pushed < MaxFrame /\ pushed' = NextFrame
          /\ CanWrite(q, u, watched) /\ UNCHANGED <<kind, refused>> /\ hello' = hello
        BY <1>1 DEF PushOpen, NewPacket
    <2>2. Ready(q, u, NextFrame) /\ NextFrame \in 1 .. MaxFrame /\ pushed < NextFrame
        BY <2>1, PushReady DEF Connection
    <2>3. watched \in BOOLEAN
        BY DEF Plain
    <2>4. CallbackDone(q)
        <3> HIDE DEF q, u
        <3> QED BY <2>1, <2>2, <2>3, Written DEF CallbackDone
    <2>5. kind = "p2pclient" /\ stream = <<>> => Out(q) = hello /\ hello # NoFrame
        <3> HIDE DEF q
        <3> QED BY <2>1 DEF Connection, Out
    <2>6. hello' \in 0 .. pushed' /\ refused' \subseteq 1 .. pushed'
        BY <2>1, <2>2, PushReady, WriteQueueAssumption DEF Plain
    <2> HIDE DEF q
    <2>7. Plain' /\ Connection'
        BY <2>1, <2>2, <2>4, <2>5, <2>6 DEF CallbackDone, Plain, Connection, HelloFirst
    <2> QED BY <2>4, <2>7 DEF CallbackDone
<1>2. CASE PushClosed
    <2>1. /\ kind = "p2p" /\ fd = "closed" /\ pushed < MaxFrame /\ pushed' = NextFrame
          /\ wbufq' = Append(wbufq, NextFrame) /\ used' = used \cup {NextFrame}
          /\ want_write' = TRUE
          /\ UNCHANGED <<kind, fd, wbufpending, data, watched, refused, hello, stream>>
        BY <1>2 DEF PushClosed, NewPacket
    <2>2. /\ NextFrame \in 1 .. MaxFrame /\ pushed < NextFrame
          /\ 1 .. pushed \subseteq 1 .. NextFrame
        BY <2>1, PushReady
    <2>3. Ordered(wbufq, pushed)' /\ Resumes(wbufq)' /\ Accounted(wbufq, used)'
        BY <2>1, PushReady DEF Ordered, Resumes, Accounted, Unsent, Last
    <2>4. Plain'
        BY <2>1, <2>2, WriteQueueAssumption DEF Plain
    <2>5. StreamInv' /\ Connection' /\ NoStall'
        BY <2>1 DEF StreamInv, Intact, Connection, HelloFirst, NoStall
    <2> QED BY <2>3, <2>4, <2>5
<1>3. CASE PushRefused
    <2>1. /\ kind = "p2pclient" /\ fd = "closed" /\ pushed < MaxFrame /\ pushed' = NextFrame
          /\ used' = used \cup {NextFrame} /\ refused' = refused \cup {NextFrame}
          /\ UNCHANGED <<kind, fd, queue, hello, stream>>
        BY <1>3 DEF PushRefused, NewPacket
    <2>2. /\ NextFrame \in 1 .. MaxFrame /\ pushed < NextFrame
          /\ 1 .. pushed \subseteq 1 .. NextFrame
        BY <2>1, PushReady
    <2>3. wbufq = <<>> /\ wbufpending = NoFrame /\ stream = <<>>
        BY <2>1 DEF Connection
    <2>4. Unsent(wbufq) = {} /\ Unsent(wbufq)' = {}
        BY <2>1, <2>3 DEF Unsent, InQueue, queue
    <2>5. Accounted(wbufq, used)'
        BY <2>1, <2>4 DEF Accounted
    <2>6. Ordered(wbufq, pushed)'
        BY <2>1, <2>2, <2>3 DEF Ordered, queue, InQueue, NoFrame
    <2>7. Plain' /\ Resumes(wbufq)' /\ StreamInv' /\ Connection' /\ NoStall'
        BY <2>1, <2>2, <2>3, WriteQueueAssumption
           DEF Plain, Resumes, StreamInv, Intact, Connection, HelloFirst, NoStall, queue
    <2> QED BY <2>5, <2>6, <2>7
<1>4. CASE WriteReady
    <2>1. /\ fd = "open" /\ CanWrite(wbufq, used, FALSE)
          /\ UNCHANGED <<kind, pushed, refused, hello>>
        BY <1>4 DEF WriteReady
    <2>2. Ready(wbufq, used, pushed)
        BY <2>1 DEF Ready, Connection, StreamInv, Plain
    <2>3. CallbackDone(wbufq)
        BY <2>1, <2>2, Written DEF CallbackDone
    <2>4. kind = "p2pclient" /\ stream = <<>> => Out(wbufq) = hello /\ hello # NoFrame
        BY <2>1 DEF Connection, Out
    <2>5. Plain' /\ Connection'
        BY <2>1, <2>3, <2>4 DEF CallbackDone, Plain, Connection, HelloFirst
    <2> QED BY <2>3, <2>5 DEF CallbackDone
<1>5. CASE WriteIdle
    <2>1. /\ watched' = want_write
          /\ UNCHANGED <<kind, fd, wbufq, wbufpending, data, want_write, used, pushed,
                         refused, hello, stream>>
        BY <1>5 DEF WriteIdle
    <2>2. Plain' /\ NoStall'
        BY <2>1 DEF Plain, NoStall, Owed
    <2> QED BY <2>1, <2>2 DEF Ordered, Resumes, Unsent, Last, Accounted, StreamInv, Intact,
                              Connection, HelloFirst
<1>6. CASE Close
    <2>1. /\ fd' = "closed" /\ watched' = FALSE /\ stream' = <<>>
          /\ wbufq' = Release(wbufq, wbufpending).q
          /\ wbufpending' = Release(wbufq, wbufpending).out
          /\ data' = IF wbufpending' = NoFrame THEN 0 ELSE data
          /\ used' = used \ Release(wbufq, wbufpending).pool
          /\ UNCHANGED <<kind, want_write, pushed, refused, hello>>
        BY <1>6 DEF Close
    <2>2. Plain' /\ StreamInv' /\ NoStall' /\ Resumes(wbufq)'
        <3>1. Plain' /\ NoStall'
            BY <2>1 DEF Plain, NoStall
        <3>2. StreamInv' /\ Resumes(wbufq)'
            BY <2>1 DEF StreamInv, Intact, Resumes
        <3> QED BY <3>1, <3>2
    <2>3. CASE kind = "p2pclient"
        <3>1. /\ wbufq' = <<>> /\ wbufpending' = NoFrame /\ data' = 0
              /\ used' = used \ (InQueue(wbufq) \cup {wbufpending})
            BY <2>1, <2>3 DEF Release
        <3>2. Ordered(wbufq, pushed)'
            BY <2>1, <3>1 DEF Ordered, InQueue, Plain, NoFrame
        <3>3. Unsent(wbufq)' = {} /\ NoFrame \notin refused
            BY <3>1 DEF Unsent, InQueue, Plain, NoFrame
        <3>4. Accounted(wbufq, used)'
            BY <2>1, <3>1, <3>3 DEF Accounted, Unsent
        <3> QED BY <2>1, <2>2, <3>1, <3>2, <3>4 DEF Connection, HelloFirst
    <2>4. CASE kind # "p2pclient"
        <3>1. wbufq' = wbufq /\ wbufpending' = wbufpending /\ used' = used /\ data' = data
            BY <2>1, <2>4 DEF Release, Ordered
        <3> QED BY <2>1, <2>2, <2>4, <3>1
                DEF Ordered, Accounted, Unsent, Connection, HelloFirst
    <2> QED BY <2>3, <2>4
<1>7. CASE Free
    <2>1. /\ kind = "p2p" /\ fd' = "freed" /\ stream = <<>>
          /\ wbufq' = <<>> /\ wbufpending' = NoFrame /\ data' = 0 /\ used' = used \ Owed
          /\ UNCHANGED <<kind, want_write, watched, pushed, refused, hello, stream>>
        BY <1>7 DEF Free, Connection
    <2>2. Ordered(wbufq, pushed)'
        BY <2>1 DEF Ordered, InQueue, Plain, NoFrame
    <2>3. Unsent(wbufq)' = {} /\ Owed = Unsent(wbufq)
        BY <2>1 DEF Unsent, InQueue, Owed
    <2>4. Accounted(wbufq, used)'
        BY <2>1, <2>3 DEF Accounted
    <2>5. Plain' /\ StreamInv' /\ NoStall' /\ Resumes(wbufq)' /\ Connection'
        BY <2>1 DEF Plain, StreamInv, Intact, NoStall, Resumes, Connection, HelloFirst
    <2> QED BY <2>2, <2>4, <2>5
<1>8. CASE Connect
    <2> DEFINE q == Append(wbufq, NextFrame)
               u == used \cup {NextFrame}
    <2>1. /\ kind = "p2pclient" /\ fd # "open" /\ pushed < MaxFrame /\ pushed' = NextFrame
          /\ CanWrite(q, u, FALSE) /\ UNCHANGED <<kind, refused>> /\ hello' = NextFrame
        BY <1>8 DEF Connect, NewPacket
    <2>2. stream = <<>> /\ wbufq = <<>> /\ wbufpending = NoFrame /\ data = 0
        BY <2>1 DEF Connection, Ordered
    <2>3. /\ Ready(q, u, NextFrame) /\ Out(q) = NextFrame
          /\ NextFrame \in 1 .. MaxFrame /\ pushed < NextFrame
          /\ 1 .. pushed \subseteq 1 .. NextFrame
        BY <2>1, <2>2, PushReady
    <2>4. CallbackDone(q)
        <3> HIDE DEF q, u
        <3> QED BY <2>1, <2>3, Written DEF CallbackDone
    <2> HIDE DEF q
    <2>5. Plain'
        BY <2>1, <2>3, <2>4, WriteQueueAssumption DEF CallbackDone, Plain
    <2>6. Connection'
        BY <2>1, <2>2, <2>3, <2>4 DEF CallbackDone, Connection, HelloFirst, NoFrame
    <2> QED BY <2>4, <2>5, <2>6 DEF CallbackDone
<1>9. CASE UNCHANGED vars
    BY <1>9 DEF vars, queue, Plain, Ordered, Resumes, Unsent, Last, Accounted, StreamInv,
                Intact, Connection, HelloFirst, NoStall, Owed
<1> QED BY <1>1, <1>2, <1>3, <1>4, <1>5, <1>6, <1>7, <1>8, <1>9 DEF Next, Finished
----------------------------------------------------------------------------
LEMMA IInvImplies == IInv => TypeOK /\ Intact /\ HelloFirst /\ NoStall /\ PacketsAccounted
<1> SUFFICES ASSUME IInv PROVE TypeOK /\ Intact /\ HelloFirst /\ NoStall /\ PacketsAccounted
    OBVIOUS
<1>1. Intact /\ HelloFirst /\ NoStall
    BY DEF IInv, StreamInv, Connection
<1>2. PacketsAccounted
    BY DEF IInv, Accounted, Unsent, Owed, PacketsAccounted
<1>3. used \subseteq 1 .. pushed
    <2>1. InQueue(wbufq) \subseteq 1 .. pushed /\ wbufpending \in 0 .. pushed
        BY Members DEF IInv, Ordered
    <2>2. used = InQueue(wbufq) \cup ({wbufpending} \ {0}) \cup refused
        BY DEF IInv, Accounted, Unsent, NoFrame
    <2>3. wbufpending # 0 => wbufpending \in 1 .. pushed
        BY <2>1 DEF IInv, Plain
    <2> QED BY <2>1, <2>2, <2>3 DEF IInv, Plain
<1>4. TypeOK
    BY <1>3 DEF IInv, Plain, Ordered, StreamInv, TypeOK
<1> QED BY <1>1, <1>2, <1>4

LEMMA Invariance == Spec => []IInv
<1> QED BY InitInv, StepInv, PTL DEF Spec

\* The types, and the assertion of response_pkt_new.
THEOREM TypesHold == Spec => []TypeOK
BY Invariance, IInvImplies, PTL

\* However send() cuts packets up and whatever an overflow drops, the peer reads
\* whole packets in order.
THEOREM StreamIntact == Spec => []Intact
BY Invariance, IInvImplies, PTL

\* A new connection to printsvr starts with its own $initsess.
THEOREM StartsWithHello == Spec => []HelloFirst
BY Invariance, IInvImplies, PTL

\* What waits in an open session has been asked for: no packet is stranded.
THEOREM NeverStalls == Spec => []NoStall
BY Invariance, IInvImplies, PTL

\* The pool loses no packet but those a closed p2pclient refused.
THEOREM PoolAccounts == Spec => []PacketsAccounted
BY Invariance, IInvImplies, PTL

----------------------------------------------------------------------------
(***************************************************************************)
(* What an open session's queue loses: nothing, but for an overflow, and   *)
(* then the packets that were more than max_queue.                         *)
(***************************************************************************)
\* A queue that holds no packet twice holds as many packets as it is long.
LEMMA AsManyAsLong ==
    ASSUME NEW S, NEW q \in Seq(S), \A i, j \in 1 .. Len(q) : q[i] = q[j] => i = j
    PROVE  Cardinality(InQueue(q)) = Len(q)
<1>1. Len(q) \in Nat /\ DOMAIN q = 1 .. Len(q) /\ q = [i \in 1 .. Len(q) |-> q[i]]
    OBVIOUS
<1>2. q \in [1 .. Len(q) -> InQueue(q)]
    BY <1>1 DEF InQueue
<1>3. q \in Bijection(1 .. Len(q), InQueue(q))
    <2>1. \A y \in InQueue(q) : \E i \in 1 .. Len(q) : q[i] = y
        BY DEF InQueue
    <2> QED BY <1>2, <2>1 DEF Bijection, Injection, Surjection, IsInjective
<1>4. ExistsBijection(1 .. Len(q), InQueue(q))
    BY <1>3 DEF ExistsBijection
<1>5. IsFiniteSet(1 .. Len(q)) /\ Cardinality(1 .. Len(q)) = Len(q)
    <2>1. ASSUME NEW n \in Nat
          PROVE  IsFiniteSet(1 .. n) /\ Cardinality(1 .. n) = n
        <3>1. 1 \in Int /\ n \in Int
            OBVIOUS
        <3>2. IsFiniteSet(1 .. n) /\ Cardinality(1 .. n) = IF 1 > n THEN 0 ELSE n - 1 + 1
            BY <3>1, FS_Interval
        <3> QED BY <3>2
    <2> QED BY <1>1, <2>1
<1> QED BY <1>4, <1>5, FS_Bijection

\* What the callback gives back unsent is nothing, or more than max_queue packets.
LEMMA DropsMany ==
    ASSUME NEW q, NEW u, NEW p, Ready(q, u, p), Out(q) # NoFrame
    PROVE  Dropped(q) = {} \/ Cardinality(Dropped(q)) > max_queue
<1>1. CASE ~Overflow(q)
    BY <1>1 DEF Dropped, Rest
<1>2. CASE Overflow(q)
    <2>1. wbufpending = NoFrame /\ q # <<>> /\ Len(Tail(q)) > max_queue
        BY <1>2 DEF Overflow, Out
    <2>2. q \in Seq(1 .. p) /\ \A i, j \in 1 .. Len(q) : i < j => q[i] < q[j]
        BY DEF Ready, Ordered
    <2>3. /\ Tail(q) \in Seq(1 .. p) /\ Len(Tail(q)) = Len(q) - 1 /\ Len(q) >= 1
          /\ \A i \in 1 .. Len(q) - 1 : Tail(q)[i] = q[i + 1]
        BY <2>1, <2>2, HeadAndTail
    <2>4. ASSUME NEW i \in 1 .. Len(Tail(q)), NEW j \in 1 .. Len(Tail(q)),
                 Tail(q)[i] = Tail(q)[j]
          PROVE  i = j
        <3>1. /\ i + 1 \in 1 .. Len(q) /\ j + 1 \in 1 .. Len(q)
              /\ q[i + 1] = q[j + 1] /\ Len(q) \in Nat /\ p \in Nat
            BY <2>2, <2>3, <2>4 DEF Ready
        <3>2. q[i + 1] \in Nat /\ q[j + 1] \in Nat
            BY <2>2, <3>1
        <3>3. ~(i + 1 < j + 1) /\ ~(j + 1 < i + 1)
            BY <2>2, <3>1, <3>2
        <3> QED BY <3>3
    <2>5. Cardinality(InQueue(Tail(q))) = Len(Tail(q))
        BY <2>3, <2>4, AsManyAsLong
    <2>6. Dropped(q) = InQueue(Tail(q))
        BY <1>2, <2>1 DEF Dropped, Rest, Behind, InQueue
    <2> QED BY <2>1, <2>5, <2>6
<1> QED BY <1>1, <1>2

\* A callback that leaves the session open: what was unsent before is in the queue,
\* on its way, sent, or dropped.
LEMMA LosesDropped ==
    ASSUME NEW q, NEW u, NEW p, NEW stay \in BOOLEAN, Ready(q, u, p),
           CanWrite(q, u, stay), fd' = "open",
           Owed \cup (pushed + 1 .. pushed') = Unsent(q)
    PROVE  Lost \subseteq Dropped(q) /\ Dropped(q) \subseteq Lost /\ Out(q) # NoFrame
<1> DEFINE o == Out(q)
           r == Rest(q)
           sent == IF Len(stream') > Len(stream) THEN {stream'[Len(stream')].frame} ELSE {}
<1>1. o # NoFrame
    BY DEF CanWrite, Answered, Blocked, SendAll, SendFails
<1>2. /\ Unsent(q) = InQueue(r) \cup {o} \cup Dropped(q)
      /\ Dropped(q) \cap (InQueue(r) \cup {o}) = {}
    BY <1>1, Pulling DEF Ready
<1>3. Lost = Unsent(q) \ (Owed' \cup sent)
    BY DEF Lost
<1>4. Len(stream) \in Nat
    BY DEF Ready
<1>5. ASSUME NEW t, stream' = Append(stream, [frame |-> o, from |-> data, to |-> t])
      PROVE  sent = {o}
    <2> DEFINE c == [frame |-> o, from |-> data, to |-> t]
    <2>1. Len(stream') = Len(stream) + 1 /\ stream'[Len(stream')] = c
        <3> HIDE DEF c
        <3>1. stream' = Append(stream, c) /\ stream \in Seq(Chunk)
            BY <1>5 DEF c, Ready
        <3> QED BY <3>1
    <2> QED BY <1>4, <2>1
<1> HIDE DEF o, r, sent
<1>6. Owed' \cup sent = InQueue(r) \cup {o}
    <2>1. CASE SendAll(q, u, stay)
        <3>1. /\ wbufq' = r /\ wbufpending' = NoFrame
              /\ stream' = Append(stream, [frame |-> o, from |-> data, to |-> Size[o]])
            BY <2>1 DEF SendAll, o, r
        <3>2. Owed' = InQueue(r)
            BY <3>1 DEF Owed, InQueue
        <3>3. sent = {o}
            BY <1>5, <3>1
        <3> QED BY <3>2, <3>3
    <2>2. ASSUME NEW n, SendPart(q, u, n) PROVE Owed' \cup sent = InQueue(r) \cup {o}
        <3>1. /\ wbufq' = r /\ wbufpending' = o
              /\ stream' = Append(stream, [frame |-> o, from |-> data, to |-> data + n])
            BY <2>2 DEF SendPart, o, r
        <3>2. Owed' = InQueue(r) \cup {o}
            BY <1>1, <3>1 DEF Owed, InQueue
        <3>3. sent = {o}
            BY <1>5, <3>1
        <3> QED BY <3>2, <3>3
    <2>3. CASE Blocked(q, u)
        <3>1. wbufq' = r /\ wbufpending' = o /\ stream' = stream
            BY <2>3 DEF Blocked, o, r
        <3>2. Owed' = InQueue(r) \cup {o}
            BY <1>1, <3>1 DEF Owed, InQueue
        <3>3. sent = {}
            BY <1>4, <3>1 DEF sent
        <3> QED BY <3>2, <3>3
    <2>4. ~SendFails(q, u)
        BY DEF SendFails
    <2> QED BY <2>1, <2>2, <2>3, <2>4 DEF CanWrite, Answered
<1> QED BY <1>1, <1>2, <1>3, <1>6 DEF o

\* An open session loses packets only to an overflow, and then more than max_queue
\* of them: no failure in the middle of a packet, and no order of pushes and
\* writable sockets, takes one from the queue (p2p.c:138-159, p2pclient.c:207-239).
THEOREM LosesByOverflow == Spec => OnlyOverflowLoses
<1> DEFINE P == fd = "open" /\ fd' = "open" => Lost = {} \/ Cardinality(Lost) > max_queue
<1>1. IInv /\ [Next]_vars => [P]_vars
    <2> SUFFICES ASSUME IInv, Next, fd = "open", fd' = "open"
                 PROVE  Lost = {} \/ Cardinality(Lost) > max_queue
        OBVIOUS
    <2>1. pushed \in Nat /\ Owed = Unsent(wbufq)
        BY WriteQueueAssumption DEF IInv, Plain, Owed, Unsent
    <2>2. CASE PushOpen
        <3> DEFINE q == Append(wbufq, NextFrame)
                   u == used \cup {NextFrame}
        <3>1. pushed < MaxFrame /\ pushed' = NextFrame /\ CanWrite(q, u, watched)
            BY <2>2 DEF PushOpen, NewPacket
        <3>2. Ready(q, u, NextFrame) /\ watched \in BOOLEAN
            BY <3>1, PushReady DEF IInv, Connection, Plain
        <3>3. InQueue(q) = InQueue(wbufq) \cup {NextFrame}
            <4>1. wbufq \in Seq(Nat) /\ NextFrame \in Nat
                BY <2>1 DEF IInv, Ordered, NextFrame
            <4> QED BY <4>1, Appended
        <3>4. pushed + 1 .. pushed' = {NextFrame}
            BY <2>1, <3>1 DEF NextFrame
        <3>5. Owed \cup (pushed + 1 .. pushed') = Unsent(q)
            <4> HIDE DEF q
            <4> QED BY <3>3, <3>4 DEF Owed, Unsent
        <3> HIDE DEF q, u
        <3>6. Lost = Dropped(q) /\ Out(q) # NoFrame
            BY <3>1, <3>2, <3>5, LosesDropped
        <3> QED BY <3>2, <3>6, DropsMany
    <2>3. CASE WriteReady
        <3>1. CanWrite(wbufq, used, FALSE) /\ pushed' = pushed
            BY <2>3 DEF WriteReady
        <3>2. Ready(wbufq, used, pushed)
            BY DEF IInv, Plain, StreamInv, Connection, Ready
        <3>3. Owed \cup (pushed + 1 .. pushed') = Unsent(wbufq)
            <4>1. pushed + 1 .. pushed' = {}
                BY <2>1, <3>1
            <4> QED BY <2>1, <4>1
        <3>4. Lost = Dropped(wbufq) /\ Out(wbufq) # NoFrame
            BY <3>1, <3>2, <3>3, LosesDropped
        <3> QED BY <3>2, <3>4, DropsMany
    <2>4. CASE WriteIdle \/ Finished
        <3>1. Owed' = Owed /\ pushed' = pushed
            BY <2>4 DEF WriteIdle, Finished, vars, queue, Owed
        <3>2. pushed + 1 .. pushed' = {}
            BY <2>1, <3>1
        <3> QED BY <3>1, <3>2 DEF Lost
    <2>5. ~PushClosed /\ ~PushRefused /\ ~Close /\ ~Free /\ ~Connect
        BY DEF PushClosed, PushRefused, Close, Free, Connect
    <2> QED BY <2>2, <2>3, <2>4, <2>5 DEF Next
<1> QED BY <1>1, Invariance, PTL DEF Spec, OnlyOverflowLoses
=============================================================================
