----------------------------- MODULE WriteQueue -----------------------------
(***************************************************************************)
(* The output queue of one session: p2p_stream_push and p2pclient_write    *)
(* put packets in, the write callbacks _p2p_can_write and                  *)
(* _p2pclient_can_write send them as far as the socket takes them.         *)
(* Both kinds share the writing code and differ in what a close does: a    *)
(* p2p session keeps its queue until sess_free, a p2pclient gives it up at *)
(* once (_p2pclient_release), refuses packets while it is down and gets a  *)
(* new queue when save_deadsession connects it again.                      *)
(*                                                                         *)
(* want_write is a count in the code, but only whether it is 0 is ever     *)
(* looked at; max_queue is compared with the length it was just set to.    *)
(* wflush is never set, so p2p_kill never waits (waitclose); no caller     *)
(* pushes an empty packet.                                                 *)
(***************************************************************************)
EXTENDS Naturals, Sequences, FiniteSets

CONSTANTS
    Kinds,      \* which of "p2p", "p2pclient" the session may be
    MaxFrame,   \* bound: packets pushed in a run
    Size,       \* Size[f]: bytes of the f-th packet
    max_queue   \* how many packets may wait behind the one being sent

Frame == 1 .. MaxFrame

NoFrame == 0

ASSUME WriteQueueAssumption ==
    /\ Kinds \subseteq {"p2p", "p2pclient"}
    /\ MaxFrame \in Nat
    /\ Size \in [Frame -> Nat \ {0}]
    /\ max_queue \in Nat

VARIABLES
    kind,        \* which kind of session this is
    fd,          \* its socket: "new", "open", "closed", or the session is "freed"
    wbufq,       \* packets waiting; empty too where the code has no queue
    wbufpending, \* the packet sent in part, or NoFrame
    data,        \* bytes its data pointer was advanced by
    want_write,  \* want_write is not 0
    watched,     \* the socket is in mio's write set
    used,        \* packets in the pool's queue of used ones
    pushed,      \* packets are numbered in the order they are made
    refused,     \* packets p2pclient_write returned -1 for
    hello,       \* the packet pushed when this connection was made
    stream       \* what the peer got on this connection, one chunk a send()

queue == <<wbufq, wbufpending, data, want_write, watched>>
vars  == <<kind, fd, queue, used, pushed, refused, hello, stream>>

InQueue(q) == {q[i] : i \in 1 .. Len(q)}

\* Everything accepted on this connection and not wholly sent.
Owed == InQueue(wbufq) \cup ({wbufpending} \ {NoFrame})

----------------------------------------------------------------------------
(***************************************************************************)
(* _p2p_get_pending_write and its twin.  The packet to send is the one     *)
(* sent in part, else the head of the queue.  Only when the head is pulled *)
(* is the rest counted: want_write says whether there is one, and all of   *)
(* it is given back to the pool when it is longer than max_queue.          *)
(***************************************************************************)
Out(q) ==
    IF wbufpending # NoFrame THEN wbufpending
    ELSE IF q = <<>> THEN NoFrame ELSE Head(q)

Behind(q) == IF wbufpending # NoFrame THEN q ELSE Tail(q)

\* Variant: the packet pulled is counted with those behind it.
Overflow_CountsOut(q) == wbufpending = NoFrame /\ Len(q) > max_queue

Overflow(q) == wbufpending = NoFrame /\ Len(Tail(q)) > max_queue

Rest(q) == IF Overflow(q) THEN <<>> ELSE Behind(q)

Dropped(q) == InQueue(Behind(q)) \ InQueue(Rest(q))

\* Variant: the rest is not counted when its head is pulled.
StillWanted_Uncounted(q) == wbufpending # NoFrame

StillWanted(q) == wbufpending # NoFrame \/ Rest(q) # <<>>

(***************************************************************************)
(* One write callback on queue q, called with want_write set while the     *)
(* packets u are used.  send() takes all, some or none of the packet, or   *)
(* fails.  The socket is in the write set afterwards if it was to stay     *)
(* there anyway or the callback asks for more.                             *)
(***************************************************************************)
\* Variant: the packet goes back with its data pointer where it was.
SendAll_Unreset(q, u, stay) ==
    /\ Out(q) # NoFrame
    /\ wbufq' = Rest(q) /\ wbufpending' = NoFrame /\ UNCHANGED data
    /\ want_write' = StillWanted(q) /\ watched' = (stay \/ StillWanted(q))
    /\ used' = u \ (Dropped(q) \cup {Out(q)})
    /\ stream' = Append(stream, [frame |-> Out(q), from |-> data, to |-> Size[Out(q)]])
    /\ fd' = "open"

\* Variant: the packet is left in the pool's used queue.
SendAll_Leaks(q, u, stay) ==
    /\ Out(q) # NoFrame
    /\ wbufq' = Rest(q) /\ wbufpending' = NoFrame /\ data' = 0
    /\ want_write' = StillWanted(q) /\ watched' = (stay \/ StillWanted(q))
    /\ used' = u \ Dropped(q)
    /\ stream' = Append(stream, [frame |-> Out(q), from |-> data, to |-> Size[Out(q)]])
    /\ fd' = "open"

SendAll(q, u, stay) ==
    /\ Out(q) # NoFrame
    /\ wbufq' = Rest(q) /\ wbufpending' = NoFrame /\ data' = 0
    /\ want_write' = StillWanted(q) /\ watched' = (stay \/ StillWanted(q))
    /\ used' = u \ (Dropped(q) \cup {Out(q)})
    /\ stream' = Append(stream, [frame |-> Out(q), from |-> data, to |-> Size[Out(q)]])
    /\ fd' = "open"

\* Variant: the data pointer is not advanced, the beginning is sent again.
SendPart_FromStart(q, u, n) ==
    /\ Out(q) # NoFrame
    /\ wbufq' = Rest(q) /\ wbufpending' = Out(q) /\ data' = 0
    /\ want_write' = TRUE /\ watched' = TRUE
    /\ used' = u \ Dropped(q)
    /\ stream' = Append(stream, [frame |-> Out(q), from |-> data, to |-> data + n])
    /\ fd' = "open"

\* n bytes go out and more are left; want_write grows.
SendPart(q, u, n) ==
    /\ Out(q) # NoFrame
    /\ wbufq' = Rest(q) /\ wbufpending' = Out(q) /\ data' = data + n
    /\ want_write' = TRUE /\ watched' = TRUE
    /\ used' = u \ Dropped(q)
    /\ stream' = Append(stream, [frame |-> Out(q), from |-> data, to |-> data + n])
    /\ fd' = "open"

\* The socket's buffer is full (MIO_WOULDBLOCK): nothing is sent.
Blocked(q, u) ==
    /\ Out(q) # NoFrame
    /\ wbufq' = Rest(q) /\ wbufpending' = Out(q)
    /\ want_write' = TRUE /\ watched' = TRUE
    /\ used' = u \ Dropped(q)
    /\ fd' = "open"
    /\ UNCHANGED <<data, stream>>

(***************************************************************************)
(* The close callback.  A p2pclient empties its queue into the pool at     *)
(* once; a p2p's queue waits for sess_free.  The peer's end of the stream  *)
(* is over in both cases.                                                  *)
(***************************************************************************)
\* Variant: _p2pclient_release forgets the packet sent in part.
Release_KeepsPending(q, out) ==
    IF kind = "p2pclient" THEN [q |-> <<>>, out |-> out, pool |-> InQueue(q)]
    ELSE [q |-> q, out |-> out, pool |-> {}]

Release(q, out) ==
    IF kind = "p2pclient"
    THEN [q |-> <<>>, out |-> NoFrame, pool |-> InQueue(q) \cup {out}]
    ELSE [q |-> q, out |-> out, pool |-> {}]

\* send() fails: the session is killed, then the packet given back.
SendFails(q, u) ==
    LET r == Release(Rest(q), NoFrame)
    IN  /\ Out(q) # NoFrame
        /\ fd' = "closed"
        /\ wbufq' = r.q /\ wbufpending' = r.out /\ data' = 0
        /\ want_write' = FALSE /\ watched' = FALSE
        /\ used' = u \ (Dropped(q) \cup r.pool \cup {Out(q)})
        /\ stream' = <<>>

\* _p2p_can_write with something to write: the peer takes something, or fails.
Answered(q, u, stay) ==
    \/ SendAll(q, u, stay)
    \/ Out(q) # NoFrame /\ \E n \in 1 .. Size[Out(q)] - data - 1 : SendPart(q, u, n)
    \/ SendFails(q, u)

CanWrite(q, u, stay) == Answered(q, u, stay) \/ Blocked(q, u)
----------------------------------------------------------------------------
Init ==
    /\ kind \in Kinds
    /\ fd = IF kind = "p2p" THEN "open" ELSE "new"
    /\ wbufq = <<>> /\ wbufpending = NoFrame /\ data = 0
    /\ want_write = FALSE /\ watched = FALSE
    /\ used = {} /\ pushed = 0 /\ refused = {} /\ hello = NoFrame
    /\ stream = <<>>

NextFrame == pushed + 1

\* response_pkt_new, as long as the bound is not reached.
NewPacket == pushed < MaxFrame /\ pushed' = NextFrame

\* A packet for an open session: mio_write calls the write callback at once.
PushOpen ==
    /\ fd = "open"
    /\ NewPacket
    /\ CanWrite(Append(wbufq, NextFrame), used \cup {NextFrame}, watched)
    /\ UNCHANGED <<kind, refused, hello>>

\* A p2p session that is closed but not yet freed only queues it.
PushClosed ==
    /\ kind = "p2p" /\ fd = "closed"
    /\ NewPacket
    /\ wbufq' = Append(wbufq, NextFrame) /\ want_write' = TRUE
    /\ used' = used \cup {NextFrame}
    /\ UNCHANGED <<kind, fd, wbufpending, data, watched, refused, hello, stream>>

\* A p2pclient without a queue refuses it, and no caller gives it back.
PushRefused ==
    /\ kind = "p2pclient" /\ fd = "closed"
    /\ NewPacket
    /\ used' = used \cup {NextFrame} /\ refused' = refused \cup {NextFrame}
    /\ UNCHANGED <<kind, fd, queue, hello, stream>>

\* The socket is writable and the callback has something to send.
WriteReady ==
    /\ fd = "open" /\ watched /\ want_write
    /\ CanWrite(wbufq, used, FALSE)
    /\ UNCHANGED <<kind, pushed, refused, hello>>

\* The socket is writable, the callback finds nothing: it returns want_write.
WriteIdle ==
    /\ fd = "open" /\ watched
    /\ ~want_write \/ Out(wbufq) = NoFrame
    /\ watched' = want_write
    /\ UNCHANGED <<kind, fd, wbufq, wbufpending, data, want_write, used, pushed,
                   refused, hello, stream>>

\* mio_close from elsewhere: end of file, a zombie, a name displaced, a refusal.
Close ==
    LET r == Release(wbufq, wbufpending)
    IN  /\ fd = "open"
        /\ fd' = "closed" /\ watched' = FALSE /\ stream' = <<>>
        /\ wbufq' = r.q /\ wbufpending' = r.out
        /\ data' = IF r.out = NoFrame THEN 0 ELSE data
        /\ used' = used \ r.pool
        /\ UNCHANGED <<kind, want_write, pushed, refused, hello>>

\* sess_free
Free ==
    /\ kind = "p2p" /\ fd = "closed"
    /\ fd' = "freed"
    /\ wbufq' = <<>> /\ wbufpending' = NoFrame /\ data' = 0
    /\ used' = used \ Owed
    /\ UNCHANGED <<kind, want_write, watched, pushed, refused, hello, stream>>

\* Connected, first or again: there is a queue, and $initsess is pushed.
\* An attempt that fails changes nothing here.
Connect ==
    /\ kind = "p2pclient" /\ fd \in {"new", "closed"}
    /\ NewPacket /\ hello' = NextFrame
    /\ CanWrite(Append(wbufq, NextFrame), used \cup {NextFrame}, FALSE)
    /\ UNCHANGED <<kind, refused>>

\* Nothing is left that could happen: the bound on packets, or the end of a session.
Finished ==
    /\ fd = "freed" \/ (pushed = MaxFrame /\ fd # "open")
    /\ UNCHANGED vars

Next ==
    \/ PushOpen \/ PushClosed \/ PushRefused
    \/ WriteReady \/ WriteIdle
    \/ Close \/ Free \/ Connect
    \/ Finished

Spec == Init /\ [][Next]_vars

(***************************************************************************)
(* select() reports a socket of the write set again and again, and a peer  *)
(* that goes on reading leaves room for something in the end.              *)
(***************************************************************************)
Served == fd = "open" /\ watched /\ want_write /\ Answered(wbufq, used, FALSE)
          /\ UNCHANGED <<kind, pushed, refused, hello>>

FairSpec == Spec /\ WF_vars(Served) /\ WF_vars(WriteIdle)

----------------------------------------------------------------------------
Chunk == [frame : Frame, from : Nat, to : Nat]

\* Types, and the assertion of response_pkt_new (responsepkt.c:72): a packet
\* that is not being sent has its data pointer at its start.
TypeOK ==
    /\ kind \in Kinds
    /\ fd \in {"new", "open", "closed", "freed"}
    /\ pushed \in 0 .. MaxFrame
    /\ wbufq \in Seq(1 .. pushed) /\ wbufpending \in 0 .. pushed
    /\ data \in Nat
    /\ IF wbufpending = NoFrame THEN data = 0 ELSE data < Size[wbufpending]
    /\ want_write \in BOOLEAN /\ watched \in BOOLEAN
    /\ used \subseteq 1 .. pushed /\ refused \subseteq 1 .. pushed
    /\ hello \in 0 .. pushed
    /\ stream \in Seq(Chunk)

\* b goes on where a stopped: in the middle of a's packet, or at the start of
\* a later packet when a's is complete.
Follows(a, b) ==
    IF a.to < Size[a.frame] THEN b.frame = a.frame /\ b.from = a.to
    ELSE b.frame > a.frame /\ b.from = 0

\* What the peer reads is whole packets in the order they were pushed: however
\* send() cuts them up, and whatever was dropped, none begins or ends in the middle
\* (the data pointer and wbufpending, p2p.c:226-231).
Intact ==
    /\ stream # <<>> => stream[1].from = 0
    /\ \A i \in 1 .. Len(stream) - 1 : Follows(stream[i], stream[i + 1])

\* A connection to printsvr starts with its own $initsess: nothing of the
\* connection before it is sent on the new one (p2pclient.c:355, :14-44).
HelloFirst ==
    kind = "p2pclient" /\ stream # <<>> => stream[1].frame = hello

\* As long as the session is open, whatever is still to be sent has want_write
\* set and the socket in the write set: it will be asked for (p2p.c:148-149, :231).
NoStall == fd = "open" /\ Owed # {} => want_write /\ watched

\* No packet is lost to the pool: it is used while it waits or is being sent,
\* through every failure, except one that a closed p2pclient refused.
PacketsAccounted == used = Owed \cup refused

\* Packets this step lost: accepted, and neither waiting nor the one it completed.
Lost ==
    LET Before == Owed \cup (pushed + 1 .. pushed')
        Sent == IF Len(stream') > Len(stream)
                THEN {stream'[Len(stream')].frame} ELSE {}
    IN  Before \ (Owed' \cup Sent)

\* An open session loses packets only when more than max_queue of them wait
\* behind the one being sent, and then all of those (p2p.c:151-159).
OnlyOverflowLoses ==
    [][ fd = "open" /\ fd' = "open" => Lost = {} \/ Cardinality(Lost) > max_queue ]_vars

\* What an open session accepted is sent, dropped by an overflow, or the
\* session closes: nothing waits for ever (p2p.c:187-242).
Delivered ==
    \A f \in Frame : (fd = "open" /\ f \in Owed) ~> (fd # "open" \/ f \notin Owed)
=============================================================================
