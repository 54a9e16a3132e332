------------------------------ MODULE DevScan ------------------------------
(***************************************************************************)
(* The scanner of the card readers' frames (devexpat.c) and the loop that  *)
(* calls it (exp_process_data), as operators on what the scanner keeps     *)
(* between two chunks.  A frame is 00 FF, a length byte, and its body with *)
(* a header byte before and a check byte at the end.  The length is read   *)
(* through a signed char, so that the branch for extended frames           *)
(* (frame[2] == 0xFF) is never taken, and that a length byte of 128 and    *)
(* more is a negative length: such a frame ends with its third byte or     *)
(* not before the buffer is full.                                          *)
(***************************************************************************)
EXTENDS Integers, Sequences

CONSTANTS
    ByteXor(_, _),       \* exclusive or of two bytes
    UNPACKBUFFSIZE   \* size of the frame buffer

Byte == 0 .. 255

ASSUME DevScanAssumption ==
    /\ UNPACKBUFFSIZE \in Nat /\ UNPACKBUFFSIZE > 8
    /\ \A a, b \in Byte : ByteXor(a, b) \in Byte

HEADLEN == 2
g_title == <<0, 255>>

\* A scanner as calloc leaves it.
dev_exp_new ==
    [searchstatus |-> "NULL", Head |-> <<>>,
     frame |-> [i \in 0 .. UNPACKBUFFSIZE - 1 |-> 0],
     framelen |-> 0, indlen |-> 0, checksum |-> 0]

Signed(ch) == IF ch < 128 THEN ch ELSE ch - 256

\* What search_frame does with a byte: the scanner after it, and whether a
\* frame ends with it.
Went(exp)  == [exp |-> exp, finished |-> FALSE]
Ended(exp) == [exp |-> [exp EXCEPT !.searchstatus = "NULL"],
               finished |-> exp.checksum = 0]
GaveUp(exp) == Went([exp EXCEPT !.searchstatus = "NULL"])

\* Variant: bytes that are no title are all dropped, a 00 among them too.
Title_Drops(exp, ch) ==
    LET head == Append(exp.Head, ch)
    IN  IF Len(head) < HEADLEN THEN Went([exp EXCEPT !.Head = head])
        ELSE IF head # g_title THEN Went([exp EXCEPT !.Head = <<>>])
        ELSE Went([exp EXCEPT !.searchstatus = "IDENTIFIER", !.Head = <<>>,
                              !.frame[0] = 0, !.frame[1] = 255,
                              !.framelen = HEADLEN, !.checksum = 0])

\* A title is looked for; a 00 that ends two other bytes may begin one.
Title(exp, ch) ==
    LET head == Append(exp.Head, ch)
    IN  IF Len(head) < HEADLEN THEN Went([exp EXCEPT !.Head = head])
        ELSE IF head # g_title
             THEN Went([exp EXCEPT !.Head = IF ch = 0 THEN <<0>> ELSE <<>>])
        ELSE Went([exp EXCEPT !.searchstatus = "IDENTIFIER", !.Head = <<>>,
                              !.frame[0] = 0, !.frame[1] = 255,
                              !.framelen = HEADLEN, !.checksum = 0])

\* The rest of a frame is gathered.
Identifier(exp, ch) ==
    LET n == exp.framelen + 1
        e == [exp EXCEPT !.frame[exp.framelen] = ch, !.framelen = n,
                         !.checksum = IF n >= 4 THEN ByteXor(@, ch) ELSE @,
                         !.indlen = IF n = 3 THEN Signed(ch) + 4 ELSE @]
    IN  IF \/ n = 3 /\ e.indlen >= UNPACKBUFFSIZE - 1
           \/ n >= UNPACKBUFFSIZE - 1
        THEN GaveUp(e)
        ELSE IF n = e.indlen THEN Ended(e) ELSE Went(e)

Scan(exp, ch) ==
    IF exp.searchstatus = "NULL" THEN Title(exp, ch) ELSE Identifier(exp, ch)

(***************************************************************************)
(* search_frame goes through p up to the end of a frame, or of p.          *)
(* searchpos counts the bytes it went through.                             *)
(***************************************************************************)
search_frame(exp, p) ==
    LET at[i \in 0 .. Len(p)] ==
            IF i = 0 THEN [exp |-> exp, finished |-> FALSE, searchpos |-> 0]
            ELSE IF at[i - 1].finished THEN at[i - 1]
            ELSE LET s == Scan(at[i - 1].exp, p[i])
                 IN  [exp |-> s.exp, finished |-> s.finished, searchpos |-> i]
    IN  at[Len(p)]

\* What the callback is given: the frame, and the card as it takes it from the
\* buffer, whatever the frame's length is (coms.c:104-108).
Message(exp) ==
    [frame |-> [i \in 1 .. exp.framelen |-> exp.frame[i - 1]],
     card  |-> <<exp.frame[5], exp.frame[6], exp.frame[7]>>]

\* Variant: the rest of the chunk behind a frame is not looked at.
exp_process_data_First(exp, data) ==
    LET s == search_frame(exp, data)
    IN  [exp |-> s.exp, msgs |-> IF s.finished THEN <<Message(s.exp)>> ELSE <<>>]

\* exp_process_data: after n searches of the chunk.
exp_process_data(exp, data) ==
    LET after[n \in 0 .. Len(data)] ==
            IF n = 0 THEN [exp |-> exp, str |-> data, msgs |-> <<>>]
            ELSE LET a == after[n - 1]
                     s == search_frame(a.exp, a.str)
                 IN  IF a.str = <<>> THEN a
                     ELSE [exp  |-> s.exp,
                           str  |-> SubSeq(a.str, s.searchpos + 1, Len(a.str)),
                           msgs |-> IF s.finished THEN Append(a.msgs, Message(s.exp))
                                    ELSE a.msgs]
    IN  [exp |-> after[Len(data)].exp, msgs |-> after[Len(data)].msgs]

----------------------------------------------------------------------------
(***************************************************************************)
(* The frames of a whole stream of bytes, as the comments of devexpat.c    *)
(* tell them, for length bytes below 128.                                  *)
(***************************************************************************)
\* "frame length = body length + header length (4)" (devexpat.c:149).
FrameLength(s, i) == s[i + 2] + 4

\* Where the first frame at or after i starts; Len(s) if there is none.
Start(s, i) ==
    LET T == {t \in i .. Len(s) - 2 : s[t] = 0 /\ s[t + 1] = 255}
    IN  IF T = {} THEN Len(s) ELSE CHOOSE t \in T : \A u \in T : t <= u

Checksum(s, i, j) ==
    LET x[k \in i - 1 .. j] == IF k < i THEN 0 ELSE ByteXor(x[k - 1], s[k])
    IN  x[j]

\* LastFrames(s)[k]: the frames of the last k bytes.
LastFrames(s) ==
    LET from[k \in 0 .. Len(s)] ==
            LET i == Start(s, Len(s) - k + 1)
                n == FrameLength(s, i)
                j == i + n - 1
            IN  IF k = 0 THEN <<>>
                ELSE IF i + 2 > Len(s) THEN <<>>
                ELSE IF n >= UNPACKBUFFSIZE - 1 THEN from[Len(s) - (i + 2)]
                ELSE IF j > Len(s) THEN <<>>
                ELSE IF Checksum(s, i + 3, j) = 0
                     THEN <<SubSeq(s, i, j)>> \o from[Len(s) - j]
                ELSE from[Len(s) - j]
    IN  from

Frames(s) == LastFrames(s)[Len(s)]
=============================================================================
