------------------------------ MODULE TextScan ------------------------------
(***************************************************************************)
(* The scanners of the text frames: opensess_exp.c for a client's first    *)
(* frame, moniclient_expat.c for the others, printsvr_expat.c for          *)
(* printsvr's, and exp_process_data, which calls them with each chunk      *)
(* that recv() returns.  The peer sends a stream of frames; the network    *)
(* cuts it into chunks anywhere.                                           *)
(*                                                                         *)
(* A frame is its title, text with a JSON object in it, '*', two check     *)
(* digits, CR, LF; this server's own frames have a NUL behind them, and a  *)
(* peer's may.  Between two chunks a scanner keeps searchstatus and the    *)
(* frame it gathers, and nothing of a head that is not complete.  The end  *)
(* of the frame buffer (2 MB without a line end) is left out.              *)
(***************************************************************************)
EXTENDS Integers, Sequences, SequencesExt, FiniteSetsExt

CONSTANTS
    Streams,   \* what the peers may send: [from, frames] with frames a sequence
               \* of [title, text, nul]
    iHeadLen   \* bytes gathered before they are compared with the titles (10)

\* strlen of a title.
TitleLen == [initsess |-> 9, ping |-> 5, auth |-> 5, initack |-> 8, pong |-> 5,
             printack |-> 9, show |-> 5]

ASSUME TextScanAssumption ==
    /\ iHeadLen \in Nat
    /\ \A t \in DOMAIN TitleLen : TitleLen[t] <= iHeadLen
    /\ Streams \subseteq
          [from : {"client", "printsvr"},
           frames : Seq([title : DOMAIN TitleLen, text : Seq(STRING), nul : BOOLEAN])]

\* Where an object may begin in a text.
Opens(text) == {i \in 1 .. Len(text) : text[i] = "{"}

(***************************************************************************)
(* What is taken of the peers' texts: an object is in them, behind the     *)
(* names of sender and receiver in most frames, and the scanners can tell  *)
(* them from what is around them, as no title begins and no line ends in   *)
(* them.                                                                   *)
(***************************************************************************)
Plain(text, star) ==
    /\ Opens(text) # {}
    /\ \A i \in 1 .. Len(text) : text[i] # "$"
    /\ \A i \in 2 .. Len(text) :
          ~(text[i - 1] = "CR" /\ text[i] = "LF" /\ (star => i > 4 /\ text[i - 4] = "*"))

PlainTexts ==
    \A x \in Streams : \A f \in DOMAIN x.frames :
       Plain(x.frames[f].text, x.from = "printsvr")

Title(t) == [i \in 1 .. TitleLen[t] |-> IF i = 1 THEN "$" ELSE t]

Bytes(f) ==
    Title(f.title) \o f.text \o <<"*", "hex", "hex", "CR", "LF">>
        \o IF f.nul THEN <<"NUL">> ELSE <<>>

----------------------------------------------------------------------------
(***************************************************************************)
(* search_frame, the same code three times but for the titles and, for     *)
(* printsvr, one more condition on the end of a frame.                     *)
(***************************************************************************)
opensess_titles   == {"initsess"}
moniclient_titles == {"ping", "auth"}
printsvr_titles   == {"initack", "auth", "pong", "printack"}

Idle == [searchstatus |-> "NULL", frame |-> <<>>]

istitle(titles, head) == {t \in titles : IsPrefix(Title(t), head)}

\* Variant: a head that is no title is dropped, with a '$' in it.
Shift_Drops(p, w) == w + iHeadLen

\* A head that is no title is shifted to its next '$', or dropped.
Shift(p, w) ==
    Min({i \in w + 1 .. w + iHeadLen - 1 : p[i] = "$"} \cup {w + iHeadLen})

\* Where the first complete head with a title starts, or 0.
Header(titles, p) ==
    LET from[w \in 1 .. Len(p) + 1] ==
            IF w + iHeadLen - 1 > Len(p) THEN 0
            ELSE IF istitle(titles, SubSeq(p, w, w + iHeadLen - 1)) # {} THEN w
            ELSE from[Shift(p, w)]
    IN  from[1]

\* Variant: a frame ends with this server's NUL, which a peer need not send.
LineEnds_Nul(frame) ==
    LET n == Len(frame)
    IN  n >= 3 /\ frame[n - 2] = "CR" /\ frame[n - 1] = "LF" /\ frame[n] = "NUL"

LineEnds(frame) ==
    LET n == Len(frame) IN n >= 2 /\ frame[n - 1] = "CR" /\ frame[n] = "LF"

StarBefore(frame) == Len(frame) >= 5 /\ frame[Len(frame) - 4] = "*"

\* SEARCHMACHINE_IDENTIFIER: bytes from the i-th of p are added to the frame
\* until it ends; searchpos is the last one used.  With star, an end is one
\* only behind the check digits.
Identifier(frame, p, i, star) ==
    LET all == frame \o SubSeq(p, i, Len(p))
        end == {n \in Len(frame) + 1 .. Len(all) :
                  /\ LineEnds(SubSeq(all, 1, n))
                  /\ star => StarBefore(SubSeq(all, 1, n))}
        n   == Min(end)
    IN  IF end = {}
        THEN [exp |-> [searchstatus |-> "IDENTIFIER", frame |-> all],
              finished |-> FALSE, searchpos |-> Len(p)]
        ELSE [exp |-> [searchstatus |-> "NULL", frame |-> SubSeq(all, 1, n)],
              finished |-> TRUE, searchpos |-> i + n - Len(frame) - 1]

(***************************************************************************)
(* A title found in the chunk starts a frame, and the position is set      *)
(* behind a title at the chunk's beginning (dwCurrPt = iHeadLen - 1),      *)
(* wherever in the chunk it was: bytes before it are read as the frame's.  *)
(***************************************************************************)
Search(titles, exp, p, star) ==
    IF exp.searchstatus = "IDENTIFIER" THEN Identifier(exp.frame, p, 1, star)
    ELSE LET w == Header(titles, p)
             t == CHOOSE t \in titles : IsPrefix(Title(t), SubSeq(p, w, Len(p)))
         IN  IF w = 0 THEN [exp |-> exp, finished |-> FALSE, searchpos |-> Len(p)]
             ELSE Identifier(Title(t), p, TitleLen[t] + 1, star)

opensess_search(exp, p)   == Search(opensess_titles, exp, p, FALSE)
moniclient_search(exp, p) == Search(moniclient_titles, exp, p, FALSE)
printsvr_search(exp, p)   == Search(printsvr_titles, exp, p, TRUE)

search_frame(parser, exp, p) ==
    CASE parser = "opensess"   -> opensess_search(exp, p)
      [] parser = "moniclient" -> moniclient_search(exp, p)
      [] parser = "printsvr"   -> printsvr_search(exp, p)

\* A text from its first '{' on; one without makes the handler read what an
\* earlier frame left in the buffer.
Json(text) ==
    IF Opens(text) = {} THEN <<"stale">> ELSE SubSeq(text, Min(Opens(text)), Len(text))

\* What a handler is given of a frame: which title, and its object without the
\* check.
Message(frame) ==
    [title |-> frame[2], json |-> Json(SubSeq(frame, 1, Len(frame) - 5))]

(***************************************************************************)
(* exp_process_data: frame after frame of a chunk.  When the opensess      *)
(* scanner has heard its $initsess the session gets a new scanner, and the *)
(* rest of the chunk is not looked at.                                     *)
(***************************************************************************)
exp_process_data(parser, exp, data) ==
    LET after[n \in 0 .. Len(data)] ==   \* after n searches
            IF n = 0 THEN [parser |-> parser, exp |-> exp, str |-> data, heard |-> <<>>]
            ELSE LET a == after[n - 1]
                     s == search_frame(a.parser, a.exp, a.str)
                 IN  IF a.str = <<>> THEN a
                     ELSE IF ~s.finished THEN [a EXCEPT !.exp = s.exp, !.str = <<>>]
                     ELSE LET heard == Append(a.heard, Message(s.exp.frame))
                          IN  IF a.parser = "opensess"
                              THEN [parser |-> "moniclient", exp |-> Idle, str |-> <<>>,
                                    heard |-> heard]
                              ELSE [parser |-> a.parser, exp |-> s.exp, heard |-> heard,
                                    str |-> SubSeq(a.str, s.searchpos + 1, Len(a.str))]
        last == after[Len(data)]
    IN  [parser |-> last.parser, exp |-> last.exp, heard |-> last.heard]

----------------------------------------------------------------------------
VARIABLES
    sent,     \* the stream: who sends it and the frames of it
    pos,      \* bytes of it that were received
    parser,   \* the session's scanner: "opensess", "moniclient" or "printsvr"
    exp,      \* what it keeps: searchstatus and frame
    heard,    \* history: what the handlers were given
    lost      \* history: frames the scanners do not promise to find

vars == <<sent, pos, parser, exp, heard, lost>>

data == FlattenSeq([i \in 1 .. Len(sent.frames) |-> Bytes(sent.frames[i])])

Frame == DOMAIN sent.frames

\* Where a frame begins and ends in the stream; its NUL is behind its end.
Begin(f) == 1 + Len(FlattenSeq([i \in 1 .. f - 1 |-> Bytes(sent.frames[i])]))
End(f)   == Begin(f) + Len(Bytes([sent.frames[f] EXCEPT !.nul = FALSE])) - 1

\* The titles that are looked for when the f-th frame comes.
Known(f) ==
    IF sent.from = "printsvr" THEN printsvr_titles
    ELSE IF f = 1 THEN opensess_titles ELSE moniclient_titles

Init ==
    /\ sent \in Streams
    /\ pos = 0 /\ heard = <<>> /\ exp = Idle
    /\ parser = IF sent.from = "printsvr" THEN "printsvr" ELSE "opensess"
    /\ lost = {f \in Frame : sent.frames[f].title \notin Known(f)}

\* Not promised: a frame whose head is cut, and one that begins in a chunk
\* which the opensess scanner still reads.
CutHead(k)    == {f \in Frame : Begin(f) <= k /\ k < Begin(f) + iHeadLen - 1}
Overlooked(k) == {f \in Frame : f > 1 /\ Begin(f) <= k /\ parser = "opensess"}

\* Variant: the buffer keeps what was parsed before.
Receive_Again(k) ==
    LET r == exp_process_data(parser, exp, SubSeq(data, 1, k))
    IN  /\ pos' = k
        /\ parser' = r.parser /\ exp' = r.exp /\ heard' = heard \o r.heard
        /\ lost' = lost \cup CutHead(k) \cup Overlooked(k)
        /\ UNCHANGED sent

\* recv() returns the bytes up to the k-th, which are parsed.
Receive(k) ==
    LET r == exp_process_data(parser, exp, SubSeq(data, pos + 1, k))
    IN  /\ pos' = k
        /\ parser' = r.parser /\ exp' = r.exp /\ heard' = heard \o r.heard
        /\ lost' = lost \cup CutHead(k) \cup Overlooked(k)
        /\ UNCHANGED sent

\* The stream was read to its end.
Done == pos = Len(data) /\ UNCHANGED vars

Next == (\E k \in pos + 1 .. Len(data) : Receive(k)) \/ Done

Spec == Init /\ [][Next]_vars
----------------------------------------------------------------------------
Read == {f \in Frame : End(f) <= pos}

(***************************************************************************)
(* Every frame whose head came in one chunk is heard, its object whole and *)
(* in order, whatever comes before it in the chunk and wherever else it is *)
(* cut (moniclient_expat.c:51, 75).                                        *)
(***************************************************************************)
PromisedHeard ==
    \E as \in [Read \ lost -> DOMAIN heard] :
        /\ \A f \in Read \ lost :
              heard[as[f]] = [title |-> sent.frames[f].title, json |-> Json(sent.frames[f].text)]
        /\ \A f, g \in Read \ lost : f < g => as[f] < as[g]

(***************************************************************************)
(* Nothing is heard but these, except at most one message for each lost    *)
(* frame, whose bytes are taken for the next one's (moniclient_expat.c:75).*)
(* So a stream without lost frames is heard as it was sent.                *)
(***************************************************************************)
OneForEachFrame == Len(heard) <= Cardinality(Read)

(***************************************************************************)
(* The scanner is idle whenever a frame was read to its end: no frame,     *)
(* lost or invented, runs into the next one.                               *)
(***************************************************************************)
Resynchronised ==
    (\E f \in Frame : pos = End(f)) => exp.searchstatus = "NULL"
=============================================================================
