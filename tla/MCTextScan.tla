----------------------------- MODULE MCTextScan -----------------------------
\* Streams for TLC: of a client, and of printsvr, with and without the NUL.
EXTENDS TextScan

Object(b) == <<"{", b, "}">>

\* One behind the names of sender and receiver, and one with a line end in it.
Named(b) == <<"names", "{", b, "}">>
Lines(b) == <<"names", "{", b, "CR", "LF", "}">>

F(t, text, nul) == [title |-> t, text |-> text, nul |-> nul]

MCStreams ==
    UNION {{[from |-> "client", frames |->
                <<F("initsess", Named("b1"), n), F("auth", Named("b2"), n),
                  F("show", Named("b3"), n), F("ping", Object("b4"), n)>>],
            [from |-> "printsvr", frames |->
                <<F("initack", Named("b1"), n), F("printack", Lines("b2"), n),
                  F("pong", Object("b3"), n), F("printack", Named("b4"), n)>>]} :
           n \in BOOLEAN}

\* What the theorems suppose of a stream is so of these.
ASSUME MCPlainTexts == PlainTexts
=============================================================================
