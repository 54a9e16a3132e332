------------------------------ MODULE CardFlow ------------------------------
(***************************************************************************)
(* What happens to a card between the reader and its return.  The server   *)
(* keeps nothing about a card: a frame of the reader makes it ask Parker   *)
(* for the score (coms.c), the answer makes it send a job to printsvr,     *)
(* printsvr's printack makes it ask Parker to take the card back           *)
(* (printsvr_callback.c), and every stage is shown to the moniclient, if   *)
(* there is one (forward.c).  A request to Parker is answered inside the   *)
(* call that makes it, or not at all.                                      *)
(*                                                                         *)
(* A step is one frame handled, with all it shows, writes and asks.  Two   *)
(* swipes of one card are two swipes: nothing in the code relates them.    *)
(* The jobs and acks under way need no order among swipes.  Parker and     *)
(* printsvr are other programs: printsvr prints a job it received once and *)
(* says truly how that went, Parker says ok only when it did what was      *)
(* asked; both may say nothing, or something unreadable.                   *)
(***************************************************************************)
EXTENDS Naturals, Sequences

CONSTANT Swipe   \* frames of the card readers

Stage == {"querying", "queryfail", "queryok", "printing", "printerr", "printok",
          "backcarding", "backcarderr", "backcardok"}

VARIABLES
    moni,     \* "moniclient" is in the table and its connection works
    link,     \* the connection to printsvr is there
    score,    \* Parker's answer for each swipe: "none" before or without one
    job,      \* where the print job of each swipe is
    ack,      \* printack under way for each swipe
    returned, \* how often Parker took the card of each swipe back
    shown,    \* the stages pushed to the moniclient for each swipe
    upset     \* swipes that met a fault of Parker, printsvr or a connection

services == <<score, job, ack, returned>>
vars     == <<moni, link, services, shown, upset>>

Swiped(s) == s \in upset \/ shown[s] # <<>>

----------------------------------------------------------------------------
(***************************************************************************)
(* forward_to_moniclient, for all stages of one handler.  Without a        *)
(* moniclient they are dropped, and a write that fails takes it away, so   *)
(* that it was sent some first stages of them.                             *)
(***************************************************************************)
Show(s, stages) ==
    \E k \in 0 .. Len(stages) :
        /\ moni \/ k = 0
        /\ shown' = [shown EXCEPT ![s] = @ \o SubSeq(stages, 1, k)]
        /\ moni' = (moni /\ k = Len(stages))

\* The moniclient missed a stage.
Missed(s) == IF moni' THEN {} ELSE {s}

\* A connection to printsvr that ends takes along what is under way on it.
Dropped(j, s) == IF j[s] = "sent" THEN "lost" ELSE j[s]

\* Variant: what printsvr has sent on it is still read.
Disconnected_KeepsAcks(j) ==
    /\ link' = FALSE
    /\ job' = [s \in Swipe |-> Dropped(j, s)]
    /\ UNCHANGED ack

Disconnected(j) ==
    /\ link' = FALSE
    /\ job' = [s \in Swipe |-> Dropped(j, s)]
    /\ ack' = [s \in Swipe |-> "none"]

OnTheWay == {s \in Swipe : job[s] = "sent" \/ ack[s] # "none"}

(***************************************************************************)
(* forward_to_printsvr: dropped unseen when there is no connection; the    *)
(* write may fail and end it.                                              *)
(***************************************************************************)
ForwardToPrintsvr(s) ==
    \/ link /\ job' = [job EXCEPT ![s] = "sent"] /\ UNCHANGED <<link, ack>>
    \/ link /\ Disconnected([job EXCEPT ![s] = "sent"])
    \/ ~link /\ UNCHANGED <<link, job, ack>>

\* Swipes whose job or ack a step takes off the connection before it arrives.
Broken(s) ==
    IF link' THEN {} ELSE OnTheWay \cup {s}

----------------------------------------------------------------------------
Init ==
    /\ moni \in BOOLEAN /\ link = TRUE
    /\ score = [s \in Swipe |-> "none"]
    /\ job = [s \in Swipe |-> "none"] /\ ack = [s \in Swipe |-> "none"]
    /\ returned = [s \in Swipe |-> 0]
    /\ shown = [s \in Swipe |-> <<>>]
    /\ upset = {}

\* Parker is silent, too late, or not understood: score_get_cb is not called or
\* returns early.
ScoreMissing(s) ==
    /\ Show(s, <<"querying">>)
    /\ upset' = upset \cup {s}
    /\ UNCHANGED <<link, services>>

\* Variant: the job is forwarded whatever the code in the answer is.
ScoreFail_Prints(s) ==
    /\ score' = [score EXCEPT ![s] = "fail"]
    /\ ForwardToPrintsvr(s)
    /\ Show(s, <<"querying", "queryfail">>)
    /\ upset' = upset \cup Missed(s) \cup Broken(s)
    /\ UNCHANGED returned

\* Parker has no score for the card (code -1).
ScoreFail(s) ==
    /\ score' = [score EXCEPT ![s] = "fail"]
    /\ Show(s, <<"querying", "queryfail">>)
    /\ upset' = upset \cup Missed(s)
    /\ UNCHANGED <<link, job, ack, returned>>

\* Variant: "printing" is shown before the answer is looked at.
ScoreOk_PrintingFirst(s) ==
    /\ score' = [score EXCEPT ![s] = "ok"]
    /\ ForwardToPrintsvr(s)
    /\ Show(s, <<"querying", "printing", "queryok">>)
    /\ upset' = upset \cup Missed(s) \cup Broken(s)
    /\ UNCHANGED returned

\* The score is there: it goes to printsvr, or nowhere, and "printing" is shown.
ScoreOk(s) ==
    /\ score' = [score EXCEPT ![s] = "ok"]
    /\ ForwardToPrintsvr(s)
    /\ Show(s, <<"querying", "queryok", "printing">>)
    /\ upset' = upset \cup Missed(s) \cup Broken(s)
    /\ UNCHANGED returned

\* A frame of a reader: _on_com_message_cb, curl_get_req, score_get_cb.
OnComMessage(s) ==
    /\ ~Swiped(s)
    /\ ScoreMissing(s) \/ ScoreFail(s) \/ ScoreOk(s)

(***************************************************************************)
(* curl_get_req(.../backcard) and backcard_get_cb: Parker takes the card   *)
(* back or not, and what it answers is shown, unless it is not understood. *)
(***************************************************************************)
BackCardAnswer == {[done |-> 1, show |-> <<"backcardok">>],
                   [done |-> 0, show |-> <<"backcarderr">>],
                   [done |-> 1, show |-> <<>>],
                   [done |-> 0, show |-> <<>>]}

PrintOk(s) ==
    \E a \in BackCardAnswer :
        /\ returned' = [returned EXCEPT ![s] = @ + a.done]
        /\ Show(s, <<"printok", "backcarding">> \o a.show)
        /\ upset' = upset \cup Missed(s) \cup (IF a.show = <<>> THEN {s} ELSE {})

\* Variant: printack is taken for a success whatever rslt says.
PrintErr_BacksCard(s) == PrintOk(s)

\* Variant: a failed print is not shown.
PrintErr_Silent(s) == UNCHANGED <<returned, shown, moni, upset>>

PrintErr(s) ==
    /\ Show(s, <<"printerr">>)
    /\ upset' = upset \cup Missed(s)
    /\ UNCHANGED returned

\* A printack arrives: printack_hook.
OnPrintAck(s) ==
    /\ ack[s] # "none"
    /\ ack' = [ack EXCEPT ![s] = "none"]
    /\ \/ ack[s] = "ok"  /\ PrintOk(s)
       \/ ack[s] = "err" /\ PrintErr(s)
       \/ ack[s] = "bad" /\ upset' = upset \cup {s} /\ UNCHANGED <<returned, shown, moni>>
    /\ UNCHANGED <<link, score, job>>

(***************************************************************************)
(* The other programs and the network.                                     *)
(***************************************************************************)
\* printsvr gets the job, and prints it or fails to.
Receive(s) ==
    /\ job[s] = "sent"
    /\ job' = [job EXCEPT ![s] = "queued"]
    /\ UNCHANGED <<moni, link, score, ack, returned, shown, upset>>

\* printsvr answers on the connection there is, if there is one.
PrintJob(s) ==
    /\ job[s] = "queued"
    /\ \E r \in {"printed", "failed"}, bad \in BOOLEAN :
          /\ job' = [job EXCEPT ![s] = r]
          /\ ack' = [ack EXCEPT ![s] = IF ~link THEN "none" ELSE IF bad THEN "bad"
                                       ELSE IF r = "printed" THEN "ok" ELSE "err"]
    /\ upset' = IF link THEN upset ELSE upset \cup {s}
    /\ UNCHANGED <<moni, link, score, returned, shown>>

\* More than max_queue packets wait for printsvr: all but the first are dropped.
QueueDropped ==
    \E d \in SUBSET {s \in Swipe : job[s] = "sent"} :
        /\ d # {}
        /\ job' = [s \in Swipe |-> IF s \in d THEN "lost" ELSE job[s]]
        /\ upset' = upset \cup d
        /\ UNCHANGED <<moni, link, score, ack, returned, shown>>

LinkLost ==
    /\ link /\ Disconnected(job)
    /\ upset' = upset \cup OnTheWay
    /\ UNCHANGED <<moni, score, returned, shown>>

\* save_deadsession connects again.
LinkBack ==
    /\ ~link /\ link' = TRUE
    /\ UNCHANGED <<moni, services, shown, upset>>

MoniLeaves == moni /\ moni' = FALSE /\ UNCHANGED <<link, services, shown, upset>>
MoniComes  == ~moni /\ moni' = TRUE /\ UNCHANGED <<link, services, shown, upset>>

Next ==
    \/ \E s \in Swipe : OnComMessage(s) \/ OnPrintAck(s) \/ Receive(s) \/ PrintJob(s)
    \/ QueueDropped \/ LinkLost \/ LinkBack \/ MoniLeaves \/ MoniComes

Spec == Init /\ [][Next]_vars

\* What is under way arrives, and printsvr gets its jobs done.
FairSpec ==
    /\ Spec
    /\ \A s \in Swipe : WF_vars(Receive(s)) /\ WF_vars(PrintJob(s)) /\ WF_vars(OnPrintAck(s))

----------------------------------------------------------------------------
Job == {"none", "sent", "lost", "queued", "printed", "failed"}

\* Types; an ack is under way only on a connection, of a job that is done.
TypeOK ==
    /\ moni \in BOOLEAN /\ link \in BOOLEAN
    /\ score \in [Swipe -> {"none", "ok", "fail"}]
    /\ job \in [Swipe -> Job]
    /\ ack \in [Swipe -> {"none", "ok", "err", "bad"}]
    /\ returned \in [Swipe -> Nat]
    /\ shown \in [Swipe -> Seq(Stage)]
    /\ upset \subseteq Swipe
    /\ \A s \in Swipe : ack[s] # "none" => link /\ job[s] \in {"printed", "failed"}

\* A card is handed back at most once, and only after its score was printed,
\* which needs a score: across two programs that do not know each other
\* (coms.c:63-79, printsvr_callback.c:222-245).
BackOnlyPrinted ==
    \A s \in Swipe :
        /\ returned[s] <= 1
        /\ returned[s] > 0 => job[s] = "printed"
        /\ job[s] # "none" => score[s] = "ok"

Rank == [querying |-> 1, queryfail |-> 2, queryok |-> 2, printing |-> 3, printerr |-> 4,
         printok |-> 4, backcarding |-> 5, backcarderr |-> 6, backcardok |-> 6]

Final == {"queryfail", "printerr", "backcarderr", "backcardok"}

InOrder(q) ==
    \A i, j \in 1 .. Len(q) : i < j => Rank[q[i]] < Rank[q[j]] /\ q[i] \notin Final

\* The moniclient sees the stages of a swipe in order and each at most once, and
\* nothing after a last one, though it and printsvr come and go in between.
StagesInOrder == \A s \in Swipe : InOrder(shown[s])

Shows(s, st) == \E i \in 1 .. Len(shown[s]) : shown[s][i] = st

\* What the last stages say is so: printed or not, handed back or not.
StagesTrue ==
    \A s \in Swipe :
        /\ Shows(s, "queryfail") => job[s] = "none"
        /\ Shows(s, "printerr") => job[s] = "failed" /\ returned[s] = 0
        /\ Shows(s, "printok") => job[s] = "printed"
        /\ Shows(s, "backcardok") => returned[s] = 1
        /\ Shows(s, "backcarderr") => returned[s] = 0

\* Every swipe is shown a last stage, unless Parker, printsvr or a connection
\* failed it: the server itself loses none.
SwipeEnds ==
    \A s \in Swipe : Swiped(s) ~> (s \in upset \/ \E st \in Final : Shows(s, st))

\* "printing" is shown for a job that went to printsvr (coms.c:78-84).
PrintingIsSent == \A s \in Swipe : Shows(s, "printing") => job[s] # "none"
=============================================================================
