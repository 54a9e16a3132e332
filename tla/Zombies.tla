------------------------------ MODULE Zombies ------------------------------
(***************************************************************************)
(* The clocks of main's loop: which sessions the zombie scan takes, when   *)
(* handlers that wait for an HTTP answer keep the loop from reading.       *)
(*                                                                         *)
(* Time is in whole seconds, as time(0) is, and passes only where the      *)
(* server waits: in curl_easy_perform, called by the handler of a printack *)
(* inside mio_run and by that of a swipe inside com_run, and in com_run    *)
(* itself.  A time_t is kept as the seconds since then.  Which sockets     *)
(* mio_run serves is fixed when select() returns: what arrives while a     *)
(* handler waits is read in the next pass.                                 *)
(***************************************************************************)
EXTENDS Naturals

CONSTANTS
    Client,      \* sessions of clients
    printsvr,    \* the session to printsvr
    ZombieAge,   \* a session silent for longer is a zombie (20)
    ScanWait,    \* seconds between two scans (2)
    PingWait,    \* seconds between two pings (2)
    MioHold,     \* bound: seconds the printacks of one read wait for Parker
    ComHold,     \* bound: seconds a com_run takes, its swipes' requests included
    SendGap,     \* a lively client never lets more seconds pass between sends
    AnswerTime   \* a lively printsvr answers within this

Sess == Client \cup {printsvr}

ASSUME ZombiesAssumption ==
    /\ printsvr \notin Client
    /\ ZombieAge \in Nat /\ ScanWait \in Nat /\ PingWait \in Nat \ {0}
    /\ MioHold \in Nat /\ ComHold \in Nat
    /\ SendGap \in Nat /\ AnswerTime \in Nat

\* What is asked of the peers, for the silence that the scan allows to be
\* enough.  A client's data may come just after select() returned, and then
\* waits until printacks have been handled.  printsvr is pinged once a pass at
\* most, and not before PingWait seconds are over.
ASSUME PromptAssumption ==
    /\ SendGap + MioHold <= ZombieAge
    /\ MioHold + AnswerTime <= ZombieAge
    /\ (PingWait - 1) + ComHold + AnswerTime <= ZombieAge

VARIABLES
    pc,          \* the call of main's loop that is under way or comes next
    open,        \* sessions in session_que
    zombie_que,  \* sessions in zombie_que
    idle,        \* idle[s]: now - last_activity
    unread,      \* sessions with something in their socket's buffer
    ready,       \* sockets mio_run has still to serve
    hold,        \* seconds until the handlers at work return
    passed,      \* seconds since main read its clock for this pass
    scanned,     \* seconds since main's `last`
    pinged,      \* seconds since pingsession's `last`
    binitsess,   \* printsvr acknowledged $initsess
    owing,       \* printsvr has an $initsess or a ping to answer
    lively,      \* the sessions whose peers keep to their times (never changes)
    waited       \* seconds a lively client sent nothing, or printsvr owes

peers == <<unread, owing, lively, waited>>
times == <<idle, passed, scanned, pinged>>
vars  == <<pc, open, zombie_que, ready, hold, binitsess, peers, times>>

Init ==
    /\ pc = "select"
    /\ open = {printsvr} /\ zombie_que = {}
    /\ unread = {} /\ ready = {} /\ hold = 0
    /\ idle = [s \in Sess |-> 0] /\ waited = [s \in Sess |-> 0]
    /\ passed = 0 /\ scanned = 0 /\ pinged = 0
    /\ binitsess = FALSE /\ owing = TRUE
    /\ lively \in SUBSET Sess

----------------------------------------------------------------------------
(***************************************************************************)
(* The peers and the clock.                                                *)
(***************************************************************************)
\* A client sends, or printsvr sends what it was not asked for: a printack, but
\* a lively printsvr answers the $initsess first.
Send(s) ==
    /\ s \in open
    /\ s = printsvr /\ s \in lively => binitsess \/ ~owing
    /\ unread' = unread \cup {s}
    /\ waited' = IF s = printsvr THEN waited ELSE [waited EXCEPT ![s] = 0]
    /\ UNCHANGED <<pc, open, zombie_que, ready, hold, binitsess, owing, lively, times>>

\* printsvr answers what it owes.
Answer ==
    /\ printsvr \in open /\ owing
    /\ unread' = unread \cup {printsvr}
    /\ owing' = FALSE /\ waited' = [waited EXCEPT ![printsvr] = 0]
    /\ UNCHANGED <<pc, open, zombie_que, ready, hold, binitsess, lively, times>>

\* Whose time runs while it says nothing.
Counted(s) == s \in open \cap lively /\ (s = printsvr => owing)

\* How long it may.
Allowed(s) == IF s = printsvr THEN AnswerTime ELSE SendGap

\* A second passes, in which every lively peer keeps to its time.
Tick ==
    /\ hold > 0
    /\ \A s \in Sess : Counted(s) => waited[s] < Allowed(s)
    /\ hold' = hold - 1
    /\ idle' = [s \in Sess |-> IF s \in open THEN idle[s] + 1 ELSE 0]
    /\ waited' = [s \in Sess |-> IF Counted(s) THEN waited[s] + 1 ELSE 0]
    /\ passed' = passed + 1 /\ scanned' = scanned + 1 /\ pinged' = pinged + 1
    /\ UNCHANGED <<pc, open, zombie_que, ready, binitsess, unread, owing, lively>>

----------------------------------------------------------------------------
(***************************************************************************)
(* One pass of main's loop.                                                *)
(***************************************************************************)
\* main reads its clock, mio_run calls select().
Select ==
    /\ pc = "select"
    /\ pc' = "mio" /\ ready' = unread /\ passed' = 0
    /\ UNCHANGED <<open, zombie_que, hold, binitsess, peers, idle, scanned, pinged>>

InMio == pc = "mio" /\ hold = 0

\* A client's socket is read: whatever came counts as activity.
ReadClient(s) ==
    /\ InMio /\ s \in ready \cap Client
    /\ idle' = [idle EXCEPT ![s] = 0]
    /\ unread' = unread \ {s} /\ ready' = ready \ {s}
    /\ UNCHANGED <<pc, open, zombie_que, hold, binitsess, owing, lively, waited,
                   passed, scanned, pinged>>

\* printsvr's is: its first answer is the initack, and the printacks in what
\* was read, perhaps behind it, keep the loop for up to MioHold seconds.
ReadPrintsvr ==
    /\ InMio /\ printsvr \in ready
    /\ idle' = [idle EXCEPT ![printsvr] = 0]
    /\ unread' = unread \ {printsvr} /\ ready' = ready \ {printsvr}
    /\ binitsess' \in IF printsvr \in lively THEN {TRUE} ELSE {binitsess, TRUE}
    /\ hold' \in 0 .. MioHold
    /\ UNCHANGED <<pc, open, zombie_que, owing, lively, waited, passed, scanned,
                   pinged>>

\* A connection ends, by its peer or by a frame the server cannot accept.
HangUp(s) ==
    /\ InMio /\ s \in open
    /\ open' = open \ {s} /\ unread' = unread \ {s} /\ ready' = ready \ {s}
    /\ idle' = [idle EXCEPT ![s] = 0] /\ waited' = [waited EXCEPT ![s] = 0]
    /\ owing' = (owing /\ s # printsvr)
    /\ UNCHANGED <<pc, zombie_que, hold, binitsess, lively, passed, scanned, pinged>>

Accept(s) ==
    /\ InMio /\ s \in Client \ open
    /\ open' = open \cup {s}
    /\ UNCHANGED <<pc, zombie_que, ready, hold, binitsess, peers, times>>

\* mio_run served every socket that was ready.
EndMio ==
    /\ InMio /\ ready = {}
    /\ pc' = "dead"
    /\ UNCHANGED <<open, zombie_que, ready, hold, binitsess, peers, times>>

\* save_deadsession: printsvr is connected again, and greeted, or not.
SaveDead ==
    /\ pc = "dead"
    /\ pc' = "scan"
    /\ \/ UNCHANGED <<open, owing, binitsess>>
       \/ /\ printsvr \notin open
          /\ open' = open \cup {printsvr} /\ owing' = TRUE /\ binitsess' = FALSE
    /\ UNCHANGED <<zombie_que, ready, hold, unread, lively, waited, times>>

check_zombie(s) == idle[s] > ZombieAge

\* Variant: a client found silent is taken out of session_que and put nowhere.
RemoveZombies_Lost ==
    /\ pc = "scan"
    /\ pc' = "clear"
    /\ IF scanned - passed > ScanWait
       THEN /\ zombie_que' = {s \in open \ Client : check_zombie(s)}
            /\ open' = {s \in open : ~check_zombie(s)}
            /\ scanned' = passed
       ELSE UNCHANGED <<open, zombie_que, scanned>>
    /\ UNCHANGED <<ready, hold, binitsess, peers, idle, passed, pinged>>

\* Variant: the time between two scans starts anew in every pass.
RemoveZombies_Postponed ==
    /\ pc = "scan"
    /\ pc' = "clear"
    /\ scanned' = passed
    /\ IF scanned - passed > ScanWait
       THEN zombie_que' = {s \in open : check_zombie(s)} /\ open' = open \ zombie_que'
       ELSE UNCHANGED <<open, zombie_que>>
    /\ UNCHANGED <<ready, hold, binitsess, peers, idle, passed, pinged>>

\* remove_zombie_from_lives, if main's clock says that it is time; `last` is
\* set to the clock as it was read when the pass began.
RemoveZombies ==
    /\ pc = "scan"
    /\ pc' = "clear"
    /\ IF scanned - passed > ScanWait
       THEN /\ zombie_que' = {s \in open : check_zombie(s)}
            /\ open' = open \ zombie_que'
            /\ scanned' = passed
       ELSE UNCHANGED <<open, zombie_que, scanned>>
    /\ UNCHANGED <<ready, hold, binitsess, peers, idle, passed, pinged>>

\* clear_zombies closes what the scan found.
ClearZombies ==
    /\ pc = "clear"
    /\ pc' = "ping"
    /\ zombie_que' = {}
    /\ unread' = unread \ zombie_que
    /\ idle' = [s \in Sess |-> IF s \in zombie_que THEN 0 ELSE idle[s]]
    /\ waited' = [s \in Sess |-> IF s \in zombie_que THEN 0 ELSE waited[s]]
    /\ owing' = (owing /\ printsvr \notin zombie_que)
    /\ UNCHANGED <<open, ready, hold, binitsess, lively, passed, scanned, pinged>>

\* Variant: `last` is set although printsvr was not pinged.
Ping_Skips ==
    /\ pc = "ping"
    /\ pc' = "coms"
    /\ hold' \in 0 .. ComHold
    /\ pinged' = IF pinged >= PingWait THEN 0 ELSE pinged
    /\ UNCHANGED <<open, zombie_que, ready, binitsess, peers, idle, passed, scanned>>

\* pingsession, and the start of do_coms_job.
Ping ==
    /\ pc = "ping"
    /\ pc' = "coms"
    /\ hold' \in 0 .. ComHold
    /\ IF pinged >= PingWait
       THEN /\ pinged' = 0
            /\ owing' = (owing \/ (printsvr \in open /\ binitsess))
       ELSE UNCHANGED <<pinged, owing>>
    /\ UNCHANGED <<open, zombie_que, ready, binitsess, unread, lively, waited, idle,
                   passed, scanned>>

EndComs ==
    /\ pc = "coms" /\ hold = 0
    /\ pc' = "select"
    /\ UNCHANGED <<open, zombie_que, ready, hold, binitsess, peers, times>>

Server ==
    \/ Select \/ (\E s \in Client : ReadClient(s)) \/ ReadPrintsvr
    \/ (\E s \in Sess : HangUp(s)) \/ (\E s \in Client : Accept(s))
    \/ EndMio \/ SaveDead \/ RemoveZombies \/ ClearZombies \/ Ping \/ EndComs

Next == Tick \/ Answer \/ (\E s \in Sess : Send(s)) \/ Server

Spec == Init /\ [][Next]_vars
----------------------------------------------------------------------------
TypeOK ==
    /\ pc \in {"select", "mio", "dead", "scan", "clear", "ping", "coms"}
    /\ open \subseteq Sess /\ zombie_que \subseteq Sess
    /\ unread \subseteq open \cup zombie_que /\ ready \subseteq unread
    /\ lively \subseteq Sess
    /\ idle \in [Sess -> Nat] /\ waited \in [Sess -> Nat]
    /\ hold \in Nat /\ passed \in Nat /\ scanned \in Nat /\ pinged \in Nat
    /\ binitsess \in BOOLEAN /\ owing \in BOOLEAN

(***************************************************************************)
(* The scan never takes a session whose peer keeps to its times, however   *)
(* long the handlers of this pass and of the passes before kept the loop   *)
(* from reading (net.c:130).                                               *)
(***************************************************************************)
NoLivelyZombie == zombie_que \cap lively = {}

(***************************************************************************)
(* A session is not kept for longer than the scan's own period and two     *)
(* passes after it became a zombie: the scan comes round, although its     *)
(* time is checked once a pass and against the clock of the pass's start   *)
(* (main.c:225, 234-236).                                                  *)
(***************************************************************************)
SilenceBounded ==
    \A s \in open :
        idle[s] <= ZombieAge + ScanWait + ComHold + MioHold + MioHold
=============================================================================
