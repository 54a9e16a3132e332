------------------------------ MODULE Session ------------------------------
(***************************************************************************)
(* Sessions of the backcard server: the moniclient connections it accepts  *)
(* (p2p.c), the one outgoing connection to printsvr (p2pclient.c), the     *)
(* three queues a session travels through (session_que, zombie_que,        *)
(* dead_sess), the hash table of authenticated names, the sockets the mio  *)
(* library watches, and the loop of main.c that moves sessions between the *)
(* queues (net.c).                                                         *)
(*                                                                         *)
(* The program has one thread.  A step is one callback, one frame of a     *)
(* received chunk, or one call of the loop; pc says where the loop is.     *)
(* Payloads, sequence numbers and the order inside a queue are left out: a *)
(* queue is the number of times each session occurs in it.                 *)
(***************************************************************************)
EXTENDS Naturals

CONSTANTS
    Conn,       \* p2p_st objects, one for each connection ever accepted
    Printsvr,   \* the p2pclient_st of the connection to printsvr
    Name,       \* names a client may authenticate under
    Moni,       \* "moniclient", the name forward_to_moniclient looks up
    NoName,     \* sname of a session that never authenticated
    Nobody,     \* no session
    Num,        \* socket numbers; a closed one is given out again
    NoNum,      \* sess.fd is NULL
    Faults      \* which of the hazards below the environment exhibits

AllFaults ==
    { "reauth",       \* a client sends $auth again on the same connection
      "partialauth",  \* an $auth has a name but lacks seqno or pwd
      "badinit",      \* a $initsess is malformed or names another role
      "ownsend",      \* send() to a client fails while its own chunk is parsed
      "refusal" }     \* printsvr answers $initsess or $auth with a refusal

ASSUME SessionAssumption ==
    /\ Printsvr \notin Conn
    /\ Moni \in Name /\ NoName \notin Name
    /\ Nobody \notin Conn /\ Nobody # Printsvr
    /\ Num # {} /\ NoNum \notin Num
    /\ Faults \subseteq AllFaults

Sess == Conn \cup {Printsvr}

VARIABLES
    mem,      \* mem[s]: is the session object not yet, now, or no longer allocated
    fd,       \* fd[s]: is its socket open
    num,      \* num[s]: the socket number sess.fd stands for, open or not
    want_read,\* want_read[s]
    watched,  \* the numbers in mio's read set
    lives,    \* lives[s]: occurrences of s in session_que
    zombies,  \* zombies[s]: occurrences of s in zombie_que
    dead,     \* dead[s]: occurrences of s in dead_sess
    nodes,    \* nodes of the table: <<name it was put under, session>>
    sname,    \* sname[c]; a node's key is a pointer to this buffer
    parser,   \* parser[c]: the expat the chunk of c goes through
    reading,  \* the session whose chunk is being parsed
    binitsess,\* printsvr acknowledged $initsess
    wbufq,    \* printsvr's wbufq is not NULL
    fresh,    \* save_deadsession has just connected printsvr
    pc,       \* the next call of the loop
    wild      \* freed memory has been used: nothing after it is defined

sockets == <<fd, num, want_read, watched>>
queues  == <<lives, zombies, dead>>
table   == <<nodes, sname>>
stream  == <<binitsess, wbufq, fresh>>
vars    == <<mem, sockets, queues, table, parser, reading, stream, pc, wild>>

(***************************************************************************)
(* The hash table (util/xhash).  A node keeps the pointer to the key, not a *)
(* copy: it matches n only while its session's sname still is n.  Distinct *)
(* names are taken to fall into distinct chains.  Where two nodes of a     *)
(* chain match, which one comes first is left open.                        *)
(***************************************************************************)
Match(tbl, nm, n) == {o \in Conn : <<n, o>> \in tbl /\ nm[o] = n}

\* xhash_zap
Zapped(tbl, nm, n) ==
    IF Match(tbl, nm, n) = {} THEN {tbl}
    ELSE {tbl \ {<<n, o>>} : o \in Match(tbl, nm, n)}

\* xhash_put: an equal key is overwritten.
Stored(tbl, nm, n, c) == {t \cup {<<n, c>>} : t \in Zapped(tbl, nm, n)}

\* Comparing with the key of a node whose session was freed.
Poisoned(n) == \E o \in Conn : <<n, o>> \in nodes /\ mem[o] = "freed"

GoWild ==
    /\ wild' = TRUE
    /\ UNCHANGED <<mem, sockets, queues, table, parser, reading, stream, pc>>

----------------------------------------------------------------------------
(***************************************************************************)
(* Sockets (mio, select).  sess.fd stands for a number's slot: mio_close   *)
(* through a stale one hits the session the number was given to since, or  *)
(* nobody.  mio_read puts a number into the read set unseen, and select()  *)
(* fails as long as one of them has no open socket.                        *)
(***************************************************************************)
\* The open session behind a number: at most one.
OpenAt(k) == {s \in Sess : fd[s] = "open" /\ num[s] = k}

FreeNums == {k \in Num : OpenAt(k) = {}}

Deaf == \E k \in watched : OpenAt(k) = {}

NumsOf(K) == {num[s] : s \in K}

\* Variant: the socket is watched again whatever want_read says.
Reread_Always(s) == {num[s]}

\* mio_read for s, asked for only while want_read is set.
Reread(s) == IF want_read[s] THEN {num[s]} ELSE {}

(***************************************************************************)
(* Closing the open sessions K.  mio_close runs action_CLOSE at once: p2p's *)
(* takes its session out of session_que and zaps its name, p2pclient's     *)
(* drops the output queue; both push dead_sess.  F of K are closed by a    *)
(* failed send(), which clears want_read.                                  *)
(***************************************************************************)
\* Variant: the count goes down although the session was not in the queue.
Less_Unchecked(k) == k - 1

Less(k) == IF k > 0 THEN k - 1 ELSE 0

\* Variant: p2p's handler leaves the session in session_que, as p2pclient's does.
Closing_KeepsLives(K, F) ==
    /\ fd' = [s \in Sess |-> IF s \in K THEN "closed" ELSE fd[s]]
    /\ want_read' = [s \in Sess |-> want_read[s] /\ s \notin F]
    /\ dead' = [s \in Sess |-> IF s \in K THEN dead[s] + 1 ELSE dead[s]]
    /\ wbufq' = (wbufq /\ Printsvr \notin K)
    /\ UNCHANGED <<num, lives>>

Closing(K, F) ==
    /\ fd' = [s \in Sess |-> IF s \in K THEN "closed" ELSE fd[s]]
    /\ want_read' = [s \in Sess |-> want_read[s] /\ s \notin F]
    /\ lives' = [s \in Sess |-> IF s \in K \cap Conn THEN Less(lives[s]) ELSE lives[s]]
    /\ dead' = [s \in Sess |-> IF s \in K THEN dead[s] + 1 ELSE dead[s]]
    /\ wbufq' = (wbufq /\ Printsvr \notin K)
    /\ UNCHANGED num

Unwatched(K) == watched \ NumsOf(K)

\* Variant: a close does not touch the table.
ZappedOf_Never(tbl, nm, K) == {tbl}

\* The table once the connection of K, if there is one, is zapped.
ZappedOf(tbl, nm, K) ==
    IF K \cap Conn = {} THEN {tbl}
    ELSE UNION {Zapped(tbl, nm, nm[c]) : c \in K \cap Conn}

\* Would the zap walk over freed keys?
ZapIsWild(nm, K) == \E c \in K \cap Conn : Poisoned(nm[c])

CloseSess(K, F) ==
    /\ Closing(K, F)
    /\ watched' = Unwatched(K)
    /\ nodes' \in ZappedOf(nodes, sname, K)

NoClose == UNCHANGED <<fd, num, want_read, lives, dead, nodes, wbufq>>

NoWrite == NoClose /\ UNCHANGED watched

\* The variables a close leaves alone.
Elsewhere == <<mem, zombies, sname, parser, binitsess, fresh, wild>>

----------------------------------------------------------------------------
(***************************************************************************)
(* mio_run: accepts, chunks of input and their frames, hang-ups.           *)
(***************************************************************************)
InMio == pc = "mio" /\ ~wild

\* action_ACCEPT and _p2p_server_init.
Accept(c, k) ==
    /\ InMio /\ reading = Nobody
    /\ mem[c] = "none"
    /\ k \in FreeNums
    /\ mem' = [mem EXCEPT ![c] = "alloc"]
    /\ fd' = [fd EXCEPT ![c] = "open"]
    /\ num' = [num EXCEPT ![c] = k]
    /\ want_read' = [want_read EXCEPT ![c] = TRUE]
    /\ watched' = watched \cup {k}
    /\ lives' = [lives EXCEPT ![c] = @ + 1]
    /\ UNCHANGED <<zombies, dead, table, parser, reading, stream, pc, wild>>

\* EOF or a receive error (F empty), or a send error once s is writable.
HangUp(s, F) ==
    /\ InMio /\ reading = Nobody
    /\ fd[s] = "open"
    /\ IF ZapIsWild(sname, {s}) THEN GoWild
       ELSE CloseSess({s}, F) /\ UNCHANGED <<Elsewhere, reading, pc>>

\* recv() returned bytes: exp_process_data takes the frames out one by one.
BeginChunk(s) ==
    /\ InMio /\ reading = Nobody
    /\ fd[s] = "open"
    /\ reading' = s
    /\ UNCHANGED <<mem, sockets, queues, table, parser, stream, pc, wild>>

\* _p2p_can_read returns; _p2pclient_can_read asks for more first.
EndChunk ==
    /\ InMio /\ reading # Nobody
    /\ reading' = Nobody
    /\ watched' = watched \cup (IF reading = Printsvr THEN Reread(Printsvr) ELSE {})
    /\ UNCHANGED <<mem, fd, num, want_read, queues, table, parser, stream, pc, wild>>

(***************************************************************************)
(* opensess_exp.c explain: a $initsess that is malformed or names another  *)
(* role kills the session, and the frames behind it are still parsed; a    *)
(* good one swaps the parser, answers, and gives up the rest of the chunk. *)
(***************************************************************************)
BadInitSess(c) ==
    /\ InMio /\ reading = c
    /\ "badinit" \in Faults
    /\ parser[c] = "opensess" /\ fd[c] = "open"
    /\ CloseSess({c}, {})
    /\ UNCHANGED <<Elsewhere, reading, pc>>

GoodInitSess(c) ==
    /\ InMio /\ reading = c
    /\ parser[c] = "opensess"
    /\ parser' = [parser EXCEPT ![c] = "moniclient"]
    /\ reading' = Nobody
    /\ \/ /\ watched' = watched \cup Reread(c)        \* initack queued or sent
          /\ NoClose
       \/ /\ "ownsend" \in Faults /\ fd[c] = "open"   \* initack: send() fails
          /\ CloseSess({c}, {c})
    /\ UNCHANGED <<mem, zombies, sname, binitsess, fresh, pc, wild>>

\* moniclient $ping: a pong that is queued or sent asks for more to read, also
\* on a session that an earlier frame of the chunk closed.
PongSent(c) ==
    /\ InMio /\ reading = c
    /\ parser[c] = "moniclient"
    /\ watched' = watched \cup Reread(c)
    /\ NoClose
    /\ UNCHANGED <<Elsewhere, reading, pc>>

\* One whose send() fails closes.
PongFails(c) ==
    /\ InMio /\ reading = c
    /\ "ownsend" \in Faults
    /\ parser[c] = "moniclient" /\ fd[c] = "open"
    /\ IF ZapIsWild(sname, {c}) THEN GoWild
       ELSE CloseSess({c}, {c}) /\ UNCHANGED <<Elsewhere, reading, pc>>

(***************************************************************************)
(* auth_hook of moniclient_callback.c.  The name is copied into sname      *)
(* first; whoever the table then holds under it is killed; an $auth        *)
(* without seqno or pwd returns here, otherwise authack is pushed and the  *)
(* session stored.                                                         *)
(***************************************************************************)
\* Variant: the old session is looked up under a fixed name.
OldSess_Fixed(nm, n) ==
    IF Match(nodes, nm, Moni) = {} THEN {Nobody} ELSE Match(nodes, nm, Moni)

\* xhash_get: the session found under n once the names read nm.
OldSess(nm, n) ==
    IF Match(nodes, nm, n) = {} THEN {Nobody} ELSE Match(nodes, nm, n)

\* Whom p2p_kill(oldsess) closes.
Victims(old) == IF old = Nobody THEN {} ELSE OpenAt(num[old])

\* A send() of authack that fails closes c, unless it is closed already.
AckFails(c, K) == "ownsend" \in Faults /\ fd[c] = "open" /\ c \notin K

\* Variant: the session is stored before the old one is killed.
AuthRegister_KillLast(c, n, nm, K) ==
    /\ Closing(K, {})
    /\ watched' = Unwatched(K) \cup Reread(c)
    /\ \E t \in Stored(nodes, nm, n, c) : nodes' \in ZappedOf(t, nm, K)

AuthRegister(c, n, nm, K) ==
    \E F \in {{}} \cup (IF AckFails(c, K) THEN {{c}} ELSE {}) :
      /\ Closing(K \cup F, F)
      /\ watched' = IF F = {} THEN Unwatched(K) \cup Reread(c)
                    ELSE Unwatched(K \cup F)
      /\ \E left \in ZappedOf(nodes, nm, K) :
           \E t \in ZappedOf(left, nm, F) : nodes' \in Stored(t, nm, n, c)

AuthAbandon(nm, K) ==
    /\ Closing(K, {})
    /\ watched' = Unwatched(K)
    /\ nodes' \in ZappedOf(nodes, nm, K)

AuthFrame(c, n, complete) ==
    /\ InMio /\ reading = c
    /\ parser[c] = "moniclient"
    /\ sname[c] = NoName \/ "reauth" \in Faults
    /\ complete \/ "partialauth" \in Faults
    /\ LET nm == [sname EXCEPT ![c] = n]
       IN  \E old \in OldSess(nm, n) :
             IF Poisoned(n) \/ ZapIsWild(nm, Victims(old)) THEN GoWild
             ELSE /\ sname' = nm
                  /\ IF complete THEN AuthRegister(c, n, nm, Victims(old))
                     ELSE AuthAbandon(nm, Victims(old))
                  /\ UNCHANGED <<mem, zombies, parser, reading, binitsess, fresh, pc, wild>>

----------------------------------------------------------------------------
(***************************************************************************)
(* Writes to others.  A write to an open session that succeeds or blocks   *)
(* changes nothing here; one that fails closes the session it was for.     *)
(***************************************************************************)
\* forward_to_moniclient, from a serial frame or a printack.
ForwardMoni ==
    /\ ~wild
    /\ pc = "coms" \/ (pc = "mio" /\ reading = Printsvr)
    /\ IF Poisoned(Moni) THEN GoWild
       ELSE \E o \in Match(nodes, sname, Moni) :
              /\ IF fd[o] = "open" THEN CloseSess({o}, {o})
                 ELSE /\ watched' = watched \cup Reread(o)
                      /\ NoClose
              /\ UNCHANGED <<Elsewhere, reading, pc>>

\* p2pclient_write: nothing is sent without a wbufq.
PrintsvrWriteFails ==
    /\ wbufq /\ fd[Printsvr] = "open"
    /\ CloseSess({Printsvr}, {Printsvr})

\* forward_to_printsvr of a print job.
ForwardPrint ==
    /\ ~wild /\ pc = "coms"
    /\ PrintsvrWriteFails
    /\ UNCHANGED <<Elsewhere, reading, pc>>

(***************************************************************************)
(* Frames from printsvr (printsvr_callback.c).                             *)
(***************************************************************************)
\* initack_hook, rslt ok: binitsess is set and $auth sent.
InitAckOk ==
    /\ InMio /\ reading = Printsvr
    /\ binitsess' = TRUE
    /\ NoWrite \/ PrintsvrWriteFails
    /\ UNCHANGED <<mem, zombies, sname, parser, reading, fresh, pc, wild>>

\* initack_hook with another rslt, and auth_hook with rslt fail.
Refused ==
    /\ InMio /\ reading = Printsvr
    /\ "refusal" \in Faults
    /\ fd[Printsvr] = "open"
    /\ CloseSess({Printsvr}, {})
    /\ UNCHANGED <<Elsewhere, reading, pc>>

----------------------------------------------------------------------------
(***************************************************************************)
(* The calls of main's loop after mio_run.                                 *)
(***************************************************************************)
EndMio ==
    /\ InMio /\ reading = Nobody
    /\ pc' = "deads"
    /\ UNCHANGED <<mem, sockets, queues, table, parser, reading, stream, wild>>

\* Variant: clear_deads_from_lives is not called.
Cleared_Not == lives

\* Every occurrence in dead_sess takes one occurrence out of session_que.
Cleared == [s \in Sess |-> IF lives[s] > dead[s] THEN lives[s] - dead[s] ELSE 0]

ClearDeads ==
    /\ pc = "deads" /\ ~wild
    /\ lives' = Cleared
    /\ pc' = "save"
    /\ UNCHANGED <<mem, sockets, zombies, dead, table, parser, reading, stream, wild>>

(***************************************************************************)
(* save_deadsession: frees the connections in dead_sess and reconnects     *)
(* printsvr.  mio_connect fails ("refused"), or it succeeds ("up"), or the *)
(* write of $initsess right after it fails ("lost").                       *)
(***************************************************************************)
\* Variant: dead connections are dropped from the queue without sess_free.
DeadConns_Leaked == {}

DeadConns == {c \in Conn : dead[c] > 0}

\* Variant: binitsess survives the reconnect.
Reconnect_KeepsInit(outcome, k) ==
    /\ fd' = [fd EXCEPT ![Printsvr] = IF outcome = "up" THEN "open" ELSE "closed"]
    /\ num' = [num EXCEPT ![Printsvr] = IF outcome = "refused" THEN NoNum ELSE k]
    /\ want_read' = [want_read EXCEPT ![Printsvr] =
                        CASE outcome = "up" -> TRUE
                          [] outcome = "lost" -> FALSE
                          [] OTHER -> @]
    /\ watched' = CASE outcome = "up" -> watched \cup {k}
                     [] outcome = "lost" -> watched \ {k}
                     [] OTHER -> watched
    /\ lives' = [lives EXCEPT ![Printsvr] = IF outcome = "refused" THEN @ ELSE @ + 1]
    /\ wbufq' = (outcome = "up")
    /\ fresh' = (outcome # "refused")
    /\ UNCHANGED binitsess

Reconnect(outcome, k) ==
    /\ fd' = [fd EXCEPT ![Printsvr] = IF outcome = "up" THEN "open" ELSE "closed"]
    /\ num' = [num EXCEPT ![Printsvr] = IF outcome = "refused" THEN NoNum ELSE k]
    /\ want_read' = [want_read EXCEPT ![Printsvr] =
                        CASE outcome = "up" -> TRUE
                          [] outcome = "lost" -> FALSE
                          [] OTHER -> @]
    /\ watched' = CASE outcome = "up" -> watched \cup {k}
                     [] outcome = "lost" -> watched \ {k}
                     [] OTHER -> watched
    /\ lives' = [lives EXCEPT ![Printsvr] = IF outcome = "refused" THEN @ ELSE @ + 1]
    /\ wbufq' = (outcome = "up")
    /\ fresh' = (outcome # "refused")
    /\ binitsess' = FALSE

\* Variant: a failed reconnect is not pushed again.
StillDead_Forgets(outcome) == [s \in Sess |-> 0]

\* dead_sess afterwards holds only what a failed reconnect pushed.
StillDead(outcome) ==
    [s \in Sess |-> IF s = Printsvr /\ outcome # "up" THEN dead[s] ELSE 0]

Freed(D) == [s \in Sess |-> IF s \in D THEN "freed" ELSE mem[s]]

SaveDead(outcome) ==
    /\ pc = "save" /\ ~wild
    /\ mem' = Freed(DeadConns)
    /\ dead' = StillDead(outcome)
    /\ IF dead[Printsvr] > 0 THEN \E k \in FreeNums : Reconnect(outcome, k)
       ELSE UNCHANGED <<sockets, lives, stream>>
    /\ pc' = "zombie"
    /\ UNCHANGED <<zombies, table, parser, reading, wild>>

\* The seven seconds of save_deadsession are not over.
SkipSave ==
    /\ pc = "save" /\ ~wild
    /\ pc' = "zombie"
    /\ UNCHANGED <<mem, sockets, queues, table, parser, reading, stream, wild>>

\* remove_zombie_from_lives: any session may have been silent for 20 seconds,
\* except printsvr when it has just been connected.  Z = {} also stands for the
\* passes that skip it.
RemoveZombies(Z) ==
    /\ pc = "zombie" /\ ~wild
    /\ \A s \in Z : lives[s] > 0 /\ ~(s = Printsvr /\ fresh)
    /\ lives' = [s \in Sess |-> IF s \in Z THEN 0 ELSE lives[s]]
    /\ zombies' = [s \in Sess |-> IF s \in Z THEN zombies[s] + lives[s] ELSE zombies[s]]
    /\ fresh' = FALSE
    /\ pc' = "clear"
    /\ UNCHANGED <<mem, sockets, dead, table, parser, reading, binitsess, wbufq, wild>>

\* One iteration of clear_zombies: s is pulled and its socket closed.
ClearZombie(s) ==
    /\ pc = "clear" /\ ~wild
    /\ zombies[s] > 0
    /\ IF ZapIsWild(sname, OpenAt(num[s])) THEN GoWild
       ELSE /\ zombies' = [zombies EXCEPT ![s] = @ - 1]
            /\ CloseSess(OpenAt(num[s]), {})
            /\ UNCHANGED <<mem, sname, parser, reading, binitsess, fresh, pc, wild>>

EndClear ==
    /\ pc = "clear" /\ ~wild
    /\ \A s \in Sess : zombies[s] = 0
    /\ pc' = "ping"
    /\ UNCHANGED <<mem, sockets, queues, table, parser, reading, stream, wild>>

\* pingsession: the stream sessions of session_que that are initialised.
Ping ==
    /\ pc = "ping" /\ ~wild
    /\ \/ NoWrite
       \/ lives[Printsvr] > 0 /\ binitsess /\ PrintsvrWriteFails
    /\ pc' = "coms"
    /\ UNCHANGED <<Elsewhere, reading>>

\* do_coms_job returns and the loop starts over: mio_run calls nobody back
\* when its select() fails.
EndComs ==
    /\ pc = "coms" /\ ~wild
    /\ pc' = IF Deaf THEN "deads" ELSE "mio"
    /\ UNCHANGED <<mem, sockets, queues, table, parser, reading, stream, wild>>

\* A signal set g_shutdown: client_free frees what is in dead_sess.
Shutdown ==
    /\ pc = "coms" /\ ~wild
    /\ pc' = "exit"
    /\ mem' = Freed({s \in Sess : dead[s] > 0})
    /\ dead' = [s \in Sess |-> 0]
    /\ UNCHANGED <<sockets, lives, zombies, table, parser, reading, stream, wild>>

\* After exit, or once freed memory was used, nothing more is said.
Stopped == (pc = "exit" \/ wild) /\ UNCHANGED vars

----------------------------------------------------------------------------
\* main before the loop: printsvr is connected; its first write may have failed.
Init ==
    \E up \in BOOLEAN, k \in Num :
      /\ mem = [s \in Sess |-> IF s = Printsvr THEN "alloc" ELSE "none"]
      /\ fd = [s \in Sess |-> IF s = Printsvr /\ up THEN "open" ELSE "closed"]
      /\ num = [s \in Sess |-> IF s = Printsvr THEN k ELSE NoNum]
      /\ want_read = [s \in Sess |-> s = Printsvr /\ up]
      /\ watched = {j \in Num : j = k /\ up}
      /\ lives = [s \in Sess |-> IF s = Printsvr THEN 1 ELSE 0]
      /\ zombies = [s \in Sess |-> 0]
      /\ dead = [s \in Sess |-> IF s = Printsvr /\ ~up THEN 1 ELSE 0]
      /\ nodes = {}
      /\ sname = [c \in Conn |-> NoName]
      /\ parser = [c \in Conn |-> "opensess"]
      /\ reading = Nobody
      /\ binitsess = FALSE /\ wbufq = up /\ fresh = FALSE
      /\ pc = "mio" /\ wild = FALSE

Outcomes == {"refused", "up", "lost"}

Callback ==
    \/ \E c \in Conn : \/ \E k \in Num : Accept(c, k)
                       \/ BadInitSess(c) \/ GoodInitSess(c) \/ PongSent(c) \/ PongFails(c)
                       \/ \E n \in Name, complete \in BOOLEAN : AuthFrame(c, n, complete)
    \/ \E s \in Sess : BeginChunk(s) \/ HangUp(s, {}) \/ HangUp(s, {s})
    \/ InitAckOk \/ Refused \/ ForwardMoni

Loop ==
    \/ EndMio \/ ClearDeads \/ SkipSave
    \/ \E outcome \in Outcomes : SaveDead(outcome)
    \/ \E Z \in SUBSET Sess : RemoveZombies(Z)
    \/ \E s \in Sess : ClearZombie(s)
    \/ EndClear \/ Ping \/ ForwardPrint \/ EndComs \/ Shutdown

Next == Callback \/ EndChunk \/ Loop \/ Stopped

Spec == Init /\ [][Next]_vars

(***************************************************************************)
(* The thread keeps running and a chunk has an end.  mio_run returns       *)
(* however often sockets are ready, since it serves each once (EndMio is   *)
(* strongly fair), and the seven seconds of save_deadsession keep running  *)
(* out while the loop turns.  Nothing is assumed of clients or printsvr.   *)
(***************************************************************************)
Fairness ==
    /\ SF_vars(EndMio) /\ WF_vars(EndChunk)
    /\ WF_vars(ClearDeads) /\ WF_vars(SkipSave)
    /\ SF_vars(\E outcome \in Outcomes : SaveDead(outcome))
    /\ WF_vars(\E Z \in SUBSET Sess : RemoveZombies(Z))
    /\ WF_vars(\E s \in Sess : ClearZombie(s))
    /\ WF_vars(EndClear) /\ WF_vars(Ping) /\ WF_vars(EndComs)

FairSpec == Spec /\ Fairness

\* printsvr is there: an attempt made again and again succeeds in the end.
PrintsvrThere == SF_vars(dead[Printsvr] > 0 /\ SaveDead("up"))

ThereSpec == FairSpec /\ PrintsvrThere

----------------------------------------------------------------------------
\* The type of the variables.
TypeOK ==
    /\ mem \in [Sess -> {"none", "alloc", "freed"}]
    /\ fd \in [Sess -> {"open", "closed"}]
    /\ num \in [Sess -> Num \cup {NoNum}]
    /\ want_read \in [Sess -> BOOLEAN]
    /\ watched \subseteq Num
    /\ lives \in [Sess -> Nat] /\ zombies \in [Sess -> Nat] /\ dead \in [Sess -> Nat]
    /\ nodes \subseteq Name \X Conn
    /\ sname \in [Conn -> Name \cup {NoName}]
    /\ parser \in [Conn -> {"opensess", "moniclient"}]
    /\ reading \in Sess \cup {Nobody}
    /\ binitsess \in BOOLEAN /\ wbufq \in BOOLEAN /\ fresh \in BOOLEAN
    /\ pc \in {"mio", "deads", "save", "zombie", "clear", "ping", "coms", "exit"}
    /\ wild \in BOOLEAN

(***************************************************************************)
(* An accepted connection that is open is in session_que or zombie_que     *)
(* exactly once and not in dead_sess; once closed it is in dead_sess       *)
(* exactly once and in no other queue; once freed it is in none.  So no    *)
(* session is lost, freed twice, pinged or scanned after it was freed      *)
(* (p2p.c:286-305, net.c:44-125 and 166-200).                              *)
(***************************************************************************)
ConnQueued ==
    \A c \in Conn :
      /\ mem[c] \in {"none", "freed"} =>
            fd[c] = "closed" /\ lives[c] = 0 /\ zombies[c] = 0 /\ dead[c] = 0
      /\ fd[c] = "open" => lives[c] + zombies[c] = 1 /\ dead[c] = 0
      /\ mem[c] = "alloc" /\ fd[c] = "closed" =>
            lives[c] = 0 /\ zombies[c] = 0 /\ dead[c] = 1

(***************************************************************************)
(* The connection to printsvr is scanned once while it is up and is due to *)
(* be reconnected exactly once while it is down, although its close        *)
(* handler leaves it in session_que and a failed write closes it twice     *)
(* (p2pclient.c:288-294 and 350-362, net.c:102-125).                       *)
(***************************************************************************)
PrintsvrQueued ==
    pc # "exit" =>
      /\ fd[Printsvr] = "open" => lives[Printsvr] + zombies[Printsvr] = 1 /\ dead[Printsvr] = 0
      /\ fd[Printsvr] = "closed" => lives[Printsvr] <= 1 /\ zombies[Printsvr] = 0 /\ dead[Printsvr] = 1

(***************************************************************************)
(* pingsession writes to printsvr only over an open socket: a stale        *)
(* occurrence in session_que is gone by then, or binitsess was reset       *)
(* (net.c:157, p2pclient.c:57 and 65).                                     *)
(***************************************************************************)
PingOnlyOpen ==
    pc = "ping" /\ lives[Printsvr] > 0 /\ binitsess => fd[Printsvr] = "open"

(***************************************************************************)
(* Whatever the table holds under a name is an open session of that name,  *)
(* so that forward_to_moniclient and the next $auth never touch a closed   *)
(* or freed one (p2p.c:292, moniclient_callback.c:44-49 and 81).           *)
(***************************************************************************)
NoDangling ==
    \A n \in Name, c \in Conn : <<n, c>> \in nodes => fd[c] = "open" /\ sname[c] = n

\* No step has used freed memory (client.c:9-42 frees a session; the table keeps
\* pointers into it).
NoUseAfterFree == ~wild

(***************************************************************************)
(* The chunk of one client closes no connection but its own and that of    *)
(* the client whose name it takes over (moniclient_callback.c:41-50).      *)
(***************************************************************************)
OnlyNamesakeEvicted ==
    [][ \A d \in Conn, s \in Sess :
          reading = d /\ s # d /\ fd[s] = "open" /\ fd'[s] = "closed" =>
             s \in Conn /\ sname'[d] = sname[s] ]_vars

(***************************************************************************)
(* Every socket select() is asked about is open, so that the server keeps  *)
(* hearing its clients (p2p.c:75-77, p2pclient.c:198).                     *)
(***************************************************************************)
Listening == ~Deaf

(***************************************************************************)
(* An $auth disconnects the old connection of its name, never the one it   *)
(* came on (moniclient_callback.c:41-50).                                  *)
(***************************************************************************)
AuthKeepsItself ==
    [][ \A c \in Conn : reading = c /\ parser[c] = "moniclient" /\ fd[c] = "open"
                         => fd'[c] = "open" ]_vars

\* A closed connection is freed in the end (net.c:166-200).
DeadFreed == \A c \in Conn : dead[c] > 0 ~> mem[c] = "freed"

\* A lost connection to printsvr is set up again, unless the program exits first
\* (net.c:184-194).
PrintsvrReturns ==
    dead[Printsvr] > 0 ~> fd[Printsvr] = "open" \/ pc = "exit"
=============================================================================
