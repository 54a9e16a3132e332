---------------------------- MODULE SessionProof ----------------------------
(***************************************************************************)
(* Proofs about Session, for every set of connections, names and socket    *)
(* numbers.  Queued holds whatever the clients and printsvr do; the        *)
(* theorems on the table assume well-behaved clients (Faults).             *)
(***************************************************************************)
EXTENDS SessionDirectory, TLAPS

(***************************************************************************)
(* The inductive invariant.  The queue discipline needs to know where the  *)
(* loop is: printsvr may stand in session_que although it is closed, but   *)
(* only until clear_deads_from_lives, or after a reconnect that failed at  *)
(* once, and then binitsess is off.                                        *)
(***************************************************************************)
Open(s) == fd[s] = "open"

Numbered ==
    /\ \A s \in Sess : Open(s) => num[s] \in Num
    /\ \A s, t \in Sess : Open(s) /\ Open(t) /\ num[s] = num[t] => s = t
    /\ \A c \in Conn : want_read[c] => num[c] \in Num
    /\ reading = Printsvr => num[Printsvr] \in Num

PrintsvrPlace ==
    /\ ~Open(Printsvr) /\ pc = "save" => lives[Printsvr] = 0
    /\ ~Open(Printsvr) /\ pc = "zombie" /\ lives[Printsvr] > 0 => fresh /\ ~binitsess
    /\ ~Open(Printsvr) /\ pc \in {"clear", "ping"} /\ lives[Printsvr] > 0 => ~binitsess

LoopPlace ==
    /\ reading # Nobody => pc = "mio"
    /\ pc # "clear" => \A s \in Sess : zombies[s] = 0

QInv ==
    /\ TypeOK
    /\ ConnQueued
    /\ PrintsvrQueued
    /\ Numbered
    /\ PrintsvrPlace
    /\ LoopPlace

----------------------------------------------------------------------------
(***************************************************************************)
(* The table.                                                              *)
(***************************************************************************)
LEMMA ZappedShrinks ==
    ASSUME NEW tbl, NEW nm, NEW n, NEW t \in Zapped(tbl, nm, n)
    PROVE  t \subseteq tbl
BY DEF Zapped

LEMMA ZappedOfShrinks ==
    ASSUME NEW tbl, NEW nm, NEW K, NEW t \in ZappedOf(tbl, nm, K)
    PROVE  t \subseteq tbl
BY ZappedShrinks DEF ZappedOf

LEMMA StoredAdds ==
    ASSUME NEW tbl, NEW nm, NEW n, NEW c, NEW t \in Stored(tbl, nm, n, c)
    PROVE  t \subseteq tbl \cup {<<n, c>>}
BY ZappedShrinks DEF Stored

(***************************************************************************)
(* Closing open sessions, wherever the loop may do it but in clear_zombies. *)
(***************************************************************************)
LEMMA ClosingKeepsQueues ==
    ASSUME QInv, NEW K, NEW F,
           K \subseteq Sess, \A s \in K : Open(s),
           Closing(K, F),
           pc \notin {"clear", "exit"}, pc' \in {"mio", "coms"},
           UNCHANGED <<mem, zombies>>
    PROVE  /\ ConnQueued' /\ PrintsvrQueued' /\ PrintsvrPlace'
           /\ pc' # "clear" => \A s \in Sess : zombies'[s] = 0
<1>1. /\ \A s \in Sess : zombies[s] = 0
      /\ fd \in [Sess -> {"open", "closed"}]
      /\ lives \in [Sess -> Nat] /\ dead \in [Sess -> Nat]
  BY DEF QInv, LoopPlace, TypeOK
<1>2. /\ \A s \in Sess : fd'[s] = IF s \in K THEN "closed" ELSE fd[s]
      /\ \A s \in Sess : lives'[s] = IF s \in K \cap Conn THEN Less(lives[s]) ELSE lives[s]
      /\ \A s \in Sess : dead'[s] = IF s \in K THEN dead[s] + 1 ELSE dead[s]
      /\ zombies' = zombies /\ mem' = mem
  BY DEF Closing
<1>3. ConnQueued'
  <2> SUFFICES ASSUME NEW c \in Conn
               PROVE  /\ mem'[c] \in {"none", "freed"} =>
                            fd'[c] = "closed" /\ lives'[c] = 0 /\ zombies'[c] = 0 /\ dead'[c] = 0
                      /\ fd'[c] = "open" => lives'[c] + zombies'[c] = 1 /\ dead'[c] = 0
                      /\ mem'[c] = "alloc" /\ fd'[c] = "closed" =>
                            lives'[c] = 0 /\ zombies'[c] = 0 /\ dead'[c] = 1
    BY DEF ConnQueued
  <2>1. c \in Sess
    BY DEF Sess
  <2>2. /\ mem[c] \in {"none", "freed"} =>
             fd[c] = "closed" /\ lives[c] = 0 /\ zombies[c] = 0 /\ dead[c] = 0
        /\ fd[c] = "open" => lives[c] + zombies[c] = 1 /\ dead[c] = 0
        /\ mem[c] = "alloc" /\ fd[c] = "closed" =>
             lives[c] = 0 /\ zombies[c] = 0 /\ dead[c] = 1
    BY DEF QInv, ConnQueued
  <2>3. CASE c \in K
    BY <1>1, <1>2, <2>1, <2>2, <2>3 DEF Less, Open
  <2>4. CASE c \notin K
    BY <1>1, <1>2, <2>1, <2>2, <2>4
  <2> QED BY <2>3, <2>4
<1>4. Printsvr \in Sess /\ Printsvr \notin Conn
  BY SessionAssumption DEF Sess
<1>5. PrintsvrQueued'
  BY <1>1, <1>2, <1>4 DEF PrintsvrQueued, QInv, Open
<1>6. PrintsvrPlace'
  BY DEF PrintsvrPlace
<1>7. pc' # "clear" => \A s \in Sess : zombies'[s] = 0
  BY <1>1, <1>2
<1> QED BY <1>3, <1>5, <1>6, <1>7

LEMMA ClosingKeepsTypes ==
    ASSUME TypeOK, Numbered, NEW K, NEW F, Closing(K, F), reading' \in {reading, Nobody}
    PROVE  /\ Numbered'
           /\ fd' \in [Sess -> {"open", "closed"}] /\ num' \in [Sess -> Num \cup {NoNum}]
           /\ want_read' \in [Sess -> BOOLEAN]
           /\ lives' \in [Sess -> Nat] /\ dead' \in [Sess -> Nat]
           /\ wbufq' \in BOOLEAN
<1>1. Less(0) \in Nat /\ \A k \in Nat : Less(k) \in Nat
  BY DEF Less
<1>2. /\ fd' \in [Sess -> {"open", "closed"}] /\ num' \in [Sess -> Num \cup {NoNum}]
      /\ want_read' \in [Sess -> BOOLEAN]
      /\ lives' \in [Sess -> Nat] /\ dead' \in [Sess -> Nat]
      /\ wbufq' \in BOOLEAN
  BY <1>1 DEF Closing, TypeOK
<1>3. Numbered'
  <2>1. /\ \A s \in Sess : Open(s)' => Open(s)
        /\ \A s \in Sess : want_read'[s] => want_read[s]
        /\ num' = num
    BY DEF Closing, Open
  <2>2. Conn \subseteq Sess /\ Nobody # Printsvr
    BY SessionAssumption DEF Sess
  <2> QED BY <2>1, <2>2 DEF Numbered
<1> QED BY <1>2, <1>3

\* The rest of the variables only have to keep their types.
LEMMA ClosingKeepsInv ==
    ASSUME QInv, NEW K, NEW F,
           K \subseteq Sess, \A s \in K : Open(s),
           Closing(K, F),
           pc \notin {"clear", "exit"}, pc' \in {"mio", "coms"},
           reading' \in {reading, Nobody}, reading' # Nobody => pc' = "mio",
           UNCHANGED <<mem, zombies, fresh, wild>>,
           watched' \subseteq Num, nodes' \subseteq Name \X Conn,
           sname' \in [Conn -> Name \cup {NoName}],
           parser' \in [Conn -> {"opensess", "moniclient"}],
           binitsess' \in BOOLEAN
    PROVE  QInv'
<1>1. /\ ConnQueued' /\ PrintsvrQueued' /\ PrintsvrPlace'
      /\ pc' # "clear" => \A s \in Sess : zombies'[s] = 0
  BY ClosingKeepsQueues
<1>2. TypeOK /\ Numbered
  BY DEF QInv
<1>3. /\ Numbered'
      /\ fd' \in [Sess -> {"open", "closed"}] /\ num' \in [Sess -> Num \cup {NoNum}]
      /\ want_read' \in [Sess -> BOOLEAN]
      /\ lives' \in [Sess -> Nat] /\ dead' \in [Sess -> Nat]
      /\ wbufq' \in BOOLEAN
  BY <1>2, ClosingKeepsTypes
<1>4. TypeOK'
  BY <1>2, <1>3 DEF TypeOK
<1>5. LoopPlace'
  BY <1>1 DEF LoopPlace
<1> QED BY <1>1, <1>3, <1>4, <1>5 DEF QInv

LEMMA CloseSessKeepsInv ==
    ASSUME QInv, NEW K, NEW F,
           K \subseteq Sess, \A s \in K : Open(s),
           CloseSess(K, F),
           pc \notin {"clear", "exit"}, pc' \in {"mio", "coms"},
           reading' \in {reading, Nobody}, reading' # Nobody => pc' = "mio",
           UNCHANGED <<mem, zombies, fresh, wild, sname>>,
           parser' \in [Conn -> {"opensess", "moniclient"}],
           binitsess' \in BOOLEAN
    PROVE  QInv'
<1>1. TypeOK
  BY DEF QInv
<1>2. Closing(K, F) /\ watched' \subseteq watched /\ nodes' \subseteq nodes
  BY ZappedOfShrinks DEF CloseSess, Unwatched
<1>3. /\ watched' \subseteq Num /\ nodes' \subseteq Name \X Conn
      /\ sname' \in [Conn -> Name \cup {NoName}]
  BY <1>1, <1>2 DEF TypeOK
<1> QED BY <1>2, <1>3, ClosingKeepsInv

\* Nothing but the socket being read, the read set, the parser and binitsess.
LEMMA QuietKeepsInv ==
    ASSUME QInv, NoClose,
           UNCHANGED <<mem, zombies, fresh, wild, sname>>,
           watched' \subseteq Num,
           reading' \in {reading, Nobody}, reading' # Nobody => pc' = "mio",
           (pc \in {"mio", "coms"} /\ pc' = pc) \/ (pc = "ping" /\ pc' = "coms"),
           parser' \in [Conn -> {"opensess", "moniclient"}],
           binitsess' \in BOOLEAN
    PROVE  QInv'
<1>1. TypeOK'
  BY DEF QInv, TypeOK, NoClose
<1>2. ConnQueued' /\ PrintsvrQueued'
  BY DEF QInv, ConnQueued, PrintsvrQueued, NoClose
<1>3. Numbered'
  BY SessionAssumption DEF QInv, Numbered, NoClose, Open
<1>4. PrintsvrPlace' /\ LoopPlace'
  BY DEF QInv, PrintsvrPlace, LoopPlace, NoClose, Open
<1> QED BY <1>1, <1>2, <1>3, <1>4 DEF QInv

\* Using freed memory stops the model where it is.
LEMMA GoWildKeepsInv == QInv /\ GoWild => QInv'
BY DEF GoWild, QInv, TypeOK, ConnQueued, PrintsvrQueued, Numbered, PrintsvrPlace,
       LoopPlace, Open, vars, sockets, queues, table, stream

LEMMA StutterKeepsInv == QInv /\ UNCHANGED vars => QInv'
BY DEF QInv, TypeOK, ConnQueued, PrintsvrQueued, Numbered, PrintsvrPlace,
       LoopPlace, Open, vars, sockets, queues, table, stream

\* What mio_read adds to the read set is a socket number.
LEMMA RereadIsNum ==
    ASSUME QInv, NEW s \in Sess, s \in Conn \/ reading = Printsvr
    PROVE  Reread(s) \subseteq Num
BY SessionAssumption DEF QInv, Numbered, Reread, Sess

----------------------------------------------------------------------------
(***************************************************************************)
(* One lemma for each group of actions: QInv is preserved.                 *)
(***************************************************************************)
LEMMA AcceptKeepsInv ==
    ASSUME QInv, NEW c \in Conn, NEW k \in Num, Accept(c, k)
    PROVE  QInv'
<1>1. c \in Sess /\ c # Printsvr /\ Printsvr \in Sess /\ Conn \subseteq Sess
  BY SessionAssumption DEF Sess
<1>2. TypeOK /\ fd[c] = "closed" /\ lives[c] = 0 /\ zombies[c] = 0 /\ dead[c] = 0
  BY DEF QInv, ConnQueued, Accept
<1>3. TypeOK'
  BY <1>1, <1>2 DEF TypeOK, Accept, table, stream
<1>4. ConnQueued'
  BY <1>1, <1>2 DEF QInv, TypeOK, ConnQueued, Accept
<1>5. PrintsvrQueued' /\ PrintsvrPlace' /\ LoopPlace'
  BY <1>1, <1>2 DEF QInv, TypeOK, PrintsvrQueued, PrintsvrPlace, LoopPlace, Open, Accept, stream
<1>6. Numbered'
  <2>1. \A s \in Sess : Open(s) => num[s] # k
    BY DEF Accept, FreeNums, OpenAt, Open
  <2> QED BY <1>1, <1>2, <2>1, SessionAssumption DEF QInv, TypeOK, Numbered, Accept, Open
<1> QED BY <1>3, <1>4, <1>5, <1>6 DEF QInv

LEMMA HangUpKeepsInv ==
    ASSUME QInv, NEW s \in Sess, NEW F, HangUp(s, F)
    PROVE  QInv'
<1>1. CASE GoWild
  BY <1>1, GoWildKeepsInv
<1>2. CASE CloseSess({s}, F) /\ UNCHANGED <<Elsewhere, reading, pc>>
  <2>1. /\ {s} \subseteq Sess /\ \A x \in {s} : Open(x)
        /\ pc = "mio" /\ pc' = "mio" /\ reading' = reading
        /\ UNCHANGED <<mem, zombies, fresh, wild, sname, parser, binitsess>>
    BY <1>2 DEF HangUp, InMio, Open, Elsewhere
  <2>2. /\ parser' \in [Conn -> {"opensess", "moniclient"}] /\ binitsess' \in BOOLEAN
    BY <2>1 DEF QInv, TypeOK
  <2> QED BY <1>2, <2>1, <2>2, CloseSessKeepsInv
<1> QED BY <1>1, <1>2 DEF HangUp

LEMMA ChunkKeepsInv ==
    ASSUME QInv, (\E s \in Sess : BeginChunk(s)) \/ EndChunk
    PROVE  QInv'
<1>1. ASSUME NEW s \in Sess, BeginChunk(s)
      PROVE  QInv'
  <2>1. TypeOK' /\ ConnQueued' /\ PrintsvrQueued' /\ PrintsvrPlace' /\ LoopPlace'
    BY <1>1 DEF QInv, TypeOK, ConnQueued, PrintsvrQueued, PrintsvrPlace, LoopPlace, Open,
                BeginChunk, InMio, sockets, queues, table, stream
  <2>2. Numbered'
    BY <1>1 DEF QInv, Numbered, Open, BeginChunk, sockets
  <2> QED BY <2>1, <2>2 DEF QInv
<1>2. ASSUME EndChunk
      PROVE  QInv'
  <2>1. watched' \subseteq Num
    <3>1. Printsvr \in Sess
      BY DEF Sess
    <3>2. CASE reading = Printsvr
      BY <1>2, <3>1, <3>2, RereadIsNum DEF EndChunk, QInv, TypeOK
    <3>3. CASE reading # Printsvr
      BY <1>2, <3>3 DEF EndChunk, QInv, TypeOK
    <3> QED BY <3>2, <3>3
  <2>2. /\ NoClose /\ UNCHANGED <<mem, zombies, fresh, wild, sname>>
        /\ reading' = Nobody /\ pc' = pc /\ pc = "mio"
        /\ parser' = parser /\ binitsess' = binitsess
    BY <1>2 DEF EndChunk, InMio, NoClose, queues, table, stream
  <2>3. parser' \in [Conn -> {"opensess", "moniclient"}] /\ binitsess' \in BOOLEAN
    BY <2>2 DEF QInv, TypeOK
  <2> QED BY <2>1, <2>2, <2>3, QuietKeepsInv
<1> QED BY <1>1, <1>2

LEMMA InitSessKeepsInv ==
    ASSUME QInv, NEW c \in Conn, BadInitSess(c) \/ GoodInitSess(c)
    PROVE  QInv'
<1>0. c \in Sess /\ TypeOK
  BY DEF Sess, QInv
<1>1. ASSUME BadInitSess(c)
      PROVE  QInv'
  <2>1. /\ CloseSess({c}, {}) /\ {c} \subseteq Sess /\ \A x \in {c} : Open(x)
        /\ pc = "mio" /\ pc' = "mio" /\ reading' = reading
        /\ UNCHANGED <<mem, zombies, fresh, wild, sname, parser, binitsess>>
    BY <1>0, <1>1 DEF BadInitSess, InMio, Open, Elsewhere
  <2>2. parser' \in [Conn -> {"opensess", "moniclient"}] /\ binitsess' \in BOOLEAN
    BY <1>0, <2>1 DEF TypeOK
  <2> QED BY <2>1, <2>2, CloseSessKeepsInv
<1>2. ASSUME GoodInitSess(c)
      PROVE  QInv'
  <2>1. /\ pc = "mio" /\ pc' = "mio" /\ reading' = Nobody
        /\ UNCHANGED <<mem, zombies, fresh, wild, sname, binitsess>>
        /\ parser' \in [Conn -> {"opensess", "moniclient"}] /\ binitsess' \in BOOLEAN
    BY <1>0, <1>2 DEF GoodInitSess, InMio, TypeOK
  <2>2. CASE watched' = watched \cup Reread(c) /\ NoClose
    <3>1. watched' \subseteq Num
      BY <1>0, <2>2, RereadIsNum DEF TypeOK
    <3> QED BY <2>1, <2>2, <3>1, QuietKeepsInv
  <2>3. CASE fd[c] = "open" /\ CloseSess({c}, {c})
    <3>1. {c} \subseteq Sess /\ \A x \in {c} : Open(x)
      BY <1>0, <2>3 DEF Open
    <3> QED BY <2>1, <2>3, <3>1, CloseSessKeepsInv
  <2> QED BY <1>2, <2>2, <2>3 DEF GoodInitSess
<1> QED BY <1>1, <1>2

LEMMA PongKeepsInv ==
    ASSUME QInv, NEW c \in Conn, PongSent(c) \/ PongFails(c)
    PROVE  QInv'
<1>1. CASE GoWild
  BY <1>1, GoWildKeepsInv
<1>2. CASE PongFails(c) /\ CloseSess({c}, {c}) /\ UNCHANGED <<Elsewhere, reading, pc>>
  <2>1. /\ {c} \subseteq Sess /\ \A x \in {c} : Open(x)
        /\ pc = "mio" /\ pc' = "mio" /\ reading' = reading
        /\ UNCHANGED <<mem, zombies, fresh, wild, sname, parser, binitsess>>
    BY <1>2 DEF PongFails, InMio, Open, Elsewhere, Sess
  <2>2. parser' \in [Conn -> {"opensess", "moniclient"}] /\ binitsess' \in BOOLEAN
    BY <2>1 DEF QInv, TypeOK
  <2> QED BY <1>2, <2>1, <2>2, CloseSessKeepsInv
<1>3. CASE PongSent(c)
  <2>1. /\ pc = "mio" /\ pc' = "mio" /\ reading' = reading /\ NoClose
        /\ UNCHANGED <<mem, zombies, fresh, wild, sname, parser, binitsess>>
    BY <1>3 DEF PongSent, InMio, Elsewhere
  <2>2. /\ parser' \in [Conn -> {"opensess", "moniclient"}] /\ binitsess' \in BOOLEAN
        /\ watched' \subseteq Num
    BY <1>3, <2>1, RereadIsNum DEF QInv, TypeOK, PongSent, Sess
  <2> QED BY <2>1, <2>2, QuietKeepsInv
<1> QED BY <1>1, <1>2, <1>3 DEF PongFails

LEMMA AuthKeepsInv ==
    ASSUME QInv, NEW c \in Conn, NEW n \in Name, NEW complete \in BOOLEAN,
           AuthFrame(c, n, complete)
    PROVE  QInv'
<1> DEFINE nm == [sname EXCEPT ![c] = n]
<1>1. CASE GoWild
  BY <1>1, GoWildKeepsInv
<1>2. ASSUME NEW old \in OldSess(nm, n),
             sname' = nm,
             IF complete THEN AuthRegister(c, n, nm, Victims(old))
             ELSE AuthAbandon(nm, Victims(old)),
             UNCHANGED <<mem, zombies, parser, reading, binitsess, fresh, pc, wild>>
      PROVE  QInv'
  <2> DEFINE K == Victims(old)
  <2>1. /\ c \in Sess /\ TypeOK
        /\ K \subseteq Sess /\ \A s \in K : Open(s)
    BY DEF Sess, QInv, Victims, OpenAt, Open
  <2>2. /\ pc = "mio" /\ pc' = "mio" /\ reading' = reading
        /\ UNCHANGED <<mem, zombies, fresh, wild>>
        /\ sname' \in [Conn -> Name \cup {NoName}]
        /\ parser' \in [Conn -> {"opensess", "moniclient"}] /\ binitsess' \in BOOLEAN
    BY <1>2, <2>1 DEF AuthFrame, InMio, TypeOK
  <2>3. CASE AuthRegister(c, n, nm, K)
    <3>1. PICK F \in {{}} \cup (IF AckFails(c, K) THEN {{c}} ELSE {}) :
            /\ Closing(K \cup F, F)
            /\ watched' = IF F = {} THEN Unwatched(K) \cup Reread(c) ELSE Unwatched(K \cup F)
            /\ \E left \in ZappedOf(nodes, nm, K) :
                 \E t \in ZappedOf(left, nm, F) : nodes' \in Stored(t, nm, n, c)
      BY <2>3 DEF AuthRegister
    <3>2. K \cup F \subseteq Sess /\ \A s \in K \cup F : Open(s)
      BY <2>1 DEF AckFails, Open
    <3>3. watched' \subseteq Num
      BY <2>1, <3>1, RereadIsNum DEF Unwatched, TypeOK
    <3>4. nodes' \subseteq nodes \cup {<<n, c>>}
      BY <3>1, ZappedOfShrinks, StoredAdds
    <3>5. nodes' \subseteq Name \X Conn
      BY <2>1, <3>4 DEF TypeOK
    <3> QED BY <2>2, <3>1, <3>2, <3>3, <3>5, ClosingKeepsInv
  <2>4. CASE AuthAbandon(nm, K)
    <3>1. Closing(K, {}) /\ watched' \subseteq Num /\ nodes' \subseteq Name \X Conn
      BY <2>1, <2>4, ZappedOfShrinks DEF AuthAbandon, Unwatched, TypeOK
    <3> QED BY <2>1, <2>2, <3>1, ClosingKeepsInv
  <2> QED BY <1>2, <2>3, <2>4
<1> QED BY <1>1, <1>2 DEF AuthFrame

LEMMA ForwardMoniKeepsInv ==
    ASSUME QInv, ForwardMoni
    PROVE  QInv'
<1>1. CASE GoWild
  BY <1>1, GoWildKeepsInv
<1>2. ASSUME NEW o \in Match(nodes, sname, Moni),
             IF fd[o] = "open" THEN CloseSess({o}, {o})
             ELSE watched' = watched \cup Reread(o) /\ NoClose,
             UNCHANGED <<Elsewhere, reading, pc>>
      PROVE  QInv'
  <2>1. /\ o \in Conn /\ o \in Sess /\ TypeOK
        /\ pc \in {"mio", "coms"} /\ pc' = pc /\ reading' = reading
        /\ reading # Nobody => pc = "mio"
        /\ UNCHANGED <<mem, zombies, fresh, wild, sname, parser, binitsess>>
    BY <1>2 DEF Match, Sess, QInv, LoopPlace, ForwardMoni, Elsewhere
  <2>2. parser' \in [Conn -> {"opensess", "moniclient"}] /\ binitsess' \in BOOLEAN
    BY <2>1 DEF TypeOK
  <2>3. CASE fd[o] = "open"
    BY <1>2, <2>1, <2>2, <2>3, CloseSessKeepsInv DEF Open
  <2>4. CASE fd[o] # "open"
    <3>1. NoClose /\ watched' \subseteq Num
      BY <1>2, <2>1, <2>4, RereadIsNum DEF TypeOK
    <3> QED BY <2>1, <2>2, <3>1, QuietKeepsInv
  <2> QED BY <2>3, <2>4
<1> QED BY <1>1, <1>2 DEF ForwardMoni

\* The steps that write to printsvr, and its refusals.
LEMMA PrintsvrKeepsInv ==
    ASSUME QInv, InitAckOk \/ Refused \/ ForwardPrint \/ Ping
    PROVE  QInv'
<1>1. /\ TypeOK /\ Printsvr \in Sess
      /\ pc \notin {"clear", "exit"} /\ pc' \in {"mio", "coms"}
      /\ (pc \in {"mio", "coms"} /\ pc' = pc) \/ (pc = "ping" /\ pc' = "coms")
      /\ reading' = reading /\ (reading # Nobody => pc' = "mio")
      /\ UNCHANGED <<mem, zombies, fresh, wild, sname, parser>>
      /\ binitsess' \in {TRUE, binitsess}
  BY DEF Sess, QInv, LoopPlace, InitAckOk, Refused, ForwardPrint, Ping, InMio, Elsewhere
<1>2. parser' \in [Conn -> {"opensess", "moniclient"}] /\ binitsess' \in BOOLEAN
  BY <1>1 DEF TypeOK
<1>3. CASE NoWrite
  <2>1. NoClose /\ watched' \subseteq Num
    BY <1>1, <1>3 DEF NoWrite, TypeOK
  <2> QED BY <1>1, <1>2, <2>1, QuietKeepsInv
<1>4. ASSUME fd[Printsvr] = "open", NEW F, CloseSess({Printsvr}, F)
      PROVE  QInv'
  BY <1>1, <1>2, <1>4, CloseSessKeepsInv DEF Open
<1> QED BY <1>3, <1>4 DEF InitAckOk, Refused, ForwardPrint, Ping, PrintsvrWriteFails

LEMMA EndMioKeepsInv ==
    ASSUME QInv, EndMio \/ SkipSave \/ EndClear \/ EndComs
    PROVE  QInv'
<1>1. /\ UNCHANGED <<mem, sockets, queues, table, parser, reading, stream, wild>>
      /\ reading' # Nobody => pc' = "mio"
      /\ pc' \in {"mio", "deads", "zombie", "ping"}
      /\ pc' # "clear" /\ pc # "exit"
      /\ pc' = "zombie" => pc = "save"
      /\ pc' = "ping" => pc = "clear" /\ \A s \in Sess : zombies[s] = 0
      /\ pc # "clear" \/ pc' = "ping"
  BY DEF QInv, LoopPlace, EndMio, SkipSave, EndClear, EndComs, InMio
<1>2. TypeOK' /\ ConnQueued' /\ Numbered' /\ PrintsvrQueued' /\ LoopPlace'
  BY <1>1 DEF QInv, TypeOK, ConnQueued, Numbered, PrintsvrQueued, LoopPlace, Open,
              sockets, queues, table, stream
<1>3. PrintsvrPlace'
  BY <1>1 DEF QInv, PrintsvrPlace, Open, sockets, queues, stream
<1> QED BY <1>2, <1>3 DEF QInv

LEMMA ClearDeadsKeepsInv ==
    ASSUME QInv, ClearDeads
    PROVE  QInv'
<1>1. /\ Printsvr \in Sess /\ Conn \subseteq Sess
      /\ \A s \in Sess : lives'[s] = IF lives[s] > dead[s] THEN lives[s] - dead[s] ELSE 0
      /\ \A s \in Sess : lives[s] \in Nat /\ dead[s] \in Nat /\ zombies[s] = 0
      /\ \A s \in Sess : fd[s] \in {"open", "closed"}
  BY DEF Sess, QInv, TypeOK, LoopPlace, ClearDeads, Cleared
<1>2. TypeOK' /\ Numbered' /\ LoopPlace'
  BY <1>1 DEF QInv, TypeOK, Numbered, LoopPlace, Open, ClearDeads, Cleared, sockets, table, stream
<1>3. ConnQueued'
  BY <1>1 DEF QInv, ConnQueued, ClearDeads, sockets
<1>4. PrintsvrQueued' /\ PrintsvrPlace'
  BY <1>1 DEF QInv, PrintsvrQueued, PrintsvrPlace, Open, ClearDeads, sockets, stream
<1> QED BY <1>2, <1>3, <1>4 DEF QInv

LEMMA SaveDeadKeepsInv ==
    ASSUME QInv, NEW outcome \in Outcomes, SaveDead(outcome)
    PROVE  QInv'
<1>1. /\ Printsvr \in Sess /\ Conn \subseteq Sess /\ Printsvr \notin Conn
      /\ Nobody # Printsvr /\ NoNum \notin Num
      /\ TypeOK /\ pc = "save" /\ pc' = "zombie" /\ reading = Nobody /\ reading' = Nobody
      /\ \A s \in Sess : zombies[s] = 0
  BY SessionAssumption DEF Sess, QInv, LoopPlace, SaveDead
<1>2. /\ \A c \in Conn : dead'[c] = 0
      /\ \A c \in Conn : mem'[c] = IF dead[c] > 0 THEN "freed" ELSE mem[c]
      /\ zombies' = zombies /\ sname' = sname /\ nodes' = nodes /\ parser' = parser
      /\ wild' = wild
      /\ mem' \in [Sess -> {"none", "alloc", "freed"}]
      /\ dead' \in [Sess -> Nat]
      /\ dead'[Printsvr] = IF outcome # "up" THEN dead[Printsvr] ELSE 0
  BY <1>1 DEF SaveDead, StillDead, Freed, DeadConns, TypeOK, table
<1>3. CASE dead[Printsvr] > 0
  <2>1. PICK k \in FreeNums : Reconnect(outcome, k)
    BY <1>3 DEF SaveDead
  <2>2. k \in Num /\ \A s \in Sess : Open(s) => num[s] # k
    BY DEF FreeNums, OpenAt, Open
  <2>3. ~Open(Printsvr) /\ dead[Printsvr] = 1 /\ lives[Printsvr] = 0
    BY <1>1, <1>3 DEF QInv, PrintsvrQueued, PrintsvrPlace, Open, TypeOK
  <2>4. \A c \in Conn : fd'[c] = fd[c] /\ lives'[c] = lives[c] /\ num'[c] = num[c]
                          /\ want_read'[c] = want_read[c]
    BY <1>1, <2>1 DEF Reconnect, TypeOK
  <2>5. TypeOK'
    <3>1. fd' \in [Sess -> {"open", "closed"}] /\ num' \in [Sess -> Num \cup {NoNum}]
      BY <1>1, <2>1, <2>2 DEF TypeOK, Reconnect
    <3>2. watched' \subseteq Num
      BY <1>1, <2>1, <2>2 DEF TypeOK, Reconnect, Outcomes
    <3>3. want_read' \in [Sess -> BOOLEAN]
      <4>1. (CASE outcome = "up" -> TRUE [] outcome = "lost" -> FALSE
               [] OTHER -> want_read[Printsvr]) \in BOOLEAN
        BY <1>1 DEF TypeOK, Outcomes
      <4> QED BY <1>1, <2>1, <4>1 DEF TypeOK, Reconnect
    <3>4. lives' \in [Sess -> Nat]
      BY <1>1, <2>1, <2>3 DEF TypeOK, Reconnect
    <3>5. binitsess' \in BOOLEAN /\ wbufq' \in BOOLEAN /\ fresh' \in BOOLEAN
      BY <2>1 DEF Reconnect
    <3> QED BY <1>1, <1>2, <3>1, <3>2, <3>3, <3>4, <3>5 DEF TypeOK
  <2>6. ConnQueued'
    BY <1>1, <1>2, <2>4 DEF QInv, ConnQueued, TypeOK
  <2>7. /\ fd'[Printsvr] = IF outcome = "up" THEN "open" ELSE "closed"
        /\ lives'[Printsvr] = IF outcome = "refused" THEN 0 ELSE 1
        /\ (outcome # "refused" => fresh')
        /\ ~binitsess'
        /\ num'[Printsvr] = IF outcome = "refused" THEN NoNum ELSE k
    <3>1. (outcome # "refused" => fresh') /\ ~binitsess'
      BY <2>1 DEF Reconnect
    <3> QED BY <1>1, <2>1, <2>3, <3>1 DEF Reconnect, TypeOK
  <2>8. PrintsvrQueued'
    BY <1>1, <1>2, <2>3, <2>7 DEF PrintsvrQueued, Outcomes
  <2>9. PrintsvrPlace' /\ LoopPlace'
    <3>1. lives'[Printsvr] > 0 => outcome # "refused"
      BY <2>7
    <3>2. PrintsvrPlace'
      BY <1>1, <2>7, <3>1 DEF PrintsvrPlace
    <3>3. LoopPlace'
      BY <1>1, <1>2 DEF LoopPlace
    <3> QED BY <3>2, <3>3
  <2>10. Numbered'
    <3>1. ASSUME NEW s \in Sess, Open(s)'
          PROVE  num'[s] \in Num /\ (s \in Conn => Open(s) /\ num'[s] = num[s])
                 /\ (s = Printsvr => num'[s] = k)
      BY <1>1, <2>2, <2>4, <2>7, <3>1 DEF QInv, Numbered, Open, Sess
    <3>2. ASSUME NEW s \in Sess, NEW t \in Sess, Open(s)', Open(t)', num'[s] = num'[t]
          PROVE  s = t
      BY <1>1, <2>2, <3>1, <3>2 DEF QInv, Numbered, Sess
    <3>3. \A c \in Conn : want_read'[c] => num'[c] \in Num
      BY <2>4 DEF QInv, Numbered
    <3> QED BY <1>1, <3>1, <3>2, <3>3 DEF Numbered
  <2> QED BY <2>5, <2>6, <2>8, <2>9, <2>10 DEF QInv
<1>4. CASE ~(dead[Printsvr] > 0)
  <2>1. UNCHANGED <<sockets, lives, stream>>
    BY <1>4 DEF SaveDead
  <2>2. Open(Printsvr) /\ dead[Printsvr] = 0
    BY <1>1, <1>4 DEF QInv, PrintsvrQueued, TypeOK, Open
  <2>3. TypeOK' /\ Numbered' /\ LoopPlace' /\ PrintsvrPlace'
    BY <1>1, <1>2, <2>1, <2>2 DEF QInv, TypeOK, Numbered, LoopPlace, PrintsvrPlace, Open, sockets, stream
  <2>4. ConnQueued'
    BY <1>1, <1>2, <2>1 DEF QInv, ConnQueued, TypeOK, sockets
  <2>5. PrintsvrQueued'
    BY <1>1, <1>2, <2>1, <2>2 DEF QInv, PrintsvrQueued, Open, sockets
  <2> QED BY <2>3, <2>4, <2>5 DEF QInv
<1> QED BY <1>3, <1>4

LEMMA RemoveZombiesKeepsInv ==
    ASSUME QInv, NEW Z \in SUBSET Sess, RemoveZombies(Z)
    PROVE  QInv'
<1>1. /\ Printsvr \in Sess /\ Conn \subseteq Sess
      /\ TypeOK /\ pc = "zombie" /\ pc' = "clear" /\ reading = Nobody
      /\ \A s \in Sess : zombies[s] = 0
      /\ \A s \in Sess : lives'[s] = IF s \in Z THEN 0 ELSE lives[s]
      /\ \A s \in Sess : zombies'[s] = IF s \in Z THEN lives[s] ELSE 0
  BY DEF Sess, QInv, LoopPlace, RemoveZombies, TypeOK
<1>2. \A s \in Z : Open(s)
  BY <1>1 DEF QInv, ConnQueued, PrintsvrPlace, RemoveZombies, Sess, Open, TypeOK
<1>3. TypeOK' /\ Numbered' /\ LoopPlace'
  BY <1>1 DEF QInv, TypeOK, Numbered, LoopPlace, Open, RemoveZombies, sockets, table
<1>4. ConnQueued'
  BY <1>1, <1>2 DEF QInv, ConnQueued, Open, RemoveZombies, sockets, TypeOK
<1>5. PrintsvrQueued' /\ PrintsvrPlace'
  BY <1>1, <1>2 DEF QInv, PrintsvrQueued, PrintsvrPlace, Open, RemoveZombies, sockets, TypeOK
<1> QED BY <1>3, <1>4, <1>5 DEF QInv

\* The zombie pulled is open and alone behind its number: it is what is closed.
LEMMA ZombieAlone ==
    ASSUME QInv, NEW z \in Sess, ClearZombie(z)
    PROVE  /\ Open(z) /\ zombies[z] = 1 /\ lives[z] = 0 /\ dead[z] = 0
           /\ OpenAt(num[z]) = {z}
<1>1. TypeOK /\ Numbered /\ pc = "clear" /\ zombies[z] > 0 /\ zombies[z] \in Nat
  BY DEF QInv, TypeOK, ClearZombie
<1>2. Open(z) /\ zombies[z] = 1 /\ lives[z] = 0 /\ dead[z] = 0
  <2>1. CASE z = Printsvr
    BY <1>1, <2>1 DEF QInv, PrintsvrQueued, TypeOK, Open
  <2>2. CASE z \in Conn
    BY <1>1, <2>2 DEF QInv, ConnQueued, TypeOK, Open
  <2> QED BY <2>1, <2>2 DEF Sess
<1> QED BY <1>1, <1>2 DEF OpenAt, Numbered, Open

LEMMA ClearZombieKeepsInv ==
    ASSUME QInv, NEW z \in Sess, ClearZombie(z)
    PROVE  QInv'
<1>1. CASE GoWild
  BY <1>1, GoWildKeepsInv
<1>2. ASSUME zombies' = [zombies EXCEPT ![z] = @ - 1],
             CloseSess(OpenAt(num[z]), {}),
             UNCHANGED <<mem, sname, parser, reading, binitsess, fresh, pc, wild>>
      PROVE  QInv'
  <2>1. /\ Printsvr \in Sess /\ Conn \subseteq Sess /\ Printsvr \notin Conn
        /\ TypeOK /\ Numbered /\ pc = "clear" /\ reading = Nobody /\ zombies[z] > 0
    BY SessionAssumption DEF Sess, QInv, LoopPlace, ClearZombie
  <2>2. Open(z) /\ zombies[z] = 1 /\ lives[z] = 0 /\ dead[z] = 0
    BY ZombieAlone
  <2>3. OpenAt(num[z]) = {z}
    BY ZombieAlone
  <2>4. /\ Closing({z}, {}) /\ watched' \subseteq watched /\ nodes' \subseteq nodes
    BY <1>2, <2>3, ZappedOfShrinks DEF CloseSess, Unwatched
  <2>5. /\ Numbered'
        /\ fd' \in [Sess -> {"open", "closed"}] /\ num' \in [Sess -> Num \cup {NoNum}]
        /\ want_read' \in [Sess -> BOOLEAN]
        /\ lives' \in [Sess -> Nat] /\ dead' \in [Sess -> Nat]
        /\ wbufq' \in BOOLEAN
    BY <1>2, <2>1, <2>4, ClosingKeepsTypes
  <2>6. /\ \A s \in Sess : fd'[s] = IF s = z THEN "closed" ELSE fd[s]
        /\ \A s \in Sess : lives'[s] = lives[s]
        /\ \A s \in Sess : dead'[s] = IF s = z THEN 1 ELSE dead[s]
        /\ \A s \in Sess : zombies'[s] = IF s = z THEN 0 ELSE zombies[s]
        /\ \A s \in Sess : lives[s] \in Nat
    BY <1>2, <2>1, <2>2, <2>4 DEF Closing, Less, TypeOK
  <2>7. TypeOK'
    <3>1. zombies' \in [Sess -> Nat]
      BY <1>2, <2>1, <2>2 DEF TypeOK
    <3> QED BY <1>2, <2>1, <2>4, <2>5, <3>1 DEF TypeOK
  <2>8. ConnQueued'
    BY <1>2, <2>1, <2>2, <2>6 DEF QInv, ConnQueued, Open
  <2>9. PrintsvrQueued' /\ PrintsvrPlace' /\ LoopPlace'
    BY <1>2, <2>1, <2>2, <2>6 DEF QInv, PrintsvrQueued, PrintsvrPlace, LoopPlace, Open
  <2> QED BY <2>5, <2>7, <2>8, <2>9 DEF QInv
<1> QED BY <1>1, <1>2 DEF ClearZombie

LEMMA ShutdownKeepsInv ==
    ASSUME QInv, Shutdown
    PROVE  QInv'
<1>1. Conn \subseteq Sess /\ TypeOK /\ pc = "coms" /\ pc' = "exit"
  BY DEF Sess, QInv, Shutdown
<1>2. TypeOK' /\ Numbered' /\ LoopPlace' /\ PrintsvrPlace' /\ PrintsvrQueued'
  BY <1>1 DEF QInv, TypeOK, Numbered, LoopPlace, PrintsvrPlace, PrintsvrQueued, Open, Shutdown,
              Freed, sockets, table, stream
<1>3. ConnQueued'
  BY <1>1 DEF QInv, ConnQueued, TypeOK, Shutdown, Freed, sockets
<1> QED BY <1>2, <1>3 DEF QInv

LEMMA InitQInv == Init => QInv
<1> SUFFICES ASSUME Init PROVE QInv
  OBVIOUS
<1>1. PICK up \in BOOLEAN, k \in Num :
        /\ mem = [s \in Sess |-> IF s = Printsvr THEN "alloc" ELSE "none"]
        /\ fd = [s \in Sess |-> IF s = Printsvr /\ up THEN "open" ELSE "closed"]
        /\ num = [s \in Sess |-> IF s = Printsvr THEN k ELSE NoNum]
        /\ want_read = [s \in Sess |-> s = Printsvr /\ up]
        /\ watched = {j \in Num : j = k /\ up}
        /\ lives = [s \in Sess |-> IF s = Printsvr THEN 1 ELSE 0]
        /\ zombies = [s \in Sess |-> 0]
        /\ dead = [s \in Sess |-> IF s = Printsvr /\ ~up THEN 1 ELSE 0]
        /\ nodes = {}
        /\ sname = [c \in Conn |-> NoName]
        /\ parser = [c \in Conn |-> "opensess"]
        /\ reading = Nobody
        /\ binitsess = FALSE /\ wbufq = up /\ fresh = FALSE
        /\ pc = "mio" /\ wild = FALSE
  BY DEF Init
<1>2. Printsvr \in Sess /\ Conn \subseteq Sess /\ Printsvr \notin Conn /\ Nobody # Printsvr
  BY SessionAssumption DEF Sess
<1>3. TypeOK
  BY <1>1, <1>2 DEF TypeOK
<1>4. ConnQueued /\ PrintsvrQueued
  BY <1>1, <1>2 DEF ConnQueued, PrintsvrQueued
<1>5. Numbered
  BY <1>1, <1>2 DEF Numbered, Open
<1>6. PrintsvrPlace /\ LoopPlace
  BY <1>1, <1>2 DEF PrintsvrPlace, LoopPlace
<1> QED BY <1>3, <1>4, <1>5, <1>6 DEF QInv

LEMMA StepQInv == QInv /\ [Next]_vars => QInv'
<1> SUFFICES ASSUME QInv, [Next]_vars PROVE QInv'
  OBVIOUS
<1>1. CASE UNCHANGED vars
  BY <1>1, StutterKeepsInv
<1>2. CASE Callback
  BY <1>2, AcceptKeepsInv, InitSessKeepsInv, PongKeepsInv, AuthKeepsInv, ChunkKeepsInv,
     HangUpKeepsInv, PrintsvrKeepsInv, ForwardMoniKeepsInv DEF Callback
<1>3. CASE EndChunk
  BY <1>3, ChunkKeepsInv
<1>4. CASE Loop
  BY <1>4, EndMioKeepsInv, ClearDeadsKeepsInv, SaveDeadKeepsInv, RemoveZombiesKeepsInv,
     ClearZombieKeepsInv, PrintsvrKeepsInv, ShutdownKeepsInv DEF Loop
<1>5. CASE Stopped
  BY <1>5, StutterKeepsInv DEF Stopped
<1> QED BY <1>1, <1>2, <1>3, <1>4, <1>5 DEF Next

(***************************************************************************)
(* The inductive invariant of the queues, under every fault (net.c).       *)
(***************************************************************************)
THEOREM QInvHolds == Spec => []QInv
BY InitQInv, StepQInv, PTL DEF Spec

\* The variables keep their types, whatever clients and printsvr do.
THEOREM TypeCorrect == Spec => []TypeOK
<1>1. QInv => TypeOK
  BY DEF QInv
<1> QED BY <1>1, QInvHolds, PTL

\* A client's session stands in exactly the queue its state calls for, once
\* (p2p.c:286-303, net.c).
THEOREM Queued == Spec => []ConnQueued
<1>1. QInv => ConnQueued
  BY DEF QInv
<1> QED BY <1>1, QInvHolds, PTL

\* The stream to printsvr is scanned once while it is up, and due for exactly
\* one reconnect while it is down (net.c:102-195, p2pclient.c:350-362).
THEOREM PrintsvrDue == Spec => []PrintsvrQueued
<1>1. QInv => PrintsvrQueued
  BY DEF QInv
<1> QED BY <1>1, QInvHolds, PTL

\* pingsession never writes to a closed connection (net.c:150-163).
THEOREM PingSafe == Spec => []PingOnlyOpen
<1>1. QInv => PingOnlyOpen
  BY DEF QInv, PrintsvrPlace, PingOnlyOpen, Open, TypeOK
<1> QED BY <1>1, QInvHolds, PTL

----------------------------------------------------------------------------
(***************************************************************************)
(* The table of sessions.  With clients that authenticate at most once on  *)
(* a connection, and no send() failing under a client's own chunk, the     *)
(* table never leads to a closed session and freed memory is never used;   *)
(* when every $auth is complete too, Session implements NameDirectory.     *)
(* Without a refusal by printsvr and a malformed $initsess either,         *)
(* select() never waits for a closed socket.                               *)
(***************************************************************************)
WellBehaved == "reauth" \notin Faults /\ "ownsend" \notin Faults

Polite == WellBehaved /\ "partialauth" \notin Faults

\* A session whose $auth is parsed is open, so that what is stored is open.
TableSound ==
    /\ NoDangling
    /\ \A n \in Name, c, d \in Conn : <<n, c>> \in nodes /\ <<n, d>> \in nodes => c = d
    /\ \A c \in Conn : reading = c /\ parser[c] = "moniclient" => Open(c)
    /\ ~wild

TInv == QInv /\ TableSound

Others(n) == {p \in nodes : p[1] # n}

----------------------------------------------------------------------------
(***************************************************************************)
(* In a sound table xhash_zap removes exactly what stands under the name.  *)
(***************************************************************************)
LEMMA ZapExact ==
    ASSUME TypeOK, TableSound, NEW nm, NEW n, NEW t \in Zapped(nodes, nm, n),
           \A m \in Name, o \in Conn : <<m, o>> \in nodes => nm[o] = m
    PROVE  t = Others(n)
<1>1. nodes \subseteq Name \X Conn
  BY DEF TypeOK
<1>2. \A p \in nodes : p[1] \in Name /\ p[2] \in Conn /\ p = <<p[1], p[2]>>
  BY <1>1
<1>3. CASE Match(nodes, nm, n) = {}
  <2>1. \A p \in nodes : p[1] # n
    BY <1>2, <1>3 DEF Match
  <2> QED BY <1>3, <2>1 DEF Zapped, Others
<1>4. CASE Match(nodes, nm, n) # {}
  <2>1. PICK o \in Match(nodes, nm, n) : t = nodes \ {<<n, o>>}
    BY <1>4 DEF Zapped
  <2>2. <<n, o>> \in nodes /\ n \in Name /\ o \in Conn
    BY <1>1, <2>1 DEF Match
  <2>3. \A p \in nodes : p[1] = n <=> p = <<n, o>>
    BY <1>2, <2>2 DEF TableSound
  <2> QED BY <2>1, <2>3 DEF Others
<1> QED BY <1>3, <1>4

LEMMA NotPoisoned ==
    ASSUME TInv, NEW n
    PROVE  ~Poisoned(n)
<1>1. SUFFICES ASSUME NEW o \in Conn, <<n, o>> \in nodes, mem[o] = "freed"
               PROVE  FALSE
  BY DEF Poisoned
<1>2. n \in Name
  BY <1>1 DEF TInv, QInv, TypeOK
<1>3. fd[o] = "open"
  BY <1>1, <1>2 DEF TInv, TableSound, NoDangling
<1> QED BY <1>1, <1>3 DEF TInv, QInv, ConnQueued

\* Closing an open session takes what stands under its name out of the table.
LEMMA CloseEffect ==
    ASSUME TInv, NEW s \in Sess, NEW F, CloseSess({s}, F)
    PROVE  /\ \A x \in Sess : fd'[x] = IF x = s THEN "closed" ELSE fd[x]
           /\ nodes' = IF s \in Conn THEN Others(sname[s]) ELSE nodes
<1>1. \A x \in Sess : fd'[x] = IF x = s THEN "closed" ELSE fd[x]
  BY DEF CloseSess, Closing
<1>2. nodes' \in ZappedOf(nodes, sname, {s})
  BY DEF CloseSess
<1>3. CASE s \in Conn
  <2>1. nodes' \in Zapped(nodes, sname, sname[s])
    BY <1>2, <1>3 DEF ZappedOf
  <2>2. TypeOK /\ TableSound
    BY DEF TInv, QInv
  <2>3. \A m \in Name, o \in Conn : <<m, o>> \in nodes => sname[o] = m
    BY <2>2 DEF TableSound, NoDangling
  <2>4. nodes' = Others(sname[s])
    BY <2>1, <2>2, <2>3, ZapExact
  <2> QED BY <1>1, <1>3, <2>4
<1>4. CASE s \notin Conn
  BY <1>1, <1>2, <1>4 DEF ZappedOf
<1> QED BY <1>3, <1>4

(***************************************************************************)
(* auth_hook with well-behaved clients: the holder of the name is closed   *)
(* and replaced, and nobody else is touched.                               *)
(***************************************************************************)
LEMMA AuthEffect ==
    ASSUME TInv, WellBehaved, NEW c \in Conn, NEW n \in Name, NEW complete \in BOOLEAN,
           AuthFrame(c, n, complete)
    PROVE  /\ Open(c) /\ sname[c] = NoName
           /\ \A m \in Name : <<m, c>> \notin nodes
           /\ sname' = [sname EXCEPT ![c] = n]
           /\ \A s \in Sess : fd'[s] = IF <<n, s>> \in nodes THEN "closed" ELSE fd[s]
           /\ nodes' = Others(n) \cup (IF complete THEN {<<n, c>>} ELSE {})
           /\ UNCHANGED <<mem, parser, reading, wild>>
<1> DEFINE nm == [sname EXCEPT ![c] = n]
<1>1. /\ Open(c) /\ sname[c] = NoName
      /\ \A m \in Name : <<m, c>> \notin nodes
      /\ TypeOK /\ TableSound
  BY SessionAssumption DEF TInv, QInv, TableSound, NoDangling, AuthFrame, WellBehaved
<1>2. \A m \in Name, o \in Conn : <<m, o>> \in nodes => nm[o] = m
  BY <1>1 DEF TableSound, NoDangling, TypeOK
<1>3. PICK old \in OldSess(nm, n) :
        IF Poisoned(n) \/ ZapIsWild(nm, Victims(old)) THEN GoWild
        ELSE /\ sname' = nm
             /\ IF complete THEN AuthRegister(c, n, nm, Victims(old))
                ELSE AuthAbandon(nm, Victims(old))
             /\ UNCHANGED <<mem, zombies, parser, reading, binitsess, fresh, pc, wild>>
  BY DEF AuthFrame
<1> DEFINE K == Victims(old)
<1>4. ~Poisoned(n) /\ ~ZapIsWild(nm, K)
  BY NotPoisoned DEF ZapIsWild
<1>5. /\ sname' = nm
      /\ IF complete THEN AuthRegister(c, n, nm, K) ELSE AuthAbandon(nm, K)
      /\ UNCHANGED <<mem, parser, reading, wild>>
  BY <1>3, <1>4
<1>6. /\ K \subseteq Conn
      /\ \A s \in Sess : s \in K <=> <<n, s>> \in nodes
      /\ \A o \in K : nm[o] = n
      /\ K # {} => \E o \in K : K = {o}
  <2>0. nodes \subseteq Name \X Conn
    BY <1>1 DEF TypeOK
  <2>1. CASE Match(nodes, nm, n) = {}
    <3>1. old = Nobody /\ K = {}
      BY <1>3, <2>1 DEF OldSess, Victims
    <3>2. \A s \in Sess : <<n, s>> \notin nodes
      BY <1>2, <2>0, <2>1 DEF Match
    <3> QED BY <3>1, <3>2
  <2>2. CASE Match(nodes, nm, n) # {}
    <3>1. old \in Conn /\ <<n, old>> \in nodes /\ nm[old] = n
      BY <1>3, <2>2 DEF OldSess, Match
    <3>2. old # Nobody /\ old \in Sess /\ Open(old)
      BY <1>1, <3>1, SessionAssumption DEF TableSound, NoDangling, Open, Sess
    <3>3. Numbered
      BY DEF TInv, QInv
    <3>4. K = {old}
      BY <3>2, <3>3 DEF Victims, OpenAt, Numbered, Open
    <3>5. \A s \in Sess : <<n, s>> \in nodes => s = old
      BY <1>1, <2>0, <3>1 DEF TableSound
    <3> QED BY <3>1, <3>4, <3>5
  <2> QED BY <2>1, <2>2
<1> HIDE DEF nm, K
<1>7. \A t \in ZappedOf(nodes, nm, K) : t = Others(n)
  <2>1. CASE K = {}
    <3>1. nodes \subseteq Name \X Conn /\ Conn \subseteq Sess
      BY <1>1 DEF TypeOK, Sess
    <3>2. \A p \in nodes : p[1] # n
      BY <1>6, <2>1, <3>1
    <3>3. ZappedOf(nodes, nm, K) = {nodes}
      BY <2>1 DEF ZappedOf
    <3> QED BY <3>2, <3>3 DEF Others
  <2>2. CASE K # {}
    <3>1. PICK o \in K : K = {o}
      BY <1>6, <2>2
    <3>2. ZappedOf(nodes, nm, K) = Zapped(nodes, nm, n)
      BY <1>6, <3>1 DEF ZappedOf
    <3> QED BY <1>1, <1>2, <3>2, ZapExact
  <2> QED BY <2>1, <2>2
<1>8. /\ Closing(K, {})
      /\ nodes' = Others(n) \cup (IF complete THEN {<<n, c>>} ELSE {})
  <2>1. CASE complete
    <3>1. AuthRegister(c, n, nm, K) /\ ~AckFails(c, K)
      BY <1>5, <2>1 DEF WellBehaved, AckFails
    <3>2. PICK F \in {{}} :
            /\ Closing(K \cup F, F)
            /\ \E left \in ZappedOf(nodes, nm, K) :
                 \E t \in ZappedOf(left, nm, F) : nodes' \in Stored(t, nm, n, c)
      BY <3>1 DEF AuthRegister
    <3>3. F = {} /\ K \cup F = K /\ \A left : ZappedOf(left, nm, F) = {left}
      BY <3>2 DEF ZappedOf
    <3>4. nodes' \in Stored(Others(n), nm, n, c)
      BY <1>7, <3>2, <3>3
    <3>5. Zapped(Others(n), nm, n) = {Others(n)}
      BY DEF Zapped, Match, Others
    <3>6. nodes' = Others(n) \cup {<<n, c>>}
      BY <3>4, <3>5 DEF Stored
    <3> QED BY <2>1, <3>2, <3>3, <3>6
  <2>2. CASE ~complete
    BY <1>5, <1>7, <2>2 DEF AuthAbandon
  <2> QED BY <2>1, <2>2
<1>9. \A s \in Sess : fd'[s] = IF <<n, s>> \in nodes THEN "closed" ELSE fd[s]
  BY <1>6, <1>8 DEF Closing
<1> QED BY <1>1, <1>5, <1>8, <1>9 DEF nm

----------------------------------------------------------------------------
(***************************************************************************)
(* What a step does to the table and the connections: nothing, or a        *)
(* connection arrives, leaves, or authenticates.                           *)
(***************************************************************************)
Quiet ==
    /\ UNCHANGED <<nodes, sname>>
    /\ \A c \in Conn : fd'[c] = fd[c] /\ (mem'[c] = "none" <=> mem[c] = "none")

Arrives(c) ==
    /\ mem[c] = "none" /\ fd[c] = "closed"
    /\ mem' = [mem EXCEPT ![c] = "alloc"] /\ fd' = [fd EXCEPT ![c] = "open"]
    /\ UNCHANGED <<nodes, sname>>

Leaves(c) ==
    /\ Open(c)
    /\ \A d \in Conn : fd'[d] = IF d = c THEN "closed" ELSE fd[d]
    /\ nodes' = Others(sname[c])
    /\ UNCHANGED <<mem, sname>>

Authenticates(c, n, complete) ==
    /\ Open(c) /\ sname[c] = NoName
    /\ \A m \in Name : <<m, c>> \notin nodes
    /\ sname' = [sname EXCEPT ![c] = n]
    /\ \A d \in Conn : fd'[d] = IF <<n, d>> \in nodes THEN "closed" ELSE fd[d]
    /\ nodes' = Others(n) \cup (IF complete THEN {<<n, c>>} ELSE {})
    /\ UNCHANGED mem

Effect ==
    \/ Quiet
    \/ \E c \in Conn : Arrives(c) \/ Leaves(c)
    \/ \E c \in Conn, n \in Name, complete \in BOOLEAN :
          Authenticates(c, n, complete) /\ (complete \/ "partialauth" \in Faults)

\* The session whose $auth may come next stays open.
ReaderOpen == \A c \in Conn : reading = c /\ parser[c] = "moniclient" => Open(c)

LEMMA CloseIsEffect ==
    ASSUME TInv, NEW s \in Sess, Open(s), NEW F, CloseSess({s}, F), UNCHANGED <<mem, sname>>
    PROVE  Effect
<1>1. /\ \A x \in Sess : fd'[x] = IF x = s THEN "closed" ELSE fd[x]
      /\ nodes' = IF s \in Conn THEN Others(sname[s]) ELSE nodes
      /\ Conn \subseteq Sess
  BY CloseEffect DEF Sess
<1>2. CASE s \in Conn
  <2>1. Leaves(s)
    BY <1>1, <1>2 DEF Leaves
  <2> QED BY <1>2, <2>1 DEF Effect
<1>3. CASE s \notin Conn
  <2>1. Quiet
    BY <1>1, <1>3 DEF Quiet
  <2> QED BY <2>1 DEF Effect
<1> QED BY <1>2, <1>3

\* A close that is not the reader's own keeps the reader open.
LEMMA CloseKeepsReader ==
    ASSUME TInv, NEW s \in Sess, NEW F, CloseSess({s}, F), UNCHANGED parser,
           reading' \in {reading, Nobody},
           reading' # s \/ s \notin Conn \/ parser[s] # "moniclient"
    PROVE  ReaderOpen'
<1>1. /\ \A x \in Sess : fd'[x] = IF x = s THEN "closed" ELSE fd[x]
      /\ Conn \subseteq Sess /\ Nobody \notin Conn
  BY CloseEffect, SessionAssumption DEF Sess
<1> QED BY <1>1 DEF ReaderOpen, TInv, TableSound, Open

\* Writes to moniclient and printsvr, and printsvr's refusals.
LEMMA WriteEffect ==
    ASSUME TInv, InitAckOk \/ Refused \/ ForwardMoni \/ ForwardPrint \/ Ping
    PROVE  Effect /\ ReaderOpen' /\ ~wild'
<1>0. /\ TypeOK /\ TableSound /\ ReaderOpen /\ LoopPlace
      /\ Conn \subseteq Sess /\ Printsvr \in Sess /\ Printsvr \notin Conn
      /\ Nobody \notin Conn /\ ~wild
  BY SessionAssumption DEF TInv, QInv, TableSound, ReaderOpen, Sess
<1>1. ASSUME InitAckOk \/ Refused \/ ForwardPrint \/ Ping
      PROVE  Effect /\ ReaderOpen' /\ ~wild'
  <2>1. /\ UNCHANGED <<mem, sname, parser, reading>> /\ ~wild'
        /\ NoWrite \/ (Open(Printsvr) /\ \E F \in {{}, {Printsvr}} : CloseSess({Printsvr}, F))
    BY <1>0, <1>1 DEF InitAckOk, Refused, ForwardPrint, Ping, PrintsvrWriteFails, Elsewhere, Open
  <2>2. CASE NoWrite
    <3>1. Quiet
      BY <2>1, <2>2 DEF Quiet, NoWrite, NoClose
    <3>2. ReaderOpen'
      BY <1>0, <2>1, <2>2 DEF ReaderOpen, Open, NoWrite, NoClose
    <3> QED BY <2>1, <3>1, <3>2 DEF Effect
  <2>3. CASE Open(Printsvr) /\ \E F \in {{}, {Printsvr}} : CloseSess({Printsvr}, F)
    BY <1>0, <2>1, <2>3, CloseIsEffect, CloseKeepsReader
  <2> QED BY <2>1, <2>2, <2>3
<1>2. ASSUME ForwardMoni
      PROVE  Effect /\ ReaderOpen' /\ ~wild'
  <2>1. PICK o \in Match(nodes, sname, Moni) :
          /\ IF fd[o] = "open" THEN CloseSess({o}, {o})
             ELSE watched' = watched \cup Reread(o) /\ NoClose
          /\ UNCHANGED <<Elsewhere, reading, pc>>
    BY <1>2, NotPoisoned DEF ForwardMoni
  <2>2. /\ o \in Conn /\ o \in Sess /\ Open(o)
        /\ UNCHANGED <<mem, sname, parser, reading>> /\ ~wild'
    BY <1>0, <2>1, SessionAssumption DEF Match, TableSound, NoDangling, Open, Elsewhere
  <2>3. reading \in {Nobody, Printsvr}
    BY <1>0, <1>2 DEF ForwardMoni, LoopPlace
  <2>4. CloseSess({o}, {o}) /\ reading' # o
    BY <1>0, <2>1, <2>2, <2>3 DEF Open
  <2> QED BY <2>2, <2>4, CloseIsEffect, CloseKeepsReader
<1> QED BY <1>1, <1>2

\* mio_run's steps.
LEMMA CallbackEffect ==
    ASSUME TInv, WellBehaved, Callback \/ EndChunk
    PROVE  Effect /\ ReaderOpen' /\ ~wild'
<1>0. /\ TypeOK /\ TableSound /\ ReaderOpen /\ LoopPlace
      /\ Conn \subseteq Sess /\ Printsvr \in Sess /\ Printsvr \notin Conn
      /\ Nobody \notin Conn
      /\ \A nm, K : ~ZapIsWild(nm, K)
  BY SessionAssumption, NotPoisoned DEF TInv, QInv, TableSound, ReaderOpen, Sess, ZapIsWild
<1>1. ASSUME NEW c \in Conn, NEW k \in Num, Accept(c, k)
      PROVE  Effect /\ ReaderOpen' /\ ~wild'
  <2>1. fd[c] = "closed"
    BY <1>1 DEF Accept, TInv, QInv, ConnQueued
  <2>2. Arrives(c)
    BY <1>1, <2>1 DEF Accept, Arrives, table
  <2>3. ReaderOpen' /\ ~wild'
    BY <1>0, <1>1 DEF Accept, InMio, ReaderOpen
  <2> QED BY <2>2, <2>3 DEF Effect
<1>2. ASSUME NEW c \in Conn, BadInitSess(c)
      PROVE  Effect /\ ReaderOpen' /\ ~wild'
  <2>1. /\ CloseSess({c}, {}) /\ Open(c) /\ parser[c] # "moniclient"
        /\ UNCHANGED <<mem, sname, parser, reading, wild>> /\ ~wild
    BY <1>2 DEF BadInitSess, InMio, Open, Elsewhere
  <2> QED BY <1>0, <2>1, CloseIsEffect, CloseKeepsReader
<1>3. ASSUME NEW c \in Conn, GoodInitSess(c)
      PROVE  Effect /\ ReaderOpen' /\ ~wild'
  <2>1. NoClose /\ UNCHANGED <<mem, sname>> /\ reading' = Nobody /\ ~wild'
    BY <1>3 DEF GoodInitSess, WellBehaved, InMio
  <2>2. Quiet
    BY <2>1 DEF Quiet, NoClose
  <2> QED BY <1>0, <2>1, <2>2 DEF Effect, ReaderOpen
<1>4. ASSUME NEW c \in Conn, PongSent(c) \/ PongFails(c)
      PROVE  Effect /\ ReaderOpen' /\ ~wild'
  <2>1. PongSent(c)
    BY <1>4 DEF PongFails, WellBehaved
  <2>2. NoClose /\ UNCHANGED <<mem, sname, parser, reading, wild>> /\ ~wild
    BY <2>1 DEF PongSent, InMio, Elsewhere
  <2>3. Quiet
    BY <2>2 DEF Quiet, NoClose
  <2>4. ReaderOpen' /\ ~wild'
    BY <1>0, <2>2 DEF ReaderOpen, NoClose, Open
  <2> QED BY <2>3, <2>4 DEF Effect
<1>5. ASSUME NEW c \in Conn, NEW n \in Name, NEW complete \in BOOLEAN,
             AuthFrame(c, n, complete)
      PROVE  Effect /\ ReaderOpen' /\ ~wild'
  <2>1. /\ Open(c) /\ sname[c] = NoName
        /\ \A m \in Name : <<m, c>> \notin nodes
        /\ sname' = [sname EXCEPT ![c] = n]
        /\ \A s \in Sess : fd'[s] = IF <<n, s>> \in nodes THEN "closed" ELSE fd[s]
        /\ nodes' = Others(n) \cup (IF complete THEN {<<n, c>>} ELSE {})
        /\ UNCHANGED <<mem, parser, reading, wild>>
    BY <1>5, AuthEffect
  <2>2. Authenticates(c, n, complete) /\ (complete \/ "partialauth" \in Faults)
    BY <1>0, <1>5, <2>1 DEF Authenticates, AuthFrame
  <2>3. reading = c /\ ~wild
    BY <1>5 DEF AuthFrame, InMio
  <2>4. ReaderOpen' /\ ~wild'
    BY <1>0, <2>1, <2>3 DEF ReaderOpen, Open
  <2> QED BY <2>2, <2>4 DEF Effect
<1>6. ASSUME NEW s \in Sess, BeginChunk(s)
      PROVE  Effect /\ ReaderOpen' /\ ~wild'
  <2>1. Quiet
    BY <1>6 DEF BeginChunk, Quiet, sockets, table
  <2>2. ReaderOpen' /\ ~wild'
    BY <1>6 DEF BeginChunk, InMio, ReaderOpen, Open, sockets
  <2> QED BY <2>1, <2>2 DEF Effect
<1>7. ASSUME NEW s \in Sess, NEW F, HangUp(s, F)
      PROVE  Effect /\ ReaderOpen' /\ ~wild'
  <2>1. /\ CloseSess({s}, F) /\ Open(s) /\ reading = Nobody
        /\ UNCHANGED <<mem, sname, parser, reading, wild>> /\ ~wild
    BY <1>0, <1>7 DEF HangUp, InMio, Open, Elsewhere
  <2>2. reading' # s \/ s \notin Conn
    BY <1>0, <2>1
  <2> QED BY <2>1, <2>2, CloseIsEffect, CloseKeepsReader
<1>8. ASSUME EndChunk
      PROVE  Effect /\ ReaderOpen' /\ ~wild'
  <2>1. Quiet
    BY <1>8 DEF EndChunk, Quiet, table
  <2>2. ReaderOpen' /\ ~wild'
    BY <1>0, <1>8 DEF EndChunk, InMio, ReaderOpen
  <2> QED BY <2>1, <2>2 DEF Effect
<1>9. ASSUME InitAckOk \/ Refused \/ ForwardMoni
      PROVE  Effect /\ ReaderOpen' /\ ~wild'
  BY <1>9, WriteEffect
<1> QED BY <1>1, <1>2, <1>3, <1>4, <1>5, <1>6, <1>7, <1>8, <1>9 DEF Callback

\* The rest of the loop.
LEMMA LoopEffect ==
    ASSUME TInv, Loop
    PROVE  Effect /\ ReaderOpen' /\ ~wild'
<1>0. /\ TypeOK /\ TableSound /\ ReaderOpen /\ LoopPlace /\ ConnQueued
      /\ Conn \subseteq Sess /\ Printsvr \in Sess /\ Printsvr \notin Conn
      /\ Nobody \notin Conn /\ ~wild
  BY SessionAssumption DEF TInv, QInv, TableSound, ReaderOpen, Sess
<1>1. ASSUME EndMio \/ ClearDeads \/ SkipSave \/ EndClear \/ EndComs
             \/ \E Z \in SUBSET Sess : RemoveZombies(Z)
      PROVE  Effect /\ ReaderOpen' /\ ~wild'
  <2>1. UNCHANGED <<mem, fd, nodes, sname, parser, reading, wild>>
    BY <1>1 DEF EndMio, ClearDeads, SkipSave, EndClear, EndComs, RemoveZombies, sockets, table
  <2>2. Quiet /\ ReaderOpen' /\ ~wild'
    BY <1>0, <2>1 DEF Quiet, ReaderOpen, Open
  <2> QED BY <2>2 DEF Effect
<1>2. ASSUME NEW outcome \in Outcomes, SaveDead(outcome)
      PROVE  Effect /\ ReaderOpen' /\ ~wild'
  <2>1. /\ UNCHANGED <<nodes, sname, parser, reading, wild>>
        /\ \A c \in Conn : mem'[c] = IF dead[c] > 0 THEN "freed" ELSE mem[c]
    BY <1>0, <1>2 DEF SaveDead, Freed, DeadConns, table
  <2>2. \A c \in Conn : fd'[c] = fd[c]
    BY <1>0, <1>2 DEF SaveDead, Reconnect, sockets, TypeOK
  <2>3. Quiet
    BY <1>0, <2>1, <2>2 DEF Quiet, ConnQueued, TypeOK
  <2>4. ReaderOpen' /\ ~wild'
    BY <1>0, <2>1, <2>2 DEF ReaderOpen, Open
  <2> QED BY <2>3, <2>4 DEF Effect
<1>3. ASSUME NEW z \in Sess, ClearZombie(z)
      PROVE  Effect /\ ReaderOpen' /\ ~wild'
  <2>1. ~ZapIsWild(sname, OpenAt(num[z]))
    BY NotPoisoned DEF ZapIsWild
  <2>2. /\ CloseSess(OpenAt(num[z]), {})
        /\ UNCHANGED <<mem, sname, parser, reading, wild>>
        /\ reading = Nobody
    BY <1>0, <1>3, <2>1 DEF ClearZombie, LoopPlace
  <2>3. Open(z) /\ OpenAt(num[z]) = {z}
    BY <1>3, ZombieAlone DEF TInv
  <2> QED BY <1>0, <2>2, <2>3, CloseIsEffect, CloseKeepsReader
<1>4. ASSUME Shutdown
      PROVE  Effect /\ ReaderOpen' /\ ~wild'
  <2>1. /\ UNCHANGED <<fd, nodes, sname, parser, reading, wild>>
        /\ \A c \in Conn : mem'[c] = IF dead[c] > 0 THEN "freed" ELSE mem[c]
    BY <1>0, <1>4 DEF Shutdown, Freed, sockets, table
  <2>2. Quiet /\ ReaderOpen' /\ ~wild'
    BY <1>0, <2>1 DEF Quiet, ConnQueued, TypeOK, ReaderOpen, Open
  <2> QED BY <2>2 DEF Effect
<1>5. ASSUME Ping \/ ForwardPrint
      PROVE  Effect /\ ReaderOpen' /\ ~wild'
  BY <1>5, WriteEffect
<1> QED BY <1>1, <1>2, <1>3, <1>4, <1>5 DEF Loop

----------------------------------------------------------------------------
(***************************************************************************)
(* The table stays sound.                                                  *)
(***************************************************************************)
LEMMA EffectKeepsSound ==
    ASSUME TInv, Effect
    PROVE  /\ NoDangling'
           /\ \A n \in Name, c, d \in Conn :
                 <<n, c>> \in nodes' /\ <<n, d>> \in nodes' => c = d
<1>0. /\ TypeOK /\ TableSound /\ NoName \notin Name
      /\ nodes \subseteq Name \X Conn /\ sname \in [Conn -> Name \cup {NoName}]
      /\ Conn \subseteq Sess
  BY SessionAssumption DEF TInv, QInv, TypeOK, Sess
<1>1. CASE Quiet
  BY <1>0, <1>1 DEF Quiet, TableSound, NoDangling
<1>2. ASSUME NEW c \in Conn, Arrives(c)
      PROVE  /\ NoDangling'
             /\ \A n \in Name, x, d \in Conn :
                   <<n, x>> \in nodes' /\ <<n, d>> \in nodes' => x = d
  BY <1>0, <1>2 DEF Arrives, TableSound, NoDangling, TypeOK
<1>3. ASSUME NEW c \in Conn, Leaves(c)
      PROVE  /\ NoDangling'
             /\ \A n \in Name, x, d \in Conn :
                   <<n, x>> \in nodes' /\ <<n, d>> \in nodes' => x = d
  <2>1. nodes' \subseteq nodes /\ \A n \in Name : <<n, c>> \notin nodes'
    BY <1>0, <1>3 DEF Leaves, Others, TableSound, NoDangling
  <2> QED BY <1>0, <1>3, <2>1 DEF Leaves, TableSound, NoDangling
<1>4. ASSUME NEW c \in Conn, NEW n \in Name, NEW complete \in BOOLEAN,
             Authenticates(c, n, complete)
      PROVE  /\ NoDangling'
             /\ \A m \in Name, x, d \in Conn :
                   <<m, x>> \in nodes' /\ <<m, d>> \in nodes' => x = d
  <2>1. /\ \A m \in Name, x \in Conn :
             <<m, x>> \in nodes' => (<<m, x>> \in nodes /\ m # n /\ x # c) \/ (m = n /\ x = c)
        /\ sname'[c] = n /\ \A x \in Conn : x # c => sname'[x] = sname[x]
        /\ fd'[c] = "open"
    BY <1>0, <1>4 DEF Authenticates, Others, Open
  <2>2. ASSUME NEW m \in Name, NEW x \in Conn, <<m, x>> \in nodes'
        PROVE  fd'[x] = "open" /\ sname'[x] = m
    <3>1. CASE m = n /\ x = c
      BY <2>1, <3>1
    <3>2. CASE <<m, x>> \in nodes /\ m # n /\ x # c
      <4>1. fd[x] = "open" /\ sname[x] = m /\ <<n, x>> \notin nodes
        BY <1>0, <3>2 DEF TableSound, NoDangling
      <4> QED BY <1>4, <2>1, <3>2, <4>1 DEF Authenticates
    <3> QED BY <2>1, <2>2, <3>1, <3>2
  <2>3. NoDangling'
    BY <2>2 DEF NoDangling
  <2> QED BY <1>0, <2>1, <2>3 DEF TableSound
<1> QED BY <1>1, <1>2, <1>3, <1>4 DEF Effect

LEMMA StepEffect ==
    ASSUME TInv, WellBehaved, Next
    PROVE  /\ Effect \/ UNCHANGED vars
           /\ TInv'
<1>1. QInv'
  BY StepQInv DEF TInv
<1>2. CASE UNCHANGED vars
  <2>1. TableSound'
    BY <1>2 DEF TInv, TableSound, NoDangling, Open, vars, sockets, table
  <2> QED BY <1>1, <1>2, <2>1 DEF TInv
<1>3. CASE Callback \/ EndChunk \/ Loop
  <2>1. Effect /\ ReaderOpen' /\ ~wild'
    BY <1>3, CallbackEffect, LoopEffect
  <2>2. TableSound'
    BY <2>1, EffectKeepsSound DEF TableSound, ReaderOpen
  <2> QED BY <1>1, <2>1, <2>2 DEF TInv
<1> QED BY <1>2, <1>3 DEF Next, Stopped

LEMMA InitTInv == Init => TInv
<1> SUFFICES ASSUME Init PROVE TInv
  OBVIOUS
<1>1. /\ nodes = {} /\ reading = Nobody /\ wild = FALSE /\ Nobody \notin Conn
  BY SessionAssumption DEF Init
<1> QED BY <1>1, InitQInv DEF TInv, TableSound, NoDangling

\* The invariant of the table and the queues, for well-behaved clients: the table
\* leads only to open sessions of the name, whatever printsvr and the network do.
THEOREM TInvHolds == WellBehaved /\ Spec => []TInv
<1> SUFFICES ASSUME WellBehaved PROVE Spec => []TInv
  OBVIOUS
<1>1. TInv /\ [Next]_vars => TInv'
  <2> SUFFICES ASSUME TInv, [Next]_vars PROVE TInv'
    OBVIOUS
  <2>1. CASE Next
    BY <2>1, StepEffect
  <2>2. CASE UNCHANGED vars
    <3>1. QInv'
      BY <2>2, StutterKeepsInv DEF TInv
    <3>2. TableSound'
      BY <2>2 DEF TInv, TableSound, NoDangling, Open, vars, sockets, table
    <3> QED BY <3>1, <3>2 DEF TInv
  <2> QED BY <2>1, <2>2
<1> QED BY <1>1, InitTInv, PTL DEF Spec

(***************************************************************************)
(* Looking up a name leads to an open session of that name, or to nobody   *)
(* (p2p.c:292, moniclient_callback.c:41-81).                               *)
(***************************************************************************)
THEOREM TableLeadsToOpen == WellBehaved /\ Spec => []NoDangling
<1>1. TInv => NoDangling
  BY DEF TInv, TableSound
<1> QED BY <1>1, TInvHolds, PTL

\* No session is used after sess_free (client.c:9-42, net.c:196-198).
THEOREM FreedIsForgotten == WellBehaved /\ Spec => []NoUseAfterFree
<1>1. TInv => NoUseAfterFree
  BY DEF TInv, TableSound, NoUseAfterFree
<1> QED BY <1>1, TInvHolds, PTL

(***************************************************************************)
(* An $auth closes nobody but the holder of the name it claims, and no     *)
(* other frame of a client closes anybody else (moniclient_callback.c:41,  *)
(* opensess_exp.c:190-277).                                                *)
(***************************************************************************)
THEOREM EvictsNamesakeOnly == WellBehaved /\ Spec => OnlyNamesakeEvicted
<1> SUFFICES ASSUME WellBehaved PROVE Spec => OnlyNamesakeEvicted
  OBVIOUS
<1> DEFINE Step == \A d \in Conn, s \in Sess :
                     reading = d /\ s # d /\ fd[s] = "open" /\ fd'[s] = "closed" =>
                        s \in Conn /\ sname'[d] = sname[s]
<1>1. ASSUME TInv, [Next]_vars PROVE Step
  <2> SUFFICES ASSUME NEW d \in Conn, NEW s \in Sess,
                      reading = d, s # d, fd[s] = "open", fd'[s] = "closed"
               PROVE  s \in Conn /\ sname'[d] = sname[s]
    OBVIOUS
  <2>1. /\ TypeOK /\ TableSound /\ pc = "mio" /\ d \in Sess
        /\ d # Nobody /\ d # Printsvr
    BY <1>1, SessionAssumption DEF TInv, QInv, LoopPlace, Sess
  <2>2. fd' # fd
    OBVIOUS
  <2>3. \/ BadInitSess(d) \/ GoodInitSess(d)
        \/ \E n \in Name, complete \in BOOLEAN : AuthFrame(d, n, complete)
    <3>1. CASE Callback
      <4>1. CASE \E c \in Conn : \/ BadInitSess(c) \/ GoodInitSess(c)
                                 \/ \E n \in Name, complete \in BOOLEAN : AuthFrame(c, n, complete)
        <5>1. PICK c \in Conn : \/ BadInitSess(c) \/ GoodInitSess(c)
                                \/ \E n \in Name, complete \in BOOLEAN : AuthFrame(c, n, complete)
          BY <4>1
        <5>2. c = d
          BY <5>1 DEF BadInitSess, GoodInitSess, AuthFrame
        <5> QED BY <5>1, <5>2
      <4>2. ASSUME NEW c \in Conn, NEW k \in Num, Accept(c, k) PROVE FALSE
        BY <2>1, <4>2 DEF Accept
      <4>3. ASSUME NEW c \in Conn, PongSent(c) \/ PongFails(c) PROVE FALSE
        BY <2>2, <4>3 DEF PongSent, NoClose, PongFails, WellBehaved
      <4>4. ASSUME NEW x \in Sess, BeginChunk(x) \/ HangUp(x, {}) \/ HangUp(x, {x}) PROVE FALSE
        BY <2>1, <4>4 DEF BeginChunk, HangUp
      <4>5. CASE InitAckOk \/ Refused \/ ForwardMoni
        BY <2>1, <4>5 DEF InitAckOk, Refused, ForwardMoni
      <4> QED BY <3>1, <4>1, <4>2, <4>3, <4>4, <4>5 DEF Callback
    <3>2. CASE EndChunk
      BY <2>2, <3>2 DEF EndChunk
    <3>3. CASE Loop
      BY <2>1, <3>3 DEF Loop, EndMio, ClearDeads, SkipSave, SaveDead, RemoveZombies,
         ClearZombie, EndClear, Ping, ForwardPrint, EndComs, Shutdown
    <3>4. CASE UNCHANGED vars
      BY <2>2, <3>4 DEF vars, sockets
    <3> QED BY <1>1, <3>1, <3>2, <3>3, <3>4 DEF Next, Stopped
  <2>4. CASE BadInitSess(d)
    BY <1>1, <2>1, <2>4, CloseEffect DEF BadInitSess
  <2>5. CASE GoodInitSess(d)
    BY <2>2, <2>5 DEF GoodInitSess, WellBehaved, NoClose
  <2>6. ASSUME NEW n \in Name, NEW complete \in BOOLEAN, AuthFrame(d, n, complete)
        PROVE  s \in Conn /\ sname'[d] = sname[s]
    <3>1. sname' = [sname EXCEPT ![d] = n] /\ <<n, s>> \in nodes
      BY <1>1, <2>6, AuthEffect
    <3>2. s \in Conn /\ sname[s] = n
      BY <2>1, <3>1 DEF TypeOK, TableSound, NoDangling
    <3> QED BY <2>1, <3>1, <3>2 DEF TypeOK
  <2> QED BY <2>3, <2>4, <2>5, <2>6
<1>2. TInv /\ [Next]_vars => [Step]_vars
  BY <1>1
<1> QED BY <1>2, TInvHolds, PTL DEF Spec, OnlyNamesakeEvicted

----------------------------------------------------------------------------
(***************************************************************************)
(* Session implements NameDirectory when every $auth is complete.  The     *)
(* mapping needs to know that an open session with a name is listed under  *)
(* it: otherwise its close could take somebody else's entry away.          *)
(***************************************************************************)
Listed ==
    /\ \A c \in Conn : Open(c) /\ sname[c] # NoName => <<sname[c], c>> \in nodes
    /\ \A c \in Conn : mem[c] = "none" => sname[c] = NoName

RInv == TInv /\ Listed

OnlineNow == {c \in Conn : fd[c] = "open"}
GoneNow   == {c \in Conn : mem[c] # "none" /\ fd[c] = "closed"}

LEMMA EffectKeepsListed ==
    ASSUME RInv, Polite, Effect
    PROVE  Listed'
<1>0. /\ TypeOK /\ TableSound /\ Listed /\ ConnQueued /\ NoName \notin Name
      /\ nodes \subseteq Name \X Conn /\ sname \in [Conn -> Name \cup {NoName}]
      /\ Conn \subseteq Sess
  BY SessionAssumption DEF RInv, TInv, QInv, TypeOK, Sess
<1>1. CASE Quiet
  BY <1>0, <1>1 DEF Quiet, Listed, Open
<1>2. ASSUME NEW c \in Conn, Arrives(c) PROVE Listed'
  BY <1>0, <1>2 DEF Arrives, Listed, Open, TypeOK
<1>3. ASSUME NEW c \in Conn, Leaves(c) PROVE Listed'
  BY <1>0, <1>3 DEF Leaves, Others, Listed, Open, TableSound
<1>4. ASSUME NEW c \in Conn, NEW n \in Name, Authenticates(c, n, TRUE) PROVE Listed'
  <2>1. \A x \in Conn : sname'[x] = IF x = c THEN n ELSE sname[x]
    BY <1>0, <1>4 DEF Authenticates
  <2>2. ASSUME NEW x \in Conn, fd'[x] = "open", sname'[x] # NoName
        PROVE  <<sname'[x], x>> \in nodes'
    <3>1. CASE x = c
      BY <1>4, <2>1, <3>1 DEF Authenticates
    <3>2. CASE x # c
      <4>1. fd[x] = "open" /\ <<n, x>> \notin nodes
        BY <1>4, <2>2 DEF Authenticates
      <4>2. <<sname[x], x>> \in nodes /\ sname[x] # n
        BY <1>0, <2>1, <2>2, <3>2, <4>1 DEF Listed, Open
      <4> QED BY <1>4, <2>1, <3>2, <4>2 DEF Authenticates, Others
    <3> QED BY <3>1, <3>2
  <2>3. mem[c] # "none"
    BY <1>0, <1>4 DEF Authenticates, ConnQueued, Open
  <2>4. \A x \in Conn : mem'[x] = "none" => sname'[x] = NoName
    BY <1>0, <1>4, <2>1, <2>3 DEF Authenticates, Listed
  <2> QED BY <2>2, <2>4 DEF Listed, Open
<1> QED BY <1>1, <1>2, <1>3, <1>4 DEF Effect, Polite

LEMMA EffectIsDirectoryStep ==
    ASSUME RInv, Polite, Effect
    PROVE  Directory!Next \/ UNCHANGED <<OnlineNow, GoneNow, nodes>>
<1>0. /\ TypeOK /\ TableSound /\ Listed /\ ConnQueued /\ NoName \notin Name
      /\ nodes \subseteq Name \X Conn /\ Conn \subseteq Sess
      /\ fd \in [Sess -> {"open", "closed"}]
      /\ mem \in [Sess -> {"none", "alloc", "freed"}]
  BY SessionAssumption DEF RInv, TInv, QInv, TypeOK, Sess
<1>1. CASE Quiet
  BY <1>1 DEF Quiet, OnlineNow, GoneNow
<1>2. ASSUME NEW c \in Conn, Arrives(c) PROVE Directory!Connect(c)
  <2>1. c \notin OnlineNow /\ c \notin GoneNow
    BY <1>2 DEF Arrives, OnlineNow, GoneNow
  <2>2. OnlineNow' = OnlineNow \cup {c} /\ GoneNow' = GoneNow /\ nodes' = nodes
    BY <1>0, <1>2 DEF Arrives, OnlineNow, GoneNow
  <2> QED BY <2>1, <2>2 DEF Directory!Connect, OnlineNow, GoneNow
<1>3. ASSUME NEW c \in Conn, Leaves(c) PROVE Directory!Leave(c)
  <2>1. c \in OnlineNow /\ mem[c] # "none"
    BY <1>0, <1>3 DEF Leaves, OnlineNow, Open, ConnQueued
  <2>2. OnlineNow' = OnlineNow \ {c} /\ GoneNow' = GoneNow \cup {c}
    BY <1>0, <1>3, <2>1 DEF Leaves, OnlineNow, GoneNow, Open
  <2>3. \A p \in nodes : p[1] = sname[c] <=> p[2] = c
    <3>1. \A p \in nodes : p[1] \in Name /\ p[2] \in Conn /\ p = <<p[1], p[2]>>
      BY <1>0
    <3>2. \A p \in nodes : p[2] = c => p[1] = sname[c]
      BY <1>0, <3>1 DEF TableSound, NoDangling
    <3>3. ASSUME NEW p \in nodes, p[1] = sname[c] PROVE p[2] = c
      <4>1. <<sname[c], c>> \in nodes
        BY <1>0, <1>3, <3>1, <3>3 DEF Listed, Leaves
      <4> QED BY <1>0, <3>1, <3>3, <4>1 DEF TableSound
    <3> QED BY <3>2, <3>3
  <2>4. nodes' = {p \in nodes : p[2] # c}
    BY <1>3, <2>3 DEF Leaves, Others
  <2> QED BY <2>1, <2>2, <2>4 DEF Directory!Leave, OnlineNow, GoneNow
<1>4. ASSUME NEW c \in Conn, NEW n \in Name, Authenticates(c, n, TRUE)
      PROVE  Directory!Login(c, n)
  <2> DEFINE H == {x \in Conn : <<n, x>> \in nodes}
  <2>1. c \in OnlineNow /\ \A m \in Name : <<m, c>> \notin nodes
    BY <1>4 DEF Authenticates, OnlineNow, Open
  <2>2. \A x \in H : mem[x] # "none"
    BY <1>0 DEF TableSound, NoDangling, ConnQueued
  <2>3. OnlineNow' = OnlineNow \ H /\ GoneNow' = GoneNow \cup H
    BY <1>0, <1>4, <2>2 DEF Authenticates, OnlineNow, GoneNow
  <2>4. nodes' = {p \in nodes : p[1] # n} \cup {<<n, c>>}
    BY <1>4 DEF Authenticates, Others
  <2> QED BY <2>1, <2>3, <2>4 DEF Directory!Login, Directory!Holding, Directory!Holders,
                                 OnlineNow, GoneNow
<1> QED BY <1>1, <1>2, <1>3, <1>4 DEF Effect, Polite, Directory!Next

(***************************************************************************)
(* The table of sessions is a name directory of the open connections       *)
(* (client()->sessions: p2p.c:292, moniclient_callback.c:39-81).           *)
(***************************************************************************)
THEOREM Implements == Polite /\ Spec => IsDirectory
<1> SUFFICES ASSUME Polite PROVE Spec => IsDirectory
  OBVIOUS
<1>0. WellBehaved
  BY DEF Polite
<1>1. Init => RInv /\ Directory!Init
  <2> SUFFICES ASSUME Init PROVE RInv /\ Directory!Init
    OBVIOUS
  <2>1. /\ \A c \in Conn : mem[c] = "none" /\ fd[c] = "closed" /\ sname[c] = NoName
        /\ nodes = {}
    BY SessionAssumption DEF Init, Sess
  <2> QED BY <2>1, InitTInv DEF RInv, Listed, Open, Directory!Init
<1>2. RInv /\ [Next]_vars => RInv' /\ [Directory!Next]_(Directory!vars)
  <2> SUFFICES ASSUME RInv, [Next]_vars
               PROVE  RInv' /\ [Directory!Next]_(Directory!vars)
    OBVIOUS
  <2>1. TInv
    BY DEF RInv
  <2>2. CASE UNCHANGED vars
    <3>1. TInv'
      <4>1. QInv' /\ TableSound'
        BY <2>1, <2>2, StutterKeepsInv DEF TInv, TableSound, NoDangling, Open, vars, sockets, table
      <4> QED BY <4>1 DEF TInv
    <3>2. Listed'
      BY <2>2 DEF RInv, Listed, Open, vars, sockets, table
    <3>3. UNCHANGED Directory!vars
      BY <2>2 DEF Directory!vars, vars, sockets, table
    <3> QED BY <3>1, <3>2, <3>3 DEF RInv
  <2>3. CASE Next /\ Effect
    <3>1. TInv'
      BY <1>0, <2>1, <2>3, StepEffect
    <3>2. Listed'
      BY <2>3, EffectKeepsListed
    <3>3. Directory!Next \/ UNCHANGED Directory!vars
      BY <2>3, EffectIsDirectoryStep DEF Directory!vars, OnlineNow, GoneNow
    <3> QED BY <3>1, <3>2, <3>3 DEF RInv
  <2> QED BY <1>0, <2>1, <2>2, <2>3, StepEffect
<1> QED BY <1>1, <1>2, PTL DEF Spec, IsDirectory, Directory!Spec
----------------------------------------------------------------------------
(***************************************************************************)
(* The read set.  mio_read puts a number into it unseen, so a session that *)
(* may be read again after its chunk has to be open then: only a close by  *)
(* a failed send() clears want_read.                                       *)
(***************************************************************************)
Accepted == WellBehaved /\ "badinit" \notin Faults /\ "refusal" \notin Faults

HasSocket(k) == \E s \in Sess : Open(s) /\ num[s] = k

Heard ==
    /\ \A k \in watched : HasSocket(k)
    /\ \A s \in Sess : reading = s /\ want_read[s] => Open(s)

HInv == TInv /\ Heard

\* Who is closed is no longer watched; who else is watched is still open.
LEMMA ClosingKeepsHeard ==
    ASSUME HInv, NEW K, NEW F, Closing(K, F),
           reading' \in {reading, Nobody}, reading' \notin K \ F
    PROVE  /\ \A k \in Unwatched(K) : HasSocket(k)'
           /\ \A s \in Sess : reading' = s /\ want_read'[s] => Open(s)'
<1>1. /\ num' = num
      /\ \A s \in Sess : fd'[s] = IF s \in K THEN "closed" ELSE fd[s]
      /\ \A s \in Sess : want_read'[s] <=> want_read[s] /\ s \notin F
  BY DEF Closing
<1>2. ASSUME NEW k \in Unwatched(K) PROVE HasSocket(k)'
  <2>1. PICK s \in Sess : Open(s) /\ num[s] = k
    BY <1>2 DEF HInv, Heard, HasSocket, Unwatched
  <2>2. s \notin K
    BY <1>2, <2>1 DEF Unwatched, NumsOf
  <2> QED BY <1>1, <2>1, <2>2 DEF HasSocket, Open
<1>3. ASSUME NEW s \in Sess, reading' = s, want_read'[s] PROVE Open(s)'
  <2>1. Nobody \notin Sess
    BY SessionAssumption DEF Sess
  <2>2. reading = s /\ want_read[s] /\ s \notin K
    BY <1>1, <1>3, <2>1
  <2> QED BY <1>1, <2>2 DEF HInv, Heard, Open
<1> QED BY <1>2, <1>3

LEMMA CloseSessKeepsHeard ==
    ASSUME HInv, NEW K, NEW F, CloseSess(K, F),
           reading' \in {reading, Nobody}, reading' \notin K \ F
    PROVE  Heard'
BY ClosingKeepsHeard DEF CloseSess, Heard

\* The sockets of open sessions are left alone.
LEMMA QuietKeepsHeard ==
    ASSUME HInv, UNCHANGED sockets, reading' \in {reading, Nobody}
    PROVE  Heard'
<1>1. Nobody \notin Sess
  BY SessionAssumption DEF Sess
<1> QED BY <1>1 DEF HInv, Heard, HasSocket, Open, sockets

\* auth_hook watches its own session again, which the hook does not close.
LEMMA AuthKeepsHeard ==
    ASSUME HInv, WellBehaved, NEW c \in Conn, NEW n \in Name, NEW complete \in BOOLEAN,
           AuthFrame(c, n, complete)
    PROVE  Heard'
<1> DEFINE nm == [sname EXCEPT ![c] = n]
<1>1. /\ reading = c /\ reading' = c /\ c \in Sess /\ Open(c)
      /\ \A s \in Sess : fd'[s] = IF <<n, s>> \in nodes THEN "closed" ELSE fd[s]
      /\ \A m \in Name : <<m, c>> \notin nodes
  BY AuthEffect DEF HInv, AuthFrame, InMio, Sess
<1>2. PICK K :
        Closing(K, {}) /\ (watched' = Unwatched(K) \/ watched' = Unwatched(K) \cup Reread(c))
  <2>1. PICK old \in OldSess(nm, n) :
          IF complete THEN AuthRegister(c, n, nm, Victims(old))
          ELSE AuthAbandon(nm, Victims(old))
    BY NotPoisoned DEF AuthFrame, HInv, ZapIsWild
  <2>2. CASE complete
    <3>1. AuthRegister(c, n, nm, Victims(old)) /\ ~AckFails(c, Victims(old))
      BY <2>1, <2>2 DEF WellBehaved, AckFails
    <3>2. PICK F \in {{}} :
            /\ Closing(Victims(old) \cup F, F)
            /\ watched' = IF F = {} THEN Unwatched(Victims(old)) \cup Reread(c)
                          ELSE Unwatched(Victims(old) \cup F)
      BY <3>1 DEF AuthRegister
    <3>3. F = {} /\ Victims(old) \cup F = Victims(old)
      BY <3>2
    <3> QED BY <3>2, <3>3
  <2>3. CASE ~complete
    BY <2>1, <2>3 DEF AuthAbandon
  <2> QED BY <2>2, <2>3
<1>3. fd'[c] = "open" /\ num'[c] = num[c]
  BY <1>1, <1>2 DEF Closing, Open
<1>4. reading' \notin K
  BY <1>1, <1>2, <1>3 DEF Closing
<1>5. /\ \A k \in Unwatched(K) : HasSocket(k)'
      /\ \A s \in Sess : reading' = s /\ want_read'[s] => Open(s)'
  BY <1>1, <1>2, <1>4, ClosingKeepsHeard
<1>6. \A k \in Reread(c) : HasSocket(k)'
  BY <1>1, <1>3 DEF Reread, HasSocket, Open
<1> QED BY <1>2, <1>5, <1>6 DEF Heard

LEMMA CallbackKeepsHeard ==
    ASSUME HInv, Accepted, Callback \/ EndChunk
    PROVE  Heard'
<1>0. /\ TypeOK /\ TableSound /\ Heard /\ TInv /\ WellBehaved /\ LoopPlace
      /\ Conn \subseteq Sess /\ Printsvr \in Sess /\ Printsvr \notin Conn
      /\ Nobody \notin Sess
      /\ \A nm, K : ~ZapIsWild(nm, K)
  BY SessionAssumption, NotPoisoned
     DEF HInv, TInv, QInv, Accepted, Sess, ZapIsWild
<1>1. ASSUME NEW c \in Conn, NEW k \in Num, Accept(c, k) PROVE Heard'
  <2>1. fd[c] = "closed" /\ c \in Sess
    BY <1>0, <1>1 DEF Accept, TInv, QInv, ConnQueued
  <2>2. /\ fd'[c] = "open" /\ num'[c] = k /\ reading' = Nobody
        /\ \A s \in Sess : s # c => fd'[s] = fd[s] /\ num'[s] = num[s]
        /\ watched' = watched \cup {k}
    BY <1>0, <1>1, <2>1 DEF Accept, TypeOK
  <2> QED BY <1>0, <2>1, <2>2 DEF Heard, HasSocket, Open
<1>2. ASSUME NEW c \in Conn, BadInitSess(c) \/ PongFails(c) PROVE FALSE
  BY <1>2 DEF BadInitSess, PongFails, Accepted, WellBehaved
<1>3. ASSUME NEW c \in Conn, GoodInitSess(c) PROVE Heard'
  <2>1. /\ reading = c /\ reading' = Nobody /\ NoClose
        /\ watched' = watched \cup Reread(c)
    BY <1>3 DEF GoodInitSess, Accepted, WellBehaved
  <2> QED BY <1>0, <2>1 DEF Heard, HasSocket, Open, NoClose, Reread
<1>11. ASSUME NEW c \in Conn, PongSent(c) PROVE Heard'
  <2>1. /\ reading = c /\ reading' = c /\ NoClose
        /\ watched' = watched \cup Reread(c)
    BY <1>11 DEF PongSent
  <2> QED BY <1>0, <2>1 DEF Heard, HasSocket, Open, NoClose, Reread
<1>4. ASSUME NEW c \in Conn, NEW n \in Name, NEW complete \in BOOLEAN,
             AuthFrame(c, n, complete)
      PROVE  Heard'
  BY <1>0, <1>4, AuthKeepsHeard
<1>5. ASSUME NEW s \in Sess, BeginChunk(s) PROVE Heard'
  BY <1>0, <1>5 DEF BeginChunk, Heard, HasSocket, Open, sockets
<1>6. ASSUME NEW s \in Sess, NEW F, HangUp(s, F) PROVE Heard'
  <2>1. CloseSess({s}, F) /\ reading' = Nobody
    BY <1>0, <1>6 DEF HangUp
  <2> QED BY <1>0, <2>1, CloseSessKeepsHeard
<1>7. CASE InitAckOk
  <2>1. reading' = reading /\ (NoWrite \/ CloseSess({Printsvr}, {Printsvr}))
    BY <1>7 DEF InitAckOk, PrintsvrWriteFails
  <2>2. CASE NoWrite
    BY <2>1, <2>2, QuietKeepsHeard DEF NoWrite, NoClose, sockets
  <2> QED BY <2>1, <2>2, CloseSessKeepsHeard
<1>8. CASE Refused
  BY <1>8 DEF Refused, Accepted
<1>9. CASE ForwardMoni
  <2>1. PICK o \in Match(nodes, sname, Moni) :
          /\ IF fd[o] = "open" THEN CloseSess({o}, {o})
             ELSE watched' = watched \cup Reread(o) /\ NoClose
          /\ UNCHANGED <<Elsewhere, reading, pc>>
    BY <1>0, <1>9, NotPoisoned DEF ForwardMoni
  <2>2. fd[o] = "open"
    BY <1>0, <2>1, SessionAssumption DEF Match, TableSound, NoDangling
  <2> QED BY <2>1, <2>2, CloseSessKeepsHeard
<1>10. CASE EndChunk
  <2>1. /\ UNCHANGED <<fd, num, want_read>> /\ reading' = Nobody
        /\ watched' = watched \cup (IF reading = Printsvr THEN Reread(Printsvr) ELSE {})
    BY <1>10 DEF EndChunk
  <2> QED BY <1>0, <2>1 DEF Heard, HasSocket, Open, Reread
<1> QED BY <1>1, <1>2, <1>3, <1>4, <1>5, <1>6, <1>7, <1>8, <1>9, <1>10, <1>11 DEF Callback

\* A reconnect comes only after printsvr's old socket is gone.
LEMMA SaveDeadKeepsHeard ==
    ASSUME HInv, NEW outcome \in Outcomes, SaveDead(outcome)
    PROVE  Heard'
<1>0. /\ TypeOK /\ Heard /\ PrintsvrQueued /\ reading = Nobody /\ pc = "save"
      /\ Printsvr \in Sess /\ Nobody \notin Sess /\ reading' = reading
  BY SessionAssumption DEF HInv, TInv, QInv, LoopPlace, SaveDead, Sess
<1>1. CASE dead[Printsvr] > 0
  <2>1. fd[Printsvr] # "open"
    BY <1>0, <1>1 DEF PrintsvrQueued
  <2>2. PICK k \in FreeNums : Reconnect(outcome, k)
    BY <1>1 DEF SaveDead
  <2>3. \A s \in Sess : s # Printsvr => fd'[s] = fd[s] /\ num'[s] = num[s]
    BY <1>0, <2>2 DEF Reconnect, TypeOK
  <2>4. \A j \in watched : HasSocket(j)'
    BY <1>0, <2>1, <2>3 DEF Heard, HasSocket, Open
  <2>5. CASE outcome = "up"
    <3>1. watched' = watched \cup {k} /\ fd'[Printsvr] = "open" /\ num'[Printsvr] = k
      BY <1>0, <2>2, <2>5 DEF Reconnect, TypeOK
    <3> QED BY <1>0, <2>4, <3>1 DEF Heard, HasSocket, Open
  <2>6. CASE outcome # "up"
    <3>1. watched' \subseteq watched
      BY <2>2, <2>6 DEF Reconnect, Outcomes
    <3> QED BY <1>0, <2>4, <3>1 DEF Heard
  <2> QED BY <2>5, <2>6
<1>2. CASE ~(dead[Printsvr] > 0)
  BY <1>0, <1>2, QuietKeepsHeard DEF SaveDead
<1> QED BY <1>1, <1>2

LEMMA LoopKeepsHeard ==
    ASSUME HInv, Loop
    PROVE  Heard'
<1>0. /\ TypeOK /\ TableSound /\ Heard /\ TInv /\ LoopPlace
      /\ \A nm, K : ~ZapIsWild(nm, K)
  BY NotPoisoned DEF HInv, TInv, QInv, ZapIsWild
<1>1. ASSUME EndMio \/ ClearDeads \/ SkipSave \/ EndClear \/ EndComs \/ Shutdown
      PROVE  Heard'
  BY <1>1, QuietKeepsHeard DEF EndMio, ClearDeads, SkipSave, EndClear, EndComs, Shutdown
<1>2. ASSUME NEW outcome \in Outcomes, SaveDead(outcome) PROVE Heard'
  BY <1>2, SaveDeadKeepsHeard
<1>3. ASSUME NEW Z \in SUBSET Sess, RemoveZombies(Z) PROVE Heard'
  BY <1>3, QuietKeepsHeard DEF RemoveZombies
<1>4. ASSUME NEW s \in Sess, ClearZombie(s) PROVE Heard'
  <2>1. CloseSess(OpenAt(num[s]), {}) /\ reading' = Nobody
    BY <1>0, <1>4 DEF ClearZombie, LoopPlace
  <2>2. Nobody \notin OpenAt(num[s])
    BY SessionAssumption DEF OpenAt, Sess
  <2> QED BY <2>1, <2>2, CloseSessKeepsHeard
<1>5. ASSUME Ping \/ ForwardPrint PROVE Heard'
  <2>1. reading' = reading /\ (NoWrite \/ CloseSess({Printsvr}, {Printsvr}))
    BY <1>5 DEF Ping, ForwardPrint, PrintsvrWriteFails
  <2>2. CASE NoWrite
    BY <2>1, <2>2, QuietKeepsHeard DEF NoWrite, NoClose, sockets
  <2> QED BY <2>1, <2>2, CloseSessKeepsHeard
<1> QED BY <1>1, <1>2, <1>3, <1>4, <1>5 DEF Loop

(***************************************************************************)
(* select() is never asked about a closed socket, however clients and      *)
(* printsvr come, go and fall silent, when no $initsess is bad, no client  *)
(* authenticates twice, printsvr refuses nothing, and no send() fails      *)
(* under a client's own chunk (p2p.c:75-77, p2pclient.c:198).              *)
(***************************************************************************)
THEOREM StaysListening == Accepted /\ Spec => []Listening
<1> SUFFICES ASSUME Accepted PROVE Spec => []Listening
  OBVIOUS
<1>0. WellBehaved
  BY DEF Accepted
<1>1. Init => Heard
  <2> SUFFICES ASSUME Init PROVE Heard
    OBVIOUS
  <2>1. Printsvr \in Sess /\ Nobody \notin Sess
    BY SessionAssumption DEF Sess
  <2> QED BY <2>1 DEF Init, Heard, HasSocket, Open
<1>2. TInv /\ Heard /\ [Next]_vars => Heard'
  <2> SUFFICES ASSUME TInv, Heard, [Next]_vars PROVE Heard'
    OBVIOUS
  <2>1. HInv
    BY DEF HInv
  <2>2. CASE UNCHANGED vars
    BY <2>1, <2>2, QuietKeepsHeard DEF vars
  <2> QED BY <2>1, <2>2, CallbackKeepsHeard, LoopKeepsHeard DEF Next, Stopped
<1>3. Heard => Listening
  BY DEF Heard, HasSocket, Listening, Deaf, OpenAt, Open
<1> QED BY <1>0, <1>1, <1>2, <1>3, TInvHolds, PTL DEF Spec
=============================================================================
