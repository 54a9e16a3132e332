---------------------------- MODULE ZombiesProof ----------------------------
(***************************************************************************)
(* NoLivelyZombie and SilenceBounded for any sessions and any times that   *)
(* satisfy the assumptions of Zombies.                                     *)
(***************************************************************************)
EXTENDS Zombies, TLAPS

\* From select() to the next one, and up to the scan.
Serving  == pc \in {"mio", "dead", "scan", "clear", "ping"}
Scanning == pc \in {"mio", "dead", "scan"}

\* How long a pass has taken: time passes in a read of printsvr's socket and
\* in the serial ports.
PassTime ==
    /\ pc = "mio" => passed + hold <= MioHold
    /\ pc = "mio" /\ printsvr \in ready => passed = 0 /\ hold = 0
    /\ pc \in {"dead", "scan", "clear", "ping"} => passed <= MioHold /\ hold = 0 /\ ready = {}
    /\ pc = "coms" => passed + hold <= MioHold + ComHold
    /\ pc = "select" => passed <= MioHold + ComHold /\ hold = 0

\* How long ago the last scan and the last ping can be.
ScanTime ==
    /\ pc = "select" => scanned <= ScanWait + MioHold + ComHold
    /\ Scanning => scanned <= ScanWait + MioHold + ComHold + passed
    /\ pc \in {"clear", "ping", "coms"} => scanned <= ScanWait + passed

PingTime ==
    /\ pc = "select" => pinged <= (PingWait - 1) + ComHold
    /\ Serving => pinged <= (PingWait - 1) + ComHold + passed
    /\ pc = "coms" => pinged + hold <= (PingWait - 1) + ComHold

\* What a session's silence is measured against: the last scan, which left it.
ScannedIdle == \A s \in open : idle[s] <= ZombieAge + scanned

\* A lively client: what it sent is read, or came after this pass's select().
ClientIdle ==
    \A s \in open \cap lively \cap Client :
        /\ waited[s] <= SendGap
        /\ s \notin unread => idle[s] <= waited[s]
        /\ Serving /\ s \notin ready => idle[s] <= SendGap + passed

\* The longest printsvr can have been silent when it is pinged.
AtPing == IF MioHold > (PingWait - 1) + ComHold THEN MioHold ELSE (PingWait - 1) + ComHold

\* A lively printsvr: it answered the last ping, or has waited[printsvr] to
\* do so; time passes inside mio_run only when it has just been read.
PrintsvrIdle ==
    printsvr \in open \cap lively =>
        /\ waited[printsvr] <= AnswerTime
        /\ printsvr \notin unread =>
              IF owing THEN idle[printsvr] <= AtPing + waited[printsvr]
              ELSE binitsess /\ idle[printsvr] <= pinged
        /\ Serving /\ (passed > 0 \/ hold > 0) => idle[printsvr] <= passed
        /\ Serving /\ passed = 0 /\ printsvr \notin ready =>
              idle[printsvr] <= AtPing + AnswerTime

\* A session that is in no queue starts anew.
Closed ==
    /\ \A s \in Sess \ (open \cup zombie_que) : idle[s] = 0 /\ waited[s] = 0
    /\ printsvr \notin open \cup zombie_que => ~owing

ZInv ==
    /\ TypeOK /\ Closed
    /\ pc # "clear" => zombie_que = {}
    /\ zombie_que \cap open = {}
    /\ PassTime /\ ScanTime /\ PingTime
    /\ ScannedIdle /\ ClientIdle /\ PrintsvrIdle
    /\ NoLivelyZombie

LEMMA InitZ == Init => ZInv
<1> SUFFICES ASSUME Init PROVE ZInv
  OBVIOUS
<1>1. TypeOK /\ Closed /\ NoLivelyZombie
  BY ZombiesAssumption DEF Init, TypeOK, Closed, NoLivelyZombie, Sess
<1>2. PassTime /\ ScanTime /\ PingTime
  BY ZombiesAssumption DEF Init, PassTime, ScanTime, PingTime, Serving, Scanning
<1>3. ScannedIdle /\ ClientIdle
  BY ZombiesAssumption DEF Init, ScannedIdle, ClientIdle, Serving, Sess
<1>4. PrintsvrIdle
  BY ZombiesAssumption DEF Init, PrintsvrIdle, AtPing, Serving, Sess
<1> QED BY <1>1, <1>2, <1>3, <1>4 DEF ZInv, Init

LEMMA TickZ == ASSUME ZInv, Tick PROVE ZInv'
<1>t. TypeOK' BY ZombiesAssumption DEF ZInv, TypeOK, Tick, Counted, Allowed, peers, times, Sess
<1>q. /\ (pc # "clear" => zombie_que = {})'
      /\ (zombie_que \cap open = {})'
  BY DEF ZInv, TypeOK, Tick, Counted, Allowed, peers, times
<1>z. Closed' BY ZombiesAssumption DEF ZInv, TypeOK, PassTime, Closed, Tick, Counted, Allowed, peers, times, Sess
<1>a. PassTime' BY ZombiesAssumption DEF ZInv, TypeOK, PassTime, Tick, Counted, Allowed, peers, times
<1>b. ScanTime' BY ZombiesAssumption DEF ZInv, TypeOK, PassTime, ScanTime, Scanning, Tick, Counted, Allowed, peers, times
<1>c. PingTime' BY ZombiesAssumption DEF ZInv, TypeOK, PassTime, PingTime, Serving, Tick, Counted, Allowed, peers, times
<1>d. ScannedIdle' BY ZombiesAssumption DEF ZInv, TypeOK, ScannedIdle, Tick, Counted, Allowed, peers, times, Sess
<1>e. ClientIdle'
  BY ZombiesAssumption DEF ZInv, TypeOK, PassTime, ClientIdle, Serving, Tick, Counted, Allowed, peers, times, Sess
<1>f. PrintsvrIdle'
  <2> SUFFICES ASSUME printsvr \in open \cap lively PROVE PrintsvrIdle'
    BY DEF PrintsvrIdle, Tick
  <2>1. /\ printsvr \in Sess /\ AtPing \in Nat
        /\ idle[printsvr] \in Nat /\ waited[printsvr] \in Nat
        /\ passed \in Nat /\ pinged \in Nat
    BY ZombiesAssumption DEF ZInv, TypeOK, Sess, AtPing
  <2>2. /\ idle'[printsvr] = idle[printsvr] + 1
        /\ passed' = passed + 1 /\ pinged' = pinged + 1
        /\ UNCHANGED <<pc, unread, ready, owing, binitsess>>
    BY <2>1 DEF Tick
  <2>3. IF owing THEN waited'[printsvr] = waited[printsvr] + 1 /\ waited'[printsvr] <= AnswerTime
        ELSE waited'[printsvr] = 0
    BY <2>1, ZombiesAssumption DEF Tick, Counted, Allowed
  <2>4. hold > 0
    BY DEF Tick
  <2> QED BY <2>1, <2>2, <2>3, <2>4, ZombiesAssumption DEF ZInv, PrintsvrIdle, AtPing, Serving
<1>g. NoLivelyZombie'
  BY ZombiesAssumption, PromptAssumption DEF ZInv, TypeOK, NoLivelyZombie, Tick, Counted, Allowed, peers, times, Sess
<1> QED BY <1>t, <1>q, <1>z, <1>a, <1>b, <1>c, <1>d, <1>e, <1>f, <1>g DEF ZInv

LEMMA AnswerZ == ASSUME ZInv, Answer PROVE ZInv'
<1>t. TypeOK' BY ZombiesAssumption DEF ZInv, TypeOK, Answer, peers, times, Sess
<1>q. /\ (pc # "clear" => zombie_que = {})'
      /\ (zombie_que \cap open = {})'
  BY DEF ZInv, TypeOK, Answer, peers, times
<1>z. Closed' BY ZombiesAssumption DEF ZInv, TypeOK, PassTime, Closed, Answer, peers, times, Sess
<1>a. PassTime' BY ZombiesAssumption DEF ZInv, TypeOK, PassTime, Answer, peers, times
<1>b. ScanTime' BY ZombiesAssumption DEF ZInv, TypeOK, PassTime, ScanTime, Scanning, Answer, peers, times
<1>c. PingTime' BY ZombiesAssumption DEF ZInv, TypeOK, PassTime, PingTime, Serving, Answer, peers, times
<1>d. ScannedIdle' BY ZombiesAssumption DEF ZInv, TypeOK, ScannedIdle, Answer, peers, times, Sess
<1>e. ClientIdle'
  BY ZombiesAssumption DEF ZInv, TypeOK, PassTime, ClientIdle, Serving, Answer, peers, times, Sess
<1>f. PrintsvrIdle'
  BY ZombiesAssumption DEF ZInv, TypeOK, PassTime, PingTime, PrintsvrIdle, AtPing, Serving, Answer, peers, times, Sess
<1>g. NoLivelyZombie'
  BY ZombiesAssumption, PromptAssumption DEF ZInv, TypeOK, NoLivelyZombie, Answer, peers, times, Sess
<1> QED BY <1>t, <1>q, <1>z, <1>a, <1>b, <1>c, <1>d, <1>e, <1>f, <1>g DEF ZInv

LEMMA SendZ == ASSUME ZInv, NEW s \in Sess, Send(s) PROVE ZInv'
<1>t. TypeOK' BY ZombiesAssumption DEF ZInv, TypeOK, Send, peers, times, Sess
<1>q. /\ (pc # "clear" => zombie_que = {})'
      /\ (zombie_que \cap open = {})'
  BY DEF ZInv, TypeOK, Send, peers, times
<1>z. Closed' BY ZombiesAssumption DEF ZInv, TypeOK, PassTime, Closed, Send, peers, times, Sess
<1>a. PassTime' BY ZombiesAssumption DEF ZInv, TypeOK, PassTime, Send, peers, times
<1>b. ScanTime' BY ZombiesAssumption DEF ZInv, TypeOK, PassTime, ScanTime, Scanning, Send, peers, times
<1>c. PingTime' BY ZombiesAssumption DEF ZInv, TypeOK, PassTime, PingTime, Serving, Send, peers, times
<1>d. ScannedIdle' BY ZombiesAssumption DEF ZInv, TypeOK, ScannedIdle, Send, peers, times, Sess
<1>e. ClientIdle'
  BY ZombiesAssumption DEF ZInv, TypeOK, PassTime, ClientIdle, Serving, Send, peers, times, Sess
<1>f. PrintsvrIdle'
  BY ZombiesAssumption DEF ZInv, TypeOK, PassTime, PingTime, PrintsvrIdle, AtPing, Serving, Send, peers, times, Sess
<1>g. NoLivelyZombie'
  BY ZombiesAssumption, PromptAssumption DEF ZInv, TypeOK, NoLivelyZombie, Send, peers, times, Sess
<1> QED BY <1>t, <1>q, <1>z, <1>a, <1>b, <1>c, <1>d, <1>e, <1>f, <1>g DEF ZInv

LEMMA SelectZ == ASSUME ZInv, Select PROVE ZInv'
<1>t. TypeOK' BY ZombiesAssumption DEF ZInv, TypeOK, Select, peers, times, Sess
<1>q. /\ (pc # "clear" => zombie_que = {})'
      /\ (zombie_que \cap open = {})'
  BY DEF ZInv, TypeOK, Select, peers, times
<1>z. Closed' BY ZombiesAssumption DEF ZInv, TypeOK, PassTime, Closed, Select, peers, times, Sess
<1>a. PassTime' BY ZombiesAssumption DEF ZInv, TypeOK, PassTime, Select, peers, times
<1>b. ScanTime' BY ZombiesAssumption DEF ZInv, TypeOK, PassTime, ScanTime, Scanning, Select, peers, times
<1>c. PingTime' BY ZombiesAssumption DEF ZInv, TypeOK, PassTime, PingTime, Serving, Select, peers, times
<1>d. ScannedIdle' BY ZombiesAssumption DEF ZInv, TypeOK, ScannedIdle, Select, peers, times, Sess
<1>e. ClientIdle'
  BY ZombiesAssumption DEF ZInv, TypeOK, PassTime, ClientIdle, Serving, Select, peers, times, Sess
<1>f. PrintsvrIdle'
  BY ZombiesAssumption DEF ZInv, TypeOK, PassTime, PingTime, PrintsvrIdle, AtPing, Serving, Select, peers, times, Sess
<1>g. NoLivelyZombie'
  BY ZombiesAssumption, PromptAssumption DEF ZInv, TypeOK, NoLivelyZombie, Select, peers, times, Sess
<1> QED BY <1>t, <1>q, <1>z, <1>a, <1>b, <1>c, <1>d, <1>e, <1>f, <1>g DEF ZInv

LEMMA ReadClientZ == ASSUME ZInv, NEW s \in Client, ReadClient(s) PROVE ZInv'
<1>t. TypeOK' BY ZombiesAssumption DEF ZInv, TypeOK, ReadClient, InMio, peers, times, Sess
<1>q. /\ (pc # "clear" => zombie_que = {})'
      /\ (zombie_que \cap open = {})'
  BY DEF ZInv, TypeOK, ReadClient, InMio, peers, times
<1>z. Closed' BY ZombiesAssumption DEF ZInv, TypeOK, PassTime, Closed, ReadClient, InMio, peers, times, Sess
<1>a. PassTime' BY ZombiesAssumption DEF ZInv, TypeOK, PassTime, ReadClient, InMio, peers, times
<1>b. ScanTime' BY ZombiesAssumption DEF ZInv, TypeOK, PassTime, ScanTime, Scanning, ReadClient, InMio, peers, times
<1>c. PingTime' BY ZombiesAssumption DEF ZInv, TypeOK, PassTime, PingTime, Serving, ReadClient, InMio, peers, times
<1>d. ScannedIdle' BY ZombiesAssumption DEF ZInv, TypeOK, ScannedIdle, ReadClient, InMio, peers, times, Sess
<1>e. ClientIdle'
  BY ZombiesAssumption DEF ZInv, TypeOK, PassTime, ClientIdle, Serving, ReadClient, InMio, peers, times, Sess
<1>f. PrintsvrIdle'
  BY ZombiesAssumption DEF ZInv, TypeOK, PassTime, PingTime, PrintsvrIdle, AtPing, Serving, ReadClient, InMio, peers, times, Sess
<1>g. NoLivelyZombie'
  BY ZombiesAssumption, PromptAssumption DEF ZInv, TypeOK, NoLivelyZombie, ReadClient, InMio, peers, times, Sess
<1> QED BY <1>t, <1>q, <1>z, <1>a, <1>b, <1>c, <1>d, <1>e, <1>f, <1>g DEF ZInv

LEMMA ReadPrintsvrZ == ASSUME ZInv, ReadPrintsvr PROVE ZInv'
<1>h. PICK n \in 0 .. MioHold : hold' = n
  BY ZombiesAssumption DEF ReadPrintsvr
<1>t. TypeOK'
  <2>1. hold' \in Nat
    BY <1>h, ZombiesAssumption
  <2>0. binitsess' \in BOOLEAN
    <3>1. binitsess \in BOOLEAN /\ (binitsess' = TRUE \/ binitsess' = binitsess)
      BY DEF ZInv, TypeOK, ReadPrintsvr
    <3> QED BY <3>1
  <2>2. idle' \in [Sess -> Nat]
    BY DEF ZInv, TypeOK, ReadPrintsvr
  <2>3. unread' \subseteq open \cup zombie_que /\ ready' \subseteq unread'
    <3>1. printsvr \in open
      BY DEF ZInv, TypeOK, ReadPrintsvr, InMio
    <3> QED BY <3>1 DEF ZInv, TypeOK, ReadPrintsvr
  <2> QED BY <2>0, <2>1, <2>2, <2>3 DEF ZInv, TypeOK, ReadPrintsvr, InMio
<1>q. /\ (pc # "clear" => zombie_que = {})'
      /\ (zombie_que \cap open = {})'
  BY DEF ZInv, TypeOK, ReadPrintsvr, InMio, peers, times
<1>z. Closed' BY ZombiesAssumption DEF ZInv, TypeOK, PassTime, Closed, ReadPrintsvr, InMio, peers, times, Sess
<1>p. /\ pc = "mio" /\ passed = 0
      /\ pc' = pc /\ passed' = passed /\ ready' = ready \ {printsvr}
  BY DEF ZInv, PassTime, ReadPrintsvr, InMio
<1>a. PassTime'
  <2>1. passed' + hold' <= MioHold
    BY <1>h, <1>p, ZombiesAssumption
  <2>2. pc' = "mio" /\ printsvr \notin ready'
    BY <1>p
  <2> QED BY <2>1, <2>2 DEF PassTime
<1>b. ScanTime' BY ZombiesAssumption DEF ZInv, TypeOK, PassTime, ScanTime, Scanning, ReadPrintsvr, InMio, peers, times
<1>c. PingTime' BY ZombiesAssumption DEF ZInv, TypeOK, PassTime, PingTime, Serving, ReadPrintsvr, InMio, peers, times
<1>d. ScannedIdle' BY ZombiesAssumption DEF ZInv, TypeOK, ScannedIdle, ReadPrintsvr, InMio, peers, times, Sess
<1>e. ClientIdle'
  BY ZombiesAssumption DEF ZInv, TypeOK, PassTime, ClientIdle, Serving, ReadPrintsvr, InMio, peers, times, Sess
<1>f. PrintsvrIdle'
  BY <1>h, ZombiesAssumption DEF ZInv, TypeOK, PassTime, PingTime, PrintsvrIdle, AtPing, Serving, ReadPrintsvr, InMio, peers, times, Sess
<1>g. NoLivelyZombie'
  BY ZombiesAssumption, PromptAssumption DEF ZInv, TypeOK, NoLivelyZombie, ReadPrintsvr, InMio, peers, times, Sess
<1> QED BY <1>t, <1>q, <1>z, <1>a, <1>b, <1>c, <1>d, <1>e, <1>f, <1>g DEF ZInv

LEMMA HangUpZ == ASSUME ZInv, NEW s \in Sess, HangUp(s) PROVE ZInv'
<1>t. TypeOK' BY ZombiesAssumption DEF ZInv, TypeOK, HangUp, InMio, peers, times, Sess
<1>q. /\ (pc # "clear" => zombie_que = {})'
      /\ (zombie_que \cap open = {})'
  BY DEF ZInv, TypeOK, HangUp, InMio, peers, times
<1>z. Closed' BY ZombiesAssumption DEF ZInv, TypeOK, PassTime, Closed, HangUp, InMio, peers, times, Sess
<1>a. PassTime' BY ZombiesAssumption DEF ZInv, TypeOK, PassTime, HangUp, InMio, peers, times
<1>b. ScanTime' BY ZombiesAssumption DEF ZInv, TypeOK, PassTime, ScanTime, Scanning, HangUp, InMio, peers, times
<1>c. PingTime' BY ZombiesAssumption DEF ZInv, TypeOK, PassTime, PingTime, Serving, HangUp, InMio, peers, times
<1>d. ScannedIdle' BY ZombiesAssumption DEF ZInv, TypeOK, ScannedIdle, HangUp, InMio, peers, times, Sess
<1>e. ClientIdle'
  BY ZombiesAssumption DEF ZInv, TypeOK, PassTime, ClientIdle, Serving, HangUp, InMio, peers, times, Sess
<1>f. PrintsvrIdle'
  BY ZombiesAssumption DEF ZInv, TypeOK, PassTime, PingTime, PrintsvrIdle, AtPing, Serving, HangUp, InMio, peers, times, Sess
<1>g. NoLivelyZombie'
  BY ZombiesAssumption, PromptAssumption DEF ZInv, TypeOK, NoLivelyZombie, HangUp, InMio, peers, times, Sess
<1> QED BY <1>t, <1>q, <1>z, <1>a, <1>b, <1>c, <1>d, <1>e, <1>f, <1>g DEF ZInv

LEMMA AcceptZ == ASSUME ZInv, NEW s \in Client, Accept(s) PROVE ZInv'
<1>t. TypeOK' BY ZombiesAssumption DEF ZInv, TypeOK, Accept, InMio, peers, times, Sess
<1>q. /\ (pc # "clear" => zombie_que = {})'
      /\ (zombie_que \cap open = {})'
  BY DEF ZInv, TypeOK, Accept, InMio, peers, times
<1>z. Closed' BY ZombiesAssumption DEF ZInv, TypeOK, PassTime, Closed, Accept, InMio, peers, times, Sess
<1>a. PassTime' BY ZombiesAssumption DEF ZInv, TypeOK, PassTime, Accept, InMio, peers, times
<1>b. ScanTime' BY ZombiesAssumption DEF ZInv, TypeOK, PassTime, ScanTime, Scanning, Accept, InMio, peers, times
<1>c. PingTime' BY ZombiesAssumption DEF ZInv, TypeOK, PassTime, PingTime, Serving, Accept, InMio, peers, times
<1>d. ScannedIdle' BY ZombiesAssumption DEF ZInv, TypeOK, ScannedIdle, Closed, Accept, InMio, peers, times, Sess
<1>e. ClientIdle'
  BY ZombiesAssumption DEF ZInv, TypeOK, PassTime, ClientIdle, Closed, Serving, Accept, InMio, peers, times, Sess
<1>f. PrintsvrIdle'
  BY ZombiesAssumption DEF ZInv, TypeOK, PassTime, PingTime, PrintsvrIdle, Closed, AtPing, Serving, Accept, InMio, peers, times, Sess
<1>g. NoLivelyZombie'
  BY ZombiesAssumption, PromptAssumption DEF ZInv, TypeOK, NoLivelyZombie, Accept, InMio, peers, times, Sess
<1> QED BY <1>t, <1>q, <1>z, <1>a, <1>b, <1>c, <1>d, <1>e, <1>f, <1>g DEF ZInv

LEMMA EndMioZ == ASSUME ZInv, EndMio PROVE ZInv'
<1>t. TypeOK' BY ZombiesAssumption DEF ZInv, TypeOK, EndMio, InMio, peers, times, Sess
<1>q. /\ (pc # "clear" => zombie_que = {})'
      /\ (zombie_que \cap open = {})'
  BY DEF ZInv, TypeOK, EndMio, InMio, peers, times
<1>z. Closed' BY ZombiesAssumption DEF ZInv, TypeOK, PassTime, Closed, EndMio, InMio, peers, times, Sess
<1>a. PassTime' BY ZombiesAssumption DEF ZInv, TypeOK, PassTime, EndMio, InMio, peers, times
<1>b. ScanTime' BY ZombiesAssumption DEF ZInv, TypeOK, PassTime, ScanTime, Scanning, EndMio, InMio, peers, times
<1>c. PingTime' BY ZombiesAssumption DEF ZInv, TypeOK, PassTime, PingTime, Serving, EndMio, InMio, peers, times
<1>d. ScannedIdle' BY ZombiesAssumption DEF ZInv, TypeOK, ScannedIdle, EndMio, InMio, peers, times, Sess
<1>e. ClientIdle'
  BY ZombiesAssumption DEF ZInv, TypeOK, PassTime, ClientIdle, Serving, EndMio, InMio, peers, times, Sess
<1>f. PrintsvrIdle'
  BY ZombiesAssumption DEF ZInv, TypeOK, PassTime, PingTime, PrintsvrIdle, AtPing, Serving, EndMio, InMio, peers, times, Sess
<1>g. NoLivelyZombie'
  BY ZombiesAssumption, PromptAssumption DEF ZInv, TypeOK, NoLivelyZombie, EndMio, InMio, peers, times, Sess
<1> QED BY <1>t, <1>q, <1>z, <1>a, <1>b, <1>c, <1>d, <1>e, <1>f, <1>g DEF ZInv

LEMMA SaveDeadZ == ASSUME ZInv, SaveDead PROVE ZInv'
<1>t. TypeOK' BY ZombiesAssumption DEF ZInv, TypeOK, SaveDead, peers, times, Sess
<1>q. /\ (pc # "clear" => zombie_que = {})'
      /\ (zombie_que \cap open = {})'
  BY DEF ZInv, TypeOK, SaveDead, peers, times
<1>z. Closed' BY ZombiesAssumption DEF ZInv, TypeOK, PassTime, Closed, SaveDead, peers, times, Sess
<1>a. PassTime' BY ZombiesAssumption DEF ZInv, TypeOK, PassTime, SaveDead, peers, times
<1>b. ScanTime' BY ZombiesAssumption DEF ZInv, TypeOK, PassTime, ScanTime, Scanning, SaveDead, peers, times
<1>c. PingTime' BY ZombiesAssumption DEF ZInv, TypeOK, PassTime, PingTime, Serving, SaveDead, peers, times
<1>d. ScannedIdle' BY ZombiesAssumption DEF ZInv, TypeOK, ScannedIdle, Closed, SaveDead, peers, times, Sess
<1>e. ClientIdle'
  BY ZombiesAssumption DEF ZInv, TypeOK, PassTime, ClientIdle, Closed, Serving, SaveDead, peers, times, Sess
<1>f. PrintsvrIdle'
  BY ZombiesAssumption DEF ZInv, TypeOK, PassTime, PingTime, PrintsvrIdle, Closed, AtPing, Serving, SaveDead, peers, times, Sess
<1>g. NoLivelyZombie'
  BY ZombiesAssumption, PromptAssumption DEF ZInv, TypeOK, NoLivelyZombie, SaveDead, peers, times, Sess
<1> QED BY <1>t, <1>q, <1>z, <1>a, <1>b, <1>c, <1>d, <1>e, <1>f, <1>g DEF ZInv

LEMMA RemoveZombiesZ == ASSUME ZInv, RemoveZombies PROVE ZInv'
<1>t. TypeOK' BY ZombiesAssumption DEF ZInv, TypeOK, RemoveZombies, check_zombie, peers, times, Sess
<1>q. /\ (pc # "clear" => zombie_que = {})'
      /\ (zombie_que \cap open = {})'
  BY DEF ZInv, TypeOK, RemoveZombies, check_zombie, peers, times
<1>z. Closed' BY ZombiesAssumption DEF ZInv, TypeOK, PassTime, Closed, RemoveZombies, check_zombie, peers, times, Sess
<1>a. PassTime' BY ZombiesAssumption DEF ZInv, TypeOK, PassTime, RemoveZombies, check_zombie, peers, times
<1>b. ScanTime' BY ZombiesAssumption DEF ZInv, TypeOK, PassTime, ScanTime, Scanning, RemoveZombies, check_zombie, peers, times
<1>c. PingTime' BY ZombiesAssumption DEF ZInv, TypeOK, PassTime, PingTime, Serving, RemoveZombies, check_zombie, peers, times
<1>d. ScannedIdle' BY ZombiesAssumption DEF ZInv, TypeOK, ScannedIdle, RemoveZombies, check_zombie, peers, times, Sess
<1>e. ClientIdle'
  BY ZombiesAssumption DEF ZInv, TypeOK, PassTime, ClientIdle, Serving, RemoveZombies, check_zombie, peers, times, Sess
<1>f. PrintsvrIdle'
  BY ZombiesAssumption DEF ZInv, TypeOK, PassTime, PingTime, PrintsvrIdle, AtPing, Serving, RemoveZombies, check_zombie, peers, times, Sess
<1>g. NoLivelyZombie'
  <2>1. SUFFICES ASSUME NEW s \in open \cap lively PROVE idle[s] <= ZombieAge
    <3>1. zombie_que' = zombie_que \/ zombie_que' = {s \in open : idle[s] > ZombieAge}
      BY DEF RemoveZombies, check_zombie
    <3>2. \A s \in open \cap lively : ~(idle[s] > ZombieAge)
      <4> TAKE s \in open \cap lively
      <4> idle[s] \in Nat /\ idle[s] <= ZombieAge
        BY <2>1 DEF ZInv, TypeOK
      <4> QED BY ZombiesAssumption
    <3>3. zombie_que \cap lively = {} /\ lively' = lively
      BY DEF ZInv, NoLivelyZombie, RemoveZombies, peers
    <3> QED BY <3>1, <3>2, <3>3 DEF NoLivelyZombie
  <2>2. pc = "scan" /\ ready = {} /\ passed \in Nat /\ passed <= MioHold
    BY DEF RemoveZombies, ZInv, PassTime, TypeOK
  <2>3. CASE s = printsvr
    BY <2>2, <2>3, ZombiesAssumption, PromptAssumption
    DEF ZInv, TypeOK, PrintsvrIdle, AtPing, Serving, Sess
  <2>4. CASE s # printsvr
    <3>1. s \in open \cap lively \cap Client /\ idle[s] \in Nat
      BY <2>4 DEF ZInv, TypeOK, Sess
    <3>2. idle[s] <= SendGap + passed
      BY <2>2, <3>1 DEF ZInv, ClientIdle, Serving
    <3> QED BY <2>2, <3>1, <3>2, ZombiesAssumption, PromptAssumption
  <2> QED BY <2>3, <2>4
<1> QED BY <1>t, <1>q, <1>z, <1>a, <1>b, <1>c, <1>d, <1>e, <1>f, <1>g DEF ZInv

LEMMA ClearZombiesZ == ASSUME ZInv, ClearZombies PROVE ZInv'
<1>t. TypeOK'
  <2>1. unread' \subseteq open' \cup zombie_que' /\ ready' \subseteq unread'
    BY DEF ZInv, TypeOK, PassTime, ClearZombies
  <2>2. idle' \in [Sess -> Nat] /\ waited' \in [Sess -> Nat] /\ owing' \in BOOLEAN
    BY DEF ZInv, TypeOK, ClearZombies
  <2> QED BY <2>1, <2>2 DEF ZInv, TypeOK, ClearZombies
<1>q. /\ (pc # "clear" => zombie_que = {})'
      /\ (zombie_que \cap open = {})'
  BY DEF ZInv, TypeOK, ClearZombies, peers, times
<1>z. Closed' BY ZombiesAssumption DEF ZInv, TypeOK, PassTime, Closed, ClearZombies, peers, times, Sess
<1>a. PassTime' BY ZombiesAssumption DEF ZInv, TypeOK, PassTime, ClearZombies, peers, times
<1>b. ScanTime' BY ZombiesAssumption DEF ZInv, TypeOK, PassTime, ScanTime, Scanning, ClearZombies, peers, times
<1>c. PingTime' BY ZombiesAssumption DEF ZInv, TypeOK, PassTime, PingTime, Serving, ClearZombies, peers, times
<1>d. ScannedIdle' BY ZombiesAssumption DEF ZInv, TypeOK, ScannedIdle, ClearZombies, peers, times, Sess
<1>e. ClientIdle'
  BY ZombiesAssumption DEF ZInv, TypeOK, PassTime, ClientIdle, Serving, ClearZombies, peers, times, Sess
<1>f. PrintsvrIdle'
  BY ZombiesAssumption DEF ZInv, TypeOK, PassTime, PingTime, PrintsvrIdle, AtPing, Serving, ClearZombies, peers, times, Sess
<1>g. NoLivelyZombie'
  BY ZombiesAssumption, PromptAssumption DEF ZInv, TypeOK, NoLivelyZombie, ClearZombies, peers, times, Sess
<1> QED BY <1>t, <1>q, <1>z, <1>a, <1>b, <1>c, <1>d, <1>e, <1>f, <1>g DEF ZInv

LEMMA PingZ == ASSUME ZInv, Ping PROVE ZInv'
<1>h. PICK n \in 0 .. ComHold : hold' = n
  BY ZombiesAssumption DEF Ping
<1>t. TypeOK' BY ZombiesAssumption DEF ZInv, TypeOK, Ping, peers, times, Sess
<1>q. /\ (pc # "clear" => zombie_que = {})'
      /\ (zombie_que \cap open = {})'
  BY DEF ZInv, TypeOK, Ping, peers, times
<1>z. Closed' BY ZombiesAssumption DEF ZInv, TypeOK, PassTime, Closed, Ping, peers, times, Sess
<1>p. passed \in Nat /\ passed <= MioHold /\ passed' = passed /\ pc' = "coms"
  BY DEF ZInv, TypeOK, PassTime, Ping
<1>a. PassTime'
  <2>1. passed' + hold' <= MioHold + ComHold
    BY <1>h, <1>p, ZombiesAssumption
  <2> QED BY <1>p, <2>1 DEF PassTime
<1>b. ScanTime' BY ZombiesAssumption DEF ZInv, TypeOK, PassTime, ScanTime, Scanning, Ping, peers, times
<1>c. PingTime' BY ZombiesAssumption DEF ZInv, TypeOK, PassTime, PingTime, Serving, Ping, peers, times
<1>d. ScannedIdle' BY ZombiesAssumption DEF ZInv, TypeOK, ScannedIdle, Ping, peers, times, Sess
<1>e. ClientIdle'
  BY ZombiesAssumption DEF ZInv, TypeOK, PassTime, ClientIdle, Serving, Ping, peers, times, Sess
<1>f. PrintsvrIdle'
  BY ZombiesAssumption DEF ZInv, TypeOK, PassTime, PingTime, PrintsvrIdle, AtPing, Serving, Ping, peers, times, Sess
<1>g. NoLivelyZombie'
  BY ZombiesAssumption, PromptAssumption DEF ZInv, TypeOK, NoLivelyZombie, Ping, peers, times, Sess
<1> QED BY <1>t, <1>q, <1>z, <1>a, <1>b, <1>c, <1>d, <1>e, <1>f, <1>g DEF ZInv

LEMMA EndComsZ == ASSUME ZInv, EndComs PROVE ZInv'
<1>t. TypeOK' BY ZombiesAssumption DEF ZInv, TypeOK, EndComs, peers, times, Sess
<1>q. /\ (pc # "clear" => zombie_que = {})'
      /\ (zombie_que \cap open = {})'
  BY DEF ZInv, TypeOK, EndComs, peers, times
<1>z. Closed' BY ZombiesAssumption DEF ZInv, TypeOK, PassTime, Closed, EndComs, peers, times, Sess
<1>a. PassTime' BY ZombiesAssumption DEF ZInv, TypeOK, PassTime, EndComs, peers, times
<1>b. ScanTime' BY ZombiesAssumption DEF ZInv, TypeOK, PassTime, ScanTime, Scanning, EndComs, peers, times
<1>c. PingTime' BY ZombiesAssumption DEF ZInv, TypeOK, PassTime, PingTime, Serving, EndComs, peers, times
<1>d. ScannedIdle' BY ZombiesAssumption DEF ZInv, TypeOK, ScannedIdle, EndComs, peers, times, Sess
<1>e. ClientIdle'
  BY ZombiesAssumption DEF ZInv, TypeOK, PassTime, ClientIdle, Serving, EndComs, peers, times, Sess
<1>f. PrintsvrIdle'
  BY ZombiesAssumption DEF ZInv, TypeOK, PassTime, PingTime, PrintsvrIdle, AtPing, Serving, EndComs, peers, times, Sess
<1>g. NoLivelyZombie'
  BY ZombiesAssumption, PromptAssumption DEF ZInv, TypeOK, NoLivelyZombie, EndComs, peers, times, Sess
<1> QED BY <1>t, <1>q, <1>z, <1>a, <1>b, <1>c, <1>d, <1>e, <1>f, <1>g DEF ZInv

LEMMA NextZ == ZInv /\ [Next]_vars => ZInv'
<1> SUFFICES ASSUME ZInv, [Next]_vars PROVE ZInv'
  OBVIOUS
<1>1. CASE Next
  BY <1>1, TickZ, AnswerZ, SendZ, SelectZ, ReadClientZ, ReadPrintsvrZ, HangUpZ, AcceptZ,
     EndMioZ, SaveDeadZ, RemoveZombiesZ, ClearZombiesZ, PingZ, EndComsZ DEF Next, Server
<1>2. CASE UNCHANGED vars
  BY <1>2 DEF vars, peers, times, ZInv, TypeOK, Closed, PassTime, ScanTime, PingTime,
     ScannedIdle, ClientIdle, PrintsvrIdle, NoLivelyZombie, Serving, Scanning
<1> QED BY <1>1, <1>2

LEMMA AlwaysZ == Spec => []ZInv
BY InitZ, NextZ, PTL DEF Spec

\* ZombiesTyped: the types, and that only sessions in a queue have anything to read.
THEOREM ZombiesTyped == Spec => []TypeOK
<1>1. ZInv => TypeOK
  BY DEF ZInv
<1> QED BY <1>1, AlwaysZ, PTL

\* LivelySurvive: the scan takes no session whose peer keeps to its times, for
\* every number of clients and all times that satisfy PromptAssumption.
THEOREM LivelySurvive == Spec => []NoLivelyZombie
<1>1. ZInv => NoLivelyZombie
  BY DEF ZInv
<1> QED BY <1>1, AlwaysZ, PTL

\* SilentAreTaken: a silent session is gone after ZombieAge, the scan's period
\* and what two passes can be kept.
THEOREM SilentAreTaken == Spec => []SilenceBounded
<1>1. ZInv => SilenceBounded
  <2> SUFFICES ASSUME ZInv, NEW s \in open
               PROVE idle[s] <= ZombieAge + ScanWait + ComHold + MioHold + MioHold
    BY DEF SilenceBounded
  <2>1. idle[s] \in Nat /\ scanned \in Nat /\ passed \in Nat /\ hold \in Nat
    BY DEF ZInv, TypeOK
  <2>2. idle[s] <= ZombieAge + scanned
    BY DEF ZInv, ScannedIdle
  <2>3. scanned <= ScanWait + ComHold + MioHold + MioHold
    BY <2>1, ZombiesAssumption DEF ZInv, TypeOK, PassTime, ScanTime, Scanning
  <2> QED BY <2>1, <2>2, <2>3, ZombiesAssumption
<1> QED BY <1>1, AlwaysZ, PTL
=============================================================================
