-------------------------------- MODULE Coms --------------------------------
(***************************************************************************)
(* The serial ports of the card readers: do_coms_job with com_run          *)
(* (coms.c, serialcom.c).  Each pass issues a read on every port that has  *)
(* none pending, waits for one of the pending reads to complete, hands     *)
(* what it read to the port's scanner, and looks, once, for ports to open  *)
(* again.  A read is completed by the device while the loop is anywhere;   *)
(* of several completed ones the wait finds the port listed first.         *)
(***************************************************************************)
EXTENDS DevScan, FiniteSets

CONSTANTS
    num,      \* ports, in the order of the configuration
    Streams,  \* Streams[p]: what the reader on port p may send
    RbufSize  \* size of rbuffer

Port == 1 .. num

ASSUME ComsAssumption ==
    /\ num \in Nat \ {0} /\ num <= 63   \* com_run serves 63 ports
    /\ Streams \in [Port -> SUBSET Seq(Byte)]
    /\ RbufSize \in Nat \ {0}

VARIABLES
    at,           \* the port readcom looks at next, or where the pass is after them
    state,        \* sess.state
    hcom,         \* "null", "open", or "stale": set, but closed by com_open
    ifreadwating, \* a read is pending
    done,         \* what the pending read came to
    expat,        \* the port's scanner
    checked,      \* laskcheck_time is not 0
    device,       \* "fine", "gone", or "back" after it was gone
    stream,       \* all that the reader sends
    unread,       \* what of it no read has taken
    taken,        \* bytes handed to the scanner
    msgs          \* messages given to the callback

port == <<state, hcom, ifreadwating, done>>
vars == <<at, port, expat, checked, device, stream, unread, taken, msgs>>

Waiting == num + 1
Check   == num + 2

Nothing == [what |-> "none", bytes |-> <<>>]

Least(S) == CHOOSE x \in S : \A y \in S : x <= y

----------------------------------------------------------------------------
\* coms_openinit has opened every port, or the program has ended.
Init ==
    /\ at = 1 /\ checked = FALSE
    /\ state = [p \in Port |-> "init"] /\ hcom = [p \in Port |-> "open"]
    /\ ifreadwating = [p \in Port |-> FALSE] /\ done = [p \in Port |-> Nothing]
    /\ expat = [p \in Port |-> dev_exp_new]
    /\ device = [p \in Port |-> "fine"]
    /\ stream \in {s \in [Port -> UNION {Streams[p] : p \in Port}] :
                      \A p \in Port : s[p] \in Streams[p]}
    /\ unread = stream
    /\ taken = [p \in Port |-> <<>>] /\ msgs = [p \in Port |-> <<>>]

\* _on_comreadcb with eCode_ok: what was read goes through the scanner.
OnComRead(p, bytes) ==
    LET r == exp_process_data(expat[p], bytes)
    IN  /\ expat' = [expat EXCEPT ![p] = r.exp]
        /\ msgs' = [msgs EXCEPT ![p] = @ \o r.msgs]
        /\ taken' = [taken EXCEPT ![p] = @ \o bytes]

\* What a read may take from the device.
Takes(p, least) ==
    {SubSeq(unread[p], 1, n) :
        n \in least .. (IF Len(unread[p]) < RbufSize THEN Len(unread[p]) ELSE RbufSize)}

Left(p, bytes) == SubSeq(unread[p], Len(bytes) + 1, Len(unread[p]))

\* ReadFile is done at once.
ReadAtOnce(p) ==
    /\ device[p] # "gone"
    /\ \E bytes \in Takes(p, 1) :
          OnComRead(p, bytes) /\ unread' = [unread EXCEPT ![p] = Left(p, bytes)]
    /\ UNCHANGED port

ReadLater(p) ==
    /\ device[p] # "gone"
    /\ ifreadwating' = [ifreadwating EXCEPT ![p] = TRUE]
    /\ done' = [done EXCEPT ![p] = Nothing]
    /\ UNCHANGED <<state, hcom, unread, expat, msgs, taken>>

\* Variant: the port is closed and the read stays pending.
ReadFails_KeepsWaiting(p) ==
    /\ device[p] = "gone"
    /\ hcom' = [hcom EXCEPT ![p] = "null"] /\ state' = [state EXCEPT ![p] = "new"]
    /\ ifreadwating' = [ifreadwating EXCEPT ![p] = TRUE]
    /\ UNCHANGED <<done, unread, expat, msgs, taken>>

\* ReadFile fails: _on_comreadcb with eCode_err and no bytes closes the port.
ReadFails(p) ==
    /\ device[p] = "gone"
    /\ hcom' = [hcom EXCEPT ![p] = "null"] /\ state' = [state EXCEPT ![p] = "new"]
    /\ UNCHANGED <<ifreadwating, done, unread, expat, msgs, taken>>

\* readcom on the next port; one without an open handle, or whose event
\* com_close took away, is passed over.
ReadCom ==
    /\ at \in Port /\ at' = at + 1
    /\ \/ /\ hcom[at] = "open" /\ ~ifreadwating[at]
          /\ ReadAtOnce(at) \/ ReadLater(at) \/ ReadFails(at)
       \/ /\ hcom[at] # "open" \/ ifreadwating[at]
          /\ UNCHANGED <<port, unread, expat, msgs, taken>>
    /\ UNCHANGED <<checked, device, stream>>

Signalled == {p \in Port : hcom[p] = "open" /\ ifreadwating[p] /\ done[p] # Nothing}

\* Variant: the first port that waits is served, completed or not.
Served_NotReset(p) == UNCHANGED <<ifreadwating, done>>

\* The read is not pending any more.
Served(p) ==
    /\ ifreadwating' = [ifreadwating EXCEPT ![p] = FALSE]
    /\ done' = [done EXCEPT ![p] = Nothing]

\* waitonreads: one completed read, of the port listed first, or none in 5 ms.
WaitOnReads ==
    /\ at = Waiting /\ at' = Check
    /\ IF Signalled = {} THEN UNCHANGED <<ifreadwating, done, expat, msgs, taken>>
       ELSE LET p == Least(Signalled)
            IN  /\ Served(p)
                /\ IF done[p].what = "read" THEN OnComRead(p, done[p].bytes)
                   ELSE UNCHANGED <<expat, msgs, taken>>
    /\ UNCHANGED <<state, hcom, checked, device, stream, unread>>

\* com_open on a port that is closed.  When the handle cannot be set up it is
\* closed, and kept.
Opens(p) ==
    {[state |-> "new", hcom |-> "null"], [state |-> "new", hcom |-> "stale"]} \cup
    (IF device[p] = "gone" THEN {} ELSE {[state |-> "open", hcom |-> "open"]})

Checks(p) ==
    CASE state[p] = "open" -> {[state |-> "init", hcom |-> hcom[p]]}
      [] state[p] = "new"  -> Opens(p)
      [] state[p] = "init" -> {[state |-> "init", hcom |-> hcom[p]]}

(***************************************************************************)
(* The check of do_coms_job, more than three seconds after the last one.   *)
(* laskcheck_time is 0 in the first pass, and the current time ever after: *)
(* there is one check.                                                     *)
(***************************************************************************)
CheckComs ==
    /\ at = Check /\ at' = 1
    /\ checked' = TRUE
    /\ IF checked THEN UNCHANGED <<state, hcom>>
       ELSE \E r \in [Port -> UNION {Checks(p) : p \in Port}] :
               /\ \A p \in Port : r[p] \in Checks(p)
               /\ state' = [p \in Port |-> r[p].state]
               /\ hcom' = [p \in Port |-> r[p].hcom]
    /\ UNCHANGED <<ifreadwating, done, expat, device, stream, unread, taken, msgs>>

Pass == ReadCom \/ WaitOnReads \/ CheckComs

----------------------------------------------------------------------------
(***************************************************************************)
(* The devices.                                                            *)
(***************************************************************************)
Pending(p) == hcom[p] = "open" /\ ifreadwating[p] /\ done[p] = Nothing

\* A pending read is completed with some bytes.
Complete(p) ==
    /\ Pending(p) /\ device[p] # "gone"
    /\ \E bytes \in Takes(p, 1) :
          /\ done' = [done EXCEPT ![p] = [what |-> "read", bytes |-> bytes]]
          /\ unread' = [unread EXCEPT ![p] = Left(p, bytes)]
    /\ UNCHANGED <<at, state, hcom, ifreadwating, expat, checked, device, stream,
                   taken, msgs>>

\* Without a byte it is completed as well, after 10.3 s (100 ms, and 10 for each
\* of the 1024 bytes of rbuffer).  A pass waits 5 ms for its ports, and 3 s for each
\* request to Parker: a read completed on another port is served before.
TimeOut(p) ==
    /\ Pending(p) /\ device[p] # "gone" /\ Signalled = {}
    /\ done' = [done EXCEPT ![p] = [what |-> "read", bytes |-> <<>>]]
    /\ UNCHANGED <<at, state, hcom, ifreadwating, expat, checked, device, stream,
                   unread, taken, msgs>>

Fail(p) ==
    /\ Pending(p) /\ device[p] = "gone"
    /\ done' = [done EXCEPT ![p] = [what |-> "failed", bytes |-> <<>>]]
    /\ UNCHANGED <<at, state, hcom, ifreadwating, expat, checked, device, stream,
                   unread, taken, msgs>>

Unplug(p) ==
    /\ device[p] = "fine" /\ device' = [device EXCEPT ![p] = "gone"]
    /\ UNCHANGED <<at, port, expat, checked, stream, unread, taken, msgs>>

Replug(p) ==
    /\ device[p] = "gone" /\ device' = [device EXCEPT ![p] = "back"]
    /\ UNCHANGED <<at, port, expat, checked, stream, unread, taken, msgs>>

Devices == \E p \in Port : Complete(p) \/ TimeOut(p) \/ Fail(p) \/ Unplug(p) \/ Replug(p)

Next == Pass \/ Devices

Spec == Init /\ [][Next]_vars

\* The loop goes on, and nothing else changes at.
GoesOn == at' \in (1 .. Check) \ {at}

\* The loop goes on, and a reader with something to send does not miss the reads
\* for ever, those that time out between them.
FairSpec == Spec /\ WF_at(GoesOn) /\ \A p \in Port : SF_vars(Complete(p))

----------------------------------------------------------------------------
\* Types; a read is pending on an open port only, and a closed one is "new".
TypeOK ==
    /\ at \in 1 .. Check
    /\ state \in [Port -> {"new", "open", "init"}]
    /\ hcom \in [Port -> {"null", "open", "stale"}]
    /\ ifreadwating \in [Port -> BOOLEAN]
    /\ \A p \in Port :
          /\ done[p].what \in {"none", "read", "failed"} /\ Len(done[p].bytes) <= RbufSize
          /\ done[p] # Nothing => ifreadwating[p]
          /\ ifreadwating[p] => hcom[p] = "open"
          /\ hcom[p] = "open" <=> state[p] # "new"
          /\ expat[p].framelen < UNPACKBUFFSIZE /\ Len(expat[p].Head) < HEADLEN
    /\ checked \in BOOLEAN
    /\ device \in [Port -> {"fine", "gone", "back"}]

\* Every byte of a reader is taken once and in order, across reads done at once,
\* completed later, failed, and served port by port (serialcom.c:163-240).
NothingLost == \A p \in Port : taken[p] \o done[p].bytes \o unread[p] = stream[p]

\* The callback has been given exactly the frames among the bytes taken, wherever
\* the reads cut them, behind garbage, broken frames and frames that do not fit,
\* for length bytes below 128 (devexpat.c:79-196, expat.c:16-47).
FramesFound ==
    \A p \in Port :
        Frames(taken[p]) = [i \in 1 .. Len(msgs[p]) |-> msgs[p][i].frame]

\* Whatever a reader sends reaches the scanner in the end, unless the reader was
\* unplugged: no port starves behind those listed before it (serialcom.c:214-237).
AllScanned == \A p \in Port : <>(device[p] # "fine" \/ taken[p] = stream[p])
=============================================================================
