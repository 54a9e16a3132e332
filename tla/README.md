# backcard: a verification development

backcard (`src/Projects/backcard`) gives competitors their score when they hand
back an NFC card: a card reader on a serial port sees a card, the server asks
*Parker* over HTTP for the score, has *printsvr* print it over a TCP stream it
opened, asks Parker to take the card back, and shows every stage to a
*moniclient* that connected to it. It is one thread around the `mio` event loop.

The sources hold Chinese comments in GBK; line numbers below are those of the
files as they are. There are no tests and no design document: what the code is
*meant* to do is taken from its comments.

## 1. Inventory

| part | code | state | operations | hard because |
|---|---|---|---|---|
| main loop | `main.c:165-248` | clocks, `g_shutdown` | one pass: `mio_run`, clear deads, save deads, zombies, ping, serial ports | the order of the calls decides what a session may be in between them |
| session queues | `net.c` | `session_que`, `zombie_que`, `dead_sess` | move, kill, free, reconnect, ping | a session is in several queues at once; close callbacks run inside the calls |
| client sessions | `p2p.c` | socket, `want_read`, `want_write`, output queue, parser | accept, read, write, kill, close | any write may close the session it is for, in the middle of a parse |
| stream to printsvr | `p2pclient.c` | the same, `lost`, `binitsess` | connect, reconnect, read, write, close | never freed, reconnected in place, closed twice |
| table of sessions | `client.c`, `getrefsvr.c`, `moniclient_callback.c:23-86` | `sessions`: name to session, keys by pointer | authenticate, look up, zap | the key is a buffer inside the session it leads to |
| frame dispatch | `opensess_exp.c`, `moniclient_expat.c`, `printsvr_expat.c`, `expat/expat.c` | frame buffer, search status | find a frame in a chunk, act on it, swap the parser | frames behind one that closed the session; frames split over chunks |
| protocol with printsvr | `printsvr_callback.c`, `protobuffer.c` | `binitsess`, sequence number | `$initsess`, `$auth`, `$ping`, `$print` and their acks | answers may come in any order, or never |
| card flow | `scom/coms.c`, `printsvr_callback.c:102-249`, `my_curl/my_curl.c`, `forward.c` | none of its own: a card's stage is in the messages | swipe, score, print, printack, back card | two services and one display that must agree, each of which can fail |
| serial ports | `scom/serialcom.c`, `scom/coms.c:145-238` | port state, pending read | open, read, wait, close, reopen | overlapped I/O, ports that fail |
| card reader frames | `expat/devexpat.c` | header, length, checksum | find a frame | resynchronisation after garbage |
| packet pool | `responsepkt.c` | free and used queues, a mutex | new, free (clone has no caller) | packets are reused by size and never released; one is advanced while it is sent in part |
| user status, subjects | `userstatus.c`, `subject.c` | a hash and a queue over the same objects | created at the start, then called by nothing in the build | |
| utilities | `tool.c`, `buffer.c`, ... | none | checksums, strings, time formats | |
| database | `myquery/`, `main.c:91-154` | | not opened: `main.c:196` is commented out | |

Not part of the build, by the project file: `router_expat.c`,
`routermsgcallback.c`, `rptqueue.c`, `backexpat.c`, `Sms.c`, `db/`. Third party:
cJSON, curl, mysql, and the binaries `lib/mio.lib` and `lib/util.lib` (event
loop, hash, queue, log, config), which are modelled from how the code uses them
and from what the library is known to do: `xhash` stores the key's pointer, `mio_close` goes
through a slot indexed by the socket number and runs the close callback at
once, `mio_run` returns without calling anybody when `select()` fails.

How the parts interact: `mio_run` calls `_p2p_mio_callback` or the stream's
callback; those feed `exp_process_data`, which calls a frame handler for each
frame; a handler writes to its own session, to another one found in the table,
or to printsvr; every write may close the session written to, and a close runs
the close callback at once, which takes the session out of `session_que`, out
of the table and into `dead_sess`. The loop then clears, frees and reconnects
what is in `dead_sess`, kills the silent ones, pings printsvr, and serves the
serial ports, whose frames write to the moniclient and to printsvr again.

What makes each part correct: a session is in the queues its state calls for,
exactly once, and is freed once; the table leads to open sessions and to
nothing freed; nobody is disconnected but the one meant; the server goes on
hearing its clients; a lost stream comes back; an output queue delivers what
was put in, in order; a card's stages are shown in order, a card is handed back
only after its score was printed, a swipe does not end without an answer; a
frame is found wherever it starts; every packet is in one queue of the pool; a
peer that answers in time is not taken for a dead one.
The hazards behind these, with their lines, are listed in `PROJECT.json`.

## 2. The modules

| module | what |
|---|---|
| `Session` | sessions, queues, table, sockets, the loop: state, actions, fairness, properties |
| `NameDirectory` | what the table promises: a name leads to the last client that logged in under it, as long as that one is online |
| `SessionDirectory` | the refinement mapping from `Session` to `NameDirectory` |
| `MCSession` | symmetry for TLC |
| `SessionProof` | proofs about the queues, under every fault, and about the table and the read set, for well-behaved clients; the refinement |
| `WriteQueue` | the output queue of one session, of either kind, and its packets in the pool |
| `MCWriteQueue` | packet sizes for TLC |
| `WriteQueueProof` | proofs about the output queue, and that only an overflow loses packets |
| `CardFlow` | a card from the reader to its return: Parker, printsvr, the moniclient |
| `CardFlowProof` | proofs about the card flow |
| `DevScan` | the scanner of the card readers' frames, as operators, and the frames of a whole stream |
| `Coms` | the serial ports: reads, their completions, the scanners behind them, devices |
| `MCComs` | exclusive or and the readers' streams for TLC |
| `Recursion` | induction and recursive functions over integers, as lemmas that the proofs apply |
| `ComsProof` | proofs that the scanner finds the frames of a stream whatever its chunks, that the ports lose and double no byte and find every frame, and of their types |
| `TextScan` | the scanners of the text frames, and what they hear of a stream that is cut anywhere |
| `MCTextScan` | the peers' streams for TLC |
| `TextScanProof` | proofs that the text scanners hear what they promise, of any stream in any chunks |
| `Zombies` | the loop's clocks: when a session is silent because of its peer, and when because of the loop |
| `ZombiesProof` | proofs about them, for all times |
| `PktPool` | the packet pool: both queues, the sizes, reuse |
| `Allocator` | what the pool's callers count on |
| `PktPoolProof` | proofs about the pool, and the refinement |

`Session` composes all sessions and the loop; `SessionDirectory` instantiates
`NameDirectory` with a refinement mapping. `WriteQueue` is one session in
detail: what `Session` knows of it is that a push succeeds, waits or closes the
session, which are the outcomes of `CanWrite`. `CardFlow` stands on both: a
push to the moniclient succeeds or takes it away, a job is on the way to
printsvr or lost with the connection. `Coms` instantiates nothing of these: what
it gives the callback (`msgs`) is what `CardFlow` takes as swipes.
`TextScan` is one session's input between `BeginChunk` and `EndChunk` of
`Session`. `Zombies` is the same loop as in `Session` with time instead of
queues. `PktPool` stands under `WriteQueue`, whose `used` is its
`cacheque_use`; it instantiates `Allocator` with the mapping `held`.

### Session

One behaviour is one run of the program. `pc` names the call of main's loop
that comes next; inside `mio_run` (`pc = "mio"`) any callback may happen, and
while the frames of a chunk are parsed `reading` holds the session the chunk
came from.

| variable | code |
|---|---|
| `mem` | whether the session object is allocated (`p2p.c:322`, `client.c:41`) |
| `fd`, `num` | whether its socket is open, and the socket number `sess.fd` stands for: a closed session keeps the number, and the number is given out again |
| `want_read`, `watched` | the session's flag and mio's read set, which is by number |
| `lives`, `zombies`, `dead` | how often the session occurs in `session_que`, `zombie_que`, `dead_sess`; order inside a queue does not matter to the code that walks it |
| `nodes`, `sname` | the hash table: a node `<<n, c>>` was put under `n` and its key points to `c`'s `sname`, which may have changed since |
| `parser`, `reading` | `p2p->expat`; the session whose chunk is parsed |
| `binitsess`, `wbufq`, `fresh` | the stream: initialised, has an output queue, connected in this pass |
| `wild` | freed memory was used: the run says nothing more |

The actions are the callbacks (`Accept`, `BeginChunk`, `EndChunk`, `HangUp`),
the frames of a client (`BadInitSess`, `GoodInitSess`, `AuthFrame`,
`PongSent`, `PongFails`), the frames of printsvr (`InitAckOk`, `Refused`; `ForwardMoni` for
a printack), the writes from the serial side (`ForwardMoni`, `ForwardPrint`),
and the calls of the loop. A write that succeeds or would block asks
for more to read, also on a session that is closed by then (`p2p.c:75-77`); one
that fails closes the session written to, at once, wherever the code is. `Closing` is the close callback of both kinds of session.

Left out here: what is in the output queues (`WriteQueue`), the bytes of frames
(`TextScan`), clocks (`Zombies`): whether the 7 s of `save_deadsession`, the 2 s of the zombie
scan and the 20 s of silence are over is a free choice. MySQL and logging are
not modelled. A client that is told a socket number which then closes while
nobody authenticates is covered, a run out of memory is not. Distinct names are
assumed to fall into distinct chains of the hash, and of several matching nodes
of a chain any may be found first.

`Faults` says what the environment may do beyond the normal: `reauth` (a second
`$auth` on a connection), `partialauth` (an `$auth` without seqno or pwd),
`badinit` (a bad `$initsess`), `ownsend` (a send to a client fails while its own
chunk is parsed), `refusal` (printsvr answers with a refusal). Disconnects,
send errors to others, silent sessions, failed reconnects and a shutdown can
happen in every run.

### WriteQueue

One session; `kind` says whether it is a client's (`p2p.c`) or the one to
printsvr (`p2pclient.c`), whose writing code is the same line by line.

| variable | code |
|---|---|
| `fd` | the socket, `"freed"` after `sess_free` |
| `wbufq`, `wbufpending` | the queue and the packet sent in part; after `_p2pclient_release` the code has no queue, here it is empty |
| `data` | how far the pending packet's data pointer is advanced |
| `want_write`, `watched` | the flag, and the socket in mio's write set |
| `used` | the pool's `cacheque_use` |
| `pushed`, `refused`, `hello`, `stream` | history: packets made, packets `p2pclient_write` refused, the `$initsess` of this connection, what the peer read |

An action is a call or callback: `PushOpen`, `PushClosed`, `PushRefused` are the
pushes by the state of the session, `WriteReady` and `WriteIdle` the write
callback, `Close` the close callback, `Free` and `Connect` the rest. A push to
an open session runs the write callback at once (`mio_write`), so `CanWrite`,
the callback, is part of it.

`want_write` is a count in the code; only whether it is zero is looked at, but
for the comparison with `max_queue`, which follows an assignment of the queue's
length. It is a Boolean here, and its overflow after 2^31 partial writes is left
out. No caller pushes an empty packet, and `wflush` is never set, so
`waitclose` is not modelled. A connect that fails changes nothing here and is
left out; packets and their sizes are all that is known of their content.

### CardFlow

The server keeps no state of a card, so the state is the other programs'
and the history: what Parker answered (`score`), where the print job is (`job`),
the printack under way (`ack`), how often Parker took the card back
(`returned`), the stages pushed to the moniclient (`shown`), and the swipes that
met a fault outside of the server (`upset`). A step is a whole handler:
`OnComMessage` shows, asks Parker, and does what the answer's callback does,
since `curl_easy_perform` returns only then; `OnPrintAck` is `printack_hook`
with the back-card request in it.

Two frames of one card are two swipes. The moniclient and printsvr come and go
at any time; a write to either may fail in the middle of a handler. Jobs and
acks of different swipes arrive in any order, more than TCP allows. Parker and
printsvr are taken at their word: printsvr prints a received job at most once,
and both say truly what they did, or nothing, or something unreadable. So
`BackOnlyPrinted` says what the server adds to that: a wrong stage, a request sent
twice, an ack that comes late. That a printack which is not true, or an old one sent
again, hands a card back is so in this code (nothing relates it to a swipe,
`printsvr_callback.c:222`) and outside of the property. Whether
printsvr acknowledged `$initsess` is not asked by `forward_to_printsvr` and not
modelled here.

### DevScan and Coms

`DevScan` translates `search_frame` byte by byte, with what the scanner keeps
between chunks as a record, and `exp_process_data` around it. `Frames` is the
reference: the frames of the whole stream as the comments of `devexpat.c` tell
them, title, length, check byte. It is for length bytes below 128. Above, the
code and the comment disagree: the length is read through a signed `char`, so
the branch for extended frames (`devexpat.c:141`) is dead, and a frame of such a
length ends with its third byte or not before the buffer of 2 MB is full. The
model has that (`Signed`); the readers send shorter frames.

| variable of `Coms` | code |
|---|---|
| `at` | where `do_coms_job` is: at a port in `com_run`, in `waitonreads`, at the check |
| `state`, `hcom`, `ifreadwating` | the fields of `com_st` and `comsess_st`; `"stale"` is a handle that `com_open` closed and kept |
| `done` | what the overlapped read came to, before the program looks |
| `expat`, `msgs` | the port's scanner, and what `_on_com_message_cb` was given |
| `checked` | `laskcheck_time` is not 0: it is overwritten on every pass, so only the first pass opens closed ports |
| `device`, `stream`, `unread`, `taken` | the reader, all it sends, what no read took yet, and what was scanned |

A completed read is looked at one a pass, that of the port listed first. The
devices are external: a read takes any part of what there is, at once or later,
times out, or fails when the reader is unplugged. `rbuffer` is longer than a
read in use, so that the terminating zero (`coms.c:149`) is left out, and so is
`writecom`, which nobody calls.

### TextScan

The three `search_frame`s are one text with different titles, and one more
condition on the end of printsvr's frames; so is `Search`. `Header` is the state
`SEARCHMACHINE_NULL`: ten bytes are gathered, compared with the titles, shifted
to the next `$` or dropped. `Identifier` is the state that fills the frame up to
its line end. A chunk's searches are a recursive function (`after` in
`exp_process_data`), so that no operator is recursive.

| variable | code |
|---|---|
| `sent`, `pos` | the peer's stream and how much of it `recv()` returned |
| `parser`, `exp` | `p2p->expat`: which scanner, its `searchstatus` and `frame` |
| `heard` | what the frame handlers were given, in order |
| `lost` | frames nothing promises to find: the first ten bytes cut by the end of a chunk, behind `$initsess` in one chunk (the rest of that chunk is not parsed, `expat.c:37`), or a title the scanner does not know |

Bytes are the letters a scanner tells apart: `$`, `{`, `}`, `*`, CR, LF, NUL, a
title's other letters, check digits, any others in a text. `PlainTexts` says what
is taken of a text: an object is in it, in most frames behind the names of
sender and receiver (`forward.c:25`, `protobuffer.c:32`; a `$ping` has none), no `$`
and no line end (for printsvr: none behind a `*` and two letters). A handler gets
the text from its first `{` on (`Json`). It is a hypothesis of the theorems, and
`MCTextScan` assumes it of the streams of the run, so that TLC evaluates it. When a title is
found in the middle of a chunk, `dwCurrPt` is set as though it were at the
chunk's beginning (`moniclient_expat.c:75`); the model has that, and it is why
the properties ask what they ask. Left out: a frame without an end in 2 MB, and
what a handler does with a frame (`Session`, `CardFlow`).

### Zombies

Time passes in whole seconds and only while the server waits: `hold` is how
long the handlers at work still wait for Parker (`my_curl.c:49`, three seconds
for a request) or `com_run` for its ports. Nothing is read meanwhile, and the
sockets that `mio_run` serves were fixed by its `select()`.

| variable | code |
|---|---|
| `pc` | the call of main's loop under way or next |
| `open`, `zombie_que` | the sessions in `session_que`, in `zombie_que` |
| `idle`, `scanned`, `pinged` | time since `last_activity`, main's `last`, pingsession's `last` |
| `passed` | time since main read `now` for this pass, against which it compares `last` |
| `unread`, `ready` | sockets with data, and those that `select()` reported |
| `hold` | seconds until the handlers return |
| `binitsess`, `owing` | printsvr acknowledged `$initsess`; it has something to answer |
| `lively`, `waited` | the peers that keep to their times, and how long each has been silent |

What is asked of a lively peer is the least that makes the property true
(`PromptAssumption`). With the code's 20 seconds, two requests in one read of
printsvr's socket (`MioHold` 6) leave a client 14 seconds between two frames;
with seven, even a peer that sends all the time can be taken for a zombie. No
comment says how often a client sends, so this is a fact and not a finding.
`SilenceBounded` is the other direction: a peer that is gone is not kept for
ever, although the scan's time is looked at once a pass only. Left out: queues
and closing (`Session`), the 7 s of `save_deadsession` (a free choice), the time
that `mio_connect` may block in it (the library is not here: a connect that takes
seconds would have to fit into `MioHold`), and the
milliseconds of a pass in which nothing waits (they add up in `ComHold`).

### PktPool

`NewPacket` makes a packet of just the size asked for, `FreePacket` takes the
first free one that is large enough and puts those it looked at behind the
others (`responsepkt.c:47-56`); `Fill` is the caller's use of it, `Free` is
`response_pkt_free`, which resets the packet.

| variable | code |
|---|---|
| `size` | `packet->size`, of each packet ever made |
| `cacheque_use`, `cacheque_free` | the queues; the order of the first does not matter |
| `filled` | packets with `len` or `data` not as they were made |
| `asked`, `peak` | history: what each packet was last asked for; the most in use at a time |

Every call holds the mutex, and one thread calls. Left out: `response_pkt_clone`
(its callers have none; it would take the mutex it holds) and a system without
memory.

## 3. The runs

| run | instance | checks | shows |
|---|---|---|---|
| `session_faults` | 2 connections, 2 names, 3 numbers, all faults | `TypeOK`, `ConnQueued`, `PrintsvrQueued`, `PingOnlyOpen` | queue discipline, whatever happens |
| `session_clean` | 3 connections, 2 names, 4 numbers, no fault | `NoDangling`, `NoUseAfterFree`, `Listening`, `OnlyNamesakeEvicted`, `IsDirectory` | the table and the read set, for clients that keep to the protocol |
| `session_live` | 1 connection, 1 name, 2 numbers, `badinit`, `refusal` | `DeadFreed`, `PrintsvrReturns` | what must happen in the end does |
| `session_reauth` | 3 connections, `reauth` | `AuthKeepsItself` | violated: see findings |
| `session_refusal` | 3 connections, `refusal` | `Listening` | violated |
| `writequeue` | 7 packets of 1 to 3 bytes, `max_queue` 1, both kinds | `TypeOK`, `Intact`, `HelloFirst`, `NoStall`, `PacketsAccounted`, `OnlyOverflowLoses`, `Delivered` | the peer reads whole packets in order, nothing stalls, only an overflow loses packets |
| `cardflow` | 2 swipes | `TypeOK`, `BackOnlyPrinted`, `StagesInOrder`, `StagesTrue`, `SwipeEnds` | what is shown is in order and true, cards come back only when printed, swipes end |
| `cardflow_printing` | 2 swipes | `PrintingIsSent` | violated |
| `coms` | 2 ports, `RbufSize` 3, a frame buffer of 10 | `TypeOK`, `NothingLost`, `FramesFound`, `AllScanned` | bytes reach the scanner once and in order, frames are found however they are cut, no port starves |
| `textscan` | 4 streams of 4 frames, every cut | `PromisedHeard`, `OneForEachFrame`, `Resynchronised` | frames are heard in order, none is invented but in the place of a lost one |
| `zombies` | 1 client and printsvr; age 8, holds of 3 and 2 | `TypeOK`, `NoLivelyZombie`, `SilenceBounded` | only the silent are taken, and they are |
| `pktpool` | sizes 1 to 3, 2 packets in use | `TypeOK`, `PoolBounded`, `InOneQueue`, `Allocates` | the pool is an allocator and does not grow with use |

Bounds. A connection object is used once, so the number of connections bounds
a run; nothing else does. Two connections are enough for one to displace the
other and three for a third to be handed the socket number of a closed one
while the table still leads to it. The numbers are one for each connection and
one for printsvr in `session_faults`, `session_clean` and `session_live`, one
fewer in the others, where at most three of four are open at once. Two names let a
client with `reauth` change its name. `session_clean` has no fault because every
fault breaks one of its properties: `reauth` and `ownsend` all of them,
`partialauth` breaks `IsDirectory`, `badinit` and `refusal` break `Listening`
(section 4). With the faults that do not break it each of them is a theorem
(section 5). Connections and numbers are interchangeable; symmetry is used in the
safety runs only.
`Shutdown` ends a run, and so does `wild`: both stutter, so that deadlock is
checked everywhere.

`writequeue`: with `max_queue` 1, three packets behind one sent in part make an
overflow, and seven leave enough for packets before it, for a reconnect in the
middle of one, and for its `$initsess`. A packet of three bytes can be cut
twice. `Finished` is the end of a run at the bound. `cardflow`: what happens to
one swipe disturbs another only through the connection and the moniclient, so
two swipes show every pair; the proofs cover the rest. All stages and answers of
each service are there. `coms`: a read of up to three bytes cuts a frame of six
anywhere, and takes the end of one with the start of the next. The streams hold
garbage before a frame, two frames in a row, a frame with a bad check byte, one
whose length does not fit the buffer, and a `00` before a title; 10 is the
smallest buffer in which the last has a meaning, the code's is never too small
for a one-byte length. Each reader can be unplugged once.

`textscan`: every chunk length at every place, so every cut of every frame and
every number of frames in a chunk. The streams have each title, one no scanner
knows, a line end inside an object (printsvr's frames only: a client's would end
there), and the NUL that this program's own frames have behind them, or not.
Only `initsess` and `initack` come first, as the protocol wants it. Four frames
are enough: a scanner keeps nothing across two of them; the proof covers any number.
`zombies`: the times are scaled down and fit `PromptAssumption` with nothing to
spare: without that assumption and with `SendGap`, `AnswerTime` or a hold one
larger `NoLivelyZombie` is violated, and so is `SilenceBounded` with a bound one
smaller. One client is enough, because a
session's silence depends on no other's. The proof covers all times. `pktpool`:
two packets in use and three sizes make every search pass over packets that are
too small; at most two packets of each size exist, so the run is finite, which
is what `PoolBounded` says.

Fairness (`session_live`). The single thread runs on: each call of the loop and
the end of a chunk are weakly fair. `mio_run` serves each ready socket once and
returns, and the seven seconds run out while the loop turns, so `EndMio` and
`SaveDead` are strongly fair. `ThereSpec` adds that an attempt to reach
printsvr made again and again succeeds in the end: `PrintsvrReturns` is about
the server's part in it. Nothing is assumed of clients, and nothing of whether
a socket ever becomes ready.

`writequeue`: `select()` reports a socket of the write set again and again, so
the write callback is weakly fair, and a peer that goes on reading leaves room
for at least one byte in the end (`Served` is the callback with an answer other
than "would block"). `cardflow`: what is under way arrives, unless its
connection ends, and printsvr gets its jobs done; nothing is assumed of the
moniclient's or printsvr's return, nor of Parker. `coms`: the loop goes on
(weakly fair), and a reader that has something to send gets it into a pending
read in the end (`Complete`, strongly fair: a read in which nothing came ends
after 10.3 s, 20 ms without another byte end one in which something came
(`serialcom.c:70-72`, `rbuffer` has 1024 bytes), and bytes that come between two
reads wait in the driver). A pass waits 5 ms, and three seconds for each request to
Parker that fails, so that a read is not taken to time out while another port's
waits to be served.

## 4. The findings

1. `AuthKeepsItself` (`session_reauth`): a client that authenticates again
   disconnects itself (`moniclient_callback.c:44-50`), and the dead session is
   stored.
2. `Listening` (`session_refusal`): after a refusal the closed socket goes back
   into the read set (`p2pclient.c:198`), and until printsvr is reconnected no
   client is heard and no connection accepted. The first attempt is made when the
   interval timer of seven seconds (`net.c:170-177`) runs out, which is at most seven
   seconds later.
3. `PrintingIsSent` (`cardflow_printing`): with printsvr away the job is dropped
   and "printing" is shown; the swipe shows nothing more.

Also in the models, and seen while they were written, without a run of their own:
a good `$initsess` behind a bad one in the same chunk is answered on the closed
session, whose socket goes back into the read set like printsvr's
(`opensess_exp.c:234-283`, `p2p.c:75-77`); an `$auth` that is later found incomplete has already disconnected the holder of
its name, its connection keeps the name, and when it closes, the entry of whoever
logged in under that name since is zapped (`p2p.c:292`); `pwd` is never compared
(`moniclient_callback.c:52`); when authack
cannot be sent the dead session is stored, and a later `$auth` closes whoever
has its socket number by then (`moniclient_callback.c:81`); after a partial
write `want_write` stays positive (`p2p.c:231`), the empty queue's socket stays
in the write set, and every pass asks about it and calls the session back until
its next packet is pulled; and what `TextScan` calls `lost`.

## 5. The proofs

`SessionProof`, for all values of the constants and with every fault:
`QInv` is `TypeOK`, `ConnQueued` and `PingOnlyOpen` strengthened by where the
loop is (`reading` only inside `mio_run`), by what holds of printsvr's queues
before and after `clear_deads_from_lives` (its close callback leaves it in
`session_que`, so `PrintsvrQueued` alone is not inductive) and by the fact that
open sessions have different socket numbers. One lemma says what
closing an open session does to the queues; every action reduces to it.
`TypeCorrect`, `Queued`, `PrintsvrDue` and `PingSafe` follow.

Its second part, when clients authenticate at most once on a connection and no
send fails under a client's own chunk (`WellBehaved`; the run `session_reauth`
shows that the first cannot be dropped, section 4 says why the second cannot) and
with every other fault: `TInv` adds that the table is sound (`TableSound`). Every
step is then an arrival, a departure, an authentication or quiet (`Effect`), and
each of the four preserves it.
`TableLeadsToOpen`, `FreedIsForgotten` and `EvictsNamesakeOnly` follow, and for
complete `$auth`s (`Polite`) `Implements`: `Session` implements
`NameDirectory`. `Effect` is also what makes the refinement short: its four
cases are the abstract actions and the stutter.

`StaysListening`, in the same module, adds to `WellBehaved` that no `$initsess`
is bad and that printsvr refuses nothing (`Accepted`; the run `session_refusal`
shows that the last cannot be dropped). `Heard` says that each watched number
belongs to an open session, and that the session being read is open if it may be
read again: `EndChunk`, the `initack` and the `authack` put its number back into
the read set without a look at the socket.

`WriteQueueProof`, for any packets, sizes and `max_queue`: the queue is in the
order of pushing and behind the pending packet (`Ordered`); what is sent next
goes on where the stream ends (`Resumes`), which is what makes `Intact`
inductive; an open connection with something owed is wanted; the used packets
are the unsent and the refused ones (`Accounted`), and those are disjoint. The
invariant is stated of a queue handed to the write callback (`q`, `u`, `p`), so
that one lemma (`Written`) serves the push, the writable socket and the connect.

`LosesByOverflow` adds `OnlyOverflowLoses`. A callback that leaves the session open
loses exactly `Dropped(q)` (`LosesDropped`), which is nothing, or all that is
behind the head: the queue being in order, no packet is in it twice, so that the
packets lost are as many as that part is long, more than `max_queue`.

`CardFlowProof`, for any number of swipes: `Consistent` says of one swipe what
was shown, by where its job is; that only early stages were shown while a job
or an ack is under way is what makes the order inductive. `Showing` is the
lemma about a handler that shows some first stages of a list, `Left` the one
about every other swipe.

`ComsProof`, for any number of ports and any streams: `NothingLost` is inductive
together with what the program and the devices agree on (`Waits`: only a read that
is pending can hold bytes nobody has looked at yet), so that each of the two
moves bytes from the front of one string to the back of the next. The scanner is
opaque in that part. `EveryFrameFound` adds to it what the scanner keeps
(`Scanned`): every step either leaves the scanners alone or hands one of them a
chunk (`StepReads`), and `ProcessData` says what a chunk does. `TypesOfPorts`
is `Coms.TypeOK`; that no scanner writes behind its frame buffer is part of it,
and holds for all bytes. `EveryFrameFound` is for readers whose length bytes are
below 128 (`ShortStreams`), as the property is: behind a title, any other byte
may be anything.

Before that comes the scanner alone. `Sees(s, e, f)` says that a scanner
which has gone through the bytes `s` and given away the frames `f` stands where
it should: up to some place `c` of `s`, `f` is what the reference finds there
whatever comes behind (`Parsed`), and behind `c` the scanner has met no title
yet (`Searching`), or has met one and holds what came since, with the length
and the check byte so far (`Gathering`). `SeesByte` shows that every byte keeps
it; `SearchFrame` and `ProcessData` carry it over a search and a chunk, and
`SeesAll` concludes that `Frames(s) = f`.

The searches of a chunk, the frames of a stream and the check byte are recursive
functions. `Recursion` is how they are reasoned about: that such a function
exists, and so satisfies its definition, is `StepByStep` or `CourseOfValues`,
which take what a step does as a function; induction is over a set of numbers.
Both come down to a least element (`LeastNat`).

`TextScanProof`, for any streams of plain texts: none of the three properties is
inductive, because a frame that is found was begun some chunks before, and perhaps
at a byte of a lost frame. `ScanInv` adds where the scanner is (`At`): idle, and
then in no frame but a lost one, or gathering the frame it is in, from a byte `m`
which may lie before its text, as long as what lies between holds no `{`. `m` is
what moniclient_expat.c:75 costs: the title is put in front of whatever follows
it in the chunk. What was heard is numbered by frames (`Hears`), which gives the
order and the count at once.

`Layout` is what the scanners need of a stream: frames lie one behind the other, `$` begins
one, a line's end ends one, the first `{` behind its title is in its text. `LayoutOf` derives it from
`Bytes` and `PlainTexts`; nothing later opens `Bytes`. `HeaderIs` says that the
first complete head is found and no `$` passed over, `IdentifierIs` that the next
end is, unless it is too near to the byte that the frame was begun from
(`EndsAre`: a lost frame's end may be, never the frame's own). `SearchIs`
puts them together for one search, `ChunkIs` for the loop over a chunk, which
ends because each search uses a byte, `Keeps` for a step.

`ZombiesProof`, for any number of clients and all times that satisfy
`PromptAssumption`: `ZInv` bounds each clock by where the loop is. `ClientIdle`
says that a lively client's silence, as the server sees it, is what it waited
plus what the handlers held up since its data came, or less; `PrintsvrIdle` the
same by whether printsvr owes an answer, is to be pinged or was just read;
`ScannedIdle` that an old session is at most as old as the scan allows. The
three add up to `ZombieAge` exactly where `PromptAssumption` says so.

`PktPoolProof`, for any sizes: `IInv` is `TypeOK`, `InOneQueue`, `PoolBounded`
and that `peak` was reached. That a packet is made only when every free one is
too small means that all packets of its size are in use, which is the step of
`PoolBounded`. The refinement maps `NewPacket` and `FreePacket` to the
allocator's `New`, and what only moves free packets to a stutter.

Assumed are only the named assumptions on the constants, and of each theorem the
hypotheses it states (`WellBehaved`, `Polite`, `Accepted`, `PlainTexts`). Only model-checked:
`AllScanned`, `DeadFreed`, `PrintsvrReturns`, `Delivered`, `SwipeEnds`, and the
findings. Liveness and `ENABLED` are outside what the prover handles.

## 6. Plan

Written, in this order: the sessions and their table, because every other part
reaches its peer through them; the output queue, where partial failures meet;
the card flow, which is what the server is for; the serial ports it starts from;
the clocks; the text scanners; the packet pool. What could come next:

1. A composition of `CardFlow` with printsvr's handshake from `Session`, and
   with `WriteQueue` as its channel. `HelloFirst` already says that a job comes
   behind the `$initsess` of its connection.
2. Theorems: that `WriteQueue` is a lossless channel between overflows; that a
   stream without lost frames is heard as it was sent.

## 7. Not modelled

The database is not opened. `router_expat.c`, `routermsgcallback.c`,
`rptqueue.c`, `backexpat.c`, `Sms.c` and `db/` are not compiled. The headers of
curl, mysql and the library tree, and cJSON, are third party; they are most of
the repository's lines, and nothing of them can be modelled from this code
beyond what it uses.

The containers of `userstatus.c` and `subject.c` are created at the start and
called by nothing in the build: `users_act_check`'s caller
`check_inactive_client` has no caller, `subject_add` and its like are called
from files that are not compiled, or commented out (`p2p.c:301`). A model of them
would have no behaviour to check. The same goes for `send2namend`,
`on_accept_action`, `response_pkt_clone`, `writecom` and the rate windows and
time comparisons of `tool.c`.

The content of frames and log lines, memory exhaustion, and the Windows event
loop below `mio` are left out.
