# A TLA+ model of go-ax25

go-ax25 is an AX.25 packet radio stack in Go: a connected-mode protocol engine,
a frame router with digipeaters, drivers for KISS modems, an AGWPE server and
client, and programs built from them (router, BBS, terminal, beacon). This
directory holds models of its parts, the TLC configurations that check them, and
TLAPS proofs about the protocol engine.

Paths below are relative to `src/`.

## The system and its parts

| Part | Source | Module | What is hard |
|---|---|---|---|
| Session | `ax25/conn.go` | `Conn`, `Station` | late timer callbacks, the unlock around `OnConnect`, reports that run after the unlock, wrap at 8 |
| Promise of a session to its user | `ax25/conn.go` | `Service` | what is left of a session when frames and timers are hidden |
| Two sessions and the channel | `ax25/conn.go` | `Link` | loss, retransmission, resets, who notices that the other has gone |
| Router, digipeater | `ax25/router.go`, `ax25/digipeater.go` | `Router` | `Send` on a stale copy of the ports, stopping a port twice, workers that send |
| KISS TCP client, AGWPE client | `phy/kiss_tcp_client.go`, `agwpe/client.go` | `TcpClient` | reconnecting, stopping during a dial |
| KISS PHY, clients of the router program | `ax25/phy.go`, `cmd/router/main.go` | `KissPool` | clients that leave while they are added, or during shutdown |
| KISS and AGWPE TCP servers | `phy/kiss_tcp_server.go`, `agwpe/tcp_server.go` | `TcpServers` | Stop against Accept, Read and Write; the limit on clients |
| AGWPE server | `agwpe/server.go` | `AgwpeServer` | callbacks that unregister their own port, reuse of slots |
| Capture files of the router | `cmd/router/monitor.go` | `Monitor` | SIGHUP, midnight and restart against names that exist |
| Beacon | `ax25/beacon.go` | `Beacon` | Start, Stop and updates while it sends |
| Addresses, frames, KISS | `ax25/address.go`, `ax25/frame.go`, `ax25/kiss.go` | `Frames` | escapes across reads, extension bits, lost bytes |
| AGWPE frames, pcap | `agwpe/frame.go`, `pcap/pcap.go` | `AgwFrames` | headers across reads, files that were cut off |
| Lines of text | `cmd/terminal`, `ax25/beacon.go`, `cmd/bbs` | `Text` | escapes, payload sizes, line ends across packets |
| BBS | `cmd/bbs` | `Bbs` | input modes, message numbers, the SYSOP challenge |
| Heard list | `cmd/bbs/heard` | `Heard` | the limit |
| Terminal | `cmd/terminal/main.go` | `Terminal` | late answers, three goroutines that wait for each other |

They interact like this. A program gives a session a router port: `OnTxFrame`
calls `Router.Send`, and the port's worker calls `Conn.OnFrame`. A PHY is
another port of the router. So one session is entered by a port worker, by the
application and by three timers, and the router by the workers of digipeaters as
well as by PHYs and sessions. The AGWPE server is such an application, one
instance for each TCP client; terminal and BBS are at the other end of its TCP
connection. Where a model uses another part it uses what that part promises:
the sessions of `AgwpeServer` and `Terminal` are those of `Service`.

## Modules

Besides the modules of the table above:

| Module | Role |
|---|---|
| `Wire` | a byte stream in each of its framings, from the writer's operators to the reader's |
| `Sessions` | `Station` and `Link` in one run |
| `Drivers` | `TcpClient`, `KissPool`, `TcpServers`, `Monitor`, `Beacon`, `Heard` in one run |
| `Contents` | `Wire` and `Bbs` in one run |
| `AgwpeEnds` | `AgwpeServer` and `Terminal` in one run |
| `MCStation`, `MCLink`, `MCRouter`, `MCBbs`, `Samples` | values of constants for TLC |
| `ConnProofs`, `StationProofs`, `ServiceProofs` | theorems and their proofs |

The parts that `Sessions`, `Drivers`, `Contents` and `AgwpeEnds` put together do
not touch each other: a variable `part`, chosen in the initial state, says which
one runs, and the others keep their initial state. The state space is the sum of
those of the parts, not their product.

Operators ending in `_Something` under a comment "Mutant:" are deliberate
mistakes. Each belongs to one property, which fails when the operator replaces
the one defined after it.

### Conn

The record has the fields of the Go struct under their names. An operator such
as `handleRR(c, f)` is the method as a function from session to session, with
its calls composed in the order of the statements. Callbacks are appended to
`pendingActions`, as `enqueueAction` does. For each timer there are three
things: the code's `tNActive`, whether the runtime timer is pending
(`tNTimer`), and the number of callbacks that have fired and wait for `c.mu`
(`tNLate`), which `Stop` cannot recall.

`sendPendingIFrames` and `handleReceivedNR` loop in Go; the model states the
result of the loop (which entries are sent and with which N(S); how many are
popped).

Abstractions: payloads are model values, with `Empty` apart because the code
does not deliver it; a peer is an address with its return path; the frame kind
`SREJ` stands for S frames without a case in the code, and `FRMR` for U frames
without one. Fields that are only written, logging and error texts are left
out.

### Station and Service

`Station` has one action per critical section of `c.mu`. `RxSABM` and `RxReply`
are the two halves of accepting a session, between which the code has unlocked
the mutex and calls `OnConnect`; other callers can run there, the receive
goroutine cannot. `T1Fire` and `T1Expired` separate the firing of a timer from
its callback (likewise T2, T3). `Frames` may be anything the peer could send, in
any order.

Callbacks run after the unlock, on the goroutine of the critical section that
took them (`ax25/conn.go:862`). For `OnConnect` and `OnDisconnect` that matters:
`Finish` puts such a report into `due`, and `Hear` runs one of those that are
due, in any order. The receiving goroutine does not take the next frame before
its own report has run (`rxIdle`). So `OnDisconnect` of a T1 goroutine can run
after `OnConnect` of the next session, and leave the application with the older
of the two. The code does not prevent this. `crossed` says that the report taken
last was taken while another one was due, and `AppAgrees` claims nothing then.
The other callbacks are not part of the state: `OnTxFrame` and `OnData` are
looked at in `Link`, `OnTxAck` there and in `AgwpeServer`.

`Service` is what remains for the user: a status, a queue that is acknowledged
from the front, the reports that are due, and the last thing they were told.
Every change between up and down makes one report, unless it is the user's own
`Close`; reports due at the same time come in any order. `Station` implements it
under the mapping at its end (`User`), the state `TimerRecovery` being "up".

### Link

Two sessions. What one passes to `OnTxFrame` reaches the other in order unless
it is lost or the channel is full. A handler and its callbacks are one step
here. With `Timely` a timer expires only when every shorter wait is over, which
is what T2 < T1 < T3 on a fast channel means; without it T1 and T3 may expire
early, as often as the budget for `"Late"` says.

### Router

A call of `Send` is a sequence of steps: look at `closed`, copy the ports, bind
a dynamic port, classify, offer the frame to one port after another, return.
Administrative calls are split at the locks in the same way: `RegisterPort` in
check and insertion, `Close` in storing the flag, taking the list, and closing
and joining each port. A digipeater's worker that relays is in `Send` itself.
A second close of a `quitCh` panics; the model counts closes and stops there.

A setup (mode, ports, traffic, administrators) is chosen in the initial state.
Reads of `Destination` while classifying are one step; the code does them
without the port's lock. A port is registered once: every caller in the
repository makes a new `Port`. Statistics are left out.

### TcpClient, KissPool, TcpServers

`TcpClient`: `rxLoop` with its position, one `txLoop` for each connection, a
caller of `Send`, a caller of `Stop`, and a server that may drop connections. A
write to a dropped connection may succeed or fail. Received data is left out.
The AGWPE client's loops have the same statements in the same order.

`KissPool`: the accept loop (`add` in the steps between its locks), and for each
client the PHY's two loops, the feeder goroutine that ends in `remove`, and its
router port. The main goroutine may run `stopAll` at any time.

`TcpServers`: both servers, told apart by `kind`. A connection has a handler,
and with the KISS driver a writer and a watcher that closes it on Stop.

### Monitor, Beacon, Heard

`Monitor`: a directory of named files, each with the records written to it. A
name is a date and the two-digit suffix, 0 to `MaxVV` (99 in the code). Opening
may fail, and files of earlier runs may be there. `midnightLoop` reads the clock
twice, for the timer and for the name of the file, and waits for the lock after
the second; a midnight may come in each gap. One that comes before the loop has
set its timer again is not noticed until the next (`slipped`).
`Beacon`: every goroutine that `Start` ever made, and the one caller of `Stop`.
`Stop` clears the handle before it waits, so another caller's `Start` may put a
second goroutine beside the one that is about to end.
`Heard`: `Add` with its limit; a station may be written in either case.

### Frames, AgwFrames, Text, Wire

Bytes are numbers, and the operators compute what the code computes: shifted
callsigns, SSID octets, control fields, escapes, little-endian lengths.
Streaming decoders are records that take one byte at a time, as `Write` does.
`Wire` writes messages of `Samples` to a line, takes chunks off it, loses bytes
(KISS) or the end of the file (pcap), and compares what was read with what was
sent. The messages are the awkward ones: payloads and control fields that look
like FEND and FESC, callsigns of one and six characters, lower case, SSID 0 and
15, hops passed and open, empty payloads.

### Bbs

One action per kind of event of the AGWPE client: connect, disconnect, a line of
text in each input mode. A line is a word and its argument. The message table is
a set of records; `nextId` is SQLite's AUTOINCREMENT. The clock is
nondeterministic: whenever the code compares times, either answer is possible. A
'd' frame may be lost, as the AGWPE server drops frames at a full queue. The
code ignores errors of the last-read table: a read that fails counts as 0, a
write that fails is lost, and a failing list makes the banner say nothing
(`moveLastRead`, `banner`). `unsure` are the callsigns whose pointer may be wrong.

### AgwpeServer and Terminal

`AgwpeServer` has the goroutine of `HandleConn`, with handlers of client frames
split where another goroutine can get in, and for each session the worker of its
port and a timer. A callback is a step of its own, after the change it reports.
Frames for the client are left out, and with them requests that only ask for
one; that `enqueue` on the closed `txCh` panics is kept.

`Terminal` has the main goroutine, the goroutine of standard input, the
transport's callbacks, and the AGWPE server as its client meets it, or a session
of its own. The server's handlers are those of `agwpe/server.go`: a station the
terminal calls gets a slot, one that calls the terminal is served by the
listener, whose session is never counted ('Y' is answered with 0), and any frame
to the client may be dropped at a full queue (`enqueue`). A timeout may come
whenever what is waited for is not there yet.

## Runs

`pass` runs finish without an error; `violation` runs show that the code does
not do what a line of the repository says. Times are for two workers.

| Run | Result | Properties | Size |
|---|---|---|---|
| `sessions` | pass | `TypeOK` `WindowOK` `Supervised` `AppAgrees` `AckedInOrder` `KeepsPromise` of `Station`; `Resolves` `Progress` of `Link` | 155 thousand states, 3 min |
| `link_safe` | pass | `InOrder` `AckedIsDelivered` | 2.0 million states, 2.5 min |
| `link_half_open` | violation | `NoHalfOpen` | |
| `link_busy` | violation | `ProgressWhenReady` | |
| `link_reset` | violation | `AckedIsDelivered` | |
| `router` | pass | `TypeOK` `ClosedOnce` `Served` `SenderOrder` `OnlyForMe` `HopsInOrder` `CallsReturn` `QueuesDrain` | 155 thousand states, 1.5 min |
| `router_default` | violation | `DefaultFallback` | |
| `drivers` | pass | `PartsTypeOK` `WireInOrder` `StopsReturn` `NoStrayPort` `PlaceFreed` `NothingLeft` `OnlyGrows` `Follows` `OneBeacon` `MostRecent` | 179 thousand states, 2 min |
| `tcp_reconnect` | violation | `Reconnects` | |
| `contents` | pass | `ContentsTypeOK` `Faithful` `Resync` `ReplyReadable` of the formats; `ShowsReadable` `UnreadIsNew` `SysopEarned` `OnlyOwnersKill` of the BBS | 185 thousand states, 3 min |
| `agwpe_ends` | pass | `TypeOK` `NeverUnderReported` of the server; `Paced` of the terminal; `Ends` of both | 600 thousand states, 2 min |
| `agwpe_slots` | violation | `EndedFreesSlot` | |

What the passing runs show:

- `sessions`: under every order of calls, frames of every kind and late timer
  callbacks, the queue agrees with V(S) and V(A), a waiting or connected session
  has a timer to come, no payload is skipped or overtaken, and the session
  implements `Service`. The application knows whether the session is up once the
  reports have run, unless two of them were due at the same time. With two stations, loss, Shutdown and
  Close, a call and a shutdown come to an end and queued data is acknowledged or
  its session ends.
- `link_safe`: two connects, two payloads, two losses, a refusal and a busy
  change, or two connects, two payloads, a loss and a Close: delivery is in order and without duplicates, across sessions too, and
  what is acknowledged was delivered.
- `router`: a switch with a dynamic port used by two senders and a digipeater; a
  bridge whose ports come and go while a digipeater relays; a hub whose client
  leaves.
- `drivers`: `Stop` returns from everywhere; no client's port or place is lost;
  rotation never writes to a file of before; the file becomes that of the day
  unless that day's rotation failed or its midnight slipped between two readings
  of the clock, and no such day costs a later one; two beacons overlap only while
  a Stop waits for one of them, and none sends after Stop has returned.
- `contents`: every format reads back the sample messages in any split of the
  stream; lost bytes cost a KISS stream the frames hit and at most the next; a
  cut capture yields its whole records; a UA for any received frame is readable
  and goes back the way the frame came. In the BBS nobody sees or kills a message
  they may not, the banner never counts too few new messages, and counts exactly
  those above what was read while the last-read table works, and SYSOP rights
  need a right answer.
- `agwpe_ends`: the count a 'Y' request reports for a session that has a slot is
  never too low (for one accepted by a listener it is always 0), a server's
  `HandleConn` returns even when a callback is stuck, the terminal waits for one
  chunk to be acknowledged by the station it called before it sends the next, and
  it ends when told to.

### Bounds

- `Station`: window 2 and N2 = 1 reach a full window, a retry and the end of
  retries. N(R) in 0..1 includes valid and invalid values. One late callback of
  each timer is enough for it to run in any state, and two reports can cross.
  Two payloads, `d1` and the empty one, let `AckedInOrder` and `KeepsPromise`
  see an order. The product of all this is too large, so `Sessions` runs
  `Station` three times: "calls" (reports in every order, late callbacks, no data),
  "timers" (late callbacks with a queue of equal payloads), and "data" (payloads
  that differ and busy conditions, callbacks and reports run at once). The
  wrap at 8 is not reached here. The proofs have none of these bounds.
- `Link`: the budgets bound applications and losses; nothing bounds the
  protocol's own answers. Three frames in flight hold a window of two and an
  acknowledgement. `link_safe` uses the exchange of the two stations as
  symmetry; its properties are invariants.
- `Router`: a channel of two frames holds an order and overflows; one digipeater with a foreign hop
  before its own is the least that can take hops in the wrong order; two
  administrators are the least that can stop a port twice. A goroutine sends at
  most two frames, three in the hub.
- `TcpClient`: three connections give two reconnections; the last one is not
  dropped, or the bound itself would look like a failure to reconnect.
- `KissPool`, `TcpServers`: one place and two clients, so that the limit is met.
- `Monitor`: two suffixes stand for the hundred, so that they run out; three
  days, two records, failures on one day; a midnight may slip on any. `Beacon`: three starts, one update.
- `Wire`: three messages, the next one written when at most two bytes of the last
  are unread, read in chunks of one byte and of six; losses of one and three
  bytes.
- `Bbs`: two users, two posts, one lost disconnect, two attempts, a secret with
  a repeated character, one failure of the last-read table for each callsign.
  What the users type is one of the plans of `MCBbs`, chosen at the start: the
  message commands, or those about SYSOP.
- `AgwpeServer`: one slot and two sessions, so that a slot is used again, a
  window of two, two data frames.
- `Terminal`: three chunks and two queries given up, or two chunks and a call of
  a third station. `Paced` is claimed for stations the terminal has called, and
  while at most one answer to a query given up was on its way when the chunk was
  sent (`stdin.late`). The code waits for a second count of 0 for the sake of one
  such answer; two are taken for the two counts, and the chunk that follows goes
  out early. Without either condition TLC finds `Paced` violated.

Only the liveness that the bounds leave room for is claimed. No run checks
deadlock: once the budgets are spent and everything has been delivered a system
rests, and a program that has ended stops.

### Fairness

Nothing is assumed of applications: nobody has to connect, send, stop or close.

- `Link`: weak fairness of receiving and of each timer. A frame that is not
  lost arrives, and a Go timer that is not stopped fires.
- `Router`: weak fairness of every goroutine that is inside a call, and of
  workers. `select` may prefer frames to `quitCh`, but the frames are finitely
  many.
- `TcpClient`: the same, and for `tcp_reconnect` strong fairness of a successful
  dial: a server that is dialled again and again accepts at some time. Without it
  no driver could be expected to reconnect.
- `KissPool`, `TcpServers`, `Monitor`: weak fairness of the goroutines; a closed
  listener makes Accept return; midnight comes.
- `AgwpeServer`: weak fairness of `HandleConn`, of workers and of timers; the
  client and the remote stations need not act.
- `Terminal`: weak fairness of the main goroutine, of a dial (which ends one way
  or the other), of a session that is leaving (its T1 counts down), and of
  `OnDisconnect`.

## Disagreements between code and documentation

1. **A session can be left without supervision** (`link_half_open`). In
   TimerRecovery an RR without the final bit that acknowledges everything stops
   T1 and starts T3, and `onT3Expired` (`ax25/conn.go:579`) acts in Connected
   only. The session stays up against a station that has gone.
   `ax25/conn.go:94` calls T3 the "Inactive link timeout".
2. **Data stays queued after a busy condition** (`link_busy`). The RR case
   (`ax25/conn.go:467`) clears `peerBusy` and does not send what was queued.
   `ax25/conn.go:254`: "SendData queues data for transmission as I-frames."
3. **A repeated SABM resets one side** (`link_reset`). If T1 expires before the
   UA arrives, the second SABM resets the peer when both are connected and the
   peer has perhaps sent data; the caller ignores the second UA. The caller's RR
   for a payload of before the reset then acknowledges one that the peer queued
   after it and the caller has not received. `ax25/conn.go:83`: "OnTxAck is
   called when the remote acknowledges one or more outgoing I-frames".
4. **Frames for a remote digipeater miss the uplink** (`router_default`).
   `sendSwitch` (`ax25/router.go:310`) offers a frame with an unrepeated hop to
   digipeater ports only. `README.md:41`: a default port "Receives frames when no
   static or dynamic ports matches the destination."
5. **The TCP driver does not reconnect when idle** (`tcp_reconnect`). `rxLoop`
   waits for `txLoop` (`phy/kiss_tcp_client.go:224`), which waits for a packet,
   and `Send` accepts none while `conn` is nil. `phy/kiss_tcp_client.go:43`:
   "The driver reconnects automatically on disconnection."
6. **An AGWPE session that the remote station ends keeps its slot**
   (`agwpe_slots`). `OnDisconnect` of an outgoing session runs in the worker of
   the port it unregisters (`agwpe/server.go:482`), and `UnregisterPort` waits
   for that worker; `freeSlot` is never reached. `env.md:34` calls the limit
   "AGWPE server max simultaneous AX.25 connections".

Met while modelling and not stated by a run:

- `README.md:40` says a bound dynamic port drops frames from another source;
  `sendSwitch` routes them.
- `Close` (`ax25/router.go:208`) "stops all ports"; a `RegisterPort` that passed
  its check just before leaves one running.
- Reports of one session that cross leave the application with the older one
  (`ax25/conn.go:862`); see `Station`.
- A session that ends between `RegisterPort` and the assignment of its port to
  the slot (`agwpe/server.go:530`) leaves the port registered. `AgwpeServer`
  reaches this; no property states it.
- A session's callback that calls `enqueue` between `close(s.txCh)` and the new
  `make` in `HandleConn` (`agwpe/server.go:143`) panics. `AgwpeServer` reaches
  this; `Ends` excepts it.
- `Stop` of the KISS PHY closes the connection before it drains the queue
  (`ax25/phy.go:129`), where its comment says that queued frames are written.
- When `stopAll` of the router program comes between the insertion of a client
  and `Start` of its PHY, `remove` waits for a loop that nobody cancels, until
  the program is forced out. `PlaceFreed` excepts shutdown for this reason.
- `CONFIG` of the BBS never opens after the challenge it asked for:
  `pendingConfigEntry` is cleared before it is tested
  (`cmd/bbs/bbs/sysop.go:254`). A failed second authentication leaves SYSOP
  rights that `ExpireIfIdle` no longer ends (line 281).

## Proofs

`StationProofs` and `ServiceProofs` prove, for every configured window and N2,
every set of payloads, peers and frames, and every bound on late callbacks:

| Theorem | Statement |
|---|---|
| `TypeCorrect` | `Spec => []TypeOK` |
| `WindowSafe` | `Spec => []WindowOK` |
| `SupervisionSafe` | `Spec => []Supervised` |
| `ApplicationAgrees` | `Spec => []AppAgrees` |
| `QueueAdvances` | `Spec => AckedInOrder` |
| `Implements` | `Spec => KeepsPromise`, that is `Station` implements `Service` |

`Spec` is that of `Station`; run `sessions` checks the same formulas on a small
instance. The assumptions are `ConnAssumption` and `StationAssumption`, which
only give the constants their types.

The inductive invariant `Inv` adds two things to the four invariants. One is
`Informed`: while reports are due and have not crossed there is one of them, and
it says what `AppAgrees` will need when it has run; `AppAgrees` alone says
nothing while a report is due. The other is that `t1Active`
implies a T1 callback to come. It is needed because `sendPendingIFrames` and
`handleReceivedNR` start T1 only when `t1Active` is false: a flag left over
without a timer would break `Supervised` one step later. Supervision of a
Connected session is claimed only when no accept is under way, since T3 starts
after `OnConnect` returns.

The argument goes method by method. `Keeps(b, d)` says that a method that takes
session `b` to `d` preserves all of this, issues the report of what it did, and
advances the queue. There is a lemma `...Keeps` for each method; `FinishKeeps`
adds the taking of the report (`TakeInforms`, `StaysInformed`), and `NextInv` has
one step for each action.
`ConnProofs` holds the types of the operators and the facts about sequence
numbers mod 8 and about which queue entries `sendPendingIFrames` takes.

The refinement goes the same way. `Serves(b, d)` says what a method does to the
status and to the queue: it ends the session, keeps it up with the queue either
started over (`Fresh`) or shortened by exactly as much as V(A) advances
(`Exactly`), brings it up, or changes neither. There is a lemma `...Serves` for
each method. `FinishServes` turns `Keeps` and `Serves` together into a step of
`Service` or a stutter, the values of `User` being the mapping; calls of the
application, the running of a report and the two halves of an accept have a lemma
`...Step` each. The lemmas `News...` say that appending to and taking from `due`
is appending to and taking from the reports of `Service`. `NextServes` puts them
together.

Note what `Supervised` does not say: nothing about TimerRecovery. That is
disagreement 1.

Only model-checked: everything about the other modules, and all liveness, which
is out of the prover's reach. What the byte formats compute for every input would
need induction over sequences, which is out of its reach too.

## Not modelled

- `agwpe/builders.go` beyond the conversions of `AgwFrames`: builders of replies
  that no stateful reader of this repository takes apart. Version, port and
  heard replies of the AGWPE server change no state.
- `phy/kiss_serial.go`: opening a device. Reading and writing it is the PHY of
  `KissPool`.
- `ax25/config.go`, `cmd/bbs/bbs/config.go`: maps of strings read at start.
- `cmd/beacon/main.go`, the start of `cmd/router` and `cmd/bbs`: flags,
  configuration and construction. The BBS's help texts and configuration editor.
- `PortStats`: counters nothing depends on.
- `examples/`, `test-utils/`: programs that show or try the parts by hand.
