-------------------------------- MODULE Conn --------------------------------
(***************************************************************************)
(* One AX.25 connected-mode session (type Conn of ax25/conn.go) as a value *)
(* and the functions that transform it.                                    *)
(*                                                                         *)
(* A session is a record with the fields of the Go struct.  Every method   *)
(* the code runs while it holds c.mu is an operator from a session to a    *)
(* session, composed in the order of the Go statements; the callbacks it   *)
(* enqueues are appended to pendingActions.  The modules Station and Link  *)
(* turn these operators into actions.                                      *)
(*                                                                         *)
(* Left out: the fields the code only writes (isLocalInitiated, t3Active,  *)
(* IsCommand of a frame), ctx/cancel, logging, and the text of errors.     *)
(* A peer stands for a remote address with its digipeater path.            *)
(***************************************************************************)
EXTENDS Integers, Sequences, FiniteSets

CONSTANTS CfgWindow,  \* ConnConfig.Window as given to NewConn
          N2,         \* ConnConfig.N2, maximum retry count
          Data,       \* the non-empty payloads
          Empty,      \* the payload of length 0
          Peers,      \* the stations a frame may come from
          NoPeer      \* the zero Address

ASSUME ConnAssumption == /\ CfgWindow \in Int
                         /\ N2 \in Int
                         /\ Empty \notin Data
                         /\ NoPeer \notin Peers

\* NewConn: a window outside 1..7 is replaced by 4.
Window == IF CfgWindow < 1 \/ CfgWindow > 7 THEN 4 ELSE CfgWindow

ConnState == {"Disconnected", "AwaitingConnection", "AwaitingRelease",
              "Connected", "TimerRecovery"}

\* IsConnected()
Up(c) == c.state \in {"Connected", "TimerRecovery"}

Payload == Data \cup {Empty}

SeqNo == 0 .. 7

\* uint8 arithmetic followed by & 7
mod8(n) == n % 8

-----------------------------------------------------------------------------
(* Frames.  peer is the Source of a received frame and the Destination of  *)
(* a transmitted one.  SREJ stands for the S frames conn.go has no case    *)
(* for, FRMR for the U frames and unknown control bytes it has none for.   *)

UKind == {"SABM", "DISC", "UA", "DM", "FRMR"}
SKind == {"RR", "RNR", "REJ", "SREJ"}

Frame == [kind : UKind \cup SKind \cup {"I", "UI"}, peer : Peers \cup {NoPeer},
          pf : BOOLEAN, ns : SeqNo, nr : SeqNo, data : Payload]

UFrame(c, k, pf) == [kind |-> k, peer |-> c.remote, pf |-> pf,
                     ns |-> 0, nr |-> 0, data |-> Empty]
SFrame(c, k, pf) == [UFrame(c, k, pf) EXCEPT !.nr = c.vr]
IFrame(c, n, d) == [kind |-> "I", peer |-> c.remote, pf |-> FALSE,
                    ns |-> n, nr |-> c.vr, data |-> d]

(* Callbacks, in the order in which runPendingActions will call them.      *)

OnTxFrame(f) == [cb |-> "OnTxFrame", frame |-> f]
OnData(d) == [cb |-> "OnData", data |-> d]
OnTxAck(n) == [cb |-> "OnTxAck", count |-> n]
OnConnect(p) == [cb |-> "OnConnect", remote |-> p]
Notify(name) == [cb |-> name]

Callback == [cb : {"OnTxFrame"}, frame : Frame]
              \cup [cb : {"OnData"}, data : Data]
              \cup [cb : {"OnTxAck"}, count : 1 .. 7]
              \cup [cb : {"OnConnect"}, remote : Peers \cup {NoPeer}]
              \cup [cb : {"OnDisconnect", "OnLinkReset", "OnError"}]

\* None of them tells the application that the session is up, or down.
Silent(acts) == \A i \in DOMAIN acts : acts[i].cb \notin {"OnConnect", "OnDisconnect"}

enqueueAction(c, a) == [c EXCEPT !.pendingActions = Append(@, a)]
fireError(c) == enqueueAction(c, Notify("OnError"))
sendU(c, k, pf) == enqueueAction(c, OnTxFrame(UFrame(c, k, pf)))
sendS(c, k, pf) == enqueueAction(c, OnTxFrame(SFrame(c, k, pf)))
sendAck(c, pf) == sendS(c, IF c.localBusy THEN "RNR" ELSE "RR", pf)

-----------------------------------------------------------------------------
(* Timers.  tNTimer says that the runtime timer is pending.  When it fires *)
(* it becomes a callback that waits for c.mu: tNLate counts those, and no  *)
(* Stop can recall them.  t1Active and t2Active are the flags of the code. *)

PendingFrame == [data : Payload, ns : SeqNo, transmitted : BOOLEAN]

Session == [state : ConnState, remote : Peers \cup {NoPeer},
            refusePending : BOOLEAN,
            vs : SeqNo, vr : SeqNo, va : SeqNo,
            peerBusy : BOOLEAN, localBusy : BOOLEAN,
            rejSent : BOOLEAN, ackPending : BOOLEAN,
            retryCount : Nat, txQueue : Seq(PendingFrame),
            t1Active : BOOLEAN, t1Timer : BOOLEAN, t1Late : Nat,
            t2Active : BOOLEAN, t2Timer : BOOLEAN, t2Late : Nat,
            t3Timer : BOOLEAN, t3Late : Nat,
            pendingActions : Seq(Callback)]

NewConn == [state |-> "Disconnected", remote |-> NoPeer,
            refusePending |-> FALSE,
            vs |-> 0, vr |-> 0, va |-> 0,
            peerBusy |-> FALSE, localBusy |-> FALSE,
            rejSent |-> FALSE, ackPending |-> FALSE,
            retryCount |-> 0, txQueue |-> << >>,
            t1Active |-> FALSE, t1Timer |-> FALSE, t1Late |-> 0,
            t2Active |-> FALSE, t2Timer |-> FALSE, t2Late |-> 0,
            t3Timer |-> FALSE, t3Late |-> 0,
            pendingActions |-> << >>]

startT1(c) == [c EXCEPT !.t1Active = TRUE, !.t1Timer = TRUE]
stopT1(c) == [c EXCEPT !.t1Active = FALSE, !.t1Timer = FALSE]

\* A second AfterFunc overwrites t2Timer, so a first one that is still
\* pending can no longer be stopped: from then on it is a late callback.
startT2(c) ==
    IF c.t2Active THEN c
    ELSE [c EXCEPT !.t2Active = TRUE, !.t2Timer = TRUE,
                   !.t2Late = IF c.t2Timer THEN @ + 1 ELSE @]
stopT2(c) == [c EXCEPT !.t2Active = FALSE, !.t2Timer = FALSE]

startT3(c) == [c EXCEPT !.t3Timer = TRUE]
stopT3(c) == [c EXCEPT !.t3Timer = FALSE]

\* A T1 (T3) callback is still to come.
T1Due(c) == c.t1Timer \/ c.t1Late > 0
T3Due(c) == c.t3Timer \/ c.t3Late > 0

stopAllTimers(c) == stopT3(stopT2(stopT1(c)))

\* The runtime timer fires: its goroutine now waits for c.mu.
T1Fires(c) == [c EXCEPT !.t1Timer = FALSE, !.t1Late = @ + 1]
T2Fires(c) == [c EXCEPT !.t2Timer = FALSE, !.t2Late = @ + 1]
T3Fires(c) == [c EXCEPT !.t3Timer = FALSE, !.t3Late = @ + 1]

-----------------------------------------------------------------------------
(* Sequence numbers and the transmit queue.                                *)

outstanding(c) == mod8(c.vs - c.va)

isValidNR(c, nr) == IF c.va <= c.vs THEN nr >= c.va /\ nr <= c.vs
                                    ELSE nr >= c.va \/ nr <= c.vs

\* What the queue and the send variables say of each other: V(A)..V(S)-1 are
\* the first frames of the queue, exactly these are transmitted, and each has
\* the N(S) of its place.
QueueOK(c) ==
    /\ outstanding(c) <= Len(c.txQueue)
    /\ Len(c.txQueue) <= Window
    /\ \A i \in 1 .. Len(c.txQueue) :
         /\ c.txQueue[i].transmitted <=> i <= outstanding(c)
         /\ i <= outstanding(c) => c.txQueue[i].ns = mod8(c.va + i - 1)

\* The entries the loop of sendPendingIFrames does not skip, and the place
\* of entry i among them.
Idle(q) == {i \in DOMAIN q : ~q[i].transmitted}
Rank(q, i) == Cardinality({j \in Idle(q) : j <= i})

\* The entries it transmits before the window or a busy peer breaks it.
Sendable(c) ==
    {i \in Idle(c.txQueue) : /\ ~c.peerBusy
                             /\ Rank(c.txQueue, i) <= Window - outstanding(c)}

\* The queue once every entry of S has its N(S) and is marked transmitted.
MarkSent(c, S) ==
    [i \in DOMAIN c.txQueue |->
        IF i \in S
        THEN [data |-> c.txQueue[i].data,
              ns |-> mod8(c.vs + Rank(c.txQueue, i) - 1),
              transmitted |-> TRUE]
        ELSE c.txQueue[i]]

\* The k-th frame of S on its way to OnTxFrame.
TxIFrame(c, S, k) ==
    LET i == CHOOSE j \in S : Rank(c.txQueue, j) = k
    IN  OnTxFrame(IFrame(c, mod8(c.vs + k - 1), c.txQueue[i].data))

sendPendingIFrames(c) ==
    LET S == Sendable(c)
        n == Cardinality(S)
        sent == [c EXCEPT !.txQueue = MarkSent(c, S),
                          !.vs = mod8(@ + n),
                          !.pendingActions =
                              @ \o [k \in 1 .. n |-> TxIFrame(c, S, k)]]
    IN  IF n = 0 THEN c ELSE IF c.t1Active THEN sent ELSE startT1(sent)

\* Mutant: V(S) is not set back.
retransmitFrom_KeepVS(c, nr) ==
    sendPendingIFrames(
        [c EXCEPT !.txQueue = [i \in DOMAIN @ |-> [@[i] EXCEPT !.transmitted = FALSE]]])

retransmitFrom(c, nr) ==
    sendPendingIFrames(
        [c EXCEPT !.txQueue = [i \in DOMAIN @ |-> [@[i] EXCEPT !.transmitted = FALSE]],
                  !.vs = nr])

\* The loop pops one entry per step of va; acked is the number of steps.
popAcked(c, nr) ==
    LET acked == mod8(nr - c.va)
        popped == [c EXCEPT !.txQueue = SubSeq(@, acked + 1, Len(@)), !.va = nr]
    IN  IF acked > 0 THEN enqueueAction(popped, OnTxAck(acked)) ELSE popped

\* Mutant: T3 is not started once everything is acknowledged.
handleReceivedNR_NoT3(c, nr) ==
    IF nr = c.vs THEN stopT1(popAcked(c, nr))
    ELSE IF c.t1Active THEN popAcked(c, nr) ELSE startT1(popAcked(c, nr))

handleReceivedNR(c, nr) ==
    IF nr = c.vs THEN startT3(stopT1(popAcked(c, nr)))
    ELSE IF c.t1Active THEN popAcked(c, nr) ELSE startT1(popAcked(c, nr))

-----------------------------------------------------------------------------
(* State transitions.                                                      *)

resetStateVars(c) ==
    [c EXCEPT !.vs = 0, !.vr = 0, !.va = 0, !.peerBusy = FALSE,
              !.localBusy = FALSE, !.rejSent = FALSE, !.ackPending = FALSE,
              !.txQueue = << >>]

enterDisconnected(c) ==
    enqueueAction([stopAllTimers(c) EXCEPT !.state = "Disconnected"],
                  Notify("OnDisconnect"))

startNRErrorRecovery(c) ==
    enterDisconnected(sendU(fireError(c), "DM", TRUE))

-----------------------------------------------------------------------------
(* Public methods.  The caller checks the guard; a call whose guard is     *)
(* false returns an error and leaves the session as it is.                 *)

CanConnect(c) == c.state = "Disconnected"
Connect(c, p) ==
    LET c1 == [resetStateVars([c EXCEPT !.remote = p])
                 EXCEPT !.state = "AwaitingConnection", !.retryCount = 0]
    IN  sendU(startT1(c1), "SABM", TRUE)

CanShutdown(c) == c.state # "Disconnected"

\* Mutant: the application hears of the end before DISC is answered.
Shutdown_Tells(c) ==
    LET c1 == [stopAllTimers(c) EXCEPT !.state = "AwaitingRelease",
                                       !.retryCount = 0]
    IN  enqueueAction(sendU(startT1(c1), "DISC", TRUE), Notify("OnDisconnect"))

Shutdown(c) ==
    LET c1 == [stopAllTimers(c) EXCEPT !.state = "AwaitingRelease",
                                       !.retryCount = 0]
    IN  sendU(startT1(c1), "DISC", TRUE)

CanSend(c) == Up(c) /\ Len(c.txQueue) < Window
\* Mutant: the payload overtakes those that have not been sent yet.
SendData_Overtakes(c, d) ==
    sendPendingIFrames(
        [c EXCEPT !.txQueue =
            SubSeq(@, 1, outstanding(c)) \o <<[data |-> d, ns |-> 0, transmitted |-> FALSE]>>
              \o SubSeq(@, outstanding(c) + 1, Len(@))])

SendData(c, d) ==
    sendPendingIFrames(
        [c EXCEPT !.txQueue =
            Append(@, [data |-> d, ns |-> 0, transmitted |-> FALSE])])

Refuse(c) == [c EXCEPT !.refusePending = TRUE]

SetBusy(c, busy) ==
    LET c1 == [c EXCEPT !.localBusy = busy]
    IN  IF c.localBusy = busy THEN c
        ELSE IF ~Up(c) THEN c1
        ELSE IF busy THEN sendS(stopT2([c1 EXCEPT !.ackPending = FALSE]), "RNR", FALSE)
        ELSE sendS(c1, "RR", FALSE)

Close(c) == [stopAllTimers(c) EXCEPT !.state = "Disconnected"]

-----------------------------------------------------------------------------
(* Received frames.                                                        *)

\* handleDisconnected releases c.mu while OnConnect runs: beginAccept is the
\* part before, endAccept the part after.
beginAccept(c, f) ==
    [resetStateVars([c EXCEPT !.remote = f.peer])
       EXCEPT !.state = "Connected", !.refusePending = FALSE]

\* Mutant: a refused session ends without OnDisconnect.
endAccept_Mute(c, pf) ==
    IF c.refusePending THEN Close(sendU(c, "DM", pf))
    ELSE startT3(sendU(c, "UA", pf))

endAccept(c, pf) ==
    IF c.refusePending THEN enterDisconnected(sendU(c, "DM", pf))
    ELSE startT3(sendU(c, "UA", pf))

\* handleDisconnected for everything but SABM
replyDM(c, f) == sendU([c EXCEPT !.remote = f.peer], "DM", f.pf)

handleAwaitingConnection(c, f) ==
    CASE f.kind = "UA" ->
           LET c1 == [resetStateVars(stopT1(c)) EXCEPT !.state = "Connected"]
           IN  sendPendingIFrames(startT3(enqueueAction(c1, OnConnect(c.remote))))
      [] f.kind = "DM" -> enterDisconnected(fireError(stopT1(c)))
      [] OTHER -> c

handleAwaitingRelease(c, f) ==
    IF f.kind \in {"UA", "DM"} THEN enterDisconnected(stopT1(c)) ELSE c

handleInSequence(c, f) ==
    LET c1 == [c EXCEPT !.vr = mod8(@ + 1), !.rejSent = FALSE]
        c2 == IF f.data = Empty THEN c1 ELSE enqueueAction(c1, OnData(f.data))
    IN  IF f.pf THEN [sendAck(c2, TRUE) EXCEPT !.ackPending = FALSE]
        ELSE startT2([c2 EXCEPT !.ackPending = TRUE])

handleOutOfSequence(c, f) ==
    IF ~c.rejSent THEN sendS([c EXCEPT !.rejSent = TRUE], "REJ", f.pf)
    ELSE IF f.pf THEN sendS(c, "RR", TRUE) ELSE c

\* Mutant: the payload is passed on before N(S) is compared with V(R).
handleIFrame_AnyNS(c, f) ==
    IF c.localBusy THEN sendS(c, "RNR", FALSE)
    ELSE IF ~isValidNR(c, f.nr) THEN startNRErrorRecovery(c)
    ELSE LET c1 == handleReceivedNR(c, f.nr)
         IN  IF f.ns = c1.vr THEN handleInSequence(c1, f)
             ELSE handleOutOfSequence(enqueueAction(c1, OnData(f.data)), f)

\* Mutant: a frame dropped while busy still advances V(R).
handleIFrame_BusyAcks(c, f) ==
    IF c.localBusy THEN sendS([c EXCEPT !.vr = mod8(@ + 1)], "RNR", FALSE)
    ELSE IF ~isValidNR(c, f.nr) THEN startNRErrorRecovery(c)
    ELSE LET c1 == handleReceivedNR(c, f.nr)
         IN  IF f.ns = c1.vr THEN handleInSequence(c1, f)
             ELSE handleOutOfSequence(c1, f)

handleIFrame(c, f) ==
    IF c.localBusy THEN sendS(c, "RNR", FALSE)
    ELSE IF ~isValidNR(c, f.nr) THEN startNRErrorRecovery(c)
    ELSE LET c1 == handleReceivedNR(c, f.nr)
         IN  IF f.ns = c1.vr THEN handleInSequence(c1, f)
             ELSE handleOutOfSequence(c1, f)

\* Mutant: the answer to a poll ends the recovery without retransmission, and
\* T3 is to poll again.
handleRR_NoResend(c, f) ==
    LET c1 == handleReceivedNR([c EXCEPT !.peerBusy = FALSE], f.nr)
    IN  IF ~f.pf THEN c1
        ELSE IF c1.state # "TimerRecovery" THEN sendS(c1, "RR", TRUE)
        ELSE [startT3(stopT1(c1)) EXCEPT !.state = "Connected"]

handleRR(c, f) ==
    LET c1 == handleReceivedNR([c EXCEPT !.peerBusy = FALSE], f.nr)
        c2 == [stopT1(c1) EXCEPT !.state = "Connected"]
    IN  IF ~f.pf THEN c1
        ELSE IF c1.state # "TimerRecovery" THEN sendS(c1, "RR", TRUE)
        ELSE IF c1.va # c1.vs THEN retransmitFrom(c2, c1.va) ELSE c2

handleRNR(c, f) ==
    LET c1 == handleReceivedNR([c EXCEPT !.peerBusy = TRUE], f.nr)
    IN  IF f.pf THEN startT3(stopT1(c1)) ELSE c1

handleREJ(c, f) ==
    LET c1 == handleReceivedNR([c EXCEPT !.peerBusy = FALSE], f.nr)
        c2 == retransmitFrom([stopT1(c1) EXCEPT !.retryCount = 0,
                                                !.state = "Connected"], f.nr)
    IN  IF f.pf THEN sendS(c2, "RR", TRUE) ELSE c2

handleSFrame(c, f) ==
    IF ~isValidNR(c, f.nr) THEN startNRErrorRecovery(c)
    ELSE CASE f.kind = "RR" -> handleRR(c, f)
           [] f.kind = "RNR" -> handleRNR(c, f)
           [] f.kind = "REJ" -> handleREJ(c, f)
           [] OTHER -> c

handleUFrameConnected(c, f) ==
    CASE f.kind = "SABM" ->
           enqueueAction(sendU(resetStateVars(c), "UA", f.pf), Notify("OnLinkReset"))
      [] f.kind = "DISC" -> enterDisconnected(sendU(c, "UA", f.pf))
      [] f.kind = "DM" -> enterDisconnected(fireError(c))
      [] OTHER -> c

\* handleConnected, which handleTimerRecovery calls too
handleConnected(c, f) ==
    IF f.kind = "I" THEN handleIFrame(c, f)
    ELSE IF f.kind \in SKind THEN handleSFrame(c, f)
    ELSE handleUFrameConnected(c, f)

\* OnFrame, except for the SABM that beginAccept and endAccept handle.
Accepts(c, f) == c.state = "Disconnected" /\ f.kind = "SABM"
OnFrame(c, f) ==
    CASE f.kind = "UI" -> c
      [] c.state = "Disconnected" /\ f.kind # "UI" -> replyDM(c, f)
      [] c.state = "AwaitingConnection" /\ f.kind # "UI" -> handleAwaitingConnection(c, f)
      [] c.state = "AwaitingRelease" /\ f.kind # "UI" -> handleAwaitingRelease(c, f)
      [] Up(c) /\ f.kind # "UI" -> handleConnected(c, f)

-----------------------------------------------------------------------------
(* Timer callbacks.                                                        *)

\* Mutant: the retries are not counted.
retry_NoCount(c, k) ==
    startT1(IF k = "RR" THEN sendS(c, k, TRUE) ELSE sendU(c, k, TRUE))

\* The cases of onT1Expired that resend and re-arm T1.
retry(c, k) ==
    LET c1 == [c EXCEPT !.retryCount = @ + 1]
    IN  startT1(IF k = "RR" THEN sendS(c1, k, TRUE) ELSE sendU(c1, k, TRUE))

onT1Expired(c) ==
    LET c1 == [c EXCEPT !.t1Active = FALSE]
        c2 == IF c.state = "Connected"
              THEN [c1 EXCEPT !.state = "TimerRecovery", !.retryCount = 0] ELSE c1
        exceeded == c2.retryCount >= N2
    IN  CASE c2.state = "Disconnected" -> c2
          [] c2.state = "AwaitingConnection" ->
               IF exceeded THEN enterDisconnected(fireError(c2)) ELSE retry(c2, "SABM")
          [] c2.state = "AwaitingRelease" ->
               IF exceeded THEN enterDisconnected(fireError(c2)) ELSE retry(c2, "DISC")
          [] c2.state = "TimerRecovery" ->
               IF exceeded THEN startNRErrorRecovery(c2) ELSE retry(c2, "RR")

onT2Expired(c) ==
    LET c1 == [c EXCEPT !.t2Active = FALSE]
    IN  IF Up(c) /\ c.ackPending
        THEN [sendAck(c1, FALSE) EXCEPT !.ackPending = FALSE] ELSE c1

onT3Expired(c) ==
    IF c.state # "Connected" THEN c
    ELSE startT1([sendS(c, "RR", TRUE) EXCEPT !.state = "TimerRecovery",
                                              !.retryCount = 0])
=============================================================================
