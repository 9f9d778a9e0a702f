--------------------------- MODULE ServiceProofs ---------------------------
(***************************************************************************)
(* Station implements Service, for every window, retry limit, set of       *)
(* payloads, of peers and of frames.  To what StationProofs shows of each  *)
(* method (Keeps) this adds what the method does to the state and exactly  *)
(* how much it takes from the queue (Serves); together they make every     *)
(* step of Station a step of Service, or none.                             *)
(***************************************************************************)
EXTENDS StationProofs

\* The queue and its numbering start over.
Fresh(d) == d.txQueue = << >> /\ d.vs = 0 /\ d.va = 0

\* As many entries have left the queue as V(A) has advanced.
Exactly(b, d) == Len(d.txQueue) = Len(b.txQueue) - mod8(d.va - b.va)

\* The session ends; it stays up; UA brings it up; or nothing happens.
Serves(b, d) == \/ d.state = "Disconnected" /\ SameQueue(b, d)
                \/ Up(b) /\ Up(d) /\ (Fresh(d) \/ Exactly(b, d))
                \/ b.state = "AwaitingConnection" /\ d.state = "Connected" /\ Fresh(d)
                \/ d.state = b.state /\ SameQueue(b, d)

-----------------------------------------------------------------------------
(* What each method does to the state and the queue.                       *)

LEMMA QuietlyServes == ASSUME NEW b, NEW d, Quietly(b, d) PROVE Serves(b, d)
  BY Zenon DEF Quietly, Serves

LEMMA SameServes == ASSUME NEW b PROVE Serves(b, b)
  BY Zenon DEF Serves, SameQueue

LEMMA EnterDisconnectedServes ==
  ASSUME NEW b, NEW e \in Session, SameQueue(b, e)
  PROVE  Serves(b, enterDisconnected(e))
  <1> DEFINE f == stopAllTimers(e)
             g == [f EXCEPT !.state = "Disconnected"]
             d == enqueueAction(g, Notify("OnDisconnect"))
  <1>1. f \in Session /\ SameQueue(e, f)
    BY StopAllEffects, Zenon
  <1> HIDE DEF f
  <1>2. g \in Session /\ g.state = "Disconnected" /\ SameQueue(f, g)
    BY <1>1, StateEffects, Zenon DEF ConnState
  <1> HIDE DEF g
  <1>3. d.state = "Disconnected" /\ SameQueue(g, d)
    BY <1>2, Zenon DEF enqueueAction, Session, SameQueue
  <1>4. d = enterDisconnected(e)
    BY Zenon DEF enterDisconnected, f, g
  <1> HIDE DEF d
  <1> QED BY <1>1, <1>2, <1>3, <1>4, Zenon DEF Serves, SameQueue

LEMMA NRErrorServes ==
  ASSUME NEW b, NEW e \in Session, SameQueue(b, e)
  PROVE  Serves(b, startNRErrorRecovery(e))
  <1> DEFINE f == fireError(e)
             g == sendU(f, "DM", TRUE)
  <1>1. f \in Session /\ SameQueue(e, f)
    BY SendQuietly, Zenon DEF Quietly
  <1> HIDE DEF f
  <1>2. g \in Session /\ SameQueue(f, g)
    BY <1>1, SendQuietly, Zenon DEF Quietly, UKind
  <1> HIDE DEF g
  <1>3. SameQueue(b, g)
    BY <1>1, <1>2, Zenon DEF SameQueue
  <1>4. Serves(b, enterDisconnected(g))
    BY <1>2, <1>3, EnterDisconnectedServes, Zenon
  <1> QED BY <1>4, Zenon DEF startNRErrorRecovery, f, g

\* A session that is up and loses exactly what was acknowledged.
LEMMA AckServes ==
  ASSUME NEW b, Sound(b), Up(b), NEW e, Quietly(b, e), NEW nr \in SeqNo, isValidNR(b, nr)
  PROVE  LET d == handleReceivedNR(e, nr)
         IN  /\ d \in Session /\ QueueOK(d) /\ Up(d) /\ Exactly(b, d)
             /\ d.state = b.state /\ d.va = nr
  <1> DEFINE d == handleReceivedNR(e, nr)
  <1>1. /\ e \in Session /\ QueueOK(e) /\ e.state = b.state /\ SameQueue(b, e) /\ isValidNR(e, nr)
    BY SameQueueOK, Zenon DEF Quietly, Sound, SameQueue, isValidNR
  <1>2. Acks(e, nr, d)
    BY <1>1, HandleNR, Zenon
  <1> HIDE DEF d
  <1>3. /\ d \in Session /\ QueueOK(d) /\ d.state = e.state /\ d.va = nr
        /\ Len(d.txQueue) = Len(e.txQueue) - mod8(nr - e.va)
    BY <1>2, Zenon DEF Acks
  <1>4. Up(d) /\ Exactly(b, d)
    BY <1>1, <1>3, Zenon DEF Up, Exactly, SameQueue
  <1> QED BY <1>1, <1>3, <1>4, Zenon DEF d

LEMMA ExactlyThen ==
  ASSUME NEW b, Up(b), NEW d, Exactly(b, d), NEW e, Up(e),
         Len(e.txQueue) = Len(d.txQueue), e.va = d.va
  PROVE  Serves(b, e)
  BY Zenon DEF Serves, Exactly

LEMMA QuietlyThen ==
  ASSUME NEW b, Up(b), NEW d, Exactly(b, d), Up(d), NEW e, Quietly(d, e)
  PROVE  Serves(b, e)
  BY Zenon DEF Serves, Exactly, Quietly, SameQueue, Up

LEMMA RetransmitServes ==
  ASSUME NEW e \in Session, QueueOK(e)
  PROVE  LET d == retransmitFrom(e, e.va)
         IN  d \in Session /\ d.state = e.state /\ d.va = e.va /\ Len(d.txQueue) = Len(e.txQueue)
  <1> DEFINE r == [e EXCEPT !.txQueue = [i \in DOMAIN @ |-> [@[i] EXCEPT !.transmitted = FALSE]],
                            !.vs = e.va]
             d == sendPendingIFrames(r)
  <1>1. /\ r \in Session /\ QueueOK(r) /\ r.state = e.state /\ r.va = e.va
        /\ Len(r.txQueue) = Len(e.txQueue)
    BY RewindQueue, Zenon
  <1>2. d = retransmitFrom(e, e.va)
    BY Zenon DEF retransmitFrom
  <1> HIDE DEF r
  <1>3. d \in Session /\ d.state = r.state /\ d.va = r.va /\ Len(d.txQueue) = Len(r.txQueue)
    BY <1>1, SendPending, Zenon
  <1> HIDE DEF d
  <1> QED BY <1>1, <1>2, <1>3, Zenon

LEMMA HandleIFrameServes ==
  ASSUME NEW b, Sound(b), Up(b), NEW f \in Frame
  PROVE  Serves(b, handleIFrame(b, f))
  <1>0. b \in Session /\ f.nr \in SeqNo /\ Quietly(b, b)
    BY Zenon DEF Sound, Frame, Quietly, SameQueue, SameT1, SameT3
  <1>1. CASE b.localBusy
    <2>1. Quietly(b, sendS(b, "RNR", FALSE))
      BY <1>0, SendQuietly, Zenon DEF SKind
    <2> QED BY <1>1, <2>1, QuietlyServes, Zenon DEF handleIFrame
  <1>2. CASE ~b.localBusy /\ ~isValidNR(b, f.nr)
    <2>1. Serves(b, startNRErrorRecovery(b))
      BY <1>0, NRErrorServes, Zenon DEF SameQueue
    <2> QED BY <1>2, <2>1, Zenon DEF handleIFrame
  <1>3. CASE ~b.localBusy /\ isValidNR(b, f.nr)
    <2> DEFINE d == handleReceivedNR(b, f.nr)
    <2>1. d \in Session /\ Up(d) /\ Exactly(b, d)
      BY <1>0, <1>3, AckServes, Zenon
    <2>2. handleIFrame(b, f) \in {handleInSequence(d, f), handleOutOfSequence(d, f)}
      BY <1>3, Zenon DEF handleIFrame
    <2> HIDE DEF d
    <2>3. Quietly(d, handleInSequence(d, f)) /\ Quietly(d, handleOutOfSequence(d, f))
      BY <2>1, InSequenceQuietly, OutOfSequenceQuietly, Zenon
    <2>4. Quietly(d, handleIFrame(b, f))
      BY <2>2, <2>3, Zenon
    <2> QED BY <2>1, <2>4, QuietlyThen, Zenon
  <1> QED BY <1>1, <1>2, <1>3, Zenon

LEMMA HandleRRServes ==
  ASSUME NEW b, Sound(b), Up(b), NEW f \in Frame, isValidNR(b, f.nr)
  PROVE  Serves(b, handleRR(b, f))
  <1> DEFINE e == [b EXCEPT !.peerBusy = FALSE]
             d == handleReceivedNR(e, f.nr)
             s == stopT1(d)
             g == [s EXCEPT !.state = "Connected"]
             h == retransmitFrom(g, g.va)
  <1>0. b \in Session /\ f.nr \in SeqNo
    BY Zenon DEF Sound, Frame
  <1>1. Quietly(b, e)
    BY <1>0, FieldsQuietly, Zenon
  <1> HIDE DEF e
  <1>2. d \in Session /\ QueueOK(d) /\ Up(d) /\ Exactly(b, d)
    BY <1>0, <1>1, AckServes, Zenon
  <1>3. handleRR(b, f) = IF ~f.pf THEN d
                         ELSE IF d.state # "TimerRecovery" THEN sendS(d, "RR", TRUE)
                         ELSE IF d.va # d.vs THEN retransmitFrom(g, d.va) ELSE g
    BY Zenon DEF handleRR, e
  <1> HIDE DEF d
  <1>4. s \in Session /\ SameQueue(d, s)
    BY <1>2, T1Effects, Zenon
  <1> HIDE DEF s
  <1>5. g \in Session /\ g.state = "Connected" /\ SameQueue(s, g)
    BY <1>4, StateEffects, Zenon DEF ConnState
  <1> HIDE DEF g
  <1>6. SameQueue(d, g) /\ QueueOK(g)
    BY <1>2, <1>4, <1>5, SameQueueOK, Zenon DEF SameQueue
  <1>7. h.state = "Connected" /\ h.va = g.va /\ Len(h.txQueue) = Len(g.txQueue)
    BY <1>5, <1>6, RetransmitServes, Zenon
  <1>8. h = retransmitFrom(g, d.va)
    BY <1>6, Zenon DEF SameQueue
  <1> HIDE DEF h
  <1>9. Serves(b, d) /\ Serves(b, g) /\ Serves(b, h)
    BY <1>2, <1>5, <1>6, <1>7, ExactlyThen DEF SameQueue, Up
  <1>10. Serves(b, sendS(d, "RR", TRUE))
    <2>1. Quietly(d, sendS(d, "RR", TRUE))
      BY <1>2, SendQuietly, Zenon DEF SKind
    <2> QED BY <1>2, <2>1, QuietlyThen, Zenon
  <1> QED BY <1>3, <1>8, <1>9, <1>10, Zenon

LEMMA HandleRNRServes ==
  ASSUME NEW b, Sound(b), Up(b), NEW f \in Frame, isValidNR(b, f.nr)
  PROVE  Serves(b, handleRNR(b, f))
  <1> DEFINE e == [b EXCEPT !.peerBusy = TRUE]
             d == handleReceivedNR(e, f.nr)
             s == stopT1(d)
             g == startT3(s)
  <1>0. b \in Session /\ f.nr \in SeqNo
    BY Zenon DEF Sound, Frame
  <1>1. Quietly(b, e)
    BY <1>0, FieldsQuietly, Zenon
  <1> HIDE DEF e
  <1>2. d \in Session /\ Up(d) /\ Exactly(b, d)
    BY <1>0, <1>1, AckServes, Zenon
  <1>3. handleRNR(b, f) = IF f.pf THEN g ELSE d
    BY Zenon DEF handleRNR, e
  <1> HIDE DEF d
  <1>4. s \in Session /\ s.state = d.state /\ SameQueue(d, s)
    BY <1>2, T1Effects, Zenon
  <1> HIDE DEF s
  <1>5. g.state = s.state /\ SameQueue(s, g)
    BY <1>4, T3Effects, Zenon
  <1> HIDE DEF g
  <1>6. Serves(b, d) /\ Serves(b, g)
    BY <1>2, <1>4, <1>5, ExactlyThen DEF SameQueue, Up
  <1> QED BY <1>3, <1>6, Zenon

LEMMA HandleREJServes ==
  ASSUME NEW b, Sound(b), Up(b), NEW f \in Frame, isValidNR(b, f.nr)
  PROVE  Serves(b, handleREJ(b, f))
  <1> DEFINE e == [b EXCEPT !.peerBusy = FALSE]
             d == handleReceivedNR(e, f.nr)
             s == stopT1(d)
             g == [s EXCEPT !.retryCount = 0, !.state = "Connected"]
             h == retransmitFrom(g, f.nr)
  <1>0. b \in Session /\ f.nr \in SeqNo
    BY Zenon DEF Sound, Frame
  <1>1. Quietly(b, e)
    BY <1>0, FieldsQuietly, Zenon
  <1> HIDE DEF e
  <1>2. d \in Session /\ QueueOK(d) /\ Up(d) /\ Exactly(b, d) /\ d.va = f.nr
    BY <1>0, <1>1, AckServes, Zenon
  <1>3. handleREJ(b, f) = IF f.pf THEN sendS(h, "RR", TRUE) ELSE h
    BY Zenon DEF handleREJ, e
  <1> HIDE DEF d
  <1>4. s \in Session /\ SameQueue(d, s)
    BY <1>2, T1Effects, Zenon
  <1> HIDE DEF s
  <1>5. g \in Session /\ g.state = "Connected" /\ SameQueue(s, g)
    BY <1>4, Zenon DEF Session, ConnState, SameQueue
  <1> HIDE DEF g
  <1>6. SameQueue(d, g) /\ QueueOK(g) /\ g.va = f.nr
    BY <1>2, <1>4, <1>5, SameQueueOK, Zenon DEF SameQueue
  <1>7. h \in Session /\ h.state = "Connected" /\ h.va = g.va /\ Len(h.txQueue) = Len(g.txQueue)
    BY <1>5, <1>6, RetransmitServes, Zenon
  <1> HIDE DEF h
  <1>8. Quietly(h, sendS(h, "RR", TRUE))
    BY <1>7, SendQuietly, Zenon DEF SKind
  <1>9. Up(h) /\ Exactly(b, h)
    BY <1>2, <1>6, <1>7, Zenon DEF Exactly, SameQueue, Up
  <1>10. Serves(b, h) /\ Serves(b, sendS(h, "RR", TRUE))
    BY <1>8, <1>9, ExactlyThen, QuietlyThen, Zenon
  <1> QED BY <1>3, <1>10, Zenon

LEMMA HandleUFrameServes ==
  ASSUME NEW b, Sound(b), Up(b), NEW f \in Frame
  PROVE  Serves(b, handleUFrameConnected(b, f))
  <1>0. b \in Session /\ f.pf \in BOOLEAN
    BY Zenon DEF Sound, Frame
  <1>1. CASE f.kind = "SABM"
    <2> DEFINE z == resetStateVars(b)
               y == sendU(z, "UA", f.pf)
               d == enqueueAction(y, Notify("OnLinkReset"))
    <2>1. z \in Session /\ z.state = b.state /\ Fresh(z)
      BY <1>0, ResetEffects, Zenon DEF Fresh
    <2> HIDE DEF z
    <2>2. Quietly(z, y) /\ y \in Session
      BY <1>0, <2>1, SendQuietly, Zenon DEF UKind, Quietly
    <2> HIDE DEF y
    <2>3. Quietly(y, d)
      BY <2>2, SendQuietly, Zenon
    <2>4. d = handleUFrameConnected(b, f)
      BY <1>1, Zenon DEF handleUFrameConnected, y, z
    <2> HIDE DEF d
    <2>5. Up(d) /\ Fresh(d)
      BY <2>1, <2>2, <2>3, Zenon DEF Quietly, SameQueue, Up, Fresh
    <2> QED BY <2>4, <2>5, Zenon DEF Serves
  <1>2. CASE f.kind = "DISC"
    <2> DEFINE e == sendU(b, "UA", f.pf)
    <2>1. Quietly(b, e)
      BY <1>0, SendQuietly, Zenon DEF UKind
    <2> HIDE DEF e
    <2>2. Serves(b, enterDisconnected(e))
      BY <2>1, EnterDisconnectedServes, Zenon DEF Quietly
    <2> QED BY <1>2, <2>2, Zenon DEF handleUFrameConnected, e
  <1>3. CASE f.kind = "DM"
    <2> DEFINE e == fireError(b)
    <2>1. Quietly(b, e)
      BY <1>0, SendQuietly, Zenon
    <2> HIDE DEF e
    <2>2. Serves(b, enterDisconnected(e))
      BY <2>1, EnterDisconnectedServes, Zenon DEF Quietly
    <2> QED BY <1>3, <2>2, Zenon DEF handleUFrameConnected, e
  <1>4. CASE f.kind \notin {"SABM", "DISC", "DM"}
    BY <1>4, SameServes, Zenon DEF handleUFrameConnected
  <1> QED BY <1>1, <1>2, <1>3, <1>4, Zenon

LEMMA HandleConnectedServes ==
  ASSUME NEW b, Sound(b), Up(b), NEW f \in Frame
  PROVE  Serves(b, handleConnected(b, f))
  <1>1. CASE f.kind = "I"
    BY <1>1, HandleIFrameServes, Zenon DEF handleConnected
  <1>2. CASE f.kind \in SKind
    <2>1. handleConnected(b, f) = handleSFrame(b, f) /\ f.kind \in {"RR", "RNR", "REJ", "SREJ"}
      BY <1>2, Zenon DEF handleConnected, SKind
    <2>2. CASE ~isValidNR(b, f.nr)
      <3>1. Serves(b, startNRErrorRecovery(b))
        BY NRErrorServes, Zenon DEF SameQueue, Sound
      <3> QED BY <2>1, <2>2, <3>1, Zenon DEF handleSFrame
    <2>3. CASE isValidNR(b, f.nr)
      <3>1. Serves(b, handleRR(b, f)) /\ Serves(b, handleRNR(b, f))
            /\ Serves(b, handleREJ(b, f)) /\ Serves(b, b)
        BY <2>3, HandleRRServes, HandleRNRServes, HandleREJServes, SameServes, Zenon
      <3> QED BY <2>1, <2>3, <3>1, Zenon DEF handleSFrame
    <2> QED BY <2>2, <2>3, Zenon
  <1>3. CASE f.kind # "I" /\ f.kind \notin SKind
    BY <1>3, HandleUFrameServes, Zenon DEF handleConnected
  <1> QED BY <1>1, <1>2, <1>3, Zenon

\* UA, DM or nothing while a call waits.
LEMMA HandleAwaitingConnectionServes ==
  ASSUME NEW b, Sound(b), b.state = "AwaitingConnection", NEW f
  PROVE  Serves(b, handleAwaitingConnection(b, f))
  <1> DEFINE s == stopT1(b)
  <1>1. s \in Session /\ SameQueue(b, s)
    BY T1Effects, Zenon DEF Sound
  <1> HIDE DEF s
  <1>2. CASE f.kind = "UA"
    <2> DEFINE z == resetStateVars(s)
               y == [z EXCEPT !.state = "Connected"]
               a == OnConnect(b.remote)
               x == enqueueAction(y, a)
               w == startT3(x)
    <2>1. z \in Session /\ Fresh(z)
      BY <1>1, ResetEffects, Zenon DEF Fresh
    <2> HIDE DEF z
    <2>2. y \in Session /\ y.state = "Connected" /\ SameQueue(z, y)
      BY <2>1, StateEffects, Zenon DEF ConnState
    <2> HIDE DEF y
    <2>3. a \in Callback
      BY Zenon DEF OnConnect, Callback, Sound, Session
    <2> HIDE DEF a
    <2>4. x \in Session
      BY <2>2, <2>3, EnqueueType, Zenon
    <2>5. x.state = y.state /\ SameQueue(y, x)
      BY <2>2, Zenon DEF enqueueAction, Session, SameQueue
    <2> HIDE DEF x
    <2>6. w.state = x.state /\ SameQueue(x, w)
      BY <2>4, T3Effects, Zenon
    <2> HIDE DEF w
    <2>7. w.state = "Connected" /\ Fresh(w)
      BY <2>1, <2>2, <2>5, <2>6, Zenon DEF SameQueue, Fresh
    <2>8. sendPendingIFrames(w) = w
      <3>1. Sendable(w) = {}
        BY <2>7 DEF Sendable, Idle, Fresh
      <3>2. Cardinality(Sendable(w)) = 0
        BY <3>1, FS_EmptySet, Zenon
      <3> QED BY <3>2, Zenon DEF sendPendingIFrames
    <2>9. handleAwaitingConnection(b, f) = w
      BY <1>2, <2>8, Zenon DEF handleAwaitingConnection, s, z, y, a, x, w
    <2> QED BY <2>7, <2>9, Zenon DEF Serves
  <1>3. CASE f.kind = "DM"
    <2> DEFINE e == fireError(s)
    <2>1. e \in Session /\ SameQueue(s, e)
      BY <1>1, SendQuietly, Zenon DEF Quietly
    <2> HIDE DEF e
    <2>2. SameQueue(b, e)
      BY <1>1, <2>1, Zenon DEF SameQueue
    <2>3. Serves(b, enterDisconnected(e))
      BY <2>1, <2>2, EnterDisconnectedServes, Zenon
    <2> QED BY <1>3, <2>3, Zenon DEF handleAwaitingConnection, e, s
  <1>4. CASE f.kind \notin {"UA", "DM"}
    BY <1>4, SameServes, Zenon DEF handleAwaitingConnection
  <1> QED BY <1>2, <1>3, <1>4, Zenon

LEMMA OnFrameServes ==
  ASSUME NEW b, Sound(b), NEW f \in Frame, f.peer \in Peers
  PROVE  Serves(b, OnFrame(b, f))
  <1>0. b \in Session /\ b.state \in ConnState /\ f.pf \in BOOLEAN
    BY Zenon DEF Sound, Session, Frame
  <1>1. CASE f.kind = "UI"
    BY <1>1, SameServes, Zenon DEF OnFrame
  <1>2. CASE f.kind # "UI" /\ b.state = "Disconnected"
    <2> DEFINE e == [b EXCEPT !.remote = f.peer]
    <2>1. e \in Session /\ Quietly(b, e)
      BY <1>0, Zenon DEF Session, Quietly, SameQueue, SameT1, SameT3
    <2> HIDE DEF e
    <2>2. Quietly(e, sendU(e, "DM", f.pf))
      BY <1>0, <2>1, SendQuietly, Zenon DEF UKind
    <2>3. Quietly(b, sendU(e, "DM", f.pf))
      BY <2>1, <2>2, QuietlyTrans, Zenon
    <2> QED BY <1>2, <2>3, QuietlyServes, Zenon DEF OnFrame, replyDM, Up, e
  <1>3. CASE f.kind # "UI" /\ b.state = "AwaitingConnection"
    BY <1>3, HandleAwaitingConnectionServes, Zenon DEF OnFrame, Up
  <1>4. CASE f.kind # "UI" /\ b.state = "AwaitingRelease"
    <2> DEFINE s == stopT1(b)
    <2>1. s \in Session /\ SameQueue(b, s)
      BY <1>0, T1Effects, Zenon
    <2> HIDE DEF s
    <2>2. Serves(b, enterDisconnected(s))
      BY <2>1, EnterDisconnectedServes, Zenon
    <2> QED BY <1>4, <2>2, SameServes, Zenon DEF OnFrame, handleAwaitingRelease, Up, s
  <1>5. CASE f.kind # "UI" /\ Up(b)
    BY <1>5, HandleConnectedServes, Zenon DEF OnFrame, Up
  <1> QED BY <1>0, <1>1, <1>2, <1>3, <1>4, <1>5, Zenon DEF ConnState, Up

LEMMA RetryServes ==
  ASSUME NEW e \in Session, NEW k \in {"SABM", "DISC", "RR"}
  PROVE  retry(e, k).state = e.state /\ SameQueue(e, retry(e, k))
  <1> DEFINE f == [e EXCEPT !.retryCount = @ + 1]
             g == IF k = "RR" THEN sendS(f, k, TRUE) ELSE sendU(f, k, TRUE)
             d == startT1(g)
  <1>1. f \in Session /\ f.state = e.state /\ SameQueue(e, f)
    <2>1. e.retryCount \in Nat
      BY Zenon DEF Session
    <2>2. e.retryCount + 1 \in Nat
      BY <2>1
    <2> QED BY <2>2, Zenon DEF Session, SameQueue
  <1>2. d = retry(e, k)
    BY Zenon DEF retry
  <1> HIDE DEF f
  <1>3. Quietly(f, g)
    <2>1. k = "RR" => Quietly(f, sendS(f, k, TRUE))
      BY <1>1, SendQuietly, Zenon DEF SKind
    <2>2. k # "RR" => Quietly(f, sendU(f, k, TRUE))
      BY <1>1, SendQuietly, Zenon DEF UKind
    <2> QED BY <2>1, <2>2, Zenon
  <1> HIDE DEF g
  <1>4. d.state = g.state /\ SameQueue(g, d)
    BY <1>3, T1Effects, Zenon DEF Quietly
  <1> HIDE DEF d
  <1> QED BY <1>1, <1>2, <1>3, <1>4, Zenon DEF Quietly, SameQueue

LEMMA T1ExpiredServes ==
  ASSUME NEW b, Sound(b), b.t1Late > 0
  PROVE  Serves(b, onT1Expired([b EXCEPT !.t1Late = @ - 1]))
  <1> DEFINE x == [b EXCEPT !.t1Late = @ - 1]
             y == [x EXCEPT !.t1Active = FALSE]
             z == IF b.state = "Connected"
                  THEN [y EXCEPT !.state = "TimerRecovery", !.retryCount = 0] ELSE y
             u == fireError(z)
  <1>0. b \in Session /\ b.state \in ConnState
    BY Zenon DEF Sound, Session
  <1>1. x \in Session /\ x.state = b.state /\ SameQueue(b, x)
    BY <1>0 DEF Session, SameQueue
  <1> HIDE DEF x
  <1>2. y \in Session /\ y.state = x.state /\ SameQueue(x, y)
    BY <1>1, Zenon DEF Session, SameQueue
  <1>3. onT1Expired(x) =
          CASE z.state = "Disconnected" -> z
            [] z.state = "AwaitingConnection" ->
                 IF z.retryCount >= N2 THEN enterDisconnected(u) ELSE retry(z, "SABM")
            [] z.state = "AwaitingRelease" ->
                 IF z.retryCount >= N2 THEN enterDisconnected(u) ELSE retry(z, "DISC")
            [] z.state = "TimerRecovery" ->
                 IF z.retryCount >= N2 THEN startNRErrorRecovery(z) ELSE retry(z, "RR")
    BY <1>1, Zenon DEF onT1Expired
  <1> HIDE DEF y
  <1>4. /\ z \in Session /\ SameQueue(y, z)
        /\ z.state = IF b.state = "Connected" THEN "TimerRecovery" ELSE b.state
    <2>1. CASE b.state = "Connected"
      BY <1>2, <2>1, Zenon DEF Session, SameQueue, ConnState
    <2>2. CASE b.state # "Connected"
      <3>1. z = y
        BY <2>2, Zenon
      <3> HIDE DEF z
      <3> QED BY <1>1, <1>2, <2>2, <3>1, Zenon DEF SameQueue
    <2> QED BY <2>1, <2>2, Zenon
  <1> HIDE DEF z
  <1>5. SameQueue(b, z) /\ z.state \in {"Disconnected", "AwaitingConnection", "AwaitingRelease", "TimerRecovery"}
    BY <1>0, <1>1, <1>2, <1>4, Zenon DEF SameQueue, ConnState
  <1>6. u \in Session /\ SameQueue(b, u)
    BY <1>4, <1>5, SendQuietly, Zenon DEF Quietly, SameQueue
  <1> HIDE DEF u
  <1>7. Serves(b, enterDisconnected(u)) /\ Serves(b, startNRErrorRecovery(z))
    BY <1>4, <1>5, <1>6, EnterDisconnectedServes, NRErrorServes, Zenon
  <1>8. ASSUME NEW d, d.state = z.state, SameQueue(b, d) PROVE Serves(b, d)
    <2>1. d.state = b.state \/ (Up(b) /\ Up(d))
      BY <1>4, <1>8, Zenon DEF Up
    <2>2. CASE d.state = b.state
      BY <1>8, <2>2, Zenon DEF Serves
    <2>3. CASE Up(b) /\ Up(d)
      <3>1. Len(b.txQueue) \in Nat /\ b.va \in 0 .. 7
        BY <1>0 DEF Session, SeqNo
      <3>2. mod8(d.va - b.va) = 0
        BY <1>8, <3>1 DEF SameQueue, mod8
      <3>3. Exactly(b, d)
        BY <1>8, <3>1, <3>2 DEF SameQueue, Exactly
      <3> QED BY <2>3, <3>3, Zenon DEF Serves
    <2> QED BY <2>1, <2>2, <2>3, Zenon
  <1>9. Serves(b, z) /\ Serves(b, retry(z, "SABM")) /\ Serves(b, retry(z, "DISC")) /\ Serves(b, retry(z, "RR"))
    <2>1. ASSUME NEW k \in {"SABM", "DISC", "RR"} PROVE Serves(b, retry(z, k))
      <3>1. retry(z, k).state = z.state /\ SameQueue(z, retry(z, k))
        BY <1>4, RetryServes, Zenon
      <3>2. SameQueue(b, retry(z, k))
        BY <1>5, <3>1, Zenon DEF SameQueue
      <3> QED BY <1>8, <3>1, <3>2, Zenon
    <2> QED BY <1>5, <1>8, <2>1, Zenon
  <1> QED BY <1>3, <1>5, <1>7, <1>9, Zenon DEF x

LEMMA T2ExpiredServes ==
  ASSUME NEW b, Sound(b), b.t2Late > 0
  PROVE  Serves(b, onT2Expired([b EXCEPT !.t2Late = @ - 1]))
  <1> DEFINE x == [b EXCEPT !.t2Late = @ - 1]
             y == [x EXCEPT !.t2Active = FALSE]
             z == sendAck(y, FALSE)
             w == [z EXCEPT !.ackPending = FALSE]
  <1>0. b \in Session
    BY Zenon DEF Sound
  <1>1. x \in Session /\ x.state = b.state /\ SameQueue(b, x)
    <2>1. b.t2Late \in Nat
      BY <1>0, Zenon DEF Session
    <2>2. b.t2Late - 1 \in Nat
      BY <2>1
    <2> QED BY <1>0, <2>2, Zenon DEF Session, SameQueue
  <1>2. onT2Expired(x) \in {y, w}
    BY Zenon DEF onT2Expired
  <1> HIDE DEF x
  <1>3. Quietly(x, y) /\ y \in Session
    BY <1>1, FieldsQuietly, Zenon DEF Quietly
  <1> HIDE DEF y
  <1>4. Quietly(y, z) /\ z \in Session
    BY <1>3, SendQuietly, Zenon DEF Quietly
  <1> HIDE DEF z
  <1>5. Quietly(z, w)
    BY <1>4, FieldsQuietly, Zenon
  <1> HIDE DEF w
  <1>6. /\ y.state = b.state /\ SameQueue(b, y)
        /\ w.state = b.state /\ SameQueue(b, w)
    BY <1>1, <1>3, <1>4, <1>5, Zenon DEF Quietly, SameQueue
  <1> QED BY <1>2, <1>6, Zenon DEF Serves, x

LEMMA T3ExpiredServes ==
  ASSUME NEW b, Sound(b), b.t3Late > 0
  PROVE  Serves(b, onT3Expired([b EXCEPT !.t3Late = @ - 1]))
  <1> DEFINE x == [b EXCEPT !.t3Late = @ - 1]
             y == sendS(x, "RR", TRUE)
             z == [y EXCEPT !.state = "TimerRecovery", !.retryCount = 0]
             d == startT1(z)
  <1>0. b \in Session
    BY Zenon DEF Sound
  <1>1. x \in Session /\ x.state = b.state /\ SameQueue(b, x)
    BY <1>0 DEF Session, SameQueue
  <1>2. onT3Expired(x) = IF x.state # "Connected" THEN x ELSE d
    BY Zenon DEF onT3Expired
  <1> HIDE DEF x
  <1>3. y \in Session /\ SameQueue(x, y)
    BY <1>1, SendQuietly, Zenon DEF SKind, Quietly
  <1> HIDE DEF y
  <1>4. z \in Session /\ z.state = "TimerRecovery" /\ SameQueue(y, z)
    BY <1>3, Zenon DEF Session, ConnState, SameQueue
  <1> HIDE DEF z
  <1>5. d.state = "TimerRecovery" /\ SameQueue(z, d)
    BY <1>4, T1Effects, Zenon
  <1> HIDE DEF d
  <1>6. CASE x.state # "Connected"
    BY <1>1, <1>2, <1>6, Zenon DEF Serves, x
  <1>7. CASE x.state = "Connected"
    <2>1. SameQueue(b, d)
      BY <1>1, <1>3, <1>4, <1>5, Zenon DEF SameQueue
    <2>2. Len(b.txQueue) \in Nat /\ b.va \in 0 .. 7
      BY DEF Sound, Session, SeqNo
    <2>3. mod8(d.va - b.va) = 0
      BY <2>1, <2>2 DEF SameQueue, mod8
    <2>4. Exactly(b, d)
      BY <2>1, <2>2, <2>3 DEF SameQueue, Exactly
    <2>5. Up(b) /\ Up(d)
      BY <1>1, <1>5, <1>7, Zenon DEF Up
    <2>6. onT3Expired(x) = d
      BY <1>2, <1>7, Zenon
    <2> QED BY <2>4, <2>5, <2>6, Zenon DEF Serves, x
  <1> QED BY <1>6, <1>7, Zenon

-----------------------------------------------------------------------------
(* The public methods, and the two halves of an accepted call.             *)

LEMMA ConnectServes ==
  ASSUME NEW b \in Session, NEW p \in Peers
  PROVE  Connect(b, p).state = "AwaitingConnection" /\ Fresh(Connect(b, p))
  <1> DEFINE r == [b EXCEPT !.remote = p]
             z == resetStateVars(r)
             y == [z EXCEPT !.state = "AwaitingConnection", !.retryCount = 0]
             x == startT1(y)
             d == sendU(x, "SABM", TRUE)
  <1>1. r \in Session
    BY Zenon DEF Session
  <1> HIDE DEF r
  <1>2. z \in Session /\ Fresh(z)
    BY <1>1, ResetEffects, Zenon DEF Fresh
  <1> HIDE DEF z
  <1>3. y \in Session /\ y.state = "AwaitingConnection" /\ SameQueue(z, y)
    BY <1>2, Zenon DEF Session, ConnState, SameQueue
  <1> HIDE DEF y
  <1>4. x \in Session /\ x.state = y.state /\ SameQueue(y, x)
    BY <1>3, T1Effects, Zenon
  <1> HIDE DEF x
  <1>5. Quietly(x, d)
    BY <1>4, SendQuietly, Zenon DEF UKind
  <1>6. d = Connect(b, p)
    BY Zenon DEF Connect, r, x, y, z
  <1> HIDE DEF d
  <1> QED BY <1>2, <1>3, <1>4, <1>5, <1>6, Zenon DEF Quietly, SameQueue, Fresh

LEMMA ShutdownServes ==
  ASSUME NEW b \in Session
  PROVE  Shutdown(b).state = "AwaitingRelease" /\ SameQueue(b, Shutdown(b))
  <1> DEFINE z == stopAllTimers(b)
             y == [z EXCEPT !.state = "AwaitingRelease", !.retryCount = 0]
             x == startT1(y)
             d == sendU(x, "DISC", TRUE)
  <1>1. z \in Session /\ SameQueue(b, z)
    BY StopAllEffects, Zenon
  <1> HIDE DEF z
  <1>2. y \in Session /\ y.state = "AwaitingRelease" /\ SameQueue(z, y)
    BY <1>1, Zenon DEF Session, ConnState, SameQueue
  <1> HIDE DEF y
  <1>3. x \in Session /\ x.state = y.state /\ SameQueue(y, x)
    BY <1>2, T1Effects, Zenon
  <1> HIDE DEF x
  <1>4. Quietly(x, d)
    BY <1>3, SendQuietly, Zenon DEF UKind
  <1>5. d = Shutdown(b)
    BY Zenon DEF Shutdown, x, y, z
  <1> HIDE DEF d
  <1> QED BY <1>1, <1>2, <1>3, <1>4, <1>5, Zenon DEF Quietly, SameQueue

LEMMA SendDataServes ==
  ASSUME NEW b, Sound(b), CanSend(b), NEW p \in Payload
  PROVE  LET d == SendData(b, p)
             l == Len(b.txQueue)
         IN  /\ d.state = b.state /\ d.va = b.va /\ Len(d.txQueue) = l + 1
             /\ \A i \in 1 .. l : d.txQueue[i].data = b.txQueue[i].data
             /\ d.txQueue[l + 1].data = p
  <1> DEFINE x == [data |-> p, ns |-> 0, transmitted |-> FALSE]
             e == [b EXCEPT !.txQueue = Append(@, x)]
             d == sendPendingIFrames(e)
             l == Len(b.txQueue)
  <1>1. x \in PendingFrame /\ ~x.transmitted /\ x.data = p
    BY ZeroType, Zenon DEF PendingFrame
  <1> HIDE DEF x
  <1>2. b \in Session /\ QueueOK(b) /\ l < Window /\ l \in Nat /\ b.txQueue \in Seq(PendingFrame)
    BY DEF Sound, CanSend, Session
  <1>3. /\ e \in Session /\ QueueOK(e) /\ e.state = b.state /\ e.va = b.va
        /\ Len(e.txQueue) = l + 1
        /\ \A i \in 1 .. l : e.txQueue[i].data = b.txQueue[i].data
    BY <1>1, <1>2, AppendKeepsQueue, Zenon
  <1>4. e.txQueue = Append(b.txQueue, x)
    BY <1>2, Zenon DEF Session
  <1>5. e.txQueue[l + 1].data = p
    BY <1>1, <1>2, <1>4, AppendProperties
  <1>6. d = SendData(b, p)
    BY Zenon DEF SendData, e, x
  <1> HIDE DEF e
  <1>7. /\ d.state = e.state /\ d.va = e.va /\ Len(d.txQueue) = Len(e.txQueue)
        /\ \A i \in 1 .. Len(e.txQueue) : d.txQueue[i].data = e.txQueue[i].data
    BY <1>3, SendPending, Zenon
  <1> HIDE DEF d
  <1>8. \A i \in 1 .. l : i \in 1 .. l + 1
    BY <1>2
  <1>9. l + 1 \in 1 .. l + 1
    BY <1>2
  <1>10. /\ d.state = b.state /\ d.va = b.va /\ Len(d.txQueue) = l + 1
         /\ \A i \in 1 .. l : d.txQueue[i].data = b.txQueue[i].data
         /\ d.txQueue[l + 1].data = p
    BY <1>3, <1>5, <1>7, <1>8, <1>9, Zenon
  <1> QED BY <1>6, <1>10, Zenon DEF l

LEMMA SetBusyServes ==
  ASSUME NEW b \in Session, NEW v \in BOOLEAN
  PROVE  Serves(b, SetBusy(b, v))
  <1> DEFINE e == [b EXCEPT !.localBusy = v]
             f == [e EXCEPT !.ackPending = FALSE]
             g == stopT2(f)
  <1>1. Quietly(b, b)
    BY Zenon DEF Quietly, SameQueue, SameT1, SameT3
  <1>2. Quietly(b, e) /\ e \in Session
    BY FieldsQuietly, Zenon DEF Quietly
  <1> HIDE DEF e
  <1>3. Quietly(e, f) /\ f \in Session
    BY <1>2, FieldsQuietly, Zenon DEF Quietly
  <1> HIDE DEF f
  <1>4. Quietly(f, g) /\ g \in Session
    BY <1>3, T2Quietly, Zenon DEF Quietly
  <1> HIDE DEF g
  <1>5. Quietly(g, sendS(g, "RNR", FALSE)) /\ Quietly(e, sendS(e, "RR", FALSE))
    BY <1>2, <1>4, SendQuietly, Zenon DEF SKind
  <1>6. Quietly(b, sendS(g, "RNR", FALSE)) /\ Quietly(b, sendS(e, "RR", FALSE))
    BY <1>2, <1>3, <1>4, <1>5, QuietlyTrans, Zenon
  <1>7. SetBusy(b, v) \in {b, e, sendS(g, "RNR", FALSE), sendS(e, "RR", FALSE)}
    BY Zenon DEF SetBusy, e, f, g
  <1> QED BY <1>1, <1>2, <1>6, <1>7, QuietlyServes, Zenon

LEMMA CloseServes ==
  ASSUME NEW b \in Session
  PROVE  Close(b).state = "Disconnected" /\ SameQueue(b, Close(b))
  <1> DEFINE e == stopAllTimers(b)
             d == [e EXCEPT !.state = "Disconnected"]
  <1>1. e \in Session /\ SameQueue(b, e)
    BY StopAllEffects, Zenon
  <1> HIDE DEF e
  <1>2. d.state = "Disconnected" /\ SameQueue(e, d)
    BY <1>1, StateEffects, Zenon DEF ConnState
  <1>3. d = Close(b)
    BY Zenon DEF Close, e
  <1> HIDE DEF d
  <1> QED BY <1>1, <1>2, <1>3, Zenon DEF SameQueue

LEMMA BeginAcceptServes ==
  ASSUME NEW b \in Session, NEW f, f.peer \in Peers
  PROVE  beginAccept(b, f).state = "Connected" /\ Fresh(beginAccept(b, f))
  <1> DEFINE r == [b EXCEPT !.remote = f.peer]
             z == resetStateVars(r)
             d == [z EXCEPT !.state = "Connected", !.refusePending = FALSE]
  <1>1. r \in Session
    BY Zenon DEF Session
  <1> HIDE DEF r
  <1>2. z \in Session /\ Fresh(z)
    BY <1>1, ResetEffects, Zenon DEF Fresh
  <1> HIDE DEF z
  <1>3. d.state = "Connected" /\ SameQueue(z, d)
    BY <1>2, Zenon DEF Session, SameQueue
  <1>4. d = beginAccept(b, f)
    BY Zenon DEF beginAccept, r, z
  <1> HIDE DEF d
  <1> QED BY <1>2, <1>3, <1>4, Zenon DEF SameQueue, Fresh

LEMMA EndAcceptServes ==
  ASSUME NEW b \in Session, NEW pf \in BOOLEAN
  PROVE  Serves(b, endAccept(b, pf))
  <1> DEFINE e == sendU(b, "DM", pf)
             u == sendU(b, "UA", pf)
             d == startT3(u)
  <1>1. Quietly(b, e) /\ Quietly(b, u)
    BY SendQuietly, Zenon DEF UKind
  <1>2. endAccept(b, pf) = IF b.refusePending THEN enterDisconnected(e) ELSE d
    BY Zenon DEF endAccept
  <1> HIDE DEF e, u
  <1>3. Serves(b, enterDisconnected(e))
    BY <1>1, EnterDisconnectedServes, Zenon DEF Quietly
  <1>4. d.state = u.state /\ SameQueue(u, d)
    BY <1>1, T3Effects, Zenon DEF Quietly
  <1> HIDE DEF d
  <1>5. Serves(b, d)
    BY <1>1, <1>4, Zenon DEF Serves, Quietly, SameQueue
  <1> QED BY <1>2, <1>3, <1>5, Zenon

-----------------------------------------------------------------------------
(* The refinement mapping.                                                 *)

LEMMA StatusValues ==
  ASSUME NEW d
  PROVE  /\ d.state = "Disconnected" => Status(d) = "down"
         /\ d.state = "AwaitingConnection" => Status(d) = "calling"
         /\ d.state = "AwaitingRelease" => Status(d) = "leaving"
         /\ Up(d) => Status(d) = "up"
  BY DEF Status, StatusOf, Up

LEMMA QueuedSeq ==
  ASSUME NEW b \in Session
  PROVE  /\ Queued(b) \in Seq(Payload) /\ Len(b.txQueue) \in Nat
         /\ Len(Queued(b)) = Len(b.txQueue)
         /\ \A i \in 1 .. Len(b.txQueue) : Queued(b)[i] = b.txQueue[i].data
  <1> DEFINE q == b.txQueue
             l == Len(q)
             t == Queued(b)
  <1>1. q \in Seq(PendingFrame) /\ l \in Nat /\ DOMAIN q = 1 .. l
    BY DEF Session
  <1>2. \A i \in 1 .. l : q[i].data \in Payload
    <2>1. \A i \in 1 .. l : q[i] \in PendingFrame
      BY <1>1, ElementOfSeq, Zenon
    <2> QED BY <2>1, Zenon DEF PendingFrame
  <1>3. t = [i \in 1 .. l |-> q[i].data]
    BY <1>1, Zenon DEF Queued
  <1> HIDE DEF t, l
  <1>4. t \in [1 .. l -> Payload] /\ DOMAIN t = 1 .. l /\ \A i \in 1 .. l : t[i] = q[i].data
    BY <1>2, <1>3, Zenon
  <1>5. t \in Seq(Payload) /\ Len(t) = l
    BY <1>1, <1>4, SeqDef, LenProperties
  <1> QED BY <1>1, <1>4, <1>5, Zenon DEF t, l

LEMMA SameSeen ==
  ASSUME NEW b, NEW d, SameQueue(b, d)
  PROVE  Queued(d) = Queued(b) /\ d.va = b.va /\ outstanding(d) = outstanding(b)
  BY Zenon DEF SameQueue, Queued, outstanding

LEMMA FreshSeen ==
  ASSUME NEW d \in Session, Fresh(d)
  PROVE  Queued(d) = << >> /\ d.va = 0 /\ outstanding(d) = 0
  <1>1. Queued(d) \in Seq(Payload) /\ Len(Queued(d)) = Len(d.txQueue)
    BY QueuedSeq, Zenon
  <1>2. Len(d.txQueue) = 0
    BY Zenon DEF Fresh
  <1>3. Queued(d) = << >>
    BY <1>1, <1>2
  <1> QED BY <1>3 DEF Fresh, outstanding, mod8

\* What leaves the queue is its front, and is counted by V(A).
LEMMA AckSeen ==
  ASSUME NEW b \in Session, QueueOK(b), NEW d \in Session, QueueOK(d),
         Advances(b, d), Exactly(b, d), ~Fresh(d)
  PROVE  LET k == mod8(d.va - b.va)
         IN  /\ k \in 0 .. 7 /\ k <= outstanding(b)
             /\ Queued(d) = SubSeq(Queued(b), k + 1, Len(Queued(b)))
             /\ d.va = (b.va + k) % 8
             /\ outstanding(d) \in 0 .. Len(Queued(d))
  <1> DEFINE k == mod8(d.va - b.va)
             l == Len(b.txQueue)
             q == Queued(b)
             t == SubSeq(q, k + 1, Len(q))
  <1>1. b.va \in 0 .. 7 /\ d.va \in 0 .. 7
    BY Zenon DEF Session, SeqNo
  <1>2. k \in 0 .. 7 /\ d.va = (b.va + k) % 8
    BY <1>1 DEF mod8
  <1>3. /\ k <= outstanding(b)
        /\ \A i \in 1 .. l - k : d.txQueue[i].data = b.txQueue[i + k].data
    BY Zenon DEF Advances, Fresh
  <1>4. Len(d.txQueue) = l - k
    BY Zenon DEF Exactly
  <1>5. /\ q \in Seq(Payload) /\ l \in Nat /\ Len(q) = l
        /\ \A i \in 1 .. l : q[i] = b.txQueue[i].data
    BY QueuedSeq, Zenon
  <1>6. /\ Queued(d) \in Seq(Payload) /\ Len(Queued(d)) = l - k
        /\ \A i \in 1 .. l - k : Queued(d)[i] = d.txQueue[i].data
    <2>1. /\ Queued(d) \in Seq(Payload) /\ Len(Queued(d)) = Len(d.txQueue)
          /\ \A i \in 1 .. Len(d.txQueue) : Queued(d)[i] = d.txQueue[i].data
      BY QueuedSeq, Zenon
    <2> QED BY <1>4, <2>1, Zenon
  <1>7. outstanding(b) <= l /\ outstanding(b) \in 0 .. 7
    BY OutstandingType, Zenon DEF QueueOK, SeqNo
  <1> HIDE DEF k, l, q
  <1>8. k \in 0 .. l
    BY <1>2, <1>3, <1>5, <1>7
  <1>9. /\ t \in Seq(Payload) /\ Len(t) = l - k
        /\ \A i \in 1 .. l - k : t[i] = q[i + k]
    BY <1>5, <1>8, DropFirst, Zenon
  <1> HIDE DEF t
  <1>10. \A i \in 1 .. l - k : Queued(d)[i] = t[i]
    <2> SUFFICES ASSUME NEW i \in 1 .. l - k PROVE Queued(d)[i] = t[i]
      BY Zenon
    <2>1. i + k \in 1 .. l
      BY <1>5, <1>8
    <2> QED BY <1>3, <1>5, <1>6, <1>9, <2>1, Zenon
  <1>11. Queued(d) = t
    BY <1>6, <1>9, <1>10, SeqEqual, Zenon
  <1>12. outstanding(d) \in 0 .. Len(Queued(d))
    <2>1. outstanding(d) \in 0 .. 7 /\ outstanding(d) <= Len(d.txQueue)
      BY OutstandingType, Zenon DEF QueueOK, SeqNo
    <2> QED BY <1>4, <1>5, <1>6, <1>8, <2>1
  <1> QED BY <1>2, <1>3, <1>11, <1>12, Zenon DEF k, t, q

-----------------------------------------------------------------------------
(* The steps.                                                              *)

LEMMA NewsSeq ==
  ASSUME NEW s \in Seq(Report)
  PROVE  /\ News(s) \in Seq(BOOLEAN) /\ Len(News(s)) = Len(s) /\ DOMAIN News(s) = 1 .. Len(s)
         /\ Len(s) \in Nat /\ DOMAIN s = 1 .. Len(s)
         /\ \A i \in 1 .. Len(s) : News(s)[i] = s[i].up
  <1> DEFINE l == Len(s)
             t == News(s)
  <1>1. l \in Nat /\ DOMAIN s = 1 .. l
    BY LenProperties, Zenon
  <1>2. \A i \in 1 .. l : s[i].up \in BOOLEAN
    <2>1. \A i \in 1 .. l : s[i] \in Report
      BY <1>1, ElementOfSeq, Zenon
    <2> QED BY <2>1, Zenon DEF Report
  <1>3. t = [i \in 1 .. l |-> s[i].up]
    BY <1>1, Zenon DEF News
  <1> HIDE DEF l, t
  <1>4. t \in [1 .. l -> BOOLEAN] /\ DOMAIN t = 1 .. l /\ \A i \in 1 .. l : t[i] = s[i].up
    BY <1>2, <1>3, Zenon
  <1>5. t \in Seq(BOOLEAN) /\ Len(t) = l
    BY <1>1, <1>4, SeqDef, LenProperties
  <1> QED BY <1>1, <1>4, <1>5, Zenon DEF l, t

\* A report that is taken is news, at the end.
LEMMA NewsAppend ==
  ASSUME NEW s \in Seq(Report), NEW r \in Report
  PROVE  News(Append(s, r)) = Append(News(s), r.up)
  <1> DEFINE l == Len(s)
             a == Append(s, r)
             t == News(a)
             u == Append(News(s), r.up)
  <1>1. /\ a \in Seq(Report) /\ Len(a) = l + 1 /\ l \in Nat
        /\ \A i \in 1 .. l : a[i] = s[i]
        /\ a[l + 1] = r
    BY AppendProperties, LenProperties
  <1>2. News(s) \in Seq(BOOLEAN) /\ Len(News(s)) = l /\ \A i \in 1 .. l : News(s)[i] = s[i].up
    BY NewsSeq, Zenon
  <1>3. r.up \in BOOLEAN
    BY Zenon DEF Report
  <1> HIDE DEF l, a
  <1>4. t \in Seq(BOOLEAN) /\ Len(t) = l + 1 /\ \A i \in 1 .. l + 1 : t[i] = a[i].up
    BY <1>1, NewsSeq, Zenon
  <1>5. /\ u \in Seq(BOOLEAN) /\ Len(u) = l + 1
        /\ \A i \in 1 .. l : u[i] = News(s)[i]
        /\ u[l + 1] = r.up
    BY <1>2, <1>3, AppendProperties
  <1> HIDE DEF t, u
  <1>6. \A i \in 1 .. l + 1 : t[i] = u[i]
    <2> SUFFICES ASSUME NEW i \in 1 .. l + 1 PROVE t[i] = u[i]
      BY Zenon
    <2>1. CASE i \in 1 .. l
      BY <1>1, <1>2, <1>4, <1>5, <2>1, Zenon
    <2>2. CASE i = l + 1
      BY <1>1, <1>4, <1>5, <2>2, Zenon
    <2> QED BY <1>1, <2>1, <2>2
  <1>7. t = u
    BY <1>4, <1>5, <1>6, SeqEqual, Zenon
  <1> QED BY <1>7, Zenon DEF t, u, a

\* One that has run is none any more.
LEMMA NewsWithout ==
  ASSUME NEW s \in Seq(Report), NEW i \in DOMAIN s
  PROVE  News(Without(s, i)) = User!Without(News(s), i)
  <1> DEFINE l == Len(s)
             w == Without(s, i)
  <1>1. /\ l \in Nat /\ DOMAIN s = 1 .. l /\ Len(News(s)) = l
        /\ \A j \in 1 .. l : News(s)[j] = s[j].up
    BY NewsSeq, Zenon
  <1>2. w = [j \in 1 .. l - 1 |-> IF j < i THEN s[j] ELSE s[j + 1]]
    BY Zenon DEF Without
  <1> HIDE DEF l, w
  <1>3. News(w) = [j \in 1 .. l - 1 |-> w[j].up]
    BY <1>2, Zenon DEF News
  <1>4. User!Without(News(s), i) =
          [j \in 1 .. l - 1 |-> IF j < i THEN News(s)[j] ELSE News(s)[j + 1]]
    BY <1>1, Zenon DEF User!Without
  <1>5. ASSUME NEW j \in 1 .. l - 1
        PROVE  w[j].up = IF j < i THEN News(s)[j] ELSE News(s)[j + 1]
    <2>1. j \in 1 .. l /\ j + 1 \in 1 .. l
      BY <1>1
    <2>2. w[j] = IF j < i THEN s[j] ELSE s[j + 1]
      BY <1>2, Zenon
    <2> QED BY <1>1, <2>1, <2>2, Zenon
  <1>6. News(w) = User!Without(News(s), i)
    BY <1>3, <1>4, <1>5, Zenon
  <1> QED BY <1>6, Zenon DEF w

\* What the user sees at the end of a critical section, and what is due then.
LEMMA FinishSeen ==
  ASSUME Inv, NEW rx \in BOOLEAN, NEW d, Keeps(c, d), Finish(rx, d)
  PROVE  /\ d \in Session /\ QueueOK(d) /\ Advances(c, d)
         /\ c'.state = d.state /\ c' \in Session
         /\ Queued(c') = Queued(d) /\ c'.va = d.va /\ outstanding(c') = outstanding(d)
         /\ appUp' = appUp
         /\ \/ Stays(c, d) /\ News(due') = News(due)
            \/ d.state = "Disconnected" /\ News(due') = Append(News(due), FALSE)
            \/ /\ c.state = "AwaitingConnection" /\ d.state = "Connected"
               /\ News(due') = Append(News(due), TRUE)
  <1>1. d \in Session /\ QueueOK(d) /\ Advances(c, d) /\ Told(c, d)
    BY Zenon DEF Keeps, Sound
  <1>2. c' = [d EXCEPT !.pendingActions = << >>] /\ appUp' = appUp
    BY Zenon DEF Finish
  <1>3. c'.state = d.state /\ SameQueue(d, c')
    BY <1>1, <1>2, Zenon DEF Session, SameQueue
  <1>4. c' \in Session
    BY FinishKeeps, Zenon DEF Sound
  <1>5. Queued(c') = Queued(d) /\ c'.va = d.va /\ outstanding(c') = outstanding(d)
    BY <1>3, SameSeen, Zenon
  <1> DEFINE acts == d.pendingActions
  <1>6. CASE Silent(acts) /\ UNCHANGED <<due, crossed>>
    <2>1. Stays(c, d)
      BY <1>1, <1>6, Zenon DEF Told, Ends, Begins, Silent
    <2> QED BY <1>1, <1>2, <1>3, <1>4, <1>5, <1>6, <2>1, Zenon
  <1>7. ASSUME NEW i \in DOMAIN acts, acts[i].cb \in {"OnConnect", "OnDisconnect"},
               Take([rx |-> rx, up |-> acts[i].cb = "OnConnect"])
        PROVE  \/ d.state = "Disconnected" /\ News(due') = Append(News(due), FALSE)
               \/ /\ c.state = "AwaitingConnection" /\ d.state = "Connected"
                  /\ News(due') = Append(News(due), TRUE)
    <2> DEFINE up == acts[i].cb = "OnConnect"
               r == [rx |-> rx, up |-> up]
    <2>1. r \in Report /\ r.up = up /\ due \in Seq(Report) /\ due' = Append(due, r)
      BY <1>7, Zenon DEF Report, Take, Inv, TypeOK
    <2>2. \/ d.state = "Disconnected" /\ up = FALSE
          \/ c.state = "AwaitingConnection" /\ d.state = "Connected" /\ up = TRUE
      BY <1>1, <1>7, Zenon DEF Told, Ends, Begins, Silent
    <2> HIDE DEF r, up
    <2>3. News(due') = Append(News(due), up)
      BY <2>1, NewsAppend, Zenon
    <2> QED BY <2>2, <2>3, Zenon
  <1>8. \/ Silent(acts) /\ UNCHANGED <<due, crossed>>
        \/ \E i \in DOMAIN acts :
              /\ acts[i].cb \in {"OnConnect", "OnDisconnect"}
              /\ Take([rx |-> rx, up |-> acts[i].cb = "OnConnect"])
    BY Zenon DEF Finish
  <1> HIDE DEF acts
  <1> QED BY <1>1, <1>2, <1>3, <1>4, <1>5, <1>6, <1>7, <1>8, Zenon

\* What holds before it.
LEMMA InvSeen ==
  ASSUME Inv
  PROVE  /\ c \in Session /\ QueueOK(c) /\ Sound(c) /\ Silent(c.pendingActions)
         /\ c.state \in ConnState /\ due \in Seq(Report)
         /\ accepting.on \in BOOLEAN /\ accepting.pf \in BOOLEAN
  <1>1. c \in Session /\ QueueOK(c) /\ Sound(c)
    BY Zenon DEF Inv, Sound
  <1>2. Silent(c.pendingActions)
    BY EmptySilent, Zenon DEF Inv, TypeOK
  <1>3. c.state \in ConnState
    BY <1>1, Zenon DEF Session
  <1>4. due \in Seq(Report) /\ accepting.on \in BOOLEAN /\ accepting.pf \in BOOLEAN
    BY Zenon DEF Inv, TypeOK
  <1> QED BY <1>1, <1>2, <1>3, <1>4, Zenon

ServiceStep == User!Next \/ UNCHANGED User!serviceVars

\* A critical section that serves is a step of Service, or none.
LEMMA FinishServes ==
  ASSUME Inv, NEW rx \in BOOLEAN, NEW d, Keeps(c, d), Serves(c, d), Finish(rx, d)
  PROVE  ServiceStep
  <1>1. /\ d \in Session /\ QueueOK(d) /\ Advances(c, d)
        /\ c'.state = d.state /\ c' \in Session
        /\ Queued(c') = Queued(d) /\ c'.va = d.va /\ outstanding(c') = outstanding(d)
        /\ appUp' = appUp
        /\ \/ Stays(c, d) /\ News(due') = News(due)
           \/ d.state = "Disconnected" /\ News(due') = Append(News(due), FALSE)
           \/ /\ c.state = "AwaitingConnection" /\ d.state = "Connected"
              /\ News(due') = Append(News(due), TRUE)
    BY FinishSeen, Zenon
  <1>2. c \in Session /\ QueueOK(c) /\ c.state \in ConnState
    BY InvSeen, Zenon
  <1>3. Status(c') = Status(d)
    BY <1>1, Zenon DEF Status
  <1>4. ASSUME d.state = "Disconnected", SameQueue(c, d), News(due') = Append(News(due), FALSE)
        PROVE  ServiceStep
    <2>1. Status(d) = "down"
      BY <1>4, StatusValues, Zenon
    <2>2. Queued(d) = Queued(c) /\ d.va = c.va /\ outstanding(d) = outstanding(c)
      BY <1>4, SameSeen, Zenon
    <2>3. User!Down
      BY <1>1, <1>3, <1>4, <2>1, <2>2, Zenon DEF User!Down
    <2> QED BY <2>3, Zenon DEF ServiceStep, User!Next
  <1>5. ASSUME d.state = c.state, SameQueue(c, d), News(due') = News(due)
        PROVE  ServiceStep
    <2>1. Queued(d) = Queued(c) /\ d.va = c.va /\ outstanding(d) = outstanding(c)
      BY <1>5, SameSeen, Zenon
    <2>2. Status(d) = Status(c)
      BY <1>5, Zenon DEF Status
    <2> QED BY <1>1, <1>3, <1>5, <2>1, <2>2, Zenon DEF ServiceStep, User!serviceVars
  <1>6. CASE d.state = "Disconnected" /\ SameQueue(c, d)
    BY <1>1, <1>4, <1>5, <1>6, Zenon DEF Stays
  <1>7. CASE Up(c) /\ Up(d) /\ Fresh(d)
    <2>1. Status(d) = "up" /\ Status(c) = "up" /\ News(due') = News(due)
      BY <1>1, <1>7, StatusValues, Zenon DEF Up
    <2>2. Queued(d) = << >> /\ d.va = 0 /\ outstanding(d) = 0
      BY <1>1, <1>7, FreshSeen, Zenon
    <2>3. User!Reset
      BY <1>1, <1>3, <2>1, <2>2, Zenon DEF User!Reset, User!Anew
    <2> QED BY <2>3, Zenon DEF ServiceStep, User!Next
  <1>8. CASE Up(c) /\ Up(d) /\ Exactly(c, d) /\ ~Fresh(d)
    <2> DEFINE k == mod8(d.va - c.va)
    <2>1. Status(d) = "up" /\ Status(c) = "up" /\ News(due') = News(due)
      BY <1>1, <1>8, StatusValues, Zenon DEF Up
    <2>2. /\ k \in 0 .. 7 /\ k <= outstanding(c)
          /\ Queued(d) = SubSeq(Queued(c), k + 1, Len(Queued(c)))
          /\ d.va = (c.va + k) % 8
          /\ outstanding(d) \in 0 .. Len(Queued(d))
      BY <1>1, <1>2, <1>8, AckSeen, Zenon
    <2> HIDE DEF k
    <2>3. User!Ack(k)
      BY <1>1, <1>3, <2>1, <2>2, Zenon DEF User!Ack
    <2> QED BY <2>2, <2>3, Zenon DEF ServiceStep, User!Next
  <1>9. CASE c.state = "AwaitingConnection" /\ d.state = "Connected" /\ Fresh(d)
    <2>1. Up(d) /\ ~Up(c)
      BY <1>9, Zenon DEF Up
    <2>2. Status(d) = "up" /\ Status(c) = "calling" /\ News(due') = Append(News(due), TRUE)
      BY <1>1, <1>9, <2>1, StatusValues, Zenon DEF Stays
    <2>3. Queued(d) = << >> /\ d.va = 0 /\ outstanding(d) = 0
      BY <1>1, <1>9, FreshSeen, Zenon
    <2>4. User!Up
      BY <1>1, <1>3, <2>2, <2>3, Zenon DEF User!Up, User!Anew
    <2> QED BY <2>4, Zenon DEF ServiceStep, User!Next
  <1>10. CASE d.state = c.state /\ SameQueue(c, d)
    BY <1>1, <1>4, <1>5, <1>10, Zenon
  <1> QED BY <1>6, <1>7, <1>8, <1>9, <1>10, Zenon DEF Serves

\* The user calls, leaves and sends.
LEMMA ConnectStep ==
  ASSUME Inv, NEW p \in Peers, AppConnect(p) PROVE ServiceStep
  <1> DEFINE d == Connect(c, p)
  <1>1. /\ c \in Session /\ Sound(c) /\ Silent(c.pendingActions)
    BY InvSeen, Zenon
  <1>2. c.state = "Disconnected" /\ Finish(FALSE, d)
    BY Zenon DEF AppConnect, CanConnect
  <1>3. Keeps(c, d)
    BY <1>1, <1>2, ConnectKeeps, Zenon DEF CanConnect
  <1>4. d.state = "AwaitingConnection" /\ Fresh(d)
    BY <1>1, ConnectServes, Zenon
  <1> HIDE DEF d
  <1>5. /\ d \in Session /\ c'.state = d.state
        /\ Queued(c') = Queued(d) /\ c'.va = d.va /\ outstanding(c') = outstanding(d)
        /\ appUp' = appUp /\ News(due') = News(due)
    BY <1>2, <1>3, <1>4, FinishSeen, Zenon
  <1>6. Queued(d) = << >> /\ d.va = 0 /\ outstanding(d) = 0
    BY <1>4, <1>5, FreshSeen, Zenon
  <1>7. Status(c) = "down" /\ Status(c') = "calling"
    BY <1>2, <1>4, <1>5, StatusValues, Zenon
  <1>8. User!Call
    BY <1>5, <1>6, <1>7, Zenon DEF User!Call, User!Anew
  <1> QED BY <1>8, Zenon DEF ServiceStep, User!Next

LEMMA ShutdownStep ==
  ASSUME Inv, AppShutdown PROVE ServiceStep
  <1> DEFINE d == Shutdown(c)
  <1>1. c \in Session /\ Sound(c) /\ Silent(c.pendingActions) /\ c.state \in ConnState
    BY InvSeen, Zenon
  <1>2. c.state # "Disconnected" /\ Finish(FALSE, d)
    BY Zenon DEF AppShutdown, CanShutdown
  <1>3. Keeps(c, d)
    BY <1>1, <1>2, ShutdownKeeps, Zenon DEF CanShutdown
  <1>4. d.state = "AwaitingRelease" /\ SameQueue(c, d)
    BY <1>1, ShutdownServes, Zenon
  <1> HIDE DEF d
  <1>5. /\ c'.state = d.state
        /\ Queued(c') = Queued(d) /\ c'.va = d.va /\ outstanding(c') = outstanding(d)
        /\ appUp' = appUp /\ News(due') = News(due)
    BY <1>2, <1>3, <1>4, FinishSeen, Zenon
  <1>6. Queued(d) = Queued(c) /\ d.va = c.va /\ outstanding(d) = outstanding(c)
    BY <1>4, SameSeen, Zenon
  <1>7. Status(c) # "down"
    <2>1. CASE Up(c)
      BY <2>1, StatusValues, Zenon
    <2>2. CASE c.state \in {"AwaitingConnection", "AwaitingRelease"}
      BY <2>2, StatusValues, Zenon
    <2> QED BY <1>1, <1>2, <2>1, <2>2, Zenon DEF ConnState, Up
  <1>8. Status(c') = "leaving"
    BY <1>4, <1>5, StatusValues, Zenon
  <1>9. User!Leave
    BY <1>4, <1>5, <1>6, <1>7, <1>8, Zenon DEF User!Leave
  <1> QED BY <1>9, Zenon DEF ServiceStep, User!Next

LEMMA SendDataStep ==
  ASSUME Inv, NEW p \in Payload, AppSendData(p) PROVE ServiceStep
  <1> DEFINE d == SendData(c, p)
             l == Len(c.txQueue)
             q == Queued(c)
  <1>1. c \in Session /\ Sound(c) /\ Silent(c.pendingActions)
    BY InvSeen, Zenon
  <1>2. CanSend(c) /\ Finish(FALSE, d)
    BY Zenon DEF AppSendData
  <1>3. Keeps(c, d)
    BY <1>1, <1>2, SendDataKeeps, Zenon
  <1>4. /\ d.state = c.state /\ d.va = c.va /\ Len(d.txQueue) = l + 1
        /\ \A i \in 1 .. l : d.txQueue[i].data = c.txQueue[i].data
        /\ d.txQueue[l + 1].data = p
    BY <1>1, <1>2, SendDataServes, Zenon
  <1> HIDE DEF d
  <1>5. /\ d \in Session /\ QueueOK(d) /\ c'.state = d.state
        /\ Queued(c') = Queued(d) /\ c'.va = d.va /\ outstanding(c') = outstanding(d)
        /\ appUp' = appUp /\ News(due') = News(due)
    <2>1. d.state \in {"Connected", "TimerRecovery"} /\ c.state \in {"Connected", "TimerRecovery"}
      BY <1>2, <1>4, Zenon DEF CanSend, Up
    <2> QED BY <1>2, <1>3, <2>1, FinishSeen, Zenon
  <1>6. Up(c) /\ Up(d) /\ l < Window
    BY <1>2, <1>4, Zenon DEF CanSend, Up
  <1>7. Status(c) = "up" /\ Status(c') = "up"
    <2>1. Up(c')
      BY <1>5, <1>6, Zenon DEF Up
    <2> QED BY <1>1, <1>5, <1>6, <2>1, StatusValues, Zenon
  <1>8. /\ q \in Seq(Payload) /\ l \in Nat /\ Len(q) = l
        /\ \A i \in 1 .. l : q[i] = c.txQueue[i].data
    BY <1>1, QueuedSeq, Zenon
  <1>9. /\ Queued(d) \in Seq(Payload) /\ Len(Queued(d)) = l + 1
        /\ \A i \in 1 .. l + 1 : Queued(d)[i] = d.txQueue[i].data
    <2>1. /\ Queued(d) \in Seq(Payload) /\ Len(Queued(d)) = Len(d.txQueue)
          /\ \A i \in 1 .. Len(d.txQueue) : Queued(d)[i] = d.txQueue[i].data
      BY <1>5, QueuedSeq, Zenon
    <2> QED BY <1>4, <2>1, Zenon
  <1>10. outstanding(d) \in 0 .. Len(Queued(d))
    <2>1. outstanding(d) \in 0 .. 7 /\ outstanding(d) <= Len(d.txQueue)
      BY <1>5, OutstandingType, Zenon DEF QueueOK, SeqNo
    <2> QED BY <1>4, <1>8, <1>9, <2>1
  <1> HIDE DEF l, q
  <1>11. Queued(d) = Append(q, p)
    <2> DEFINE t == Append(q, p)
    <2>1. /\ t \in Seq(Payload) /\ Len(t) = l + 1
          /\ \A i \in 1 .. l : t[i] = q[i]
          /\ t[l + 1] = p
      BY <1>8, AppendProperties
    <2> HIDE DEF t
    <2>2. \A i \in 1 .. l + 1 : Queued(d)[i] = t[i]
      <3> SUFFICES ASSUME NEW i \in 1 .. l + 1 PROVE Queued(d)[i] = t[i]
        BY Zenon
      <3>1. CASE i \in 1 .. l
        BY <1>4, <1>8, <1>9, <2>1, <3>1, Zenon
      <3>2. CASE i = l + 1
        BY <1>4, <1>8, <1>9, <2>1, <3>2, Zenon
      <3> QED BY <1>8, <3>1, <3>2
    <2>3. Queued(d) = t
      BY <1>9, <2>1, <2>2, SeqEqual, Zenon
    <2> QED BY <2>3, Zenon DEF t
  <1>12. Len(q) < Window
    BY <1>6, <1>8, Zenon
  <1>13. User!Send(p)
    BY <1>4, <1>5, <1>7, <1>10, <1>11, <1>12, Zenon DEF User!Send, q
  <1> QED BY <1>13, Zenon DEF ServiceStep, User!Next

LEMMA CloseStep ==
  ASSUME Inv, AppClose PROVE ServiceStep
  <1>1. c \in Session
    BY InvSeen, Zenon
  <1>2. c'.state = "Disconnected" /\ SameQueue(c, c') /\ appUp' = FALSE /\ due' = due
    BY <1>1, CloseServes, Zenon DEF AppClose
  <1>3. Queued(c') = Queued(c) /\ c'.va = c.va /\ outstanding(c') = outstanding(c)
    BY <1>2, SameSeen, Zenon
  <1>4. Status(c') = "down"
    BY <1>2, StatusValues, Zenon
  <1>5. User!Close
    BY <1>2, <1>3, <1>4, Zenon DEF User!Close
  <1> QED BY <1>5, Zenon DEF ServiceStep, User!Next

\* SABM from outside brings the session up while OnConnect runs.
LEMMA AcceptStep ==
  ASSUME Inv, NEW f \in Frames, RxSABM(f) PROVE ServiceStep
  <1>0. f \in Frame /\ f.peer \in Peers
    BY StationAssumption, Zenon
  <1>1. c \in Session /\ Sound(c) /\ due \in Seq(Report)
    BY InvSeen, Zenon
  <1> DEFINE r == [rx |-> TRUE, up |-> TRUE]
  <1>2. /\ c.state = "Disconnected" /\ c' = beginAccept(c, f)
        /\ appUp' = appUp /\ due' = Append(due, r)
    BY Zenon DEF RxSABM, Accepts, Take
  <1>3. c'.state = "Connected" /\ Fresh(c') /\ c' \in Session
    BY <1>0, <1>1, <1>2, BeginAcceptServes, BeginAcceptKeeps, Zenon DEF Sound
  <1>4. Queued(c') = << >> /\ c'.va = 0 /\ outstanding(c') = 0
    BY <1>3, FreshSeen, Zenon
  <1>5. Status(c) = "down" /\ Status(c') = "up"
    BY <1>2, <1>3, StatusValues, Zenon DEF Up
  <1>6. News(due') = Append(News(due), TRUE)
    <2>1. r \in Report /\ r.up = TRUE
      BY Zenon DEF Report
    <2> HIDE DEF r
    <2>2. News(due') = Append(News(due), r.up)
      BY <1>1, <1>2, <2>1, NewsAppend, Zenon
    <2> QED BY <2>1, <2>2, Zenon
  <1>7. User!Up
    BY <1>2, <1>4, <1>5, <1>6, Zenon DEF User!Up, User!Anew
  <1> QED BY <1>7, Zenon DEF ServiceStep, User!Next

\* Refuse and the timers that fire are not seen.
LEMMA HiddenStep ==
  ASSUME Inv, AppRefuse \/ T1Fire \/ T2Fire \/ T3Fire PROVE ServiceStep
  <1>1. c \in Session
    BY InvSeen, Zenon
  <1>2. c'.state = c.state /\ SameQueue(c, c') /\ appUp' = appUp /\ due' = due
    <2>1. CASE AppRefuse
      BY <1>1, <2>1, Zenon DEF AppRefuse, Refuse, Session, SameQueue
    <2>2. CASE T1Fire
      BY <1>1, <2>2, Zenon DEF T1Fire, T1Fires, Session, SameQueue
    <2>3. CASE T2Fire
      BY <1>1, <2>3, Zenon DEF T2Fire, T2Fires, Session, SameQueue
    <2>4. CASE T3Fire
      BY <1>1, <2>4, Zenon DEF T3Fire, T3Fires, Session, SameQueue
    <2> QED BY <2>1, <2>2, <2>3, <2>4, Zenon
  <1>3. Queued(c') = Queued(c) /\ c'.va = c.va /\ outstanding(c') = outstanding(c)
    BY <1>2, SameSeen, Zenon
  <1>4. Status(c') = Status(c)
    BY <1>2, Zenon DEF Status
  <1> QED BY <1>2, <1>3, <1>4, Zenon DEF ServiceStep, User!serviceVars

\* A report runs.
LEMMA HearStep ==
  ASSUME Inv, NEW i \in DOMAIN due, Hear(i) PROVE ServiceStep
  <1>1. due \in Seq(Report)
    BY InvSeen, Zenon
  <1>2. c' = c /\ appUp' = due[i].up /\ due' = Without(due, i)
    BY Zenon DEF Hear
  <1>3. i \in DOMAIN News(due) /\ News(due)[i] = due[i].up
    BY <1>1, NewsSeq, Zenon
  <1>4. News(due') = User!Without(News(due), i)
    BY <1>1, <1>2, NewsWithout, Zenon
  <1>5. User!Hear(i)
    BY <1>2, <1>3, <1>4, Zenon DEF User!Hear
  <1> QED BY <1>3, <1>5, Zenon DEF ServiceStep, User!Next

\* Every step of Station is a step of Service, or none.
LEMMA NextServes ==
  ASSUME Inv, [Next]_vars PROVE ServiceStep
  <1>0. Sound(c) /\ Silent(c.pendingActions) /\ c \in Session /\ accepting.pf \in BOOLEAN
    BY InvSeen, Zenon
  <1>1. ASSUME NEW p \in Peers, AppConnect(p) PROVE ServiceStep
    BY <1>1, ConnectStep, Zenon
  <1>2. ASSUME AppShutdown PROVE ServiceStep
    BY <1>2, ShutdownStep, Zenon
  <1>3. ASSUME NEW d \in Payload, AppSendData(d) PROVE ServiceStep
    BY <1>3, SendDataStep, Zenon
  <1>4. ASSUME NEW v \in BOOLEAN, AppSetBusy(v) PROVE ServiceStep
    BY <1>0, <1>4, SetBusyKeeps, SetBusyServes, FinishServes, Zenon DEF AppSetBusy
  <1>5. ASSUME AppClose PROVE ServiceStep
    BY <1>5, CloseStep, Zenon
  <1>6. ASSUME NEW f \in Frames, RxFrame(f) PROVE ServiceStep
    <2>1. f \in Frame /\ f.peer \in Peers
      BY StationAssumption, Zenon
    <2>2. Keeps(c, OnFrame(c, f)) /\ Serves(c, OnFrame(c, f))
      BY <1>0, <2>1, OnFrameKeeps, OnFrameServes, Zenon
    <2> QED BY <1>6, <2>2, FinishServes, Zenon DEF RxFrame
  <1>7. ASSUME NEW f \in Frames, RxSABM(f) PROVE ServiceStep
    BY <1>7, AcceptStep, Zenon
  <1>8. ASSUME RxReply PROVE ServiceStep
    <2>1. Keeps(c, endAccept(c, accepting.pf)) /\ Serves(c, endAccept(c, accepting.pf))
      BY <1>0, EndAcceptKeeps, EndAcceptServes, Zenon
    <2> QED BY <1>8, <2>1, FinishServes, Zenon DEF RxReply
  <1>9. ASSUME AppRefuse \/ T1Fire \/ T2Fire \/ T3Fire PROVE ServiceStep
    BY <1>9, HiddenStep, Zenon
  <1>10. ASSUME T1Expired PROVE ServiceStep
    BY <1>0, <1>10, T1ExpiredKeeps, T1ExpiredServes, FinishServes, Zenon DEF T1Expired
  <1>11. ASSUME T2Expired PROVE ServiceStep
    BY <1>0, <1>11, T2ExpiredKeeps, T2ExpiredServes, FinishServes, Zenon DEF T2Expired
  <1>12. ASSUME T3Expired PROVE ServiceStep
    BY <1>0, <1>12, T3ExpiredKeeps, T3ExpiredServes, FinishServes, Zenon DEF T3Expired
  <1>13. ASSUME NEW i \in DOMAIN due, Hear(i) PROVE ServiceStep
    BY <1>13, HearStep, Zenon
  <1>14. ASSUME UNCHANGED vars PROVE ServiceStep
    <2>1. c' = c /\ appUp' = appUp /\ due' = due
      BY <1>14, Zenon DEF vars
    <2> QED BY <2>1, Zenon DEF ServiceStep, User!serviceVars
  <1> QED BY <1>1, <1>2, <1>3, <1>4, <1>5, <1>6, <1>7, <1>8, <1>9, <1>10, Zenon,
             <1>11, <1>12, <1>13, <1>14 DEF Next

LEMMA InitServes == Init => User!Init
  <1> SUFFICES ASSUME Init PROVE User!Init
    BY Zenon
  <1>1. c.state = "Disconnected" /\ Fresh(c) /\ appUp = FALSE /\ due = << >>
    BY Zenon DEF Init, NewConn, Fresh
  <1>2. c \in Session
    BY InitInv, InvSeen, Zenon
  <1>3. Queued(c) = << >> /\ c.va = 0 /\ outstanding(c) = 0
    BY <1>1, <1>2, FreshSeen, Zenon
  <1>4. Status(c) = "down"
    BY <1>1, StatusValues, Zenon
  <1>5. News(due) = << >>
    <2>1. due \in Seq(Report) /\ Len(due) = 0
      BY <1>1
    <2>2. News(due) \in Seq(BOOLEAN) /\ Len(News(due)) = 0
      BY <2>1, NewsSeq, Zenon
    <2> QED BY <2>2
  <1> QED BY <1>1, <1>3, <1>4, <1>5, Zenon DEF User!Init

\* conn.go implements Service: whatever frames arrive, whenever the timers fire
\* and whatever the application calls, a payload leaves the queue only from the
\* front, sent and acknowledged, or when the numbering starts over, and every
\* change between up and down that is not the application's own Close is
\* reported once; reports due at the same time may run in any order.
THEOREM Implements == Spec => KeepsPromise
  <1>1. Inv /\ [Next]_vars => [User!Next]_(User!serviceVars)
    BY NextServes, Zenon DEF ServiceStep
  <1> QED BY <1>1, InitServes, Invariance, PTL DEF Spec, KeepsPromise, User!Spec
=============================================================================
