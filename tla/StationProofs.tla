--------------------------- MODULE StationProofs ---------------------------
(***************************************************************************)
(* Theorems about Station for every window, retry limit, set of payloads,  *)
(* of peers and of frames.  A lemma per method of Conn shows that it keeps *)
(* what holds of a session (Sound, Watched), what the application is told  *)
(* (Told) and the order of the queue (Advances); the theorems put them     *)
(* together.                                                               *)
(***************************************************************************)
EXTENDS Station, ConnProofs

\* What holds of a session between two critical sections.
Sound(d) == /\ d \in Session
            /\ QueueOK(d)
            /\ d.t1Active => T1Due(d)
            /\ d.state \in {"AwaitingConnection", "AwaitingRelease"} => T1Due(d)

\* A Connected session that is not being accepted has T1 or T3 to come.
Watched(d) == d.state = "Connected" => T1Due(d) \/ T3Due(d)

\* The session ends, or begins, with the callback that says so; or nothing is
\* said, and it neither comes up nor goes down.
Down(d) == d.state \in {"Disconnected", "AwaitingConnection"}
Ends(d) == /\ d.state = "Disconnected"
           /\ \E i \in DOMAIN d.pendingActions : d.pendingActions[i].cb = "OnDisconnect"
           /\ \A i \in DOMAIN d.pendingActions : d.pendingActions[i].cb # "OnConnect"
Begins(d) == /\ d.state = "Connected"
             /\ \E i \in DOMAIN d.pendingActions : d.pendingActions[i].cb = "OnConnect"
             /\ \A i \in DOMAIN d.pendingActions : d.pendingActions[i].cb # "OnDisconnect"
Stays(b, d) == /\ Up(d) => Up(b)
               /\ Down(d) => Down(b)
               /\ d.state = "Disconnected" => b.state = "Disconnected"
Told(b, d) == \/ Ends(d)
              \/ Begins(d) /\ b.state = "AwaitingConnection"
              \/ Silent(d.pendingActions) /\ Stays(b, d)

Keeps(b, d) == /\ Sound(d)
               /\ Watched(b) => Watched(d)
               /\ Told(b, d)
               /\ Advances(b, d)

-----------------------------------------------------------------------------
(* What the primitives leave alone.                                        *)

SameQueue(b, d) == d.vs = b.vs /\ d.va = b.va /\ d.txQueue = b.txQueue
SameT1(b, d) == d.t1Active = b.t1Active /\ d.t1Timer = b.t1Timer /\ d.t1Late = b.t1Late
SameT3(b, d) == d.t3Timer = b.t3Timer /\ d.t3Late = b.t3Late

\* d differs from b in nothing the invariants look at, and says nothing of a
\* connect or disconnect.
Quietly(b, d) == /\ d \in Session
                 /\ d.state = b.state /\ SameQueue(b, d) /\ SameT1(b, d) /\ SameT3(b, d)
                 /\ Silent(b.pendingActions) => Silent(d.pendingActions)

LEMMA SameQueueOK == ASSUME NEW b, NEW d, SameQueue(b, d), QueueOK(b) PROVE QueueOK(d)
  BY Zenon DEF SameQueue, QueueOK, outstanding

LEMMA EmptyQueueOK ==
  ASSUME NEW d, d.vs = 0, d.va = 0, d.txQueue = << >>
  PROVE  QueueOK(d)
  BY WindowRange DEF QueueOK, outstanding, mod8

LEMMA SameQueueAdvances ==
  ASSUME NEW b \in Session, NEW d, SameQueue(b, d)
  PROVE  Advances(b, d)
  <1>1. b.va \in 0 .. 7 /\ outstanding(b) \in 0 .. 7 /\ Len(b.txQueue) \in Nat
    BY OutstandingType DEF Session, SeqNo
  <1>2. mod8(d.va - b.va) = 0
    BY <1>1 DEF SameQueue, mod8
  <1>3. /\ mod8(d.va - b.va) <= outstanding(b)
        /\ Len(b.txQueue) - mod8(d.va - b.va) = Len(b.txQueue)
    BY <1>1, <1>2
  <1>4. \A i \in 1 .. Len(b.txQueue) : i + mod8(d.va - b.va) = i
    BY <1>1, <1>2
  <1> QED BY <1>1, <1>3, <1>4 DEF SameQueue, Advances

LEMMA QuietlyTrans ==
  ASSUME NEW a, NEW b, NEW d, Quietly(a, b), Quietly(b, d)
  PROVE  Quietly(a, d)
  BY Zenon DEF Quietly, SameQueue, SameT1, SameT3

\* A quiet operation keeps everything.
LEMMA QuietlyKeeps ==
  ASSUME NEW b, Sound(b), Silent(b.pendingActions), NEW d, Quietly(b, d)
  PROVE  Keeps(b, d)
  <1>1. Sound(d)
    BY SameQueueOK, Zenon DEF Quietly, Sound, SameT1, T1Due
  <1>2. Watched(b) => Watched(d)
    BY Zenon DEF Quietly, SameT1, SameT3, Watched, T1Due, T3Due
  <1>3. Told(b, d)
    BY Zenon DEF Quietly, Told, Stays, Up, Down
  <1>4. Advances(b, d)
    BY SameQueueAdvances, Zenon DEF Quietly, Sound
  <1> QED BY <1>1, <1>2, <1>3, <1>4, Zenon DEF Keeps

LEMMA EnqueueQuietly ==
  ASSUME NEW b \in Session, NEW a \in Callback, a.cb \notin {"OnConnect", "OnDisconnect"}
  PROVE  Quietly(b, enqueueAction(b, a))
  <1> DEFINE d == enqueueAction(b, a)
  <1>1. d \in Session
    BY EnqueueType, Zenon
  <1>2. b.pendingActions \in Seq(Callback) /\ d.pendingActions = Append(b.pendingActions, a)
    BY Zenon DEF enqueueAction, Session
  <1>3. Silent(b.pendingActions) => Silent(d.pendingActions)
    BY <1>2, AppendSilent, Zenon
  <1>4. d.state = b.state /\ SameQueue(b, d) /\ SameT1(b, d) /\ SameT3(b, d)
    BY Zenon DEF enqueueAction, Session, SameQueue, SameT1, SameT3
  <1> QED BY <1>1, <1>3, <1>4, Zenon DEF Quietly

LEMMA SendQuietly ==
  ASSUME NEW b \in Session, NEW pf \in BOOLEAN
  PROVE  /\ \A k \in UKind : Quietly(b, sendU(b, k, pf))
         /\ \A k \in SKind : Quietly(b, sendS(b, k, pf))
         /\ Quietly(b, sendAck(b, pf))
         /\ Quietly(b, fireError(b))
         /\ Quietly(b, enqueueAction(b, Notify("OnLinkReset")))
  <1>1. ASSUME NEW k \in UKind PROVE Quietly(b, sendU(b, k, pf))
    <2>1. UFrame(b, k, pf) \in Frame
      BY ZeroType, Zenon DEF UFrame, Frame, Session, Payload
    <2>2. OnTxFrame(UFrame(b, k, pf)) \in Callback /\ OnTxFrame(UFrame(b, k, pf)).cb = "OnTxFrame"
      BY <2>1, Zenon DEF OnTxFrame, Callback
    <2> QED BY <2>2, EnqueueQuietly, Zenon DEF sendU
  <1>2. ASSUME NEW k \in SKind PROVE Quietly(b, sendS(b, k, pf))
    <2>1. SFrame(b, k, pf) \in Frame
      BY ZeroType, Zenon DEF SFrame, UFrame, Frame, Session, Payload
    <2>2. OnTxFrame(SFrame(b, k, pf)) \in Callback /\ OnTxFrame(SFrame(b, k, pf)).cb = "OnTxFrame"
      BY <2>1, Zenon DEF OnTxFrame, Callback
    <2> QED BY <2>2, EnqueueQuietly, Zenon DEF sendS
  <1>3. Quietly(b, sendAck(b, pf))
    BY <1>2, Zenon DEF sendAck, SKind
  <1>4. ASSUME NEW n \in {"OnLinkReset", "OnError"} PROVE Quietly(b, enqueueAction(b, Notify(n)))
    <2>1. Notify(n) \in Callback /\ Notify(n).cb = n
      BY Zenon DEF Notify, Callback
    <2> QED BY <2>1, EnqueueQuietly, Zenon
  <1> QED BY <1>1, <1>2, <1>3, <1>4, Zenon DEF fireError

-----------------------------------------------------------------------------
(* Timers and the end of a session.                                        *)

LEMMA T1Effects ==
  ASSUME NEW b \in Session
  PROVE  /\ LET d == startT1(b)
            IN  /\ d \in Session /\ d.state = b.state /\ SameQueue(b, d) /\ SameT3(b, d)
                /\ d.t1Active /\ d.t1Timer /\ d.t1Late = b.t1Late
                /\ d.pendingActions = b.pendingActions
         /\ LET d == stopT1(b)
            IN  /\ d \in Session /\ d.state = b.state /\ SameQueue(b, d) /\ SameT3(b, d)
                /\ ~d.t1Active /\ ~d.t1Timer /\ d.t1Late = b.t1Late
                /\ d.pendingActions = b.pendingActions
  <1>1. startT1(b) \in Session /\ stopT1(b) \in Session
    BY TimerTypes, Zenon
  <1> QED BY <1>1, Zenon DEF startT1, stopT1, Session, SameQueue, SameT3

LEMMA T3Effects ==
  ASSUME NEW b \in Session
  PROVE  LET d == startT3(b)
         IN  /\ d \in Session /\ d.state = b.state /\ SameQueue(b, d) /\ SameT1(b, d)
             /\ d.t3Timer /\ d.t3Late = b.t3Late
             /\ d.pendingActions = b.pendingActions
  <1>1. startT3(b) \in Session
    BY TimerTypes, Zenon
  <1> QED BY <1>1, Zenon DEF startT3, Session, SameQueue, SameT1

LEMMA T2Quietly ==
  ASSUME NEW b \in Session
  PROVE  Quietly(b, startT2(b)) /\ Quietly(b, stopT2(b))
  <1>1. startT2(b) \in Session /\ stopT2(b) \in Session
    BY TimerTypes, Zenon
  <1>2. Quietly(b, startT2(b))
    BY <1>1 DEF startT2, Session, Quietly, SameQueue, SameT1, SameT3
  <1>3. Quietly(b, stopT2(b))
    BY <1>1, Zenon DEF stopT2, Session, Quietly, SameQueue, SameT1, SameT3
  <1> QED BY <1>2, <1>3, Zenon

LEMMA StopAllEffects ==
  ASSUME NEW b \in Session
  PROVE  LET d == stopAllTimers(b)
         IN  /\ d \in Session /\ d.state = b.state /\ SameQueue(b, d)
             /\ ~d.t1Active /\ d.t1Late = b.t1Late
             /\ d.pendingActions = b.pendingActions
  <1>1. stopAllTimers(b) \in Session
    BY StopAllType, Zenon
  <1> QED BY <1>1, Zenon DEF stopAllTimers, stopT1, stopT2, stopT3, Session, SameQueue

LEMMA StateEffects ==
  ASSUME NEW b \in Session, NEW s \in ConnState
  PROVE  LET d == [b EXCEPT !.state = s]
         IN  /\ d \in Session /\ d.state = s /\ SameQueue(b, d)
             /\ SameT1(b, d) /\ SameT3(b, d)
             /\ d.pendingActions = b.pendingActions
  <1>1. [b EXCEPT !.state = s] \in Session
    BY StateType, Zenon
  <1> QED BY <1>1, Zenon DEF Session, SameQueue, SameT1, SameT3

\* enterDisconnected, after steps that left the queue of b alone.
LEMMA EnterDisconnectedKeeps ==
  ASSUME NEW b \in Session, QueueOK(b), NEW e \in Session, SameQueue(b, e),
         Silent(e.pendingActions)
  PROVE  Keeps(b, enterDisconnected(e))
  <1> DEFINE f == stopAllTimers(e)
             g == [f EXCEPT !.state = "Disconnected"]
             a == Notify("OnDisconnect")
             d == enqueueAction(g, a)
  <1>1. d = enterDisconnected(e)
    BY Zenon DEF enterDisconnected
  <1>2. /\ f \in Session /\ SameQueue(e, f) /\ ~f.t1Active
        /\ f.pendingActions = e.pendingActions
    BY StopAllEffects, Zenon
  <1> HIDE DEF f
  <1>3. /\ g \in Session /\ g.state = "Disconnected" /\ SameQueue(f, g) /\ SameT1(f, g)
        /\ g.pendingActions = f.pendingActions
    BY <1>2, StateEffects, Zenon DEF ConnState
  <1> HIDE DEF g
  <1>4. a \in Callback /\ a.cb = "OnDisconnect"
    BY Zenon DEF Notify, Callback
  <1> HIDE DEF a
  <1>5. d \in Session
    BY <1>3, <1>4, EnqueueType, Zenon
  <1>6. /\ d.state = g.state /\ SameQueue(g, d) /\ d.t1Active = g.t1Active
        /\ d.pendingActions = Append(g.pendingActions, a)
    BY <1>3, Zenon DEF enqueueAction, Session, SameQueue
  <1>7. Ends(d)
    <2>1. g.pendingActions \in Seq(Callback) /\ Silent(g.pendingActions)
      BY <1>2, <1>3, Zenon DEF Session
    <2> DEFINE l == Len(g.pendingActions)
    <2>2. /\ DOMAIN g.pendingActions = 1 .. l /\ DOMAIN d.pendingActions = 1 .. l + 1
          /\ \A i \in 1 .. l + 1 :
               d.pendingActions[i] = IF i <= l THEN g.pendingActions[i] ELSE a
      BY <1>4, <1>6, <2>1, AppendEntries
    <2>3. l \in Nat
      BY <2>1
    <2> HIDE DEF l
    <2>4. l + 1 \in DOMAIN d.pendingActions /\ d.pendingActions[l + 1] = a
      BY <2>2, <2>3
    <2>5. \A i \in DOMAIN d.pendingActions : d.pendingActions[i].cb # "OnConnect"
      BY <1>4, <2>1, <2>2, <2>3 DEF Silent
    <2>6. d.state = "Disconnected"
      BY <1>3, <1>6, Zenon
    <2> QED BY <1>4, <2>4, <2>5, <2>6, Zenon DEF Ends
  <1>8. SameQueue(b, d)
    BY <1>2, <1>3, <1>6, Zenon DEF SameQueue
  <1>9. Sound(d) /\ Watched(d)
    <2>1. QueueOK(d)
      BY <1>8, SameQueueOK, Zenon
    <2>2. ~d.t1Active /\ d.state = "Disconnected"
      BY <1>2, <1>3, <1>6, Zenon DEF SameT1
    <2> QED BY <1>5, <2>1, <2>2, Zenon DEF Sound, Watched
  <1> HIDE DEF d
  <1> QED BY <1>1, <1>7, <1>8, <1>9, SameQueueAdvances, Zenon DEF Keeps, Told

\* The N(R) error path and the end of the retries.
LEMMA NRErrorKeeps ==
  ASSUME NEW b \in Session, QueueOK(b), NEW e \in Session, SameQueue(b, e),
         Silent(e.pendingActions)
  PROVE  Keeps(b, startNRErrorRecovery(e))
  <1> DEFINE f == fireError(e)
             g == sendU(f, "DM", TRUE)
  <1>1. Quietly(e, f)
    BY SendQuietly, Zenon
  <1>2. f \in Session
    BY <1>1, Zenon DEF Quietly
  <1> HIDE DEF f
  <1>3. Quietly(f, g)
    BY <1>2, SendQuietly, Zenon DEF UKind
  <1> HIDE DEF g
  <1>4. g \in Session /\ SameQueue(b, g) /\ Silent(g.pendingActions)
    BY <1>1, <1>3, Zenon DEF Quietly, SameQueue
  <1>5. Keeps(b, enterDisconnected(g))
    BY <1>4, EnterDisconnectedKeeps, Zenon
  <1> QED BY <1>5, Zenon DEF startNRErrorRecovery, f, g

-----------------------------------------------------------------------------
(* Public methods.                                                         *)

LEMMA ResetEffects ==
  ASSUME NEW b \in Session
  PROVE  LET d == resetStateVars(b)
         IN  /\ d \in Session /\ d.state = b.state
             /\ d.vs = 0 /\ d.va = 0 /\ d.txQueue = << >>
             /\ SameT1(b, d) /\ SameT3(b, d)
             /\ d.pendingActions = b.pendingActions
  <1>1. resetStateVars(b) \in Session
    BY ResetType, Zenon
  <1> QED BY <1>1, Zenon DEF resetStateVars, Session, SameT1, SameT3

LEMMA ConnectKeeps ==
  ASSUME NEW b, Sound(b), Silent(b.pendingActions), CanConnect(b), NEW p \in Peers
  PROVE  Keeps(b, Connect(b, p))
  <1> DEFINE r == [b EXCEPT !.remote = p]
             z == resetStateVars(r)
             y == [z EXCEPT !.state = "AwaitingConnection", !.retryCount = 0]
             x == startT1(y)
             d == sendU(x, "SABM", TRUE)
  <1>1. r \in Session /\ r.pendingActions = b.pendingActions
    BY Zenon DEF Sound, Session
  <1> HIDE DEF r
  <1>2. /\ z \in Session /\ z.vs = 0 /\ z.va = 0 /\ z.txQueue = << >>
        /\ z.pendingActions = r.pendingActions
    BY <1>1, ResetEffects, Zenon
  <1> HIDE DEF z
  <1>3. /\ y \in Session /\ y.state = "AwaitingConnection" /\ SameQueue(z, y)
        /\ y.pendingActions = z.pendingActions
    BY <1>2, Zenon DEF Session, ConnState, SameQueue
  <1> HIDE DEF y
  <1>4. /\ x \in Session /\ x.state = y.state /\ SameQueue(y, x) /\ x.t1Timer
        /\ x.pendingActions = y.pendingActions
    BY <1>3, T1Effects, Zenon
  <1> HIDE DEF x
  <1>5. Quietly(x, d)
    BY <1>4, SendQuietly, Zenon DEF UKind
  <1>6. d = Connect(b, p)
    BY Zenon DEF Connect, r, x, y, z
  <1> HIDE DEF d
  <1>7. /\ d \in Session /\ d.state = "AwaitingConnection" /\ d.t1Timer
        /\ d.vs = 0 /\ d.va = 0 /\ d.txQueue = << >>
        /\ Silent(d.pendingActions)
    BY <1>1, <1>2, <1>3, <1>4, <1>5, Zenon DEF Quietly, SameQueue, SameT1
  <1>8. Sound(d) /\ Watched(d)
    BY <1>7, EmptyQueueOK, Zenon DEF Sound, Watched, T1Due
  <1>9. Told(b, d)
    BY <1>7, Zenon DEF Told, Stays, Up, Down, CanConnect
  <1> QED BY <1>6, <1>7, <1>8, <1>9, Zenon DEF Keeps, Advances

LEMMA ShutdownKeeps ==
  ASSUME NEW b, Sound(b), Silent(b.pendingActions)
  PROVE  Keeps(b, Shutdown(b))
  <1> DEFINE z == stopAllTimers(b)
             y == [z EXCEPT !.state = "AwaitingRelease", !.retryCount = 0]
             x == startT1(y)
             d == sendU(x, "DISC", TRUE)
  <1>1. z \in Session /\ SameQueue(b, z) /\ z.pendingActions = b.pendingActions
    BY StopAllEffects, Zenon DEF Sound
  <1> HIDE DEF z
  <1>2. /\ y \in Session /\ y.state = "AwaitingRelease" /\ SameQueue(z, y)
        /\ y.pendingActions = z.pendingActions
    BY <1>1, Zenon DEF Session, ConnState, SameQueue
  <1> HIDE DEF y
  <1>3. /\ x \in Session /\ x.state = y.state /\ SameQueue(y, x) /\ x.t1Timer
        /\ x.pendingActions = y.pendingActions
    BY <1>2, T1Effects, Zenon
  <1> HIDE DEF x
  <1>4. Quietly(x, d)
    BY <1>3, SendQuietly, Zenon DEF UKind
  <1>5. d = Shutdown(b)
    BY Zenon DEF Shutdown, x, y, z
  <1> HIDE DEF d
  <1>6. /\ d \in Session /\ d.state = "AwaitingRelease" /\ d.t1Timer /\ SameQueue(b, d)
        /\ Silent(d.pendingActions)
    BY <1>1, <1>2, <1>3, <1>4, Zenon DEF Quietly, SameQueue, SameT1
  <1>7. Sound(d) /\ Watched(d)
    BY <1>6, SameQueueOK, Zenon DEF Sound, Watched, T1Due
  <1>8. Told(b, d)
    BY <1>6, Zenon DEF Told, Stays, Up, Down
  <1>9. Advances(b, d)
    BY <1>6, SameQueueAdvances, Zenon DEF Sound
  <1> QED BY <1>5, <1>7, <1>8, <1>9, Zenon DEF Keeps

\* sendPendingIFrames keeps what the timers and the application are owed.
LEMMA SendPendingKeeps ==
  ASSUME NEW e \in Session, QueueOK(e), Silent(e.pendingActions),
         e.t1Active => T1Due(e),
         e.state \in {"AwaitingConnection", "AwaitingRelease"} => T1Due(e)
  PROVE  LET d == sendPendingIFrames(e)
         IN  /\ Sound(d) /\ Silent(d.pendingActions)
             /\ T1Due(e) => T1Due(d)
             /\ Watched(e) => Watched(d)
  <1> DEFINE d == sendPendingIFrames(e)
  <1>1. /\ d \in Session /\ QueueOK(d)
        /\ d.state = e.state /\ d.t1Late = e.t1Late
        /\ d.t3Timer = e.t3Timer /\ d.t3Late = e.t3Late
        /\ Silent(d.pendingActions)
        /\ \/ d.t1Active /\ d.t1Timer
           \/ d.t1Active = e.t1Active /\ d.t1Timer = e.t1Timer
    BY SendPending, Zenon
  <1> HIDE DEF d
  <1>2. T1Due(e) => T1Due(d)
    BY <1>1, Zenon DEF T1Due
  <1>3. d.t1Active => T1Due(d)
    BY <1>1, <1>2, Zenon DEF T1Due
  <1>4. Watched(e) => Watched(d)
    BY <1>1, <1>2, Zenon DEF Watched, T3Due
  <1>5. Sound(d)
    BY <1>1, <1>2, <1>3, Zenon DEF Sound
  <1> QED BY <1>1, <1>2, <1>4, <1>5, Zenon DEF d

LEMMA AppendKeepsQueue ==
  ASSUME NEW b \in Session, QueueOK(b), Len(b.txQueue) < Window, NEW x \in PendingFrame,
         ~x.transmitted
  PROVE  LET e == [b EXCEPT !.txQueue = Append(@, x)]
         IN  /\ e \in Session /\ QueueOK(e) /\ e.state = b.state /\ e.va = b.va
             /\ SameT1(b, e) /\ SameT3(b, e)
             /\ e.pendingActions = b.pendingActions
             /\ Len(e.txQueue) = Len(b.txQueue) + 1
             /\ \A i \in 1 .. Len(b.txQueue) : e.txQueue[i].data = b.txQueue[i].data
  <1> DEFINE q == b.txQueue
             t == Append(q, x)
             e == [b EXCEPT !.txQueue = t]
             l == Len(q)
             o == outstanding(b)
  <1>1. q \in Seq(PendingFrame) /\ l \in Nat /\ Window \in Int /\ o \in 0 .. 7
    BY WindowRange, OutstandingType DEF Session, SeqNo
  <1>2. t \in Seq(PendingFrame) /\ Len(t) = l + 1
    BY <1>1
  <1>3. \A i \in 1 .. l + 1 : t[i] = IF i <= l THEN q[i] ELSE x
    BY <1>1, AppendEntries
  <1> HIDE DEF t
  <1>4. /\ e \in Session /\ e.state = b.state /\ e.va = b.va /\ e.vs = b.vs
        /\ SameT1(b, e) /\ SameT3(b, e)
        /\ e.pendingActions = b.pendingActions /\ e.txQueue = t
    BY <1>2, Zenon DEF Session, SameT1, SameT3
  <1>5. outstanding(e) = o
    BY <1>4, Zenon DEF outstanding
  <1>6. /\ o <= l /\ l < Window
        /\ \A i \in 1 .. l : /\ q[i].transmitted <=> i <= o
                             /\ i <= o => q[i].ns = mod8(b.va + i - 1)
    BY Zenon DEF QueueOK
  <1> HIDE DEF e, l, o, q
  <1>7. /\ o <= l + 1 /\ l + 1 <= Window
        /\ \A i \in 1 .. l + 1 : /\ t[i].transmitted <=> i <= o
                                 /\ i <= o => t[i].ns = mod8(b.va + i - 1)
    BY <1>1, <1>3, <1>6
  <1>8. QueueOK(e)
    BY <1>2, <1>4, <1>5, <1>7, Zenon DEF QueueOK
  <1>9. \A i \in 1 .. l : t[i].data = q[i].data
    BY <1>1, <1>3
  <1> QED BY <1>2, <1>4, <1>8, <1>9, Zenon DEF e, t, l, q

LEMMA SendDataKeeps ==
  ASSUME NEW b, Sound(b), Silent(b.pendingActions), CanSend(b), NEW p \in Payload
  PROVE  Keeps(b, SendData(b, p))
  <1> DEFINE x == [data |-> p, ns |-> 0, transmitted |-> FALSE]
             e == [b EXCEPT !.txQueue = Append(@, x)]
             d == sendPendingIFrames(e)
             l == Len(b.txQueue)
  <1>1. x \in PendingFrame /\ ~x.transmitted
    BY ZeroType, Zenon DEF PendingFrame
  <1> HIDE DEF x
  <1>2. b \in Session /\ QueueOK(b) /\ l < Window
    BY Zenon DEF Sound, CanSend
  <1>3. /\ e \in Session /\ QueueOK(e) /\ e.state = b.state /\ e.va = b.va
        /\ SameT1(b, e) /\ SameT3(b, e)
        /\ e.pendingActions = b.pendingActions
        /\ Len(e.txQueue) = l + 1
        /\ \A i \in 1 .. l : e.txQueue[i].data = b.txQueue[i].data
    BY <1>1, <1>2, AppendKeepsQueue, Zenon
  <1> HIDE DEF e
  <1>4. /\ e.t1Active => T1Due(e)
        /\ e.state \in {"AwaitingConnection", "AwaitingRelease"} => T1Due(e)
        /\ Watched(b) => Watched(e)
    BY <1>3, Zenon DEF Sound, T1Due, T3Due, SameT1, SameT3, Watched
  <1>5. Sound(d) /\ Silent(d.pendingActions) /\ (Watched(e) => Watched(d))
    BY <1>3, <1>4, SendPendingKeeps, Zenon
  <1>6. /\ d.state = e.state /\ d.va = e.va /\ Len(d.txQueue) = Len(e.txQueue)
        /\ \A i \in 1 .. Len(e.txQueue) : d.txQueue[i].data = e.txQueue[i].data
    BY <1>3, SendPending, Zenon
  <1>7. d = SendData(b, p)
    BY Zenon DEF SendData, e, x
  <1> HIDE DEF d
  <1>8. Told(b, d)
    BY <1>3, <1>5, <1>6, Zenon DEF Told, Stays, Up, Down
  <1>9. Advances(b, d)
    <2>1. b.va \in 0 .. 7 /\ outstanding(b) \in 0 .. 7 /\ l \in Nat
      BY <1>2, OutstandingType DEF Session, SeqNo
    <2> HIDE DEF l
    <2>2. mod8(d.va - b.va) = 0
      BY <1>3, <1>6, <2>1 DEF mod8
    <2>3. /\ mod8(d.va - b.va) <= outstanding(b)
          /\ l - mod8(d.va - b.va) = l /\ l <= Len(d.txQueue)
      BY <1>3, <1>6, <2>1, <2>2
    <2>4. \A i \in 1 .. l : i + mod8(d.va - b.va) = i
      BY <2>1, <2>2
    <2>5. \A i \in 1 .. l : d.txQueue[i].data = b.txQueue[i].data
      BY <1>3, <1>6, <2>1
    <2> QED BY <2>3, <2>4, <2>5, Zenon DEF Advances, l
  <1> QED BY <1>4, <1>5, <1>7, <1>8, <1>9, Zenon DEF Keeps

\* Fields no invariant looks at.
LEMMA FieldsQuietly ==
  ASSUME NEW b \in Session, NEW v \in BOOLEAN
  PROVE  /\ Quietly(b, [b EXCEPT !.localBusy = v])
         /\ Quietly(b, [b EXCEPT !.peerBusy = v])
         /\ Quietly(b, [b EXCEPT !.ackPending = v])
         /\ Quietly(b, [b EXCEPT !.rejSent = v])
         /\ Quietly(b, [b EXCEPT !.refusePending = v])
         /\ Quietly(b, [b EXCEPT !.t2Active = v])
  BY DEF Session, Quietly, SameQueue, SameT1, SameT3

LEMMA SetBusyKeeps ==
  ASSUME NEW b, Sound(b), Silent(b.pendingActions), NEW v \in BOOLEAN
  PROVE  Keeps(b, SetBusy(b, v))
  <1> DEFINE e == [b EXCEPT !.localBusy = v]
             f == [e EXCEPT !.ackPending = FALSE]
             g == stopT2(f)
  <1>1. b \in Session /\ Quietly(b, b)
    BY Zenon DEF Sound, Quietly, SameQueue, SameT1, SameT3
  <1>2. Quietly(b, e) /\ e \in Session
    BY <1>1, FieldsQuietly, Zenon DEF Quietly
  <1> HIDE DEF e
  <1>3. Quietly(e, f) /\ f \in Session
    BY <1>2, FieldsQuietly, Zenon DEF Quietly
  <1> HIDE DEF f
  <1>4. Quietly(f, g) /\ g \in Session
    BY <1>3, T2Quietly, Zenon DEF Quietly
  <1> HIDE DEF g
  <1>5. Quietly(g, sendS(g, "RNR", FALSE)) /\ Quietly(e, sendS(e, "RR", FALSE))
    BY <1>2, <1>4, SendQuietly, Zenon DEF SKind
  <1>6. Quietly(b, sendS(g, "RNR", FALSE)) /\ Quietly(b, sendS(e, "RR", FALSE))
    BY <1>2, <1>3, <1>4, <1>5, QuietlyTrans, Zenon
  <1>7. SetBusy(b, v) \in {b, e, sendS(g, "RNR", FALSE), sendS(e, "RR", FALSE)}
    BY Zenon DEF SetBusy, e, f, g
  <1>8. Quietly(b, SetBusy(b, v))
    BY <1>1, <1>2, <1>6, <1>7, Zenon
  <1> QED BY <1>8, QuietlyKeeps, Zenon

LEMMA RefuseKeeps ==
  ASSUME NEW b, Sound(b), Silent(b.pendingActions)
  PROVE  Keeps(b, Refuse(b)) /\ Refuse(b).state = b.state
  <1>1. Quietly(b, Refuse(b))
    BY FieldsQuietly, Zenon DEF Refuse, Sound
  <1> QED BY <1>1, QuietlyKeeps, Zenon DEF Quietly

\* Close drops the timers and tells nobody.
LEMMA CloseKeeps ==
  ASSUME NEW b, Sound(b)
  PROVE  /\ Sound(Close(b)) /\ Advances(b, Close(b))
         /\ Close(b).state = "Disconnected"
         /\ Close(b).pendingActions = b.pendingActions
  <1> DEFINE e == stopAllTimers(b)
             d == [e EXCEPT !.state = "Disconnected"]
  <1>1. /\ e \in Session /\ SameQueue(b, e) /\ ~e.t1Active
        /\ e.pendingActions = b.pendingActions
    BY StopAllEffects, Zenon DEF Sound
  <1> HIDE DEF e
  <1>2. /\ d \in Session /\ d.state = "Disconnected" /\ SameQueue(e, d) /\ SameT1(e, d)
        /\ d.pendingActions = e.pendingActions
    BY <1>1, StateEffects, Zenon DEF ConnState
  <1>3. d = Close(b)
    BY Zenon DEF Close, e
  <1> HIDE DEF d
  <1>4. SameQueue(b, d)
    BY <1>1, <1>2, Zenon DEF SameQueue
  <1>5. Advances(b, d)
    BY <1>4, SameQueueAdvances, Zenon DEF Sound
  <1>6. Sound(d)
    BY <1>1, <1>2, <1>4, SameQueueOK, Zenon DEF Sound, SameT1
  <1> QED BY <1>1, <1>2, <1>3, <1>5, <1>6, Zenon

-----------------------------------------------------------------------------
(* Frames received while Disconnected or waiting.                          *)

LEMMA BeginAcceptKeeps ==
  ASSUME NEW b, Sound(b), NEW f \in Frame, f.peer \in Peers
  PROVE  LET d == beginAccept(b, f)
         IN  /\ Sound(d) /\ Advances(b, d) /\ d.state = "Connected"
             /\ d.pendingActions = b.pendingActions
  <1> DEFINE r == [b EXCEPT !.remote = f.peer]
             z == resetStateVars(r)
             d == [z EXCEPT !.state = "Connected", !.refusePending = FALSE]
  <1>1. r \in Session /\ r.pendingActions = b.pendingActions /\ SameT1(b, r)
    BY Zenon DEF Sound, Session, SameT1
  <1> HIDE DEF r
  <1>2. /\ z \in Session /\ z.vs = 0 /\ z.va = 0 /\ z.txQueue = << >>
        /\ z.pendingActions = r.pendingActions /\ SameT1(r, z)
    BY <1>1, ResetEffects, Zenon
  <1> HIDE DEF z
  <1>3. /\ d \in Session /\ d.state = "Connected" /\ SameQueue(z, d) /\ SameT1(z, d)
        /\ d.pendingActions = z.pendingActions
    BY <1>2, Zenon DEF Session, ConnState, SameQueue, SameT1
  <1>4. d = beginAccept(b, f)
    BY Zenon DEF beginAccept, r, z
  <1> HIDE DEF d
  <1>5. d.vs = 0 /\ d.va = 0 /\ d.txQueue = << >>
    BY <1>2, <1>3, Zenon DEF SameQueue
  <1>6. d.t1Active => T1Due(d)
    BY <1>1, <1>2, <1>3, Zenon DEF Sound, T1Due, SameT1
  <1>7. Sound(d)
    BY <1>3, <1>5, <1>6, EmptyQueueOK, Zenon DEF Sound
  <1> QED BY <1>1, <1>2, <1>3, <1>4, <1>5, <1>7, Zenon DEF Advances

LEMMA EndAcceptKeeps ==
  ASSUME NEW b, Sound(b), Silent(b.pendingActions), NEW pf \in BOOLEAN
  PROVE  Keeps(b, endAccept(b, pf)) /\ Watched(endAccept(b, pf))
  <1>0. b \in Session /\ QueueOK(b)
    BY Zenon DEF Sound
  <1>1. CASE b.refusePending
    <2> DEFINE e == sendU(b, "DM", pf)
    <2>1. Quietly(b, e)
      BY <1>0, SendQuietly, Zenon DEF UKind
    <2> HIDE DEF e
    <2>2. e \in Session /\ SameQueue(b, e) /\ Silent(e.pendingActions)
      BY <2>1, Zenon DEF Quietly
    <2>3. Keeps(b, enterDisconnected(e)) /\ e \in Session
      BY <1>0, <2>2, EnterDisconnectedKeeps, Zenon
    <2>4. enterDisconnected(e).state = "Disconnected"
      BY <2>2, StopAllType, Zenon DEF enterDisconnected, enqueueAction, Session
    <2> QED BY <1>1, <2>3, <2>4, Zenon DEF endAccept, e, Watched
  <1>2. CASE ~b.refusePending
    <2> DEFINE e == sendU(b, "UA", pf)
               d == startT3(e)
    <2>1. Quietly(b, e) /\ e \in Session
      BY <1>0, SendQuietly, Zenon DEF UKind, Quietly
    <2> HIDE DEF e
    <2>2. /\ d \in Session /\ d.state = e.state /\ SameQueue(e, d) /\ SameT1(e, d)
          /\ d.t3Timer /\ d.pendingActions = e.pendingActions
      BY <2>1, T3Effects, Zenon
    <2>3. d = endAccept(b, pf)
      BY <1>2, Zenon DEF endAccept, e
    <2> HIDE DEF d
    <2>4. /\ d.state = b.state /\ SameQueue(b, d) /\ SameT1(b, d)
          /\ Silent(d.pendingActions)
      BY <2>1, <2>2, Zenon DEF Quietly, SameQueue, SameT1
    <2>5. Sound(d)
      BY <1>0, <2>2, <2>4, SameQueueOK, Zenon DEF Sound, SameT1, T1Due
    <2>6. Watched(d)
      BY <2>2, Zenon DEF Watched, T3Due
    <2>7. Told(b, d)
      BY <2>4, Zenon DEF Told, Stays, Up, Down
    <2>8. Advances(b, d)
      BY <1>0, <2>4, SameQueueAdvances, Zenon
    <2> QED BY <2>3, <2>5, <2>6, <2>7, <2>8, Zenon DEF Keeps
  <1> QED BY <1>1, <1>2, Zenon

LEMMA ReplyDMKeeps ==
  ASSUME NEW b, Sound(b), Silent(b.pendingActions), NEW f \in Frame, f.peer \in Peers
  PROVE  Keeps(b, replyDM(b, f))
  <1> DEFINE e == [b EXCEPT !.remote = f.peer]
  <1>1. b \in Session /\ f.pf \in BOOLEAN
    BY Zenon DEF Sound, Frame
  <1>2. Quietly(b, e) /\ e \in Session
    BY <1>1, Zenon DEF Session, Quietly, SameQueue, SameT1, SameT3
  <1>3. replyDM(b, f) = sendU(e, "DM", f.pf)
    BY Zenon DEF replyDM
  <1> HIDE DEF e
  <1>4. Quietly(e, sendU(e, "DM", f.pf))
    BY <1>1, <1>2, SendQuietly, Zenon DEF UKind
  <1>5. Quietly(b, replyDM(b, f))
    BY <1>2, <1>3, <1>4, QuietlyTrans, Zenon
  <1> QED BY <1>5, QuietlyKeeps, Zenon

LEMMA SameKeeps ==
  ASSUME NEW b, Sound(b), Silent(b.pendingActions)
  PROVE  Keeps(b, b)
  <1>1. Quietly(b, b)
    BY Zenon DEF Sound, Quietly, SameQueue, SameT1, SameT3
  <1> QED BY <1>1, QuietlyKeeps, Zenon

\* UA: the session starts with an empty queue, OnConnect and T3.
LEMMA ConnectedKeeps ==
  ASSUME NEW b, Sound(b), Silent(b.pendingActions), b.state = "AwaitingConnection",
         NEW f, f.kind = "UA"
  PROVE  Keeps(b, handleAwaitingConnection(b, f))
  <1> DEFINE s == stopT1(b)
             z == resetStateVars(s)
             y == [z EXCEPT !.state = "Connected"]
             a == OnConnect(b.remote)
             x == enqueueAction(y, a)
             w == startT3(x)
  <1>1. /\ s \in Session /\ ~s.t1Active /\ s.pendingActions = b.pendingActions
    BY T1Effects, Zenon DEF Sound
  <1> HIDE DEF s
  <1>2. /\ z \in Session /\ z.vs = 0 /\ z.va = 0 /\ z.txQueue = << >>
        /\ z.pendingActions = s.pendingActions /\ SameT1(s, z)
    BY <1>1, ResetEffects, Zenon
  <1> HIDE DEF z
  <1>3. /\ y \in Session /\ y.state = "Connected" /\ SameQueue(z, y) /\ SameT1(z, y)
        /\ y.pendingActions = z.pendingActions
    BY <1>2, StateEffects, Zenon DEF ConnState
  <1> HIDE DEF y
  <1>4. a \in Callback /\ a.cb = "OnConnect"
    BY Zenon DEF OnConnect, Callback, Sound, Session
  <1> HIDE DEF a
  <1>5. /\ x \in Session /\ x.state = y.state /\ SameQueue(y, x) /\ SameT1(y, x)
        /\ x.pendingActions = Append(y.pendingActions, a)
    <2>1. x \in Session
      BY <1>3, <1>4, EnqueueType, Zenon
    <2> QED BY <1>3, <2>1, Zenon DEF enqueueAction, Session, SameQueue, SameT1
  <1> HIDE DEF x
  <1>6. /\ w \in Session /\ w.state = x.state /\ SameQueue(x, w) /\ SameT1(x, w)
        /\ w.t3Timer /\ w.pendingActions = x.pendingActions
    BY <1>5, T3Effects, Zenon
  <1> HIDE DEF w
  <1>7. /\ w.state = "Connected" /\ w.vs = 0 /\ w.va = 0 /\ w.txQueue = << >>
        /\ ~w.t1Active
    BY <1>1, <1>2, <1>3, <1>5, <1>6, Zenon DEF SameQueue, SameT1
  <1>8. sendPendingIFrames(w) = w
    <2>1. Sendable(w) = {}
      BY <1>7 DEF Sendable, Idle
    <2>2. Cardinality(Sendable(w)) = 0
      BY <2>1, FS_EmptySet, Zenon
    <2> QED BY <2>2, Zenon DEF sendPendingIFrames
  <1>9. Begins(w)
    <2>1. y.pendingActions \in Seq(Callback) /\ Silent(y.pendingActions)
      BY <1>1, <1>2, <1>3, Zenon DEF Session
    <2> DEFINE l == Len(y.pendingActions)
    <2>2. /\ DOMAIN y.pendingActions = 1 .. l /\ DOMAIN w.pendingActions = 1 .. l + 1
          /\ \A i \in 1 .. l + 1 :
               w.pendingActions[i] = IF i <= l THEN y.pendingActions[i] ELSE a
      BY <1>4, <1>5, <1>6, <2>1, AppendEntries
    <2>3. l \in Nat
      BY <2>1
    <2> HIDE DEF l
    <2>4. l + 1 \in DOMAIN w.pendingActions /\ w.pendingActions[l + 1] = a
      BY <2>2, <2>3
    <2>5. \A i \in DOMAIN w.pendingActions : w.pendingActions[i].cb # "OnDisconnect"
      BY <1>4, <2>1, <2>2, <2>3 DEF Silent
    <2> QED BY <1>4, <1>7, <2>4, <2>5, Zenon DEF Begins
  <1>10. Sound(w) /\ Watched(w)
    BY <1>6, <1>7, EmptyQueueOK, Zenon DEF Sound, Watched, T3Due
  <1>11. handleAwaitingConnection(b, f) = w
    BY <1>8, Zenon DEF handleAwaitingConnection, s, z, y, a, x, w
  <1> QED BY <1>7, <1>9, <1>10, <1>11, Zenon DEF Keeps, Told, Advances

LEMMA HandleAwaitingConnectionKeeps ==
  ASSUME NEW b, Sound(b), Silent(b.pendingActions), b.state = "AwaitingConnection", NEW f
  PROVE  Keeps(b, handleAwaitingConnection(b, f))
  <1>1. CASE f.kind = "UA"
    BY <1>1, ConnectedKeeps, Zenon
  <1>2. CASE f.kind = "DM"
    <2> DEFINE s == stopT1(b)
               e == fireError(s)
    <2>1. /\ s \in Session /\ SameQueue(b, s) /\ s.pendingActions = b.pendingActions
      BY T1Effects, Zenon DEF Sound
    <2> HIDE DEF s
    <2>2. Quietly(s, e)
      BY <2>1, SendQuietly, Zenon
    <2> HIDE DEF e
    <2>3. e \in Session /\ SameQueue(b, e) /\ Silent(e.pendingActions)
      BY <2>1, <2>2, Zenon DEF Quietly, SameQueue
    <2>4. Keeps(b, enterDisconnected(e))
      BY <2>3, EnterDisconnectedKeeps, Zenon DEF Sound
    <2> QED BY <1>2, <2>4, Zenon DEF handleAwaitingConnection, e, s
  <1>3. CASE f.kind \notin {"UA", "DM"}
    BY <1>3, SameKeeps, Zenon DEF handleAwaitingConnection
  <1> QED BY <1>1, <1>2, <1>3, Zenon

LEMMA HandleAwaitingReleaseKeeps ==
  ASSUME NEW b, Sound(b), Silent(b.pendingActions), NEW f
  PROVE  Keeps(b, handleAwaitingRelease(b, f))
  <1>1. CASE f.kind \in {"UA", "DM"}
    <2> DEFINE s == stopT1(b)
    <2>1. /\ s \in Session /\ SameQueue(b, s) /\ s.pendingActions = b.pendingActions
      BY T1Effects, Zenon DEF Sound
    <2> HIDE DEF s
    <2>2. Keeps(b, enterDisconnected(s))
      BY <2>1, EnterDisconnectedKeeps, Zenon DEF Sound
    <2> QED BY <1>1, <2>2, Zenon DEF handleAwaitingRelease, s
  <1>2. CASE f.kind \notin {"UA", "DM"}
    BY <1>2, SameKeeps, Zenon DEF handleAwaitingRelease
  <1> QED BY <1>1, <1>2, Zenon

-----------------------------------------------------------------------------
(* U frames and the timers of an open session.                             *)

LEMMA HandleUFrameKeeps ==
  ASSUME NEW b, Sound(b), Silent(b.pendingActions), NEW f \in Frame
  PROVE  Keeps(b, handleUFrameConnected(b, f))
  <1>0. b \in Session /\ QueueOK(b) /\ f.pf \in BOOLEAN
    BY Zenon DEF Sound, Frame
  <1>1. CASE f.kind = "SABM"
    <2> DEFINE z == resetStateVars(b)
               y == sendU(z, "UA", f.pf)
               d == enqueueAction(y, Notify("OnLinkReset"))
    <2>1. /\ z \in Session /\ z.state = b.state
          /\ z.vs = 0 /\ z.va = 0 /\ z.txQueue = << >>
          /\ SameT1(b, z) /\ SameT3(b, z) /\ z.pendingActions = b.pendingActions
      BY <1>0, ResetEffects, Zenon
    <2> HIDE DEF z
    <2>2. Quietly(z, y) /\ y \in Session
      BY <1>0, <2>1, SendQuietly, Zenon DEF UKind, Quietly
    <2> HIDE DEF y
    <2>3. Quietly(y, d)
      BY <2>2, SendQuietly, Zenon
    <2>4. d = handleUFrameConnected(b, f)
      BY <1>1, Zenon DEF handleUFrameConnected, y, z
    <2> HIDE DEF d
    <2>5. /\ d \in Session /\ d.state = b.state
          /\ d.vs = 0 /\ d.va = 0 /\ d.txQueue = << >>
          /\ SameT1(b, d) /\ SameT3(b, d) /\ Silent(d.pendingActions)
      BY <2>1, <2>2, <2>3, Zenon DEF Quietly, SameQueue, SameT1, SameT3
    <2>6. Sound(d)
      BY <2>5, EmptyQueueOK, Zenon DEF Sound, SameT1, T1Due
    <2>7. Watched(b) => Watched(d)
      BY <2>5, Zenon DEF Watched, SameT1, SameT3, T1Due, T3Due
    <2>8. Told(b, d)
      BY <2>5, Zenon DEF Told, Stays, Up, Down
    <2> QED BY <2>4, <2>5, <2>6, <2>7, <2>8, Zenon DEF Keeps, Advances
  <1>2. CASE f.kind = "DISC"
    <2> DEFINE e == sendU(b, "UA", f.pf)
    <2>1. Quietly(b, e)
      BY <1>0, SendQuietly, Zenon DEF UKind
    <2> HIDE DEF e
    <2>2. Keeps(b, enterDisconnected(e))
      BY <1>0, <2>1, EnterDisconnectedKeeps, Zenon DEF Quietly
    <2> QED BY <1>2, <2>2, Zenon DEF handleUFrameConnected, e
  <1>3. CASE f.kind = "DM"
    <2> DEFINE e == fireError(b)
    <2>1. Quietly(b, e)
      BY <1>0, SendQuietly, Zenon
    <2> HIDE DEF e
    <2>2. Keeps(b, enterDisconnected(e))
      BY <1>0, <2>1, EnterDisconnectedKeeps, Zenon DEF Quietly
    <2> QED BY <1>3, <2>2, Zenon DEF handleUFrameConnected, e
  <1>4. CASE f.kind \notin {"SABM", "DISC", "DM"}
    BY <1>4, SameKeeps, Zenon DEF handleUFrameConnected
  <1> QED BY <1>1, <1>2, <1>3, <1>4, Zenon

-----------------------------------------------------------------------------
(* Acknowledgement and retransmission.                                     *)

LEMMA AdvancesThen ==
  ASSUME NEW b, NEW d, Advances(b, d), NEW e, SameQueue(d, e)
  PROVE  Advances(b, e)
  BY Zenon DEF Advances, SameQueue

LEMMA KeepsThen ==
  ASSUME NEW b, NEW d, Keeps(b, d), Silent(d.pendingActions), NEW e, Quietly(d, e)
  PROVE  Keeps(b, e) /\ Silent(e.pendingActions) /\ (Watched(d) => Watched(e))
  <1>1. Keeps(d, e)
    BY QuietlyKeeps, Zenon DEF Keeps
  <1>2. Sound(e) /\ (Watched(d) => Watched(e)) /\ Silent(e.pendingActions)
    BY <1>1, Zenon DEF Keeps, Quietly
  <1>3. Told(b, e)
    BY <1>2, Zenon DEF Keeps, Told, Stays, Ends, Begins, Silent, Up, Down, Quietly
  <1>4. Advances(b, e)
    BY AdvancesThen, Zenon DEF Keeps, Quietly
  <1> QED BY <1>2, <1>3, <1>4, Zenon DEF Keeps

LEMMA AckKeeps ==
  ASSUME NEW b, Sound(b), Silent(b.pendingActions), Up(b),
         NEW e, Quietly(b, e), NEW nr \in SeqNo, isValidNR(b, nr)
  PROVE  LET d == handleReceivedNR(e, nr)
         IN  /\ d \in Session /\ Keeps(b, d) /\ Watched(d) /\ Silent(d.pendingActions)
             /\ d.state = b.state /\ d.va = nr /\ d.vs = b.vs
             /\ d.peerBusy = e.peerBusy
             /\ nr = d.vs => d.t3Timer
  <1> DEFINE d == handleReceivedNR(e, nr)
             k == mod8(nr - e.va)
  <1>1. /\ e \in Session /\ QueueOK(e) /\ e.state = b.state /\ SameQueue(b, e)
        /\ SameT1(b, e) /\ Silent(e.pendingActions) /\ isValidNR(e, nr)
    BY SameQueueOK, Zenon DEF Quietly, Sound, SameQueue, isValidNR
  <1>2. /\ d \in Session /\ QueueOK(d)
        /\ d.state = e.state /\ d.vs = e.vs /\ d.va = nr /\ d.peerBusy = e.peerBusy
        /\ d.t1Late = e.t1Late
        /\ k \in 0 .. 7 /\ k <= outstanding(e)
        /\ Len(d.txQueue) = Len(e.txQueue) - k
        /\ \A i \in 1 .. Len(e.txQueue) - k : d.txQueue[i].data = e.txQueue[i + k].data
        /\ Silent(d.pendingActions)
        /\ nr = e.vs => d.t3Timer /\ ~d.t1Active
        /\ nr # e.vs => /\ d.t1Active
                        /\ d.t1Timer \/ (e.t1Active /\ d.t1Timer = e.t1Timer)
    <2>1. Acks(e, nr, d)
      BY <1>1, HandleNR, Zenon
    <2> HIDE DEF d
    <2> QED BY <1>1, <2>1, Zenon DEF Acks
  <1> HIDE DEF d, k
  <1>3. d.t1Active => T1Due(d)
    BY <1>1, <1>2, Zenon DEF Sound, T1Due, SameT1
  <1>4. Sound(d)
    BY <1>1, <1>2, <1>3, Zenon DEF Sound, Up
  <1>5. Watched(d)
    BY <1>2, <1>3, Zenon DEF Watched, T3Due
  <1>6. Told(b, d)
    BY <1>1, <1>2, Zenon DEF Told, Stays, Up, Down
  <1>7. Advances(b, d)
    <2>1. k = mod8(d.va - b.va) /\ outstanding(e) = outstanding(b) /\ b.txQueue = e.txQueue
      BY <1>1, <1>2, Zenon DEF SameQueue, outstanding, k
    <2>2. Len(b.txQueue) \in Nat /\ Len(d.txQueue) \in Nat
      BY <1>1, <1>2 DEF Session, SameQueue
    <2>3. Len(b.txQueue) - k <= Len(d.txQueue)
      BY <1>2, <2>1, <2>2
    <2> QED BY <1>2, <2>1, <2>3, Zenon DEF Advances
  <1> QED BY <1>1, <1>2, <1>4, <1>5, <1>6, <1>7, Zenon DEF Keeps, SameQueue, d

LEMMA RewindQueue ==
  ASSUME NEW e \in Session, QueueOK(e)
  PROVE  LET r == [e EXCEPT !.txQueue = [i \in DOMAIN @ |-> [@[i] EXCEPT !.transmitted = FALSE]],
                            !.vs = e.va]
         IN  /\ r \in Session /\ QueueOK(r) /\ outstanding(r) = 0
             /\ r.state = e.state /\ r.va = e.va /\ r.peerBusy = e.peerBusy
             /\ SameT1(e, r) /\ SameT3(e, r) /\ r.pendingActions = e.pendingActions
             /\ Len(r.txQueue) = Len(e.txQueue)
             /\ \A i \in 1 .. Len(e.txQueue) : r.txQueue[i].data = e.txQueue[i].data
  <1> DEFINE q == e.txQueue
             l == Len(q)
             m == [i \in DOMAIN q |-> [q[i] EXCEPT !.transmitted = FALSE]]
             r == [e EXCEPT !.txQueue = m, !.vs = e.va]
  <1>1. q \in Seq(PendingFrame) /\ l \in Nat /\ DOMAIN q = 1 .. l /\ e.va \in SeqNo
    BY DEF Session
  <1>2. \A i \in 1 .. l : q[i] \in PendingFrame
    BY <1>1
  <1>3. \A i \in 1 .. l : /\ m[i] \in PendingFrame /\ ~m[i].transmitted
                          /\ m[i].data = q[i].data
    <2> SUFFICES ASSUME NEW i \in 1 .. l
                 PROVE  m[i] \in PendingFrame /\ ~m[i].transmitted /\ m[i].data = q[i].data
      BY Zenon
    <2>1. q[i] \in PendingFrame /\ m[i] = [q[i] EXCEPT !.transmitted = FALSE]
      BY <1>1, <1>2, Zenon
    <2> HIDE DEF m
    <2> QED BY <2>1, Zenon DEF PendingFrame
  <1>4. DOMAIN m = 1 .. l /\ m = [i \in 1 .. l |-> m[i]]
    BY <1>1, Zenon
  <1> HIDE DEF m
  <1>5. m \in Seq(PendingFrame) /\ Len(m) = l
    <2>1. m \in [1 .. l -> PendingFrame]
      BY <1>3, <1>4, Zenon
    <2> QED BY <1>1, <1>4, <2>1, SeqDef, LenProperties
  <1>6. /\ r \in Session /\ r.state = e.state /\ r.va = e.va /\ r.vs = e.va
        /\ r.peerBusy = e.peerBusy /\ r.txQueue = m
        /\ SameT1(e, r) /\ SameT3(e, r) /\ r.pendingActions = e.pendingActions
    BY <1>1, <1>5, Zenon DEF Session, SameT1, SameT3
  <1>7. outstanding(r) = 0
    <2>1. e.va \in 0 .. 7
      BY <1>1, Zenon DEF SeqNo
    <2>2. mod8(e.va - e.va) = 0
      BY <2>1 DEF mod8
    <2> QED BY <1>6, <2>2, Zenon DEF outstanding
  <1> HIDE DEF r
  <1>8. QueueOK(r)
    <2>1. l <= Window
      BY Zenon DEF QueueOK
    <2> HIDE DEF l, q
    <2> QED BY <1>1, <1>3, <1>5, <1>6, <1>7, <2>1 DEF QueueOK
  <1> QED BY <1>3, <1>5, <1>6, <1>7, <1>8, Zenon DEF r, m

\* Go back to V(A) with T1 stopped: what was outstanding is sent again under
\* T1, and T3 runs when nothing was.
LEMMA RetransmitKeeps ==
  ASSUME NEW b \in Session, NEW e \in Session, QueueOK(e), Silent(e.pendingActions),
         e.state = "Connected", Up(b), ~e.peerBusy, ~e.t1Active, Advances(b, e),
         e.va = e.vs => e.t3Timer
  PROVE  LET d == retransmitFrom(e, e.va)
         IN  Keeps(b, d) /\ Silent(d.pendingActions) /\ Watched(d)
  <1> DEFINE r == [e EXCEPT !.txQueue = [i \in DOMAIN @ |-> [@[i] EXCEPT !.transmitted = FALSE]],
                            !.vs = e.va]
             d == sendPendingIFrames(r)
  <1>1. /\ r \in Session /\ QueueOK(r) /\ outstanding(r) = 0
        /\ r.state = e.state /\ r.va = e.va /\ r.peerBusy = e.peerBusy
        /\ SameT1(e, r) /\ SameT3(e, r) /\ r.pendingActions = e.pendingActions
        /\ Len(r.txQueue) = Len(e.txQueue)
        /\ \A i \in 1 .. Len(e.txQueue) : r.txQueue[i].data = e.txQueue[i].data
    BY RewindQueue, Zenon
  <1>2. d = retransmitFrom(e, e.va)
    BY Zenon DEF retransmitFrom
  <1> HIDE DEF r
  <1>3. Sound(d) /\ Silent(d.pendingActions)
    BY <1>1, SendPendingKeeps, Zenon DEF SameT1
  <1>4. /\ d.state = r.state /\ d.va = r.va /\ d.t3Timer = r.t3Timer
        /\ Len(d.txQueue) = Len(r.txQueue)
        /\ \A i \in 1 .. Len(r.txQueue) : d.txQueue[i].data = r.txQueue[i].data
        /\ ~r.peerBusy /\ outstanding(r) < Len(r.txQueue) => d.t1Active
    BY <1>1, SendPending, Zenon
  <1> HIDE DEF d
  <1>5. Watched(d)
    <2>1. CASE e.va = e.vs
      BY <1>1, <1>4, <2>1, Zenon DEF Watched, T3Due, SameT3
    <2>2. CASE e.va # e.vs
      <3>1. e.va \in 0 .. 7 /\ e.vs \in 0 .. 7 /\ Len(e.txQueue) \in Nat
        BY DEF Session, SeqNo
      <3>2. mod8(e.vs - e.va) > 0
        BY <2>2, <3>1 DEF mod8
      <3>3. outstanding(e) \in 0 .. 7 /\ outstanding(e) > 0 /\ outstanding(e) <= Len(e.txQueue)
        BY <3>2, OutstandingType, Zenon DEF outstanding, QueueOK, SeqNo
      <3>4. outstanding(r) < Len(r.txQueue)
        BY <1>1, <3>1, <3>3
      <3> QED BY <1>1, <1>3, <1>4, <3>4, Zenon DEF Sound, Watched
    <2> QED BY <2>1, <2>2, Zenon
  <1>6. Told(b, d)
    BY <1>1, <1>3, <1>4, Zenon DEF Told, Stays, Up, Down
  <1>7. Advances(b, d)
    <2>1. CASE e.txQueue = << >> /\ e.vs = 0 /\ e.va = 0
      <3>1. Len(d.txQueue) = 0 /\ d.va = 0 /\ d.txQueue \in Seq(PendingFrame)
        BY <1>1, <1>3, <1>4, <2>1, Zenon DEF Sound, Session
      <3>2. d.txQueue = << >>
        BY <3>1
      <3>3. d.vs = 0
        <4>1. outstanding(d) \in 0 .. 7 /\ outstanding(d) <= 0 /\ d.vs = mod8(d.va + outstanding(d))
          BY <1>3, <3>1, OutstandingType, Zenon DEF Sound, QueueOK, SeqNo
        <4> QED BY <3>1, <4>1 DEF mod8
      <3> QED BY <3>1, <3>2, <3>3, Zenon DEF Advances
    <2>2. CASE ~(e.txQueue = << >> /\ e.vs = 0 /\ e.va = 0)
      <3> DEFINE k == mod8(e.va - b.va)
                 kept == Len(b.txQueue) - k
      <3>1. /\ k <= outstanding(b) /\ kept <= Len(e.txQueue)
            /\ \A i \in 1 .. kept : e.txQueue[i].data = b.txQueue[i + k].data
        BY <2>2, Zenon DEF Advances
      <3>2. Len(e.txQueue) \in Nat /\ kept \in Int
        <4>1. /\ Len(e.txQueue) \in Nat /\ Len(b.txQueue) \in Nat
              /\ e.va \in SeqNo /\ b.va \in SeqNo
          BY DEF Session
        <4>2. k \in 0 .. 7
          BY <4>1 DEF mod8, SeqNo
        <4> QED BY <4>1, <4>2
      <3>3. d.va = e.va /\ Len(d.txQueue) = Len(e.txQueue)
        BY <1>1, <1>4, Zenon
      <3>4. \A i \in 1 .. Len(e.txQueue) : d.txQueue[i].data = e.txQueue[i].data
        BY <1>1, <1>4, Zenon
      <3> HIDE DEF kept
      <3>5. /\ kept <= Len(d.txQueue)
            /\ \A i \in 1 .. kept : d.txQueue[i].data = b.txQueue[i + k].data
        BY <3>1, <3>2, <3>3, <3>4
      <3> QED BY <3>1, <3>3, <3>5, Zenon DEF Advances, kept
    <2> QED BY <2>1, <2>2, Zenon
  <1> QED BY <1>2, <1>3, <1>5, <1>6, <1>7, Zenon DEF Keeps

-----------------------------------------------------------------------------
(* I and S frames.                                                         *)

LEMMA InSequenceQuietly ==
  ASSUME NEW b \in Session, NEW f \in Frame
  PROVE  Quietly(b, handleInSequence(b, f))
  <1> DEFINE e == [b EXCEPT !.vr = mod8(@ + 1), !.rejSent = FALSE]
             g == IF f.data = Empty THEN e ELSE enqueueAction(e, OnData(f.data))
             h == sendAck(g, TRUE)
             k == [g EXCEPT !.ackPending = TRUE]
  <1>1. Quietly(b, e) /\ e \in Session
    <2>1. b.vr \in SeqNo
      BY Zenon DEF Session
    <2>2. mod8(b.vr + 1) \in SeqNo
      BY <2>1, Mod8Type DEF SeqNo
    <2> QED BY <2>2, Zenon DEF Session, Quietly, SameQueue, SameT1, SameT3
  <1> HIDE DEF e
  <1>2. Quietly(e, g) /\ g \in Session
    <2>1. CASE f.data = Empty
      BY <1>1, <2>1, Zenon DEF Quietly, SameQueue, SameT1, SameT3
    <2>2. CASE f.data # Empty
      <3>1. f.data \in Data
        BY <2>2, Zenon DEF Frame, Payload
      <3>2. OnData(f.data) \in Callback /\ OnData(f.data).cb = "OnData"
        BY <3>1, Zenon DEF OnData, Callback
      <3>3. Quietly(e, enqueueAction(e, OnData(f.data)))
        BY <1>1, <3>2, EnqueueQuietly, Zenon
      <3> QED BY <2>2, <3>3, Zenon DEF Quietly
    <2> QED BY <2>1, <2>2, Zenon
  <1> HIDE DEF g
  <1>3. Quietly(g, h) /\ h \in Session
    BY <1>2, SendQuietly, Zenon DEF Quietly
  <1> HIDE DEF h
  <1>4. Quietly(h, [h EXCEPT !.ackPending = FALSE])
    BY <1>3, FieldsQuietly, Zenon
  <1>5. Quietly(g, k) /\ k \in Session
    BY <1>2, FieldsQuietly, Zenon DEF Quietly
  <1> HIDE DEF k
  <1>6. Quietly(k, startT2(k))
    BY <1>5, T2Quietly, Zenon
  <1>7. handleInSequence(b, f) = IF f.pf THEN [h EXCEPT !.ackPending = FALSE] ELSE startT2(k)
    BY Zenon DEF handleInSequence, e, g, h, k
  <1>8. Quietly(b, g)
    BY <1>1, <1>2, QuietlyTrans, Zenon
  <1>9. Quietly(b, [h EXCEPT !.ackPending = FALSE])
    BY <1>3, <1>4, <1>8, QuietlyTrans, Zenon
  <1>10. Quietly(b, startT2(k))
    BY <1>5, <1>6, <1>8, QuietlyTrans, Zenon
  <1> QED BY <1>7, <1>9, <1>10, Zenon

LEMMA OutOfSequenceQuietly ==
  ASSUME NEW b \in Session, NEW f \in Frame
  PROVE  Quietly(b, handleOutOfSequence(b, f))
  <1> DEFINE e == [b EXCEPT !.rejSent = TRUE]
  <1>1. f.pf \in BOOLEAN
    BY Zenon DEF Frame
  <1>2. Quietly(b, e) /\ e \in Session
    BY FieldsQuietly, Zenon DEF Quietly
  <1> HIDE DEF e
  <1>3. Quietly(e, sendS(e, "REJ", f.pf)) /\ Quietly(b, sendS(b, "RR", TRUE))
    BY <1>1, <1>2, SendQuietly, Zenon DEF SKind
  <1>4. Quietly(b, sendS(e, "REJ", f.pf))
    BY <1>2, <1>3, QuietlyTrans, Zenon
  <1>5. Quietly(b, b)
    BY Zenon DEF Quietly, SameQueue, SameT1, SameT3
  <1> QED BY <1>3, <1>4, <1>5, Zenon DEF handleOutOfSequence, e

LEMMA HandleIFrameKeeps ==
  ASSUME NEW b, Sound(b), Silent(b.pendingActions), Up(b), NEW f \in Frame
  PROVE  Keeps(b, handleIFrame(b, f))
  <1>0. b \in Session /\ QueueOK(b) /\ f.nr \in SeqNo
    BY Zenon DEF Sound, Frame
  <1>1. CASE b.localBusy
    <2>1. Quietly(b, sendS(b, "RNR", FALSE))
      BY <1>0, SendQuietly, Zenon DEF SKind
    <2> QED BY <1>1, <2>1, QuietlyKeeps, Zenon DEF handleIFrame
  <1>2. CASE ~b.localBusy /\ ~isValidNR(b, f.nr)
    <2>1. Keeps(b, startNRErrorRecovery(b))
      BY <1>0, NRErrorKeeps, Zenon DEF SameQueue
    <2> QED BY <1>2, <2>1, Zenon DEF handleIFrame
  <1>3. CASE ~b.localBusy /\ isValidNR(b, f.nr)
    <2> DEFINE d == handleReceivedNR(b, f.nr)
    <2>1. Quietly(b, b)
      BY <1>0, Zenon DEF Quietly, SameQueue, SameT1, SameT3
    <2>2. d \in Session /\ Keeps(b, d) /\ Silent(d.pendingActions)
      BY <1>0, <1>3, <2>1, AckKeeps, Zenon
    <2>3. handleIFrame(b, f) \in {handleInSequence(d, f), handleOutOfSequence(d, f)}
      BY <1>3, Zenon DEF handleIFrame
    <2> HIDE DEF d
    <2>4. Quietly(d, handleInSequence(d, f)) /\ Quietly(d, handleOutOfSequence(d, f))
      BY <2>2, InSequenceQuietly, OutOfSequenceQuietly, Zenon
    <2>5. Quietly(d, handleIFrame(b, f))
      BY <2>3, <2>4, Zenon
    <2> QED BY <2>2, <2>5, KeepsThen, Zenon
  <1> QED BY <1>1, <1>2, <1>3, Zenon

LEMMA HandleRRKeeps ==
  ASSUME NEW b, Sound(b), Silent(b.pendingActions), Up(b),
         NEW f \in Frame, isValidNR(b, f.nr)
  PROVE  Keeps(b, handleRR(b, f))
  <1> DEFINE e == [b EXCEPT !.peerBusy = FALSE]
             d == handleReceivedNR(e, f.nr)
             s == stopT1(d)
             g == [s EXCEPT !.state = "Connected"]
  <1>0. b \in Session /\ f.nr \in SeqNo /\ f.pf \in BOOLEAN
    BY Zenon DEF Sound, Frame
  <1>1. Quietly(b, e) /\ ~e.peerBusy
    BY <1>0, FieldsQuietly, Zenon DEF Session
  <1> HIDE DEF e
  <1>2. /\ d \in Session /\ Keeps(b, d) /\ Watched(d) /\ Silent(d.pendingActions)
        /\ d.state = b.state /\ d.va = f.nr /\ d.vs = b.vs /\ ~d.peerBusy
        /\ f.nr = d.vs => d.t3Timer
    BY <1>0, <1>1, AckKeeps
  <1>3. handleRR(b, f) = IF ~f.pf THEN d
                         ELSE IF d.state # "TimerRecovery" THEN sendS(d, "RR", TRUE)
                         ELSE IF d.va # d.vs THEN retransmitFrom(g, d.va) ELSE g
    BY Zenon DEF handleRR, e
  <1> HIDE DEF d
  <1>4. Keeps(b, sendS(d, "RR", TRUE))
    <2>1. Quietly(d, sendS(d, "RR", TRUE))
      BY <1>2, SendQuietly, Zenon DEF SKind
    <2> QED BY <1>2, <2>1, KeepsThen, Zenon
  <1>5. /\ s \in Session /\ s.state = d.state /\ SameQueue(d, s) /\ SameT3(d, s)
        /\ ~s.t1Active /\ s.pendingActions = d.pendingActions
    BY <1>2, T1Effects, Zenon
  <1>6. s.peerBusy = d.peerBusy
    BY <1>2, Zenon DEF stopT1, Session
  <1> HIDE DEF s
  <1>7. /\ g \in Session /\ g.state = "Connected" /\ SameQueue(s, g)
        /\ SameT1(s, g) /\ SameT3(s, g) /\ g.pendingActions = s.pendingActions
    BY <1>5, StateEffects, Zenon DEF ConnState
  <1>8. g.peerBusy = s.peerBusy
    BY <1>5, Zenon DEF Session
  <1> HIDE DEF g
  <1>9. /\ SameQueue(d, g) /\ SameT3(d, g) /\ ~g.t1Active /\ ~g.peerBusy
        /\ Silent(g.pendingActions) /\ QueueOK(g) /\ Advances(b, g)
    <2>1. SameQueue(d, g) /\ SameT3(d, g) /\ ~g.t1Active
      BY <1>5, <1>7, Zenon DEF SameQueue, SameT3, SameT1
    <2>2. QueueOK(g)
      BY <1>2, <2>1, SameQueueOK, Zenon DEF Keeps, Sound
    <2>3. Advances(b, g)
      BY <1>2, <2>1, AdvancesThen, Zenon DEF Keeps
    <2> QED BY <1>2, <1>5, <1>6, <1>7, <1>8, <2>1, <2>2, <2>3, Zenon
  <1>10. g.va = d.va /\ g.vs = d.vs /\ g.t3Timer = d.t3Timer
    BY <1>9, Zenon DEF SameQueue, SameT3
  <1>11. Keeps(b, retransmitFrom(g, d.va))
    <2>1. g.va = g.vs => g.t3Timer
      BY <1>2, <1>10, Zenon
    <2>2. Keeps(b, retransmitFrom(g, g.va))
      BY <1>0, <1>7, <1>9, <2>1, RetransmitKeeps, Zenon
    <2> QED BY <1>10, <2>2, Zenon
  <1>12. d.va = d.vs => Keeps(b, g)
    <2> HAVE d.va = d.vs
    <2>1. Watched(g)
      BY <1>2, <1>10, Zenon DEF Watched, T3Due
    <2>2. Sound(g)
      BY <1>7, <1>9, Zenon DEF Sound
    <2>3. Told(b, g)
      BY <1>7, <1>9, Zenon DEF Told, Stays, Up, Down
    <2> QED BY <1>9, <2>1, <2>2, <2>3, Zenon DEF Keeps
  <1> QED BY <1>2, <1>3, <1>4, <1>11, <1>12, Zenon

LEMMA HandleRNRKeeps ==
  ASSUME NEW b, Sound(b), Silent(b.pendingActions), Up(b),
         NEW f \in Frame, isValidNR(b, f.nr)
  PROVE  Keeps(b, handleRNR(b, f))
  <1> DEFINE e == [b EXCEPT !.peerBusy = TRUE]
             d == handleReceivedNR(e, f.nr)
             s == stopT1(d)
             g == startT3(s)
  <1>0. b \in Session /\ f.nr \in SeqNo
    BY Zenon DEF Sound, Frame
  <1>1. Quietly(b, e)
    BY <1>0, FieldsQuietly, Zenon
  <1> HIDE DEF e
  <1>2. d \in Session /\ Keeps(b, d) /\ Silent(d.pendingActions) /\ d.state = b.state
    BY <1>0, <1>1, AckKeeps, Zenon
  <1>3. handleRNR(b, f) = IF f.pf THEN g ELSE d
    BY Zenon DEF handleRNR, e
  <1> HIDE DEF d
  <1>4. /\ s \in Session /\ s.state = d.state /\ SameQueue(d, s)
        /\ ~s.t1Active /\ s.pendingActions = d.pendingActions
    BY <1>2, T1Effects, Zenon
  <1> HIDE DEF s
  <1>5. /\ g \in Session /\ g.state = s.state /\ SameQueue(s, g) /\ SameT1(s, g)
        /\ g.t3Timer /\ g.pendingActions = s.pendingActions
    BY <1>4, T3Effects, Zenon
  <1> HIDE DEF g
  <1>6. SameQueue(d, g)
    BY <1>4, <1>5, Zenon DEF SameQueue
  <1>7. QueueOK(g) /\ Advances(b, g)
    BY <1>2, <1>6, SameQueueOK, AdvancesThen, Zenon DEF Keeps, Sound
  <1>8. Sound(g) /\ Watched(g)
    BY <1>2, <1>4, <1>5, <1>7, Zenon DEF Sound, Watched, T3Due, SameT1, Up
  <1>9. Told(b, g)
    BY <1>2, <1>4, <1>5, Zenon DEF Told, Stays, Up, Down
  <1>10. Keeps(b, g)
    BY <1>7, <1>8, <1>9, Zenon DEF Keeps
  <1> QED BY <1>2, <1>3, <1>10, Zenon

LEMMA HandleREJKeeps ==
  ASSUME NEW b, Sound(b), Silent(b.pendingActions), Up(b),
         NEW f \in Frame, isValidNR(b, f.nr)
  PROVE  Keeps(b, handleREJ(b, f))
  <1> DEFINE e == [b EXCEPT !.peerBusy = FALSE]
             d == handleReceivedNR(e, f.nr)
             s == stopT1(d)
             g == [s EXCEPT !.retryCount = 0, !.state = "Connected"]
             h == retransmitFrom(g, f.nr)
  <1>0. b \in Session /\ f.nr \in SeqNo /\ f.pf \in BOOLEAN
    BY Zenon DEF Sound, Frame
  <1>1. Quietly(b, e) /\ ~e.peerBusy
    BY <1>0, FieldsQuietly, Zenon DEF Session
  <1> HIDE DEF e
  <1>2. /\ d \in Session /\ Keeps(b, d) /\ Silent(d.pendingActions)
        /\ d.va = f.nr /\ ~d.peerBusy
        /\ f.nr = d.vs => d.t3Timer
    BY <1>0, <1>1, AckKeeps
  <1>3. handleREJ(b, f) = IF f.pf THEN sendS(h, "RR", TRUE) ELSE h
    BY Zenon DEF handleREJ, e
  <1> HIDE DEF d
  <1>4. /\ s \in Session /\ SameQueue(d, s) /\ SameT3(d, s)
        /\ ~s.t1Active /\ s.pendingActions = d.pendingActions
    BY <1>2, T1Effects, Zenon
  <1>5. s.peerBusy = d.peerBusy
    BY <1>2, Zenon DEF stopT1, Session
  <1> HIDE DEF s
  <1>6. /\ g \in Session /\ g.state = "Connected" /\ SameQueue(s, g)
        /\ SameT1(s, g) /\ SameT3(s, g) /\ g.pendingActions = s.pendingActions
        /\ g.peerBusy = s.peerBusy
    BY <1>4, Zenon DEF Session, ConnState, SameQueue, SameT1, SameT3
  <1> HIDE DEF g
  <1>7. SameQueue(d, g) /\ ~g.t1Active /\ ~g.peerBusy /\ Silent(g.pendingActions)
    BY <1>2, <1>4, <1>5, <1>6, Zenon DEF SameQueue, SameT1
  <1>8. QueueOK(g) /\ Advances(b, g)
    BY <1>2, <1>7, SameQueueOK, AdvancesThen, Zenon DEF Keeps, Sound
  <1>9. g.va = f.nr /\ (g.va = g.vs => g.t3Timer)
    BY <1>2, <1>4, <1>6, <1>7, Zenon DEF SameQueue, SameT3
  <1>10. Keeps(b, retransmitFrom(g, g.va)) /\ Silent(retransmitFrom(g, g.va).pendingActions)
    BY <1>0, <1>6, <1>7, <1>8, <1>9, RetransmitKeeps, Zenon
  <1>11. Keeps(b, h) /\ Silent(h.pendingActions)
    BY <1>9, <1>10, Zenon
  <1> HIDE DEF h
  <1>12. Quietly(h, sendS(h, "RR", TRUE))
    BY <1>11, SendQuietly, Zenon DEF SKind, Keeps, Sound
  <1>13. Keeps(b, sendS(h, "RR", TRUE))
    BY <1>11, <1>12, KeepsThen, Zenon
  <1> QED BY <1>3, <1>11, <1>13, Zenon

LEMMA HandleConnectedKeeps ==
  ASSUME NEW b, Sound(b), Silent(b.pendingActions), Up(b), NEW f \in Frame
  PROVE  Keeps(b, handleConnected(b, f))
  <1>1. CASE f.kind = "I"
    BY <1>1, HandleIFrameKeeps, Zenon DEF handleConnected
  <1>2. CASE f.kind \in SKind
    <2>1. CASE ~isValidNR(b, f.nr)
      <3>1. Keeps(b, startNRErrorRecovery(b))
        BY NRErrorKeeps, Zenon DEF SameQueue, Sound
      <3> QED BY <1>2, <2>1, <3>1, Zenon DEF handleConnected, handleSFrame, SKind
    <2>2. CASE isValidNR(b, f.nr)
      <3>1. Keeps(b, handleRR(b, f)) /\ Keeps(b, handleRNR(b, f))
            /\ Keeps(b, handleREJ(b, f)) /\ Keeps(b, b)
        BY <2>2, HandleRRKeeps, HandleRNRKeeps, HandleREJKeeps, SameKeeps, Zenon
      <3>2. f.kind \in {"RR", "RNR", "REJ", "SREJ"}
        BY <1>2, Zenon DEF SKind
      <3>3. handleConnected(b, f) = handleSFrame(b, f)
        BY <1>2, Zenon DEF handleConnected, SKind
      <3> QED BY <2>2, <3>1, <3>2, <3>3, Zenon DEF handleSFrame
    <2> QED BY <2>1, <2>2, Zenon
  <1>3. CASE f.kind # "I" /\ f.kind \notin SKind
    BY <1>3, HandleUFrameKeeps, Zenon DEF handleConnected
  <1> QED BY <1>1, <1>2, <1>3, Zenon

LEMMA OnFrameKeeps ==
  ASSUME NEW b, Sound(b), Silent(b.pendingActions), NEW f \in Frame, f.peer \in Peers
  PROVE  Keeps(b, OnFrame(b, f))
  <1>1. b.state \in ConnState
    BY Zenon DEF Sound, Session
  <1>2. CASE f.kind = "UI"
    BY <1>2, SameKeeps, Zenon DEF OnFrame
  <1>3. CASE f.kind # "UI" /\ b.state = "Disconnected"
    BY <1>3, ReplyDMKeeps, Zenon DEF OnFrame, Up
  <1>4. CASE f.kind # "UI" /\ b.state = "AwaitingConnection"
    BY <1>4, HandleAwaitingConnectionKeeps, Zenon DEF OnFrame, Up
  <1>5. CASE f.kind # "UI" /\ b.state = "AwaitingRelease"
    BY <1>5, HandleAwaitingReleaseKeeps, Zenon DEF OnFrame, Up
  <1>6. CASE f.kind # "UI" /\ Up(b)
    BY <1>6, HandleConnectedKeeps, Zenon DEF OnFrame, Up
  <1> QED BY <1>1, <1>2, <1>3, <1>4, <1>5, <1>6, Zenon DEF ConnState, Up

-----------------------------------------------------------------------------
(* Timer callbacks.                                                        *)

LEMMA RetryKeeps ==
  ASSUME NEW b \in Session, QueueOK(b), NEW e \in Session, SameQueue(b, e),
         Silent(e.pendingActions), e.state # "Connected",
         Stays(b, e),
         NEW k \in {"SABM", "DISC", "RR"}
  PROVE  Keeps(b, retry(e, k))
  <1> DEFINE f == [e EXCEPT !.retryCount = @ + 1]
             g == IF k = "RR" THEN sendS(f, k, TRUE) ELSE sendU(f, k, TRUE)
             d == startT1(g)
  <1>1. Quietly(e, f) /\ f \in Session
    <2>1. e.retryCount \in Nat
      BY Zenon DEF Session
    <2>2. e.retryCount + 1 \in Nat
      BY <2>1
    <2> QED BY <2>2, Zenon DEF Session, Quietly, SameQueue, SameT1, SameT3
  <1>2. d = retry(e, k)
    BY Zenon DEF retry
  <1> HIDE DEF f
  <1>3. Quietly(f, g) /\ g \in Session
    <2>1. CASE k = "RR"
      <3>1. Quietly(f, sendS(f, "RR", TRUE))
        BY <1>1, SendQuietly, Zenon DEF SKind
      <3> QED BY <2>1, <3>1, Zenon DEF Quietly
    <2>2. CASE k # "RR"
      <3>1. k \in UKind
        BY <2>2, Zenon DEF UKind
      <3>2. Quietly(f, sendU(f, k, TRUE))
        BY <1>1, <3>1, SendQuietly, Zenon
      <3> QED BY <2>2, <3>2, Zenon DEF Quietly
    <2> QED BY <2>1, <2>2, Zenon
  <1> HIDE DEF g
  <1>4. /\ d \in Session /\ d.state = g.state /\ SameQueue(g, d) /\ d.t1Timer
        /\ d.pendingActions = g.pendingActions
    BY <1>3, T1Effects, Zenon
  <1> HIDE DEF d
  <1>5. d.state = e.state /\ SameQueue(b, d) /\ Silent(d.pendingActions)
    BY <1>1, <1>3, <1>4, Zenon DEF Quietly, SameQueue
  <1>6. Sound(d) /\ Watched(d)
    BY <1>4, <1>5, SameQueueOK, Zenon DEF Sound, Watched, T1Due
  <1>7. Told(b, d)
    BY <1>5, Zenon DEF Told, Stays, Up, Down
  <1>8. Advances(b, d)
    BY <1>5, SameQueueAdvances, Zenon
  <1> QED BY <1>2, <1>6, <1>7, <1>8, Zenon DEF Keeps

LEMMA T1ExpiredKeeps ==
  ASSUME NEW b, Sound(b), Silent(b.pendingActions), b.t1Late > 0
  PROVE  Keeps(b, onT1Expired([b EXCEPT !.t1Late = @ - 1]))
  <1> DEFINE x == [b EXCEPT !.t1Late = @ - 1]
             y == [x EXCEPT !.t1Active = FALSE]
             z == IF b.state = "Connected"
                  THEN [y EXCEPT !.state = "TimerRecovery", !.retryCount = 0] ELSE y
  <1>0. b \in Session /\ QueueOK(b) /\ b.state \in ConnState
    BY Zenon DEF Sound, Session
  <1>1. /\ x \in Session /\ x.state = b.state /\ SameQueue(b, x)
        /\ x.pendingActions = b.pendingActions
    BY <1>0 DEF Session, SameQueue
  <1> HIDE DEF x
  <1>2. /\ y \in Session /\ y.state = x.state /\ SameQueue(x, y) /\ ~y.t1Active
        /\ y.pendingActions = x.pendingActions
    BY <1>1, Zenon DEF Session, SameQueue
  <1> HIDE DEF y
  <1>3. /\ z \in Session /\ SameQueue(y, z) /\ ~z.t1Active
        /\ z.pendingActions = y.pendingActions
        /\ z.state = IF b.state = "Connected" THEN "TimerRecovery" ELSE b.state
    <2>1. CASE b.state = "Connected"
      BY <1>2, <2>1, Zenon DEF Session, SameQueue, ConnState
    <2>2. CASE b.state # "Connected"
      <3>1. z = y
        BY <2>2, Zenon
      <3> HIDE DEF z
      <3> QED BY <1>1, <1>2, <2>2, <3>1, Zenon DEF SameQueue
    <2> QED BY <2>1, <2>2, Zenon
  <1>4. onT1Expired(x) =
          CASE z.state = "Disconnected" -> z
            [] z.state = "AwaitingConnection" ->
                 IF z.retryCount >= N2 THEN enterDisconnected(fireError(z)) ELSE retry(z, "SABM")
            [] z.state = "AwaitingRelease" ->
                 IF z.retryCount >= N2 THEN enterDisconnected(fireError(z)) ELSE retry(z, "DISC")
            [] z.state = "TimerRecovery" ->
                 IF z.retryCount >= N2 THEN startNRErrorRecovery(z) ELSE retry(z, "RR")
    BY <1>1, Zenon DEF onT1Expired, y
  <1> HIDE DEF z
  <1>5. /\ SameQueue(b, z) /\ Silent(z.pendingActions)
        /\ z.state \in {"Disconnected", "AwaitingConnection", "AwaitingRelease", "TimerRecovery"}
        /\ Stays(b, z)
    BY <1>0, <1>1, <1>2, <1>3, Zenon DEF SameQueue, ConnState, Stays, Up, Down
  <1>6. Keeps(b, retry(z, "SABM")) /\ Keeps(b, retry(z, "DISC")) /\ Keeps(b, retry(z, "RR"))
    BY <1>0, <1>3, <1>5, RetryKeeps, Zenon
  <1>7. Keeps(b, startNRErrorRecovery(z))
    BY <1>0, <1>3, <1>5, NRErrorKeeps, Zenon
  <1>8. Keeps(b, enterDisconnected(fireError(z)))
    <2> DEFINE e == fireError(z)
    <2>1. Quietly(z, e)
      BY <1>3, SendQuietly, Zenon
    <2> HIDE DEF e
    <2>2. e \in Session /\ SameQueue(b, e) /\ Silent(e.pendingActions)
      BY <1>5, <2>1, Zenon DEF Quietly, SameQueue
    <2>3. Keeps(b, enterDisconnected(e))
      BY <1>0, <2>2, EnterDisconnectedKeeps, Zenon
    <2> QED BY <2>3, Zenon DEF e
  <1>9. CASE z.state = "Disconnected"
    <2>1. Sound(z) /\ Watched(z)
      BY <1>0, <1>3, <1>5, <1>9, SameQueueOK, Zenon DEF Sound, Watched
    <2>2. Told(b, z) /\ Advances(b, z)
      BY <1>0, <1>5, SameQueueAdvances, Zenon DEF Told
    <2> QED BY <1>4, <1>9, <2>1, <2>2, Zenon DEF Keeps, x
  <1>10. CASE z.state # "Disconnected"
    BY <1>4, <1>5, <1>6, <1>7, <1>8, <1>10, Zenon DEF x
  <1> QED BY <1>9, <1>10, Zenon

LEMMA T2ExpiredKeeps ==
  ASSUME NEW b, Sound(b), Silent(b.pendingActions), b.t2Late > 0
  PROVE  Keeps(b, onT2Expired([b EXCEPT !.t2Late = @ - 1]))
  <1> DEFINE x == [b EXCEPT !.t2Late = @ - 1]
             y == [x EXCEPT !.t2Active = FALSE]
             z == sendAck(y, FALSE)
             w == [z EXCEPT !.ackPending = FALSE]
  <1>1. Quietly(b, x) /\ x \in Session
    <2>1. b \in Session /\ b.t2Late \in Nat
      BY Zenon DEF Sound, Session
    <2>2. b.t2Late - 1 \in Nat
      BY <2>1
    <2> QED BY <2>1, <2>2, Zenon DEF Session, Quietly, SameQueue, SameT1, SameT3
  <1>2. onT2Expired(x) \in {y, w}
    BY Zenon DEF onT2Expired
  <1> HIDE DEF x
  <1>3. Quietly(x, y) /\ y \in Session
    BY <1>1, FieldsQuietly, Zenon DEF Quietly
  <1> HIDE DEF y
  <1>4. Quietly(y, z) /\ z \in Session
    BY <1>3, SendQuietly, Zenon DEF Quietly
  <1> HIDE DEF z
  <1>5. Quietly(z, w)
    BY <1>4, FieldsQuietly, Zenon
  <1> HIDE DEF w
  <1>6. Quietly(b, y)
    BY <1>1, <1>3, QuietlyTrans, Zenon
  <1>7. Quietly(b, w)
    BY <1>4, <1>5, <1>6, QuietlyTrans, Zenon
  <1>8. Quietly(b, onT2Expired(x))
    BY <1>2, <1>6, <1>7, Zenon
  <1> QED BY <1>8, QuietlyKeeps, Zenon DEF x

LEMMA T3ExpiredKeeps ==
  ASSUME NEW b, Sound(b), Silent(b.pendingActions), b.t3Late > 0
  PROVE  Keeps(b, onT3Expired([b EXCEPT !.t3Late = @ - 1]))
  <1> DEFINE x == [b EXCEPT !.t3Late = @ - 1]
             y == sendS(x, "RR", TRUE)
             z == [y EXCEPT !.state = "TimerRecovery", !.retryCount = 0]
             d == startT1(z)
  <1>0. b \in Session /\ QueueOK(b)
    BY Zenon DEF Sound
  <1>1. /\ x \in Session /\ x.state = b.state /\ SameQueue(b, x) /\ SameT1(b, x)
        /\ x.pendingActions = b.pendingActions
    BY <1>0 DEF Session, SameQueue, SameT1
  <1>2. onT3Expired(x) = IF x.state # "Connected" THEN x ELSE d
    BY Zenon DEF onT3Expired
  <1> HIDE DEF x
  <1>3. Quietly(x, y) /\ y \in Session
    BY <1>1, SendQuietly, Zenon DEF SKind, Quietly
  <1> HIDE DEF y
  <1>4. /\ z \in Session /\ z.state = "TimerRecovery" /\ SameQueue(y, z)
        /\ z.pendingActions = y.pendingActions
    BY <1>3, Zenon DEF Session, ConnState, SameQueue
  <1> HIDE DEF z
  <1>5. /\ d \in Session /\ d.state = z.state /\ SameQueue(z, d) /\ d.t1Timer
        /\ d.pendingActions = z.pendingActions
    BY <1>4, T1Effects, Zenon
  <1> HIDE DEF d
  <1>6. CASE x.state # "Connected"
    <2>1. Sound(x)
      BY <1>0, <1>1, SameQueueOK, Zenon DEF Sound, SameT1, T1Due
    <2>2. Told(b, x) /\ Advances(b, x)
      BY <1>0, <1>1, SameQueueAdvances, Zenon DEF Told, Stays, Up, Down
    <2> QED BY <1>2, <1>6, <2>1, <2>2, Zenon DEF Keeps, Watched, x
  <1>7. CASE x.state = "Connected"
    <2>1. SameQueue(b, d) /\ d.state = "TimerRecovery" /\ Silent(d.pendingActions)
      BY <1>1, <1>3, <1>4, <1>5, Zenon DEF SameQueue, Quietly
    <2>2. Sound(d) /\ Watched(d)
      BY <1>0, <1>5, <2>1, SameQueueOK, Zenon DEF Sound, Watched, T1Due
    <2>3. Told(b, d) /\ Advances(b, d)
      BY <1>0, <1>1, <1>7, <2>1, SameQueueAdvances, Zenon DEF Told, Stays, Up, Down
    <2> QED BY <1>2, <1>7, <2>2, <2>3, Zenon DEF Keeps, x
  <1> QED BY <1>6, <1>7, Zenon

\* A timer that fires is still due.
LEMMA FiresKeeps ==
  ASSUME NEW b, Sound(b), Silent(b.pendingActions)
  PROVE  /\ b.t1Timer => Keeps(b, T1Fires(b))
         /\ Keeps(b, T2Fires(b))
         /\ b.t3Timer => Keeps(b, T3Fires(b))
         /\ T1Fires(b).state = b.state /\ T1Fires(b).pendingActions = b.pendingActions
         /\ T2Fires(b).state = b.state /\ T2Fires(b).pendingActions = b.pendingActions
         /\ T3Fires(b).state = b.state /\ T3Fires(b).pendingActions = b.pendingActions
  <1>0. b \in Session /\ QueueOK(b)
    BY Zenon DEF Sound
  <1>1. ASSUME NEW d \in {T1Fires(b), T2Fires(b), T3Fires(b)}
        PROVE  /\ d \in Session /\ d.state = b.state /\ SameQueue(b, d)
               /\ d.pendingActions = b.pendingActions
               /\ QueueOK(d) /\ Advances(b, d) /\ Told(b, d)
    <2>1. /\ d \in Session /\ d.state = b.state /\ SameQueue(b, d)
          /\ d.pendingActions = b.pendingActions
      <3>1. b.t1Late \in Nat /\ b.t2Late \in Nat /\ b.t3Late \in Nat
        BY <1>0, Zenon DEF Session
      <3>2. b.t1Late + 1 \in Nat /\ b.t2Late + 1 \in Nat /\ b.t3Late + 1 \in Nat
        BY <3>1
      <3>3. CASE d = T1Fires(b)
        BY <1>0, <3>2, <3>3, Zenon DEF T1Fires, Session, SameQueue
      <3>4. CASE d = T2Fires(b)
        BY <1>0, <3>2, <3>4, Zenon DEF T2Fires, Session, SameQueue
      <3>5. CASE d = T3Fires(b)
        BY <1>0, <3>2, <3>5, Zenon DEF T3Fires, Session, SameQueue
      <3> QED BY <3>3, <3>4, <3>5, Zenon
    <2> QED BY <1>0, <2>1, SameQueueOK, SameQueueAdvances, Zenon DEF Told, Stays, Up, Down
  <1>2. b.t1Timer => Sound(T1Fires(b)) /\ (Watched(b) => Watched(T1Fires(b)))
    <2>1. T1Fires(b).t1Late > 0
      BY <1>0 DEF T1Fires, Session
    <2> QED BY <1>1, <2>1, Zenon DEF Sound, Watched, T1Due
  <1>3. Sound(T2Fires(b)) /\ (Watched(b) => Watched(T2Fires(b)))
    <2>1. SameT1(b, T2Fires(b)) /\ SameT3(b, T2Fires(b))
      BY <1>0, Zenon DEF T2Fires, Session, SameT1, SameT3
    <2> QED BY <1>1, <2>1, Zenon DEF Sound, Watched, T1Due, T3Due, SameT1, SameT3
  <1>4. b.t3Timer => Sound(T3Fires(b)) /\ (Watched(b) => Watched(T3Fires(b)))
    <2>1. T3Fires(b).t3Late > 0 /\ SameT1(b, T3Fires(b))
      BY <1>0 DEF T3Fires, Session, SameT1
    <2> QED BY <1>1, <2>1, Zenon DEF Sound, Watched, T1Due, T3Due, SameT1
  <1> QED BY <1>1, <1>2, <1>3, <1>4, Zenon DEF Keeps

-----------------------------------------------------------------------------
(* The theorems.                                                           *)

\* WindowOK and Supervised are not inductive by themselves: handleReceivedNR
\* starts T1 only when t1Active is false, so t1Active must imply that T1 is
\* due (Sound), and the timer of a Connected session is owed only once its
\* SABM has been answered (Watched, outside accepting).  AppAgrees says
\* nothing while a report is due; what that report says must agree, too.
Informed == ~crossed => IF due = << >> THEN Agrees(c, appUp)
                        ELSE Len(due) = 1 /\ Agrees(c, due[1].up)

Inv == /\ TypeOK
       /\ Sound(c)
       /\ ~accepting.on => Watched(c)
       /\ Informed

LEMMA EmptySilent == Silent(<< >>)
  BY DEF Silent

\* Taking the one report of a critical section.
LEMMA TakeInforms ==
  ASSUME TypeOK, NEW r \in Report, Take(r), UNCHANGED appUp, Agrees(c', r.up)
  PROVE  due' \in Seq(Report) /\ crossed' \in BOOLEAN /\ Informed'
  <1>1. due \in Seq(Report) /\ due' = Append(due, r) /\ crossed' = (due # << >>)
    BY Zenon DEF TypeOK, Take
  <1>2. due' \in Seq(Report) /\ crossed' \in BOOLEAN
    BY <1>1
  <1>3. ASSUME ~crossed' PROVE Len(due') = 1 /\ due'[1] = r
    <2>1. due = << >>
      BY <1>1, <1>3, Zenon
    <2>2. Len(due) = 0
      BY <2>1, Zenon
    <2> QED BY <1>1, <2>2, AppendProperties
  <1>4. Informed'
    BY <1>1, <1>2, <1>3 DEF Informed
  <1> QED BY <1>2, <1>4, Zenon

\* A step without a report that neither begins nor ends the session.
LEMMA StaysInformed ==
  ASSUME Informed, Stays(c, c'), UNCHANGED <<due, appUp, crossed>>
  PROVE  Informed'
  <1>1. \A up : Agrees(c, up) => Agrees(c', up)
    BY Zenon DEF Stays, Agrees, Up, Down
  <1> QED BY <1>1, Zenon DEF Informed

\* A report fewer.
LEMMA WithoutType ==
  ASSUME NEW S, NEW s \in Seq(S), NEW i \in DOMAIN s
  PROVE  /\ Without(s, i) \in Seq(S) /\ Len(s) \in Nat \ {0}
         /\ Len(Without(s, i)) = Len(s) - 1
         /\ DOMAIN Without(s, i) = 1 .. Len(s) - 1
  <1> DEFINE l == Len(s)
             t == Without(s, i)
  <1>1. l \in Nat /\ DOMAIN s = 1 .. l /\ i \in 1 .. l /\ l # 0
    BY LenProperties
  <1>2. t = [j \in 1 .. l - 1 |-> IF j < i THEN s[j] ELSE s[j + 1]]
    BY Zenon DEF Without
  <1>3. \A j \in 1 .. l - 1 : s[j] \in S /\ s[j + 1] \in S
    <2> SUFFICES ASSUME NEW j \in 1 .. l - 1 PROVE s[j] \in S /\ s[j + 1] \in S
      BY Zenon
    <2>1. j \in 1 .. l /\ j + 1 \in 1 .. l
      BY <1>1
    <2> QED BY <2>1, ElementOfSeq, Zenon
  <1> HIDE DEF l, t
  <1>4. t \in [1 .. l - 1 -> S] /\ DOMAIN t = 1 .. l - 1
    BY <1>2, <1>3, Zenon
  <1>5. t \in Seq(S) /\ Len(t) = l - 1
    BY <1>1, <1>4, SeqDef, LenProperties
  <1> QED BY <1>1, <1>4, <1>5, Zenon DEF l, t

\* takePendingActions after an operation that keeps.
LEMMA FinishKeeps ==
  ASSUME Inv, NEW rx \in BOOLEAN, NEW d, Keeps(c, d), Finish(rx, d)
  PROVE  /\ Sound(c') /\ c'.pendingActions = << >>
         /\ due' \in Seq(Report) /\ appUp' \in BOOLEAN /\ crossed' \in BOOLEAN
         /\ Watched(d) => Watched(c')
         /\ Watched(c) => Watched(c')
         /\ Informed'
         /\ Advances(c, c')
  <1> DEFINE acts == d.pendingActions
  <1>1. d \in Session /\ c' = [d EXCEPT !.pendingActions = << >>]
    BY Zenon DEF Keeps, Sound, Finish
  <1>2. /\ c' \in Session /\ c'.state = d.state /\ SameQueue(d, c')
        /\ SameT1(d, c') /\ SameT3(d, c') /\ c'.pendingActions = << >>
    <2>1. << >> \in Seq(Callback)
      OBVIOUS
    <2> QED BY <1>1, <2>1, Zenon DEF Session, SameQueue, SameT1, SameT3
  <1>3. Sound(c')
    BY <1>2, SameQueueOK, Zenon DEF Keeps, Sound, SameT1, T1Due
  <1>4. Watched(d) => Watched(c')
    BY <1>2, Zenon DEF Watched, T1Due, T3Due, SameT1, SameT3
  <1>5. Advances(c, c')
    BY <1>2, AdvancesThen, Zenon DEF Keeps
  <1>6. TypeOK /\ Informed /\ UNCHANGED appUp /\ appUp \in BOOLEAN
    BY Zenon DEF Finish, Inv, TypeOK
  <1>7. due' \in Seq(Report) /\ crossed' \in BOOLEAN /\ Informed'
    <2>1. CASE Silent(acts) /\ UNCHANGED <<due, crossed>>
      <3>1. Stays(c, d)
        BY <2>1, Zenon DEF Keeps, Told, Ends, Begins, Silent
      <3>2. Stays(c, c')
        BY <1>2, <3>1, Zenon DEF Stays, Up, Down
      <3> QED BY <1>6, <2>1, <3>2, StaysInformed, Zenon DEF TypeOK
    <2>2. ASSUME NEW i \in DOMAIN acts, acts[i].cb \in {"OnConnect", "OnDisconnect"},
                 Take([rx |-> rx, up |-> acts[i].cb = "OnConnect"])
          PROVE  due' \in Seq(Report) /\ crossed' \in BOOLEAN /\ Informed'
      <3> DEFINE up == acts[i].cb = "OnConnect"
                 r == [rx |-> rx, up |-> up]
      <3>1. r \in Report /\ r.up = up
        BY Zenon DEF Report
      <3>2. \/ d.state = "Disconnected" /\ ~up
            \/ d.state = "Connected" /\ up
        BY <2>2, Zenon DEF Keeps, Told, Ends, Begins, Silent
      <3>3. Agrees(c', up)
        BY <1>2, <3>2, Zenon DEF Agrees, Up
      <3> QED BY <1>6, <2>2, <3>1, <3>3, TakeInforms, Zenon
    <2> QED BY <2>1, <2>2, Zenon DEF Finish
  <1> QED BY <1>2, <1>3, <1>4, <1>5, <1>6, <1>7, Zenon DEF Keeps

LEMMA InitInv == Init => Inv
  <1> SUFFICES ASSUME Init PROVE Inv
    BY Zenon
  <1>1. << >> \in Seq(PendingFrame) /\ << >> \in Seq(Callback)
    OBVIOUS
  <1>2. NewConn \in Session
    BY <1>1, ZeroType, Zenon DEF NewConn, Session, ConnState
  <1>3. QueueOK(NewConn)
    BY EmptyQueueOK, Zenon DEF NewConn
  <1>4. Sound(c) /\ Watched(c)
    BY <1>2, <1>3, Zenon DEF Init, Sound, Watched, NewConn
  <1>5. TypeOK
    <2>1. c \in Session /\ c.pendingActions = << >> /\ accepting \in [on : BOOLEAN, pf : BOOLEAN]
      BY <1>2, Zenon DEF Init, NewConn
    <2>2. due \in Seq(Report)
      <3>1. \A S : << >> \in Seq(S)
        OBVIOUS
      <3> QED BY <3>1, Zenon DEF Init
    <2>3. appUp \in BOOLEAN /\ crossed \in BOOLEAN
      BY Zenon DEF Init
    <2> QED BY <2>1, <2>2, <2>3, Zenon DEF TypeOK
  <1>6. Informed
    BY Zenon DEF Init, Informed, Agrees, NewConn, Up
  <1> QED BY <1>4, <1>5, <1>6, Zenon DEF Inv

\* Every step of Station keeps Inv, and the order of the queue.
LEMMA NextInv ==
  ASSUME Inv, [Next]_vars
  PROVE  Inv' /\ [Advances(c, c')]_vars
  <1> USE DEF Inv
  <1>0. /\ Sound(c) /\ Silent(c.pendingActions) /\ c.pendingActions = << >>
        /\ accepting.on \in BOOLEAN /\ accepting.pf \in BOOLEAN
    BY EmptySilent, Zenon DEF TypeOK
  <1>1. ASSUME NEW rx \in BOOLEAN, NEW d, Keeps(c, d), Finish(rx, d), UNCHANGED accepting
        PROVE  Inv' /\ Advances(c, c')
    BY <1>1, FinishKeeps, Zenon DEF TypeOK, Sound
  <1>2. ASSUME NEW d, Keeps(c, d), d.state = c.state, d.pendingActions = << >>,
               c' = d, UNCHANGED <<accepting, due, appUp, crossed>>
        PROVE  Inv' /\ Advances(c, c')
    <2>1. Informed'
      BY <1>2, StaysInformed, Zenon DEF Stays, Up, Down
    <2> QED BY <1>2, <2>1, Zenon DEF Keeps, TypeOK, Sound
  <1>3. ASSUME NEW p \in Peers, AppConnect(p) PROVE Inv' /\ Advances(c, c')
    BY <1>0, <1>1, <1>3, ConnectKeeps, Zenon DEF AppConnect
  <1>4. ASSUME AppShutdown PROVE Inv' /\ Advances(c, c')
    BY <1>0, <1>1, <1>4, ShutdownKeeps, Zenon DEF AppShutdown
  <1>5. ASSUME NEW d \in Payload, AppSendData(d) PROVE Inv' /\ Advances(c, c')
    BY <1>0, <1>1, <1>5, SendDataKeeps, Zenon DEF AppSendData
  <1>6. ASSUME NEW v \in BOOLEAN, AppSetBusy(v) PROVE Inv' /\ Advances(c, c')
    BY <1>0, <1>1, <1>6, SetBusyKeeps, Zenon DEF AppSetBusy
  <1>7. ASSUME AppRefuse PROVE Inv' /\ Advances(c, c')
    <2>1. Refuse(c).pendingActions = << >>
      BY <1>0, Zenon DEF Refuse, Sound, Session
    <2> QED BY <1>0, <1>2, <1>7, <2>1, RefuseKeeps, Zenon DEF AppRefuse
  <1>8. ASSUME AppClose PROVE Inv' /\ Advances(c, c')
    <2>1. Informed'
      BY <1>0, <1>8, CloseKeeps, Zenon DEF AppClose, Informed, Agrees, Up
    <2> QED BY <1>0, <1>8, <2>1, CloseKeeps, Zenon DEF AppClose, TypeOK, Sound, Watched
  <1>9. ASSUME NEW f \in Frames, RxFrame(f) PROVE Inv' /\ Advances(c, c')
    <2>1. f \in Frame /\ f.peer \in Peers
      BY StationAssumption, Zenon
    <2>2. Keeps(c, OnFrame(c, f))
      BY <1>0, <2>1, OnFrameKeeps, Zenon
    <2> QED BY <1>1, <1>9, <2>2, Zenon DEF RxFrame
  <1>10. ASSUME NEW f \in Frames, RxSABM(f) PROVE Inv' /\ Advances(c, c')
    <2>1. f \in Frame /\ f.peer \in Peers /\ f.pf \in BOOLEAN
      BY StationAssumption, Zenon DEF Frame
    <2>2. /\ Sound(c') /\ Advances(c, c') /\ c'.state = "Connected"
          /\ c'.pendingActions = << >>
      BY <1>0, <1>10, <2>1, BeginAcceptKeeps, Zenon DEF RxSABM
    <2> DEFINE r == [rx |-> TRUE, up |-> TRUE]
    <2>3. accepting' = [on |-> TRUE, pf |-> f.pf] /\ Take(r) /\ UNCHANGED appUp
      BY <1>10, Zenon DEF RxSABM
    <2>4. r \in Report /\ r.up
      BY Zenon DEF Report
    <2>5. Agrees(c', r.up)
      BY <2>2, <2>4, Zenon DEF Agrees
    <2>6. due' \in Seq(Report) /\ crossed' \in BOOLEAN /\ Informed'
      BY <2>3, <2>4, <2>5, TakeInforms, Zenon
    <2>7. TypeOK' /\ accepting'.on
      BY <2>1, <2>2, <2>3, <2>6, Zenon DEF TypeOK, Sound
    <2> QED BY <2>2, <2>6, <2>7, Zenon
  <1>11. ASSUME RxReply PROVE Inv' /\ Advances(c, c')
    <2> DEFINE d == endAccept(c, accepting.pf)
    <2>1. Keeps(c, d) /\ Watched(d)
      BY <1>0, EndAcceptKeeps, Zenon
    <2>2. Finish(TRUE, d) /\ accepting' = [accepting EXCEPT !.on = FALSE]
      BY <1>11, Zenon DEF RxReply
    <2> HIDE DEF d
    <2>3. /\ Sound(c') /\ c'.pendingActions = << >>
          /\ due' \in Seq(Report) /\ appUp' \in BOOLEAN /\ crossed' \in BOOLEAN
          /\ Watched(c') /\ Informed' /\ Advances(c, c')
      BY <2>1, <2>2, FinishKeeps, Zenon
    <2>4. TypeOK'
      BY <2>2, <2>3, Zenon DEF TypeOK, Sound
    <2> QED BY <2>3, <2>4, Zenon
  <1>12. ASSUME T1Fire \/ T2Fire \/ T3Fire PROVE Inv' /\ Advances(c, c')
    <2>1. CASE T1Fire
      BY <1>0, <1>2, <2>1, FiresKeeps, Zenon DEF T1Fire
    <2>2. CASE T2Fire
      BY <1>0, <1>2, <2>2, FiresKeeps, Zenon DEF T2Fire
    <2>3. CASE T3Fire
      BY <1>0, <1>2, <2>3, FiresKeeps, Zenon DEF T3Fire
    <2> QED BY <1>12, <2>1, <2>2, <2>3, Zenon
  <1>13. ASSUME T1Expired PROVE Inv' /\ Advances(c, c')
    BY <1>0, <1>1, <1>13, T1ExpiredKeeps, Zenon DEF T1Expired
  <1>14. ASSUME T2Expired PROVE Inv' /\ Advances(c, c')
    BY <1>0, <1>1, <1>14, T2ExpiredKeeps, Zenon DEF T2Expired
  <1>15. ASSUME T3Expired PROVE Inv' /\ Advances(c, c')
    BY <1>0, <1>1, <1>15, T3ExpiredKeeps, Zenon DEF T3Expired
  <1>16. ASSUME NEW i \in DOMAIN due, Hear(i) PROVE Inv' /\ Advances(c, c')
    <2>1. /\ UNCHANGED <<c, accepting, crossed>>
          /\ appUp' = due[i].up /\ due' = Without(due, i)
          /\ due \in Seq(Report)
      BY <1>16, Zenon DEF Hear, TypeOK
    <2>2. due' \in Seq(Report) /\ appUp' \in BOOLEAN
      <3>1. due' \in Seq(Report)
        BY <2>1, WithoutType, Zenon
      <3>2. due[i] \in Report
        BY <2>1, ElementOfSeq
      <3> QED BY <2>1, <3>1, <3>2, Zenon DEF Report
    <2>3. Informed'
      <3> SUFFICES ASSUME ~crossed PROVE due' = << >> /\ Agrees(c, appUp')
        BY <2>1, Zenon DEF Informed
      <3>1. Len(due) = 1 /\ Agrees(c, due[1].up)
        BY <2>1 DEF Informed
      <3>2. i = 1 /\ Len(due') = 0
        BY <2>1, <3>1, WithoutType
      <3> QED BY <2>1, <2>2, <3>1, <3>2
    <2>4. TypeOK'
      BY <2>1, <2>2, Zenon DEF TypeOK
    <2>5. Sound(c') /\ (Watched(c) => Watched(c')) /\ Advances(c, c')
      <3>1. Keeps(c, c)
        BY <1>0, SameKeeps, Zenon
      <3> QED BY <2>1, <3>1, Zenon DEF Keeps
    <2> QED BY <2>1, <2>3, <2>4, <2>5, Zenon
  <1>17. ASSUME UNCHANGED vars PROVE Inv'
    BY <1>17, Zenon DEF vars, TypeOK, Sound, Watched, Informed, Agrees, Up, QueueOK, outstanding, T1Due, T3Due
  <1> QED BY <1>3, <1>4, <1>5, <1>6, <1>7, <1>8, <1>9, <1>10, <1>11, <1>12, Zenon,
             <1>13, <1>14, <1>15, <1>16, <1>17 DEF Next

\* Inv holds in every reachable state.
THEOREM Invariance == Spec => []Inv
  BY InitInv, NextInv, PTL DEF Spec

\* Every reachable session has the types of the Go struct, and a critical
\* section leaves no callback behind.
THEOREM TypeCorrect == Spec => []TypeOK
  <1>1. Inv => TypeOK
    BY Zenon DEF Inv
  <1> QED BY <1>1, Invariance, PTL

\* For every window and every sequence of calls, frames and late timers the
\* transmit queue agrees with V(S) and V(A) and stays within the window.
THEOREM WindowSafe == Spec => []WindowOK
  <1>1. Inv => WindowOK
    BY Zenon DEF Inv, Sound, WindowOK
  <1> QED BY <1>1, Invariance, PTL

\* No waiting or Connected session is without a timer.
THEOREM SupervisionSafe == Spec => []Supervised
  <1>1. Inv => Supervised
    BY Zenon DEF Inv, Sound, Watched, Supervised, T1Due, T3Due
  <1> QED BY <1>1, Invariance, PTL

\* When all reports have run, and the last of them did not cross another, the
\* application's view is that of the session.
THEOREM ApplicationAgrees == Spec => []AppAgrees
  <1>1. Inv => AppAgrees
    BY Zenon DEF Inv, Informed, AppAgrees
  <1> QED BY <1>1, Invariance, PTL

\* No step drops a payload that is not acknowledged, or reorders two.
THEOREM QueueAdvances == Spec => AckedInOrder
  <1>1. Inv /\ [Next]_vars => [Advances(c, c')]_vars
    BY NextInv, Zenon
  <1> QED BY <1>1, Invariance, PTL DEF Spec, AckedInOrder
=============================================================================
