----------------------------- MODULE ConnProofs -----------------------------
(***************************************************************************)
(* Lemmas on the operators of Conn: what each method keeps of the type of  *)
(* a session and of the agreement between transmit queue and send          *)
(* variables.                                                              *)
(***************************************************************************)
EXTENDS Conn, FiniteSetTheorems, SequenceTheorems, TLAPS

\* The clamp of NewConn makes every configured window usable.
LEMMA WindowRange == Window \in 1 .. 7
  BY ConnAssumption DEF Window

\* uint8 & 7 is a sequence number.
LEMMA Mod8Type == ASSUME NEW n \in Int PROVE mod8(n) \in SeqNo
  BY DEF mod8, SeqNo

LEMMA Mod8Shift ==
  ASSUME NEW a \in 0 .. 7, NEW s \in 0 .. 7, NEW o \in 0 .. 7, NEW i \in Nat,
         s = (a + o) % 8
  PROVE  mod8(s + (i - o) - 1) = mod8(a + i - 1)
  BY DEF mod8

\* isValidNR accepts exactly the N(R) that acknowledge no more than what is
\* outstanding, also when V(A)..V(S) wraps.
LEMMA ValidNR ==
  ASSUME NEW a \in 0 .. 7, NEW s \in 0 .. 7, NEW r \in 0 .. 7
  PROVE  (IF a <= s THEN r >= a /\ r <= s ELSE r >= a \/ r <= s)
           <=> mod8(r - a) <= mod8(s - a)
  BY DEF mod8

LEMMA OutstandingType ==
  ASSUME NEW c \in Session
  PROVE  /\ outstanding(c) \in SeqNo
         /\ c.vs = mod8(c.va + outstanding(c))
  <1>1. c.vs \in SeqNo /\ c.va \in SeqNo
    BY DEF Session
  <1> QED BY <1>1 DEF outstanding, mod8, SeqNo

\* The entries sendPendingIFrames looks at are the tail of the queue.
LEMMA IdleIsTail ==
  ASSUME NEW c \in Session, QueueOK(c)
  PROVE  /\ Idle(c.txQueue) = (outstanding(c) + 1) .. Len(c.txQueue)
         /\ \A i \in Idle(c.txQueue) : Rank(c.txQueue, i) = i - outstanding(c)
  <1> DEFINE q == c.txQueue
             o == outstanding(c)
  <1>1. q \in Seq(PendingFrame) /\ o \in 0 .. 7
    BY OutstandingType DEF Session, SeqNo
  <1>2. Idle(q) = (o + 1) .. Len(q)
    BY <1>1 DEF Idle, QueueOK
  <1>3. ASSUME NEW i \in Idle(q) PROVE Rank(q, i) = i - o
    <2>1. {j \in Idle(q) : j <= i} = (o + 1) .. i
      BY <1>1, <1>2, <1>3
    <2>2. Cardinality((o + 1) .. i) = i - o
      <3>1. o + 1 \in Int /\ i \in Int /\ o + 1 <= i
        BY <1>1, <1>2, <1>3
      <3>2. Cardinality((o + 1) .. i) = IF o + 1 > i THEN 0 ELSE i - (o + 1) + 1
        BY <3>1, FS_Interval
      <3> QED BY <1>1, <3>1, <3>2
    <2> QED BY <2>1, <2>2 DEF Rank
  <1> QED BY <1>2, <1>3

\* What sendPendingIFrames does to a queue in agreement: nothing while the
\* peer is busy, otherwise it sends everything that is left.
LEMMA SendableIsTail ==
  ASSUME NEW c \in Session, QueueOK(c)
  PROVE  /\ c.peerBusy => Sendable(c) = {}
         /\ ~c.peerBusy => Sendable(c) = (outstanding(c) + 1) .. Len(c.txQueue)
         /\ Cardinality(Sendable(c)) =
              IF c.peerBusy THEN 0 ELSE Len(c.txQueue) - outstanding(c)
  <1> DEFINE q == c.txQueue
             o == outstanding(c)
  <1>1. Len(q) \in Nat /\ o \in 0 .. 7 /\ o <= Len(q) /\ Len(q) <= Window
    BY OutstandingType DEF Session, SeqNo, QueueOK
  <1>2. c.peerBusy => Sendable(c) = {}
    BY DEF Sendable
  <1>3. ~c.peerBusy => Sendable(c) = (o + 1) .. Len(q)
    <2>1. Idle(q) = (o + 1) .. Len(q) /\ \A i \in Idle(q) : Rank(q, i) = i - o
      BY IdleIsTail
    <2>2. \A i \in Idle(q) : Rank(q, i) <= Window - o
      BY <1>1, <2>1, WindowRange
    <2> QED BY <2>1, <2>2 DEF Sendable
  <1>4. Cardinality((o + 1) .. Len(q)) = Len(q) - o
    <2>1. o + 1 \in Int /\ Len(q) \in Int
      BY <1>1
    <2>2. Cardinality((o + 1) .. Len(q)) =
             IF o + 1 > Len(q) THEN 0 ELSE Len(q) - (o + 1) + 1
      BY <2>1, FS_Interval
    <2> QED BY <1>1, <2>2
  <1> QED BY <1>2, <1>3, <1>4, FS_EmptySet

-----------------------------------------------------------------------------
(* Types: every primitive maps sessions to sessions.                       *)

LEMMA ZeroType == 0 \in SeqNo
  BY DEF SeqNo

LEMMA EnqueueType ==
  ASSUME NEW c \in Session, NEW a \in Callback
  PROVE  enqueueAction(c, a) \in Session
  <1>1. c.pendingActions \in Seq(Callback)
    BY DEF Session
  <1>2. Append(c.pendingActions, a) \in Seq(Callback)
    BY <1>1
  <1> QED BY <1>2 DEF enqueueAction, Session

LEMMA NotifyType ==
  ASSUME NEW c \in Session, NEW n \in {"OnDisconnect", "OnLinkReset", "OnError"}
  PROVE  /\ enqueueAction(c, Notify(n)) \in Session
         /\ fireError(c) \in Session
  <1>1. \A m \in {"OnDisconnect", "OnLinkReset", "OnError"} : Notify(m) \in Callback
    BY DEF Notify, Callback
  <1> QED BY <1>1, EnqueueType DEF fireError

LEMMA SendUType ==
  ASSUME NEW c \in Session, NEW k \in UKind, NEW pf \in BOOLEAN
  PROVE  sendU(c, k, pf) \in Session
  <1>1. UFrame(c, k, pf) \in Frame
    BY ZeroType DEF UFrame, Frame, Session, Payload
  <1>2. OnTxFrame(UFrame(c, k, pf)) \in Callback
    BY <1>1 DEF OnTxFrame, Callback
  <1> QED BY <1>2, EnqueueType DEF sendU

LEMMA SendSType ==
  ASSUME NEW c \in Session, NEW k \in SKind, NEW pf \in BOOLEAN
  PROVE  /\ sendS(c, k, pf) \in Session
         /\ sendAck(c, pf) \in Session
  <1>1. ASSUME NEW s \in SKind PROVE sendS(c, s, pf) \in Session
    <2>1. SFrame(c, s, pf) \in Frame
      BY ZeroType DEF SFrame, UFrame, Frame, Session, Payload
    <2>2. OnTxFrame(SFrame(c, s, pf)) \in Callback
      BY <2>1 DEF OnTxFrame, Callback
    <2> QED BY <2>2, EnqueueType DEF sendS
  <1>2. "RR" \in SKind /\ "RNR" \in SKind
    BY DEF SKind
  <1> QED BY <1>1, <1>2 DEF sendAck

LEMMA TimerTypes ==
  ASSUME NEW c \in Session
  PROVE  /\ startT1(c) \in Session /\ stopT1(c) \in Session
         /\ startT2(c) \in Session /\ stopT2(c) \in Session
         /\ startT3(c) \in Session /\ stopT3(c) \in Session
  <1>1. c.t2Late \in Nat /\ c.t2Late + 1 \in Nat
    BY DEF Session
  <1>2. startT2(c) \in Session
    BY <1>1 DEF startT2, Session
  <1>3. startT1(c) \in Session /\ stopT1(c) \in Session /\ stopT2(c) \in Session
    BY DEF startT1, stopT1, stopT2, Session
  <1>4. startT3(c) \in Session /\ stopT3(c) \in Session
    BY DEF startT3, stopT3, Session
  <1> QED BY <1>2, <1>3, <1>4

LEMMA StopAllType == ASSUME NEW c \in Session PROVE stopAllTimers(c) \in Session
  BY TimerTypes DEF stopAllTimers

LEMMA ResetType == ASSUME NEW c \in Session PROVE resetStateVars(c) \in Session
  <1>1. << >> \in Seq(PendingFrame)
    OBVIOUS
  <1> QED BY <1>1, ZeroType DEF resetStateVars, Session

LEMMA StateType ==
  ASSUME NEW c \in Session, NEW s \in ConnState
  PROVE  [c EXCEPT !.state = s] \in Session
  BY DEF Session

LEMMA EnterDisconnectedType ==
  ASSUME NEW c \in Session
  PROVE  /\ enterDisconnected(c) \in Session
         /\ startNRErrorRecovery(c) \in Session
  <1>1. ASSUME NEW d \in Session PROVE enterDisconnected(d) \in Session
    BY StopAllType, StateType, NotifyType DEF enterDisconnected, ConnState
  <1>2. "DM" \in UKind
    BY DEF UKind
  <1> QED BY <1>1, <1>2, NotifyType, SendUType DEF startNRErrorRecovery

-----------------------------------------------------------------------------
(* sendPendingIFrames.                                                     *)

LEMMA AppendEntries ==
  ASSUME NEW S, NEW s \in Seq(S), NEW a \in S
  PROVE  /\ DOMAIN s = 1 .. Len(s)
         /\ DOMAIN Append(s, a) = 1 .. Len(s) + 1
         /\ \A i \in 1 .. Len(s) + 1 :
              Append(s, a)[i] = IF i <= Len(s) THEN s[i] ELSE a
  OBVIOUS

LEMMA AppendSilent ==
  ASSUME NEW acts \in Seq(Callback), NEW a \in Callback,
         a.cb \notin {"OnConnect", "OnDisconnect"}, Silent(acts)
  PROVE  Silent(Append(acts, a))
  <1> DEFINE t == Append(acts, a)
             l == Len(acts)
  <1>1. /\ DOMAIN acts = 1 .. l /\ DOMAIN t = 1 .. l + 1
        /\ \A i \in 1 .. l + 1 : t[i] = IF i <= l THEN acts[i] ELSE a
    BY AppendEntries
  <1>2. l \in Nat
    OBVIOUS
  <1> HIDE DEF t, l
  <1> QED BY <1>1, <1>2 DEF Silent, t

\* The frames it transmits are I frames.
LEMMA TxIFrameType ==
  ASSUME NEW c \in Session, QueueOK(c), ~c.peerBusy,
         NEW k \in 1 .. Cardinality(Sendable(c))
  PROVE  /\ TxIFrame(c, Sendable(c), k) \in Callback
         /\ TxIFrame(c, Sendable(c), k).cb = "OnTxFrame"
  <1> DEFINE q == c.txQueue
             o == outstanding(c)
             S == Sendable(c)
             i == CHOOSE j \in S : Rank(q, j) = k
  <1>1. Len(q) \in Nat /\ o \in 0 .. 7 /\ o <= Len(q) /\ q \in Seq(PendingFrame)
    BY OutstandingType DEF Session, SeqNo, QueueOK
  <1>2. S = (o + 1) .. Len(q) /\ Cardinality(S) = Len(q) - o
    BY SendableIsTail
  <1>3. S = Idle(q) /\ \A j \in S : Rank(q, j) = j - o
    BY <1>2, IdleIsTail
  <1>4. o + k \in S /\ Rank(q, o + k) = k
    BY <1>1, <1>2, <1>3
  <1>5. i \in S
    BY <1>4
  <1>6. q[i].data \in Payload
    <2> HIDE DEF i
    <2>1. i \in 1 .. Len(q)
      BY <1>1, <1>2, <1>5
    <2>2. q[i] \in PendingFrame
      BY <1>1, <2>1, ElementOfSeq
    <2> QED BY <2>2 DEF PendingFrame
  <1>7. c.vs + k - 1 \in Int
    BY DEF Session, SeqNo
  <1>8. IFrame(c, mod8(c.vs + k - 1), q[i].data) \in Frame
    BY <1>6, <1>7, Mod8Type DEF IFrame, Frame, Session
  <1> QED BY <1>8 DEF TxIFrame, OnTxFrame, Callback

LEMMA MarkSentProps ==
  ASSUME NEW c \in Session, QueueOK(c), ~c.peerBusy
  PROVE  LET q == MarkSent(c, Sendable(c))
         IN  /\ q \in Seq(PendingFrame)
             /\ Len(q) = Len(c.txQueue)
             /\ \A i \in 1 .. Len(q) : /\ q[i].transmitted
                                       /\ q[i].ns = mod8(c.va + i - 1)
                                       /\ q[i].data = c.txQueue[i].data
  <1> DEFINE q == c.txQueue
             o == outstanding(c)
             S == Sendable(c)
             m == MarkSent(c, S)
  <1>1. /\ q \in Seq(PendingFrame) /\ Len(q) \in Nat /\ DOMAIN q = 1 .. Len(q)
        /\ o \in 0 .. 7 /\ o <= Len(q)
        /\ c.vs \in 0 .. 7 /\ c.va \in 0 .. 7
    BY OutstandingType DEF Session, SeqNo, QueueOK
  <1>2. S = (o + 1) .. Len(q)
    BY SendableIsTail
  <1>3. \A j \in S : Rank(q, j) = j - o
    BY <1>2, IdleIsTail
  <1>4. c.vs = (c.va + o) % 8
    BY OutstandingType DEF mod8
  <1>5. ASSUME NEW i \in 1 .. Len(q)
        PROVE  /\ m[i] \in PendingFrame
               /\ m[i].transmitted
               /\ m[i].ns = mod8(c.va + i - 1)
               /\ m[i].data = q[i].data
    <2>1. q[i] \in PendingFrame
      BY <1>1
    <2>2. CASE i \in S
      <3>1. m[i] = [data |-> q[i].data, ns |-> mod8(c.vs + (i - o) - 1), transmitted |-> TRUE]
        BY <1>1, <1>3, <2>2 DEF MarkSent
      <3>2. mod8(c.vs + (i - o) - 1) = mod8(c.va + i - 1)
        <4> HIDE DEF o
        <4>1. /\ c.va \in 0 .. 7 /\ c.vs \in 0 .. 7 /\ o \in 0 .. 7 /\ i \in Nat
              /\ c.vs = (c.va + o) % 8
          BY <1>1, <1>4
        <4> QED BY <4>1, Mod8Shift, Zenon
      <3>3. mod8(c.va + i - 1) \in SeqNo
        BY <1>1, Mod8Type
      <3> QED BY <2>1, <3>1, <3>2, <3>3 DEF PendingFrame
    <2>3. CASE i \notin S
      <3>1. m[i] = q[i] /\ i <= o
        BY <1>1, <1>2, <2>3 DEF MarkSent
      <3> QED BY <2>1, <3>1 DEF QueueOK
    <2> QED BY <2>2, <2>3
  <1>6. m \in [1 .. Len(q) -> PendingFrame]
    BY <1>1, <1>5 DEF MarkSent
  <1>7. m \in Seq(PendingFrame) /\ Len(m) = Len(q)
    BY <1>1, <1>6
  <1> QED BY <1>5, <1>7

\* sendPendingIFrames keeps the agreement and the payloads, and when it sends
\* anything T1 runs afterwards.
LEMMA SendPending ==
  ASSUME NEW c \in Session, QueueOK(c)
  PROVE  LET d == sendPendingIFrames(c)
         IN  /\ d \in Session /\ QueueOK(d)
             /\ d.state = c.state /\ d.va = c.va /\ d.t1Late = c.t1Late
             /\ d.t3Timer = c.t3Timer /\ d.t3Late = c.t3Late
             /\ d.retryCount = c.retryCount
             /\ Len(d.txQueue) = Len(c.txQueue)
             /\ \A i \in 1 .. Len(c.txQueue) : d.txQueue[i].data = c.txQueue[i].data
             /\ Silent(c.pendingActions) => Silent(d.pendingActions)
             /\ \/ d.t1Active /\ d.t1Timer
                \/ d.t1Active = c.t1Active /\ d.t1Timer = c.t1Timer
             /\ ~c.peerBusy /\ outstanding(c) < Len(c.txQueue) => d.t1Active
  <1> DEFINE q == c.txQueue
             o == outstanding(c)
             S == Sendable(c)
             n == Cardinality(S)
             m == MarkSent(c, S)
             v == mod8(c.vs + n)
             tx == [k \in 1 .. n |-> TxIFrame(c, S, k)]
             p == c.pendingActions \o tx
             sent == [c EXCEPT !.txQueue = m, !.vs = v, !.pendingActions = p]
             d == sendPendingIFrames(c)
  <1>1. /\ q \in Seq(PendingFrame) /\ Len(q) \in Nat
        /\ o \in 0 .. 7 /\ o <= Len(q) /\ Len(q) <= Window
        /\ c.vs \in 0 .. 7 /\ c.va \in 0 .. 7
        /\ c.pendingActions \in Seq(Callback)
    BY OutstandingType DEF Session, SeqNo, QueueOK
  <1>2. n = IF c.peerBusy THEN 0 ELSE Len(q) - o
    BY SendableIsTail
  <1>3. CASE n = 0
    <2>1. d = c
      BY <1>3 DEF sendPendingIFrames
    <2>2. ~(~c.peerBusy /\ o < Len(q))
      BY <1>1, <1>2, <1>3
    <2> QED BY <2>1, <2>2
  <1>4. CASE n # 0
    <2>1. ~c.peerBusy /\ n = Len(q) - o /\ n \in 1 .. 7
      <3> HIDE DEF n, o, q
      <3> QED BY <1>1, <1>2, <1>4, WindowRange
    <2>2. m \in Seq(PendingFrame) /\ Len(m) = Len(q)
      BY <2>1, MarkSentProps
    <2>3. \A i \in 1 .. Len(q) : /\ m[i].transmitted
                                /\ m[i].ns = mod8(c.va + i - 1)
                                /\ m[i].data = q[i].data
      BY <2>1, MarkSentProps
    <2>4. \A k \in 1 .. n : tx[k] \in Callback /\ tx[k].cb = "OnTxFrame"
      BY <2>1, TxIFrameType
    <2>5. tx \in Seq(Callback) /\ Len(tx) = n
      <3> HIDE DEF n
      <3>1. n \in Nat
        BY <2>1
      <3>2. tx \in [1 .. n -> Callback]
        BY <2>4
      <3> QED BY <3>1, <3>2
    <2>6. p \in Seq(Callback)
      BY <1>1, <2>5, ConcatProperties
    <2>7. Silent(c.pendingActions) => Silent(p)
      <3> HIDE DEF tx
      <3>1. DOMAIN p = 1 .. Len(c.pendingActions) + Len(tx)
        <4>1. Len(p) = Len(c.pendingActions) + Len(tx)
          BY <1>1, <2>5, ConcatProperties
        <4> QED BY <2>6, <4>1, LenProperties
      <3>2. \A i \in 1 .. Len(c.pendingActions) + Len(tx) :
               p[i] = IF i <= Len(c.pendingActions) THEN c.pendingActions[i]
                      ELSE tx[i - Len(c.pendingActions)]
        BY <1>1, <2>5, ConcatProperties
      <3>3. DOMAIN c.pendingActions = 1 .. Len(c.pendingActions)
        BY <1>1
      <3>4. \A i \in 1 .. Len(c.pendingActions) + Len(tx) :
               i > Len(c.pendingActions) => i - Len(c.pendingActions) \in 1 .. n
        BY <1>1, <2>5
      <3> QED BY <1>1, <2>4, <3>1, <3>2, <3>3, <3>4 DEF Silent
    <2>8. v \in SeqNo
      <3> HIDE DEF n
      <3> QED BY <1>1, <2>1, Mod8Type
    <2>9. (v - c.va) % 8 = Len(q)
      <3> DEFINE l == Len(q)
      <3>1. c.vs = (c.va + o) % 8 /\ o \in 0 .. 7
        BY <1>1, OutstandingType DEF mod8
      <3>2. n = l - o /\ n \in Int
        BY <2>1
      <3>3. l \in Nat /\ l <= Window /\ c.vs \in 0 .. 7 /\ c.va \in 0 .. 7
        BY <1>1
      <3> HIDE DEF n, o, l
      <3>4. l \in 0 .. 7
        BY <3>3, WindowRange
      <3>5. mod8(c.vs + (l - o)) = mod8(c.va + l)
        <4> DEFINE a == c.va
                   s == c.vs
        <4>1. /\ a \in 0 .. 7 /\ s \in 0 .. 7 /\ o \in 0 .. 7 /\ l \in 0 .. 7
              /\ s = (a + o) % 8
          BY <3>1, <3>3, <3>4
        <4>2. mod8(s + (l - o)) = mod8(a + l)
          <5> HIDE DEF a, s
          <5> QED BY <4>1 DEF mod8
        <4> QED BY <4>2
      <3>6. (mod8(c.va + l) - c.va) % 8 = l
        BY <3>3, <3>4 DEF mod8
      <3> QED BY <3>2, <3>5, <3>6 DEF l
    <2> HIDE DEF m, v, p
    <2>10. sent \in Session
      BY <2>2, <2>6, <2>8 DEF Session
    <2>11. QueueOK(sent)
      <3>1. sent.txQueue = m /\ sent.vs = v /\ sent.va = c.va
        BY DEF Session
      <3>2. outstanding(sent) = Len(q)
        BY <2>9, <3>1 DEF outstanding, mod8
      <3> QED BY <1>1, <2>2, <2>3, <3>1, <3>2 DEF QueueOK
    <2>12. d = IF c.t1Active THEN sent ELSE startT1(sent)
      BY <1>4 DEF sendPendingIFrames, m, v, p
    <2> HIDE DEF sent
    <2>13. d \in Session
      BY <2>10, <2>12, TimerTypes
    <2>14. d.vs = sent.vs /\ d.va = sent.va /\ d.txQueue = sent.txQueue
      BY <2>10, <2>12 DEF startT1, Session
    <2>15. QueueOK(d)
      BY <2>11, <2>14 DEF QueueOK, outstanding
    <2>16. /\ d.state = c.state /\ d.va = c.va /\ d.t1Late = c.t1Late
           /\ d.t3Timer = c.t3Timer /\ d.t3Late = c.t3Late
           /\ d.txQueue = m /\ d.pendingActions = p
           /\ d.retryCount = c.retryCount
      BY <2>12 DEF sent, startT1, Session
    <2>17. /\ d.t1Active
           /\ d.t1Timer \/ (d.t1Active = c.t1Active /\ d.t1Timer = c.t1Timer)
      BY <2>12 DEF sent, startT1, Session
    <2> QED BY <2>2, <2>3, <2>7, <2>13, <2>15, <2>16, <2>17
  <1> QED BY <1>3, <1>4

-----------------------------------------------------------------------------
(* handleReceivedNR.                                                       *)

\* SubSeq drops the first k entries.
LEMMA DropFirst ==
  ASSUME NEW S, NEW q \in Seq(S), NEW k \in 0 .. Len(q)
  PROVE  /\ SubSeq(q, k + 1, Len(q)) \in Seq(S)
         /\ Len(SubSeq(q, k + 1, Len(q))) = Len(q) - k
         /\ \A i \in 1 .. Len(q) - k : SubSeq(q, k + 1, Len(q))[i] = q[i + k]
  <1>1. Len(q) \in Nat /\ \A i \in 1 .. Len(q) : q[i] \in S
    BY LenProperties, ElementOfSeq
  <1>2. \A i \in (k + 1) .. Len(q) : q[i] \in S
    BY <1>1
  <1>3. k + 1 \in Int /\ Len(q) \in Int
    BY <1>1
  <1>4. /\ SubSeq(q, k + 1, Len(q)) \in Seq(S)
        /\ Len(SubSeq(q, k + 1, Len(q))) =
             IF k + 1 <= Len(q) THEN Len(q) - (k + 1) + 1 ELSE 0
        /\ \A i \in 1 .. Len(q) - (k + 1) + 1 :
             SubSeq(q, k + 1, Len(q))[i] = q[(k + 1) + i - 1]
    BY <1>2, <1>3, SubSeqProperties
  <1> DEFINE t == SubSeq(q, k + 1, Len(q))
             l == Len(q)
  <1>5. /\ Len(t) = IF k + 1 <= l THEN l - (k + 1) + 1 ELSE 0
        /\ \A i \in 1 .. l - (k + 1) + 1 : t[i] = q[(k + 1) + i - 1]
    BY <1>4
  <1>6. l \in Nat /\ k \in 0 .. l
    BY <1>1
  <1> HIDE DEF t, l
  <1>7. Len(t) = l - k
    BY <1>5, <1>6
  <1>8. ASSUME NEW i \in 1 .. l - k PROVE t[i] = q[i + k]
    <2>1. i \in 1 .. l - (k + 1) + 1 /\ (k + 1) + i - 1 = i + k
      BY <1>6
    <2> QED BY <1>5, <2>1
  <1> QED BY <1>4, <1>7, <1>8 DEF t, l

\* Popping what a valid N(R) acknowledges keeps the agreement.
LEMMA PopAcked ==
  ASSUME NEW c \in Session, QueueOK(c), NEW nr \in SeqNo, isValidNR(c, nr)
  PROVE  LET k == mod8(nr - c.va)
             p == [c EXCEPT !.txQueue = SubSeq(@, k + 1, Len(@)), !.va = nr]
         IN  /\ k \in 0 .. 7 /\ k <= outstanding(c)
             /\ p \in Session /\ QueueOK(p)
             /\ outstanding(p) = outstanding(c) - k
             /\ Len(p.txQueue) = Len(c.txQueue) - k
             /\ \A i \in 1 .. Len(c.txQueue) - k :
                   p.txQueue[i].data = c.txQueue[i + k].data
  <1> DEFINE a == c.va
             s == c.vs
             o == mod8(s - a)
             k == mod8(nr - a)
             q == c.txQueue
             l == Len(q)
             t == SubSeq(q, k + 1, Len(q))
             p == [c EXCEPT !.txQueue = t, !.va = nr]
  <1>1. a \in 0 .. 7 /\ s \in 0 .. 7 /\ nr \in 0 .. 7 /\ q \in Seq(PendingFrame)
    BY DEF Session, SeqNo
  <1>2. o = outstanding(c)
    BY DEF outstanding
  <1>3. k <= o
    <2>1. IF a <= s THEN nr >= a /\ nr <= s ELSE nr >= a \/ nr <= s
      BY DEF isValidNR
    <2> HIDE DEF a, s
    <2> QED BY <1>1, <2>1, ValidNR
  <1>4. /\ k \in 0 .. 7 /\ o \in 0 .. 7 /\ mod8(s - nr) = o - k
        /\ \A i \in 1 .. 7 : mod8(a + (i + k) - 1) = mod8(nr + i - 1)
    <2> HIDE DEF a, s
    <2>1. k \in 0 .. 7 /\ o \in 0 .. 7 /\ mod8(s - nr) = o - k
      BY <1>1, <1>3 DEF mod8
    <2>2. \A i \in 1 .. 7 : mod8(a + (i + k) - 1) = mod8(nr + i - 1)
      BY <1>1 DEF mod8
    <2> QED BY <2>1, <2>2
  <1>5. /\ l \in Nat /\ o <= l /\ l <= Window
        /\ \A i \in 1 .. l : /\ q[i].transmitted <=> i <= o
                             /\ i <= o => q[i].ns = mod8(a + i - 1)
    BY <1>1 DEF QueueOK, outstanding
  <1> HIDE DEF a, s, o, k, q, l
  <1>6. k \in 0 .. l /\ l <= 7
    BY <1>3, <1>4, <1>5, WindowRange
  <1>7. /\ t \in Seq(PendingFrame) /\ Len(t) = l - k
        /\ \A i \in 1 .. l - k : t[i] = q[i + k]
    BY <1>1, <1>6, DropFirst DEF l
  <1> HIDE DEF t
  <1>8. p \in Session
    BY <1>7 DEF Session
  <1>9. p.txQueue = t /\ p.va = nr /\ p.vs = s
    BY DEF Session, s
  <1>10. outstanding(p) = o - k
    BY <1>4, <1>9 DEF outstanding
  <1>11. ASSUME NEW i \in 1 .. l - k
         PROVE  /\ t[i].transmitted <=> i <= o - k
                /\ i <= o - k => t[i].ns = mod8(nr + i - 1)
    <2>1. i + k \in 1 .. l /\ i \in 1 .. 7
      BY <1>4, <1>5, <1>6
    <2>2. t[i] = q[i + k]
      BY <1>7
    <2>3. q[i + k].transmitted <=> i + k <= o
      BY <1>5, <2>1, Zenon
    <2>4. i + k <= o => q[i + k].ns = mod8(a + (i + k) - 1)
      BY <1>5, <2>1, Zenon
    <2>5. mod8(a + (i + k) - 1) = mod8(nr + i - 1)
      BY <1>4, <2>1
    <2>6. i + k <= o <=> i <= o - k
      BY <1>4, <2>1
    <2> QED BY <2>2, <2>3, <2>4, <2>5, <2>6
  <1>12. QueueOK(p)
    <2>1. o - k <= l - k /\ l - k <= Window
      BY <1>4, <1>5, <1>7, WindowRange
    <2> QED BY <1>7, <1>9, <1>10, <1>11, <2>1 DEF QueueOK
  <1> QED BY <1>2, <1>3, <1>4, <1>7, <1>8, <1>9, <1>10, <1>12 DEF p, t, k, q, a, l

\* An acknowledgement leaves T1 or T3 running: T3 when nothing is outstanding
\* any more, T1 otherwise.
Acks(c, nr, d) ==
  LET k == mod8(nr - c.va)
  IN  /\ d \in Session /\ QueueOK(d)
      /\ d.state = c.state /\ d.vs = c.vs /\ d.va = nr
      /\ d.peerBusy = c.peerBusy /\ d.localBusy = c.localBusy
      /\ d.t1Late = c.t1Late /\ d.t3Late = c.t3Late
      /\ outstanding(d) = outstanding(c) - k
      /\ k \in 0 .. 7 /\ k <= outstanding(c)
      /\ Len(d.txQueue) = Len(c.txQueue) - k
      /\ \A i \in 1 .. Len(c.txQueue) - k :
            d.txQueue[i].data = c.txQueue[i + k].data
      /\ Silent(c.pendingActions) => Silent(d.pendingActions)
      /\ nr = c.vs => d.t3Timer /\ ~d.t1Active
      /\ nr # c.vs => /\ d.t1Active /\ d.t3Timer = c.t3Timer
                      /\ d.t1Timer \/ (c.t1Active /\ d.t1Timer = c.t1Timer)

LEMMA HandleNR ==
  ASSUME NEW c \in Session, QueueOK(c), NEW nr \in SeqNo, isValidNR(c, nr)
  PROVE  Acks(c, nr, handleReceivedNR(c, nr))
  <1> DEFINE k == mod8(nr - c.va)
             p == [c EXCEPT !.txQueue = SubSeq(@, k + 1, Len(@)), !.va = nr]
             e == IF k > 0 THEN enqueueAction(p, OnTxAck(k)) ELSE p
             d == handleReceivedNR(c, nr)
  <1>1. /\ k \in 0 .. 7 /\ k <= outstanding(c)
        /\ p \in Session /\ QueueOK(p)
        /\ outstanding(p) = outstanding(c) - k
        /\ Len(p.txQueue) = Len(c.txQueue) - k
        /\ \A i \in 1 .. Len(c.txQueue) - k :
              p.txQueue[i].data = c.txQueue[i + k].data
    BY PopAcked
  <1>2. /\ p.state = c.state /\ p.vs = c.vs /\ p.va = nr
        /\ p.peerBusy = c.peerBusy /\ p.localBusy = c.localBusy
        /\ p.t1Late = c.t1Late /\ p.t3Late = c.t3Late
        /\ p.t1Timer = c.t1Timer /\ p.t3Timer = c.t3Timer
        /\ p.pendingActions = c.pendingActions
    BY DEF Session
  <1>3. d = IF nr = c.vs THEN startT3(stopT1(e)) ELSE IF c.t1Active THEN e ELSE startT1(e)
    BY DEF handleReceivedNR, popAcked
  <1>4. p.t1Active = c.t1Active
    BY DEF Session
  <1> HIDE DEF k, p
  <1>5. k > 0 => OnTxAck(k) \in Callback /\ OnTxAck(k).cb = "OnTxAck"
    BY <1>1 DEF OnTxAck, Callback
  <1>6. e \in Session
    BY <1>1, <1>5, EnqueueType
  <1>7. e = p \/ (k > 0 /\ e = [p EXCEPT !.pendingActions = Append(@, OnTxAck(k))])
    BY DEF enqueueAction
  <1>8. Silent(p.pendingActions) => Silent(e.pendingActions)
    <2>1. CASE e = p
      BY <2>1
    <2>2. CASE k > 0 /\ e = [p EXCEPT !.pendingActions = Append(@, OnTxAck(k))]
      <3>1. e.pendingActions = Append(p.pendingActions, OnTxAck(k))
        BY <1>1, <2>2 DEF Session
      <3>2. p.pendingActions \in Seq(Callback)
        BY <1>1 DEF Session
      <3> QED BY <1>5, <2>2, <3>1, <3>2, AppendSilent
    <2> QED BY <1>7, <2>1, <2>2
  <1>9. /\ e.state = p.state /\ e.vs = p.vs /\ e.va = p.va /\ e.txQueue = p.txQueue
        /\ e.peerBusy = p.peerBusy /\ e.localBusy = p.localBusy
        /\ e.t1Late = p.t1Late /\ e.t3Late = p.t3Late
        /\ e.t1Timer = p.t1Timer /\ e.t3Timer = p.t3Timer /\ e.t1Active = p.t1Active
    BY <1>1, <1>7 DEF Session
  <1> HIDE DEF e
  <1>10. d \in Session
    BY <1>3, <1>6, TimerTypes
  <1>11. /\ d.state = e.state /\ d.vs = e.vs /\ d.va = e.va /\ d.txQueue = e.txQueue
         /\ d.peerBusy = e.peerBusy /\ d.localBusy = e.localBusy
         /\ d.t1Late = e.t1Late /\ d.t3Late = e.t3Late
         /\ d.pendingActions = e.pendingActions
    BY <1>3, <1>6 DEF startT1, stopT1, startT3, Session
  <1>12. nr = c.vs => d.t3Timer /\ ~d.t1Active
    BY <1>3, <1>6 DEF stopT1, startT3, Session
  <1>13. nr # c.vs => /\ d.t1Active /\ d.t3Timer = e.t3Timer
                      /\ d.t1Timer \/ (c.t1Active /\ d.t1Timer = e.t1Timer)
    BY <1>3, <1>4, <1>6, <1>9 DEF startT1, Session
  <1>14. QueueOK(d) /\ outstanding(d) = outstanding(p)
    BY <1>1, <1>9, <1>11 DEF QueueOK, outstanding
  <1> HIDE DEF d
  <1> QED BY <1>1, <1>2, <1>8, <1>9, <1>10, <1>11, <1>12, <1>13, <1>14 DEF Acks, d, k
=============================================================================
