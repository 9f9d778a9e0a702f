------------------------------- MODULE Station -------------------------------
(***************************************************************************)
(* One session (module Conn) under every order of its callers: the         *)
(* application, the goroutine that delivers received frames, and the       *)
(* goroutines of T1, T2 and T3.                                            *)
(*                                                                         *)
(* Each action but Hear is one critical section of c.mu.  Three places of  *)
(* the code let others in between:                                         *)
(*   - handleDisconnected unlocks while OnConnect runs (accepting);        *)
(*   - a timer that has fired may find c.mu taken, and its callback then   *)
(*     runs after operations that stop or restart the timer (tNLate);      *)
(*   - the callbacks a critical section has taken run after the unlock, on *)
(*     the goroutine it was in.  Those that say whether the session is up  *)
(*     wait in due, and Hear runs one of them.                             *)
(***************************************************************************)
EXTENDS Conn

CONSTANTS Frames,    \* the frames the remote stations may send
          MaxLate,   \* bound: callbacks of one timer waiting for c.mu
          MaxDue     \* bound: reports taken and not yet run

ASSUME StationAssumption == /\ Frames \subseteq Frame
                            /\ \A f \in Frames : f.peer \in Peers
                            /\ MaxLate \in Nat /\ MaxDue \in Nat

VARIABLES c,          \* the session
          accepting,  \* OnConnect of an incoming session is running; F bit owed
          due,        \* reports (OnConnect, OnDisconnect) taken and not yet run
          appUp,      \* what the report that ran last told the application
          crossed     \* the last report was taken while another one was due

vars == <<c, accepting, due, appUp, crossed>>

\* A report on the goroutine that receives frames, or on another one.
Report == [rx : BOOLEAN, up : BOOLEAN]

\* The session keeps the shape of Conn, and a critical section leaves no
\* callback in it (takePendingActions).
TypeOK == /\ c \in Session
          /\ c.pendingActions = << >>
          /\ accepting \in [on : BOOLEAN, pf : BOOLEAN]
          /\ due \in Seq(Report)
          /\ appUp \in BOOLEAN
          /\ crossed \in BOOLEAN

Init == /\ c = NewConn
        /\ accepting = [on |-> FALSE, pf |-> FALSE]
        /\ due = << >>
        /\ appUp = FALSE
        /\ crossed = FALSE

\* A report is taken; it runs after the unlock.
Take(r) == /\ Len(due) < MaxDue
           /\ due' = Append(due, r)
           /\ crossed' = (due # << >>)

\* Mutant: the callbacks stay in pendingActions.
Finish_Kept(rx, d) == c' = d /\ UNCHANGED <<due, appUp, crossed>>

\* takePendingActions and unlock, on the receiving goroutine or another one.
\* No critical section has more than one report: what issues one returns.
Finish(rx, d) ==
    /\ c' = [d EXCEPT !.pendingActions = << >>]
    /\ \/ Silent(d.pendingActions) /\ UNCHANGED <<due, crossed>>
       \/ \E i \in DOMAIN d.pendingActions :
             /\ d.pendingActions[i].cb \in {"OnConnect", "OnDisconnect"}
             /\ Take([rx |-> rx, up |-> d.pendingActions[i].cb = "OnConnect"])
    /\ UNCHANGED appUp

\* s without its i-th element
Without(s, i) == [j \in 1 .. Len(s) - 1 |-> IF j < i THEN s[j] ELSE s[j + 1]]

\* runPendingActions: due reports are on goroutines of their own, but for
\* those of the receiving one, of which there is one at a time.
Hear(i) == /\ appUp' = due[i].up
           /\ due' = Without(due, i)
           /\ UNCHANGED <<c, accepting, crossed>>

\* The receiving goroutine has run what its last critical section took.
rxIdle == \A i \in DOMAIN due : ~due[i].rx

-----------------------------------------------------------------------------
(* The application.  Close is its own decision: no callback reports it.    *)

AppConnect(p) == CanConnect(c) /\ Finish(FALSE, Connect(c, p)) /\ UNCHANGED accepting

AppShutdown == CanShutdown(c) /\ Finish(FALSE, Shutdown(c)) /\ UNCHANGED accepting

AppSendData(d) == CanSend(c) /\ Finish(FALSE, SendData(c, d)) /\ UNCHANGED accepting

AppSetBusy(busy) == Finish(FALSE, SetBusy(c, busy)) /\ UNCHANGED accepting

\* Refuse may be called from within OnConnect to reject an incoming session.
AppRefuse == accepting.on /\ rxIdle /\ c' = Refuse(c) /\ UNCHANGED <<accepting, due, appUp, crossed>>

\* A report that is due when the application closes the session comes after it.
AppClose == /\ c' = Close(c) /\ appUp' = FALSE
            /\ crossed' = (due # << >>)
            /\ UNCHANGED <<accepting, due>>

(* The receive goroutine, which is busy until its callbacks have run.      *)

RxFrame(f) == /\ ~accepting.on /\ rxIdle
              /\ ~Accepts(c, f)
              /\ Finish(TRUE, OnFrame(c, f))
              /\ UNCHANGED accepting

\* OnConnect is called with c.mu released.
RxSABM(f) == /\ ~accepting.on /\ rxIdle
             /\ Accepts(c, f)
             /\ c' = beginAccept(c, f)
             /\ accepting' = [on |-> TRUE, pf |-> f.pf]
             /\ Take([rx |-> TRUE, up |-> TRUE])
             /\ UNCHANGED appUp

RxReply == /\ accepting.on /\ rxIdle
           /\ Finish(TRUE, endAccept(c, accepting.pf))
           /\ accepting' = [accepting EXCEPT !.on = FALSE]

(* The timers.                                                             *)

T1Fire == /\ c.t1Timer /\ c.t1Late < MaxLate
          /\ c' = T1Fires(c) /\ UNCHANGED <<accepting, due, appUp, crossed>>
T2Fire == /\ c.t2Timer /\ c.t2Late < MaxLate
          /\ c' = T2Fires(c) /\ UNCHANGED <<accepting, due, appUp, crossed>>
T3Fire == /\ c.t3Timer /\ c.t3Late < MaxLate
          /\ c' = T3Fires(c) /\ UNCHANGED <<accepting, due, appUp, crossed>>

T1Expired == /\ c.t1Late > 0
             /\ Finish(FALSE, onT1Expired([c EXCEPT !.t1Late = @ - 1]))
             /\ UNCHANGED accepting
T2Expired == /\ c.t2Late > 0
             /\ Finish(FALSE, onT2Expired([c EXCEPT !.t2Late = @ - 1]))
             /\ UNCHANGED accepting
T3Expired == /\ c.t3Late > 0
             /\ Finish(FALSE, onT3Expired([c EXCEPT !.t3Late = @ - 1]))
             /\ UNCHANGED accepting

Next == \/ \E p \in Peers : AppConnect(p)
        \/ AppShutdown
        \/ \E d \in Payload : AppSendData(d)
        \/ \E busy \in BOOLEAN : AppSetBusy(busy)
        \/ AppRefuse
        \/ AppClose
        \/ \E f \in Frames : RxFrame(f) \/ RxSABM(f)
        \/ RxReply
        \/ T1Fire \/ T2Fire \/ T3Fire
        \/ T1Expired \/ T2Expired \/ T3Expired
        \/ \E i \in DOMAIN due : Hear(i)

Spec == Init /\ [][Next]_vars

-----------------------------------------------------------------------------
(* Properties.                                                             *)

\* The transmit queue and the send variables agree: the frames V(A)..V(S)-1
\* are exactly the first ones of the queue, they are the transmitted ones,
\* and each has the N(S) its place implies.  The queue never exceeds the
\* window, so V(S) never laps V(A).  sendPendingIFrames, retransmitFrom and
\* handleReceivedNR each touch only a part of this.
WindowOK == QueueOK(c)

\* No session can wait for ever in silence: while it waits for UA or DM a T1
\* expiry is due, and while it is Connected either T1 or T3 is due, whatever
\* late callbacks, stops and restarts came before.
Supervised ==
    /\ c.state \in {"AwaitingConnection", "AwaitingRelease"} => T1Due(c)
    /\ c.state = "Connected" /\ ~accepting.on => T1Due(c) \/ T3Due(c)

\* The application's view follows the session: when every report has run it
\* is up while the session carries data, and down once it is Disconnected and
\* until UA answers a Connect.  Nothing is claimed of reports that crossed:
\* the lock does not order them (OnDisconnect of a T1 goroutine may run after
\* OnConnect of the next session), and the last to run may be the older one.
Agrees(d, up) == /\ Up(d) => up
                 /\ d.state \in {"Disconnected", "AwaitingConnection"} => ~up
AppAgrees == due = << >> /\ ~crossed => Agrees(c, appUp)

\* No step loses or reorders queued data.  Unless it empties the queue for a
\* new or reset session, a step removes from the front of the queue exactly
\* the payloads by which V(A) advances, each of them already transmitted, and
\* may append new payloads at the end.
Advances(b, d) ==
    \/ d.txQueue = << >> /\ d.vs = 0 /\ d.va = 0
    \/ LET k == mod8(d.va - b.va)
           kept == Len(b.txQueue) - k
       IN  /\ k <= outstanding(b)
           /\ kept <= Len(d.txQueue)
           /\ \A i \in 1 .. kept : d.txQueue[i].data = b.txQueue[i + k].data
AckedInOrder == [][Advances(c, c')]_vars

\* The session as its user sees it.
StatusOf == [Disconnected |-> "down", AwaitingConnection |-> "calling", AwaitingRelease |-> "leaving",
             Connected |-> "up", TimerRecovery |-> "up"]
Status(d) == StatusOf[d.state]
Queued(d) == [i \in DOMAIN d.txQueue |-> d.txQueue[i].data]

News(reports) == [i \in DOMAIN reports |-> reports[i].up]

User == INSTANCE Service WITH status <- Status(c), queue <- Queued(c), first <- c.va,
                              out <- outstanding(c), news <- News(due), told <- appUp

\* conn.go keeps what Service promises: under every order of frames, timers
\* and calls a payload leaves the queue only from the front, sent and
\* acknowledged, or when the numbering starts over, and every change between
\* up and down that is not the user's own Close is reported once, though
\* reports that are due at the same time may come in any order.
KeepsPromise == User!Spec
=============================================================================
