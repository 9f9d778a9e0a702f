-------------------------------- MODULE Link --------------------------------
(***************************************************************************)
(* Two stations, each with one session (module Conn), over a channel that  *)
(* keeps the order of frames and may lose them.  Every handler runs with   *)
(* its callbacks in one step, as when the application, the receive         *)
(* goroutine and the timers of a station never overlap; the overlaps are   *)
(* the subject of Station.                                                 *)
(*                                                                         *)
(* A channel holds at most MaxChan frames: the transmit queue of a router  *)
(* port drops what does not fit, and so does the model.                    *)
(***************************************************************************)
EXTENDS Conn, SequencesExt

CONSTANTS A, B,      \* the two stations
          Budgets,   \* bounds: how often each operation of Op may happen
          MaxChan,   \* bound: frames in flight in one direction
          Timely     \* timers are ordered by their durations, see Quiet

Node == {A, B}
Other(n) == IF n = A THEN B ELSE A

Op == {"Connect", "Shutdown", "SendData", "SetBusy", "Refuse", "Close", "Lose",
       "Late"}

ASSUME LinkAssumption == /\ A # B
                         /\ Peers = Node
                         /\ \A b \in Budgets : /\ b \in [Op -> Nat]
                                               /\ 1 .. b["SendData"] \subseteq Data
                         /\ MaxChan \in Nat
                         /\ Timely \in BOOLEAN

VARIABLES conn,       \* the session of each station
          net,        \* the frames on their way to each station
          closed,     \* the stations whose application has called Close
          left,       \* what is left of the budget of this behaviour
          queued,     \* the station each payload was queued at, by payload
          delivered,  \* the payloads OnData gave to each application
          acked       \* the payloads OnTxAck reported to each application

vars == <<conn, net, closed, left, queued, delivered, acked>>

Init == /\ conn = [n \in Node |-> NewConn]
        /\ net = [n \in Node |-> << >>]
        /\ closed = {}
        /\ left \in Budgets
        /\ queued = << >>
        /\ delivered = [n \in Node |-> << >>]
        /\ acked = [n \in Node |-> {}]

-----------------------------------------------------------------------------
(* runPendingActions at station n, whose session has become d.             *)

Calls(d, name) == SelectSeq(d.pendingActions, LAMBDA a : a.cb = name)

\* OnTxFrame: the other station will see n as the source of the frame.
Transmit(flight, n, acts) ==
    LET fs == [i \in DOMAIN acts |-> [acts[i].frame EXCEPT !.peer = n]]
        all == flight[Other(n)] \o fs
    IN  [flight EXCEPT ![Other(n)] =
            SubSeq(all, 1, IF Len(all) > MaxChan THEN MaxChan ELSE Len(all))]

Finish(n, d, flight) ==
    /\ conn' = [conn EXCEPT ![n] = [d EXCEPT !.pendingActions = << >>]]
    /\ net' = Transmit(flight, n, Calls(d, "OnTxFrame"))
    /\ delivered' =
         [delivered EXCEPT ![n] =
            LET acts == Calls(d, "OnData") IN @ \o [i \in DOMAIN acts |-> acts[i].data]]
    /\ acked' =
         [acked EXCEPT ![n] =
            @ \cup UNION {{conn[n].txQueue[i].data : i \in 1 .. a.count} :
                            a \in ToSet(Calls(d, "OnTxAck"))}]

Spend(op) == left[op] > 0 /\ left' = [left EXCEPT ![op] = @ - 1]

-----------------------------------------------------------------------------
(* The applications.  Close is the last call an application makes; the     *)
(* session itself does not know that it was closed and goes on to answer   *)
(* frames.                                                                 *)

AppConnect(n) == /\ n \notin closed /\ CanConnect(conn[n])
                 /\ Spend("Connect")
                 /\ Finish(n, Connect(conn[n], Other(n)), net)
                 /\ UNCHANGED <<closed, queued>>

AppShutdown(n) == /\ n \notin closed /\ CanShutdown(conn[n])
                  /\ Spend("Shutdown")
                  /\ Finish(n, Shutdown(conn[n]), net)
                  /\ UNCHANGED <<closed, queued>>

\* Payloads are numbered in the order in which they are queued.
AppSendData(n) == /\ n \notin closed /\ CanSend(conn[n])
                  /\ Spend("SendData")
                  /\ queued' = Append(queued, n)
                  /\ Finish(n, SendData(conn[n], Len(queued) + 1), net)
                  /\ UNCHANGED closed

AppSetBusy(n, busy) == /\ n \notin closed /\ conn[n].localBusy # busy
                       /\ Spend("SetBusy")
                       /\ Finish(n, SetBusy(conn[n], busy), net)
                       /\ UNCHANGED <<closed, queued>>

AppClose(n) == /\ n \notin closed
               /\ Spend("Close")
               /\ closed' = closed \cup {n}
               /\ Finish(n, Close(conn[n]), net)
               /\ UNCHANGED queued

(* The channel.                                                            *)

Receive(n) == /\ net[n] # << >>
              /\ ~Accepts(conn[n], Head(net[n]))
              /\ Finish(n, OnFrame(conn[n], Head(net[n])),
                        [net EXCEPT ![n] = Tail(@)])
              /\ UNCHANGED <<closed, left, queued>>

ReceiveSABM(n) ==
    /\ net[n] # << >>
    /\ Accepts(conn[n], Head(net[n]))
    /\ LET f == Head(net[n])
           c1 == beginAccept(conn[n], f)
       IN  \/ /\ Finish(n, endAccept(c1, f.pf), [net EXCEPT ![n] = Tail(@)])
              /\ UNCHANGED left
           \/ /\ Spend("Refuse")
              /\ Finish(n, endAccept(Refuse(c1), f.pf), [net EXCEPT ![n] = Tail(@)])
    /\ UNCHANGED <<closed, queued>>

Lose(n) == /\ Spend("Lose") /\ net[n] # << >>
           /\ net' = [net EXCEPT ![n] = Tail(@)]
           /\ UNCHANGED <<conn, closed, queued, delivered, acked>>

(* The timers: T2 < T1 < T3 in every configuration the program ships with. *)
(* When Timely holds, the channel is fast and a timer expires only if      *)
(* every shorter wait is over.  Otherwise it may expire at any time, as    *)
(* often as the budget for "Late" allows.                                  *)

InFlight == \E n \in Node : net[n] # << >>
Quiet1 == ~InFlight /\ \A n \in Node : ~conn[n].t2Timer
Quiet3 == Quiet1 /\ \A n \in Node : ~conn[n].t1Timer

Expires(quiet) == \/ quiet /\ UNCHANGED left
                  \/ ~Timely /\ ~quiet /\ Spend("Late")

T1Expires(n) == /\ conn[n].t1Timer /\ Expires(Quiet1)
                /\ Finish(n, onT1Expired([conn[n] EXCEPT !.t1Timer = FALSE]), net)
                /\ UNCHANGED <<closed, queued>>

T2Expires(n) == /\ conn[n].t2Timer
                /\ Finish(n, onT2Expired([conn[n] EXCEPT !.t2Timer = FALSE]), net)
                /\ UNCHANGED <<closed, left, queued>>

T3Expires(n) == /\ conn[n].t3Timer /\ Expires(Quiet3)
                /\ Finish(n, onT3Expired([conn[n] EXCEPT !.t3Timer = FALSE]), net)
                /\ UNCHANGED <<closed, queued>>

Timers(n) == T1Expires(n) \/ T2Expires(n) \/ T3Expires(n)

Next == \E n \in Node :
           \/ AppConnect(n) \/ AppShutdown(n) \/ AppSendData(n) \/ AppClose(n)
           \/ \E busy \in BOOLEAN : AppSetBusy(n, busy)
           \/ Receive(n) \/ ReceiveSABM(n) \/ Lose(n)
           \/ Timers(n)

Spec == Init /\ [][Next]_vars

\* Frames that are not lost arrive and timers expire; nothing is assumed of
\* the applications.
Fairness == \A n \in Node : /\ WF_vars(Receive(n))
                            /\ WF_vars(ReceiveSABM(n))
                            /\ WF_vars(T1Expires(n))
                            /\ WF_vars(T2Expires(n))
                            /\ WF_vars(T3Expires(n))

FairSpec == Spec /\ Fairness

-----------------------------------------------------------------------------
(* Properties.                                                             *)

\* What an application receives comes from the other one, in the order in
\* which it was queued, and never twice: handleIFrame passes on a payload only
\* when N(S) = V(R), across loss, REJ, poll and retransmission, and across
\* the end of one session and the start of the next.
InOrder ==
    \A n \in Node :
        /\ \A i \in DOMAIN delivered[n] : queued[delivered[n][i]] = Other(n)
        /\ \A i, j \in DOMAIN delivered[n] : i < j => delivered[n][i] < delivered[n][j]

\* OnTxAck reports only payloads that OnData has given to the other
\* application: "the remote acknowledges".
AckedIsDelivered ==
    \A n \in Node : acked[n] \subseteq ToSet(delivered[Other(n)])

\* A call to Connect or Shutdown is always answered: no session stays in a
\* state that waits for the peer.
Awaiting(n) == conn[n].state \in {"AwaitingConnection", "AwaitingRelease"}
Resolves == \A n \in Node : Awaiting(n) ~> ~Awaiting(n)

\* SendData "queues data for transmission": a queued payload is acknowledged,
\* or its session ends or is reset.
Waits(n, d) == /\ Up(conn[n])
               /\ \E i \in DOMAIN conn[n].txQueue : conn[n].txQueue[i].data = d
Progress == \A n \in Node : \A d \in Data : Waits(n, d) ~> ~Waits(n, d)

\* The same when the applications call SetBusy: a receiver that ends its busy
\* condition, and so sends RR, lets the queued data go on.
ReadyAgain == \A n \in Node : <>[]~conn[n].localBusy
ProgressWhenReady == ReadyAgain => Progress

\* A station whose peer has gone finds out: no session stays up against a
\* station that is Disconnected.
HalfOpen(n) == Up(conn[n]) /\ conn[Other(n)].state = "Disconnected"
NoHalfOpen == \A n \in Node : HalfOpen(n) ~> ~HalfOpen(n)
=============================================================================
