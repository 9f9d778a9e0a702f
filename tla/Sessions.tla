------------------------------ MODULE Sessions ------------------------------
(***************************************************************************)
(* A session seen from one side and from both: Station, one session        *)
(* against any frames and late timers, and "pair" (Link: two sessions that *)
(* answer each other).  Which one runs is chosen in the initial state; the *)
(* other stays as it is.  Station runs three times, each time with all its *)
(* goroutines and a part of what the application and the remote station    *)
(* may do.                                                                 *)
(***************************************************************************)
EXTENDS MCStation

CONSTANTS A, B, Budgets, MaxChan, Timely, Sends   \* Link

VARIABLES part, conn, net, closed, left, queued, delivered, acked

Pair == INSTANCE Link WITH Data <- 1 .. Sends, Peers <- {A, B}

\* The applications call and shut down once, send one payload and call Close
\* once; the channel loses one frame.
Once == {"Connect", "Shutdown", "Close", "Lose"}
Never == {"SetBusy", "Refuse", "Late"}
PairBudget == [op \in Once \cup Never \cup {"SendData"} |->
                 IF op = "SendData" THEN Sends ELSE IF op \in Once THEN 1 ELSE 0]
PairBudgets == {PairBudget}

pairVars == <<conn, net, closed, left, queued, delivered, acked>>

\* "calls": no data, and reports in every order.  "timers": late callbacks of
\* all timers, payloads of one kind.  "data": payloads that can be told apart,
\* and busy conditions; no callback is late.  The last two run a
\* report as soon as it is due.
AtOnce(waiting, waiting2) == waiting > 0 => waiting2 < waiting
Late(d) == d.t1Late + d.t2Late + d.t3Late
Ready(d) == ~d.localBusy /\ ~d.peerBusy
Alike(queue) == \A i \in DOMAIN queue : queue[i].data = Empty
Focus == /\ part = "calls" => c'.txQueue = << >> /\ c'.vr = 0 /\ Ready(c')
         /\ part = "timers" => AtOnce(Len(due), Len(due')) /\ Alike(c'.txQueue) /\ Ready(c')
         /\ part = "data" => AtOnce(Len(due), Len(due')) /\ AtOnce(Late(c), Late(c'))

SessionsInit == part \in {"calls", "timers", "data", "pair"} /\ Init /\ Pair!Init

SessionsNext == /\ UNCHANGED part
                /\ \/ part # "pair" /\ Next /\ Focus /\ UNCHANGED pairVars
                   \/ part = "pair" /\ Pair!Next /\ UNCHANGED vars

\* Frames that are not lost arrive and timers expire; nothing is assumed of
\* the applications.
PairFair == \A n \in {A, B} : /\ WF_pairVars(part = "pair" /\ Pair!Receive(n))
                              /\ WF_pairVars(part = "pair" /\ Pair!ReceiveSABM(n))
                              /\ WF_pairVars(part = "pair" /\ Pair!T1Expires(n))
                              /\ WF_pairVars(part = "pair" /\ Pair!T2Expires(n))
                              /\ WF_pairVars(part = "pair" /\ Pair!T3Expires(n))

SessionsSpec == SessionsInit /\ [][SessionsNext]_<<part, pairVars, vars>> /\ PairFair

-----------------------------------------------------------------------------
(* Properties: those of Station, and of Link.                              *)

\* Link: Connect and Shutdown end, whatever the channel loses (onT1Expired).
Resolves == Pair!Resolves

\* Link: a queued payload is acknowledged, or its session ends.
Progress == Pair!Progress
=============================================================================
