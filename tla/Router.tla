------------------------------- MODULE Router -------------------------------
(***************************************************************************)
(* The frame router (ax25/router.go) with its ports, their worker          *)
(* goroutines, and digipeaters (ax25/digipeater.go) as ports whose handler *)
(* sends again.                                                            *)
(*                                                                         *)
(* Every goroutine takes its steps between two lock operations: Send first *)
(* looks at closed, then copies the ports, then classifies them, then      *)
(* offers the frame to one port after the other, while other goroutines    *)
(* register, unregister, close and send.  Reads of Destination while the   *)
(* ports are classified are one step; router.go does them without p.mu.    *)
(***************************************************************************)
EXTENDS Integers, Sequences, SequencesExt, FiniteSets

CONSTANTS Ports,       \* the Port objects
          Mode,        \* Port.Mode, by port
          Address,     \* Port.Destination when the port is made, by port
          Unbound,     \* the zero Address
          Depth,       \* capacity of txCh
          Senders,     \* goroutines that call Send
          Admins,      \* goroutines that call RegisterPort, UnregisterPort, Close
          Setups       \* the routers to look at, and what is asked of them

PortMode == {"Static", "Default", "Promiscuous", "Digipeater", "Dynamic"}

\* A setup: the mode of the router; its ports, and those registered before
\* traffic starts, in order; the frames and source ports Send may be called
\* with; the admins at work; and a bound on the calls of Send by each goroutine.
ASSUME RouterAssumption ==
    /\ Mode \in [Ports -> PortMode]
    /\ Depth \in Nat \ {0} /\ Senders \cap Ports = {}
    /\ \A s \in Setups : /\ s.mode \in {"switch", "bridge", "hub"}
                         /\ s.ports \subseteq Ports /\ s.admins \subseteq Admins
                         /\ s.start \in Seq(s.ports) /\ IsInjective(s.start)
                         /\ \A x \in s.traffic : x.from \in s.ports
                         /\ s.sends \in [Senders -> Nat]

VARIABLES setup,    \* the setup, which is fixed; Router.mode
          ports,    \* Router.ports
          closed,   \* Router.closed
          used,     \* the ports RegisterPort was called with
          dest,     \* Port.Destination
          started,  \* Port.started
          txCh,     \* Port.txCh
          closes,   \* how often Port.quitCh was closed
          worker,   \* each port's goroutine: "none", "idle", "busy" or "done"
          send,     \* the call of Send a sender or a digipeater's worker is in
          admin,    \* the call an admin is in
          sent,     \* calls of Send so far, by goroutine
          offered,  \* every call of deliver: the frame, from, to
          last      \* the last frame of each goroutine each OnRxFrame was called with

vars == <<setup, ports, closed, used, dest, started, txCh, closes, worker, send, admin,
          sent, offered, last>>

Thread == Senders \cup {p \in Ports : Mode[p] = "Digipeater"}

NoSend == [pc |-> "idle"]
NoCall == [pc |-> "idle"]

Init == /\ setup \in Setups
        /\ ports = setup.start
        /\ closed = FALSE
        /\ used = ToSet(ports)
        /\ dest = Address
        /\ started = [p \in Ports |-> p \in used]
        /\ txCh = [p \in Ports |-> << >>]
        /\ closes = [p \in Ports |-> 0]
        /\ worker = [p \in Ports |-> IF p \in used THEN "idle" ELSE "none"]
        /\ send = [t \in Thread |-> NoSend]
        /\ admin = [a \in Admins |-> NoCall]
        /\ sent = [t \in Thread |-> 0]
        /\ offered = {}
        /\ last = [p \in Ports |-> [t \in Thread |-> 0]]

routerVars == <<ports, closed, used, started, closes>>
sendVars == <<dest, send, sent, offered>>

-----------------------------------------------------------------------------
(* Digipeater hops.                                                        *)

hasUnrepeatedDigi(f) == \E i \in DOMAIN f.via : ~f.via[i].rep

\* Mutant: the hop need not be the next one.
isNextDigiHop_Any(f, a) ==
    \E i \in DOMAIN f.via : ~f.via[i].rep /\ f.via[i].addr = a

isNextDigiHop(f, a) ==
    \E i \in DOMAIN f.via : /\ ~f.via[i].rep /\ f.via[i].addr = a
                            /\ \A j \in 1 .. i - 1 : f.via[j].rep

\* The first unrepeated hop with this address, which need not be the next hop.
markDigiHop(f, a) ==
    LET i == CHOOSE i \in DOMAIN f.via :
                /\ ~f.via[i].rep /\ f.via[i].addr = a
                /\ \A j \in 1 .. i - 1 : f.via[j].rep \/ f.via[j].addr # a
    IN  [f EXCEPT !.via[i].rep = TRUE]

-----------------------------------------------------------------------------
(* Which ports a frame is offered to, in order.                            *)

Others(src, ps) == SelectSeq(ps, LAMBDA p : p # src)
OfMode(ps, m) == SelectSeq(ps, LAMBDA p : Mode[p] = m)
Matching(f, ps) == SelectSeq(ps, LAMBDA p : /\ Mode[p] \in {"Static", "Dynamic"}
                                            /\ dest[p] = f.dst)

\* The last matching port wins; default ports see a frame only without one.
sendSwitch(f, ps) ==
    LET match == Matching(f, ps)
    IN  OfMode(ps, "Promiscuous") \o
        IF hasUnrepeatedDigi(f) THEN OfMode(ps, "Digipeater")
        ELSE IF match # << >> THEN <<Last(match)>> ELSE OfMode(ps, "Default")

sendBridge(src, ps) ==
    IF Mode[src] = "Default" THEN SelectSeq(ps, LAMBDA p : Mode[p] # "Default")
    ELSE OfMode(ps, "Default")

Route(f, src, ps) ==
    CASE setup.mode = "switch" -> sendSwitch(f, Others(src, ps))
      [] setup.mode = "bridge" -> sendBridge(src, Others(src, ps))
      [] setup.mode = "hub" -> Others(src, ps)

-----------------------------------------------------------------------------
(* Send.                                                                   *)

\* Send returns ErrRouterClosed once closed is set.
Begin(t, f, src) ==
    /\ sent' = [sent EXCEPT ![t] = @ + 1]
    /\ send' = [send EXCEPT ![t] =
          IF closed THEN NoSend
          ELSE [pc |-> "copy", from |-> src,
                f |-> [id |-> <<t, sent[t] + 1>>, src |-> f.src, dst |-> f.dst, via |-> f.via]]]

SendBegin(t) == /\ t \in Senders /\ send[t].pc = "idle" /\ sent[t] < setup.sends[t]
                /\ \E x \in setup.traffic : Begin(t, x, x.from)
                /\ UNCHANGED <<routerVars, dest, txCh, worker, admin, offered, last>>

SendCopy(t) == /\ send[t].pc = "copy"
               /\ send' = [send EXCEPT ![t] = [pc |-> "route", from |-> @.from, f |-> @.f,
                                               among |-> ports]]
               /\ UNCHANGED <<routerVars, dest, txCh, worker, admin, sent, offered, last>>

\* Mutant: every frame binds the port.
SendBind_Rebind(t) ==
    /\ send[t].pc = "route"
    /\ LET src == send[t].from
       IN  dest' = IF setup.mode = "switch" /\ Mode[src] = "Dynamic"
                   THEN [dest EXCEPT ![src] = send[t].f.src] ELSE dest
    /\ send' = [send EXCEPT ![t].pc = "classify"]
    /\ UNCHANGED <<routerVars, txCh, worker, admin, sent, offered, last>>

\* An unbound dynamic port takes the source of its first frame.
SendBind(t) ==
    /\ send[t].pc = "route"
    /\ LET src == send[t].from
       IN  dest' = IF /\ setup.mode = "switch" /\ Mode[src] = "Dynamic"
                      /\ dest[src] = Unbound
                   THEN [dest EXCEPT ![src] = send[t].f.src] ELSE dest
    /\ send' = [send EXCEPT ![t].pc = "classify"]
    /\ UNCHANGED <<routerVars, txCh, worker, admin, sent, offered, last>>

SendClassify(t) ==
    /\ send[t].pc = "classify"
    /\ send' = [send EXCEPT ![t] =
          [pc |-> "deliver", from |-> @.from, f |-> @.f, among |-> @.among,
           todo |-> Route(@.f, @.from, @.among)]]
    /\ UNCHANGED <<routerVars, dest, txCh, worker, admin, sent, offered, last>>

\* Mutant: the channel has no limit.
SendDeliver_NoLimit(t) ==
    /\ send[t].pc = "deliver" /\ send[t].todo # << >>
    /\ LET p == Head(send[t].todo)
           f == send[t].f
       IN  /\ txCh' = [txCh EXCEPT ![p] = Append(@, f)]
           /\ offered' = offered \cup {[f |-> f, from |-> send[t].from, to |-> p]}
    /\ send' = [send EXCEPT ![t].todo = Tail(@)]
    /\ UNCHANGED <<routerVars, dest, worker, admin, sent, last>>

\* Mutant: the frame is offered until the channel is full.
SendDeliver_Again(t) ==
    /\ send[t].pc = "deliver" /\ send[t].todo # << >>
    /\ LET p == Head(send[t].todo)
           f == send[t].f
           full == Len(txCh[p]) >= Depth
       IN  /\ txCh' = IF full THEN txCh ELSE [txCh EXCEPT ![p] = Append(@, f)]
           /\ send' = [send EXCEPT ![t].todo = IF full THEN Tail(@) ELSE @]
           /\ offered' = offered \cup {[f |-> f, from |-> send[t].from, to |-> p]}
    /\ UNCHANGED <<routerVars, dest, worker, admin, sent, last>>

\* deliver never blocks: a full channel drops the frame.
SendDeliver(t) ==
    /\ send[t].pc = "deliver" /\ send[t].todo # << >>
    /\ LET p == Head(send[t].todo)
           f == send[t].f
       IN  /\ txCh' = IF Len(txCh[p]) < Depth THEN [txCh EXCEPT ![p] = Append(@, f)]
                      ELSE txCh
           /\ offered' = offered \cup {[f |-> f, from |-> send[t].from, to |-> p]}
    /\ send' = [send EXCEPT ![t].todo = Tail(@)]
    /\ UNCHANGED <<routerVars, dest, worker, admin, sent, last>>

SendReturn(t) == /\ send[t].pc = "deliver" /\ send[t].todo = << >>
                 /\ send' = [send EXCEPT ![t] = NoSend]
                 /\ UNCHANGED <<routerVars, dest, txCh, worker, admin, sent, offered, last>>

Sending(t) == SendCopy(t) \/ SendBind(t) \/ SendClassify(t) \/ SendDeliver(t) \/ SendReturn(t)

-----------------------------------------------------------------------------
(* The worker of a port.  select may prefer the channel to quitCh.         *)

\* OnRxFrame; that of a digipeater relays a frame whose next hop it is.
WorkerTake(p) ==
    /\ worker[p] = "idle" /\ txCh[p] # << >>
    /\ LET f == Head(txCh[p])
       IN  /\ last' = [last EXCEPT ![p][f.id[1]] = f.id[2]]
           /\ IF Mode[p] = "Digipeater" /\ isNextDigiHop(f, Address[p])
              THEN Begin(p, markDigiHop(f, Address[p]), p)
              ELSE UNCHANGED <<send, sent>>
    /\ txCh' = [txCh EXCEPT ![p] = Tail(@)]
    /\ worker' = [worker EXCEPT ![p] = "busy"]
    /\ UNCHANGED <<routerVars, dest, admin, offered>>

\* Mutant: after a frame the worker waits for quitCh.
WorkerLoop_Quit(p) == /\ worker[p] = "busy" /\ closes[p] > 0
                      /\ p \in Thread => send[p].pc = "idle"
                      /\ worker' = [worker EXCEPT ![p] = "idle"]
                      /\ UNCHANGED <<routerVars, sendVars, txCh, admin, last>>

WorkerLoop(p) == /\ worker[p] = "busy"
                 /\ p \in Thread => send[p].pc = "idle"
                 /\ worker' = [worker EXCEPT ![p] = "idle"]
                 /\ UNCHANGED <<routerVars, sendVars, txCh, admin, last>>

WorkerQuit(p) == /\ worker[p] = "idle" /\ closes[p] > 0
                 /\ worker' = [worker EXCEPT ![p] = "done"]
                 /\ UNCHANGED <<routerVars, sendVars, txCh, admin, last>>

-----------------------------------------------------------------------------
(* RegisterPort, UnregisterPort and Close.                                 *)

\* Every caller in the repository makes a new Port for each RegisterPort.
RegisterCheck(a, p) ==
    /\ admin[a].pc = "idle" /\ ~closed
    /\ p \in setup.ports \ used
    /\ used' = used \cup {p}
    /\ admin' = [admin EXCEPT ![a] = [pc |-> "register", p |-> p]]
    /\ UNCHANGED <<ports, closed, started, closes, sendVars, txCh, worker, last>>

\* start does nothing for a port that was started before; stop does not
\* reset started.
start(p) ==
    IF started[p] THEN UNCHANGED <<started, txCh, closes, worker>>
    ELSE /\ started' = [started EXCEPT ![p] = TRUE]
         /\ txCh' = [txCh EXCEPT ![p] = << >>]
         /\ closes' = [closes EXCEPT ![p] = 0]
         /\ worker' = [worker EXCEPT ![p] = "idle"]

RegisterPort(a) ==
    /\ admin[a].pc = "register"
    /\ LET p == admin[a].p
       IN  IF p \in ToSet(ports)
           THEN UNCHANGED <<ports, started, txCh, closes, worker>>
           ELSE /\ start(p)
                /\ ports' = Append(ports, p)
    /\ admin' = [admin EXCEPT ![a] = NoCall]
    /\ UNCHANGED <<closed, used, sendVars, last>>

\* Mutant: the port stays in the list.
UnregisterPort_Keep(a, p) ==
    /\ admin[a].pc = "idle" /\ p \in ToSet(ports)
    /\ admin' = [admin EXCEPT ![a] = [pc |-> "stop", todo |-> <<p>>]]
    /\ UNCHANGED <<ports, closed, used, started, closes, sendVars, txCh, worker, last>>

UnregisterPort(a, p) ==
    /\ admin[a].pc = "idle" /\ p \in ToSet(ports)
    /\ ports' = Others(p, ports)
    /\ admin' = [admin EXCEPT ![a] = [pc |-> "stop", todo |-> <<p>>]]
    /\ UNCHANGED <<closed, used, started, closes, sendVars, txCh, worker, last>>

CloseStore(a) == /\ admin[a].pc = "idle"
                 /\ closed' = TRUE
                 /\ admin' = [admin EXCEPT ![a] = [pc |-> "close"]]
                 /\ UNCHANGED <<ports, used, started, closes, sendVars, txCh, worker, last>>

\* Mutant: Close stops every port that was ever started.
CloseTake_Ever(a) ==
    /\ admin[a].pc = "close"
    /\ ports' = << >>
    /\ admin' = [admin EXCEPT ![a] = [pc |-> "stop",
                                      todo |-> SetToSeq({p \in Ports : started[p]})]]
    /\ UNCHANGED <<closed, used, started, closes, sendVars, txCh, worker, last>>

CloseTake(a) == /\ admin[a].pc = "close"
                /\ ports' = << >>
                /\ admin' = [admin EXCEPT ![a] = [pc |-> "stop", todo |-> ports]]
                /\ UNCHANGED <<closed, used, started, closes, sendVars, txCh, worker, last>>

\* Mutant: quitCh is not closed.
StopClose_Open(a) == /\ admin[a].pc = "stop" /\ admin[a].todo # << >>
                     /\ admin' = [admin EXCEPT ![a].pc = "wait"]
                     /\ UNCHANGED <<ports, closed, used, started, closes, sendVars, txCh,
                                    worker, last>>

\* close(p.quitCh); a second close of the same channel panics.
StopClose(a) == /\ admin[a].pc = "stop" /\ admin[a].todo # << >>
                /\ closes' = [closes EXCEPT ![Head(admin[a].todo)] = @ + 1]
                /\ admin' = [admin EXCEPT ![a].pc = "wait"]
                /\ UNCHANGED <<ports, closed, used, started, sendVars, txCh, worker, last>>

\* p.wg.Wait()
StopWait(a) == /\ admin[a].pc = "wait" /\ worker[Head(admin[a].todo)] = "done"
               /\ admin' = [admin EXCEPT ![a] = [pc |-> "stop", todo |-> Tail(@.todo)]]
               /\ UNCHANGED <<routerVars, sendVars, txCh, worker, last>>

StopReturn(a) == /\ admin[a].pc = "stop" /\ admin[a].todo = << >>
                 /\ admin' = [admin EXCEPT ![a] = NoCall]
                 /\ UNCHANGED <<routerVars, sendVars, txCh, worker, last>>

Stopping(a) == CloseTake(a) \/ StopClose(a) \/ StopWait(a) \/ StopReturn(a)

\* A panic ends the program.
Panicked == \E p \in Ports : closes[p] > 1

Step == \/ \E t \in Thread : SendBegin(t) \/ Sending(t)
        \/ \E p \in Ports : WorkerTake(p) \/ WorkerLoop(p) \/ WorkerQuit(p)
        \/ \E a \in setup.admins :
               \/ \E p \in Ports : RegisterCheck(a, p) \/ UnregisterPort(a, p)
               \/ RegisterPort(a) \/ CloseStore(a) \/ Stopping(a)

Next == ~Panicked /\ Step /\ UNCHANGED setup

Spec == Init /\ [][Next]_vars

\* Goroutines are scheduled.  Nobody has to call Send, RegisterPort,
\* UnregisterPort or Close.
FairSpec == /\ Spec
            /\ \A t \in Thread : WF_vars(Sending(t) /\ UNCHANGED setup)
            /\ \A p \in Ports : WF_vars((WorkerTake(p) \/ WorkerLoop(p) \/ WorkerQuit(p))
                                          /\ UNCHANGED setup)
            /\ \A a \in Admins : WF_vars((RegisterPort(a) \/ Stopping(a)) /\ UNCHANGED setup)

-----------------------------------------------------------------------------
(* Properties.                                                             *)

Frames == {txCh[p][i] : <<p, i>> \in {<<q, j>> \in Ports \X (1 .. Depth) : j \in DOMAIN txCh[q]}}
            \cup {e.f : e \in offered}
            \cup {send[t].f : t \in {u \in Thread : send[u].pc # "idle"}}

\* Admins that are about to stop p.
StoppedBy(p) == {a \in Admins : admin[a].pc \in {"stop", "wait"} /\ p \in ToSet(admin[a].todo)}

\* The shape of the state; no port is in Router.ports twice, and txCh keeps
\* its capacity.
TypeOK == /\ ports \in Seq(Ports) /\ IsInjective(ports)
          /\ closed \in BOOLEAN /\ used \subseteq Ports
          /\ DOMAIN dest = Ports
          /\ started \in [Ports -> BOOLEAN]
          /\ closes \in [Ports -> Nat]
          /\ worker \in [Ports -> {"none", "idle", "busy", "done"}]
          /\ \A p \in Ports : Len(txCh[p]) <= Depth
          /\ \A t \in Thread : send[t].pc \in {"idle", "copy", "route", "classify", "deliver"}
          /\ \A a \in Admins : admin[a].pc \in {"idle", "register", "close", "stop", "wait"}
          /\ sent \in [Thread -> Nat]

\* Port.stop closes a quitCh at most once, whatever calls of UnregisterPort
\* and Close overlap: a second close would panic.
ClosedOnce == \A p \in Ports : closes[p] <= 1

\* A port in Router.ports has a running worker ("RegisterPort adds a port to
\* the router and starts its worker goroutine", router.go:178).  Once
\* UnregisterPort or Close has returned, the workers of the ports they removed
\* are gone: OnRxFrame is not running and is not called again.
Served == \A p \in Ports :
            /\ p \in ToSet(ports) => worker[p] \in {"idle", "busy"}
            /\ p \notin ToSet(ports) /\ StoppedBy(p) = {} => worker[p] \in {"none", "done"}

\* A static or dynamic port of a switch is only ever offered frames for the
\* address it has now, with every digipeater hop done: the binding of a
\* dynamic port is for good, whichever goroutines race to make it.
OnlyForMe ==
    setup.mode = "switch" =>
        \A e \in offered : Mode[e.to] \in {"Static", "Dynamic"}
                             => /\ e.f.dst = dest[e.to]
                                /\ \A i \in DOMAIN e.f.via : e.f.via[i].rep

\* However digipeaters relay, the hops a frame has done come first in its path.
HopsInOrder == \A f \in Frames : \A i \in DOMAIN f.via : \A j \in 1 .. i : f.via[i].rep => f.via[j].rep

\* OnRxFrame of a port sees the frames of one goroutine in the order it sent
\* them, and none twice: those in txCh are newer than those it has seen.
SenderOrder ==
    \A p \in Ports : \A i \in DOMAIN txCh[p] :
        LET f == txCh[p][i]
        IN  /\ f.id[2] > last[p][f.id[1]]
            /\ \A j \in 1 .. i - 1 : txCh[p][j].id[1] = f.id[1] => txCh[p][j].id[2] < f.id[2]

\* A port of type default "receives frames when no static or dynamic ports
\* matches the destination" (README.md:41): when a switch has offered a frame
\* that no such port matches to everyone it wants to, the default ports have it.
DefaultFallback ==
    \A t \in Thread : send[t].pc = "deliver" /\ send[t].todo = << >> =>
        LET ps == Others(send[t].from, send[t].among)
        IN  setup.mode = "switch" /\ Matching(send[t].f, ps) = << >> =>
              \A p \in ToSet(OfMode(ps, "Default")) :
                 [f |-> send[t].f, from |-> send[t].from, to |-> p] \in offered

\* UnregisterPort, RegisterPort and Close return, whatever is in the queues.
CallsReturn == \A a \in Admins : admin[a].pc # "idle" ~> admin[a].pc = "idle"

\* A port that stays registered works its queue off.
QueuesDrain == \A p \in Ports : txCh[p] # << >> /\ p \in ToSet(ports)
                                  ~> txCh[p] = << >> \/ p \notin ToSet(ports)
=============================================================================
