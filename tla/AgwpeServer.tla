---------------------------- MODULE AgwpeServer ----------------------------
(***************************************************************************)
(* The AGWPE server of one TCP client (agwpe/server.go): the goroutine of  *)
(* HandleConn, which handles the client's frames one after the other, and  *)
(* the goroutines that run the callbacks of its sessions: the worker of a  *)
(* session's router port, and a timer of the session.                      *)
(*                                                                         *)
(* A session (an ax25.Conn) is what module Service promises: a status, the *)
(* number of payloads queued, and callbacks after the change they report,  *)
(* with the lock released: a callback is a step of its own.  The sessions  *)
(* are numbered in the order of NewConn.  The frames for the client, which *)
(* a full txCh drops, are left out, and with them the requests that only   *)
(* ask for one.  External: the remote stations, and the router's queues    *)
(* (module Router), which pass a frame on at once.                         *)
(***************************************************************************)
EXTENDS Integers, Sequences, FiniteSets, SequencesExt

CONSTANTS Locals, Remotes,  \* callsigns
          NSlots,           \* cfg.MaxConns
          Window,           \* of the sessions
          MaxConns,         \* bound: sessions created
          MaxSends          \* bound: 'D' frames of the client

ASSUME AgwpeServerAssumption == /\ NSlots \in Nat \ {0} /\ Window \in 1 .. 7
                                /\ MaxConns \in Nat /\ MaxSends \in Nat

VARIABLES hc,        \* where HandleConn is
          pc,        \* where the handler of a client's frame is
          slots,     \* s.slots
          pending,   \* s.pendingFrames
          conns,     \* the sessions
          listeners, \* s.listeners: the session of a registered callsign, 0 for none
          ports,     \* the router's ports of this server's sessions, oldest first
          worker,    \* what the worker of each session's port is doing
          timer,     \* what the timer goroutine of each session is doing
          sends,     \* 'D' frames so far
          panicked   \* a send on the closed txCh ended the program

vars == <<hc, pc, slots, pending, conns, listeners, ports, worker, timer, sends, panicked>>

Slots == 1 .. NSlots
Ids == 1 .. MaxConns
Known == 1 .. Len(conns)

FreeSlot == [inUse |-> FALSE, local |-> "", remote |-> "", conn |-> 0, port |-> 0]
Idle == [at |-> "idle", k |-> 0]
At(where, k) == [at |-> where, k |-> k]

\* slot is 0 for a listener's session.  The queue of a session that is down is
\* never read and counts as empty.
NewConn(slot, local) == [slot |-> slot, local |-> local, status |-> "down", queued |-> 0]

\* A slot has a session only while it is in use, and allocSlot and freeSlot
\* keep the session and its slot pointing at each other.
TypeOK == /\ hc \in {"serving", "leaving", "closed", "slots", "listeners", "done"}
          /\ pc.at \in {"idle", "assign", "connect", "undo", "add", "join"}
          /\ \A i \in Slots : /\ slots[i].conn \in 0 .. Len(conns) /\ slots[i].port \in 0 .. Len(conns)
                              /\ ~slots[i].inUse => slots[i].conn = 0
                              /\ slots[i].conn # 0 => conns[slots[i].conn].slot = i
          /\ pending \in [Slots -> Int]
          /\ \A c \in Known : /\ conns[c].status \in {"down", "calling", "up", "leaving"}
                              /\ conns[c].queued \in 0 .. Window
                              /\ worker[c].at \in {"idle", "report", "ack", "disconnect", "wait"}
                              /\ timer[c].at \in {"idle", "disconnect", "wait"}
          /\ \A l \in Locals : listeners[l] \in 0 .. Len(conns)
          /\ sends \in 0 .. MaxSends

----------------------------------------------------------------------------
(* Shared pieces. *)

\* A send on the closed txCh panics.
enqueue == panicked' = (hc = "closed")

\* Router.UnregisterPort takes the port from the list at once and then waits
\* for its worker (Port.stop).
removePort(c) == ports' = SelectSeq(ports, LAMBDA p : p # c)

\* sendSwitch delivers to the static port registered last.
route(l) == LET own == SelectSeq(ports, LAMBDA p : conns[p].local = l)
            IN IF own = << >> THEN 0 ELSE Last(own)

findSlot(l, r) == LET S == {i \in Slots : slots[i].inUse /\ slots[i].local = l /\ slots[i].remote = r}
                  IN IF S = {} THEN 0 ELSE Min(S)

\* Mutant: the slot keeps its session.
freeSlot_KeepConn(i) == [slots EXCEPT ![i].inUse = FALSE]
freeSlot(i) == [slots EXCEPT ![i] = [FreeSlot EXCEPT !.port = slots[i].port]]

sets(c, d) == conns' = [conns EXCEPT ![c] = d]

----------------------------------------------------------------------------
(* The client's frames. *)

handling == hc = "serving" /\ pc = Idle /\ ~panicked

\* A session and a static port for the callsign.
setupListener(l) ==
    /\ Len(conns) < MaxConns
    /\ conns' = Append(conns, NewConn(0, l))
    /\ listeners' = [listeners EXCEPT ![l] = Len(conns) + 1]
    /\ ports' = Append(ports, Len(conns) + 1)

\* 'X': the answer is queued in any case.
handleRegisterCall(l) ==
    /\ handling
    /\ \/ listeners[l] # 0 /\ UNCHANGED <<conns, listeners, ports>>
       \/ listeners[l] = 0 /\ setupListener(l)
    /\ enqueue
    /\ UNCHANGED <<hc, pc, slots, pending, worker, timer, sends>>

\* 'x': teardownListener, up to the wait for the worker
handleUnregisterCall(l) ==
    /\ handling /\ listeners[l] # 0
    /\ listeners' = [listeners EXCEPT ![l] = 0]
    /\ removePort(listeners[l])
    /\ pc' = At("join", listeners[l])
    /\ UNCHANGED <<hc, slots, pending, conns, worker, timer, sends, panicked>>

\* the worker has gone: Close
teardownListener ==
    /\ pc.at = "join" /\ worker[pc.k] = Idle
    /\ sets(pc.k, [conns[pc.k] EXCEPT !.status = "down", !.queued = 0])
    /\ pc' = Idle
    /\ UNCHANGED <<hc, slots, pending, listeners, ports, worker, timer, sends, panicked>>

\* 'C', 'v', 'c': allocSlot, NewConn, RegisterPort.
handleConnect(l, r) ==
    /\ handling /\ Len(conns) < MaxConns
    /\ LET free == {i \in Slots : ~slots[i].inUse} IN
       \/ free = {} /\ UNCHANGED <<pc, slots, conns, ports>>
       \/ /\ free # {}
          /\ LET i == Min(free)
                 c == Len(conns) + 1
             IN /\ slots' = [slots EXCEPT ![i] = [inUse |-> TRUE, local |-> l, remote |-> r,
                                                  conn |-> c, port |-> @.port]]
                /\ conns' = Append(conns, NewConn(i, l))
                /\ ports' = Append(ports, c)
                /\ pc' = At("assign", c)
    /\ UNCHANGED <<hc, pending, listeners, worker, timer, sends, panicked>>

\* slot.routerPort = connPort
assignPort ==
    /\ pc.at = "assign"
    /\ slots' = [slots EXCEPT ![conns[pc.k].slot].port = pc.k]
    /\ pc' = At("connect", pc.k)
    /\ UNCHANGED <<hc, pending, conns, listeners, ports, worker, timer, sends, panicked>>

\* Connect fails when a frame has meanwhile brought the session up.
connConnect ==
    /\ pc.at = "connect"
    /\ \/ /\ conns[pc.k].status = "down"
          /\ sets(pc.k, [conns[pc.k] EXCEPT !.status = "calling", !.queued = 0])
          /\ pc' = Idle /\ UNCHANGED ports
       \/ /\ conns[pc.k].status # "down"
          /\ pc' = At("undo", pc.k) /\ removePort(pc.k) /\ UNCHANGED conns
    /\ UNCHANGED <<hc, slots, pending, listeners, worker, timer, sends, panicked>>

connectFailed ==
    /\ pc.at = "undo" /\ worker[pc.k] = Idle
    /\ slots' = freeSlot(conns[pc.k].slot)
    /\ pc' = Idle
    /\ UNCHANGED <<hc, pending, conns, listeners, ports, worker, timer, sends, panicked>>

accepts(c) == conns[c].status = "up" /\ conns[c].queued < Window
queues(c) == sets(c, IF accepts(c) THEN [conns[c] EXCEPT !.queued = @ + 1] ELSE conns[c])

\* 'D': the slot's session first, otherwise the listener's, whatever the
\* remote callsign.  A refused payload is counted all the same.
handleSendData(l, r) ==
    /\ handling /\ sends < MaxSends
    /\ sends' = sends + 1
    /\ LET i == findSlot(l, r) IN
       \/ i # 0 /\ queues(slots[i].conn) /\ pc' = At("add", i)
       \/ i = 0 /\ listeners[l] # 0 /\ queues(listeners[l]) /\ UNCHANGED pc
       \/ i = 0 /\ listeners[l] = 0 /\ UNCHANGED <<conns, pc>>
    /\ UNCHANGED <<hc, slots, pending, listeners, ports, worker, timer, panicked>>

\* Mutant: the test of the index is > 0 where slots are counted from 0.
addPending_FirstSlot == IF pc.k > 1 THEN [pending EXCEPT ![pc.k] = @ + 1] ELSE pending
addPending == [pending EXCEPT ![pc.k] = @ + 1]

countSent ==
    /\ pc.at = "add"
    /\ pending' = addPending
    /\ pc' = Idle
    /\ UNCHANGED <<hc, slots, conns, listeners, ports, worker, timer, sends, panicked>>

\* 'd': Shutdown of the slot's session or of the listener's
handleDisconnect(l, r) ==
    /\ handling
    /\ LET c == IF findSlot(l, r) # 0 THEN slots[findSlot(l, r)].conn ELSE listeners[l]
       IN c # 0 /\ conns[c].status # "down" /\ sets(c, [conns[c] EXCEPT !.status = "leaving"])
    /\ UNCHANGED <<hc, pc, slots, pending, listeners, ports, worker, timer, sends, panicked>>

----------------------------------------------------------------------------
(* The sessions: frames and timers, and then their callbacks. *)

quiet == UNCHANGED <<hc, pc, slots, pending, listeners, ports, timer, sends, panicked>>

\* A frame from a remote station changes the session and leaves a callback
\* to the worker.  What reaches a port after HandleConn has returned is not
\* modelled.
frame(l) ==
    LET c == route(l) IN
    /\ c # 0 /\ worker[c] = Idle /\ ~panicked /\ hc # "done"
    /\ LET s == conns[c]
           becomes(d, cb) == sets(c, d) /\ worker' = [worker EXCEPT ![c] = cb]
       IN \/ s.status \in {"down", "calling"}
                /\ becomes([s EXCEPT !.status = "up", !.queued = 0], At("report", 0))
          \/ s.status # "down" /\ becomes([s EXCEPT !.status = "down", !.queued = 0], At("disconnect", 0))
          \/ s.status = "up" /\ becomes(s, At("report", 0))
          \/ s.status = "up" /\ s.queued > 0 /\ becomes([s EXCEPT !.queued = 0], Idle)
          \/ s.status = "up" /\ \E k \in 1 .. s.queued : becomes([s EXCEPT !.queued = @ - k], At("ack", k))
    /\ quiet

\* The retries are exhausted.
linkFailure(c) ==
    /\ conns[c].status # "down" /\ timer[c] = Idle /\ ~panicked /\ hc # "done"
    /\ sets(c, [conns[c] EXCEPT !.status = "down", !.queued = 0])
    /\ timer' = [timer EXCEPT ![c] = At("disconnect", 0)]
    /\ UNCHANGED <<hc, pc, slots, pending, listeners, ports, worker, sends, panicked>>

\* OnConnect, OnData
onConnectOrData(c) ==
    /\ worker[c].at = "report" /\ ~panicked
    /\ enqueue
    /\ worker' = [worker EXCEPT ![c] = Idle]
    /\ UNCHANGED <<hc, pc, slots, pending, conns, listeners, ports, timer, sends>>

\* OnTxAck; a listener has none.
onTxAck(c) ==
    /\ worker[c].at = "ack" /\ ~panicked
    /\ pending' = IF conns[c].slot = 0 THEN pending
                  ELSE [pending EXCEPT ![conns[c].slot] = @ - worker[c].k]
    /\ worker' = [worker EXCEPT ![c] = Idle]
    /\ UNCHANGED <<hc, pc, slots, conns, listeners, ports, timer, sends, panicked>>

\* OnDisconnect on goroutine g (worker or timer): a listener only reports;
\* the session of a slot unregisters its port, which waits for the worker
\* of that port if the port was still registered, and then frees the slot.
onDisconnect(g, c) ==
    LET i == conns[c].slot
        cp == slots[i].port
    IN  /\ g[c].at = "disconnect" /\ ~panicked
        /\ enqueue
        /\ \/ i = 0 /\ g' = [g EXCEPT ![c] = Idle] /\ UNCHANGED <<slots, ports>>
           \/ /\ i # 0 /\ cp # 0 /\ Contains(ports, cp)
              /\ slots' = [slots EXCEPT ![i].port = 0]
              /\ removePort(cp)
              /\ g' = [g EXCEPT ![c] = At("wait", cp)]
           \/ /\ i # 0 /\ ~(cp # 0 /\ Contains(ports, cp))
              /\ slots' = [slots EXCEPT ![i] = FreeSlot]
              /\ g' = [g EXCEPT ![c] = Idle]
              /\ UNCHANGED ports
        /\ UNCHANGED <<hc, pc, pending, conns, listeners, sends>>

\* A worker that waits for itself waits for ever.
afterStop(g, c) ==
    /\ g[c].at = "wait" /\ worker[g[c].k] = Idle
    /\ slots' = freeSlot(conns[c].slot)
    /\ g' = [g EXCEPT ![c] = Idle]
    /\ UNCHANGED <<hc, pc, pending, conns, listeners, ports, sends, panicked>>

workerStep(c) == \/ onConnectOrData(c) \/ onTxAck(c)
                 \/ (onDisconnect(worker, c) \/ afterStop(worker, c)) /\ UNCHANGED timer
timerStep(c) == (onDisconnect(timer, c) \/ afterStop(timer, c)) /\ UNCHANGED worker

----------------------------------------------------------------------------
(* The end of HandleConn. *)

clientLeaves ==
    /\ handling
    /\ hc' = "leaving"
    /\ UNCHANGED <<pc, slots, pending, conns, listeners, ports, worker, timer, sends, panicked>>

\* the promiscuous port is gone, close(s.txCh)
closeTxCh ==
    /\ hc = "leaving"
    /\ hc' = "closed"
    /\ UNCHANGED <<pc, slots, pending, conns, listeners, ports, worker, timer, sends, panicked>>

\* txPump has returned (all written, or a write failed): a new txCh
newTxCh ==
    /\ hc = "closed"
    /\ hc' = "slots"
    /\ UNCHANGED <<pc, slots, pending, conns, listeners, ports, worker, timer, sends, panicked>>

\* Mutant: the ports are unregistered, too, and their workers waited for.
disconnectAllSlots_Join ==
    /\ hc = "slots"
    /\ \A c \in Known : conns[c].slot # 0 => worker[c] = Idle
    /\ ports' = SelectSeq(ports, LAMBDA p : conns[p].slot = 0)
    /\ slots' = [i \in Slots |-> FreeSlot]
    /\ hc' = "listeners"
    /\ UNCHANGED <<pc, pending, conns, listeners, worker, timer, sends, panicked>>

\* Close of every session in a slot; their ports stay registered.
disconnectAllSlots ==
    /\ hc = "slots"
    /\ conns' = [c \in Known |-> IF \E i \in Slots : slots[i].inUse /\ slots[i].conn = c
                                 THEN [conns[c] EXCEPT !.status = "down", !.queued = 0] ELSE conns[c]]
    /\ slots' = [i \in Slots |-> freeSlot(i)[i]]
    /\ hc' = "listeners"
    /\ UNCHANGED <<pc, pending, listeners, ports, worker, timer, sends, panicked>>

\* One listener after the other: unregister, wait, Close.
teardownAllListeners ==
    /\ hc = "listeners" /\ pc = Idle
    /\ \/ \E l \in Locals : /\ listeners[l] # 0
                            /\ listeners' = [listeners EXCEPT ![l] = 0]
                            /\ removePort(listeners[l])
                            /\ pc' = At("join", listeners[l])
                            /\ UNCHANGED hc
       \/ (\A l \in Locals : listeners[l] = 0) /\ hc' = "done" /\ UNCHANGED <<listeners, ports, pc>>
    /\ UNCHANGED <<slots, pending, conns, worker, timer, sends, panicked>>

HandleConn == ~panicked /\ (\/ teardownListener \/ assignPort \/ connConnect \/ connectFailed \/ countSent
                            \/ closeTxCh \/ newTxCh \/ disconnectAllSlots \/ teardownAllListeners)

Init == /\ hc = "serving" /\ pc = Idle
        /\ slots = [i \in Slots |-> FreeSlot] /\ pending = [i \in Slots |-> 0]
        /\ conns = << >> /\ listeners = [l \in Locals |-> 0] /\ ports = << >>
        /\ worker = [c \in Ids |-> Idle] /\ timer = [c \in Ids |-> Idle]
        /\ sends = 0 /\ panicked = FALSE

Next == \/ \E l \in Locals : \/ handleRegisterCall(l) \/ handleUnregisterCall(l) \/ frame(l)
                             \/ \E r \in Remotes : handleConnect(l, r) \/ handleSendData(l, r) \/ handleDisconnect(l, r)
        \/ \E c \in Known : linkFailure(c) \/ workerStep(c) \/ timerStep(c)
        \/ clientLeaves \/ HandleConn

\* The goroutines run; the client and the remote stations need not act.
Fairness == WF_vars(HandleConn) /\ \A c \in Ids : WF_vars(c \in Known /\ workerStep(c)) /\ WF_vars(c \in Known /\ timerStep(c))

Spec == Init /\ [][Next]_vars /\ Fairness

----------------------------------------------------------------------------
(* Properties. *)

\* The outstanding count that 'Y' reports for a session in a slot is never below
\* what it still has queued (between SendData and Add the client is not
\* answered), although the counts outlive the sessions of a slot and
\* acknowledgements arrive before the payload they belong to is counted.  Sessions
\* of a listener have no slot: for them 'Y' always reports 0.
NeverUnderReported ==
    \A i \in Slots : slots[i].inUse /\ slots[i].conn # 0 /\ pc # At("add", i)
                        => pending[i] >= conns[slots[i].conn].queued

\* env.md:34: the limit is on simultaneous connections, so the slot of a
\* session that has ended becomes free again.
EndedFreesSlot ==
    \A i \in Slots : (slots[i].inUse /\ conns[slots[i].conn].status = "down")
                        ~> (~slots[i].inUse \/ conns[slots[i].conn].status # "down" \/ panicked)
=============================================================================
