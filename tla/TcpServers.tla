---------------------------- MODULE TcpServers ----------------------------
(***************************************************************************)
(* The two TCP servers: "kiss", the KISS server driver                     *)
(* (phy/kiss_tcp_server.go), whose Stop ends its clients, and "agwpe", the *)
(* front of the AGWPE servers (agwpe/tcp_server.go), which counts its      *)
(* clients.  Each has an accept loop and a goroutine for every client; the *)
(* KISS driver has two more, one that writes and one that closes the       *)
(* connection when the driver stops.                                       *)
(***************************************************************************)
EXTENDS Integers, FiniteSets

CONSTANTS MaxActive,  \* MaxClients of the AGWPE server, 0 for no limit
          MaxAccepts, \* bound: connections accepted
          MaxQueue    \* TXQueueDepth

VARIABLES kind,       \* "kiss" or "agwpe"
          listening,  \* the listener is open
          acceptor,   \* acceptLoop: "accept" or "exited"
          accepted,   \* connections accepted so far
          stopped,    \* the context is cancelled
          stopper,    \* where Stop is
          handler,    \* the goroutine of each client
          writer,     \* its goroutine that writes: "none", "run" or "exited"
          socket,     \* its connection
          queueLen,   \* its txCh
          waited,     \* the handlers that wg counts
          active,     \* t.clients
          told        \* the clients for which OnConnected ran and OnDisconnected has not

serverVars == <<kind, listening, acceptor, accepted, stopped, stopper, handler,
                writer, socket, queueLen, waited, active, told>>

Accepts == 1 .. MaxAccepts
alive(c) == handler[c] \notin {"none", "exited"}

\* The AGWPE server counts the clients it serves, no more and no less, and keeps
\* within its limit (acquireClientSlot, releaseClientSlot); only a live handler
\* has been told to the application.
TypeOK == /\ stopper \in {"idle", "cancelled", "waiting", "returned"}
          /\ \A c \in Accepts : /\ handler[c] \in {"none", "begin", "read", "join", "exited"}
                                /\ socket[c] \in {"none", "open", "gone", "closed"}
                                /\ queueLen[c] \in 0 .. MaxQueue
          /\ told \subseteq {c \in Accepts : alive(c)}
          /\ kind = "agwpe" => active = Cardinality({c \in Accepts : alive(c)})
          /\ MaxActive > 0 => active <= MaxActive

Init == /\ kind \in {"kiss", "agwpe"}
        /\ listening = TRUE /\ acceptor = "accept" /\ accepted = 0
        /\ stopped = FALSE /\ stopper = "idle"
        /\ handler = [c \in Accepts |-> "none"] /\ writer = [c \in Accepts |-> "none"]
        /\ socket = [c \in Accepts |-> "none"] /\ queueLen = [c \in Accepts |-> 0]
        /\ waited = {} /\ active = 0 /\ told = {}

acquireClientSlot == ~(MaxActive > 0 /\ active >= MaxActive)

\* Mutant: the handler is not counted.
AcceptKiss_NoAdd == /\ kind = "kiss" /\ listening /\ acceptor = "accept" /\ accepted < MaxAccepts
                    /\ accepted' = accepted + 1
                    /\ socket' = [socket EXCEPT ![accepted'] = "open"]
                    /\ handler' = [handler EXCEPT ![accepted'] = "begin"]
                    /\ UNCHANGED <<kind, listening, acceptor, stopped, stopper, writer, queueLen, waited, active, told>>

AcceptKiss == /\ kind = "kiss" /\ listening /\ acceptor = "accept" /\ accepted < MaxAccepts
              /\ accepted' = accepted + 1
              /\ socket' = [socket EXCEPT ![accepted'] = "open"]
              /\ handler' = [handler EXCEPT ![accepted'] = "begin"]
              /\ waited' = waited \cup {accepted'}
              /\ UNCHANGED <<kind, listening, acceptor, stopped, stopper, writer, queueLen, active, told>>

\* A client at capacity is closed at once.
AcceptAgwpe == /\ kind = "agwpe" /\ listening /\ acceptor = "accept" /\ accepted < MaxAccepts
               /\ accepted' = accepted + 1
               /\ active' = IF acquireClientSlot THEN active + 1 ELSE active
               /\ socket' = [socket EXCEPT ![accepted'] = IF acquireClientSlot THEN "open" ELSE "closed"]
               /\ handler' = [handler EXCEPT ![accepted'] = IF acquireClientSlot THEN "read" ELSE "exited"]
               /\ UNCHANGED <<kind, listening, acceptor, stopped, stopper, writer, queueLen, waited, told>>

\* Accept fails, because the listener is closed or for another reason.
acceptEnds == /\ acceptor = "accept" /\ acceptor' = "exited"
              /\ UNCHANGED <<kind, listening, accepted, stopped, stopper, handler, writer, socket,
                             queueLen, waited, active, told>>

-----------------------------------------------------------------------------
(* The goroutines of client c of the KISS driver: handleConn.              *)

begin(c) == /\ handler[c] = "begin" /\ handler' = [handler EXCEPT ![c] = "read"]
            /\ told' = told \cup {c}
            /\ writer' = [writer EXCEPT ![c] = "run"]
            /\ UNCHANGED <<kind, listening, acceptor, accepted, stopped, stopper, socket, queueLen, waited, active>>

watch(c) == /\ kind = "kiss" /\ handler[c] = "read" /\ stopped /\ socket[c] # "closed"
            /\ socket' = [socket EXCEPT ![c] = "closed"]
            /\ UNCHANGED <<kind, listening, acceptor, accepted, stopped, stopper, handler, writer,
                           queueLen, waited, active, told>>

\* Read fails; then cancel and Close.
readEnds(c) == /\ kind = "kiss" /\ handler[c] = "read" /\ socket[c] # "open"
               /\ handler' = [handler EXCEPT ![c] = "join"]
               /\ socket' = [socket EXCEPT ![c] = "closed"]
               /\ UNCHANGED <<kind, listening, acceptor, accepted, stopped, stopper, writer,
                              queueLen, waited, active, told>>

writerCancelled(c) == /\ writer[c] = "run" /\ (stopped \/ handler[c] = "join")
                      /\ writer' = [writer EXCEPT ![c] = "exited"]
                      /\ UNCHANGED <<kind, listening, acceptor, accepted, stopped, stopper, handler,
                                     socket, queueLen, waited, active, told>>

write(c) == /\ writer[c] = "run" /\ queueLen[c] > 0
            /\ queueLen' = [queueLen EXCEPT ![c] = @ - 1]
            /\ \/ socket[c] \in {"open", "gone"} /\ UNCHANGED writer
               \/ socket[c] # "open" /\ writer' = [writer EXCEPT ![c] = "exited"]
            /\ UNCHANGED <<kind, listening, acceptor, accepted, stopped, stopper, handler, socket,
                           waited, active, told>>

\* c.wg.Wait(), OnDisconnected, p.wg.Done()
joined(c) == /\ handler[c] = "join" /\ writer[c] = "exited"
             /\ handler' = [handler EXCEPT ![c] = "exited"]
             /\ told' = told \ {c} /\ waited' = waited \ {c}
             /\ UNCHANGED <<kind, listening, acceptor, accepted, stopped, stopper, writer, socket,
                            queueLen, active>>

\* Send of KISSTCPServerConn: a full queue is ErrTXQueueFull.
send(c) == /\ c \in told /\ queueLen[c] < MaxQueue /\ queueLen' = [queueLen EXCEPT ![c] = @ + 1]
           /\ UNCHANGED <<kind, listening, acceptor, accepted, stopped, stopper, handler, writer,
                          socket, waited, active, told>>

-----------------------------------------------------------------------------
\* Mutant: the slot is not given back.
releaseClientSlot_Not == active
releaseClientSlot == IF active > 0 THEN active - 1 ELSE 0

\* HandleConn of an AGWPE client returns (module AgwpeServer).
agwpeEnds(c) == /\ kind = "agwpe" /\ handler[c] = "read" /\ socket[c] = "gone"
                /\ handler' = [handler EXCEPT ![c] = "exited"]
                /\ socket' = [socket EXCEPT ![c] = "closed"]
                /\ active' = releaseClientSlot
                /\ UNCHANGED <<kind, listening, acceptor, accepted, stopped, stopper, writer,
                               queueLen, waited, told>>

leaves(c) == /\ socket[c] = "open" /\ socket' = [socket EXCEPT ![c] = "gone"]
             /\ UNCHANGED <<kind, listening, acceptor, accepted, stopped, stopper, handler, writer,
                            queueLen, waited, active, told>>

\* Stop: the KISS driver cancels its context first.
StopCancel == /\ stopper = "idle" /\ stopper' = "cancelled" /\ stopped' = (kind = "kiss")
              /\ UNCHANGED <<kind, listening, acceptor, accepted, handler, writer, socket, queueLen,
                             waited, active, told>>

StopClose == /\ stopper = "cancelled" /\ stopper' = "waiting" /\ listening' = FALSE
             /\ UNCHANGED <<kind, acceptor, accepted, stopped, handler, writer, socket, queueLen,
                            waited, active, told>>

\* The KISS driver waits for every goroutine, the AGWPE server for its acceptLoop.
StopReturn == /\ stopper = "waiting" /\ acceptor = "exited" /\ waited = {}
              /\ stopper' = "returned"
              /\ UNCHANGED <<kind, listening, acceptor, accepted, stopped, handler, writer, socket,
                             queueLen, waited, active, told>>

acceptLoop == AcceptKiss \/ AcceptAgwpe \/ acceptEnds
handleConn(c) == begin(c) \/ watch(c) \/ readEnds(c) \/ joined(c)
writeLoop(c) == writerCancelled(c) \/ write(c)
Stop == StopClose \/ StopReturn

Next == \/ acceptLoop \/ StopCancel \/ Stop
        \/ \E c \in Accepts : handleConn(c) \/ writeLoop(c) \/ send(c) \/ agwpeEnds(c) \/ leaves(c)

-----------------------------------------------------------------------------
\* When Stop of the KISS driver has returned, no goroutine of a client is left,
\* and every client reported by OnConnected was reported by OnDisconnected.
NothingLeft == kind = "kiss" /\ stopper = "returned" => \A c \in Accepts : ~alive(c) /\ c \notin told

\* Stop returns, whatever the clients do.
StopEnds == stopper # "idle" ~> stopper = "returned"
=============================================================================
