------------------------------ MODULE KissPool ------------------------------
(***************************************************************************)
(* The router program's KISS TCP clients (cmd/router/main.go, tcpPool):    *)
(* the accept loop, and for each client a KISSSerialPHY (ax25/phy.go) with *)
(* its two loops, a port of the router, and a goroutine that feeds what    *)
(* the client sends to the router and removes the client in the end.  At   *)
(* shutdown the main goroutine removes them all.                           *)
(*                                                                         *)
(* The clients are numbered in the order of Accept.  The frames a client   *)
(* sends are left out; those for it are numbered.                          *)
(***************************************************************************)
EXTENDS Integers, Sequences, FiniteSets

CONSTANTS MaxConn,     \* p.maxConn, 0 for no limit
          TxDepth,     \* TxQueueDepth
          MaxClients,  \* bound: connections accepted
          MaxTx        \* bound: frames for a client

VARIABLES clients,  \* p.clients
          add,      \* where add is, and with which client
          sock,     \* each connection: "none", "open", "gone" (the client left) or "closed"
          port,     \* its port is registered
          phy,      \* its KISSSerialPHY: closed, cancelled, the two loops, the queue
          checked,  \* SendFrame has looked at p.closed
          feeder,   \* the goroutine of RxFrames: "none", "range", "remove" or "exited"
          rem,      \* where remove is with the client
          main,     \* shutdown: the clients stopAll has to remove, and the one it is at
          offered   \* frames for each client so far

poolVars == <<clients, add, sock, port, phy, checked, feeder, rem, main, offered>>

Clients == 1 .. MaxClients
Phases == <<"none", "stop", "close", "drain", "wait", "unregister", "done">>

\* add keeps the pool within MaxConn although it checks the limit and inserts
\* under two separate locks; no queue of a driver is over its depth.
TypeOK ==
    /\ clients \subseteq Clients
    /\ MaxConn > 0 => Cardinality(clients) <= MaxConn
    /\ add.at \in {"accept", "register", "insert", "start"}
    /\ \A c \in Clients : /\ sock[c] \in {"none", "open", "gone", "closed"}
                          /\ {phy[c].rx, phy[c].tx} \subseteq {"none", "run", "exited"}
                          /\ Len(phy[c].queue) <= TxDepth
                          /\ rem[c] \in {Phases[i] : i \in DOMAIN Phases}
                          /\ feeder[c] \in {"none", "range", "remove", "exited"}
    /\ main.todo \subseteq Clients

Init == /\ clients = {} /\ add = [at |-> "accept", c |-> 0]
        /\ sock = [c \in Clients |-> "none"] /\ port = [c \in Clients |-> FALSE]
        /\ phy = [c \in Clients |-> [closed |-> FALSE, cancelled |-> FALSE,
                                     rx |-> "none", tx |-> "none", queue |-> << >>]]
        /\ checked = [c \in Clients |-> FALSE] /\ feeder = [c \in Clients |-> "none"]
        /\ rem = [c \in Clients |-> "none"] /\ main = [quit |-> FALSE, todo |-> {}, at |-> 0]
        /\ offered = [c \in Clients |-> 0]

-----------------------------------------------------------------------------
(* serveTCPKISS and add, step by step: the pool is locked only to look at  *)
(* the number of clients, and again to insert the new one.                 *)

clientLimitReached(active, max) == max > 0 /\ active >= max

Accept == /\ add.at = "accept" /\ ~main.quit /\ add.c < MaxClients
          /\ LET c    == add.c + 1
                 full == clientLimitReached(Cardinality(clients), MaxConn)
             IN  /\ sock' = [sock EXCEPT ![c] = IF full THEN "closed" ELSE "open"]
                 /\ add' = [at |-> IF full THEN "accept" ELSE "register", c |-> c]
          /\ UNCHANGED <<clients, port, phy, checked, feeder, rem, main, offered>>

\* RegisterPort, and the error when the router is closed.
Register == /\ add.at = "register"
            /\ \/ /\ port' = [port EXCEPT ![add.c] = TRUE] /\ add' = [add EXCEPT !.at = "insert"]
                  /\ UNCHANGED sock
               \/ /\ sock' = [sock EXCEPT ![add.c] = "closed"] /\ add' = [add EXCEPT !.at = "accept"]
                  /\ UNCHANGED port
            /\ UNCHANGED <<clients, phy, checked, feeder, rem, main, offered>>

Insert == /\ add.at = "insert" /\ add' = [add EXCEPT !.at = "start"]
          /\ clients' = clients \cup {add.c}
          /\ UNCHANGED <<sock, port, phy, checked, feeder, rem, main, offered>>

\* Start of the PHY, and the goroutine of RxFrames.
StartPhy == /\ add.at = "start" /\ add' = [add EXCEPT !.at = "accept"]
            /\ phy' = [phy EXCEPT ![add.c].rx = "run", ![add.c].tx = "run"]
            /\ feeder' = [feeder EXCEPT ![add.c] = "range"]
            /\ UNCHANGED <<clients, sock, port, checked, rem, main, offered>>

-----------------------------------------------------------------------------
(* The PHY of client c.                                                    *)

\* Read fails when either end has closed the connection; RxFrames is closed.
rxLoop(c) == /\ phy[c].rx = "run" /\ sock[c] # "open"
             /\ phy' = [phy EXCEPT ![c].rx = "exited"]
             /\ UNCHANGED <<clients, add, sock, port, checked, feeder, rem, main, offered>>

TxCancelled(c) == /\ phy[c].tx = "run" /\ phy[c].cancelled
                  /\ phy' = [phy EXCEPT ![c].tx = "exited"]
                  /\ UNCHANGED <<clients, add, sock, port, checked, feeder, rem, main, offered>>

\* A write fails on a closed connection, and may fail when the client is gone.
TxWrite(c) == /\ phy[c].tx = "run" /\ phy[c].queue # << >>
              /\ \/ /\ sock[c] \in {"open", "gone"}
                    /\ phy' = [phy EXCEPT ![c].queue = Tail(@)]
                 \/ /\ sock[c] \in {"gone", "closed"}
                    /\ phy' = [phy EXCEPT ![c].queue = Tail(@), ![c].tx = "exited"]
              /\ UNCHANGED <<clients, add, sock, port, checked, feeder, rem, main, offered>>

txLoop(c) == TxCancelled(c) \/ TxWrite(c)

\* SendFrame, on the worker of the client's port.
SendCheck(c) == /\ port[c] /\ ~checked[c] /\ offered[c] < MaxTx
                /\ offered' = [offered EXCEPT ![c] = @ + 1]
                /\ checked' = [checked EXCEPT ![c] = ~phy[c].closed]
                /\ UNCHANGED <<clients, add, sock, port, phy, feeder, rem, main>>

SendEnqueue(c) == /\ checked[c] /\ checked' = [checked EXCEPT ![c] = FALSE]
                  /\ phy' = IF Len(phy[c].queue) < TxDepth
                            THEN [phy EXCEPT ![c].queue = Append(@, offered[c])] ELSE phy
                  /\ UNCHANGED <<clients, add, sock, port, feeder, rem, main, offered>>

ClientLeaves(c) == /\ sock[c] = "open" /\ sock' = [sock EXCEPT ![c] = "gone"]
                   /\ UNCHANGED <<clients, add, port, phy, checked, feeder, rem, main, offered>>

-----------------------------------------------------------------------------
(* remove(c), by the feeder or by stopAll: whoever deletes the client from *)
(* the pool goes through with it.                                          *)

Phase(c, p) == rem' = [rem EXCEPT ![c] = p]

\* for frame := range RxFrames() ends
feederEnds(c) == /\ feeder[c] = "range" /\ phy[c].rx = "exited"
                 /\ feeder' = [feeder EXCEPT ![c] = "remove"]
                 /\ UNCHANGED <<clients, add, sock, port, phy, checked, rem, main, offered>>

feederRemoves(c) == /\ feeder[c] = "remove" /\ feeder' = [feeder EXCEPT ![c] = "exited"]
                    /\ clients' = clients \ {c}
                    /\ IF c \in clients THEN Phase(c, "stop") ELSE UNCHANGED rem
                    /\ UNCHANGED <<add, sock, port, phy, checked, main, offered>>

\* Stop of the PHY: closed; cancel, if it was started, and Close; drain; wait.
StopPhy(c) == /\ rem[c] = "stop" /\ Phase(c, "close")
              /\ phy' = [phy EXCEPT ![c].closed = TRUE]
              /\ UNCHANGED <<clients, add, sock, port, checked, feeder, main, offered>>

\* Mutant: closing the connection is taken to be enough.
StopClose_NoCancel(c) == /\ rem[c] = "close" /\ Phase(c, "drain")
                         /\ sock' = [sock EXCEPT ![c] = "closed"]
                         /\ UNCHANGED <<clients, add, port, phy, checked, feeder, main, offered>>

StopClose(c) == /\ rem[c] = "close" /\ Phase(c, "drain")
                /\ phy' = [phy EXCEPT ![c].cancelled = phy[c].tx # "none"]
                /\ sock' = [sock EXCEPT ![c] = "closed"]
                /\ UNCHANGED <<clients, add, port, checked, feeder, main, offered>>

StopDrain(c) == /\ rem[c] = "drain" /\ Phase(c, "wait")
                /\ phy' = [phy EXCEPT ![c].queue = << >>]
                /\ UNCHANGED <<clients, add, sock, port, checked, feeder, main, offered>>

StopWait(c) == /\ rem[c] = "wait" /\ Phase(c, "unregister")
               /\ {phy[c].rx, phy[c].tx} \subseteq {"none", "exited"}
               /\ UNCHANGED <<clients, add, sock, port, phy, checked, feeder, main, offered>>

\* Mutant: the port stays registered.
Unregister_Not(c) == /\ rem[c] = "unregister" /\ Phase(c, "done")
                     /\ UNCHANGED <<clients, add, sock, port, phy, checked, feeder, main, offered>>

\* UnregisterPort waits for the port's worker.
Unregister(c) == /\ rem[c] = "unregister" /\ ~checked[c] /\ Phase(c, "done")
                 /\ port' = [port EXCEPT ![c] = FALSE]
                 /\ UNCHANGED <<clients, add, sock, phy, checked, feeder, main, offered>>

remove(c) == StopPhy(c) \/ StopClose(c) \/ StopDrain(c) \/ StopWait(c) \/ Unregister(c)

\* A signal: the listener is closed, and stopAll goes through the clients of
\* that moment, one after the other.
Shutdown == /\ ~main.quit /\ main' = [quit |-> TRUE, todo |-> clients, at |-> 0]
            /\ UNCHANGED <<clients, add, sock, port, phy, checked, feeder, rem, offered>>

stopAll(c) == /\ c \in main.todo /\ (main.at # 0 => rem[main.at] = "done")
              /\ main' = [main EXCEPT !.todo = @ \ {c}, !.at = IF c \in clients THEN c ELSE 0]
              /\ clients' = clients \ {c}
              /\ IF c \in clients THEN Phase(c, "stop") ELSE UNCHANGED rem
              /\ UNCHANGED <<add, sock, port, phy, checked, feeder, offered>>

addSteps == Register \/ Insert \/ StartPhy
feederSteps(c) == feederEnds(c) \/ feederRemoves(c)
clientSteps(c) == \/ rxLoop(c) \/ txLoop(c) \/ SendEnqueue(c)
                  \/ feederSteps(c) \/ remove(c)

Next == \/ Accept \/ addSteps \/ Shutdown
        \/ \E c \in Clients : clientSteps(c) \/ SendCheck(c) \/ ClientLeaves(c) \/ stopAll(c)

-----------------------------------------------------------------------------
\* The router never keeps a port of a client that nobody will take away: a
\* registered port is that of a client in the pool, of one being added, or of
\* one being removed (add, remove).
NoStrayPort == \A c \in Clients : port[c] => \/ c \in clients
                                             \/ add = [at |-> "insert", c |-> c]
                                             \/ rem[c] \notin {"none", "done"}

\* A client that hangs up gives its place and its port back: the read error ends
\* rxLoop, and the feeder removes the client (add, remove, Stop).  Shutdown may
\* come between the insertion and Start: remove then has nothing to cancel, and
\* waits for a txLoop that waits for a frame, until the program is forced out.
PlaceFreed == \A c \in Clients : sock[c] = "gone" ~> main.quit \/ (c \notin clients /\ ~port[c])
=============================================================================
