------------------------------ MODULE Drivers ------------------------------
(***************************************************************************)
(* The parts around the router that do not touch each other, one at a      *)
(* time: "client" (TcpClient), "pool" (KissPool), "servers" (TcpServers),  *)
(* "monitor" (Monitor), "beacon" (Beacon) and "heard" (Heard).  Which one  *)
(* runs is chosen in the initial state; the others stay as they are.       *)
(***************************************************************************)
EXTENDS TcpClient

CONSTANTS MaxConn, TxDepth, MaxClients, MaxTx,       \* KissPool
          MaxActive, MaxAccepts, MaxQueue,           \* TcpServers
          MaxVV, MaxDays, MaxRecords, MaxFaults,     \* Monitor
          MaxStarts, MaxUpdates, MaxFrames,          \* Beacon
          Stations, ListMax, MaxAdds                 \* Heard

VARIABLES part,
          clients, add, sock, port, phy, checked, feeder, rem, main, offered,
          kind, listening, acceptor, accepted, stopped, stopper, handler, writer,
          socket, queueLen, waited, active, told,
          today, files, cur, loop, closing, records, faults, slipped,
          bcfg, bcancel, runs, cancelled, stopping, quiet, frames,
          entries, heard

Pool == INSTANCE KissPool
Servers == INSTANCE TcpServers
Captures == INSTANCE Monitor
Beacons == INSTANCE Beacon
HeardList == INSTANCE Heard

clientVars == vars
poolVars == <<clients, add, sock, port, phy, checked, feeder, rem, main, offered>>
serverVars == <<kind, listening, acceptor, accepted, stopped, stopper, handler, writer,
                socket, queueLen, waited, active, told>>
monitorVars == <<today, files, cur, loop, closing, records, faults, slipped>>
beaconVars == <<bcfg, bcancel, runs, cancelled, stopping, quiet, frames>>
heardVars == <<entries, heard>>
allVars == <<part, clientVars, poolVars, serverVars, monitorVars, beaconVars, heardVars>>

DriversInit == /\ part \in {"client", "pool", "servers", "monitor", "beacon", "heard"}
               /\ Init /\ Pool!Init /\ HeardList!Init
               /\ Captures!Init /\ (part # "monitor" => DOMAIN files = {<<1, 0>>})
               /\ Servers!Init /\ (part # "servers" => kind = "kiss")
               /\ Beacons!Init /\ (part # "beacon" => ~bcfg.every)

DriversNext ==
    /\ UNCHANGED part
    /\ \/ /\ part = "client" /\ Next
          /\ UNCHANGED <<poolVars, serverVars, monitorVars, beaconVars, heardVars>>
       \/ /\ part = "pool" /\ Pool!Next
          /\ UNCHANGED <<clientVars, serverVars, monitorVars, beaconVars, heardVars>>
       \/ /\ part = "servers" /\ Servers!Next
          /\ UNCHANGED <<clientVars, poolVars, monitorVars, beaconVars, heardVars>>
       \/ /\ part = "monitor" /\ Captures!Next
          /\ UNCHANGED <<clientVars, poolVars, serverVars, beaconVars, heardVars>>
       \/ /\ part = "beacon" /\ Beacons!Next
          /\ UNCHANGED <<clientVars, poolVars, serverVars, monitorVars, heardVars>>
       \/ /\ part = "heard" /\ HeardList!Next
          /\ UNCHANGED <<clientVars, poolVars, serverVars, monitorVars, beaconVars>>

\* Goroutines run and timers fire; nobody has to connect, leave, send or stop.
ClientFair == /\ WF_vars(part = "client" /\ RxLoop)
              /\ \A k \in Conns : WF_vars(part = "client" /\ TxLoop(k))
              /\ WF_vars(part = "client" /\ SendEnqueue)
              /\ WF_vars(part = "client" /\ (StopClose \/ StopReturn))

PoolFair == /\ WF_poolVars(part = "pool" /\ Pool!addSteps)
            /\ \A c \in 1 .. MaxClients : /\ WF_poolVars(part = "pool" /\ Pool!rxLoop(c))
                                          /\ WF_poolVars(part = "pool" /\ Pool!txLoop(c))
                                          /\ WF_poolVars(part = "pool" /\ Pool!SendEnqueue(c))
                                          /\ WF_poolVars(part = "pool" /\ Pool!feederSteps(c))
                                          /\ WF_poolVars(part = "pool" /\ Pool!remove(c))

ServersFair == /\ WF_serverVars(part = "servers" /\ ~listening /\ Servers!acceptEnds)
               /\ WF_serverVars(part = "servers" /\ Servers!Stop)
               /\ \A c \in 1 .. MaxAccepts : /\ WF_serverVars(part = "servers" /\ Servers!handleConn(c))
                                             /\ WF_serverVars(part = "servers" /\ Servers!writeLoop(c))

DriversSpec == /\ DriversInit /\ [][DriversNext]_allVars
               /\ ClientFair /\ PoolFair /\ ServersFair
               /\ WF_monitorVars(part = "monitor" /\ Captures!midnightLoop)

-----------------------------------------------------------------------------
(* Properties: those of the parts.                                         *)

\* The variables of the parts keep their types.  In the pool of the router that
\* includes the limit on clients (clientLimitReached), in the AGWPE server its
\* count of them (acquireClientSlot, releaseClientSlot).
PartsTypeOK == /\ TypeOK /\ Pool!TypeOK /\ Servers!TypeOK
               /\ Captures!TypeOK /\ Beacons!TypeOK /\ HeardList!TypeOK

\* KissPool: every registered port is somebody's to take away.
NoStrayPort == Pool!NoStrayPort

\* KissPool: a client that hangs up gives its place and its port back.
PlaceFreed == Pool!PlaceFreed

\* TcpServers: Stop of the KISS driver leaves no goroutine and no client behind.
NothingLeft == Servers!NothingLeft

\* TcpClient and TcpServers: Stop of the client and of both servers returns,
\* although their goroutines wait in Read, in Write or for each other.
StopsReturn == StopReturns /\ Servers!StopEnds

\* Monitor: no rotation loses a captured frame.
OnlyGrows == [][Captures!OnlyGrows]_monitorVars

\* Monitor: the captures of a day go to a file of that day, and a rotation that
\* fails costs no day after it.
Follows == Captures!Follows

\* Beacon: at most one goroutine sends, but for the one a Stop still waits for, and
\* none after Stop.
OneBeacon == Beacons!OneRuns

\* Heard: the list shows the stations heard last.
MostRecent == HeardList!MostRecent
=============================================================================
