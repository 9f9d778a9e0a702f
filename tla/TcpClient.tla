----------------------------- MODULE TcpClient -----------------------------
(***************************************************************************)
(* The reconnecting KISS TCP client driver (phy/kiss_tcp_client.go): the   *)
(* goroutine rxLoop, which dials, reads and reconnects, one txLoop for     *)
(* each connection, callers of Send, and Stop.  The AGWPE client           *)
(* (agwpe/client.go) has the same loops.                                   *)
(*                                                                         *)
(* The connections are numbered in the order in which they were dialled.   *)
(* The network and the server are external: a dial may fail, and the       *)
(* server may close a connection.                                          *)
(***************************************************************************)
EXTENDS Integers, Sequences, FiniteSets

CONSTANTS Depth,     \* TXQueueDepth
          MaxConns,  \* bound: connections dialled
          MaxSends   \* bound: frames given to Send

ASSUME TcpClientAssumption == Depth \in Nat \ {0} /\ MaxConns \in Nat /\ MaxSends \in Nat

VARIABLES rx,      \* where rxLoop is
          n,       \* the number of the connection rxLoop works with
          conn,    \* p.conn: the number of a connection, 0 for nil
          tcp,     \* each connection: "none", "open", "dropped" by the server, "closed"
          tx,      \* the txLoop of each connection: "none", "select", "write", "exited"
          pkt,     \* the packet that txLoop holds
          txCh,    \* the queue
          ctx,     \* the context is cancelled
          sender,  \* where a caller of Send is
          stop,    \* where the caller of Stop is
          sent,    \* frames given to Send so far
          wire     \* the frames the server got, in order

vars == <<rx, n, conn, tcp, tx, pkt, txCh, ctx, sender, stop, sent, wire>>

Conns == 1 .. MaxConns

\* The loops of the driver are in known places, and txCh is never over its
\* depth: Send drops instead.
TypeOK == /\ rx \in {"top", "dialled", "spawn", "read", "reset", "close", "join", "delay", "exited"}
          /\ n \in 0 .. MaxConns /\ conn \in 0 .. MaxConns
          /\ tcp \in [Conns -> {"none", "open", "dropped", "closed"}]
          /\ tx \in [Conns -> {"none", "select", "write", "exited"}]
          /\ pkt \in [Conns -> 0 .. MaxSends]
          /\ txCh \in Seq(1 .. MaxSends) /\ Len(txCh) <= Depth
          /\ ctx \in BOOLEAN
          /\ sender \in {"idle", "checked"}
          /\ stop \in {"idle", "cancelled", "waiting", "returned"}
          /\ sent \in 0 .. MaxSends

Init == /\ rx = "top" /\ n = 0 /\ conn = 0
        /\ tcp = [k \in Conns |-> "none"]
        /\ tx = [k \in Conns |-> "none"]
        /\ pkt = [k \in Conns |-> 0]
        /\ txCh = << >> /\ ctx = FALSE
        /\ sender = "idle" /\ stop = "idle"
        /\ sent = 0 /\ wire = << >>

txVars == <<tx, pkt, txCh, wire>>
callVars == <<ctx, sender, stop, sent>>

-----------------------------------------------------------------------------
(* rxLoop.                                                                 *)

\* The head of the loop, and each select between ctx.Done and the delay.
RxExit == /\ rx \in {"top", "delay"} /\ ctx
          /\ rx' = "exited"
          /\ UNCHANGED <<n, conn, tcp, txVars, callVars>>

\* DialContext succeeds.
RxDial == /\ rx = "top" /\ ~ctx /\ n < MaxConns
          /\ n' = n + 1
          /\ tcp' = [tcp EXCEPT ![n + 1] = "open"]
          /\ rx' = "dialled"
          /\ UNCHANGED <<conn, txVars, callVars>>

\* DialContext fails.
RxDialFails == /\ rx = "top" /\ ~ctx /\ rx' = "delay"
               /\ UNCHANGED <<n, conn, tcp, txVars, callVars>>

RxConnected == /\ rx = "dialled" /\ rx' = "spawn" /\ conn' = n
               /\ UNCHANGED <<n, tcp, txVars, callVars>>

RxSpawn == /\ rx = "spawn" /\ rx' = "read"
           /\ tx' = [tx EXCEPT ![n] = "select"]
           /\ UNCHANGED <<n, conn, tcp, pkt, txCh, wire, callVars>>

\* Read fails because either end closed the connection, or its deadline of a
\* second passes and the context is cancelled.
RxBroken == /\ rx = "read" /\ (tcp[n] # "open" \/ ctx)
            /\ rx' = "reset"
            /\ UNCHANGED <<n, conn, tcp, txVars, callVars>>

RxReset == /\ rx = "reset" /\ rx' = "close" /\ conn' = 0
           /\ UNCHANGED <<n, tcp, txVars, callVars>>

RxClose == /\ rx = "close" /\ rx' = "join"
           /\ tcp' = [tcp EXCEPT ![n] = "closed"]
           /\ UNCHANGED <<n, conn, txVars, callVars>>

\* <-txDone
RxJoin == /\ rx = "join" /\ tx[n] = "exited" /\ rx' = "delay"
          /\ UNCHANGED <<n, conn, tcp, txVars, callVars>>

RxDelay == /\ rx = "delay" /\ rx' = "top"
           /\ UNCHANGED <<n, conn, tcp, txVars, callVars>>

RxLoop == \/ RxExit \/ RxDialFails \/ RxConnected \/ RxSpawn
          \/ RxBroken \/ RxReset \/ RxClose \/ RxJoin \/ RxDelay

-----------------------------------------------------------------------------
(* txLoop of connection k.  select chooses at random.                      *)

\* Mutant: a cancelled context is not noticed.
TxCancelled_Deaf(k) == FALSE /\ UNCHANGED vars

TxCancelled(k) == /\ tx[k] = "select" /\ ctx
                  /\ tx' = [tx EXCEPT ![k] = "exited"]
                  /\ UNCHANGED <<rx, n, conn, tcp, pkt, txCh, wire, callVars>>

TxTake(k) == /\ tx[k] = "select" /\ txCh # << >>
             /\ tx' = [tx EXCEPT ![k] = "write"]
             /\ pkt' = [pkt EXCEPT ![k] = Head(txCh)]
             /\ txCh' = Tail(txCh)
             /\ UNCHANGED <<rx, n, conn, tcp, wire, callVars>>

\* A write to a connection the server has dropped may still succeed.
TxWrite(k) == /\ tx[k] = "write" /\ tcp[k] \in {"open", "dropped"}
              /\ tx' = [tx EXCEPT ![k] = "select"]
              /\ wire' = IF tcp[k] = "open" THEN Append(wire, pkt[k]) ELSE wire
              /\ UNCHANGED <<rx, n, conn, tcp, pkt, txCh, callVars>>

\* Mutant: a packet that could not be written goes back to the end of the queue.
TxWriteFails_Requeue(k) ==
    /\ tx[k] = "write" /\ tcp[k] \in {"dropped", "closed"}
    /\ tx' = [tx EXCEPT ![k] = "exited"]
    /\ txCh' = IF Len(txCh) < Depth THEN Append(txCh, pkt[k]) ELSE txCh
    /\ UNCHANGED <<rx, n, conn, tcp, pkt, wire, callVars>>

TxWriteFails(k) == /\ tx[k] = "write" /\ tcp[k] \in {"dropped", "closed"}
                   /\ tx' = [tx EXCEPT ![k] = "exited"]
                   /\ UNCHANGED <<rx, n, conn, tcp, pkt, txCh, wire, callVars>>

TxLoop(k) == TxCancelled(k) \/ TxTake(k) \/ TxWrite(k) \/ TxWriteFails(k)

-----------------------------------------------------------------------------
(* Send, Stop and the server.                                              *)

\* Send looks at p.conn; without a connection it returns ErrNotConnected.
SendCheck == /\ sender = "idle" /\ sent < MaxSends
             /\ sent' = sent + 1
             /\ sender' = IF conn # 0 THEN "checked" ELSE "idle"
             /\ UNCHANGED <<rx, n, conn, tcp, txVars, ctx, stop>>

\* A full queue gives ErrTXQueueFull.
SendEnqueue == /\ sender = "checked" /\ sender' = "idle"
               /\ txCh' = IF Len(txCh) < Depth THEN Append(txCh, sent) ELSE txCh
               /\ UNCHANGED <<rx, n, conn, tcp, tx, pkt, wire, ctx, stop, sent>>

StopCancel == /\ stop = "idle" /\ stop' = "cancelled" /\ ctx' = TRUE
              /\ UNCHANGED <<rx, n, conn, tcp, txVars, sender, sent>>

StopClose == /\ stop = "cancelled" /\ stop' = "waiting"
             /\ tcp' = IF conn # 0 THEN [tcp EXCEPT ![conn] = "closed"] ELSE tcp
             /\ UNCHANGED <<rx, n, conn, txVars, ctx, sender, sent>>

\* p.wg.Wait()
StopReturn == /\ stop = "waiting" /\ rx = "exited"
              /\ \A k \in Conns : tx[k] \in {"none", "exited"}
              /\ stop' = "returned"
              /\ UNCHANGED <<rx, n, conn, tcp, txVars, ctx, sender, sent>>

Drop(k) == /\ tcp[k] = "open" /\ k < MaxConns
           /\ tcp' = [tcp EXCEPT ![k] = "dropped"]
           /\ UNCHANGED <<rx, n, conn, txVars, callVars>>

Next == \/ RxLoop \/ RxDial
        \/ \E k \in Conns : TxLoop(k) \/ Drop(k)
        \/ SendCheck \/ SendEnqueue
        \/ StopCancel \/ StopClose \/ StopReturn

\* The goroutines run and timers expire; the server lets the driver in when it
\* tries again and again; nobody has to call Send or Stop.
FairSpec == /\ Init /\ [][Next]_vars
            /\ WF_vars(RxLoop) /\ SF_vars(RxDial)
            /\ \A k \in Conns : WF_vars(TxLoop(k))
            /\ WF_vars(SendEnqueue) /\ WF_vars(StopClose \/ StopReturn)

-----------------------------------------------------------------------------
(* Properties.                                                             *)

\* What the server gets is in the order of Send, without repetition, across
\* reconnections.
WireInOrder == \A i, j \in DOMAIN wire : i < j => wire[i] < wire[j]

\* Stop returns, whenever it is called, whatever the connection does.
StopReturns == stop # "idle" ~> stop = "returned"

\* "The driver reconnects automatically on disconnection"
\* (kiss_tcp_client.go:43).
Reconnects == \A k \in Conns : tcp[k] = "dropped" ~> conn > k \/ ctx
=============================================================================
