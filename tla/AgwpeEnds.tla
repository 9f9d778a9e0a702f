----------------------------- MODULE AgwpeEnds -----------------------------
(***************************************************************************)
(* The two ends of an AGWPE connection, each against everything the other  *)
(* may do: "server" (AgwpeServer) and "terminal" (Terminal, with its other *)
(* two interfaces).  Which one runs is chosen in the initial state; the    *)
(* other stays as it is.                                                   *)
(***************************************************************************)
EXTENDS AgwpeServer

CONSTANTS Stations, Called, None, Depth, ConnWindow, Bounds  \* Terminal

VARIABLES part,
          mode, dest, main, stdin, term, lines, link, txq, rxq, outCh,
          sess, pend, calls, status, queued, cb, given, signalled

Term == INSTANCE Terminal WITH Remotes <- Stations, Window <- ConnWindow

\* Two queries given up, and a chunk after them; or a call between two lines.
MCBounds == {[lines |-> 3, given |-> 2, calls |-> 0], [lines |-> 2, given |-> 0, calls |-> 1]}

termVars == <<mode, dest, main, stdin, term, lines, link, txq, rxq, outCh,
              sess, pend, calls, status, queued, cb, given, signalled>>

EndsInit == /\ part \in {"server", "terminal"}
            /\ Init
            /\ Term!Init /\ (part = "server" => mode = "agwpe" /\ dest = None /\ calls = 0)

EndsNext == /\ UNCHANGED part
            /\ \/ part = "server" /\ Next /\ UNCHANGED termVars
               \/ part = "terminal" /\ Term!Next /\ UNCHANGED vars

\* The server: its goroutines run; the client and the remote stations need not
\* act.  The terminal: its goroutines run, a dial ends, and a Conn that is
\* leaving ends (its T1 counts retries down); nobody has to type, call or answer.
EndsSpec == /\ EndsInit /\ [][EndsNext]_<<part, termVars, vars>>
            /\ WF_<<termVars, vars>>(\/ part = "server" /\ HandleConn /\ UNCHANGED termVars
                                     \/ part = "terminal" /\ main # "exited" /\ Term!Main /\ UNCHANGED vars)
            /\ \A c \in Ids : /\ WF_vars(part = "server" /\ c \in Known /\ workerStep(c))
                              /\ WF_vars(part = "server" /\ c \in Known /\ timerStep(c))
            /\ WF_termVars(part = "terminal" /\ main # "exited" /\ (Term!Dial \/ Term!TransportError))
            /\ WF_termVars(part = "terminal" /\ main # "exited" /\ status = "leaving" /\ Term!ConnDown)
            /\ WF_termVars(part = "terminal" /\ main # "exited" /\ Term!OnDisconnect)

-----------------------------------------------------------------------------
(* Properties: TypeOK and NeverUnderReported of AgwpeServer, and these.    *)

\* Terminal: a line is sent at the pace at which the server delivers it.
Paced == Term!Paced

\* AgwpeServer: whatever a session's goroutines are doing, even when one of
\* them is stuck, HandleConn returns once the client has gone (unless the
\* program has panicked), so that the TCP server gets its place back.
\* Terminal: after the line "~.", the end of the input, a signal, or the end of
\* the session, the program exits.  It is one formula since one of them runs.
Ends == hc = "leaving" \/ signalled \/ term.disconnectCh \/ term.doneCh
          ~> hc = "done" \/ panicked \/ main = "exited"
=============================================================================
