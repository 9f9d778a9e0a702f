------------------------------ MODULE Terminal ------------------------------
(***************************************************************************)
(* The terminal program (cmd/terminal/main.go): its main goroutine, the    *)
(* goroutine that reads standard input, and the callbacks of the session,  *)
(* which is either a session of an AGWPE server (mode "agwpe", through     *)
(* agwpe/client.go) or an ax25.Conn of its own over a serial port or a     *)
(* KISS TCP connection (modes "serial" and "kiss").                        *)
(*                                                                         *)
(* The AGWPE server is that of agwpe/server.go, as its client meets it: a   *)
(* station the terminal calls gets a slot, one that calls the terminal is  *)
(* served by the listener of its callsign.  External: the remote stations; *)
(* the ax25.Conn, which is what module Service promises.  A timeout may    *)
(* come whenever what is waited for is not there yet.  What a line says is *)
(* left out but for the number of chunks it is sent in.                    *)
(***************************************************************************)
EXTENDS Integers, Sequences, FiniteSets

CONSTANTS Remotes,    \* the other stations
          Called,     \* the one given on the command line
          None,       \* no station: the program listens
          Depth,      \* TXQueueDepth of the client
          Window,     \* of the ax25.Conn
          Bounds      \* the bounds to look at: lines of input, where one of two chunks
                      \* counts twice; queries given up; calls of remote stations

VARIABLES mode, dest,     \* the interface, and the destination or None
          main,           \* where the main goroutine is
          stdin,          \* the goroutine of standard input
          term,           \* the flags and channels of agwSession and connSession
          lines,          \* lines not yet read
          link,           \* the client's TCP connection
          txq,            \* the client's txCh, and what is on its way to the server
          rxq,            \* what the server has sent and onFrame has not handled
          outCh,          \* s.outCh
          sess, pend,     \* the server's sessions, and the chunks each has still to deliver
          calls,          \* calls of remote stations still to come
          status, queued, \* the ax25.Conn
          cb,             \* its callbacks that have not run yet
          given,          \* queries that may still be given up
          signalled       \* a signal has come

server == <<sess, pend, calls>>
client == <<link, txq, rxq, outCh>>
conn == <<status, queued, cb>>
ghosts == <<given, signalled>>
vars == <<mode, dest, main, stdin, term, lines, client, server, conn, ghosts>>

agwpe == mode = "agwpe"

\* The flags and the configuration file select one of the three.
selectInterface == {"agwpe", "serial", "kiss"}

\* late: the answers that were still to come, to queries given up before, when the
\* chunk was sent.
Start == [at |-> "none", left |-> 0, zeros |-> 0, to |-> None, late |-> 0]

NoSession == [by |-> "none", is |-> "down"]

\* Passive mode is not supported with -kiss.
Init == /\ mode \in selectInterface
        /\ dest \in {Called, None} /\ (mode = "kiss" => dest # None)
        /\ main = "begin" /\ stdin = Start
        /\ term = [connected |-> FALSE, remote |-> None, connectedCh |-> FALSE,
                   doneCh |-> FALSE, disconnectCh |-> FALSE]
        /\ \E b \in Bounds : lines = b.lines /\ given = b.given /\ calls = b.calls
        /\ link = "down" /\ txq = << >> /\ rxq = << >> /\ outCh = << >>
        /\ sess = [r \in Remotes |-> NoSession] /\ pend = [r \in Remotes |-> 0]
        /\ status = "down" /\ queued = 0 /\ cb = {}
        /\ signalled = FALSE

Msg(kind, r, n) == [kind |-> kind, r |-> r, n |-> n]

\* s.onceDone
Done == term' = [term EXCEPT !.doneCh = TRUE]

-----------------------------------------------------------------------------
(* The AGWPE client.                                                       *)

CanSend == link = "up" /\ Len(txq) < Depth

\* SendFrame: ErrNotConnected and ErrTXQueueFull leave the queue alone.
SendFrame(m) == txq' = IF CanSend THEN Append(txq, m) ELSE txq

Dial == /\ agwpe /\ link = "down"
        /\ link' = "up"
        /\ UNCHANGED <<mode, dest, main, stdin, term, lines, txq, rxq, outCh, server, conn, ghosts>>

\* A dial that fails and a write that fails call OnError.
TransportError == /\ agwpe /\ (link = "down" \/ (link = "lost" /\ txq # << >>))
                  /\ link' = "lost" /\ txq' = << >>
                  /\ Done
                  /\ UNCHANGED <<mode, dest, main, stdin, lines, rxq, outCh, server, conn, ghosts>>

\* rxLoop sees that the server closed the connection: no callback.
LoseTransport == /\ agwpe /\ link = "up"
                 /\ link' = "lost" /\ rxq' = << >>
                 /\ sess' = [r \in Remotes |-> NoSession] /\ pend' = [r \in Remotes |-> 0]
                 /\ UNCHANGED <<mode, dest, main, stdin, term, lines, txq, outCh, calls, conn, ghosts>>

-----------------------------------------------------------------------------
(* The AGWPE server.                                                       *)

\* enqueue drops a frame when the queue to the client is full.
enqueue(m) == rxq' \in {rxq, Append(rxq, m)}

\* findSlot, and the listener, whoever it is connected with.
conns(r) == IF sess[r].by = "slot" THEN {r} ELSE {q \in Remotes : sess[q].by = "listener"}

\* Without a free slot there is no answer.
handleConnect(r) == /\ sess' \in {sess, [sess EXCEPT ![r] = [by |-> "slot", is |-> "calling"]]}
                    /\ UNCHANGED <<rxq, pend>>

\* A Conn that is not connected refuses the chunk.
handleSendData(r) == /\ pend' = [q \in Remotes |-> IF q \in conns(r) /\ sess[q].is = "up"
                                                   THEN pend[q] + 1 ELSE pend[q]]
                     /\ UNCHANGED <<rxq, sess>>

\* The terminal asks only whether the count is 0.  A slot may have counted chunks
\* that were refused, or those of earlier sessions, and may outlive its session;
\* a session of the listener is not counted.
handleOutstandingConn(r) ==
    /\ \E n \in IF r # dest THEN {0} ELSE IF pend[r] > 0 THEN {1} ELSE {0, 1} : enqueue(Msg("Y", r, n))
    /\ UNCHANGED <<sess, pend>>

\* Shutdown: the session ends when the remote station has answered.
handleDisconnect(r) == /\ sess' = [q \in Remotes |-> IF q \in conns(r) THEN [sess[q] EXCEPT !.is = "ending"]
                                                     ELSE sess[q]]
                       /\ UNCHANGED <<rxq, pend>>

\* txLoop writes the oldest frame, and the server handles it; 'X' makes the listener.
Serve ==
    /\ link = "up" /\ txq # << >> /\ txq' = Tail(txq)
    /\ LET m == Head(txq)
       IN  CASE m.kind = "X" -> UNCHANGED <<rxq, sess, pend>>
             [] m.kind = "C" -> handleConnect(m.r)
             [] m.kind = "D" -> handleSendData(m.r)
             [] m.kind = "Y" -> handleOutstandingConn(m.r)
             [] m.kind = "d" -> handleDisconnect(m.r)
    /\ UNCHANGED <<mode, dest, main, stdin, term, lines, link, outCh, calls, conn, ghosts>>

Deliver(r) == /\ pend[r] > 0 /\ sess[r].is = "up" /\ pend' = [pend EXCEPT ![r] = @ - 1]
              /\ UNCHANGED <<mode, dest, main, stdin, term, lines, client, sess, calls, conn, ghosts>>

\* OnConnect of the Conn of a slot.
RemoteAnswers(r) == /\ sess[r].is = "calling"
                    /\ sess' = [sess EXCEPT ![r].is = "up"]
                    /\ enqueue(Msg("C", r, 0))
                    /\ UNCHANGED <<mode, dest, main, stdin, term, lines, link, txq, outCh, pend, calls, conn, ghosts>>

\* OnConnect of the listener's.  The station that is called does not call.
RemoteCalls(r) == /\ link = "up" /\ main \notin {"begin", "call"} /\ calls > 0
                  /\ r # dest /\ \A q \in Remotes : sess[q].by # "listener"
                  /\ calls' = calls - 1
                  /\ sess' = [sess EXCEPT ![r] = [by |-> "listener", is |-> "up"]]
                  /\ enqueue(Msg("C", r, 0))
                  /\ UNCHANGED <<mode, dest, main, stdin, term, lines, link, txq, outCh, pend, conn, ghosts>>

\* OnDisconnect: a station refuses, hangs up or answers DISC, or retries run out.
RemoteLeaves(r) == /\ sess[r].is # "down"
                   /\ sess' = [sess EXCEPT ![r] = NoSession] /\ pend' = [pend EXCEPT ![r] = 0]
                   /\ enqueue(Msg("d", r, 0))
                   /\ UNCHANGED <<mode, dest, main, stdin, term, lines, link, txq, outCh, calls, conn, ghosts>>

-----------------------------------------------------------------------------
(* onFrame, on the client's receive goroutine.                             *)

onConnectResp(r) ==
    IF ~term.connected
    THEN /\ term' = [term EXCEPT !.remote = r, !.connected = TRUE, !.connectedCh = TRUE]
         /\ UNCHANGED <<txq, outCh>>
    ELSE /\ IF r # term.remote THEN SendFrame(Msg("d", r, 0)) ELSE UNCHANGED txq
         /\ UNCHANGED <<term, outCh>>

\* outCh holds the newest count: a full channel is emptied first.
onOutstanding(n) == outCh' = <<n>> /\ UNCHANGED <<term, txq>>

\* The reply names a station, which is not looked at.
onDisconnectResp == /\ term' = [term EXCEPT !.connected = FALSE, !.doneCh = TRUE]
                    /\ UNCHANGED <<txq, outCh>>

onFrame == /\ rxq # << >> /\ rxq' = Tail(rxq)
           /\ LET m == Head(rxq)
              IN  CASE m.kind = "C" -> onConnectResp(m.r)
                    [] m.kind = "Y" -> onOutstanding(m.n)
                    [] m.kind = "d" -> onDisconnectResp
           /\ UNCHANGED <<mode, dest, main, stdin, lines, link, server, conn, ghosts>>

-----------------------------------------------------------------------------
(* The ax25.Conn and the callbacks of connSession, which run on the        *)
(* router's and the timers' goroutines.                                    *)

Shutdown == status' = IF status = "down" THEN "down" ELSE "leaving"

ConnUp == /\ ~agwpe /\ main # "begin"
          /\ status = "calling" \/ (status = "down" /\ calls > 0)
          /\ status' = "up" /\ queued' = 0 /\ cb' = cb \cup {"connect"}
          /\ calls' = IF status = "down" THEN calls - 1 ELSE calls
          /\ UNCHANGED <<mode, dest, main, stdin, term, lines, client, sess, pend, ghosts>>

ConnAck == /\ status = "up" /\ queued > 0 /\ queued' = queued - 1
           /\ UNCHANGED <<mode, dest, main, stdin, term, lines, client, server, status, cb, ghosts>>

ConnDown == /\ status # "down" /\ status' = "down" /\ cb' = cb \cup {"disconnect"}
            /\ UNCHANGED <<mode, dest, main, stdin, term, lines, client, server, queued, ghosts>>

OnConnect == /\ "connect" \in cb /\ cb' = cb \ {"connect"}
             /\ term' = [term EXCEPT !.connected = TRUE, !.connectedCh = TRUE]
             /\ UNCHANGED <<mode, dest, main, stdin, lines, client, server, status, queued, ghosts>>

OnDisconnect == /\ "disconnect" \in cb /\ cb' = cb \ {"disconnect"}
                /\ term' = [term EXCEPT !.connected = FALSE, !.doneCh = TRUE]
                /\ UNCHANGED <<mode, dest, main, stdin, lines, client, server, status, queued, ghosts>>

-----------------------------------------------------------------------------
(* Standard input: stdinLoop and runStdin.                                 *)

Goto(where) == stdin' = [stdin EXCEPT !.at = where]

\* waitForConnectedOrDone: select between two closed channels takes either.
StdinWait == /\ stdin.at = "wait"
             /\ \/ term.connectedCh /\ Goto("read")
                \/ term.doneCh /\ Goto("gone")
             /\ UNCHANGED <<mode, dest, main, term, lines, client, server, conn, ghosts>>

\* processLine: 0 chunks for a file that cannot be read.
ReadLine(k) == /\ stdin.at = "read" /\ lines > 0
               /\ lines' = lines - (IF k = 2 THEN 2 ELSE 1) /\ lines' >= 0
               /\ IF k = 0 \/ ~term.connected THEN UNCHANGED stdin
                  ELSE stdin' = [at |-> "send", left |-> k, zeros |-> 0, to |-> term.remote, late |-> 0]
               /\ UNCHANGED <<mode, dest, main, term, client, server, conn, ghosts>>

\* disconnect: SendFrame is not tried again.
disconnect == IF term.connected THEN SendFrame(Msg("d", term.remote, 0)) ELSE UNCHANGED txq

\* The line "~." or the end of the input.
Leave == /\ stdin.at = "read" /\ Goto("gone")
         /\ IF agwpe
            THEN disconnect /\ Done /\ UNCHANGED status
            ELSE Shutdown /\ term' = [term EXCEPT !.disconnectCh = TRUE] /\ UNCHANGED txq
         /\ UNCHANGED <<mode, dest, main, lines, link, rxq, outCh, server, queued, cb, ghosts>>

\* The scanner fails: nobody reads any more, and the session stays.
StdinError == /\ stdin.at = "read" /\ Goto("gone")
              /\ UNCHANGED <<mode, dest, main, term, lines, client, server, conn, ghosts>>

\* The next chunk of the line, or the next line.
NextChunk == stdin' = [stdin EXCEPT !.at = IF stdin.left = 1 THEN "read" ELSE "send",
                                    !.left = @ - 1, !.zeros = 0, !.late = 0]

\* sendConnPayloads: a full window is tried again, any other error ends the line.
sendConnPayloads ==
    /\ ~agwpe /\ stdin.at = "send"
    /\ IF status = "up" THEN queued < Window /\ queued' = queued + 1 /\ NextChunk
       ELSE UNCHANGED queued /\ stdin' = [stdin EXCEPT !.at = "read", !.left = 0]
    /\ UNCHANGED <<mode, dest, main, term, lines, client, server, status, cb, ghosts>>

isQuery(m) == m.kind = "Y"

\* sendPayloads: a chunk, and queries until two counts in a row are 0.
sendPayloads == /\ agwpe /\ stdin.at = "send" /\ CanSend
                /\ SendFrame(Msg("D", stdin.to, 0))
                /\ stdin' = [stdin EXCEPT !.at = "poll", !.late = Len(SelectSeq(txq \o rxq, isQuery))]
                /\ UNCHANGED <<mode, dest, main, term, lines, link, rxq, outCh, server, conn, ghosts>>

queryOutstanding == /\ stdin.at = "poll" /\ CanSend
                    /\ outCh' = << >>
                    /\ SendFrame(Msg("Y", stdin.to, 0)) /\ Goto("asked")
                    /\ UNCHANGED <<mode, dest, main, term, lines, link, rxq, server, conn, ghosts>>

\* retrySend: the deadline passes.
retryFails == /\ agwpe /\ stdin.at \in {"send", "poll"} /\ ~CanSend
              /\ stdin' = [stdin EXCEPT !.at = "read", !.left = 0, !.late = 0]
              /\ UNCHANGED <<mode, dest, main, term, lines, client, server, conn, ghosts>>

\* Mutant: one count of 0 is enough.
waitForOutstanding_Once ==
    /\ stdin.at = "asked" /\ outCh # << >> /\ outCh' = << >>
    /\ IF Head(outCh) = 0 THEN NextChunk
       ELSE stdin' = [stdin EXCEPT !.at = "poll", !.zeros = 0]
    /\ UNCHANGED <<mode, dest, main, term, lines, link, txq, rxq, server, conn, ghosts>>

waitForOutstanding ==
    /\ stdin.at = "asked" /\ outCh # << >> /\ outCh' = << >>
    /\ IF Head(outCh) = 0 /\ stdin.zeros = 1 THEN NextChunk
       ELSE stdin' = [stdin EXCEPT !.at = "poll", !.zeros = IF Head(outCh) = 0 THEN 1 ELSE 0]
    /\ UNCHANGED <<mode, dest, main, term, lines, link, txq, rxq, server, conn, ghosts>>

\* The query is given up; its answer may still come.
queryTimeout == /\ stdin.at = "asked" /\ outCh = << >> /\ given > 0
                /\ given' = given - 1
                /\ stdin' = [stdin EXCEPT !.at = "read", !.left = 0, !.late = 0]
                /\ UNCHANGED <<mode, dest, main, term, lines, client, server, conn, signalled>>

Stdin == \/ StdinWait \/ Leave \/ StdinError \/ (\E k \in 0 .. 2 : ReadLine(k))
         \/ sendConnPayloads \/ sendPayloads \/ queryOutstanding
         \/ retryFails \/ waitForOutstanding \/ queryTimeout

-----------------------------------------------------------------------------
(* The main goroutine.                                                     *)

\* runAGWPETerminal registers the callsign; 6 s, then an error.
beginAGWPE == /\ mode = "agwpe"
              /\ SendFrame(Msg("X", None, 0))
              /\ main' = IF CanSend THEN "call" ELSE "stop"

\* The serial port may not open.
runSerialTerminal == mode = "serial" /\ main' \in {"call", "stop"} /\ UNCHANGED txq

\* 6 s for the connection to the KISS server.
waitForKISSTCPConnected == mode = "kiss" /\ main' \in {"call", "stop"} /\ UNCHANGED txq

Begin == /\ main = "begin"
         /\ beginAGWPE \/ runSerialTerminal \/ waitForKISSTCPConnected
         /\ UNCHANGED <<mode, dest, stdin, term, lines, link, rxq, outCh, server, conn, ghosts>>

\* Then the goroutine of standard input starts.
Call == /\ main = "call"
        /\ IF dest = None THEN main' = "select" /\ UNCHANGED <<txq, status>>
           ELSE IF agwpe THEN /\ main' = IF CanSend THEN "select" ELSE "stop"
                              /\ SendFrame(Msg("C", dest, 0)) /\ UNCHANGED status
           \* Connect: a call that came in first is ErrConnAlreadyActive
           ELSE /\ main' = IF status = "down" THEN "select" ELSE "stop"
                /\ status' = IF status = "down" THEN "calling" ELSE status
                /\ UNCHANGED txq
        /\ IF main' = "select" THEN Goto("wait") ELSE UNCHANGED stdin
        /\ UNCHANGED <<mode, dest, term, lines, link, rxq, outCh, server, queued, cb, ghosts>>

\* With -kiss a goroutine of its own takes the signal, and the main one goes on
\* waiting for the session.
Signal == /\ main = "select" /\ ~signalled /\ signalled' = TRUE
          /\ main' = IF mode = "kiss" THEN main ELSE "ack"
          /\ IF agwpe THEN disconnect /\ UNCHANGED status ELSE Shutdown /\ UNCHANGED txq
          /\ UNCHANGED <<mode, dest, stdin, term, lines, link, rxq, outCh, server, queued, cb, given>>

\* A transport error of the KISS client.
KissError == /\ mode = "kiss" /\ main = "select" /\ main' = "stop"
             /\ UNCHANGED <<mode, dest, stdin, term, lines, client, server, conn, ghosts>>

DoneSeen == /\ main \in {"select", "ack"} /\ term.doneCh /\ main' = "stop"
            /\ UNCHANGED <<mode, dest, stdin, term, lines, client, server, conn, ghosts>>

DisconnectSeen == /\ main = "select" /\ term.disconnectCh /\ main' = "ack"
                  /\ UNCHANGED <<mode, dest, stdin, term, lines, client, server, conn, ghosts>>

\* waitForDisconnectAck: 5 s.
AckTimeout == /\ main = "ack" /\ main' = "stop"
              /\ UNCHANGED <<mode, dest, stdin, term, lines, client, server, conn, ghosts>>

\* The deferred Stop, Close and cancel.
Stop == /\ main = "stop" /\ main' = "exited"
        /\ UNCHANGED <<mode, dest, stdin, term, lines, client, server, conn, ghosts>>

Main == Begin \/ Call \/ DoneSeen \/ DisconnectSeen \/ AckTimeout \/ Stop

Next == /\ main # "exited"
        /\ \/ Dial \/ TransportError \/ LoseTransport
           \/ Serve \/ onFrame
           \/ \E r \in Remotes : Deliver(r) \/ RemoteAnswers(r) \/ RemoteCalls(r) \/ RemoteLeaves(r)
           \/ ConnUp \/ ConnAck \/ ConnDown \/ OnConnect \/ OnDisconnect
           \/ Stdin \/ Main \/ Signal \/ KissError

Spec == Init /\ [][Next]_vars

-----------------------------------------------------------------------------
(* Properties.                                                             *)

\* A count that makes the terminal go on.
NextSent == stdin.at = "asked" /\ stdin'.left = stdin.left - 1 /\ given' = given

\* The terminal goes on to the next chunk, or to the next line, only when the
\* station it has called has acknowledged the last one, although the answer to a
\* query that was given up may still come and say 0: the second count tells it
\* apart (waitForOutstanding).  Two such answers, both on their way when the
\* chunk was sent, are taken for two counts of 0, and a station that has called
\* is not waited for at all, since the server does not count its chunks.
Paced == [][NextSent /\ stdin.late < 2 /\ sess[stdin.to].by = "slot" => pend[stdin.to] = 0]_vars
=============================================================================
