------------------------------ MODULE MCRouter ------------------------------
(***************************************************************************)
(* Instances of Router: the ports cmd/router makes (an uplink, a KISS TCP  *)
(* client, a digipeater) in small numbers, in the three modes.           *)
(***************************************************************************)
EXTENDS Router

CONSTANTS kiss, uplink, digi,         \* ports
          A, B, S, D, E, none,        \* addresses
          s1, s2, a1, a2              \* goroutines

MCMode == [p \in Ports |-> CASE p = kiss -> "Dynamic"
                             [] p = uplink -> "Default"
                             [] p = digi -> "Digipeater"]

MCAddress == [p \in Ports |-> CASE p = digi -> D
                                [] OTHER -> none]

Hop(a) == [addr |-> a, rep |-> FALSE]
X(from, src, dst, via) == [from |-> from, src |-> src, dst |-> dst, via |-> via]

\* Two callsigns behind one KISS client, and answers to one of them from the
\* air, by way of this router's digipeater or of another one first.
Switch == [mode |-> "switch", ports |-> Ports, start |-> <<kiss, uplink, digi>>,
           traffic |-> {X(kiss, A, S, << >>), X(kiss, B, S, << >>),
                        X(uplink, S, A, <<Hop(D)>>), X(uplink, S, A, <<Hop(E), Hop(D)>>)},
           admins |-> {}, sends |-> [t \in Senders |-> IF t = s1 THEN 2 ELSE 1]]

\* A digipeater whose worker sends while ports come and go.
Relay == [mode |-> "bridge", ports |-> {uplink, digi}, start |-> <<uplink>>,
          traffic |-> {X(uplink, B, A, <<Hop(D)>>)},
          admins |-> {a1, a2}, sends |-> [t \in Senders |-> IF t = s1 THEN 2 ELSE 0]]

\* A hub whose client leaves while it and the uplink send more than a queue
\* holds.
Hub == [mode |-> "hub", ports |-> {kiss, uplink}, start |-> <<kiss, uplink>>,
        traffic |-> {X(kiss, A, S, << >>), X(uplink, S, A, << >>)},
        admins |-> {a1}, sends |-> [t \in Senders |-> IF t = s1 THEN 3 ELSE 0]]

\* A client that asks for a digipeater elsewhere, which only the uplink reaches.
Remote == [mode |-> "switch", ports |-> {kiss, uplink}, start |-> <<kiss, uplink>>,
           traffic |-> {X(kiss, A, S, << >>), X(kiss, A, S, <<Hop(E)>>)},
           admins |-> {}, sends |-> [t \in Senders |-> 1]]

RemoteSetup == {Remote}
MCSetups == {Switch, Relay, Hub}
=============================================================================
