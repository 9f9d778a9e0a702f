------------------------------ MODULE Samples ------------------------------
(***************************************************************************)
(* Messages for Wire whose bytes are awkward: control fields and payloads  *)
(* that look like KISS markers, callsigns of one and of six characters,    *)
(* lower case, SSID 0 and 15, passed and open hops, empty payloads.        *)
(***************************************************************************)
EXTENDS AgwFrames, Text

Addr(call, ssid) == [call |-> call, ssid |-> ssid, hbr |-> FALSE, last |-> FALSE]
Passed(a) == [a EXCEPT !.hbr = TRUE]

Long == Addr(<<78, 48, 67, 65, 76, 76>>, 15)   \* N0CALL-15
Short == Addr(<<65>>, 0)                       \* A
Lower == Addr(<<107, 55>>, 10)                 \* k7-10
Hop1 == Addr(<<68, 49>>, 1)
Hop2 == Addr(<<68, 50>>, 0)

Msg(kind, from, to, via, cmd, pf, ns, nr, pid, info) ==
    [kind |-> kind, from |-> from, to |-> to, via |-> via, cmd |-> cmd, pf |-> pf,
     ns |-> ns, nr |-> nr, pid |-> pid, info |-> info]

Escapes == Msg("UI", Long, Short, << >>, TRUE, FALSE, 0, 0, PIDNone, <<FEsc, FEnd, TFEnd>>)
Relayed == Msg("UI", Short, Long, <<Passed(Hop1), Passed(Hop2)>>, TRUE, FALSE, 0, 0, 0, << >>)
\* N(R) = 6 and N(S) = 0 make a control byte equal to FEND
Marker  == Msg("I", Lower, Long, <<Passed(Hop1), Hop2>>, TRUE, FALSE, 0, 6, PIDNone, <<FEnd>>)
Setup   == Msg("SABM", Lower, Short, << >>, TRUE, TRUE, 0, 0, 0, << >>)
Reject  == Msg("REJ", Long, Lower, << >>, FALSE, TRUE, 0, 7, 0, << >>)

\* A text typed with escapes for every byte: b, a backslash, a control
\* character, a byte above 127 before a letter, and a number that is too large.
Escaped == [typed |-> <<98, 92, 92, 92, 97, 92, 50, 48, 48, 122>>, raw |-> << >>,
            beacon |-> <<98, 92, 92, 92, 120, 48, 49, 92, 120, 67, 56, 122>>,
            means |-> <<98, 92, 1, 200, 122>>]
Large == [typed |-> <<92, 50, 53, 54, 92>>, raw |-> << >>,
          beacon |-> <<92, 50, 53, 54, 92>>, means |-> <<92, 50, 53, 54, 92>>]
Lined(eol) == [typed |-> << >>, raw |-> <<66>> \o eol, beacon |-> <<66>>, means |-> <<66>>]
Empty == [typed |-> << >>, raw |-> << >>, beacon |-> << >>, means |-> << >>]

\* The unproto framing carries UI frames only.
MCMessages == [kiss |-> {Escapes, Marker, Reject}, raw |-> {Escapes, Marker, Setup},
               unproto |-> {Escapes, Relayed}, reply |-> {Relayed, Reject},
               pcap |-> {Marker, Setup},
               text |-> {Escaped, Large, Empty, Lined(<<LF>>), Lined(<<CR, LF>>)}]
=============================================================================
