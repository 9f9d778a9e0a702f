------------------------------- MODULE Heard -------------------------------
(***************************************************************************)
(* The BBS's list of stations heard (cmd/bbs/heard/heard.go), most recent  *)
(* first.  A callsign is a station and the case it is written in.          *)
(***************************************************************************)
EXTENDS Integers, Sequences, SequencesExt

CONSTANTS Stations,  \* callsigns in upper case
          ListMax,   \* l.max
          MaxAdds    \* bound: frames heard

VARIABLES entries,   \* l.entries
          heard      \* every station heard, the latest last

\* Add keeps the list within its maximum, in upper case.
TypeOK == /\ entries \in Seq(Stations) /\ Len(entries) <= ListMax
          /\ heard \in Seq(Stations)

Init == entries = << >> /\ heard = << >>

ToUpper(call) == call.station

front(s) == SubSeq(s, 1, IF Len(s) < ListMax THEN Len(s) ELSE ListMax)

\* Mutant: a station that is on the list stays where it is.
Add_Keep(call) ==
    LET c == ToUpper(call)
    IN  /\ Len(heard) < MaxAdds /\ heard' = Append(heard, c)
        /\ entries' = IF Contains(entries, c) THEN entries
                      ELSE front(<<c>> \o entries)

\* A station that is on the list moves to the front; a new one may push the
\* last one out.
Add(call) ==
    LET c == ToUpper(call)
    IN  /\ Len(heard) < MaxAdds /\ heard' = Append(heard, c)
        /\ entries' = IF Contains(entries, c)
                      THEN <<c>> \o SelectSeq(entries, LAMBDA e : e # c)
                      ELSE front(<<c>> \o entries)

Next == \E s \in Stations, lower \in BOOLEAN : Add([station |-> s, lower |-> lower])

-----------------------------------------------------------------------------
\* When a station was last heard, 0 for never.
last(s) == LET at == {i \in DOMAIN heard : heard[i] = s}
           IN  IF at = {} THEN 0 ELSE CHOOSE i \in at : \A j \in at : j <= i

\* Entries shows the ListMax stations heard last, the most recent first, each once:
\* whoever is not on the list was not heard or was heard before all that are.
MostRecent ==
    /\ \A i, j \in DOMAIN entries : i < j => last(entries[i]) > last(entries[j])
    /\ \A s \in Stations \ ToSet(entries) :
          \/ last(s) = 0
          \/ Len(entries) = ListMax /\ \A i \in DOMAIN entries : last(entries[i]) > last(s)
=============================================================================
