------------------------------ MODULE Service ------------------------------
(***************************************************************************)
(* What a session promises its user: a call that is confirmed or ends, a   *)
(* queue of at most Window payloads, numbered modulo 8, that is            *)
(* acknowledged from the front and never beyond what was sent, and one     *)
(* callback for every change between up and down, which may come late:     *)
(* two that are due at the same time come in any order.  Module Station    *)
(* implements it; nothing here says how frames and timers bring it about.  *)
(***************************************************************************)
EXTENDS Integers, Sequences

CONSTANTS Payload, Window

VARIABLES status,  \* "down", "calling", "up" or "leaving"
          queue,   \* payloads accepted and not yet acknowledged
          first,   \* the number of the first of them
          out,     \* how many of them are on their way
          news,    \* callbacks that are due: TRUE for up, FALSE for down
          told     \* what the one that came last told the user

serviceVars == <<status, queue, first, out, news, told>>

Init == /\ status = "down" /\ queue = << >> /\ first = 0 /\ out = 0
        /\ news = << >> /\ told = FALSE

\* s without its i-th element
Without(s, i) == [j \in 1 .. Len(s) - 1 |-> IF j < i THEN s[j] ELSE s[j + 1]]

\* The numbering starts over: only then are queued payloads dropped.
Anew == queue' = << >> /\ first' = 0 /\ out' = 0

Call == status = "down" /\ status' = "calling" /\ Anew /\ UNCHANGED <<news, told>>

\* The call is confirmed, or a remote station's call is accepted.
Up == /\ status \in {"down", "calling"} /\ status' = "up" /\ Anew
      /\ news' = Append(news, TRUE) /\ UNCHANGED told

\* The remote station resets the link.
Reset == status = "up" /\ Anew /\ UNCHANGED <<status, news, told>>

Send(d) == /\ status = "up" /\ Len(queue) < Window
           /\ queue' = Append(queue, d) /\ out' \in 0 .. Len(queue')
           /\ UNCHANGED <<status, first, news, told>>

\* The first k payloads are acknowledged; others are sent, or are to be sent again.
Ack(k) == /\ status = "up" /\ k <= out
          /\ queue' = SubSeq(queue, k + 1, Len(queue)) /\ out' \in 0 .. Len(queue')
          /\ first' = (first + k) % 8
          /\ UNCHANGED <<status, news, told>>

Leave == /\ status # "down" /\ status' = "leaving"
         /\ UNCHANGED <<queue, first, out, news, told>>

\* The session ends.  A call that was refused is reported even when the user
\* has closed it meanwhile.
Down == /\ status' = "down" /\ news' = Append(news, FALSE)
        /\ UNCHANGED <<queue, first, out, told>>

\* The user ends the session, and needs no callback.
Close == /\ status' = "down" /\ ~told'
         /\ UNCHANGED <<queue, first, out, news>>

Hear(i) == /\ told' = news[i] /\ news' = Without(news, i)
           /\ UNCHANGED <<status, queue, first, out>>

Next == \/ Down \/ Close
        \/ \E k \in 0 .. 7 : Ack(k)
        \/ \E d \in Payload : Send(d)
        \/ Call \/ Up \/ Reset \/ Leave
        \/ \E i \in DOMAIN news : Hear(i)

Spec == Init /\ [][Next]_serviceVars
=============================================================================
