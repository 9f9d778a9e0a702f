-------------------------------- MODULE Bbs --------------------------------
(***************************************************************************)
(* The packet BBS (cmd/bbs): a session for each connected station, the     *)
(* line-driven commands, message composition, the SQLite message store     *)
(* and the SYSOP challenge.  All frames of the AGWPE client are handled by *)
(* one goroutine, so a line is handled in one step; bytes become lines in  *)
(* module Wire.                                                            *)
(*                                                                         *)
(* A line is a tuple: a word and its argument.  Time is abstract: whenever *)
(* the code reads the clock either answer is possible.  External: the      *)
(* AGWPE server, which may drop a 'd' frame when its queue is full         *)
(* (agwpe/server.go, enqueue), and the SQLite engine, whose statements may *)
(* fail, those on table last_read too, where the code ignores it.          *)
(***************************************************************************)
EXTENDS Integers, Sequences, FiniteSets, SequencesExt

CONSTANTS Users,      \* connecting stations, with SSID
          BaseCall,   \* BaseCallsign of each of them
          Topics,     \* addressees that are no callsigns
          None,       \* the empty addressee
          Secret,     \* cfg.SysopSecret, a sequence of characters
          Challenges, \* the index tuples that IssueChallenge may draw
          Responses,  \* response lines that users type
          MaxAttempts, MaxBodyLen,   \* of the configuration; the body counts lines
          Limits,     \* arguments of LL
          Typists,    \* what the users may type: the lines of each, in one of these ways
          MaxPosts,   \* bound: messages stored
          MaxLost     \* bound: 'd' frames lost

Bases == {BaseCall[u] : u \in Users}
Ids == 1 .. MaxPosts

\* What a station may type.  A word without a meaning in the current mode is
\* an unknown command, a subject, a body line or a wrong answer.
Lines == {<<w>> : w \in {"", "L", "LM", "SYSOP", "SYSOP NEW", "CONFIG", "exit", "B", "/EX"}}
         \cup ({"R", "K"} \X Ids)
         \cup ({"LL"} \X Limits)
         \cup ({"S", "SP", "SB"} \X (Bases \cup Topics))
         \cup ({"answer"} \X Responses)

ASSUME BbsAssumption == /\ MaxAttempts \in Nat \ {0} /\ MaxBodyLen \in Nat /\ MaxPosts \in Nat
                        /\ Typists \subseteq [Users -> SUBSET Lines]
                        /\ \A c \in Challenges : c \in Seq(1 .. Len(Secret)) /\ Len(c) = 4

VARIABLES typed,    \* what the users type, which is fixed
          sess,     \* m.sessions; NoSession where the map has no entry
          msgs,     \* the rows of table messages
          posts,    \* messages stored so far
          lastRead, \* table last_read
          link,     \* the users that are connected (external)
          lost,     \* 'd' frames lost (external)
          out,      \* the last answer, where it tells of messages
          read,     \* history: the messages each base callsign was sent
          unsure,   \* history: the base callsigns for which a statement on last_read failed
          earned,   \* history: the user answered a challenge and has been sysop since
          misses    \* history: wrong answers since the last right one or the last lockout

vars == <<typed, sess, msgs, posts, lastRead, link, lost, out, read, unsure, earned, misses>>
stored == <<msgs, posts, lastRead, read, unsure>>

NoSession == [up |-> FALSE, mode |-> "command", sysop |-> FALSE, to |-> None, flags |-> "none",
              body |-> 0, auth |-> "idle", chal |-> << >>, failed |-> 0, config |-> FALSE]
NewSession == [NoSession EXCEPT !.up = TRUE]

Quiet == [kind |-> "none"]

\* A session waits for a response exactly while a challenge is open, composes
\* only with an addressee, and is in CONFIG only as sysop; message ids are
\* those that Store gave.
TypeOK == /\ \A u \in Users :
                /\ sess[u].mode \in {"command", "subject", "body", "response", "config"}
                /\ sess[u].auth \in {"idle", "awaiting", "authenticated", "lockedOut"}
                /\ sess[u].mode = "response" <=> sess[u].auth = "awaiting"
                /\ sess[u].auth = "authenticated" => sess[u].sysop
                /\ sess[u].mode \in {"subject", "body"} => sess[u].to # None /\ sess[u].flags # "none"
                /\ sess[u].mode = "config" => sess[u].sysop \/ Secret = << >>
                /\ sess[u].body \in 0 .. MaxBodyLen /\ sess[u].failed \in 0 .. MaxAttempts
                /\ ~sess[u].up => sess[u] = NoSession
                /\ u \in link => sess[u].up
          /\ posts \in 0 .. MaxPosts /\ lastRead \in [Bases -> 0 .. posts]
          /\ \A m \in msgs : /\ m.id \in 1 .. posts /\ m.flags \in {"private", "bulletin"}
                             /\ m.from \in Bases /\ m.to \in Bases \cup Topics
          /\ unsure \subseteq Bases

----------------------------------------------------------------------------
(* The message store (cmd/bbs/store/sqlite.go). *)

\* Mutant: ids without AUTOINCREMENT.
nextId_Reuse == IF msgs = {} THEN 1 ELSE 1 + Max({m.id : m \in msgs})
nextId == posts + 1

Newest(ms, n) == {m \in ms : n = 0 \/ Cardinality({k \in ms : k.id > m.id}) < n}

List(limit, mineOnly, call, isSysop) ==
    Newest({m \in msgs : \/ m.from = call \/ m.to = call
                         \/ ~mineOnly /\ (isSysop \/ m.flags = "bulletin")}, limit)

Store(s, call) ==
    /\ posts < MaxPosts
    /\ msgs' = msgs \cup {[id |-> nextId, serial |-> posts + 1, from |-> call, to |-> s.to, flags |-> s.flags]}
    /\ posts' = posts + 1
    /\ UNCHANGED <<lastRead, read, unsure>>

----------------------------------------------------------------------------
(* The SYSOP challenge (cmd/bbs/bbs/sysop.go), on a session. *)

\* IsLockedOut, with the lockout over or not.
afterLockout(s, over) ==
    IF s.auth = "lockedOut" /\ over THEN [s EXCEPT !.auth = "idle", !.failed = 0] ELSE s

sysopExpireIfIdle(s, idle) ==
    IF s.auth = "authenticated" /\ idle THEN [s EXCEPT !.auth = "idle", !.sysop = FALSE] ELSE s

IssueChallenge(s, c) == [s EXCEPT !.auth = "awaiting", !.chal = c]

\* Mutant: the next line is still read as a command.
issueSysopChallenge_Command(s, c) == IssueChallenge(s, c)
\* The secret may be too short.
issueSysopChallenge(s, c) ==
    IF Len(Secret) < 4 THEN s ELSE [IssueChallenge(s, c) EXCEPT !.mode = "response"]

\* Each required character takes the first place of the response that holds
\* it and is not taken; the result is the set of places taken, or {0}.
take(response, taken, ch) ==
    LET free == {j \in 1 .. Len(response) : j \notin taken /\ response[j] = ch}
    IN IF free = {} THEN {0} ELSE taken \cup {Min(free)}

\* Mutant: a place may serve twice.
verifyResponse_NoUsed(chal, response) ==
    Len(response) = 6 /\ \A i \in 1 .. 4 : \E j \in 1 .. 6 : response[j] = Secret[chal[i]]
verifyResponse(chal, response) ==
    Len(response) = 6 /\ 0 \notin FoldLeft(LAMBDA t, i : IF 0 \in t THEN t ELSE take(response, t, Secret[i]),
                                           {}, chal)

\* SubmitResponse and the switch of processSysopResponse.
SubmitResponse(s, response, late) ==
    CASE late                             -> [s EXCEPT !.auth = "idle", !.sysop = FALSE]
      [] verifyResponse(s.chal, response) -> [s EXCEPT !.auth = "authenticated", !.sysop = TRUE, !.failed = 0]
      [] s.failed + 1 >= MaxAttempts      -> [s EXCEPT !.auth = "lockedOut", !.sysop = FALSE, !.failed = @ + 1]
      [] OTHER                            -> [s EXCEPT !.auth = "idle", !.failed = @ + 1]

\* The rule of the challenge: the response has each required character at
\* least as often as the challenge asks for it.
Count(ch, q) == Cardinality({i \in 1 .. Len(q) : q[i] = ch})
RightAnswer(chal, response) ==
    LET required == [i \in 1 .. 4 |-> Secret[chal[i]]]
    IN Len(response) = 6 /\ \A i \in 1 .. 4 : Count(required[i], required) <= Count(required[i], response)

----------------------------------------------------------------------------
(* The lines, by input mode (processLine). *)

\* Mutant: a private message is readable by everyone.
isReadableForUser_Any(s, call, m) == m.flags \in {"bulletin", "private"}
isReadableForUser(s, call, m) == m.flags = "bulletin" \/ s.sysop \/ m.to = call \/ m.from = call

sets(u, s) == sess' = [sess EXCEPT ![u] = s]

cmdList(u, s, limit, mineOnly) ==
    /\ sets(u, s)
    /\ LET ms == List(limit, mineOnly, BaseCall[u], s.sysop)
       IN out' = [kind |-> "list", to |-> u, limit |-> limit, mine |-> mineOnly,
                  shows |-> {m \in ms : mineOnly \/ isReadableForUser(s, BaseCall[u], m)}]
    /\ UNCHANGED stored

\* The last-read pointer goes up to id.  When GetLastRead fails it counts as 0
\* and the pointer is set to id, be it back; when SetLastRead fails it stays.
moveLastRead(call, id) ==
    \/ lastRead' = [lastRead EXCEPT ![call] = Max({@, id})] /\ UNCHANGED unsure
    \/ /\ call \notin unsure   \* bound: one failure for each callsign
       /\ lastRead' \in {lastRead, [lastRead EXCEPT ![call] = id]} /\ unsure' = unsure \cup {call}

cmdRead(u, s, id) ==
    /\ sets(u, s)
    /\ LET ms == {m \in msgs : m.id = id /\ isReadableForUser(s, BaseCall[u], m)} IN
       /\ out' = IF ms = {} THEN Quiet ELSE [kind |-> "read", to |-> u, shows |-> ms]
       /\ IF ms = {} THEN UNCHANGED <<lastRead, unsure>> ELSE moveLastRead(BaseCall[u], id)
       /\ read' = [read EXCEPT ![BaseCall[u]] = @ \cup {m.serial : m \in ms}]
    /\ UNCHANGED <<msgs, posts>>

\* Without an explicit kind a callsign gets a private message and anything
\* else a bulletin.
cmdSend(u, s, word, to) ==
    /\ sets(u, [s EXCEPT !.mode = "subject", !.to = to, !.body = 0,
                         !.flags = IF word = "SP" \/ (word = "S" /\ to \in Bases) THEN "private" ELSE "bulletin"])
    /\ out' = Quiet
    /\ UNCHANGED stored

\* Mutant: whoever may read a message may kill it.
mayKill_Readable(s, call, m) == isReadableForUser(s, call, m)
mayKill(s, call, m) == s.sysop \/ m.from = call \/ m.to = call

cmdKill(u, s, id) ==
    /\ sets(u, s)
    /\ LET ms == {m \in msgs : m.id = id /\ mayKill(s, BaseCall[u], m)} IN
       /\ msgs' = msgs \ ms
       /\ out' = IF ms = {} THEN Quiet ELSE [kind |-> "killed", to |-> u]
    /\ UNCHANGED <<posts, lastRead, read, unsure>>

\* A word that changes no message: the new session is s.
quietly(u, s) == sets(u, s) /\ out' = Quiet /\ UNCHANGED stored

cmdSysop(u, s, over) ==
    LET open == afterLockout(s, over)
    IN \/ (Secret = << >> \/ open.auth = "lockedOut") /\ quietly(u, open)
       \/ Secret # << >> /\ open.auth # "lockedOut" /\ \E c \in Challenges : quietly(u, issueSysopChallenge(open, c))

cmdConfig(u, s, over) ==
    LET open == afterLockout(s, over)
        free == Secret = << >> \/ s.sysop
    IN \/ free /\ quietly(u, [s EXCEPT !.mode = "config"])
       \/ ~free /\ open.auth = "lockedOut" /\ quietly(u, open)
       \/ /\ ~free /\ open.auth # "lockedOut"
          /\ \E c \in Challenges : quietly(u, issueSysopChallenge([open EXCEPT !.config = TRUE], c))

\* A command, with the session idle too long or not, a lockout over or not.
processCommand(u, line, idle, over) ==
    LET s == IF line = <<"">> THEN sess[u] ELSE sysopExpireIfIdle(sess[u], idle) IN
    \/ line[1] = "L"  /\ cmdList(u, s, 0, FALSE)
    \/ line[1] = "LL" /\ cmdList(u, s, line[2], FALSE)
    \/ line[1] = "LM" /\ cmdList(u, s, 0, TRUE)
    \/ line[1] = "R"  /\ cmdRead(u, s, line[2])
    \/ line[1] = "K"  /\ cmdKill(u, s, line[2])
    \/ line[1] \in {"S", "SP", "SB"} /\ cmdSend(u, s, line[1], line[2])
    \/ line[1] = "SYSOP"  /\ cmdSysop(u, s, over)
    \/ line[1] = "CONFIG" /\ cmdConfig(u, s, over)
    \/ line[1] \in {"", "SYSOP NEW", "exit", "B", "/EX", "answer"} /\ quietly(u, s)
    \/ line[1] \in {"L", "LL", "LM", "R", "K"} /\ quietly(u, s)   \* the store fails

\* A blank subject aborts.
processSubject(u, line) ==
    quietly(u, [sess[u] EXCEPT !.mode = IF line = <<"">> THEN "command" ELSE "body"])

\* The message is stored or, when the store fails, lost.
finishPost(u) ==
    /\ Store(sess[u], BaseCall[u]) \/ UNCHANGED stored
    /\ sets(u, [sess[u] EXCEPT !.mode = "command", !.to = None, !.flags = "none", !.body = 0])
    /\ out' = Quiet

\* /EX and a line that would pass the limit both store what is there.
processBody(u, line) ==
    \/ (line = <<"/EX">> \/ sess[u].body + 1 > MaxBodyLen) /\ finishPost(u)
    \/ /\ line # <<"/EX">> /\ sess[u].body + 1 <= MaxBodyLen
       /\ quietly(u, [sess[u] EXCEPT !.body = @ + 1])

\* The flag set by CONFIG is cleared before it is tested (lines 254 and 261).
\* An answered challenge is never read again, so the model forgets it.
processSysopResponse(u, line, late) ==
    \/ /\ line = <<"SYSOP NEW">>
       /\ \E c \in Challenges : quietly(u, issueSysopChallenge(sess[u], c))
    \/ /\ line # <<"SYSOP NEW">>
       /\ LET s == SubmitResponse([sess[u] EXCEPT !.mode = "command", !.config = FALSE],
                                  IF line[1] = "answer" THEN line[2] ELSE << >>, late)
          IN quietly(u, [s EXCEPT !.chal = << >>])

processConfigCommand(u, line) ==
    quietly(u, [sess[u] EXCEPT !.mode = IF line = <<"exit">> THEN "command" ELSE "config"])

\* Only commands and responses look at the clock.
Readings(u) == IF sess[u].mode \in {"command", "response"} THEN BOOLEAN ELSE {FALSE}

\* One line of OnData; clock is what the code reads from the clock: the
\* session idle too long, the challenge expired, the lockout over.
Line(u, line, clock) ==
    /\ u \in link /\ sess[u].up
    /\ \/ sess[u].mode = "command"  /\ processCommand(u, line, clock, clock)
       \/ sess[u].mode = "subject"  /\ processSubject(u, line)
       \/ sess[u].mode = "body"     /\ processBody(u, line)
       \/ sess[u].mode = "response" /\ processSysopResponse(u, line, clock)
       \/ sess[u].mode = "config"   /\ processConfigCommand(u, line)
    /\ LET answers == sess[u].mode = "response" /\ line # <<"SYSOP NEW">> /\ ~clock
           right == answers /\ line[1] = "answer" /\ RightAnswer(sess[u].chal, line[2])
       IN /\ earned' = [earned EXCEPT ![u] = right \/ (@ /\ sess[u].sysop)]
          /\ misses' = [misses EXCEPT ![u] =
                            IF right \/ (sess[u].auth = "lockedOut" /\ sess'[u].auth # "lockedOut") THEN 0
                            ELSE IF answers THEN @ + 1 ELSE @]
    /\ UNCHANGED <<link, lost>>

----------------------------------------------------------------------------
(* The AGWPE frames 'C' and 'd', and the end of the program. *)

\* bannerSummary: without a last-read pointer everything is new, and without a
\* list there are no messages.
banner(u) ==
    LET ms == List(0, FALSE, BaseCall[u], FALSE)
        count(last, sure) == [kind |-> "banner", to |-> u, sure |-> sure,
                              new |-> Cardinality({m \in ms : m.id > last})]
    IN {count(lastRead[BaseCall[u]], TRUE), count(0, FALSE), Quiet}

\* A second 'C' for a session that is still there is ignored.
OnConnect(u) ==
    /\ u \notin link
    /\ link' = link \cup {u}
    /\ sess' = IF sess[u].up THEN sess ELSE [sess EXCEPT ![u] = NewSession]
    /\ out' \in IF sess[u].up THEN {Quiet} ELSE banner(u)
    /\ UNCHANGED <<stored, lost, earned, misses>>

OnDisconnect(u) ==
    /\ u \in link
    /\ link' = link \ {u}
    /\ sess' = [sess EXCEPT ![u] = NoSession]
    /\ earned' = [earned EXCEPT ![u] = FALSE]
    /\ misses' = [misses EXCEPT ![u] = 0]
    /\ out' = Quiet
    /\ UNCHANGED <<stored, lost>>

\* The server's queue is full and the 'd' frame is dropped.
LoseDisconnect(u) ==
    /\ u \in link /\ lost < MaxLost
    /\ link' = link \ {u}
    /\ lost' = lost + 1
    /\ out' = Quiet
    /\ UNCHANGED <<sess, stored, earned, misses>>

Init == /\ typed \in Typists
        /\ sess = [u \in Users |-> NoSession]
        /\ msgs = {} /\ posts = 0 /\ lastRead = [b \in Bases |-> 0]
        /\ link = {} /\ lost = 0 /\ out = Quiet
        /\ read = [b \in Bases |-> {}] /\ unsure = {}
        /\ earned = [u \in Users |-> FALSE] /\ misses = [u \in Users |-> 0]

Next == /\ UNCHANGED typed
        /\ \E u \in Users : \/ OnConnect(u) \/ OnDisconnect(u) \/ LoseDisconnect(u)
                            \/ \E line \in typed[u], clock \in Readings(u) : Line(u, line, clock)

Spec == Init /\ [][Next]_vars

----------------------------------------------------------------------------
(* Properties. *)

Visible(u) == {m \in msgs : \/ m.flags = "bulletin" \/ sess[u].sysop
                            \/ BaseCall[u] \in {m.from, m.to}}

\* cmdRead shows a message only to its sender, its addressee or the sysop
\* unless it is a bulletin; L and LL n show exactly the readable messages, all
\* or the n newest of them, and LM exactly the caller's own, whatever was
\* posted and killed before.
ShowsReadable ==
    /\ out.kind = "read" => out.shows \subseteq Visible(out.to)
    /\ out.kind = "list" =>
          out.shows = IF out.mine THEN {m \in msgs : BaseCall[out.to] \in {m.from, m.to}}
                      ELSE Newest(Visible(out.to), out.limit)

\* The count of new messages in the banner is the number of readable messages
\* stored after the latest one that any session of this callsign was sent,
\* although messages are killed in between: an id is never given out again.
\* A statement on last_read that fails makes the count too high, never too low
\* (bannerSummary, cmdRead).
UnreadIsNew ==
    out.kind = "banner" =>
        LET new == Cardinality({m \in Visible(out.to) : \A k \in read[BaseCall[out.to]] : m.serial > k})
        IN  /\ out.new >= new
            /\ out.sure /\ BaseCall[out.to] \notin unsure => out.new = new

\* A message goes away only when its sender, its addressee or a station that
\* is sysop at that moment kills it; nothing else the BBS does removes one.
OnlyOwnersKill ==
    [][\A m \in msgs \ msgs' : /\ out'.kind = "killed"
                               /\ \/ sess'[out'.to].sysop
                                  \/ BaseCall[out'.to] \in {m.from, m.to}]_vars

\* A session has sysop rights only after a right and timely answer in this
\* session, every required character being matched by a place of its own, and
\* needs another one when they have expired.  Wrong
\* answers add up over challenges, refreshed challenges and aborted CONFIG
\* requests: after MaxAttempts of them the session is locked out.
SysopEarned ==
    \A u \in Users : /\ sess[u].sysop => earned[u]
                     /\ misses[u] <= MaxAttempts
                     /\ misses[u] = MaxAttempts => sess[u].auth = "lockedOut"

=============================================================================
