------------------------------ MODULE Monitor ------------------------------
(***************************************************************************)
(* The router's capture files (cmd/router/monitor.go): frames are written  *)
(* by the router's goroutines, SIGHUP and midnight start a new file, each  *)
(* under the monitor's mutex.  External: the clock, the directory, which   *)
(* may hold files of earlier runs and may refuse a file.                   *)
(***************************************************************************)
EXTENDS Integers, Sequences, FiniteSets

CONSTANTS MaxVV,       \* 99
          MaxDays,     \* bound: days
          MaxRecords,  \* bound: frames captured
          MaxFaults    \* bound: days on which a file cannot be created or written

VARIABLES today,       \* the day of the clock
          files,       \* the records of each file that exists, by day and vv
          cur,         \* currentDay, currentVV; open: m.writer is not nil
          loop,        \* midnightLoop: "top", "timer", "rotate" or "done", and the day it last read
          closing,     \* Close has closed stopCh
          records,     \* frames captured so far
          faults,      \* the days for which a file has failed
          slipped      \* the days that began between the loop's two looks at the clock

monitorVars == <<today, files, cur, loop, closing, records, faults, slipped>>

Days == 1 .. MaxDays
VVs == 0 .. MaxVV
Names == Days \X VVs

\* The current capture file is one that has been created, whichever rotation
\* failed.
TypeOK == /\ today \in Days /\ DOMAIN files \subseteq Names
          /\ cur.day \in Days /\ cur.vv \in VVs
          /\ <<cur.day, cur.vv>> \in DOMAIN files
          /\ loop.at \in {"top", "timer", "rotate", "done"} /\ loop.day \in 1 .. today
          /\ faults \cup slipped \subseteq Days

\* firstAvailableVV: -1 for errMonitorVVExhausted.
firstAvailableVV(day) ==
    IF \A v \in VVs : <<day, v>> \in DOMAIN files THEN -1
    ELSE CHOOSE v \in VVs : /\ <<day, v>> \notin DOMAIN files
                            /\ \A u \in 0 .. v - 1 : <<day, u>> \in DOMAIN files

\* openInitial; record 0 is of an earlier run.
Init == /\ today = 1
        /\ \E old \in SUBSET ({1} \X VVs) :
              LET free == {v \in VVs : <<1, v>> \notin old}
                  vv   == CHOOSE v \in free : \A u \in free : v <= u
              IN  /\ free # {}
                  /\ files = [f \in old \cup {<<1, vv>>} |-> IF f \in old THEN <<0>> ELSE << >>]
                  /\ cur = [day |-> 1, vv |-> vv, open |-> TRUE]
        /\ loop = [at |-> "top", day |-> 1] /\ closing = FALSE /\ records = 0
        /\ faults = {} /\ slipped = {}

\* Mutant: a file that exists is opened and truncated.
swapTo_Truncate(day, vv) ==
    /\ files' = [f \in DOMAIN files \cup {<<day, vv>>} |-> IF f = <<day, vv>> THEN << >> ELSE files[f]]
    /\ cur' = [cur EXCEPT !.day = day, !.vv = vv, !.open = TRUE]
    /\ UNCHANGED faults

\* O_EXCL: a file that exists is an error, and so is one the directory refuses
\* or one whose header cannot be written; the old file stays in use then.
swapTo(day, vv) ==
    LET created == [f \in DOMAIN files \cup {<<day, vv>>} |-> IF f = <<day, vv>> THEN << >> ELSE files[f]]
    IN  \/ /\ <<day, vv>> \notin DOMAIN files
           /\ files' = created
           /\ cur' = [cur EXCEPT !.day = day, !.vv = vv, !.open = TRUE]
           /\ UNCHANGED faults
        \/ /\ <<day, vv>> \in DOMAIN files /\ UNCHANGED <<files, cur, faults>>
        \/ /\ <<day, vv>> \notin DOMAIN files
           /\ faults' = faults \cup {day} /\ Cardinality(faults') <= MaxFaults
           /\ files' \in {files, created} /\ UNCHANGED cur

\* The first file of a new day.
swapToDay(day) == LET vv == firstAvailableVV(day)
                  IN  IF vv = -1 THEN UNCHANGED <<files, cur, faults>> ELSE swapTo(day, vv)

\* LogAX25, LogKISS, writeData: after Close there is no writer.
writeData == /\ records < MaxRecords /\ records' = records + 1
             /\ files' = IF cur.open THEN [files EXCEPT ![<<cur.day, cur.vv>>] = Append(@, records')] ELSE files
             /\ UNCHANGED <<today, cur, loop, closing, faults, slipped>>

\* main has left its signal loop when the deferred Close runs.
RotateSIGHUP ==
    /\ ~closing
    /\ IF today # cur.day THEN swapToDay(today)
       ELSE IF cur.vv + 1 > MaxVV THEN UNCHANGED <<files, cur, faults>>
       ELSE swapTo(today, cur.vv + 1)
    /\ UNCHANGED <<today, loop, closing, records, slipped>>

\* The head of the loop: the timer is for the midnight after the day the clock
\* shows now, which need not be the day that was rotated to.
setTimer == /\ loop.at = "top" /\ loop' = [at |-> "timer", day |-> today]
            /\ slipped' = IF today = loop.day THEN slipped ELSE slipped \cup {today}
            /\ UNCHANGED <<today, files, cur, closing, records, faults>>

\* It fires at that midnight, or before it by a clock that was set back
\* meanwhile; the loop then reads the clock.
timerFires == /\ loop.at = "timer" /\ today > loop.day /\ loop' = [at |-> "rotate", day |-> today]
              /\ UNCHANGED <<today, files, cur, closing, records, faults, slipped>>

firesEarly == /\ loop.at = "timer" /\ today = loop.day /\ loop' = [at |-> "rotate", day |-> today]
              /\ UNCHANGED <<today, files, cur, closing, records, faults, slipped>>

\* Mutant: the loop ends with a rotation that fails.
rotateMidnight_Ends ==
    /\ loop.at = "rotate"
    /\ IF loop.day = cur.day THEN UNCHANGED <<files, cur, faults>> ELSE swapToDay(loop.day)
    /\ loop' = [loop EXCEPT !.at = IF cur'.day = loop.day THEN "top" ELSE "done"]
    /\ UNCHANGED <<today, closing, records, slipped>>

\* By the time it has the mutex the day may be over, and a SIGHUP may have
\* opened a file of the next one; it is rotated to all the same.
rotateMidnight ==
    /\ loop.at = "rotate"
    /\ IF loop.day = cur.day THEN UNCHANGED <<files, cur, faults>> ELSE swapToDay(loop.day)
    /\ loop' = [loop EXCEPT !.at = "top"]
    /\ UNCHANGED <<today, closing, records, slipped>>

stopLoop == /\ loop.at = "timer" /\ closing /\ loop' = [loop EXCEPT !.at = "done"]
            /\ UNCHANGED <<today, files, cur, closing, records, faults, slipped>>

\* Close closes stopCh, waits for midnightLoop and closes the file.
CloseBegins == /\ ~closing /\ closing' = TRUE
               /\ UNCHANGED <<today, files, cur, loop, records, faults, slipped>>

CloseEnds == /\ closing /\ loop.at = "done" /\ cur.open
             /\ cur' = [cur EXCEPT !.open = FALSE]
             /\ UNCHANGED <<today, files, loop, closing, records, faults, slipped>>

midnight == /\ today < MaxDays /\ today' = today + 1
            /\ UNCHANGED <<files, cur, loop, closing, records, faults, slipped>>

Next == \/ writeData \/ RotateSIGHUP \/ setTimer \/ timerFires \/ firesEarly
        \/ rotateMidnight \/ stopLoop \/ CloseBegins \/ CloseEnds \/ midnight

midnightLoop == setTimer \/ timerFires \/ rotateMidnight \/ stopLoop

-----------------------------------------------------------------------------
\* No record is ever lost: a capture file only grows, whatever rotates, and
\* whatever earlier runs have left (swapTo).
OnlyGrows == \A f \in DOMAIN files :
                /\ f \in DOMAIN files'
                /\ Len(files[f]) <= Len(files'[f])
                /\ SubSeq(files'[f], 1, Len(files[f])) = files[f]

\* The captures of a day go to a file of that day, unless it was refused or no
\* name is left.  A failure costs the day it happens on, never a later one, and
\* so does a midnight that passes between the clock readings of two rounds: that
\* day is recorded under the old date until a SIGHUP or the next midnight
\* (midnightLoop, rotateMidnight).
Follows == \A d \in Days :
             today = d ~> \/ cur.day = d \/ today # d \/ closing
                          \/ d \in faults \cup slipped
                          \/ \A v \in VVs : <<d, v>> \in DOMAIN files
=============================================================================
