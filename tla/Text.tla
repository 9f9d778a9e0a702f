-------------------------------- MODULE Text --------------------------------
(***************************************************************************)
(* Text as bytes: what the terminal makes of a typed line (expandInline,   *)
(* splitPayload), what the beacon makes of its configured text             *)
(* (unescapeText), and the lines the BBS finds in what it receives         *)
(* (SessionManager.OnData).                                                *)
(***************************************************************************)
EXTENDS Integers, Sequences, SequencesExt

CR == 13
LF == 10
Backslash == 92

isDigit(b) == b \in 48 .. 57
isLower(b) == b \in 97 .. 122

decimal(s) == FoldLeft(LAMBDA n, d : 10 * n + d - 48, 0, s)

\* The position after the run of digits of s that begins at i.
afterDigits(s, i) == CHOOSE j \in i .. Len(s) + 1 :
                        /\ \A k \in i .. j - 1 : isDigit(s[k])
                        /\ j = Len(s) + 1 \/ ~isDigit(s[j])

\* \a .. \z is a control character, \ and digits a byte in decimal; a number
\* above 255 and any other escape stay as they are.
expandInline(s) ==
    LET at[i \in 1 .. Len(s) + 1] ==
          IF i > Len(s) THEN <<CR>>
          ELSE IF s[i] # Backslash \/ i = Len(s) THEN <<s[i]>> \o at[i + 1]
          ELSE LET c == s[i + 1]
                   j == afterDigits(s, i + 1)
                   n == decimal(SubSeq(s, i + 1, j - 1))
               IN  CASE isLower(c) -> <<c - 96>> \o at[i + 2]
                     [] isDigit(c) -> (IF n <= 255 THEN <<n>> ELSE SubSeq(s, i, j - 1)) \o at[j]
                     [] c = Backslash -> <<Backslash>> \o at[i + 2]
                     [] OTHER -> <<Backslash, c>> \o at[i + 2]
    IN  at[1]

\* Pieces of max bytes, the last one shorter; an empty payload is one piece.
splitPayload(data, max) ==
    IF Len(data) <= max THEN <<data>>
    ELSE [k \in 1 .. (Len(data) + max - 1) \div max |->
             SubSeq(data, (k - 1) * max + 1, IF k * max < Len(data) THEN k * max ELSE Len(data))]

hexNibble(b) == CASE isDigit(b) -> b - 48
                  [] b \in 97 .. 102 -> b - 87
                  [] b \in 65 .. 70 -> b - 55
                  [] OTHER -> -1

\* \r, \n, \t, \\ and \xHH; any other escape stays as it is.
unescapeText(s) ==
    LET at[i \in 1 .. Len(s) + 1] ==
          IF i > Len(s) THEN << >>
          ELSE IF s[i] # Backslash \/ i = Len(s) THEN <<s[i]>> \o at[i + 1]
          ELSE LET c   == s[i + 1]
                   hex == i + 3 <= Len(s) /\ hexNibble(s[i + 2]) >= 0 /\ hexNibble(s[i + 3]) >= 0
               IN  CASE c = 114 -> <<CR>> \o at[i + 2]
                     [] c = 110 -> <<LF>> \o at[i + 2]
                     [] c = 116 -> <<9>> \o at[i + 2]
                     [] c = Backslash -> <<Backslash>> \o at[i + 2]
                     [] c = 120 /\ hex ->
                           <<16 * hexNibble(s[i + 2]) + hexNibble(s[i + 3])>> \o at[i + 4]
                     [] OTHER -> <<Backslash, c>> \o at[i + 2]
    IN  at[1]

-----------------------------------------------------------------------------
(* The line buffer of a BBS session, one byte at a time.                   *)

NewLineBuf == [buf |-> << >>, lastWasCR |-> FALSE, out |-> << >>]

endLine(d) == [d EXCEPT !.buf = << >>, !.out = Append(@, d.buf)]

\* CR, LF and CRLF each end a line; the LF of a CRLF may come in the next chunk.
onDataByte(d, b) ==
    CASE b = CR -> [endLine(d) EXCEPT !.lastWasCR = TRUE]
      [] b = LF -> IF d.lastWasCR THEN [d EXCEPT !.lastWasCR = FALSE] ELSE endLine(d)
      [] OTHER -> [d EXCEPT !.lastWasCR = FALSE, !.buf = Append(@, b)]
=============================================================================
