------------------------------ MODULE Contents ------------------------------
(***************************************************************************)
(* What the programs read and write: "stream" (Wire: frames, lines and     *)
(* capture records as bytes) and "bbs" (Bbs: what the lines do).  Which    *)
(* one runs is chosen in the initial state; the other stays as it is.      *)
(***************************************************************************)
EXTENDS MCBbs, Samples

CONSTANTS Framings, PieceLen, Chunks, Losses, Backlog, MaxSent   \* Wire

VARIABLES part, framing, sent, line, dec, got, damaged, end

Stream == INSTANCE Wire WITH Messages <- MCMessages

streamVars == <<framing, sent, line, dec, got, damaged, end>>

ContentsInit == /\ part \in {"stream", "bbs"}
                /\ Init
                /\ Stream!Init /\ (part = "bbs" => framing = "kiss")

ContentsNext == /\ UNCHANGED part
                /\ \/ part = "stream" /\ Stream!Next /\ UNCHANGED vars
                   \/ part = "bbs" /\ Next /\ UNCHANGED streamVars

ContentsSpec == ContentsInit /\ [][ContentsNext]_<<part, streamVars, vars>>

-----------------------------------------------------------------------------
(* Properties: those of Bbs, and of Wire.                                  *)

\* Bbs: sessions and messages keep their types, and the input mode agrees with
\* the state of the challenge.  Wire: what the writers put on the line are
\* bytes, and each of them belongs to a message that was sent.
ContentsTypeOK == TypeOK /\ Stream!TypeOK

\* Wire: what is read off a stream is what was written to it; a capture that
\* was cut off yields every whole record and reports the cut.
Faithful == part = "stream" => Stream!Faithful /\ Stream!CutCapture

\* Wire: lost bytes cost the frames they belong to and at most the next one.
Resync == part = "stream" => Stream!Resync

\* Wire: the answer to a frame can be read, and goes back the way it came.
ReplyReadable == part = "stream" => Stream!ReplyReadable
=============================================================================
