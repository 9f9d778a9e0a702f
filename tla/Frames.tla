------------------------------- MODULE Frames -------------------------------
(***************************************************************************)
(* The byte formats of the radio side: AX.25 addresses and frames          *)
(* (ax25/address.go, ax25/frame.go) and KISS framing (ax25/kiss.go).       *)
(*                                                                         *)
(* A byte is a number in 0..255, a text the sequence of its character      *)
(* codes.  A function that can fail returns a sequence: <<value>>, or the  *)
(* empty one for an error.  Streaming decoders are records, one operator   *)
(* per byte, that append what they deliver to the field out.               *)
(***************************************************************************)
EXTENDS Integers, Sequences, FiniteSets, SequencesExt

Failed == << >>
isOK(r) == r # << >>

bit(b, n) == (b \div 2^n) % 2 = 1
flag(on, v) == IF on THEN v ELSE 0
setBit(b, n, on) == b - flag(bit(b, n), 2^n) + flag(on, 2^n)

-----------------------------------------------------------------------------
(* Addresses.                                                              *)

AddressLen == 7
MaxCallsign == 6
MaxDigipeaters == 8
MaxInfoLen == 256

ToUpper(s) == [i \in DOMAIN s |-> IF s[i] \in 97 .. 122 THEN s[i] - 32 ELSE s[i]]

\* strings.TrimRight(s, x)
TrimRight(s, x) == SubSeq(s, 1, Max({0} \cup {i \in DOMAIN s : s[i] # x}))

EncodeAddress(a) ==
    LET call == ToUpper(a.call)
    IN  [i \in 1 .. AddressLen |->
            IF i = AddressLen
            THEN (a.ssid % 16) * 2 + flag(a.hbr, 128) + flag(a.last, 1)
            ELSE (IF i <= Len(call) THEN call[i] * 2 ELSE 32 * 2) % 256]

DecodeAddress(b) ==
    [call |-> TrimRight([i \in 1 .. MaxCallsign |-> b[i] \div 2], 32),
     ssid |-> (b[AddressLen] \div 2) % 16,
     hbr  |-> bit(b[AddressLen], 7),
     last |-> bit(b[AddressLen], 0)]

\* Address.String(): the SSID is written only when it is not 0.
AddressString(a) ==
    a.call \o (IF a.ssid = 0 THEN << >>
               ELSE <<45>> \o (IF a.ssid > 9 THEN <<49>> ELSE << >>)
                           \o <<48 + (a.ssid % 10)>>)

\* strconv.ParseUint(s, 10, 8) restricted to values up to 15.
ParseSSID(s) ==
    LET value == FoldLeft(LAMBDA n, ch : IF n > 15 THEN n ELSE n * 10 + (ch - 48),
                          0, s)
    IN  IF s = << >> \/ (\E i \in DOMAIN s : s[i] \notin 48 .. 57) \/ value > 15
        THEN Failed ELSE <<value>>

ParseAddress(text) ==
    LET s    == ToUpper(text)
        dash == Min({Len(s) + 1} \cup {i \in DOMAIN s : s[i] = 45})
        call == SubSeq(s, 1, dash - 1)
        ssid == IF dash > Len(s) THEN <<0>>
                ELSE ParseSSID(SubSeq(s, dash + 1, Len(s)))
    IN  IF /\ isOK(ssid)
           /\ Len(call) \in 1 .. MaxCallsign
           /\ \A i \in DOMAIN call : call[i] \in 65 .. 90 \cup 48 .. 57
        THEN <<[call |-> call, ssid |-> ssid[1], hbr |-> FALSE, last |-> FALSE]>>
        ELSE Failed

\* Address.Equal
SameStation(a, b) == ToUpper(a.call) = ToUpper(b.call) /\ a.ssid = b.ssid

-----------------------------------------------------------------------------
(* Control bytes.                                                          *)

Control == [UI |-> 3, SABM |-> 47, DISC |-> 67, DM |-> 15, UA |-> 99,
            FRMR |-> 135, RR |-> 1, RNR |-> 5, REJ |-> 9, I |-> 0]

ExtractNS(ctrl) == (ctrl \div 2) % 8
ExtractNR(ctrl) == (ctrl \div 32) % 8
HasPF(ctrl) == bit(ctrl, 4)

BuildIControl(ns, nr, pf) == (nr % 8) * 32 + (ns % 8) * 2 + flag(pf, 16)
\* BuildRRControl, BuildRNRControl, BuildREJControl
BuildSControl(kind, nr, pf) == (nr % 8) * 32 + Control[kind] + flag(pf, 16)

IdentifyFrameType(ctrl) ==
    CASE ctrl = Control.UI -> "UI"
      [] ctrl # Control.UI /\ ctrl % 2 = 0 -> "I"
      [] ctrl % 4 = 1 -> "S"
      [] OTHER -> IF \E k \in {"SABM", "DISC", "DM", "UA", "FRMR"} :
                         setBit(ctrl, 4, FALSE) = Control[k]
                  THEN "U" ELSE "Unknown"

ControlName(ctrl) ==
    LET u == {k \in {"SABM", "DISC", "DM", "UA", "FRMR"} :
                 setBit(ctrl, 4, FALSE) = Control[k]}
        s == {k \in {"RR", "RNR", "REJ"} : ctrl % 16 = Control[k]}
    IN  CASE ctrl = Control.UI -> "UI"
          [] u # {} -> CHOOSE k \in u : TRUE
          [] u = {} /\ ctrl % 2 = 0 -> "I"
          [] s # {} -> CHOOSE k \in s : TRUE
          [] OTHER -> "?"

-----------------------------------------------------------------------------
(* AX.25 frames.  Type is IdentifyFrameType(Control) in every frame the    *)
(* code builds, so the record has no field for it.                         *)

hasInfo(f) == IdentifyFrameType(f.ctrl) \in {"UI", "I"}

EncodeFrame(f) ==
    LET n    == Len(f.digis)
        head == <<EncodeAddress(f.dst), EncodeAddress(f.src)>>
                  \o [i \in 1 .. n |-> EncodeAddress(f.digis[i])]
        mark(i) ==      \* the seventh byte of address i, as the code patches it
            LET b == head[i][AddressLen]
            IN  CASE i = 1 -> setBit(b, 7, f.cmd)
                  [] i = 2 -> setBit(setBit(b, 7, ~f.cmd), 0, n = 0)
                  [] OTHER -> setBit(b, 0, i = n + 2)
        addresses == FlattenSeq([i \in 1 .. n + 2 |->
                        Append(SubSeq(head[i], 1, MaxCallsign), mark(i))])
    IN  IF n > MaxDigipeaters \/ Len(f.info) > MaxInfoLen THEN Failed
        ELSE <<addresses \o <<f.ctrl>>
                 \o (IF hasInfo(f) THEN <<f.pid>> \o f.info ELSE << >>)>>

ParseFrame(data) ==
    LET address(i) == DecodeAddress(SubSeq(data, 7 * i + 1, 7 * i + 7))
        room  == Len(data) \div AddressLen - 2
        ends  == {i \in 1 .. room : address(i + 1).last}
        direct == address(0).last \/ address(1).last
        n     == IF direct THEN 0 ELSE Min(ends)
        pos   == (n + 2) * AddressLen + 1
        rest  == SubSeq(data, pos + 1, Len(data))
        info  == IdentifyFrameType(data[pos]) \in {"UI", "I"} /\ rest # << >>
    IN  IF \/ Len(data) < 2 * AddressLen + 1
           \/ ~direct /\ (ends = {} \/ Min(ends) > MaxDigipeaters)
           \/ pos > Len(data)
        THEN Failed
        ELSE <<[dst |-> address(0), src |-> address(1),
                digis |-> [i \in 1 .. n |-> address(i + 1)],
                cmd |-> bit(data[AddressLen], 7), ctrl |-> data[pos],
                pid |-> IF info THEN rest[1] ELSE 0,
                info |-> IF info THEN Tail(rest) ELSE << >>]>>

\* Mutant: the path is not turned round.
extractReturnPath_Forward(f) ==
    [i \in 1 .. Len(SelectSeq(f.digis, LAMBDA d : d.hbr)) |->
        [SelectSeq(f.digis, LAMBDA d : d.hbr)[i] EXCEPT !.hbr = FALSE]]

\* extractReturnPath: the hops that were travelled, backwards.
extractReturnPath(f) ==
    Reverse([i \in 1 .. Len(SelectSeq(f.digis, LAMBDA d : d.hbr)) |->
                [SelectSeq(f.digis, LAMBDA d : d.hbr)[i] EXCEPT !.hbr = FALSE]])

\* buildFrame and sendUA of a session that answers the frame f.
replyUA(f, local) ==
    [dst |-> f.src, src |-> local, digis |-> extractReturnPath(f), cmd |-> FALSE,
     ctrl |-> Control.UA + flag(HasPF(f.ctrl), 16), pid |-> 0, info |-> << >>]

-----------------------------------------------------------------------------
(* KISS.                                                                   *)

FEnd == 192
FEsc == 219
TFEnd == 220
TFEsc == 221

KISSEncode(port, cmd, data) ==
    <<FEnd, (port * 16 + cmd) % 256>>
      \o FlattenSeq([i \in DOMAIN data |->
            CASE data[i] = FEnd -> <<FEsc, TFEnd>>
              [] data[i] = FEsc -> <<FEsc, TFEsc>>
              [] OTHER -> <<data[i]>>])
      \o <<FEnd>>

NewKISSDecoder == [state |-> "hunt", have |-> FALSE, port |-> 0, cmd |-> 0,
                   buf |-> << >>, out |-> << >>]

appendDataByte(d, b) ==
    IF d.have THEN [d EXCEPT !.buf = Append(@, b)]
    ELSE [d EXCEPT !.have = TRUE, !.port = b \div 16, !.cmd = b % 16]

dispatch(d) == [d EXCEPT !.out =
                    Append(@, [port |-> d.port, cmd |-> d.cmd, data |-> d.buf])]

\* FEND inside a frame ends it; it also begins the next one.
frameEnd(d) == [(IF d.have THEN dispatch(d) ELSE d) EXCEPT !.buf = << >>, !.have = FALSE]

\* Mutant: an unknown byte after FESC leaves the decoder in the escape state.
unescape_Stays(d, b) ==
    CASE b = TFEnd -> appendDataByte([d EXCEPT !.state = "data"], FEnd)
      [] b = TFEsc -> appendDataByte([d EXCEPT !.state = "data"], FEsc)
      [] OTHER -> appendDataByte(d, b)

\* The byte after FESC; one that is not transposed stands for itself.
unescape(d, b) ==
    appendDataByte([d EXCEPT !.state = "data"],
                   CASE b = TFEnd -> FEnd [] b = TFEsc -> FEsc [] OTHER -> b)

\* KISSDecoder.Write, for one byte.
kissByte(d, b) ==
    CASE d.state = "hunt" /\ b # FEnd -> d
      [] d.state = "hunt" /\ b = FEnd ->
            [d EXCEPT !.state = "data", !.buf = << >>, !.have = FALSE]
      [] d.state = "data" /\ b = FEnd -> frameEnd(d)
      [] d.state = "data" /\ b = FEsc -> [d EXCEPT !.state = "escape"]
      [] d.state = "data" /\ b \notin {FEnd, FEsc} -> appendDataByte(d, b)
      [] d.state = "escape" -> unescape(d, b)
=============================================================================
