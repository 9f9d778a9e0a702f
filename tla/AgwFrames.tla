----------------------------- MODULE AgwFrames -----------------------------
(***************************************************************************)
(* The byte formats of the application side: AGWPE messages                *)
(* (agwpe/frame.go), their conversion to and from AX.25 frames, and        *)
(* capture files (pcap/pcap.go).                                           *)
(*                                                                         *)
(* A number that the code writes as a uint32 stays below 2^16 here.        *)
(***************************************************************************)
EXTENDS Frames

HeaderSize == 36
CallsignLen == 10
MaxDataLen == 4096

PIDNone == 240

zeros(n) == [i \in 1 .. n |-> 0]
le32(n) == <<n % 256, n \div 256, 0, 0>>
uint32(b) == b[1] + 256 * b[2]

\* setCallsign pads with zeros or cuts to the field; getCallsign stops at the
\* first zero.
setCallsign(s) == SubSeq(s \o zeros(CallsignLen), 1, CallsignLen)
getCallsign(b) ==
    SubSeq(b, 1, Min({Len(b) + 1} \cup {i \in DOMAIN b : b[i] = 0}) - 1)

\* Frame.Encode
EncodeAgw(f) ==
    IF Len(f.data) > MaxDataLen THEN Failed
    ELSE <<<<f.port, 0, 0, 0, f.kind, 0, f.pid, 0>>
             \o setCallsign(f.from) \o setCallsign(f.to)
             \o le32(Len(f.data)) \o le32(f.user) \o f.data>>

header(h, data) ==
    [port |-> h[1], kind |-> h[5], pid |-> h[7],
     from |-> getCallsign(SubSeq(h, 9, 18)), to |-> getCallsign(SubSeq(h, 19, 28)),
     user |-> uint32(SubSeq(h, 33, 36)), data |-> data]

dataLen(h) == uint32(SubSeq(h, 29, 32))

\* DecodeFrame and ReadFrame: the frame at the front of the bytes, and what
\* follows it.  Without a whole frame both fail.
ReadFrame(bytes) ==
    LET size == HeaderSize + dataLen(bytes)
    IN  IF Len(bytes) < HeaderSize \/ dataLen(bytes) > MaxDataLen \/ Len(bytes) < size
        THEN Failed
        ELSE <<header(bytes, SubSeq(bytes, HeaderSize + 1, size)),
               SubSeq(bytes, size + 1, Len(bytes))>>

-----------------------------------------------------------------------------
(* The streaming decoder.  skip: Write has returned an error, after a      *)
(* length field above the maximum, and discards the rest of its chunk.     *)

NewDecoder == [state |-> "header", hdr |-> << >>, data |-> << >>,
               skip |-> FALSE, out |-> << >>]

ResetDecoder(d) == [d EXCEPT !.state = "header", !.hdr = << >>, !.data = << >>]

deliver(d) == [ResetDecoder(d) EXCEPT !.out = Append(@, header(d.hdr, d.data))]

\* Mutant: the frame is complete one byte early.
complete_Short(d) == Len(d.data) >= dataLen(d.hdr) - 1

complete(d) == Len(d.data) >= dataLen(d.hdr)

\* Decoder.Write, for one byte.
decoderByte(d, b) ==
    CASE d.skip -> d
      [] ~d.skip /\ d.state = "header" ->
            LET e == [d EXCEPT !.hdr = Append(@, b)]
            IN  CASE Len(e.hdr) < HeaderSize -> e
                  [] Len(e.hdr) = HeaderSize /\ dataLen(e.hdr) > MaxDataLen ->
                        [ResetDecoder(d) EXCEPT !.skip = TRUE]
                  [] Len(e.hdr) = HeaderSize /\ dataLen(e.hdr) = 0 -> deliver(e)
                  [] OTHER -> [e EXCEPT !.state = "data"]
      [] ~d.skip /\ d.state = "data" ->
            LET e == [d EXCEPT !.data = Append(@, b)]
            IN  IF complete(e) THEN deliver(e) ELSE e

\* The next Write begins anew.
decoderReturns(d) == [d EXCEPT !.skip = FALSE]

-----------------------------------------------------------------------------
(* AX.25 <-> AGWPE.                                                        *)

agw(kind, from, to, pid, data) ==
    [port |-> 0, kind |-> kind, pid |-> pid, from |-> from, to |-> to,
     user |-> 0, data |-> data]

\* FromAX25Raw: kind 'K', a zero byte before the frame.
FromAX25Raw(f) ==
    LET raw == EncodeFrame(f)
    IN  IF ~isOK(raw) \/ Len(raw[1]) >= MaxDataLen THEN Failed
        ELSE <<agw(75, AddressString(f.src), AddressString(f.dst), 0, <<0>> \o raw[1])>>

ToAX25(g) == IF g.kind # 75 \/ Len(g.data) < 2 THEN Failed
             ELSE ParseFrame(Tail(g.data))

\* The list of BuildConnectViaReq and of a 'V' frame: a count, then fields.
digiFields(via) ==
    <<Len(via)>> \o FlattenSeq([i \in DOMAIN via |-> setCallsign(AddressString(via[i]))])

\* FromAX25Unproto: kind 'M', or 'V' with a path.
FromAX25Unproto(f) ==
    LET data == IF f.digis = << >> THEN f.info ELSE digiFields(f.digis) \o f.info
    IN  IF Len(data) > MaxDataLen THEN Failed
        ELSE <<agw(IF f.digis = << >> THEN 77 ELSE 86,
                   AddressString(f.src), AddressString(f.dst), f.pid, data)>>

digiField(data, i) == SubSeq(data, 2 + (i - 1) * CallsignLen, 1 + i * CallsignLen)

toAX25Unproto(g) ==
    LET src   == ParseAddress(g.from)
        dst   == ParseAddress(g.to)
        via   == g.kind = 86 /\ Len(g.data) >= 1
                   /\ Len(g.data) >= 1 + g.data[1] * CallsignLen
        n     == IF via THEN g.data[1] ELSE 0
        digis == [i \in 1 .. n |-> ParseAddress(getCallsign(digiField(g.data, i)))]
    IN  IF ~isOK(src) \/ ~isOK(dst) \/ (\E i \in 1 .. n : ~isOK(digis[i])) THEN Failed
        ELSE <<[dst |-> dst[1], src |-> src[1], digis |-> [i \in 1 .. n |-> digis[i][1]],
                cmd |-> FALSE, ctrl |-> Control.UI,
                pid |-> IF g.pid = 0 THEN PIDNone ELSE g.pid,
                info |-> IF via THEN SubSeq(g.data, 2 + n * CallsignLen, Len(g.data))
                         ELSE g.data]>>

\* parseDigiPath: hops that do not parse are left out.
parseDigiPath(data) ==
    IF data = << >> \/ Len(data) < 1 + data[1] * CallsignLen THEN << >>
    ELSE FlattenSeq([i \in 1 .. data[1] |->
                        ParseAddress(TrimRight(digiField(data, i), 0))])

-----------------------------------------------------------------------------
(* Capture files.  A record's time is left out: eight zero bytes.          *)

globalHeaderSize == 24
recordHeaderSize == 16
maxSnapLen == 65535
LinkTypes == [AX25 |-> 3, KISS |-> 202]

\* Create: magic (microseconds, little-endian), version 2.4, snaplen, network.
CreatePcap(linkType) ==
    <<212, 195, 178, 161, 2, 0, 4, 0>> \o zeros(8) \o <<255, 255, 0, 0>> \o le32(linkType)

WriteRecord(data) ==
    IF Len(data) > maxSnapLen THEN Failed
    ELSE <<zeros(8) \o le32(Len(data)) \o le32(Len(data)) \o data>>

\* NewReader, for files of this program: the magic of Create and a link type.
NewReaderOK(file) ==
    /\ Len(file) >= globalHeaderSize
    /\ SubSeq(file, 1, 4) = <<212, 195, 178, 161>>
    /\ uint32(SubSeq(file, 21, 24)) \in {LinkTypes.AX25, LinkTypes.KISS}

\* ReadRecord at an offset: a record, the clean end, or an error.
ReadRecord(file, at) ==
    LET left == Len(file) - at
        size == uint32(SubSeq(file, at + 9, at + 12))
    IN  CASE left = 0 -> [res |-> "EOF"]
          [] left > 0 /\ left < recordHeaderSize -> [res |-> "error"]
          [] left >= recordHeaderSize /\ left < recordHeaderSize + size -> [res |-> "error"]
          [] OTHER -> [res |-> "record", next |-> at + recordHeaderSize + size,
                       data |-> SubSeq(file, at + recordHeaderSize + 1,
                                       at + recordHeaderSize + size)]
=============================================================================
