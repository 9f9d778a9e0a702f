-------------------------------- MODULE Wire --------------------------------
(***************************************************************************)
(* A byte stream between a writer and a reader of this repository, in each *)
(* of its framings:                                                        *)
(*   "kiss"     a serial or TCP KISS line, EncodeFrameKISS to KISSDecoder; *)
(*              a serial line may lose bytes;                              *)
(*   "raw"      AGWPE 'K' frames, FromAX25Raw to the server's Decoder;     *)
(*   "unproto"  AGWPE 'M' and 'V' frames to the server's toAX25Unproto;    *)
(*   "reply"    AGWPE 'K' frames the other way, to the client's ReadFrame; *)
(*   "pcap"     a capture file, WriteRecord to ReadRecord; a crash may cut *)
(*              its end off;                                               *)
(*   "text"     what is typed into the terminal, or sent by another        *)
(*              program, to the lines a BBS session reads.                 *)
(* The reader gets the bytes in chunks of any size.                        *)
(*                                                                         *)
(* What is sent are the messages that Conn.tla and Link.tla exchange, with *)
(* addresses: a message arrives when the frame parsed at the other end     *)
(* reads as the message that was sent.                                     *)
(***************************************************************************)
EXTENDS AgwFrames, Text

CONSTANTS Framings,  \* those of the list above that are tried
          Messages,  \* for each, the messages tried:
                     \* kind, from, to, via, cmd, pf, ns, nr, pid, info
                     \* of a text: typed, or raw if another program sends it,
                     \* beacon (the same text in a beacon's configuration), means
          PieceLen,  \* bound: MaxInfoLen for a text
          Chunks,    \* bound: sizes of a read
          Losses,    \* bound: numbers of bytes lost at once on the serial line
          Backlog,   \* bound: bytes not yet read when the next message is written
          MaxSent    \* bound: messages sent

VARIABLES framing,  \* chosen once
          sent,     \* the messages written
          line,     \* the bytes on their way, each with the number of its message
          dec,      \* the reader's decoder
          got,      \* the frames it delivered
          damaged,  \* the messages that lost bytes
          end       \* how a capture file ended: "open", or ReadRecord's last result

vars == <<framing, sent, line, dec, got, damaged, end>>

-----------------------------------------------------------------------------
(* From a message to a frame, and back.                                    *)

ControlByte(m) == CASE m.kind = "I" -> BuildIControl(m.ns, m.nr, m.pf)
                    [] m.kind \in {"RR", "RNR", "REJ"} -> BuildSControl(m.kind, m.nr, m.pf)
                    [] OTHER -> Control[m.kind] + flag(m.pf, 16)

\* Conn.buildFrame
buildFrame(m) == [dst |-> m.to, src |-> m.from, digis |-> m.via, cmd |-> m.cmd,
                  ctrl |-> ControlByte(m), pid |-> m.pid, info |-> m.info]

\* What the handlers of conn.go read in a frame.
station(a) == [call |-> a.call, ssid |-> a.ssid]
reading(f) ==
    LET kind == ControlName(f.ctrl)
    IN  [kind |-> kind, from |-> station(f.src), to |-> station(f.dst),
         via |-> [i \in DOMAIN f.digis |-> <<station(f.digis[i]), f.digis[i].hbr>>],
         cmd |-> f.cmd, pf |-> HasPF(f.ctrl),
         ns |-> IF kind = "I" THEN ExtractNS(f.ctrl) ELSE 0,
         nr |-> IF kind \in {"I", "RR", "RNR", "REJ"} THEN ExtractNR(f.ctrl) ELSE 0,
         pid |-> f.pid, info |-> f.info]

\* The same reading of the message itself.  An unproto frame has no
\* command bit and no repeated hops, and PID 0 becomes "no layer 3".
upper(a) == [call |-> ToUpper(a.call), ssid |-> a.ssid]
meaning(m) ==
  IF framing = "text" THEN m.means ELSE
    LET f == [kind |-> m.kind, from |-> upper(m.from), to |-> upper(m.to),
              via |-> [i \in DOMAIN m.via |-> <<upper(m.via[i]), m.via[i].hbr>>],
              cmd |-> m.cmd, pf |-> m.pf, ns |-> m.ns, nr |-> m.nr,
              pid |-> m.pid, info |-> m.info]
    IN  IF framing # "unproto" THEN f
        ELSE [f EXCEPT !.cmd = FALSE, !.pid = IF @ = 0 THEN PIDNone ELSE @,
                       !.via = [i \in DOMAIN @ |-> <<@[i][1], FALSE>>]]

-----------------------------------------------------------------------------
(* The writer and the reader of each framing.                              *)

\* The bytes written for a message, or Failed.
pack(m) ==
  IF framing = "text"
  THEN <<IF m.raw = << >> THEN FlattenSeq(splitPayload(expandInline(m.typed), PieceLen)) ELSE m.raw>>
  ELSE
    LET f   == buildFrame(m)
        raw == EncodeFrame(f)
    IN  CASE framing = "kiss" -> IF isOK(raw) THEN <<KISSEncode(0, 0, raw[1])>> ELSE Failed
          [] framing \in {"raw", "reply"} ->
                IF isOK(FromAX25Raw(f)) THEN EncodeAgw(FromAX25Raw(f)[1]) ELSE Failed
          [] framing = "unproto" ->
                IF isOK(FromAX25Unproto(f)) THEN EncodeAgw(FromAX25Unproto(f)[1]) ELSE Failed
          [] framing = "pcap" -> IF isOK(raw) THEN WriteRecord(raw[1]) ELSE Failed

NewReader == CASE framing = "kiss" -> NewKISSDecoder
               [] framing \in {"raw", "unproto"} -> NewDecoder
               [] framing = "reply" -> [buf |-> << >>, out |-> << >>]
               [] framing = "pcap" -> [buf |-> CreatePcap(LinkTypes.AX25), out |-> << >>]
               [] framing = "text" -> NewLineBuf

\* ReadFrame in a loop: io.ReadFull takes exactly one frame from the stream.
readLoop(d) == LET r == ReadFrame(d.buf)
               IN  IF isOK(r) THEN [buf |-> r[2], out |-> Append(d.out, r[1])] ELSE d

\* The decoder after one more byte.
feed(d, b) == CASE framing = "kiss" -> kissByte(d, b)
                [] framing \in {"raw", "unproto"} -> decoderByte(d, b)
                [] framing = "reply" -> readLoop([d EXCEPT !.buf = Append(@, b)])
                [] framing = "pcap" -> [d EXCEPT !.buf = Append(@, b)]
                [] framing = "text" -> onDataByte(d, b)

returns(d) == IF framing \in {"raw", "unproto"} THEN decoderReturns(d) ELSE d

\* The AX.25 frame in what the decoder delivered; the drivers drop KISS
\* commands other than 0 and everything that does not parse.
unpack(x) == CASE framing = "kiss" -> IF x.cmd = 0 THEN ParseFrame(x.data) ELSE Failed
               [] framing \in {"raw", "reply"} -> ToAX25(x)
               [] framing = "unproto" -> toAX25Unproto(x)
               [] framing = "pcap" -> ParseFrame(x)
               [] framing = "text" -> <<x>>

-----------------------------------------------------------------------------
Init == /\ framing \in Framings
        /\ sent = << >> /\ line = << >> /\ got = << >>
        /\ dec = NewReader
        /\ damaged = {} /\ end = "open"

\* A frame that cannot be encoded is not written.
Send(m) ==
    /\ Len(sent) < MaxSent /\ Len(line) <= Backlog /\ end = "open"
    /\ sent' = Append(sent, m)
    /\ LET bytes == IF isOK(pack(m)) THEN pack(m)[1] ELSE << >>
       IN  line' = line \o [i \in DOMAIN bytes |-> <<bytes[i], Len(sent) + 1>>]
    /\ UNCHANGED <<framing, dec, got, damaged, end>>

\* One Read of n bytes and the Write of them to the decoder.
Read(n) ==
    /\ n \in 1 .. Len(line)
    /\ LET chunk == [i \in 1 .. n |-> line[i][1]]
           d     == returns(FoldLeft(feed, dec, chunk))
           new   == FlattenSeq([i \in DOMAIN d.out |-> unpack(d.out[i])])
       IN  /\ got' = got \o new
           /\ dec' = [d EXCEPT !.out = << >>]
    /\ line' = SubSeq(line, n + 1, Len(line))
    /\ UNCHANGED <<framing, sent, damaged, end>>

\* The serial line loses the next n bytes, once.
Lose(n) ==
    /\ framing = "kiss" /\ damaged = {}
    /\ n \in 1 .. Len(line)
    /\ damaged' = damaged \cup {line[i][2] : i \in 1 .. n}
    /\ line' = SubSeq(line, n + 1, Len(line))
    /\ UNCHANGED <<framing, sent, dec, got, end>>

\* The program that writes the capture file dies: what is still on its way
\* to the disk is gone.  The file is read to its end afterwards.
readAll[at \in Nat] ==
    LET r == ReadRecord(dec.buf, at)
    IN  IF r.res = "record"
        THEN LET more == readAll[r.next]
             IN  [recs |-> <<r.data>> \o more.recs, end |-> more.end]
        ELSE [recs |-> << >>, end |-> r.res]

ReadCapture ==
    /\ framing = "pcap" /\ end = "open" /\ NewReaderOK(dec.buf)
    /\ LET all == readAll[globalHeaderSize]
       IN  /\ got' = FlattenSeq([i \in DOMAIN all.recs |-> unpack(all.recs[i])])
           /\ end' = all.end
    /\ damaged' = {line[i][2] : i \in DOMAIN line}
    /\ line' = << >>
    /\ UNCHANGED <<framing, sent, dec>>

Next == \/ \E m \in Messages[framing] : Send(m)
        \/ \E n \in Chunks : Read(n)
        \/ \E n \in Losses : Lose(n)
        \/ ReadCapture

Spec == Init /\ [][Next]_vars

-----------------------------------------------------------------------------
(* Properties.                                                             *)

\* What the writers put on the line are bytes, and each of them belongs to a
\* message that was sent.
TypeOK == /\ framing \in Framings /\ end \in {"open", "EOF", "error"}
          /\ sent \in Seq(Messages[framing]) /\ Len(sent) <= MaxSent
          /\ \A i \in DOMAIN line : line[i] \in (0 .. 255) \X (1 .. Len(sent))
          /\ damaged \subseteq 1 .. Len(sent)

arrived == IF framing = "text" THEN got ELSE [i \in DOMAIN got |-> reading(got[i])]
meant(S) == LET idx == SelectSeq([i \in DOMAIN sent |-> i], LAMBDA i : i \in S)
            IN  [k \in DOMAIN idx |-> meaning(sent[idx[k]])]
onLine == {line[i][2] : i \in DOMAIN line}

\* As long as no byte is lost, what was read off the stream is exactly what was
\* written, in order, for every message of Samples, reserved bytes in payloads,
\* control fields and lengths among them, and for every sequence of reads of the
\* sizes tried: nothing is merged, split, dropped or misread by Encode, KISSEncode, KISSDecoder.Write, Decoder.Write, ReadFrame,
\* ParseFrame, ToAX25 or toAX25Unproto; and the hop list of a 'v' request
\* (BuildConnectViaReq, parseDigiPath) reads back as the hops it was made of.  A
\* typed line is the line the BBS sees (expandInline, splitPayload, OnData), and
\* the escapes of a beacon's text stand for the same bytes (unescapeText).
Faithful ==
    /\ framing = "text" => /\ IsPrefix(meant(DOMAIN sent \ onLine), got)
                           /\ IsPrefix(got, meant(DOMAIN sent))
    /\ framing \notin {"pcap", "text"} /\ damaged = {} => arrived = meant(DOMAIN sent \ onLine)
    /\ \A i \in DOMAIN sent : framing = "text" => unescapeText(sent[i].beacon) = sent[i].means
    /\ \A i \in DOMAIN sent : framing # "text" =>
          LET via == parseDigiPath(digiFields(sent[i].via))
          IN  /\ Len(via) = Len(sent[i].via)
              /\ \A k \in DOMAIN via : SameStation(via[k], sent[i].via[k])

\* Bytes lost on a serial line cost the frames they belong to and at most the
\* one right behind: every other frame is delivered, in order (KISSDecoder.Write
\* has no timeout and no check sum to find its way back with).
Resync ==
    framing = "kiss" =>
      LET safe == {i \in DOMAIN sent \ onLine : {i - 1, i} \cap damaged = {}}
          want == meant(safe)
      IN  \E at \in [DOMAIN want -> DOMAIN got] :
             /\ \A k \in DOMAIN want : arrived[at[k]] = want[k]
             /\ \A k, l \in DOMAIN want : k < l => at[k] < at[l]

\* A capture file cut off by a crash yields every record that is whole, none
\* that is not, and io.EOF only when the cut fell between two records
\* (Writer.WriteRecord, Reader.ReadRecord).
CutCapture ==
    framing = "pcap" /\ end # "open" =>
      /\ arrived = meant(DOMAIN sent \ damaged)
      /\ LET whole == FoldLeft(LAMBDA n, m : n + Len(pack(m)[1]), globalHeaderSize,
                               SubSeq(sent, 1, Len(got)))
         IN  end = "EOF" <=> Len(dec.buf) = whole

\* The UA with which a session answers a frame can be read by this program's own
\* parser: it goes back to the station the frame came from, through the digipeaters
\* the frame really went through in reverse order, none of them marked as passed
\* (extractReturnPath, buildFrame, sendUA, Encode, ParseFrame).
ReplyReadable ==
    \A k \in DOMAIN got : framing # "text" =>
      LET f == got[k]
          hops == SelectSeq(f.digis, LAMBDA d : d.hbr)
          bytes == EncodeFrame(replyUA(f, [f.dst EXCEPT !.hbr = FALSE, !.last = FALSE]))
      IN  isOK(bytes) =>
            LET p == ParseFrame(bytes[1])
            IN  /\ isOK(p) /\ ControlName(p[1].ctrl) = "UA" /\ ~p[1].cmd
                /\ SameStation(p[1].dst, f.src) /\ SameStation(p[1].src, f.dst)
                /\ HasPF(p[1].ctrl) = HasPF(f.ctrl)
                /\ Len(p[1].digis) = Len(hops)
                /\ \A i \in DOMAIN hops :
                      LET back == p[1].digis[Len(hops) + 1 - i]
                      IN  SameStation(back, hops[i]) /\ ~back.hbr
=============================================================================
