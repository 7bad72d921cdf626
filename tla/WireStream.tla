----------------------------- MODULE WireStream -----------------------------
(***************************************************************************)
(* Framing of messages on a connection (wire/message.go): a writer, a      *)
(* reader that may run another protocol version, and the byte stream or    *)
(* the packets of the encrypted transport between them.                    *)
(*                                                                         *)
(* The header of a frame is two chunks, the magic with the command and the *)
(* length with the checksum, since a connection that falls back from the   *)
(* encrypted transport has already read the first.                         *)
(***************************************************************************)
EXTENDS WireTx

CONSTANTS Messages,   \* the messages that may be sent first
          Follow,     \* the messages that may follow
          Conns,      \* the set-ups of the two ends
          MaxFrames   \* bound on the frames of a connection

VARIABLES conn,     \* [wpver, rpver, wenc, renc, v2, cmds]: the two ends, and what the writer sends
          stream,   \* the bytes on their way, as chunks
          packets,  \* the plaintexts on their way, on the encrypted transport
          sent,     \* the frames written, each [msg, fault]
          got       \* the results of reading them, each [res, msg]

vars == <<conn, stream, packets, sent, got>>

CommandSize == 12

EncodeSteps(c, pver) ==
        CASE c = "version" -> MsgVersionEncode(pver)
          [] c = "verack" -> MsgVerAckEncode           [] c = "getaddr" -> MsgGetAddrEncode
          [] c = "mempool" -> MsgMemPoolEncode         [] c = "filterclear" -> MsgFilterClearEncode
          [] c = "sendheaders" -> MsgSendHeadersEncode [] c = "sendaddrv2" -> MsgSendAddrV2Encode
          [] c = "wtxidrelay" -> MsgWTxIdRelayEncode   [] c = "ping" -> MsgPingEncode(pver)
          [] c = "pong" -> MsgPongEncode               [] c = "feefilter" -> MsgFeeFilterEncode
          [] c = "reject" -> MsgRejectEncode           [] c = "inv" -> MsgInvEncode
          [] c = "getdata" -> MsgGetDataEncode         [] c = "notfound" -> MsgNotFoundEncode
          [] c = "getblocks" -> MsgGetBlocksEncode     [] c = "getheaders" -> MsgGetHeadersEncode
          [] c = "headers" -> MsgHeadersEncode         [] c = "addr" -> MsgAddrEncode(pver)
          [] c = "filteradd" -> MsgFilterAddEncode     [] c = "filterload" -> MsgFilterLoadEncode
          [] c = "merkleblock" -> MsgMerkleBlockEncode [] c = "getcfilters" -> MsgGetCFiltersEncode
          [] c = "getcfheaders" -> MsgGetCFHeadersEncode
          [] c = "getcfcheckpt" -> MsgGetCFCheckptEncode
          [] c = "cfilter" -> MsgCFilterEncode         [] c = "cfheaders" -> MsgCFHeadersEncode
          [] c = "cfcheckpt" -> MsgCFCheckptEncode
BtcEncode(m, pver, enc) ==
    CASE m.cmd = "tx" -> [err |-> FALSE, out |-> btcEncode(m.tx, enc)]
      [] m.cmd = "block" -> [err |-> FALSE, out |-> MsgBlockEncode(m.txs, enc)]
      [] m.cmd = "addrv2" -> MsgAddrV2Encode(m.addrs)
      [] OTHER -> Encode(m, pver, EncodeSteps(m.cmd, pver))

DecodeSteps(c, pver) ==
        CASE c = "version" -> MsgVersionDecode(pver)
          [] c = "verack" -> MsgVerAckDecode           [] c = "getaddr" -> MsgGetAddrDecode
          [] c = "mempool" -> MsgMemPoolDecode         [] c = "filterclear" -> MsgFilterClearDecode
          [] c = "sendheaders" -> MsgSendHeadersDecode [] c = "sendaddrv2" -> MsgSendAddrV2Decode
          [] c = "wtxidrelay" -> MsgWTxIdRelayDecode   [] c = "ping" -> MsgPingDecode(pver)
          [] c = "pong" -> MsgPongDecode               [] c = "feefilter" -> MsgFeeFilterDecode
          [] c = "reject" -> MsgRejectDecode           [] c = "inv" -> MsgInvDecode
          [] c = "getdata" -> MsgGetDataDecode         [] c = "notfound" -> MsgNotFoundDecode
          [] c = "getblocks" -> MsgGetBlocksDecode     [] c = "getheaders" -> MsgGetHeadersDecode
          [] c = "headers" -> MsgHeadersDecode         [] c = "addr" -> MsgAddrDecode(pver)
          [] c = "filteradd" -> MsgFilterAddDecode     [] c = "filterload" -> MsgFilterLoadDecode
          [] c = "merkleblock" -> MsgMerkleBlockDecode [] c = "getcfilters" -> MsgGetCFiltersDecode
          [] c = "getcfheaders" -> MsgGetCFHeadersDecode
          [] c = "getcfcheckpt" -> MsgGetCFCheckptDecode
          [] c = "cfilter" -> MsgCFilterDecode         [] c = "cfheaders" -> MsgCFHeadersDecode
          [] c = "cfcheckpt" -> MsgCFCheckptDecode
\* empty is the message makeEmptyMessage created.
BtcDecode(empty, s, pver, enc) ==
    LET TxMsg(r) == r @@ [msg |-> [cmd |-> "tx", tx |-> Tx(r)]]
        BlockMsg(r) == r @@ [msg |-> [cmd |-> "block", txs |-> r.txs]]
        AddrMsg(r) == r @@ [msg |-> [cmd |-> "addrv2", addrs |-> r.addrs]]
    IN  CASE empty.cmd = "tx" -> TxMsg(btcDecode(s, enc))
          [] empty.cmd = "block" -> BlockMsg(MsgBlockDecode(s, enc))
          [] empty.cmd = "addrv2" -> AddrMsg(MsgAddrV2Decode(s))
          [] OTHER -> Decode(empty, s, pver, DecodeSteps(empty.cmd, pver))

MaxPayloadLength(c, pver) ==
    CASE c \in {"tx", "block", "merkleblock"} -> MaxBlockPayload
      [] c = "addrv2" -> MsgAddrV2MaxPayload
      [] c = "version" -> MsgVersionMaxPayload(pver)
      [] c \in {"verack", "getaddr", "mempool", "filterclear", "sendheaders", "sendaddrv2",
                "wtxidrelay"} -> 0
      [] c = "ping" -> MsgPingMaxPayload(pver)
      [] c = "pong" -> MsgPongMaxPayload(pver)
      [] c = "feefilter" -> 8
      [] c = "reject" -> MsgRejectMaxPayload(pver)
      [] c \in {"inv", "getdata", "notfound"} -> InvListMaxPayload
      [] c \in {"getblocks", "getheaders"} -> LocatorMaxPayload
      [] c = "headers" -> MsgHeadersMaxPayload
      [] c = "addr" -> MsgAddrMaxPayload(pver)
      [] c = "filteradd" -> MsgFilterAddMaxPayload
      [] c = "filterload" -> MsgFilterLoadMaxPayload
      [] c \in {"getcfilters", "getcfheaders"} -> 1 + 4 + HashSize
      [] c = "getcfcheckpt" -> 1 + HashSize
      [] c = "cfilter" -> MsgCFilterMaxPayload
      [] c = "cfheaders" -> MsgCFHeadersMaxPayload
      [] c = "cfcheckpt" -> maxCFCheckptPayload

\* The commands makeEmptyMessage knows.
KnownCommands ==
    {"version", "verack", "sendaddrv2", "getaddr", "addr", "addrv2", "getblocks", "block", "inv",
     "getdata", "notfound", "tx", "ping", "pong", "getheaders", "headers", "mempool", "filteradd",
     "filterclear", "filterload", "merkleblock", "reject", "sendheaders", "feefilter", "getcfilters",
     "getcfheaders", "getcfcheckpt", "cfilter", "cfheaders", "cfcheckpt"}
\* The zero value of the type a command names.
makeEmptyMessage(command) ==
    LET m == CHOOSE x \in Messages \cup Follow : x.cmd = command
    IN  [f \in DOMAIN m |-> IF f = "cmd" THEN command ELSE IF command \in {"tx", "block", "addrv2"}
                                                          THEN << >> ELSE 0]

-----------------------------------------------------------------------------
(* Frames on an unencrypted connection.                                    *)

Header(magic, command, length, checksum) ==
    Chunk(4 + CommandSize, "prefix", [magic |-> magic, command |-> command])
    \o Chunk(4 + 4, "length", [length |-> length, checksum |-> checksum])

\* The size of a payload is checked before anything is written.
Frame(command, pver, bw) ==
    LET lenp == Size(bw.out)
    IN  [err |-> \/ bw.err
                 \/ lenp > MaxProtocolMessageLength
                 \/ lenp > MaxPayloadLength(command, pver),
         out |-> Header("net", command, lenp, "good") \o bw.out]
WriteMessageWithEncodingN(m, pver, enc) == Frame(m.cmd, pver, BtcEncode(m, pver, enc))

\* A header read in one piece, or its end when its first 16 bytes were read before.
readMessageHeader(s) ==
    IF Len(s) < 2 THEN [err |-> TRUE, rest |-> << >>]
    ELSE [err |-> FALSE, magic |-> s[1].val.magic, command |-> s[1].val.command,
          length |-> s[2].val.length, checksum |-> s[2].val.checksum, rest |-> SubSeq(s, 3, Len(s))]
readPartialHeader(prefix, s) ==
    IF s = << >> THEN [err |-> TRUE, rest |-> << >>]
    ELSE [err |-> FALSE, magic |-> prefix.val.magic, command |-> prefix.val.command,
          length |-> s[1].val.length, checksum |-> s[1].val.checksum, rest |-> Tail(s)]

discardSize == 10 * 1024
discardInput(s, n) == Drop(Drop(s, (n \div discardSize) * discardSize), n % discardSize)

\* The payload has to be read to its end.
ConsumedAnyhow(d) == TRUE
Consumed(d) == d.in = << >>

Result(res, rest) == [res |-> res, msg |-> [cmd |-> "none"], rest |-> rest]
Decoded(d, rest, consumed(_)) ==
    CASE d.err -> Result("error", rest)
      [] d.garbled -> Result("garbled", rest)
      [] ~consumed(d) -> Result("error", rest)
      [] OTHER -> [Result("ok", rest) EXCEPT !.msg = d.msg]
readMessageWithEncodingNInternal(hdr, pver, enc) ==
    LET skipped == discardInput(hdr.rest, hdr.length)
        rest == Drop(hdr.rest, hdr.length)
        payload == SubSeq(hdr.rest, 1, Len(hdr.rest) - Len(rest))
    IN  CASE hdr.length > MaxProtocolMessageLength -> Result("toolarge", hdr.rest)
          [] hdr.magic # "net" -> Result("error", skipped)
          [] hdr.command = "notutf8" -> Result("error", skipped)
          [] hdr.command \notin KnownCommands -> Result("unknown", skipped)
          [] hdr.length > MaxPayloadLength(hdr.command, pver) -> Result("error", skipped)
          [] Size(hdr.rest) < hdr.length -> Result("eof", << >>)
          [] hdr.checksum # "good" -> Result("error", rest)
          [] OTHER -> Decoded(BtcDecode(makeEmptyMessage(hdr.command), payload, pver, enc), rest, Consumed)

ReadMessageWithEncodingN(s, pver, enc) ==
    LET hdr == readMessageHeader(s)
    IN  IF hdr.err THEN Result("eof", << >>) ELSE readMessageWithEncodingNInternal(hdr, pver, enc)
ReadPartialMessageWithEncodingN(prefix, s, pver, enc) ==
    LET hdr == readPartialHeader(prefix, s)
    IN  IF hdr.err THEN Result("eof", << >>) ELSE readMessageWithEncodingNInternal(hdr, pver, enc)

-----------------------------------------------------------------------------
(* Plaintexts of the encrypted transport (BIP 324).                        *)

v2MessageIDs == 1 :> "addr" @@ 2 :> "block" @@ 5 :> "feefilter" @@ 6 :> "filteradd" @@ 7 :> "filterclear"
    @@ 8 :> "filterload" @@ 9 :> "getblocks" @@ 11 :> "getdata" @@ 12 :> "getheaders" @@ 13 :> "headers"
    @@ 14 :> "inv" @@ 15 :> "mempool" @@ 16 :> "merkleblock" @@ 17 :> "notfound" @@ 18 :> "ping"
    @@ 19 :> "pong" @@ 21 :> "tx" @@ 22 :> "getcfilters" @@ 23 :> "cfilter" @@ 24 :> "getcfheaders"
    @@ 25 :> "cfheaders" @@ 26 :> "getcfcheckpt" @@ 27 :> "cfcheckpt" @@ 28 :> "addrv2"
v2Messages == [addr |-> 1, block |-> 2, feefilter |-> 5, filteradd |-> 6, filterclear |-> 7,
    filterload |-> 8, getblocks |-> 9, getdata |-> 11, getheaders |-> 12, headers |-> 13,
    inv |-> 14, mempool |-> 15, merkleblock |-> 16, notfound |-> 17, ping |-> 18,
    pong |-> 19, tx |-> 21, getcfilters |-> 22, cfilter |-> 23, getcfheaders |-> 24,
    cfheaders |-> 25, getcfcheckpt |-> 26, cfcheckpt |-> 27, addrv2 |-> 28]

\* A message without a short id is announced by a zero byte and its 12-byte command.
WriteV2MessageN(m, pver, enc) ==
    LET w == WriteMessageWithEncodingN(m, pver, enc)
        header == IF m.cmd \in DOMAIN v2Messages THEN Chunk(1, "fixed", v2Messages[m.cmd])
                  ELSE Chunk(1, "fixed", 0) \o Chunk(CommandSize, "command", m.cmd)
    IN  [err |-> w.err, out |-> header \o BtcEncode(m, pver, enc).out]

ReadV2MessageN(plaintext, pver, enc) ==
    LET id == plaintext[1].val
        named == id = 0
        command == IF named THEN plaintext[2].val
                   ELSE IF id \in DOMAIN v2MessageIDs THEN v2MessageIDs[id] ELSE ""
        payload == SubSeq(plaintext, IF named THEN 3 ELSE 2, Len(plaintext))
    IN  CASE plaintext = << >> \/ (named /\ Len(plaintext) < 2) -> Result("error", << >>)
          [] command \notin KnownCommands -> Result("unknown", << >>)
          [] Size(payload) > MaxProtocolMessageLength -> Result("error", << >>)
          [] Size(payload) > MaxPayloadLength(command, pver) -> Result("error", << >>)
          [] OTHER -> Decoded(BtcDecode(makeEmptyMessage(command), payload, pver, enc), << >>, LAMBDA d : TRUE)

-----------------------------------------------------------------------------
(* The connection.                                                         *)

Init == /\ conn \in Conns
        /\ stream = << >> /\ packets = << >> /\ sent = << >> /\ got = << >>

Sendable == IF sent = << >> THEN {m \in Messages : m.cmd \in conn.cmds} ELSE Follow
\* The connection is closed after these.
Ended == \E i \in DOMAIN got : got[i].res \in {"eof", "toolarge"}
Room == Len(sent) < MaxFrames /\ ~Ended /\ \A i \in DOMAIN sent : sent[i].fault # "cut"
Deliver(m, fault, frame) ==
    /\ sent' = Append(sent, [msg |-> m, fault |-> fault])
    /\ stream' = stream \o frame
    /\ UNCHANGED <<conn, packets, got>>

\* A message that cannot be written leaves nothing behind.
Write(m) ==
    LET w == WriteMessageWithEncodingN(m, conn.wpver, conn.wenc)
    IN  /\ Room /\ ~conn.v2 /\ ~w.err
        /\ Deliver(m, "none", w.out)

WriteV2(m) ==
    LET w == WriteV2MessageN(m, conn.wpver, conn.wenc)
    IN  /\ Room /\ conn.v2 /\ ~w.err
        /\ sent' = Append(sent, [msg |-> m, fault |-> "none"])
        /\ packets' = Append(packets, w.out)
        /\ UNCHANGED <<conn, stream, got>>

\* Frames this package would not write: other software may have addresses of more networks.
WriteForeign(m) ==
    LET out == MsgAddrV2Encode(m.addrs).out
    IN  /\ Room /\ ~conn.v2 /\ m.cmd = "addrv2"
        /\ \E i \in DOMAIN m.addrs : ~Writable(m.addrs[i])
        /\ Deliver(m, "none", Header("net", "addrv2", Size(out), "good") \o out)

\* A frame of another network, of a command not known here, damaged, or too long to accept.
WriteFault(m, fault) ==
    LET w == WriteMessageWithEncodingN(m, conn.wpver, conn.wenc)
        head == Header(IF fault = "magic" THEN "other" ELSE "net",
                       CASE fault = "command" -> "alien" [] fault = "utf8" -> "notutf8" [] OTHER -> m.cmd,
                       IF fault = "length" THEN MaxProtocolMessageLength + 1 ELSE Size(w.out) - 24,
                       IF fault = "checksum" THEN "bad" ELSE "good")
    IN  /\ Room /\ ~conn.v2 /\ sent = << >> /\ ~w.err
        /\ Deliver(m, fault, head \o SubSeq(w.out, 3, Len(w.out)))

\* The connection ends in the header of the last frame, or before its last chunk.
Cut == /\ Len(sent) = Len(got) + 1 /\ ~conn.v2 /\ ~Ended /\ Last(sent).fault # "cut"
       /\ sent' = [sent EXCEPT ![Len(sent)].fault = "cut"]
       /\ \E k \in {1, Len(stream) - 1} : stream' = SubSeq(stream, 1, k)
       /\ UNCHANGED <<conn, packets, got>>

Took(r) == /\ got' = Append(got, [res |-> r.res, msg |-> r.msg])
           /\ stream' = r.rest
           /\ UNCHANGED <<conn, packets, sent>>
Read == /\ ~conn.v2 /\ ~Ended /\ Len(got) < Len(sent)
        /\ Took(ReadMessageWithEncodingN(stream, conn.rpver, conn.renc))
\* The first message of a connection that fell back to the unencrypted transport.
ReadPartial == /\ ~conn.v2 /\ ~Ended /\ got = << >> /\ stream # << >>
               /\ Took(ReadPartialMessageWithEncodingN(Head(stream), Tail(stream), conn.rpver, conn.renc))
ReadV2 == LET r == ReadV2MessageN(Head(packets), conn.rpver, conn.renc)
          IN  /\ packets # << >>
              /\ got' = Append(got, [res |-> r.res, msg |-> r.msg])
              /\ packets' = Tail(packets)
              /\ UNCHANGED <<conn, stream, sent>>

Faults == {"magic", "command", "utf8", "checksum", "length"}
Next == \/ \E m \in Sendable : Write(m) \/ WriteV2(m) \/ WriteForeign(m)
        \/ \E m \in Follow, f \in Faults : WriteFault(m, f)
        \/ Cut \/ Read \/ ReadPartial \/ ReadV2
Spec == Init /\ [][Next]_vars

-----------------------------------------------------------------------------
(* Properties.                                                             *)

\* What of a message survives the version and the encoding it is written with.
Stripped(tx) == [tx EXCEPT !.TxIn = [i \in DOMAIN tx.TxIn |-> [tx.TxIn[i] EXCEPT !.Witness = Nil]]]
Plainly(tx) == IF HasWitness(tx) /\ conn.wenc = WitnessEncoding
               THEN [tx EXCEPT !.TxIn = [i \in DOMAIN tx.TxIn |->
                                           [tx.TxIn[i] EXCEPT !.Witness = Items0(@)]]]
               ELSE Stripped(tx)
UsedHere(a) == Writable(a) /\ ~(a.net = ipv6 /\ a.form # Plain)
Normal(m) ==
    CASE m.cmd = "tx" -> [m EXCEPT !.tx = Plainly(@)]
      [] m.cmd = "block" -> [m EXCEPT !.txs = [i \in DOMAIN m.txs |-> Plainly(m.txs[i])]]
      [] m.cmd = "addrv2" -> [m EXCEPT !.addrs = SelectSeq(@, UsedHere)]
      [] m.cmd = "version" /\ conn.wpver < BIP0037Version -> [m EXCEPT !.DisableRelayTx = 0]
      [] m.cmd = "ping" /\ conn.wpver <= BIP0031Version -> [m EXCEPT !.Nonce = 0]
      [] m.cmd = "reject" /\ m.Cmd \notin WithHash -> [m EXCEPT !.Hash = 0]
      [] OTHER -> m
TxsIn(m) == CASE m.cmd = "tx" -> <<m.tx>> [] m.cmd = "block" -> m.txs [] OTHER -> << >>
\* A transaction without inputs looks like one with a witness.
Ambiguous(m) == conn.renc = WitnessEncoding /\ \E i \in DOMAIN TxsIn(m) : TxsIn(m)[i].TxIn = << >>
Understood(m) == /\ conn.wenc = WitnessEncoding /\ (\E i \in DOMAIN TxsIn(m) : HasWitness(TxsIn(m)[i]))
                      => conn.renc = WitnessEncoding
                 /\ ~Ambiguous(m)

\* A message that is read is the message that was written, whatever versions the two ends run: a
\* version that lays a message out otherwise refuses it.  Over the encrypted transport, where a
\* payload is not checked to have been read to its end, this needs ends of one version.
ReadsBack ==
    \A i \in DOMAIN got :
        /\ Understood(sent[i].msg)
        /\ conn.v2 => conn.wpver = conn.rpver
        /\ \A j \in 1 .. i : sent[j].fault \notin {"cut", "length"}
        => /\ got[i].res # "garbled"
           /\ got[i].res = "ok" => got[i].msg = Normal(sent[i].msg)

\* Ends of one version and encoding understand each other: what the writer's limits let through,
\* the reader's limits let through.  wtxidrelay is written but not among the messages read.
Accepted ==
    \A i \in DOMAIN got :
        /\ conn.wpver = conn.rpver /\ conn.wenc = conn.renc
        /\ sent[i].fault = "none" /\ sent[1].fault # "length"
        /\ sent[i].msg.cmd # "wtxidrelay" /\ ~Ambiguous(sent[i].msg)
        => got[i].res = "ok"

\* Whatever is refused, the next read starts at the next frame; only a frame too long to be
\* skipped, or the end of the connection, ends the exchange.
Aligned ==
    /\ stream # << >> /\ ~Ended => Head(stream).kind = "prefix"
    /\ \A i \in DOMAIN got : sent[i].fault \in {"magic", "utf8", "checksum"} => got[i].res = "error"
    /\ \A i \in DOMAIN got : sent[i].fault = "command" => got[i].res = "unknown"
=============================================================================
