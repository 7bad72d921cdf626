---------------------------- MODULE WireMessages ----------------------------
(***************************************************************************)
(* The elements of the peer-to-peer wire format (wire/common.go and the    *)
(* headers, addresses and inventory vectors built from it).                *)
(*                                                                         *)
(* A byte stream is a sequence of chunks [len, kind, val]: len bytes that  *)
(* were written together and the value they stand for.  A list of n items  *)
(* is one chunk, its value the number of items; contents are left out.  A  *)
(* reader that asks for other bytes than were written together gets Junk.  *)
(*                                                                         *)
(* BtcEncode and BtcDecode of a message are sequences of steps, in the     *)
(* order of the code; Encode and Decode run them.                          *)
(***************************************************************************)
EXTENDS Integers, Sequences, SequencesExt

\* The fold of a sequence from the left, evaluated in one pass.
Fold(op(_, _), base, s) ==
    LET f[i \in 0 .. Len(s)] == IF i = 0 THEN base ELSE op(f[i - 1], s[i]) IN f[Len(s)]

Junk == -1
HashSize == 32
MaxVarIntPayload == 9
MaxMessagePayload == 1024 * 1024 * 32
MaxProtocolMessageLength == 4 * 1000 * 1000

-----------------------------------------------------------------------------
(* Variable length integers, byte by byte.  A uint64 is four 16-bit limbs, *)
(* the least significant first.                                            *)

\* The uint64 v is below bound: compared from the most significant limb down.
Less(v, bound) == \E i \in 1 .. 4 : /\ v[i] < bound[i]
                                    /\ \A j \in i + 1 .. 4 : v[j] = bound[j]
\* 0xfd, 0x10000 and 0x100000000.
MinFD == <<253, 0, 0, 0>>
MinFE == <<0, 1, 0, 0>>
MinFF == <<0, 0, 1, 0>>

\* An encoding is its first byte and the limbs that follow it.
WriteVarIntBuf(v) ==
    IF Less(v, MinFD) THEN [disc |-> v[1], limbs |-> << >>]
    ELSE IF Less(v, MinFE) THEN [disc |-> 253, limbs |-> SubSeq(v, 1, 1)]
    ELSE IF Less(v, MinFF) THEN [disc |-> 254, limbs |-> SubSeq(v, 1, 2)]
    ELSE [disc |-> 255, limbs |-> v]

\* The limbs a first byte announces, and the least value they may encode.
VarIntLimbs(disc) == CASE disc = 255 -> 4 [] disc = 254 -> 2 [] disc = 253 -> 1 [] OTHER -> 0
VarIntMin(disc) == CASE disc = 255 -> MinFF [] disc = 254 -> MinFE [] disc = 253 -> MinFD
                     [] OTHER -> <<0, 0, 0, 0>>

ReadVarIntUnchecked(e) ==
    LET v == IF e.disc < 253 THEN <<e.disc, 0, 0, 0>>
             ELSE [i \in 1 .. 4 |-> IF i <= VarIntLimbs(e.disc) THEN e.limbs[i] ELSE 0]
    IN  [err |-> FALSE, val |-> v]
ReadVarIntBuf(e) ==
    LET v == ReadVarIntUnchecked(e).val
    IN  [err |-> Less(v, VarIntMin(e.disc)), val |-> v]

\* The size of a varint below 2^31, all that counts and lengths reach.
VarIntSerializeSize(n) == IF n < 253 THEN 1 ELSE IF n <= 65535 THEN 3 ELSE 5

-----------------------------------------------------------------------------
(* Streams of chunks.                                                      *)

Chunk(n, kind, v) == IF n = 0 THEN << >> ELSE <<[len |-> n, kind |-> kind, val |-> v]>>
\* A varint of one byte is that byte.
VarInt(n) == Chunk(VarIntSerializeSize(n), IF n < 253 THEN "fixed" ELSE "varint", n)
\* By halves, which keeps the evaluation shallow.
RECURSIVE Size(_)
Size(s) ==
    LET half == Len(s) \div 2 IN
    CASE s = << >> -> 0
      [] Len(s) = 1 -> s[1].len
      [] OTHER -> Size(SubSeq(s, 1, half)) + Size(SubSeq(s, half + 1, Len(s)))

RECURSIVE Drop(_, _)
\* The stream after n bytes were read; what is left of a chunk cut in two is junk.
Drop(s, n) ==
    IF n = 0 \/ s = << >> THEN s
    ELSE IF Head(s).len <= n THEN Drop(Tail(s), n - Head(s).len)
    ELSE Chunk(Head(s).len - n, "junk", Junk) \o Tail(s)

\* io.ReadFull of n bytes: their value if exactly these bytes were written together.
ReadFull(s, n, kind) ==
    [err |-> Size(s) < n,
     val |-> IF n = 0 THEN 0
             ELSE IF s # << >> /\ Head(s).len = n /\ Head(s).kind = kind THEN Head(s).val ELSE Junk,
     rest |-> Drop(s, n)]

\* ReadVarInt: the varint that was written here, or what cannot be predicted.
ReadVarInt(s) ==
    IF s = << >> THEN [err |-> TRUE, val |-> 0, rest |-> s]
    ELSE IF Head(s).kind = "varint" \/ (Head(s).kind = "fixed" /\ Head(s).len = 1)
         THEN [err |-> FALSE, val |-> Head(s).val, rest |-> Tail(s)]
         ELSE [err |-> FALSE, val |-> Junk, rest |-> s]

-----------------------------------------------------------------------------
(* The steps of BtcEncode and BtcDecode.                                   *)

Fixed(f, n) == [op |-> "fixed", f |-> f, n |-> n]     \* writeElement, readElement
Count(f) == [op |-> "count", f |-> f, n |-> 0]        \* WriteVarInt of len(f), ReadVarInt
Items(f, n) == [op |-> "items", f |-> f, n |-> n]     \* the loop over the items of f
Limit(f, n) == [op |-> "limit", f |-> f, n |-> n]     \* refuse more than n
MinVersion(n) == [op |-> "version", f |-> "", n |-> n]
IfAny == [op |-> "ifany", f |-> "", n |-> 0]          \* if buf.Len() > 0, for all that follows
IfIn(f, vals, n, g) == [op |-> "ifin", f |-> f, n |-> n, vals |-> vals, g |-> g]   \* g only if f in vals
Not(f) == [op |-> "not", f |-> f, n |-> 1]            \* a bool that is sent negated
\* WriteVarBytes, and ReadVarBytes with its maximum.
VarBytes(f) == <<Count(f), Items(f, 1)>>
VarBytesMax(f, n) == <<Count(f), Limit(f, n), Items(f, 1)>>
VarString(f) == VarBytesMax(f, MaxMessagePayload)

\* One step of an encoder that has not failed yet.
EncodeStep(m, pver, w, step) ==
    CASE w.err -> w
      [] step.op = "fixed" -> [w EXCEPT !.out = @ \o Chunk(step.n, "fixed", m[step.f])]
      [] step.op = "count" -> [w EXCEPT !.out = @ \o VarInt(m[step.f])]
      [] step.op = "items" -> [w EXCEPT !.out = @ \o Chunk(step.n * m[step.f], "items", m[step.f])]
      [] step.op = "limit" -> [w EXCEPT !.err = m[step.f] > step.n]
      [] step.op = "version" -> [w EXCEPT !.err = pver < step.n]
      [] step.op = "ifin" -> IF m[step.f] \in step.vals
                             THEN [w EXCEPT !.out = @ \o Chunk(step.n, "fixed", m[step.g])] ELSE w
      [] step.op = "not" -> [w EXCEPT !.out = @ \o Chunk(1, "fixed", 1 - m[step.f])]
Encode(m, pver, steps) ==
    Fold(LAMBDA w, step : EncodeStep(m, pver, w, step), [err |-> FALSE, out |-> << >>], steps)

\* The value of a list is the number of its items; fewer bytes than announced are an error.
Got(r, f, read) == [r EXCEPT !.err = read.err, !.msg = [@ EXCEPT ![f] = read.val], !.in = read.rest]
\* Once a length is junk nothing that follows can be predicted.
DecodeStep(pver, r, step) ==
    CASE r.err \/ r.garbled \/ r.done -> r
      [] step.op = "fixed" -> Got(r, step.f, ReadFull(r.in, step.n, "fixed"))
      [] step.op = "count" -> LET read == ReadVarInt(r.in)
                              IN  [Got(r, step.f, read) EXCEPT !.garbled = read.val = Junk]
      [] step.op = "items" -> Got(r, step.f, ReadFull(r.in, step.n * r.msg[step.f], "items"))
      [] step.op = "limit" -> [r EXCEPT !.err = r.msg[step.f] > step.n]
      [] step.op = "version" -> [r EXCEPT !.err = pver < step.n]
      [] step.op = "ifany" -> [r EXCEPT !.done = r.in = << >>]
      [] step.op = "ifin" -> IF r.msg[step.f] \in step.vals
                             THEN Got(r, step.g, ReadFull(r.in, step.n, "fixed")) ELSE r
      [] step.op = "not" -> LET read == ReadFull(r.in, 1, "fixed")
                            IN  Got(r, step.f, [read EXCEPT !.val = IF @ = 0 THEN 1 ELSE 0])
Decode(empty, payload, pver, steps) ==
    Fold(LAMBDA r, step : DecodeStep(pver, r, step),
             [err |-> FALSE, garbled |-> FALSE, done |-> FALSE, msg |-> empty, in |-> payload], steps)

-----------------------------------------------------------------------------
(* The messages of the wire package: what BtcEncode writes, what BtcDecode *)
(* reads and refuses, and MaxPayloadLength, one group per message type.    *)
(*                                                                         *)
(* A message is a record of its fields: a fixed-size element is a small    *)
(* number, a list or a byte string is its length.                          *)

MultipleAddressVersion == 209
NetAddressTimeVersion == 31402
BIP0031Version == 60000
BIP0035Version == 60002
BIP0037Version == 70001
RejectVersion == 70002
SendHeadersVersion == 70012
FeeFilterVersion == 70013
AddrV2Version == 70016

MaxBlockPayload == 4000000
minTxPayload == 10
maxTxPerBlock == (MaxBlockPayload \div minTxPayload) + 1
maxFlagsPerMerkleBlock == maxTxPerBlock \div 8
MaxBlockHeaderPayload == 16 + (HashSize * 2)
MaxInvPerMsg == 50000
maxInvVectPayload == 4 + HashSize
MaxAddrPerMsg == 1000
MaxV2AddrPerMsg == 1000
MaxBlockLocatorsPerMsg == 500
MaxBlockHeadersPerMsg == 2000
MaxCFHeadersPerMsg == 2000
maxCFHeadersLen == 100000
MaxCFilterDataSize == 256 * 1024
MaxFilterAddDataSize == 520
MaxFilterLoadFilterSize == 36000
MaxFilterLoadHashFuncs == 50
MaxUserAgentLen == 256

-----------------------------------------------------------------------------
(* Elements of several messages, by their bytes.                           *)

\* readBlockHeaderBuf and writeBlockHeaderBuf: version, two hashes, time, bits, nonce.
readBlockHeader == 4 + HashSize + HashSize + 4 + 4 + 4
writeBlockHeader == 4 + HashSize + HashSize + 4 + 4 + 4
readInvVect == 4 + HashSize
writeInvVect == 4 + HashSize
\* A timestamp only where the message carries one and both ends know it.
readNetAddress(pver, ts) == (IF ts /\ pver >= NetAddressTimeVersion THEN 4 ELSE 0) + 8 + 16 + 2
writeNetAddress(pver, ts) == (IF ts /\ pver >= NetAddressTimeVersion THEN 4 ELSE 0) + 8 + 16 + 2
maxNetAddressPayload(pver) == 26 + (IF pver >= NetAddressTimeVersion THEN 4 ELSE 0)

-----------------------------------------------------------------------------
(* version, verack, getaddr and the other messages without a payload.      *)

MsgVersionEncode(pver) ==
    <<Limit("UserAgent", MaxUserAgentLen),
      Fixed("ProtocolVersion", 4), Fixed("Services", 8), Fixed("Timestamp", 8),
      Fixed("AddrYou", writeNetAddress(pver, FALSE)), Fixed("AddrMe", writeNetAddress(pver, FALSE)),
      Fixed("Nonce", 8)>> \o VarBytes("UserAgent") \o <<Fixed("LastBlock", 4)>>
    \o (IF pver >= BIP0037Version THEN <<Not("DisableRelayTx")>> ELSE << >>)
MsgVersionDecode(pver) ==
    <<Fixed("ProtocolVersion", 4), Fixed("Services", 8), Fixed("Timestamp", 8),
      Fixed("AddrYou", readNetAddress(pver, FALSE)),
      IfAny, Fixed("AddrMe", readNetAddress(pver, FALSE)),
      IfAny, Fixed("Nonce", 8),
      IfAny>> \o VarString("UserAgent") \o <<Limit("UserAgent", MaxUserAgentLen),
      IfAny, Fixed("LastBlock", 4),
      IfAny, Not("DisableRelayTx")>>
MsgVersionMaxPayload(pver) ==
    33 + (maxNetAddressPayload(pver) * 2) + MaxVarIntPayload + MaxUserAgentLen

MsgVerAckEncode == << >>
MsgVerAckDecode == << >>
MsgGetAddrEncode == << >>
MsgGetAddrDecode == << >>
MsgMemPoolEncode == <<MinVersion(BIP0035Version)>>
MsgMemPoolDecode == <<MinVersion(BIP0035Version)>>
MsgFilterClearEncode == <<MinVersion(BIP0037Version)>>
MsgFilterClearDecode == <<MinVersion(BIP0037Version)>>
MsgSendHeadersEncode == <<MinVersion(SendHeadersVersion)>>
MsgSendHeadersDecode == <<MinVersion(SendHeadersVersion)>>
MsgSendAddrV2Encode == <<MinVersion(AddrV2Version)>>
MsgSendAddrV2Decode == <<MinVersion(AddrV2Version)>>
MsgWTxIdRelayEncode == <<MinVersion(AddrV2Version)>>
MsgWTxIdRelayDecode == <<MinVersion(AddrV2Version)>>

-----------------------------------------------------------------------------
(* ping, pong, feefilter and reject.                                       *)

MsgPingEncode(pver) == IF pver > BIP0031Version THEN <<Fixed("Nonce", 8)>> ELSE << >>
MsgPingDecode(pver) == IF pver > BIP0031Version THEN <<Fixed("Nonce", 8)>> ELSE << >>
MsgPingMaxPayload(pver) == IF pver > BIP0031Version THEN 8 ELSE 0

MsgPongEncode == <<MinVersion(BIP0031Version + 1), Fixed("Nonce", 8)>>
MsgPongDecode == <<MinVersion(BIP0031Version + 1), Fixed("Nonce", 8)>>
MsgPongMaxPayload(pver) == IF pver > BIP0031Version THEN 8 ELSE 0

MsgFeeFilterEncode == <<MinVersion(FeeFilterVersion), Fixed("MinFee", 8)>>
MsgFeeFilterDecode == <<MinVersion(FeeFilterVersion), Fixed("MinFee", 8)>>

\* A command is its length here; those of block and tx carry a hash.
WithHash == {5, 2}
MsgRejectEncode ==
    <<MinVersion(RejectVersion)>> \o VarBytes("Cmd") \o <<Fixed("Code", 1)>> \o VarBytes("Reason")
    \o <<IfIn("Cmd", WithHash, HashSize, "Hash")>>
MsgRejectDecode ==
    <<MinVersion(RejectVersion)>> \o VarString("Cmd") \o <<Fixed("Code", 1)>> \o VarString("Reason")
    \o <<IfIn("Cmd", WithHash, HashSize, "Hash")>>
MsgRejectMaxPayload(pver) == IF pver >= RejectVersion THEN MaxProtocolMessageLength ELSE 0

-----------------------------------------------------------------------------
(* Lists of inventory vectors, hashes and headers.                         *)

InvListEncode == <<Limit("InvList", MaxInvPerMsg), Count("InvList"), Items("InvList", writeInvVect)>>
InvListDecode == <<Count("InvList"), Limit("InvList", MaxInvPerMsg), Items("InvList", readInvVect)>>
InvListMaxPayload == MaxVarIntPayload + (MaxInvPerMsg * maxInvVectPayload)

MsgInvEncode == InvListEncode
MsgInvDecode == InvListDecode
MsgGetDataEncode == InvListEncode
MsgGetDataDecode == InvListDecode
MsgNotFoundEncode == InvListEncode
MsgNotFoundDecode == InvListDecode

LocatorEncode ==
    <<Limit("BlockLocatorHashes", MaxBlockLocatorsPerMsg), Fixed("ProtocolVersion", 4),
      Count("BlockLocatorHashes"), Items("BlockLocatorHashes", HashSize), Fixed("HashStop", HashSize)>>
LocatorDecode ==
    <<Fixed("ProtocolVersion", 4), Count("BlockLocatorHashes"),
      Limit("BlockLocatorHashes", MaxBlockLocatorsPerMsg),
      Items("BlockLocatorHashes", HashSize), Fixed("HashStop", HashSize)>>
LocatorMaxPayload == 4 + MaxVarIntPayload + (MaxBlockLocatorsPerMsg * HashSize) + HashSize

MsgGetBlocksEncode == LocatorEncode
MsgGetBlocksDecode == LocatorDecode
MsgGetHeadersEncode == LocatorEncode
MsgGetHeadersDecode == LocatorDecode

\* Every header is followed by a transaction count, always zero.
MsgHeadersEncode ==
    <<Limit("Headers", MaxBlockHeadersPerMsg), Count("Headers"),
      Items("Headers", writeBlockHeader + VarIntSerializeSize(0))>>
MsgHeadersDecodeBelow ==
    <<Count("Headers"), Limit("Headers", MaxBlockHeadersPerMsg - 1),
      Items("Headers", readBlockHeader + VarIntSerializeSize(0))>>
MsgHeadersDecode ==
    <<Count("Headers"), Limit("Headers", MaxBlockHeadersPerMsg),
      Items("Headers", readBlockHeader + VarIntSerializeSize(0))>>
MsgHeadersMaxPayload == MaxVarIntPayload + ((MaxBlockHeaderPayload + 1) * MaxBlockHeadersPerMsg)

MsgAddrEncode(pver) ==
    <<Limit("AddrList", IF pver < MultipleAddressVersion THEN 1 ELSE MaxAddrPerMsg),
      Limit("AddrList", MaxAddrPerMsg), Count("AddrList"),
      Items("AddrList", writeNetAddress(pver, TRUE))>>
MsgAddrDecode(pver) ==
    <<Count("AddrList"), Limit("AddrList", MaxAddrPerMsg),
      Items("AddrList", readNetAddress(pver, TRUE))>>
MsgAddrMaxPayload(pver) ==
    MaxVarIntPayload + (IF pver < MultipleAddressVersion THEN 1 ELSE MaxAddrPerMsg)
                       * maxNetAddressPayload(pver)

-----------------------------------------------------------------------------
(* Bloom filters and merkle blocks (BIP 37).                               *)

MsgFilterAddEncode ==
    <<MinVersion(BIP0037Version), Limit("Data", MaxFilterAddDataSize)>> \o VarBytes("Data")
MsgFilterAddDecode == <<MinVersion(BIP0037Version)>> \o VarBytesMax("Data", MaxFilterAddDataSize)
MsgFilterAddMaxPayload == VarIntSerializeSize(MaxFilterAddDataSize) + MaxFilterAddDataSize

MsgFilterLoadEncode ==
    <<MinVersion(BIP0037Version), Limit("Filter", MaxFilterLoadFilterSize),
      Limit("HashFuncs", MaxFilterLoadHashFuncs)>> \o VarBytes("Filter")
    \o <<Fixed("HashFuncs", 4), Fixed("Tweak", 4), Fixed("Flags", 1)>>
MsgFilterLoadDecode ==
    <<MinVersion(BIP0037Version)>> \o VarBytesMax("Filter", MaxFilterLoadFilterSize)
    \o <<Fixed("HashFuncs", 4), Fixed("Tweak", 4), Fixed("Flags", 1),
         Limit("HashFuncs", MaxFilterLoadHashFuncs)>>
MsgFilterLoadMaxPayload == VarIntSerializeSize(MaxFilterLoadFilterSize) + MaxFilterLoadFilterSize + 9

MsgMerkleBlockEncode ==
    <<MinVersion(BIP0037Version), Limit("Hashes", maxTxPerBlock),
      Limit("Flags", maxFlagsPerMerkleBlock), Fixed("Header", writeBlockHeader),
      Fixed("Transactions", 4), Count("Hashes"), Items("Hashes", HashSize)>> \o VarBytes("Flags")
MsgMerkleBlockDecode ==
    <<MinVersion(BIP0037Version), Fixed("Header", readBlockHeader), Fixed("Transactions", 4),
      Count("Hashes"), Limit("Hashes", maxTxPerBlock), Items("Hashes", HashSize)>>
    \o VarBytesMax("Flags", maxFlagsPerMerkleBlock)

-----------------------------------------------------------------------------
(* Committed filters (BIP 157).                                            *)

MsgGetCFiltersEncode == <<Fixed("FilterType", 1), Fixed("StartHeight", 4), Fixed("StopHash", HashSize)>>
MsgGetCFiltersDecode == <<Fixed("FilterType", 1), Fixed("StartHeight", 4), Fixed("StopHash", HashSize)>>
MsgGetCFHeadersEncode == <<Fixed("FilterType", 1), Fixed("StartHeight", 4), Fixed("StopHash", HashSize)>>
MsgGetCFHeadersDecode == <<Fixed("FilterType", 1), Fixed("StartHeight", 4), Fixed("StopHash", HashSize)>>
MsgGetCFCheckptEncode == <<Fixed("FilterType", 1), Fixed("StopHash", HashSize)>>
MsgGetCFCheckptDecode == <<Fixed("FilterType", 1), Fixed("StopHash", HashSize)>>

MsgCFilterEncode ==
    <<Limit("Data", MaxCFilterDataSize), Fixed("FilterType", 1), Fixed("BlockHash", HashSize)>>
    \o VarBytes("Data")
MsgCFilterDecode ==
    <<Fixed("FilterType", 1), Fixed("BlockHash", HashSize)>> \o VarBytesMax("Data", MaxCFilterDataSize)
MsgCFilterMaxPayload == VarIntSerializeSize(MaxCFilterDataSize) + MaxCFilterDataSize + HashSize + 1

MsgCFHeadersEncode ==
    <<Limit("FilterHashes", MaxCFHeadersPerMsg), Fixed("FilterType", 1), Fixed("StopHash", HashSize),
      Fixed("PrevFilterHeader", HashSize), Count("FilterHashes"), Items("FilterHashes", HashSize)>>
MsgCFHeadersDecode ==
    <<Fixed("FilterType", 1), Fixed("StopHash", HashSize), Fixed("PrevFilterHeader", HashSize),
      Count("FilterHashes"), Limit("FilterHashes", MaxCFHeadersPerMsg), Items("FilterHashes", HashSize)>>
MsgCFHeadersMaxPayload == 1 + HashSize + HashSize + MaxVarIntPayload + (HashSize * MaxCFHeadersPerMsg)

\* The encoder sets no limit; the size of the payload does.
MsgCFCheckptEncode ==
    <<Fixed("FilterType", 1), Fixed("StopHash", HashSize),
      Count("FilterHeaders"), Items("FilterHeaders", HashSize)>>
MsgCFCheckptDecode ==
    <<Fixed("FilterType", 1), Fixed("StopHash", HashSize), Count("FilterHeaders"),
      Limit("FilterHeaders", maxCFHeadersLen), Items("FilterHeaders", HashSize)>>
maxCFCheckptPayload == 1 + 32 + 5 + (maxCFHeadersLen * 32)
=============================================================================
