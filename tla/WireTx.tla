------------------------------- MODULE WireTx -------------------------------
(***************************************************************************)
(* Transactions, blocks and version 2 addresses: the messages whose items  *)
(* vary (wire/msgtx.go, msgblock.go, netaddressv2.go, msgaddrv2.go).       *)
(*                                                                         *)
(* A transaction is [TxIn, TxOut]; an input is [Script, Witness] and an    *)
(* output [Script], a script being its length and a witness the sequence   *)
(* of the lengths of its items, Nil where the field is nil.  A reader is   *)
(* [err, garbled, in, sbuf, val]: sbuf is what is left of the slab that    *)
(* BtcDecode borrows for all scripts of a transaction.                     *)
(***************************************************************************)
EXTENDS WireMessages

BaseEncoding == "base"
WitnessEncoding == "witness"
scriptSlabSize == 2 ^ 22
maxWitnessItemsPerInput == 4000000
maxWitnessItemSize == 4000000
minTxInPayload == 9 + HashSize
maxTxInPerMessage == (MaxMessagePayload \div minTxInPayload) + 1
MinTxOutPayload == 9
maxTxOutPerMessage == (MaxMessagePayload \div MinTxOutPayload) + 1

\* A nil witness and an empty one are serialized alike.
Nil == <<Junk>>
Items0(wit) == IF wit = Nil THEN << >> ELSE wit
HasWitness(tx) == \E i \in DOMAIN tx.TxIn : Items0(tx.TxIn[i].Witness) # << >>
Concat(f(_), s) == Fold(LAMBDA acc, x : acc \o f(x), << >>, s)
Total(f(_), s) == Fold(LAMBDA acc, x : acc + f(x), 0, s)

-----------------------------------------------------------------------------
(* Writing.                                                                *)

WriteVarBytes(n) == VarInt(n) \o Chunk(n, "items", n)
writeOutPoint == Chunk(HashSize + 4, "fixed", 0)
writeTxIn(ti) == writeOutPoint \o WriteVarBytes(ti.Script) \o Chunk(4, "fixed", 0)
WriteTxOut(to) == Chunk(8, "fixed", 0) \o WriteVarBytes(to.Script)
writeTxWitness(ti) == VarInt(Len(Items0(ti.Witness))) \o Concat(WriteVarBytes, Items0(ti.Witness))

btcEncode(tx, enc) ==
    LET doWitness == enc = WitnessEncoding /\ HasWitness(tx)
    IN  Chunk(4, "fixed", 0)
        \o (IF doWitness THEN Chunk(1, "fixed", 0) \o Chunk(1, "fixed", 1) ELSE << >>)
        \o VarInt(Len(tx.TxIn)) \o Concat(writeTxIn, tx.TxIn)
        \o VarInt(Len(tx.TxOut)) \o Concat(WriteTxOut, tx.TxOut)
        \o (IF doWitness THEN Concat(writeTxWitness, tx.TxIn) ELSE << >>)
        \o Chunk(4, "fixed", 0)

TxInSerializeSize(ti) == 40 + VarIntSerializeSize(ti.Script) + ti.Script
TxOutSerializeSize(to) == 8 + VarIntSerializeSize(to.Script) + to.Script
TxWitnessSerializeSize(ti) ==
    VarIntSerializeSize(Len(Items0(ti.Witness)))
    + Total(LAMBDA n : VarIntSerializeSize(n) + n, Items0(ti.Witness))
baseSize(tx) ==
    8 + VarIntSerializeSize(Len(tx.TxIn)) + VarIntSerializeSize(Len(tx.TxOut))
    + Total(TxInSerializeSize, tx.TxIn) + Total(TxOutSerializeSize, tx.TxOut)
SerializeSize(tx) ==
    baseSize(tx) + (IF HasWitness(tx) THEN 2 + Total(TxWitnessSerializeSize, tx.TxIn) ELSE 0)
SerializeSizeStripped(tx) == baseSize(tx)

\* The offset of each output script; the marker is counted by the first input's witness.
PkScriptLocs(tx) ==
    LET first == 4 + VarIntSerializeSize(Len(tx.TxIn)) + VarIntSerializeSize(Len(tx.TxOut))
                 + (IF tx.TxIn # << >> /\ tx.TxIn[1].Witness # Nil THEN 2 ELSE 0)
                 + Total(TxInSerializeSize, tx.TxIn)
        Before(i) == Total(TxOutSerializeSize, SubSeq(tx.TxOut, 1, i - 1))
    IN  [i \in DOMAIN tx.TxOut |->
            first + Before(i) + 8 + VarIntSerializeSize(tx.TxOut[i].Script)]

-----------------------------------------------------------------------------
(* Reading.                                                                *)

Reader(s) == [err |-> FALSE, garbled |-> FALSE, in |-> s, sbuf |-> scriptSlabSize, val |-> 0]
Stuck(r) == r.err \/ r.garbled
\* io.ReadFull of an element.
Take(r, n, kind) ==
    LET read == ReadFull(r.in, n, kind)
    IN  IF Stuck(r) THEN r ELSE [r EXCEPT !.err = read.err, !.in = read.rest, !.val = read.val]
TakeVarInt(r) ==
    LET read == ReadVarInt(r.in)
    IN  IF Stuck(r) THEN r
        ELSE [r EXCEPT !.err = read.err, !.garbled = read.val = Junk, !.in = read.rest, !.val = read.val]
\* A list of val items, each of a byte at least, that is longer than max or than what is left.
TooMany(r, max) == r.val > max \/ r.val > Size(r.in)
Refuse(r, cond) == IF Stuck(r) THEN r ELSE [r EXCEPT !.err = cond]

\* The script goes into the slab, which the caller then advances.
Fits(r) == Refuse(r, r.val > maxWitnessItemSize \/ r.val > r.sbuf)
Advance(r) == IF Stuck(r) THEN r ELSE [Take(r, r.val, "items") EXCEPT !.sbuf = @ - r.val]
readScript(r) == Advance(Fits(TakeVarInt(r)))

\* As many items as the count that was read, unless it is refused.
Times(n) == IF n = Junk THEN << >> ELSE [i \in 1 .. n |-> i]
ReadEach(r, item(_)) == IF Stuck(r) THEN r ELSE Fold(LAMBDA q, i : item(q), r, Times(r.val))
ReadList(r, max, item(_)) == ReadEach(Refuse(r, TooMany(r, max)), item)

Keep(r, list, x) == IF Stuck(r) THEN r ELSE [r EXCEPT ![list] = Append(@, x)]
readOutPoint(r) == Take(r, HashSize + 4, "fixed")
readTxIn(r) ==
    LET script == readScript(readOutPoint(r))
    IN  Keep(Take(script, 4, "fixed"), "TxIn", [Script |-> script.val, Witness |-> Nil])
readTxOut(r) ==
    LET script == readScript(Take(r, 8, "fixed"))
    IN  Keep(script, "TxOut", [Script |-> script.val])
readWitnessItem(r) ==
    LET item == readScript(r) IN Keep(item, "items", item.val)
KeepWitness(r, i) == IF Stuck(r) THEN r ELSE [r EXCEPT !.TxIn[i].Witness = r.items]
readWitness(r, i) ==
    KeepWitness(ReadList(TakeVarInt([r EXCEPT !.items = << >>]), maxWitnessItemsPerInput, readWitnessItem), i)

\* A count of 0 is the marker of a transaction with witnesses; its flag and another count follow.
CheckFlag(r) == Refuse(r, r.val # 1)
readMarker(r, enc) ==
    IF ~Stuck(r) /\ r.val = 0 /\ enc = WitnessEncoding
    THEN [TakeVarInt(CheckFlag(Take(r, 1, "fixed"))) EXCEPT !.marked = TRUE] ELSE r
readWitnesses(r) ==
    IF ~r.marked THEN r
    ELSE Fold(LAMBDA q, i : IF Stuck(q) THEN q ELSE readWitness(q, i), r, Times(Len(r.TxIn)))
RefuseBare(r) == Refuse(r, r.marked /\ ~HasWitness([TxIn |-> r.TxIn]))
TxReader(s) == Reader(s) @@ [TxIn |-> << >>, TxOut |-> << >>, items |-> << >>, marked |-> FALSE]
btcDecode(s, enc) ==
    LET ins  == ReadList(readMarker(TakeVarInt(Take(TxReader(s), 4, "fixed")), enc), maxTxInPerMessage, readTxIn)
        outs == ReadList(TakeVarInt(ins), maxTxOutPerMessage, readTxOut)
    IN  Take(RefuseBare(readWitnesses(outs)), 4, "fixed")
Tx(r) == [TxIn |-> r.TxIn, TxOut |-> r.TxOut]

-----------------------------------------------------------------------------
(* Blocks.                                                                 *)

MsgBlockEncode(block, enc) ==
    Chunk(writeBlockHeader, "fixed", 0) \o VarInt(Len(block))
    \o Concat(LAMBDA tx : btcEncode(tx, enc), block)
MsgBlockSerializeSize(block) ==
    readBlockHeader + VarIntSerializeSize(Len(block)) + Total(SerializeSize, block)

\* The transactions, and where each one lies in a stream of total bytes.
AfterTx(b, r, total) ==
    [b EXCEPT !.err = r.err, !.garbled = r.garbled, !.in = r.in, !.txs = Append(@, Tx(r)),
              !.locs = Append(@, [TxStart |-> total - Size(b.in), TxLen |-> Size(b.in) - Size(r.in)])]
MsgBlockDecode(s, enc) ==
    ReadList(TakeVarInt(Take(Reader(s) @@ [txs |-> << >>, locs |-> << >>], readBlockHeader, "fixed")),
             maxTxPerBlock,
             LAMBDA b : IF Stuck(b) THEN b ELSE AfterTx(b, btcDecode(b.in, enc), Size(s)))
DeserializeTxLoc(s) == MsgBlockDecode(s, WitnessEncoding).locs

-----------------------------------------------------------------------------
(* Version 2 network addresses (wire/netaddressv2.go, msgaddrv2.go).       *)
(*                                                                         *)
(* An address is [net, form, services]: its network, whether its bytes     *)
(* carry the OnionCat or the IPv4-mapped prefix, and its service bits.     *)

ipv4 == 1
ipv6 == 2
torv2 == 3
torv3 == 4
i2p == 5
cjdns == 6
AddrSize(net) == CASE net = ipv4 -> 4 [] net = ipv6 -> 16 [] net = torv2 -> 10 [] net = torv3 -> 32
                   [] net = i2p -> 32 [] net = cjdns -> 16 [] OTHER -> 20
maxAddrV2Size == 512
isKnownNetworkID(net) == ipv4 <= net /\ net <= cjdns
Plain == 0
OnionCat == 1
Mapped == 2

\* The address that len bytes with the given prefix stand for.
NetAddressV2FromBytes(len, form, services) ==
    [net |-> CASE len = 4 -> ipv4
               [] len = 16 /\ form = OnionCat -> torv2
               [] len = 16 /\ form = Mapped -> ipv4
               [] len = 16 -> ipv6
               [] len = 10 -> torv2
               [] OTHER -> torv3,
     form |-> Plain, services |-> services]
\* The IP of the legacy address, as the 16 bytes writeNetAddress makes of it.
HasLegacy(a) == a.net \in {ipv4, ipv6, torv2}
ToLegacy(a) == [len |-> 16,
                form |-> CASE a.net = ipv4 -> Mapped [] a.net = torv2 -> OnionCat [] OTHER -> a.form]

\* Only these four are types of this package; others are written by other software.
Writable(a) == a.net \in {ipv4, ipv6, torv2, torv3}
writeNetAddressV2(a) ==
    Chunk(4, "fixed", 0) \o VarInt(a.services) \o Chunk(1, "fixed", a.net)
    \o VarInt(AddrSize(a.net)) \o Chunk(AddrSize(a.net), "items", a.form) \o Chunk(2, "fixed", 0)
MsgAddrV2Encode(addrs) ==
    [err |-> Len(addrs) > MaxV2AddrPerMsg \/ \E i \in DOMAIN addrs : ~Writable(addrs[i]),
     out |-> VarInt(Len(addrs)) \o Concat(writeNetAddressV2, addrs)]

\* An address of a network that is not used is read to its end and skipped.
Note(r, f) == [r EXCEPT ![f] = r.val]
KeepAddr(r, form) ==
    IF r.net \in {i2p, cjdns} \/ (r.net = ipv6 /\ form \in {OnionCat, Mapped}) THEN r
    ELSE Keep(r, "addrs", [net |-> r.net, form |-> form, services |-> r.services])
readAddr(r) ==
    CASE Stuck(r) -> r
      [] ~isKnownNetworkID(r.net) /\ r.val <= maxAddrV2Size -> Take(r, r.val + 2, "items")
      [] isKnownNetworkID(r.net) /\ r.val = AddrSize(r.net) ->
             LET addr == Take(r, r.val, "items") IN KeepAddr(Take(addr, 2, "fixed"), addr.val)
      [] OTHER -> [r EXCEPT !.err = TRUE]
readNetAddressV2(r) ==
    LET services == Note(TakeVarInt(Take(r, 4, "fixed")), "services")
    IN  readAddr(TakeVarInt(Note(Take(services, 1, "fixed"), "net")))
MsgAddrV2Decode(s) ==
    ReadList(TakeVarInt(Reader(s) @@ [addrs |-> << >>, services |-> 0, net |-> 0]), MaxV2AddrPerMsg,
             LAMBDA r : IF Stuck(r) THEN r ELSE readNetAddressV2(r))
maxNetAddressV2Payload == 4 + 9 + 1 + 515 + 2
MsgAddrV2MaxPayload == 3 + (MaxV2AddrPerMsg * maxNetAddressV2Payload)
=============================================================================
