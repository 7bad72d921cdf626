----------------------------- MODULE MCServices -----------------------------
(***************************************************************************)
(* Parts that share no state, side by side: the exchange of messages over  *)
(* a connection (WireStream) and the services around it.  One behaviour    *)
(* runs one part (`part`).  The variables of the parts other than the      *)
(* exchange are r1, r2, ..., as each instance says, and the ones it does   *)
(* not need stay 0.                                                        *)
(*                                                                         *)
(* Over the connection two ends exchange every kind of message, with lists *)
(* at the limits of the code and at the sizes where a varint grows; they   *)
(* run every pair of protocol versions that differ in some message.  A     *)
(* second message shows where the first one left the stream.               *)
(***************************************************************************)
EXTENDS WireStream

CONSTANTS p1, p2, k1, k2, k3, c1, c2, parent, child, NoElement, NoItem, NoTx

VARIABLES
  probe,   \* a varint and an encoding of it, in behaviours of its own
  part, r1, r2, r3, r4, r5, r6, r7, r8, r9, r10, r11, r12, r13, r14, r15, r16, r17, r18, r19

Zero13 == r13 = 0 /\ r14 = 0 /\ r15 = 0 /\ r16 = 0 /\ r17 = 0 /\ r18 = 0 /\ r19 = 0
Zero11 == r11 = 0 /\ r12 = 0 /\ Zero13
Zero10 == r10 = 0 /\ Zero11
Zero9 == r9 = 0 /\ Zero10
Zero8 == r8 = 0 /\ Zero9
Zero7 == r7 = 0 /\ Zero8
Zero6 == r6 = 0 /\ Zero7
Zero5 == r5 = 0 /\ Zero6
Zero4 == r4 = 0 /\ Zero5
Zero3 == r3 = 0 /\ Zero4
Zero1 == r1 = 0 /\ r2 = 0 /\ Zero3

From13 == <<r13, r14, r15, r16, r17, r18, r19>>
From11 == <<r11, r12, From13>>
From10 == <<r10, From11>>
From9 == <<r9, From10>>
From8 == <<r8, From9>>
From7 == <<r7, From8>>
From6 == <<r6, From7>>
From5 == <<r5, From6>>
From4 == <<r4, From5>>
From3 == <<r3, From4>>
registers == <<r1, r2, From3>>

-----------------------------------------------------------------------------
(* Messages.                                                               *)

\* Records of the fields given, each in its set.
Edge(limit) == {0, 1, 252, 253, limit, limit + 1}
Bare(cmds) == {[cmd |-> c] : c \in cmds}
Flat ==
    Bare({"verack", "getaddr", "mempool", "filterclear", "sendheaders", "sendaddrv2", "wtxidrelay"})
    \cup [cmd : {"ping", "pong"}, Nonce : {7}]
    \cup [cmd : {"feefilter"}, MinFee : {7}]
    \cup [cmd : {"version"}, ProtocolVersion : {2}, Services : {3}, Timestamp : {4}, AddrYou : {5},
          AddrMe : {6}, Nonce : {7}, UserAgent : {0, 252, 253, 256, 257}, LastBlock : {8},
          DisableRelayTx : {0, 1}]
    \cup [cmd : {"reject"}, Cmd : {2, 3, 5}, Code : {1}, Reason : {0, 253, 3999950, 4000000}, Hash : {9}]
    \cup [cmd : {"inv", "getdata", "notfound"}, InvList : Edge(MaxInvPerMsg)]
    \cup [cmd : {"getblocks", "getheaders"}, ProtocolVersion : {2}, HashStop : {3},
          BlockLocatorHashes : Edge(MaxBlockLocatorsPerMsg)]
    \cup [cmd : {"headers"}, Headers : Edge(MaxBlockHeadersPerMsg)]
    \cup [cmd : {"addr"}, AddrList : Edge(MaxAddrPerMsg) \cup {2}]
    \cup [cmd : {"filteradd"}, Data : Edge(MaxFilterAddDataSize)]
    \cup [cmd : {"filterload"}, Filter : {0, 253, MaxFilterLoadFilterSize, MaxFilterLoadFilterSize + 1},
          HashFuncs : {0, MaxFilterLoadHashFuncs, MaxFilterLoadHashFuncs + 1}, Tweak : {4}, Flags : {5}]
    \cup [cmd : {"merkleblock"}, Header : {2}, Transactions : {3},
          Hashes : {0, 253, 70000, 123000, maxTxPerBlock},
          Flags : {0, 253, maxFlagsPerMerkleBlock, maxFlagsPerMerkleBlock + 1}]
    \cup [cmd : {"getcfilters", "getcfheaders"}, FilterType : {1}, StartHeight : {2}, StopHash : {3}]
    \cup [cmd : {"getcfcheckpt"}, FilterType : {1}, StopHash : {3}]
    \cup [cmd : {"cfilter"}, FilterType : {1}, BlockHash : {2}, Data : Edge(MaxCFilterDataSize)]
    \cup [cmd : {"cfheaders"}, FilterType : {1}, StopHash : {2}, PrevFilterHeader : {3},
          FilterHashes : Edge(MaxCFHeadersPerMsg)]
    \cup [cmd : {"cfcheckpt"}, FilterType : {1}, StopHash : {2}, FilterHeaders : Edge(maxCFHeadersLen)]

In(script, wit) == [Script |-> script, Witness |-> wit]
Inputs == {<< >>} \cup {<<In(0, w)>> : w \in {Nil, << >>, <<0, 253>>}}
          \cup {<<In(253, v), In(1, w)>> : v, w \in {Nil, << >>, <<70000>>}}
Outputs == {<< >>, <<[Script |-> 0]>>, <<[Script |-> 253], [Script |-> 1]>>}
SomeTxs == [TxIn : Inputs, TxOut : Outputs]
           \cup {[TxIn |-> <<In(3999930, Nil)>>, TxOut |-> << >>],
                 [TxIn |-> <<In(3999960, Nil)>>, TxOut |-> << >>]}
Spending == {tx \in SomeTxs : tx.TxIn # << >> /\ Len(tx.TxOut) = 1}
SomeBlocks == {<< >>} \cup {<<tx>> : tx \in SomeTxs} \cup (Spending \X Spending)
Address(net, form) == [net |-> net, form |-> form, services |-> net]
Addresses == {Address(net, Plain) : net \in 1 .. 7} \cup {Address(ipv6, OnionCat), Address(ipv6, Mapped)}
SomeMessages ==
    Flat \cup [cmd : {"tx"}, tx : SomeTxs] \cup [cmd : {"block"}, txs : SomeBlocks]
    \cup [cmd : {"addrv2"}, addrs : {<< >>} \cup (Addresses \X Addresses)]
SomeFollow == [cmd : {"ping"}, Nonce : {7}]

-----------------------------------------------------------------------------
(* Ends.                                                                   *)

Boundaries == {208, MultipleAddressVersion, NetAddressTimeVersion, BIP0031Version, BIP0031Version + 1,
               BIP0035Version, BIP0037Version, RejectVersion, SendHeadersVersion, FeeFilterVersion,
               AddrV2Version}
Ends(versions, encodings, v2, cmds) ==
    [wpver : versions, rpver : versions, wenc : encodings, renc : encodings, v2 : v2, cmds : {cmds}]
\* The layout of these does not depend on the version, that of the others not on the encoding.
Nested == {"tx", "block", "addrv2"}
Others == {m.cmd : m \in Flat}
SomeConns == Ends(Boundaries, {WitnessEncoding}, {FALSE}, Others)
             \cup {c \in Ends(Boundaries, {WitnessEncoding}, {TRUE}, Others) : c.wpver = c.rpver}
             \cup Ends({AddrV2Version}, {BaseEncoding, WitnessEncoding}, BOOLEAN, Nested)

Limbs == {0, 1, 252, 253, 65535}
Probes == [v : [1 .. 4 -> Limbs], disc : {0, 252, 253, 254, 255}]
None == [v |-> <<0, 0, 0, 0>>, disc |-> -1]

MCInit == \/ Init /\ probe = None
          \/ /\ conn = CHOOSE c \in SomeConns : TRUE
             /\ stream = << >> /\ packets = << >> /\ sent = << >> /\ got = << >>
             /\ probe \in Probes
MCNext == probe = None /\ Next /\ UNCHANGED probe
-----------------------------------------------------------------------------
(* The services of neutrino.                                               *)

\* A goroutine that writes and another that reads.
Lru == INSTANCE LruCache WITH
  Procs <- {p1, p2}, Writers <- {p1}, Keys <- {k1, k2, k3}, Sizes <- {1, 2},
  Capacity <- 2, MaxElems <- 6, None <- NoElement,
  ll <- r1, cmap <- r2, size <- r3, lmtx <- r4, lpc <- r5, arg <- r6, el <- r7

Ntfn == INSTANCE SubscriptionManager WITH
  Clients <- {c1, c2}, MaxHeight <- 1, ChanCap <- 1,
  tip <- r1, feed <- r2, srcClosed <- r3, mpc <- r4, cur <- r5, subscribers <- r6, mquit <- r7,
  mstop <- r8, cpc <- r9, best <- r10, reply <- r11, queue <- r12, qup <- r13, dpc <- r14,
  ditem <- r15, nchan <- r16, nclosed <- r17, squit <- r18, got <- r19

\* A client that registers while blocks come and go.
Gap == INSTANCE SubscriptionManager WITH
  Clients <- {c1}, MaxHeight <- 3, ChanCap <- 1,
  tip <- r1, feed <- r2, srcClosed <- r3, mpc <- r4, cur <- r5, subscribers <- r6, mquit <- r7,
  mstop <- r8, cpc <- r9, best <- r10, reply <- r11, queue <- r12, qup <- r13, dpc <- r14,
  ditem <- r15, nchan <- r16, nclosed <- r17, squit <- r18, got <- r19

Batch == INSTANCE BatchWriter WITH
  Callers <- {p1, p2}, MaxItems <- 5, OutCap <- 1, MaxBatch <- 2,
  adding <- r1, count <- r2, out <- r3, overflow <- r4, qpc <- r5, batch <- r6, ticking <- r7,
  wpc <- r8, wstop <- r9, saved <- r10

Push == INSTANCE Broadcaster WITH
  Txs <- {parent, child}, Callers <- {p1, p2},
  Parents <- [t \in {parent, child} |-> IF t = child THEN {parent} ELSE {}],
  transactions <- r1, bpc <- r2, sem <- r3, rpc <- r4, rlist <- r5, kpc <- r6, ktx <- r7,
  kreply <- r8, marks <- r9, bstop <- r10, mined <- r11, accepted <- r12

\* Rings that wrap around several times, and chains that begin anywhere.
List == INSTANCE HeaderList WITH
  Sizes <- {1, 2, 3, 5, 8}, Starts <- {0, 1, 3, 6}, MaxHeight <- 20, MaxResets <- 2,
  maxSize <- r1, headPtr <- r2, tailPtr <- r3, len <- r4, chain <- r5, list <- r6

-----------------------------------------------------------------------------
(* The addresses, the deadlines and the encrypted transport of peers.      *)

\* Buckets of one address, so that three addresses push each other out.
NewBucket(key, addr, source) == ((key + addr + source) % 2) + 1
TriedBucket(key, addr) == 1
Addrs == INSTANCE AddrManager WITH
  Addrs <- {1, 2, 3}, Sources <- {1, 2}, Keys <- {0}, NewBuckets <- {1, 2}, TriedBuckets <- {1},
  getNewBucket <- NewBucket, getTriedBucket <- TriedBucket,
  newBucketSize <- 1, triedBucketSize <- 1, newBucketsPerAddress <- 2, Damage <- FALSE,
  up <- r1, key <- r2, addrIndex <- r3, addrNew <- r4, addrTried <- r5, nNew <- r6, nTried <- r7, file <- r8

Local == INSTANCE LocalAddresses WITH
  Keys <- 1..3, Kind <- <<"ipv4", "onioncat", "ipv6">>, Priorities <- {0, 1, 2},
  localAddresses <- r1, remote <- r2, left <- r3, best <- r4

\* Two requests, one of them with several possible answers.
Deadlines == INSTANCE Stall WITH
  Requests <- {"getdata", "getblocks"}, stallTickInterval <- 2, stallResponseTimeout <- 4, MaxTime <- 9,
  now <- r1, ticked <- r2, pendingResponses <- r3, input <- r4, startTime <- r5, deadlineOffset <- r6,
  sent <- r7, lastCall <- r8, stalled <- r9

\* Ends that agree, that differ in their network, and that send garbage of every
\* length and a decoy; packets before and after the keys change.
End(net, garbageLen, decoys) == [net |-> net, garbageLen |-> garbageLen, decoys |-> decoys]
Call(initiator, responder) == [initiator |-> initiator, responder |-> responder]
Transport == INSTANCE V2Transport WITH
  MaxGarbageLen <- 2, rekeyInterval <- 2, Contents <- {"a", "b", "long"}, TooLong <- "long",
  MaxPackets <- 2, Faulty <- TRUE,
  Calls <- {Call(End("main", 0, 0), End("main", 1, 0)), Call(End("main", 2, 0), End("main", 0, 0)),
            Call(End("main", 1, 0), End("test", 1, 0)), Call(End("main", 1, 1), End("main", 0, 0)),
            Call(End("main", 3, 0), End("main", 0, 0)), Call(End("main", 1, 0), End("main", 1, 0))},
  p <- r1, wire <- r2, cut <- r3, damaged <- r4

-----------------------------------------------------------------------------
(* Signatures, in a group of 13 elements with a hash of 14 values.         *)

Tags == <<"BIP0340/challenge", "BIP0340/aux", "BIP0340/nonce", "rfc6979", "KeyAgg list",
          "KeyAgg coefficient", "TapTweak", "MuSig/nonce", "MuSig/aux", "MuSig/noncecoef",
          "hmac/left", "hmac/right", "hash160">>
Mix[h \in 0..996, s \in Seq(Int)] == IF s = <<>> THEN h ELSE Mix[((h * 31) + Head(s) * 17 + 101) % 997, Tail(s)]
TaggedHash(tag, s) == ((Mix[CHOOSE i \in DOMAIN Tags : Tags[i] = tag, s] * 7) % 997) % 14

Signers(keys, known, sort, options, early, coordinated, sessions) ==
  [keys |-> keys, known |-> known, shouldSort |-> sort, options |-> options, early |-> early,
   coordinated |-> coordinated, sessions |-> sessions]
Untweaked == [kind |-> "none"]
Bip86 == [kind |-> "bip86"]
Taproot(root) == [kind |-> "taproot", root |-> root]
Tweak(t, x) == [tweak |-> t, xOnly |-> x]
Tweaks == [kind |-> "tweaks", tweaks |-> <<Tweak(4, FALSE), Tweak(6, TRUE), Tweak(9, TRUE)>>]

\* Every parity of the keys under every kind of tweak, then the orders in which
\* keys and nonces become known, repeated keys, three signers, and a tweak that
\* is too large.
Pairs == {Signers(<<a, b>>, TRUE, TRUE, o, FALSE, FALSE, 1) :
            a \in {2, 5, 9, 12}, b \in {2, 4, 9, 11}, o \in {Untweaked, Bip86, Taproot(3), Tweaks}}
OtherSetups == {Signers(<<9, 2>>, TRUE, TRUE, Untweaked, FALSE, FALSE, 2),
            Signers(<<9, 2>>, FALSE, TRUE, Taproot(3), TRUE, FALSE, 2),
            Signers(<<4, 7>>, TRUE, FALSE, Bip86, FALSE, FALSE, 1),
            Signers(<<5, 5>>, TRUE, TRUE, Bip86, FALSE, TRUE, 2),
            Signers(<<10, 3, 8>>, TRUE, TRUE, Tweaks, FALSE, FALSE, 1),
            Signers(<<3, 11, 3>>, FALSE, TRUE, Taproot(5), FALSE, TRUE, 1),
            Signers(<<8, 3>>, FALSE, TRUE, [kind |-> "tweaks", tweaks |-> <<Tweak(13, FALSE)>>], TRUE, FALSE, 1)}

Joint == INSTANCE MuSigSession WITH
  N <- 13, HashSize <- 14, Setups <- Pairs \cup OtherSetups,
  MayGarble <- TRUE, CombineEarly <- FALSE,
  setup <- r1, ctx <- r2, sess <- r3, uses <- r4

Single == INSTANCE SchnorrSigner WITH
  N <- 13, HashSize <- 14, Hashes <- 0..13, AuxDatas <- {-1, 0, 5, 9},
  privKey <- r1, last <- r2

\* Keys of one and of two digits, two generations below their masters.
Wallet == INSTANCE ExtendedKeys WITH
  N <- 13, HashSize <- 14, Seeds <- {1, 2}, Indices <- 0..3, HardenedKeyStart <- 2, Base <- 4, maxDepth <- 2,
  Nets <- {"main"}, MaxKeys <- 3, ZeroShared <- FALSE,
  mem <- r1, keys <- r2, from <- r3

-----------------------------------------------------------------------------
(* Filters and coins of a wallet.                                          *)

\* Transactions that pay and spend what is watched, in blocks whose trees have
\* full and half levels; filters so small that other data match too.
Out(pushes, class) == [pushes |-> pushes, class |-> class]
Spend(h, i, pushes) == [prev |-> <<h, i>>, pushes |-> pushes]
Watch(h, outs, ins) == [hash |-> <<h>>, TxOut |-> outs, TxIn |-> ins]
T1 == Watch("t1", <<Out(<<<<"A">>>>, "PubKeyTy")>>, <<Spend("c", 1, << >>)>>)
T2 == Watch("t2", <<Out(<<<<"B">>>>, "PubKeyHashTy"), Out(<<<<"C">>, <<"A">>>>, "ScriptHashTy")>>,
         <<Spend("t1", 1, <<<<"S">>>>)>>)
T3 == Watch("t3", <<Out(<< >>, "NonStandardTy")>>, <<Spend("t2", 2, << >>)>>)
T4 == Watch("t4", <<Out(<<<<"B">>>>, "MultiSigTy")>>, <<Spend("c", 2, << >>), Spend("t1", 1, <<<<"S">>>>)>>)
T5 == Watch("t5", << >>, <<Spend("t4", 1, <<<<"D">>>>)>>)
T6 == Watch("t6", << >>, << >>)
T7 == Watch("t7", << >>, << >>)
Hashed == <<<<"A">>, <<"B">>, <<"C">>, <<"D">>, <<"S">>, <<"t1">>, <<"t2">>, <<"t3">>, <<"t4">>, <<"t5">>,
            <<"t6">>, <<"t7">>, <<"c", 1>>, <<"c", 2>>, <<"t1", 1>>, <<"t2", 1>>, <<"t2", 2>>, <<"t4", 1>>>>
Murmur(i, data) == (CHOOSE k \in DOMAIN Hashed : Hashed[k] = data) * 7 + i * 5
Bits(size, n, flags) == [bits |-> {}, size |-> size, HashFuncs |-> n, Flags |-> flags]
Bloom == INSTANCE MerkleBlocks WITH
  Loads <- {Bits(0, 2, "BloomUpdateAll"), Bits(24, 2, "BloomUpdateAll"),
            Bits(24, 1, "BloomUpdateP2PubkeyOnly"), Bits(24, 2, "BloomUpdateNone")},
  Data <- {<<"A">>, <<"S">>, <<"t6">>, <<"t7">>, <<"c", 2>>},
  Blocks <- {<<T1>>, <<T1, T2, T3>>, <<T4, T6, T5, T3>>, <<T1, T4, T5, T6, T7>>, <<T6, T2, T3, T1, T4, T7, T5>>},
  NoFilter <- NoItem,
  msgFilterLoad <- r1, watched <- r2, block <- r3, next <- r4, matchedBits <- r5, due <- r6, merkle <- r7

\* Words of 8 bits, so that products carry from half to half.
Letters == <<"", "A", "B", "C", "D", "R", "Q">>
Sip(key, d) == ((CHOOSE i \in DOMAIN Letters : Letters[i] = d) * 83 + key * 57 + 19) % 256
Block(hash, outs, prevs) == [hash |-> hash, TxOut |-> outs, prevOutScripts |-> prevs]
Compact == INSTANCE Gcs WITH
  HalfWord <- 4, DefaultP <- 2, DefaultM <- 6, SipHash <- Sip,
  Blocks <- {Block(<<1, 1>>, <<"A">>, << >>), Block(<<2, 2>>, <<"R">>, << >>),
             Block(<<2, 1>>, <<"A", "", "R", "B", "A">>, <<"C", "", "D">>)},
  GenesisBlock <- Block(<<1, 1>>, <<"A">>, << >>), OpReturn <- {"R"},
  Ps <- {0, 1, 5}, Ms <- {0, 3, 16}, Entries <- {"A", "B", "C", "D", "Q"},
  Queries <- {<< >>, <<"A">>, <<"Q">>, <<"Q", "D">>, <<"D", "Q", "B">>, <<"Q", "R">>}, NoFilter <- NoItem,
  builder <- r1, filter <- r2, made <- r3, store <- r4

Coins == INSTANCE CoinSelect WITH
  Values <- {1, 3}, Confs <- {0, 1, 3}, MaxCoins <- 3, Targets <- {1, 3, 4, 7},
  Selectors <- [kind : {"MinIndex", "MinNumber", "MaxValueAge"}, MaxInputs : 1..3, MinChangeAmount : {0, 2},
                MinAvgValueAgePerInput : {0}]
               \cup [kind : {"MinPriority"}, MaxInputs : 1..3, MinChangeAmount : {0, 2},
                     MinAvgValueAgePerInput : {1, 3, 5}],
  coins <- r1, last <- r2

-----------------------------------------------------------------------------
(* Proof of work.                                                          *)

\* Blocks that come before their parent, around the target time, and too late.
Retarget == INSTANCE Difficulty WITH
  Params <- [target : {0, 7, 60}, min : {0, 1, 5}],
  Intervals <- {-3, 0, 1, 3, 6, 7, 8, 14, 20, 21, 40, 57, 58, 60, 63, 64, 90, 300},
  MaxUint32 <- 100, MaxTarget <- 1023,
  params <- r1, parent <- r2, before <- r3

Seeds == INSTANCE SeedCache WITH
  Seeds <- {"a", "b", "c"}, Entries <- 1..4, capacity <- 2,
  ent <- r1, items <- r2, head <- r3, tail <- r4, size <- r5, got <- r6

Miners == INSTANCE Engine WITH
  Miners <- {1, 2}, Batches <- {1, 2}, Headers <- {1, 2},
  miner <- r1, batch <- r2, exitCh <- r3, closing <- r4, received <- r5

-----------------------------------------------------------------------------
Idle == /\ conn = CHOOSE c \in SomeConns : TRUE
        /\ stream = << >> /\ packets = << >> /\ sent = << >> /\ got = << >> /\ probe = None

ServicesInit ==
  \/ part = "wire" /\ MCInit /\ Zero1
  \/ /\ Idle
     /\ \/ part = "lru" /\ Lru!NewCache /\ Zero8
        \/ part = "ntfn" /\ Ntfn!SubInit
        \/ part = "gap" /\ Gap!SubInit
        \/ part = "batch" /\ Batch!BwInit /\ Zero11
        \/ part = "push" /\ Push!BcInit /\ Zero13
        \/ part = "list" /\ List!Init /\ Zero7
        \/ part = "addrs" /\ Addrs!Init /\ Zero9
        \/ part = "local" /\ Local!Init /\ Zero5
        \/ part = "deadlines" /\ Deadlines!Init /\ Zero10
        \/ part = "transport" /\ Transport!Init /\ Zero5
        \/ part = "joint" /\ Joint!Init /\ Zero5
        \/ part = "single" /\ Single!Init /\ Zero3
        \/ part = "wallet" /\ Wallet!Init /\ Zero4
        \/ part = "bloom" /\ Bloom!Init /\ Zero8
        \/ part = "compact" /\ Compact!Init /\ Zero5
        \/ part = "coins" /\ Coins!Init /\ Zero3
        \/ part = "difficulty" /\ Retarget!Init /\ Zero4
        \/ part = "seeds" /\ Seeds!Init /\ Zero7
        \/ part = "miners" /\ Miners!Init /\ Zero6

ServicesNext ==
  /\ UNCHANGED part
  /\ \/ part = "wire" /\ MCNext /\ UNCHANGED registers
     \/ /\ UNCHANGED <<vars, probe>>
        /\ \/ part = "lru" /\ Lru!LruNext /\ UNCHANGED From8
           \/ part = "ntfn" /\ Ntfn!SubNext
           \/ part = "gap" /\ Gap!SubNext
           \/ part = "batch" /\ Batch!BwNext /\ UNCHANGED From11
           \/ part = "push" /\ Push!BcNext /\ UNCHANGED From13
           \/ part = "list" /\ List!Next /\ UNCHANGED From7
           \/ part = "addrs" /\ Addrs!Next /\ UNCHANGED From9
           \/ part = "local" /\ Local!Next /\ UNCHANGED From5
           \/ part = "deadlines" /\ Deadlines!Next /\ UNCHANGED From10
           \/ part = "transport" /\ Transport!Next /\ UNCHANGED From5
           \/ part = "joint" /\ Joint!Next /\ UNCHANGED From5
           \/ part = "single" /\ Single!Next /\ UNCHANGED From3
           \/ part = "wallet" /\ Wallet!Next /\ UNCHANGED From4
           \/ part = "bloom" /\ Bloom!Next /\ UNCHANGED From8
           \/ part = "compact" /\ Compact!Next /\ UNCHANGED From5
           \/ part = "coins" /\ Coins!Next /\ UNCHANGED From3
           \/ part = "difficulty" /\ Retarget!Next /\ UNCHANGED From4
           \/ part = "seeds" /\ Seeds!Next /\ UNCHANGED From7
           \/ part = "miners" /\ Miners!Next /\ UNCHANGED From6

ServicesSpec == ServicesInit /\ [][ServicesNext]_<<part, vars, probe, registers>>

Symmetry == Permutations({k1, k2, k3}) \cup Permutations({c1, c2})

-----------------------------------------------------------------------------
(* The conversions of the wire package.                                    *)

\* Every uint64 has one encoding as a varint: the one WriteVarInt makes is read back, and a longer one
\* is refused (ReadVarIntBuf).
OneEncoding ==
    probe # None =>
        LET e == WriteVarIntBuf(probe.v)
            n == VarIntLimbs(probe.disc)
            f == [disc |-> probe.disc, limbs |-> SubSeq(probe.v, 1, n)]
            r == ReadVarIntBuf(f)
        IN  /\ ReadVarIntBuf(e) = [err |-> FALSE, val |-> probe.v]
            /\ ~r.err => WriteVarIntBuf(r.val) = f

\* The sizes and places computed without serializing (SerializeSize, SerializeSizeStripped,
\* DeserializeTxLoc, and PkScriptLocs where the first input tells whether there is a witness) are
\* those of the bytes that are written.
ScriptAt(s, n, len) == LET before == {i \in DOMAIN s : Size(SubSeq(s, 1, i - 1)) = n}
                       IN  \E i \in before : s[i].kind = "items" /\ s[i].len = len
SizesOf(tx) ==
    /\ SerializeSize(tx) = Size(btcEncode(tx, WitnessEncoding))
    /\ SerializeSizeStripped(tx) = Size(btcEncode(tx, BaseEncoding))
    /\ tx.TxIn # << >> /\ (tx.TxIn[1].Witness # Nil <=> HasWitness(tx)) =>
         \A i \in DOMAIN tx.TxOut :
            tx.TxOut[i].Script > 0 =>
                ScriptAt(btcEncode(tx, WitnessEncoding), PkScriptLocs(tx)[i], tx.TxOut[i].Script)
SizesOfBlock(b) ==
    LET s == MsgBlockEncode(b, WitnessEncoding)
        d == MsgBlockDecode(s, WitnessEncoding)
    IN  /\ MsgBlockSerializeSize(b) = Size(s)
        /\ ~Stuck(d) => \A i \in DOMAIN b : DeserializeTxLoc(s)[i].TxLen = SerializeSize(b[i])
SizesAgree ==
    got = << >> => \A i \in DOMAIN sent :
        LET m == sent[i].msg
        IN  /\ \A j \in DOMAIN TxsIn(m) : SizesOf(TxsIn(m)[j])
            /\ m.cmd = "block" /\ ~Ambiguous(m) => SizesOfBlock(m.txs)

\* A version 2 address that has a legacy form is the address made of that form again.
LegacyAgrees(a) ==
    HasLegacy(a) /\ a.form = Plain =>
        NetAddressV2FromBytes(ToLegacy(a).len, ToLegacy(a).form, a.services) = a
AddressesAgree ==
    \A i \in DOMAIN sent : sent[i].msg.cmd = "addrv2" =>
        \A j \in DOMAIN sent[i].msg.addrs : LegacyAgrees(sent[i].msg.addrs[j])

\* The conversions of the package agree with each other.
Consistent == OneEncoding /\ SizesAgree /\ AddressesAgree

-----------------------------------------------------------------------------
\* The properties of the parts; they are explained in their modules.

\* Ends of one version and encoding understand each other, and whatever is
\* refused, the next read starts at the next frame (WriteMessageWithEncodingN,
\* ReadMessageWithEncodingN).
Exchanged == Accepted /\ Aligned

\* The LRU cache keeps its capacity, its size field is the sum of its elements,
\* its map and its list agree, and evict finds room before the list is empty
\* (Put, Get, LoadAndDelete and evict in lru.go).
CacheSound ==
  part = "lru" =>
    Lru!LruTypeOK /\ Lru!CapacityHeld /\ Lru!SizeIsSum /\ Lru!MapListAgree /\ Lru!EvictNeverFails

\* No delivery goroutine sends on a closed channel, and when Stop has returned
\* every subscription is closed (cancel and Stop in manager.go).  Until Stop is
\* called a subscriber is told of the block after the height it asked for, and
\* no height is skipped after it (NewSubscription and handleNewSubscription).
SubscriptionsClosed ==
  /\ part = "ntfn" => Ntfn!SubTypeOK /\ Ntfn!NoSendOnClosed /\ Ntfn!StopClosesAll
  /\ part = "gap" => Gap!SubTypeOK /\ Gap!NoSendOnClosed /\ Gap!StopClosesAll /\ Gap!NoGap

\* Filters are written in order, none lost and none twice, and Stop leaves no
\* received one unwritten (manageNewItems in batch_writer.go); a transaction is
\* rebroadcast until it is in the chain (broadcaster.go).
WorkKept ==
  /\ part = "batch" => Batch!BwTypeOK /\ Batch!InOrder /\ Batch!StopWritesBatch
  /\ part = "push" => Push!BcTypeOK /\ Push!KeptUntilMined

\* The bounded list of headers holds the last headers, and every ancestor is
\* the one that a walk back would find (bounded_header_list.go, header_list.go).
HeaderListSound == part = "list" => List!RingHolds /\ List!AncestorsRight

\* The tables, counts and buckets of the address manager agree, what it saves
\* it loads, and a draw finds an address (addrmanager.go); the local address
\* that is advertised is the one reached best (GetBestLocalAddress).
AddressesSound ==
  /\ part = "addrs" => Addrs!TablesAgree /\ Addrs!SavedLoads /\ Addrs!DrawsEnd
  /\ part = "local" => Local!BestAdvertised

\* A peer is disconnected when an answer is overdue, and not before (stallHandler).
StallsFound == part = "deadlines" => Deadlines!StallsFound

\* What an end of the encrypted transport is given is what the other end of the
\* same session sent, in order (CompleteHandshake, V2ReceivePacket).
SessionsAgree == part = "transport" => Transport!Authentic /\ Transport!SameSession


\* A bloom filter misses nothing that a peer asked for, its merkle blocks prove
\* what they contain (filter.go, merkleblock.go), and a compact filter matches
\* what it was built of, also after it was stored (gcs.go, filterdb).
FiltersSound ==
  /\ part = "bloom" => Bloom!NoneMissed /\ Bloom!TreeProves
  /\ part = "compact" => Compact!FiltersMatch

\* The selected coins are the wallet's, pay what was asked for, and are the best
\* by the measure of the selector (coins.go).
CoinsSelected == part = "coins" => Coins!Pays /\ Coins!SelectsBest

=============================================================================
