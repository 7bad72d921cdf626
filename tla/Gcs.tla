-------------------------------- MODULE Gcs --------------------------------
(***************************************************************************)
(* The filters of blocks as Golomb coded sets (nogoutil/gcs and its        *)
(* builder), and the store that keeps them (neutrino/filterdb).            *)
(*                                                                         *)
(* A filter is [n, p, modulusNP, filterData], its data a sequence of bits. *)
(* A word of 64 bits is one of 2 * HalfWord bits here, and the halves that *)
(* fastReduction and the index of HashMatchAny use have HalfWord.  A       *)
(* script is a string; the hash of a block is <<key, rest>>, of which      *)
(* DeriveKey takes the first.                                              *)
(***************************************************************************)
EXTENDS Integers, Sequences, SequencesExt, FiniteSets, TLC

CONSTANTS
  HalfWord,          \* 32
  DefaultP, DefaultM,
  Blocks,            \* each [hash, TxOut, prevOutScripts], sequences of scripts
  GenesisBlock,      \* one of them
  OpReturn,          \* the scripts that begin with OP_RETURN
  Ps, Ms,            \* what SetP and SetM are called with
  Entries,           \* what AddEntry is called with
  Queries,           \* sequences of scripts
  SipHash(_, _),     \* of a key and a script, a word
  NoFilter

VARIABLES
  builder,  \* [p, m, key, data, err]
  filter,   \* the filter in hand, built or fetched
  made,     \* what it was made of: [key, data, hash]
  store     \* the bucket of filters: their bytes by the hash of the block

vars == <<builder, filter, made, store>>

-----------------------------------------------------------------------------
(* gcs.go                                                                  *)

Half == 2^HalfWord
hi(x) == x \div Half
lo(x) == x % Half

\* The mistake of leaving out the carry of the low halves.
ReducedWithoutCarry(vnphi, vnpmid, npvmid, vnplo) == (vnphi + hi(vnpmid) + hi(npvmid)) % (Half * Half)
Reduced(vnphi, vnpmid, npvmid, vnplo) ==
  LET carry == hi(lo(vnpmid) + lo(npvmid) + hi(vnplo))
  IN  (vnphi + hi(vnpmid) + hi(npvmid) + carry) % (Half * Half)
fastReduction(v, nHi, nLo) == Reduced(hi(v) * nHi, hi(v) * nLo, nHi * lo(v), lo(v) * nLo)

\* The value that stands for a script in a filter of the given modulus.
Value(modulusNP, key, d) == fastReduction(SipHash(key, d), hi(modulusNP), lo(modulusNP))
SortedValues(modulusNP, key, data) == SortSeq([i \in DOMAIN data |-> Value(modulusNP, key, data[i])], <)

\* WriteBits: p bits, the highest first.
WriteBits(x, p) == [i \in 1..p |-> (x \div 2^(p - i)) % 2]
Golomb(delta, p) == [i \in 1..(delta \div 2^p) |-> 1] \o <<0>> \o WriteBits(delta % 2^p, p)

\* The differences of the sorted values, in whole bytes.
Coded(values, p) ==
  FoldLeft(LAMBDA out, i : out \o Golomb(values[i] - (IF i = 1 THEN 0 ELSE values[i - 1]), p),
           << >>, [i \in DOMAIN values |-> i])
Bytes(bits) == bits \o [i \in 1..((8 - (Len(bits) % 8)) % 8) |-> 0]

BuildGCSFilter(P, M, key, data) ==
  LET modulusNP == Len(data) * M IN
    [n |-> Len(data), p |-> P, modulusNP |-> modulusNP,
     filterData |-> Bytes(Coded(SortedValues(modulusNP, key, data), P))]

FromBytes(N, P, M, d) == [n |-> N, p |-> P, modulusNP |-> N * M, filterData |-> d]

\* The number of elements stands in front.
NBytes(f) == <<f.n>> \o f.filterData
FromNBytes(P, M, d) == FromBytes(Head(d), P, M, Tail(d))

\* A reader is [err, val, in]; reading past the end is io.EOF.
EOF == [err |-> TRUE, val |-> 0, in |-> << >>]
ReadBits(quotient, in, p) ==
  IF Len(in) < p THEN EOF
  ELSE [err |-> FALSE, in |-> SubSeq(in, p + 1, Len(in)),
        val |-> quotient * 2^p + FoldLeft(LAMBDA x, bit : 2 * x + bit, 0, SubSeq(in, 1, p))]
readFullUint64(in, p) ==
  LET zeros == {i \in DOMAIN in : in[i] = 0} IN
    IF zeros = {} THEN EOF
    ELSE LET first == CHOOSE i \in zeros : \A j \in zeros : i <= j IN
           ReadBits(first - 1, SubSeq(in, first + 1, Len(in)), p)

\* From the value read last on, left elements being left.
RECURSIVE MatchFrom(_, _, _, _, _)
MatchNext(p, term, value, left, r) ==
  CASE r.err -> FALSE
    [] value + r.val = term -> TRUE
    [] value + r.val > term -> FALSE
    [] OTHER -> MatchFrom(p, term, value + r.val, left - 1, r.in)
MatchFrom(p, term, value, left, in) ==
  IF left = 0 THEN FALSE ELSE MatchNext(p, term, value, left, readFullUint64(in, p))
Match(f, key, d) == MatchFrom(f.p, Value(f.modulusNP, key, d), 0, f.n, f.filterData)

\* The values of the query from the first that is not below v.
From(values, v) == SelectSeq(values, LAMBDA x : x >= v)

RECURSIVE ZipFrom(_, _, _, _, _)
ZipQuery(p, values, value, left, in) ==
  CASE values = << >> -> FALSE
    [] Head(values) = value -> TRUE
    [] OTHER -> ZipFrom(p, values, value, left - 1, in)
ZipNext(p, values, value, left, r) ==
  IF r.err THEN FALSE ELSE ZipQuery(p, From(values, value + r.val), value + r.val, left, r.in)
ZipFrom(p, values, value, left, in) ==
  IF left = 0 THEN FALSE ELSE ZipNext(p, values, value, left, readFullUint64(in, p))
ZipMatchAny(f, key, data) ==
  data # << >> /\ ZipFrom(f.p, SortedValues(f.modulusNP, key, data), 0, f.n, f.filterData)

\* The index has keys of 32 bits and holds all that can be read, padding too.
RECURSIVE IndexFrom(_, _, _)
IndexNext(p, value, r) == IF r.err THEN {} ELSE {lo(value + r.val)} \cup IndexFrom(p, value + r.val, r.in)
IndexFrom(p, value, in) == IndexNext(p, value, readFullUint64(in, p))
HashMatchAny(f, key, data) ==
  \E i \in DOMAIN data : lo(Value(f.modulusNP, key, data[i])) \in IndexFrom(f.p, 0, f.filterData)

MatchAny(f, key, data) ==
  IF Len(data) >= f.n \div 2 THEN HashMatchAny(f, key, data) ELSE ZipMatchAny(f, key, data)

-----------------------------------------------------------------------------
(* builder.go.  Once a builder has failed its calls do nothing.            *)

DeriveKey(hash) == hash[1]

SetKey(b, key) == IF b.err THEN b ELSE [b EXCEPT !.key = key]
SetP(b, p) == CASE b.err -> b [] p > HalfWord -> [b EXCEPT !.err = TRUE] [] OTHER -> [b EXCEPT !.p = p]
SetM(b, m) == CASE b.err -> b [] m >= Half -> [b EXCEPT !.err = TRUE] [] OTHER -> [b EXCEPT !.m = m]
AddEntry(b, d) == IF b.err THEN b ELSE [b EXCEPT !.data = @ \cup {d}]

NewBuilder == [p |-> 0, m |-> 0, key |-> 0, data |-> {}, err |-> FALSE]
WithKeyPNM(key, p, m) == SetM(SetP(SetKey(NewBuilder, key), p), m)
WithKeyHash(hash) == WithKeyPNM(DeriveKey(hash), DefaultP, DefaultM)

\* The scripts that BuildBasicFilter adds.
Basic(b, block) ==
  LET outs  == SelectSeq(block.TxOut, LAMBDA s : s # "" /\ s \notin OpReturn)
      prevs == SelectSeq(block.prevOutScripts, LAMBDA s : s # "")
  IN  FoldLeft(AddEntry, b, outs \o prevs)

\* A map is walked in some order, which is all the same since values are sorted.
Built(b) == BuildGCSFilter(b.p, b.m, b.key, SetToSeq(b.data))
CanBuild(b) == ~b.err /\ b.p # 0 /\ b.m # 0

-----------------------------------------------------------------------------
(* filterdb/db.go.  What is put for no filter is empty.  Of a list the     *)
(* items before one of an unknown type are kept, although it is an error.  *)

putFilter(s, hash, f) == (hash :> IF f = NoFilter THEN << >> ELSE NBytes(f)) @@ s

Item(hash, f) == [hash |-> hash, type |-> "RegularFilter", filter |-> f]
Known(list, i) == \A j \in 1..i : list[j].type = "RegularFilter"
putFilters(s, list) ==
  FoldLeft(LAMBDA r, i : IF Known(list, i) THEN putFilter(r, list[i].hash, list[i].filter) ELSE r,
           s, [i \in DOMAIN list |-> i])

FetchFilter(s, hash) == IF s[hash] = << >> THEN NoFilter ELSE FromNBytes(DefaultP, DefaultM, s[hash])

-----------------------------------------------------------------------------
NotMade == [key |-> 0, data |-> {}, hash |-> << >>]

GenesisFilter == Built(Basic(WithKeyHash(GenesisBlock.hash), GenesisBlock))

\* New puts the filter of the genesis block into the bucket it creates.
Init ==
  /\ builder = NewBuilder /\ filter = NoFilter /\ made = NotMade
  /\ store = putFilter(<< >>, GenesisBlock.hash, GenesisFilter)

\* A caller has one builder or one filter in hand.
With(block) ==
  /\ builder' = WithKeyHash(block.hash) /\ filter' = NoFilter /\ made' = NotMade
  /\ UNCHANGED store

Change(b) == filter = NoFilter /\ builder' = b /\ UNCHANGED <<filter, made, store>>
Configure ==
  \/ \E p \in Ps : Change(SetP(builder, p))
  \/ \E m \in Ms : Change(SetM(builder, m))
  \/ \E d \in Entries : Change(AddEntry(builder, d))

Take(b, hash) ==
  /\ builder' = NewBuilder
  /\ filter' = Built(b)
  /\ made' = [key |-> b.key, data |-> b.data, hash |-> hash]
  /\ UNCHANGED store
Build == CanBuild(builder) /\ Take(builder, << >>)
BuildBasicFilter(block) == Take(Basic(WithKeyHash(block.hash), block), block.hash)

\* The filter of a block, one that is known to be empty, and one of another type
\* in between.
PutFilters ==
  \E block \in Blocks :
    LET none  == Item(block.hash, NoFilter)
        hand  == Item(made.hash, filter)
        other == [hand EXCEPT !.type = "other"]
    IN  \E list \in {<<none>>, <<hand>>, <<none, hand>>, <<hand, other, none>>} :
          /\ hand \in Range(list) => filter # NoFilter /\ made.hash # << >>
          /\ store' = putFilters(store, list)
          /\ UNCHANGED <<builder, filter, made>>

Scripts(block) ==
  {s \in Range(block.TxOut) : s \notin OpReturn /\ s # ""} \cup {s \in Range(block.prevOutScripts) : s # ""}

Fetch(block) ==
  /\ block.hash \in DOMAIN store
  /\ builder' = NewBuilder
  /\ filter' = FetchFilter(store, block.hash)
  /\ made' = [key |-> DeriveKey(block.hash), data |-> Scripts(block), hash |-> block.hash]
  /\ UNCHANGED store

PurgeFilters == store' = << >> /\ UNCHANGED <<builder, filter, made>>

Next ==
  \/ \E block \in Blocks : With(block) \/ BuildBasicFilter(block) \/ Fetch(block)
  \/ Configure \/ Build \/ PutFilters \/ PurgeFilters

Spec == Init /\ [][Next]_vars

-----------------------------------------------------------------------------
\* The high half of a product, by division.
Range64(v, n) == (v * n) \div (Half * Half)

\* A filter, built or stored and fetched again, finds every script it was made
\* of; a script that it finds has the value of one of these, and so says a query
\* for several scripts, except that the index of HashMatchAny tells values
\* apart by their low halves only (Match, ZipMatchAny, HashMatchAny).  Values
\* are the high halves of products (fastReduction).
FiltersMatch ==
  filter # NoFilter =>
    LET V(d)   == Range64(SipHash(made.key, d), filter.modulusNP)
        Values == {V(d) : d \in made.data}
    IN  /\ \A d \in Entries : Match(filter, made.key, d) <=> V(d) \in Values
        /\ \A q \in Queries :
             LET Hit == \E i \in DOMAIN q : V(q[i]) \in Values
                 Low == \E i \in DOMAIN q : lo(V(q[i])) \in {lo(v) : v \in Values}
             IN  /\ ZipMatchAny(filter, made.key, q) <=> Hit
                 /\ HashMatchAny(filter, made.key, q) <=> Low
                 /\ Hit => MatchAny(filter, made.key, q)
=============================================================================
