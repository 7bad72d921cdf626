---------------------------- MODULE MerkleBlocks ----------------------------
(***************************************************************************)
(* The bloom filter a peer has loaded, and the transactions and merkle     *)
(* blocks that are sent to it because they match (nogoutil/bloom).  Every  *)
(* method holds the filter's mutex, but NewMerkleBlock takes it for each   *)
(* transaction, so that the peer may change the filter in between.         *)
(*                                                                         *)
(* What is hashed into the filter is a sequence: the hash of a             *)
(* transaction, an outpoint, which is a hash and an index, or what a       *)
(* script pushes.  A transaction is [hash, TxOut, TxIn], an output         *)
(* [pushes, class], an input [prev, pushes]; a script that does not parse  *)
(* pushes nothing.  Inner hashes of the merkle tree are pairs.             *)
(***************************************************************************)
EXTENDS Integers, Sequences, SequencesExt

CONSTANTS
  Loads,          \* the filters that are loaded: [bits, size, HashFuncs, Flags]
  Data,           \* that the peer adds
  Blocks,         \* sequences of transactions
  Murmur(_, _),   \* the hash of a number and a datum
  NoFilter

VARIABLES
  msgFilterLoad,  \* the filter
  watched,        \* what the peer added, and what it must be told of since
  block, next,    \* the block that NewMerkleBlock is at, and the transaction
  matchedBits,    \* its transactions so far that matched
  due,            \* those that had to
  merkle          \* the merkle block that was made of it

vars == <<msgFilterLoad, watched, block, next, matchedBits, due, merkle>>

NoBlock == << >>
NoMerkle == [Transactions |-> 0, Hashes |-> << >>, Flags |-> << >>]

normalize(f) == IF f.size = 0 THEN [f EXCEPT !.HashFuncs = 0] ELSE f

-----------------------------------------------------------------------------
(* filter.go                                                               *)

hash(f, i, data) == Murmur(i, data) % f.size

matches(f, data) ==
  /\ f # NoFilter
  /\ \A i \in 0 .. f.HashFuncs - 1 : hash(f, i, data) \in f.bits
  /\ f.HashFuncs > 0

add(f, data) ==
  IF f = NoFilter THEN f
  ELSE [f EXCEPT !.bits = @ \cup {hash(f, i, data) : i \in 0 .. f.HashFuncs - 1}]

OutPoint(h, i) == Append(h, i)

Follows(flags, class) ==
  \/ flags = "BloomUpdateAll"
  \/ flags = "BloomUpdateP2PubkeyOnly" /\ class \in {"PubKeyTy", "MultiSigTy"}

maybeAddOutpoint(f, out, h, i) == IF Follows(f.Flags, out.class) THEN add(f, OutPoint(h, i)) ELSE f

MatchesPush(f, pushes) == \E i \in DOMAIN pushes : matches(f, pushes[i])

\* The filter after the outputs of a transaction, and whether one matched.
MatchOutputs(f, tx) ==
  FoldLeft(LAMBDA r, i : IF MatchesPush(r.filter, tx.TxOut[i].pushes)
                         THEN [matched |-> TRUE, filter |-> maybeAddOutpoint(r.filter, tx.TxOut[i], tx.hash, i)]
                         ELSE r,
           [matched |-> matches(f, tx.hash), filter |-> f], [i \in DOMAIN tx.TxOut |-> i])

matchTxAndUpdate(f, tx) ==
  LET r == MatchOutputs(f, tx) IN
    [r EXCEPT !.matched = @ \/ \E i \in DOMAIN tx.TxIn :
        matches(r.filter, tx.TxIn[i].prev) \/ MatchesPush(r.filter, tx.TxIn[i].pushes)]

-----------------------------------------------------------------------------
(* merkleblock.go.  m is [allHashes, matchedBits], both sequences; heights *)
(* count from the leaves and positions from 0.                             *)

NumTx(m) == Len(m.allHashes)

calcTreeWidth(m, height) == (NumTx(m) + 2^height - 1) \div 2^height

RECURSIVE calcHash(_, _, _)
calcHash(m, height, pos) ==
  IF height = 0 THEN m.allHashes[pos + 1]
  ELSE LET left == calcHash(m, height - 1, pos * 2) IN
         <<left, IF pos * 2 + 1 < calcTreeWidth(m, height - 1) THEN calcHash(m, height - 1, pos * 2 + 1) ELSE left>>

IsParent(m, height, pos) == \E i \in pos * 2^height + 1 .. (pos + 1) * 2^height : i <= NumTx(m) /\ m.matchedBits[i]

\* The bits and the hashes that the subtree appends.
RECURSIVE traverseAndBuild(_, _, _)
traverseAndBuild(m, height, pos) ==
  LET isParent == IsParent(m, height, pos)
      left     == traverseAndBuild(m, height - 1, pos * 2)
      right    == IF pos * 2 + 1 < calcTreeWidth(m, height - 1)
                  THEN traverseAndBuild(m, height - 1, pos * 2 + 1) ELSE [bits |-> << >>, hashes |-> << >>]
  IN  IF height = 0 \/ ~isParent THEN [bits |-> <<isParent>>, hashes |-> <<calcHash(m, height, pos)>>]
      ELSE [bits |-> <<isParent>> \o left.bits \o right.bits, hashes |-> left.hashes \o right.hashes]

Height(m) == CHOOSE h \in 0 .. NumTx(m) : calcTreeWidth(m, h) <= 1 /\ \A k \in 0 .. h - 1 : calcTreeWidth(m, k) > 1

\* The flags fill bytes.
MsgMerkleBlock(m) ==
  LET t == traverseAndBuild(m, Height(m), 0)
      n == ((Len(t.bits) + 7) \div 8) * 8
  IN  [Transactions |-> NumTx(m), Hashes |-> t.hashes,
       Flags |-> [i \in 1 .. n |-> i <= Len(t.bits) /\ t.bits[i]]]

-----------------------------------------------------------------------------
(* What a peer must be told, going by what it watches instead of by bits.  *)

Pays(W, out) == \E i \in DOMAIN out.pushes : out.pushes[i] \in W
Spends(W, in) == in.prev \in W \/ \E i \in DOMAIN in.pushes : in.pushes[i] \in W
Concerns(W, tx) ==
  tx.hash \in W \/ (\E i \in DOMAIN tx.TxOut : Pays(W, tx.TxOut[i])) \/ \E i \in DOMAIN tx.TxIn : Spends(W, tx.TxIn[i])
WatchedAfter(W, flags, tx) ==
  W \cup {OutPoint(tx.hash, i) : i \in {j \in DOMAIN tx.TxOut : Pays(W, tx.TxOut[j]) /\ Follows(flags, tx.TxOut[j].class)}}

Usable(f) == f # NoFilter /\ f.HashFuncs > 0

-----------------------------------------------------------------------------
Idle == block = NoBlock

Init ==
  /\ msgFilterLoad = NoFilter /\ watched = {}
  /\ block = NoBlock /\ next = 0 /\ matchedBits = << >> /\ due = << >> /\ merkle = NoMerkle

At(b, n, bits, d, m) == block' = b /\ next' = n /\ matchedBits' = bits /\ due' = d /\ merkle' = m
SameBlock == UNCHANGED <<block, next, matchedBits, due, merkle>>

\* LoadFilter and Reload.
Reload(f) == msgFilterLoad' = normalize(f) /\ watched' = {} /\ SameBlock

Unload == msgFilterLoad' = NoFilter /\ watched' = {} /\ SameBlock

\* Add, AddHash and AddOutPoint.
Add(data) ==
  /\ msgFilterLoad' = add(msgFilterLoad, data)
  /\ watched' = IF Usable(msgFilterLoad) THEN watched \cup {data} ELSE watched
  /\ SameBlock

\* NewMerkleBlock asks for each transaction of the block, then builds the tree.
NewMerkleBlock(b) == Idle /\ At(b, 1, << >>, << >>, NoMerkle) /\ UNCHANGED <<msgFilterLoad, watched>>

MatchTxAndUpdate ==
  LET tx == block[next]
      r  == matchTxAndUpdate(msgFilterLoad, tx)
  IN  /\ next \in DOMAIN block
      /\ msgFilterLoad' = r.filter
      /\ watched' = IF Usable(r.filter) THEN WatchedAfter(watched, r.filter.Flags, tx) ELSE watched
      /\ At(block, next + 1, Append(matchedBits, r.matched),
            Append(due, Concerns(watched', tx)), merkle)

Build ==
  /\ ~Idle /\ next > Len(block) /\ merkle = NoMerkle
  /\ merkle' = MsgMerkleBlock([allHashes |-> [i \in DOMAIN block |-> block[i].hash], matchedBits |-> matchedBits])
  /\ UNCHANGED <<msgFilterLoad, watched, block, next, matchedBits, due>>

Sent == merkle # NoMerkle /\ At(NoBlock, 0, << >>, << >>, NoMerkle) /\ UNCHANGED <<msgFilterLoad, watched>>

Next ==
  \/ \E f \in Loads : Reload(f)
  \/ Unload
  \/ \E d \in Data : Add(d)
  \/ \E b \in Blocks : NewMerkleBlock(b)
  \/ MatchTxAndUpdate \/ Build \/ Sent

Spec == Init /\ [][Next]_vars

-----------------------------------------------------------------------------
\* A transaction that pays, names or spends what the peer watches is found,
\* and so is one that spends an output found before, as far as the filter's
\* flags ask for it, whatever was loaded or added between two transactions of a
\* block (matchTxAndUpdate, maybeAddOutpoint).
NoneMissed ==
  /\ \A i \in DOMAIN due : due[i] => matchedBits[i]
  /\ Usable(msgFilterLoad) => \A d \in watched : matches(msgFilterLoad, d)

\* What the peer computes of a merkle block: the hash of the subtree at
\* height and pos, the matched leaves under it, and what is left of the bits
\* and hashes.
RECURSIVE Extract(_, _, _, _)
Extract(n, height, pos, rest) ==
  LET bit   == Head(rest.bits)
      below == [rest EXCEPT !.bits = Tail(@)]
      width == (n + 2^(height - 1) - 1) \div 2^(height - 1)
      left  == Extract(n, height - 1, pos * 2, below)
      right == IF pos * 2 + 1 < width THEN Extract(n, height - 1, pos * 2 + 1, left.rest) ELSE [left EXCEPT !.leaves = {}]
  IN  IF height = 0 \/ ~bit
      THEN [hash |-> Head(rest.hashes), leaves |-> IF bit THEN {pos + 1} ELSE {},
            rest |-> [below EXCEPT !.hashes = Tail(@)]]
      ELSE [hash |-> <<left.hash, right.hash>>, leaves |-> left.leaves \cup right.leaves, rest |-> right.rest]

\* The peer finds in a merkle block the root of the block's tree and exactly
\* the matched transactions, and no hash or flag is left over but the padding
\* (traverseAndBuild, NewMerkleBlock).
TreeProves ==
  merkle # NoMerkle =>
    LET m == [allHashes |-> [i \in DOMAIN block |-> block[i].hash], matchedBits |-> matchedBits]
        e == Extract(merkle.Transactions, Height(m), 0, [bits |-> merkle.Flags, hashes |-> merkle.Hashes])
    IN  /\ e.hash = calcHash(m, Height(m), 0)
        /\ e.leaves = {i \in DOMAIN matchedBits : matchedBits[i]}
        /\ e.rest.hashes = << >> /\ Len(e.rest.bits) < 8 /\ \A i \in DOMAIN e.rest.bits : ~e.rest.bits[i]
=============================================================================
