---------------------------- MODULE ExtendedKeys ----------------------------
(***************************************************************************)
(* Hierarchical deterministic keys (nogoutil/hdkeychain/extendedkey.go),   *)
(* over the group of Schnorr.  The bytes of a private key are two digits,  *)
(* of which derivation drops leading zeros; the bytes of a public key are  *)
(* one number.  Bytes live in slices, since a key and the ones made from   *)
(* it may share them: a key is                                             *)
(*   [key, pubKey, chainCode, parentFP, depth, childNum, version,          *)
(*    isPrivate]                                                           *)
(* whose first four are slices, and mem holds their bytes; NoSlice is nil. *)
(***************************************************************************)
EXTENDS Schnorr, SequencesExt, FiniteSets

CONSTANTS
  Seeds,             \* that NewMaster is called with
  Indices,           \* that children are derived at
  HardenedKeyStart,
  Base,              \* of the digits; N is at most Base * Base
  maxDepth,          \* maxUint8
  Nets,
  MaxKeys,           \* bound on the keys in memory
  ZeroShared         \* whether keys are zeroed that share bytes with others

VARIABLES
  mem,   \* the bytes of the slices
  keys,  \* the extended keys in memory
  from   \* for each the seed and the path it was derived along

vars == <<mem, keys, from>>

NoSlice == 0
Get(m, slice) == IF slice = NoSlice THEN << >> ELSE m[slice]

HDPrivateKeyID(net) == [net |-> net, private |-> TRUE]
HDPublicKeyID(net) == [net |-> net, private |-> FALSE]
NoVersion == [net |-> "", private |-> FALSE]

Bytes32(x) == <<x \div Base, x % Base>>
Number(b) == FoldLeft(LAMBDA x, digit : x * Base + digit, 0, b)
paddedAppend(size, b) == [i \in 1..(size - Len(b)) |-> 0] \o b
Strip(b) == SelectSeq([i \in DOMAIN b |-> IF \E j \in 1..i : b[j] # 0 THEN b[i] ELSE -1], LAMBDA d : d # -1)

\* HMAC-SHA512 in two halves.
Il(chainCode, data) == TaggedHash("hmac/left", chainCode \o data)
Ir(chainCode, data) == TaggedHash("hmac/right", chainCode \o data)
Hash160(b) == <<TaggedHash("hash160", b)>>

isChildHardened(i) == i >= HardenedKeyStart

-----------------------------------------------------------------------------
(* A key is taken to bytes, and the child to bytes again.                  *)

pubKeyBytes(m, k) ==
  IF ~k.isPrivate THEN Get(m, k.key)
  ELSE IF k.pubKey # NoSlice THEN m[k.pubKey]
  ELSE <<SerializeCompressed(Number(Get(m, k.key)) % N)>>

\* The data that is hashed, with the private key to the right or, as it was once, to the left.
Aligned(b) == <<0>> \o paddedAppend(2, b)
AlignedLeft(b) == <<0>> \o b \o [i \in 1..(2 - Len(b)) |-> 0]
DataOf(m, k, i, align(_)) == Append(IF isChildHardened(i) THEN align(Get(m, k.key)) ELSE pubKeyBytes(m, k), i)

MayDerive(k, i) == k.depth < maxDepth /\ (k.isPrivate \/ ~isChildHardened(i))

\* A point from its compressed form; infinity has none.
Point(b) == IF b[1] <= N \div 2 THEN b[1] ELSE Negate(b[1] - N)
Parses(b) == Len(b) = 1 /\ b[1] # SerializeCompressed(infinity)

\* Derive, and DeriveNonStandard, which refuses a left half of zero at once.
ValidLeft(il, k) == il < N /\ (k.isPrivate \/ il # infinity)
ValidLeftNonStandard(il, k) == il < N /\ il # 0
childKey(m, k, il) ==
  IF k.isPrivate THEN Strip(Bytes32((il + Number(Get(m, k.key))) % N))
  ELSE <<SerializeCompressed((il + Point(Get(m, k.key))) % N)>>

-----------------------------------------------------------------------------
Init == mem = << >> /\ keys = << >> /\ from = << >>

Room == Len(keys) < MaxKeys

\* A new key of fresh slices.
NewExtendedKey(m, version, key, chainCode, parentFP, depth, childNum, isPrivate) ==
  LET n == Len(m) IN
    /\ mem' = m \o <<key, chainCode, parentFP>>
    /\ keys' = Append(keys, [key |-> n + 1, pubKey |-> NoSlice, chainCode |-> n + 2, parentFP |-> n + 3,
                             depth |-> depth, childNum |-> childNum, version |-> version, isPrivate |-> isPrivate])

NewMaster(seed, net) ==
  LET secretKey == Il(<<0>>, <<seed>>) IN
    /\ Room
    /\ secretKey < N /\ secretKey # 0
    /\ NewExtendedKey(mem, HDPrivateKeyID(net), Bytes32(secretKey), <<Ir(<<0>>, <<seed>>)>>, <<0>>, 0, 0, TRUE)
    /\ from' = Append(from, [seed |-> seed, path |-> << >>])

\* pubKeyBytes keeps the public key of a private one.
Memo(k) == k.isPrivate /\ k.pubKey = NoSlice
WithMemo(m, k) == IF Memo(k) THEN Append(m, pubKeyBytes(m, k)) ELSE m
KeysWithMemo(x, m) == IF Memo(keys[x]) THEN [keys EXCEPT ![x].pubKey = Len(m) + 1] ELSE keys

\* ECPubKey and Address, and a derivation that fails once the public key was made.
Address(x) ==
  /\ mem' = WithMemo(mem, keys[x]) /\ keys' = KeysWithMemo(x, mem) /\ UNCHANGED from

Child(x, i, data, step) ==
  LET k == keys[x]
      m == WithMemo(mem, k)
      n == Len(m)
      cc == Get(mem, k.chainCode)
  IN  /\ mem' = m \o <<childKey(mem, k, Il(cc, data)), <<Ir(cc, data)>>, Hash160(pubKeyBytes(mem, k))>>
      /\ keys' = Append(KeysWithMemo(x, mem),
                        [key |-> n + 1, pubKey |-> NoSlice, chainCode |-> n + 2, parentFP |-> n + 3,
                         depth |-> k.depth + 1, childNum |-> i, version |-> k.version, isPrivate |-> k.isPrivate])
      /\ from' = Append(from, [from[x] EXCEPT !.path = Append(@, step)])

Step(i, left) == [index |-> i, left |-> left]

Derive(x, i) ==
  LET data == DataOf(mem, keys[x], i, Aligned) IN
    /\ Room /\ MayDerive(keys[x], i)
    /\ ValidLeft(Il(Get(mem, keys[x].chainCode), data), keys[x])
    /\ keys[x].isPrivate \/ Parses(Get(mem, keys[x].key))
    /\ Child(x, i, data, Step(i, FALSE))

IsAffectedByIssue172(k) == Len(Get(mem, k.key)) < 2

DeriveNonStandard(x, i) ==
  LET data == DataOf(mem, keys[x], i, AlignedLeft) IN
    /\ Room /\ MayDerive(keys[x], i)
    /\ ValidLeftNonStandard(Il(Get(mem, keys[x].chainCode), data), keys[x])
    /\ keys[x].isPrivate \/ Parses(Get(mem, keys[x].key))
    /\ Child(x, i, data, Step(i, isChildHardened(i) /\ IsAffectedByIssue172(keys[x])))

\* The public key takes the slices of the private one.
Neuter(x) ==
  LET k == keys[x] IN
    /\ Room /\ k.isPrivate /\ k.version.private
    /\ mem' = WithMemo(mem, k)
    /\ keys' = Append(KeysWithMemo(x, mem),
                      [k EXCEPT !.key = IF Memo(k) THEN Len(mem) + 1 ELSE k.pubKey, !.pubKey = NoSlice,
                                !.version = HDPublicKeyID(k.version.net), !.isPrivate = FALSE])
    /\ from' = Append(from, from[x])

\* The caller gives a version of the kind of the key, as the method demands; only
\* its length is looked at.
CloneWithVersion(x, version) ==
  /\ Room /\ version.private = keys[x].isPrivate
  /\ keys' = Append(keys, [keys[x] EXCEPT !.version = version, !.pubKey = NoSlice])
  /\ from' = Append(from, from[x]) /\ UNCHANGED mem

\* String, and NewKeyFromString of what it returns: the bytes are copied, and a
\* private key has all its digits again.
keyData(k) == IF k.isPrivate THEN <<0>> \o paddedAppend(2, Get(mem, k.key)) ELSE pubKeyBytes(mem, k)
Usable(data) ==
  IF data[1] = 0 /\ Len(data) = 3 THEN Number(Tail(data)) < N /\ Number(Tail(data)) # 0 ELSE Parses(data)
NewKeyFromString(x) ==
  LET k    == keys[x]
      data == keyData(k)
      priv == data[1] = 0 /\ Len(data) = 3
  IN  /\ Room /\ Get(mem, k.key) # << >>
      /\ Usable(data)
      /\ NewExtendedKey(mem, k.version, IF priv THEN Tail(data) ELSE data, Get(mem, k.chainCode),
                        Get(mem, k.parentFP), k.depth, k.childNum, priv)
      /\ from' = Append(from, from[x])

SetNet(x, net) ==
  /\ keys' = [keys EXCEPT ![x].version = IF keys[x].isPrivate THEN HDPrivateKeyID(net) ELSE HDPublicKeyID(net)]
  /\ UNCHANGED <<mem, from>>

Slices(k) == {k.key, k.pubKey, k.chainCode, k.parentFP} \ {NoSlice}
Shares(x) == \E y \in DOMAIN keys \ {x} : keys[y].key # NoSlice /\ Slices(keys[x]) \cap Slices(keys[y]) # {}

Zero(x) ==
  /\ ZeroShared \/ ~Shares(x)
  /\ mem' = [s \in DOMAIN mem |-> IF s \in Slices(keys[x]) THEN [i \in DOMAIN mem[s] |-> 0] ELSE mem[s]]
  /\ keys' = [keys EXCEPT ![x] = [@ EXCEPT !.version = NoVersion, !.key = NoSlice, !.depth = 0,
                                           !.childNum = 0, !.isPrivate = FALSE]]
  /\ UNCHANGED from

Next ==
  \/ \E s \in Seeds, net \in Nets : NewMaster(s, net)
  \/ \E x \in DOMAIN keys :
       \/ \E i \in Indices : Derive(x, i) \/ DeriveNonStandard(x, i)
       \/ \E net \in Nets : SetNet(x, net) \/ CloneWithVersion(x, [keys[x].version EXCEPT !.net = net])
       \/ Address(x) \/ Neuter(x) \/ NewKeyFromString(x) \/ Zero(x)

Spec == Init /\ [][Next]_vars

-----------------------------------------------------------------------------
(* The tree of private keys, as numbers (BIP 32).                          *)

NodeData(node, step) ==
  Append(CASE ~isChildHardened(step.index) -> <<SerializeCompressed(node.k)>>
           [] step.left -> AlignedLeft(Strip(Bytes32(node.k)))
           [] OTHER -> Aligned(Bytes32(node.k)), step.index)
Below(node, step) ==
  LET data == NodeData(node, step) IN
    [k |-> (node.k + Il(<<node.c>>, data)) % N, c |-> Ir(<<node.c>>, data),
     fp |-> Hash160(<<SerializeCompressed(node.k)>>)]
Node(f) == FoldLeft(Below, [k |-> Il(<<0>>, <<f.seed>>), c |-> Ir(<<0>>, <<f.seed>>), fp |-> <<0>>], f.path)

\* A key that was not zeroed is the one of its path, whether it was derived
\* privately or publicly, before or after it was neutered, cloned or read from
\* its string, and whatever other key was zeroed meanwhile; DeriveNonStandard
\* strays only where IsAffectedByIssue172 says so.
PathsAgree ==
  \A x \in DOMAIN keys :
    LET k == keys[x]
        node == Node(from[x])
    IN  k.key # NoSlice =>
          /\ pubKeyBytes(mem, k) = <<SerializeCompressed(node.k)>>
          /\ k.isPrivate => Number(mem[k.key]) = node.k
          /\ mem[k.chainCode] = <<node.c>>
          /\ mem[k.parentFP] = node.fp
          /\ k.depth = Len(from[x].path)
          /\ k.version.private = k.isPrivate
=============================================================================
