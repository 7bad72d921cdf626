------------------------------ MODULE Buckets ------------------------------
(***************************************************************************)
(* The nested buckets of ffldb/db.go, laid out in one flat key space: a    *)
(* pair of a bucket is stored under the bucket's ID and the key, a nested  *)
(* bucket as an entry of the bucket index, under the ID of its parent and  *)
(* its name, and the highest ID used under a key of its own.  One          *)
(* read-write transaction after another works on them.  A path is the      *)
(* sequence of names that leads to a bucket from the metadata bucket.      *)
(*                                                                         *)
(* tree is what the calls should have done: the pairs of every bucket, by  *)
(* its path.                                                               *)
(***************************************************************************)
EXTENDS Cursors

CONSTANTS
  NKeys,       \* the keys of pairs are 1..NKeys
  NNames,      \* the names of buckets are 1..NNames
  Values,
  Priorities,  \* what rand.Int may return
  MaxDepth,    \* bound: how deep buckets are nested
  MaxID,       \* bound: the bucket IDs, of which 0 is the metadata bucket
  MaxChanges   \* bound: calls of one transaction that change something

VARIABLES db, x, tree, saved, changes

vars == <<db, x, tree, saved, changes>>

Keys == 1..NKeys

Names == 1..NNames

IDs == 0..MaxID

metadataBucketID == 0

Paths == UNION {[1..n -> Names] : n \in 0..MaxDepth}

----------------------------------------------------------------------------
\* The flat keys, in their order: pairs by bucket, the bucket index, the
\* highest ID.

bucketizedKey(id, key) == id * NKeys + key

bucketIndexKey(id, name) == (MaxID + 1) * NKeys + id * NNames + name

curBucketIDKeyName == (MaxID + 1) * (NKeys + NNames) + 1

ctKeys(id) == [start |-> bucketizedKey(id, 1), limit |-> bucketizedKey(id, NKeys) + 1]

ctBuckets(id) == [start |-> bucketIndexKey(id, 1), limit |-> bucketIndexKey(id, NNames) + 1]

begin(pairs) == [m |-> EmptyHeap, t |-> EmptyTreap, remove |-> {}, db |-> pairs]

\* initDB
Init ==
  /\ db = [k \in {curBucketIDKeyName} |-> metadataBucketID]
  /\ x = begin(db)
  /\ tree = [p \in {<<>>} |-> [k \in {} |-> 0]] /\ saved = tree
  /\ changes = 0

----------------------------------------------------------------------------
\* Bucket, from the metadata bucket along a path; NoKey when there is none.
RECURSIVE Bucket(_, _)
Bucket(y, p) ==
  IF p = <<>> THEN metadataBucketID
  ELSE LET parent == Bucket(y, SubSeq(p, 1, Len(p) - 1)) IN
         IF parent = NoKey THEN NoKey ELSE fetchKey(y, bucketIndexKey(parent, p[Len(p)]))

\* What a loop over a cursor sees: the flat keys and their values.
RECURSIVE Walk(_, _)
Walk(y, c) ==
  IF c.current = "none" THEN <<>>
  ELSE <<[key |-> rawKey(y, c), value |-> rawValue(y, c)]>> \o Walk(y, CursorNext(y, c))

\* ForEach and ForEachBucket, in flat keys.
ForEachIn(y, range) == Walk(y, CursorFirst(y, newCursor(y, range)))

----------------------------------------------------------------------------
Collected(y) ==
  LET live == Nodes(y.m, y.t.root) IN
    [y EXCEPT !.m = [a \in Addresses |-> IF a \in live THEN y.m[a] ELSE Zero]]

Change(y) ==
  /\ changes < MaxChanges /\ changes' = changes + 1
  /\ x' = Collected(y)
  /\ UNCHANGED <<db, saved>>

Put(p, key, value) ==
  /\ p \in DOMAIN tree
  /\ \E priority \in Priorities : Change(putKey(x, bucketizedKey(Bucket(x, p), key), value, priority))
  /\ tree' = [tree EXCEPT ![p] = [k \in DOMAIN @ \cup {key} |-> IF k = key THEN value ELSE @[k]]]

Delete(p, key) ==
  /\ p \in DOMAIN tree
  /\ Change(deleteKey(x, bucketizedKey(Bucket(x, p), key)))
  /\ tree' = [tree EXCEPT ![p] = [k \in DOMAIN @ \ {key} |-> @[k]]]

\* MUTANT: IDs that this transaction gave out are given out again.
curBucketIDStored(y) == y.db[curBucketIDKeyName]

curBucketID(y) == fetchKey(y, curBucketIDKeyName)

\* The ID is in the transaction's pending keys as soon as it is given out.
nextBucketID(y, priority) == putKey(y, curBucketIDKeyName, curBucketID(y) + 1, priority)

\* CreateBucket and CreateBucketIfNotExists.
CreateBucket(p, name) ==
  /\ p \in DOMAIN tree /\ Len(p) < MaxDepth
  /\ ~hasKey(x, bucketIndexKey(Bucket(x, p), name))
  /\ curBucketID(x) < MaxID
  /\ \E p1, p2 \in Priorities :
       LET y == nextBucketID(x, p1) IN
         Change(putKey(y, bucketIndexKey(Bucket(x, p), name), curBucketID(y), p2))
  /\ LET new == Append(p, name) IN
       tree' = [q \in DOMAIN tree \cup {new} |-> IF q = new THEN [k \in {} |-> 0] ELSE tree[q]]

\* The loop over one cursor in DeleteBucket: the pairs it saw, and the
\* transaction after they were deleted.  The cursor is not told.
RECURSIVE DeleteSeen(_, _, _)
DeleteSeen(y, c, seen) ==
  IF c.current = "none" THEN [tx |-> y, seen |-> seen]
  ELSE LET z == deleteKey(y, rawKey(y, c)) IN
         DeleteSeen(z, CursorNext(z, c), Append(seen, rawValue(y, c)))

DeleteRange(y, range) == DeleteSeen(y, CursorFirst(y, newCursor(y, range)), <<>>)

DeletePairs(y, id) == DeleteRange(y, ctKeys(id)).tx

\* The stack of buckets that are still to be emptied.
RECURSIVE DeleteAll(_, _)
DeleteAll(y, childIDs) ==
  IF childIDs = <<>> THEN y
  ELSE LET id == childIDs[Len(childIDs)]
           r  == DeleteRange(DeletePairs(y, id), ctBuckets(id)) IN
         DeleteAll(r.tx, SubSeq(childIDs, 1, Len(childIDs) - 1) \o r.seen)

DeleteBucket(p) ==
  /\ p \in DOMAIN tree /\ p # <<>>
  /\ LET entry == bucketIndexKey(Bucket(x, SubSeq(p, 1, Len(p) - 1)), p[Len(p)]) IN
       Change(deleteKey(DeleteAll(x, <<fetchKey(x, entry)>>), entry))
  /\ tree' = [q \in {r \in DOMAIN tree : SubSeq(r, 1, Min({Len(p), Len(r)})) # p} |-> tree[q]]

----------------------------------------------------------------------------
Commit ==
  /\ changes > 0
  /\ db' = [k \in {j \in 1..curBucketIDKeyName : hasKey(x, j)} |-> fetchKey(x, k)]
  /\ x' = begin(db') /\ changes' = 0
  /\ saved' = tree /\ UNCHANGED tree

Rollback ==
  /\ changes > 0
  /\ x' = begin(db) /\ changes' = 0
  /\ tree' = saved /\ UNCHANGED <<db, saved>>

Next ==
  \/ \E p \in Paths :
       \/ DeleteBucket(p)
       \/ \E key \in Keys : Delete(p, key) \/ \E value \in Values : Put(p, key, value)
       \/ \E name \in Names : CreateBucket(p, name)
  \/ Commit
  \/ Rollback

Spec == Init /\ [][Next]_vars

----------------------------------------------------------------------------
\* A function on numbers, as the sequence of its pairs in order.
RECURSIVE InOrder(_)
InOrder(f) ==
  IF DOMAIN f = {} THEN <<>>
  ELSE LET k == Min(DOMAIN f) IN
         <<[key |-> k, value |-> f[k]]>> \o InOrder([j \in DOMAIN f \ {k} |-> f[j]])

(* The buckets and pairs seen through Bucket, Get, ForEach and              *)
(* ForEachBucket are the ones the calls made, bucket by bucket: a pair of   *)
(* one bucket never shows in another, a bucket that was deleted and made    *)
(* anew is empty, and a rollback takes its buckets and their IDs back.      *)
BucketsAreATree ==
  \A p \in Paths :
    LET id    == Bucket(x, p)
        inner == {n \in Names : Append(p, n) \in DOMAIN tree}
        pairs == [k \in {bucketizedKey(id, j) : j \in DOMAIN tree[p]} |-> tree[p][k - bucketizedKey(id, 0)]] IN
      /\ (id # NoKey) <=> (p \in DOMAIN tree)
      /\ id # NoKey =>
           /\ \A k \in Keys : fetchKey(x, bucketizedKey(id, k))
                = IF k \in DOMAIN tree[p] THEN tree[p][k] ELSE NoKey
           /\ ForEachIn(x, ctKeys(id)) = InOrder(pairs)
           /\ [i \in DOMAIN ForEachIn(x, ctBuckets(id)) |-> ForEachIn(x, ctBuckets(id))[i].key]
                = [i \in 1..Cardinality(inner) |-> bucketIndexKey(id, InOrder([n \in inner |-> 0])[i].key)]

(* A bucket's pairs and the buckets nested in it are removed with it: the   *)
(* database holds nothing under the ID of a bucket that cannot be reached.  *)
NoOrphans ==
  \A id \in IDs : (\A p \in DOMAIN tree : Bucket(x, p) # id) =>
    /\ \A k \in Keys : ~hasKey(x, bucketizedKey(id, k))
    /\ \A n \in Names : ~hasKey(x, bucketIndexKey(id, n))
============================================================================
