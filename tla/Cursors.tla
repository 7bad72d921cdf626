------------------------------ MODULE Cursors ------------------------------
(***************************************************************************)
(* The cursors of ffldb/db.go over one range of raw keys.  x is the        *)
(* transaction a cursor belongs to:                                        *)
(*    x.m, x.t     the treap of the pending keys (the treap holds numbers, *)
(*                 which stand for values)                                 *)
(*    x.remove     the keys pending removal                                *)
(*    x.db         the pairs of the snapshot, a function                   *)
(* A cursor has an iterator over the snapshot, which is a position in a    *)
(* sorted set that does not change, an iterator over the pending keys, and *)
(* points to one of them.                                                  *)
(***************************************************************************)
EXTENDS Treap

\* The key of an iterator over the snapshot that is not valid.
NoKey == -1

newCursor(x, r) ==
  [range |-> r, db |-> NoKey, pending |-> Iterator(r, x.t.root), current |-> "none"]

----------------------------------------------------------------------------
\* The iterator over the snapshot.

InDb(x, c) == {k \in DOMAIN x.db : k >= c.range.start /\ k < c.range.limit}

FirstOf(S) == IF S = {} THEN NoKey ELSE Min(S)

LastOf(S) == IF S = {} THEN NoKey ELSE Max(S)

\* Next and Prev of an iterator at key k; one that ran off stays there.
DbStep(x, c, k, forwards) ==
  IF forwards THEN FirstOf({j \in InDb(x, c) : j > k}) ELSE LastOf({j \in InDb(x, c) : j < k})

----------------------------------------------------------------------------
PendingValid(c) == c.pending.node # nil

PendingKey(x, c) == x.m[c.pending.node].key

Has(x, key) == get(x.m, x.t.root, key) # nil

\* The transaction has a newer answer for a key of the snapshot.
Updated(x, key) == key \in x.remove \/ Has(x, key)

RECURSIVE skipPendingUpdates(_, _, _)
skipPendingUpdates(x, c, forwards) ==
  IF c.db # NoKey /\ Updated(x, c.db)
  THEN skipPendingUpdates(x, [c EXCEPT !.db = DbStep(x, c, @, forwards)], forwards)
  ELSE c

chooseIterator(x, c0, forwards) ==
  LET c == skipPendingUpdates(x, c0, forwards) IN
    [c EXCEPT !.current =
       CASE c.db = NoKey /\ ~PendingValid(c) -> "none"
         [] c.db # NoKey /\ ~PendingValid(c) -> "db"
         [] c.db = NoKey /\ PendingValid(c)  -> "pending"
         [] OTHER -> IF (forwards /\ c.db > PendingKey(x, c)) \/ (~forwards /\ c.db < PendingKey(x, c))
                     THEN "pending" ELSE "db"]

CursorFirst(x, c) ==
  chooseIterator(x, [c EXCEPT !.db = FirstOf(InDb(x, c)), !.pending = IterFirst(x.m, @)], TRUE)

CursorLast(x, c) ==
  chooseIterator(x, [c EXCEPT !.db = LastOf(InDb(x, c)), !.pending = IterLast(x.m, @)], FALSE)

CursorNext(x, c) ==
  CASE c.current = "none"    -> c
    [] c.current = "db"      -> chooseIterator(x, [c EXCEPT !.db = DbStep(x, c, @, TRUE)], TRUE)
    [] c.current = "pending" -> chooseIterator(x, [c EXCEPT !.pending = IterNext(x.m, @)], TRUE)

CursorPrev(x, c) ==
  CASE c.current = "none"    -> c
    [] c.current = "db"      -> chooseIterator(x, [c EXCEPT !.db = DbStep(x, c, @, FALSE)], FALSE)
    [] c.current = "pending" -> chooseIterator(x, [c EXCEPT !.pending = IterPrev(x.m, @)], FALSE)

CursorSeek(x, c, key) ==
  chooseIterator(x, [c EXCEPT !.db = FirstOf({k \in InDb(x, c) : k >= key}),
                              !.pending = IterSeek(x.m, @, key)], TRUE)

\* rawKey and rawValue.
rawKey(x, c) ==
  CASE c.current = "none"    -> NoKey
    [] c.current = "db"      -> c.db
    [] c.current = "pending" -> PendingKey(x, c)

rawValue(x, c) ==
  CASE c.current = "none"    -> NoKey
    [] c.current = "db"      -> x.db[c.db]
    [] c.current = "pending" -> x.m[c.pending.node].value

----------------------------------------------------------------------------
\* The transaction.

putKey(x, key, value, priority) ==
  LET s == MutablePut(x.m, x.t, key, value, priority) IN
    [x EXCEPT !.remove = @ \ {key}, !.m = s.mem, !.t = s.treap]

deleteKey(x, key) ==
  LET s == MutableDelete(x.m, x.t, key) IN
    [x EXCEPT !.remove = @ \cup {key}, !.m = s.mem, !.t = s.treap]

fetchKey(x, key) ==
  CASE key \in x.remove -> NoKey
    [] key \notin x.remove /\ Has(x, key) -> x.m[get(x.m, x.t.root, key)].value
    [] OTHER -> IF key \in DOMAIN x.db THEN x.db[key] ELSE NoKey

hasKey(x, key) == key \notin x.remove /\ (Has(x, key) \/ key \in DOMAIN x.db)

\* A cursor is among the active iterators until it is released.
notifyActiveIters(x, c) == [c EXCEPT !.pending = ForceReseek(x.m, @, x.t.root)]
============================================================================
