---------------------------- MODULE BucketCursor ----------------------------
(***************************************************************************)
(* A read-write transaction and a cursor of it over one bucket.  The       *)
(* bucket's pairs are partly in the snapshot and partly pending.  The keys *)
(* are numbers, and so are the values: the key itself in the snapshot, 0   *)
(* for a pair that was put since.  pos is the key that the cursor was      *)
(* moved to, going by the pairs of the bucket.                             *)
(***************************************************************************)
EXTENDS Cursors

CONSTANTS
  Keys,        \* the keys of the bucket: numbers above 0
  Priorities,  \* what rand.Int may return
  MaxChanges,  \* bound: changes of the bucket in one transaction
  Turns,       \* whether Next and Prev may follow a move the other way
  JumpsPending \* whether First, Last and Seek may follow a change directly

VARIABLES x, c, pos, forwards, changes

vars == <<x, c, pos, forwards, changes>>

Bounds == [start |-> Min(Keys), limit |-> Max(Keys) + 1]

Init ==
  /\ \E S \in SUBSET Keys :
       x = [m |-> EmptyHeap, t |-> EmptyTreap, remove |-> {}, db |-> [k \in S |-> k]]
  /\ c = newCursor(x, Bounds)
  /\ pos = NoKey /\ forwards = TRUE /\ changes = 0

\* The pairs of the bucket, as the transaction should see them.
Present == {k \in Keys : hasKey(x, k)}

Collected(y, d) ==
  LET live == Nodes(y.m, y.t.root) \cup Nodes(y.m, d.pending.root) \cup Nodes(y.m, d.pending.node) IN
    [y EXCEPT !.m = [a \in Addresses |-> IF a \in live THEN y.m[a] ELSE Zero]]

----------------------------------------------------------------------------
MovesTo(d, key, dir) ==
  /\ c' = d /\ pos' = key /\ forwards' = dir
  /\ x' = Collected(x, d)
  /\ UNCHANGED changes

Repositionable == c.pending.seekKey = nil \/ JumpsPending

FirstPair == Repositionable /\ MovesTo(CursorFirst(x, c), FirstOf(Present), TRUE)

LastPair == Repositionable /\ MovesTo(CursorLast(x, c), LastOf(Present), FALSE)

Seek(key) == Repositionable /\ MovesTo(CursorSeek(x, c, key), FirstOf({k \in Present : k >= key}), TRUE)

\* A cursor that is exhausted stays so.
NextPair ==
  /\ forwards \/ Turns
  /\ MovesTo(CursorNext(x, c), IF pos = NoKey THEN NoKey ELSE FirstOf({k \in Present : k > pos}), TRUE)

PrevPair ==
  /\ ~forwards \/ Turns
  /\ MovesTo(CursorPrev(x, c), IF pos = NoKey THEN NoKey ELSE LastOf({k \in Present : k < pos}), FALSE)

\* A change of the transaction, of which its cursor is told.
ChangesTo(y, d) ==
  /\ changes < MaxChanges /\ changes' = changes + 1
  /\ c' = [notifyActiveIters(y, d) EXCEPT !.pending.parents = EmptyStack]
  /\ x' = Collected(y, c')

\* MUTANT: the pending pair is removed, and the one in the snapshot is not.
DeletedPending(y, key) ==
  LET s == MutableDelete(y.m, y.t, key) IN [y EXCEPT !.m = s.mem, !.t = s.treap]

Deleted(y, key) == deleteKey(y, key)

\* The cursor's own Delete does not invalidate it.
CursorDelete ==
  /\ c.current # "none"
  /\ ChangesTo(Deleted(x, rawKey(x, c)), c)
  /\ UNCHANGED <<pos, forwards>>

\* Any other change does: a new cursor is needed.
Change(y) ==
  /\ ChangesTo(y, newCursor(y, Bounds))
  /\ pos' = NoKey /\ forwards' = TRUE

Put(key) == \E priority \in Priorities : Change(putKey(x, key, 0, priority))

Delete(key) == Change(Deleted(x, key))

Next ==
  \/ FirstPair \/ LastPair \/ NextPair \/ PrevPair \/ CursorDelete
  \/ \E key \in Keys : Seek(key) \/ Put(key) \/ Delete(key)

Spec == Init /\ [][Next]_vars

----------------------------------------------------------------------------
(* The cursor is on the pair its last call should have moved it to: the     *)
(* pairs of the snapshot and the pending ones come in one order, each once, *)
(* and deleted ones do not come; deleting the pair the cursor is on leaves  *)
(* it able to move on.                                                      *)
CursorPlaced ==
  rawKey(x, c) = pos /\ (pos \in Present => rawValue(x, c) = fetchKey(x, pos))
============================================================================
