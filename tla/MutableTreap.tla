---------------------------- MODULE MutableTreap ----------------------------
(***************************************************************************)
(* A mutable treap and one iterator over it, used as a transaction uses    *)
(* its pending keys: after every change of the treap the iterator is told  *)
(* to seek again.  map and pos are what the treap and the iterator stand   *)
(* for: the pairs that were stored, and the key the iterator was moved to. *)
(***************************************************************************)
EXTENDS Treap

CONSTANTS
  Keys,        \* the keys: numbers above 0
  Puts,        \* the <<key, value>> to be stored; a value is its length or NoValue
  Priorities,  \* what rand.Int may return
  Ranges,      \* the ranges of the iterator: [start, limit], nil for none
  JumpsPending \* whether First, Last and Seek may be called between a change
               \* of the treap and the next call of Next or Prev

VARIABLES m, t, map, it, pos

vars == <<m, t, map, it, pos>>

Absent == -2

\* The key of an iterator that was not positioned yet, or is exhausted.
NoKey == -3

Init ==
  /\ m = EmptyHeap /\ t = EmptyTreap
  /\ map = [k \in Keys |-> Absent]
  /\ \E r \in Ranges : it = Iterator(r, nil)
  /\ pos = NoKey

\* What is still reachable stays; the rest is collected.
Collect(h, root, i) ==
  LET live == Nodes(h, root) \cup Nodes(h, i.root) \cup Nodes(h, i.node) IN
    [a \in Addresses |-> IF a \in live THEN h[a] ELSE Zero]

----------------------------------------------------------------------------
\* What the iterator's methods should find, given the pairs that are stored.

InRange(k) == (it.startKey # nil => k >= it.startKey) /\ (it.limitKey # nil => k < it.limitKey)

Present == {k \in Keys : map[k] # Absent /\ InRange(k)}

Least(S) == IF S = {} THEN NoKey ELSE Min(S)

Greatest(S) == IF S = {} THEN NoKey ELSE Max(S)

\* A key before the range is sought too: what is found there is refused.
Sought(key) ==
  LET k == Least({x \in Keys : map[x] # Absent /\ x >= key}) IN
    IF k \in Present THEN k ELSE NoKey

Jumps ==
  {<<IterFirst(m, it), Least(Present)>>, <<IterLast(m, it), Greatest(Present)>>}
  \cup {<<IterSeek(m, it, key), Sought(key)>> : key \in Keys}

Steps ==
  {<<IterNext(m, it), IF it.isNew THEN Least(Present)
                   ELSE IF pos = NoKey THEN NoKey ELSE Least({k \in Present : k > pos})>>,
   <<IterPrev(m, it), IF it.isNew THEN Greatest(Present)
                   ELSE IF pos = NoKey THEN NoKey ELSE Greatest({k \in Present : k < pos})>>}

\* First, Last, Next, Prev and Seek.
Move ==
  \E mv \in Steps \cup (IF it.seekKey = nil \/ JumpsPending THEN Jumps ELSE {}) :
    /\ it' = mv[1] /\ pos' = mv[2]
    /\ m' = Collect(m, t.root, mv[1])
    /\ UNCHANGED <<t, map>>

NewIterator ==
  \E r \in Ranges :
    /\ it' = Iterator(r, t.root) /\ pos' = NoKey
    /\ m' = Collect(m, t.root, it')
    /\ UNCHANGED <<t, map>>

----------------------------------------------------------------------------
\* The treap: a change, and the call of ForceReseek that has to follow it.
\* Every call that would read the stack of parents builds it anew then: it
\* is forgotten at once.

Changed(mem, treap) ==
  /\ t' = treap
  /\ it' = [ForceReseek(m, it, treap.root) EXCEPT !.parents = EmptyStack]
  /\ m' = Collect(mem, treap.root, it')
  /\ UNCHANGED pos

Put(key, value) ==
  /\ map' = [map EXCEPT ![key] = Stored(value)]
  /\ \E priority \in Priorities :
       LET s == MutablePut(m, t, key, Stored(value), priority) IN Changed(s.mem, s.treap)

Delete(key) ==
  /\ map' = [map EXCEPT ![key] = Absent]
  /\ LET s == MutableDelete(m, t, key) IN Changed(s.mem, s.treap)

Reset ==
  /\ map' = [k \in Keys |-> Absent]
  /\ Changed(m, EmptyTreap)

Next ==
  \/ Move \/ NewIterator \/ Reset
  \/ (\E key \in Keys : Delete(key)) \/ (\E kv \in Puts : Put(kv[1], kv[2]))

Spec == Init /\ [][Next]_vars

----------------------------------------------------------------------------
Pairs ==
  LET ks == {k \in Keys : map[k] # Absent} IN
    [i \in 1..Cardinality(ks) |->
       LET k == CHOOSE k \in ks : Cardinality({j \in ks : j < k}) = i - 1 IN
         [key |-> k, value |-> map[k]]]

(* ForEach visits exactly the pairs that were stored and not deleted, in    *)
(* the order of their keys, and Len and Size agree with them, whatever      *)
(* rotations the calls of Put and Delete caused.                            *)
HoldsPairs ==
  /\ ForEach(m, t) = Pairs
  /\ t.count = Len(Pairs)
  /\ t.totalSize = FoldSet(LAMBDA k, acc : acc + nodeSize([value |-> map[k]]), 0,
                           {k \in Keys : map[k] # Absent})

(* The iterator is where its last call should have moved it: on the first   *)
(* key of its range before or after the one it was on, also when the treap  *)
(* was changed in between, and that key deleted.                            *)
IteratorPlaced ==
  IF pos = NoKey THEN it.node = nil ELSE it.node # nil /\ m[it.node].key = pos

============================================================================
