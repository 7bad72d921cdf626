--------------------------- MODULE ImmutableTreap ---------------------------
(***************************************************************************)
(* An immutable treap, used as the database cache uses it: one holder puts *)
(* pairs and deletes keys and replaces its treap by the one returned, and  *)
(* others keep an earlier treap as a snapshot.  The treaps share nodes in  *)
(* one heap.  Put recycles the nodes of the treaps between two of its      *)
(* pairs.  map holds what each treap stands for.                           *)
(***************************************************************************)
EXTENDS Treap

CONSTANTS
  Keys,        \* the keys: numbers above 0
  Batches,     \* the sequences of [key, value] that are put in one call
  Priorities   \* what rand.Int may return

VARIABLES m, treap, map

vars == <<m, treap, map>>

Holders == {"current", "snapshot"}

Absent == -2

Init ==
  /\ m = EmptyHeap
  /\ treap = [h \in Holders |-> EmptyTreap]
  /\ map = [h \in Holders |-> [k \in Keys |-> Absent]]

\* Between two calls what neither treap reaches is collected, and the nodes
\* are moved: addresses mean nothing, and a heap that differs from another
\* in them alone is not told apart.  Where gives the address a node goes to;
\* mine are the nodes of the current treap.
Where(h, mine, a) ==
  IF a = nil THEN nil ELSE IF a \in mine THEN h[a].key ELSE h[a].key + Span

Collected(h, mine, old) ==
  LET to == [a \in mine \cup old |-> Where(h, mine, a)] IN
    [b \in Addresses |->
       LET from == {a \in mine \cup old : to[a] = b} IN
         IF from = {} THEN Zero
         ELSE LET n == h[CHOOSE a \in from : TRUE] IN
                [n EXCEPT !.left = Where(h, mine, @), !.right = Where(h, mine, @)]]

\* The state in which the two holders have treaps t and s of heap h.
Held(h, t, s) ==
  LET mine == Nodes(h, t.root) IN
    [treap |-> [current  |-> [t EXCEPT !.root = Where(h, mine, @)],
                snapshot |-> [s EXCEPT !.root = Where(h, mine, @)]],
     m     |-> Collected(h, mine, Nodes(h, s.root))]

----------------------------------------------------------------------------
\* The nodes of parents are replaced by copies from position i on, counted
\* from the bottom of the stack; s is [mem, parents, created].
RECURSIVE Replace(_, _, _)
Replace(s, parents, i) ==
  LET node  == At(parents, parents.index - i)
      copy  == Free(s.mem, s.mem[node].key)
      above == At(s.parents, 0)
      mem   == cloneTreapNode(s.mem, node) IN
    IF i > parents.index THEN s
    ELSE Replace([mem |-> IF above = nil THEN mem
                          ELSE relinkGrandparent([mem |-> mem, root |-> nil], copy, node, above).mem,
                  parents |-> Push(s.parents, copy),
                  created |-> Append(s.created, copy)], parents, i + 1)

Replaced(mem, parents) ==
  Replace([mem |-> mem, parents |-> EmptyStack, created |-> <<>>], parents, 1)

\* The nodes put remembers: as many as the array has room for.
Remembered(created) == SubSeq(created, 1, IF Len(created) < staticDepth THEN Len(created) ELSE staticDepth)

\* put: [mem, treap, created], for a new node's priority.
put(mem, t, key, value, priority) ==
  LET r       == Replaced(mem, Descend(mem, t.root, key, EmptyStack))
      found   == get(mem, t.root, key)
      last    == At(r.parents, 0)
      root    == At(r.parents, r.parents.index - 1)
      node    == Free(r.mem, key)
      added   == newTreapNode(r.mem, key, value, priority)
      linked  == IF key < added[last].key THEN [added EXCEPT ![last].left = node]
                                          ELSE [added EXCEPT ![last].right = node]
      turned  == MoveUp([mem |-> linked, root |-> root], node, r.parents) IN
    CASE t.root = nil ->
           [mem |-> added, created |-> <<node>>,
            treap |-> [root |-> node, count |-> 1, totalSize |-> nodeSize([value |-> value])]]
      [] t.root # nil /\ found # nil ->
           [mem |-> [r.mem EXCEPT ![last].value = value], created |-> Remembered(r.created),
            treap |-> [t EXCEPT !.root = root, !.totalSize = @ - mem[found].value + value]]
      [] OTHER ->
           [mem |-> turned.mem, created |-> Remembered(Append(r.created, node)),
            treap |-> [root |-> turned.root, count |-> t.count + 1,
                       totalSize |-> t.totalSize + nodeSize([value |-> value])]]

\* MUTANT: all nodes of the treap before are recycled.
UnusedAnyway(mem, t, n) == TRUE

\* A node of the treap before is recycled unless the treap after has it.
Unused(mem, t, n) == get(mem, t.root, mem[n].key) # n

RECURSIVE Recycle(_, _, _)
Recycle(mem, t, nodes) ==
  IF nodes = <<>> THEN mem
  ELSE Recycle(IF Unused(mem, t, Head(nodes)) THEN recycle(mem, Head(nodes)) ELSE mem, t, Tail(nodes))

\* The loop of Put over the pairs; previous are the nodes of the last turn.
RECURSIVE PutAll(_, _, _, _, _)
PutAll(mem, t, pairs, previous, priorities) ==
  LET p == put(mem, t, Head(pairs).key, Stored(Head(pairs).value), Head(priorities)) IN
    IF pairs = <<>> THEN [mem |-> mem, treap |-> t]
    ELSE PutAll(Recycle(p.mem, p.treap, previous), p.treap, Tail(pairs), p.created, Tail(priorities))

RECURSIVE MapPut(_, _)
MapPut(f, pairs) ==
  IF pairs = <<>> THEN f
  ELSE MapPut([f EXCEPT ![Head(pairs).key] = Stored(Head(pairs).value)], Tail(pairs))

\* The states a call may lead to.
Becomes(states) == \E n \in states : m' = n.m /\ treap' = n.treap

Put(pairs) ==
  /\ Becomes({LET s == PutAll(m, treap["current"], pairs, <<>>, priorities) IN
                Held(s.mem, s.treap, treap["snapshot"]) :
              priorities \in [1..Len(pairs) -> Priorities]})
  /\ map' = [map EXCEPT !["current"] = MapPut(@, pairs)]

Deleted(t, key) ==
  LET parents == Descend(m, t.root, key, EmptyStack)
      del     == get(m, t.root, key)
      r       == Replaced(m, parents)
      above   == Pop(r.parents)
      root    == At(above, above.index - 1)
      s       == MoveDown([mem |-> r.mem, root |-> root], At(r.parents, 0), At(above, 0), TRUE) IN
    CASE del = nil -> [mem |-> m, treap |-> t]
      [] del # nil /\ parents.index = 1 /\ m[del].left = nil /\ m[del].right = nil ->
           [mem |-> m, treap |-> EmptyTreap]
      [] OTHER -> [mem |-> s.mem,
                   treap |-> [root |-> s.root, count |-> t.count - 1,
                              totalSize |-> t.totalSize - nodeSize(m[del])]]

Delete(key) ==
  /\ Becomes({LET s == Deleted(treap["current"], key) IN
                Held(s.mem, s.treap, treap["snapshot"])})
  /\ map' = [map EXCEPT !["current"][key] = Absent]

\* Someone keeps the current treap.
Snapshot ==
  /\ Becomes({Held(m, treap["current"], treap["current"])})
  /\ map' = [map EXCEPT !["snapshot"] = map["current"]]

Next ==
  \/ Snapshot
  \/ \E key \in Keys : Delete(key)
  \/ \E pairs \in Batches : Put(pairs)

Spec == Init /\ [][Next]_vars

----------------------------------------------------------------------------
Pairs(f) ==
  LET ks == {k \in Keys : f[k] # Absent} IN
    [i \in 1..Cardinality(ks) |->
       LET k == CHOOSE k \in ks : Cardinality({j \in ks : j < k}) = i - 1 IN
         [key |-> k, value |-> f[k]]]

(* Every treap that is still held has the pairs it had when Put or Delete   *)
(* returned it, in the order of their keys, with their number and size: no  *)
(* later call on another treap writes to a node it shares, and none of its  *)
(* nodes was recycled.                                                      *)
Persistent ==
  \A h \in Holders :
    /\ ForEach(m, treap[h]) = Pairs(map[h])
    /\ treap[h].count = Len(Pairs(map[h]))
    /\ treap[h].totalSize = FoldSet(LAMBDA k, acc : acc + nodeSize([value |-> map[h][k]]), 0,
                                    {k \in Keys : map[h][k] # Absent})
============================================================================
