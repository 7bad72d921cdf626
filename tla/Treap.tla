---------------------------- MODULE Treap ----------------------------
(***************************************************************************)
(* The treaps of database/internal/treap, at the level of their nodes.  A  *)
(* heap m maps a node's address to the node; address 0 is nil.  A node     *)
(* that nobody points to is zero, as a recycled one is: newTreapNode       *)
(* returns one that is, the first of those set aside for its key.  A key   *)
(* is a number, a value is its length.  A treap is [root, count,           *)
(* totalSize].                                                             *)
(***************************************************************************)
EXTENDS Integers, Sequences, FiniteSets, FiniteSetsExt

CONSTANTS
  Addresses,       \* bound: the addresses of nodes, 1..n
  Span,            \* how many keys there are: addresses are given out by key
  nodeFieldsSize,  \* what a node costs beside its key and value
  staticDepth      \* the size of the fixed part of a parentStack

nil == 0

\* The value of a key that was stored with no value at all.
NoValue == -1

Zero == [key |-> nil, value |-> nil, priority |-> 0, left |-> nil, right |-> nil]

EmptyHeap == [a \in Addresses |-> Zero]

EmptyTreap == [root |-> nil, count |-> 0, totalSize |-> 0]

Free(m, key) == Min({a \in Addresses : a % Span = key % Span /\ m[a] = Zero})

newTreapNode(m, key, value, priority) ==
  [m EXCEPT ![Free(m, key)] = [Zero EXCEPT !.key = key, !.value = value, !.priority = priority]]

cloneTreapNode(m, n) == [m EXCEPT ![Free(m, m[n].key)] = m[n]]

recycle(m, n) == [m EXCEPT ![n] = Zero]

\* A key is one byte long.
nodeSize(node) == nodeFieldsSize + 1 + node.value

\* Both Put functions: no value is an empty one.
Stored(value) == IF value = NoValue THEN 0 ELSE value

----------------------------------------------------------------------------
\* parentStack: a fixed array and an overflow slice that only grows.

EmptyStack == [index |-> 0, items |-> [i \in 0..staticDepth - 1 |-> nil], overflow |-> <<>>]

At(s, n) ==
  LET index == s.index - n - 1 IN
    CASE index < 0           -> nil
      [] index \in 0..staticDepth - 1 -> s.items[index]
      [] OTHER               -> s.overflow[index - staticDepth + 1]

\* The stack after Pop; At(s, 0) is what Pop returns.
Pop(s) ==
  LET index == s.index - 1 IN
    CASE index < 0           -> s
      [] index \in 0..staticDepth - 1 -> [s EXCEPT !.index = index, !.items[index] = nil]
      [] OTHER               -> [s EXCEPT !.index = index, !.overflow[index - staticDepth + 1] = nil]

Push(s, node) ==
  LET index == s.index - staticDepth + 1 IN
    IF s.index < staticDepth
    THEN [s EXCEPT !.index = @ + 1, !.items[s.index] = node]
    ELSE [s EXCEPT !.index = @ + 1,
                   !.overflow = IF index > Len(@) THEN Append(@, node) ELSE [@ EXCEPT ![index] = node]]

----------------------------------------------------------------------------
\* Reading a treap.

RECURSIVE get(_, _, _)
get(m, n, key) ==
  CASE n = nil          -> nil
    [] n # nil /\ key < m[n].key -> get(m, m[n].left, key)
    [] n # nil /\ key > m[n].key -> get(m, m[n].right, key)
    [] OTHER            -> n

\* The nodes on the way to a key, pushed on s.
RECURSIVE Descend(_, _, _, _)
Descend(m, n, key, s) ==
  CASE n = nil          -> s
    [] n # nil /\ key < m[n].key -> Descend(m, m[n].left, key, Push(s, n))
    [] n # nil /\ key > m[n].key -> Descend(m, m[n].right, key, Push(s, n))
    [] OTHER            -> Push(s, n)

\* The nodes down the left side, pushed on s.
RECURSIVE Leftmost(_, _, _)
Leftmost(m, n, s) == IF n = nil THEN s ELSE Leftmost(m, m[n].left, Push(s, n))

RECURSIVE Traverse(_, _)
Traverse(m, s) ==
  LET n == At(s, 0) IN
    IF s.index = 0 THEN <<>>
    ELSE <<[key |-> m[n].key, value |-> m[n].value]>>
           \o Traverse(m, Leftmost(m, m[n].right, Pop(s)))

\* What ForEach calls its function with.
ForEach(m, t) == Traverse(m, Leftmost(m, t.root, EmptyStack))

RECURSIVE Nodes(_, _)
Nodes(m, n) == IF n = nil THEN {} ELSE {n} \cup Nodes(m, m[n].left) \cup Nodes(m, m[n].right)

----------------------------------------------------------------------------
\* Changing one.  The loops pass on [mem, root].

\* The pointer to child of parent, or of the treap, is set to new.
relinkGrandparent(s, new, child, parent) ==
  CASE parent = nil -> [s EXCEPT !.root = new]
    [] parent # nil /\ s.mem[parent].left = child -> [s EXCEPT !.mem[parent].left = new]
    [] OTHER -> [s EXCEPT !.mem[parent].right = new]

RotateRight(m, node, parent) ==
  [m EXCEPT ![node].right = parent, ![parent].left = m[node].right]

RotateLeft(m, node, parent) ==
  [m EXCEPT ![node].left = parent, ![parent].right = m[node].left]

\* The rotations that move a new node up.
RECURSIVE MoveUp(_, _, _)
MoveUp(s, node, parents) ==
  LET parent == At(parents, 0)
      rest   == Pop(parents)
      turned == IF s.mem[parent].left = node THEN RotateRight(s.mem, node, parent)
                                             ELSE RotateLeft(s.mem, node, parent) IN
    IF parents.index = 0 \/ s.mem[node].priority >= s.mem[parent].priority THEN s
    ELSE MoveUp(relinkGrandparent([s EXCEPT !.mem = turned], node, parent, At(rest, 0)), node, rest)

\* The child that replaces a node to be deleted.
Child(m, n) ==
  CASE m[n].left = nil  -> m[n].right
    [] m[n].right = nil -> m[n].left
    [] OTHER -> IF m[m[n].left].priority >= m[m[n].right].priority THEN m[n].left ELSE m[n].right

\* The rotations that move a node to be deleted down to a leaf, and its
\* removal.  An immutable treap copies every child that it turns.
RECURSIVE MoveDown(_, _, _, _)
MoveDown(s, node, parent, copies) ==
  IF s.mem[node].left = nil /\ s.mem[node].right = nil
  THEN IF s.mem[parent].right = node THEN [s EXCEPT !.mem[parent].right = nil]
                                     ELSE [s EXCEPT !.mem[parent].left = nil]
  ELSE LET old    == Child(s.mem, node)
           child  == IF copies THEN Free(s.mem, s.mem[old].key) ELSE old
           m      == IF copies THEN cloneTreapNode(s.mem, old) ELSE s.mem
           turned == IF s.mem[node].left = old THEN RotateRight(m, child, node)
                                               ELSE RotateLeft(m, child, node) IN
         MoveDown(relinkGrandparent([s EXCEPT !.mem = turned], child, node, parent), node, child, copies)

----------------------------------------------------------------------------
\* The mutable treap: [mem, treap] after a call.

Inserted(m, t, key, value, priority) ==
  LET parents == Descend(m, t.root, key, EmptyStack)
      node    == Free(m, key)
      parent  == At(parents, 0)
      added   == newTreapNode(m, key, value, priority)
      linked  == IF key < m[parent].key THEN [added EXCEPT ![parent].left = node]
                                        ELSE [added EXCEPT ![parent].right = node] IN
    IF t.root = nil THEN [mem |-> added, root |-> node]
    ELSE MoveUp([mem |-> linked, root |-> t.root], node, parents)

\* Put, with the priority a new node is given.
MutablePut(m, t, key, value, priority) ==
  LET n == get(m, t.root, key)
      s == Inserted(m, t, key, value, priority) IN
    IF n # nil
    THEN [mem |-> [m EXCEPT ![n].value = value], treap |-> [t EXCEPT !.totalSize = @ - m[n].value + value]]
    ELSE [mem |-> s.mem, treap |-> [root |-> s.root, count |-> t.count + 1,
                                    totalSize |-> t.totalSize + nodeSize([value |-> value])]]

MutableDelete(m, t, key) ==
  LET n      == get(m, t.root, key)
      parent == At(Pop(Descend(m, t.root, key, EmptyStack)), 0)
      s      == MoveDown([mem |-> m, root |-> t.root], n, parent, FALSE) IN
    CASE n = nil -> [mem |-> m, treap |-> t]
      [] n # nil /\ parent = nil /\ m[n].left = nil /\ m[n].right = nil -> [mem |-> m, treap |-> EmptyTreap]
      [] OTHER -> [mem |-> s.mem, treap |-> [root |-> s.root, count |-> t.count - 1,
                                             totalSize |-> t.totalSize - nodeSize(m[n])]]

-----------------------------------------------------------------------------
(* The iterators of treapiter.go: over the nodes of heap m, from the root  *)
(* they were created with, within a range of keys.  An operator that moves *)
(* an iterator returns the iterator moved; the method's result is whether  *)
(* it has a node.  A key of nil stands for none.                           *)

Iterator(r, root) ==
  [root |-> root, node |-> nil, parents |-> EmptyStack, isNew |-> TRUE,
   seekKey |-> nil, startKey |-> r.start, limitKey |-> r.limit]

limitIterator(m, i) ==
  LET key == m[i.node].key IN
    IF /\ i.node # nil
       /\ \/ i.startKey # nil /\ key < i.startKey
          \/ i.limitKey # nil /\ key >= i.limitKey
    THEN [i EXCEPT !.node = nil] ELSE i

\* The stack without the nodes below the selected one.
RECURSIVE Cut(_, _)
Cut(s, depth) == IF s.index > depth THEN Cut(Pop(s), depth) ELSE s

\* One turn of the loop of seek, at node n; depth is that of i.node.
RECURSIVE SeekFrom(_, _, _, _, _, _, _)
SeekFrom(m, i, n, depth, key, exactMatch, greater) ==
  LET s      == Push(i.parents, n)
      onward == [i EXCEPT !.parents = s]
      chosen == [onward EXCEPT !.node = n] IN
    CASE n = nil -> limitIterator(m, [i EXCEPT !.parents = Cut(@, depth)])
      [] n # nil /\ key < m[n].key ->
           IF greater THEN SeekFrom(m, chosen, m[n].left, s.index - 1, key, exactMatch, greater)
                      ELSE SeekFrom(m, onward, m[n].left, depth, key, exactMatch, greater)
      [] n # nil /\ key > m[n].key ->
           IF greater THEN SeekFrom(m, onward, m[n].right, depth, key, exactMatch, greater)
                      ELSE SeekFrom(m, chosen, m[n].right, s.index - 1, key, exactMatch, greater)
      [] OTHER ->
           IF exactMatch THEN limitIterator(m, [chosen EXCEPT !.parents = Pop(@)])
           ELSE SeekFrom(m, onward, IF greater THEN m[n].right ELSE m[n].left, depth, key, exactMatch, greater)

seek(m, i, key, exactMatch, greater) ==
  SeekFrom(m, [i EXCEPT !.node = nil, !.parents = EmptyStack], i.root, 0, key, exactMatch, greater)

\* Down to the outermost node on one side: First, Last and their turns.
RECURSIVE Outermost(_, _, _, _)
Outermost(m, i, n, left) ==
  LET next == IF left THEN m[n].left ELSE m[n].right IN
    IF next = nil THEN [i EXCEPT !.node = n]
    ELSE Outermost(m, [i EXCEPT !.parents = Push(@, n)], next, left)

IterFirst(m, i) ==
  LET fresh == [i EXCEPT !.isNew = FALSE] IN
    IF i.startKey # nil THEN seek(m, fresh, i.startKey, TRUE, TRUE)
    ELSE IF i.root = nil THEN [fresh EXCEPT !.parents = EmptyStack]
    ELSE Outermost(m, [fresh EXCEPT !.parents = EmptyStack], i.root, TRUE)

IterLast(m, i) ==
  LET fresh == [i EXCEPT !.isNew = FALSE] IN
    IF i.limitKey # nil THEN seek(m, fresh, i.limitKey, FALSE, FALSE)
    ELSE IF i.root = nil THEN [fresh EXCEPT !.parents = EmptyStack]
    ELSE Outermost(m, [fresh EXCEPT !.parents = EmptyStack], i.root, FALSE)

\* Up to the first parent the node is not on the far side of.
RECURSIVE Climb(_, _, _)
Climb(m, i, forward) ==
  LET parent == At(i.parents, 0)
      up     == [i EXCEPT !.node = parent, !.parents = Pop(@)] IN
    IF parent # nil /\ (IF forward THEN m[parent].right ELSE m[parent].left) = i.node
    THEN Climb(m, up, forward) ELSE up

\* Next and Prev once the iterator is positioned.
Advance(m, i, forward) ==
  LET child == IF forward THEN m[i.node].right ELSE m[i.node].left IN
    CASE i.node = nil    -> i
      [] i.node # nil /\ i.seekKey # nil ->
           seek(m, [i EXCEPT !.seekKey = nil], i.seekKey, FALSE, forward)
      [] i.node # nil /\ i.seekKey = nil /\ child = nil -> limitIterator(m, Climb(m, i, forward))
      [] OTHER -> limitIterator(m, 
           Outermost(m, [i EXCEPT !.parents = Push(@, i.node)], child, forward))

IterNext(m, i) == IF i.isNew THEN IterFirst(m, i) ELSE Advance(m, i, TRUE)

IterPrev(m, i) == IF i.isNew THEN IterLast(m, i) ELSE Advance(m, i, FALSE)

IterSeek(m, i, key) == seek(m, [i EXCEPT !.isNew = FALSE], key, TRUE, TRUE)

ForceReseek(m, i, root) ==
  [i EXCEPT !.root = root, !.seekKey = IF i.node = nil THEN nil ELSE m[i.node].key]
============================================================================
