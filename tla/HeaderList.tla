----------------------------- MODULE HeaderList -----------------------------
(***************************************************************************)
(* The bounded chain of headers in memory (neutrino/headerlist): a ring of *)
(* nodes with pointers to the node before and, to skip, to an ancestor.    *)
(* A pointer is the number of a slot, so that it leads to whatever was     *)
(* written to the slot last.                                               *)
(*                                                                         *)
(* A header is the number of the fork it was pushed on, a fork starting    *)
(* with every ResetHeaderState; callers push consecutive heights.          *)
(***************************************************************************)
EXTENDS Integers, Sequences, SequencesExt

CONSTANTS
  Sizes,       \* of the ring
  Starts,      \* the heights ResetHeaderState begins with
  MaxHeight,   \* bound: the highest header
  MaxResets    \* bound: of calls of ResetHeaderState

VARIABLES
  maxSize,
  headPtr,
  tailPtr,
  len,
  chain,   \* [slot -> node]
  list     \* history: what was pushed since the last reset, [height, header]

vars == <<maxSize, headPtr, tailPtr, len, chain, list>>

nil == -1
Endless == -2

Slots == 0..maxSize - 1

NoNode == [height |-> 0, header |-> 0, prev |-> nil, ancestor |-> nil]

Init ==
  /\ maxSize \in Sizes
  /\ headPtr = -1 /\ tailPtr = -1 /\ len = 0
  /\ chain = [i \in Slots |-> NoNode]
  /\ list = <<>>

----------------------------------------------------------------------------
\* n & (n - 1)
invertLowestOne(n) ==
  IF n = 0 THEN 0
  ELSE n - (CHOOSE p \in {2^i : i \in 0..30} : n % p = 0 /\ (n \div p) % 2 = 1)

getAncestorHeight(height) ==
  IF height <= 0 THEN 0 ELSE invertLowestOne(invertLowestOne(height))

\* MUTANT: the height of the node that the pointer leads to is not looked at.
SkipsBlindly(c, i, height) == c[i].ancestor # nil /\ getAncestorHeight(c[i].height) >= height

\* The pointer of slot i leads to a node that is still the ancestor.
Skips(c, i, height) ==
  /\ c[i].ancestor # nil
  /\ getAncestorHeight(c[i].height) >= height
  /\ c[c[i].ancestor].height >= height
  /\ c[c[i].ancestor].height < c[i].height

\* The loop of Ancestor from slot i.  It visits no slot twice, or it would
\* never end.
RECURSIVE Walk(_, _, _, _)
Walk(c, i, height, visited) ==
  IF i \in visited THEN Endless
  ELSE IF i = nil \/ c[i].height = height THEN i
  ELSE Walk(c, IF Skips(c, i, height) THEN c[i].ancestor ELSE c[i].prev, height, visited \cup {i})

Ancestor(c, i, height) ==
  IF i = nil \/ height > c[i].height THEN nil ELSE Walk(c, i, height, {Endless})

buildAncestor(c, i) ==
  IF c[i].prev = nil THEN c
  ELSE [c EXCEPT ![i].ancestor = Ancestor(c, c[i].prev, getAncestorHeight(c[i].height))]

\* The new head of the ring has no node before it.
Cut(c, i) == [c EXCEPT ![i].prev = nil]

\* PushBack on a ring with the given pointers and length.
Push(head, tail, length, height, header) ==
  LET prevElem == IF maxSize = 1 THEN nil ELSE tail
      newTail  == (tail + 1) % maxSize
      wraps    == newTail <= head \/ head = -1
      newHead  == IF wraps THEN (head + 1) % maxSize ELSE head
      cut      == IF wraps THEN Cut(chain, newHead) ELSE chain
      node     == [height |-> height, header |-> header, prev |-> prevElem, ancestor |-> nil] IN
    /\ UNCHANGED maxSize
    /\ headPtr' = newHead
    /\ tailPtr' = newTail
    /\ chain' = buildAncestor([cut EXCEPT ![newTail] = node], newTail)
    /\ len' = IF length + 1 > maxSize THEN maxSize ELSE length + 1

Back == IF tailPtr = -1 /\ headPtr = -1 THEN nil ELSE tailPtr

Front_ == IF tailPtr = -1 /\ headPtr = -1 THEN nil ELSE headPtr

PushBack ==
  /\ list # <<>>
  /\ Last(list).height < MaxHeight
  /\ Push(headPtr, tailPtr, len, Last(list).height + 1, Last(list).header)
  /\ list' = Append(list, [height |-> Last(list).height + 1, header |-> Last(list).header])

ResetHeaderState(height) ==
  LET fork == IF list = <<>> THEN 1 ELSE Last(list).header + 1 IN
    /\ fork <= MaxResets
    /\ Push(-1, -1, 0, height, fork)
    /\ list' = <<[height |-> height, header |-> fork]>>

Next == PushBack \/ \E height \in Starts : ResetHeaderState(height)

Spec == Init /\ [][Next]_vars

----------------------------------------------------------------------------
\* The nodes that the ring must hold: the last maxSize of the list.
Held == [i \in 1..(IF Len(list) < maxSize THEN Len(list) ELSE maxSize) |->
          list[Len(list) - (IF Len(list) < maxSize THEN Len(list) ELSE maxSize) + i]]

\* The slot of the i-th of them.
Slot(i) == (headPtr + i - 1) % maxSize

\* The ring holds the last maxSize headers that were pushed, in order, from
\* Front to Back, and walking back with Prev meets exactly these: no pointer
\* leads around the ring into a header that replaced another.
RingHolds ==
  /\ len = Len(Held)
  /\ list # <<>> => Front_ = Slot(1) /\ Back = Slot(len)
  /\ \A i \in DOMAIN Held :
       LET node == chain[Slot(i)] IN
         /\ [height |-> node.height, header |-> node.header] = Held[i]
         /\ node.prev = IF i = 1 THEN nil ELSE Slot(i - 1)

\* Ancestor finds from every held header the one at the height asked for, of
\* the same fork, and nothing for a height that was dropped or is beyond:
\* skip pointers whose slot was written again never mislead it, nor keep it
\* walking for ever.
AncestorsRight ==
  \A i \in DOMAIN Held : \A height \in 0..MaxHeight + 1 :
    LET first == Held[1].height IN
      Ancestor(chain, Slot(i), height) =
        IF height >= first /\ height <= Held[i].height THEN Slot(height - first + 1) ELSE nil
============================================================================
