----------------------------- MODULE SeedCache -----------------------------
(***************************************************************************)
(* The cache of the data that the proof of work derives from a seed        *)
(* (nogopow/cache.go): a doubly linked list of entries, the map items to   *)
(* find them and a count.  One goroutine calls, such as a miner; lookups   *)
(* move entries under a read lock, so two would race.                      *)
(*                                                                         *)
(* An entry is a member of Entries, with the key it was made for; an entry *)
(* that nothing refers to any more is free again.                          *)
(***************************************************************************)
EXTENDS Integers, Sequences, FiniteSets

CONSTANTS
  Seeds,
  Entries,   \* bound: of entries in use
  capacity   \* maxCacheItems

VARIABLES
  ent,    \* [entry -> [key, prev, next]]
  items,  \* [key of an item -> entry]
  head,
  tail,
  size,
  got     \* the seed and the data's seed of the last GetData

vars == <<ent, items, head, tail, size, got>>

nil == 0
NoSeed == "none"
Free == [key |-> NoSeed, prev |-> nil, next |-> nil]

\* A state of the list, on which the operations below work.
L == [ent |-> ent, items |-> items, head |-> head, tail |-> tail, size |-> size]

Init ==
  /\ ent = [e \in Entries |-> Free]
  /\ items = <<>> /\ head = nil /\ tail = nil /\ size = 0
  /\ got = <<NoSeed, NoSeed>>

----------------------------------------------------------------------------
Without(f, k) == [x \in DOMAIN f \ {k} |-> f[x]]

With(f, k, v) == [x \in DOMAIN f \cup {k} |-> IF x = k THEN v ELSE f[x]]

Unlink(l, e) ==
  LET p == l.ent[e].prev
      n == l.ent[e].next
      a == IF p = nil THEN l.ent ELSE [l.ent EXCEPT ![p].next = n] IN
    IF n = nil THEN a ELSE [a EXCEPT ![n].prev = p]

removeElement(l, e) ==
  [ent   |-> Unlink(l, e),
   items |-> Without(l.items, l.ent[e].key),
   head  |-> IF l.ent[e].prev = nil THEN l.ent[e].next ELSE l.head,
   tail  |-> IF l.ent[e].next = nil THEN l.ent[e].prev ELSE l.tail,
   size  |-> l.size - 1]

\* The entry goes to the front of the list; removeElement takes it out of
\* items and of the count, and nothing puts it back.
moveToFront(l, e) ==
  LET r == removeElement(l, e) IN
    IF l.head = e THEN l
    ELSE [r EXCEPT !.ent = [x \in Entries |->
                              IF x = e THEN [r.ent[e] EXCEPT !.next = r.head, !.prev = nil]
                              ELSE IF x = r.head THEN [r.ent[x] EXCEPT !.prev = e] ELSE r.ent[x]],
                   !.head = e,
                   !.tail = IF r.tail = nil THEN e ELSE @]

InUse(l) == {e \in Entries : l.ent[e] # Free}

\* A new entry of a key that is not among the items.
Add(l, key) ==
  LET e == CHOOSE x \in Entries \ InUse(l) : TRUE
      a == [l EXCEPT !.ent = [x \in Entries |->
                               IF x = e THEN [key |-> key, prev |-> nil, next |-> l.head]
                               ELSE IF x = l.head THEN [l.ent[x] EXCEPT !.prev = e] ELSE l.ent[x]],
                     !.items = With(l.items, key, e),
                     !.head = e,
                     !.tail = IF l.head = nil THEN e ELSE @,
                     !.size = @ + 1] IN
    IF a.size > capacity /\ a.tail # nil THEN removeElement(a, a.tail) ELSE a

\* The entries from e on.
RECURSIVE From(_, _)
From(l, e) == IF e = nil THEN <<>> ELSE <<e>> \o From(l, l.ent[e].next)

Listed(l) == From(l, l.head)

Becomes(l) ==
  LET kept == {Listed(l)[i] : i \in DOMAIN Listed(l)} IN
    /\ ent' = [e \in Entries |-> IF e \in kept THEN l.ent[e] ELSE Free]
    /\ items' = l.items /\ head' = l.head /\ tail' = l.tail /\ size' = l.size

----------------------------------------------------------------------------
\* A lookup; on a miss the data is generated and added.
GetData(seed) ==
  /\ seed \in DOMAIN items \/ InUse(L) # Entries
  /\ IF seed \in DOMAIN items
     THEN got' = <<seed, ent[items[seed]].key>> /\ Becomes(moveToFront(L, items[seed]))
     ELSE got' = <<seed, seed>> /\ Becomes(Add(L, seed))

Remove(seed) ==
  /\ seed \in DOMAIN items
  /\ Becomes(removeElement(L, items[seed]))
  /\ UNCHANGED got

\* Stats looks every key of the list up, which moves the entries.
RECURSIVE LookUpAll(_, _)
LookUpAll(l, keys) ==
  IF keys = <<>> THEN l
  ELSE LookUpAll(IF Head(keys) \in DOMAIN l.items THEN moveToFront(l, l.items[Head(keys)]) ELSE l, Tail(keys))

Stats ==
  /\ Becomes(LookUpAll(L, [i \in DOMAIN Listed(L) |-> ent[Listed(L)[i]].key]))
  /\ UNCHANGED got

Next == (\E seed \in Seeds : GetData(seed) \/ Remove(seed)) \/ Stats

Spec == Init /\ [][Next]_vars

----------------------------------------------------------------------------
\* The links agree in both directions between head and tail, every item is on
\* the list under its key and GetData returned the data of its seed, although
\* entries come to be on the list that are no items (moveToFront).
CacheListSound ==
  LET list == Listed(L)
      n    == Len(list) IN
    /\ tail = IF n = 0 THEN nil ELSE list[n]
    /\ \A i \in 1..n : ent[list[i]].prev = IF i = 1 THEN nil ELSE list[i - 1]
    /\ \A seed \in DOMAIN items : (\E i \in 1..n : list[i] = items[seed]) /\ ent[items[seed]].key = seed
    /\ got[1] = got[2]

============================================================================
