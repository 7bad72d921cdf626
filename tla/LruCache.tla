------------------------------ MODULE LruCache ------------------------------
(***************************************************************************)
(* The LRU cache of neutrino/cache/lru: a list ordered by use under a      *)
(* mutex, beside a map from keys to list elements that Put, Get and        *)
(* LoadAndDelete read and write without the mutex.  One action is one      *)
(* critical section or one access to the map; an eviction is a step of its *)
(* own because it also changes the map.  Size() of a value never fails and *)
(* never changes, and the onDelete callback is left out.                   *)
(***************************************************************************)
EXTENDS Integers, SequencesExt

CONSTANTS
    Procs,     \* the goroutines that call the cache
    Writers,   \* those of them that call Put and LoadAndDelete
    Keys,
    Sizes,     \* the sizes of values
    Capacity,
    MaxElems,  \* bound: list elements alive at a time
    None

VARIABLES
    ll,    \* the list, most recently used element first
    cmap,  \* cmap[k]: the element stored for key k, or None
    size,  \* the size field of the cache
    lmtx,  \* the goroutine that holds the mutex, or None
    lpc,   \* lpc[p]: where goroutine p is
    arg,   \* arg[p]: the key and size p was called with
    el     \* el[p]: the element p loaded from the map or created

lruVars == <<ll, cmap, size, lmtx, lpc, arg, el>>

\* The width of the size field (2^64 in the code).
Word == 2^16

Elements == [id : 1 .. MaxElems, key : Keys, size : Sizes]

Sub(a, b) == (a - b) % Word

\* The list of list.go: removing or moving an element that is not in the list
\* does nothing.
Remove1(l, e) == SelectSeq(l, LAMBDA x : x # e)
MoveToFront(l, e) == IF Contains(l, e) THEN <<e>> \o Remove1(l, e) ELSE l

\* A Go pointer that nothing refers to any more can be allocated again.
InUse == ToSet(ll) \cup {cmap[k] : k \in Keys} \cup {el[p] : p \in Procs}
Fresh(k, s) ==
    [id |-> CHOOSE i \in 1 .. MaxElems : \A e \in InUse \ {None} : e.id # i,
     key |-> k, size |-> s]
CanAllocate == \E i \in 1 .. MaxElems : \A e \in InUse \ {None} : e.id # i

Goto(p, l) == lpc' = [lpc EXCEPT ![p] = l]

\* What evict must make room for, and whether there is room.
HasRoom(p) == Sub(Capacity, size) >= arg[p].size

NewCache ==
    /\ ll = <<>> /\ cmap = [k \in Keys |-> None] /\ size = 0 /\ lmtx = None
    /\ lpc = [p \in Procs |-> "idle"]
    /\ arg = [p \in Procs |-> None] /\ el = [p \in Procs |-> None]

-----------------------------------------------------------------------------
\* Put up to the mutex: the old element is loaded from the map.  A value larger
\* than the capacity is refused before anything happens.
PutLoad(p, k, s) ==
    /\ p \in Writers /\ lpc[p] = "idle" /\ s <= Capacity
    /\ el' = [el EXCEPT ![p] = cmap[k]]
    /\ arg' = [arg EXCEPT ![p] = [key |-> k, size |-> s]]
    /\ Goto(p, "put")
    /\ UNCHANGED <<ll, cmap, size, lmtx>>

\* Under the mutex the element that was loaded is taken out and its size
\* subtracted, whether it is still in the list or not.
PutLock(p) ==
    /\ lpc[p] = "put" /\ lmtx = None
    /\ lmtx' = p
    /\ IF el[p] = None THEN UNCHANGED <<ll, size>>
       ELSE ll' = Remove1(ll, el[p]) /\ size' = Sub(size, el[p].size)
    /\ Goto(p, "evict")
    /\ UNCHANGED <<cmap, arg, el>>

\* One turn of the loop of evict.  With an empty list it returns an error, on
\* which Put returns and leaves the mutex locked.
evict(p) ==
    /\ lpc[p] = "evict" /\ ~HasRoom(p)
    /\ IF ll = <<>>
       THEN /\ Goto(p, "idle")
            /\ el' = [el EXCEPT ![p] = None] /\ arg' = [arg EXCEPT ![p] = None]
            /\ UNCHANGED <<ll, cmap, size>>
       ELSE /\ size' = Sub(size, Last(ll).size)
            /\ ll' = Front(ll)
            /\ cmap' = [cmap EXCEPT ![Last(ll).key] = None]
            /\ UNCHANGED <<lpc, arg, el>>
    /\ UNCHANGED lmtx

\* The mistake of comparing the size with the capacity before it is added.
PutInsertAnyRoom(p) ==
    /\ lpc[p] = "evict" /\ (HasRoom(p) \/ size < Capacity) /\ CanAllocate
    /\ LET e == Fresh(arg[p].key, arg[p].size)
       IN  ll' = <<e>> \o ll /\ el' = [el EXCEPT ![p] = e]
    /\ size' = (size + arg[p].size) % Word
    /\ lmtx' = None
    /\ Goto(p, "store")
    /\ UNCHANGED <<cmap, arg>>

\* With enough room the new element goes to the front and the mutex is released.
PutInsert(p) ==
    /\ lpc[p] = "evict" /\ HasRoom(p) /\ CanAllocate
    /\ LET e == Fresh(arg[p].key, arg[p].size)
       IN  ll' = <<e>> \o ll /\ el' = [el EXCEPT ![p] = e]
    /\ size' = (size + arg[p].size) % Word
    /\ lmtx' = None
    /\ Goto(p, "store")
    /\ UNCHANGED <<cmap, arg>>

\* The map is updated after the mutex was released.
PutStore(p) ==
    /\ lpc[p] = "store"
    /\ cmap' = [cmap EXCEPT ![arg[p].key] = el[p]]
    /\ el' = [el EXCEPT ![p] = None] /\ arg' = [arg EXCEPT ![p] = None]
    /\ Goto(p, "idle")
    /\ UNCHANGED <<ll, size, lmtx>>

\* Get of a key in the map; without one it returns an error and changes nothing.
GetLoad(p, k) ==
    /\ lpc[p] = "idle" /\ cmap[k] # None
    /\ el' = [el EXCEPT ![p] = cmap[k]]
    /\ Goto(p, "get")
    /\ UNCHANGED <<ll, cmap, size, lmtx, arg>>

GetLock(p) ==
    /\ lpc[p] = "get" /\ lmtx = None
    /\ ll' = MoveToFront(ll, el[p])
    /\ el' = [el EXCEPT ![p] = None]
    /\ Goto(p, "idle")
    /\ UNCHANGED <<cmap, size, lmtx, arg>>

\* LoadAndDelete takes the element from the map, then from the list.
DeleteLoad(p, k) ==
    /\ p \in Writers /\ lpc[p] = "idle" /\ cmap[k] # None
    /\ el' = [el EXCEPT ![p] = cmap[k]]
    /\ cmap' = [cmap EXCEPT ![k] = None]
    /\ Goto(p, "del")
    /\ UNCHANGED <<ll, size, lmtx, arg>>

DeleteLock(p) ==
    /\ lpc[p] = "del" /\ lmtx = None
    /\ ll' = Remove1(ll, el[p])
    /\ size' = Sub(size, el[p].size)
    /\ el' = [el EXCEPT ![p] = None]
    /\ Goto(p, "idle")
    /\ UNCHANGED <<cmap, lmtx, arg>>

LruNext ==
    \E p \in Procs :
        \/ \E k \in Keys : \/ \E s \in Sizes : PutLoad(p, k, s)
                           \/ GetLoad(p, k) \/ DeleteLoad(p, k)
        \/ PutLock(p) \/ evict(p) \/ PutInsert(p) \/ PutStore(p)
        \/ GetLock(p) \/ DeleteLock(p)

LruSpec == NewCache /\ [][LruNext]_lruVars

-----------------------------------------------------------------------------
TotalSize(l) == FoldLeft(LAMBDA sum, e : sum + e.size, 0, l)

\* Every field has its type.
LruTypeOK ==
    /\ ll \in Seq(Elements) /\ cmap \in [Keys -> Elements \cup {None}]
    /\ size \in 0 .. Word - 1 /\ lmtx \in Procs \cup {None}
    /\ lpc \in [Procs -> {"idle", "put", "evict", "store", "get", "del"}]
    /\ arg \in [Procs -> [key : Keys, size : Sizes] \cup {None}]
    /\ el \in [Procs -> Elements \cup {None}]

\* The elements in the cache never take more than its capacity, as NewCache
\* promises, also while a Put is evicting.
CapacityHeld == TotalSize(ll) <= Capacity

\* Whenever the mutex is free the size field says what the elements take: no
\* element is subtracted twice or forgotten when it is replaced, evicted or
\* deleted.
SizeIsSum == lmtx = None => size = TotalSize(ll)

\* When no Put or LoadAndDelete is under way the map holds exactly the elements
\* of the list, each under its own key: nothing in the list is unreachable and
\* nothing in the map is uncounted.
MapListAgree ==
    (\A p \in Writers : lpc[p] \in {"idle", "get"}) =>
        /\ {cmap[k] : k \in Keys} \ {None} = ToSet(ll)
        /\ \A k \in Keys : cmap[k] # None => cmap[k].key = k

\* evict never runs out of elements before there is room: the branch commented
\* "We should never reach here", which would return with the mutex locked.
EvictNeverFails ==
    \A p \in Procs : lpc[p] = "evict" /\ ll = <<>> => HasRoom(p)
=============================================================================
