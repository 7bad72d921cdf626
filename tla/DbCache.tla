------------------------------- MODULE DbCache -------------------------------
(***************************************************************************)
(* Transactions of database/ffldb over its metadata cache (dbcache.go and  *)
(* begin, Commit, Rollback, close, View, Update and Close of db.go).       *)
(*                                                                         *)
(* A goroutine begins a transaction by taking the write lock (when it is   *)
(* writable) and a read lock on closeLock, then a snapshot: of leveldb     *)
(* first, of the roots of the cache second.  A writable transaction that   *)
(* commits swaps the roots, or flushes the cache and writes directly to    *)
(* leveldb; both are done while other goroutines take snapshots.  The      *)
(* block files are in FFLDB; here syncing them is a step that may fail.    *)
(***************************************************************************)
EXTENDS FiniteSets, TLC

CONSTANTS
    Procs,     \* goroutines that use the database
    Keys, Values,
    NoVal,     \* no value
    NoProc     \* no goroutine

ASSUME ConstAssumption == NoVal \notin Values /\ NoProc \notin Procs

VARIABLES
    ldb,            \* leveldb: value of every key
    cachedKeys,     \* dbCache.cachedKeys: cached puts
    cachedRemove,   \* dbCache.cachedRemove: cached deletes
    pc,             \* pc[p]: where goroutine p is
    writable,       \* writable[p]: is its transaction read-write?
    snap,           \* snap[p]: its dbCacheSnapshot
    writeLock,      \* db.writeLock: its owner
    pendingKeys, pendingRemove,   \* of the read-write transaction
    closer,         \* where the goroutine that calls db.Close is
    closed,         \* db.closed
    allowed,        \* history: the contents committed while p took its snapshot
    raced           \* history: the cache was flushed while p took its snapshot

cacheVars == <<ldb, cachedKeys, cachedRemove>>
txVars == <<pendingKeys, pendingRemove>>
closeVars == <<closer, closed>>
vars == <<cacheVars, pc, writable, snap, writeLock, txVars, closeVars, allowed, raced>>

-----------------------------------------------------------------------------
NoPuts == [k \in Keys |-> NoVal]
Contents == [Keys -> Values \cup {NoVal}]

\* A key is looked up among the removes, then the puts, then below
\* (dbCacheSnapshot.Get, transaction.fetchKey); commitTreaps writes the puts
\* and then the removes.
Overlay(s, u, r) ==
    [k \in Keys |-> IF k \in r THEN NoVal ELSE IF u[k] # NoVal THEN u[k] ELSE s[k]]

\* What a snapshot of the cache and leveldb taken at once would hold.
View == Overlay(ldb, cachedKeys, cachedRemove)

NoSnap == [ldb |-> NoPuts, keys |-> NoPuts, remove |-> {}]
Snapshots == [ldb : Contents, keys : Contents, remove : SUBSET Keys]
Read(s) == Overlay(s.ldb, s.keys, s.remove)
\* The goroutines that hold a read lock on closeLock.
Holding(p) == pc[p] \in {"snap", "roots", "open", "commit", "flush", "clear", "direct"}

\* A pending or held Lock of closeLock keeps new readers out (sync.RWMutex).
CloseLocked == closer \in {"waiting", "sync", "flush", "clear"}

Init ==
    /\ ldb = NoPuts /\ cachedKeys = NoPuts /\ cachedRemove = {}
    /\ pc = [p \in Procs |-> "idle"]
    /\ writable = [p \in Procs |-> FALSE]
    /\ snap = [p \in Procs |-> NoSnap]
    /\ writeLock = NoProc
    /\ pendingKeys = NoPuts /\ pendingRemove = {}
    /\ closer = "none" /\ closed = FALSE
    /\ allowed = [p \in Procs |-> {}] /\ raced = [p \in Procs |-> FALSE]

Goto(p, l) == pc' = [pc EXCEPT ![p] = l]
Snapping(p) == pc[p] \in {"snap", "roots"}

\* History: what goroutines in the middle of Snapshot may return from now on.
Observe(flushed) ==
    /\ allowed' = [p \in Procs |-> IF Snapping(p) THEN allowed[p] \cup {View'}
                                                  ELSE allowed[p]]
    /\ raced' = [p \in Procs |-> raced[p] \/ (flushed /\ Snapping(p))]

-----------------------------------------------------------------------------
(* begin.                                                                  *)

Begin(p, w) ==
    /\ pc[p] = "idle"
    /\ writable' = [writable EXCEPT ![p] = w]
    /\ Goto(p, IF w THEN "wlock" ELSE "rlock")
    /\ UNCHANGED <<cacheVars, snap, writeLock, txVars, closeVars, allowed, raced>>

\* Mutant of LockWrite: the lock is taken while another goroutine has it.
LockWriteAnyway(p) ==
    /\ pc[p] = "wlock"
    /\ writeLock' = p
    /\ Goto(p, "rlock")
    /\ UNCHANGED <<cacheVars, writable, snap, txVars, closeVars, allowed, raced>>

LockWrite(p) ==
    /\ pc[p] = "wlock" /\ writeLock = NoProc
    /\ writeLock' = p
    /\ Goto(p, "rlock")
    /\ UNCHANGED <<cacheVars, writable, snap, txVars, closeVars, allowed, raced>>

\* Mutant of LockClose: begin on a closed database keeps the write lock.
LockCloseLeaks(p) ==
    /\ pc[p] = "rlock" /\ ~CloseLocked
    /\ IF closed
       THEN Goto(p, "idle") /\ UNCHANGED <<allowed, raced>>
       ELSE /\ Goto(p, "snap")
            /\ allowed' = [allowed EXCEPT ![p] = {View}]
            /\ raced' = [raced EXCEPT ![p] = FALSE]
    /\ UNCHANGED <<cacheVars, writable, snap, writeLock, txVars, closeVars>>

\* The transaction is given up before it started: closeLock is released,
\* then the write lock.
LockClose(p) ==
    /\ pc[p] = "rlock" /\ ~CloseLocked
    /\ IF closed
       THEN Goto(p, IF writable[p] THEN "unlock" ELSE "idle") /\ UNCHANGED <<allowed, raced>>
       ELSE /\ Goto(p, "snap")
            /\ allowed' = [allowed EXCEPT ![p] = {View}]
            /\ raced' = [raced EXCEPT ![p] = FALSE]
    /\ UNCHANGED <<cacheVars, writable, snap, writeLock, txVars, closeVars>>

\* Snapshot takes the leveldb snapshot, which may fail ...
GetSnapshot(p) ==
    /\ pc[p] = "snap"
    /\ snap' = [snap EXCEPT ![p].ldb = ldb]
    /\ Goto(p, "roots")
    /\ UNCHANGED <<cacheVars, writable, writeLock, txVars, closeVars, allowed, raced>>

\* close releases what the transaction holds: the read lock of closeLock
\* first, the write lock in a step of its own.
End(p) ==
    /\ Goto(p, IF writable[p] THEN "unlock" ELSE "idle")
    /\ snap' = [snap EXCEPT ![p] = NoSnap]
    /\ IF writable[p]
       THEN pendingKeys' = NoPuts /\ pendingRemove' = {}
       ELSE UNCHANGED txVars
    /\ UNCHANGED <<writable, writeLock, closeVars>>

GetSnapshotFails(p) ==
    /\ pc[p] = "snap"
    /\ End(p)
    /\ UNCHANGED <<cacheVars, allowed, raced>>

\* Mutant of GetRoots: the cached deletes are left out of the snapshot.
GetRootsNoRemoves(p) ==
    /\ pc[p] = "roots"
    /\ snap' = [snap EXCEPT ![p].keys = cachedKeys]
    /\ Goto(p, "open")
    /\ UNCHANGED <<cacheVars, writable, writeLock, txVars, closeVars, allowed, raced>>

\* ... and the roots of the cache after it, under cacheLock.
GetRoots(p) ==
    /\ pc[p] = "roots"
    /\ snap' = [snap EXCEPT ![p].keys = cachedKeys, ![p].remove = cachedRemove]
    /\ Goto(p, "open")
    /\ UNCHANGED <<cacheVars, writable, writeLock, txVars, closeVars, allowed, raced>>

Unlock(p) ==
    /\ pc[p] = "unlock"
    /\ writeLock' = NoProc
    /\ Goto(p, "idle")
    /\ UNCHANGED <<cacheVars, writable, snap, txVars, closeVars, allowed, raced>>

-----------------------------------------------------------------------------
(* The transaction.                                                        *)

putKey(p, k, v) ==
    /\ pc[p] = "open" /\ writable[p]
    /\ pendingKeys' = [pendingKeys EXCEPT ![k] = v]
    /\ pendingRemove' = pendingRemove \ {k}
    /\ UNCHANGED <<cacheVars, pc, writable, snap, writeLock, closeVars, allowed, raced>>

deleteKey(p, k) ==
    /\ pc[p] = "open" /\ writable[p]
    /\ pendingKeys' = [pendingKeys EXCEPT ![k] = NoVal]
    /\ pendingRemove' = pendingRemove \cup {k}
    /\ UNCHANGED <<cacheVars, pc, writable, snap, writeLock, closeVars, allowed, raced>>

Rollback(p) ==
    /\ pc[p] = "open"
    /\ End(p)
    /\ UNCHANGED <<cacheVars, allowed, raced>>

Commit(p) ==
    /\ pc[p] = "open" /\ writable[p]
    /\ Goto(p, "commit")
    /\ UNCHANGED <<cacheVars, writable, snap, writeLock, txVars, closeVars, allowed, raced>>

\* Mutant of CommitToCache: a put does not undo a cached delete.
CommitToCacheKeepsRemoves(p) ==
    /\ pc[p] = "commit"
    /\ cachedKeys' = [k \in Keys |->
                        IF k \in pendingRemove THEN NoVal
                        ELSE IF pendingKeys[k] # NoVal THEN pendingKeys[k]
                        ELSE cachedKeys[k]]
    /\ cachedRemove' = cachedRemove \cup pendingRemove
    /\ End(p)
    /\ UNCHANGED ldb
    /\ Observe(FALSE)

\* commitTx without a flush: the roots are swapped under cacheLock.
CommitToCache(p) ==
    /\ pc[p] = "commit"
    /\ cachedKeys' = [k \in Keys |->
                        IF k \in pendingRemove THEN NoVal
                        ELSE IF pendingKeys[k] # NoVal THEN pendingKeys[k]
                        ELSE cachedKeys[k]]
    /\ cachedRemove' = {k \in cachedRemove : pendingKeys[k] = NoVal} \cup pendingRemove
    /\ End(p)
    /\ UNCHANGED ldb
    /\ Observe(FALSE)

\* flush: syncBlocks, commitTreaps of the cached roots, new empty roots.
FlushSync(p) ==
    /\ pc[p] = "commit"
    /\ Goto(p, IF cachedKeys = NoPuts /\ cachedRemove = {} THEN "direct" ELSE "flush")
    /\ UNCHANGED <<cacheVars, writable, snap, writeLock, txVars, closeVars, allowed, raced>>

FlushCache(p) ==
    /\ pc[p] = "flush"
    /\ ldb' = View
    /\ Goto(p, "clear")
    /\ UNCHANGED <<cachedKeys, cachedRemove, writable, snap, writeLock, txVars, closeVars>>
    /\ Observe(FALSE)

ClearCache(p) ==
    /\ pc[p] = "clear"
    /\ cachedKeys' = NoPuts /\ cachedRemove' = {}
    /\ Goto(p, "direct")
    /\ UNCHANGED <<ldb, writable, snap, writeLock, txVars, closeVars>>
    /\ Observe(TRUE)

\* commitTx then writes the transaction to leveldb.
CommitDirect(p) ==
    /\ pc[p] = "direct"
    /\ ldb' = Overlay(ldb, pendingKeys, pendingRemove)
    /\ End(p)
    /\ UNCHANGED <<cachedKeys, cachedRemove>>
    /\ Observe(TRUE)

\* A block write, the sync or one of the leveldb transactions fails.
CommitFails(p) ==
    /\ pc[p] \in {"commit", "flush", "direct"}
    /\ End(p)
    /\ UNCHANGED <<cacheVars, allowed, raced>>

-----------------------------------------------------------------------------
(* Close: waits for every transaction, then flushes the cache.             *)

CloseCall ==
    /\ closer = "none"
    /\ closer' = "waiting"
    /\ UNCHANGED <<cacheVars, pc, writable, snap, writeLock, txVars, closed, allowed, raced>>

\* Mutant of CloseLock: Close does not wait for the transactions.
CloseLockAnyway ==
    /\ closer = "waiting"
    /\ closer' = "sync" /\ closed' = TRUE
    /\ UNCHANGED <<cacheVars, pc, writable, snap, writeLock, txVars, allowed, raced>>

CloseLock ==
    /\ closer = "waiting" /\ \A p \in Procs : ~Holding(p)
    /\ closer' = "sync" /\ closed' = TRUE
    /\ UNCHANGED <<cacheVars, pc, writable, snap, writeLock, txVars, allowed, raced>>

CloseFlush ==
    /\ \/ /\ closer = "sync"
          /\ closer' = IF cachedKeys = NoPuts /\ cachedRemove = {} THEN "done" ELSE "flush"
          /\ UNCHANGED cacheVars
       \/ /\ closer = "flush"
          /\ closer' = "clear" /\ ldb' = View
          /\ UNCHANGED <<cachedKeys, cachedRemove>>
       \/ /\ closer = "clear"
          /\ closer' = "done" /\ cachedKeys' = NoPuts /\ cachedRemove' = {}
          /\ UNCHANGED ldb
    /\ UNCHANGED <<pc, writable, snap, writeLock, txVars, closed, allowed, raced>>

\* leveldb is closed although the flush failed.
CloseFails ==
    /\ closer \in {"sync", "flush"}
    /\ closer' = "failed"
    /\ UNCHANGED <<cacheVars, pc, writable, snap, writeLock, txVars, closed, allowed, raced>>

-----------------------------------------------------------------------------
\* The steps of p that the code takes by itself once a call is made.
Step(p) ==
    \/ GetSnapshot(p) \/ GetSnapshotFails(p) \/ GetRoots(p)
    \/ CommitToCache(p) \/ FlushSync(p) \/ FlushCache(p) \/ ClearCache(p)
    \/ CommitDirect(p) \/ CommitFails(p) \/ Unlock(p)

\* The user ends its transaction.
Finish(p) == Rollback(p) \/ Commit(p)

Goroutine(p) ==
    \/ \E w \in BOOLEAN : Begin(p, w)
    \/ LockWrite(p)
    \/ LockClose(p)
    \/ \E k \in Keys, v \in Values : putKey(p, k, v)
    \/ \E k \in Keys : deleteKey(p, k)
    \/ Finish(p)
    \/ Step(p)

Next ==
    \/ \E p \in Procs : Goroutine(p)
    \/ CloseCall
    \/ CloseLock
    \/ CloseFlush
    \/ CloseFails

Spec == Init /\ [][Next]_vars

\* Goroutines are scheduled, users end the transactions they begin (the NOTE
\* of Begin), and a goroutine that waits for the write lock gets it (the
\* starvation mode of sync.Mutex).
Fairness ==
    /\ \A p \in Procs : WF_vars(Step(p) \/ LockClose(p) \/ Finish(p)) /\ SF_vars(LockWrite(p))
    /\ WF_vars(CloseLock \/ CloseFlush \/ CloseFails)

FairSpec == Spec /\ Fairness

-----------------------------------------------------------------------------
\* Type invariant of the cache, the locks and the transactions.
TypeOK ==
    /\ ldb \in Contents /\ cachedKeys \in Contents /\ cachedRemove \in SUBSET Keys
    /\ pc \in [Procs -> {"idle", "wlock", "rlock", "snap", "roots", "open", "commit",
                         "flush", "clear", "direct", "unlock"}]
    /\ writable \in [Procs -> BOOLEAN]
    /\ snap \in [Procs -> Snapshots]
    /\ writeLock \in Procs \cup {NoProc}
    /\ pendingKeys \in Contents /\ pendingRemove \in SUBSET Keys
    /\ closer \in {"none", "waiting", "sync", "flush", "clear", "done", "failed"}
    /\ closed \in BOOLEAN
    /\ allowed \in [Procs -> SUBSET Contents] /\ raced \in [Procs -> BOOLEAN]

InTx(p) == pc[p] \in {"open", "commit", "flush", "clear", "direct"}

\* A read-write transaction works on what is committed until it commits
\* itself: no other commit or flush makes its snapshot stale (writeLock).
WriterSeesCommitted ==
    \A p \in Procs : writable[p] /\ InTx(p) => Read(snap[p]) = View

\* A read-only transaction sees the contents at one point in time of its
\* begin unless the cache was flushed between the two halves of Snapshot.
SnapshotAtomicUnlessFlushed ==
    \A p \in Procs : InTx(p) /\ ~raced[p] => Read(snap[p]) \in allowed[p]

\* A transaction sees the contents at a particular point in time of its
\* begin, as the comment of Snapshot says.
SnapshotAtomic ==
    \A p \in Procs : InTx(p) => Read(snap[p]) \in allowed[p]

\* When Close has returned without an error no transaction is left and all
\* that was committed is in leveldb.
CloseLosesNothing ==
    closer = "done" => /\ \A p \in Procs : ~Holding(p)
                       /\ cachedKeys = NoPuts /\ cachedRemove = {}

\* The cache and leveldb together implement a store of atomic transactions:
\* flushes are invisible and failed commits change nothing.
AbstractWriter ==
    IF \E p \in Procs : writable[p] /\ InTx(p) THEN writeLock ELSE NoProc

KV == INSTANCE KVStore WITH
        store <- View, writer <- AbstractWriter,
        puts <- pendingKeys, removes <- pendingRemove

ImplementsKVStore == KV!KVSpec

\* A begin returns, with a transaction or an error, also while Close waits.
BeginReturns ==
    \A p \in Procs : pc[p] \in {"wlock", "rlock"} ~> pc[p] \in {"open", "idle"}

\* Close waits for the transactions that are open and then returns.
CloseReturns == closer = "waiting" ~> closer \in {"done", "failed"}
-----------------------------------------------------------------------------
(* The inductive invariant: who holds the write lock, and how far a commit *)
(* or Close has got with the cache.                                        *)

LockInv ==
    \A p \in Procs :
        /\ (writable[p] /\ pc[p] \notin {"idle", "wlock"}) <=> writeLock = p
        /\ pc[p] \in {"wlock", "commit", "flush", "clear", "direct", "unlock"} => writable[p]

CloseInv ==
    /\ closer \in {"sync", "flush", "clear"} => \A p \in Procs : ~Holding(p)
    /\ closer \in {"sync", "flush", "clear", "done", "failed"} => closed
    /\ closed => \A p \in Procs : ~Holding(p)

\* The cache is empty.
Flushed == cachedKeys = NoPuts /\ cachedRemove = {}

FlushInv ==
    /\ \A p \in Procs : /\ pc[p] = "clear" => ldb = View
                        /\ pc[p] = "direct" => Flushed
    /\ closer = "clear" => ldb = View
    /\ closer = "done" => Flushed

SnapInv ==
    \A p \in Procs : writable[p] =>
        /\ pc[p] = "roots" => snap[p].ldb = ldb
        /\ InTx(p) => Read(snap[p]) = View

PendingInv ==
    (\A p \in Procs : ~(writable[p] /\ InTx(p))) => pendingKeys = NoPuts /\ pendingRemove = {}

CacheInv == TypeOK /\ LockInv /\ CloseInv /\ FlushInv /\ SnapInv /\ PendingInv

\* Until a flush clears the cache, what is above a snapshot of leveldb taken
\* earlier is all that was committed since.
RaceInv ==
    \A p \in Procs :
        /\ Snapping(p) => View \in allowed[p]
        /\ pc[p] = "roots" /\ ~raced[p] =>
              Overlay(snap[p].ldb, cachedKeys, cachedRemove) = View
        /\ InTx(p) /\ ~raced[p] => Read(snap[p]) \in allowed[p]

IndInv == CacheInv /\ RaceInv

-----------------------------------------------------------------------------
\* Goroutines are alike, and so are keys.
Symmetry == Permutations(Procs) \cup Permutations(Keys)
=============================================================================
