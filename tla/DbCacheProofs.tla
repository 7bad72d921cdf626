---------------------------- MODULE DbCacheProofs ----------------------------
(***************************************************************************)
(* Proofs about the metadata cache: its type correctness, that a           *)
(* read-write transaction always works on what is committed, that Close    *)
(* loses nothing, and that the cache over leveldb implements KVStore.      *)
(***************************************************************************)
EXTENDS DbCache, TLAPS

\* An overlay is a mapping of keys to values.
LEMMA OverlayType ==
    ASSUME NEW s \in Contents, NEW u \in Contents, NEW r \in SUBSET Keys
    PROVE  Overlay(s, u, r) \in Contents
  BY DEF Overlay, Contents

\* Flushing twice is flushing once.
LEMMA OverlayTwice ==
    ASSUME NEW s \in Contents, NEW u \in Contents, NEW r \in SUBSET Keys
    PROVE  Overlay(Overlay(s, u, r), u, r) = Overlay(s, u, r)
  BY DEF Overlay, Contents

\* An empty cache hides nothing of what is below it.
LEMMA OverlayNothing ==
    ASSUME NEW s \in Contents
    PROVE  Overlay(s, NoPuts, {}) = s /\ NoPuts \in Contents
  <1>1. \A k \in Keys : Overlay(s, NoPuts, {})[k] = s[k]
    BY DEF Overlay, NoPuts
  <1>2. Overlay(s, NoPuts, {}) = [k \in Keys |-> s[k]]
    BY <1>1 DEF Overlay
  <1> QED
    BY <1>2 DEF Contents, NoPuts

\* The roots commitTx builds are those of the cache with the transaction on top.
LEMMA OverlayCommit ==
    ASSUME NEW s \in Contents, NEW ck \in Contents, NEW cr \in SUBSET Keys,
           NEW pk \in Contents, NEW pr \in SUBSET Keys
    PROVE  Overlay(s, [k \in Keys |-> IF k \in pr THEN NoVal
                                      ELSE IF pk[k] # NoVal THEN pk[k] ELSE ck[k]],
                      {k \in cr : pk[k] = NoVal} \cup pr)
           = Overlay(Overlay(s, ck, cr), pk, pr)
  BY DEF Overlay, Contents

\* What transactions see is a mapping of keys to values.
LEMMA ViewType == ASSUME TypeOK PROVE View \in Contents
  BY OverlayType DEF TypeOK, View

-----------------------------------------------------------------------------
(* Type correctness.                                                       *)

\* Moving a goroutine to a place of the code keeps the type of pc.
LEMMA GotoType ==
    ASSUME TypeOK, NEW p \in Procs,
           NEW l \in {"idle", "wlock", "rlock", "snap", "roots", "open", "commit",
                      "flush", "clear", "direct", "unlock"},
           Goto(p, l)
    PROVE  /\ pc' \in [Procs -> {"idle", "wlock", "rlock", "snap", "roots", "open",
                                 "commit", "flush", "clear", "direct", "unlock"}]
           /\ pc' = [pc EXCEPT ![p] = l]
           /\ pc'[p] = l /\ \A q \in Procs : q # p => pc'[q] = pc[q]
  BY DEF Goto, TypeOK

\* The end of a transaction keeps the types.
LEMMA EndType ==
    ASSUME TypeOK, NEW p \in Procs, End(p)
    PROVE  /\ pc' \in [Procs -> {"idle", "wlock", "rlock", "snap", "roots", "open",
                                 "commit", "flush", "clear", "direct", "unlock"}]
           /\ pc'[p] = (IF writable[p] THEN "unlock" ELSE "idle")
           /\ \A q \in Procs : q # p => pc'[q] = pc[q] /\ snap'[q] = snap[q]
           /\ snap' \in [Procs -> Snapshots]
           /\ pendingKeys' \in Contents /\ pendingRemove' \in SUBSET Keys
           /\ writable' = writable /\ writeLock' = writeLock
           /\ closer' = closer /\ closed' = closed
  <1>1. NoSnap \in Snapshots /\ NoPuts \in Contents
    BY DEF NoSnap, Snapshots, NoPuts, Contents
  <1> QED
    BY <1>1 DEF End, Goto, TypeOK, txVars, closeVars

\* The history variables keep their types when the contents do.
LEMMA ObserveType ==
    ASSUME TypeOK, View' \in Contents, NEW f \in BOOLEAN, Observe(f)
    PROVE  allowed' \in [Procs -> SUBSET Contents] /\ raced' \in [Procs -> BOOLEAN]
  <1>1. allowed' \in [Procs -> SUBSET Contents]
    BY DEF Observe, TypeOK
  <1>2. raced' \in [Procs -> BOOLEAN]
    BY Zenon DEF Observe, TypeOK
  <1> QED
    BY <1>1, <1>2

\* Every step of a goroutine keeps the types.
LEMMA ProcTypeStep ==
    ASSUME TypeOK, NEW p \in Procs, Goroutine(p)
    PROVE  TypeOK'
  <1> USE DEF TypeOK
  <1>0. NoPuts \in Contents /\ View \in Contents
    BY ViewType DEF NoPuts, Contents
  <1>1. ASSUME NEW w \in BOOLEAN, Begin(p, w) PROVE TypeOK'
    BY <1>1, GotoType DEF Begin, cacheVars, txVars, closeVars
  <1>2. CASE LockWrite(p)
    BY <1>2, GotoType DEF LockWrite, cacheVars, txVars, closeVars
  <1>3. CASE LockClose(p)
    <2>1. /\ UNCHANGED <<ldb, cachedKeys, cachedRemove, writable, snap, writeLock>>
          /\ UNCHANGED <<pendingKeys, pendingRemove, closer, closed>>
      BY <1>3 DEF LockClose, cacheVars, txVars, closeVars
    <2>2. \E l \in {"idle", "unlock", "snap"} : Goto(p, l)
      BY <1>3 DEF LockClose
    <2>3. allowed' \in [Procs -> SUBSET Contents]
      BY <1>3, <1>0 DEF LockClose
    <2>4. raced' \in [Procs -> BOOLEAN]
      BY Zenon, <1>3 DEF LockClose
    <2> QED
      BY <2>1, <2>2, <2>3, <2>4, GotoType
  <1>4. ASSUME NEW k \in Keys, NEW v \in Values, putKey(p, k, v) PROVE TypeOK'
    BY <1>4 DEF putKey, cacheVars, closeVars, Contents
  <1>5. ASSUME NEW k \in Keys, deleteKey(p, k) PROVE TypeOK'
    BY <1>5 DEF deleteKey, cacheVars, closeVars, Contents
  <1>6. CASE Rollback(p)
    BY <1>6, EndType DEF Rollback, cacheVars
  <1>7. CASE Commit(p)
    BY <1>7, GotoType DEF Commit, cacheVars, txVars, closeVars
  <1>8. CASE GetSnapshot(p)
    <2>1. snap' \in [Procs -> Snapshots]
      BY <1>8 DEF GetSnapshot, Snapshots
    <2> QED
      BY <1>8, <2>1, GotoType DEF GetSnapshot, cacheVars, txVars, closeVars
  <1>9. CASE GetSnapshotFails(p)
    BY <1>9, EndType DEF GetSnapshotFails, cacheVars
  <1>10. CASE GetRoots(p)
    <2>1. snap' \in [Procs -> Snapshots]
      BY ZenonT(40), <1>10 DEF GetRoots, Snapshots
    <2> QED
      BY <1>10, <2>1, GotoType DEF GetRoots, cacheVars, txVars, closeVars
  <1>11. CASE CommitToCache(p)
    <2>1. /\ cachedKeys' \in Contents /\ cachedRemove' \in SUBSET Keys /\ ldb' = ldb
          /\ End(p) /\ Observe(FALSE)
      BY <1>11 DEF CommitToCache, Contents
    <2>2. View' \in Contents
      BY <2>1, OverlayType DEF View
    <2>3. allowed' \in [Procs -> SUBSET Contents] /\ raced' \in [Procs -> BOOLEAN]
      BY <2>1, <2>2, ObserveType
    <2> QED
      BY <2>1, <2>3, EndType
  <1>12. CASE FlushSync(p)
    BY <1>12, GotoType DEF FlushSync, cacheVars, txVars, closeVars
  <1>13. CASE FlushCache(p)
    <2>1. /\ cachedKeys' = cachedKeys /\ cachedRemove' = cachedRemove /\ ldb' = View
          /\ Goto(p, "clear") /\ Observe(FALSE)
          /\ UNCHANGED <<writable, snap, writeLock, txVars, closeVars>>
      BY <1>13 DEF FlushCache
    <2>2. View' \in Contents
      BY <1>0, <2>1, OverlayType DEF View
    <2>3. allowed' \in [Procs -> SUBSET Contents] /\ raced' \in [Procs -> BOOLEAN]
      BY <2>1, <2>2, ObserveType
    <2> QED
      BY <1>0, <2>1, <2>3, GotoType DEF txVars, closeVars
  <1>14. CASE ClearCache(p)
    <2>1. /\ cachedKeys' = NoPuts /\ cachedRemove' = {} /\ ldb' = ldb
          /\ Goto(p, "direct") /\ Observe(TRUE)
          /\ UNCHANGED <<writable, snap, writeLock, txVars, closeVars>>
      BY <1>14 DEF ClearCache
    <2>2. View' \in Contents
      BY <1>0, <2>1, OverlayType DEF View
    <2>3. allowed' \in [Procs -> SUBSET Contents] /\ raced' \in [Procs -> BOOLEAN]
      BY <2>1, <2>2, ObserveType
    <2> QED
      BY <1>0, <2>1, <2>3, GotoType DEF txVars, closeVars
  <1>15. CASE CommitDirect(p)
    <2>1. /\ cachedKeys' = cachedKeys /\ cachedRemove' = cachedRemove
          /\ ldb' = Overlay(ldb, pendingKeys, pendingRemove) /\ End(p) /\ Observe(TRUE)
      BY <1>15 DEF CommitDirect
    <2>2. ldb' \in Contents
      BY <2>1, OverlayType
    <2>3. View' \in Contents
      BY <2>1, <2>2, OverlayType DEF View
    <2>4. allowed' \in [Procs -> SUBSET Contents] /\ raced' \in [Procs -> BOOLEAN]
      BY <2>1, <2>3, ObserveType
    <2> QED
      BY <2>1, <2>2, <2>4, EndType
  <1>16. CASE CommitFails(p)
    BY <1>16, EndType DEF CommitFails, cacheVars
  <1>17. CASE Unlock(p)
    BY <1>17, GotoType DEF Unlock, cacheVars, txVars, closeVars
  <1> QED
    BY <1>1, <1>2, <1>3, <1>4, <1>5, <1>6, <1>7, <1>8, <1>9, <1>10, <1>11, <1>12,
       <1>13, <1>14, <1>15, <1>16, <1>17 DEF Goroutine, Finish, Step

\* Every step keeps the types.
LEMMA TypeStep ==
    ASSUME TypeOK, [Next]_vars
    PROVE  TypeOK'
  <1>1. CASE CloseCall
    BY <1>1 DEF TypeOK, CloseCall, cacheVars, txVars
  <1>2. CASE CloseLock
    BY <1>2 DEF TypeOK, CloseLock, cacheVars, txVars
  <1>3. CASE CloseFlush
    <2>1. NoPuts \in Contents /\ View \in Contents
      BY ViewType DEF NoPuts, Contents
    <2> QED
      BY <1>3, <2>1 DEF TypeOK, CloseFlush, cacheVars, txVars
  <1>4. CASE CloseFails
    BY <1>4 DEF TypeOK, CloseFails, cacheVars, txVars
  <1>5. CASE UNCHANGED vars
    BY <1>5 DEF TypeOK, vars, cacheVars, txVars, closeVars
  <1>6. ASSUME NEW p \in Procs, Goroutine(p) PROVE TypeOK'
    BY <1>6, ProcTypeStep
  <1> QED
    BY <1>1, <1>2, <1>3, <1>4, <1>5, <1>6 DEF Next

\* The initial state is well typed.
LEMMA TypeInit == Init => TypeOK
  <1> SUFFICES ASSUME Init PROVE TypeOK
    OBVIOUS
  <1>1. NoPuts \in Contents
    BY DEF NoPuts, Contents
  <1>2. NoSnap \in Snapshots
    BY <1>1 DEF NoSnap, Snapshots
  <1>3. writable \in [Procs -> BOOLEAN] /\ raced \in [Procs -> BOOLEAN]
    BY Zenon DEF Init
  <1> QED
    BY <1>1, <1>2, <1>3 DEF Init, TypeOK

\* Transactions see mappings of keys to values at all times, and the locks,
\* the closer and the history variables keep their types.
THEOREM CacheTypeCorrect == Spec => []TypeOK
  BY TypeInit, TypeStep, PTL DEF Spec

-----------------------------------------------------------------------------
(* The inductive invariant, action by action.  The first group leaves the  *)
(* cache and leveldb alone.                                                *)

\* Without a write to the cache or leveldb the contents stay as they are.
LEMMA ViewUnchanged ==
    ASSUME UNCHANGED cacheVars
    PROVE  /\ ldb' = ldb /\ cachedKeys' = cachedKeys /\ cachedRemove' = cachedRemove
           /\ View' = View /\ Flushed' = Flushed
  BY DEF cacheVars, View, Flushed

\* Begin keeps the invariant.
LEMMA BeginInv ==
    ASSUME CacheInv, TypeOK', NEW p \in Procs, NEW w \in BOOLEAN, Begin(p, w)
    PROVE  CacheInv'
  <1>1. /\ ldb' = ldb /\ cachedKeys' = cachedKeys /\ cachedRemove' = cachedRemove
        /\ View' = View /\ Flushed' = Flushed
    BY ViewUnchanged DEF Begin
  <1> USE DEF CacheInv
  <1>2. LockInv'
    BY GotoType, ConstAssumption DEF LockInv, Begin, TypeOK, txVars, closeVars
  <1>3. CloseInv'
    BY GotoType DEF CloseInv, CloseLocked, Holding, Begin, TypeOK, txVars, closeVars
  <1>4. FlushInv'
    BY <1>1, GotoType DEF FlushInv, Flushed, Begin, TypeOK, txVars, closeVars
  <1>5. SnapInv'
    BY <1>1, GotoType DEF SnapInv, InTx, Read, View, Begin, TypeOK, txVars, closeVars, Snapshots, LockInv
  <1>6. PendingInv'
    BY <1>1, GotoType, ConstAssumption DEF PendingInv, InTx, LockInv, Begin, TypeOK, txVars, closeVars
  <1> QED
    BY <1>2, <1>3, <1>4, <1>5, <1>6

\* LockWrite keeps the invariant.
LEMMA LockWriteInv ==
    ASSUME CacheInv, TypeOK', NEW p \in Procs, LockWrite(p)
    PROVE  CacheInv'
  <1>1. /\ ldb' = ldb /\ cachedKeys' = cachedKeys /\ cachedRemove' = cachedRemove
        /\ View' = View /\ Flushed' = Flushed
    BY ViewUnchanged DEF LockWrite
  <1> USE DEF CacheInv
  <1>2. LockInv'
    BY GotoType, ConstAssumption DEF LockInv, LockWrite, TypeOK, txVars, closeVars
  <1>3. CloseInv'
    BY GotoType DEF CloseInv, CloseLocked, Holding, LockWrite, TypeOK, txVars, closeVars
  <1>4. FlushInv'
    BY <1>1, GotoType DEF FlushInv, Flushed, LockWrite, TypeOK, txVars, closeVars
  <1>5. SnapInv'
    BY <1>1, GotoType DEF SnapInv, InTx, Read, View, LockWrite, TypeOK, txVars, closeVars, Snapshots, LockInv
  <1>6. PendingInv'
    BY <1>1, GotoType, ConstAssumption DEF PendingInv, InTx, LockInv, LockWrite, TypeOK, txVars, closeVars
  <1> QED
    BY <1>2, <1>3, <1>4, <1>5, <1>6

\* LockClose keeps the invariant.
LEMMA LockCloseInv ==
    ASSUME CacheInv, TypeOK', NEW p \in Procs, LockClose(p)
    PROVE  CacheInv'
  <1>1. /\ ldb' = ldb /\ cachedKeys' = cachedKeys /\ cachedRemove' = cachedRemove
        /\ View' = View /\ Flushed' = Flushed
    BY ViewUnchanged DEF LockClose
  <1> USE DEF CacheInv
  <1>2. LockInv'
    BY GotoType, ConstAssumption DEF LockInv, LockClose, TypeOK, txVars, closeVars
  <1>3. CloseInv'
    BY GotoType DEF CloseInv, CloseLocked, Holding, LockClose, TypeOK, txVars, closeVars
  <1>4. FlushInv'
    BY <1>1, GotoType DEF FlushInv, Flushed, LockClose, TypeOK, txVars, closeVars
  <1>5. SnapInv'
    BY <1>1, GotoType DEF SnapInv, InTx, Read, View, LockClose, TypeOK, txVars, closeVars, Snapshots, LockInv
  <1>6. PendingInv'
    BY <1>1, GotoType, ConstAssumption DEF PendingInv, InTx, LockInv, LockClose, TypeOK, txVars, closeVars
  <1> QED
    BY <1>2, <1>3, <1>4, <1>5, <1>6

\* GetSnapshot keeps the invariant.
LEMMA GetSnapshotInv ==
    ASSUME CacheInv, TypeOK', NEW p \in Procs, GetSnapshot(p)
    PROVE  CacheInv'
  <1>1. /\ ldb' = ldb /\ cachedKeys' = cachedKeys /\ cachedRemove' = cachedRemove
        /\ View' = View /\ Flushed' = Flushed
    BY ViewUnchanged DEF GetSnapshot
  <1> USE DEF CacheInv
  <1>2. LockInv'
    BY GotoType, ConstAssumption DEF LockInv, GetSnapshot, TypeOK, txVars, closeVars
  <1>3. CloseInv'
    BY GotoType DEF CloseInv, CloseLocked, Holding, GetSnapshot, TypeOK, txVars, closeVars
  <1>4. FlushInv'
    BY <1>1, GotoType DEF FlushInv, Flushed, GetSnapshot, TypeOK, txVars, closeVars
  <1>5. SnapInv'
    BY <1>1, GotoType DEF SnapInv, InTx, Read, View, GetSnapshot, TypeOK, txVars, closeVars, Snapshots, LockInv
  <1>6. PendingInv'
    BY <1>1, GotoType, ConstAssumption DEF PendingInv, InTx, LockInv, GetSnapshot, TypeOK, txVars, closeVars
  <1> QED
    BY <1>2, <1>3, <1>4, <1>5, <1>6

\* GetSnapshotFails keeps the invariant.
LEMMA GetSnapshotFailsInv ==
    ASSUME CacheInv, TypeOK', NEW p \in Procs, GetSnapshotFails(p)
    PROVE  CacheInv'
  <1>1. /\ ldb' = ldb /\ cachedKeys' = cachedKeys /\ cachedRemove' = cachedRemove
        /\ View' = View /\ Flushed' = Flushed
    BY ViewUnchanged DEF GetSnapshotFails
  <1> USE DEF CacheInv
  <1>2. LockInv'
    BY EndType, ConstAssumption DEF LockInv, GetSnapshotFails, TypeOK, txVars, closeVars
  <1>3. CloseInv'
    BY EndType DEF CloseInv, CloseLocked, Holding, GetSnapshotFails, TypeOK, txVars, closeVars
  <1>4. FlushInv'
    BY <1>1, EndType DEF FlushInv, Flushed, GetSnapshotFails, TypeOK, txVars, closeVars
  <1>5. SnapInv'
    BY <1>1, EndType DEF SnapInv, InTx, Read, View, GetSnapshotFails, TypeOK, txVars, closeVars, Snapshots, LockInv
  <1>6. PendingInv'
    BY <1>1, EndType, ConstAssumption DEF PendingInv, InTx, LockInv, GetSnapshotFails, TypeOK, txVars, closeVars, End
  <1> QED
    BY <1>2, <1>3, <1>4, <1>5, <1>6

\* GetRoots keeps the invariant.
LEMMA GetRootsInv ==
    ASSUME CacheInv, TypeOK', NEW p \in Procs, GetRoots(p)
    PROVE  CacheInv'
  <1>1. /\ ldb' = ldb /\ cachedKeys' = cachedKeys /\ cachedRemove' = cachedRemove
        /\ View' = View /\ Flushed' = Flushed
    BY ViewUnchanged DEF GetRoots
  <1> USE DEF CacheInv
  <1>2. LockInv'
    BY GotoType, ConstAssumption DEF LockInv, GetRoots, TypeOK, txVars, closeVars
  <1>3. CloseInv'
    BY GotoType DEF CloseInv, CloseLocked, Holding, GetRoots, TypeOK, txVars, closeVars
  <1>4. FlushInv'
    BY <1>1, GotoType DEF FlushInv, Flushed, GetRoots, TypeOK, txVars, closeVars
  <1>5. SnapInv'
    BY <1>1, GotoType DEF SnapInv, InTx, Read, View, GetRoots, TypeOK, txVars, closeVars, Snapshots, LockInv
  <1>6. PendingInv'
    BY <1>1, GotoType, ConstAssumption DEF PendingInv, InTx, LockInv, GetRoots, TypeOK, txVars, closeVars
  <1> QED
    BY <1>2, <1>3, <1>4, <1>5, <1>6

\* Unlock keeps the invariant.
LEMMA UnlockInv ==
    ASSUME CacheInv, TypeOK', NEW p \in Procs, Unlock(p)
    PROVE  CacheInv'
  <1>1. /\ ldb' = ldb /\ cachedKeys' = cachedKeys /\ cachedRemove' = cachedRemove
        /\ View' = View /\ Flushed' = Flushed
    BY ViewUnchanged DEF Unlock
  <1> USE DEF CacheInv
  <1>2. LockInv'
    BY GotoType, ConstAssumption DEF LockInv, Unlock, TypeOK, txVars, closeVars
  <1>3. CloseInv'
    BY GotoType DEF CloseInv, CloseLocked, Holding, Unlock, TypeOK, txVars, closeVars
  <1>4. FlushInv'
    BY <1>1, GotoType DEF FlushInv, Flushed, Unlock, TypeOK, txVars, closeVars
  <1>5. SnapInv'
    BY <1>1, GotoType DEF SnapInv, InTx, Read, View, Unlock, TypeOK, txVars, closeVars, Snapshots, LockInv
  <1>6. PendingInv'
    BY <1>1, GotoType, ConstAssumption DEF PendingInv, InTx, LockInv, Unlock, TypeOK, txVars, closeVars
  <1> QED
    BY <1>2, <1>3, <1>4, <1>5, <1>6

\* putKey keeps the invariant.
LEMMA putKeyInv ==
    ASSUME CacheInv, TypeOK', NEW p \in Procs, NEW k \in Keys, NEW v \in Values, putKey(p, k, v)
    PROVE  CacheInv'
  <1>1. /\ ldb' = ldb /\ cachedKeys' = cachedKeys /\ cachedRemove' = cachedRemove
        /\ View' = View /\ Flushed' = Flushed
    BY ViewUnchanged DEF putKey
  <1> USE DEF CacheInv
  <1>2. LockInv'
    BY GotoType, ConstAssumption DEF LockInv, putKey, TypeOK, txVars, closeVars
  <1>3. CloseInv'
    BY GotoType DEF CloseInv, CloseLocked, Holding, putKey, TypeOK, txVars, closeVars
  <1>4. FlushInv'
    BY <1>1, GotoType DEF FlushInv, Flushed, putKey, TypeOK, txVars, closeVars
  <1>5. SnapInv'
    BY <1>1, GotoType DEF SnapInv, InTx, Read, View, putKey, TypeOK, txVars, closeVars, Snapshots, LockInv
  <1>6. PendingInv'
    BY <1>1, GotoType, ConstAssumption DEF PendingInv, InTx, LockInv, putKey, TypeOK, txVars, closeVars
  <1> QED
    BY <1>2, <1>3, <1>4, <1>5, <1>6

\* deleteKey keeps the invariant.
LEMMA deleteKeyInv ==
    ASSUME CacheInv, TypeOK', NEW p \in Procs, NEW k \in Keys, deleteKey(p, k)
    PROVE  CacheInv'
  <1>1. /\ ldb' = ldb /\ cachedKeys' = cachedKeys /\ cachedRemove' = cachedRemove
        /\ View' = View /\ Flushed' = Flushed
    BY ViewUnchanged DEF deleteKey
  <1> USE DEF CacheInv
  <1>2. LockInv'
    BY GotoType, ConstAssumption DEF LockInv, deleteKey, TypeOK, txVars, closeVars
  <1>3. CloseInv'
    BY GotoType DEF CloseInv, CloseLocked, Holding, deleteKey, TypeOK, txVars, closeVars
  <1>4. FlushInv'
    BY <1>1, GotoType DEF FlushInv, Flushed, deleteKey, TypeOK, txVars, closeVars
  <1>5. SnapInv'
    BY <1>1, GotoType DEF SnapInv, InTx, Read, View, deleteKey, TypeOK, txVars, closeVars, Snapshots, LockInv
  <1>6. PendingInv'
    BY <1>1, GotoType, ConstAssumption DEF PendingInv, InTx, LockInv, deleteKey, TypeOK, txVars, closeVars
  <1> QED
    BY <1>2, <1>3, <1>4, <1>5, <1>6

\* Rollback keeps the invariant.
LEMMA RollbackInv ==
    ASSUME CacheInv, TypeOK', NEW p \in Procs, Rollback(p)
    PROVE  CacheInv'
  <1>1. /\ ldb' = ldb /\ cachedKeys' = cachedKeys /\ cachedRemove' = cachedRemove
        /\ View' = View /\ Flushed' = Flushed
    BY ViewUnchanged DEF Rollback
  <1> USE DEF CacheInv
  <1>2. LockInv'
    BY EndType, ConstAssumption DEF LockInv, Rollback, TypeOK, txVars, closeVars
  <1>3. CloseInv'
    BY EndType DEF CloseInv, CloseLocked, Holding, Rollback, TypeOK, txVars, closeVars
  <1>4. FlushInv'
    BY <1>1, EndType DEF FlushInv, Flushed, Rollback, TypeOK, txVars, closeVars
  <1>5. SnapInv'
    BY <1>1, EndType DEF SnapInv, InTx, Read, View, Rollback, TypeOK, txVars, closeVars, Snapshots, LockInv
  <1>6. PendingInv'
    BY <1>1, EndType, ConstAssumption DEF PendingInv, InTx, LockInv, Rollback, TypeOK, txVars, closeVars, End
  <1> QED
    BY <1>2, <1>3, <1>4, <1>5, <1>6

\* Commit keeps the invariant.
LEMMA CommitInv ==
    ASSUME CacheInv, TypeOK', NEW p \in Procs, Commit(p)
    PROVE  CacheInv'
  <1>1. /\ ldb' = ldb /\ cachedKeys' = cachedKeys /\ cachedRemove' = cachedRemove
        /\ View' = View /\ Flushed' = Flushed
    BY ViewUnchanged DEF Commit
  <1> USE DEF CacheInv
  <1>2. LockInv'
    BY GotoType, ConstAssumption DEF LockInv, Commit, TypeOK, txVars, closeVars
  <1>3. CloseInv'
    BY GotoType DEF CloseInv, CloseLocked, Holding, Commit, TypeOK, txVars, closeVars
  <1>4. FlushInv'
    BY <1>1, GotoType DEF FlushInv, Flushed, Commit, TypeOK, txVars, closeVars
  <1>5. SnapInv'
    BY <1>1, GotoType DEF SnapInv, InTx, Read, View, Commit, TypeOK, txVars, closeVars, Snapshots, LockInv
  <1>6. PendingInv'
    BY <1>1, GotoType, ConstAssumption DEF PendingInv, InTx, LockInv, Commit, TypeOK, txVars, closeVars
  <1> QED
    BY <1>2, <1>3, <1>4, <1>5, <1>6

\* FlushSync keeps the invariant.
LEMMA FlushSyncInv ==
    ASSUME CacheInv, TypeOK', NEW p \in Procs, FlushSync(p)
    PROVE  CacheInv'
  <1>1. /\ ldb' = ldb /\ cachedKeys' = cachedKeys /\ cachedRemove' = cachedRemove
        /\ View' = View /\ Flushed' = Flushed
    BY ViewUnchanged DEF FlushSync
  <1> USE DEF CacheInv
  <1>2. LockInv'
    BY GotoType, ConstAssumption DEF LockInv, FlushSync, TypeOK, txVars, closeVars
  <1>3. CloseInv'
    BY GotoType DEF CloseInv, CloseLocked, Holding, FlushSync, TypeOK, txVars, closeVars
  <1>4. FlushInv'
    BY <1>1, GotoType DEF FlushInv, Flushed, FlushSync, TypeOK, txVars, closeVars
  <1>5. SnapInv'
    BY <1>1, GotoType DEF SnapInv, InTx, Read, View, FlushSync, TypeOK, txVars, closeVars, Snapshots, LockInv
  <1>6. PendingInv'
    BY <1>1, GotoType, ConstAssumption DEF PendingInv, InTx, LockInv, FlushSync, TypeOK, txVars, closeVars
  <1> QED
    BY <1>2, <1>3, <1>4, <1>5, <1>6

\* CommitFails keeps the invariant.
LEMMA CommitFailsInv ==
    ASSUME CacheInv, TypeOK', NEW p \in Procs, CommitFails(p)
    PROVE  CacheInv'
  <1>1. /\ ldb' = ldb /\ cachedKeys' = cachedKeys /\ cachedRemove' = cachedRemove
        /\ View' = View /\ Flushed' = Flushed
    BY ViewUnchanged DEF CommitFails
  <1> USE DEF CacheInv
  <1>2. LockInv'
    BY EndType, ConstAssumption DEF LockInv, CommitFails, TypeOK, txVars, closeVars
  <1>3. CloseInv'
    BY EndType DEF CloseInv, CloseLocked, Holding, CommitFails, TypeOK, txVars, closeVars
  <1>4. FlushInv'
    BY <1>1, EndType DEF FlushInv, Flushed, CommitFails, TypeOK, txVars, closeVars
  <1>5. SnapInv'
    BY <1>1, EndType DEF SnapInv, InTx, Read, View, CommitFails, TypeOK, txVars, closeVars, Snapshots, LockInv
  <1>6. PendingInv'
    BY <1>1, EndType, ConstAssumption DEF PendingInv, InTx, LockInv, CommitFails, TypeOK, txVars, closeVars, End
  <1> QED
    BY <1>2, <1>3, <1>4, <1>5, <1>6

\* CloseCall keeps the invariant.
LEMMA CloseCallInv ==
    ASSUME CacheInv, TypeOK', CloseCall
    PROVE  CacheInv'
  <1>1. /\ ldb' = ldb /\ cachedKeys' = cachedKeys /\ cachedRemove' = cachedRemove
        /\ View' = View /\ Flushed' = Flushed
    BY ViewUnchanged DEF CloseCall
  <1> USE DEF CacheInv
  <1>2. LockInv' /\ PendingInv'
    BY DEF LockInv, PendingInv, InTx, CloseCall, txVars
  <1>3. CloseInv'
    BY DEF CloseInv, Holding, CloseCall
  <1>4. FlushInv' /\ SnapInv'
    BY <1>1 DEF FlushInv, SnapInv, InTx, Read, CloseCall
  <1> QED
    BY <1>2, <1>3, <1>4

\* CloseLock keeps the invariant.
LEMMA CloseLockInv ==
    ASSUME CacheInv, TypeOK', CloseLock
    PROVE  CacheInv'
  <1>1. /\ ldb' = ldb /\ cachedKeys' = cachedKeys /\ cachedRemove' = cachedRemove
        /\ View' = View /\ Flushed' = Flushed
    BY ViewUnchanged DEF CloseLock
  <1> USE DEF CacheInv
  <1>2. LockInv' /\ PendingInv'
    BY DEF LockInv, PendingInv, InTx, CloseLock, txVars
  <1>3. CloseInv'
    BY DEF CloseInv, Holding, CloseLock
  <1>4. FlushInv' /\ SnapInv'
    BY <1>1 DEF FlushInv, SnapInv, InTx, Read, CloseLock
  <1> QED
    BY <1>2, <1>3, <1>4

\* CloseFails keeps the invariant.
LEMMA CloseFailsInv ==
    ASSUME CacheInv, TypeOK', CloseFails
    PROVE  CacheInv'
  <1>1. /\ ldb' = ldb /\ cachedKeys' = cachedKeys /\ cachedRemove' = cachedRemove
        /\ View' = View /\ Flushed' = Flushed
    BY ViewUnchanged DEF CloseFails
  <1> USE DEF CacheInv
  <1>2. LockInv' /\ PendingInv'
    BY DEF LockInv, PendingInv, InTx, CloseFails, txVars
  <1>3. CloseInv'
    BY DEF CloseInv, Holding, CloseFails
  <1>4. FlushInv' /\ SnapInv'
    BY <1>1 DEF FlushInv, SnapInv, InTx, Read, CloseFails
  <1> QED
    BY <1>2, <1>3, <1>4

-----------------------------------------------------------------------------
(* The second group writes the cache or leveldb.                           *)

\* While a goroutine commits it holds the write lock and a read lock, so
\* Close has not got past its wait and nobody else commits.
LEMMA CommitterAlone ==
    ASSUME CacheInv, NEW p \in Procs, pc[p] \in {"commit", "flush", "clear", "direct"}
    PROVE  /\ writable[p] /\ Holding(p) /\ InTx(p)
           /\ closer \notin {"sync", "flush", "clear", "done", "failed"} /\ ~closed
           /\ \A q \in Procs : q # p => ~writable[q] \/ pc[q] \in {"idle", "wlock"}
  BY DEF CacheInv, LockInv, CloseInv, Holding, InTx

\* CommitToCache keeps the invariant: nobody else looks through the cache
\* with the write lock held.
LEMMA CommitToCacheInv ==
    ASSUME CacheInv, TypeOK', NEW p \in Procs, CommitToCache(p)
    PROVE  CacheInv'
  <1> USE DEF CacheInv
  <1>0. pc[p] = "commit" /\ End(p)
    BY DEF CommitToCache
  <1>1. /\ writable[p] /\ closer \notin {"sync", "flush", "clear", "done", "failed"}
        /\ \A q \in Procs : q # p => ~writable[q] \/ pc[q] \in {"idle", "wlock"}
    BY <1>0, CommitterAlone
  <1>2. LockInv' /\ CloseInv'
    BY <1>0, EndType DEF LockInv, CloseInv, Holding
  <1>3. FlushInv'
    BY <1>0, <1>1, EndType DEF FlushInv, LockInv
  <1>4. SnapInv'
    BY <1>0, <1>1, EndType DEF SnapInv, InTx
  <1>5. PendingInv'
    BY <1>0, <1>1 DEF PendingInv, End
  <1> QED
    BY <1>2, <1>3, <1>4, <1>5

\* FlushCache keeps the invariant: the contents are the same with the cache
\* written to leveldb and still in memory.
LEMMA FlushCacheInv ==
    ASSUME CacheInv, TypeOK', NEW p \in Procs, FlushCache(p)
    PROVE  CacheInv' /\ View' = View
  <1> USE DEF CacheInv
  <1>0. /\ pc[p] = "flush" /\ Goto(p, "clear") /\ ldb' = View
        /\ cachedKeys' = cachedKeys /\ cachedRemove' = cachedRemove
        /\ UNCHANGED <<writable, snap, writeLock, pendingKeys, pendingRemove, closer, closed>>
    BY DEF FlushCache, txVars, closeVars
  <1>1. /\ writable[p] /\ closer \notin {"sync", "flush", "clear", "done", "failed"}
        /\ InTx(p)
        /\ \A q \in Procs : q # p => ~writable[q] \/ pc[q] \in {"idle", "wlock"}
    BY <1>0, CommitterAlone
  <1>2. View' = View
    BY <1>0, OverlayTwice DEF View, TypeOK
  <1>3. LockInv' /\ CloseInv'
    BY <1>0, GotoType DEF LockInv, CloseInv, Holding
  <1>4. FlushInv'
    BY <1>0, <1>1, <1>2, GotoType DEF FlushInv, LockInv
  <1>5. SnapInv'
    BY <1>0, <1>1, <1>2, GotoType DEF SnapInv, InTx, Read
  <1>6. PendingInv'
    BY <1>0, <1>1, GotoType DEF PendingInv, InTx
  <1> QED
    BY <1>2, <1>3, <1>4, <1>5, <1>6

\* ClearCache keeps the invariant: leveldb already holds what the cache holds.
LEMMA ClearCacheInv ==
    ASSUME CacheInv, TypeOK', NEW p \in Procs, ClearCache(p)
    PROVE  CacheInv' /\ View' = View
  <1> USE DEF CacheInv
  <1>0. /\ pc[p] = "clear" /\ Goto(p, "direct") /\ ldb' = ldb
        /\ cachedKeys' = NoPuts /\ cachedRemove' = {}
        /\ UNCHANGED <<writable, snap, writeLock, pendingKeys, pendingRemove, closer, closed>>
    BY DEF ClearCache, txVars, closeVars
  <1>1. /\ writable[p] /\ closer \notin {"sync", "flush", "clear", "done", "failed"}
        /\ InTx(p)
        /\ \A q \in Procs : q # p => ~writable[q] \/ pc[q] \in {"idle", "wlock"}
    BY <1>0, CommitterAlone
  <1>2. View' = View
    <2>1. View' = ldb
      BY <1>0, OverlayNothing DEF View, TypeOK
    <2> QED
      BY <2>1, <1>0 DEF FlushInv
  <1>3. LockInv' /\ CloseInv'
    BY <1>0, GotoType DEF LockInv, CloseInv, Holding
  <1>4. FlushInv'
    BY <1>0, <1>1, <1>2, GotoType DEF FlushInv, LockInv, Flushed, NoPuts
  <1>5. SnapInv'
    BY <1>0, <1>1, <1>2, GotoType DEF SnapInv, InTx, Read
  <1>6. PendingInv'
    BY <1>0, <1>1, GotoType DEF PendingInv, InTx
  <1> QED
    BY <1>2, <1>3, <1>4, <1>5, <1>6

\* CommitDirect keeps the invariant: the cache is empty, so what it writes to
\* leveldb is not hidden.
LEMMA CommitDirectInv ==
    ASSUME CacheInv, TypeOK', NEW p \in Procs, CommitDirect(p)
    PROVE  CacheInv' /\ View' = Overlay(View, pendingKeys, pendingRemove)
  <1> USE DEF CacheInv
  <1>0. /\ pc[p] = "direct" /\ End(p)
        /\ ldb' = Overlay(ldb, pendingKeys, pendingRemove)
        /\ cachedKeys' = cachedKeys /\ cachedRemove' = cachedRemove
    BY DEF CommitDirect
  <1>1. /\ writable[p] /\ closer \notin {"sync", "flush", "clear", "done", "failed"}
        /\ \A q \in Procs : q # p => ~writable[q] \/ pc[q] \in {"idle", "wlock"}
    BY <1>0, CommitterAlone
  <1>2. View' = Overlay(View, pendingKeys, pendingRemove)
    <2>1. cachedKeys = NoPuts /\ cachedRemove = {}
      BY <1>0 DEF FlushInv, Flushed
    <2>2. View = ldb /\ View' = ldb'
      BY <1>0, <2>1, OverlayNothing DEF View, TypeOK
    <2> QED
      BY <1>0, <2>2
  <1>3. LockInv' /\ CloseInv'
    BY <1>0, EndType DEF LockInv, CloseInv, Holding
  <1>4. FlushInv'
    BY <1>0, <1>1, EndType DEF FlushInv, LockInv
  <1>5. SnapInv'
    BY <1>0, <1>1, EndType DEF SnapInv, InTx
  <1>6. PendingInv'
    BY <1>0, <1>1 DEF PendingInv, End
  <1> QED
    BY <1>2, <1>3, <1>4, <1>5, <1>6

\* The flush of Close keeps the invariant and what was committed.
LEMMA CloseFlushInv ==
    ASSUME CacheInv, TypeOK', CloseFlush
    PROVE  CacheInv' /\ View' = View
  <1> USE DEF CacheInv
  <1>0. /\ UNCHANGED <<pc, writable, snap, writeLock, pendingKeys, pendingRemove, closed>>
        /\ closer \in {"sync", "flush", "clear"} /\ closer' \in {"flush", "clear", "done"}
    BY DEF CloseFlush, txVars
  <1>1. closed /\ \A p \in Procs : ~Holding(p)
    BY <1>0 DEF CloseInv
  <1>2. View' = View /\ (closer' = "clear" => ldb' = View) /\ (closer' = "done" => Flushed')
    <2>1. CASE closer = "sync"
      BY <2>1, ViewUnchanged DEF CloseFlush, Flushed, cacheVars
    <2>2. CASE closer = "flush"
      BY <2>2, OverlayTwice DEF CloseFlush, View, TypeOK
    <2>3. CASE closer = "clear"
      <3>1. View' = ldb
        BY <2>3, OverlayNothing DEF CloseFlush, View, TypeOK
      <3> QED
        BY <2>3, <3>1 DEF CloseFlush, FlushInv, Flushed, NoPuts
    <2> QED
      BY <1>0, <2>1, <2>2, <2>3
  <1>3. LockInv' /\ PendingInv'
    BY <1>0 DEF LockInv, PendingInv, InTx
  <1>4. CloseInv'
    BY <1>0, <1>1 DEF CloseInv, Holding
  <1>5. FlushInv' /\ SnapInv'
    BY <1>0, <1>1, <1>2 DEF FlushInv, SnapInv, Holding, InTx
  <1> QED
    BY <1>2, <1>3, <1>4, <1>5

\* Every step of a goroutine keeps the invariant.
LEMMA GoroutineInv ==
    ASSUME CacheInv, TypeOK', NEW p \in Procs, Goroutine(p)
    PROVE  CacheInv'
  <1>1. ASSUME NEW w \in BOOLEAN, Begin(p, w) PROVE CacheInv'
    BY <1>1, BeginInv
  <1>2. ASSUME NEW k \in Keys, NEW v \in Values, putKey(p, k, v) PROVE CacheInv'
    BY <1>2, putKeyInv
  <1>3. ASSUME NEW k \in Keys, deleteKey(p, k) PROVE CacheInv'
    BY <1>3, deleteKeyInv
  <1>4. CASE LockWrite(p) \/ LockClose(p) \/ Finish(p)
    BY <1>4, LockWriteInv, LockCloseInv, RollbackInv, CommitInv DEF Finish
  <1>5. CASE Step(p)
    BY <1>5, GetSnapshotInv, GetSnapshotFailsInv, GetRootsInv, CommitToCacheInv,
       FlushSyncInv, FlushCacheInv, ClearCacheInv, CommitDirectInv, CommitFailsInv,
       UnlockInv DEF Step
  <1> QED
    BY <1>1, <1>2, <1>3, <1>4, <1>5 DEF Goroutine

\* Every step keeps the invariant.
LEMMA CacheInvStep ==
    ASSUME CacheInv, [Next]_vars
    PROVE  CacheInv'
  <1>1. TypeOK'
    BY TypeStep DEF CacheInv
  <1>2. ASSUME NEW p \in Procs, Goroutine(p) PROVE CacheInv'
    BY <1>1, <1>2, GoroutineInv
  <1>3. CASE UNCHANGED vars
    <2>1. View' = View /\ Flushed' = Flushed
      BY <1>3, ViewUnchanged DEF vars
    <2> QED
      BY <1>1, <1>3, <2>1 DEF CacheInv, LockInv, CloseInv, FlushInv, SnapInv, PendingInv,
         Holding, InTx, Read, vars, cacheVars, txVars, closeVars
  <1> QED
    BY <1>1, <1>2, <1>3, CloseCallInv, CloseLockInv, CloseFlushInv, CloseFailsInv DEF Next

\* The invariant holds initially.
LEMMA CacheInvInit == Init => CacheInv
  <1> SUFFICES ASSUME Init PROVE CacheInv
    OBVIOUS
  <1>1. TypeOK
    BY TypeInit
  <1>2. \A p \in Procs : pc[p] = "idle" /\ ~writable[p]
    BY DEF Init
  <1> QED
    BY <1>1, <1>2, ConstAssumption DEF Init, CacheInv, LockInv, CloseInv, FlushInv,
       SnapInv, PendingInv, Holding, InTx

-----------------------------------------------------------------------------
(* What it gives.                                                          *)

\* The invariant of the locks, the cache and the writer's snapshot holds in
\* every reachable state, for any number of goroutines, keys and values.
THEOREM CacheInductive == Spec => []CacheInv
  BY CacheInvInit, CacheInvStep, PTL DEF Spec

\* No commit, flush or close makes the snapshot of the open read-write
\* transaction stale.
THEOREM WriterNeverStale == Spec => []WriterSeesCommitted
  <1>1. CacheInv => WriterSeesCommitted
    BY DEF CacheInv, SnapInv, WriterSeesCommitted
  <1> QED
    BY <1>1, CacheInductive, PTL

\* A Close that succeeded left nothing in memory and no transaction open.
THEOREM CloseKeepsCommits == Spec => []CloseLosesNothing
  <1>1. CacheInv => CloseLosesNothing
    BY DEF CacheInv, CloseInv, FlushInv, Flushed, CloseLosesNothing
  <1> QED
    BY <1>1, CacheInductive, PTL

-----------------------------------------------------------------------------
(* Snapshots.                                                              *)

\* A step that leaves the cache, leveldb and the history alone keeps RaceInv
\* when it starts no snapshot.
LEMMA RaceQuiet ==
    ASSUME CacheInv, RaceInv, UNCHANGED <<cacheVars, allowed, raced>>,
           \A p \in Procs : \/ pc'[p] = pc[p] /\ snap'[p] = snap[p]
                            \/ pc[p] \in {"open", "commit", "flush", "clear", "direct"} /\
                               pc'[p] \in {"open", "commit", "flush", "clear", "direct"} /\
                               snap'[p] = snap[p]
                            \/ pc'[p] \notin {"snap", "roots", "open", "commit", "flush",
                                              "clear", "direct"}
    PROVE  RaceInv'
  <1>1. /\ View' = View /\ cachedKeys' = cachedKeys /\ cachedRemove' = cachedRemove
        /\ allowed' = allowed /\ raced' = raced
    BY ViewUnchanged DEF cacheVars
  <1> QED
    BY <1>1 DEF RaceInv, Snapping, InTx, Read

\* LockClose starts a snapshot: the contents are allowed from then on.
LEMMA RaceLockClose ==
    ASSUME CacheInv, TypeOK', RaceInv, NEW p \in Procs, LockClose(p)
    PROVE  RaceInv'
  <1>0. UNCHANGED cacheVars /\ UNCHANGED snap /\ TypeOK
    BY DEF LockClose, CacheInv
  <1>1. View' = View /\ cachedKeys' = cachedKeys /\ cachedRemove' = cachedRemove
    BY <1>0, ViewUnchanged
  <1>2. CASE closed
    BY <1>0, <1>2, RaceQuiet, GotoType DEF LockClose
  <1>3. CASE ~closed
    <2>1. /\ Goto(p, "snap") /\ snap' = snap
          /\ allowed' = [allowed EXCEPT ![p] = {View}] /\ raced' = [raced EXCEPT ![p] = FALSE]
      BY <1>0, <1>3 DEF LockClose
    <2>2. pc'[p] = "snap" /\ allowed'[p] = {View}
      BY <1>0, <2>1, GotoType DEF TypeOK
    <2>3. \A q \in Procs : q # p => pc'[q] = pc[q] /\ allowed'[q] = allowed[q] /\ raced'[q] = raced[q]
      BY <1>0, <2>1, GotoType DEF TypeOK
    <2> QED
      BY <1>0, <1>1, <2>2, <2>3 DEF RaceInv, Snapping, InTx, Read
  <1> QED
    BY <1>2, <1>3

\* The two halves of Snapshot keep RaceInv.
LEMMA RaceSnapshot ==
    ASSUME CacheInv, TypeOK', RaceInv, NEW p \in Procs, GetSnapshot(p) \/ GetRoots(p)
    PROVE  RaceInv'
  <1>0. UNCHANGED cacheVars /\ allowed' = allowed /\ raced' = raced /\ TypeOK
    BY DEF GetSnapshot, GetRoots, CacheInv
  <1>1. /\ View' = View /\ cachedKeys' = cachedKeys /\ cachedRemove' = cachedRemove
        /\ View \in allowed[p]
    BY <1>0, ViewUnchanged DEF GetSnapshot, GetRoots, RaceInv, Snapping
  <1>2. \A q \in Procs : q # p => pc'[q] = pc[q] /\ snap'[q] = snap[q]
    BY <1>0, GotoType DEF GetSnapshot, GetRoots, TypeOK
  <1>3. CASE GetSnapshot(p)
    <2>1. pc'[p] = "roots" /\ snap'[p].ldb = ldb
      BY <1>0, <1>3, GotoType DEF GetSnapshot, TypeOK, Snapshots
    <2> QED
      BY <1>0, <1>1, <1>2, <2>1 DEF RaceInv, Snapping, InTx, Read, View
  <1>4. CASE GetRoots(p)
    <2>1. pc[p] = "roots" /\ pc'[p] = "open"
      BY <1>0, <1>4, GotoType DEF GetRoots
    <2>2. /\ snap'[p].ldb = snap[p].ldb /\ snap'[p].keys = cachedKeys
          /\ snap'[p].remove = cachedRemove
      BY <1>0, <1>4 DEF GetRoots, TypeOK, Snapshots
    <2> QED
      BY <1>0, <1>1, <1>2, <2>1, <2>2 DEF RaceInv, Snapping, InTx, Read
  <1> QED
    BY <1>3, <1>4

\* A commit to the cache is seen by every snapshot of leveldb taken before
\* it, as long as no flush cleared the cache.
LEMMA RaceCommitToCache ==
    ASSUME CacheInv, TypeOK', RaceInv, NEW p \in Procs, CommitToCache(p)
    PROVE  RaceInv'
  <1>0. TypeOK /\ End(p) /\ Observe(FALSE) /\ pc[p] = "commit"
    BY DEF CommitToCache, CacheInv
  <1>1. \A s \in Contents : Overlay(s, cachedKeys', cachedRemove')
                            = Overlay(Overlay(s, cachedKeys, cachedRemove), pendingKeys, pendingRemove)
    BY <1>0, OverlayCommit DEF CommitToCache, TypeOK
  <1>2. View' = Overlay(View, pendingKeys, pendingRemove)
    BY <1>0, <1>1 DEF CommitToCache, View, TypeOK
  <1>3. \A q \in Procs : /\ Snapping(q) => allowed'[q] = allowed[q] \cup {View'}
                         /\ ~Snapping(q) => allowed'[q] = allowed[q]
                         /\ raced'[q] = raced[q]
    BY Zenon, <1>0 DEF Observe, TypeOK
  <1>4. \A q \in Procs : pc[q] = "roots" /\ ~raced[q] =>
            Overlay(snap[q].ldb, cachedKeys', cachedRemove') = View'
    BY <1>0, <1>1, <1>2 DEF RaceInv, TypeOK, Snapshots
  <1>5. /\ pc'[p] \notin {"snap", "roots", "open", "commit", "flush", "clear", "direct"}
        /\ \A q \in Procs : q # p => pc'[q] = pc[q] /\ snap'[q] = snap[q]
    BY <1>0, EndType
  <1> QED
    BY <1>3, <1>4, <1>5 DEF RaceInv, Snapping, InTx, Read

\* A flush marks the snapshots it may tear.
LEMMA RaceFlush ==
    ASSUME CacheInv, TypeOK', RaceInv, NEW p \in Procs,
           FlushCache(p) \/ ClearCache(p) \/ CommitDirect(p)
    PROVE  RaceInv'
  <1>0. /\ TypeOK /\ pc[p] \in {"flush", "clear", "direct"}
        /\ \A q \in Procs : q # p => pc'[q] = pc[q] /\ snap'[q] = snap[q]
        /\ \/ pc'[p] \in {"clear", "direct"} /\ snap'[p] = snap[p]
           \/ pc'[p] \in {"idle", "unlock"}
    BY GotoType, EndType DEF FlushCache, ClearCache, CommitDirect, CacheInv
  <1>1. CASE FlushCache(p)
    <2>1. View' = View /\ cachedKeys' = cachedKeys /\ cachedRemove' = cachedRemove /\ Observe(FALSE)
      BY <1>1, FlushCacheInv DEF FlushCache
    <2>2. \A q \in Procs : allowed[q] \subseteq allowed'[q] /\ raced'[q] = raced[q]
      BY Zenon, <1>0, <2>1 DEF Observe, TypeOK
    <2> QED
      BY <1>0, <2>1, <2>2 DEF RaceInv, Snapping, InTx, Read
  <1>2. CASE ClearCache(p) \/ CommitDirect(p)
    <2>1. Observe(TRUE)
      BY <1>2 DEF ClearCache, CommitDirect
    <2>2. \A q \in Procs : /\ Snapping(q) => View' \in allowed'[q] /\ raced'[q]
                           /\ ~Snapping(q) => allowed'[q] = allowed[q] /\ raced'[q] = raced[q]
      BY Zenon, <1>0, <2>1 DEF Observe, TypeOK
    <2> QED
      BY <1>0, <2>2 DEF RaceInv, Snapping, InTx, Read
  <1> QED
    BY <1>1, <1>2

\* The other steps of a goroutine take no snapshot and commit nothing.
LEMMA RaceOther ==
    ASSUME CacheInv, TypeOK', RaceInv, NEW p \in Procs,
           \/ \E w \in BOOLEAN : Begin(p, w)
           \/ LockWrite(p) \/ GetSnapshotFails(p) \/ Unlock(p)
           \/ \E k \in Keys, v \in Values : putKey(p, k, v)
           \/ \E k \in Keys : deleteKey(p, k)
           \/ Rollback(p) \/ Commit(p) \/ FlushSync(p) \/ CommitFails(p)
    PROVE  RaceInv'
  <1>0. TypeOK
    BY DEF CacheInv
  <1>1. ASSUME NEW w \in BOOLEAN, Begin(p, w) PROVE RaceInv'
    BY <1>0, <1>1, RaceQuiet, GotoType DEF Begin
  <1>2. CASE LockWrite(p)
    BY <1>0, <1>2, RaceQuiet, GotoType DEF LockWrite
  <1>3. CASE GetSnapshotFails(p)
    BY <1>0, <1>3, RaceQuiet, EndType DEF GetSnapshotFails
  <1>4. CASE Unlock(p)
    BY <1>0, <1>4, RaceQuiet, GotoType DEF Unlock
  <1>5. ASSUME NEW k \in Keys, NEW v \in Values, putKey(p, k, v) PROVE RaceInv'
    BY <1>0, <1>5, RaceQuiet DEF putKey
  <1>6. ASSUME NEW k \in Keys, deleteKey(p, k) PROVE RaceInv'
    BY <1>0, <1>6, RaceQuiet DEF deleteKey
  <1>7. CASE Rollback(p)
    BY <1>0, <1>7, RaceQuiet, EndType DEF Rollback
  <1>8. CASE Commit(p)
    <2>1. /\ UNCHANGED <<cacheVars, allowed, raced>> /\ snap' = snap
          /\ pc[p] = "open" /\ \E l \in {"commit", "flush", "direct"} : Goto(p, l)
      BY <1>8 DEF Commit
    <2>2. \A q \in Procs : /\ q # p => pc'[q] = pc[q]
                          /\ pc'[p] \in {"commit", "flush", "direct"}
      BY <1>0, <2>1, GotoType
    <2> QED
      BY <2>1, <2>2, RaceQuiet
  <1>9. CASE FlushSync(p)
    <2>1. /\ UNCHANGED <<cacheVars, allowed, raced>> /\ snap' = snap
          /\ pc[p] = "commit" /\ \E l \in {"commit", "flush", "direct"} : Goto(p, l)
      BY <1>9 DEF FlushSync
    <2>2. \A q \in Procs : /\ q # p => pc'[q] = pc[q]
                          /\ pc'[p] \in {"commit", "flush", "direct"}
      BY <1>0, <2>1, GotoType
    <2> QED
      BY <2>1, <2>2, RaceQuiet
  <1>10. CASE CommitFails(p)
    BY <1>0, <1>10, RaceQuiet, EndType DEF CommitFails
  <1> QED
    BY <1>1, <1>2, <1>3, <1>4, <1>5, <1>6, <1>7, <1>8, <1>9, <1>10

\* Every step keeps RaceInv.
LEMMA RaceStep ==
    ASSUME CacheInv, RaceInv, [Next]_vars
    PROVE  RaceInv'
  <1>1. TypeOK'
    BY TypeStep DEF CacheInv
  <1>2. ASSUME NEW p \in Procs, Goroutine(p) PROVE RaceInv'
    BY <1>1, <1>2, RaceLockClose, RaceSnapshot, RaceCommitToCache, RaceFlush, RaceOther
       DEF Goroutine, Step, Finish
  <1>3. CASE CloseCall \/ CloseLock \/ CloseFails
    BY <1>3, RaceQuiet DEF CloseCall, CloseLock, CloseFails
  <1>4. CASE CloseFlush
    <2>1. /\ closer \in {"sync", "flush", "clear"}
          /\ pc' = pc /\ snap' = snap /\ allowed' = allowed /\ raced' = raced
      BY <1>4 DEF CloseFlush
    <2>2. \A p \in Procs : ~Holding(p)
      BY <2>1 DEF CacheInv, CloseInv
    <2> QED
      BY <2>1, <2>2 DEF RaceInv, Holding, Snapping, InTx
  <1>5. CASE UNCHANGED vars
    BY <1>5, RaceQuiet DEF vars
  <1> QED
    BY <1>2, <1>3, <1>4, <1>5 DEF Next

\* The whole invariant, with what snapshots may hold, is inductive.
THEOREM SnapshotsInductive == Spec => []IndInv
  <1>1. Init => CacheInv /\ RaceInv
    <2> SUFFICES ASSUME Init PROVE RaceInv
      BY CacheInvInit
    <2>1. \A p \in Procs : pc[p] = "idle"
      BY DEF Init
    <2> QED
      BY <2>1 DEF RaceInv, Snapping, InTx
  <1>2. CacheInv /\ RaceInv /\ [Next]_vars => CacheInv' /\ RaceInv'
    BY CacheInvStep, RaceStep
  <1> QED
    BY <1>1, <1>2, PTL DEF Spec, IndInv

\* Only a flush between the two halves of Snapshot can give a transaction
\* contents the database never had.
THEOREM SnapshotsConsistent == Spec => []SnapshotAtomicUnlessFlushed
  <1>1. IndInv => SnapshotAtomicUnlessFlushed
    BY DEF IndInv, RaceInv, SnapshotAtomicUnlessFlushed
  <1> QED
    BY <1>1, SnapshotsInductive, PTL

-----------------------------------------------------------------------------
(* The cache over leveldb implements KVStore.                              *)

\* The abstract writer is the owner of the open read-write transaction.
LEMMA WriterIs ==
    ASSUME CacheInv
    PROVE  /\ \A p \in Procs : writable[p] /\ InTx(p) => AbstractWriter = p /\ p # NoProc
           /\ (\A p \in Procs : ~(writable[p] /\ InTx(p))) => AbstractWriter = NoProc
  BY ConstAssumption DEF CacheInv, LockInv, InTx, AbstractWriter

\* A step that neither starts nor ends a read-write transaction, and leaves
\* the contents and the pending changes alone, is invisible.
LEMMA Invisible ==
    ASSUME CacheInv, CacheInv', View' = View, UNCHANGED txVars,
           \A q \in Procs : (writable[q] /\ InTx(q)) = (writable[q] /\ InTx(q))'
    PROVE  UNCHANGED KV!kvVars
  <1>1. AbstractWriter' = AbstractWriter
    <2>1. CASE \A p \in Procs : ~(writable[p] /\ InTx(p))
      <3>1. AbstractWriter = NoProc
        BY <2>1, WriterIs
      <3>2. AbstractWriter' = NoProc
        BY <2>1 DEF AbstractWriter
      <3> QED
        BY <3>1, <3>2
    <2>2. ASSUME NEW p \in Procs, writable[p] /\ InTx(p) PROVE AbstractWriter' = AbstractWriter
      <3>1. AbstractWriter = p
        BY <2>2, WriterIs
      <3>2. writable'[p] /\ pc'[p] \in {"open", "commit", "flush", "clear", "direct"}
        BY <2>2 DEF InTx
      <3>3. writeLock' = p
        BY <3>2 DEF CacheInv, LockInv
      <3>4. AbstractWriter' = p
        BY <3>2, <3>3 DEF AbstractWriter, InTx
      <3> QED
        BY <3>1, <3>4
    <2> QED
      BY <2>1, <2>2
  <1> QED
    BY <1>1 DEF KV!kvVars, txVars

\* The end of the read-write transaction ends the abstract one.
LEMMA WriterEnds ==
    ASSUME CacheInv, TypeOK', NEW p \in Procs, End(p), writable[p] /\ InTx(p)
    PROVE  /\ AbstractWriter # NoProc /\ AbstractWriter' = NoProc
           /\ pendingKeys' = NoPuts /\ pendingRemove' = {}
  <1>1. AbstractWriter # NoProc
    BY WriterIs
  <1>2. pendingKeys' = NoPuts /\ pendingRemove' = {}
    BY DEF End
  <1>3. \A q \in Procs : writable[q] /\ InTx(q) => q = p
    BY DEF CacheInv, LockInv, InTx
  <1>4. \A q \in Procs : ~(writable'[q] /\ pc'[q] \in {"open", "commit", "flush", "clear", "direct"})
    BY <1>3, EndType DEF CacheInv, InTx
  <1>5. AbstractWriter' = NoProc
    BY <1>4 DEF AbstractWriter, InTx
  <1> QED
    BY <1>1, <1>2, <1>5

\* The end of another transaction changes nothing that is visible.
LEMMA OtherEnds ==
    ASSUME CacheInv, CacheInv', NEW p \in Procs, End(p), View' = View,
           ~writable[p] \/ pc[p] = "snap"
    PROVE  UNCHANGED KV!kvVars
  <1>0. TypeOK
    BY DEF CacheInv
  <1>1. UNCHANGED txVars
    <2>1. CASE ~writable[p]
      BY <2>1 DEF End
    <2>2. CASE writable[p] /\ pc[p] = "snap"
      <3>1. \A q \in Procs : ~(writable[q] /\ InTx(q))
        BY <2>2 DEF CacheInv, LockInv, InTx
      <3>2. pendingKeys = NoPuts /\ pendingRemove = {}
        BY <3>1 DEF CacheInv, PendingInv
      <3> QED
        BY <2>2, <3>2 DEF End, txVars
    <2> QED
      BY <2>1, <2>2
  <1>2. \A q \in Procs : (writable[q] /\ InTx(q)) = (writable[q] /\ InTx(q))'
    BY <1>0, EndType DEF InTx
  <1> QED
    BY <1>1, <1>2, Invisible

\* A step of a goroutine is a step of KVStore or invisible.
LEMMA GoroutineRefines ==
    ASSUME CacheInv, CacheInv', NEW p \in Procs, Goroutine(p)
    PROVE  KV!KVNext \/ UNCHANGED KV!kvVars
  <1>0. TypeOK /\ TypeOK'
    BY DEF CacheInv
  <1>1. ASSUME NEW w \in BOOLEAN, Begin(p, w) PROVE UNCHANGED KV!kvVars
    <2>1. View' = View /\ UNCHANGED txVars
      BY <1>1, ViewUnchanged DEF Begin
    <2>2. \A q \in Procs : (writable[q] /\ InTx(q)) = (writable[q] /\ InTx(q))'
      BY <1>0, <1>1, GotoType DEF Begin, InTx, TypeOK
    <2> QED
      BY <2>1, <2>2, Invisible
  <1>2. CASE LockWrite(p) \/ LockClose(p) \/ GetSnapshot(p) \/ Unlock(p) \/ Commit(p)
             \/ FlushSync(p)
    <2>1. View' = View /\ UNCHANGED txVars /\ writable' = writable
      BY <1>2, ViewUnchanged DEF LockWrite, LockClose, GetSnapshot, Unlock, Commit, FlushSync
    <2>2. \A q \in Procs : (writable[q] /\ InTx(q)) = (writable[q] /\ InTx(q))'
      BY <1>0, <1>2, <2>1, GotoType DEF LockWrite, LockClose, GetSnapshot, Unlock, Commit,
         FlushSync, InTx
    <2> QED
      BY <2>1, <2>2, Invisible
  <1>3. CASE FlushCache(p) \/ ClearCache(p)
    <2>1. View' = View /\ UNCHANGED txVars /\ writable' = writable
      BY <1>0, <1>3, FlushCacheInv, ClearCacheInv DEF FlushCache, ClearCache
    <2>2. \A q \in Procs : (writable[q] /\ InTx(q)) = (writable[q] /\ InTx(q))'
      BY <1>0, <1>3, <2>1, GotoType DEF FlushCache, ClearCache, InTx
    <2> QED
      BY <2>1, <2>2, Invisible
  <1>4. CASE GetSnapshotFails(p)
    BY <1>4, OtherEnds, ViewUnchanged DEF GetSnapshotFails
  <1>5. CASE GetRoots(p)
    <2>1. /\ View' = View /\ UNCHANGED txVars /\ writable' = writable /\ writeLock' = writeLock
          /\ pc[p] = "roots" /\ pc'[p] = "open" /\ \A q \in Procs : q # p => pc'[q] = pc[q]
      BY <1>0, <1>5, ViewUnchanged, GotoType DEF GetRoots
    <2>2. CASE ~writable[p]
      <3>1. \A q \in Procs : (writable[q] /\ InTx(q)) = (writable[q] /\ InTx(q))'
        BY <2>1, <2>2 DEF InTx
      <3> QED
        BY <2>1, <3>1, Invisible
    <2>3. CASE writable[p]
      <3>1. writeLock = p /\ \A q \in Procs : ~(writable[q] /\ InTx(q))
        BY <2>1, <2>3 DEF CacheInv, LockInv, InTx
      <3>2. AbstractWriter = NoProc
        BY <3>1, WriterIs
      <3>3. AbstractWriter' = p
        BY <2>1, <2>3, <3>1 DEF AbstractWriter, InTx
      <3>4. KV!KVBegin(p)
        BY <2>1, <3>2, <3>3 DEF KV!KVBegin, txVars
      <3> QED
        BY <3>4 DEF KV!KVNext
    <2> QED
      BY <2>2, <2>3
  <1>6. ASSUME NEW k \in Keys, NEW v \in Values, putKey(p, k, v) PROVE KV!KVPut(k, v)
    <2>1. View' = View /\ AbstractWriter' = AbstractWriter /\ writable[p] /\ InTx(p)
      BY <1>6, ViewUnchanged DEF putKey, AbstractWriter, InTx
    <2>2. AbstractWriter # NoProc
      BY <2>1, WriterIs
    <2> QED
      BY <1>6, <2>1, <2>2 DEF putKey, KV!KVPut
  <1>7. ASSUME NEW k \in Keys, deleteKey(p, k) PROVE KV!KVDelete(k)
    <2>1. View' = View /\ AbstractWriter' = AbstractWriter /\ writable[p] /\ InTx(p)
      BY <1>7, ViewUnchanged DEF deleteKey, AbstractWriter, InTx
    <2>2. AbstractWriter # NoProc
      BY <2>1, WriterIs
    <2> QED
      BY <1>7, <2>1, <2>2 DEF deleteKey, KV!KVDelete
  <1>8. CASE Rollback(p) \/ CommitFails(p)
    <2>1. View' = View /\ End(p) /\ InTx(p)
      BY <1>8, ViewUnchanged DEF Rollback, CommitFails, InTx
    <2>2. CASE ~writable[p]
      BY <2>1, <2>2, OtherEnds
    <2>3. CASE writable[p]
      BY <1>0, <2>1, <2>3, WriterEnds DEF KV!KVAbort, KV!KVEnd, KV!KVNext, NoPuts, KV!NoPuts
    <2> QED
      BY <2>2, <2>3
  <1>9. CASE CommitToCache(p) \/ CommitDirect(p)
    <2>1. End(p) /\ writable[p] /\ InTx(p)
      BY <1>9, CommitterAlone DEF CommitToCache, CommitDirect
    <2>2. View' = Overlay(View, pendingKeys, pendingRemove)
      <3>1. CASE CommitToCache(p)
        BY <1>0, <3>1, OverlayCommit DEF CommitToCache, View, TypeOK
      <3> QED
        BY <1>0, <1>9, <3>1, CommitDirectInv
    <2>3. KV!KVCommit
      BY <1>0, <2>1, <2>2, WriterEnds DEF KV!KVCommit, KV!KVEnd, KV!Apply, Overlay, NoPuts,
         KV!NoPuts
    <2> QED
      BY <2>3 DEF KV!KVNext
  <1> QED
    BY <1>1, <1>2, <1>3, <1>4, <1>5, <1>6, <1>7, <1>8, <1>9
       DEF Goroutine, Step, Finish, KV!KVNext

\* Every step is a step of KVStore or invisible.
LEMMA StepRefines ==
    ASSUME CacheInv, CacheInv', [Next]_vars
    PROVE  [KV!KVNext]_(KV!kvVars)
  <1>1. ASSUME NEW p \in Procs, Goroutine(p) PROVE KV!KVNext \/ UNCHANGED KV!kvVars
    BY <1>1, GoroutineRefines
  <1>2. CASE CloseCall \/ CloseLock \/ CloseFlush \/ CloseFails \/ UNCHANGED vars
    <2>1. View' = View /\ UNCHANGED txVars /\ writable' = writable /\ pc' = pc
      BY <1>2, ViewUnchanged, CloseFlushInv
         DEF CloseCall, CloseLock, CloseFlush, CloseFails, vars, CacheInv
    <2> QED
      BY <2>1, Invisible DEF InTx
  <1> QED
    BY <1>1, <1>2 DEF Next

\* The cache over leveldb implements a store of atomic transactions: the
\* flushes, the two-step snapshot and failed commits are invisible.
THEOREM ImplementsStore == Spec => ImplementsKVStore
  <1>1. Init => KV!KVInit
    <2> SUFFICES ASSUME Init PROVE KV!KVInit
      OBVIOUS
    <2>1. View = NoPuts
      BY OverlayNothing DEF Init, View, NoPuts, Contents
    <2>2. AbstractWriter = NoProc
      BY CacheInvInit, WriterIs DEF Init
    <2> QED
      BY <2>1, <2>2 DEF Init, KV!KVInit, NoPuts, KV!NoPuts
  <1>2. CacheInv /\ CacheInv' /\ [Next]_vars => [KV!KVNext]_(KV!kvVars)
    BY StepRefines
  <1> QED
    BY <1>1, <1>2, CacheInductive, PTL DEF Spec, ImplementsKVStore, KV!KVSpec

=============================================================================
