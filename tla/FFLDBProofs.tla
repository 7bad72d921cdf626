----------------------------- MODULE FFLDBProofs -----------------------------
(***************************************************************************)
(* Proofs about the block store FFLDB: when a crash keeps the block files, *)
(* every committed block stays readable, the store can always be reopened  *)
(* and the rows in leveldb are those of whole transactions.  The argument  *)
(* is that every step keeps all cells before the write row of what is      *)
(* committed.                                                              *)
(***************************************************************************)
EXTENDS FFLDB, TLAPS

-----------------------------------------------------------------------------
(* Facts about positions and overlays.                                     *)

\* The order of write positions is transitive on positions.
LEMMA PosLeqTrans ==
    ASSUME NEW p, NEW q, NEW r,
           p.file \in Nat, p.off \in Nat, q \in Pos, r \in Pos,
           PosLeq(p, q), PosLeq(q, r)
    PROVE  PosLeq(p, r)
  BY SizesAssumption DEF PosLeq, PosLess, Pos, Files

\* Laying an index over an index gives an index.
LEMMA OverlayType ==
    ASSUME NEW i \in IdxType, NEW u \in IdxType
    PROVE  Overlay(i, u) \in IdxType
  BY DEF Overlay, IdxType

\* The blocks stored in an overlay are those of its two parts.
LEMMA OverlayStored ==
    ASSUME NEW i \in IdxType, NEW u \in IdxType
    PROVE  Stored(Overlay(i, u)) = Stored(i) \cup Stored(u)
  BY DEF Overlay, Stored, IdxType

\* The empty index changes nothing and stores nothing.
LEMMA OverlayEmpty ==
    ASSUME NEW i \in IdxType
    PROVE  Overlay(i, EmptyIdx) = i /\ EmptyIdx \in IdxType /\ Stored(EmptyIdx) = {}
  <1>1. EmptyIdx \in IdxType
    BY DEF EmptyIdx, IdxType
  <1>2. \A b \in Blocks : EmptyIdx[b] = NoLoc
    BY DEF EmptyIdx
  <1>3. Overlay(i, EmptyIdx) = [b \in Blocks |-> i[b]]
    BY <1>2 DEF Overlay
  <1> QED
    BY <1>1, <1>2, <1>3 DEF Stored, IdxType

\* The view a transaction gets is an index and its write row a position.
LEMMA ViewType ==
    ASSUME TypeOK
    PROVE  ViewIdx \in IdxType /\ ViewRow \in Pos /\ Cursor \in Pos
  BY OverlayType DEF TypeOK, ViewIdx, ViewRow, Cursor, Pos

\* The write of one record, whole or cut short, stays inside its file.
LEMMA WriteFits ==
    ASSUME TypeOK, NEW b \in Blocks
    PROVE  /\ RecLen[b] \in 1 .. MaxFileSize
           /\ WriteOff(b) \in Offsets
           /\ WriteOff(b) + RecLen[b] <= MaxFileSize
           /\ WriteFile(b) \in Nat
  BY SizesAssumption DEF TypeOK, WriteOff, WriteFile, Rotate, Offsets, Files

-----------------------------------------------------------------------------
(* Type correctness.                                                       *)

\* writeData keeps the types of the block store.
LEMMA WriteDataType ==
    ASSUME TypeOK, NEW b \in Blocks, NEW n \in 0 .. RecLen[b], writeData(b, n)
    PROVE  /\ data' \in [Files -> [Offsets -> Cells]]
           /\ size' \in [Files -> 0 .. MaxFileSize]
           /\ synced' \in [Files -> 0 .. MaxFileSize]
           /\ exists' \in SUBSET Files
           /\ cur' \in Files /\ off' \in 0 .. MaxFileSize /\ wopen' \in BOOLEAN
  <1> DEFINE f == WriteFile(b)
             o == WriteOff(b)
  <1>1. /\ f \in Files /\ o \in Offsets /\ o + n \in 0 .. MaxFileSize
        /\ o \in 0 .. MaxFileSize /\ n \in Nat /\ n <= RecLen[b]
        /\ RecLen[b] \in 1 .. MaxFileSize
    BY WriteFits, SizesAssumption DEF writeData, Offsets
  <1> HIDE DEF f, o
  <1>2. \A i \in Offsets : o <= i /\ i < o + n => <<b, i - o>> \in Cells
    BY <1>1, SizesAssumption DEF Cells, Offsets
  <1>3. [i \in Offsets |-> IF o <= i /\ i < o + n THEN <<b, i - o>> ELSE data[f][i]]
            \in [Offsets -> Cells]
    BY <1>1, <1>2 DEF TypeOK
  <1>4. data' = [data EXCEPT ![f] = [i \in Offsets |->
                    IF o <= i /\ i < o + n THEN <<b, i - o>> ELSE data[f][i]]]
    BY DEF writeData, f, o
  <1>5. data' \in [Files -> [Offsets -> Cells]]
    BY <1>1, <1>3, <1>4 DEF TypeOK
  <1>6. /\ size' = [size EXCEPT ![f] = IF @ < o + n THEN o + n ELSE @]
        /\ synced' = [synced EXCEPT ![f] = IF o < @ THEN o ELSE @]
    BY DEF writeData, f, o
  <1>7. size' \in [Files -> 0 .. MaxFileSize] /\ synced' \in [Files -> 0 .. MaxFileSize]
    BY <1>1, <1>6 DEF TypeOK
  <1>8. /\ exists' = exists \cup {f}
        /\ cur' = f /\ off' = o + n /\ wopen' = TRUE
    BY DEF writeData, f, o
  <1> QED
    BY <1>1, <1>5, <1>7, <1>8 DEF TypeOK

\* handleRollback keeps the types of the block store.
LEMMA RollbackType ==
    ASSUME TypeOK, NEW from \in Pos, NEW isOpen \in BOOLEAN, NEW to \in Pos,
           handleRollback(from, isOpen, to)
    PROVE  /\ data' \in [Files -> [Offsets -> Cells]]
           /\ size' \in [Files -> 0 .. MaxFileSize]
           /\ synced' \in [Files -> 0 .. MaxFileSize]
           /\ exists' \in SUBSET Files
           /\ cur' \in Files /\ off' \in 0 .. MaxFileSize /\ wopen' \in BOOLEAN
  <1>1. to.file \in Files /\ to.off \in 0 .. MaxFileSize
    BY DEF Pos
  <1>2. EmptyFile \in [Offsets -> Cells] /\ 0 \in 0 .. MaxFileSize
    BY SizesAssumption DEF EmptyFile, Cells
  <1>3. \A D : Remove(D) => /\ data' \in [Files -> [Offsets -> Cells]]
                            /\ size' \in [Files -> 0 .. MaxFileSize]
                            /\ synced' \in [Files -> 0 .. MaxFileSize]
    BY <1>2 DEF Remove, TypeOK
  <1>4. \A f \in Files : [o \in Offsets |-> IF o < to.off THEN data[f][o] ELSE Hole]
                            \in [Offsets -> Cells]
    BY DEF TypeOK, Cells
  <1>5. \A D, s : RemoveAndTruncate(D, to, s) /\ s \in 0 .. MaxFileSize =>
                            /\ data' \in [Files -> [Offsets -> Cells]]
                            /\ size' \in [Files -> 0 .. MaxFileSize]
                            /\ synced' \in [Files -> 0 .. MaxFileSize]
    BY <1>1, <1>2, <1>4 DEF RemoveAndTruncate, TypeOK
  <1>6. (IF synced[to.file] < to.off THEN synced[to.file] ELSE to.off) \in 0 .. MaxFileSize
    BY <1>1 DEF TypeOK
  <1> QED
    BY Zenon, <1>1, <1>3, <1>5, <1>6 DEF handleRollback, TypeOK, files

\* Ending a transaction keeps the types of its variables.
LEMMA EndTxType ==
    ASSUME EndTx
    PROVE  /\ pc' \in {"idle", "open", "write", "rollback", "flush", "direct"}
           /\ pending' \in Seq(Blocks) /\ txIdx' \in IdxType
           /\ batch' \in SUBSET Blocks /\ old' \in Pos
  BY SizesAssumption DEF EndTx, IdxType, EmptyIdx, Start, Pos, Files

\* Every step keeps the types.
LEMMA TypeStep ==
    ASSUME TypeOK, [Next]_vars
    PROVE  TypeOK'
  <1> USE DEF TypeOK
  <1>0. ViewIdx \in IdxType /\ ViewRow \in Pos /\ Cursor \in Pos /\ EmptyIdx \in IdxType
    BY ViewType, OverlayEmpty
  <1>00. NoRow \in Pos \cup {NoRow}
    OBVIOUS
  <1>1. CASE Begin
    BY <1>1 DEF Begin, files, cursor, meta
  <1>2. ASSUME NEW b \in Blocks, StoreBlock(b) PROVE TypeOK'
    BY <1>2 DEF StoreBlock, files, cursor, meta
  <1>3. CASE Rollback
    BY <1>3, EndTxType DEF Rollback, files, cursor, meta
  <1>4. CASE Commit
    BY <1>4, <1>0 DEF Commit, files, cursor, meta
  <1>5. CASE WriteBlock
    <2> DEFINE b == Head(pending)
    <2>1. b \in Blocks /\ Tail(pending) \in Seq(Blocks)
      BY <1>5 DEF WriteBlock
    <2>2. RecLen[b] \in 0 .. RecLen[b] /\ writeData(b, RecLen[b])
      BY <1>5, <2>1, WriteFits, SizesAssumption DEF WriteBlock
    <2>3. [file |-> WriteFile(b), off |-> WriteOff(b), len |-> RecLen[b]] \in Locs
      BY <2>1, <2>2, WriteFits DEF Locs, writeData
    <2>4. txIdx' = [txIdx EXCEPT ![b] = [file |-> WriteFile(b), off |-> WriteOff(b),
                                         len |-> RecLen[b]]]
          /\ pending' = Tail(pending)
          /\ UNCHANGED <<meta, pc, batch, old, up, committed>>
      BY <1>5 DEF WriteBlock
    <2> HIDE DEF b
    <2>5. txIdx' \in IdxType
      BY <2>1, <2>3, <2>4 DEF IdxType
    <2>6. /\ data' \in [Files -> [Offsets -> Cells]]
          /\ size' \in [Files -> 0 .. MaxFileSize]
          /\ synced' \in [Files -> 0 .. MaxFileSize]
          /\ exists' \in SUBSET Files
          /\ cur' \in Files /\ off' \in 0 .. MaxFileSize /\ wopen' \in BOOLEAN
      BY <2>1, <2>2, WriteDataType
    <2> QED
      BY <2>1, <2>4, <2>5, <2>6 DEF meta
  <1>6. CASE WriteFails
    <2> DEFINE b == Head(pending)
    <2>1. b \in Blocks
      BY <1>6 DEF WriteFails
    <2>2. PICK n \in 0 .. RecLen[b] - 1 : writeData(b, n)
      BY <1>6 DEF WriteFails
    <2>3. n \in 0 .. RecLen[b]
      BY <2>1, WriteFits, SizesAssumption
    <2>4. /\ data' \in [Files -> [Offsets -> Cells]]
          /\ size' \in [Files -> 0 .. MaxFileSize]
          /\ synced' \in [Files -> 0 .. MaxFileSize]
          /\ exists' \in SUBSET Files
          /\ cur' \in Files /\ off' \in 0 .. MaxFileSize /\ wopen' \in BOOLEAN
      BY <2>1, <2>2, <2>3, WriteDataType
    <2> QED
      BY <1>6, <2>4 DEF WriteFails, meta
  <1>7. CASE OpenFails
    <2>1. Head(pending) \in Blocks
      BY <1>7 DEF OpenFails
    <2>2. WriteOff(Head(pending)) \in 0 .. MaxFileSize
      BY SMTT(40), <2>1, WriteFits, SizesAssumption DEF Offsets
    <2> QED
      BY Zenon, <1>7, <2>2 DEF OpenFails, files, meta
  <1>8. CASE RollbackBlocks
    BY <1>8, <1>0, RollbackType, EndTxType DEF RollbackBlocks, meta
  <1>9. CASE CommitToCache
    BY <1>9, <1>0, OverlayType, EndTxType DEF CommitToCache, files, cursor, Stored
  <1>10. syncBlocks => synced' \in [Files -> 0 .. MaxFileSize]
    BY DEF syncBlocks
  <1>11. CASE FlushSync
    BY <1>10, <1>11 DEF FlushSync, cursor, meta
  <1>12. CASE FlushSyncFails
    BY <1>12, EndTxType DEF FlushSyncFails, Fails, files, cursor, meta
  <1>13. CASE Flush
    BY <1>13, <1>0 DEF Flush, commitTreaps, files, cursor
  <1>14. CASE CommitDirect
    BY <1>14, <1>0, OverlayType, EndTxType DEF CommitDirect, files, cursor, Stored
  <1>15. CASE LdbFails
    BY <1>15, EndTxType DEF LdbFails, Fails, files, cursor, meta
  <1>16. Forget => /\ up' \in {"open", "down", "corrupt"}
                   /\ cur' \in Files /\ off' \in 0 .. MaxFileSize /\ wopen' \in BOOLEAN
    <2>1. 0 \in Files /\ 0 \in 0 .. MaxFileSize
      BY SizesAssumption DEF Files
    <2> QED
      BY Zenon, <2>1 DEF Forget
  <1>17. CASE Close
    BY <1>17, <1>0, <1>10, <1>16, EndTxType DEF Close, Forget, commitTreaps
  <1>18. CASE CloseFails
    BY <1>18, <1>0, <1>10, <1>16, EndTxType DEF CloseFails, Forget
  <1>19. CASE Crash
    <2>1. /\ data' \in [Files -> [Offsets -> Cells]]
          /\ size' \in [Files -> 0 .. MaxFileSize]
          /\ synced' \in [Files -> 0 .. MaxFileSize]
      BY SMTT(40), <1>19 DEF Crash, Cells
    <2> QED
      BY Zenon, <1>19, <1>0, <1>16, <2>1, EndTxType DEF Crash, Forget
  <1>20. CASE openDB
    <2>1. PICK p \in Pos : reconcileDB(p)
      BY <1>20 DEF openDB
    <2>2. UNCHANGED <<meta, trans, committed>> /\ FALSE \in BOOLEAN
      BY <1>20 DEF openDB
    <2>3. CASE handleRollback(p, FALSE, ldbRow) /\ up' = "open"
      BY Zenon, <2>2, <2>3, RollbackType DEF meta, trans
    <2>4. CASE /\ cur' = p.file /\ off' = p.off /\ wopen' = FALSE
               /\ up' = IF PosLess(p, ldbRow) THEN "corrupt" ELSE "open"
               /\ UNCHANGED files
      BY Zenon, <2>2, <2>4 DEF Pos, files, meta, trans
    <2> QED
      BY Zenon, <2>1, <2>3, <2>4 DEF reconcileDB
  <1>21. CASE UNCHANGED vars
    BY <1>21 DEF vars, files, cursor, meta, trans
  <1> QED
    BY <1>1, <1>2, <1>3, <1>4, <1>5, <1>6, <1>7, <1>8, <1>9, <1>11, <1>12, <1>13,
       <1>14, <1>15, <1>17, <1>18, <1>19, <1>20, <1>21 DEF Next

\* The initial state is well typed.
LEMMA TypeInit == Init => TypeOK
  <1> SUFFICES ASSUME Init PROVE TypeOK
    OBVIOUS
  <1>1. EmptyIdx \in IdxType /\ Start \in Pos /\ EmptyFile \in [Offsets -> Cells]
    BY SizesAssumption DEF EmptyIdx, IdxType, Start, Pos, Files, EmptyFile, Cells
  <1> QED
    BY <1>1, SizesAssumption DEF Init, TypeOK, Files

\* The block store is type correct in every reachable state, with or without
\* the loss of unsynced data: in particular the write cursor and every index
\* row stay inside the file size limit writeBlock enforces.
THEOREM TypeCorrect == Spec => []TypeOK
  <1>1. Init => TypeOK
    BY TypeInit
  <1>2. TypeOK /\ [Next]_vars => TypeOK'
    BY TypeStep
  <1> QED
    BY <1>1, <1>2, PTL DEF Spec

-----------------------------------------------------------------------------
(* What a step keeps of the files.                                         *)

\* The step keeps every cell before position r.
FilesKept(r) ==
    \A f \in exists : \A o \in Offsets :
        (f < r.file \/ (f = r.file /\ o < r.off)) /\ o < size[f]
        => f \in exists' /\ o < size'[f] /\ data'[f][o] = data[f][o]

\* Files that do not change keep everything.
LEMMA KeptUnchanged ==
    ASSUME UNCHANGED <<data, size, exists>>, NEW r
    PROVE  FilesKept(r)
  BY DEF FilesKept

\* What is kept before a position is kept before an earlier one.
LEMMA KeptEarlier ==
    ASSUME TypeOK, NEW r \in Pos, NEW q \in Pos, PosLeq(q, r), FilesKept(r)
    PROVE  FilesKept(q)
  <1>1. exists \subseteq Nat /\ Offsets \subseteq Nat
    BY SizesAssumption DEF TypeOK, Files, Offsets
  <1>2. \A f, o \in Nat : f < q.file \/ (f = q.file /\ o < q.off)
                            => f < r.file \/ (f = r.file /\ o < r.off)
    BY SizesAssumption DEF PosLeq, PosLess, Pos, Files
  <1> QED
    BY <1>1, <1>2 DEF FilesKept

\* The record of b can be read at loc after the step.
ReadableNext(b, loc) ==
    /\ loc.file \in exists'
    /\ loc.len = RecLen[b]
    /\ loc.off + loc.len <= size'[loc.file]
    /\ \A i \in 0 .. RecLen[b] - 1 : data'[loc.file][loc.off + i] = <<b, i>>

\* A record that lies before r stays readable.
LEMMA KeptReadable ==
    ASSUME TypeOK, TypeOK', NEW b \in Blocks, NEW loc \in Locs, NEW r \in Pos,
           Readable(b, loc), Before(loc, r), FilesKept(r)
    PROVE  ReadableNext(b, loc)
  <1> DEFINE f == loc.file
             e == loc.off + loc.len - 1
  <1>1. /\ f \in Files /\ f \in exists /\ loc.off \in Nat
        /\ loc.len \in Nat /\ loc.len >= 1 /\ loc.len = RecLen[b]
        /\ loc.off + loc.len <= size[f] /\ size[f] \in 0 .. MaxFileSize
    BY SizesAssumption DEF Readable, Locs, TypeOK, Offsets
  <1>2. \A o \in Offsets : o <= e => f < r.file \/ (f = r.file /\ o < r.off)
    BY <1>1, SizesAssumption DEF Before, PosLeq, PosLess, Pos, Files, Offsets
  <1>3. \A o \in Offsets : o <= e => /\ f \in exists' /\ o < size'[f]
                                     /\ data'[f][o] = data[f][o]
    BY <1>1, <1>2, SizesAssumption DEF FilesKept, Offsets
  <1>4. e \in Offsets /\ e <= e
    BY <1>1, SizesAssumption DEF Offsets
  <1>5. f \in exists' /\ loc.off + loc.len <= size'[f]
    <2>1. f \in exists' /\ e < size'[f]
      BY <1>3, <1>4
    <2>2. size'[f] \in Nat
      BY <1>1, SizesAssumption DEF TypeOK
    <2> QED
      BY <1>1, <2>1, <2>2
  <1>6. ASSUME NEW i \in 0 .. RecLen[b] - 1
        PROVE  data'[f][loc.off + i] = <<b, i>>
    <2>1. loc.off + i \in Offsets /\ loc.off + i <= e
      BY <1>1, <1>4, SizesAssumption DEF Offsets
    <2>2. data[f][loc.off + i] = <<b, i>>
      BY Zenon DEF Readable
    <2> QED
      BY <1>3, <2>1, <2>2
  <1> QED
    BY <1>1, <1>5, <1>6 DEF ReadableNext

\* An index that is sound up to q stays sound when the cells before q stay.
LEMMA KeptSound ==
    ASSUME TypeOK, TypeOK', NEW idx \in IdxType, NEW q \in Pos,
           IdxSound(idx, q), FilesKept(q)
    PROVE  \A b \in Blocks : idx[b] # NoLoc => ReadableNext(b, idx[b]) /\ Before(idx[b], q)
  <1> SUFFICES ASSUME NEW b \in Blocks, idx[b] # NoLoc
               PROVE  ReadableNext(b, idx[b]) /\ Before(idx[b], q)
    OBVIOUS
  <1> DEFINE loc == idx[b]
  <1>1. loc \in Locs /\ Readable(b, loc) /\ Before(loc, q)
    BY DEF IdxType, IdxSound
  <1> HIDE DEF loc
  <1>2. ReadableNext(b, loc)
    BY <1>1, KeptReadable
  <1> QED
    BY <1>1, <1>2 DEF loc

\* A position the files reach is still reached when the cells before it stay.
LEMMA KeptOnDisk ==
    ASSUME TypeOK, TypeOK', NEW r \in Pos, OnDisk(r), FilesKept(r)
    PROVE  r = Start \/ (r.off > 0 /\ r.file \in exists' /\ r.off <= size'[r.file])
  <1>1. CASE r = Start
    BY <1>1
  <1>2. CASE r.off > 0 /\ r.file \in exists /\ r.off <= size[r.file]
    <2>0. /\ r.file \in Files /\ r.off \in 1 .. MaxFileSize
          /\ size[r.file] \in Nat /\ size'[r.file] \in Nat
      BY <1>2, SizesAssumption DEF Pos, TypeOK
    <2>1. r.off - 1 \in Offsets /\ r.off - 1 < r.off /\ r.off - 1 < size[r.file]
      BY <1>2, <2>0, SizesAssumption DEF Offsets
    <2>2. r.file \in exists' /\ r.off - 1 < size'[r.file]
      BY <1>2, <2>1 DEF FilesKept
    <2> QED
      BY <1>2, <2>0, <2>2, SizesAssumption
  <1> QED
    BY <1>1, <1>2 DEF OnDisk

\* writeData keeps every cell before the cursor: it writes at the cursor, or
\* at the start of a file after it.
LEMMA WriteKeeps ==
    ASSUME TypeOK, NEW b \in Blocks, NEW n \in 0 .. RecLen[b], writeData(b, n)
    PROVE  FilesKept(Cursor)
  <1> DEFINE f == WriteFile(b)
             o == WriteOff(b)
  <1>1. /\ f \in Files /\ o \in Offsets /\ n \in Nat
        /\ cur < f \/ (cur = f /\ o = off)
    <2>1. f \in Files /\ o \in Offsets /\ RecLen[b] \in Nat
      BY WriteFits, SizesAssumption DEF writeData
    <2>2. cur \in Nat /\ off \in Nat
      BY SizesAssumption DEF TypeOK, Files
    <2>3. cur < f \/ (cur = f /\ o = off)
      BY <2>2 DEF WriteFile, WriteOff
    <2> QED
      BY <2>1, <2>3
  <1>2. /\ data' = [data EXCEPT ![f] = [i \in Offsets |->
                      IF o <= i /\ i < o + n THEN <<b, i - o>> ELSE data[f][i]]]
        /\ size' = [size EXCEPT ![f] = IF @ < o + n THEN o + n ELSE @]
        /\ exists' = exists \cup {f}
    BY DEF writeData
  <1> HIDE DEF f, o
  <1> SUFFICES ASSUME NEW g \in exists, NEW i \in Offsets,
                      g < cur \/ (g = cur /\ i < off), i < size[g]
               PROVE  g \in exists' /\ i < size'[g] /\ data'[g][i] = data[g][i]
    BY DEF FilesKept, Cursor
  <1>3. g \in Files /\ (g # f \/ i < o)
    BY <1>1 DEF TypeOK, Files
  <1>4. g \in exists' /\ i < size'[g]
    BY <1>1, <1>2, <1>3 DEF TypeOK, Offsets
  <1>5. CASE g # f
    BY <1>2, <1>3, <1>4, <1>5 DEF TypeOK
  <1>6. CASE g = f /\ i < o
    <2>1. data'[f] = [k \in Offsets |->
                        IF o <= k /\ k < o + n THEN <<b, k - o>> ELSE data[f][k]]
      BY <1>1, <1>2 DEF TypeOK
    <2>2. ~(o <= i)
      BY <1>1, <1>6 DEF Offsets
    <2> QED
      BY <1>4, <1>6, <2>1, <2>2
  <1> QED
    BY <1>3, <1>5, <1>6

\* handleRollback keeps every cell before the position it rolls back to.
LEMMA RollbackKeeps ==
    ASSUME TypeOK, NEW from \in Pos, NEW isOpen \in BOOLEAN, NEW to \in Pos,
           handleRollback(from, isOpen, to)
    PROVE  FilesKept(to)
  <1>0. /\ to.file \in Nat /\ to.off \in Nat
        /\ exists \subseteq Files /\ Files \subseteq Nat /\ Offsets \subseteq Nat
        /\ \A f \in Files : size[f] \in Nat
    <2>1. Files \subseteq Nat /\ Offsets \subseteq Nat
      BY SizesAssumption DEF Files, Offsets
    <2>2. to.file \in Files /\ to.off \in 0 .. MaxFileSize
      BY DEF Pos
    <2>3. exists \subseteq Files /\ \A f \in Files : size[f] \in 0 .. MaxFileSize
      BY DEF TypeOK
    <2>4. 0 .. MaxFileSize \subseteq Nat
      BY SizesAssumption
    <2>5. to.file \in Nat /\ to.off \in Nat
      BY Zenon, <2>1, <2>2, <2>4
    <2>6. \A f \in Files : size[f] \in Nat
      BY <2>3, <2>4
    <2> QED
      BY Zenon, <2>1, <2>3, <2>5, <2>6, Zenon
  <1>1. ASSUME NEW D, Remove(D), \A f \in D : to.file < f, exists \ D \subseteq exists'
        PROVE  FilesKept(to)
    <2>1. ASSUME NEW f \in exists, f < to.file \/ f = to.file
          PROVE  f \in exists' /\ size'[f] = size[f] /\ data'[f] = data[f]
      <3>1. f \notin D
        BY <1>0, <1>1, <2>1
      <3> QED
        BY <1>0, <1>1, <2>1, <3>1 DEF Remove
    <2>2. \A f \in exists : f < to.file \/ f = to.file =>
             f \in exists' /\ size'[f] = size[f] /\ data'[f] = data[f]
      BY <2>1
    <2> QED
      BY <2>2 DEF FilesKept
  <1>2. ASSUME NEW D, NEW s, RemoveAndTruncate(D, to, s),
               \A f \in D : to.file < f, exists \ D \subseteq exists'
        PROVE  FilesKept(to)
    <2> SUFFICES ASSUME NEW f \in exists, NEW o \in Offsets,
                        f < to.file \/ (f = to.file /\ o < to.off), o < size[f]
                 PROVE  f \in exists' /\ o < size'[f] /\ data'[f][o] = data[f][o]
      BY DEF FilesKept
    <2>1. f \notin D /\ f \in Files /\ f \in exists'
      BY <1>0, <1>2
    <2>2. CASE f # to.file
      BY <1>2, <2>1, <2>2 DEF RemoveAndTruncate
    <2>3. CASE f = to.file
      <3>1. o < to.off
        BY <1>0, <2>3
      <3>2. size'[f] = to.off
        BY <1>2, <2>1, <2>3 DEF RemoveAndTruncate
      <3>3. data'[f] = [k \in Offsets |-> IF k < to.off THEN data[f][k] ELSE Hole]
        BY <1>2, <2>1, <2>3 DEF RemoveAndTruncate
      <3> QED
        BY <2>1, <3>1, <3>2, <3>3
    <2> QED
      BY <2>2, <2>3
  <1>3. UNCHANGED files => FilesKept(to)
    BY KeptUnchanged DEF files
  <1> DEFINE newer == {f \in Files : to.file < f /\ f <= from.file}
  <1>4. ASSUME NEW d \in newer, Remove({f \in newer : d < f}),
               exists' = exists \ {f \in newer : d < f}
        PROVE  FilesKept(to)
    BY <1>1, <1>4
  <1>5. ASSUME Remove(newer), exists \ newer \subseteq exists'
        PROVE  FilesKept(to)
    BY <1>1, <1>5
  <1>6. ASSUME NEW s, RemoveAndTruncate(newer, to, s), exists \ newer \subseteq exists'
        PROVE  FilesKept(to)
    BY <1>2, <1>6
  <1> QED
    BY Zenon, <1>3, <1>4, <1>5, <1>6 DEF handleRollback

-----------------------------------------------------------------------------
(* What the metadata keeps.                                                *)

\* The rows in leveldb stay sound when the cells before its write row stay.
LEMMA LdbKept ==
    ASSUME TypeOK, TypeOK', LdbSound, UNCHANGED <<ldbIdx, ldbRow>>, FilesKept(ldbRow)
    PROVE  LdbSound'
  <1>1. ldbIdx \in IdxType /\ ldbRow \in Pos
    BY DEF TypeOK
  <1>2. \A b \in Blocks : ldbIdx[b] # NoLoc =>
            ReadableNext(b, ldbIdx[b]) /\ Before(ldbIdx[b], ldbRow)
    BY <1>1, KeptSound DEF LdbSound
  <1>3. \A b \in Blocks : ldbIdx'[b] # NoLoc =>
            Readable(b, ldbIdx[b])' /\ Before(ldbIdx[b], ldbRow)'
    BY <1>2 DEF Before, Readable, ReadableNext
  <1>4. OnDisk(ldbRow)'
    <2>1. ldbRow = Start \/ (ldbRow.off > 0 /\ ldbRow.file \in exists'
                               /\ ldbRow.off <= size'[ldbRow.file])
      BY <1>1, KeptOnDisk DEF LdbSound
    <2> QED
      BY <2>1 DEF OnDisk
  <1> QED
    BY <1>3, <1>4 DEF LdbSound, IdxSound

\* So do the rows a transaction sees, and the write row it sees.
LEMMA ViewKept ==
    ASSUME TypeOK, TypeOK', ViewSound, UNCHANGED meta, FilesKept(ViewRow)
    PROVE  ViewSound'
  <1>1. ViewIdx \in IdxType /\ ViewRow \in Pos
    BY ViewType
  <1>2. ViewIdx' = ViewIdx /\ ViewRow' = ViewRow /\ ldbRow' = ldbRow
    BY DEF meta, ViewIdx, ViewRow, Overlay
  <1>3. \A b \in Blocks : ViewIdx[b] # NoLoc =>
            ReadableNext(b, ViewIdx[b]) /\ Before(ViewIdx[b], ViewRow)
    BY <1>1, KeptSound DEF ViewSound
  <1>4. \A b \in Blocks : (ViewIdx[b])' # NoLoc =>
            Readable(b, ViewIdx[b])' /\ Before(ViewIdx[b], ViewRow)'
    BY <1>2, <1>3 DEF Before, Readable, ReadableNext
  <1>5. ViewRow = Start \/ (ViewRow.off > 0 /\ ViewRow.file \in exists'
                             /\ ViewRow.off <= size'[ViewRow.file])
    BY <1>1, KeptOnDisk DEF ViewSound
  <1>6. OnDisk(ViewRow)'
    BY <1>2, <1>5 DEF OnDisk
  <1>7. PosLeq(ldbRow, ViewRow)'
    BY <1>2 DEF ViewSound, PosLeq, PosLess
  <1> QED
    BY <1>4, <1>6, <1>7 DEF ViewSound, IdxSound

\* Both, for a step of an open database that leaves the metadata alone.
LEMMA MetaKept ==
    ASSUME TypeOK, TypeOK', LdbSound, ViewSound, UNCHANGED meta, FilesKept(ViewRow)
    PROVE  LdbSound' /\ ViewSound'
  <1>1. ldbRow \in Pos /\ ViewRow \in Pos
    BY ViewType DEF TypeOK
  <1>2. FilesKept(ldbRow)
    BY <1>1, KeptEarlier DEF ViewSound
  <1> QED
    BY <1>2, LdbKept, ViewKept DEF meta

\* A sound index laid over another, with its later write row, is sound.
LEMMA OverlaySound ==
    ASSUME NEW i \in IdxType, NEW u \in IdxType, NEW r \in Pos, NEW q \in Pos,
           IdxSound(i, r), IdxSound(u, q), PosLeq(r, q)
    PROVE  IdxSound(Overlay(i, u), q)
  <1> SUFFICES ASSUME NEW b \in Blocks, Overlay(i, u)[b] # NoLoc
               PROVE  Readable(b, Overlay(i, u)[b]) /\ Before(Overlay(i, u)[b], q)
    BY DEF IdxSound
  <1>1. CASE u[b] # NoLoc
    BY <1>1 DEF Overlay, IdxSound
  <1>2. CASE u[b] = NoLoc
    <2>1. Overlay(i, u)[b] = i[b] /\ i[b] # NoLoc /\ i[b] \in Locs
      BY <1>2 DEF Overlay, IdxType
    <2>2. Readable(b, i[b]) /\ Before(i[b], r)
      BY <2>1 DEF IdxSound
    <2> DEFINE p == [file |-> i[b].file, off |-> i[b].off + i[b].len]
    <2>3. p.file \in Nat /\ p.off \in Nat /\ PosLeq(p, r)
      BY <2>1, <2>2, SizesAssumption DEF Locs, Files, Offsets, Before
    <2> HIDE DEF p
    <2>4. PosLeq(p, q)
      BY <2>3, PosLeqTrans
    <2> QED
      BY <2>1, <2>2, <2>4 DEF p, Before
  <1> QED
    BY <1>1, <1>2

\* The blocks of a queue after one is appended, and before one is taken.
LEMMA RangeFacts ==
    ASSUME NEW s \in Seq(Blocks)
    PROVE  /\ \A b \in Blocks : Range(Append(s, b)) = Range(s) \cup {b}
           /\ s # <<>> => Range(s) = {Head(s)} \cup Range(Tail(s))
           /\ Range(<<>>) = {}
  <1>1. ASSUME NEW b \in Blocks PROVE Range(Append(s, b)) = Range(s) \cup {b}
    BY DEF Range
  <1>2. ASSUME s # <<>> PROVE Range(s) = {Head(s)} \cup Range(Tail(s))
    <2>1. /\ Len(s) \in Nat \ {0} /\ Len(Tail(s)) = Len(s) - 1 /\ Head(s) = s[1]
          /\ \A i \in 1 .. Len(s) - 1 : Tail(s)[i] = s[i + 1]
      BY <1>2
    <2>2. \A i \in 1 .. Len(s) : i = 1 \/ i - 1 \in 1 .. Len(s) - 1
      BY <2>1
    <2>3. \A i \in 1 .. Len(s) : s[i] \in {Head(s)} \cup Range(Tail(s))
      BY <2>1, <2>2 DEF Range
    <2>4. \A i \in 1 .. Len(s) - 1 : Tail(s)[i] \in Range(s)
      BY <2>1 DEF Range
    <2> QED
      BY <2>1, <2>3, <2>4 DEF Range
  <1>3. Range(<<>>) = {}
    BY DEF Range
  <1> QED
    BY <1>1, <1>2, <1>3

-----------------------------------------------------------------------------
(* The inductive invariant: one lemma per kind of step.                    *)

\* Ending a transaction leaves nothing to say about it.
LEMMA EndTxSound ==
    ASSUME EndTx
    PROVE  /\ TxSound' /\ pc' = "idle" /\ batch' = Range(pending') \cup Stored(txIdx')
           /\ txIdx' = EmptyIdx /\ pending' = <<>> /\ batch' = {}
  <1>1. Range(<<>>) = {} /\ Stored(EmptyIdx) = {}
    BY DEF Range, Stored, EmptyIdx
  <1> QED
    BY <1>1 DEF EndTx, TxSound, Committing

\* A step that leaves the contents of the files, the cursor and the metadata
\* alone keeps what the invariant says about them.
LEMMA QuietStep ==
    ASSUME IndInv, TypeOK', up = "open", UNCHANGED <<data, size, exists, cursor, meta>>
    PROVE  /\ LdbSound' /\ ViewSound'
           /\ ViewIdx' = ViewIdx /\ ViewRow' = ViewRow /\ Cursor' = Cursor
           /\ \A r : OnDisk(r) => r = Start \/ (r.off > 0 /\ r.file \in exists'
                                                /\ r.off <= size'[r.file])
           /\ wopen' => cur' \in exists'
           /\ pc # "rollback" => OnDisk(Cursor)' /\ PosLeq(ViewRow, Cursor)'
  <1>1. FilesKept(ViewRow)
    BY KeptUnchanged
  <1>2. LdbSound' /\ ViewSound'
    BY <1>1, MetaKept DEF IndInv
  <1>3. ViewIdx' = ViewIdx /\ ViewRow' = ViewRow /\ Cursor' = Cursor
    BY DEF meta, cursor, ViewIdx, ViewRow, Overlay, Cursor
  <1>4. wopen' => cur' \in exists'
    BY DEF IndInv, CursorSound, cursor
  <1>5. pc # "rollback" => OnDisk(Cursor)' /\ PosLeq(ViewRow, Cursor)'
    BY <1>3 DEF IndInv, CursorSound, OnDisk, PosLeq, PosLess
  <1>6. \A r : OnDisk(r) => r = Start \/ (r.off > 0 /\ r.file \in exists'
                                                /\ r.off <= size'[r.file])
    BY DEF OnDisk
  <1> QED
    BY <1>2, <1>3, <1>4, <1>5, <1>6

\* The steps of a transaction before it writes, and a commit that fails
\* after the writes.
LEMMA BeginSound == ASSUME IndInv, TypeOK', Begin PROVE IndInv'
  <1>1. /\ up = "open" /\ pc = "idle" /\ pc' = "open" /\ up' = up
        /\ UNCHANGED <<data, size, exists, cursor, meta>>
        /\ UNCHANGED <<pending, txIdx, batch, committed, ldbIdx>>
    BY DEF Begin, files, meta
  <1>2. /\ LdbSound' /\ ViewSound' /\ ViewIdx' = ViewIdx
        /\ wopen' => cur' \in exists'
        /\ OnDisk(Cursor)' /\ PosLeq(ViewRow, Cursor)'
    BY <1>1, QuietStep
  <1>3. CursorSound' /\ TxSound'
    BY <1>1, <1>2 DEF CursorSound, TxSound, Committing, IndInv
  <1>4. HistorySound'
    BY <1>1, <1>2 DEF HistorySound, IndInv
  <1> QED
    BY <1>1, <1>2, <1>3, <1>4 DEF IndInv

\* Asking for a block to be stored touches neither the files nor the index.
LEMMA StoreBlockSound ==
    ASSUME IndInv, TypeOK', NEW b \in Blocks, StoreBlock(b)
    PROVE  IndInv'
  <1>0. up = "open"
    BY DEF IndInv, StoreBlock
  <1>1. /\ pc = "open" /\ pc' = "open" /\ up' = up
        /\ UNCHANGED <<data, size, exists, cursor, meta>>
        /\ UNCHANGED <<txIdx, committed, ldbIdx>>
        /\ pending' = Append(pending, b) /\ batch' = batch \cup {b}
    BY DEF StoreBlock, files, meta
  <1>2. /\ LdbSound' /\ ViewSound' /\ ViewIdx' = ViewIdx
        /\ wopen' => cur' \in exists'
        /\ OnDisk(Cursor)' /\ PosLeq(ViewRow, Cursor)'
    BY <1>0, <1>1, QuietStep
  <1>3. CursorSound' /\ TxSound'
    BY <1>0, <1>1, <1>2 DEF CursorSound, TxSound, Committing, IndInv
  <1>4. Range(pending') = Range(pending) \cup {b}
    BY <1>1, RangeFacts DEF IndInv, TypeOK
  <1>5. batch' = Range(pending') \cup Stored(txIdx')
    BY <1>1, <1>4 DEF IndInv, HistorySound
  <1>6. HistorySound'
    BY <1>1, <1>2, <1>5 DEF HistorySound, IndInv
  <1> QED
    BY <1>0, <1>1, <1>2, <1>3, <1>6 DEF IndInv

\* The position a commit saves is one the files reach, beyond the index.
LEMMA CommitSound == ASSUME IndInv, TypeOK', Commit PROVE IndInv'
  <1>0. up = "open"
    BY DEF IndInv, Commit
  <1>1. /\ pc = "open" /\ pc' = "write" /\ up' = up /\ old' = Cursor
        /\ UNCHANGED <<data, size, exists, cursor, meta>>
        /\ UNCHANGED <<txIdx, pending, batch, committed, ldbIdx>>
    BY DEF Commit, files, meta
  <1>2. /\ LdbSound' /\ ViewSound' /\ ViewIdx' = ViewIdx /\ Cursor' = Cursor
        /\ wopen' => cur' \in exists'
        /\ OnDisk(Cursor)' /\ PosLeq(ViewRow, Cursor)'
    BY <1>0, <1>1, QuietStep
  <1>3. OnDisk(old)' /\ PosLeq(ViewRow, old)' /\ PosLeq(old, Cursor)'
    BY <1>1, <1>2 DEF OnDisk, PosLeq, PosLess
  <1>4. CursorSound'
    BY <1>1, <1>2, <1>3 DEF CursorSound
  <1>5. txIdx' = EmptyIdx
    BY <1>0, <1>1 DEF IndInv, TxSound
  <1>6. TxSound'
    BY <1>1, <1>5 DEF TxSound, Committing, IdxSound, EmptyIdx
  <1>7. HistorySound'
    BY <1>1, <1>2 DEF HistorySound, IndInv
  <1> QED
    BY <1>0, <1>1, <1>2, <1>4, <1>6, <1>7 DEF IndInv

\* Rolling back an uncommitted transaction, or an error of commitTx.
LEMMA EndSound ==
    ASSUME IndInv, TypeOK', pc \in {"open", "write", "flush", "direct"}, EndTx,
           UNCHANGED <<data, size, exists, cursor, meta, up, committed>>
    PROVE  IndInv'
  <1>0. up = "open"
    BY DEF IndInv
  <1>1. /\ LdbSound' /\ ViewSound' /\ ViewIdx' = ViewIdx
        /\ wopen' => cur' \in exists'
        /\ OnDisk(Cursor)' /\ PosLeq(ViewRow, Cursor)'
    BY <1>0, QuietStep
  <1>2. TxSound' /\ pc' = "idle" /\ batch' = Range(pending') \cup Stored(txIdx')
    BY EndTxSound
  <1>3. CursorSound'
    BY <1>1, <1>2 DEF CursorSound, Committing
  <1>4. HistorySound'
    BY <1>1, <1>2 DEF HistorySound, IndInv, meta
  <1> QED
    BY <1>0, <1>1, <1>2, <1>3, <1>4 DEF IndInv

\* What the write of n units of the record of b does to the invariant: the
\* cursor only moves forward and nothing committed is touched.
LEMMA WriteStep ==
    ASSUME IndInv, TypeOK', up = "open", pc = "write", UNCHANGED <<meta, old>>,
           NEW b \in Blocks, NEW n \in 0 .. RecLen[b], writeData(b, n)
    PROVE  /\ LdbSound' /\ ViewSound' /\ ViewIdx' = ViewIdx
           /\ FilesKept(Cursor)
           /\ Cursor \in Pos /\ Cursor' \in Pos
           /\ wopen' => cur' \in exists'
           /\ PosLeq(Cursor, Cursor') /\ PosLeq(ViewRow, Cursor')
           /\ OnDisk(old)' /\ PosLeq(ViewRow, old)' /\ PosLeq(old, Cursor)'
           /\ n > 0 => OnDisk(Cursor)'
  <1> USE DEF IndInv
  <1>1. FilesKept(Cursor)
    BY WriteKeeps
  <1>2. /\ ViewRow \in Pos /\ Cursor \in Pos /\ old \in Pos
        /\ PosLeq(ViewRow, Cursor) /\ PosLeq(old, Cursor) /\ PosLeq(ViewRow, old)
        /\ OnDisk(old)
    BY ViewType DEF CursorSound, Committing, TypeOK
  <1>3. FilesKept(ViewRow) /\ FilesKept(old)
    BY <1>1, <1>2, KeptEarlier
  <1>4. LdbSound' /\ ViewSound'
    BY <1>3, MetaKept
  <1>5. ViewIdx' = ViewIdx /\ ViewRow' = ViewRow
    BY DEF meta, ViewIdx, ViewRow, Overlay
  <1>6. /\ cur' = WriteFile(b) /\ off' = WriteOff(b) + n /\ exists' = exists \cup {cur'}
    BY DEF writeData
  <1>7. Cursor' \in Pos
    BY DEF Cursor, TypeOK, Pos
  <1>8. PosLeq(Cursor, Cursor')
    <2>1. cur \in Nat /\ off \in Nat /\ n \in Nat
      BY WriteFits, SizesAssumption DEF TypeOK, Files
    <2>2. CASE Rotate(b)
      BY <1>6, <2>1, <2>2 DEF WriteFile, Cursor, PosLeq, PosLess
    <2>3. CASE ~Rotate(b)
      BY <1>6, <2>1, <2>3 DEF WriteFile, WriteOff, Cursor, PosLeq, PosLess
    <2> QED
      BY <2>2, <2>3
  <1>9. PosLeq(ViewRow, Cursor') /\ PosLeq(old, Cursor')
    <2>1. /\ ViewRow.file \in Nat /\ ViewRow.off \in Nat
          /\ old.file \in Nat /\ old.off \in Nat
      BY <1>2, SizesAssumption DEF Pos, Files
    <2> DEFINE c == Cursor
               d == Cursor'
    <2>2. c \in Pos /\ d \in Pos /\ PosLeq(c, d) /\ PosLeq(ViewRow, c) /\ PosLeq(old, c)
      BY <1>2, <1>7, <1>8
    <2> HIDE DEF c, d
    <2>3. PosLeq(ViewRow, d) /\ PosLeq(old, d)
      BY <1>2, <2>1, <2>2, PosLeqTrans
    <2> QED
      BY <2>3 DEF d
  <1>10. OnDisk(old)'
    <2>1. old = Start \/ (old.off > 0 /\ old.file \in exists' /\ old.off <= size'[old.file])
      BY <1>2, <1>3, KeptOnDisk
    <2> QED
      BY <2>1 DEF OnDisk
  <1>11. n > 0 => OnDisk(Cursor)'
    <2>1. /\ WriteFile(b) \in Files /\ WriteOff(b) \in Nat /\ n \in Nat
          /\ size[WriteFile(b)] \in Nat
      BY WriteFits, SizesAssumption DEF writeData, Offsets, TypeOK
    <2>2. size'[WriteFile(b)] = IF size[WriteFile(b)] < WriteOff(b) + n
                                THEN WriteOff(b) + n ELSE size[WriteFile(b)]
      BY <2>1 DEF writeData, TypeOK
    <2> QED
      BY <1>6, <2>1, <2>2 DEF OnDisk, Cursor
  <1>12. PosLeq(ViewRow, old)' /\ PosLeq(old, Cursor)'
    BY <1>2, <1>5, <1>9 DEF PosLeq, PosLess
  <1>13. wopen' => cur' \in exists'
    BY <1>6
  <1> QED
    BY <1>1, <1>2, <1>4, <1>5, <1>7, <1>8, <1>9, <1>10, <1>11, <1>12, <1>13

\* A whole record that was just written can be read back.
LEMMA WrittenReadable ==
    ASSUME TypeOK, NEW b \in Blocks, writeData(b, RecLen[b])
    PROVE  ReadableNext(b, [file |-> WriteFile(b), off |-> WriteOff(b), len |-> RecLen[b]])
  <1> DEFINE f == WriteFile(b)
             o == WriteOff(b)
             n == RecLen[b]
  <1>1. /\ f \in Files /\ o \in Nat /\ n \in Nat /\ size[f] \in Nat
        /\ o + n <= MaxFileSize
    BY WriteFits, SizesAssumption DEF writeData, Offsets, TypeOK
  <1>2. /\ data' = [data EXCEPT ![f] = [i \in Offsets |->
                      IF o <= i /\ i < o + n THEN <<b, i - o>> ELSE data[f][i]]]
        /\ size' = [size EXCEPT ![f] = IF @ < o + n THEN o + n ELSE @]
        /\ exists' = exists \cup {f}
    BY DEF writeData
  <1> HIDE DEF f, o, n
  <1>3. f \in exists' /\ o + n <= size'[f]
    BY <1>1, <1>2 DEF TypeOK
  <1>4. data'[f] = [i \in Offsets |->
                      IF o <= i /\ i < o + n THEN <<b, i - o>> ELSE data[f][i]]
    BY <1>1, <1>2 DEF TypeOK
  <1>5. ASSUME NEW i \in 0 .. n - 1 PROVE data'[f][o + i] = <<b, i>>
    <2>1. o + i \in Offsets /\ o <= o + i /\ o + i < o + n /\ (o + i) - o = i
      BY <1>1, SizesAssumption DEF Offsets
    <2> QED
      BY <1>4, <2>1
  <1> QED
    BY <1>3, <1>5 DEF ReadableNext, f, o, n

\* A block is written at the cursor, past every committed record, so none of
\* them is overwritten and the new row is sound.
LEMMA WriteBlockSound == ASSUME IndInv, TypeOK', WriteBlock PROVE IndInv'
  <1> USE DEF IndInv
  <1> DEFINE b == Head(pending)
             loc == [file |-> WriteFile(b), off |-> WriteOff(b), len |-> RecLen[b]]
  <1>1. /\ pc = "write" /\ pc' = "write" /\ up = "open" /\ up' = "open"
        /\ UNCHANGED <<meta, old>> /\ UNCHANGED <<batch, committed, ldbIdx>>
        /\ pending # <<>> /\ pending' = Tail(pending)
        /\ txIdx' = [txIdx EXCEPT ![b] = loc] /\ writeData(b, RecLen[b])
    BY DEF WriteBlock, meta
  <1>2. b \in Blocks /\ Range(pending) = {b} \cup Range(pending')
    BY <1>1, RangeFacts DEF TypeOK
  <1> HIDE DEF b
  <1>3. RecLen[b] \in 0 .. RecLen[b] /\ RecLen[b] > 0
    BY <1>2, SizesAssumption
  <1>4. /\ LdbSound' /\ ViewSound' /\ ViewIdx' = ViewIdx /\ FilesKept(Cursor)
        /\ Cursor \in Pos /\ Cursor' \in Pos
        /\ wopen' => cur' \in exists'
        /\ PosLeq(Cursor, Cursor') /\ PosLeq(ViewRow, Cursor')
        /\ OnDisk(old)' /\ PosLeq(ViewRow, old)' /\ PosLeq(old, Cursor)'
        /\ OnDisk(Cursor)'
    BY <1>1, <1>2, <1>3, WriteStep
  <1>5. ViewRow' = ViewRow
    BY <1>1 DEF meta, ViewRow
  <1>6. CursorSound'
    BY <1>1, <1>4, <1>5 DEF CursorSound, PosLeq, PosLess
  <1>7. ReadableNext(b, loc)
    BY <1>1, <1>2, WrittenReadable
  <1>8. Before(loc, Cursor')
    BY <1>1 DEF writeData, Before, PosLeq, Cursor
  <1>9. \A c \in Blocks : txIdx[c] # NoLoc =>
           ReadableNext(c, txIdx[c]) /\ Before(txIdx[c], Cursor)
    <2>1. txIdx \in IdxType /\ IdxSound(txIdx, Cursor)
      BY <1>1 DEF TypeOK, TxSound, Committing
    <2> QED
      BY <1>4, <2>1, KeptSound
  <1>10. \A c \in Blocks : txIdx[c] # NoLoc => Before(txIdx[c], Cursor')
    <2> SUFFICES ASSUME NEW c \in Blocks, txIdx[c] # NoLoc
                 PROVE  Before(txIdx[c], Cursor')
      OBVIOUS
    <2> DEFINE p == [file |-> txIdx[c].file, off |-> txIdx[c].off + txIdx[c].len]
               x == Cursor
               y == Cursor'
    <2>1. txIdx[c] \in Locs
      BY DEF TypeOK, IdxType
    <2>2. p.file \in Nat /\ p.off \in Nat
      BY <2>1, SizesAssumption DEF Locs, Files, Offsets
    <2>3. PosLeq(p, x) /\ x \in Pos /\ y \in Pos /\ PosLeq(x, y)
      BY <1>4, <1>9 DEF Before
    <2> HIDE DEF p, x, y
    <2>4. PosLeq(p, y)
      BY <2>2, <2>3, PosLeqTrans
    <2> QED
      BY Zenon, <2>4 DEF p, y, Before
  <1>11. \A c \in Blocks : txIdx'[c] = IF c = b THEN loc ELSE txIdx[c]
    BY <1>1, <1>2 DEF TypeOK, IdxType
  <1> HIDE DEF loc
  <1>12. \A c \in Blocks : txIdx'[c] # NoLoc =>
             ReadableNext(c, txIdx'[c]) /\ Before(txIdx'[c], Cursor')
    BY <1>7, <1>8, <1>9, <1>10, <1>11
  <1>13. IdxSound(txIdx, Cursor)'
    BY <1>12 DEF IdxSound, ReadableNext, Readable, Before, PosLeq, PosLess
  <1>14. TxSound'
    BY <1>1, <1>13 DEF TxSound
  <1>15. loc # NoLoc
    <2>1. loc \in Locs
      BY <1>1, <1>2, WriteFits DEF loc, Locs, writeData
    <2> QED
      BY <2>1, NoLocAssumption DEF Locs, Files, Offsets
  <1>16. Stored(txIdx') = {b} \cup Stored(txIdx)
    BY <1>2, <1>11, <1>15 DEF Stored
  <1>17. batch' = Range(pending') \cup Stored(txIdx')
    BY Zenon, <1>1, <1>2, <1>16 DEF HistorySound
  <1>18. HistorySound'
    BY <1>1, <1>4, <1>17 DEF HistorySound
  <1> QED
    BY <1>1, <1>4, <1>6, <1>14, <1>18

\* A partial record lies past every committed one.
LEMMA WriteFailsSound == ASSUME IndInv, TypeOK', WriteFails PROVE IndInv'
  <1> USE DEF IndInv
  <1> DEFINE b == Head(pending)
  <1>1. /\ pc = "write" /\ pc' = "rollback" /\ up = "open" /\ up' = "open"
        /\ UNCHANGED <<meta, old>> /\ UNCHANGED <<committed, ldbIdx>>
        /\ pending # <<>>
    BY DEF WriteFails, meta
  <1>2. PICK n \in 0 .. RecLen[b] - 1 : writeData(b, n)
    BY DEF WriteFails
  <1>3. b \in Blocks
    BY <1>1 DEF TypeOK
  <1> HIDE DEF b
  <1>4. n \in 0 .. RecLen[b]
    BY <1>3, SizesAssumption
  <1>5. /\ LdbSound' /\ ViewSound' /\ ViewIdx' = ViewIdx
        /\ wopen' => cur' \in exists'
        /\ OnDisk(old)' /\ PosLeq(ViewRow, old)' /\ PosLeq(old, Cursor)'
    BY <1>1, <1>2, <1>3, <1>4, WriteStep
  <1>6. CursorSound' /\ TxSound' /\ HistorySound'
    BY <1>1, <1>5 DEF CursorSound, TxSound, HistorySound, Committing
  <1> QED
    BY <1>1, <1>5, <1>6

\* A failed open moves the cursor and leaves the files alone.
LEMMA OpenFailsSound == ASSUME IndInv, TypeOK', OpenFails PROVE IndInv'
  <1> USE DEF IndInv
  <1> DEFINE b == Head(pending)
  <1>1. /\ pc = "write" /\ pc' = "rollback" /\ up = "open" /\ up' = "open"
        /\ UNCHANGED <<meta, old>> /\ UNCHANGED <<committed, ldbIdx>>
        /\ UNCHANGED <<data, size, exists>>
        /\ pending # <<>> /\ cur' = WriteFile(b) /\ off' = WriteOff(b) /\ ~wopen'
    BY DEF OpenFails, files, meta
  <1>2. LdbSound' /\ ViewSound'
    BY <1>1, KeptUnchanged, MetaKept
  <1>3. ViewIdx' = ViewIdx /\ ViewRow' = ViewRow
    BY <1>1 DEF meta, ViewIdx, ViewRow, Overlay
  <1>4. /\ PosLeq(ViewRow, old) /\ PosLeq(old, Cursor) /\ OnDisk(old)
        /\ old.file \in Nat /\ old.off \in Nat /\ cur \in Nat /\ off \in Nat
    BY <1>1, SizesAssumption DEF CursorSound, Committing, TypeOK, Pos, Files
  <1>5. PosLeq(old, Cursor)'
    BY <1>1, <1>4 DEF PosLeq, PosLess, Cursor, WriteFile, WriteOff
  <1>6. PosLeq(ViewRow, old)' /\ OnDisk(old)'
    BY <1>1, <1>3, <1>4 DEF PosLeq, PosLess, OnDisk
  <1>7. CursorSound' /\ TxSound' /\ HistorySound'
    BY <1>1, <1>3, <1>5, <1>6 DEF CursorSound, TxSound, HistorySound, Committing
  <1> QED
    BY <1>1, <1>2, <1>7

\* The rollback of a failed write: the cursor is back at the point the
\* transaction found it at, and all that is committed lies before it.
LEMMA RollbackBlocksSound == ASSUME IndInv, TypeOK', RollbackBlocks PROVE IndInv'
  <1> USE DEF IndInv
  <1>1. /\ pc = "rollback" /\ up = "open" /\ up' = "open" /\ UNCHANGED meta
        /\ UNCHANGED <<committed, ldbIdx>> /\ EndTx
        /\ handleRollback(Cursor, wopen, old)
    BY DEF RollbackBlocks, meta
  <1>2. /\ ViewRow \in Pos /\ Cursor \in Pos /\ old \in Pos /\ wopen \in BOOLEAN
        /\ PosLeq(ViewRow, old) /\ OnDisk(old)
    BY <1>1, ViewType DEF CursorSound, TypeOK
  <1>3. FilesKept(old) /\ FilesKept(ViewRow)
    BY <1>1, <1>2, RollbackKeeps, KeptEarlier
  <1>4. LdbSound' /\ ViewSound'
    BY <1>1, <1>3, MetaKept
  <1>5. ViewIdx' = ViewIdx /\ ViewRow' = ViewRow
    BY <1>1 DEF meta, ViewIdx, ViewRow, Overlay
  <1>6. cur' = old.file /\ off' = old.off
    BY <1>1 DEF handleRollback
  <1>7. Cursor' = old
    BY <1>2, <1>6 DEF Cursor, Pos
  <1>8. wopen' => cur' \in exists'
    <2>1. CASE Cursor = old /\ wopen' = wopen /\ UNCHANGED files
      BY <1>1, <1>6, <2>1 DEF CursorSound, Cursor, files
    <2>2. CASE ~wopen' \/ old.file \in exists'
      BY <1>6, <2>2
    <2> QED
      BY Zenon, <1>1, <2>1, <2>2 DEF handleRollback
  <1>9. OnDisk(Cursor)'
    <2>1. old = Start \/ (old.off > 0 /\ old.file \in exists' /\ old.off <= size'[old.file])
      BY <1>2, <1>3, KeptOnDisk
    <2> QED
      BY <1>7, <2>1 DEF OnDisk
  <1>10. TxSound' /\ pc' = "idle" /\ batch' = Range(pending') \cup Stored(txIdx')
    BY <1>1, EndTxSound
  <1>11. CursorSound'
    BY <1>2, <1>5, <1>7, <1>8, <1>9, <1>10 DEF CursorSound, Committing
  <1>12. HistorySound'
    BY <1>1, <1>5, <1>10 DEF HistorySound
  <1> QED
    BY <1>1, <1>4, <1>10, <1>11, <1>12

\* Laying over an overlay, and what a transaction sees through an empty cache.
LEMMA OverlayAssoc ==
    ASSUME NEW i \in IdxType, NEW u \in IdxType, NEW v \in IdxType
    PROVE  Overlay(i, Overlay(u, v)) = Overlay(Overlay(i, u), v)
  BY DEF Overlay, IdxType

\* What is sound stays so while the contents of the files stay.
LEMMA SameFilesSound ==
    ASSUME UNCHANGED <<data, size, exists>>
    PROVE  /\ \A idx, r : IdxSound(idx, r) =>
                 \A b \in Blocks : idx[b] # NoLoc =>
                    ReadableNext(b, idx[b]) /\ Before(idx[b], r)
           /\ \A r : OnDisk(r) => r = Start \/ (r.off > 0 /\ r.file \in exists'
                                                /\ r.off <= size'[r.file])
  BY DEF IdxSound, Readable, ReadableNext, OnDisk

\* The rows of the transaction reach the view together with its write row.
LEMMA CommitViewSound ==
    ASSUME IndInv, TypeOK', up = "open", Committing, pending = <<>>,
           UNCHANGED <<data, size, exists, cursor>>,
           ViewIdx' = Overlay(ViewIdx, txIdx), ViewRow' = Cursor,
           PosLeq(ldbRow', Cursor),
           committed' = committed \cup {Stored(ViewIdx) \cup batch}
    PROVE  /\ ViewSound'
           /\ OnDisk(Cursor)' /\ PosLeq(ViewRow, Cursor)' /\ (wopen => cur \in exists)'
           /\ Stored(ViewIdx') \in committed'
           /\ IdxSound(Overlay(ViewIdx, txIdx), Cursor) /\ OnDisk(Cursor)
           /\ Stored(Overlay(ViewIdx, txIdx)) = Stored(ViewIdx) \cup batch
  <1> USE DEF IndInv
  <1>1. /\ ViewIdx \in IdxType /\ txIdx \in IdxType /\ ViewRow \in Pos /\ Cursor \in Pos
    BY ViewType DEF TypeOK
  <1>2. /\ IdxSound(ViewIdx, ViewRow) /\ IdxSound(txIdx, Cursor)
        /\ PosLeq(ViewRow, Cursor) /\ OnDisk(Cursor) /\ (wopen => cur \in exists)
    BY DEF ViewSound, TxSound, CursorSound, Committing
  <1>3. IdxSound(Overlay(ViewIdx, txIdx), Cursor)
    BY <1>1, <1>2, OverlaySound
  <1>4. \A b \in Blocks : Overlay(ViewIdx, txIdx)[b] # NoLoc =>
            /\ ReadableNext(b, Overlay(ViewIdx, txIdx)[b])
            /\ Before(Overlay(ViewIdx, txIdx)[b], Cursor)
    BY <1>3, SameFilesSound
  <1>5. Cursor' = Cursor
    BY DEF Cursor, cursor
  <1>6. IdxSound(ViewIdx, ViewRow)'
    <2> DEFINE v == ViewIdx'
               c == Cursor
    <2>1. \A b \in Blocks : v[b] # NoLoc => ReadableNext(b, v[b]) /\ Before(v[b], c)
      BY <1>4
    <2>2. ViewRow' = c
      OBVIOUS
    <2> HIDE DEF c
    <2>3. \A b \in Blocks : (ViewIdx')[b] # NoLoc =>
             ReadableNext(b, (ViewIdx')[b]) /\ Before((ViewIdx')[b], ViewRow')
      BY <2>1, <2>2
    <2> QED
      BY Zenon, <2>3 DEF IdxSound, ReadableNext, Readable, Before, PosLeq, PosLess
  <1>7. OnDisk(Cursor)' /\ OnDisk(ViewRow)'
    BY <1>2, <1>5, SameFilesSound DEF OnDisk
  <1>8. PosLeq(ldbRow, ViewRow)' /\ PosLeq(ViewRow, Cursor)'
    BY <1>5 DEF PosLeq, PosLess
  <1>9. batch = Stored(txIdx)
    <2>1. Range(pending) = {}
      BY DEF Range
    <2> QED
      BY Zenon, <2>1 DEF HistorySound, Committing
  <1>10. Stored(Overlay(ViewIdx, txIdx)) = Stored(ViewIdx) \cup batch
    BY <1>1, <1>9, OverlayStored
  <1>11. (wopen => cur \in exists)'
    BY <1>2 DEF cursor
  <1>12. Stored(ViewIdx') \in committed'
    BY <1>10
  <1> QED
    BY <1>2, <1>3, <1>6, <1>7, <1>8, <1>10, <1>11, <1>12 DEF ViewSound

\* The rows of the transaction are sound up to the cursor, which becomes the
\* write row they are committed with.
LEMMA CommitToCacheSound == ASSUME IndInv, TypeOK', CommitToCache PROVE IndInv'
  <1> USE DEF IndInv
  <1>1. /\ up = "open" /\ up' = "open" /\ Committing /\ pending = <<>>
        /\ UNCHANGED <<data, size, exists, cursor>> /\ UNCHANGED <<ldbIdx, ldbRow>>
        /\ committed' = committed \cup {Stored(ViewIdx) \cup batch} /\ EndTx
        /\ cacheIdx' = Overlay(cacheIdx, txIdx) /\ cacheRow' = Cursor /\ pc = "write"
    BY DEF CommitToCache, AllWritten, Committing, files
  <1>2. /\ ldbIdx \in IdxType /\ cacheIdx \in IdxType /\ txIdx \in IdxType
        /\ Cursor \in Pos /\ ViewRow \in Pos /\ ldbRow \in Pos
    BY ViewType DEF TypeOK
  <1>3. ViewIdx' = Overlay(ViewIdx, txIdx)
    BY <1>1, <1>2, OverlayAssoc DEF ViewIdx
  <1>4. ViewRow' = Cursor
    <2>1. Cursor # NoRow
      BY <1>2, SizesAssumption DEF NoRow, Pos
    <2> QED
      BY <1>1, <2>1 DEF ViewRow
  <1>5. PosLeq(ldbRow, ViewRow) /\ PosLeq(ViewRow, Cursor)
    BY <1>1 DEF ViewSound, CursorSound
  <1>6. PosLeq(ldbRow', Cursor)
    BY <1>1, <1>2, <1>5, PosLeqTrans, SizesAssumption DEF Pos, Files
  <1>7. /\ ViewSound' /\ OnDisk(Cursor)' /\ PosLeq(ViewRow, Cursor)'
        /\ (wopen => cur \in exists)' /\ Stored(ViewIdx') \in committed'
    BY <1>1, <1>3, <1>4, <1>6, CommitViewSound
  <1>8. LdbSound'
    BY <1>1, KeptUnchanged, LdbKept
  <1>9. TxSound' /\ pc' = "idle" /\ batch' = Range(pending') \cup Stored(txIdx')
    BY <1>1, EndTxSound
  <1>10. CursorSound' /\ HistorySound'
    BY <1>1, <1>7, <1>9 DEF CursorSound, HistorySound, Committing
  <1> QED
    BY <1>1, <1>7, <1>8, <1>9, <1>10

\* syncBlocks changes nothing but what survives a power loss.
LEMMA FlushSyncSound == ASSUME IndInv, TypeOK', FlushSync PROVE IndInv'
  <1> USE DEF IndInv
  <1>1. /\ up = "open" /\ up' = "open" /\ pc = "write" /\ pending = <<>> /\ pc' = "flush"
        /\ UNCHANGED <<data, size, exists, cursor, meta>>
        /\ UNCHANGED <<pending, txIdx, batch, old, committed, ldbIdx>>
    BY DEF FlushSync, AllWritten, meta
  <1>2. /\ LdbSound' /\ ViewSound' /\ ViewIdx' = ViewIdx /\ ViewRow' = ViewRow
        /\ Cursor' = Cursor /\ (wopen' => cur' \in exists')
        /\ OnDisk(Cursor)' /\ PosLeq(ViewRow, Cursor)'
    BY <1>1, QuietStep
  <1>3. OnDisk(old)' /\ PosLeq(ViewRow, old)' /\ PosLeq(old, Cursor)'
    BY <1>1, <1>2 DEF CursorSound, Committing, OnDisk, PosLeq, PosLess
  <1>4. CursorSound'
    BY <1>1, <1>2, <1>3 DEF CursorSound
  <1>5. IdxSound(txIdx, Cursor)'
    BY Zenon, <1>1, <1>2 DEF TxSound, Committing, IdxSound, Readable, Before, PosLeq, PosLess
  <1>6. TxSound' /\ HistorySound'
    BY <1>1, <1>2, <1>5 DEF TxSound, HistorySound
  <1> QED
    BY <1>1, <1>2, <1>4, <1>6

\* commitTreaps makes durable exactly what transactions see.
LEMMA CommitTreapsSound ==
    ASSUME IndInv, TypeOK', up = "open", UNCHANGED <<data, size, exists>>, commitTreaps
    PROVE  /\ LdbSound' /\ ViewIdx' = ViewIdx /\ ViewRow' = ViewRow
           /\ ldbIdx' = ViewIdx /\ ldbRow' = ViewRow
           /\ cacheIdx' = EmptyIdx /\ cacheRow' = NoRow
  <1> USE DEF IndInv
  <1>1. ViewIdx \in IdxType /\ ViewRow \in Pos
    BY ViewType
  <1>2. /\ ldbIdx' = ViewIdx /\ ldbRow' = ViewRow
        /\ cacheIdx' = EmptyIdx /\ cacheRow' = NoRow
    BY DEF commitTreaps
  <1>3. ViewIdx' = ViewIdx
    BY <1>1, <1>2, OverlayEmpty DEF ViewIdx
  <1>4. ViewRow' = ViewRow
    BY <1>2 DEF ViewRow
  <1>5. \A b \in Blocks : ViewIdx[b] # NoLoc =>
            ReadableNext(b, ViewIdx[b]) /\ Before(ViewIdx[b], ViewRow)
    BY SameFilesSound DEF ViewSound
  <1>6. \A b \in Blocks : ldbIdx'[b] # NoLoc =>
            ReadableNext(b, ldbIdx'[b]) /\ Before(ldbIdx'[b], ldbRow')
    BY <1>2, <1>5
  <1>7. IdxSound(ldbIdx, ldbRow)'
    BY Zenon, <1>6 DEF IdxSound, ReadableNext, Readable, Before, PosLeq, PosLess
  <1>8. OnDisk(ldbRow)'
    BY Zenon, <1>2, SameFilesSound DEF ViewSound, OnDisk
  <1> QED
    BY <1>2, <1>3, <1>4, <1>7, <1>8 DEF LdbSound

\* A flush makes the view durable and leaves it as it is.
LEMMA FlushSound == ASSUME IndInv, TypeOK', Flush PROVE IndInv'
  <1> USE DEF IndInv
  <1>1. /\ up = "open" /\ up' = "open" /\ pc = "flush" /\ pc' = "direct"
        /\ UNCHANGED <<data, size, exists, cursor>> /\ commitTreaps
        /\ UNCHANGED <<pending, txIdx, batch, old, committed>>
    BY DEF Flush, files
  <1>2. /\ LdbSound' /\ ViewIdx' = ViewIdx /\ ViewRow' = ViewRow
        /\ ldbIdx' = ViewIdx /\ ldbRow' = ViewRow
        /\ cacheIdx' = EmptyIdx /\ cacheRow' = NoRow
    BY <1>1, CommitTreapsSound
  <1>3. ViewSound'
    BY Zenon, <1>2 DEF LdbSound, ViewSound, IdxSound, PosLeq, OnDisk, Readable, Before, PosLess
  <1>4. Cursor' = Cursor
    BY <1>1 DEF Cursor, cursor
  <1>5. CursorSound'
    BY <1>1, <1>2, <1>4 DEF CursorSound, Committing, OnDisk, PosLeq, PosLess, cursor
  <1>6. IdxSound(txIdx, Cursor)'
    BY Zenon, <1>1, <1>4 DEF TxSound, Committing, IdxSound, Readable, Before, PosLeq, PosLess
  <1>7. TxSound' /\ HistorySound'
    BY <1>1, <1>2, <1>6 DEF TxSound, HistorySound
  <1> QED
    BY <1>1, <1>2, <1>3, <1>5, <1>7

\* The rows of the transaction reach leveldb with the cursor as write row.
LEMMA CommitDirectSound == ASSUME IndInv, TypeOK', CommitDirect PROVE IndInv'
  <1> USE DEF IndInv
  <1>1. /\ up = "open" /\ up' = "open" /\ Committing /\ pending = <<>> /\ pc = "direct"
        /\ UNCHANGED <<data, size, exists, cursor>> /\ UNCHANGED <<cacheIdx, cacheRow>>
        /\ committed' = committed \cup {Stored(ViewIdx) \cup batch} /\ EndTx
        /\ ldbIdx' = Overlay(ldbIdx, txIdx) /\ ldbRow' = Cursor
        /\ cacheIdx = EmptyIdx /\ cacheRow = NoRow
    BY DEF CommitDirect, Committing, TxSound, files
  <1>2. /\ ldbIdx \in IdxType /\ txIdx \in IdxType /\ ldbIdx' \in IdxType
    BY DEF TypeOK
  <1>3. ViewIdx = ldbIdx /\ ViewIdx' = ldbIdx'
    BY <1>1, <1>2, OverlayEmpty DEF ViewIdx
  <1>4. ViewIdx' = Overlay(ViewIdx, txIdx) /\ ViewRow' = Cursor /\ ViewRow' = ldbRow'
    BY <1>1, <1>3 DEF ViewRow
  <1>5. PosLeq(ldbRow', Cursor)
    BY <1>1 DEF PosLeq
  <1>6. /\ ViewSound' /\ OnDisk(Cursor)' /\ PosLeq(ViewRow, Cursor)'
        /\ (wopen => cur \in exists)' /\ Stored(ViewIdx') \in committed'
    BY <1>1, <1>4, <1>5, CommitViewSound
  <1>7. LdbSound'
    BY ZenonT(60), <1>3, <1>4, <1>6 DEF ViewSound, LdbSound, IdxSound, OnDisk, Readable, Before,
                           PosLeq, PosLess
  <1>8. TxSound' /\ pc' = "idle" /\ batch' = Range(pending') \cup Stored(txIdx')
    BY <1>1, EndTxSound
  <1>9. CursorSound' /\ HistorySound'
    BY <1>1, <1>3, <1>6, <1>8 DEF CursorSound, HistorySound, Committing
  <1> QED
    BY <1>1, <1>6, <1>7, <1>8, <1>9

\* A database that is closed needs no more than the soundness of leveldb.
LEMMA ForgetSound ==
    ASSUME TypeOK', LdbSound', Forget, cacheIdx' = EmptyIdx, cacheRow' = NoRow,
           Stored(ldbIdx') \in committed'
    PROVE  IndInv'
  <1>1. /\ up' = "down" /\ wopen' = FALSE /\ EndTx
    BY DEF Forget
  <1>2. /\ pc' = "idle" /\ batch' = Range(pending') \cup Stored(txIdx')
        /\ txIdx' = EmptyIdx /\ pending' = <<>> /\ batch' = {}
    BY <1>1, EndTxSound
  <1>3. ViewIdx' = ldbIdx'
    BY OverlayEmpty DEF ViewIdx, TypeOK
  <1>4. HistorySound'
    BY <1>2, <1>3 DEF HistorySound
  <1> QED
    BY <1>1, <1>2, <1>4 DEF IndInv

\* Close makes the view durable, which is what a closed database needs.
LEMMA CloseSound == ASSUME IndInv, TypeOK', Close PROVE IndInv'
  <1>1. /\ up = "open" /\ UNCHANGED <<data, size, exists>> /\ commitTreaps
        /\ Forget /\ committed' = committed
    BY DEF Close
  <1>2. /\ LdbSound' /\ ldbIdx' = ViewIdx
        /\ cacheIdx' = EmptyIdx /\ cacheRow' = NoRow
    BY <1>1, CommitTreapsSound
  <1>3. Stored(ldbIdx') \in committed'
    BY <1>1, <1>2 DEF IndInv, HistorySound
  <1> QED
    BY <1>1, <1>2, <1>3, ForgetSound

\* A Close that fails leaves what was durable before.
LEMMA CloseFailsSound == ASSUME IndInv, TypeOK', CloseFails PROVE IndInv'
  <1>1. /\ UNCHANGED <<data, size, exists>> /\ UNCHANGED <<ldbIdx, ldbRow>>
        /\ Forget /\ committed' = committed /\ cacheIdx' = EmptyIdx /\ cacheRow' = NoRow
    BY DEF CloseFails
  <1>2. LdbSound'
    BY <1>1, KeptUnchanged, LdbKept DEF IndInv
  <1>3. Stored(ldbIdx') \in committed'
    BY <1>1 DEF IndInv, HistorySound
  <1> QED
    BY <1>1, <1>2, <1>3, ForgetSound

\* A crash that keeps the files loses the cache and nothing else.
LEMMA CrashSound == ASSUME IndInv, TypeOK', Crash, ~PowerLoss PROVE IndInv'
  <1>1. /\ UNCHANGED <<data, size, exists>> /\ UNCHANGED <<ldbIdx, ldbRow>>
        /\ Forget /\ committed' = committed /\ cacheIdx' = EmptyIdx /\ cacheRow' = NoRow
    BY DEF Crash
  <1>2. LdbSound'
    BY <1>1, KeptUnchanged, LdbKept DEF IndInv
  <1>3. Stored(ldbIdx') \in committed'
    BY <1>1 DEF IndInv, HistorySound
  <1> QED
    BY <1>1, <1>2, <1>3, ForgetSound

\* The files never end before the write row in leveldb, so opening succeeds
\* and leaves the cursor at the write row.
LEMMA OpenSound == ASSUME IndInv, TypeOK', openDB PROVE IndInv'
  <1> USE DEF IndInv
  <1>1. /\ up = "down" /\ pc = "idle" /\ pc' = "idle" /\ UNCHANGED <<meta, trans, committed>>
        /\ cacheIdx' = EmptyIdx /\ cacheRow' = NoRow /\ txIdx' = EmptyIdx
        /\ ldbIdx' = ldbIdx /\ ldbRow' = ldbRow
        /\ cacheIdx = EmptyIdx /\ cacheRow = NoRow
    BY DEF openDB, meta, trans
  <1>2. PICK p \in Pos : IsScanned(p) /\ reconcileDB(p)
    BY DEF openDB
  <1>3. /\ ldbRow \in Pos /\ p.file \in Nat /\ p.off \in Nat
        /\ ldbRow.file \in Nat /\ ldbRow.off \in Nat
    BY SMTT(40), SizesAssumption DEF TypeOK, Pos, Files
  <1>4. ~PosLess(p, ldbRow)
    <2>1. CASE ldbRow = Start
      BY <1>3, <2>1 DEF PosLess, Start
    <2>2. CASE ldbRow.off > 0 /\ ldbRow.file \in exists /\ ldbRow.off <= size[ldbRow.file]
      <3>1. p.file \in exists /\ p.off = size[p.file] /\ ldbRow.file <= p.file
        BY <1>2, <2>2 DEF IsScanned
      <3> QED
        BY <1>3, <2>2, <3>1 DEF PosLess
    <2> QED
      BY <2>1, <2>2 DEF LdbSound, OnDisk
  <1>5. /\ FilesKept(ldbRow) /\ cur' = ldbRow.file /\ off' = ldbRow.off /\ up' = "open"
        /\ wopen' => cur' \in exists'
    <2>1. CASE handleRollback(p, FALSE, ldbRow) /\ up' = "open"
      <3>1. FilesKept(ldbRow)
        BY Zenon, <1>3, <2>1, RollbackKeeps
      <3>2. cur' = ldbRow.file /\ off' = ldbRow.off
        BY <2>1 DEF handleRollback
      <3>3. ~wopen' \/ ldbRow.file \in exists'
        BY <2>1 DEF handleRollback
      <3> QED
        BY <2>1, <3>1, <3>2, <3>3
    <2>2. CASE /\ ~PosLess(ldbRow, p)
               /\ cur' = p.file /\ off' = p.off /\ wopen' = FALSE
               /\ up' = IF PosLess(p, ldbRow) THEN "corrupt" ELSE "open"
               /\ UNCHANGED files
      <3>1. p.file = ldbRow.file /\ p.off = ldbRow.off
        BY <1>3, <1>4, <2>2 DEF PosLess
      <3>2. FilesKept(ldbRow)
        BY <2>2, KeptUnchanged DEF files
      <3> QED
        BY <1>4, <2>2, <3>1, <3>2
    <2> QED
      BY Zenon, <1>2, <2>1, <2>2 DEF reconcileDB
  <1>6. LdbSound'
    BY <1>1, <1>5, LdbKept
  <1>7. ViewIdx' = ldbIdx' /\ ViewIdx = ldbIdx
    BY <1>1, OverlayEmpty DEF ViewIdx, TypeOK
  <1>8. ViewRow' = ldbRow' /\ Cursor' = ldbRow'
    BY <1>1, <1>3, <1>5 DEF ViewRow, Cursor, Pos
  <1>9. ViewSound'
    BY Zenon, <1>6, <1>7, <1>8 DEF ViewSound, LdbSound, IdxSound, OnDisk, Readable, Before,
                           PosLeq, PosLess
  <1>10. CursorSound'
    BY Zenon, <1>1, <1>5, <1>6, <1>8 DEF CursorSound, Committing, LdbSound, OnDisk, PosLeq
  <1>11. TxSound' /\ HistorySound'
    BY <1>1, <1>7 DEF TxSound, HistorySound, Committing, trans
  <1> QED
    BY <1>1, <1>5, <1>6, <1>9, <1>10, <1>11

-----------------------------------------------------------------------------
(* The theorems.                                                           *)

\* The inductive invariant holds initially.
LEMMA IndInit == Init => IndInv
  <1> SUFFICES ASSUME Init PROVE IndInv
    OBVIOUS
  <1>1. TypeOK
    BY TypeInit
  <1>2. ViewIdx = EmptyIdx /\ ViewRow = Start /\ Cursor = Start
    <2>1. EmptyIdx \in IdxType
      BY DEF EmptyIdx, IdxType
    <2>2. Overlay(EmptyIdx, EmptyIdx) = EmptyIdx
      BY <2>1, OverlayEmpty
    <2> QED
      BY <2>2 DEF Init, ViewIdx, ViewRow, Cursor, Start
  <1>3. \A r : IdxSound(EmptyIdx, r)
    BY DEF IdxSound, EmptyIdx
  <1>4. Stored(EmptyIdx) = {} /\ Range(<<>>) = {}
    BY DEF Stored, EmptyIdx, Range
  <1> QED
    BY <1>1, <1>2, <1>3, <1>4
       DEF Init, IndInv, LdbSound, ViewSound, CursorSound, TxSound, HistorySound,
           OnDisk, PosLeq, Committing

\* Every step keeps it when crashes keep the files.
LEMMA IndStep ==
    ASSUME IndInv, [Next]_vars, ~PowerLoss
    PROVE  IndInv'
  <1>1. TypeOK'
    BY TypeStep DEF IndInv
  <1>2. CASE UNCHANGED vars
    <2>1. UNCHANGED <<data, size, exists, cur, off, wopen, ldbIdx, ldbRow, cacheIdx,
                      cacheRow, pc, pending, txIdx, batch, old, up, committed>>
      BY <1>2 DEF vars, files, cursor, meta, trans
    <2>2. /\ ViewIdx' = ViewIdx /\ ViewRow' = ViewRow /\ Cursor' = Cursor
          /\ \A b, loc : Readable(b, loc)' <=> Readable(b, loc)
          /\ \A p : OnDisk(p)' <=> OnDisk(p)
      BY Zenon, <2>1 DEF ViewIdx, ViewRow, Cursor, Overlay, Readable, OnDisk
    <2>3. LdbSound' <=> LdbSound
      BY Zenon, <2>1, <2>2 DEF LdbSound, IdxSound
    <2>4. ViewSound' <=> ViewSound
      BY Zenon, <2>1, <2>2 DEF ViewSound, IdxSound
    <2>5. (CursorSound' <=> CursorSound) /\ (TxSound' <=> TxSound)
      BY Zenon, <2>1, <2>2 DEF CursorSound, TxSound, IdxSound, Committing
    <2>6. HistorySound' <=> HistorySound
      BY Zenon, <2>1, <2>2 DEF HistorySound
    <2> QED
      BY ZenonT(60), <1>1, <2>1, <2>3, <2>4, <2>5, <2>6 DEF IndInv
  <1>3. CASE Rollback
    BY <1>1, <1>3, EndSound DEF Rollback, files
  <1>4. CASE FlushSyncFails
    BY <1>1, <1>4, EndSound DEF FlushSyncFails, AllWritten, Fails, files
  <1>5. CASE LdbFails
    BY <1>1, <1>5, EndSound DEF LdbFails, Fails, files
  <1> QED
    BY <1>1, <1>2, <1>3, <1>4, <1>5, BeginSound, StoreBlockSound, CommitSound,
       WriteBlockSound, WriteFailsSound, OpenFailsSound, RollbackBlocksSound,
       CommitToCacheSound, FlushSyncSound, FlushSound, CommitDirectSound, CloseSound,
       CloseFailsSound, CrashSound, OpenSound DEF Next

\* The inductive invariant is an invariant.
THEOREM Inductive ==
    ASSUME ~PowerLoss
    PROVE  Spec => []IndInv
  <1>1. Init => IndInv
    BY IndInit
  <1>2. IndInv /\ [Next]_vars => IndInv'
    BY IndStep
  <1> QED
    BY <1>1, <1>2, PTL DEF Spec

\* Whatever write, open, delete, truncate or leveldb operation fails, and
\* wherever the process crashes, a block that a transaction finds in the
\* index can be read back from the block files.
THEOREM CommittedBlocksReadable ==
    ASSUME ~PowerLoss
    PROVE  Spec => []IndexReadable
  <1>1. IndInv => IndexReadable
    BY DEF IndInv, ViewSound, IdxSound, IndexReadable
  <1> QED
    BY <1>1, Inductive, PTL

\* reconcileDB never meets files that end before the write row.
THEOREM ReopenSucceeds ==
    ASSUME ~PowerLoss
    PROVE  Spec => []NeverCorrupt
  <1>1. IndInv => NeverCorrupt
    BY DEF IndInv, NeverCorrupt
  <1> QED
    BY <1>1, Inductive, PTL

\* The next block is never written over one that is in the index.
THEOREM CursorStaysBeyond ==
    ASSUME ~PowerLoss
    PROVE  Spec => []CursorBeyondIndex
  <1>1. ASSUME IndInv PROVE CursorBeyondIndex
    <2> USE <1>1 DEF IndInv
    <2> SUFFICES ASSUME up = "open", NEW b \in Blocks, ViewIdx[b] # NoLoc
                 PROVE  Before(ViewIdx[b], Cursor)
      BY DEF CursorBeyondIndex, Before
    <2> DEFINE e == [file |-> ViewIdx[b].file, off |-> ViewIdx[b].off + ViewIdx[b].len]
    <2>1. ViewIdx[b] \in Locs /\ ViewRow \in Pos /\ Cursor \in Pos /\ old \in Pos
      BY Zenon, ViewType DEF IdxType, TypeOK
    <2>2. e.file \in Nat /\ e.off \in Nat /\ PosLeq(e, ViewRow)
      <3>1. PosLeq(e, ViewRow)
        BY Zenon DEF ViewSound, IdxSound, Before
      <3> HIDE <1>1
      <3>2. /\ ViewIdx[b].file \in 0 .. MaxFileNum /\ ViewIdx[b].off \in 0 .. MaxFileSize - 1
            /\ ViewIdx[b].len \in 1 .. MaxFileSize
        BY Zenon, <2>1 DEF Locs, Files, Offsets
      <3> QED
        BY <3>1, <3>2, SizesAssumption
    <2>3. PosLeq(ViewRow, Cursor) \/ (PosLeq(ViewRow, old) /\ PosLeq(old, Cursor))
      BY DEF CursorSound, Committing
    <2> HIDE DEF e
    <2>4. PosLeq(e, Cursor)
      BY <2>1, <2>2, <2>3, PosLeqTrans
    <2> QED
      BY <2>4 DEF e, Before
  <1>2. IndInv => CursorBeyondIndex
    BY <1>1
  <1> QED
    BY <1>2, Inductive, PTL

\* leveldb only ever holds the blocks of whole committed transactions.
THEOREM DurableCommits ==
    ASSUME ~PowerLoss
    PROVE  Spec => []DurableIsACommit
  <1>1. IndInv => DurableIsACommit
    BY DEF IndInv, HistorySound, DurableIsACommit
  <1> QED
    BY <1>1, Inductive, PTL

=============================================================================
