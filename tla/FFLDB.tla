-------------------------------- MODULE FFLDB --------------------------------
(***************************************************************************)
(* The storage core of database/ffldb: flat block files with a write       *)
(* cursor (blockio.go), the metadata database with its write cache         *)
(* (dbcache.go), the commit of a read-write transaction                    *)
(* (db.go, writePendingAndCommit) and the reconciliation of the two stores *)
(* when the database is opened (reconcile.go).                             *)
(*                                                                         *)
(* A block record occupies RecLen[b] units of a file; unit i of the record *)
(* of block b is the cell <<b, i>>, so a partial write is a prefix of the  *)
(* record and a read returns b exactly when it finds all of its cells.     *)
(* The process may crash between any two steps; with PowerLoss it may also *)
(* take the part of each file that was not synced with it.  Pruning, the   *)
(* readers and the locks are not in this module.                           *)
(***************************************************************************)
EXTENDS Naturals, Sequences, FiniteSets

CONSTANTS
    Blocks,        \* the blocks that may be stored
    RecLen,        \* RecLen[b]: length of the record of b (block and 12 bytes)
    MaxFileSize,   \* blockStore.maxBlockFileSize
    MaxFileNum,    \* bound: highest number of a block file
    PowerLoss,     \* does a crash also lose what was not synced?
    NoLoc          \* no row in the block index

ASSUME SizesAssumption ==
    /\ MaxFileSize \in Nat \ {0}
    /\ MaxFileNum \in Nat
    /\ RecLen \in [Blocks -> 1 .. MaxFileSize]

ASSUME FlagsAssumption == PowerLoss \in BOOLEAN

ASSUME NoLocAssumption ==
    NoLoc \notin [file : 0 .. MaxFileNum, off : 0 .. MaxFileSize - 1,
                  len : 1 .. MaxFileSize]

VARIABLES
    data,      \* data[f][o]: the cell at offset o of block file f
    size,      \* size[f]: length of block file f
    exists,    \* the block files on disk
    synced,    \* synced[f]: the prefix of file f that survives a power loss
    cur, off,  \* writeCursor.curFileNum and curOffset
    wopen,     \* writeCursor.curFile.file # nil
    ldbIdx, ldbRow,      \* block index and write row in leveldb
    cacheIdx, cacheRow,  \* the rows cached above it (dbCache.cachedKeys)
    pc,        \* where the write transaction is
    pending,   \* transaction.pendingBlockData still to be written
    txIdx,     \* block index rows put by the transaction
    batch,     \* history: the blocks the transaction was asked to store
    old,       \* oldBlkFileNum and oldBlkOffset, the rollback point
    up,        \* is the database open, closed, or refused as corrupt?
    committed  \* history: the sets of blocks that were ever committed

files == <<data, size, exists, synced>>
cursor == <<cur, off, wopen>>
meta == <<ldbIdx, ldbRow, cacheIdx, cacheRow>>
trans == <<pc, pending, txIdx, batch, old>>
vars == <<files, cursor, meta, trans, up, committed>>

-----------------------------------------------------------------------------
(* Positions, locations and cells.                                         *)

Files == 0 .. MaxFileNum
Offsets == 0 .. MaxFileSize - 1
Hole == <<>>
Cells == {Hole} \cup (Blocks \X Offsets)

\* A write row: file number and offset (serializeWriteRow).
Pos == [file : Files, off : 0 .. MaxFileSize]

\* A row of the block index (serializeBlockLoc).
Locs == [file : Files, off : Offsets, len : 1 .. MaxFileSize]

\* Mutant of PosLess: the file numbers are not compared.
PosLessOffsetOnly(p, q) == p.off < q.off

\* The order in which reconcileDB compares two write cursors.
PosLess(p, q) == p.file < q.file \/ (p.file = q.file /\ p.off < q.off)
PosLeq(p, q) == p = q \/ PosLess(p, q)

Start == [file |-> 0, off |-> 0]
NoRow == [file |-> 0, off |-> MaxFileSize + 1]
Cursor == [file |-> cur, off |-> off]

EmptyIdx == [b \in Blocks |-> NoLoc]
EmptyFile == [o \in Offsets |-> Hole]

\* Rows of u laid over the rows of idx, as a snapshot lays the cache over
\* leveldb and commitTx lays the transaction over the cache.
Overlay(idx, u) == [b \in Blocks |-> IF u[b] # NoLoc THEN u[b] ELSE idx[b]]
Stored(idx) == {b \in Blocks : idx[b] # NoLoc}

\* What a transaction that begins now sees.
ViewIdx == Overlay(ldbIdx, cacheIdx)
ViewRow == IF cacheRow # NoRow THEN cacheRow ELSE ldbRow

\* readBlock: the whole record is there and its checksum matches.
Readable(b, loc) ==
    /\ loc.file \in exists
    /\ loc.len = RecLen[b]
    /\ loc.off + loc.len <= size[loc.file]
    /\ \A i \in 0 .. RecLen[b] - 1 : data[loc.file][loc.off + i] = <<b, i>>

-----------------------------------------------------------------------------
Init ==
    /\ data = [f \in Files |-> EmptyFile]
    /\ size = [f \in Files |-> 0]
    /\ exists = {}
    /\ synced = [f \in Files |-> 0]
    /\ cur = 0 /\ off = 0 /\ wopen = FALSE
    /\ ldbIdx = EmptyIdx /\ ldbRow = Start
    /\ cacheIdx = EmptyIdx /\ cacheRow = NoRow
    /\ pc = "idle" /\ pending = <<>> /\ txIdx = EmptyIdx /\ batch = {} /\ old = Start
    /\ up = "open"
    /\ committed = {{}}

\* Mutant of EndTx: the rows put by the transaction are not dropped.
EndTxKeepsRows ==
    /\ pc' = "idle"
    /\ pending' = <<>>
    /\ batch' = {}
    /\ old' = Start
    /\ UNCHANGED txIdx

EndTx ==
    /\ pc' = "idle"
    /\ pending' = <<>>
    /\ txIdx' = EmptyIdx
    /\ batch' = {}
    /\ old' = Start

-----------------------------------------------------------------------------
(* The transaction up to its commit.                                       *)

Begin ==
    /\ up = "open" /\ pc = "idle"
    /\ pc' = "open"
    /\ UNCHANGED <<files, cursor, meta, pending, txIdx, batch, old, up, committed>>

\* StoreBlock: refused when the block is pending already or in the index.
StoreBlock(b) ==
    /\ pc = "open"
    /\ \A i \in 1 .. Len(pending) : pending[i] # b
    /\ ViewIdx[b] = NoLoc
    /\ pending' = Append(pending, b)
    /\ batch' = batch \cup {b}
    /\ UNCHANGED <<files, cursor, meta, pc, txIdx, old, up, committed>>

Rollback ==
    /\ pc = "open"
    /\ EndTx
    /\ UNCHANGED <<files, cursor, meta, up, committed>>

\* Mutant of Commit: the write position is not saved.
CommitForgetsPosition ==
    /\ pc = "open"
    /\ pc' = "write"
    /\ UNCHANGED <<files, cursor, meta, pending, txIdx, batch, old, up, committed>>

\* Commit enters writePendingAndCommit, which saves the write position.
Commit ==
    /\ pc = "open"
    /\ pc' = "write"
    /\ old' = Cursor
    /\ UNCHANGED <<files, cursor, meta, pending, txIdx, batch, up, committed>>

-----------------------------------------------------------------------------
(* Writing the pending blocks.                                             *)

\* writeBlock moves to the next file when the record does not fit.
Rotate(b) == off + RecLen[b] > MaxFileSize
WriteFile(b) == IF Rotate(b) THEN cur + 1 ELSE cur
WriteOff(b) == IF Rotate(b) THEN 0 ELSE off

\* Mutant of writeData: the cursor stops short of the end of the record.
writeDataShort(b, n) ==
    LET f == WriteFile(b)
        o == WriteOff(b)
    IN  /\ f \in Files
        /\ cur' = f /\ off' = (IF n = RecLen[b] THEN o + n - 1 ELSE o + n) /\ wopen' = TRUE
        /\ exists' = exists \cup {f}
        /\ data' = [data EXCEPT ![f] =
                       [i \in Offsets |-> IF o <= i /\ i < o + n
                                          THEN <<b, i - o>> ELSE data[f][i]]]
        /\ size' = [size EXCEPT ![f] = IF @ < o + n THEN o + n ELSE @]
        /\ synced' = [synced EXCEPT ![f] = IF o < @ THEN o ELSE @]

\* The first n units of the record of b reach the file (writeData): the
\* cursor moves by what was written even when the write fails.
writeData(b, n) ==
    LET f == WriteFile(b)
        o == WriteOff(b)
    IN  /\ f \in Files
        /\ cur' = f /\ off' = o + n /\ wopen' = TRUE
        /\ exists' = exists \cup {f}
        /\ data' = [data EXCEPT ![f] =
                       [i \in Offsets |-> IF o <= i /\ i < o + n
                                          THEN <<b, i - o>> ELSE data[f][i]]]
        /\ size' = [size EXCEPT ![f] = IF @ < o + n THEN o + n ELSE @]
        /\ synced' = [synced EXCEPT ![f] = IF o < @ THEN o ELSE @]

\* writeBlock succeeds and the transaction puts the row of the block.
WriteBlock ==
    /\ pc = "write" /\ pending # <<>>
    /\ LET b == Head(pending)
       IN  /\ writeData(b, RecLen[b])
           /\ txIdx' = [txIdx EXCEPT ![b] = [file |-> WriteFile(b),
                                             off  |-> WriteOff(b),
                                             len  |-> RecLen[b]]]
    /\ pending' = Tail(pending)
    /\ UNCHANGED <<meta, pc, batch, old, up, committed>>

\* writeBlock fails part way through the record.
WriteFails ==
    /\ pc = "write" /\ pending # <<>>
    /\ LET b == Head(pending)
       IN  \E n \in 0 .. RecLen[b] - 1 : writeData(b, n)
    /\ pc' = "rollback"
    /\ UNCHANGED <<meta, pending, txIdx, batch, old, up, committed>>

\* writeBlock cannot open the file it is to write.
OpenFails ==
    /\ pc = "write" /\ pending # <<>>
    /\ LET b == Head(pending)
       IN  /\ WriteFile(b) \in Files
           /\ Rotate(b) \/ ~wopen
           /\ cur' = WriteFile(b) /\ off' = WriteOff(b) /\ wopen' = FALSE
    /\ pc' = "rollback"
    /\ UNCHANGED <<files, meta, pending, txIdx, batch, old, up, committed>>

-----------------------------------------------------------------------------
(* handleRollback: every outcome repositions the cursor; the files newer   *)
(* than the rollback point are deleted from the newest down.               *)

Remove(D) ==
    /\ data' = [f \in Files |-> IF f \in D THEN EmptyFile ELSE data[f]]
    /\ size' = [f \in Files |-> IF f \in D THEN 0 ELSE size[f]]
    /\ synced' = [f \in Files |-> IF f \in D THEN 0 ELSE synced[f]]

\* The newer files D are removed, then file to.file is cut (or extended) to
\* to.off and synced; s is the prefix of it that is then durable.
RemoveAndTruncate(D, to, s) ==
    /\ data' = [f \in Files |->
                  IF f \in D THEN EmptyFile
                  ELSE IF f = to.file
                  THEN [o \in Offsets |-> IF o < to.off THEN data[f][o] ELSE Hole]
                  ELSE data[f]]
    /\ size' = [f \in Files |-> IF f \in D THEN 0
                                ELSE IF f = to.file THEN to.off ELSE size[f]]
    /\ synced' = [f \in Files |-> IF f \in D THEN 0
                                  ELSE IF f = to.file THEN s ELSE synced[f]]

handleRollback(from, isOpen, to) ==
    LET newer == {f \in Files : to.file < f /\ f <= from.file}
    IN  /\ cur' = to.file /\ off' = to.off
        /\ \/ \* nothing to do
              /\ from = to
              /\ wopen' = isOpen
              /\ UNCHANGED files
           \/ \* deleting file d fails, or it is not there
              /\ from # to
              /\ \E d \in newer :
                    LET deleted == {f \in newer : d < f}
                    IN  /\ deleted \subseteq exists
                        /\ Remove(deleted)
                        /\ exists' = exists \ deleted
              /\ wopen' = FALSE
           \/ \* the file to truncate cannot be opened
              /\ from # to /\ newer \subseteq exists
              /\ newer # {} \/ ~isOpen
              /\ Remove(newer) /\ exists' = exists \ newer
              /\ wopen' = FALSE
           \/ \* it is opened and cannot be truncated
              /\ from # to /\ newer \subseteq exists
              /\ Remove(newer) /\ exists' = (exists \ newer) \cup {to.file}
              /\ wopen' = TRUE
           \/ \* it is truncated, and then synced or not
              /\ from # to /\ newer \subseteq exists
              /\ \/ RemoveAndTruncate(newer, to, to.off)
                 \/ RemoveAndTruncate(newer, to,
                        IF synced[to.file] < to.off THEN synced[to.file]
                                                    ELSE to.off)
              /\ exists' = (exists \ newer) \cup {to.file}
              /\ wopen' = TRUE

\* A failed write rolls the files back and ends the transaction.
RollbackBlocks ==
    /\ pc = "rollback"
    /\ handleRollback(Cursor, wopen, old)
    /\ EndTx
    /\ UNCHANGED <<meta, up, committed>>

-----------------------------------------------------------------------------
(* commitTx, once every pending block is written.  An error from here on   *)
(* ends the transaction without a rollback of the block files.             *)

AllWritten == pc = "write" /\ pending = <<>>
Fails == EndTx /\ UNCHANGED <<cursor, meta, up, committed>>

\* The cache need not be flushed: the rows go to the cache.
CommitToCache ==
    /\ AllWritten
    /\ cacheIdx' = Overlay(cacheIdx, txIdx)
    /\ cacheRow' = Cursor
    /\ committed' = committed \cup {Stored(ViewIdx) \cup batch}
    /\ EndTx
    /\ UNCHANGED <<files, cursor, ldbIdx, ldbRow, up>>

\* Mutant of syncBlocks: nothing is synced.
syncBlocksSkipped == UNCHANGED synced

\* syncBlocks: only the current write file is synced, if it is open.
syncBlocks ==
    synced' = IF wopen THEN [synced EXCEPT ![cur] = size[cur]] ELSE synced

\* flush starts with syncBlocks ...
FlushSync ==
    /\ AllWritten
    /\ syncBlocks
    /\ pc' = "flush"
    /\ UNCHANGED <<data, size, exists, cursor, meta, pending, txIdx, batch,
                   old, up, committed>>

FlushSyncFails ==
    /\ AllWritten
    /\ Fails /\ UNCHANGED files

\* Mutant of commitTreaps: the cache is emptied and leveldb is not written.
commitTreapsLost ==
    /\ UNCHANGED <<ldbIdx, ldbRow>>
    /\ cacheIdx' = EmptyIdx /\ cacheRow' = NoRow

\* ... then puts the cached rows in one leveldb transaction and empties the
\* cache ...
commitTreaps ==
    /\ ldbIdx' = ViewIdx /\ ldbRow' = ViewRow
    /\ cacheIdx' = EmptyIdx /\ cacheRow' = NoRow

Flush ==
    /\ pc = "flush"
    /\ commitTreaps
    /\ pc' = "direct"
    /\ UNCHANGED <<files, cursor, pending, txIdx, batch, old, up, committed>>

\* Mutant of CommitDirect: one row of the transaction is put.
CommitDirectOneRow ==
    /\ pc = "direct"
    /\ \E b \in Stored(txIdx) : ldbIdx' = [ldbIdx EXCEPT ![b] = txIdx[b]]
    /\ ldbRow' = Cursor
    /\ committed' = committed \cup {Stored(ViewIdx) \cup batch}
    /\ EndTx
    /\ UNCHANGED <<files, cursor, cacheIdx, cacheRow, up>>

\* ... after which commitTx puts the rows of the transaction in another.
CommitDirect ==
    /\ pc = "direct"
    /\ ldbIdx' = Overlay(ldbIdx, txIdx)
    /\ ldbRow' = Cursor
    /\ committed' = committed \cup {Stored(ViewIdx) \cup batch}
    /\ EndTx
    /\ UNCHANGED <<files, cursor, cacheIdx, cacheRow, up>>

\* Either of the two leveldb transactions fails.
LdbFails ==
    /\ pc \in {"flush", "direct"}
    /\ Fails /\ UNCHANGED files

-----------------------------------------------------------------------------
(* Closing, crashing, opening.                                             *)

Forget ==
    /\ up' = "down"
    /\ cur' = 0 /\ off' = 0 /\ wopen' = FALSE
    /\ EndTx

\* Close waits for the transactions, flushes the cache and closes leveldb.
Close ==
    /\ up = "open" /\ pc = "idle"
    /\ syncBlocks
    /\ commitTreaps
    /\ Forget
    /\ UNCHANGED <<data, size, exists, committed>>

\* Close closes leveldb as well when the flush fails.
CloseFails ==
    /\ up = "open" /\ pc = "idle"
    /\ syncBlocks \/ UNCHANGED synced
    /\ cacheIdx' = EmptyIdx /\ cacheRow' = NoRow
    /\ Forget
    /\ UNCHANGED <<data, size, exists, ldbIdx, ldbRow, committed>>

Crash ==
    /\ up = "open"
    /\ IF PowerLoss
       THEN \E n \in [Files -> 0 .. MaxFileSize] :
               /\ \A f \in Files : synced[f] <= n[f] /\ n[f] <= size[f]
               /\ size' = n /\ synced' = n
               /\ data' = [f \in Files |-> [o \in Offsets |->
                              IF o < n[f] THEN data[f][o] ELSE Hole]]
       ELSE UNCHANGED <<data, size, synced>>
    /\ cacheIdx' = EmptyIdx /\ cacheRow' = NoRow
    /\ Forget
    /\ UNCHANGED <<exists, ldbIdx, ldbRow, committed>>

\* scanBlockFiles: the end of the file with the highest number.
IsScanned(p) ==
    \/ exists = {} /\ p = Start
    \/ /\ p.file \in exists /\ p.off = size[p.file]
       /\ \A f \in exists : f <= p.file

\* reconcileDB: roll the files back to the write row, or report corruption.
reconcileDB(p) ==
    \/ /\ PosLess(ldbRow, p)
       /\ handleRollback(p, FALSE, ldbRow)
       /\ up' = "open"
    \/ /\ ~PosLess(ldbRow, p)
       /\ cur' = p.file /\ off' = p.off /\ wopen' = FALSE
       /\ up' = IF PosLess(p, ldbRow) THEN "corrupt" ELSE "open"
       /\ UNCHANGED files

openDB ==
    /\ up \in {"down", "corrupt"}
    /\ \E p \in Pos : IsScanned(p) /\ reconcileDB(p)
    /\ UNCHANGED <<meta, trans, committed>>

Next ==
    \/ Begin
    \/ \E b \in Blocks : StoreBlock(b)
    \/ Rollback
    \/ Commit
    \/ WriteBlock
    \/ WriteFails
    \/ OpenFails
    \/ RollbackBlocks
    \/ CommitToCache
    \/ FlushSync
    \/ FlushSyncFails
    \/ Flush
    \/ CommitDirect
    \/ LdbFails
    \/ Close
    \/ CloseFails
    \/ Crash
    \/ openDB

Spec == Init /\ [][Next]_vars

-----------------------------------------------------------------------------
IdxType == [Blocks -> Locs \cup {NoLoc}]

\* Type invariant of the block store, the metadata and the transaction.
TypeOK ==
    /\ data \in [Files -> [Offsets -> Cells]]
    /\ size \in [Files -> 0 .. MaxFileSize]
    /\ synced \in [Files -> 0 .. MaxFileSize]
    /\ exists \in SUBSET Files
    /\ cur \in Files /\ off \in 0 .. MaxFileSize /\ wopen \in BOOLEAN
    /\ ldbIdx \in IdxType /\ ldbRow \in Pos
    /\ cacheIdx \in IdxType /\ cacheRow \in Pos \cup {NoRow}
    /\ pc \in {"idle", "open", "write", "rollback", "flush", "direct"}
    /\ pending \in Seq(Blocks) /\ txIdx \in IdxType
    /\ batch \in SUBSET Blocks /\ old \in Pos
    /\ up \in {"open", "down", "corrupt"}
    /\ committed \in SUBSET SUBSET Blocks

\* Every block of the index a transaction sees, cached or in leveldb, can be
\* read back whole from the block files, whatever write, delete, open,
\* truncate or leveldb operation failed before (FetchBlock after a commit).
IndexReadable ==
    up = "open" => \A b \in Blocks : ViewIdx[b] # NoLoc => Readable(b, ViewIdx[b])

\* The index on disk never refers past what is in the files, so that
\* reconcileDB never finds the files behind the write row.
NeverCorrupt == up # "corrupt"

\* What leveldb holds is the result of whole transactions: a crash between
\* the flush and the commit of the transaction, or during either, never
\* keeps some blocks of a transaction and drops others.
DurableIsACommit == Stored(ldbIdx) \in committed

\* Nothing that is committed lies at or beyond the position the next block
\* is written to (writeBlock overwrites in place what a rollback left).
CursorBeyondIndex ==
    up = "open" => \A b \in Blocks : ViewIdx[b] # NoLoc =>
        PosLeq([file |-> ViewIdx[b].file, off |-> ViewIdx[b].off + ViewIdx[b].len],
               Cursor)

\* A step changes what transactions see only by committing all the blocks
\* of one transaction, or by losing the cache in a crash or a failed close.
ViewChangesByCommit ==
    [][Stored(ViewIdx') # Stored(ViewIdx) =>
          \/ up' = "down"
          \/ Stored(ViewIdx') = Stored(ViewIdx) \cup batch]_vars

-----------------------------------------------------------------------------
(* The inductive invariant behind the safety properties (crashes that keep *)
(* the files).  A row of an index is sound when its record is whole and    *)
(* lies before the write row that was committed with it.                   *)

Before(loc, r) == PosLeq([file |-> loc.file, off |-> loc.off + loc.len], r)

IdxSound(idx, r) ==
    \A b \in Blocks : idx[b] # NoLoc => Readable(b, idx[b]) /\ Before(idx[b], r)

\* A write position that the files reach.
OnDisk(r) ==
    r = Start \/ (r.off > 0 /\ r.file \in exists /\ r.off <= size[r.file])

Committing == pc \in {"write", "flush", "direct"}

LdbSound == IdxSound(ldbIdx, ldbRow) /\ OnDisk(ldbRow)

ViewSound ==
    /\ IdxSound(ViewIdx, ViewRow)
    /\ OnDisk(ViewRow)
    /\ PosLeq(ldbRow, ViewRow)

CursorSound ==
    /\ wopen => cur \in exists
    /\ pc # "rollback" => OnDisk(Cursor) /\ PosLeq(ViewRow, Cursor)
    /\ Committing \/ pc = "rollback" =>
          OnDisk(old) /\ PosLeq(ViewRow, old) /\ PosLeq(old, Cursor)

TxSound ==
    /\ Committing => IdxSound(txIdx, Cursor)
    /\ pc \in {"idle", "open"} => txIdx = EmptyIdx
    /\ pc \in {"flush", "direct"} => pending = <<>>
    /\ pc = "direct" => cacheIdx = EmptyIdx /\ cacheRow = NoRow

Range(s) == {s[i] : i \in 1 .. Len(s)}

HistorySound ==
    /\ Stored(ldbIdx) \in committed
    /\ Stored(ViewIdx) \in committed
    /\ pc # "rollback" => batch = Range(pending) \cup Stored(txIdx)

\* The parts of the invariant that say what holds while the database is
\* open, and what a closed database needs to be opened again.
IndInv ==
    /\ TypeOK
    /\ LdbSound
    /\ HistorySound
    /\ up = "open" => ViewSound /\ CursorSound /\ TxSound
    /\ up # "open" => /\ up = "down" /\ pc = "idle" /\ txIdx = EmptyIdx
                      /\ pending = <<>> /\ batch = {} /\ ~wopen
                      /\ cacheIdx = EmptyIdx /\ cacheRow = NoRow

=============================================================================
