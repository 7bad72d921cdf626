----------------------------- MODULE BlockFiles -----------------------------
(***************************************************************************)
(* Reading and pruning the flat files of blocks (database/ffldb:           *)
(* blockio.go, db.go): readers share a bounded number of open files, which *)
(* a least-recently-used list closes, while the read-write transaction     *)
(* prunes files and stores blocks.  Every file holds one block, which has  *)
(* the number of the file.                                                 *)
(*                                                                         *)
(* A handle is <<file, g>>: opening a file again makes another g.  It has  *)
(* a lock that reads share and closing takes alone.  The list element of a *)
(* handle has the handle's name.  prune closes files without obfMutex: its *)
(* accesses to the maps are steps of their own, and the other outcome of   *)
(* that race, the runtime's fatal error, is a Crash.                       *)
(***************************************************************************)
EXTENDS Integers, Sequences, FiniteSets, SequencesExt

CONSTANTS
  Readers,
  maxOpenFiles,
  MaxFileNum,   \* bound: the highest file number
  Target        \* the target sizes of PruneBlocks, in files

VARIABLES
  exists,     \* the files on disk, with the last one open for writes
  index,      \* the blocks of the committed index
  rd,         \* [reader -> [pc, snap, file, handle]]
  open,       \* openBlockFiles and fileNumToLRUElem: [open file -> g]
  lru,        \* openBlocksLRU, a sequence of handles
  closed,     \* the handles that were closed and are still named somewhere
  obf,        \* the reader that holds obfMutex for writes, or NoReader
  tx,         \* [pc, del, dels, target, handle] of the read-write transaction
  tried       \* files that transactions which failed were to delete

vars == <<exists, index, rd, open, lru, closed, obf, tx, tried>>

NoReader == "none"
NoHandle == <<-1, 0>>
Idle == [pc |-> "idle", snap |-> {}, file |-> -1, handle |-> NoHandle]
NoTx == [pc |-> "idle", del |-> {}, dels |-> {}, target |-> 0, handle |-> NoHandle]

first == Min(exists)
last == Max(exists)

Init ==
  /\ exists = {0} /\ index = {0} /\ tried = {}
  /\ rd = [r \in Readers |-> Idle]
  /\ open = <<>> /\ lru = <<>> /\ closed = {} /\ obf = NoReader
  /\ tx = NoTx

----------------------------------------------------------------------------
\* Handles

Without(f, n) == [m \in DOMAIN f \ {n} |-> f[m]]

Named(h) == h \in Range(lru) \/ h = tx.handle \/ \E r \in Readers : rd[r].handle = h
            \/ (h[1] \in DOMAIN open /\ open[h[1]] = h[2])

Fresh(n) == CHOOSE g \in 1..Cardinality(Readers) + 3 : ~Named(<<n, g>>) /\ \A i \in 1..g - 1 : Named(<<n, i>>)

\* A closed handle that nobody names any more is forgotten.
Remembered(handles) == {h \in handles : Named(h)'}


Reading(h) == \E r \in Readers : rd[r].pc = "read" /\ rd[r].handle = h

At(r, pc) == [rd EXCEPT ![r].pc = pc]

Shared == \E r \in Readers : rd[r].pc = "rlock" /\ obf # r

\* Whom a lock keeps waiting: obfMutex, for reading or for writing, or the
\* lock of a handle that is to be closed.
ReaderWaits(r) ==
  \/ rd[r].pc = "look" /\ obf # NoReader
  \/ rd[r].pc = "slow" /\ (obf # NoReader \/ Shared)
  \/ rd[r].pc = "evict" /\ Reading(rd[r].handle)

PruneWaits == tx.pc = "lock" /\ Reading(tx.handle)

----------------------------------------------------------------------------
\* Readers

Begin(r) ==
  /\ rd[r].pc = "idle"
  /\ rd' = [rd EXCEPT ![r] = [Idle EXCEPT !.pc = "tx", !.snap = index]]
  /\ UNCHANGED <<exists, index, open, lru, closed, obf, tx, tried>>

End(r) ==
  /\ rd[r].pc \in {"tx", "failed"}
  /\ rd' = [rd EXCEPT ![r] = Idle]
  /\ UNCHANGED <<exists, index, open, lru, closed, obf, tx, tried>>

\* The file that is written is read through the writer's handle.
FetchBlock(r, n) ==
  /\ rd[r].pc = "tx"
  /\ n \in rd[r].snap
  /\ rd' = [rd EXCEPT ![r].file = IF n = last THEN -1 ELSE n, ![r].pc = IF n = last THEN "tx" ELSE "look"]
  /\ UNCHANGED <<exists, index, open, lru, closed, obf, tx, tried>>

\* blockFile, under obfMutex.RLock.
FindOpen(r) ==
  LET n == rd[r].file
      e == <<n, open[n]>> IN
    /\ rd[r].pc = "look"
    /\ ~ReaderWaits(r)
    /\ IF n \in DOMAIN open
       THEN /\ rd' = [rd EXCEPT ![r].pc = "rlock", ![r].handle = e]
            /\ lru' = IF e \in Range(lru) THEN <<e>> \o SelectSeq(lru, LAMBDA h : h # e) ELSE lru
       ELSE /\ rd' = At(r, "slow")
            /\ UNCHANGED lru
    /\ UNCHANGED <<exists, index, open, closed, obf, tx, tried>>

Full(list) == Len(list) >= maxOpenFiles

\* blockFile, under obfMutex.Lock: another reader may have opened it.
LockAll(r) ==
  LET n == rd[r].file IN
    /\ rd[r].pc = "slow"
    /\ ~ReaderWaits(r)
    /\ \/ /\ n \in DOMAIN open
          /\ rd' = [rd EXCEPT ![r].pc = "rlock", ![r].handle = <<n, open[n]>>]
          /\ obf' = r /\ UNCHANGED lru
       \/ /\ n \notin DOMAIN open /\ n \notin exists
          /\ rd' = At(r, "failed")
          /\ UNCHANGED <<obf, lru>>
       \/ /\ n \notin DOMAIN open /\ n \in exists
          /\ obf' = r
          /\ IF Full(lru)
             THEN /\ lru' = Front(lru)
                  /\ rd' = IF Last(lru)[1] \in DOMAIN open
                           THEN [rd EXCEPT ![r].pc = "evict", ![r].handle = <<Last(lru)[1], open[Last(lru)[1]]>>]
                           ELSE At(r, "insert")
             ELSE UNCHANGED lru /\ rd' = At(r, "insert")
    /\ UNCHANGED <<exists, index, open, tx, tried>>
    /\ closed' = Remembered(closed)

\* closeFile of the least recently used file waits for those who read it.
Evict(r) ==
  LET h == rd[r].handle IN
    /\ rd[r].pc = "evict"
    /\ ~ReaderWaits(r)
    /\ open' = Without(open, h[1])
    /\ rd' = [rd EXCEPT ![r].pc = "insert", ![r].handle = NoHandle]
    /\ UNCHANGED <<exists, index, lru, obf, tx, tried>>
    /\ closed' = Remembered(closed \cup {h})

\* The file was opened before the eviction, so it may be deleted by now.
Insert(r) ==
  LET n == rd[r].file
      h == <<n, Fresh(n)>> IN
    /\ rd[r].pc = "insert"
    /\ open' = [m \in DOMAIN open \cup {n} |-> IF m = n THEN h[2] ELSE open[m]]
    /\ lru' = <<h>> \o lru
    /\ closed' = closed \ {h}
    /\ rd' = [rd EXCEPT ![r].pc = "rlock", ![r].handle = h]
    /\ UNCHANGED <<exists, index, obf, tx, tried>>

\* The read lock of the handle, then obfMutex is released.
RLock(r) ==
  /\ rd[r].pc = "rlock"
  /\ rd' = At(r, "read")
  /\ obf' = IF obf = r THEN NoReader ELSE obf
  /\ UNCHANGED <<exists, index, open, lru, closed, tx, tried>>

\* An open handle reads a file that was deleted, a closed one reads nothing.
ReadAt(r) ==
  /\ rd[r].pc = "read"
  /\ rd' = [rd EXCEPT ![r] = IF @.handle \in closed THEN [@ EXCEPT !.pc = "failed", !.handle = NoHandle]
                             ELSE [Idle EXCEPT !.pc = "tx", !.snap = rd[r].snap]]
  /\ UNCHANGED <<exists, index, open, lru, obf, tx, tried>>
  /\ closed' = Remembered(closed)

----------------------------------------------------------------------------
\* The read-write transaction

\* A block that does not fit goes to the next file.
StoreBlock ==
  /\ tx.pc = "idle"
  /\ last < MaxFileNum
  /\ exists' = exists \cup {last + 1}
  /\ index' = index \cup {last + 1}
  /\ UNCHANGED <<rd, open, lru, closed, obf, tx, tried>>

\* Files are deleted from the first on, never the last one, until the rest
\* is within the target.
DeletedFiles(size) == {n \in first..last - 1 : (last - first) + 1 - (n - first) > size}

PruneBlocks(size) ==
  /\ tx.pc = "idle"
  /\ DeletedFiles(size) # {}
  /\ tx' = [NoTx EXCEPT !.pc = "close", !.del = DeletedFiles(size), !.dels = DeletedFiles(size), !.target = size]
  /\ UNCHANGED <<exists, index, rd, open, lru, closed, obf, tried>>

\* closeFile looks the handle up, waits for its lock, and removes what the
\* maps have for the file then.
CloseLooksUp ==
  LET n == Min(tx.del) IN
    /\ tx.pc = "close"
    /\ tx' = IF n \in DOMAIN open THEN [tx EXCEPT !.pc = "lock", !.handle = <<n, open[n]>>]
             ELSE [tx EXCEPT !.pc = "delete"]
    /\ UNCHANGED <<exists, index, rd, open, lru, closed, obf, tried>>

CloseHandle ==
  /\ tx.pc = "lock"
  /\ ~PruneWaits
  /\ closed' = closed \cup {tx.handle}
  /\ tx' = [tx EXCEPT !.pc = "forget"]
  /\ UNCHANGED <<exists, index, rd, open, lru, obf, tried>>

ForgetHandle ==
  /\ tx.pc = "forget"
  /\ open' = Without(open, tx.handle[1])
  /\ tx' = [tx EXCEPT !.pc = "delete", !.handle = NoHandle]
  /\ UNCHANGED <<exists, index, rd, lru, obf, tried>>
  /\ closed' = Remembered(closed)

Failed == tried' = tried \cup tx.dels /\ tx' = NoTx

\* deleteFile refuses a file that was opened again, and may fail.
DeleteFile ==
  LET n == Min(tx.del) IN
    /\ tx.pc = "delete"
    /\ \/ /\ n \notin DOMAIN open
          /\ exists' = exists \ {n}
          /\ tx' = [tx EXCEPT !.del = @ \ {n}, !.pc = IF tx.del = {n} THEN "commit" ELSE "close"]
          /\ UNCHANGED tried
       \/ Failed /\ UNCHANGED exists
    /\ UNCHANGED <<index, rd, open, lru, closed, obf>>

\* The rows of the deleted files leave the index.
Forgotten == {b \in index : b \in tx.dels}

CommitPrune ==
  /\ tx.pc = "commit"
  /\ \/ index' = index \ Forgotten /\ tx' = NoTx /\ UNCHANGED tried
     \/ Failed /\ UNCHANGED index
  /\ UNCHANGED <<exists, rd, open, lru, closed, obf>>

\* The process dies and the database is opened again.
Crash ==
  /\ tried' = tried \cup tx.dels
  /\ rd' = [r \in Readers |-> Idle]
  /\ open' = <<>> /\ lru' = <<>> /\ closed' = {} /\ obf' = NoReader /\ tx' = NoTx
  /\ UNCHANGED <<exists, index>>

ReadStep(r) == FindOpen(r) \/ LockAll(r) \/ Evict(r) \/ Insert(r) \/ RLock(r) \/ ReadAt(r)

PruneStep == CloseLooksUp \/ CloseHandle \/ ForgetHandle \/ DeleteFile \/ CommitPrune

Next ==
  \/ \E r \in Readers : Begin(r) \/ End(r) \/ ReadStep(r) \/ \E n \in 0..MaxFileNum : FetchBlock(r, n)
  \/ StoreBlock
  \/ \E size \in Target : PruneBlocks(size)
  \/ PruneStep
  \/ Crash

Spec == Init /\ [][Next]_vars

----------------------------------------------------------------------------
(* A read fails only for a block whose file a prune deletes, or tried to:   *)
(* no eviction closes a file under a reader, and a reader of another block  *)
(* never finds its handle closed or its file gone (blockFile, closeFile).   *)
KeptReadable ==
  \A r \in Readers : rd[r].pc = "failed" => rd[r].file \notin exists \/ rd[r].file \in tx.dels \cup tried

(* When no file is being opened, the open files are on the list, so that no *)
(* more than maxOpenFiles are and each can be closed again (openFile).      *)
OpenBounded ==
  obf = NoReader => Len(lru) <= maxOpenFiles /\ \A n \in DOMAIN open : <<n, open[n]>> \in Range(lru)

(* Every indexed block has a file, but for those of a prune that did not    *)
(* commit, and no other file goes: the files are consecutive up to the one  *)
(* that is written, and few enough for the target once a prune may commit   *)
(* (writePendingAndCommit, PruneBlocks).                                    *)
PrunedForgotten ==
  /\ index \ exists \subseteq tried \cup tx.dels
  /\ exists = first..last
  /\ exists \subseteq index
  /\ tx.pc = "commit" => Cardinality(exists) <= tx.target

(* Nobody waits for ever: when readers or the prune wait for a lock, some   *)
(* reader that holds one, or the prune, is under way and does not wait.     *)
NoDeadlock ==
  (\E r \in Readers : ReaderWaits(r)) \/ PruneWaits
    => \/ \E r \in Readers : rd[r].pc \in {"evict", "insert", "rlock", "read"} /\ ~ReaderWaits(r)
       \/ tx.pc # "idle" /\ ~PruneWaits
============================================================================
