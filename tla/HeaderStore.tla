----------------------------- MODULE HeaderStore -----------------------------
(***************************************************************************)
(* neutrino/headerfs: the block header store and the filter header store.  *)
(* Each keeps its headers in a flat file and its tip in a database; the    *)
(* heights of block hashes are in the database too, written by the block   *)
(* store and read by both.  File and database are changed one after the    *)
(* other, and the stores are repaired when they are opened.                *)
(*                                                                         *)
(* A header takes two units of a file, so that a write can stop inside of  *)
(* it; cell <<b, i>> is unit i of the (block or filter) header of block b. *)
(* Database transactions are atomic and durable (walletdb, external).      *)
(***************************************************************************)
EXTENDS Integers, Sequences

CONSTANTS
    Blocks, Genesis,
    Prev, Height,   \* the parent and the height of every block
    MaxHeaders,     \* bound: headers in a file
    MaxFaults,      \* bound: failures of writes and truncates, losses of power
    Failures,       \* what may fail: see FailureKinds
    None, Garbage   \* no block; a header that is not one of Blocks

FailureKinds == {"index",      \* a database transaction
                 "write",      \* a write, after some of its bytes
                 "truncate",   \* a truncate or the sync before it
                 "crash",      \* the process stops between two steps
                 "power"}      \* and the end of the files is lost

ASSUME ChainAssumption ==
    /\ Genesis \in Blocks /\ Height \in [Blocks -> Nat] /\ Height[Genesis] = 0
    /\ \A b \in Blocks \ {Genesis} : Prev[b] \in Blocks /\ Height[b] = Height[Prev[b]] + 1
    /\ None \notin Blocks /\ Garbage \notin Blocks /\ None # Garbage

ASSUME FailuresAssumption == Failures \subseteq FailureKinds /\ MaxHeaders \in Nat /\ MaxFaults \in Nat

Stores == {"block", "filter"}

VARIABLES
    file,    \* file[s]: the cells of the flat file
    pos,     \* pos[s]: the offset of its file descriptor
    tip,     \* tip[s]: bitcoinTip or regFilterTip in the database
    entry,   \* entry[b]: the height the index has for b, or -1
    up,      \* up[s]: "closed", "open" or "refused"
    pc,      \* pc[s]: where the operation that holds the store's lock is
    batch,   \* batch[s]: the headers it writes or removes and their first height
    cut,     \* cut[s]: a rollback or the first write of s was cut short
    faults   \* how often a write or a truncate failed or power was lost

vars == <<file, pos, tip, entry, up, pc, batch, cut, faults>>

-----------------------------------------------------------------------------
Junk == <<Garbage, 0>>
Cells(hs) == [k \in 1 .. 2 * Len(hs) |-> <<hs[(k + 1) \div 2], 1 + ((k + 1) % 2)>>]

\* Truncate to n units; beyond the end it extends the file with zeros.
Resize(f, n) == [k \in 1 .. n |-> IF k <= Len(f) THEN f[k] ELSE Junk]

\* Heights are unsigned; their width is 32 in the code, and any width that
\* exceeds a file gives the same.
Word == 2^16

\* readHeader: None stands for ErrHeaderNotFound.
HeaderAt(f, h) ==
    IF h < 0 \/ Len(f) < 2 * (h + 1) THEN None
    ELSE IF \E b \in Blocks : f[2 * h + 1] = <<b, 1>> /\ f[2 * h + 2] = <<b, 2>>
         THEN f[2 * h + 1][1]
         ELSE Garbage

\* The height of the last whole header of a file, -1 for less than one.
FileHeight(f) == Len(f) \div 2 - 1

\* chainTip: the tip is in the database and its height as well.
TipKnown(s) == tip[s] \in Blocks /\ entry[tip[s]] >= 0
TipHeight(s) == entry[tip[s]]

\* ChainTip succeeds, and the header it returns.
ChainTipOK(s) == TipKnown(s) /\ HeaderAt(file[s], TipHeight(s)) # None
ChainTip(s) == HeaderAt(file[s], TipHeight(s))

\* CheckConnectivity walks down from below the tip, in unsigned integers, to
\* the block above the genesis block.
CheckConnectivity ==
    /\ ChainTipOK("block")
    /\ TipHeight("block") = 0 => HeaderAt(file["block"], Word - 1) # None
    /\ \A h \in 1 .. TipHeight("block") - 1 :
          LET b == HeaderAt(file["block"], h)
          IN  /\ b \in Blocks /\ entry[b] = h
              /\ HeaderAt(file["block"], h + 1) \in {c \in Blocks : Prev[c] = b}

NoBatch == [hs |-> <<>>, first |-> 0]

\* Chains of one or two blocks, the inputs of WriteHeaders.
Chains == {<<b>> : b \in Blocks \ {Genesis}} \cup
          {<<Prev[b], b>> : b \in {c \in Blocks : c # Genesis /\ Prev[c] # Genesis}}

Init ==
    /\ file = [s \in Stores |-> <<>>]
    /\ pos = [s \in Stores |-> 0]
    /\ tip = [s \in Stores |-> None]
    /\ entry = [b \in Blocks |-> -1]
    /\ up = [s \in Stores |-> "closed"]
    /\ pc = [s \in Stores |-> "idle"]
    /\ batch = [s \in Stores |-> NoBatch]
    /\ cut = [s \in Stores |-> FALSE]
    /\ faults = 0

Idle(s) == up[s] = "open" /\ pc[s] = "idle"
Done(s) == pc' = [pc EXCEPT ![s] = "idle"] /\ batch' = [batch EXCEPT ![s] = NoBatch]
Fault(kind) == kind \in Failures /\ faults < MaxFaults /\ faults' = faults + 1
Write(s, hs, h) ==
    /\ pc' = [pc EXCEPT ![s] = "append"]
    /\ batch' = [batch EXCEPT ![s] = [hs |-> hs, first |-> h]]

-----------------------------------------------------------------------------
(* Opening: NewBlockHeaderStore, NewFilterHeaderStore.                     *)

\* The last header of the file is compared with the tip; the filter store
\* compares a filter header with a block hash, which are never equal.
InSync(s, last) == s = "block" /\ last = tip[s]

ExcessOneMore(s) == (FileHeight(file[s]) + 1 - TipHeight(s)) % Word

\* How many headers are too many: an unsigned difference, so that a negative
\* one is larger than any file and Truncate refuses the size it gives.
Excess(s) == (FileHeight(file[s]) - TipHeight(s)) % Word

\* An empty file is started with the genesis header.
OpenEmpty(s) ==
    /\ up[s] # "open" /\ file[s] = <<>>
    /\ up' = [up EXCEPT ![s] = "open"]
    /\ pos' = [pos EXCEPT ![s] = 0]
    /\ Write(s, <<Genesis>>, 0)
    /\ UNCHANGED <<file, tip, entry, cut, faults>>

\* maybeResetHeaderState: the filter file does not hold the header it is
\* asserted to hold at some height; it is removed and started again.
ResetFilters ==
    /\ up["filter"] # "open" /\ HeaderAt(file["filter"], 1) # None
    /\ up' = [up EXCEPT !["filter"] = "open"]
    /\ file' = [file EXCEPT !["filter"] = <<>>]
    /\ pos' = [pos EXCEPT !["filter"] = 0]
    /\ Write("filter", <<Genesis>>, 0)
    /\ UNCHANGED <<tip, entry, cut, faults>>

\* What the stores know when a file that is not empty is opened, and whether
\* the file has to be, and can be, truncated.
Readable(s) == TipKnown(s) /\ HeaderAt(file[s], FileHeight(file[s])) # None
Surplus(s) == ~InSync(s, HeaderAt(file[s], FileHeight(file[s]))) /\ Excess(s) # 0
Repairable(s) == 2 * Excess(s) <= Len(file[s])

Open(s) ==
    /\ up[s] # "open" /\ file[s] # <<>>
    /\ pos' = [pos EXCEPT ![s] = 0]
    /\ UNCHANGED <<tip, entry, pc, batch, cut>>
    /\ \/ /\ Readable(s) /\ ~Surplus(s)
          /\ up' = [up EXCEPT ![s] = "open"]
          /\ UNCHANGED <<file, faults>>
       \/ /\ Readable(s) /\ Surplus(s) /\ Repairable(s)
          /\ up' = [up EXCEPT ![s] = "open"]
          /\ file' = [file EXCEPT ![s] = Resize(@, Len(@) - 2 * Excess(s))]
          /\ UNCHANGED faults
       \/ /\ Readable(s) => Surplus(s) /\ (Repairable(s) => "truncate" \in Failures)
          /\ IF Readable(s) /\ Repairable(s) THEN Fault("truncate") ELSE UNCHANGED faults
          /\ up' = [up EXCEPT ![s] = "refused"]
          /\ UNCHANGED file

-----------------------------------------------------------------------------
(* WriteHeaders: the file first, the database second.                      *)

\* Callers write headers that follow the tip the store reports; filter
\* headers are those of blocks that are in the index already.
WriteHeaders(s, hs) ==
    /\ Idle(s) /\ ChainTipOK(s)
    /\ IF s = "block" THEN Prev[hs[1]] = ChainTip(s)
       ELSE Prev[hs[1]] = tip[s] /\ \A i \in 1 .. Len(hs) : entry[hs[i]] = TipHeight(s) + i
    /\ Len(file[s]) + 2 * Len(hs) <= 2 * MaxHeaders
    /\ Write(s, hs, TipHeight(s) + 1)
    /\ UNCHANGED <<file, pos, tip, entry, up, cut, faults>>

\* appendRaw: the file is opened for appending, so a write starts at its end
\* and moves the descriptor's offset behind what it wrote.
appendRaw(s) ==
    /\ pc[s] = "append"
    /\ file' = [file EXCEPT ![s] = @ \o Cells(batch[s].hs)]
    /\ pos' = [pos EXCEPT ![s] = Len(file'[s])]
    /\ pc' = [pc EXCEPT ![s] = "index"]
    /\ UNCHANGED <<tip, entry, up, batch, cut, faults>>

\* The write fails after n units; the file is then truncated to the offset
\* the descriptor had before.
appendRawFails(s) ==
    /\ pc[s] = "append" /\ Fault("write")
    /\ \E n \in 0 .. 2 * Len(batch[s].hs) - 1 :
          LET torn == file[s] \o SubSeq(Cells(batch[s].hs), 1, n)
          IN  /\ \/ n = 0 /\ UNCHANGED file
                 \/ n > 0 /\ file' = [file EXCEPT ![s] = Resize(torn, pos[s])]
                 \/ n > 0 /\ "truncate" \in Failures /\ file' = [file EXCEPT ![s] = torn]
              /\ pos' = [pos EXCEPT ![s] = IF n = 0 THEN @ ELSE Len(torn)]
    /\ Done(s)
    /\ up' = IF batch[s].first = 0 THEN [up EXCEPT ![s] = "refused"] ELSE up
    /\ UNCHANGED <<tip, entry, cut>>

\* addHeaders puts the heights and the tip, the filter store the tip only.
addHeaders(s) ==
    /\ pc[s] = "index"
    /\ LET hs == batch[s].hs
       IN  /\ tip' = [tip EXCEPT ![s] = hs[Len(hs)]]
           /\ entry' = IF s = "filter" THEN entry
                       ELSE [b \in Blocks |->
                               IF \E i \in 1 .. Len(hs) : hs[i] = b
                               THEN batch[s].first + (CHOOSE i \in 1 .. Len(hs) : hs[i] = b) - 1
                               ELSE entry[b]]
    /\ Done(s)
    /\ UNCHANGED <<file, pos, up, cut, faults>>

addHeadersFailsKept(s) ==
    /\ pc[s] = "index" /\ "index" \in Failures
    /\ Done(s)
    /\ up' = IF batch[s].first = 0 THEN [up EXCEPT ![s] = "refused"] ELSE up
    /\ UNCHANGED <<file, pos, tip, entry, cut, faults>>

\* The transaction fails: the file is synced and truncated by the batch.
addHeadersFails(s) ==
    /\ pc[s] = "index" /\ "index" \in Failures
    /\ \/ /\ file' = [file EXCEPT ![s] = Resize(@, Len(@) - 2 * Len(batch[s].hs))]
          /\ UNCHANGED faults
       \/ Fault("truncate") /\ UNCHANGED file
    /\ Done(s)
    /\ up' = IF batch[s].first = 0 THEN [up EXCEPT ![s] = "refused"] ELSE up
    /\ UNCHANGED <<pos, tip, entry, cut>>

-----------------------------------------------------------------------------
(* Rolling back: the file first, the database second.                      *)

\* RollbackBlockHeaders(n) removes what the file holds below the tip.
RollbackBlockHeaders(n) ==
    /\ Idle("block") /\ TipKnown("block") /\ n <= TipHeight("block")
    /\ LET f == file["block"]
           h == TipHeight("block")
       IN  /\ HeaderAt(f, h) # None
           /\ batch' = [batch EXCEPT !["block"] =
                          [hs |-> [i \in 1 .. n + 1 |-> HeaderAt(f, h - n + i - 1)],
                           first |-> h - n]]
           /\ file' = [file EXCEPT !["block"] = Resize(@, Len(@) - 2 * n)]
    /\ pc' = [pc EXCEPT !["block"] = "unindex"]
    /\ UNCHANGED <<pos, tip, entry, up, cut, faults>>

\* RollbackLastBlock of the filter store, given the new tip.
RollbackLastFilter ==
    /\ Idle("filter") /\ TipKnown("filter") /\ TipHeight("filter") > 0
    /\ HeaderAt(file["filter"], TipHeight("filter") - 1) # None
    /\ batch' = [batch EXCEPT !["filter"] = [hs    |-> <<Prev[tip["filter"]]>>,
                                             first |-> TipHeight("filter") - 1]]
    /\ file' = [file EXCEPT !["filter"] = Resize(@, Len(@) - 2)]
    /\ pc' = [pc EXCEPT !["filter"] = "unindex"]
    /\ UNCHANGED <<pos, tip, entry, up, cut, faults>>

\* Removes the entries of the block store and moves the tip back.
truncateIndices(s) ==
    /\ pc[s] = "unindex"
    /\ LET hs == batch[s].hs
       IN  /\ tip' = [tip EXCEPT ![s] = hs[1]]
           /\ entry' = [b \in Blocks |-> IF \E i \in 2 .. Len(hs) : hs[i] = b THEN -1
                                                                              ELSE entry[b]]
    /\ Done(s)
    /\ UNCHANGED <<file, pos, up, cut, faults>>

truncateIndicesFails(s) ==
    /\ pc[s] = "unindex" /\ "index" \in Failures
    /\ cut' = [cut EXCEPT ![s] = TRUE]
    /\ Done(s)
    /\ UNCHANGED <<file, pos, tip, entry, up, faults>>

-----------------------------------------------------------------------------
\* A crash; the files are not synced, so a loss of power may take any part
\* of their ends, and of a write in progress.
Crash ==
    /\ "crash" \in Failures /\ \E s \in Stores : up[s] = "open"
    /\ LET unsafe(s) == IF pc[s] = "append" THEN file[s] \o Cells(batch[s].hs) ELSE file[s]
       IN  \/ UNCHANGED <<file, faults>>
           \/ /\ Fault("power")
              /\ \E n \in [Stores -> 0 .. 2 * MaxHeaders] :
                    /\ \A s \in Stores : n[s] <= Len(unsafe(s))
                    /\ file' = [s \in Stores |-> Resize(unsafe(s), n[s])]
    /\ up' = [s \in Stores |-> "closed"]
    /\ pc' = [s \in Stores |-> "idle"]
    /\ pos' = [s \in Stores |-> 0]
    /\ batch' = [s \in Stores |-> NoBatch]
    /\ cut' = [s \in Stores |-> \/ cut[s] \/ pc[s] = "unindex"
                                \/ pc[s] = "index" /\ batch[s].first = 0]
    /\ UNCHANGED <<tip, entry>>

Next ==
    \/ \E s \in Stores :
          \/ OpenEmpty(s) \/ Open(s)
          \/ \E hs \in Chains : WriteHeaders(s, hs)
          \/ appendRaw(s) \/ appendRawFails(s)
          \/ addHeaders(s) \/ addHeadersFails(s)
          \/ truncateIndices(s) \/ truncateIndicesFails(s)
    \/ \E n \in 1 .. 2 : RollbackBlockHeaders(n)
    \/ RollbackLastFilter
    \/ ResetFilters
    \/ Crash

Spec == Init /\ [][Next]_vars

-----------------------------------------------------------------------------
HeaderSeqs == UNION {[1 .. n -> Blocks \cup {Garbage}] : n \in 0 .. 3}

\* Type invariant of the files, the index and the operations.
TypeOK ==
    /\ \A s \in Stores : \A k \in 1 .. Len(file[s]) :
          file[s][k] \in (Blocks \X {1, 2}) \cup {Junk}
    /\ \A s \in Stores : pos[s] \in 0 .. 2 * MaxHeaders /\ Len(file[s]) <= 2 * MaxHeaders
    /\ tip \in [Stores -> Blocks \cup {None, Garbage}]
    /\ entry \in [Blocks -> -1 .. MaxHeaders]
    /\ up \in [Stores -> {"closed", "open", "refused"}]
    /\ pc \in [Stores -> {"idle", "append", "index", "unindex"}]
    /\ \A s \in Stores : batch[s].hs \in HeaderSeqs /\ batch[s].first \in 0 .. MaxHeaders
    /\ cut \in [Stores -> BOOLEAN] /\ faults \in 0 .. MaxFaults

\* When a store reports a tip, its file holds the headers of the chain that
\* ends there and nothing else, and CheckConnectivity finds the block headers
\* connected and indexed (above the first block), whatever transaction failed
\* and wherever the
\* process stopped before, as long as writes and truncates succeed.
Agreement ==
    \A s \in Stores : faults = 0 /\ Idle(s) /\ ChainTipOK(s) =>
        /\ Len(file[s]) = 2 * (TipHeight(s) + 1)
        /\ HeaderAt(file[s], 0) = Genesis /\ HeaderAt(file[s], TipHeight(s)) = tip[s]
        /\ \A h \in 1 .. TipHeight(s) :
              /\ HeaderAt(file[s], h) \in Blocks \ {Genesis}
              /\ Prev[HeaderAt(file[s], h)] = HeaderAt(file[s], h - 1)
        /\ s = "block" /\ TipHeight(s) > 0 => CheckConnectivity

\* FetchHeader(hash) never returns the header of another block.
FetchMatches ==
    faults = 0 /\ Idle("block") => \A b \in Blocks : entry[b] >= 0 =>
        HeaderAt(file["block"], entry[b]) \in {b, None}

\* A store can be opened again after a crash at any place but inside of a
\* rollback or of its first write, and after any failed transaction but that
\* of a rollback: its file is empty or can be cut back to the index.
Reopens ==
    \A s \in Stores : up[s] # "open" /\ faults = 0 /\ ~cut[s] /\ (s = "filter" => TipKnown(s)) =>
        file[s] = <<>> \/ (Readable(s) /\ (Surplus(s) => Repairable(s)))

\* A write that fails leaves the file as it was.
AppendUndone ==
    [][\A s \in Stores : pc[s] = "append" /\ pc'[s] = "idle" /\ up'[s] = "open"
          => file'[s] = file[s]]_vars

\* Opening a store never drops a header the index refers to, whatever failed
\* and whatever is at the end of the file (truncateHeaders by the difference
\* of the two heights).
RepairKeepsIndexed ==
    [][\A s \in Stores : up[s] # "open" /\ up'[s] = "open" /\ pc'[s] = "idle"
          => \A h \in 0 .. TipHeight(s) : HeaderAt(file'[s], h) = HeaderAt(file[s], h)]_vars
=============================================================================
