---------------------------- MODULE BatchWriter ----------------------------
(***************************************************************************)
(* neutrino/chanutils: the BatchWriter, which collects items and hands     *)
(* them to PutItems in batches, over the ConcurrentQueue that buffers      *)
(* them.  The processes are the callers of AddItem, the goroutine of the   *)
(* queue, manageNewItems and Stop.  Items are numbered in the order in     *)
(* which the queue takes them.                                             *)
(***************************************************************************)
EXTENDS Integers, Sequences, FiniteSets

CONSTANTS
    Callers,   \* the goroutines that call AddItem
    MaxItems,  \* bound: the number of items
    OutCap,    \* the capacity of the queue's output channel (QueueBufferSize)
    MaxBatch   \* MaxBatch of the configuration

VARIABLES
    adding,    \* the callers whose AddItem has not returned
    count,     \* how many items the queue has taken
    out,       \* the output channel of the queue
    overflow,  \* its overflow list
    qpc,       \* its goroutine: "off", "run" or "done"
    batch,     \* the batch of manageNewItems
    ticking,   \* its ticker runs
    wpc,       \* manageNewItems: "off", "loop" or "done"
    wstop,     \* where Stop is
    saved      \* history: the items handed to PutItems

bwVars == <<adding, count, out, overflow, qpc, batch, ticking, wpc, wstop, saved>>

BwInit ==
    /\ adding = {} /\ count = 0 /\ out = <<>> /\ overflow = <<>> /\ qpc = "off"
    /\ batch = <<>> /\ ticking = FALSE /\ wpc = "off" /\ wstop = "no" /\ saved = <<>>

\* The quit channels: of the writer, closed by Stop, and of the queue, closed
\* when the writer has ended.
Quit == wstop # "no"
QueueQuit == wstop \in {"queue", "done"}

-----------------------------------------------------------------------------
\* Start runs the queue and manageNewItems.
StartWriter ==
    /\ wpc = "off"
    /\ wpc' = "loop" /\ qpc' = "run"
    /\ UNCHANGED <<adding, count, out, overflow, batch, ticking, wstop, saved>>

\* A caller offers an item to the queue.
AddItem(c) ==
    /\ c \notin adding /\ count + Cardinality(adding) < MaxItems
    /\ adding' = adding \cup {c}
    /\ UNCHANGED <<count, out, overflow, qpc, batch, ticking, wpc, wstop, saved>>

\* The mistake of passing by the overflow list.
QueueTakesAnywhere(c) ==
    /\ qpc = "run" /\ c \in adding
    /\ adding' = adding \ {c} /\ count' = count + 1
    /\ IF Len(out) < OutCap
       THEN out' = Append(out, count + 1) /\ UNCHANGED overflow
       ELSE overflow' = Append(overflow, count + 1) /\ UNCHANGED out
    /\ UNCHANGED <<qpc, batch, ticking, wpc, wstop, saved>>

\* The queue takes an item: to the output channel while the overflow list is
\* empty and the channel has room, else to the end of the overflow list.
QueueTakes(c) ==
    /\ qpc = "run" /\ c \in adding
    /\ adding' = adding \ {c} /\ count' = count + 1
    /\ IF overflow = <<>> /\ Len(out) < OutCap
       THEN out' = Append(out, count + 1) /\ UNCHANGED overflow
       ELSE overflow' = Append(overflow, count + 1) /\ UNCHANGED out
    /\ UNCHANGED <<qpc, batch, ticking, wpc, wstop, saved>>

\* It moves the front of the overflow list when the channel has room.
QueueMoves ==
    /\ qpc = "run" /\ overflow # <<>> /\ Len(out) < OutCap
    /\ out' = Append(out, Head(overflow)) /\ overflow' = Tail(overflow)
    /\ UNCHANGED <<adding, count, qpc, batch, ticking, wpc, wstop, saved>>

\* Its goroutine ends on quit, with what it holds.
QueueEnds ==
    /\ qpc = "run" /\ QueueQuit
    /\ qpc' = "done"
    /\ UNCHANGED <<adding, count, out, overflow, batch, ticking, wpc, wstop, saved>>

-----------------------------------------------------------------------------
\* writeBatch: the items go to PutItems, whose error is only logged, and the
\* batch is emptied.
writeBatch(b) == saved' = saved \o b /\ batch' = <<>>

\* An item is received: a full batch is written and the ticker stopped, else
\* the ticker is reset.
ReceiveItem ==
    /\ wpc = "loop" /\ out # <<>>
    /\ out' = Tail(out)
    /\ LET b == Append(batch, Head(out))
       IN  IF Len(b) = MaxBatch THEN ticking' = FALSE /\ writeBatch(b)
           ELSE ticking' = TRUE /\ batch' = b /\ UNCHANGED saved
    /\ UNCHANGED <<adding, count, overflow, qpc, wpc, wstop>>

\* The ticker fires: it is stopped and the batch written.
Tick ==
    /\ wpc = "loop" /\ ticking
    /\ ticking' = FALSE /\ writeBatch(batch)
    /\ UNCHANGED <<adding, count, out, overflow, qpc, wpc, wstop>>

\* On quit the batch is written and the goroutine ends.
WriterQuits ==
    /\ wpc = "loop" /\ Quit
    /\ wpc' = "done" /\ ticking' = FALSE /\ writeBatch(batch)
    /\ UNCHANGED <<adding, count, out, overflow, qpc, wstop>>

\* Stop closes quit, waits for the writer, stops the queue and waits for it.
StopWriter ==
    /\ wstop = "no"
    /\ wstop' = "writer"
    /\ UNCHANGED <<adding, count, out, overflow, qpc, batch, ticking, wpc, saved>>

StopQueue ==
    /\ wstop = "writer" /\ wpc # "loop"
    /\ wstop' = "queue"
    /\ UNCHANGED <<adding, count, out, overflow, qpc, batch, ticking, wpc, saved>>

StopDone ==
    /\ wstop = "queue" /\ qpc # "run"
    /\ wstop' = "done"
    /\ UNCHANGED <<adding, count, out, overflow, qpc, batch, ticking, wpc, saved>>

WriterStep == ReceiveItem \/ Tick \/ WriterQuits
QueueStep == QueueMoves \/ QueueEnds \/ \E c \in Callers : QueueTakes(c)
StopStep == StopQueue \/ StopDone

BwNext ==
    \/ StartWriter \/ StopWriter \/ WriterStep \/ QueueStep \/ StopStep
    \/ \E c \in Callers : AddItem(c)

BwSpec == BwInit /\ [][BwNext]_bwVars

\* Some goroutine that can run does so and timers fire; the number of items is
\* bounded, so this is all the fairness that is needed.
BwFairness == WF_bwVars(WriterStep \/ QueueStep \/ StopStep)

-----------------------------------------------------------------------------
\* Every field has its type; the batch is written before it is full.
BwTypeOK ==
    /\ adding \subseteq Callers /\ count \in 0 .. MaxItems
    /\ out \in Seq(1 .. MaxItems) /\ Len(out) <= OutCap /\ overflow \in Seq(1 .. MaxItems)
    /\ qpc \in {"off", "run", "done"} /\ wpc \in {"off", "loop", "done"}
    /\ batch \in Seq(1 .. MaxItems) /\ Len(batch) < MaxBatch
    /\ ticking \in BOOLEAN /\ wstop \in {"no", "writer", "queue", "done"}
    /\ saved \in Seq(1 .. MaxItems)

\* Items are written in the order in which AddItem handed them over, none twice
\* and none skipped: the batches written, the batch, the channel and the
\* overflow list are, in this order, everything that was taken.
InOrder ==
    saved \o batch \o out \o overflow = [i \in 1 .. count |-> i]

\* Stop leaves no received item unwritten: when it returns, all that the queue
\* had passed on was handed to PutItems.
StopWritesBatch ==
    wpc = "done" => batch = <<>>

\* Every item taken is written in the end, full batch or not, unless Stop is
\* called.
ItemsWritten ==
    \A i \in 1 .. MaxItems : count >= i ~> Len(saved) >= i \/ Quit

\* AddItem and Stop return: AddItem does not once Stop was called.
WriterCallsReturn ==
    /\ \A c \in Callers : (c \in adding /\ wpc = "loop") ~> (c \notin adding \/ Quit)
    /\ Quit ~> wstop = "done"
=============================================================================
