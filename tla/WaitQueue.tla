----------------------------- MODULE WaitQueue -----------------------------
(***************************************************************************)
(* A wait queue (sync/wait_queue.rs).  The ring of entries is behind a spin *)
(* lock; the number of waiters is a separate atomic that block, wake_one    *)
(* and wake_all adjust after they let the lock go, so each of them is two   *)
(* steps.  block returns at once: nothing suspends the caller yet.          *)
(***************************************************************************)
EXTENDS Integers, Sequences, FiniteSets, FiniteSetsExt

CONSTANTS
    MAX_QUEUE_DEPTH,  \* length of the ring (256)
    WqWrap,           \* 2^64, for the counter
    WaiterIds,        \* waiters; each waits in the queue at most once at a time
    WqPriorities,     \* their priorities, larger is more important
    WqCallers,        \* contexts that call block and wake
    MaxRefused,       \* bound: pushes that meet a full queue
    NoEntry           \* None

VARIABLES
    wq_entries, wq_head, wq_tail, wq_size,   \* WaitQueueInner, under the lock
    wq_count,       \* WaitQueue.count
    wq_due,         \* what a caller has still to add to wq_count; 0 when it is idle
    wq_refused,     \* history: entries a full queue did not take
    wq_waiting      \* history: the waiters that were queued and not yet woken

waitQueueVars == <<wq_entries, wq_head, wq_tail, wq_size, wq_count, wq_due, wq_refused,
                   wq_waiting>>

QueueSlots == 0 .. MAX_QUEUE_DEPTH - 1

Entry == [waiter_id : WaiterIds, priority : WqPriorities]

WaitQueueInit ==
    /\ wq_entries = [s \in QueueSlots |-> NoEntry]
    /\ wq_head = 0 /\ wq_tail = 0 /\ wq_size = 0
    /\ wq_count = 0
    /\ wq_due = [c \in WqCallers |-> 0]
    /\ wq_refused = 0
    /\ wq_waiting = {}

\* Steps from the tail at which push_sorted finds a less important entry.  The
\* search starts at the tail and looks at wq_size slots, free ones included.
Below(e) == {k \in 0 .. wq_size - 1 :
    LET x == wq_entries[(wq_tail + k) % MAX_QUEUE_DEPTH]
    IN  x # NoEntry /\ e.priority > x.priority}

InsertPos(e) ==
    IF Below(e) = {} THEN wq_tail ELSE (wq_tail + Min(Below(e))) % MAX_QUEUE_DEPTH

Inserted_NoShift(e) == [wq_entries EXCEPT ![InsertPos(e)] = e]

\* The entries from the insertion point to the tail move back by one.
Inserted(e) ==
    LET at == InsertPos(e)
        n  == (wq_tail - at) % MAX_QUEUE_DEPTH
    IN  [s \in QueueSlots |->
            IF s = at THEN e
            ELSE IF (s - at) % MAX_QUEUE_DEPTH \in 1 .. n
            THEN wq_entries[(s - 1) % MAX_QUEUE_DEPTH]
            ELSE wq_entries[s]]

push_sorted(e) ==
    IF wq_size >= MAX_QUEUE_DEPTH
    THEN /\ wq_refused' = wq_refused + 1
         /\ UNCHANGED <<wq_entries, wq_head, wq_tail, wq_size, wq_waiting>>
    ELSE /\ wq_entries' = Inserted(e)
         /\ wq_tail' = (wq_tail + 1) % MAX_QUEUE_DEPTH
         /\ wq_size' = wq_size + 1
         /\ wq_waiting' = wq_waiting \cup {e.waiter_id}
         /\ UNCHANGED <<wq_head, wq_refused>>

block(c, e) ==
    /\ wq_due[c] = 0 /\ e.waiter_id \notin wq_waiting
    /\ wq_size = MAX_QUEUE_DEPTH => wq_refused < MaxRefused
    /\ push_sorted(e)
    /\ wq_due' = [wq_due EXCEPT ![c] = 1]
    /\ UNCHANGED wq_count

\* n entries popped from the front under one hold of the lock.
PopFront(n) ==
    LET popped == {(wq_head + i) % MAX_QUEUE_DEPTH : i \in 0 .. n - 1}
    IN  /\ wq_entries' = [s \in QueueSlots |-> IF s \in popped THEN NoEntry ELSE wq_entries[s]]
        /\ wq_head' = (wq_head + n) % MAX_QUEUE_DEPTH
        /\ wq_size' = wq_size - n
        /\ wq_waiting' = wq_waiting \ {wq_entries[s].waiter_id : s \in popped}
        /\ UNCHANGED <<wq_tail, wq_refused>>

wake_one(c) ==
    /\ wq_due[c] = 0 /\ wq_size > 0
    /\ PopFront(1)
    /\ wq_due' = [wq_due EXCEPT ![c] = -1]
    /\ UNCHANGED wq_count

wake_all(c) ==
    /\ wq_due[c] = 0 /\ wq_size > 0
    /\ PopFront(wq_size)
    /\ wq_due' = [wq_due EXCEPT ![c] = -wq_size]
    /\ UNCHANGED wq_count

\* The fetch_add or fetch_sub that ends block, wake_one and wake_all.
adjust_count(c) ==
    /\ wq_due[c] # 0
    /\ wq_count' = (wq_count + wq_due[c]) % WqWrap
    /\ wq_due' = [wq_due EXCEPT ![c] = 0]
    /\ UNCHANGED <<wq_entries, wq_head, wq_tail, wq_size, wq_refused, wq_waiting>>

WaitQueueNext == \E c \in WqCallers :
    \/ \E e \in Entry : block(c, e)
    \/ wake_one(c)
    \/ wake_all(c)
    \/ adjust_count(c)

WaitQueueSpec == WaitQueueInit /\ [][WaitQueueNext]_waitQueueVars

-----------------------------------------------------------------------------
(* Every field has its type, and the tail is the head plus the size.        *)
WaitQueueTypeOK ==
    /\ wq_entries \in [QueueSlots -> Entry \cup {NoEntry}]
    /\ wq_head \in QueueSlots /\ wq_size \in 0 .. MAX_QUEUE_DEPTH
    /\ wq_tail = (wq_head + wq_size) % MAX_QUEUE_DEPTH
    /\ wq_count \in 0 .. WqWrap - 1
    /\ \A c \in WqCallers : wq_due[c] \in -MAX_QUEUE_DEPTH .. 1

(* The slots from the head to the tail hold each waiting entity exactly     *)
(* once and the others are None, wherever push_sorted inserted and however  *)
(* it shifted: no waiter is lost, none is woken twice.                      *)
EachWaiterOnce ==
    LET used == {(wq_head + i) % MAX_QUEUE_DEPTH : i \in 0 .. wq_size - 1}
    IN  /\ \A s \in QueueSlots : wq_entries[s] = NoEntry <=> s \notin used
        /\ {wq_entries[s].waiter_id : s \in used} = wq_waiting
        /\ Cardinality(wq_waiting) = wq_size

(* The atomic counter differs from the size of the queue by exactly what    *)
(* the callers have still to add, plus one for every entry a full queue     *)
(* refused: block counts those too, so after a refusal count() stays too    *)
(* high for good.                                                           *)
CountConserved ==
    wq_count = (wq_size + wq_refused - MapThenSumSet(LAMBDA c : wq_due[c], WqCallers)) % WqWrap

(* Ring and counter account for every waiter: block and the wakes lose      *)
(* nobody, wake nobody twice, and leave the counter off by nothing but what *)
(* is in flight or was refused.                                             *)
WaitersAccountedFor == EachWaiterOnce /\ CountConserved

(* Waiters are queued by priority, higher first.                            *)
PriorityOrder == \A i, j \in 0 .. wq_size - 1 : i < j =>
    wq_entries[(wq_head + i) % MAX_QUEUE_DEPTH].priority
        >= wq_entries[(wq_head + j) % MAX_QUEUE_DEPTH].priority
=============================================================================
