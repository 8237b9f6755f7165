-------------------------- MODULE ThreadScheduler --------------------------
(***************************************************************************)
(* The kernel's thread scheduler: the run queue (sched/state.rs), threads   *)
(* (sched/thread.rs) and the Scheduler that owns both (sched/scheduler.rs). *)
(* Every method takes &mut self, so a call is one step.                     *)
(*                                                                         *)
(* A ring keeps its head and tail as ever growing machine words and takes   *)
(* them modulo its length at each use; WRAP stands for 2^64.  Thread ids    *)
(* come from a counter that is never reused, so the slot a thread has in    *)
(* the threads array is left out, and so are time slices, statistics,       *)
(* registers and stacks.                                                    *)
(***************************************************************************)
EXTENDS Integers, Sequences, FiniteSets, FiniteSetsExt

CONSTANTS
    MAX_PER_PRIORITY,   \* length of a ring (64)
    WRAP,               \* 2^64, a multiple of the length
    MAX_THREADS,        \* threads the scheduler holds (1024)
    Priorities,         \* the levels of ThreadPriority in use, Normal = 2 among them
    MaxThreadIds,       \* bound: thread ids handed out
    NoThread            \* None

VARIABLES
    sched,       \* the Scheduler
    next_tid,    \* NEXT_THREAD_ID
    blamed       \* history: Ready threads that yielded or met a full ring

threadVars == <<sched, next_tid, blamed>>

Tids == 1 .. MaxThreadIds

Index == 0 .. MAX_PER_PRIORITY - 1

Normal == 2

States == {"Ready", "Running", "Blocked", "Terminated", "Sleeping",
           "BlockedOnMutex", "BlockedOnCondvar"}

-----------------------------------------------------------------------------
(* One ring of the run queue.                                               *)

EmptyRing == [slots |-> [i \in Index |-> 0], head |-> 0, tail |-> 0, count |-> 0]

At(ring, i) == (ring.head + i) % MAX_PER_PRIORITY

RingContents(ring) == [i \in 1 .. ring.count |-> ring.slots[At(ring, i - 1)]]

Pushed(ring, t) ==
    IF ring.count < MAX_PER_PRIORITY
    THEN [slots |-> [ring.slots EXCEPT ![ring.tail % MAX_PER_PRIORITY] = t],
          head  |-> ring.head,
          tail  |-> (ring.tail + 1) % WRAP,
          count |-> ring.count + 1]
    ELSE ring

\* A slot outside the ring is never read: 0 stands for what is left in it.
Popped(ring) == [ring EXCEPT !.slots[At(ring, 0)] = 0, !.head = (@ + 1) % WRAP, !.count = @ - 1]

Positions(ring, t) == {i \in 0 .. ring.count - 1 : ring.slots[At(ring, i)] = t}

\* Entry i taken out: the entries behind it move up by one.
Closed(ring, i) == [s \in Index |->
    CASE \E j \in i .. ring.count - 2 : s = At(ring, j) ->
             ring.slots[(s + 1) % MAX_PER_PRIORITY]
      [] s = At(ring, ring.count - 1) -> 0
      [] OTHER -> ring.slots[s]]

Removed_TailStays(ring, i) == [ring EXCEPT !.slots = Closed(ring, i), !.count = @ - 1]

Removed(ring, i) ==
    [ring EXCEPT !.slots = Closed(ring, i), !.tail = (@ - 1) % WRAP, !.count = @ - 1]

-----------------------------------------------------------------------------
(* RunQueue.                                                                *)

RunQueue_new == [rings |-> [p \in Priorities |-> EmptyRing], total_count |-> 0]

enqueue(rq, t, p) ==
    IF rq.rings[p].count < MAX_PER_PRIORITY
    THEN [rings |-> [rq.rings EXCEPT ![p] = Pushed(@, t)], total_count |-> rq.total_count + 1]
    ELSE rq

NothingQueued(rq) == \A p \in Priorities : rq.rings[p].count = 0

Top_Lowest(rq) == CHOOSE p \in Priorities :
    rq.rings[p].count > 0 /\ \A q \in Priorities : rq.rings[q].count > 0 => p <= q

\* The priority dequeue takes from: the highest ring that is not empty.
Top(rq) == CHOOSE p \in Priorities :
    rq.rings[p].count > 0 /\ \A q \in Priorities : rq.rings[q].count > 0 => q <= p

NextQueued(rq) == LET ring == rq.rings[Top(rq)] IN ring.slots[At(ring, 0)]

dequeue(rq) ==
    [rings |-> [rq.rings EXCEPT ![Top(rq)] = Popped(@)], total_count |-> rq.total_count - 1]

Queued(rq, t) == \E p \in Priorities : Positions(rq.rings[p], t) # {}

RunQueue_remove(rq, t) ==
    IF ~Queued(rq, t) THEN rq
    ELSE LET p == CHOOSE p \in Priorities :
                      /\ Positions(rq.rings[p], t) # {}
                      /\ \A q \in Priorities : Positions(rq.rings[q], t) # {} => p <= q
             i == CHOOSE i \in Positions(rq.rings[p], t) :
                      \A j \in Positions(rq.rings[p], t) : i <= j
         IN  [rings |-> [rq.rings EXCEPT ![p] = Removed(@, i)],
              total_count |-> rq.total_count - 1]

-----------------------------------------------------------------------------
(* Scheduler.                                                               *)

Exists(s, t) == t \in Tids /\ s.threads[t].state # "none"

is_runnable(thread) == thread.state \in {"Ready", "Running"}

set_state(s, t, state) ==
    IF Exists(s, t) THEN [s EXCEPT !.threads[t].state = state] ELSE s

enqueue_thread(s, t) ==
    IF Exists(s, t) /\ is_runnable(s.threads[t])
    THEN [s EXCEPT !.run_queue = enqueue(@, t, s.threads[t].priority)]
    ELSE s

Thread_new(priority) == [state |-> "Ready", priority |-> priority]

add_thread(s, t, thread) ==
    IF s.thread_count >= MAX_THREADS THEN s
    ELSE enqueue_thread([s EXCEPT !.threads[t] = thread, !.thread_count = @ + 1], t)

SwitchTo_NoRequeue(s, t, rq) ==
    LET cur == s.current_thread
        s1  == IF Exists(s, cur) /\ s.threads[cur].state = "Running"
               THEN set_state(s, cur, "Ready") ELSE s
    IN  [set_state([s1 EXCEPT !.run_queue = rq], t, "Running") EXCEPT !.current_thread = t]

\* schedule when an entry was dequeued: rq is the queue without it.
SwitchTo(s, t, rq) ==
    LET cur     == s.current_thread
        requeue == Exists(s, cur) /\ s.threads[cur].state = "Running"
        s1      == IF requeue
                   THEN [set_state(s, cur, "Ready") EXCEPT
                            !.run_queue = enqueue(rq, cur, s.threads[cur].priority)]
                   ELSE [s EXCEPT !.run_queue = rq]
    IN  [set_state(s1, t, "Running") EXCEPT !.current_thread = t]

\* schedule with nothing queued and no current thread: the idle thread id.
IdleThread(s, id) ==
    IF s.thread_count >= MAX_THREADS THEN s
    ELSE [add_thread(s, id, Thread_new(Normal)) EXCEPT !.current_thread = id]

schedule(s, id) ==
    IF NothingQueued(s.run_queue)
    THEN IF s.current_thread # NoThread THEN s ELSE IdleThread(s, id)
    ELSE SwitchTo(s, NextQueued(s.run_queue), dequeue(s.run_queue))

\* schedule takes an id from the counter only to make the idle thread.
NeedsIdle(s) == NothingQueued(s.run_queue) /\ s.current_thread = NoThread

ReadyIn(s) == {t \in Tids : s.threads[t].state = "Ready"}

\* The threads that are Ready in s and that neither a ring nor the CPU holds.
Stranded(s) == {t \in ReadyIn(s) : t # s.current_thread /\ ~Queued(s.run_queue, t)}

\* schedule in the state s a caller left, with the id counter and the history.
Reschedule(s, ts) ==
    /\ NeedsIdle(s) => next_tid <= MaxThreadIds
    /\ sched' = schedule(s, next_tid)
    /\ next_tid' = IF NeedsIdle(s) THEN next_tid + 1 ELSE next_tid
    /\ blamed' = (blamed \cup ts) \cap ReadyIn(sched')

-----------------------------------------------------------------------------
ThreadInit ==
    /\ sched = [run_queue |-> RunQueue_new, current_thread |-> NoThread, thread_count |-> 0,
                threads |-> [t \in Tids |-> [state |-> "none", priority |-> Normal]]]
    /\ next_tid = 1
    /\ blamed = {}

\* A ring that is full when t is queued drops it.
RingFull(s, p) == s.run_queue.rings[p].count = MAX_PER_PRIORITY

DroppedBy(s, t) == IF RingFull(s, s.threads[t].priority) THEN {t} ELSE {}

AddThread(p) ==
    /\ next_tid <= MaxThreadIds
    /\ sched' = add_thread(sched, next_tid, Thread_new(p))
    /\ next_tid' = next_tid + 1
    /\ blamed' = (blamed \cup IF RingFull(sched, p) THEN {next_tid} ELSE {}) \cap ReadyIn(sched')

remove_thread(t) ==
    /\ Exists(sched, t)
    /\ sched' = [sched EXCEPT
                    !.run_queue = RunQueue_remove(@, t),
                    !.thread_count = @ - 1,
                    !.threads[t] = [state |-> "none", priority |-> Normal]]
    /\ blamed' = blamed \cap ReadyIn(sched')
    /\ UNCHANGED next_tid

\* The timer's call: only a full ring can lose the thread that was running.
Schedule == Reschedule(sched,
    IF Exists(sched, sched.current_thread) THEN DroppedBy(sched, sched.current_thread) ELSE {})

\* The thread marks itself Ready first, so schedule does not queue it again.
yield_cpu ==
    LET cur == sched.current_thread
        running == Exists(sched, cur) /\ sched.threads[cur].state = "Running"
    IN  Reschedule(IF running THEN set_state(sched, cur, "Ready") ELSE sched, {cur})

\* Sleeping and Terminated are alike here: nothing wakes a thread from either.
block_current_thread(state) ==
    Reschedule(set_state(sched, sched.current_thread, state), {})

BlockedStates == {"Blocked", "BlockedOnMutex", "BlockedOnCondvar"}

wake_thread(t) ==
    /\ Exists(sched, t) /\ sched.threads[t].state \in BlockedStates
    /\ sched' = enqueue_thread(set_state(sched, t, "Ready"), t)
    /\ blamed' = (blamed \cup DroppedBy(sched, t)) \cap ReadyIn(sched')
    /\ UNCHANGED next_tid

\* current_thread_mut().set_priority(p)
set_priority(p) ==
    /\ Exists(sched, sched.current_thread)
    /\ sched' = [sched EXCEPT !.threads[sched.current_thread].priority = p]
    /\ UNCHANGED <<next_tid, blamed>>

ThreadNext ==
    \/ \E p \in Priorities : AddThread(p)
    \/ \E t \in Tids : remove_thread(t)
    \/ Schedule
    \/ yield_cpu
    \/ \E state \in {"Blocked", "Terminated"} : block_current_thread(state)
    \/ \E t \in Tids : wake_thread(t)
    \/ \E p \in Priorities : set_priority(p)

ThreadSpec == ThreadInit /\ [][ThreadNext]_threadVars

-----------------------------------------------------------------------------
(* Every field has its type, the tail of a ring is its head plus its count, *)
(* so enqueue writes where dequeue and remove will look, and total_count is *)
(* the sum of the counts (RunQueue).                                        *)
ThreadTypeOK ==
    /\ next_tid \in 1 .. MaxThreadIds + 1
    /\ blamed \subseteq Tids
    /\ sched.current_thread \in Tids \cup {NoThread}
    /\ sched.thread_count = Cardinality({t \in Tids : Exists(sched, t)})
    /\ sched.run_queue.total_count =
          MapThenSumSet(LAMBDA p : sched.run_queue.rings[p].count, Priorities)
    /\ \A t \in Tids : sched.threads[t] \in [state : States \cup {"none"}, priority : Priorities]
    /\ \A p \in Priorities : LET ring == sched.run_queue.rings[p] IN
          /\ ring.slots \in [Index -> 0 .. MaxThreadIds]
          /\ ring.count \in 0 .. MAX_PER_PRIORITY
          /\ ring.head \in 0 .. WRAP - 1
          /\ ring.tail = (ring.head + ring.count) % WRAP

(* At most one thread is marked Running and it is the current one, however  *)
(* adds, removals, yields, blocks and wakes are mixed (Scheduler::schedule).*)
OneRunning == \A t \in Tids :
    sched.threads[t].state = "Running" => t = sched.current_thread

(* A Ready thread that is neither current nor queued was put there by       *)
(* yield_cpu, which marks the thread Ready before schedule looks whether it *)
(* is Running, or by a full ring, which drops what it is given: no other    *)
(* mix of calls loses a thread.                                             *)
OnlyYieldOrFullRingLoses == Stranded(sched) \subseteq blamed

(* Every thread is where its state says, whatever calls are mixed: the      *)
(* Running one is the current one, and a Ready one waits in a ring, unless  *)
(* it yielded or met a full ring (Scheduler::schedule and its callers).     *)
ThreadsInPlace == OneRunning /\ OnlyYieldOrFullRingLoses

Fifo == INSTANCE PriorityFifo WITH
    Ids <- Tids, Capacity <- MAX_PER_PRIORITY,
    lines <- [p \in Priorities |-> RingContents(sched.run_queue.rings[p])]

(* The rings behave as one bounded first-in first-out line per priority,    *)
(* through removals in the middle and the wrap of head and tail.            *)
RunQueueIsFifo == Fifo!Spec
=============================================================================
