---------------------------- MODULE ProcessTable ----------------------------
(***************************************************************************)
(* The global process table of process/table.rs: a fixed array of slots    *)
(* indexed by PID, the PID the kernel regards as current, and the PID      *)
(* allocator.  Every operation below runs under the PROCESS_TABLE lock, so *)
(* it is one step.  A Process is abstracted to its scheduling state and    *)
(* its parent; its registers, stacks, page table and name are left out.    *)
(*                                                                         *)
(* Operators named Op_Suffix are deliberately wrong variants of Op; each   *)
(* makes a property fail and is used by no specification.                  *)
(***************************************************************************)
EXTENDS Integers

CONSTANT MAX_PROCESSES          \* number of slots (256 in the kernel)

ASSUME MaxProcessesAssumption == MAX_PROCESSES \in Nat /\ MAX_PROCESSES >= 2

VARIABLES
    pstate,         \* processes[pid].state, or "None" for an empty slot
    ppid,           \* processes[pid].ppid; 0 while the slot is empty
    table_current,  \* ProcessTable.current
    next_pid,       \* ProcessTable.next_pid
    ever            \* history: the PIDs that have ever named a process

tableVars == <<pstate, ppid, table_current, next_pid, ever>>

PIDs == 0 .. MAX_PROCESSES - 1

NONE == -1          \* Option::None for a PID

ProcessState == {"Ready", "Running", "Blocked", "Zombie", "Dead"}

Occupied(pid) == pstate[pid] # "None"

is_runnable(s) == s \in {"Ready", "Running"}

is_alive(s) == s \in {"Ready", "Running", "Blocked"}

Runnable(pid) == is_runnable(pstate[pid])

TableInit ==
    /\ pstate = [pid \in PIDs |-> "None"]
    /\ ppid = [pid \in PIDs |-> 0]
    /\ table_current = NONE
    /\ next_pid = 1
    /\ ever = {}

-----------------------------------------------------------------------------
(* alloc_pid: the free slots it can still reach.  It only moves forward, so *)
(* slots below next_pid are never looked at again.                          *)

FreePids_FromStart == {pid \in 1 .. MAX_PROCESSES - 1 : ~Occupied(pid)}

FreePids == {pid \in next_pid .. MAX_PROCESSES - 1 : ~Occupied(pid)}

AllocPid == CHOOSE pid \in FreePids : \A other \in FreePids : pid <= other

alloc_pid_none_Increments == FreePids = {} /\ next_pid' = next_pid + 1

(* alloc_pid returned None: the scan ran off the end of the table. *)
alloc_pid_none ==
    /\ FreePids = {}
    /\ next_pid' = MAX_PROCESSES

(* alloc_pid, Process::new and insert, which every caller does under one    *)
(* lock; insert's two panics are the negations of pid \in PIDs and of the   *)
(* slot being empty.                                                        *)
InsertNew(pid, parent) ==
    /\ pstate' = [pstate EXCEPT ![pid] = "Ready"]
    /\ ppid' = [ppid EXCEPT ![pid] = parent]
    /\ ever' = ever \cup {pid}

alloc_and_insert(parent) ==
    /\ FreePids # {}
    /\ next_pid' = AllocPid + 1
    /\ InsertNew(AllocPid, parent)

-----------------------------------------------------------------------------
(* find_next_runnable: cyclic scan from the slot after `from`, which itself *)
(* comes last.  Distance is the number of slots the scan passes first.      *)

ScanStart_AtCurrent(from) == IF from = NONE THEN 0 ELSE from

ScanStart(from) == IF from = NONE THEN 0 ELSE (from + 1) % MAX_PROCESSES

Distance(start, pid) ==
    IF pid >= start THEN pid - start ELSE pid + MAX_PROCESSES - start

RunnablePids == {pid \in PIDs : Runnable(pid)}

find_next_runnable(from) ==
    IF RunnablePids = {}
    THEN NONE
    ELSE CHOOSE pid \in RunnablePids :
            \A other \in RunnablePids :
                Distance(ScanStart(from), pid) <= Distance(ScanStart(from), other)

remove_KeepsCurrent(pid) ==
    /\ pstate' = [pstate EXCEPT ![pid] = "None"]
    /\ ppid' = [ppid EXCEPT ![pid] = 0]
    /\ UNCHANGED <<table_current, next_pid, ever>>

(* remove: reap a process.  PID 1 is init, which has no parent to reap it.  *)
remove(pid) ==
    /\ table_current' = IF table_current = pid THEN NONE ELSE table_current
    /\ pstate' = [pstate EXCEPT ![pid] = "None"]
    /\ ppid' = [ppid EXCEPT ![pid] = 0]
    /\ UNCHANGED <<next_pid, ever>>

(* The state changes a caller's closure makes through with_process_mut or   *)
(* with_current_process_mut, one for each documented meaning of a state:    *)
(* block, wake, exit, resources freed.                                      *)
StateChange(from, to) ==
    \/ is_runnable(from) /\ to = "Blocked"
    \/ from = "Blocked" /\ to = "Ready"
    \/ is_alive(from) /\ to = "Zombie"
    \/ from = "Zombie" /\ to = "Dead"

with_process_mut(pid, to) ==
    /\ StateChange(pstate[pid], to)
    /\ pstate' = [pstate EXCEPT ![pid] = to]
    /\ UNCHANGED <<ppid, table_current, next_pid, ever>>

-----------------------------------------------------------------------------
TableTypeOK ==
    /\ pstate \in [PIDs -> ProcessState \cup {"None"}]
    /\ ppid \in [PIDs -> PIDs]
    /\ table_current \in PIDs \cup {NONE}
    /\ next_pid \in 1 .. MAX_PROCESSES
    /\ ever \subseteq PIDs

=============================================================================
