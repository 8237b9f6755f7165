---------------------------- MODULE ProcessKernel ----------------------------
(***************************************************************************)
(* The process side of the kernel: main.rs brings up init, system calls    *)
(* create processes, and the scheduler picks who runs.  A context is one    *)
(* thread of kernel control making system calls; contexts and the timer    *)
(* handler interleave wherever a call releases PROCESS_TABLE or SCHEDULER   *)
(* between two steps.                                                       *)
(***************************************************************************)
EXTENDS RoundRobin

CONSTANT Contexts

VARIABLES
    pc,       \* where each context is in the call it is making
    parent,   \* the parent PID a context read and will use later
    tick      \* where the timer handler is: "off", or past its "test"

kernelVars == <<pc, parent, tick>>

vars == <<tableVars, schedVars, kernelVars>>

INIT_PID == 1

Booted == INIT_PID \in ever

Goto(c, from, to) ==
    /\ pc[c] = from
    /\ pc' = [pc EXCEPT ![c] = to]

Init ==
    /\ TableInit
    /\ SchedInit
    /\ pc = [c \in Contexts |-> "idle"]
    /\ parent = [c \in Contexts |-> 0]
    /\ tick = "off"

-----------------------------------------------------------------------------
(* main.rs: insert init as PID 1 without asking alloc_pid, make it the      *)
(* table's current process, and jump to it.                                 *)
boot ==
    /\ ~Booted
    /\ InsertNew(INIT_PID, 0)
    /\ table_current' = INIT_PID
    /\ on_cpu' = INIT_PID
    /\ UNCHANGED <<next_pid, sched_current, preemption_enabled, kernelVars>>

(* sys_process_create and sys_spawn read the parent PID under the lock and  *)
(* release it; the ELF image and the kernel stack are made in between.      *)
read_parent(c, call) ==
    /\ Booted
    /\ Goto(c, "idle", call)
    /\ parent' = [parent EXCEPT ![c] = IF table_current = NONE THEN 0 ELSE table_current]
    /\ UNCHANGED <<tableVars, schedVars, tick>>

sys_process_create_begin(c) == read_parent(c, "process_create")

sys_spawn_begin(c) == read_parent(c, "spawn")

(* The image does not load, or a kernel stack page is missing.              *)
create_fails(c) ==
    /\ pc[c] \in {"process_create", "spawn"}
    /\ pc' = [pc EXCEPT ![c] = "idle"]
    /\ parent' = [parent EXCEPT ![c] = 0]
    /\ UNCHANGED <<tableVars, schedVars, tick>>

(* alloc_pid returns None: ERR_NO_MEMORY.                                   *)
create_no_pid(c) ==
    /\ pc[c] \in {"process_create", "spawn"}
    /\ alloc_pid_none
    /\ pc' = [pc EXCEPT ![c] = "no_pid"]
    /\ UNCHANGED <<pstate, ppid, table_current, ever, schedVars, parent, tick>>

return_no_pid(c) ==
    /\ Goto(c, "no_pid", "idle")
    /\ parent' = [parent EXCEPT ![c] = 0]
    /\ UNCHANGED <<tableVars, schedVars, tick>>

(* sys_process_create also makes the new process the table's current one.   *)
sys_process_create_end(c) ==
    /\ Goto(c, "process_create", "idle")
    /\ alloc_and_insert(parent[c])
    /\ table_current' = AllocPid
    /\ parent' = [parent EXCEPT ![c] = 0]
    /\ UNCHANGED <<schedVars, tick>>

sys_spawn_end(c) ==
    /\ Goto(c, "spawn", "idle")
    /\ alloc_and_insert(parent[c])
    /\ parent' = [parent EXCEPT ![c] = 0]
    /\ UNCHANGED <<table_current, schedVars, tick>>

(* sys_process_exit halts the calling context for ever; the process keeps   *)
(* its slot and its state.                                                  *)
sys_process_exit(c) ==
    /\ Booted
    /\ Goto(c, "idle", "halted")
    /\ UNCHANGED <<tableVars, schedVars, parent, tick>>

(* sys_yield, and the wait for a key in sys_read.                           *)
sys_yield(c) ==
    /\ Booted /\ pc[c] = "idle"
    /\ yield_cpu
    /\ UNCHANGED kernelVars

(* timer_tick: test the flag, release SCHEDULER, lock both and switch.      *)
timer_tick_test ==
    /\ Booted /\ tick = "off"
    /\ preemption_enabled
    /\ tick' = "test"
    /\ UNCHANGED <<tableVars, schedVars, pc, parent>>

timer_tick_switch ==
    /\ tick = "test"
    /\ tick' = "off"
    /\ context_switch
    /\ UNCHANGED <<pc, parent>>

-----------------------------------------------------------------------------
(* Operations of the table and the scheduler that any kernel code may call. *)
(* remove_process is "called when a process exits".                         *)
reap(pid) ==
    /\ pid # INIT_PID
    /\ pstate[pid] \in {"Zombie", "Dead"}
    /\ remove(pid)
    /\ UNCHANGED <<schedVars, kernelVars>>

change_state(pid, to) ==
    /\ with_process_mut(pid, to)
    /\ UNCHANGED <<schedVars, kernelVars>>

unschedule(pid) ==
    /\ ~is_alive(pstate[pid])
    /\ remove_process(pid)
    /\ UNCHANGED kernelVars

set_preemption(enabled) ==
    /\ enabled # preemption_enabled
    /\ set_preemption_enabled(enabled)
    /\ UNCHANGED kernelVars

switch(pid) ==
    /\ switch_to_pid(pid)
    /\ UNCHANGED kernelVars

timer_tick == timer_tick_test \/ timer_tick_switch

ContextStep(c) ==
    \/ sys_process_create_begin(c) \/ sys_spawn_begin(c)
    \/ create_fails(c) \/ create_no_pid(c) \/ return_no_pid(c)
    \/ sys_process_create_end(c) \/ sys_spawn_end(c)
    \/ sys_process_exit(c)
    \/ sys_yield(c)

(* The kernel whose processes only ever change through the scheduler.       *)
NextRR ==
    \/ boot
    \/ timer_tick
    \/ \E c \in Contexts : ContextStep(c)
    \/ \E pid \in PIDs : reap(pid) \/ unschedule(pid)
    \/ \E pid \in PIDs, to \in ProcessState : change_state(pid, to)
    \/ \E enabled \in BOOLEAN : set_preemption(enabled)

(* The same kernel when direct switches are used as well.                   *)
Next == NextRR \/ \E pid \in PIDs : switch(pid)

SpecRR == Init /\ [][NextRR]_vars

Spec == Init /\ [][Next]_vars

(* The timer interrupt keeps firing and its handler runs to the end.        *)
FairSpecRR == SpecRR /\ WF_vars(boot) /\ WF_vars(timer_tick)

-----------------------------------------------------------------------------
KernelTypeOK ==
    /\ pc \in [Contexts -> {"idle", "process_create", "spawn", "no_pid", "halted"}]
    /\ parent \in [Contexts -> PIDs]
    /\ tick \in {"off", "test"}

(* The types of the table, the scheduler and the calls in progress: in      *)
(* particular every PID handed out or saved by a call is a slot.            *)
TypeOK == TableTypeOK /\ SchedTypeOK /\ KernelTypeOK

(* The table's current process is a process of the table: reaping a process *)
(* that is current, or making a new one current, leaves no dangling PID for *)
(* the file-descriptor calls, which all go through current_mut().           *)
CurrentExists == table_current # NONE => Occupied(table_current)

(* Every process but init was created after its parent, so following ppid   *)
(* never cycles: the parent PID a call read before it released the lock is  *)
(* still smaller than the PID it is given afterwards.                       *)
ParentIsOlder ==
    \A pid \in PIDs : Occupied(pid) => ppid[pid] < pid

(* A PID names at most one process in the life of the kernel: no sequence   *)
(* of creations and reapings hands out a PID that a stale sched_current,    *)
(* ppid or saved PID may still refer to.                                    *)
PidNeverReused ==
    [][\A pid \in PIDs : (~Occupied(pid) /\ Occupied(pid)') => pid \notin ever]_vars

(* The strengthening that makes CurrentExists, ParentIsOlder and            *)
(* PidNeverReused inductive: which PIDs have been used, and that no PID     *)
(* still to be handed out is among them.                                    *)
PidInv ==
    /\ \A pid \in PIDs : Occupied(pid) => pid \in ever /\ ppid[pid] < pid
    /\ \A pid \in ever : pid >= 1 /\ (pid < next_pid \/ pid = INIT_PID)
    /\ next_pid > 1 => Booted
    /\ Booted => Occupied(INIT_PID)
    /\ table_current # NONE => Occupied(table_current)
    /\ \A c \in Contexts : parent[c] \in ever \cup {0}
    /\ \A c \in Contexts : pc[c] # "idle" => Booted

(* schedule never leaves two processes Running: only the process the        *)
(* scheduler regards as current is, whatever system calls, exits and        *)
(* reapings happen between two ticks.                                       *)
OnlyScheduledRuns ==
    \A pid \in PIDs : pstate[pid] = "Running" => pid = sched_current

(* Round robin starves nobody: a process that stays runnable while the      *)
(* timer may preempt is scheduled again and again.                          *)
NoStarvation ==
    \A pid \in PIDs :
        <>[](Runnable(pid) /\ preemption_enabled) => []<>(sched_current = pid)

-----------------------------------------------------------------------------
(* What the code's own comments say of it and the model refutes.            *)

(* round_robin.rs on context_switch: "If the next process is different from *)
(* current, performs context switch".  The process the scheduler picked is  *)
(* then the one whose registers the CPU holds.                              *)
ScheduledIsOnCpu ==
    (sched_current # NONE /\ pstate[sched_current] = "Running")
        => on_cpu = sched_current

=============================================================================
