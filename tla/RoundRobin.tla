----------------------------- MODULE RoundRobin -----------------------------
(***************************************************************************)
(* The round-robin scheduler of sched/round_robin.rs over the process      *)
(* table.  The scheduler keeps its own idea of the current process,        *)
(* sched_current, besides the table's table_current, and on_cpu is the     *)
(* process whose registers the last low-level switch loaded.  schedule and *)
(* its callers hold SCHEDULER and PROCESS_TABLE together, so each is one    *)
(* step; timer_tick releases SCHEDULER between its test of the preemption   *)
(* flag and the switch, and is two.                                         *)
(***************************************************************************)
EXTENDS ProcessTable

VARIABLES
    sched_current,        \* RoundRobinScheduler.current
    preemption_enabled,   \* RoundRobinScheduler.preemption_enabled
    on_cpu                \* process whose context the CPU is executing

schedVars == <<sched_current, preemption_enabled, on_cpu>>

SchedInit ==
    /\ sched_current = NONE
    /\ preemption_enabled = TRUE
    /\ on_cpu = NONE

-----------------------------------------------------------------------------
Demoted_Never == pstate

(* schedule, step 1: the scheduler's current process, if it is in the table *)
(* and Running, goes back to Ready.                                         *)
Demoted ==
    IF sched_current # NONE /\ pstate[sched_current] = "Running"
    THEN [pstate EXCEPT ![sched_current] = "Ready"]
    ELSE pstate

(* Demoting keeps a process runnable, so the scan may use the old states.   *)
schedule_next == find_next_runnable(sched_current)

schedule ==
    LET next == schedule_next IN
    /\ IF next = NONE
       THEN /\ pstate' = Demoted
            /\ UNCHANGED <<sched_current, table_current>>
       ELSE /\ pstate' = [Demoted EXCEPT ![next] = "Running"]
            /\ sched_current' = next
            /\ table_current' = next
    /\ UNCHANGED <<ppid, next_pid, ever>>

(* context_switch compares the PID schedule returned with self.current      *)
(* after schedule has overwritten it: schedule leaves sched_current' equal  *)
(* to the PID it returns, and only a difference would load other registers. *)
context_switch ==
    /\ schedule
    /\ LET next == schedule_next IN
       on_cpu' = IF next # NONE /\ sched_current' # NONE /\ sched_current' # next
                 THEN next
                 ELSE on_cpu
    /\ UNCHANGED preemption_enabled

(* yield_cpu: an error without a current process; nothing to do when the    *)
(* scan comes back to the caller or finds nobody.                           *)
yield_cpu ==
    /\ sched_current # NONE
    /\ find_next_runnable(sched_current) \notin {NONE, sched_current}
    /\ context_switch

(* remove_process "clears" current by setting it to PID 0.                  *)
remove_process(pid) ==
    /\ sched_current = pid
    /\ sched_current' = 0
    /\ UNCHANGED <<preemption_enabled, on_cpu, tableVars>>

set_preemption_enabled(enabled) ==
    /\ preemption_enabled' = enabled
    /\ UNCHANGED <<sched_current, on_cpu, tableVars>>

(* switch_to_pid of process/switch.rs: works on the table alone; whatever   *)
(* the current process's state was, it becomes Ready.                       *)
switch_to_pid(next) ==
    /\ table_current \notin {NONE, next}
    /\ Occupied(next) /\ Runnable(next)
    /\ Occupied(table_current)
    /\ pstate' = [pstate EXCEPT ![table_current] = "Ready", ![next] = "Running"]
    /\ table_current' = next
    /\ on_cpu' = next
    /\ UNCHANGED <<ppid, next_pid, ever, sched_current, preemption_enabled>>

-----------------------------------------------------------------------------
SchedTypeOK ==
    /\ sched_current \in PIDs \cup {NONE}
    /\ preemption_enabled \in BOOLEAN
    /\ on_cpu \in PIDs \cup {NONE}

=============================================================================
