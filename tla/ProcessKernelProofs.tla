------------------------- MODULE ProcessKernelProofs -------------------------
(***************************************************************************)
(* Proofs about ProcessKernel, for a table of any size and any set of      *)
(* contexts.                                                               *)
(***************************************************************************)
EXTENDS ProcessKernel, ProcessTableProofs

(* A scheduling decision keeps the state well typed.                        *)
LEMMA ContextSwitchType ==
    ASSUME TableTypeOK, SchedTypeOK, context_switch
    PROVE  TableTypeOK' /\ SchedTypeOK'
<1>1. schedule_next \in PIDs \cup {NONE}
  BY FindNextRunnable DEF schedule_next, SchedTypeOK, RunnablePids
<1>2. Demoted \in [PIDs -> ProcessState \cup {"None"}]
  BY DEF Demoted, TableTypeOK, SchedTypeOK, ProcessState
<1>3. pstate' \in [PIDs -> ProcessState \cup {"None"}]
  BY <1>1, <1>2 DEF context_switch, schedule, ProcessState
<1>4. TableTypeOK'
  BY <1>1, <1>3 DEF context_switch, schedule, TableTypeOK
<1>5. sched_current' \in PIDs \cup {NONE} /\ on_cpu' \in PIDs \cup {NONE}
  BY <1>1 DEF context_switch, schedule, SchedTypeOK
<1>6. preemption_enabled' \in BOOLEAN
  BY DEF context_switch, SchedTypeOK
<1>7. QED
  BY <1>4, <1>5, <1>6 DEF SchedTypeOK

(* The table's types survive a step that leaves the table alone.            *)
LEMMA UnchangedTable == TableTypeOK /\ UNCHANGED tableVars => TableTypeOK'
  BY DEF TableTypeOK, tableVars

(* The scheduler's types survive a step that leaves the scheduler alone.    *)
LEMMA UnchangedSched == SchedTypeOK /\ UNCHANGED schedVars => SchedTypeOK'
  BY DEF SchedTypeOK, schedVars

(* The contexts' types survive a step that moves no context and no tick.    *)
LEMMA UnchangedKernel == KernelTypeOK /\ UNCHANGED kernelVars => KernelTypeOK'
  BY DEF KernelTypeOK, kernelVars

(* A step of a context keeps the state well typed.                          *)
LEMMA ContextStepType ==
    ASSUME TypeOK, NEW c \in Contexts, ContextStep(c)
    PROVE  TypeOK'
<1> USE MaxProcessesAssumption DEF TypeOK
<1>1. CASE sys_process_create_begin(c) \/ sys_spawn_begin(c)
  <2>1. PICK call \in {"process_create", "spawn"} : read_parent(c, call)
    BY <1>1 DEF sys_process_create_begin, sys_spawn_begin
  <2>2. KernelTypeOK'
    BY <2>1 DEF read_parent, Goto, KernelTypeOK, TableTypeOK, PIDs, NONE
  <2>3. QED
    BY <2>1, <2>2, UnchangedTable, UnchangedSched DEF read_parent
<1>2. CASE create_fails(c) \/ return_no_pid(c)
  <2>1. KernelTypeOK'
    BY <1>2 DEF create_fails, return_no_pid, Goto, KernelTypeOK, PIDs
  <2>2. QED
    BY <1>2, <2>1, UnchangedTable, UnchangedSched DEF create_fails, return_no_pid
<1>3. CASE create_no_pid(c)
  <2>1. TableTypeOK'
    BY <1>3 DEF create_no_pid, alloc_pid_none, TableTypeOK
  <2>2. KernelTypeOK'
    BY <1>3 DEF create_no_pid, KernelTypeOK
  <2>3. QED
    BY <1>3, <2>1, <2>2, UnchangedSched DEF create_no_pid
<1>4. CASE sys_process_create_end(c) \/ sys_spawn_end(c)
  <2>1. AllocPid \in PIDs /\ AllocPid >= next_pid
    BY <1>4, AllocPidIsFree DEF sys_process_create_end, sys_spawn_end, alloc_and_insert
  <2>2. AllocPid + 1 \in 1 .. MAX_PROCESSES
    BY <2>1 DEF PIDs
  <2>3. parent[c] \in PIDs /\ table_current' \in PIDs \cup {NONE}
    BY <1>4, <2>1 DEF KernelTypeOK, TableTypeOK, sys_process_create_end, sys_spawn_end
  <2>4. TableTypeOK'
    BY <1>4, <2>1, <2>2, <2>3 DEF sys_process_create_end, sys_spawn_end, alloc_and_insert,
         InsertNew, TableTypeOK, ProcessState
  <2>5. KernelTypeOK'
    BY <1>4 DEF sys_process_create_end, sys_spawn_end, Goto, KernelTypeOK, PIDs
  <2>6. QED
    BY <1>4, <2>4, <2>5, UnchangedSched DEF sys_process_create_end, sys_spawn_end
<1>5. CASE sys_process_exit(c)
  <2>1. KernelTypeOK'
    BY <1>5 DEF sys_process_exit, Goto, KernelTypeOK
  <2>2. QED
    BY <1>5, <2>1, UnchangedTable, UnchangedSched DEF sys_process_exit
<1>6. CASE sys_yield(c)
  BY <1>6, ContextSwitchType, UnchangedKernel DEF sys_yield, yield_cpu
<1>7. QED
  BY <1>1, <1>2, <1>3, <1>4, <1>5, <1>6 DEF ContextStep

(* Every step of the kernel keeps the state well typed.                     *)
LEMMA TypeInvariant == TypeOK /\ [Next]_vars => TypeOK'
<1> SUFFICES ASSUME TypeOK, [Next]_vars
             PROVE  TypeOK'
  OBVIOUS
<1> USE MaxProcessesAssumption DEF TypeOK
<1>1. CASE boot
  <2>1. TableTypeOK'
    BY <1>1 DEF boot, TableTypeOK, InsertNew, INIT_PID, PIDs, ProcessState
  <2>2. SchedTypeOK'
    BY <1>1 DEF boot, SchedTypeOK, INIT_PID, PIDs
  <2>3. QED
    BY <1>1, <2>1, <2>2, UnchangedKernel DEF boot
<1>2. CASE timer_tick
  <2>1. CASE timer_tick_test
    <3>1. KernelTypeOK'
      BY <2>1 DEF timer_tick_test, KernelTypeOK
    <3>2. QED
      BY <2>1, <3>1, UnchangedTable, UnchangedSched DEF timer_tick_test
  <2>2. CASE timer_tick_switch
    <3>1. KernelTypeOK'
      BY <2>2 DEF timer_tick_switch, KernelTypeOK
    <3>2. QED
      BY <2>2, <3>1, ContextSwitchType DEF timer_tick_switch
  <2>3. QED
    BY <1>2, <2>1, <2>2 DEF timer_tick
<1>3. ASSUME NEW pid \in PIDs, reap(pid)
      PROVE  TypeOK'
  <2>1. TableTypeOK'
    BY <1>3 DEF reap, remove, TableTypeOK, PIDs
  <2>2. QED
    BY <1>3, <2>1, UnchangedSched, UnchangedKernel DEF reap
<1>4. ASSUME NEW pid \in PIDs, unschedule(pid)
      PROVE  TypeOK'
  <2>1. SchedTypeOK'
    BY <1>4 DEF unschedule, remove_process, SchedTypeOK, PIDs
  <2>2. QED
    BY <1>4, <2>1, UnchangedTable, UnchangedKernel DEF unschedule, remove_process
<1>5. ASSUME NEW pid \in PIDs, NEW to \in ProcessState, change_state(pid, to)
      PROVE  TypeOK'
  <2>1. TableTypeOK'
    BY <1>5 DEF change_state, with_process_mut, TableTypeOK
  <2>2. QED
    BY <1>5, <2>1, UnchangedSched, UnchangedKernel DEF change_state
<1>6. ASSUME NEW enabled \in BOOLEAN, set_preemption(enabled)
      PROVE  TypeOK'
  <2>1. SchedTypeOK'
    BY <1>6 DEF set_preemption, set_preemption_enabled, SchedTypeOK
  <2>2. QED
    BY <1>6, <2>1, UnchangedTable, UnchangedKernel DEF set_preemption, set_preemption_enabled
<1>7. ASSUME NEW pid \in PIDs, switch(pid)
      PROVE  TypeOK'
  <2>1. TableTypeOK'
    BY <1>7 DEF switch, switch_to_pid, TableTypeOK, ProcessState
  <2>2. SchedTypeOK'
    BY <1>7 DEF switch, switch_to_pid, SchedTypeOK
  <2>3. QED
    BY <1>7, <2>1, <2>2, UnchangedKernel DEF switch
<1>8. CASE UNCHANGED vars
  BY <1>8, UnchangedTable, UnchangedSched, UnchangedKernel DEF vars
<1>9. QED
  BY <1>1, <1>2, <1>3, <1>4, <1>5, <1>6, <1>7, <1>8, ContextStepType DEF Next, NextRR

(* Every behaviour of the kernel is well typed.                             *)
THEOREM TypeCorrect == Spec => []TypeOK
<1>1. Init => TypeOK
  BY MaxProcessesAssumption DEF Init, TableInit, SchedInit, TypeOK, TableTypeOK, SchedTypeOK,
     KernelTypeOK, PIDs, NONE
<1>2. QED
  BY <1>1, TypeInvariant, PTL DEF Spec

-----------------------------------------------------------------------------
(* A scheduling decision fills and empties no slot, and the process it      *)
(* makes current is in the table.                                           *)
LEMMA ContextSwitchKeepsSlots ==
    ASSUME TableTypeOK, SchedTypeOK, context_switch
    PROVE  /\ \A pid \in PIDs : Occupied(pid)' <=> Occupied(pid)
           /\ \/ table_current' = table_current
              \/ table_current' \in PIDs /\ Occupied(table_current')
           /\ UNCHANGED <<ppid, next_pid, ever>>
<1>1. schedule_next # NONE => schedule_next \in PIDs /\ Runnable(schedule_next)
  BY FindNextRunnable DEF schedule_next, SchedTypeOK, RunnablePids
<1>2. /\ Demoted \in [PIDs -> ProcessState \cup {"None"}]
      /\ \A pid \in PIDs : Demoted[pid] # "None" <=> Occupied(pid)
  BY DEF Demoted, TableTypeOK, SchedTypeOK, Occupied, ProcessState
<1>3. \A pid \in PIDs : Runnable(pid) => Occupied(pid)
  BY DEF Runnable, is_runnable, Occupied
<1>4. \A pid \in PIDs : Occupied(pid)' <=> Occupied(pid)
  BY <1>1, <1>2, <1>3 DEF context_switch, schedule, Occupied
<1>5. \/ table_current' = table_current
      \/ table_current' \in PIDs /\ Occupied(table_current')
  <2>1. CASE schedule_next = NONE
    BY <2>1 DEF context_switch, schedule
  <2>2. CASE schedule_next # NONE
    BY <2>2, <1>1, <1>3 DEF context_switch, schedule
  <2>3. QED
    BY <2>1, <2>2
<1>6. QED
  BY <1>4, <1>5 DEF context_switch, schedule

(* A step of a context preserves the PID discipline: the only delicate case *)
(* is the end of a creation, where the parent read earlier and the new PID  *)
(* meet.                                                                    *)
LEMMA ContextStepPidInv ==
    ASSUME TypeOK, PidInv, NEW c \in Contexts, ContextStep(c)
    PROVE  PidInv'
<1> USE MaxProcessesAssumption DEF TypeOK
<1>1. CASE sys_process_create_begin(c) \/ sys_spawn_begin(c)
  <2>1. PICK call \in {"process_create", "spawn"} : read_parent(c, call)
    BY <1>1 DEF sys_process_create_begin, sys_spawn_begin
  <2>2. \A d \in Contexts : parent'[d] \in ever \cup {0}
    BY <2>1 DEF read_parent, KernelTypeOK, TableTypeOK, PidInv
  <2>3. QED
    BY <2>1, <2>2 DEF read_parent, Goto, tableVars, KernelTypeOK, PidInv, Occupied, Booted
<1>2. CASE create_fails(c) \/ return_no_pid(c)
  BY <1>2 DEF create_fails, return_no_pid, Goto, tableVars, KernelTypeOK, PidInv, Occupied,
              Booted
<1>3. CASE create_no_pid(c)
  <2>1. Booted /\ \A pid \in ever : pid < next_pid'
    BY <1>3 DEF create_no_pid, alloc_pid_none, TableTypeOK, PidInv, PIDs
  <2>2. \A d \in Contexts : pc'[d] # "idle" => Booted
    BY <2>1
  <2>3. QED
    BY <1>3, <2>1, <2>2 DEF create_no_pid, PidInv, Occupied, Booted
<1>4. CASE sys_process_create_end(c) \/ sys_spawn_end(c)
  <2>1. /\ AllocPid \in PIDs
        /\ AllocPid >= next_pid
        /\ ~Occupied(AllocPid)
        /\ next_pid' = AllocPid + 1
        /\ InsertNew(AllocPid, parent[c])
    BY <1>4, AllocPidIsFree DEF sys_process_create_end, sys_spawn_end, alloc_and_insert
  <2>2. Booted
    BY <1>4 DEF PidInv, sys_process_create_end, sys_spawn_end, Goto
  <2>3. AllocPid >= 2
    BY <2>1, <2>2 DEF PidInv, TableTypeOK, PIDs, INIT_PID
  <2>4. parent[c] < AllocPid
    <3>1. parent[c] = 0 \/ parent[c] = INIT_PID \/ parent[c] < next_pid
      BY DEF PidInv
    <3>2. /\ AllocPid \in Int /\ next_pid \in Int /\ parent[c] \in Int
          /\ AllocPid >= next_pid /\ AllocPid >= 2
      BY <2>1, <2>3 DEF TypeOK, TableTypeOK, KernelTypeOK, PIDs
    <3>3. QED
      BY <3>1, <3>2 DEF INIT_PID
  <2>5. /\ \A pid \in PIDs : Occupied(pid)' <=> Occupied(pid) \/ pid = AllocPid
        /\ \A pid \in PIDs : ppid'[pid] = IF pid = AllocPid THEN parent[c] ELSE ppid[pid]
        /\ ever' = ever \cup {AllocPid}
    BY <2>1 DEF InsertNew, TableTypeOK, Occupied
  <2>6. table_current' \in {table_current, AllocPid}
    BY <1>4 DEF sys_process_create_end, sys_spawn_end
  <2>7. /\ \A d \in Contexts : parent'[d] \in {parent[d], 0}
        /\ \A d \in Contexts : pc'[d] # "idle" => pc[d] # "idle"
    BY <1>4 DEF sys_process_create_end, sys_spawn_end, Goto, KernelTypeOK
  <2>8. \A pid \in PIDs : Occupied(pid)' => pid \in ever' /\ ppid'[pid] < pid
    BY <2>4, <2>5 DEF PidInv
  <2>9. \A pid \in ever' : pid >= 1 /\ (pid < next_pid' \/ pid = INIT_PID)
    BY SMTT(40), <2>1, <2>3, <2>5 DEF PidInv, TableTypeOK, PIDs
  <2>10. table_current' # NONE => Occupied(table_current)'
    <3>1. CASE table_current' = AllocPid
      BY <3>1, <2>1 DEF Occupied, InsertNew, TableTypeOK
    <3>2. CASE table_current' = table_current
      BY <3>2, <2>5 DEF PidInv, TableTypeOK, Occupied
    <3>3. QED
      BY <2>6, <3>1, <3>2
  <2>11. QED
    <3>1. Booted' /\ Occupied(INIT_PID)'
      BY <2>2, <2>5 DEF Booted, PidInv, INIT_PID, PIDs
    <3>2. \A d \in Contexts : parent'[d] \in ever' \cup {0}
      BY <2>5, <2>7 DEF PidInv
    <3>3. QED
      BY <2>8, <2>9, <2>10, <3>1, <3>2 DEF PidInv
<1>5. CASE sys_process_exit(c)
  BY <1>5 DEF sys_process_exit, Goto, tableVars, KernelTypeOK, PidInv, Occupied, Booted
<1>6. CASE sys_yield(c)
  BY ZenonT(40), <1>6, ContextSwitchKeepsSlots DEF sys_yield, yield_cpu, kernelVars, TableTypeOK, PidInv,
       Occupied, Booted, INIT_PID, PIDs
<1>7. QED
  BY <1>1, <1>2, <1>3, <1>4, <1>5, <1>6 DEF ContextStep

(* Every step of the kernel preserves the PID discipline.                   *)
LEMMA PidInvariant == TypeOK /\ PidInv /\ [Next]_vars => PidInv'
<1> SUFFICES ASSUME TypeOK, PidInv, [Next]_vars
             PROVE  PidInv'
  OBVIOUS
<1> USE MaxProcessesAssumption DEF TypeOK
<1>1. CASE boot
  <2>1. ~Booted /\ next_pid = 1 /\ ever = {}
    BY <1>1 DEF boot, PidInv, TableTypeOK, Booted, INIT_PID, PIDs
  <2>2. \A pid \in PIDs : Occupied(pid)' <=> pid = INIT_PID
    BY <1>1, <2>1 DEF boot, InsertNew, PidInv, Occupied, TableTypeOK
  <2>3. QED
    BY <1>1, <2>1, <2>2 DEF boot, InsertNew, PidInv, TableTypeOK, KernelTypeOK, kernelVars,
         Occupied, Booted, INIT_PID, PIDs
<1>2. CASE timer_tick
  <2>1. CASE timer_tick_test
    BY <2>1 DEF timer_tick_test, tableVars, PidInv, Occupied, Booted
  <2>2. CASE timer_tick_switch
    BY ZenonT(40), <2>2, ContextSwitchKeepsSlots DEF timer_tick_switch, TableTypeOK, PidInv, Occupied,
         Booted, INIT_PID, PIDs
  <2>3. QED
    BY <1>2, <2>1, <2>2 DEF timer_tick
<1>3. ASSUME NEW pid \in PIDs, reap(pid)
      PROVE  PidInv'
  <2>1. \A other \in PIDs : Occupied(other)' <=> Occupied(other) /\ other # pid
    BY <1>3 DEF reap, remove, TableTypeOK, Occupied
  <2>2. table_current' # NONE => Occupied(table_current)'
    BY <1>3, <2>1 DEF reap, remove, TableTypeOK, PidInv, NONE
  <2>3. \A other \in PIDs : other # pid => ppid'[other] = ppid[other]
    BY <1>3 DEF reap, remove, TableTypeOK
  <2>4. QED
    BY <1>3, <2>1, <2>2, <2>3 DEF reap, remove, kernelVars, PidInv, Booted, INIT_PID, PIDs
<1>4. ASSUME NEW pid \in PIDs, unschedule(pid)
      PROVE  PidInv'
  BY <1>4 DEF unschedule, remove_process, tableVars, kernelVars, PidInv, Occupied, Booted
<1>5. ASSUME NEW pid \in PIDs, NEW to \in ProcessState, change_state(pid, to)
      PROVE  PidInv'
  <2>1. \A other \in PIDs : Occupied(other)' <=> Occupied(other)
    BY <1>5 DEF change_state, with_process_mut, StateChange, is_alive, is_runnable,
         TableTypeOK, Occupied, ProcessState
  <2>2. QED
    BY <1>5, <2>1 DEF change_state, with_process_mut, kernelVars, TableTypeOK, PidInv, Booted,
         INIT_PID, PIDs
<1>6. ASSUME NEW enabled \in BOOLEAN, set_preemption(enabled)
      PROVE  PidInv'
  BY <1>6 DEF set_preemption, set_preemption_enabled, tableVars, kernelVars, PidInv, Occupied,
       Booted
<1>7. ASSUME NEW pid \in PIDs, switch(pid)
      PROVE  PidInv'
  <2>1. \A other \in PIDs : Occupied(other)' <=> Occupied(other)
    BY <1>7 DEF switch, switch_to_pid, TableTypeOK, Occupied
  <2>2. QED
    BY ZenonT(40), <1>7, <2>1 DEF switch, switch_to_pid, kernelVars, TableTypeOK, PidInv, Booted,
         INIT_PID, PIDs
<1>8. CASE UNCHANGED vars
  BY <1>8 DEF vars, tableVars, kernelVars, PidInv, Occupied, Booted
<1>9. QED
  BY <1>1, <1>2, <1>3, <1>4, <1>5, <1>6, <1>7, <1>8, ContextStepPidInv DEF Next, NextRR

(* The PID discipline holds in every state the kernel can reach.            *)
THEOREM PidDiscipline == Spec => []PidInv
<1>1. Init => PidInv
  BY DEF Init, TableInit, PidInv, Occupied, Booted, INIT_PID
<1>2. QED
  BY <1>1, PidInvariant, TypeCorrect, PTL DEF Spec

(* The table's current PID always names a process of the table.             *)
THEOREM CurrentAlwaysExists == Spec => []CurrentExists
<1>1. PidInv => CurrentExists
  BY DEF PidInv, CurrentExists
<1>2. QED
  BY <1>1, PidDiscipline, PTL

(* Every process is younger than its parent: the process tree has no cycle. *)
THEOREM ParentAlwaysOlder == Spec => []ParentIsOlder
<1>1. PidInv => ParentIsOlder
  BY DEF PidInv, ParentIsOlder
<1>2. QED
  BY <1>1, PidDiscipline, PTL

-----------------------------------------------------------------------------
(* A slot is filled only by boot and by the end of a creation, each time    *)
(* with a PID no process has had before.                                    *)
LEMMA FreshPids ==
    ASSUME TypeOK, PidInv, [Next]_vars, NEW pid \in PIDs, ~Occupied(pid), Occupied(pid)'
    PROVE  pid \notin ever
<1> USE MaxProcessesAssumption DEF TypeOK
<1>1. CASE boot
  BY <1>1 DEF boot, InsertNew, TableTypeOK, Occupied, Booted
<1>2. ASSUME NEW c \in Contexts, ContextStep(c)
      PROVE  pid \notin ever
  <2>1. CASE sys_process_create_end(c) \/ sys_spawn_end(c)
    <3>1. /\ AllocPid \in PIDs
          /\ AllocPid >= next_pid
          /\ InsertNew(AllocPid, parent[c])
      BY <2>1, AllocPidIsFree DEF sys_process_create_end, sys_spawn_end, alloc_and_insert
    <3>2. pid = AllocPid
      BY <3>1 DEF InsertNew, TableTypeOK, Occupied
    <3>3. Booted
      BY <2>1 DEF PidInv, sys_process_create_end, sys_spawn_end, Goto
    <3>4. pid # INIT_PID
      BY <3>3 DEF PidInv
    <3>5. QED
      BY SMTT(40), <3>1, <3>2, <3>4 DEF PidInv, TableTypeOK, PIDs
  <2>2. CASE sys_yield(c)
    BY <2>2, ContextSwitchKeepsSlots DEF sys_yield, yield_cpu
  <2>3. CASE UNCHANGED pstate
    BY <2>3 DEF Occupied
  <2>4. QED
    BY <1>2, <2>1, <2>2, <2>3 DEF ContextStep, sys_process_create_begin, sys_spawn_begin,
         read_parent, create_fails, create_no_pid, return_no_pid, sys_process_exit, tableVars
<1>3. CASE timer_tick
  BY <1>3, ContextSwitchKeepsSlots DEF timer_tick, timer_tick_test, timer_tick_switch,
       tableVars, Occupied
<1>4. CASE UNCHANGED pstate
  BY <1>4 DEF Occupied
<1>5. ASSUME NEW other \in PIDs, reap(other) \/ switch(other)
      PROVE  pid \notin ever
  BY <1>5 DEF reap, remove, switch, switch_to_pid, TableTypeOK, Occupied
<1>6. ASSUME NEW other \in PIDs, NEW to \in ProcessState, change_state(other, to)
      PROVE  pid \notin ever
  BY <1>6 DEF change_state, with_process_mut, StateChange, is_alive, is_runnable, TableTypeOK,
       Occupied
<1>7. QED
  BY <1>1, <1>2, <1>3, <1>4, <1>5, <1>6 DEF Next, NextRR, unschedule, remove_process,
       set_preemption, set_preemption_enabled, vars, tableVars

(* No PID ever names two processes.                                         *)
THEOREM PidsAreFresh == Spec => PidNeverReused
<1>1. TypeOK /\ PidInv /\ [Next]_vars
        => [\A pid \in PIDs : (~Occupied(pid) /\ Occupied(pid)') => pid \notin ever]_vars
  BY FreshPids
<1>2. QED
  BY <1>1, TypeCorrect, PidDiscipline, PTL DEF Spec, PidNeverReused

-----------------------------------------------------------------------------
(* schedule demotes the one Running process before it promotes another.     *)
LEMMA ContextSwitchRuns ==
    ASSUME TableTypeOK, SchedTypeOK, OnlyScheduledRuns, context_switch
    PROVE  OnlyScheduledRuns'
<1>1. \A pid \in PIDs : Demoted[pid] # "Running"
  BY MaxProcessesAssumption DEF Demoted, TableTypeOK, SchedTypeOK, OnlyScheduledRuns, PIDs,
       NONE
<1>2. Demoted \in [PIDs -> ProcessState \cup {"None"}]
  BY DEF Demoted, TableTypeOK, SchedTypeOK, ProcessState
<1>3. CASE schedule_next = NONE
  BY <1>1, <1>3 DEF context_switch, schedule, OnlyScheduledRuns
<1>4. CASE schedule_next # NONE
  BY <1>1, <1>2, <1>4 DEF context_switch, schedule, OnlyScheduledRuns
<1>5. QED
  BY <1>3, <1>4

(* When processes change only through the scheduler, at most one process is *)
(* Running, and it is the one the scheduler regards as current.             *)
THEOREM OnlyScheduledEverRuns == SpecRR => []OnlyScheduledRuns
<1>1. SpecRR => []TypeOK
  <2>1. Init /\ [][NextRR]_vars => Spec
    <3>1. [NextRR]_vars => [Next]_vars
      BY DEF Next
    <3>2. QED
      BY <3>1, PTL DEF Spec
  <2>2. QED
    BY <2>1, TypeCorrect DEF SpecRR
<1>2. Init => OnlyScheduledRuns
  BY DEF Init, TableInit, OnlyScheduledRuns
<1>3. TypeOK /\ OnlyScheduledRuns /\ [NextRR]_vars => OnlyScheduledRuns'
  <2> SUFFICES ASSUME TypeOK, OnlyScheduledRuns, [NextRR]_vars
               PROVE  OnlyScheduledRuns'
    OBVIOUS
  <2> USE DEF TypeOK
  <2>1. CASE boot
    BY <2>1 DEF boot, InsertNew, OnlyScheduledRuns, TableTypeOK
  <2>2. CASE timer_tick
    BY <2>2, ContextSwitchRuns DEF timer_tick, timer_tick_test, timer_tick_switch, tableVars,
         schedVars, OnlyScheduledRuns
  <2>3. ASSUME NEW c \in Contexts, ContextStep(c)
        PROVE  OnlyScheduledRuns'
    <3>1. CASE sys_process_create_end(c) \/ sys_spawn_end(c)
      <4>1. AllocPid \in PIDs
        BY <3>1, AllocPidIsFree DEF sys_process_create_end, sys_spawn_end, alloc_and_insert
      <4>2. QED
        BY <3>1, <4>1 DEF sys_process_create_end, sys_spawn_end, alloc_and_insert, InsertNew,
             schedVars, TableTypeOK, OnlyScheduledRuns
    <3>2. CASE sys_yield(c)
      BY <3>2, ContextSwitchRuns DEF sys_yield, yield_cpu
    <3>3. CASE UNCHANGED <<pstate, sched_current>>
      BY <3>3 DEF OnlyScheduledRuns
    <3>4. QED
      BY <2>3, <3>1, <3>2, <3>3 DEF ContextStep, sys_process_create_begin, sys_spawn_begin,
           read_parent, create_fails, create_no_pid, return_no_pid, sys_process_exit,
           tableVars, schedVars
  <2>4. ASSUME NEW pid \in PIDs, reap(pid)
        PROVE  OnlyScheduledRuns'
    BY <2>4 DEF reap, remove, schedVars, TableTypeOK, OnlyScheduledRuns
  <2>5. ASSUME NEW pid \in PIDs, unschedule(pid)
        PROVE  OnlyScheduledRuns'
    BY <2>5 DEF unschedule, remove_process, is_alive, tableVars, OnlyScheduledRuns
  <2>6. ASSUME NEW pid \in PIDs, NEW to \in ProcessState, change_state(pid, to)
        PROVE  OnlyScheduledRuns'
    BY <2>6 DEF change_state, with_process_mut, StateChange, schedVars, TableTypeOK,
         OnlyScheduledRuns
  <2>7. CASE UNCHANGED <<pstate, sched_current>>
    BY <2>7 DEF OnlyScheduledRuns
  <2>8. QED
    BY <2>1, <2>2, <2>3, <2>4, <2>5, <2>6, <2>7 DEF NextRR, set_preemption,
         set_preemption_enabled, vars, tableVars, schedVars
<1>4. QED
  BY <1>1, <1>2, <1>3, PTL DEF SpecRR

=============================================================================
