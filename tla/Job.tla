-------------------------------- MODULE Job --------------------------------
(***************************************************************************)
(* Jobs (object/job.rs): a tree of containers of processes.  The children,  *)
(* the processes and the statistics of a job each have their own lock.      *)
(* add_process lets go of the processes before it counts; remove_process    *)
(* keeps them while it does.  The policy and the limits of a job are stored *)
(* and compared with nothing, and are left out.                             *)
(***************************************************************************)
EXTENDS Integers, Sequences, SequencesExt, FiniteSets, FiniteSetsExt

CONSTANTS
    MaxJobs,        \* bound: job ids handed out, the root's included
    JobProcesses,   \* process ids
    JobCallers,     \* contexts that call the methods
    JobWrap,        \* 2^64, for process_count
    MaxMembers      \* bound: entries of all the lists together

VARIABLES
    jb_parent,     \* job -> its parent, 0 for the root; the jobs are the domain
    jb_children,   \* job -> children
    jb_processes,  \* job -> processes
    jb_count,      \* job -> stats.process_count
    jb_call,       \* caller -> the rest of its call: [job, due], due 0 when idle
    jb_gone        \* history: jobs remove_child was called with on their parent

jobVars == <<jb_parent, jb_children, jb_processes, jb_count, jb_call, jb_gone>>

JOB_ID_ROOT == 1

Jobs == DOMAIN jb_parent

JobInit ==
    /\ jb_parent = [j \in {JOB_ID_ROOT} |-> 0]
    /\ jb_children = [j \in {JOB_ID_ROOT} |-> << >>]
    /\ jb_processes = [j \in {JOB_ID_ROOT} |-> << >>]
    /\ jb_count = [j \in {JOB_ID_ROOT} |-> 0]
    /\ jb_call = [c \in JobCallers |-> [job |-> JOB_ID_ROOT, due |-> 0]]
    /\ jb_gone = {}

Free(c) == jb_call[c].due = 0

\* A remove_process under way on j holds the lock of its processes.
Unlocked(j) == \A c \in JobCallers : jb_call[c].job = j => jb_call[c].due # -1

With(f, j, v) == [k \in DOMAIN f \cup {j} |-> IF k = j THEN v ELSE f[k]]

\* The bound.
Room == MapThenSumSet(LAMBDA j : Len(jb_children[j]) + Len(jb_processes[j]), Jobs) < MaxMembers

\* The new job is listed in its parent before anybody else knows its id.
new_child(c, parent) ==
    LET id == Cardinality(Jobs) + 1
    IN  /\ Free(c) /\ id <= MaxJobs /\ Room
        /\ jb_parent' = With(jb_parent, id, parent)
        /\ jb_children' = With([jb_children EXCEPT ![parent] = Append(@, id)], id, << >>)
        /\ jb_processes' = With(jb_processes, id, << >>)
        /\ jb_count' = With(jb_count, id, 0)
        /\ UNCHANGED <<jb_call, jb_gone>>

\* The list without the first occurrence of x.
Without(list, x) ==
    LET at == {i \in 1 .. Len(list) : list[i] = x}
    IN  IF at = {} THEN list ELSE RemoveAt(list, Min(at))

add_child(c, j, child) ==
    /\ Free(c) /\ Room
    /\ jb_children' = [jb_children EXCEPT ![j] = Append(@, child)]
    /\ UNCHANGED <<jb_parent, jb_processes, jb_count, jb_call, jb_gone>>

remove_child(c, j, child) ==
    /\ Free(c)
    /\ jb_children' = [jb_children EXCEPT ![j] = Without(@, child)]
    /\ jb_gone' = jb_gone \cup ({child} \cap {k \in Jobs : jb_parent[k] = j})
    /\ UNCHANGED <<jb_parent, jb_processes, jb_count, jb_call>>

add_process(c, j, p) ==
    /\ Free(c) /\ Unlocked(j) /\ Room
    /\ jb_processes' = [jb_processes EXCEPT ![j] = Append(@, p)]
    /\ jb_call' = [jb_call EXCEPT ![c] = [job |-> j, due |-> 1]]
    /\ UNCHANGED <<jb_parent, jb_children, jb_count, jb_gone>>

remove_process_Always(c, j, p) ==
    /\ Free(c) /\ Unlocked(j)
    /\ jb_processes' = [jb_processes EXCEPT ![j] = Without(@, p)]
    /\ jb_call' = [jb_call EXCEPT ![c] = [job |-> j, due |-> -1]]
    /\ UNCHANGED <<jb_parent, jb_children, jb_count, jb_gone>>

remove_process(c, j, p) ==
    /\ Free(c) /\ Unlocked(j)
    /\ Contains(jb_processes[j], p)
    /\ jb_processes' = [jb_processes EXCEPT ![j] = Without(@, p)]
    /\ jb_call' = [jb_call EXCEPT ![c] = [job |-> j, due |-> -1]]
    /\ UNCHANGED <<jb_parent, jb_children, jb_count, jb_gone>>

\* The critical section on the statistics that ends both.
count_process(c) ==
    /\ ~Free(c)
    /\ jb_count' = [jb_count EXCEPT ![jb_call[c].job] = (@ + jb_call[c].due) % JobWrap]
    /\ jb_call' = [jb_call EXCEPT ![c].due = 0]
    /\ UNCHANGED <<jb_parent, jb_children, jb_processes, jb_gone>>

JobNext == \E c \in JobCallers :
    \/ \E j \in Jobs : new_child(c, j)
    \/ \E j, child \in Jobs : add_child(c, j, child) \/ remove_child(c, j, child)
    \/ \E j \in Jobs, p \in JobProcesses : add_process(c, j, p) \/ remove_process(c, j, p)
    \/ count_process(c)

JobSpec == JobInit /\ [][JobNext]_jobVars

-----------------------------------------------------------------------------
(* Every variable has its type, ids are handed out in order, and a parent   *)
(* is older than its child, so the tree has no cycle.                       *)
JobTypeOK ==
    /\ Jobs = 1 .. Cardinality(Jobs)
    /\ \A j \in Jobs : jb_parent[j] < j /\ (jb_parent[j] = 0 <=> j = JOB_ID_ROOT)
    /\ \A j \in Jobs : jb_count[j] \in 0 .. JobWrap - 1
    /\ \A c \in JobCallers : jb_call[c] \in [job : Jobs, due : -1 .. 1]

(* The number of processes in the statistics is the length of the list,     *)
(* less the additions and plus the removals whose callers are between the   *)
(* two locks; when a removal is counted before the addition it undoes, the  *)
(* number wraps below zero and comes back.                                  *)
ProcessesCounted == \A j \in Jobs :
    LET due == MapThenSumSet(LAMBDA c : jb_call[c].due, {c \in JobCallers : jb_call[c].job = j})
    IN  jb_count[j] = (Len(jb_processes[j]) - due) % JobWrap

(* A job stays in the list of its parent until remove_child is called with  *)
(* it: removing one child, or a child listed twice, never drops another.    *)
ChildrenListed == \A j \in Jobs \ {JOB_ID_ROOT} :
    Contains(jb_children[jb_parent[j]], j) \/ j \in jb_gone

(* Both lists of a job keep what was put on them (add_child, remove_child,  *)
(* add_process, remove_process): no child is dropped for another, and the   *)
(* statistics agree with the processes.                                     *)
MembersKept == ChildrenListed /\ ProcessesCounted
=============================================================================
