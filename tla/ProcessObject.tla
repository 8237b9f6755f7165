--------------------------- MODULE ProcessObject ---------------------------
(***************************************************************************)
(* The Process structure of process/mod.rs: its handle table, its list of   *)
(* threads, and the state and return code that exit writes under two locks  *)
(* one after the other.  (The processes that run are those of ProcessTable; *)
(* this structure is the kernel object that will stand for one.)            *)
(***************************************************************************)
EXTENDS Integers, Sequences, SequencesExt, FiniteSets, FiniteSetsExt

CONSTANTS
    MAX_PROC_HANDLES,         \* MAX_HANDLES (256)
    MAX_THREADS_PER_PROCESS,  \* 1024
    PoObjects,                \* ids of the objects handles refer to
    PoRights,                 \* the single rights Read, Write, ...
    PoThreads,                \* thread ids
    PoCallers,                \* contexts that use the process
    Codes,                    \* return codes
    PoNone                    \* None

VARIABLES
    po_handles,     \* handles: slot -> HandleEntry or None
    po_next,        \* next_index
    po_count,       \* count
    po_held,        \* history: handle -> what alloc gave it out for, until it is freed
    po_threads,     \* threads
    po_state, po_code,   \* state, return_code
    po_exits        \* caller -> in exit, between the two locks

processVars == <<po_handles, po_next, po_count, po_held, po_threads, po_state, po_code, po_exits>>
handleVars == <<po_handles, po_next, po_count, po_held>>
lifeVars == <<po_state, po_code, po_exits>>

HandleSlots == 0 .. MAX_PROC_HANDLES - 1
HandleValues == 1 .. MAX_PROC_HANDLES
HandleEntry == [object_id : PoObjects, rights : SUBSET PoRights]

ASSUME ProcessObjectAssumption ==
    /\ MAX_PROC_HANDLES \in Nat \ {0} /\ MAX_THREADS_PER_PROCESS \in Nat
    /\ PoNone \notin HandleEntry /\ PoNone \notin Codes

ProcessObjectInit ==
    /\ po_handles = [s \in HandleSlots |-> PoNone]
    /\ po_next = 0 /\ po_count = 0
    /\ po_held = [h \in HandleValues |-> PoNone]
    /\ po_threads = << >>
    /\ po_state = "Creating" /\ po_code = PoNone
    /\ po_exits = {}

-----------------------------------------------------------------------------
\* Slots the scan of alloc finds free, as distances from next_index.
FreeAt == {k \in HandleSlots : po_handles[(po_next + k) % MAX_PROC_HANDLES] = PoNone}

\* The handle is the slot plus one; a full table is an error and changes nothing.
alloc(entry) ==
    /\ FreeAt # {}
    /\ LET idx == (po_next + Min(FreeAt)) % MAX_PROC_HANDLES
       IN  /\ po_handles' = [po_handles EXCEPT ![idx] = entry]
           /\ po_next' = (idx + 1) % MAX_PROC_HANDLES
           /\ po_count' = po_count + 1
           /\ po_held' = [po_held EXCEPT ![idx + 1] = entry]
    /\ UNCHANGED <<po_threads, lifeVars>>

\* Handle 0 wraps to a slot past the end, which is refused.
handle_get(h) == IF h - 1 \in HandleSlots THEN po_handles[h - 1] ELSE PoNone

free_OffByOne(h) ==
    /\ handle_get(h) # PoNone
    /\ po_handles' = [po_handles EXCEPT ![h % MAX_PROC_HANDLES] = PoNone]
    /\ po_count' = po_count - 1
    /\ po_held' = [po_held EXCEPT ![h] = PoNone]
    /\ UNCHANGED <<po_next, po_threads, lifeVars>>

free(h) ==
    /\ handle_get(h) # PoNone
    /\ po_handles' = [po_handles EXCEPT ![h - 1] = PoNone]
    /\ po_count' = po_count - 1
    /\ po_held' = [po_held EXCEPT ![h] = PoNone]
    /\ UNCHANGED <<po_next, po_threads, lifeVars>>

\* has() is true when any bit is shared.
check_rights(h, rights) == handle_get(h) # PoNone /\ handle_get(h).rights \cap rights # {}

-----------------------------------------------------------------------------
add_thread_of(t) ==
    /\ Len(po_threads) < MAX_THREADS_PER_PROCESS
    /\ po_threads' = Append(po_threads, t)
    /\ UNCHANGED <<handleVars, lifeVars>>

remove_thread_of(t) ==
    /\ Contains(po_threads, t)
    /\ po_threads' = RemoveAt(po_threads, Min({i \in 1 .. Len(po_threads) : po_threads[i] = t}))
    /\ UNCHANGED <<handleVars, lifeVars>>

\* The creator starts the process; whoever collects it declares it dead.
set_state_of(state) ==
    /\ \/ state = "Running" /\ po_state = "Creating"
       \/ state = "Dead" /\ po_state = "Exiting"
    /\ po_state' = state
    /\ UNCHANGED <<handleVars, po_threads, po_code, po_exits>>

exit_StateFirst(c, code) ==
    /\ c \notin po_exits
    /\ po_state' = "Exiting"
    /\ po_exits' = po_exits \cup {c}
    /\ UNCHANGED <<handleVars, po_threads, po_code>>

\* exit, first lock.
exit(c, code) ==
    /\ c \notin po_exits
    /\ po_code' = code
    /\ po_exits' = po_exits \cup {c}
    /\ UNCHANGED <<handleVars, po_threads, po_state>>

\* exit, second lock.
exit_state(c) ==
    /\ c \in po_exits
    /\ po_state' = "Exiting"
    /\ po_exits' = po_exits \ {c}
    /\ UNCHANGED <<handleVars, po_threads, po_code>>

ProcessObjectNext ==
    \/ \E entry \in HandleEntry : alloc(entry)
    \/ \E h \in HandleValues : free(h)
    \/ \E t \in PoThreads : add_thread_of(t) \/ remove_thread_of(t)
    \/ \E state \in {"Running", "Dead"} : set_state_of(state)
    \/ \E c \in PoCallers, code \in Codes : exit(c, code)
    \/ \E c \in PoCallers : exit_state(c)

ProcessObjectSpec == ProcessObjectInit /\ [][ProcessObjectNext]_processVars

-----------------------------------------------------------------------------
(* Every variable has its type, count is the number of entries, and the     *)
(* list of threads respects its limit.                                      *)
ProcessObjectTypeOK ==
    /\ po_handles \in [HandleSlots -> HandleEntry \cup {PoNone}]
    /\ po_next \in HandleSlots
    /\ po_count = Cardinality({s \in HandleSlots : po_handles[s] # PoNone})
    /\ Len(po_threads) <= MAX_THREADS_PER_PROCESS
    /\ po_state \in {"Creating", "Running", "Exiting", "Dead"}
    /\ po_code \in Codes \cup {PoNone}

(* Every handle value resolves to the object and the rights alloc gave it   *)
(* out for, and to nothing when it is not held, through any mix of alloc    *)
(* and free and any position of the rotating index; and check_rights        *)
(* refuses a right the entry does not have.                                 *)
HandlesResolve == \A h \in HandleValues :
    /\ handle_get(h) = po_held[h]
    /\ \A r \in PoRights : check_rights(h, {r}) =>
          po_held[h] # PoNone /\ r \in po_held[h].rights

(* Whoever sees the process exiting or dead finds a return code, with any   *)
(* number of threads calling exit at once: the code is stored first.        *)
ExitedHasCode == po_state \in {"Exiting", "Dead"} => po_code # PoNone
=============================================================================
