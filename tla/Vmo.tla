-------------------------------- MODULE Vmo --------------------------------
(***************************************************************************)
(* Virtual memory objects (object/vmo.rs) over the page allocator.  A write *)
(* makes three passes: it lists the missing pages under the lock, allocates *)
(* them with the lock released and inserts each one unless somebody else    *)
(* was faster, and copies page by page.  Two contexts may write one object. *)
(* Offsets and sizes count cells of PAGE_SIZE to the page.                  *)
(***************************************************************************)
EXTENDS Pmm

CONSTANTS
    VmoIds,       \* objects that can be created
    VmZone,       \* the region user pages come from
    VmCallers,    \* contexts that write
    VmSizes,      \* sizes asked for
    VmRanges,     \* [offset, length] of the writes
    MaxWrites,    \* bound: writes started
    VmIdle, Unmade, Unwritten

VARIABLES
    vm_objs,     \* the objects: [size, pages, resizable]
    vm_mem,      \* the cells of the user zone
    vm_call,     \* the write each context is in
    vm_last,     \* history: what was last written to each cell of an object
    vm_raced,    \* history: pages that lost the race to be inserted
    vm_writes    \* history: writes started

vmoVars == <<pmmVars, vm_objs, vm_mem, vm_call, vm_last, vm_raced, vm_writes>>

RoundUp(size) == ((size + PAGE_SIZE - 1) \div PAGE_SIZE) * PAGE_SIZE

MaxSize == RoundUp(Max(VmSizes))

Cells == 0 .. MaxSize - 1

Key(offset) == (offset \div PAGE_SIZE) * PAGE_SIZE

ObjectsStart ==
    /\ vm_objs = [v \in VmoIds |-> Unmade]
    /\ vm_mem = [a \in VmZone.base .. VmZone.base + VmZone.size - 1 |-> Unwritten]
    /\ vm_call = [c \in VmCallers |-> VmIdle]
    /\ vm_last = [v \in VmoIds |-> [o \in Cells |-> Unwritten]]
    /\ vm_raced = {} /\ vm_writes = 0

VmoInit ==
    /\ pm_arenas = <<Arena_init(VmZone)>> /\ pm_halted = FALSE
    /\ pm_held = {} /\ pm_reserved = {}
    /\ ObjectsStart

create(v, size, resizable) ==
    /\ ~pm_halted /\ vm_objs[v] = Unmade /\ size # 0
    /\ vm_objs' = [vm_objs EXCEPT ![v] =
                    [size |-> RoundUp(size), pages |-> << >>, resizable |-> resizable]]
    /\ UNCHANGED <<pmmVars, vm_mem, vm_call, vm_last, vm_raced, vm_writes>>

\* Only the size changes: the page map keeps what is past it.
resize(v, size) ==
    /\ ~pm_halted /\ vm_objs[v] # Unmade /\ vm_objs[v].resizable
    /\ vm_objs' = [vm_objs EXCEPT ![v].size = RoundUp(size)]
    /\ UNCHANGED <<pmmVars, vm_mem, vm_call, vm_last, vm_raced, vm_writes>>

\* The page keys of a range of cells, in order.
KeysOf(first, end) ==
    LET n == IF end <= first THEN 0 ELSE (Key(end - 1) - Key(first)) \div PAGE_SIZE + 1
    IN  [i \in 1 .. n |-> Key(first) + (i - 1) * PAGE_SIZE]

\* write, first pass: the range is clipped to the size read here, once.
write_list(c, v, r) ==
    /\ ~pm_halted /\ vm_call[c] = VmIdle /\ vm_objs[v] # Unmade
    /\ r.offset < vm_objs[v].size
    /\ vm_writes < MaxWrites /\ vm_writes' = vm_writes + 1
    /\ LET end  == Min({r.offset + r.length, vm_objs[v].size})
           keys == KeysOf(r.offset, end)
       IN  vm_call' = [vm_call EXCEPT ![c] =
                [vmo |-> v, offset |-> r.offset, end |-> end, copy |-> keys,
                 missing |-> SelectSeq(keys, LAMBDA k : k \notin DOMAIN vm_objs[v].pages)]]
    /\ UNCHANGED <<pmmVars, vm_objs, vm_mem, vm_last, vm_raced>>

WithPage(pages, k, p) == [x \in DOMAIN pages \cup {k} |-> IF x = k THEN p ELSE pages[x]]

write_alloc_Replaces(c) ==
    /\ ~pm_halted /\ vm_call[c] # VmIdle /\ vm_call[c].missing # << >>
    /\ pmm_alloc_page("USER")
    /\ LET v   == vm_call[c].vmo
           k   == Head(vm_call[c].missing)
           old == {vm_objs[v].pages[x] : x \in DOMAIN vm_objs[v].pages \cap {k}}
       IN  /\ ~pm_halted'
           /\ vm_raced' = vm_raced \cup old
           /\ vm_objs' = [vm_objs EXCEPT ![v].pages =
                             WithPage(@, k, PageTaken(pm_arenas, "USER").paddr)]
    /\ vm_call' = [vm_call EXCEPT ![c].missing = Tail(@)]
    /\ UNCHANGED <<vm_mem, vm_last, vm_writes>>

\* Second pass, one page: allocated without the lock, inserted unless the key
\* is there by now; then the page stays allocated and nobody has it.
write_alloc(c) ==
    /\ ~pm_halted /\ vm_call[c] # VmIdle /\ vm_call[c].missing # << >>
    /\ pmm_alloc_page("USER")
    /\ LET v == vm_call[c].vmo
           k == Head(vm_call[c].missing)
           p == PageTaken(pm_arenas, "USER").paddr
       IN  IF pm_halted' THEN UNCHANGED <<vm_objs, vm_raced>>
           ELSE IF k \in DOMAIN vm_objs[v].pages
           THEN vm_raced' = vm_raced \cup {p} /\ UNCHANGED vm_objs
           ELSE /\ vm_objs' = [vm_objs EXCEPT ![v].pages = WithPage(@, k, p)]
                /\ UNCHANGED vm_raced
    /\ vm_call' = IF pm_halted' THEN vm_call ELSE [vm_call EXCEPT ![c].missing = Tail(@)]
    /\ UNCHANGED <<vm_mem, vm_last, vm_writes>>

\* Third pass, one page: what c writes is its own name.
write_copy(c) ==
    /\ ~pm_halted /\ vm_call[c] # VmIdle
    /\ vm_call[c].missing = << >> /\ vm_call[c].copy # << >>
    /\ LET w     == vm_call[c]
           k     == Head(w.copy)
           p     == vm_objs[w.vmo].pages[k]
           cells == {o \in k .. k + PAGE_SIZE - 1 : w.offset <= o /\ o < w.end}
       IN  /\ vm_mem' = [a \in DOMAIN vm_mem |-> IF a - p + k \in cells THEN c ELSE vm_mem[a]]
           /\ vm_last' = [vm_last EXCEPT ![w.vmo] =
                            [o \in Cells |-> IF o \in cells THEN c ELSE @[o]]]
           /\ vm_call' = [vm_call EXCEPT ![c] =
                            IF Len(w.copy) = 1 THEN VmIdle ELSE [w EXCEPT !.copy = Tail(@)]]
    /\ UNCHANGED <<pmmVars, vm_objs, vm_raced, vm_writes>>

\* clone allocates a page for every page of the parent, lowest key first.
Copies(keys) ==
    FoldSet(LAMBDA k, w :
                IF w.halted \/ Serving(w.arenas, "USER") = {} THEN [w EXCEPT !.halted = TRUE]
                ELSE LET t == PageTaken(w.arenas, "USER")
                     IN  [w EXCEPT !.arenas = t.arenas, !.pages = WithPage(@, k, t.paddr)],
            [arenas |-> pm_arenas, pages |-> << >>, halted |-> FALSE], keys)

clone_Shares(v, child) ==
    /\ ~pm_halted /\ vm_objs[v] # Unmade /\ vm_objs[child] = Unmade /\ vm_objs[v].size # 0
    /\ vm_objs' = [vm_objs EXCEPT ![child] = [vm_objs[v] EXCEPT !.resizable = FALSE]]
    /\ vm_last' = [vm_last EXCEPT ![child] = vm_last[v]]
    /\ UNCHANGED <<pmmVars, vm_mem, vm_call, vm_raced, vm_writes>>

clone(v, child) ==
    /\ ~pm_halted /\ vm_objs[v] # Unmade /\ vm_objs[child] = Unmade /\ vm_objs[v].size # 0
    /\ LET parent == vm_objs[v].pages
           w      == Copies(DOMAIN parent)
           source(a) == {k \in DOMAIN w.pages : a - w.pages[k] \in 0 .. PAGE_SIZE - 1}
       IN  /\ pm_arenas' = w.arenas /\ pm_halted' = w.halted
           /\ pm_held' = pm_held \cup
                {[paddr |-> w.pages[k], flags |-> "USER"] : k \in DOMAIN w.pages}
           /\ vm_mem' = [a \in DOMAIN vm_mem |->
                IF source(a) = {} THEN vm_mem[a]
                ELSE LET k == CHOOSE k \in source(a) : TRUE
                     IN  vm_mem[parent[k] + a - w.pages[k]]]
           /\ IF w.halted THEN UNCHANGED <<vm_objs, vm_last>>
              ELSE /\ vm_objs' = [vm_objs EXCEPT ![child] =
                        [size |-> vm_objs[v].size, pages |-> w.pages, resizable |-> FALSE]]
                   /\ vm_last' = [vm_last EXCEPT ![child] = vm_last[v]]
    /\ UNCHANGED <<pm_reserved, vm_call, vm_raced, vm_writes>>

\* read of one cell: a page that is not there reads as zeros.
read_cell(v, o) ==
    IF Key(o) \notin DOMAIN vm_objs[v].pages THEN Unwritten
    ELSE vm_mem[vm_objs[v].pages[Key(o)] + (o % PAGE_SIZE)]

VmoNext ==
    \/ \E v \in VmoIds, s \in VmSizes, b \in BOOLEAN : create(v, s, b)
    \/ \E v \in VmoIds, s \in VmSizes : resize(v, s)
    \/ \E c \in VmCallers, v \in VmoIds, r \in VmRanges : write_list(c, v, r)
    \/ \E c \in VmCallers : write_alloc(c)
    \/ \E c \in VmCallers : write_copy(c)
    \/ \E v, child \in VmoIds : clone(v, child)

VmoSpec == VmoInit /\ [][VmoNext]_vmoVars

-----------------------------------------------------------------------------
(* An object's size is a whole number of pages, its page map goes from page *)
(* keys to allocated pages, and a context is idle or in a write.            *)
VmoTypeOK ==
    /\ \A v \in VmoIds : vm_objs[v] # Unmade =>
        /\ vm_objs[v].size \in 0 .. MaxSize /\ vm_objs[v].size % PAGE_SIZE = 0
        /\ \A k \in DOMAIN vm_objs[v].pages : k = Key(k) /\ vm_objs[v].pages[k] \in HeldPages
    /\ \A c \in VmCallers : vm_call[c] = VmIdle \/ vm_call[c].end <= MaxSize

(* Every cell reads as what was last written to it, in the object and, from *)
(* the copy on, in its clones: writers that race for the same missing page  *)
(* lose no data, and a clone and its parent do not see each other's later   *)
(* writes (Vmo::write, Vmo::clone).                                         *)
VmoHoldsWrites ==
    \A v \in VmoIds : vm_objs[v] # Unmade =>
        \A o \in Cells : vm_last[v][o] # Unwritten => read_cell(v, o) = vm_last[v][o]

(* Every user page is in the page map of exactly one object under one key,  *)
(* or was dropped by a write that lost the race to insert it: that page is  *)
(* never given back.                                                        *)
UserPagesConserved ==
    LET slots == {<<v, k>> \in VmoIds \X Cells :
                    vm_objs[v] # Unmade /\ k \in DOMAIN vm_objs[v].pages}
        page(s) == vm_objs[s[1]].pages[s[2]]
        user == HeldPages \cap DOMAIN vm_mem
    IN  ~pm_halted =>
            /\ user = {page(s) : s \in slots} \cup vm_raced
            /\ Cardinality(user) = Cardinality(slots) + Cardinality(vm_raced)
=============================================================================
