-------------------------------- MODULE Pmm --------------------------------
(***************************************************************************)
(* The physical page allocator (mm/pmm.rs): arenas in the order they were   *)
(* added, one state per page, first fit.  Addresses count cells; PAGE_SIZE  *)
(* cells are a page, so an address can be unaligned and the last page of an *)
(* arena can be cut off.  A call that returns an error changes nothing and  *)
(* is no step.  When no arena serves a single-page request the allocator    *)
(* does not return: it spins (pm_halted) and nothing else runs.             *)
(***************************************************************************)
EXTENDS Integers, Sequences, FiniteSets, FiniteSetsExt

CONSTANTS
    MAX_ARENAS,   \* 8
    PAGE_SIZE,    \* cells of a page (4096)
    Regions,      \* the arenas a caller can add: [base, size, flags]
    MaxCount      \* bound: pages of a contiguous request

ASSUME PmmAssumption ==
    /\ PAGE_SIZE \in Nat \ {0} /\ MAX_ARENAS \in Nat
    /\ \A r \in Regions : r.base % PAGE_SIZE = 0
    /\ \A r, s \in Regions : r # s => r.base + r.size <= s.base \/ s.base + s.size <= r.base

VARIABLES
    pm_arenas,    \* ARENAS[..NUM_ARENAS]
    pm_halted,    \* the loop {} that ends an unserved pmm_alloc_page
    pm_held,      \* history: [paddr, flags] of the pages callers own
    pm_reserved   \* history: the pages reserved

pmmVars == <<pm_arenas, pm_halted, pm_held, pm_reserved>>

Requested == {"ANY", "LOW_MEM", "KERNEL", "USER"}

page_count(info) == info.size \div PAGE_SIZE

Arena_init(info) == [base |-> info.base, size |-> info.size, flags |-> info.flags,
                     pages |-> [i \in 0 .. page_count(info) - 1 |-> "Free"]]

PageAddr(a, i) == a.base + i * PAGE_SIZE

PageIndex(a, addr) == (addr - a.base) \div PAGE_SIZE

address_in_arena(a, addr) == addr >= a.base /\ addr < a.base + a.size

FreePages(a) == {i \in DOMAIN a.pages : a.pages[i] = "Free"}

pmm_count_free_pages(arenas) ==
    MapThenSumSet(LAMBDA k : Cardinality(FreePages(arenas[k])), DOMAIN arenas)

SetPages(arenas, k, idx, state) ==
    [arenas EXCEPT ![k].pages = [i \in DOMAIN @ |-> IF i \in idx THEN state ELSE @[i]]]

\* The filters of pmm_alloc_page: a zone asked for by name must be the arena's.
Serves(a, flags) == flags = "ANY" \/ flags \in a.flags

Serving(arenas, flags) ==
    {k \in DOMAIN arenas : Serves(arenas[k], flags) /\ FreePages(arenas[k]) # {}}

\* pmm_alloc_page when some arena serves: the page and the arenas after it.
PageTaken(arenas, flags) ==
    LET k == Min(Serving(arenas, flags))
        i == Min(FreePages(arenas[k]))
    IN  [paddr |-> PageAddr(arenas[k], i), arenas |-> SetPages(arenas, k, {i}, "Allocated")]

\* pmm_alloc_contiguous looks at the LOW_MEM flag only.
Runs_OneShort(arenas, count, flags) ==
    {<<k, i>> \in (DOMAIN arenas) \X (0 .. Max({page_count(r) : r \in Regions})) :
        /\ flags = "LOW_MEM" => "LOW_MEM" \in arenas[k].flags
        /\ i .. i + count - 2 \subseteq FreePages(arenas[k])
        /\ i + count - 1 \in DOMAIN arenas[k].pages}

Runs(arenas, count, flags) ==
    {<<k, i>> \in (DOMAIN arenas) \X (0 .. Max({page_count(r) : r \in Regions})) :
        /\ flags = "LOW_MEM" => "LOW_MEM" \in arenas[k].flags
        /\ i .. i + count - 1 \subseteq FreePages(arenas[k])}

FirstRun(runs) == CHOOSE r \in runs : \A q \in runs :
    r[1] < q[1] \/ (r[1] = q[1] /\ r[2] <= q[2])

PmmInit == pm_arenas = << >> /\ pm_halted = FALSE /\ pm_held = {} /\ pm_reserved = {}

\* A caller adds a region once.
pmm_add_arena(info) ==
    /\ ~pm_halted /\ Len(pm_arenas) < MAX_ARENAS /\ page_count(info) # 0
    /\ \A k \in DOMAIN pm_arenas : pm_arenas[k].base # info.base
    /\ pm_arenas' = Append(pm_arenas, Arena_init(info))
    /\ UNCHANGED <<pm_halted, pm_held, pm_reserved>>

pmm_alloc_page(flags) ==
    /\ ~pm_halted
    /\ IF Serving(pm_arenas, flags) = {}
       THEN pm_halted' = TRUE /\ UNCHANGED <<pm_arenas, pm_held>>
       ELSE LET t == PageTaken(pm_arenas, flags)
            IN  /\ pm_arenas' = t.arenas
                /\ pm_held' = pm_held \cup {[paddr |-> t.paddr, flags |-> flags]}
                /\ UNCHANGED pm_halted
    /\ UNCHANGED pm_reserved

pmm_alloc_contiguous(count, flags) ==
    /\ ~pm_halted /\ count > 1 /\ Runs(pm_arenas, count, flags) # {}
    /\ LET r   == FirstRun(Runs(pm_arenas, count, flags))
           idx == r[2] .. r[2] + count - 1
       IN  /\ pm_arenas' = SetPages(pm_arenas, r[1], idx, "Allocated")
           /\ pm_held' = pm_held \cup
                {[paddr |-> PageAddr(pm_arenas[r[1]], i), flags |-> "ANY"] : i \in idx}
    /\ UNCHANGED <<pm_halted, pm_reserved>>

HeldPages == {h.paddr : h \in pm_held}

\* Arena::free_page on every page of idx that the arena really has.
PagesFreed(k, idx) ==
    /\ pm_arenas' = SetPages(pm_arenas, k, idx, "Free")
    /\ pm_held' = {h \in pm_held : h.paddr \notin {PageAddr(pm_arenas[k], i) : i \in idx}}
    /\ UNCHANGED <<pm_halted, pm_reserved>>

\* A caller frees a page it owns.
pmm_free_page(addr) ==
    /\ ~pm_halted /\ addr \in HeldPages
    /\ \E k \in DOMAIN pm_arenas :
        /\ address_in_arena(pm_arenas[k], addr)
        /\ PagesFreed(k, {PageIndex(pm_arenas[k], addr)})

\* The whole range must lie in one arena; a caller frees pages it owns.
RangeIn(k, addr, count) ==
    /\ address_in_arena(pm_arenas[k], addr)
    /\ address_in_arena(pm_arenas[k], addr + count * PAGE_SIZE - 1)

pmm_free_contiguous(addr, count) ==
    /\ ~pm_halted /\ count # 0
    /\ \A i \in 0 .. count - 1 : addr + i * PAGE_SIZE \in HeldPages
    /\ \E k \in DOMAIN pm_arenas :
        /\ RangeIn(k, addr, count)
        /\ PagesFreed(k, {PageIndex(pm_arenas[k], addr) + i : i \in 0 .. count - 1})

\* The pages a reservation covers; a start inside a page takes that page.
ReservedBy(k, addr, count) ==
    {i \in DOMAIN pm_arenas[k].pages :
        \E j \in 0 .. count - 1 : i = PageIndex(pm_arenas[k], addr + j * PAGE_SIZE)}

\* Boot code reserves pages nobody owns yet.
pmm_reserve_pages(addr, count) ==
    /\ ~pm_halted /\ count # 0
    /\ \E k \in DOMAIN pm_arenas :
        /\ RangeIn(k, addr, count)
        /\ LET idx   == ReservedBy(k, addr, count)
               pages == {PageAddr(pm_arenas[k], i) : i \in idx}
           IN  /\ pages \cap HeldPages = {}
               /\ pm_arenas' = SetPages(pm_arenas, k, idx, "Reserved")
               /\ pm_reserved' = pm_reserved \cup pages
    /\ UNCHANGED <<pm_halted, pm_held>>

Addresses == UNION {r.base .. r.base + r.size - 1 : r \in Regions}

PmmNext ==
    \/ \E r \in Regions : pmm_add_arena(r)
    \/ \E f \in Requested : pmm_alloc_page(f)
    \/ \E n \in 2 .. MaxCount, f \in {"ANY", "LOW_MEM"} : pmm_alloc_contiguous(n, f)
    \/ \E h \in HeldPages : pmm_free_page(h)
    \/ \E h \in HeldPages, n \in 2 .. MaxCount : pmm_free_contiguous(h, n)
    \/ \E addr \in Addresses, n \in 1 .. MaxCount : pmm_reserve_pages(addr, n)

PmmSpec == PmmInit /\ [][PmmNext]_pmmVars

-----------------------------------------------------------------------------
(* The arenas are known regions, each at most once, and every page has one  *)
(* of the three states that mm/pmm.rs gives it.                             *)
PmmTypeOK ==
    /\ Len(pm_arenas) <= MAX_ARENAS
    /\ \A k \in DOMAIN pm_arenas :
        /\ \E r \in Regions : r.base = pm_arenas[k].base /\ r.size = pm_arenas[k].size
        /\ \A i \in DOMAIN pm_arenas[k].pages :
            pm_arenas[k].pages[i] \in {"Free", "Allocated", "Reserved"}
    /\ pm_held \subseteq [paddr : Addresses, flags : Requested]

(* A page is free exactly when nobody owns it and it was not reserved, and  *)
(* allocated exactly when one caller owns it: first fit, runs, frees and    *)
(* reservations, in any order, never hand out an owned or reserved page and *)
(* never lose one (pmm_alloc_page, pmm_alloc_contiguous, pmm_free_page).    *)
PagesAccounted ==
    /\ \A k \in DOMAIN pm_arenas : \A i \in DOMAIN pm_arenas[k].pages :
        LET p == PageAddr(pm_arenas[k], i)
        IN  CASE p \in pm_reserved -> pm_arenas[k].pages[i] = "Reserved" /\ p \notin HeldPages
              [] p \in HeldPages \ pm_reserved -> pm_arenas[k].pages[i] = "Allocated"
              [] OTHER -> pm_arenas[k].pages[i] = "Free"
    /\ Cardinality(HeldPages) = Cardinality(pm_held)

(* A page a caller got by asking for one zone lies in an arena of that zone *)
(* for as long as it is held: kernel metadata and user memory never come    *)
(* from one region (mm/pmm.rs, "must NEVER live in the same physical        *)
(* region").  Contiguous requests are outside this: they ignore the zone.   *)
ZonesSeparate ==
    \A h \in pm_held : h.flags # "ANY" =>
        \E k \in DOMAIN pm_arenas :
            address_in_arena(pm_arenas[k], h.paddr) /\ h.flags \in pm_arenas[k].flags

(* Every page has one owner, of the zone it asked for.                      *)
PagesKept == PagesAccounted /\ ZonesSeparate
=============================================================================
