-------------------------------- MODULE Boot --------------------------------
(***************************************************************************)
(* Bringing the kernel up (init.rs, main.rs, arch/amd64/init.rs): the bump  *)
(* allocator that holds the page arrays of the arenas, the two arenas, the  *)
(* reserved pages, the kernel stack, the heap and the rest of the           *)
(* initialisation up to the point where the first program is loaded.  One   *)
(* CPU runs it, in the order of main.rs; boot_pc is where it is.            *)
(***************************************************************************)
EXTENDS Pmm

CONSTANTS
    KernelZone, UserZone,   \* the two regions init_early adds
    STACK_BASE,             \* KERNEL_STACK_BASE, start of the reserved pages
    STACK_PAGES,            \* KERNEL_STACK_PAGES and STACK_PAGES (64)
    HEAP_PADDR, HEAP_PAGES, \* the heap, between the two zones
    BootBuffer,             \* length of BOOT_ALLOC_BUFFER
    PageStruct, PageAlign   \* size and alignment of struct Page

ASSUME BootAssumption == {KernelZone, UserZone} \subseteq Regions

VARIABLES
    boot_pc,      \* the next step of main
    init_state,   \* INIT_STATE
    boot_offset,  \* BOOT_ALLOCATOR.offset
    boot_arrays,  \* history: [start, size] of what the bump allocator returned
    boot_stack,   \* KERNEL_STACK: the pages init_kernel_stack got, in order
    boot_heap     \* the pages of the heap once it is initialised

bootVars == <<boot_pc, init_state, boot_offset, boot_arrays, boot_stack, boot_heap>>

BootInit ==
    /\ boot_pc = "pmm_init" /\ init_state = "NotStarted"
    /\ boot_offset = 0 /\ boot_arrays = {} /\ boot_stack = << >>
    /\ boot_heap = {}

Align(offset, align) ==
    IF offset % align = 0 THEN offset ELSE ((offset \div align) + 1) * align

\* BootAllocator::alloc for the page array of a region.  pmm_add_arena does not
\* look whether it got null; a null array is an array at -1 here.
PageArray(offset, region) ==
    LET start == Align(offset, PageAlign)
        size  == page_count(region) * PageStruct
    IN  IF start + size > BootBuffer THEN [start |-> -1, size |-> size]
        ELSE [start |-> start, size |-> size]

Bumped(offset, array) == IF array.start < 0 THEN offset ELSE array.start + array.size

\* The pages of a region given by its first address and its length.
PagesFrom(addr, count) == {addr + i * PAGE_SIZE : i \in 0 .. count - 1}

ReservedArenas(arenas, addr, count) ==
    [k \in DOMAIN arenas |->
        IF address_in_arena(arenas[k], addr)
           /\ address_in_arena(arenas[k], addr + count * PAGE_SIZE - 1)
        THEN [arenas[k] EXCEPT !.pages = [i \in DOMAIN @ |->
                IF PageAddr(arenas[k], i) \in PagesFrom(addr, count) THEN "Reserved" ELSE @[i]]]
        ELSE arenas[k]]

init_early_NoReserve ==
    LET kernel == PageArray(0, KernelZone)
        after  == Bumped(0, kernel)
        user   == PageArray(after, UserZone)
    IN  /\ boot_offset' = Bumped(after, user)
        /\ boot_arrays' = {kernel, user}
        /\ pm_arenas' = <<Arena_init(KernelZone), Arena_init(UserZone)>>
        /\ pm_reserved' = {}
        /\ init_state' = "Early"

\* init_early: both arenas, then the reserved pages, before any page is given out.
init_early ==
    LET kernel == PageArray(0, KernelZone)
        after  == Bumped(0, kernel)
        user   == PageArray(after, UserZone)
    IN  /\ boot_offset' = Bumped(after, user)
        /\ boot_arrays' = {kernel, user}
        /\ pm_arenas' = ReservedArenas(<<Arena_init(KernelZone), Arena_init(UserZone)>>,
                                       STACK_BASE, STACK_PAGES)
        /\ pm_reserved' = PagesFrom(STACK_BASE, STACK_PAGES)
        /\ init_state' = "Early"

pmm_init ==
    /\ boot_pc = "pmm_init" /\ init_state = "NotStarted"
    /\ init_early
    /\ boot_pc' = "init_kernel_stack"
    /\ UNCHANGED <<pm_halted, pm_held, boot_stack, boot_heap>>

\* One page of the kernel stack; the switch follows the last one.
init_kernel_stack ==
    /\ boot_pc = "init_kernel_stack"
    /\ pmm_alloc_page("KERNEL")
    /\ boot_stack' = IF pm_halted' THEN boot_stack
                     ELSE Append(boot_stack, PageTaken(pm_arenas, "KERNEL").paddr)
    /\ boot_pc' = IF Len(boot_stack') = STACK_PAGES THEN "init_arch" ELSE boot_pc
    /\ UNCHANGED <<init_state, boot_offset, boot_arrays, boot_heap>>

init_arch ==
    /\ boot_pc = "init_arch"
    /\ init_state' = "Arch" /\ boot_pc' = "init_memory"
    /\ UNCHANGED <<pmmVars, boot_offset, boot_arrays, boot_stack, boot_heap>>

\* The heap takes fixed pages.  They are in neither arena, so reserving them
\* fails, and the status is dropped.
init_memory ==
    /\ boot_pc = "init_memory"
    /\ boot_heap' = PagesFrom(HEAP_PADDR, HEAP_PAGES)
    /\ pm_arenas' = ReservedArenas(pm_arenas, HEAP_PADDR, HEAP_PAGES)
    /\ init_state' = "VM" /\ boot_pc' = "init_late"
    /\ UNCHANGED <<pm_halted, pm_held, pm_reserved, boot_offset, boot_arrays, boot_stack>>

\* init_threads and init_late do nothing but set the state.
init_late ==
    /\ boot_pc = "init_late"
    /\ init_state' = "Complete" /\ boot_pc' = "setup_devices"
    /\ UNCHANGED <<pmmVars, boot_offset, boot_arrays, boot_stack, boot_heap>>

\* GDT, IDT and its three gates, the APICs, the keyboard, the timer, the console
\* and the ramdisk: no page is taken.
setup_devices ==
    /\ boot_pc = "setup_devices"
    /\ boot_pc' = "load_init"
    /\ UNCHANGED <<pmmVars, init_state, boot_offset, boot_arrays, boot_stack, boot_heap>>

BootNext ==
    \/ pmm_init
    \/ init_kernel_stack
    \/ init_arch
    \/ init_memory
    \/ init_late
    \/ setup_devices

-----------------------------------------------------------------------------
(* The page arrays pmm_add_arena initialises are aligned for struct Page,   *)
(* lie inside the boot buffer and do not overlap.                           *)
PageArraysFit ==
    /\ \A a \in boot_arrays : a.start >= 0 /\ a.start % PageAlign = 0
                              /\ a.start + a.size <= BootBuffer
    /\ \A a, b \in boot_arrays : a # b => a.start + a.size <= b.start
                                          \/ b.start + b.size <= a.start

(* No page the allocator handed out (page tables, kernel stacks, user       *)
(* memory) is one of the reserved pages at the start of the kernel zone or  *)
(* of the heap, although reserving the heap fails because it is in no arena.*)
ReservedNeverUsed ==
    HeldPages \cap (PagesFrom(STACK_BASE, STACK_PAGES) \cup PagesFrom(HEAP_PADDR, HEAP_PAGES)) = {}
=============================================================================
