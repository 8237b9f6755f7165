------------------------------ MODULE ElfLoader ------------------------------
(***************************************************************************)
(* Loading programs (exec/elf.rs, exec/process_loader.rs, and their callers *)
(* main and sys_process_create) on top of the booted kernel, the page       *)
(* allocator and the page tables.  Each segment gets pages of the user      *)
(* zone, filled from the file and then with zeros; the pages are mapped one *)
(* by one in a new address space; a stack page and a kernel stack follow.   *)
(* Nothing is undone when a step fails.  The first program runs at once, so *)
(* CR3 is its root when it asks for the next one.                           *)
(***************************************************************************)
EXTENDS Boot, AddressSpace

CONSTANTS
    Images,         \* files: [valid, length, headers, inside]
    MAX_LOAD,       \* LOAD segments load_elf keeps (16)
    KSTACK_PAGES,   \* pages of a process's kernel stack (4)
    StackPage,      \* virtual page of the user stack
    MaxProcesses,   \* bound: programs loaded
    NoLoad

VARIABLES
    el_load,    \* the load under way
    el_procs,   \* the processes loaded, in order
    el_mem      \* the cells of the user zone

loaderVars == <<pmmVars, bootVars, spaceVars, el_load, el_procs, el_mem>>

\* Contents of a cell: a cell of a file, zero, or what the memory held before.
Zero == <<"zero", 0>>
Stale == <<"stale", 0>>

LoaderStart ==
    /\ BootInit /\ AddressSpaceInit
    /\ el_load = NoLoad /\ el_procs = << >>
    /\ el_mem = [a \in UserZone.base .. UserZone.base + UserZone.size - 1 |-> Stale]

ElfLoaderInit == PmmInit /\ LoaderStart

\* Headers past the end of the file are not read.
parse_program_headers(image) == SubSeq(image.headers, 1, Min({Len(image.headers), image.inside}))

LoadSegments(image) ==
    LET loads == SelectSeq(parse_program_headers(image), LAMBDA h : h.load)
    IN  SubSeq(loads, 1, Min({Len(loads), MAX_LOAD}))

MemSize(h) == Max({h.filesz, h.memsz})

PagesOf(size) == (size + PAGE_SIZE - 1) \div PAGE_SIZE

\* A header that parse_elf_header or validate_elf_header rejects is no step.
load_elf_begin(image) ==
    /\ ~pm_halted /\ el_load = NoLoad /\ boot_pc \in {"load_init", "running"}
    /\ Len(el_procs) < MaxProcesses
    /\ image.valid
    /\ el_load' = [image |-> image, at |-> "segments", todo |-> LoadSegments(image),
                   segments |-> << >>, pages |-> << >>, pml4 |-> 0, stack |-> 0, kstack |-> << >>]
    /\ UNCHANGED <<pmmVars, bootVars, spaceVars, el_procs, el_mem>>

\* An error gives up the load and keeps the pages.  Without a first program
\* main halts.
LoadFails ==
    /\ el_load' = NoLoad
    /\ boot_pc' = IF boot_pc = "load_init" THEN "halt" ELSE boot_pc
    /\ UNCHANGED <<pmmVars, spaceVars, init_state, boot_offset, boot_arrays, boot_stack, boot_heap,
                   el_procs, el_mem>>

OutOfFile(h) == h.filesz > 0 /\ h.offset + h.filesz > el_load.image.length

InSegments == ~pm_halted /\ el_load # NoLoad /\ el_load.at = "segments" /\ el_load.todo # << >>

segment_beyond_file == InSegments /\ OutOfFile(Head(el_load.todo)) /\ LoadFails

segment_empty ==
    /\ InSegments /\ ~OutOfFile(Head(el_load.todo)) /\ MemSize(Head(el_load.todo)) = 0
    /\ el_load' = [el_load EXCEPT !.todo = Tail(@)]
    /\ UNCHANGED <<pmmVars, bootVars, spaceVars, el_procs, el_mem>>

PageCells_NoBss(h, k) ==
    [c \in k * PAGE_SIZE .. (k + 1) * PAGE_SIZE - 1 |->
        IF c < h.filesz THEN <<el_load.image.name, h.offset + c>> ELSE Stale]

\* What the cells of page k of a segment are set to: file data, then the zeroed
\* rest; past the segment they keep what the memory held.
PageCells(h, k) ==
    [c \in k * PAGE_SIZE .. (k + 1) * PAGE_SIZE - 1 |->
        IF c < h.filesz THEN <<el_load.image.name, h.offset + c>>
        ELSE IF c < h.memsz THEN Zero ELSE Stale]

Stored(paddr, cells, first) ==
    [a \in DOMAIN el_mem |->
        LET c == first + a - paddr
        IN  IF a - paddr \in 0 .. PAGE_SIZE - 1 /\ cells[c] # Stale THEN cells[c] ELSE el_mem[a]]

\* Vmo::write gives the segment's next page a page of the user zone.
segment_page ==
    /\ InSegments /\ ~OutOfFile(Head(el_load.todo)) /\ MemSize(Head(el_load.todo)) # 0
    /\ pmm_alloc_page("USER")
    /\ IF pm_halted' THEN UNCHANGED <<el_load, el_mem>>
       ELSE LET h     == Head(el_load.todo)
                k     == Len(el_load.pages)
                page  == PageTaken(pm_arenas, "USER").paddr
                pages == Append(el_load.pages, page)
            IN  /\ el_mem' = Stored(page, PageCells(h, k), k * PAGE_SIZE)
                /\ el_load' = IF Len(pages) < PagesOf(MemSize(h))
                              THEN [el_load EXCEPT !.pages = pages]
                              ELSE [el_load EXCEPT !.pages = << >>, !.todo = Tail(@),
                                        !.segments = Append(@, [header |-> h, pages |-> pages])]
    /\ UNCHANGED <<bootVars, spaceVars, el_procs>>

\* load_elf reads segments[2] for a trace line: with fewer segments it panics,
\* and the panic handler halts.
load_elf_end ==
    /\ ~pm_halted /\ el_load # NoLoad /\ el_load.at = "segments" /\ el_load.todo = << >>
    /\ IF Len(el_load.segments) < 3
       THEN boot_pc' = "panic" /\ el_load' = NoLoad
       ELSE UNCHANGED boot_pc /\ el_load' = [el_load EXCEPT !.at = "space"]
    /\ UNCHANGED <<pmmVars, spaceVars, init_state, boot_offset, boot_arrays, boot_stack, boot_heap,
                   el_procs, el_mem>>

new_space ==
    /\ ~pm_halted /\ el_load # NoLoad /\ el_load.at = "space"
    /\ NewSpace
    /\ el_load' = IF pm_halted' THEN el_load
                  ELSE [el_load EXCEPT !.at = "map", !.todo = el_load.segments,
                                       !.pml4 = PageTaken(pm_arenas, "KERNEL").paddr]
    /\ UNCHANGED <<bootVars, el_procs, el_mem>>

\* map_vmo checks the alignment before it maps the first page of a segment.
Misaligned(s) == s.header.vaddr % PAGE_SIZE # 0

InMapping == ~pm_halted /\ el_load # NoLoad /\ el_load.at = "map" /\ el_load.todo # << >>

map_vmo_misaligned == InMapping /\ Misaligned(Head(el_load.todo)) /\ LoadFails

map_vmo_page ==
    /\ InMapping /\ ~Misaligned(Head(el_load.todo))
    /\ LET s     == Head(el_load.todo)
           k     == Len(el_load.pages)
           vpage == s.header.vaddr \div PAGE_SIZE + k
           w     == MapPage(el_load.pml4, vpage, s.pages[k + 1], s.header.write)
       IN  /\ MappingDone(w)
           /\ el_load' = IF w.halted THEN el_load
                         ELSE IF k + 1 < Len(s.pages)
                         THEN [el_load EXCEPT !.pages = Append(@, s.pages[k + 1])]
                         ELSE [el_load EXCEPT !.pages = << >>, !.todo = Tail(@)]
    /\ UNCHANGED <<bootVars, el_procs, el_mem>>

\* The stack page, zeroed.
stack_page ==
    /\ ~pm_halted /\ el_load # NoLoad /\ el_load.at = "map" /\ el_load.todo = << >>
    /\ pmm_alloc_page("USER")
    /\ IF pm_halted' THEN UNCHANGED <<el_load, el_mem>>
       ELSE LET page == PageTaken(pm_arenas, "USER").paddr
            IN  /\ el_mem' = Stored(page, [c \in 0 .. PAGE_SIZE - 1 |-> Zero], 0)
                /\ el_load' = [el_load EXCEPT !.at = "stack", !.stack = page]
    /\ UNCHANGED <<bootVars, spaceVars, el_procs>>

map_stack ==
    /\ ~pm_halted /\ el_load # NoLoad /\ el_load.at = "stack"
    /\ LET w == MapPage(el_load.pml4, StackPage, el_load.stack, TRUE)
       IN  /\ MappingDone(w)
           /\ el_load' = IF w.halted THEN el_load ELSE [el_load EXCEPT !.at = "kernel_stack"]
    /\ UNCHANGED <<bootVars, el_procs, el_mem>>

\* The caller takes the kernel stack page by page.
kernel_stack_page ==
    /\ ~pm_halted /\ el_load # NoLoad /\ el_load.at = "kernel_stack"
    /\ Len(el_load.kstack) < KSTACK_PAGES
    /\ pmm_alloc_page("KERNEL")
    /\ el_load' = IF pm_halted' THEN el_load
                  ELSE [el_load EXCEPT !.kstack = Append(@, PageTaken(pm_arenas, "KERNEL").paddr)]
    /\ UNCHANGED <<bootVars, spaceVars, el_procs, el_mem>>

\* The process enters the table; the first one is executed, which loads CR3.
process_created ==
    /\ ~pm_halted /\ el_load # NoLoad /\ el_load.at = "kernel_stack"
    /\ Len(el_load.kstack) = KSTACK_PAGES
    /\ el_procs' = Append(el_procs, [pml4 |-> el_load.pml4, segments |-> el_load.segments,
                                     stack |-> el_load.stack, kstack |-> el_load.kstack])
    /\ el_load' = NoLoad
    /\ cr3' = IF boot_pc = "load_init" THEN el_load.pml4 ELSE cr3
    /\ boot_pc' = "running"
    /\ UNCHANGED <<pmmVars, as_tables, init_state, boot_offset, boot_arrays, boot_stack, boot_heap,
                   el_mem>>

\* A context switch loads the next process's root.
context_switch_space(p) ==
    /\ ~pm_halted /\ el_load = NoLoad /\ boot_pc = "running"
    /\ activate(el_procs[p].pml4)
    /\ UNCHANGED <<bootVars, el_load, el_procs, el_mem>>

Booting == BootNext /\ UNCHANGED <<spaceVars, el_load, el_procs, el_mem>>

ElfLoaderNext ==
    \/ Booting
    \/ \E image \in Images : load_elf_begin(image)
    \/ segment_beyond_file
    \/ segment_empty
    \/ segment_page
    \/ load_elf_end
    \/ new_space
    \/ map_vmo_misaligned
    \/ map_vmo_page
    \/ stack_page
    \/ map_stack
    \/ kernel_stack_page
    \/ process_created
    \/ \E p \in DOMAIN el_procs : context_switch_space(p)

ElfLoaderSpec == ElfLoaderInit /\ [][ElfLoaderNext]_loaderVars

-----------------------------------------------------------------------------
\* What a process sees at the cells of one of its segments.
SegmentInPlace(pml4, s) ==
    \A c \in 0 .. MemSize(s.header) - 1 :
        LET addr == s.header.vaddr + c
            e    == Translate(as_tables, pml4, addr \div PAGE_SIZE)
        IN  /\ e # NotPresent /\ e.user /\ e.write = s.header.write
            /\ el_mem[e.paddr + (addr % PAGE_SIZE)] =
                 IF c < s.header.filesz THEN <<el_load.image.name, s.header.offset + c>> ELSE Zero

(* When load_elf_process is done, the new tables show the program at the    *)
(* addresses its headers ask for: every file cell, then zeros up to the     *)
(* memory size, writable as the header says, and a stack of zeros.          *)
ImageInPlace ==
    (el_load # NoLoad /\ el_load.at = "kernel_stack") =>
        /\ \A i \in DOMAIN el_load.segments : SegmentInPlace(el_load.pml4, el_load.segments[i])
        /\ Translate(as_tables, el_load.pml4, StackPage)
             = [paddr |-> el_load.stack, write |-> TRUE, user |-> TRUE]

(* Kernel stacks are used as one block although their pages are asked for   *)
(* one at a time (init_kernel_stack, sys_process_create): they follow each  *)
(* other, because no page is ever given back in between.                    *)
StacksContiguous ==
    LET contiguous(s) == \A i \in 2 .. Len(s) : s[i] = s[i - 1] + PAGE_SIZE
    IN  /\ contiguous(boot_stack)
        /\ \A p \in DOMAIN el_procs : contiguous(el_procs[p].kstack)

(* From the boot allocator to the last program's kernel stack, memory is    *)
(* laid out as the code that uses it assumes (init_early,                   *)
(* init_kernel_stack, sys_process_create): page arrays in their buffer,     *)
(* reserved pages untouched, stacks in one block.                           *)
MemoryLaidOut == PageArraysFit /\ ReservedNeverUsed /\ StacksContiguous

(* Every process keeps its own memory: the pages of its segments stay at    *)
(* their addresses in its address space whatever is loaded afterwards       *)
(* (process/mod.rs: "isolated execution contexts with their own address     *)
(* spaces").                                                                *)
ProcessesIsolated ==
    \A p \in DOMAIN el_procs : \A i \in DOMAIN el_procs[p].segments :
        LET s == el_procs[p].segments[i]
        IN  \A k \in DOMAIN s.pages :
                Translate(as_tables, el_procs[p].pml4,
                          s.header.vaddr \div PAGE_SIZE + k - 1).paddr = s.pages[k]
=============================================================================
