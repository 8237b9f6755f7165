---------------------------- MODULE AddressSpace ----------------------------
(***************************************************************************)
(* The page tables of a process (process/address_space.rs): four levels of  *)
(* RADIX entries each (512), kept by the address of the page that holds     *)
(* them.  A new space copies the root that CR3 points to, whoever owns it,  *)
(* and map_page compares with that root again to tell a kernel table, which *)
(* it must copy, from one of its own.                                       *)
(***************************************************************************)
EXTENDS Pmm

CONSTANTS
    RADIX,          \* entries of a table (512)
    KernelPml4,     \* the root the firmware left in CR3
    KernelTables,   \* the tables below it, by address
    NotPresent      \* an entry with the present bit clear

VARIABLES
    as_tables,   \* every page table in memory, by address
    cr3          \* the root in use

spaceVars == <<as_tables, cr3>>

Entries == 0 .. RADIX - 1

\* The four indices of the page number of a virtual address.
pt_index(vpage) == vpage % RADIX
pd_index(vpage) == (vpage \div RADIX) % RADIX
pdp_index(vpage) == (vpage \div (RADIX * RADIX)) % RADIX
pml4_index(vpage) == (vpage \div (RADIX * RADIX * RADIX)) % RADIX

VirtualPages == 0 .. RADIX * RADIX * RADIX * RADIX - 1

EmptyTable == [i \in Entries |-> NotPresent]

\* A kernel table copied for a process: what is present becomes user accessible.
UserCopy(table) ==
    [i \in Entries |-> IF table[i] = NotPresent THEN NotPresent
                       ELSE [table[i] EXCEPT !.user = TRUE]]

AddressSpaceInit == as_tables = KernelTables /\ cr3 = KernelPml4

\* The table at address p of the memory m becomes t.
StoreTable(m, p, t) == [a \in DOMAIN m \cup {p} |-> IF a = p THEN t ELSE m[a]]

\* What map_page works on: the tables, the arenas, and whether a page ran out.
Mapping == [tables |-> as_tables, arenas |-> pm_arenas, taken |-> << >>, halted |-> FALSE]

\* alloc_page_table: a kernel page that holds t, linked from entry i of the table
\* parent.
NewTable(w, parent, i, t) ==
    IF w.halted \/ Serving(w.arenas, "KERNEL") = {} THEN [w EXCEPT !.halted = TRUE]
    ELSE LET page == PageTaken(w.arenas, "KERNEL")
             tab  == StoreTable(w.tables, page.paddr, t)
         IN  [w EXCEPT !.arenas = page.arenas,
                       !.taken = Append(@, page.paddr),
                       !.tables = [tab EXCEPT ![parent][i] =
                           [paddr |-> page.paddr, write |-> TRUE, user |-> TRUE]]]

OwnTable_Reuse(w, parent, i, kernel) ==
    IF w.tables[parent][i] = NotPresent
    THEN NewTable(w, parent, i, IF kernel = NotPresent THEN EmptyTable
                                ELSE UserCopy(w.tables[kernel.paddr]))
    ELSE w

\* The PML4 and PDP levels: an entry equal to the one CR3 leads to, or an empty
\* one, gets a table of the process; any other is taken for its own and kept.
OwnTable(w, parent, i, kernel) ==
    IF w.halted THEN w
    ELSE LET e == w.tables[parent][i]
         IN  IF e = NotPresent \/ (kernel # NotPresent /\ kernel.paddr = e.paddr)
             THEN NewTable(w, parent, i, IF kernel = NotPresent THEN EmptyTable
                                         ELSE UserCopy(w.tables[kernel.paddr]))
             ELSE w

\* The PD level: a present entry is followed, whoever made it.
PtTable(w, pd, i) ==
    IF w.halted \/ w.tables[pd][i] # NotPresent THEN w ELSE NewTable(w, pd, i, EmptyTable)

\* map_page of the space with root pml4.
MapPage(pml4, vpage, paddr, write) ==
    LET i4   == pml4_index(vpage)
        i3   == pdp_index(vpage)
        i2   == pd_index(vpage)
        k4   == as_tables[cr3][i4]
        w4   == OwnTable(Mapping, pml4, i4, k4)
        pdp  == w4.tables[pml4][i4].paddr
        k3   == IF k4 = NotPresent THEN NotPresent ELSE w4.tables[k4.paddr][i3]
        w3   == IF w4.halted THEN w4 ELSE OwnTable(w4, pdp, i3, k3)
        pd   == w3.tables[pdp][i3].paddr
        w2   == IF w3.halted THEN w3 ELSE PtTable(w3, pd, i2)
        pt   == w2.tables[pd][i2].paddr
    IN  IF w2.halted THEN w2
        ELSE [w2 EXCEPT !.tables[pt][pt_index(vpage)] =
                [paddr |-> paddr, write |-> write, user |-> TRUE]]

\* The page tables change to those of w, and its pages are taken.
MappingDone(w) ==
    /\ as_tables' = w.tables /\ pm_arenas' = w.arenas /\ pm_halted' = w.halted
    /\ pm_held' = pm_held \cup {[paddr |-> w.taken[i], flags |-> "KERNEL"] : i \in DOMAIN w.taken}
    /\ UNCHANGED <<pm_reserved, cr3>>

\* AddressSpace::new: a kernel page with a copy of the root in use.
NewSpace ==
    /\ pmm_alloc_page("KERNEL")
    /\ as_tables' = IF pm_halted' THEN as_tables
                    ELSE StoreTable(as_tables, PageTaken(pm_arenas, "KERNEL").paddr,
                                    as_tables[cr3])
    /\ UNCHANGED cr3

activate(pml4) == cr3' = pml4 /\ UNCHANGED <<pmmVars, as_tables>>

\* What the processor finds at a virtual page under a root.
Translate(tables, pml4, vpage) ==
    LET e4 == tables[pml4][pml4_index(vpage)]
        e3 == IF e4 = NotPresent THEN NotPresent ELSE tables[e4.paddr][pdp_index(vpage)]
        e2 == IF e3 = NotPresent THEN NotPresent ELSE tables[e3.paddr][pd_index(vpage)]
    IN  IF e2 = NotPresent THEN NotPresent ELSE tables[e2.paddr][pt_index(vpage)]

-----------------------------------------------------------------------------
(* The kernel's own upper tables (root, PDP, PD) never change, whatever is  *)
(* mapped for a process: map_page must replace, not reuse, a kernel entry   *)
(* (the ownership rule stated in map_page).  The last level is left out: a  *)
(* present PD entry copied from the kernel is followed into its table.      *)
KernelUpperTables ==
    LET entriesOf(t) == {KernelTables[t][i] : i \in Entries} \ {NotPresent}
        pdps == {e.paddr : e \in entriesOf(KernelPml4)}
        pds  == UNION {{e.paddr : e \in entriesOf(p)} : p \in pdps}
    IN  \A t \in {KernelPml4} \cup pdps \cup pds : as_tables[t] = KernelTables[t]
=============================================================================
