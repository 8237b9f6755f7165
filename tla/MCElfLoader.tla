----------------------------- MODULE MCElfLoader -----------------------------
(***************************************************************************)
(* A small machine for the loader: pages of two cells, tables of two        *)
(* entries, a kernel zone and a user zone with the heap between them, the   *)
(* firmware's four tables, and six program files.                           *)
(***************************************************************************)
EXTENDS ElfLoader

KZone == [base |-> 0, size |-> 68, flags |-> {"LOW_MEM", "KERNEL"}]
UZone == [base |-> 80, size |-> 32, flags |-> {"LOW_MEM", "USER"}]

ZoneRegions == {KZone, UZone}

Link(a) == [paddr |-> a, write |-> TRUE, user |-> FALSE]

\* Root, PDP and PD with one entry each, and a full last table.
MCKernelTables ==
    LET one(next) == [i \in 0 .. 1 |-> IF i = 0 THEN Link(next) ELSE NotPresent]
    IN  [t \in {200, 202, 204, 206} |->
            IF t = 206 THEN [i \in 0 .. 1 |-> Link(300 + 2 * i)] ELSE one(t + 2)]

Phdr(load, offset, filesz, memsz, vaddr, write) ==
    [load |-> load, offset |-> offset, filesz |-> filesz, memsz |-> memsz, vaddr |-> vaddr,
     write |-> write]

Image(name, valid, length, inside, headers) ==
    [name |-> name, valid |-> valid, length |-> length, inside |-> inside, headers |-> headers]

\* BSS in the third segment, and a segment of no memory.
GoodHeaders == <<Phdr(TRUE, 0, 3, 3, 4, FALSE), Phdr(FALSE, 0, 1, 1, 0, FALSE),
                 Phdr(TRUE, 3, 2, 2, 8, FALSE), Phdr(TRUE, 4, 0, 0, 12, FALSE),
                 Phdr(TRUE, 5, 1, 4, 10, TRUE)>>

MCImages == {
    Image("good", TRUE, 10, 9, GoodHeaders),
    Image("bad magic", FALSE, 10, 9, GoodHeaders),
    \* Only two headers lie inside the file.
    Image("two", TRUE, 10, 2, <<Phdr(TRUE, 0, 2, 2, 4, FALSE), Phdr(TRUE, 2, 2, 2, 6, TRUE),
                                Phdr(TRUE, 4, 2, 2, 8, TRUE)>>),
    \* An address that is not on a page boundary.
    Image("misaligned", TRUE, 10, 9, <<Phdr(TRUE, 0, 2, 2, 4, FALSE), Phdr(TRUE, 2, 2, 2, 7, TRUE),
                                       Phdr(TRUE, 4, 2, 2, 8, TRUE)>>),
    \* A segment that ends past the end of the file.
    Image("cut", TRUE, 3, 9, <<Phdr(TRUE, 0, 2, 2, 4, FALSE), Phdr(TRUE, 2, 2, 2, 6, TRUE)>>),
    \* More LOAD segments than load_elf keeps.
    Image("five", TRUE, 10, 9, <<Phdr(TRUE, 0, 2, 2, 4, TRUE), Phdr(TRUE, 2, 2, 2, 10, FALSE),
                                 Phdr(TRUE, 4, 1, 3, 16, TRUE), Phdr(TRUE, 4, 1, 1, 20, FALSE),
                                 Phdr(TRUE, 4, 1, 1, 22, FALSE)>>) }
=============================================================================
