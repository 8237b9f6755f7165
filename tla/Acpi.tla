-------------------------------- MODULE Acpi --------------------------------
(***************************************************************************)
(* Finding the interrupt controllers (acpi/rsdp.rs, rsdt.rs, madt.rs): the  *)
(* search for the RSDP in the BIOS area and then in the EBDA, the search of *)
(* its RSDT for a MADT, and the walk over the MADT's entries.  A machine is *)
(* what its firmware put in memory.  A checksum is good or bad; an entry of *)
(* the MADT is [kind, length, gsi_base].                                    *)
(***************************************************************************)
EXTENDS Integers, Sequences, SequencesExt

CONSTANTS
    Machines,        \* [rom, ebda : sequences of paragraphs, rsdt, tables]
    MADT_HEADER,     \* size of the SDT header and the two fields after it (44)
    MAX_LOCAL_APICS, MAX_IO_APICS, MAX_OVERRIDES,
    PINS             \* GSIs taken to belong to an I/O APIC (24)

\* The entries of a MADT are at least as long as their header.
ASSUME AcpiAssumption ==
    \A m \in Machines : \A i \in DOMAIN m.tables :
        \A j \in DOMAIN m.tables[i].entries : m.tables[i].entries[j].length >= 2

VARIABLES
    machine,
    ac_pc,       \* "rom", "ebda", "rsdt", "tables", "madt", "parsed" or "none"
    ac_at,       \* paragraph, table or byte offset the loop is at
    ac_rsdp,     \* <<area, paragraph>> of the RSDP found
    ac_table,    \* index of the MADT found
    local_apics, io_apics, overrides   \* ParsedMadt

acpiVars == <<machine, ac_pc, ac_at, ac_rsdp, ac_table, local_apics, io_apics, overrides>>

parsed == <<local_apics, io_apics, overrides>>

AcpiInit ==
    /\ machine \in Machines
    /\ ac_pc = "rom" /\ ac_at = 1 /\ ac_rsdp = << >> /\ ac_table = 0
    /\ local_apics = << >> /\ io_apics = << >> /\ overrides = << >>

-----------------------------------------------------------------------------
\* The signature and then the checksum.
IsRsdp(paragraph) == paragraph = "rsdp"

search_rsdp_in_range_NoAdvance(area, next) ==
    LET paragraphs == machine[area] IN
    /\ ac_pc = area
    /\ IF ac_at > Len(paragraphs) THEN ac_pc' = next /\ ac_at' = 1 /\ UNCHANGED ac_rsdp
       ELSE IF IsRsdp(paragraphs[ac_at])
       THEN ac_pc' = "rsdt" /\ ac_rsdp' = <<area, ac_at>> /\ UNCHANGED ac_at
       ELSE /\ ac_at' = IF paragraphs[ac_at] = "other" THEN ac_at + 1 ELSE ac_at
            /\ UNCHANGED <<ac_pc, ac_rsdp>>
    /\ UNCHANGED <<machine, ac_table, parsed>>

\* One turn of the loop over an area; when the area ends, on to next.
search_rsdp_in_range(area, next) ==
    LET paragraphs == machine[area] IN
    /\ ac_pc = area
    /\ IF ac_at > Len(paragraphs) THEN ac_pc' = next /\ ac_at' = 1 /\ UNCHANGED ac_rsdp
       ELSE IF IsRsdp(paragraphs[ac_at])
       THEN ac_pc' = "rsdt" /\ ac_rsdp' = <<area, ac_at>> /\ UNCHANGED ac_at
       ELSE ac_at' = ac_at + 1 /\ UNCHANGED <<ac_pc, ac_rsdp>>
    /\ UNCHANGED <<machine, ac_table, parsed>>

\* The BIOS area comes first, then the EBDA, if there is one.
find_rsdp == search_rsdp_in_range("rom", "ebda") \/ search_rsdp_in_range("ebda", "none")

check_rsdt ==
    /\ ac_pc = "rsdt"
    /\ ac_pc' = IF machine.rsdt = "good" THEN "tables" ELSE "none"
    /\ ac_at' = 1
    /\ UNCHANGED <<machine, ac_rsdp, ac_table, parsed>>

IsMadt(table) == table.signature = "APIC" /\ table.good

\* One entry of the RSDT; a MADT with a bad checksum is passed over.
find_table_in_rsdt ==
    /\ ac_pc = "tables"
    /\ IF ac_at > Len(machine.tables)
       THEN ac_pc' = "none" /\ UNCHANGED <<ac_at, ac_table>>
       ELSE IF IsMadt(machine.tables[ac_at])
       THEN ac_pc' = "madt" /\ ac_at' = MADT_HEADER /\ ac_table' = ac_at
       ELSE ac_at' = ac_at + 1 /\ UNCHANGED <<ac_pc, ac_table>>
    /\ UNCHANGED <<machine, ac_rsdp, parsed>>

-----------------------------------------------------------------------------
MadtEntries == machine.tables[ac_table].entries

\* Offset of entry j, and the length in the table's header.
StartOf(j) == FoldLeft(LAMBDA sum, e : sum + e.length, MADT_HEADER, SubSeq(MadtEntries, 1, j - 1))

TableLength == StartOf(Len(MadtEntries) + 1)

EntryAt(offset) == MadtEntries[CHOOSE j \in DOMAIN MadtEntries : StartOf(j) = offset]

Kept_OneMore(list, entry, kind, max) ==
    IF entry.kind = kind /\ Len(list) <= max THEN Append(list, entry) ELSE list

\* An entry is kept while its array has room and dropped after that.
Kept(list, entry, kind, max) ==
    IF entry.kind = kind /\ Len(list) < max THEN Append(list, entry) ELSE list

parse_madt ==
    /\ ac_pc = "madt"
    /\ IF ac_at >= TableLength
       THEN ac_pc' = "parsed" /\ UNCHANGED <<ac_at, parsed>>
       ELSE LET entry == EntryAt(ac_at) IN
            /\ local_apics' = Kept(local_apics, entry, "local_apic", MAX_LOCAL_APICS)
            /\ io_apics' = Kept(io_apics, entry, "io_apic", MAX_IO_APICS)
            /\ overrides' = Kept(overrides, entry, "override", MAX_OVERRIDES)
            /\ ac_at' = ac_at + entry.length
            /\ UNCHANGED ac_pc
    /\ UNCHANGED <<machine, ac_rsdp, ac_table>>

\* The index of the I/O APIC taken to serve a GSI, 0 when there is none.
find_ioapic_for_gsi(gsi) ==
    SelectInSeq(io_apics, LAMBDA e : e.gsi_base <= gsi /\ gsi < e.gsi_base + PINS)

AcpiNext == find_rsdp \/ check_rsdt \/ find_table_in_rsdt \/ parse_madt

AcpiFairness == WF_acpiVars(AcpiNext)

-----------------------------------------------------------------------------
FirstOf(kind, max) ==
    LET of == SelectSeq(MadtEntries, LAMBDA e : e.kind = kind)
    IN  SubSeq(of, 1, IF Len(of) < max THEN Len(of) ELSE max)

(* The walk ends, and on the entry boundary at the end of the table: it     *)
(* neither reads an entry that starts inside another one nor past the end,  *)
(* and it keeps exactly the first entries of each kind, in table order, up  *)
(* to the sizes of the arrays of ParsedMadt.                                *)
MadtComplete ==
    /\ ac_pc = "madt" => \E j \in 1 .. Len(MadtEntries) + 1 : ac_at = StartOf(j)
    /\ ac_pc = "parsed" => /\ local_apics = FirstOf("local_apic", MAX_LOCAL_APICS)
                           /\ io_apics = FirstOf("io_apic", MAX_IO_APICS)
                           /\ overrides = FirstOf("override", MAX_OVERRIDES)

Valid(area) == {i \in DOMAIN machine[area] : machine[area][i] = "rsdp"}

(* The tables come from the first RSDP with a good checksum, and one in the *)
(* EBDA is used only when the whole BIOS area has none.                     *)
FirstRsdpUsed ==
    ac_rsdp # << >> =>
        /\ ac_rsdp[2] \in Valid(ac_rsdp[1]) /\ \A i \in Valid(ac_rsdp[1]) : ac_rsdp[2] <= i
        /\ ac_rsdp[1] = "ebda" => Valid("rom") = {}

(* The search and the walk come to an end on every well-formed machine.     *)
AcpiSearchEnds == (ac_pc = "rom") ~> (ac_pc \in {"parsed", "none"})

\* The I/O APICs whose first GSI is the last one at or below gsi.
Owners(gsi) ==
    LET below == {k \in DOMAIN io_apics : io_apics[k].gsi_base <= gsi}
    IN  {k \in below : \A j \in below : io_apics[j].gsi_base <= io_apics[k].gsi_base}

(* On a machine whose I/O APICs have the pins the code takes them to have,  *)
(* find_ioapic_for_gsi gives each GSI to the I/O APIC that numbers it, in   *)
(* whatever order the MADT lists them.                                      *)
GsiGoesToOwner ==
    \A k \in DOMAIN io_apics : \A pin \in 0 .. PINS - 1 :
        find_ioapic_for_gsi(io_apics[k].gsi_base + pin) \in Owners(io_apics[k].gsi_base + pin)

(* The interrupt controllers found are those the firmware's first valid     *)
(* tables list, and each GSI leads to its own (find_rsdp, parse_madt,       *)
(* find_ioapic_for_gsi).                                                    *)
ControllersFound == FirstRsdpUsed /\ MadtComplete /\ GsiGoesToOwner
=============================================================================
