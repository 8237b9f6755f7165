--------------------------- MODULE MCMemoryDevices ---------------------------
(***************************************************************************)
(* Memory management and the devices, checked in one run.  The parts share  *)
(* no state but the page allocator, which the allocator's own part, VMOs    *)
(* and the boot and loader part start and use each in their own way, so     *)
(* each behaviour chooses one part in its initial state and leaves the      *)
(* others where they start.                                                 *)
(***************************************************************************)
EXTENDS MCRamdisk, Heap, Vmo, MCElfLoader, Console, Interrupts, Acpi, Keyboard

-----------------------------------------------------------------------------
(* Sizes and alignments asked of the heap.                                  *)
MCRequests == {<<6, 2>>, <<14, 2>>, <<22, 2>>, <<7, 8>>}

(* One zone for VMOs, the loader's two zones, and four arenas for the       *)
(* allocator alone: one of each kind, one smaller than a page.              *)
MCVmZone == [base |-> 140, size |-> 10, flags |-> {"LOW_MEM", "USER"}]

ArenaRegions == {[base |-> 120, size |-> 6, flags |-> {"LOW_MEM", "KERNEL"}],
                 [base |-> 126, size |-> 5, flags |-> {"LOW_MEM", "USER"}],
                 [base |-> 134, size |-> 1, flags |-> {"LOW_MEM"}],
                 [base |-> 136, size |-> 2, flags |-> {"HIGH_MEM"}]}

MCRegions == ZoneRegions \cup ArenaRegions \cup {MCVmZone}

MCRanges == {[offset |-> 0, length |-> 3], [offset |-> 1, length |-> 4], [offset |-> 2, length |-> 1]}

(* One glyph of two dots, and two pairs of colours.                         *)
MCGlyph == [ch \in {"a"} |-> {<<0, 1>>, <<1, 0>>}]
MCInks == {<<"white", "black">>, <<"black", "blue">>}

(* Firmware: every content of two paragraphs of BIOS area and of EBDA with  *)
(* an empty MADT, and every MADT of at most four entries behind another     *)
(* table or behind a MADT with a bad checksum.                              *)
MCMadtEntry(kind, length, base) == [kind |-> kind, length |-> length, gsi_base |-> base]

MCMadts == UNION {[1 .. n -> {MCMadtEntry("local_apic", 8, 0), MCMadtEntry("io_apic", 12, 0),
                              MCMadtEntry("io_apic", 12, 2), MCMadtEntry("override", 10, 0),
                              MCMadtEntry("nmi", 6, 0)}] : n \in 0 .. 4}

MCTable(signature, good, entries) == [signature |-> signature, good |-> good, entries |-> entries]

MCFirmware(rom, ebda, rsdt, tables) ==
    [rom |-> rom, ebda |-> ebda, rsdt |-> rsdt, tables |-> tables]

MCMachines ==
    LET paragraphs == [1 .. 2 -> {"other", "corrupt", "rsdp"}]
        broken == MCTable("APIC", FALSE, <<MCMadtEntry("io_apic", 12, 2)>>)
    IN  {MCFirmware(rom, ebda, rsdt, <<MCTable("APIC", TRUE, << >>)>>) :
            rom \in paragraphs, ebda \in {<< >>} \cup paragraphs, rsdt \in {"good", "bad"}}
        \cup {MCFirmware(<<"rsdp">>, << >>, "good", <<first, MCTable("APIC", TRUE, entries)>>) :
            first \in {MCTable("FACP", TRUE, << >>), broken}, entries \in MCMadts}

-----------------------------------------------------------------------------
VARIABLE part

objectVars == <<vm_objs, vm_mem, vm_call, vm_last, vm_raced, vm_writes>>
programVars == <<bootVars, spaceVars, el_load, el_procs, el_mem>>
memoryVars == <<vars, heapVars, pmmVars, objectVars, programVars>>
peripheralVars == <<consoleVars, interruptVars, acpiVars, keyboardVars>>

\* No search is under way in the parts that are not about ACPI.
AcpiIdle ==
    /\ machine = MCFirmware(<< >>, << >>, "bad", << >>)
    /\ ac_pc = "none" /\ ac_at = 1 /\ ac_rsdp = << >> /\ ac_table = 0
    /\ local_apics = << >> /\ io_apics = << >> /\ overrides = << >>

MemoryDevicesInit ==
    /\ part \in {"ramdisk", "heap", "pages", "vmo", "programs",
                 "console", "interrupts", "acpi", "keyboard"}
    /\ Init /\ (part # "ramdisk" => files = <<[name |-> <<1>>, data |-> <<1>>]>>)
    /\ InterruptsInit /\ (part # "interrupts" => ~if_flag /\ ~kbd.irq)
    /\ IF part = "vmo" THEN VmoInit ELSE PmmInit /\ ObjectsStart
    /\ IF part = "acpi" THEN AcpiInit ELSE AcpiIdle
    /\ HeapInit /\ LoaderStart /\ ConsoleInit /\ KeyboardInit

Memory ==
    /\ \/ part = "ramdisk" /\ Next /\ UNCHANGED <<heapVars, pmmVars, objectVars, programVars>>
       \/ part = "heap" /\ HeapNext /\ UNCHANGED <<vars, pmmVars, objectVars, programVars>>
       \/ /\ part = "pages" /\ PmmNext /\ UNCHANGED <<vars, heapVars, objectVars, programVars>>
          /\ \A k \in DOMAIN pm_arenas' : \E r \in ArenaRegions : r.base = pm_arenas'[k].base
       \/ part = "vmo" /\ VmoNext /\ UNCHANGED <<vars, heapVars, programVars>>
       \/ part = "programs" /\ ElfLoaderNext /\ UNCHANGED <<vars, heapVars, objectVars>>
    /\ UNCHANGED <<part, peripheralVars>>

Devices ==
    /\ \/ part = "console" /\ ConsoleNext /\ UNCHANGED <<interruptVars, acpiVars, keyboardVars>>
       \/ part = "interrupts" /\ InterruptsNext /\ UNCHANGED <<consoleVars, acpiVars, keyboardVars>>
       \/ part = "acpi" /\ AcpiNext /\ UNCHANGED <<consoleVars, interruptVars, keyboardVars>>
       \/ part = "keyboard" /\ KeyboardNext /\ UNCHANGED <<consoleVars, interruptVars, acpiVars>>
    /\ UNCHANGED <<part, memoryVars>>

\* Only the ACPI search has a liveness property.
MemoryDevicesSpec ==
    /\ MemoryDevicesInit
    /\ [][Memory \/ Devices]_<<part, memoryVars, peripheralVars>>
    /\ WF_acpiVars(part = "acpi" /\ AcpiNext)

-----------------------------------------------------------------------------
(* The type invariants of the parts, with what they say of memory: free     *)
(* lists lead to headers (Heap), arenas respect their array (Pmm), and the  *)
(* console draws inside the picture (framebuffer.rs).                       *)
DevicesTypeOK ==
    /\ TypeOK /\ HeapTypeOK /\ PmmTypeOK /\ VmoTypeOK /\ ConsoleTypeOK /\ KeyboardTypeOK
=============================================================================
