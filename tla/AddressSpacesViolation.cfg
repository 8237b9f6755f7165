INIT ElfLoaderInit
NEXT ElfLoaderNext
CONSTANTS
    MAX_ARENAS = 2
    PAGE_SIZE = 2
    MaxCount = 2
    Regions <- ZoneRegions
    KernelZone <- KZone
    UserZone <- UZone
    STACK_BASE = 0
    STACK_PAGES = 2
    HEAP_PADDR = 68
    HEAP_PAGES = 6
    BootBuffer = 160
    PageStruct = 3
    PageAlign = 4
    RADIX = 2
    KernelPml4 = 200
    KernelTables <- MCKernelTables
    NotPresent = NotPresent
    Images <- MCImages
    MAX_LOAD = 4
    KSTACK_PAGES = 2
    StackPage = 15
    MaxProcesses = 3
    NoLoad = NoLoad
INVARIANT ProcessesIsolated
CHECK_DEADLOCK FALSE
