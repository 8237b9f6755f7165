SPECIFICATION MemoryDevicesSpec
CONSTANTS
    Names <- MCNames
    Contents <- MCContents
    MAX_FILES = 3
    MAX_NAME = 8
    HeapSize = 110
    HeaderSize = 10
    MIN_BLOCK_SIZE = 36
    Requests <- MCRequests
    MaxLive = 3
    Null = Null
    MAX_ARENAS = 2
    PAGE_SIZE = 2
    MaxCount = 2
    Regions <- MCRegions
    VmoIds = {v1, v2}
    VmZone <- MCVmZone
    VmCallers = {c1, c2}
    VmSizes = {1, 4}
    VmRanges <- MCRanges
    MaxWrites = 2
    VmIdle = VmIdle
    Unmade = Unmade
    Unwritten = Unwritten
    KernelZone <- KZone
    UserZone <- UZone
    STACK_BASE = 0
    STACK_PAGES = 2
    HEAP_PADDR = 68
    HEAP_PAGES = 6
    BootBuffer = 160
    PageStruct = 3
    PageAlign = 4
    RADIX = 2
    KernelPml4 = 200
    KernelTables <- MCKernelTables
    NotPresent = NotPresent
    Images <- MCImages
    MAX_LOAD = 4
    KSTACK_PAGES = 2
    StackPage = 15
    MaxProcesses = 3
    NoLoad = NoLoad
    FbWidth = 5
    FbHeight = 5
    FbPitch = 6
    FbGuard = 2
    CHAR_WIDTH = 2
    CHAR_HEIGHT = 2
    TAB = 1
    Glyph <- MCGlyph
    ConInks <- MCInks
    BLACK = "black"
    WHITE = "white"
    Unseen = "unseen"
    NoByte = NoByte
    MaxBytes = 3
    Machines <- MCMachines
    MADT_HEADER = 44
    MAX_LOCAL_APICS = 2
    MAX_IO_APICS = 2
    MAX_OVERRIDES = 1
    PINS = 2
    N = 3
    Keys = {"A", "LeftShift", "LeftCtrl", "RightCtrl"}
INVARIANTS
    DevicesTypeOK  BlocksKept PagesKept  
     KernelUpperTables   ControllersFound
    LeftModifiersTrackKeys
PROPERTIES ConsoleShowsText AcpiSearchEnds ReadsInOrder
CHECK_DEADLOCK FALSE
