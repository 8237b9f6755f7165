SPECIFICATION ObjectsSpec
CONSTANTS
    MAX_PER_PRIORITY = 2
    WRAP = 2
    MAX_THREADS = 3
    Priorities = {2, 3}
    MaxThreadIds = 3
    NoThread = 0
    MAX_QUEUE_DEPTH = 3
    WqWrap = 16
    WaiterIds = {w1, w2, w3, w4}
    WqPriorities = {1, 2}
    WqCallers = {c1, c2}
    MaxRefused = 1
    NoEntry = NoEntry
    EvThreads = {t1, t2, t3}
    MaxSignals = 3
    Endpoints = {a}
    ChCallers = {c1, c2}
    MAX_MSG_SIZE = 2
    max_queue_bytes = 2
    ChWrap = 32
    MaxMessages = 3
    MaxJobs = 3
    JobProcesses = {1}
    JobCallers = {c1, c2}
    JobWrap = 8
    MaxMembers = 3
    MAX_PROC_HANDLES = 3
    MAX_THREADS_PER_PROCESS = 2
    PoObjects = {o1, o2}
    PoRights = {"Read"}
    PoThreads = {1}
    PoCallers = {c1, c2}
    Codes = {0, 1}
    PoNone = PoNone
INVARIANTS
    ObjectsTypeOK ThreadsInPlace WaitersAccountedFor 
    DeliveredInOrder BytesBounded MembersKept  ExitedHasCode
PROPERTIES RunQueueIsFifo 
CHECK_DEADLOCK FALSE
