CONSTANTS
    MAX_PROCESSES = 4
    Contexts = {c1}
SPECIFICATION SpecRR
INVARIANT ScheduledIsOnCpu
