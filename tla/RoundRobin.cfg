SPECIFICATION FairSpecRR
CONSTANTS
    MAX_PROCESSES = 4
    Contexts = {c1}
INVARIANT OnlyScheduledRuns
 
