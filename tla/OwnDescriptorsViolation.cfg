SPECIFICATION Spec
CONSTANTS
    MAX_PROCESSES = 3
    MAX_FDS = 5
    Inodes <- MCInodes
    FileSize <- MCFileSize
    I64_HALF = 3
    Lengths = {0, 1, 3}
PROPERTY OwnDescriptors
