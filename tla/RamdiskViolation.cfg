SPECIFICATION Spec
CONSTANTS
    Names <- MCNames
    Contents <- MCContents
    MAX_FILES = 2
    MAX_NAME = 8
INVARIANT EveryFileReadable
