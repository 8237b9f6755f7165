SPECIFICATION Spec
CONSTANTS
    MAX_PROCESSES = 4
    Contexts = {c1, c2}
INVARIANTS TypeOK CurrentExists ParentIsOlder
PROPERTIES PidNeverReused
SYMMETRY Symmetry
VIEW WithoutRegisters
