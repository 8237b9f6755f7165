SPECIFICATION Spec
CONSTANTS
    MAX_HANDLES = 2
    Objects = {o1, o2}
    Callers = {c1, c2}
    NoObject = none
    Rights = {"READ", "DUPLICATE"}
    MaxRefs = 2
SYMMETRY Symmetry
INVARIANTS TypeOK ReferencesAccountedFor RightsNeverGrow
