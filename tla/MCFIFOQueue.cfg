SPECIFICATION Spec
CONSTANTS
    Objects = {a, b, c}
    size = 4
    NULL = NULL
INVARIANTS
    TypeOK
    SlotsInUse
PROPERTIES
    ImplementsFIFO
