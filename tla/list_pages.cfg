\* Every page, two rows, two requests; the rows are interchangeable.  The bounds stop it.
SPECIFICATION Spec
CONSTANTS
    None = None
    Row = {r1, r2}
    MaxRequests = 2
    MaxElsewhere = 1
INVARIANTS BusyIsReal ReadYourWrites
PROPERTY SavesInOrder
SYMMETRY Permuted
CHECK_DEADLOCK FALSE
