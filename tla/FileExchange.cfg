SPECIFICATION Spec
CONSTANTS
    Missing = missing
    MaxEdits = 3
    MaxAsks = 2
    MaxWire = 2
    MaxAttempts = 2
    MaxUpsets = 1
INVARIANTS
    TypeOK
    TreesAgree
    EditsAccounted
CHECK_DEADLOCK FALSE
