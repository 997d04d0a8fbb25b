CONSTANTS
    Emails = {e1, e2}
    Versions = {v1, v2}
    MaxRecords = 3
SYMMETRY Interchangeable
SPECIFICATION Spec
INVARIANTS
    TypeOK
    OneTextPerVersion
    ErasureTraceable
    StatusTruthful
    DutiesCanBeMet
PROPERTIES
    ClosedForGood
CHECK_DEADLOCK FALSE
