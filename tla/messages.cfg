CONSTANTS
    Absent = Absent
    MaxSlots = 6
    Prices <- MCPrices
    MaxRows = 2
    UnionTypes = {0, 1, 2, 3, 4, 5, 6, 7, 8}
    Cells <- MCCells
SPECIFICATION Spec
CHECK_DEADLOCK FALSE
INVARIANTS ReadsAreChecked CallsReachTheirTable ClientReadsWhatWasMeant
PROPERTY KnownRequestsAnswered
