\* All files of up to three records, two entries per commit, one failure.
SPECIFICATION Spec
CONSTANTS
    Shapes <- AllShapes
    MaxRecords = 3
    EntriesPerCommit = 2
    MaxFails = 1
CHECK_DEADLOCK FALSE
INVARIANTS
    TypeOK
    FaultOnlyIfMalformed
    TableIsFile
    BatchesWhole
    NothingLeftOpen
