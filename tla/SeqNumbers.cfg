SPECIFICATION SeqSpec
CONSTANTS
    MaxSeq = 9
    Writers = {runner, mcp}
CHECK_DEADLOCK FALSE
SYMMETRY SymmetricWriters
INVARIANTS
    SeqTypeOK
    ContainerRowsApart
