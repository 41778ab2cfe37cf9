CONSTANTS
    Jobs = {j1, j2, j3}
    Owner = Owner
SPECIFICATION Spec
SYMMETRY Symmetry
INVARIANTS
    OwnerKeepsAll
    FailureKeepsData
    FindingsBeforeCleanUp
    NoTraceIsLeft
