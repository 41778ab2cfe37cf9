CONSTANTS
    small1 = small1
    small2 = small2
    large = large
    bad = bad
    Finding = {small1, small2, large, bad}
    Invalid = {bad}
    Size <- SizeOf
    OutCap = 2
    MaxFindings = 2
    MaxBytes = 3
SPECIFICATION FairHandleSpec
INVARIANTS
    BatchIsBounded
    DoneNamesTheCause
PROPERTIES
    SlowScanStreams
    PromiseKept
    HandlesTheExecution
