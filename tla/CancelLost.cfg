CONSTANTS
    e1 = e1
    e2 = e2
    Execs = {e1, e2}
    MsgCap = 1
    ErrCap = 2
    MaxResults <- OneResultEach
    MaxCancels = 1
    Pipelined = FALSE
    CtxEnds = FALSE
SPECIFICATION Spec
PROPERTY CancelReachesExecution
