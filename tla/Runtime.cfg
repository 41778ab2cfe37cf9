CONSTANTS
    e1 = e1
    e2 = e2
    Execs = {e1, e2}
    MsgCap = 1
    ErrCap = 1
    MaxResults <- OneResultInAll
    MaxCancels = 2
    Pipelined = TRUE
    CtxEnds = TRUE
SPECIFICATION FairSpec
INVARIANTS
    OneExecution
    CancelMapIsExact
    DoneIsFinal
    LostDoneEndsRun
    ReturnsForTheStreamOnly
PROPERTIES
    TroubleIsSettled
    GateIsReturned
