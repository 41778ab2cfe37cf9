CONSTANTS
    Tools <- AllTools
    Lines = {a, b, c}
    Profiles = {}
    MaxPrints = 4
    PipeSize = 1
    MaxUrls = 2
    MaxJobs = 2
SPECIFICATION FairSpec
INVARIANTS
    NoProcessOutlivesItsJob
    OutcomeIsTrue
    OnlyKnownFailuresAreSilent
PROPERTIES
    StoppedToolEndsJob
