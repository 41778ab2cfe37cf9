CONSTANTS
    Listings <- SmallLists
    OtherAnswers <- AnyCursors
    Nameless = {1}
    MaxPages = 2
    DetailWorkers = 2
SPECIFICATION FairSpec
INVARIANTS
    TruncationIsLoud
    NoPageIsSkipped
    FindingsAreWhole
    NoWorkerOutlives
PROPERTIES
    CollectionEnds
    CollectsForItsJob
