CONSTANTS
    Listings <- SmallLists
    OtherAnswers = {}
    Nameless = {1}
    MaxPages = 2
    DetailWorkers = 2
SPECIFICATION CollectSpec
INVARIANT
    NeverTruncatesSilently
