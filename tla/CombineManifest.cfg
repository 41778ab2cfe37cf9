CONSTANTS
    Checkouts <- MCCheckouts
    SkipDirs = {3}
    BadSlugs = {"B d"}
    MaxLogo = 4
    MaxRuns = 2
    MaxMissed = 1
    None = None
    Cut = Cut
    NotAnImage = NotAnImage
    Absent = Absent
    Null = Null
SPECIFICATION Spec
INVARIANTS
    CatalogIsSound
    RefusalHasReason
    LogosAgree
