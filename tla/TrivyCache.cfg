CONSTANTS
    Containers = {c1, c2}
    MaxJobs = 2
    MaxKills = 1
SPECIFICATION FairSpec
INVARIANTS
    ScansReadStableDBs
    DownloadKeepsItsFiles
    ScanHasItsDBs
    LocksAreReturned
PROPERTIES
    NoJobIsHeldUp
