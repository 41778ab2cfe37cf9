CONSTANTS
    Tools = {"ffuf"}
    Lines = {a}
    Profiles = {p1, p2}
    MaxPrints = 1
    PipeSize = 1
    MaxUrls = 1
    MaxJobs = 2
SPECIFICATION Spec
INVARIANT JobSeesItsProfile
