CONSTANTS
    v1 = v1
    v2 = v2
    v3 = v3
    r1 = r1
    Variants <- MCVariants
    CandidateSets <- MCCandidateSets
    Readers = {r1}
    MaxAge = 2
    MinTTL = 1
    LookupTicks = 1
    UnusedTTL = 1
    Modes = {"layered"}
    Faults = {}
SPECIFICATION FairSpec
INVARIANT AckedIsCached
