CONSTANTS
    v1 = v1
    v2 = v2
    v3 = v3
    r1 = r1
    Variants <- MCVariants
    CandidateSets <- MCCandidateSets
    Readers = {r1}
    MaxAge = 3
    MinTTL = 1
    LookupTicks = 1
    UnusedTTL = 1
    Modes = {"layered", "redis"}
    Faults = {"redis", "pg", "restart", "crash"}
SPECIFICATION FairSpec
INVARIANTS TypeOK OnePromotionActive LifeBound AckedIsCachedAlone
PROPERTIES ImplementsService Converges
