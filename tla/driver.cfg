CONSTANTS
    NConvs = 3
    VariantOf <- MCVariantOf
    Inputs <- MCFewInputs
    MaxRatings = 3
    MinSamples = 2
    TopN = 2
    Buffer = 2
    Modes = {"layered", "redis"}
    Faults = {"redis", "pg", "llm", "crash"}
SPECIFICATION Spec
INVARIANTS TypeOK NotLearntTwice
