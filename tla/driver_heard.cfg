CONSTANTS
    NConvs = 3
    VariantOf <- MCVariantOf
    Inputs <- MCInputs
    MaxRatings = 3
    MinSamples = 2
    TopN = 2
    Buffer = 2
    Modes = {"layered"}
    Faults = {"llm", "crash"}
SPECIFICATION FairSpec
PROPERTY ComplaintsAreHeard
