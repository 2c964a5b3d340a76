CONSTANTS
    NConvs = 3
    VariantOf <- MCVariantOf
    Inputs <- MCInputs
    MaxRatings = 3
    MinSamples = 2
    TopN = 3
    Buffer = 2
    Modes = {"layered"}
    Faults = {}
SPECIFICATION Spec
INVARIANT UsedWasSampled
