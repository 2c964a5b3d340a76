CONSTANTS
    c1 = c1
    c2 = c2
    h1 = h1
    h2 = h2
    v1 = v1
    None = None
    Convs = {c1, c2}
    Variants = {v1}
    ServedBy <- MCServedBy
    Clients = {"documented", "source", "variant", "bare"}
    Handlers = {h1}
    MaxSends = 2
    MaxRatings = 2
    MaxRolled = 1
    MaxRepeated = 1
    Faults = {"redis", "pg", "crash"}
SPECIFICATION Spec
INVARIANTS TypeOK  NeverMisattributed
