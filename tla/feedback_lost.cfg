CONSTANTS
    c1 = c1
    c2 = c2
    h1 = h1
    h2 = h2
    v1 = v1
    None = None
    Convs = {c1, c2}
    Variants = {v1}
    ServedBy <- MCServedBy
    Clients = {"source"}
    Handlers = {h1, h2}
    MaxSends = 2
    MaxRatings = 3
    MaxRolled = 4
    MaxRepeated = 0
    Faults = {}
SPECIFICATION Spec
INVARIANT NoRatingLost
