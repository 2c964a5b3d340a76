CONSTANTS
    q1 = q1
    q2 = q2
    c1 = c1
    c2 = c2
    NoConv = NoConv
    None = None
    Requests = {q1, q2}
    Convs = {c1, c2}
    LogCap = 3
    ReadCap = 4
    MaxResent = 1
    Faults = {"upstream", "redis", "pg", "proxy", "optimizer"}
SPECIFICATION FairSpec
INVARIANTS TypeOK PairsAreNewest RowsFromTheirConversation
PROPERTY LoggedIsStored
ACTION_CONSTRAINT Named
CHECK_DEADLOCK FALSE
