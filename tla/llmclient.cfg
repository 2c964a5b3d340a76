CONSTANTS
    Timeout = 3
    Sleep = 1
    MaxCalls = 2
    Faults = {"network", "reply", "cancel"}
SPECIFICATION FairSpec
INVARIANTS TypeOK CallBounded CancelEndsCall OnlyLateAnswersMissed
PROPERTY ImplementsLLMService
CHECK_DEADLOCK FALSE
