CONSTANTS
    a = a
    b = b
    c = c
    Tokens = {a, b, c}
    Datasets <- MCDatasets
    Configs <- MCConfigs
    DefaultBudget = 3
    Unit = 300
    CustomScorer <- MCScorer
SPECIFICATION FairSpec
INVARIANTS TypeOK FrontierCovers RatedDataTeachesNothing ResultIsRanked
PROPERTIES BestOnlyImproves Terminates
CHECK_DEADLOCK FALSE
