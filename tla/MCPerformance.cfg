SPECIFICATION PerfSpec
CONSTANTS
    ann = ann
    bob = bob
    cho = cho
    Members <- MCMembers
    Periods = {1, 2}
    GroupOf <- MCGroupOf
    PerfRows <- MCRows
    Legacy <- MCLegacy
    Scale = 60
    Null = Null
INVARIANTS
    AnalysisFitsTogether
    MissingOnlyMidLoad
    AverageIsMean
    HitRatesAgree
    SuggestionsAreBest
