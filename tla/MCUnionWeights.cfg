SPECIFICATION WeightsSpec
CONSTANTS
    Requests = {r1, r2}
    Unions = {un1}
    Total = 3
    Default <- MCDefault
    NoRow = NoRow
INVARIANT WeightsTypeOK
PROPERTY OnlyStaleWritesUnbalance
