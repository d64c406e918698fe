SPECIFICATION Spec
CONSTANTS
    Requests = {r1, r2}
    Recommendations = {x1, x2}
    Dates = {d1}
    Memos = {m1, m2}
    Null = Null
    NoClaim = NoClaim
INVARIANTS
    TypeOK
    PendingIsBlank
PROPERTIES
    ImplementsDecisionLog
    DecisionsSettle
CHECK_DEADLOCK FALSE
