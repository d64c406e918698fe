SPECIFICATION Spec
CONSTANTS
    Users = {u1}
    Requests = {r1, r2}
    AccessTTL = 2
    RefreshTTL = 3
    BlacklistTTL = 2
    MaxTime = 3
    NoToken = NoToken
SYMMETRY RequestSymmetry
INVARIANTS
    TypeOK
    QuietLogoutEndsSession
    LogoutOutlastingTokenRevokes
