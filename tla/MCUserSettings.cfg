SPECIFICATION Spec
CONSTANTS
    Requests = {r1, r2}
    Users = {u1, u2}
    Members = {m1, m2}
    Bodies = {b1}
    Default = Default
    Nothing = Nothing
    Notes = {n1}
    Null = Null
    MaxBatch = 3
INVARIANTS
    TypeOK
    LinksInjective
PROPERTIES
    OnlyOverlapsDuplicate
    FirstLinkStands
