SPECIFICATION Spec
CONSTANTS
    un1 = un1
    un2 = un2
    alice = alice
    bob = bob
    carol = carol
    Unions <- MCUnions
    Members <- MCMembers
    UnionOf <- MCUnionOf
    Requests = {r1, r2}
    Matches = {m1}
    Tasks = {t1}
    Titles = {x, y}
    NoRow = NoRow
INVARIANT TypeOK
PROPERTIES
    ImplementsDecisionLog
    RejectionSticks
    DecidedByOwnUnion
    PatchKeepsOtherFields
CHECK_DEADLOCK FALSE
