SPECIFICATION Spec
CONSTANTS
    Requests = {r1, r2}
    PoolSize = 2
    Uploads = {b1}
    Configured = TRUE
    Ids = {s1}
    Names = {n1, n2}
    Unions = {un1, un2}
    Advice = {a1}
    Null = Null
    Unused = Unused
    Deleted = Deleted
INVARIANTS
    TypeOK
    ConnectionsAccountedFor
    AnsweredIsStored
PROPERTIES
    DeletedStaysDeleted
    RenameAnsweredIsStored
    ChangedByOwnUnion
    EveryRequestAnswered
