SPECIFICATION Spec
CONSTANTS
    Requests = {r1, r2}
    Uploads = {u1}
    MaxLength = 2
    RowNumbers = {0, 1}
    NoRow = NoRow
    NoFile = NoFile
INVARIANTS
    TypeOK
    ValidHasNoErrors
PROPERTY OnlyStaleWritesMix
CHECK_DEADLOCK FALSE
