SPECIFICATION Spec
CONSTANTS
    Items = {i1, i2, i3}
    MaxStamp = 3
    MaxKind = 2
    Sizes = {0, 1, 2}
INVARIANTS
    TypeOK
    SkippedRowsExplained
    RepeatsOnlyAfterArrivals
SYMMETRY Symmetry
CHECK_DEADLOCK FALSE
