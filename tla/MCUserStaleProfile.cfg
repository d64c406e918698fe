SPECIFICATION Spec
CONSTANTS
    Requests = {r1, r2}
    Ids = {id1}
    Logins = {farmer}
    Passwords = {p1, p2}
    Names = {n1}
    Phones = {tel}
    Null = Null
    NoRow = NoRow
SYMMETRY Symmetry
PROPERTIES PatchWritesSentFieldsOnly
