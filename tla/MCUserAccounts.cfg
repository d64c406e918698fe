SPECIFICATION Spec
CONSTANTS
    Requests = {r1, r2}
    Ids = {id1, id2}
    Logins = {farmer, admin}
    Passwords = {p1}
    Names = {n1, n2}
    Phones = {tel, mob}
    Null = Null
    NoRow = NoRow
SYMMETRY Symmetry
INVARIANTS TypeOK LoginsUnique
PROPERTIES ProfileKeepsOtherFields PatchIsAllOrNothing
