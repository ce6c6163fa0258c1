SPECIFICATION Spec
CONSTANTS
    None = None
    u1 = u1  w1 = w1  w2 = w2  c1 = c1  i1 = i1  i2 = i2  i3 = i3  i4 = i4
    Usernames = {u1}
    Workers = {w1, w2}
    Crons = {c1}
    RowIds = {i1, i2, i3, i4}
    Faults = TRUE
    MaxRequests = 2
SYMMETRY Symmetric
INVARIANTS TypeOK PendingOwnedUntilFault ProgressHasOwner InsertIsOpen
