SPECIFICATION FairSpec
CONSTANTS
    None = None
    u1 = u1  w1 = w1  w2 = w2  c1 = c1  i1 = i1  i2 = i2  i3 = i3  i4 = i4
    Usernames = {u1}
    Workers = {w1, w2}
    Crons = {}
    RowIds = {i1, i2, i3}
    Faults = FALSE
    MaxRequests = 3
PROPERTIES PendingResolves PollingSettles
CHECK_DEADLOCK FALSE
