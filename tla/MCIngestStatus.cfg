SPECIFICATION Spec
CONSTANTS
    None = None
    s1 = s1  s2 = s2  u1 = u1  m1 = m1  h1 = h1  h2 = h2  v1 = v1  v2 = v2
    i1 = i1  i2 = i2  i3 = i3
    RowIds = {i1, i2, i3}
    Usernames = {u1}
    Sessions = {s1, s2}
    Messages = {m1}
    Hashes = {h1, h2}
    Values = {v1, v2}
    MaxClock = 3
    Pages <- TwoPages
PROPERTIES SuccessLeavesActive
