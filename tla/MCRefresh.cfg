SPECIFICATION Spec
CONSTANTS
  Usernames = {alpha, beta, broken}
  Broken = {broken}
  Watched = alpha
  Calls = {c1, c2}
  Jobs = {j1}
  Idle = idle
  PerCall = 2
  BatchLimit = 3
SYMMETRY CallsAreAlike
INVARIANTS TypeOK NobodyStarves
