SPECIFICATION FairSpec
CONSTANTS
  Conns = {k1, k2}
  Adds = {add1, add2}
  Reads = {read}
  None = None
INVARIANTS PoolInv GridlockIsByJobs
PROPERTIES EveryRequestEnds
