SPECIFICATION Spec
CONSTANTS
  Sessions = {s1, s2}
  RowIds = {i1, i2, i3}
  None = None
  Null = Null
  MaxDay = 3
  Period = 2
  MinSamples = 3
  Window = 5
  Limit = 1
  DayLength = 2
  Series <- ShortSeries
  Tables <- SmallTables
  Ties <- BothWays
  Starts = {0, 1, 3}
  Now = 5
SYMMETRY RequestsAndIdsAreAlike
INVARIANTS DigestInv RepeatsBounded CoversWhatWasThere AnomaliesSound PageIsConsistent
