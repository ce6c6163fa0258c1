SPECIFICATION FairSpec
CONSTANTS
    None = None
    MaxId = 7
    Undated <- MCUndated
    PageSize = 2
    MaxPages = 3
    MaxRetries = 2
    Caps = {3, 4, 7}
    Cutoffs <- MCCutoffs
INVARIANTS TypeOK NoHoles WindowComplete FailureIsEmpty
PROPERTIES FetchEnds
