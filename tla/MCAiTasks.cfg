SPECIFICATION FairSpec
CONSTANTS
    s1 = s1  s2 = s2
    Sessions = {s1, s2}
    MaxPost = 3
    BatchSize = 2
    MaxBatches = 2
    MaxAnomalies = 2
INVARIANTS TypeOK NoOrphanAnnotations
PROPERTIES AnnotationsAccumulate ReportsWhatItKept EveryRunEnds
