SPECIFICATION FairSpec
CONSTANTS
    Procs = {c1, c2}
    MaxVal = 2
    MaxTime = 2
    maxRecordAge = 1
    NoRec = NoRec
    Free = Free
PROPERTIES
    NoDowngrade
    RequestEnds
