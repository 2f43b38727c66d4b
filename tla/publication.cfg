SPECIFICATION FairSpec
CONSTANTS
    Writers = {w1, w2}
    Children = {c1}
    Keep = 3
    MaxGeneration = 5
INVARIANTS
    TypeOK
    RetainedWindow
    
PROPERTIES
    ImplementsLog
    RequestsEnd
CHECK_DEADLOCK FALSE
