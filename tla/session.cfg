SPECIFICATION FairSpec
CONSTANTS
    Reconciler = r
    SideLoops = {s1}
    MaxRows = 2
    MaxFaults = 2
    MaxCalls = 1
INVARIANTS
    SessionTypeOK
    

    
