SPECIFICATION FairSpec
CONSTANTS
    i1 = i1
    i2 = i2
    Interfaces <- MCInterfaces
    DesiredStates <- MCDesiredStates
    MaxChanges = 1
    MaxFaults = 2
INVARIANTS
    ApplyTypeOK
    
    SucceededMeansLoaded
    
PROPERTY
    Settles
