SPECIFICATION Spec
CONSTANTS
    MaxQueue = 1
    Redis = FALSE
    MaxGeneration = 3
    MaxLives = 1
    MaxFaults = 2
INVARIANTS
    DeliveryTypeOK
    NoLostDoorbell
    AdvanceOnlyReported
PROPERTY
    NeverOlder
