SPECIFICATION FairSpec
CONSTANTS
    MaxQueue = 1
    Redis = TRUE
    MaxGeneration = 2
    MaxLives = 1
    MaxFaults = 1
PROPERTY
    Converges
