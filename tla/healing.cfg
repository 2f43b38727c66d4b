CONSTANTS
    Interfaces = {"wg0", "dns"}
    Hostnames = {"wg0"}
    DesiredStates <- MCDesiredStates
    Base = 60
    MaxBackoff = 600
    Threshold = 3
    MaxChanges = 1
    MaxFaults = 3
SPECIFICATION Spec
INVARIANTS HealingTypeOK  HealedMeansSeen OneAlertPerOutage
PROPERTIES ResetAddsNoPeer DriftIsHealed EndpointIsFollowed
