CONSTANTS
    Peers = {"as1", "as2"}
    PeerOnly = {"as1"}
    OtherBgp <- MCOtherBgp
    Candidates <- MCCandidates
    LocalRoutes <- MCLocalRoutes
    RoaTables <- MCRoaTables
    Width = 2
    ValidRanges <- MCValidRanges
    OwnNets <- MCOwnNets
    RejectedAsns = {9}
    PathLimit = 2
    MaxDetail = 2
    MaxRoutes = 1
    MaxEvents = 1
SPECIFICATION Spec
INVARIANTS
    StoredIsRead
    VerdictsFollowRfc6811
    FilteredWasRefused
    UnobservedMeansNoRoa
