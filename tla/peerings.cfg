CONSTANTS
    Nodes = {a, b}
    Agents = {a}
    Names = {"wg0", "wg1"}
    Ports = {1}
    Requests = {r1, r2}
    MaxRequests = 2
    MaxKeys = 1
SPECIFICATION Spec
SYMMETRY Symmetry
INVARIANTS
    PeeringsTypeOK
    
    
CHECK_DEADLOCK FALSE
