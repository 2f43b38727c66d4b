CONSTANTS
    Nodes = {a, b}
    Agents = {a, b}
    Names = {"wg0"}
    Ports = {1}
    Requests = {r1}
    MaxRequests = 0
    MaxKeys = 3
SPECIFICATION Spec
INVARIANTS
    TunnelKeysAgree
PROPERTY
    KeysAreRegistered
CHECK_DEADLOCK FALSE
