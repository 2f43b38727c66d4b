SYMMETRY Symmetry
CONSTANTS
    Nodes = {n1, n2}
    Groups = {g1, g2}
    Requests = {r1, r2}
    MaxRequests = 3
SPECIFICATION Spec
INVARIANTS
    DnsTypeOK
    
CHECK_DEADLOCK FALSE
