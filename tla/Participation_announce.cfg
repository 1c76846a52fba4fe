SPECIFICATION Spec
CONSTANTS
    u1 = u1  u2 = u2  q1 = q1  q2 = q2
    Users <- TwoUsers
    Reachable <- OneUser
    Requests <- TwoRequests
    MaxTime = 0
    Hour = 1
    MaxMoves = 0
    MaxFaults = 0
    NoUser = NoUser
    NoTime = NoTime
    NoStatus = NoStatus
    NoResult = NoResult
    NoRequest = NoRequest
SYMMETRY Symmetry
INVARIANTS HostHearsReadiness IInv
