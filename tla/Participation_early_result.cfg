SPECIFICATION Spec
CONSTANTS
    u1 = u1  u2 = u2  q1 = q1  q2 = q2
    Users <- OneUser
    Reachable <- OneUser
    Requests <- TwoRequests
    MaxTime = 2
    Hour = 1
    MaxMoves = 0
    MaxFaults = 0
    NoUser = NoUser
    NoTime = NoTime
    NoStatus = NoStatus
    NoResult = NoResult
    NoRequest = NoRequest
PROPERTIES ResultsOnlyAfterwards
