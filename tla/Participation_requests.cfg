SPECIFICATION FairSpec
CONSTANTS
    u1 = u1  u2 = u2  q1 = q1  q2 = q2
    Users <- OneUser
    Reachable <- OneUser
    Requests <- TwoRequests
    MaxTime = 2
    Hour = 1
    MaxMoves = 1
    MaxFaults = 1
    NoUser = NoUser
    NoTime = NoTime
    NoStatus = NoStatus
    NoResult = NoResult
    NoRequest = NoRequest
INVARIANTS TypeOK StatusHasResult ResultAnswersHold
PROPERTIES LedgerSpec ReadyInTime RequestsEnd
