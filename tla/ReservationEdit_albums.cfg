SPECIFICATION FairSpec
CONSTANTS
    u1 = u1  q1 = q1  q2 = q2  t1 = t1
    Users <- OneUser
    Requests <- TwoRequests
    Titles <- OneTitle
    MaxTime = 2
    MaxImages = 1
    MaxEdits = 2
    MaxFaults = 1
    Undefined = Undefined
    NoUser = NoUser
    NoRow = NoRow
    NoBody = NoBody
    NoRequest = NoRequest
INVARIANTS TypeOK WritersReplace AlbumsBounded IInv
PROPERTIES RequestsEnd ScheduleSpec OnlyRequested
