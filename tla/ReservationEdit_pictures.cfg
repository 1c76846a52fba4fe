SPECIFICATION Spec
CONSTANTS
    u1 = u1  q1 = q1  q2 = q2  t1 = t1
    Users <- OneUser
    Requests <- TwoRequests
    Titles <- OneTitle
    MaxTime = 1
    MaxImages = 1
    MaxEdits = 2
    MaxFaults = 0
    Undefined = Undefined
    NoUser = NoUser
    NoRow = NoRow
    NoBody = NoBody
    NoRequest = NoRequest
INVARIANTS PictureLimit
