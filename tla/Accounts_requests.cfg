SPECIFICATION FairSpec
CONSTANTS
    d1 = d1  i1 = i1  i2 = i2  t1 = t1  t2 = t2  q1 = q1  q2 = q2  v1 = v1  v2 = v2
    Devices <- OneDevice
    Ids <- TwoIds
    Settings <- Nickname
    Values <- TwoValues
    Profiles <- NewProfiles
    Tokens <- TwoTokens
    Requests <- TwoRequests
    MaxFaults = 1
    Undefined = Undefined
    NoToken = NoToken
    NoId = NoId
    NoDevice = NoDevice
    NoRow = NoRow
    NoRequest = NoRequest
INVARIANTS AnswersHold IInv
PROPERTIES DirectorySpec OnlyRequested RequestsEnd
