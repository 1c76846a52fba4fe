SPECIFICATION FairSpec
CONSTANTS
    u1 = u1  u2 = u2  r1 = r1  r2 = r2  j1 = j1  j2 = j2
    Users <- TwoUsers
    Reachable <- TwoUsers
    Reservations <- OneReservation
    Timing <- FourTypes
    Jobs <- TwoJobs
    Midnights <- NoMidnights
    MaxTime = 4
    MaxMoves = 0
    MaxFaults = 0
    NoTime = NoTime
PROPERTIES Reminded
