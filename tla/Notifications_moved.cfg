SPECIFICATION FairSpec
CONSTANTS
    u1 = u1  u2 = u2  r1 = r1  r2 = r2  j1 = j1  j2 = j2
    Users <- OneUser
    Reachable <- OneUser
    Reservations <- OneReservation
    Timing <- BeforeAndAfter
    Jobs <- TwoJobs
    Midnights <- NoMidnights
    MaxTime = 3
    MaxMoves = 1
    MaxFaults = 0
    NoTime = NoTime
PROPERTIES RemindedOnceMoved
