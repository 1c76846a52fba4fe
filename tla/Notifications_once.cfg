SPECIFICATION Spec
CONSTANTS
    u1 = u1  u2 = u2  r1 = r1  r2 = r2  j1 = j1  j2 = j2
    Users <- OneUser
    Reachable <- OneUser
    Reservations <- TwoReservations
    Timing <- ThreeTypes
    Jobs <- TwoJobs
    Midnights <- OneMidnight
    MaxTime = 4
    MaxMoves = 1
    MaxFaults = 1
    NoTime = NoTime
SYMMETRY Symmetry
INVARIANTS OncePerTime CacheSound NobodyForgotten IInv
