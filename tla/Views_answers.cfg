SPECIFICATION Spec
CONSTANTS
    u1 = u1  u2 = u2  r1 = r1  r2 = r2  r3 = r3
    Users <- TwoUsers
    Me = u1
    Reservations <- ThreeReservations
    Results <- SuccessOrFail
    PageSizes <- OnlyOne
    Limit = 2
    MaxParticipants = 2
    MaxTime = 2
    MaxMoves = 1
    MaxRows = 3
    NoUser = NoUser
    NoTime = NoTime
    NoResult = NoResult
    NoReservation = NoReservation
    NoWalk = NoWalk
SYMMETRY Symmetry
INVARIANTS IInv DetailHonest ResultsAfterwards PeersOnly SuccessesJoined WalkComplete WalkInv
