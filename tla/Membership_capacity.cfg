SPECIFICATION Spec
CONSTANTS
    u1 = u1  u2 = u2  u3 = u3  u4 = u4  r1 = r1  c1 = c1  c2 = c2
    Users <- ThreeUsers
    Reservations <- OneReservation
    Connections <- TwoConnections
    MaxParticipants = 2
    MaxFaults = 0
    NoUser = NoUser
    NoRequest = NoRequest
SYMMETRY Symmetry
INVARIANTS WithinCapacity
