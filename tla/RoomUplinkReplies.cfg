SPECIFICATION Spec
CONSTANTS
    roomA = roomA
    roomB = roomB
    other = other
    Sessions <- MCSessions
    Rooms <- MCRooms
    NoRoom = NoRoom
    Kinds <- MCKinds
    MaxWritten = 2
    MaxPeer = 1
    MaxTurns = 2
    MaxParts = 2
    MaxRestarts = 1
INVARIANT RepliesStayHome
SYMMETRY MCSymmetry
CHECK_DEADLOCK FALSE
