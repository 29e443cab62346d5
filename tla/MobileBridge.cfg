SPECIFICATION Spec
CONSTANTS
    NTickets = 7
    NSockets = 2
    NAttempts = 2
    NRotations = 2
    None = None
    Other = Other
    Tickets <- MCTickets
    Sockets <- MCSockets
    Attempts <- MCAttempts
    Rotations <- MCRotations
    Configs <- MCConfigs
    MaxEvents = 2
INVARIANTS OneConnection StaysDown TicketIsTended
PROPERTIES ComesBack
CHECK_DEADLOCK FALSE
