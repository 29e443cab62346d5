SPECIFICATION FairSpec
CONSTANTS
    mention = mention  never = never  m1 = m1  m2 = m2
    Rooms <- MCRooms
    Passes <- MCPasses
    Applies = {a1, a2}
    Policies = {mention, never}
    Models = {m1, m2}
    None = None
    Initial <- MCInitial
    Defaults = {m2}
    Faults <- MCSelectFails
    MaxChanges = 1
    MaxFailures = 1
PROPERTIES ModelCatchesUp
CHECK_DEADLOCK FALSE
