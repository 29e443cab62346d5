SPECIFICATION FairSpec
CONSTANTS
    mention = mention  never = never  m1 = m1  m2 = m2
    Rooms <- MCRooms
    Passes <- MCPasses
    Applies = {a1, a2}
    Policies = {mention, never}
    Models = {m1, m2}
    None = None
    Initial <- MCInitial
    Defaults = {m2}
    Faults <- MCFaults
    MaxChanges = 1
    MaxFailures = 1
INVARIANTS NoReplacement OpeningIsWatched LoopIsOwned DefaultIsKept
PROPERTIES RoomsCatchUp
CHECK_DEADLOCK FALSE
