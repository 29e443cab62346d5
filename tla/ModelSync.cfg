SPECIFICATION FairSpec
CONSTANTS
    Models <- MCModels
    Calls = {1, 2}
    Others <- MCOthers
    Private <- MCPrivate
    Initial <- MCInitial
    Faults <- MCFaults
    MaxEvents = 3
INVARIANTS ChoicesStick FollowerStays
PROPERTIES OwnIsKept OffersArrive
CHECK_DEADLOCK FALSE
