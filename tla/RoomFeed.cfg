SPECIFICATION FairSpec
CONSTANTS
  MaxMsgs = 3
  MaxRestarts = 1
  Mentions <- MCMentions
  PageSize = 2
  Faults <- MCEverything
INVARIANTS ReadOnce HandedOnce AcceptedIsKept NoGapBelowCursor
PROPERTIES PollingDelivers
CHECK_DEADLOCK FALSE
