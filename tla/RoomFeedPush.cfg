SPECIFICATION FairSpec
CONSTANTS
  MaxMsgs = 3
  MaxRestarts = 0
  Mentions <- MCMentions
  PageSize = 2
  Faults <- MCPush
PROPERTIES EveryMessageArrives
CHECK_DEADLOCK FALSE
