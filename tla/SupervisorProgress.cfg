SPECIFICATION FairSpec
CONSTANTS
  MaxWebs = 4
  MaxRespawns = 1
  Respawns <- MCTwoRespawns
  Commands <- MCAllCommands
  MaxCommands = 1
  MaxCrashes = 1
  Faults <- MCNoSignal
PROPERTIES EveryCommandSettles 
CHECK_DEADLOCK FALSE
