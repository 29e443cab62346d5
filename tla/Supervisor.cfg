SPECIFICATION Spec
CONSTANTS
  MaxWebs = 4
  MaxRespawns = 1
  Respawns <- MCTwoRespawns
  Commands <- MCAllCommands
  MaxCommands = 1
  MaxCrashes = 2
  Faults <- MCAllFaults
INVARIANTS OwnsNoGhost RespawnsBounded OneWeb LoneStopSticks CapturedAreRecovered
CHECK_DEADLOCK FALSE
