SPECIFICATION FairSpec
CONSTANTS
  p1 = p1  p2 = p2  p3 = p3  md = md
  Paths <- MCPaths
  Extractable <- MCExtractable
  Markdown <- MCMarkdown
  Callers = {c1}
  MaxTasks = 2
  MaxEnqueues = 4
  None = None
  Idle = Idle
  Waiting = Waiting
INVARIANTS OneRunAtATime StatusIsTrue NoLostWakeup
PROPERTIES StartsInAcceptanceOrder WaiterHearsItsTask EveryCallerAnswered KeepsPromise ServesEveryTask
CHECK_DEADLOCK FALSE
