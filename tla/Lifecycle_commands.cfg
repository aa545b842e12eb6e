SPECIFICATION FairSpec
CONSTANTS
  Jobs = {j1, j2}
  Editors = {e1}
  Watchers = {w1}
  NoJob = NoJob
  Activates = TRUE
  Drainable = {j1}
  MaxFaults = 2
INVARIANT ActivationInterruptsNothing
PROPERTIES QueuedIsLookedAt InterruptedIsResolved
\* Once every job is over and no session is left, nothing happens any more.
CHECK_DEADLOCK FALSE
