SPECIFICATION Spec
CONSTANTS
  r1 = r1
  r2 = r2
  Runs = {r1, r2}
  NoRun = NoRun
  NoIntent = NoIntent
  NoReceipt = NoReceipt
  Nested <- Within
  Outcomes = {"failed"}
  MaxFaults = 1
  Dropped = {r1, r2}
  Unanswered = {r1, r2}
  MaxTouches = 0
  MaxConfigs = 0
INVARIANTS TypeOK ReceiptIsTrue
PROPERTY NothingIsLost
\* Once every output is archived and pruned, nothing happens any more.
CHECK_DEADLOCK FALSE
