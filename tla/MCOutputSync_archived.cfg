SPECIFICATION FairSpec
CONSTANTS
  r1 = r1
  r2 = r2
  Runs = {r1}
  NoRun = NoRun
  NoIntent = NoIntent
  NoReceipt = NoReceipt
  Nested <- Within
  Dropped = {r1}
  Unanswered = {r1}
  Outcomes = {"succeeded", "failed"}
  MaxFaults = 2
  MaxTouches = 1
  MaxConfigs = 2
INVARIANT ReceiptIsTrue
PROPERTY IntentIsArchived
\* Once every output is archived and pruned, nothing happens any more.
CHECK_DEADLOCK FALSE
