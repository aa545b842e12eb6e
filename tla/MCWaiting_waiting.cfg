SPECIFICATION FairSpec
CONSTANTS
  r1 = r1
  w1 = w1
  NoView = NoView
  NoRequest = NoRequest
  Runs = {r1}
  Waiters = {w1}
  Requests <- SingleWaits
  Archived = {r1}
  Outcomes = {"succeeded", "gone"}
  MaxFaults = 1
  MaxAsides = 1

INVARIANTS TypeOK AnswerIsFinal ReportedIsArchived NoFalseConflict
PROPERTY TerminalWaitsEnd
\* When every run has ended and every waiter has its answer, nothing is left to do.
CHECK_DEADLOCK FALSE
