SPECIFICATION FairSpec
CONSTANTS
  r1 = r1
  r2 = r2
  p1 = p1
  p2 = p2
  Runs = {r1}
  NoRun = NoRun
  Projects = {p1}
  ProjectOf <- OneProject
  Archiving = {}
  Aliased = {}
  Placings <- HereOnly
  MaxFaults = 2
  MaxEdits = 0
PROPERTY DestroyedRunsAreClosed
CHECK_DEADLOCK FALSE
