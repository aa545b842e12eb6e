SPECIFICATION Spec
CONSTANTS
  r1 = r1
  r2 = r2
  p1 = p1
  p2 = p2
  Runs = {r1, r2}
  NoRun = NoRun
  Projects = {p1, p2}
  ProjectOf <- TwoProjects
  Archiving = {p1}
  Aliased = {p2}
  Placings <- HereOrThere
  MaxFaults = 1
  MaxEdits = 1
INVARIANTS TypeOK NothingBehind KeyIsRevoked
PROPERTY OnlyLateEditsLost
CHECK_DEADLOCK FALSE
