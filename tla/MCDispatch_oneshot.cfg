SPECIFICATION Spec
CONSTANTS
  r1 = r1
  r2 = r2
  m1 = m1
  m2 = m2
  d1 = d1
  d2 = d2
  NoLease = NoLease
  NoMachine = NoMachine
  Machines = {m1}
  Runs = {r1}
  Owners = {r1}
  Dispatchers = {d1, d2}
  Projects = {"p1"}
  Tokens = {1, 2, 3, 4}
  ProjectOf <- OneProject
  Serves <- ServesOne
  Eligible <- Anywhere
  Class <- AllStandard
  Cores <- WholeAndOne
  Configured <- ThreeCores
  Slots <- TwoSlots
  OneShot = {d2}
  FaultyDisk = TRUE
  Endings = {"succeeded"}
  Cleaned = {}
  Drainable = {m1}
  MaxRevision = 1
  MaxPlanned = 3
  MaxCrashes = 0
INVARIANTS TypeOK LaunchOnce
PROPERTIES EndedStaysEnded
