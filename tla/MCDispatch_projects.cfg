SPECIFICATION Spec
CONSTANTS
  r1 = r1
  r2 = r2
  m1 = m1
  m2 = m2
  d1 = d1
  d2 = d2
  NoLease = NoLease
  NoMachine = NoMachine
  Machines = {m1}
  Runs = {r1, r2}
  Owners = {r1, r2}
  Dispatchers = {d1, d2}
  Projects = {"p1", "p2"}
  Tokens = {1, 2, 3, 4}
  ProjectOf <- TwoProjects
  Serves <- ServesTwo
  Eligible <- Anywhere
  Class <- AllStandard
  Cores <- WholeAndOne
  Configured <- ThreeCores
  Slots <- TwoSlots
  OneShot = {}
  FaultyDisk = FALSE
  Endings = {"succeeded"}
  Cleaned = {r1}
  Drainable = {}
  MaxRevision = 0
  MaxPlanned = 9
  MaxCrashes = 1
INVARIANTS OutstandingIsFenced NoOvercommit
PROPERTIES EndedStaysEnded BootstrapUnderLease
