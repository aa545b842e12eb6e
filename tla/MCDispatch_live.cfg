SPECIFICATION FairSpec
CONSTANTS
  r1 = r1
  r2 = r2
  m1 = m1
  m2 = m2
  d1 = d1
  d2 = d2
  NoLease = NoLease
  NoMachine = NoMachine
  Machines = {m1, m2}
  Runs = {r1}
  Owners = {r1}
  Dispatchers = {d1}
  Projects = {"p1"}
  Tokens = {1, 2, 3, 4}
  ProjectOf <- OneProject
  Serves <- ServesOne
  Eligible <- Anywhere
  Class <- AllStandard
  Cores <- WholeAndOne
  Configured <- ThreeCores
  Slots <- OneSlot
  OneShot = {}
  FaultyDisk = FALSE
  Endings = {"succeeded"}
  Cleaned = {r1}
  Drainable = {m1}
  MaxRevision = 1
  MaxPlanned = 9
  MaxCrashes = 2
INVARIANTS RegisteredLeftQueue FailedMeansInactive
PROPERTIES DispatchingResolves EndedRunsFreeMachines
