SPECIFICATION Spec
CONSTANTS
  j1 = j1
  j2 = j2
  j3 = j3
  m1 = m1
  m2 = m2
  NoJob = NoJob
  NoClient = NoClient
  NoPlace = NoPlace
  Jobs = {j1, j2, j3}
  Machines = {m1, m2}
  Clients = {"c1"}
  Initial <- OnAll
  Requests <- Moving
  MaxEdits = 3
  MaxReservations = 0
  MaxRecoveries = 1
  MaxBatches = 1
  MaxListed = 2
  MaxTears = 1
  MaxEvents = 4
PROPERTY NobodyOvertaken
PROPERTY EditsAreExact
SYMMETRY AlikeAll
CHECK_DEADLOCK FALSE
