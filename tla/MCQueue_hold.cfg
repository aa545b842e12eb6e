SPECIFICATION Spec
CONSTANTS
  j1 = j1
  j2 = j2
  j3 = j3
  m1 = m1
  m2 = m2
  NoJob = NoJob
  NoClient = NoClient
  NoPlace = NoPlace
  Jobs = {j1}
  Machines = {m1, m2}
  Clients = {"c1", "c2"}
  Initial <- OnOne
  Requests <- Placing
  MaxEdits = 1
  MaxReservations = 2
  MaxRecoveries = 1
  MaxBatches = 1
  MaxListed = 1
  MaxTears = 1
  MaxEvents = 6
INVARIANT TypeOK
PROPERTY UpdateHoldsJob
CHECK_DEADLOCK FALSE
