SPECIFICATION FairSpec
CONSTANTS
  r1 = r1
  r2 = r2
  Runs = {r1, r2}
  Task = task
  RunPurgers = {p1, p2}
  TaskPurgers = {t1}
  Teams = {{p1, p2}, {t1}}
  p1 = p1
  Asked <- BothAtR1
  Overlaps <- Nested
  Machine = m1
  Machines = {m1}
  Owners = {r1, r2, task}
  Tokens = {1, 2, 3}
  NoLease = NoLease
  NoRun = NoRun
  NoPlan = NoPlan
  MaxFaults = 1
  MaxPrepared = 2
INVARIANTS TypeOK PurgedStaysGone ProgressIsTrue Resumable
PROPERTY PurgesComplete
CHECK_DEADLOCK FALSE
