SPECIFICATION FairSpec
CONSTANTS
  run1 = run1
  mixed = mixed
  batch = batch
  NoRun = NoRun
  Runs = {run1, mixed, batch}
  Kind <- MCKind
  Observers = {o1}
  Overdue = {run1, mixed}
  MaxWorkers = 1
  MaxCrashes = 1
INVARIANTS
  TypeOK
  
  

  
CHECK_DEADLOCK FALSE
