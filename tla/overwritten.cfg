SPECIFICATION Spec
CONSTANTS
  run1 = run1
  mixed = mixed
  batch = batch
  NoRun = NoRun
  Runs = {run1}
  Kind <- MCKind
  Observers = {o1}
  Overdue = {}
  MaxWorkers = 1
  MaxCrashes = 0
INVARIANTS
  ResultStands
CHECK_DEADLOCK FALSE
