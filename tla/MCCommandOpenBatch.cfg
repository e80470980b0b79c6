SPECIFICATION Spec
CONSTANTS
  Owner = Owner
  Worker = Worker
  Props = {p}
  Classes <- WorkerLeaves
  Ops = {"batch", "waitInBatch", "wait"}
  MaxInstances = 4
  MaxFrames = 3
CHECK_DEADLOCK FALSE
INVARIANTS
  NeverWaitsForOpenBatch
