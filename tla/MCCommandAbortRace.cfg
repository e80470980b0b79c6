SPECIFICATION Spec
CONSTANTS
  Owner = Owner
  Worker = Worker
  Props = {p}
  Classes <- WorkerLeaves
  Ops = {"batch", "abort"}
  MaxInstances = 5
  MaxFrames = 3
CHECK_DEADLOCK FALSE
INVARIANTS
  LastWriteVisible
