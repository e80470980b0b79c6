SPECIFICATION Spec
CONSTANTS
  Owner = Owner
  Worker = Worker
  Props = {p}
  Classes <- WorkerLeaves
  Ops = {"undo", "moveAnyTime"}
  MaxInstances = 5
  MaxFrames = 3
CHECK_DEADLOCK FALSE
PROPERTIES
  AppliedEntriesStay
