SPECIFICATION Spec
CONSTANTS
  Owner = Owner
  Worker = Worker
  Props = {p}
  Classes <- BatchedClasses
  Ops = {"undo", "redo", "move", "batch", "nestedBatch", "wait"}
  MaxInstances = 5
  MaxFrames = 3
CHECK_DEADLOCK FALSE
INVARIANTS
  HistoryConsistent
  UndoAsserts
  QueuedOnce
  PopFrameAsserts
PROPERTIES
  AppliedEntriesStay
