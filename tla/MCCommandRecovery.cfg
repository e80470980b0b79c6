SPECIFICATION Spec
CONSTANTS
  Owner = Owner
  Worker = Worker
  Props = {p, q}
  Classes <- LeafClasses
  Ops = {"batch", "abort", "undo", "redo", "undoFails", "remove", "flush", "fini", "move"}
  MaxInstances = 4
  MaxFrames = 2
CHECK_DEADLOCK FALSE
INVARIANTS
  HistoryOfRoots
  IndicesAgree
PROPERTIES
  RollbackErases
  RemovalKeepsBoundary
