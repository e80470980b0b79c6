SPECIFICATION FairSpec
CONSTANTS
  Owner = Owner
  Worker = Worker
  Props = {p}
  Classes <- ThreadedClasses
  Ops = {"wait", "undo"}
  MaxInstances = 3
  MaxFrames = 3
CHECK_DEADLOCK FALSE
INVARIANTS
  TypeOK
  FrameDiscipline
  FifoCompletion
  SubCommandsFirst
PROPERTIES
  EveryCommandCompletes
  CallsReturn
