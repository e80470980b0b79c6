SPECIFICATION FairSpec
CONSTANTS
  work = work
  play = play
  viewer = viewer
  g1 = g1
  g2 = g2
  Default = Default
  History = History
  MainGuard = MainGuard
  Nothing = Nothing
  Envs <- MCEnvs
  Components <- MCComponents
  Guards <- MCGuards
  MaxCalls = 7
  MaxLocks = 3
CHECK_DEADLOCK FALSE
INVARIANTS
  HeldStateIsActive
  StatesComplete
  CallbacksPaired
  PointerFollows
PROPERTIES
  CallsReturn
