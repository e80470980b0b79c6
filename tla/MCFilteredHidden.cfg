SPECIFICATION Spec
CONSTANTS
  a = a
  b = b
  c = c
  plain = plain
  marked = marked
  Main = main
  NoThread = NoThread
  Refreshers = {t1, t2}
  Items <- MCItems
  Kinds <- MCKinds
  Filters <- MCFilters
  Sources <- MCSources
  MaxLen = 3
  MaxCalls = 5
  SizeModulus = 64
CHECK_DEADLOCK FALSE
PROPERTY
  EntriesBeforeStay
