SPECIFICATION Spec
CONSTANTS
  environment = environment
  commands = commands
  ui = ui
  envManager = envManager
  commandManager = commandManager
  application = application
  IEnvManager = IEnvManager
  ICommandManager = ICommandManager
  IApplication = IApplication
  Null = Null
  Plugins = {environment, commands, ui}
  Implementations = {envManager, commandManager, application}
  Interfaces <- MCInterfaces
  Face <- MCFace
  Provider <- MCProvider
  Initial <- MCInitial
  Needs <- MCNeeds
  Wants <- MCWants
  Late <- MCLate
  Lazy <- MCLazy
  MaxSteps = 11
CHECK_DEADLOCK FALSE
INVARIANTS
  TypeOK
  CallbacksMatch
  PointersCurrent
  NothingLeftBehind
