SPECIFICATION FairSpec
CONSTANTS
  w1 = w1
  w2 = w2
  Main = Main
  Workers <- MCWorkers
  Clients <- MCClients
  Loggers = {console}
  MaxMessages = 2
  MaxJobs = 2
CHECK_DEADLOCK FALSE
INVARIANTS
  CalledIsRegistered
  ShutdownDelivers
  JobsAccounted
PROPERTIES
  ImplementsChannel
  EverythingIsServed
