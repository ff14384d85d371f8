SPECIFICATION ApiSpec
CONSTANTS
  Concurrency = 2
  MaxTasks = 4
  Clients = {c1, c2}
  Configured = {"pmem"}
  Resources <- MCResources
  Targets = {"pmem", "absent"}
  Program <- MCProgram
  c1 = c1
  c2 = c2
  Faulty = {c2}
INVARIANTS ReadyWhenImported TidsKnown QuietWhenGone
PROPERTIES StatusForward RequestsEnd CallsReturn
