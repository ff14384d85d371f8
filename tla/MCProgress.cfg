SPECIFICATION ProgressSpec
CONSTANTS
  Workers = {w1, w2, w3}
  MaxTasks = 4
  Lockers = {t1, t2, t3}
  MaxOffset = 2
INVARIANTS AwakeForEach
PROPERTIES Implements WaitEnds
