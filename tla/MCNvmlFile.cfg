CONSTANTS
  a = a
  b = b
  Threads = {a, b}
  Calls <- MCCalls
  MaxCalls = 2
  Alone = {"setattr"}
  FirstSeg = 2
  MaxSeg = 2
  Top = 10
  Populated = {0, 3}
  UIntRange = 64
SYMMETRY ThreadSymmetry
SPECIFICATION NvmlSpec
INVARIANTS NothingVanishes Stored ReadsLatest SomeoneRuns PoolReady
