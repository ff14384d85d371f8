SPECIFICATION Spec
CONSTANTS
  Paths = {"a", "b"}
  ConfigFiles <- MCFiles
  MaxOptions = 4
  s_max_fuse_args = 8
  Width = 6
  Factor <- MCFactor
  LongUnits = {"KB", "GB"}
  Large = TRUE
INVARIANT CapacityKept
