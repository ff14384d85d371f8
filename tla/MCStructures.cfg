SPECIFICATION StructuresSpec
CONSTANTS
  Parts = {"avl", "walk", "tree", "copy", "pool", "fill", "settings"}
  N = 12
  Slots = {1, 2, 3}
  MaxOffset = 4
  MaxKey = 6
  Values = {0, 1}
  InitVal = 0
  MaxBuffer = 3
  Chunk = 2
  Segments = {s1, s2, s3}
  Sizes = {1, 2, 4}
  m_length = 11
  m_size_of_segment = 2
  NVML_MAPPINGS = 3
  SourceSizes = {0, 1, 4, 5, 6}
  SegmentSize = 6
  NVML_TRANSFER_SIZE = 3
  Paths = {"a", "b"}
  ConfigFiles <- MCFiles
  MaxOptions = 3
  s_max_fuse_args = 6
  Width = 6
  Factor <- MCFactor
  LongUnits = {"KB", "GB"}
  Large = FALSE
SYMMETRY Alike
INVARIANTS
  WellFormed
  LooksLikeASet
  DestroysAll
  WalksAgree
  WalkAsserts
  Denotes
  SearchesAgree
  CopyExact
  NoOverlap
  CommandLineWins
  ArgvFitsSettings
