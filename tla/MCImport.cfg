SPECIFICATION FairSpec
CONSTANTS
  Loader = loader
  t1 = t1
  Below = n1
  Names = {n1, n2}
  Threads = {t1, t2}
  Handles = {h1}
  MaxDepth = 2
  MaxInodes = 4
  MaxLinks = 6
  Mounts <- Five
INVARIANTS LoadEntries OneNameEach
PROPERTIES NoFileLost MutexFreed
