SPECIFICATION Spec
CONSTANTS
  Loader = loader
  Names = {n1, n2}
  Threads = {t1}
  Handles = {h1}
  MaxDepth = 2
  MaxInodes = 4
  MaxLinks = 6
  Mounts <- RmdirMounts
PROPERTIES RmdirOnlyEmpty
