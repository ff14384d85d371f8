SPECIFICATION Spec
CONSTANTS
  Loader = loader
  Names = {n1, n2}
  Threads = {t1, t2}
  Handles = {h1}
  MaxDepth = 2
  MaxInodes = 3
  MaxLinks = 6
  Mounts <- RingMounts
INVARIANTS NoRing
