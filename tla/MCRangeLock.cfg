CONSTANTS
  t1 = t1
  t2 = t2
  t3 = t3
  Threads = {t1, t2, t3}
  MaxOffset = 3
  Requests <- MCRequests
SYMMETRY Perms
SPECIFICATION Spec
INVARIANTS
  Inv
  WriterExclusion
  AddReaderAsserts
  UnlockAsserts
PROPERTIES
  NoOvertaking
  Implements
