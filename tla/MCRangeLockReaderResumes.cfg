CONSTANTS
  t1 = t1
  t2 = t2
  Threads = {t1, t2}
  MaxOffset = 2
  Requests <- MCRequests
SPECIFICATION Spec
INVARIANT
  ReaderResumes
