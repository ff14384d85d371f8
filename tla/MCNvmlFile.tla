----------------------------- MODULE MCNvmlFile -----------------------------
EXTENDS NvmlFile, TLC

CONSTANTS a, b
ThreadSymmetry == Permutations(Threads)

C(op, s, e) == [op |-> op, s |-> s, e |-> e]
MCCalls ==
  {C("put", 1, 4), C("put", 4, 7), C("put", 6, 7), C("get", 0, 7), C("get", 1, 3),
   C("allocate", 2, 5),
   C("truncate", 0, 0), C("truncate", 0, 3), C("truncate", 0, 6),
   C("unload", 0, 0), C("setattr", 0, 0)}
=============================================================================
