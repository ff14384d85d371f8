---------------------------- MODULE MCAsyncLog ----------------------------
(* The threads and messages of AsyncLog for model checking.                *)
EXTENDS AsyncLog

MCThreads == Loggers \cup {Main, Worker}
MCMsgs == AllMsgs
MCNoMsg == [kind |-> "none", from |-> Main, n |-> 0]
===========================================================================
