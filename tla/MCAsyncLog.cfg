CONSTANTS
    Loggers = {l1, l2}
    Main = main
    Worker = worker
    MaxLogs = 2
    buffer_size = 2
    Threads <- MCThreads
    Msgs <- MCMsgs
    NoMsg <- MCNoMsg
SPECIFICATION Spec
INVARIANTS CellsApart WrittenInOrder NothingDropped
PROPERTY ExitEnds
