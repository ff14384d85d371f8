----------------------------- MODULE MCSettings -----------------------------
(* Settings for TLC: files with every kind of mistake in every section.     *)
EXTENDS Settings

CONSTANT Large    \* whether a capacity may exceed Width bits

MCFactor == [u \in {"", "B", "KB", "K", "GB"} |->
                CASE u \in {"", "B"} -> 1 [] u \in {"KB", "K"} -> 4 [] OTHER -> 64]

Root == Entry("root-dir", Word("a"))
Mount == Entry("mount-dir", Word("b"))

Globals == {<<Root, Mount>>, <<Root>>, <<Root, Mount, Entry("junk", Word("a"))>>,
            <<Mount, Entry("mount-dir", Word("a")), Root, Entry("log-file", Word("a"))>>,
            <<Root, Mount, Entry("workers", Size(0, ""))>>,
            <<Root, Mount, Entry("workers", Size(2, "KB")), Entry("results-dir", Word("b"))>>,
            <<Root, Mount, Entry("transfer-size", Word("junk"))>>}

Backend(id, kind, size, extra) ==
    <<Entry("id", Word(id)), Entry("type", Word(kind)), Entry("capacity", size)>> \o extra

Dax == <<Entry("daxfs", Word("a"))>>
Segment(x) == Dax \o <<Entry("segment-size", x)>>

BackendLists ==
    {<<Backend("x", "NVRAM-NVML", Size(3, "KB"), Dax), Backend("y", "DRAM", Size(2, "B"), <<>>)>>,
     <<Backend("x", "NVRAM-DEVDAX", Size(3, "K"), Segment(Size(2, "K"))),
       Backend("x", "DRAM", Size(1, "B"), <<>>)>>,
     <<Backend("x", "NVRAM-NVML", Size(3, "KB"), Segment([word |-> "a", n |-> 0, unit |-> "KB"]))>>,
     <<Backend("x", "DRAM", Size(1, ""), <<>>), <<Entry("id", Word("y"))>>>>,
     <<Backend("x", "unknown", Size(2, "B"), <<>>)>>,
     <<Backend("x", "DRAM", Size(-1, "B"), <<>>)>>, <<>>}
    \cup (IF Large THEN {<<Backend("x", "DRAM", Size(1, "GB"), <<>>)>>} ELSE {})

ResourceLists ==
    {<<>>, <<<<Entry("path", Word("a")), Entry("backend", Word("x"))>>>>,
     <<<<Entry("owner", Word("a"))>>>>}

Sections == {"global-settings", "backends", "resources"}

MCFiles ==
    [name : {"conf"}, sections : {Sections}, global : Globals, backends : BackendLists,
     resources : ResourceLists]
    \cup {[name |-> "conf", sections |-> {"backends"}, global |-> <<>>, backends |-> <<>>,
           resources |-> <<>>]}
=============================================================================
