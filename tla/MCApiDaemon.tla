---------------------------- MODULE MCApiDaemon ----------------------------
(* ApiDaemon with imports, a client that follows its load and another that *)
(* makes one call of any kind.                                               *)
EXTENDS ApiDaemon, TLC

CONSTANTS c1, c2

MCResources == <<"absent", "pmem", "pmem">>
MCProgram ==
  (c1 :> <<{"pmem"}, {"status"}, {"status"}>>) @@ (c2 :> <<{"absent", "unload", "efs_unload"}>>)
=============================================================================
