---------------------------- MODULE MCCommandGate ----------------------------
(***************************************************************************)
(* TLC instances of CommandGate: two restarts of the host, so that a third *)
(* process meets datagrams of both its predecessors.                       *)
(***************************************************************************)
EXTENDS CommandGate
==============================================================================
