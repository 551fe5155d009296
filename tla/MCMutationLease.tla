--------------------------- MODULE MCMutationLease ---------------------------
(***************************************************************************)
(* Three callers in two processes, so that two callers share a PID, as two *)
(* handlers of one UI server do.                                           *)
(***************************************************************************)
EXTENDS MutationLease, TLC

CONSTANTS cli, uiA, uiB, p1, p2

MCOp == {cli, uiA, uiB}
MCPid == {p1, p2}
MCPidOf == [o \in MCOp |-> IF o = cli THEN p1 ELSE p2]
=============================================================================
