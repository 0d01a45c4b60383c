--------------------------- MODULE MCHostRecovery ---------------------------
(***************************************************************************)
(* One queue of MEC2 besides the KIQ's, and at most one unit that ignores  *)
(* its writes; every unit takes its turn.                                  *)
(***************************************************************************)
EXTENDS HostRecovery

CONSTANTS q1, kiqQueue
=============================================================================
