-------------------------- MODULE MCGuestRecovery --------------------------
(* The instance of GuestRecovery for TLC. The runs check liveness, so calls  *)
(* are not declared interchangeable.                                         *)
EXTENDS GuestRecoveryInvariant, TLC
=============================================================================
