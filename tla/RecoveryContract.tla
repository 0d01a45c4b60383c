-------------------------- MODULE RecoveryContract --------------------------
(***************************************************************************)
(* What the host may rely on after a guest was stopped by force: the       *)
(* lifetime marker of a boot goes from absent to authorizing to withdrawn, *)
(* never back; it authorizes only a lease that both native pools excluded; *)
(* and clients run only behind a marker that has authorized.               *)
(***************************************************************************)
VARIABLES marker, excluded, clients

contractVars == <<marker, excluded, clients>>

Init ==
  /\ marker = "absent"
  /\ excluded = FALSE
  /\ clients = FALSE

Exclude ==
  /\ excluded' = TRUE
  /\ UNCHANGED <<marker, clients>>

Authorize ==
  /\ marker = "absent"
  /\ excluded
  /\ marker' = "authorizing"
  /\ UNCHANGED <<excluded, clients>>

Withdraw ==
  /\ marker = "authorizing"
  /\ marker' = "withdrawn"
  /\ UNCHANGED <<excluded, clients>>

Admit ==
  /\ marker # "absent"
  /\ clients' = TRUE
  /\ UNCHANGED <<marker, excluded>>

Next == Exclude \/ Authorize \/ Withdraw \/ Admit

Spec == Init /\ [][Next]_contractVars
=============================================================================
