------------------------- MODULE RunAdmission_proof -------------------------
(***************************************************************************)
(* The inductive invariant of RunAdmission and the contract it implements, *)
(* for any number of runs and of host boots.                               *)
(*                                                                         *)
(* The argument: whoever may still bring up a guest is the last row of the *)
(* ledger (OnlyLatest), because a row is added only behind a receipt of    *)
(* the row before, and a receipt is written only where nobody may come up  *)
(* (RecoveryBound).  The ordinary recovery knows that from the lease of    *)
(* exactly this run in VRAM (LeaseSeen), the one through MODE2 from the    *)
(* reservation file every accepted launch leaves (Untouched).              *)
(***************************************************************************)
EXTENDS RunAdmission, SequenceTheorems, TLAPS

------------------------------------------------------------------------------
(***************************************************************************)
(* The ledger's rows.                                                      *)
(***************************************************************************)

\* What is read from the rows changes only with them.
LEMMA RowsFrame ==
  ASSUME rows' = rows PROVE Rows' = Rows /\ Latest' = Latest
  BY DEF Rows, Latest, ToSet, Last

\* The latest run, where there is one, is the last row.
LEMMA LatestRow ==
  ASSUME TypeOK, Latest # NoRun
  PROVE  Latest \in Rows /\ Latest \in Runs /\ rows # <<>> /\ Latest = rows[Len(rows)]
  BY DEF TypeOK, Latest, Rows, ToSet, Last

\* Every row is a run.
LEMMA RowRuns == ASSUME TypeOK PROVE Rows \subseteq Runs
  BY DEF TypeOK, Rows, ToSet

\* The ledger after its first row.
LEMMA FirstRow ==
  ASSUME NEW r \in Runs, rows' = <<r>>
  PROVE  /\ rows' \in Seq(Runs) /\ rows' # <<>> /\ Len(rows') = 1 /\ rows'[1] = r
         /\ Rows' = {r} /\ Latest' = r
  BY DEF Rows, Latest, ToSet, Last

\* The ledger after a further row.
LEMMA RowAppended ==
  ASSUME TypeOK, NEW r \in Runs, rows' = Append(rows, r)
  PROVE  /\ rows' \in Seq(Runs) /\ rows' # <<>> /\ Len(rows') = Len(rows) + 1
         /\ \A i \in 1..Len(rows) : rows'[i] = rows[i]
         /\ rows'[Len(rows) + 1] = r
         /\ Rows' = Rows \cup {r} /\ Latest' = r
<1>1. /\ rows' \in Seq(Runs) /\ rows' # <<>> /\ Len(rows') = Len(rows) + 1
      /\ \A i \in 1..Len(rows) : rows'[i] = rows[i]
      /\ rows'[Len(rows) + 1] = r
  BY AppendProperties DEF TypeOK
<1>2. Latest' = r
  BY <1>1 DEF Latest, Last
<1>3. Rows' = Rows \cup {r}
  <2>1. rows \in Seq(Runs) /\ Len(rows) \in Nat /\ DOMAIN rows = 1..Len(rows)
    BY DEF TypeOK
  <2>2. DOMAIN rows' = 1..(Len(rows) + 1)
    BY <1>1
  <2> QED
    BY <1>1, <2>1, <2>2 DEF Rows, ToSet
<1> QED
  BY <1>1, <1>2, <1>3

\* The ledger after its last row was taken back.
LEMMA RowTakenBack ==
  ASSUME TypeOK, rows # <<>>, rows' = Front(rows),
         \A i, j \in DOMAIN rows : rows[i] = rows[j] => i = j
  PROVE  /\ rows' \in Seq(Runs) /\ Len(rows') = Len(rows) - 1
         /\ \A i \in 1..(Len(rows) - 1) : rows'[i] = rows[i]
         /\ Rows' = Rows \ {Latest}
         /\ Latest' # NoRun => Len(rows) > 1 /\ Latest' = rows[Len(rows) - 1]
<1>1. rows \in Seq(Runs) /\ Len(rows) \in Nat \ {0} /\ DOMAIN rows = 1..Len(rows)
  BY DEF TypeOK
<1>2. /\ rows' \in Seq(Runs) /\ Len(rows') = Len(rows) - 1
      /\ \A i \in 1..(Len(rows) - 1) : rows'[i] = rows[i]
  BY <1>1 DEF Front
<1>3. Latest = rows[Len(rows)]
  BY DEF Latest, Last
<1>4. Rows' = Rows \ {Latest}
  <2>1. DOMAIN rows' = 1..(Len(rows) - 1)
    BY <1>2
  <2>2. \A i \in 1..(Len(rows) - 1) : rows[i] # rows[Len(rows)]
    BY <1>1
  <2> QED
    BY <1>1, <1>2, <1>3, <2>1, <2>2 DEF Rows, ToSet
<1>5. Latest' # NoRun => Len(rows) > 1 /\ Latest' = rows[Len(rows) - 1]
  BY <1>1, <1>2 DEF Latest, Last
<1> QED
  BY <1>2, <1>4, <1>5

\* A coordinator that launches has the ledger's last row.
LEMMA LaunchingLast ==
  ASSUME IInv, NEW r \in Runs, pc[r] \in Launching
  PROVE  Latest = r /\ Latest # NoRun /\ r \in Rows /\ rows # <<>> /\ ~torn
  BY LatestRow, NoRunAssumption DEF IInv, Admission, Chained
\* Reconciliation takes back the last row and no other, or none.
LEMMA RowReconciled ==
  ASSUME IInv, NEW r \in Runs, Reconcile(r)
  PROVE  /\ Rows \ {r} \subseteq Rows' /\ Rows' \subseteq Rows
         /\ rows' \in Seq(Runs)
         /\ \/ rows' = rows
            \/ /\ Latest = r /\ rows # <<>> /\ Len(rows') = Len(rows) - 1
               /\ \A i \in 1..(Len(rows) - 1) : rows'[i] = rows[i]
               /\ Latest' # NoRun => Len(rows) > 1 /\ Latest' = rows[Len(rows) - 1]
<1>1. CASE rows' = Front(rows) /\ Latest = r
  <2>1. rows # <<>>
    BY <1>1, NoRunAssumption DEF Latest
  <2> QED
    BY <1>1, <2>1, RowTakenBack DEF IInv, Admission, Chained
<1>2. CASE rows' = rows
  BY <1>2, RowsFrame DEF IInv, TypeOK
<1> QED
  BY <1>1, <1>2 DEF Reconcile, Unexposed

------------------------------------------------------------------------------
(***************************************************************************)
(* Types and the lock.                                                     *)
(***************************************************************************)

\* Every variable keeps its kind.
LEMMA TypeStep == ASSUME IInv, [Next]_vars PROVE TypeOK'
<1>1. ASSUME NEW r \in Runs, Prepare(r) PROVE TypeOK'
  BY <1>1 DEF IInv, TypeOK, Locked, Asking, Launching, Ending, Prepare, ledger, machine
<1>2. ASSUME NEW r \in Runs, TakeLock(r) PROVE TypeOK'
  BY <1>2 DEF IInv, TypeOK, Locked, Asking, Launching, Ending, TakeLock, Goto, ledger,
    machine
<1>3. ASSUME NEW r \in Runs, PendingCheck(r) PROVE TypeOK'
  BY <1>3 DEF IInv, TypeOK, Locked, Asking, Launching, Ending, PendingCheck, Goto, ledger,
    machine
<1>4. ASSUME NEW r \in Runs, HostCheck(r) PROVE TypeOK'
  BY <1>4 DEF IInv, TypeOK, Locked, Asking, Launching, Ending, HostCheck, Goto, ledger,
    machine
<1>5. ASSUME NEW r \in Runs, Archive(r) PROVE TypeOK'
  BY <1>5 DEF IInv, TypeOK, Locked, Asking, Launching, Ending, Archive, Goto, ledger, machine
<1>6. ASSUME NEW r \in Runs, Cancel(r) PROVE TypeOK'
  BY <1>6 DEF IInv, TypeOK, Locked, Asking, Launching, Ending, Cancel, Goto, ledger, machine
<1>7. ASSUME NEW r \in Runs, Crash(r) PROVE TypeOK'
  BY <1>7 DEF IInv, TypeOK, Locked, Asking, Launching, Ending, Crash, Goto, ledger, machine
<1>8. ASSUME NEW r \in Runs, Authorize(r) PROVE TypeOK'
  <2>1. auth' \in [Runs -> Runs \cup {NoRun}]
    <3>1. Latest \in Runs \cup {NoRun}
      BY LatestRow DEF IInv
    <3> QED
      BY <3>1, <1>8 DEF Authorize, IInv, TypeOK
  <2>2. \E label \in {"reserve", "idle"} : pc' = [pc EXCEPT ![r] = label]
    BY <1>8 DEF Authorize, Goto
  <2>3. UNCHANGED <<boot, prepared, ledger, receipt, pending, evidence, machine, recovery>>
    BY <1>8 DEF Authorize
  <2> QED
    BY <2>1, <2>2, <2>3 DEF IInv, TypeOK, Locked, Asking, ledger, machine
<1>9. ASSUME NEW r \in Runs, Reserve(r) PROVE TypeOK'
  <2>1. rows' \in Seq(Runs) /\ torn' \in BOOLEAN
    BY <1>9, RowAppended DEF Reserve, IInv, TypeOK, ledger
  <2>2. \E label \in {"writing", "archive", "idle"} : pc' = [pc EXCEPT ![r] = label]
    BY <1>9 DEF Reserve, Goto
  <2>3. UNCHANGED <<boot, prepared, receipt, pending, auth, evidence, machine, recovery>>
    BY <1>9 DEF Reserve
  <2> QED
    BY <2>1, <2>2, <2>3 DEF IInv, TypeOK, Locked, Asking, Launching, machine
<1>10. ASSUME NEW r \in Runs, WriteLedger(r) PROVE TypeOK'
  <2>1. rows' \in Seq(Runs)
    BY <1>10, FirstRow DEF WriteLedger
  <2> QED
    BY <2>1, <1>10 DEF IInv, TypeOK, Locked, Launching, WriteLedger, Goto, machine
<1>11. ASSUME NEW r \in Runs, HoldReservation(r) PROVE TypeOK'
  <2>1. \E label \in {"systemd", "reconcile", "idle"} : pc' = [pc EXCEPT ![r] = label]
    BY <1>11 DEF HoldReservation, Goto
  <2>2. pending' \in {pending, pending \cup {r}}
    BY <1>11 DEF HoldReservation
  <2>3. UNCHANGED <<boot, prepared, ledger, receipt, auth, evidence, machine, recovery>>
    BY <1>11 DEF HoldReservation
  <2> QED
    BY <2>1, <2>2, <2>3 DEF IInv, TypeOK, Locked, Launching, ledger, machine
<1>12. ASSUME NEW r \in Runs, Reconcile(r) PROVE TypeOK'
  <2>1. rows' \in Seq(Runs)
    BY <1>12, RowReconciled
  <2> QED
    BY <2>1, <1>12 DEF IInv, TypeOK, Locked, Reconcile, Goto, machine
<1>13. ASSUME NEW r \in Runs, Systemd(r) \/ Ready(r) PROVE TypeOK'
  BY <1>13 DEF IInv, TypeOK, Locked, Asking, Launching, Ending, Systemd, Ready, Goto, ledger,
    machine
<1>14. ASSUME NEW r \in Runs, StopService(r) PROVE TypeOK'
  BY <1>14 DEF IInv, TypeOK, Locked, Asking, Launching, Ending, StopService, Goto, CleanedUp,
    CleanupFailed, ContainerStopped, ledger, machine
<1>15. ASSUME NEW r \in Runs, Clean(r) PROVE TypeOK'
  BY <1>15 DEF IInv, TypeOK, Locked, Asking, Launching, Ending, Clean, Goto, CleanedUp,
    ContainerStopped, ledger, machine
<1>16. ASSUME NEW r \in Runs, SessionEnds(r) \/ Abort(r) PROVE TypeOK'
  BY <1>16 DEF IInv, TypeOK, Locked, Asking, Launching, Ending, SessionEnds, Abort, Goto,
    ContainerStopped, ledger, machine
<1>17. ASSUME NEW r \in Runs, Record(r) PROVE TypeOK'
  <2>1. evidence' \in [Runs -> SUBSET {"stopped", "cancelled"}]
    BY <1>17 DEF Record, IInv, TypeOK
  <2>2. pc' = [pc EXCEPT ![r] = "idle"]
    BY <1>17 DEF Record, Goto
  <2>3. UNCHANGED <<boot, prepared, ledger, receipt, pending, auth, machine, recovery>>
    BY <1>17 DEF Record
  <2> QED
    BY <2>1, <2>2, <2>3 DEF IInv, TypeOK, ledger, machine
<1>18. ASSUME NEW r \in Runs, ServiceStarts(r) \/ ServiceReady(r) \/ ServiceEnds(r)
      PROVE  TypeOK'
  BY <1>18 DEF IInv, TypeOK, Locked, Asking, Launching, Ending, ServiceStarts, ServiceReady,
    ServiceEnds, Service, ledger, machine
<1>19. ASSUME NEW r \in Runs, ServiceStops(r) PROVE TypeOK'
  BY <1>19 DEF IInv, TypeOK, Locked, Asking, Launching, Ending, ServiceStops, CleanedUp,
    CleanupFailed, ContainerStopped, ledger, machine
<1>20. ASSUME NEW r \in Runs, ContainerUp(r) PROVE TypeOK'
  BY <1>20 DEF IInv, TypeOK, Locked, Asking, Launching, Ending, ContainerUp, ledger, machine
<1>21. ASSUME NEW r \in Runs, ContainerExits(r) \/ Publish(r) PROVE TypeOK'
  BY <1>21 DEF IInv, TypeOK, Locked, Asking, Launching, Ending, ContainerExits, Publish,
    ContainerStopped, ledger, machine
<1>22. ASSUME NEW p \in Runs, NEW mode2 \in BOOLEAN, RecoveryStarts(p, mode2) PROVE TypeOK'
  BY <1>22 DEF IInv, TypeOK, Locked, Asking, Launching, Ending, RecoveryStarts, Goto, ledger,
    machine
<1>23. CASE Quiesce
  BY <1>23 DEF IInv, TypeOK, Locked, Asking, Launching, Ending, Quiesce, Recovery, ledger,
    machine
<1>24. CASE CreateReceipt
  BY <1>24 DEF IInv, TypeOK, Locked, Asking, Launching, Ending, CreateReceipt, Recovery,
    ledger, machine
<1>25. CASE WriteReceipt
  BY <1>25 DEF IInv, TypeOK, Locked, Asking, Launching, Ending, WriteReceipt, NoRecovery,
    ledger, machine
<1>26. CASE RecoveryFails
  BY <1>26 DEF IInv, TypeOK, Locked, Asking, Launching, Ending, RecoveryFails, NoRecovery,
    ledger, machine
<1>27. CASE Reboot
  <2>1. boot' \in 1..MaxBoots /\ prepared' \in [Runs -> 0..boot']
    BY <1>27, BootsAssumption DEF Reboot, IInv, TypeOK
  <2>2. rows' \in Seq(Runs) /\ torn' \in BOOLEAN
    <3>1. rows' = <<>> /\ torn' = FALSE
      BY <1>27 DEF Reboot
    <3>2. <<>> \in Seq(Runs)
      OBVIOUS
    <3> QED
      BY <3>1, <3>2
  <2>3. vram' \in Runs \cup {NoRun} /\ recovery' = NoRecovery
    BY <1>27 DEF Reboot, IInv, TypeOK
  <2> QED
    BY <2>1, <2>2, <2>3, <1>27 DEF Reboot, IInv, TypeOK, NoRecovery
<1>28. CASE UNCHANGED vars
  BY <1>28 DEF IInv, TypeOK, Locked, Asking, Launching, Ending, vars, Goto, ledger, machine
<1> QED
  BY <1>1, <1>2, <1>3, <1>4, <1>5, <1>6, <1>7, <1>8, <1>9, <1>10, <1>11, <1>12, <1>13, <1>14,
    <1>15, <1>16, <1>17, <1>18, <1>19, <1>20, <1>21, <1>22, <1>23, <1>24, <1>25, <1>26,
    <1>27, <1>28 DEF Next, Coordinator, Launch, Recover

\* One process at a time has the lock.
LEMMA LockStep == ASSUME IInv, [Next]_vars PROVE LockHeldOnce'
<1>1. ASSUME NEW r \in Runs, Prepare(r) PROVE LockHeldOnce'
  BY <1>1 DEF IInv, TypeOK, Admission, LockHeldOnce, LockFree, Locked, Asking, Launching,
    Prepare, ledger, machine
<1>2. ASSUME NEW r \in Runs, TakeLock(r) PROVE LockHeldOnce'
  BY <1>2 DEF IInv, TypeOK, Admission, LockHeldOnce, LockFree, Locked, Asking, Launching,
    TakeLock, Goto, ledger, machine
<1>3. ASSUME NEW r \in Runs, PendingCheck(r) PROVE LockHeldOnce'
  BY <1>3 DEF IInv, TypeOK, Admission, LockHeldOnce, LockFree, Locked, Asking, Launching,
    PendingCheck, Goto, ledger, machine
<1>4. ASSUME NEW r \in Runs, HostCheck(r) PROVE LockHeldOnce'
  BY <1>4 DEF IInv, TypeOK, Admission, LockHeldOnce, LockFree, Locked, Asking, Launching,
    HostCheck, Goto, ledger, machine
<1>5. ASSUME NEW r \in Runs, Archive(r) PROVE LockHeldOnce'
  BY <1>5 DEF IInv, TypeOK, Admission, LockHeldOnce, LockFree, Locked, Asking, Launching,
    Archive, Goto, ledger, machine
<1>6. ASSUME NEW r \in Runs, Cancel(r) PROVE LockHeldOnce'
  BY <1>6 DEF IInv, TypeOK, Admission, LockHeldOnce, LockFree, Locked, Asking, Launching,
    Cancel, Goto, ledger, machine
<1>7. ASSUME NEW r \in Runs, Crash(r) PROVE LockHeldOnce'
  BY <1>7 DEF IInv, TypeOK, Admission, LockHeldOnce, LockFree, Locked, Asking, Launching,
    Crash, Goto, ledger, machine
<1>8. ASSUME NEW r \in Runs, Authorize(r) PROVE LockHeldOnce'
  <2>1. /\ \E label \in {"reserve", "idle"} : pc' = [pc EXCEPT ![r] = label]
        /\ pc[r] \in Locked /\ UNCHANGED recovery
    BY <1>8 DEF Authorize, Goto, Locked, Asking, Launching
  <2> QED
    BY <2>1 DEF IInv, TypeOK, Admission, LockHeldOnce
<1>9. ASSUME NEW r \in Runs, Reserve(r) PROVE LockHeldOnce'
  <2>1. /\ \E label \in {"writing", "archive", "idle"} : pc' = [pc EXCEPT ![r] = label]
        /\ pc[r] \in Locked /\ UNCHANGED recovery
    BY <1>9 DEF Reserve, Goto, Locked, Asking, Launching
  <2> QED
    BY <2>1 DEF IInv, TypeOK, Admission, LockHeldOnce
<1>10. ASSUME NEW r \in Runs, WriteLedger(r) PROVE LockHeldOnce'
  BY <1>10 DEF IInv, TypeOK, Admission, LockHeldOnce, LockFree, Locked, Asking, Launching,
    WriteLedger, Goto, ledger, machine
<1>11. ASSUME NEW r \in Runs, HoldReservation(r) PROVE LockHeldOnce'
  <2>1. /\ \E label \in {"systemd", "reconcile", "idle"} : pc' = [pc EXCEPT ![r] = label]
        /\ pc[r] \in Locked /\ UNCHANGED recovery
    BY <1>11 DEF HoldReservation, Goto, Locked, Asking, Launching
  <2> QED
    BY <2>1 DEF IInv, TypeOK, Admission, LockHeldOnce
<1>12. ASSUME NEW r \in Runs, Reconcile(r) PROVE LockHeldOnce'
  BY <1>12 DEF IInv, TypeOK, Admission, LockHeldOnce, LockFree, Locked, Asking, Launching,
    Reconcile, Goto, ledger, machine
<1>13. ASSUME NEW r \in Runs, Systemd(r) \/ Ready(r) PROVE LockHeldOnce'
  BY <1>13 DEF IInv, TypeOK, Admission, LockHeldOnce, LockFree, Locked, Asking, Launching,
    Systemd, Ready, Goto, ledger, machine
<1>14. ASSUME NEW r \in Runs, StopService(r) PROVE LockHeldOnce'
  BY <1>14 DEF IInv, TypeOK, Admission, LockHeldOnce, LockFree, Locked, Asking, Launching,
    StopService, Goto, CleanedUp, CleanupFailed, ContainerStopped, ledger, machine
<1>15. ASSUME NEW r \in Runs, Clean(r) PROVE LockHeldOnce'
  BY <1>15 DEF IInv, TypeOK, Admission, LockHeldOnce, LockFree, Locked, Asking, Launching,
    Clean, Goto, CleanedUp, ContainerStopped, ledger, machine
<1>16. ASSUME NEW r \in Runs, SessionEnds(r) \/ Abort(r) PROVE LockHeldOnce'
  BY <1>16 DEF IInv, TypeOK, Admission, LockHeldOnce, LockFree, Locked, Asking, Launching,
    SessionEnds, Abort, Goto, ContainerStopped, ledger, machine
<1>17. ASSUME NEW r \in Runs, Record(r) PROVE LockHeldOnce'
  BY <1>17 DEF IInv, TypeOK, Admission, LockHeldOnce, LockFree, Locked, Asking, Launching,
    Record, Goto, ledger, machine
<1>18. ASSUME NEW r \in Runs, ServiceStarts(r) \/ ServiceReady(r) \/ ServiceEnds(r)
      PROVE  LockHeldOnce'
  BY <1>18 DEF IInv, TypeOK, Admission, LockHeldOnce, LockFree, Locked, Asking, Launching,
    ServiceStarts, ServiceReady, ServiceEnds, Service, ledger, machine
<1>19. ASSUME NEW r \in Runs, ServiceStops(r) PROVE LockHeldOnce'
  BY <1>19 DEF IInv, TypeOK, Admission, LockHeldOnce, LockFree, Locked, Asking, Launching,
    ServiceStops, CleanedUp, CleanupFailed, ContainerStopped, ledger, machine
<1>20. ASSUME NEW r \in Runs, ContainerUp(r) PROVE LockHeldOnce'
  BY <1>20 DEF IInv, TypeOK, Admission, LockHeldOnce, LockFree, Locked, Asking, Launching,
    ContainerUp, ledger, machine
<1>21. ASSUME NEW r \in Runs, ContainerExits(r) \/ Publish(r) PROVE LockHeldOnce'
  BY <1>21 DEF IInv, TypeOK, Admission, LockHeldOnce, LockFree, Locked, Asking, Launching,
    ContainerExits, Publish, ContainerStopped, ledger, machine
<1>22. ASSUME NEW p \in Runs, NEW mode2 \in BOOLEAN, RecoveryStarts(p, mode2)
      PROVE  LockHeldOnce'
  BY <1>22 DEF IInv, TypeOK, Admission, LockHeldOnce, LockFree, Locked, Asking, Launching,
    RecoveryStarts, Goto, ledger, machine
<1>23. CASE Quiesce
  BY <1>23 DEF IInv, TypeOK, Admission, LockHeldOnce, LockFree, Locked, Asking, Launching,
    Quiesce, Recovery, ledger, machine
<1>24. CASE CreateReceipt
  BY <1>24 DEF IInv, TypeOK, Admission, LockHeldOnce, LockFree, Locked, Asking, Launching,
    CreateReceipt, Recovery, ledger, machine
<1>25. CASE WriteReceipt
  BY <1>25 DEF IInv, TypeOK, Admission, LockHeldOnce, LockFree, Locked, Asking, Launching,
    WriteReceipt, NoRecovery, ledger, machine
<1>26. CASE RecoveryFails
  BY <1>26 DEF IInv, TypeOK, Admission, LockHeldOnce, LockFree, Locked, Asking, Launching,
    RecoveryFails, NoRecovery, ledger, machine
<1>27. CASE Reboot
  BY <1>27 DEF IInv, TypeOK, Admission, LockHeldOnce, LockFree, Locked, Asking, Launching,
    Reboot, Goto, ledger, machine
<1>28. CASE UNCHANGED vars
  BY <1>28 DEF IInv, TypeOK, Admission, LockHeldOnce, LockFree, Locked, Asking, Launching,
    vars, Goto, ledger, machine
<1> QED
  BY <1>1, <1>2, <1>3, <1>4, <1>5, <1>6, <1>7, <1>8, <1>9, <1>10, <1>11, <1>12, <1>13, <1>14,
    <1>15, <1>16, <1>17, <1>18, <1>19, <1>20, <1>21, <1>22, <1>23, <1>24, <1>25, <1>26,
    <1>27, <1>28 DEF Next, Coordinator, Launch, Recover

------------------------------------------------------------------------------
(***************************************************************************)
(* Who may come up.                                                        *)
(***************************************************************************)

\* What has no row, or is not yet with systemd, has left no trace.
LEMMA UntouchedStep == ASSUME IInv, [Next]_vars PROVE Untouched'
<1>1. ASSUME NEW r \in Runs, Prepare(r) PROVE Untouched'
  BY <1>1, RowsFrame DEF IInv, TypeOK, Untouched, Units, Prepare, ledger, machine
<1>2. ASSUME NEW r \in Runs, TakeLock(r) PROVE Untouched'
  BY <1>2, RowsFrame DEF IInv, TypeOK, Untouched, Units, TakeLock, Goto, ledger, machine
<1>3. ASSUME NEW r \in Runs, PendingCheck(r) PROVE Untouched'
  BY <1>3, RowsFrame DEF IInv, TypeOK, Untouched, Units, PendingCheck, Goto, ledger, machine
<1>4. ASSUME NEW r \in Runs, HostCheck(r) PROVE Untouched'
  BY <1>4, RowsFrame DEF IInv, TypeOK, Untouched, Units, HostCheck, Goto, ledger, machine
<1>5. ASSUME NEW r \in Runs, Archive(r) PROVE Untouched'
  BY <1>5, RowsFrame DEF IInv, TypeOK, Untouched, Units, Archive, Goto, ledger, machine
<1>6. ASSUME NEW r \in Runs, Cancel(r) PROVE Untouched'
  BY <1>6, RowsFrame DEF IInv, TypeOK, Untouched, Units, Cancel, Goto, ledger, machine
<1>7. ASSUME NEW r \in Runs, Crash(r) PROVE Untouched'
  BY <1>7, RowsFrame DEF IInv, TypeOK, Untouched, Units, Crash, Goto, ledger, machine
<1>8. ASSUME NEW r \in Runs, Authorize(r) PROVE Untouched'
  BY <1>8, RowsFrame DEF IInv, TypeOK, Untouched, Units, Authorize, Goto, ledger, machine
<1>9. ASSUME NEW r \in Runs, Reserve(r) PROVE Untouched'
  <2>1. \E label \in {"writing", "archive", "idle"} : pc' = [pc EXCEPT ![r] = label]
    BY <1>9 DEF Reserve, Goto
  <2>2. UNCHANGED <<receipt, pending, container, service, used>>
    BY <1>9 DEF Reserve, machine
  <2>3. CASE pc' = [pc EXCEPT ![r] = "archive"] /\ rows' = Append(rows, r) /\ Reusable(r)
    <3>1. r \notin Rows /\ Rows' = Rows \cup {r}
      BY <2>3, RowAppended DEF Reusable, IInv
    <3> QED
      BY <3>1, <2>2, <2>3 DEF IInv, TypeOK, Untouched, Units
  <2>4. CASE pc'[r] # "archive" /\ rows' = rows
    BY <2>1, <2>2, <2>4, RowsFrame DEF IInv, TypeOK, Untouched, Units
  <2> QED
    BY <2>3, <2>4, <1>9 DEF Reserve, Goto, ledger, IInv, TypeOK
<1>10. ASSUME NEW r \in Runs, WriteLedger(r) PROVE Untouched'
  <2>1. Rows = {}
    BY <1>10 DEF WriteLedger, IInv, Admission, Chained, OfThisBoot, Rows, ToSet
  <2>2. /\ pc' = [pc EXCEPT ![r] = "archive"]
        /\ UNCHANGED <<receipt, pending, container, service, used>>
    BY <1>10 DEF WriteLedger, Goto, machine
  <2> QED
    BY <2>1, <2>2 DEF IInv, TypeOK, Untouched, Units
<1>11. ASSUME NEW r \in Runs, HoldReservation(r) PROVE Untouched'
  BY <1>11, RowsFrame DEF IInv, TypeOK, Untouched, Units, HoldReservation, Goto, ledger,
    machine
<1>12. ASSUME NEW r \in Runs, Reconcile(r) PROVE Untouched'
  <2>1. /\ pc' = [pc EXCEPT ![r] = "idle"] /\ pc[r] = "reconcile"
        /\ UNCHANGED <<receipt, pending, container, service, used>>
    BY <1>12 DEF Reconcile, Goto, machine
  <2>2. Rows \ {r} \subseteq Rows'
    BY <1>12, RowReconciled
  <2> QED
    BY <2>1, <2>2 DEF IInv, TypeOK, Untouched, Units
<1>13. ASSUME NEW r \in Runs, Systemd(r) \/ Ready(r) PROVE Untouched'
  <2>1. r \in Rows
    BY <1>13, LaunchingLast DEF Systemd, Ready, Launching
  <2>2. CASE Systemd(r)
    <3>1. /\ \E label \in {"ready", "stop"} : pc' = [pc EXCEPT ![r] = label]
          /\ pc[r] = "systemd" /\ service' \in {service, [service EXCEPT ![r] = "starting"]}
          /\ UNCHANGED <<rows, receipt, pending, container, used>>
      BY <2>2 DEF Systemd, Goto, ledger
    <3> QED
      BY <2>1, <3>1, RowsFrame DEF IInv, TypeOK, Untouched, Units
  <2>3. CASE Ready(r)
    <3>1. /\ \E label \in {"session", "stop"} : pc' = [pc EXCEPT ![r] = label]
          /\ pending' = pending \/ (container[r] = "up" /\ pending' = pending \ {r})
          /\ UNCHANGED <<rows, receipt, container, service, used>>
      BY <2>3 DEF Ready, Goto, ledger, machine
    <3> QED
      BY <3>1, RowsFrame DEF IInv, TypeOK, Untouched, Units
  <2> QED
    BY <1>13, <2>2, <2>3
<1>14. ASSUME NEW r \in Runs, StopService(r) PROVE Untouched'
  BY <1>14, RowsFrame DEF IInv, TypeOK, Untouched, Units, StopService, Goto, CleanedUp,
    CleanupFailed, ContainerStopped, ledger, machine
<1>15. ASSUME NEW r \in Runs, Clean(r) PROVE Untouched'
  <2>1. pc' = [pc EXCEPT ![r] = "stopped"] /\ UNCHANGED <<rows, receipt, used>>
    BY <1>15 DEF Clean, Goto, ledger
  <2>2. CASE CleanedUp(r)
    BY <2>1, <2>2, RowsFrame DEF CleanedUp, ContainerStopped, IInv, TypeOK, Untouched, Units
  <2>3. CASE UNCHANGED <<service, container, pending>>
    BY <2>1, <2>3, RowsFrame DEF IInv, TypeOK, Untouched, Units
  <2> QED
    BY <1>15, <2>2, <2>3 DEF Clean
<1>16. ASSUME NEW r \in Runs, SessionEnds(r) \/ Abort(r) PROVE Untouched'
  BY <1>16, RowsFrame DEF IInv, TypeOK, Untouched, Units, SessionEnds, Abort, Goto,
    ContainerStopped, ledger, machine
<1>17. ASSUME NEW r \in Runs, Record(r) PROVE Untouched'
  BY <1>17, RowsFrame DEF IInv, TypeOK, Untouched, Units, Record, Goto, ledger, machine
<1>18. ASSUME NEW r \in Runs, ServiceStarts(r) \/ ServiceReady(r) \/ ServiceEnds(r)
      PROVE  Untouched'
  BY <1>18, RowsFrame DEF IInv, TypeOK, Untouched, Units, ServiceStarts, ServiceReady,
    ServiceEnds, Service, ledger, machine
<1>19. ASSUME NEW r \in Runs, ServiceStops(r) PROVE Untouched'
  <2>1. UNCHANGED <<rows, receipt, used, pc>> /\ service[r] = "post"
    BY <1>19 DEF ServiceStops, ledger
  <2>2. CASE CleanedUp(r)
    BY <2>1, <2>2, RowsFrame DEF CleanedUp, ContainerStopped, IInv, TypeOK, Untouched, Units
  <2>3. CASE CleanupFailed(r)
    BY <2>1, <2>3, RowsFrame DEF CleanupFailed, IInv, TypeOK, Untouched, Units
  <2> QED
    BY <1>19, <2>2, <2>3 DEF ServiceStops
<1>20. ASSUME NEW r \in Runs, ContainerUp(r) PROVE Untouched'
  BY <1>20, RowsFrame DEF IInv, TypeOK, Untouched, Units, ContainerUp, ledger, machine
<1>21. ASSUME NEW r \in Runs, ContainerExits(r) \/ Publish(r) PROVE Untouched'
  BY <1>21, RowsFrame DEF IInv, TypeOK, Untouched, Units, ContainerExits, Publish,
    ContainerStopped, ledger, machine
<1>22. ASSUME NEW p \in Runs, NEW mode2 \in BOOLEAN, RecoveryStarts(p, mode2)
      PROVE  Untouched'
  BY <1>22, RowsFrame DEF IInv, TypeOK, Untouched, Units, RecoveryStarts, Goto, ledger,
    machine
<1>23. CASE Quiesce
  BY <1>23, RowsFrame DEF IInv, TypeOK, Untouched, Units, Quiesce, Recovery, ledger, machine
<1>24. CASE CreateReceipt
  <2>1. /\ \E value \in {"torn", "valid"} : receipt' = [receipt EXCEPT ![recovery.run] = value]
        /\ UNCHANGED <<rows, pending, pc, container, service, used>>
    BY <1>24 DEF CreateReceipt, ledger, machine
  <2>2. recovery.run \in Rows /\ pc[recovery.run] \notin Locked
    BY <1>24, LatestRow DEF CreateReceipt, IInv, RecoveryBound, Admission, LockHeldOnce
  <2> QED
    BY <2>1, <2>2, RowsFrame DEF IInv, TypeOK, Untouched, Units, Locked, Launching
<1>25. CASE WriteReceipt
  <2>1. /\ \E value \in {"torn", "valid"} : receipt' = [receipt EXCEPT ![recovery.run] = value]
        /\ UNCHANGED <<rows, pending, pc, container, service, used>>
    BY <1>25 DEF WriteReceipt, ledger, machine
  <2>2. recovery.run \in Rows /\ pc[recovery.run] \notin Locked
    BY <1>25, LatestRow DEF WriteReceipt, IInv, RecoveryBound, Admission, LockHeldOnce
  <2> QED
    BY <2>1, <2>2, RowsFrame DEF IInv, TypeOK, Untouched, Units, Locked, Launching
<1>26. CASE RecoveryFails
  BY <1>26, RowsFrame DEF IInv, TypeOK, Untouched, Units, RecoveryFails, NoRecovery, ledger,
    machine
<1>27. CASE Reboot
  BY <1>27, RowsFrame DEF IInv, TypeOK, Untouched, Units, Reboot, Goto, ledger, machine
<1>28. CASE UNCHANGED vars
  BY <1>28, RowsFrame DEF IInv, TypeOK, Untouched, Units, vars, Goto, ledger, machine
<1> QED
  BY <1>1, <1>2, <1>3, <1>4, <1>5, <1>6, <1>7, <1>8, <1>9, <1>10, <1>11, <1>12, <1>13, <1>14,
    <1>15, <1>16, <1>17, <1>18, <1>19, <1>20, <1>21, <1>22, <1>23, <1>24, <1>25, <1>26,
    <1>27, <1>28 DEF Next, Coordinator, Launch, Recover

\* A coordinator's row enters the ledger in this step.
GetsRow(r) == pc[r] \in {"reserve", "writing"} /\ pc'[r] = "archive"

\* Whoever may come up after this step could before it, or gets its row in it.
NobodyNew == \A q \in Runs : MayExpose(q)' => MayExpose(q) \/ GetsRow(q)

\* Only a run that gets its row may come up that could not before.
LEMMA ExposeStep == ASSUME IInv, [Next]_vars PROVE NobodyNew
<1>1. ASSUME NEW r \in Runs, Prepare(r) PROVE NobodyNew
  BY <1>1 DEF IInv, TypeOK, MayExpose, Units, Launching, Prepare, ledger, machine, NobodyNew,
    GetsRow
<1>2. ASSUME NEW r \in Runs, TakeLock(r) PROVE NobodyNew
  BY <1>2 DEF IInv, TypeOK, MayExpose, Units, Launching, TakeLock, Goto, ledger, machine,
    NobodyNew, GetsRow
<1>3. ASSUME NEW r \in Runs, PendingCheck(r) PROVE NobodyNew
  BY <1>3 DEF IInv, TypeOK, MayExpose, Units, Launching, PendingCheck, Goto, ledger, machine,
    NobodyNew, GetsRow
<1>4. ASSUME NEW r \in Runs, HostCheck(r) PROVE NobodyNew
  BY <1>4 DEF IInv, TypeOK, MayExpose, Units, Launching, HostCheck, Goto, ledger, machine,
    NobodyNew, GetsRow
<1>5. ASSUME NEW r \in Runs, Archive(r) PROVE NobodyNew
  BY <1>5 DEF IInv, TypeOK, MayExpose, Units, Launching, Archive, Goto, ledger, machine,
    NobodyNew, GetsRow
<1>6. ASSUME NEW r \in Runs, Cancel(r) PROVE NobodyNew
  BY <1>6 DEF IInv, TypeOK, MayExpose, Units, Launching, Cancel, Goto, ledger, machine,
    NobodyNew, GetsRow
<1>7. ASSUME NEW r \in Runs, Crash(r) PROVE NobodyNew
  BY <1>7 DEF IInv, TypeOK, MayExpose, Units, Launching, Crash, Goto, ledger, machine,
    NobodyNew, GetsRow
<1>8. ASSUME NEW r \in Runs, Authorize(r) PROVE NobodyNew
  BY <1>8 DEF IInv, TypeOK, MayExpose, Units, Launching, Authorize, Goto, ledger, machine,
    NobodyNew, GetsRow
<1>9. ASSUME NEW r \in Runs, Reserve(r) PROVE NobodyNew
  BY <1>9 DEF IInv, TypeOK, MayExpose, Units, Launching, Reserve, Goto, ledger, machine,
    NobodyNew, GetsRow
<1>10. ASSUME NEW r \in Runs, WriteLedger(r) PROVE NobodyNew
  BY <1>10 DEF IInv, TypeOK, MayExpose, Units, Launching, WriteLedger, Goto, ledger, machine,
    NobodyNew, GetsRow
<1>11. ASSUME NEW r \in Runs, HoldReservation(r) PROVE NobodyNew
  BY <1>11 DEF IInv, TypeOK, MayExpose, Units, Launching, HoldReservation, Goto, ledger,
    machine, NobodyNew, GetsRow
<1>12. ASSUME NEW r \in Runs, Reconcile(r) PROVE NobodyNew
  BY <1>12 DEF IInv, TypeOK, MayExpose, Units, Launching, Reconcile, Goto, ledger, machine,
    NobodyNew, GetsRow
<1>13. ASSUME NEW r \in Runs, Systemd(r) \/ Ready(r) PROVE NobodyNew
  BY <1>13 DEF IInv, TypeOK, MayExpose, Units, Launching, Systemd, Ready, Goto, ledger,
    machine, NobodyNew, GetsRow
<1>14. ASSUME NEW r \in Runs, StopService(r) PROVE NobodyNew
  BY <1>14 DEF IInv, TypeOK, MayExpose, Units, Launching, StopService, Goto, CleanedUp,
    CleanupFailed, ContainerStopped, ledger, machine, NobodyNew, GetsRow
<1>15. ASSUME NEW r \in Runs, Clean(r) PROVE NobodyNew
  BY <1>15 DEF IInv, TypeOK, MayExpose, Units, Launching, Clean, Goto, CleanedUp,
    ContainerStopped, ledger, machine, NobodyNew, GetsRow
<1>16. ASSUME NEW r \in Runs, SessionEnds(r) \/ Abort(r) PROVE NobodyNew
  BY <1>16 DEF IInv, TypeOK, MayExpose, Units, Launching, SessionEnds, Abort, Goto,
    ContainerStopped, ledger, machine, NobodyNew, GetsRow
<1>17. ASSUME NEW r \in Runs, Record(r) PROVE NobodyNew
  BY <1>17 DEF IInv, TypeOK, MayExpose, Units, Launching, Record, Goto, ledger, machine,
    NobodyNew, GetsRow
<1>18. ASSUME NEW r \in Runs, ServiceStarts(r) \/ ServiceReady(r) \/ ServiceEnds(r)
      PROVE  NobodyNew
  BY <1>18 DEF IInv, TypeOK, MayExpose, Units, Launching, ServiceStarts, ServiceReady,
    ServiceEnds, Service, ledger, machine, NobodyNew, GetsRow
<1>19. ASSUME NEW r \in Runs, ServiceStops(r) PROVE NobodyNew
  BY <1>19 DEF IInv, TypeOK, MayExpose, Units, Launching, ServiceStops, CleanedUp,
    CleanupFailed, ContainerStopped, ledger, machine, NobodyNew, GetsRow
<1>20. ASSUME NEW r \in Runs, ContainerUp(r) PROVE NobodyNew
  BY <1>20 DEF IInv, TypeOK, MayExpose, Units, Launching, ContainerUp, ledger, machine,
    NobodyNew, GetsRow
<1>21. ASSUME NEW r \in Runs, ContainerExits(r) \/ Publish(r) PROVE NobodyNew
  BY <1>21 DEF IInv, TypeOK, MayExpose, Units, Launching, ContainerExits, Publish,
    ContainerStopped, ledger, machine, NobodyNew, GetsRow
<1>22. ASSUME NEW p \in Runs, NEW mode2 \in BOOLEAN, RecoveryStarts(p, mode2) PROVE NobodyNew
  BY <1>22 DEF IInv, TypeOK, MayExpose, Units, Launching, RecoveryStarts, Goto, ledger,
    machine, NobodyNew, GetsRow
<1>23. CASE Quiesce
  BY <1>23 DEF IInv, TypeOK, MayExpose, Units, Launching, Quiesce, Recovery, ledger, machine,
    NobodyNew, GetsRow
<1>24. CASE CreateReceipt
  BY <1>24 DEF IInv, TypeOK, MayExpose, Units, Launching, CreateReceipt, Recovery, ledger,
    machine, NobodyNew, GetsRow
<1>25. CASE WriteReceipt
  BY <1>25 DEF IInv, TypeOK, MayExpose, Units, Launching, WriteReceipt, NoRecovery, ledger,
    machine, NobodyNew, GetsRow
<1>26. CASE RecoveryFails
  BY <1>26 DEF IInv, TypeOK, MayExpose, Units, Launching, RecoveryFails, NoRecovery, ledger,
    machine, NobodyNew, GetsRow
<1>27. CASE Reboot
  BY <1>27 DEF IInv, TypeOK, MayExpose, Units, Launching, Reboot, Goto, ledger, machine,
    NobodyNew, GetsRow
<1>28. CASE UNCHANGED vars
  BY <1>28 DEF IInv, TypeOK, MayExpose, Units, Launching, vars, Goto, ledger, machine,
    NobodyNew, GetsRow
<1> QED
  BY <1>1, <1>2, <1>3, <1>4, <1>5, <1>6, <1>7, <1>8, <1>9, <1>10, <1>11, <1>12, <1>13, <1>14,
    <1>15, <1>16, <1>17, <1>18, <1>19, <1>20, <1>21, <1>22, <1>23, <1>24, <1>25, <1>26,
    <1>27, <1>28 DEF Next, Coordinator, Launch, Recover

\* No recovery runs beside a coordinator that holds the lock.
LEMMA LockedMeansOff ==
  ASSUME IInv, NEW r \in Runs, pc[r] \in Locked PROVE recovery.pc = "off"
  BY DEF IInv, Admission, LockHeldOnce

\* Who asks was prepared in this boot; a foreign lease was not.
LEMMA OfThisBootStep == ASSUME IInv, [Next]_vars PROVE OfThisBoot'
<1>1. ASSUME NEW r \in Runs, Prepare(r) PROVE OfThisBoot'
  BY <1>1, RowsFrame DEF IInv, TypeOK, OfThisBoot, Prepare, ledger, machine
<1>2. ASSUME NEW r \in Runs, TakeLock(r) PROVE OfThisBoot'
  BY <1>2, RowsFrame DEF IInv, TypeOK, OfThisBoot, TakeLock, Goto, ledger, machine
<1>3. ASSUME NEW r \in Runs, PendingCheck(r) PROVE OfThisBoot'
  BY <1>3, RowsFrame DEF IInv, TypeOK, OfThisBoot, PendingCheck, Goto, ledger, machine
<1>4. ASSUME NEW r \in Runs, HostCheck(r) PROVE OfThisBoot'
  BY <1>4, RowsFrame DEF IInv, TypeOK, OfThisBoot, HostCheck, Goto, ledger, machine
<1>5. ASSUME NEW r \in Runs, Archive(r) PROVE OfThisBoot'
  BY <1>5, RowsFrame DEF IInv, TypeOK, OfThisBoot, Archive, Goto, ledger, machine
<1>6. ASSUME NEW r \in Runs, Cancel(r) PROVE OfThisBoot'
  BY <1>6, RowsFrame DEF IInv, TypeOK, OfThisBoot, Cancel, Goto, ledger, machine
<1>7. ASSUME NEW r \in Runs, Crash(r) PROVE OfThisBoot'
  BY <1>7, RowsFrame DEF IInv, TypeOK, OfThisBoot, Crash, Goto, ledger, machine
<1>8. ASSUME NEW r \in Runs, Authorize(r) PROVE OfThisBoot'
  BY <1>8, RowsFrame DEF IInv, TypeOK, OfThisBoot, Authorize, Goto, ledger, machine
<1>9. ASSUME NEW r \in Runs, Reserve(r) PROVE OfThisBoot'
  <2>1. /\ pc[r] = "reserve" /\ prepared[r] = boot /\ UNCHANGED <<boot, prepared, vram>>
        /\ pc' \in {[pc EXCEPT ![r] = label] : label \in {"writing", "archive", "idle"}}
    BY <1>9 DEF Reserve, Goto, machine, IInv, OfThisBoot
  <2>2. pc'[r] = "writing" => torn'
    BY <1>9 DEF Reserve, Goto, IInv, TypeOK
  <2>3. \A q \in Runs : pc[q] # "writing"
    BY <2>1 DEF IInv, Admission, LockHeldOnce, Locked, Asking
  <2>4. Rows \subseteq Rows'
    BY <1>9, RowsFrame, RowAppended DEF Reserve, IInv, ledger
  <2> QED
    BY <2>1, <2>2, <2>3, <2>4 DEF IInv, TypeOK, OfThisBoot
<1>10. ASSUME NEW r \in Runs, WriteLedger(r) PROVE OfThisBoot'
  <2>1. /\ pc[r] = "writing" /\ UNCHANGED <<boot, prepared, vram>>
        /\ pc' = [pc EXCEPT ![r] = "archive"]
    BY <1>10 DEF WriteLedger, Goto, machine
  <2>2. \A q \in Runs : pc[q] = "writing" => q = r
    BY <2>1 DEF IInv, Admission, LockHeldOnce, Locked, Asking
  <2>3. Rows = {}
    BY <1>10 DEF WriteLedger, IInv, Admission, Chained, OfThisBoot, Rows, ToSet
  <2> QED
    BY <2>1, <2>2, <2>3 DEF IInv, TypeOK, OfThisBoot
<1>11. ASSUME NEW r \in Runs, HoldReservation(r) PROVE OfThisBoot'
  BY <1>11, RowsFrame DEF IInv, TypeOK, OfThisBoot, HoldReservation, Goto, ledger, machine
<1>12. ASSUME NEW r \in Runs, Reconcile(r) PROVE OfThisBoot'
  <2>1. /\ pc[r] = "reconcile" /\ UNCHANGED <<boot, prepared, vram, torn>>
        /\ pc' = [pc EXCEPT ![r] = "idle"]
    BY <1>12 DEF Reconcile, Goto, machine
  <2>2. Rows \ {r} \subseteq Rows'
    BY <1>12, RowReconciled
  <2>3. vram \in Rows => vram # r
    BY <2>1 DEF IInv, Untouched, Admission, LeaseSeen
  <2> QED
    BY <2>1, <2>2, <2>3 DEF IInv, TypeOK, OfThisBoot
<1>13. ASSUME NEW r \in Runs, Systemd(r) \/ Ready(r) PROVE OfThisBoot'
  BY <1>13, RowsFrame DEF IInv, TypeOK, OfThisBoot, Systemd, Ready, Goto, ledger, machine
<1>14. ASSUME NEW r \in Runs, StopService(r) PROVE OfThisBoot'
  BY <1>14, RowsFrame DEF IInv, TypeOK, OfThisBoot, StopService, Goto, CleanedUp,
    CleanupFailed, ContainerStopped, ledger, machine
<1>15. ASSUME NEW r \in Runs, Clean(r) PROVE OfThisBoot'
  BY <1>15, RowsFrame DEF IInv, TypeOK, OfThisBoot, Clean, Goto, CleanedUp, ContainerStopped,
    ledger, machine
<1>16. ASSUME NEW r \in Runs, SessionEnds(r) \/ Abort(r) PROVE OfThisBoot'
  BY <1>16, RowsFrame DEF IInv, TypeOK, OfThisBoot, SessionEnds, Abort, Goto,
    ContainerStopped, ledger, machine
<1>17. ASSUME NEW r \in Runs, Record(r) PROVE OfThisBoot'
  BY <1>17, RowsFrame DEF IInv, TypeOK, OfThisBoot, Record, Goto, ledger, machine
<1>18. ASSUME NEW r \in Runs, ServiceStarts(r) \/ ServiceReady(r) \/ ServiceEnds(r)
      PROVE  OfThisBoot'
  BY <1>18, RowsFrame DEF IInv, TypeOK, OfThisBoot, ServiceStarts, ServiceReady, ServiceEnds,
    Service, ledger, machine
<1>19. ASSUME NEW r \in Runs, ServiceStops(r) PROVE OfThisBoot'
  BY <1>19, RowsFrame DEF IInv, TypeOK, OfThisBoot, ServiceStops, CleanedUp, CleanupFailed,
    ContainerStopped, ledger, machine
<1>20. ASSUME NEW r \in Runs, ContainerUp(r) PROVE OfThisBoot'
  BY <1>20, RowsFrame DEF IInv, TypeOK, OfThisBoot, ContainerUp, ledger, machine
<1>21. ASSUME NEW r \in Runs, ContainerExits(r) \/ Publish(r) PROVE OfThisBoot'
  <2>1. CASE ContainerExits(r)
    BY <2>1, RowsFrame DEF ContainerExits, IInv, OfThisBoot, ledger
  <2>2. CASE Publish(r)
    <3>1. Latest = r /\ Latest # NoRun
      BY <2>2, NoRunAssumption DEF Publish, IInv, Admission, OnlyLatest, MayExpose
    <3>2. r \in Rows /\ prepared[r] = boot /\ boot # 0
      BY <3>1, LatestRow DEF IInv, TypeOK, Admission, Chained
    <3> QED
      BY <2>2, <3>2, RowsFrame DEF Publish, IInv, OfThisBoot, ledger
  <2> QED
    BY <1>21, <2>1, <2>2
<1>22. ASSUME NEW p \in Runs, NEW mode2 \in BOOLEAN, RecoveryStarts(p, mode2)
      PROVE  OfThisBoot'
  BY <1>22, RowsFrame DEF IInv, TypeOK, OfThisBoot, RecoveryStarts, Goto, ledger, machine
<1>23. CASE Quiesce
  BY <1>23, RowsFrame DEF IInv, TypeOK, OfThisBoot, Quiesce, Recovery, ledger, machine
<1>24. CASE CreateReceipt
  BY <1>24, RowsFrame DEF IInv, TypeOK, OfThisBoot, CreateReceipt, Recovery, ledger, machine
<1>25. CASE WriteReceipt
  BY <1>25, RowsFrame DEF IInv, TypeOK, OfThisBoot, WriteReceipt, NoRecovery, ledger, machine
<1>26. CASE RecoveryFails
  BY <1>26, RowsFrame DEF IInv, TypeOK, OfThisBoot, RecoveryFails, NoRecovery, ledger,
    machine
<1>27. CASE Reboot
  BY <1>27, RowsFrame DEF IInv, TypeOK, OfThisBoot, Reboot, Goto, ledger, machine
<1>28. CASE UNCHANGED vars
  BY <1>28, RowsFrame DEF IInv, TypeOK, OfThisBoot, vars, Goto, ledger, machine
<1> QED
  BY <1>1, <1>2, <1>3, <1>4, <1>5, <1>6, <1>7, <1>8, <1>9, <1>10, <1>11, <1>12, <1>13, <1>14,
    <1>15, <1>16, <1>17, <1>18, <1>19, <1>20, <1>21, <1>22, <1>23, <1>24, <1>25, <1>26,
    <1>27, <1>28 DEF Next, Coordinator, Launch, Recover

\* A lease of this boot is of a guest that was there.
LEMMA LeaseSeenStep == ASSUME IInv, [Next]_vars PROVE LeaseSeen'
<1>1. ASSUME NEW r \in Runs, Prepare(r) PROVE LeaseSeen'
  BY <1>1, RowsFrame DEF IInv, TypeOK, Admission, LeaseSeen, Prepare, ledger, machine
<1>2. ASSUME NEW r \in Runs, TakeLock(r) PROVE LeaseSeen'
  BY <1>2, RowsFrame DEF IInv, TypeOK, Admission, LeaseSeen, TakeLock, Goto, ledger, machine
<1>3. ASSUME NEW r \in Runs, PendingCheck(r) PROVE LeaseSeen'
  BY <1>3, RowsFrame DEF IInv, TypeOK, Admission, LeaseSeen, PendingCheck, Goto, ledger,
    machine
<1>4. ASSUME NEW r \in Runs, HostCheck(r) PROVE LeaseSeen'
  BY <1>4, RowsFrame DEF IInv, TypeOK, Admission, LeaseSeen, HostCheck, Goto, ledger, machine
<1>5. ASSUME NEW r \in Runs, Archive(r) PROVE LeaseSeen'
  BY <1>5, RowsFrame DEF IInv, TypeOK, Admission, LeaseSeen, Archive, Goto, ledger, machine
<1>6. ASSUME NEW r \in Runs, Cancel(r) PROVE LeaseSeen'
  BY <1>6, RowsFrame DEF IInv, TypeOK, Admission, LeaseSeen, Cancel, Goto, ledger, machine
<1>7. ASSUME NEW r \in Runs, Crash(r) PROVE LeaseSeen'
  BY <1>7, RowsFrame DEF IInv, TypeOK, Admission, LeaseSeen, Crash, Goto, ledger, machine
<1>8. ASSUME NEW r \in Runs, Authorize(r) PROVE LeaseSeen'
  BY <1>8, RowsFrame DEF IInv, TypeOK, Admission, LeaseSeen, Authorize, Goto, ledger, machine
<1>9. ASSUME NEW r \in Runs, Reserve(r) PROVE LeaseSeen'
  <2>1. UNCHANGED <<vram, container>> /\ prepared[r] = boot
    BY <1>9 DEF Reserve, machine, IInv, OfThisBoot
  <2>2. Rows' = Rows \/ Rows' = Rows \cup {r}
    BY <1>9, RowsFrame, RowAppended DEF Reserve, IInv, ledger
  <2>3. vram = r => r \in Rows
    BY <2>1, NoRunAssumption DEF IInv, OfThisBoot
  <2> QED
    BY <2>1, <2>2, <2>3 DEF IInv, Admission, LeaseSeen
<1>10. ASSUME NEW r \in Runs, WriteLedger(r) PROVE LeaseSeen'
  <2>1. UNCHANGED <<vram, container>> /\ prepared[r] = boot
    BY <1>10 DEF WriteLedger, machine, IInv, OfThisBoot
  <2>2. Rows' = {r}
    BY <1>10, FirstRow DEF WriteLedger
  <2>3. vram = r => r \in Rows
    BY <2>1, NoRunAssumption DEF IInv, OfThisBoot
  <2> QED
    BY <2>1, <2>2, <2>3 DEF IInv, Admission, LeaseSeen
<1>11. ASSUME NEW r \in Runs, HoldReservation(r) PROVE LeaseSeen'
  BY <1>11, RowsFrame DEF IInv, TypeOK, Admission, LeaseSeen, HoldReservation, Goto, ledger,
    machine
<1>12. ASSUME NEW r \in Runs, Reconcile(r) PROVE LeaseSeen'
  <2>1. UNCHANGED <<vram, container>>
    BY <1>12 DEF Reconcile, machine
  <2>2. Rows' \subseteq Rows
    BY <1>12, RowReconciled
  <2> QED
    BY <2>1, <2>2 DEF IInv, Admission, LeaseSeen
<1>13. ASSUME NEW r \in Runs, Systemd(r) \/ Ready(r) PROVE LeaseSeen'
  BY <1>13, RowsFrame DEF IInv, TypeOK, Admission, LeaseSeen, Systemd, Ready, Goto, ledger,
    machine
<1>14. ASSUME NEW r \in Runs, StopService(r) PROVE LeaseSeen'
  BY <1>14, RowsFrame, RowRuns, NoRunAssumption DEF IInv, TypeOK, Admission, LeaseSeen,
    StopService, Goto, CleanedUp, CleanupFailed, ContainerStopped, ledger, machine
<1>15. ASSUME NEW r \in Runs, Clean(r) PROVE LeaseSeen'
  BY <1>15, RowsFrame, RowRuns, NoRunAssumption DEF IInv, TypeOK, Admission, LeaseSeen,
    Clean, Goto, CleanedUp, ContainerStopped, ledger, machine
<1>16. ASSUME NEW r \in Runs, SessionEnds(r) \/ Abort(r) PROVE LeaseSeen'
  BY <1>16, RowsFrame, RowRuns, NoRunAssumption DEF IInv, TypeOK, Admission, LeaseSeen,
    SessionEnds, Abort, Goto, ContainerStopped, ledger, machine
<1>17. ASSUME NEW r \in Runs, Record(r) PROVE LeaseSeen'
  BY <1>17, RowsFrame DEF IInv, TypeOK, Admission, LeaseSeen, Record, Goto, ledger, machine
<1>18. ASSUME NEW r \in Runs, ServiceStarts(r) \/ ServiceReady(r) \/ ServiceEnds(r)
      PROVE  LeaseSeen'
  BY <1>18, RowsFrame DEF IInv, TypeOK, Admission, LeaseSeen, ServiceStarts, ServiceReady,
    ServiceEnds, Service, ledger, machine
<1>19. ASSUME NEW r \in Runs, ServiceStops(r) PROVE LeaseSeen'
  BY <1>19, RowsFrame, RowRuns, NoRunAssumption DEF IInv, TypeOK, Admission, LeaseSeen,
    ServiceStops, CleanedUp, CleanupFailed, ContainerStopped, ledger, machine
<1>20. ASSUME NEW r \in Runs, ContainerUp(r) PROVE LeaseSeen'
  BY <1>20, RowsFrame, RowRuns, NoRunAssumption DEF IInv, TypeOK, Admission, LeaseSeen,
    ContainerUp, ledger, machine
<1>21. ASSUME NEW r \in Runs, ContainerExits(r) \/ Publish(r) PROVE LeaseSeen'
  BY <1>21, RowsFrame, RowRuns, NoRunAssumption DEF IInv, TypeOK, Admission, LeaseSeen,
    ContainerExits, Publish, ContainerStopped, ledger, machine
<1>22. ASSUME NEW p \in Runs, NEW mode2 \in BOOLEAN, RecoveryStarts(p, mode2)
      PROVE  LeaseSeen'
  BY <1>22, RowsFrame DEF IInv, TypeOK, Admission, LeaseSeen, RecoveryStarts, Goto, ledger,
    machine
<1>23. CASE Quiesce
  BY <1>23, RowsFrame, RowRuns, NoRunAssumption DEF IInv, TypeOK, Admission, LeaseSeen,
    Quiesce, Recovery, ledger, machine
<1>24. CASE CreateReceipt
  BY <1>24, RowsFrame DEF IInv, TypeOK, Admission, LeaseSeen, CreateReceipt, Recovery,
    ledger, machine
<1>25. CASE WriteReceipt
  BY <1>25, RowsFrame DEF IInv, TypeOK, Admission, LeaseSeen, WriteReceipt, NoRecovery,
    ledger, machine
<1>26. CASE RecoveryFails
  BY <1>26, RowsFrame, RowRuns, NoRunAssumption DEF IInv, TypeOK, Admission, LeaseSeen,
    RecoveryFails, NoRecovery, ledger, machine
<1>27. CASE Reboot
  <2>1. Rows' = {}
    BY <1>27 DEF Reboot, Rows, ToSet
  <2> QED
    BY <2>1 DEF LeaseSeen
<1>28. CASE UNCHANGED vars
  BY <1>28, RowsFrame DEF IInv, TypeOK, Admission, LeaseSeen, vars, Goto, ledger, machine
<1> QED
  BY <1>1, <1>2, <1>3, <1>4, <1>5, <1>6, <1>7, <1>8, <1>9, <1>10, <1>11, <1>12, <1>13, <1>14,
    <1>15, <1>16, <1>17, <1>18, <1>19, <1>20, <1>21, <1>22, <1>23, <1>24, <1>25, <1>26,
    <1>27, <1>28 DEF Next, Coordinator, Launch, Recover

------------------------------------------------------------------------------
(***************************************************************************)
(* The last row, receipts and recoveries.                                  *)
(***************************************************************************)

\* Only the last run may have the GPU.
LEMMA OnlyLatestStep == ASSUME IInv, [Next]_vars PROVE OnlyLatest'
<1>1. ASSUME NEW r \in Runs, Prepare(r) PROVE OnlyLatest'
  BY <1>1, RowsFrame, ExposeStep DEF IInv, TypeOK, Admission, OnlyLatest, Prepare, ledger,
    machine, NobodyNew, GetsRow
<1>2. ASSUME NEW r \in Runs, TakeLock(r) PROVE OnlyLatest'
  BY <1>2, RowsFrame, ExposeStep DEF IInv, TypeOK, Admission, OnlyLatest, TakeLock, Goto,
    ledger, machine, NobodyNew, GetsRow
<1>3. ASSUME NEW r \in Runs, PendingCheck(r) PROVE OnlyLatest'
  BY <1>3, RowsFrame, ExposeStep DEF IInv, TypeOK, Admission, OnlyLatest, PendingCheck, Goto,
    ledger, machine, NobodyNew, GetsRow
<1>4. ASSUME NEW r \in Runs, HostCheck(r) PROVE OnlyLatest'
  BY <1>4, RowsFrame, ExposeStep DEF IInv, TypeOK, Admission, OnlyLatest, HostCheck, Goto,
    ledger, machine, NobodyNew, GetsRow
<1>5. ASSUME NEW r \in Runs, Archive(r) PROVE OnlyLatest'
  BY <1>5, RowsFrame, ExposeStep DEF IInv, TypeOK, Admission, OnlyLatest, Archive, Goto,
    ledger, machine, NobodyNew, GetsRow
<1>6. ASSUME NEW r \in Runs, Cancel(r) PROVE OnlyLatest'
  BY <1>6, RowsFrame, ExposeStep DEF IInv, TypeOK, Admission, OnlyLatest, Cancel, Goto,
    ledger, machine, NobodyNew, GetsRow
<1>7. ASSUME NEW r \in Runs, Crash(r) PROVE OnlyLatest'
  BY <1>7, RowsFrame, ExposeStep DEF IInv, TypeOK, Admission, OnlyLatest, Crash, Goto,
    ledger, machine, NobodyNew, GetsRow
<1>8. ASSUME NEW r \in Runs, Authorize(r) PROVE OnlyLatest'
  BY <1>8, RowsFrame, ExposeStep DEF IInv, TypeOK, Admission, OnlyLatest, Authorize, Goto,
    ledger, machine, NobodyNew, GetsRow
<1>9. ASSUME NEW r \in Runs, Reserve(r) PROVE OnlyLatest'
  <2>1. UNCHANGED <<receipt, container>> /\ pc[r] = "reserve"
    BY <1>9 DEF Reserve, machine
  <2>2. \A q \in Runs : pc[q] \in {"reserve", "writing"} => q = r
    BY <2>1 DEF IInv, Admission, LockHeldOnce, Locked, Asking
  <2>3. CASE ~Existing /\ torn' /\ rows' = rows
    <3>1. \A q \in Runs : ~MayExpose(q)
      BY <2>3, NoRunAssumption DEF Existing, Latest, IInv, Admission, OnlyLatest
    <3>2. pc'[r] # "archive"
      BY <2>3, <1>9 DEF Reserve, Goto, IInv, TypeOK
    <3> QED
      BY <2>2, <3>1, <3>2, ExposeStep DEF OnlyLatest, NobodyNew, GetsRow
  <2>4. CASE Reusable(r) /\ rows' = Append(rows, r) /\ torn' = torn
    <3>1. \A q \in Runs : ~MayExpose(q)
      BY <2>4 DEF Reusable, IInv, Admission, OnlyLatest
    <3>2. Latest' = r /\ ~torn' /\ receipt'[r] # "valid"
      BY <2>1, <2>4, RowAppended DEF Reusable, IInv, Untouched
    <3> QED
      BY <2>2, <3>1, <3>2, ExposeStep DEF OnlyLatest, NobodyNew, GetsRow
  <2>5. CASE pc'[r] = "idle" /\ rows' = rows /\ torn' = torn
    BY <2>1, <2>2, <2>5, RowsFrame, ExposeStep DEF IInv, Admission, OnlyLatest, NobodyNew,
      GetsRow
  <2> QED
    BY <1>9, <2>3, <2>4, <2>5 DEF Reserve, Goto, ledger, IInv, TypeOK
<1>10. ASSUME NEW r \in Runs, WriteLedger(r) PROVE OnlyLatest'
  <2>1. torn /\ UNCHANGED receipt /\ ~torn' /\ Latest' = r
    BY <1>10, FirstRow DEF WriteLedger, IInv, OfThisBoot
  <2>2. \A q \in Runs : ~MayExpose(q)
    BY <2>1 DEF IInv, Admission, OnlyLatest
  <2>3. \A q \in Runs : pc[q] \in {"reserve", "writing"} => q = r
    BY <1>10 DEF WriteLedger, IInv, Admission, LockHeldOnce, Locked, Asking
  <2>4. receipt[r] = "none"
    BY <2>1 DEF IInv, Untouched, Admission, Chained, Rows, ToSet
  <2> QED
    BY <2>1, <2>2, <2>3, <2>4, ExposeStep DEF OnlyLatest, NobodyNew, GetsRow
<1>11. ASSUME NEW r \in Runs, HoldReservation(r) PROVE OnlyLatest'
  <2>1. UNCHANGED <<rows, torn, receipt>>
    BY <1>11 DEF HoldReservation, ledger
  <2>2. \A q \in Runs : ~GetsRow(q)
    BY <1>11 DEF HoldReservation, Goto, IInv, TypeOK, GetsRow
  <2> QED
    BY <2>1, <2>2, RowsFrame, ExposeStep DEF IInv, Admission, OnlyLatest, NobodyNew, GetsRow
<1>12. ASSUME NEW r \in Runs, Reconcile(r) PROVE OnlyLatest'
  <2>1. /\ pc[r] = "reconcile" /\ pc' = [pc EXCEPT ![r] = "idle"]
        /\ UNCHANGED <<torn, receipt, container, service>>
    BY <1>12 DEF Reconcile, Goto, machine
  <2>2. Latest = r
    BY <2>1, LaunchingLast DEF Launching
  <2>3. \A q \in Runs : ~MayExpose(q)'
    BY <2>1, <2>2, ExposeStep DEF IInv, TypeOK, Untouched, Admission, OnlyLatest, MayExpose,
      Units, Launching, NobodyNew, GetsRow
  <2> QED
    BY <2>3 DEF OnlyLatest
<1>13. ASSUME NEW r \in Runs, Systemd(r) \/ Ready(r) PROVE OnlyLatest'
  <2>1. UNCHANGED <<rows, torn, receipt>>
    BY <1>13 DEF Systemd, Ready, ledger
  <2>2. \A q \in Runs : ~GetsRow(q)
    BY <1>13 DEF Systemd, Ready, Goto, IInv, TypeOK, GetsRow
  <2> QED
    BY <2>1, <2>2, RowsFrame, ExposeStep DEF IInv, Admission, OnlyLatest, NobodyNew, GetsRow
<1>14. ASSUME NEW r \in Runs, StopService(r) PROVE OnlyLatest'
  <2>1. UNCHANGED <<rows, torn, receipt>>
    BY <1>14 DEF StopService, ledger
  <2>2. \A q \in Runs : ~GetsRow(q)
    BY <1>14 DEF StopService, Goto, IInv, TypeOK, GetsRow
  <2> QED
    BY <2>1, <2>2, RowsFrame, ExposeStep DEF IInv, Admission, OnlyLatest, NobodyNew, GetsRow
<1>15. ASSUME NEW r \in Runs, Clean(r) PROVE OnlyLatest'
  BY <1>15, RowsFrame, ExposeStep DEF IInv, TypeOK, Admission, OnlyLatest, Clean, Goto,
    CleanedUp, ContainerStopped, ledger, machine, NobodyNew, GetsRow
<1>16. ASSUME NEW r \in Runs, SessionEnds(r) \/ Abort(r) PROVE OnlyLatest'
  <2>1. UNCHANGED <<rows, torn, receipt>>
    BY <1>16 DEF SessionEnds, Abort, ledger
  <2>2. \A q \in Runs : ~GetsRow(q)
    BY <1>16 DEF SessionEnds, Abort, Goto, IInv, TypeOK, GetsRow
  <2> QED
    BY <2>1, <2>2, RowsFrame, ExposeStep DEF IInv, Admission, OnlyLatest, NobodyNew, GetsRow
<1>17. ASSUME NEW r \in Runs, Record(r) PROVE OnlyLatest'
  BY <1>17, RowsFrame, ExposeStep DEF IInv, TypeOK, Admission, OnlyLatest, Record, Goto,
    ledger, machine, NobodyNew, GetsRow
<1>18. ASSUME NEW r \in Runs, ServiceStarts(r) \/ ServiceReady(r) \/ ServiceEnds(r)
      PROVE  OnlyLatest'
  BY <1>18, RowsFrame, ExposeStep DEF IInv, TypeOK, Admission, OnlyLatest, ServiceStarts,
    ServiceReady, ServiceEnds, Service, ledger, machine, NobodyNew, GetsRow
<1>19. ASSUME NEW r \in Runs, ServiceStops(r) PROVE OnlyLatest'
  BY <1>19, RowsFrame, ExposeStep DEF IInv, TypeOK, Admission, OnlyLatest, ServiceStops,
    CleanedUp, CleanupFailed, ContainerStopped, ledger, machine, NobodyNew, GetsRow
<1>20. ASSUME NEW r \in Runs, ContainerUp(r) PROVE OnlyLatest'
  BY <1>20, RowsFrame, ExposeStep DEF IInv, TypeOK, Admission, OnlyLatest, ContainerUp,
    ledger, machine, NobodyNew, GetsRow
<1>21. ASSUME NEW r \in Runs, ContainerExits(r) \/ Publish(r) PROVE OnlyLatest'
  BY <1>21, RowsFrame, ExposeStep DEF IInv, TypeOK, Admission, OnlyLatest, ContainerExits,
    Publish, ContainerStopped, ledger, machine, NobodyNew, GetsRow
<1>22. ASSUME NEW p \in Runs, NEW mode2 \in BOOLEAN, RecoveryStarts(p, mode2)
      PROVE  OnlyLatest'
  BY <1>22, RowsFrame, ExposeStep DEF IInv, TypeOK, Admission, OnlyLatest, RecoveryStarts,
    Goto, ledger, machine, NobodyNew, GetsRow
<1>23. CASE Quiesce
  BY <1>23, RowsFrame, ExposeStep DEF IInv, TypeOK, Admission, OnlyLatest, Quiesce, Recovery,
    ledger, machine, NobodyNew, GetsRow
<1>24. CASE CreateReceipt
  <2>1. UNCHANGED <<rows, torn, pc>>
    BY <1>24 DEF CreateReceipt, ledger
  <2>2. \A q \in Runs : ~MayExpose(q)
    BY <1>24 DEF CreateReceipt, IInv, RecoveryBound
  <2> QED
    BY <2>1, <2>2, ExposeStep DEF OnlyLatest, NobodyNew, GetsRow
<1>25. CASE WriteReceipt
  <2>1. UNCHANGED <<rows, torn, pc>> /\ receipt' = [receipt EXCEPT ![recovery.run] = "valid"]
    BY <1>25 DEF WriteReceipt, ledger
  <2>2. \A q \in Runs : ~MayExpose(q)
    BY <1>25 DEF WriteReceipt, IInv, RecoveryBound
  <2> QED
    BY <2>1, <2>2, ExposeStep DEF OnlyLatest, NobodyNew, GetsRow
<1>26. CASE RecoveryFails
  BY <1>26, RowsFrame, ExposeStep DEF IInv, TypeOK, Admission, OnlyLatest, RecoveryFails,
    NoRecovery, ledger, machine, NobodyNew, GetsRow
<1>27. CASE Reboot
  <2>1. \A q \in Runs : ~MayExpose(q)'
    BY <1>27 DEF Reboot, MayExpose, Units, Launching
  <2> QED
    BY <2>1 DEF OnlyLatest
<1>28. CASE UNCHANGED vars
  BY <1>28, RowsFrame, ExposeStep DEF IInv, TypeOK, Admission, OnlyLatest, vars, vars, Goto,
    ledger, machine, NobodyNew, GetsRow
<1> QED
  BY <1>1, <1>2, <1>3, <1>4, <1>5, <1>6, <1>7, <1>8, <1>9, <1>10, <1>11, <1>12, <1>13, <1>14,
    <1>15, <1>16, <1>17, <1>18, <1>19, <1>20, <1>21, <1>22, <1>23, <1>24, <1>25, <1>26,
    <1>27, <1>28 DEF Next, Coordinator, Launch, Recover

\* The ledger stays a chain, and the launching coordinator's row its last.
LEMMA ChainedStep == ASSUME IInv, [Next]_vars PROVE Chained'
<1>1. ASSUME NEW r \in Runs, Prepare(r) PROVE Chained'
  <2>1. UNCHANGED <<rows, torn, receipt, pc, boot>> /\ prepared' = [prepared EXCEPT ![r] = boot]
    BY <1>1 DEF Prepare, ledger
  <2> QED
    BY <2>1, RowsFrame, RowRuns DEF IInv, TypeOK, Admission, Chained
<1>2. ASSUME NEW r \in Runs, TakeLock(r) PROVE Chained'
  BY <1>2, RowsFrame DEF IInv, TypeOK, Admission, Chained, Launching, TakeLock, Goto, ledger,
    machine
<1>3. ASSUME NEW r \in Runs, PendingCheck(r) PROVE Chained'
  BY <1>3, RowsFrame DEF IInv, TypeOK, Admission, Chained, Launching, PendingCheck, Goto,
    ledger, machine
<1>4. ASSUME NEW r \in Runs, HostCheck(r) PROVE Chained'
  BY <1>4, RowsFrame DEF IInv, TypeOK, Admission, Chained, Launching, HostCheck, Goto,
    ledger, machine
<1>5. ASSUME NEW r \in Runs, Archive(r) PROVE Chained'
  BY <1>5, RowsFrame DEF IInv, TypeOK, Admission, Chained, Launching, Archive, Goto, ledger,
    machine
<1>6. ASSUME NEW r \in Runs, Cancel(r) PROVE Chained'
  BY <1>6, RowsFrame DEF IInv, TypeOK, Admission, Chained, Launching, Cancel, Goto, ledger,
    machine
<1>7. ASSUME NEW r \in Runs, Crash(r) PROVE Chained'
  BY <1>7, RowsFrame DEF IInv, TypeOK, Admission, Chained, Launching, Crash, Goto, ledger,
    machine
<1>8. ASSUME NEW r \in Runs, Authorize(r) PROVE Chained'
  BY <1>8, RowsFrame DEF IInv, TypeOK, Admission, Chained, Launching, Authorize, Goto,
    ledger, machine
<1>9. ASSUME NEW r \in Runs, Reserve(r) PROVE Chained'
  <2>1. UNCHANGED <<receipt, prepared, boot>> /\ pc[r] = "reserve" /\ prepared[r] = boot
    BY <1>9 DEF Reserve, IInv, OfThisBoot
  <2>2. \A q \in Runs : pc'[q] \in Launching => q = r /\ pc'[r] = "archive"
    BY <1>9 DEF Reserve, Goto, IInv, TypeOK, Admission, LockHeldOnce, Locked, Asking,
      Launching
  <2>3. CASE ~Existing /\ rows' = rows /\ pc'[r] = "writing"
    BY <2>1, <2>2, <2>3, RowsFrame DEF Existing, IInv, Admission, Chained
  <2>4. CASE Reusable(r) /\ rows' = Append(rows, r) /\ torn' = torn
    <3>1. rows # <<>> /\ Latest = rows[Len(rows)] /\ receipt[Latest] = "valid" /\ ~torn
      BY <2>4, LatestRow DEF Reusable, IInv
    <3>2. rows \in Seq(Runs) /\ Len(rows) \in Nat \ {0} /\ DOMAIN rows = 1..Len(rows)
      BY <3>1 DEF IInv, TypeOK
    <3>3. /\ rows' \in Seq(Runs) /\ rows' # <<>> /\ Len(rows') = Len(rows) + 1
          /\ \A i \in 1..Len(rows) : rows'[i] = rows[i]
          /\ rows'[Len(rows) + 1] = r
          /\ Rows' = Rows \cup {r} /\ Latest' = r
      BY <2>4, RowAppended DEF IInv
    <3>4. \A i \in 1..Len(rows) : rows[i] # r
      BY <2>4, <3>2 DEF Reusable, Rows, ToSet
    <3>5. DOMAIN rows' = 1..(Len(rows) + 1)
      BY <3>3
    <3>6. \A i, j \in DOMAIN rows' : rows'[i] = rows'[j] => i = j
      BY <3>2, <3>3, <3>4, <3>5 DEF IInv, Admission, Chained
    <3>7. \A i \in 1..(Len(rows') - 1) : receipt'[rows'[i]] = "valid"
      BY <2>1, <3>1, <3>2, <3>3 DEF IInv, Admission, Chained
    <3>8. (\A q \in Rows' : prepared'[q] = boot') /\ ~torn'
      BY <2>1, <2>4, <3>1, <3>3 DEF IInv, Admission, Chained
    <3> QED
      BY <2>2, <3>3, <3>6, <3>7, <3>8 DEF Chained
  <2>5. CASE pc'[r] = "idle" /\ rows' = rows /\ torn' = torn
    BY <2>1, <2>2, <2>5, RowsFrame DEF IInv, Admission, Chained
  <2> QED
    BY <1>9, <2>3, <2>4, <2>5 DEF Reserve, Goto, ledger, IInv, TypeOK
<1>10. ASSUME NEW r \in Runs, WriteLedger(r) PROVE Chained'
  <2>1. UNCHANGED <<receipt, prepared, boot>> /\ ~torn' /\ prepared[r] = boot
    BY <1>10 DEF WriteLedger, IInv, OfThisBoot
  <2>2. \A q \in Runs : pc'[q] \in Launching => q = r
    BY <1>10 DEF WriteLedger, Goto, IInv, TypeOK, Admission, LockHeldOnce, Locked, Asking
  <2>3. rows' \in Seq(Runs) /\ Len(rows') = 1 /\ Rows' = {r} /\ Latest' = r
    BY <1>10, FirstRow DEF WriteLedger
  <2> QED
    BY <2>1, <2>2, <2>3 DEF Chained
<1>11. ASSUME NEW r \in Runs, HoldReservation(r) PROVE Chained'
  BY <1>11, RowsFrame DEF IInv, TypeOK, Admission, Chained, Launching, HoldReservation, Goto,
    ledger, machine
<1>12. ASSUME NEW r \in Runs, Reconcile(r) PROVE Chained'
  <2>1. /\ UNCHANGED <<receipt, prepared, boot, torn>>
        /\ pc[r] = "reconcile" /\ pc' = [pc EXCEPT ![r] = "idle"]
    BY <1>12 DEF Reconcile, Goto
  <2>2. \A q \in Runs : pc'[q] \notin Launching
    BY <2>1 DEF IInv, TypeOK, Admission, LockHeldOnce, Locked, Launching
  <2>3. ~torn /\ Len(rows) \in Nat /\ DOMAIN rows = 1..Len(rows)
    BY <2>1, LaunchingLast DEF Launching, IInv, TypeOK
  <2>4. Rows' \subseteq Rows /\ rows' \in Seq(Runs) /\ Len(rows') \in Nat
    BY <1>12, RowReconciled
  <2>5. Len(rows') <= Len(rows) /\ \A i \in 1..Len(rows') : rows'[i] = rows[i]
    <3>1. CASE rows' = rows
      BY <2>3, <3>1
    <3>2. CASE Len(rows') = Len(rows) - 1 /\ \A i \in 1..(Len(rows) - 1) : rows'[i] = rows[i]
      BY <2>3, <3>2
    <3> QED
      BY <1>12, <3>1, <3>2, RowReconciled
  <2>6. DOMAIN rows' = 1..Len(rows')
    BY <2>4
  <2>7. \A i, j \in DOMAIN rows' : rows'[i] = rows'[j] => i = j
    BY <2>3, <2>4, <2>5, <2>6 DEF IInv, Admission, Chained
  <2>8. \A i \in 1..(Len(rows') - 1) : receipt'[rows'[i]] = "valid"
    BY <2>1, <2>3, <2>4, <2>5 DEF IInv, Admission, Chained
  <2> QED
    BY <2>1, <2>2, <2>3, <2>4, <2>7, <2>8 DEF IInv, Admission, Chained
<1>13. ASSUME NEW r \in Runs, Systemd(r) \/ Ready(r) PROVE Chained'
  BY <1>13, RowsFrame DEF IInv, TypeOK, Admission, Chained, Launching, Systemd, Ready, Goto,
    ledger, machine
<1>14. ASSUME NEW r \in Runs, StopService(r) PROVE Chained'
  BY <1>14, RowsFrame DEF IInv, TypeOK, Admission, Chained, Launching, StopService, Goto,
    CleanedUp, CleanupFailed, ContainerStopped, ledger, machine
<1>15. ASSUME NEW r \in Runs, Clean(r) PROVE Chained'
  BY <1>15, RowsFrame DEF IInv, TypeOK, Admission, Chained, Launching, Clean, Goto,
    CleanedUp, ContainerStopped, ledger, machine
<1>16. ASSUME NEW r \in Runs, SessionEnds(r) \/ Abort(r) PROVE Chained'
  BY <1>16, RowsFrame DEF IInv, TypeOK, Admission, Chained, Launching, SessionEnds, Abort,
    Goto, ContainerStopped, ledger, machine
<1>17. ASSUME NEW r \in Runs, Record(r) PROVE Chained'
  BY <1>17, RowsFrame DEF IInv, TypeOK, Admission, Chained, Launching, Record, Goto, ledger,
    machine
<1>18. ASSUME NEW r \in Runs, ServiceStarts(r) \/ ServiceReady(r) \/ ServiceEnds(r)
      PROVE  Chained'
  BY <1>18, RowsFrame DEF IInv, TypeOK, Admission, Chained, Launching, ServiceStarts,
    ServiceReady, ServiceEnds, Service, ledger, machine
<1>19. ASSUME NEW r \in Runs, ServiceStops(r) PROVE Chained'
  BY <1>19, RowsFrame DEF IInv, TypeOK, Admission, Chained, Launching, ServiceStops,
    CleanedUp, CleanupFailed, ContainerStopped, ledger, machine
<1>20. ASSUME NEW r \in Runs, ContainerUp(r) PROVE Chained'
  BY <1>20, RowsFrame DEF IInv, TypeOK, Admission, Chained, Launching, ContainerUp, ledger,
    machine
<1>21. ASSUME NEW r \in Runs, ContainerExits(r) \/ Publish(r) PROVE Chained'
  BY <1>21, RowsFrame DEF IInv, TypeOK, Admission, Chained, Launching, ContainerExits,
    Publish, ContainerStopped, ledger, machine
<1>22. ASSUME NEW p \in Runs, NEW mode2 \in BOOLEAN, RecoveryStarts(p, mode2) PROVE Chained'
  BY <1>22, RowsFrame DEF IInv, TypeOK, Admission, Chained, Launching, RecoveryStarts, Goto,
    ledger, machine
<1>23. CASE Quiesce
  BY <1>23, RowsFrame DEF IInv, TypeOK, Admission, Chained, Launching, Quiesce, Recovery,
    ledger, machine
<1>24. CASE CreateReceipt
  <2>1. /\ UNCHANGED <<rows, torn, pc, prepared, boot>>
        /\ receipt' = [receipt EXCEPT ![Latest] = "torn"] /\ Latest # NoRun
    BY <1>24 DEF CreateReceipt, ledger, IInv, RecoveryBound
  <2>2. Latest = rows[Len(rows)] /\ Len(rows) \in Nat /\ DOMAIN rows = 1..Len(rows)
    BY <2>1, LatestRow DEF IInv, TypeOK
  <2>3. ASSUME NEW i \in 1..(Len(rows) - 1) PROVE rows[i] # Latest /\ rows[i] \in Runs
    <3>1. i \in 1..Len(rows) /\ Len(rows) \in 1..Len(rows) /\ i # Len(rows)
      <4>1. \A n \in Nat : \A k \in 1..(n - 1) : k \in 1..n /\ n \in 1..n /\ k # n
        OBVIOUS
      <4>2. Len(rows) \in Nat /\ i \in 1..(Len(rows) - 1)
        BY <2>2, <2>3
      <4> QED
        BY <4>1, <4>2
    <3>2. rows[i] # rows[Len(rows)]
      BY <2>2, <3>1 DEF IInv, Admission, Chained
    <3>3. rows[i] \in Runs
      BY <2>2, <3>1, RowRuns DEF IInv, Rows, ToSet
    <3> QED
      BY <2>2, <3>2, <3>3
  <2> QED
    BY <2>1, <2>3, RowsFrame DEF IInv, TypeOK, Admission, Chained
<1>25. CASE WriteReceipt
  <2>1. /\ UNCHANGED <<rows, torn, pc, prepared, boot>>
        /\ receipt' = [receipt EXCEPT ![recovery.run] = "valid"]
    BY <1>25 DEF WriteReceipt, ledger
  <2>2. Len(rows) \in Nat /\ \A i \in 1..(Len(rows) - 1) : rows[i] \in Runs
    BY DEF IInv, TypeOK
  <2> QED
    BY <2>1, <2>2, RowsFrame DEF IInv, TypeOK, Admission, Chained
<1>26. CASE RecoveryFails
  BY <1>26, RowsFrame DEF IInv, TypeOK, Admission, Chained, Launching, RecoveryFails,
    NoRecovery, ledger, machine
<1>27. CASE Reboot
  <2>1. rows' = <<>> /\ ~torn' /\ \A q \in Runs : pc'[q] = "idle"
    BY <1>27 DEF Reboot
  <2>2. Rows' = {} /\ Len(rows') = 0 /\ DOMAIN rows' = {}
    BY <2>1 DEF Rows, ToSet
  <2> QED
    BY <2>1, <2>2 DEF Chained, Launching
<1>28. CASE UNCHANGED vars
  BY <1>28, RowsFrame DEF IInv, TypeOK, Admission, Chained, Launching, vars, vars, Goto,
    ledger, machine
<1> QED
  BY <1>1, <1>2, <1>3, <1>4, <1>5, <1>6, <1>7, <1>8, <1>9, <1>10, <1>11, <1>12, <1>13, <1>14,
    <1>15, <1>16, <1>17, <1>18, <1>19, <1>20, <1>21, <1>22, <1>23, <1>24, <1>25, <1>26,
    <1>27, <1>28 DEF Next, Coordinator, Launch, Recover

\* Nobody but the last run leaves the GPU in use, and its receipt says it does not.
LEMMA SettledStep == ASSUME IInv, [Next]_vars PROVE Settled'
<1>1. ASSUME NEW r \in Runs, Prepare(r) PROVE Settled'
  BY <1>1, RowsFrame DEF IInv, TypeOK, Admission, Settled, Prepare, ledger, machine
<1>2. ASSUME NEW r \in Runs, TakeLock(r) PROVE Settled'
  BY <1>2, RowsFrame DEF IInv, TypeOK, Admission, Settled, TakeLock, Goto, ledger, machine
<1>3. ASSUME NEW r \in Runs, PendingCheck(r) PROVE Settled'
  BY <1>3, RowsFrame DEF IInv, TypeOK, Admission, Settled, PendingCheck, Goto, ledger,
    machine
<1>4. ASSUME NEW r \in Runs, HostCheck(r) PROVE Settled'
  BY <1>4, RowsFrame DEF IInv, TypeOK, Admission, Settled, HostCheck, Goto, ledger, machine
<1>5. ASSUME NEW r \in Runs, Archive(r) PROVE Settled'
  BY <1>5, RowsFrame DEF IInv, TypeOK, Admission, Settled, Archive, Goto, ledger, machine
<1>6. ASSUME NEW r \in Runs, Cancel(r) PROVE Settled'
  BY <1>6, RowsFrame DEF IInv, TypeOK, Admission, Settled, Cancel, Goto, ledger, machine
<1>7. ASSUME NEW r \in Runs, Crash(r) PROVE Settled'
  BY <1>7, RowsFrame DEF IInv, TypeOK, Admission, Settled, Crash, Goto, ledger, machine
<1>8. ASSUME NEW r \in Runs, Authorize(r) PROVE Settled'
  BY <1>8, RowsFrame DEF IInv, TypeOK, Admission, Settled, Authorize, Goto, ledger, machine
<1>9. ASSUME NEW r \in Runs, Reserve(r) PROVE Settled'
  <2>1. UNCHANGED <<receipt, used, recovery>> /\ recovery.pc = "off"
    BY <1>9, LockedMeansOff DEF Reserve, machine, Locked, Asking
  <2>2. CASE Reusable(r) /\ rows' = Append(rows, r)
    BY <2>1, <2>2, RowAppended DEF Reusable, IInv, Admission, Settled
  <2>3. CASE rows' = rows
    BY <2>1, <2>3, RowsFrame DEF IInv, Admission, Settled
  <2> QED
    BY <1>9, <2>2, <2>3 DEF Reserve, ledger
<1>10. ASSUME NEW r \in Runs, WriteLedger(r) PROVE Settled'
  <2>1. UNCHANGED <<receipt, used, recovery>> /\ recovery.pc = "off"
    BY <1>10, LockedMeansOff DEF WriteLedger, machine, Locked, Asking
  <2>2. Latest = NoRun
    BY <1>10 DEF WriteLedger, IInv, OfThisBoot, Admission, Chained, Latest
  <2>3. used = {}
    BY <2>2, NoRunAssumption DEF IInv, TypeOK, Admission, Settled
  <2> QED
    BY <2>1, <2>3 DEF Settled
<1>11. ASSUME NEW r \in Runs, HoldReservation(r) PROVE Settled'
  BY <1>11, RowsFrame DEF IInv, TypeOK, Admission, Settled, HoldReservation, Goto, ledger,
    machine
<1>12. ASSUME NEW r \in Runs, Reconcile(r) PROVE Settled'
  <2>1. UNCHANGED <<receipt, used, recovery>> /\ pc[r] = "reconcile"
    BY <1>12 DEF Reconcile, machine
  <2>2. recovery.pc = "off" /\ Latest = r
    BY <2>1, LockedMeansOff, LaunchingLast DEF Locked, Launching
  <2>3. used = {}
    BY <2>1, <2>2 DEF IInv, Untouched, Admission, Settled
  <2> QED
    BY <2>1, <2>2, <2>3 DEF Settled
<1>13. ASSUME NEW r \in Runs, Systemd(r) \/ Ready(r) PROVE Settled'
  BY <1>13, RowsFrame DEF IInv, TypeOK, Admission, Settled, Systemd, Ready, Goto, ledger,
    machine
<1>14. ASSUME NEW r \in Runs, StopService(r) PROVE Settled'
  BY <1>14, RowsFrame DEF IInv, TypeOK, Admission, Settled, StopService, Goto, CleanedUp,
    CleanupFailed, ContainerStopped, ledger, machine
<1>15. ASSUME NEW r \in Runs, Clean(r) PROVE Settled'
  BY <1>15, RowsFrame DEF IInv, TypeOK, Admission, Settled, Clean, Goto, CleanedUp,
    ContainerStopped, ledger, machine
<1>16. ASSUME NEW r \in Runs, SessionEnds(r) \/ Abort(r) PROVE Settled'
  BY <1>16, RowsFrame DEF IInv, TypeOK, Admission, Settled, SessionEnds, Abort, Goto,
    ContainerStopped, ledger, machine
<1>17. ASSUME NEW r \in Runs, Record(r) PROVE Settled'
  BY <1>17, RowsFrame DEF IInv, TypeOK, Admission, Settled, Record, Goto, ledger, machine
<1>18. ASSUME NEW r \in Runs, ServiceStarts(r) \/ ServiceReady(r) \/ ServiceEnds(r)
      PROVE  Settled'
  BY <1>18, RowsFrame DEF IInv, TypeOK, Admission, Settled, ServiceStarts, ServiceReady,
    ServiceEnds, Service, ledger, machine
<1>19. ASSUME NEW r \in Runs, ServiceStops(r) PROVE Settled'
  BY <1>19, RowsFrame DEF IInv, TypeOK, Admission, Settled, ServiceStops, CleanedUp,
    CleanupFailed, ContainerStopped, ledger, machine
<1>20. ASSUME NEW r \in Runs, ContainerUp(r) PROVE Settled'
  <2>1. UNCHANGED <<rows, receipt, recovery>> /\ used' = used \cup {r} /\ MayExpose(r)
    BY <1>20 DEF ContainerUp, ledger, MayExpose, Units
  <2>2. Latest = r /\ receipt[r] # "valid" /\ recovery.pc \notin {"gate", "write"}
    BY <2>1 DEF IInv, Admission, OnlyLatest, RecoveryBound
  <2> QED
    BY <2>1, <2>2, RowsFrame DEF IInv, Admission, Settled
<1>21. ASSUME NEW r \in Runs, ContainerExits(r) \/ Publish(r) PROVE Settled'
  BY <1>21, RowsFrame DEF IInv, TypeOK, Admission, Settled, ContainerExits, Publish,
    ContainerStopped, ledger, machine
<1>22. ASSUME NEW p \in Runs, NEW mode2 \in BOOLEAN, RecoveryStarts(p, mode2) PROVE Settled'
  BY <1>22, RowsFrame DEF IInv, TypeOK, Admission, Settled, RecoveryStarts, Goto, ledger,
    machine
<1>23. CASE Quiesce
  <2>1. UNCHANGED rows /\ used' = {} /\ recovery'.run = recovery.run /\ recovery.pc = "open"
    BY <1>23 DEF Quiesce, ledger, Recovery, IInv, TypeOK
  <2> QED
    BY <2>1, RowsFrame DEF Settled, IInv, RecoveryBound
<1>24. CASE CreateReceipt
  <2>1. UNCHANGED <<rows, used>> /\ used = {} /\ recovery.run = Latest
    BY <1>24 DEF CreateReceipt, ledger, machine, IInv, Admission, Settled
  <2>2. recovery'.run = recovery.run
    BY <1>24 DEF CreateReceipt, Recovery, IInv, TypeOK
  <2> QED
    BY <2>1, <2>2, RowsFrame DEF Settled
<1>25. CASE WriteReceipt
  <2>1. UNCHANGED used /\ used = {} /\ recovery'.pc = "off"
    BY <1>25 DEF WriteReceipt, machine, NoRecovery, IInv, Admission, Settled
  <2> QED
    BY <2>1 DEF Settled
<1>26. CASE RecoveryFails
  BY <1>26, RowsFrame DEF IInv, TypeOK, Admission, Settled, RecoveryFails, NoRecovery,
    ledger, machine
<1>27. CASE Reboot
  <2>1. used' = {} /\ recovery'.pc = "off"
    BY <1>27 DEF Reboot, NoRecovery
  <2> QED
    BY <2>1 DEF Settled
<1>28. CASE UNCHANGED vars
  BY <1>28, RowsFrame DEF IInv, TypeOK, Admission, Settled, vars, vars, Goto, ledger, machine
<1> QED
  BY <1>1, <1>2, <1>3, <1>4, <1>5, <1>6, <1>7, <1>8, <1>9, <1>10, <1>11, <1>12, <1>13, <1>14,
    <1>15, <1>16, <1>17, <1>18, <1>19, <1>20, <1>21, <1>22, <1>23, <1>24, <1>25, <1>26,
    <1>27, <1>28 DEF Next, Coordinator, Launch, Recover

\* Under a recovery that takes the GPU for quiet nobody comes up.
LEMMA RecoveryBoundStep == ASSUME IInv, [Next]_vars PROVE RecoveryBound'
<1>1. ASSUME NEW r \in Runs, Prepare(r) PROVE RecoveryBound'
  <2>1. UNCHANGED <<rows, recovery>>
    BY <1>1 DEF Prepare, ledger
  <2>2. \A q \in Runs : ~GetsRow(q)
    BY <1>1 DEF Prepare, Goto, IInv, TypeOK, GetsRow
  <2> QED
    BY <2>1, <2>2, RowsFrame, ExposeStep DEF IInv, RecoveryBound, NobodyNew, GetsRow
<1>2. ASSUME NEW r \in Runs, TakeLock(r) PROVE RecoveryBound'
  <2>1. UNCHANGED <<rows, recovery>>
    BY <1>2 DEF TakeLock, ledger
  <2>2. \A q \in Runs : ~GetsRow(q)
    BY <1>2 DEF TakeLock, Goto, IInv, TypeOK, GetsRow
  <2> QED
    BY <2>1, <2>2, RowsFrame, ExposeStep DEF IInv, RecoveryBound, NobodyNew, GetsRow
<1>3. ASSUME NEW r \in Runs, PendingCheck(r) PROVE RecoveryBound'
  <2>1. UNCHANGED <<rows, recovery>>
    BY <1>3 DEF PendingCheck, ledger
  <2>2. \A q \in Runs : ~GetsRow(q)
    BY <1>3 DEF PendingCheck, Goto, IInv, TypeOK, GetsRow
  <2> QED
    BY <2>1, <2>2, RowsFrame, ExposeStep DEF IInv, RecoveryBound, NobodyNew, GetsRow
<1>4. ASSUME NEW r \in Runs, HostCheck(r) PROVE RecoveryBound'
  <2>1. UNCHANGED <<rows, recovery>>
    BY <1>4 DEF HostCheck, ledger
  <2>2. \A q \in Runs : ~GetsRow(q)
    BY <1>4 DEF HostCheck, Goto, IInv, TypeOK, GetsRow
  <2> QED
    BY <2>1, <2>2, RowsFrame, ExposeStep DEF IInv, RecoveryBound, NobodyNew, GetsRow
<1>5. ASSUME NEW r \in Runs, Archive(r) PROVE RecoveryBound'
  <2>1. UNCHANGED <<rows, recovery>>
    BY <1>5 DEF Archive, ledger
  <2>2. \A q \in Runs : ~GetsRow(q)
    BY <1>5 DEF Archive, Goto, IInv, TypeOK, GetsRow
  <2> QED
    BY <2>1, <2>2, RowsFrame, ExposeStep DEF IInv, RecoveryBound, NobodyNew, GetsRow
<1>6. ASSUME NEW r \in Runs, Cancel(r) PROVE RecoveryBound'
  <2>1. UNCHANGED <<rows, recovery>>
    BY <1>6 DEF Cancel, ledger
  <2>2. \A q \in Runs : ~GetsRow(q)
    BY <1>6 DEF Cancel, Goto, IInv, TypeOK, GetsRow
  <2> QED
    BY <2>1, <2>2, RowsFrame, ExposeStep DEF IInv, RecoveryBound, NobodyNew, GetsRow
<1>7. ASSUME NEW r \in Runs, Crash(r) PROVE RecoveryBound'
  <2>1. UNCHANGED <<rows, recovery>>
    BY <1>7 DEF Crash, ledger
  <2>2. \A q \in Runs : ~GetsRow(q)
    BY <1>7 DEF Crash, Goto, IInv, TypeOK, GetsRow
  <2> QED
    BY <2>1, <2>2, RowsFrame, ExposeStep DEF IInv, RecoveryBound, NobodyNew, GetsRow
<1>8. ASSUME NEW r \in Runs, Authorize(r) PROVE RecoveryBound'
  <2>1. UNCHANGED <<rows, recovery>>
    BY <1>8 DEF Authorize, ledger
  <2>2. \A q \in Runs : ~GetsRow(q)
    BY <1>8 DEF Authorize, Goto, IInv, TypeOK, GetsRow
  <2> QED
    BY <2>1, <2>2, RowsFrame, ExposeStep DEF IInv, RecoveryBound, NobodyNew, GetsRow
<1>9. ASSUME NEW r \in Runs, Reserve(r) PROVE RecoveryBound'
  <2>1. UNCHANGED recovery /\ recovery.pc = "off"
    BY <1>9, LockedMeansOff DEF Reserve, Locked, Asking, Launching
  <2> QED
    BY <2>1 DEF RecoveryBound
<1>10. ASSUME NEW r \in Runs, WriteLedger(r) PROVE RecoveryBound'
  <2>1. UNCHANGED recovery /\ recovery.pc = "off"
    BY <1>10, LockedMeansOff DEF WriteLedger, Locked, Asking, Launching
  <2> QED
    BY <2>1 DEF RecoveryBound
<1>11. ASSUME NEW r \in Runs, HoldReservation(r) PROVE RecoveryBound'
  <2>1. UNCHANGED <<rows, recovery>>
    BY <1>11 DEF HoldReservation, ledger
  <2>2. \A q \in Runs : ~GetsRow(q)
    BY <1>11 DEF HoldReservation, Goto, IInv, TypeOK, GetsRow
  <2> QED
    BY <2>1, <2>2, RowsFrame, ExposeStep DEF IInv, RecoveryBound, NobodyNew, GetsRow
<1>12. ASSUME NEW r \in Runs, Reconcile(r) PROVE RecoveryBound'
  <2>1. UNCHANGED recovery /\ recovery.pc = "off"
    BY <1>12, LockedMeansOff DEF Reconcile, Locked, Asking, Launching
  <2> QED
    BY <2>1 DEF RecoveryBound
<1>13. ASSUME NEW r \in Runs, Systemd(r) \/ Ready(r) PROVE RecoveryBound'
  <2>1. UNCHANGED <<rows, recovery>>
    BY <1>13 DEF Systemd, Ready, ledger
  <2>2. \A q \in Runs : ~GetsRow(q)
    BY <1>13 DEF Systemd, Ready, Goto, IInv, TypeOK, GetsRow
  <2> QED
    BY <2>1, <2>2, RowsFrame, ExposeStep DEF IInv, RecoveryBound, NobodyNew, GetsRow
<1>14. ASSUME NEW r \in Runs, StopService(r) PROVE RecoveryBound'
  <2>1. UNCHANGED <<rows, recovery>>
    BY <1>14 DEF StopService, ledger
  <2>2. \A q \in Runs : ~GetsRow(q)
    BY <1>14 DEF StopService, Goto, IInv, TypeOK, GetsRow
  <2> QED
    BY <2>1, <2>2, RowsFrame, ExposeStep DEF IInv, RecoveryBound, NobodyNew, GetsRow
<1>15. ASSUME NEW r \in Runs, Clean(r) PROVE RecoveryBound'
  <2>1. UNCHANGED <<rows, recovery>>
    BY <1>15 DEF Clean, ledger
  <2>2. \A q \in Runs : ~GetsRow(q)
    BY <1>15 DEF Clean, Goto, IInv, TypeOK, GetsRow
  <2> QED
    BY <2>1, <2>2, RowsFrame, ExposeStep DEF IInv, RecoveryBound, NobodyNew, GetsRow
<1>16. ASSUME NEW r \in Runs, SessionEnds(r) \/ Abort(r) PROVE RecoveryBound'
  <2>1. UNCHANGED <<rows, recovery>>
    BY <1>16 DEF SessionEnds, Abort, ledger
  <2>2. \A q \in Runs : ~GetsRow(q)
    BY <1>16 DEF SessionEnds, Abort, Goto, IInv, TypeOK, GetsRow
  <2> QED
    BY <2>1, <2>2, RowsFrame, ExposeStep DEF IInv, RecoveryBound, NobodyNew, GetsRow
<1>17. ASSUME NEW r \in Runs, Record(r) PROVE RecoveryBound'
  <2>1. UNCHANGED <<rows, recovery>>
    BY <1>17 DEF Record, ledger
  <2>2. \A q \in Runs : ~GetsRow(q)
    BY <1>17 DEF Record, Goto, IInv, TypeOK, GetsRow
  <2> QED
    BY <2>1, <2>2, RowsFrame, ExposeStep DEF IInv, RecoveryBound, NobodyNew, GetsRow
<1>18. ASSUME NEW r \in Runs, ServiceStarts(r) \/ ServiceReady(r) \/ ServiceEnds(r)
      PROVE  RecoveryBound'
  <2>1. UNCHANGED <<rows, recovery>>
    BY <1>18 DEF ServiceStarts, ServiceReady, ServiceEnds, Service, ledger
  <2>2. \A q \in Runs : ~GetsRow(q)
    BY <1>18 DEF ServiceStarts, ServiceReady, ServiceEnds, Service, Goto, IInv, TypeOK,
      GetsRow
  <2> QED
    BY <2>1, <2>2, RowsFrame, ExposeStep DEF IInv, RecoveryBound, NobodyNew, GetsRow
<1>19. ASSUME NEW r \in Runs, ServiceStops(r) PROVE RecoveryBound'
  <2>1. UNCHANGED <<rows, recovery>>
    BY <1>19 DEF ServiceStops, ledger
  <2>2. \A q \in Runs : ~GetsRow(q)
    BY <1>19 DEF ServiceStops, Goto, IInv, TypeOK, GetsRow
  <2> QED
    BY <2>1, <2>2, RowsFrame, ExposeStep DEF IInv, RecoveryBound, NobodyNew, GetsRow
<1>20. ASSUME NEW r \in Runs, ContainerUp(r) PROVE RecoveryBound'
  <2>1. UNCHANGED <<rows, recovery>>
    BY <1>20 DEF ContainerUp, ledger
  <2>2. \A q \in Runs : ~GetsRow(q)
    BY <1>20 DEF ContainerUp, Goto, IInv, TypeOK, GetsRow
  <2> QED
    BY <2>1, <2>2, RowsFrame, ExposeStep DEF IInv, RecoveryBound, NobodyNew, GetsRow
<1>21. ASSUME NEW r \in Runs, ContainerExits(r) \/ Publish(r) PROVE RecoveryBound'
  <2>1. UNCHANGED <<rows, recovery>>
    BY <1>21 DEF ContainerExits, Publish, ledger
  <2>2. \A q \in Runs : ~GetsRow(q)
    BY <1>21 DEF ContainerExits, Publish, Goto, IInv, TypeOK, GetsRow
  <2> QED
    BY <2>1, <2>2, RowsFrame, ExposeStep DEF IInv, RecoveryBound, NobodyNew, GetsRow
<1>22. ASSUME NEW p \in Runs, NEW mode2 \in BOOLEAN, RecoveryStarts(p, mode2)
      PROVE  RecoveryBound'
  <2>1. UNCHANGED <<rows, pc, container, service>> /\ Latest = p /\ recovery'.run = p
    BY <1>22 DEF RecoveryStarts, ledger, machine
  <2>2. recovery'.pc = "open" /\ recovery'.mode2 = mode2
    BY <1>22 DEF RecoveryStarts
  <2>3. ASSUME mode2, NEW q \in Runs PROVE ~MayExpose(q)
    <3>1. pending = {} /\ container[q] # "up" /\ pc[q] \notin Launching
      BY <1>22, <2>3 DEF RecoveryStarts, LockFree, Locked, Exposed
    <3> QED
      BY <3>1 DEF MayExpose, IInv, Untouched
  <2> QED
    BY <2>1, <2>2, <2>3, RowsFrame, NoRunAssumption DEF RecoveryBound, MayExpose, Units
<1>23. CASE Quiesce
  <2>1. UNCHANGED <<rows, pc, container, service>> /\ Exposed = {} /\ recovery.pc = "open"
    BY <1>23 DEF Quiesce, ledger
  <2>2. recovery'.run = recovery.run /\ recovery'.mode2 = recovery.mode2
    BY <1>23 DEF Quiesce, Recovery, IInv, TypeOK
  <2>3. ASSUME NEW q \in Runs PROVE ~MayExpose(q)
    <3>1. CASE recovery.mode2
      BY <2>1, <3>1 DEF IInv, RecoveryBound
    <3>2. CASE vram = recovery.run
      <4>1. vram = Latest /\ Latest \in Rows /\ container[Latest] # "none"
        BY <2>1, <3>2, LatestRow DEF IInv, RecoveryBound, Admission, LeaseSeen
      <4> QED
        BY <2>1, <4>1 DEF IInv, Admission, OnlyLatest, MayExpose, Exposed
    <3> QED
      BY <1>23, <3>1, <3>2 DEF Quiesce
  <2> QED
    BY <2>1, <2>2, <2>3, RowsFrame DEF IInv, RecoveryBound, MayExpose, Units
<1>24. CASE CreateReceipt
  <2>1. UNCHANGED <<rows, pc, container, service>> /\ recovery.pc = "gate"
    BY <1>24 DEF CreateReceipt, ledger, machine
  <2>2. recovery'.run = recovery.run
    BY <1>24 DEF CreateReceipt, Recovery, IInv, TypeOK
  <2> QED
    BY <2>1, <2>2, RowsFrame DEF IInv, RecoveryBound, MayExpose, Units
<1>25. CASE WriteReceipt
  BY <1>25 DEF WriteReceipt, NoRecovery, RecoveryBound
<1>26. CASE RecoveryFails
  BY <1>26 DEF RecoveryFails, NoRecovery, RecoveryBound
<1>27. CASE Reboot
  BY <1>27 DEF Reboot, NoRecovery, RecoveryBound
<1>28. CASE UNCHANGED vars
  <2>1. UNCHANGED <<rows, recovery>>
    BY <1>28 DEF vars, ledger
  <2>2. \A q \in Runs : ~GetsRow(q)
    BY <1>28 DEF vars, ledger, Goto, IInv, TypeOK, GetsRow
  <2> QED
    BY <2>1, <2>2, RowsFrame, ExposeStep DEF IInv, RecoveryBound, NobodyNew, GetsRow
<1> QED
  BY <1>1, <1>2, <1>3, <1>4, <1>5, <1>6, <1>7, <1>8, <1>9, <1>10, <1>11, <1>12, <1>13, <1>14,
    <1>15, <1>16, <1>17, <1>18, <1>19, <1>20, <1>21, <1>22, <1>23, <1>24, <1>25, <1>26,
    <1>27, <1>28 DEF Next, Coordinator, Launch, Recover

------------------------------------------------------------------------------
(***************************************************************************)
(* The theorems.                                                           *)
(***************************************************************************)

\* A host that has just booted for the first time satisfies the invariant.
LEMMA Initial == ASSUME Init PROVE IInv
<1>1. rows = <<>> /\ Rows = {} /\ Len(rows) = 0 /\ DOMAIN rows = {} /\ Latest = NoRun
  BY DEF Init, Rows, ToSet, Latest
<1>2. rows \in Seq(Runs)
  <2>1. <<>> \in Seq(Runs)
    OBVIOUS
  <2> QED
    BY <1>1, <2>1
<1>3. TypeOK
  <2>1. boot \in 1..MaxBoots /\ prepared \in [Runs -> 0..boot]
    BY BootsAssumption DEF Init
  <2> QED
    BY <2>1, <1>2 DEF Init, TypeOK, NoRecovery
<1>4. \A r \in Runs : ~MayExpose(r)
  BY DEF Init, MayExpose, Units, Launching
<1>5. LockHeldOnce /\ OnlyLatest
  BY <1>4 DEF Init, NoRecovery, LockHeldOnce, Locked, Asking, Launching, OnlyLatest
<1>6. Chained
  BY <1>1 DEF Init, Chained, Launching
<1>7. Settled /\ LeaseSeen
  BY <1>1 DEF Init, NoRecovery, Settled, LeaseSeen
<1>8. Untouched /\ OfThisBoot /\ RecoveryBound
  BY DEF Init, NoRecovery, Untouched, OfThisBoot, RecoveryBound, Units
<1> QED
  BY <1>3, <1>5, <1>6, <1>7, <1>8 DEF IInv, Admission

\* Nobody but the ledger's last run has the GPU or may get it, none once that run
\* is receipted, and what a receipt says is true; whatever coordinators,
\* services and recoveries do, and wherever they are killed.
THEOREM AdmissionInvariant == Spec => []IInv
<1>1. Init => IInv
  BY Initial
<1>2. IInv /\ [Next]_vars => IInv'
  BY TypeStep, LockStep, OnlyLatestStep, ChainedStep, SettledStep, LeaseSeenStep,
    UntouchedStep, OfThisBootStep, RecoveryBoundStep DEF IInv, Admission
<1> QED
  BY <1>1, <1>2, PTL DEF Spec

\* A container that stops leaves the GPU to nobody.
LEMMA StoppedExposure ==
  ASSUME IInv, NEW r \in Runs, ContainerStopped(r) \/ UNCHANGED container
  PROVE  Exposed' = Exposed \/ Exposed' = {}
<1>1. CASE UNCHANGED container
  BY <1>1 DEF Exposed
<1>2. CASE ContainerStopped(r)
  <2>1. \A q \in Runs : container'[q] = "up" => container[q] = "up" /\ q # r
    BY <1>2 DEF ContainerStopped, IInv, TypeOK
  <2>2. \A p, q \in Runs : container[p] = "up" /\ container[q] = "up" => p = q
    BY DEF IInv, Admission, OnlyLatest, MayExpose
  <2>3. CASE container[r] = "up"
    BY <2>1, <2>2, <2>3 DEF Exposed
  <2>4. CASE container[r] # "up"
    <3>1. container' = container
      BY <1>2, <2>4 DEF ContainerStopped, IInv, TypeOK
    <3> QED
      BY <3>1 DEF Exposed
  <2> QED
    BY <2>3, <2>4
<1> QED
  BY <1>1, <1>2

\* Every step is one of the contract or changes nothing it sees.
LEMMA ContractStep ==
  ASSUME IInv, [Next]_vars
  PROVE  Contract!Next \/ UNCHANGED <<Exposed, used # {}>>
<1>1. ASSUME UNCHANGED <<container, used>> PROVE UNCHANGED <<Exposed, used # {}>>
  BY <1>1 DEF Exposed
<1>2. ASSUME NEW r \in Runs, ContainerStopped(r) \/ UNCHANGED container, UNCHANGED used
      PROVE  Contract!Next \/ UNCHANGED <<Exposed, used # {}>>
  BY <1>2, StoppedExposure DEF Contract!Next, Contract!Release
<1>3. ASSUME NEW r \in Runs, ContainerUp(r) PROVE Contract!Next
  <2>1. container[r] = "none" /\ MayExpose(r) /\ used' = used \cup {r}
    BY <1>3 DEF ContainerUp, MayExpose, Units
  <2>2. Latest = r /\ r \notin used
    BY <2>1 DEF IInv, Untouched, Admission, OnlyLatest
  <2>3. used = {} /\ used' # {}
    BY <2>1, <2>2 DEF IInv, Admission, Settled
  <2>4. Exposed = {}
    BY <2>1, <2>2 DEF IInv, Admission, OnlyLatest, MayExpose, Exposed
  <2>5. Exposed' = {r}
    <3>1. container' = [container EXCEPT ![r] = "up"]
      BY <1>3 DEF ContainerUp
    <3> QED
      BY <2>4, <3>1 DEF Exposed, IInv, TypeOK
  <2> QED
    BY <2>3, <2>4, <2>5 DEF Contract!Next, Contract!Expose
<1>4. CASE Quiesce
  <2>1. Exposed = {} /\ Exposed' = Exposed /\ used' = {}
    BY <1>4 DEF Quiesce, Exposed
  <2> QED
    BY <2>1 DEF Contract!Next, Contract!Recover
<1>5. CASE Reboot
  <2>1. Exposed' = {} /\ used' = {}
    BY <1>5 DEF Reboot, Exposed
  <2> QED
    BY <2>1 DEF Contract!Next, Contract!Reboot
<1>6. ASSUME NEW r \in Runs, Coordinator(r)
      PROVE  UNCHANGED used /\ (ContainerStopped(r) \/ UNCHANGED container)
  BY <1>6 DEF Coordinator, Prepare, TakeLock, PendingCheck, HostCheck, Authorize, Reserve,
    WriteLedger, Archive, HoldReservation, Reconcile, Systemd, Ready, StopService, Clean,
    SessionEnds, Abort, Cancel, Record, Crash, CleanedUp, CleanupFailed, machine
<1>7. ASSUME NEW r \in Runs, Launch(r), ~ContainerUp(r)
      PROVE  UNCHANGED used /\ (ContainerStopped(r) \/ UNCHANGED container)
  BY <1>7 DEF Launch, ServiceStarts, ServiceReady, ServiceEnds, ServiceStops, Service,
    ContainerExits, Publish, CleanedUp, CleanupFailed
<1>8. CASE Recover /\ ~Quiesce
  <2>1. UNCHANGED <<container, used>>
    BY <1>8 DEF Recover, RecoveryStarts, CreateReceipt, WriteReceipt, RecoveryFails, machine
  <2> QED
    BY <1>1, <2>1
<1>9. CASE UNCHANGED vars
  BY <1>1, <1>9 DEF vars, machine
<1> QED
  BY <1>2, <1>3, <1>4, <1>5, <1>6, <1>7, <1>8, <1>9 DEF Next

\* One guest at a time has the GPU, and a used GPU is proved quiet, or the host
\* booted again, before the next one has it: every behaviour of the detailed
\* specification is one of the contract.
THEOREM ContractImplemented == Spec => ImplementsContract
<1>1. Init => Contract!Init
  BY DEF Init, Contract!Init, Exposed
<1>2. IInv /\ [Next]_vars => [Contract!Next]_<<Exposed, used # {}>>
  BY ContractStep
<1> QED
  BY <1>1, <1>2, AdmissionInvariant, PTL DEF Spec, ImplementsContract, Contract!Spec
=============================================================================
