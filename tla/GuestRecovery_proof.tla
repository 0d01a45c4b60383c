------------------------- MODULE GuestRecovery_proof -------------------------
(***************************************************************************)
(* Proofs about GuestRecovery, for any number of calls: first the types,   *)
(* then the conjuncts of the inductive invariant one after the other, each *)
(* resting on the ones before it, then the properties they imply.          *)
(***************************************************************************)
EXTENDS GuestRecoveryInvariant, TLAPS


\* The records the guest makes are records.
LEMMA RecordTypes ==
  /\ Blank \in Record
  /\ OwnedRecord \in Record
  /\ ActiveRecord \in Record
  /\ ValidMarker \in Record
  /\ \A reason \in Reasons : Make("INVL", "new", reason) \in Record
  /\ \A r \in Record, reason \in Reasons : MakeAbortLifetime(r, reason) \in Record
BY DEF Blank, OwnedRecord, ActiveRecord, ValidMarker, MakeValidLifetime, Make,
       MakeAbortLifetime, Record, States, Binds, Reasons, Sums, LifetimeReasons

\* A publication starts as a job, and so does the absence of one.
LEMMA JobTypes ==
  /\ NoJob \in Job
  /\ \A s \in Slots, k \in Kinds, r \in Record : Publish(s, k, r) \in Job
BY RecordTypes DEF NoJob, Job, Publish, Slots, Kinds, Steps, Words, BodyWords


\* Storing one word of a record leaves a record, whichever word it is.
LEMMA StoreWordType ==
  ASSUME vram \in [Slots -> Record], NEW s \in Slots, NEW r \in Record,
         NEW w \in Words, StoreWord(s, w, r[w])
  PROVE  vram' \in [Slots -> Record]
<1>1. CASE w = "state" BY <1>1 DEF StoreWord, Record, Words, Slots
<1>2. CASE w = "bind"  BY <1>2 DEF StoreWord, Record, Words, Slots
<1>3. CASE w = "reason" BY <1>3 DEF StoreWord, Record, Words, Slots
<1>4. CASE w = "sum"   BY <1>4 DEF StoreWord, Record, Words, Slots
<1>5. QED BY <1>1, <1>2, <1>3, <1>4 DEF Words

\* A step of a publication keeps every type.
LEMMA RunJobTypes ==
  ASSUME TypeOK, NEW c \in Calls, RunJob(c)
  PROVE  TypeOK'
<1>1. CASE JobCheck(c) BY <1>1 DEF TypeOK, RunJob, JobCheck, JobStep, Job, Steps, lockedVars, callVars
<1>2. CASE JobMark(c)
  <2>1. vram' \in [Slots -> Record]
    BY <1>2 DEF TypeOK, JobMark, StoreWord, MarkOf, Record, States, Slots, Job
  <2>2. job' \in [Calls -> Job]
    BY <1>2 DEF TypeOK, JobMark, JobStep, Job, Steps
  <2>3. QED BY <2>1, <2>2, <1>2 DEF TypeOK, RunJob, lockedVars, callVars
<1>3. CASE JobStore(c)
  <2>1. vram' \in [Slots -> Record]
    BY <1>3, StoreWordType DEF TypeOK, JobStore, Job
  <2>2. job' \in [Calls -> Job]
    <3>1. job[c] \in Job BY DEF TypeOK
    <3>2. PICK w \in job[c].todo :
            job' = [job EXCEPT ![c] = [job[c] EXCEPT
                      !.todo = job[c].todo \ {w},
                      !.step = IF job[c].todo # {w} THEN "body"
                               ELSE IF job[c].kind = "clear" THEN "verify"
                               ELSE "commit"]]
      BY <1>3 DEF JobStore
    <3>3. job'[c] \in Job BY <3>1, <3>2 DEF TypeOK, Job, Steps
    <3>4. QED BY <3>2, <3>3 DEF TypeOK
  <2>3. QED BY <2>1, <2>2, <1>3 DEF TypeOK, RunJob, lockedVars, callVars
<1>4. CASE JobCommit(c)
  <2>1. vram' \in [Slots -> Record]
    BY <1>4 DEF TypeOK, JobCommit, StoreWord, Record, Slots, Job
  <2>2. job' \in [Calls -> Job]
    BY <1>4 DEF TypeOK, JobCommit, JobStep, Job, Steps
  <2>3. QED BY <2>1, <2>2, <1>4 DEF TypeOK, RunJob, lockedVars, callVars
<1>5. CASE JobVerify(c) BY <1>5 DEF TypeOK, RunJob, JobVerify, JobStep, Job, Steps, lockedVars, callVars
<1>6. QED BY <1>1, <1>2, <1>3, <1>4, <1>5 DEF RunJob

\* A step of an abort keeps every type.
LEMMA AbortTypes ==
  ASSUME TypeOK, NEW c \in Calls, AbortStep(c)
  PROVE  TypeOK'
<1>1. CASE RequestAbort(c)
  BY <1>1, RecordTypes, JobTypes DEF TypeOK, RequestAbort, Calls, Goto, Pcs, ReadyPcs, EnablePcs, AbortPcs, Gate, GatePhases, lockedVars, callVars
<1>2. CASE InvalidateForAbort(c)
  <2>1. Publish("LIFE", "abort", MakeAbortLifetime(status, why[c])) \in Job
    BY RecordTypes, JobTypes DEF TypeOK, Slots, Kinds, Reasons, LifetimeReasons
  <2>2. pc' \in [Calls -> Pcs] /\ job' \in [Calls -> Job]
    BY <1>2, <2>1, JobTypes DEF TypeOK, InvalidateForAbort, Start, Calls, Goto, Pcs, ReadyPcs, EnablePcs, AbortPcs
  <2>3. QED BY <1>2, <2>2 DEF TypeOK, InvalidateForAbort, Start, LeasePhases, callVars
<1>3. CASE FinishAbort(c)
  BY <1>3, RecordTypes, JobTypes DEF TypeOK, FinishAbort, Calls, Goto, Pcs, ReadyPcs, EnablePcs, AbortPcs, Gate, GatePhases, After, Published, Job, lockedVars, callVars
<1>4. QED BY <1>1, <1>2, <1>3 DEF AbortStep

\* A step of a ready call keeps every type.
LEMMA ReadyTypes ==
  ASSUME TypeOK, NEW c \in ReadyCalls, ReadyStep(c)
  PROVE  TypeOK'
<1>1. CASE ReadyClaim(c)
  BY <1>1, RecordTypes, JobTypes DEF TypeOK, ReadyClaim, Calls, Goto, Pcs, ReadyPcs, EnablePcs, AbortPcs, Transition, LeasePhases, lockedVars, callVars
<1>2. CASE ReadyAcquire(c)
  BY <1>2, RecordTypes, JobTypes DEF TypeOK, ReadyAcquire, Calls, Goto, Pcs, ReadyPcs, EnablePcs, AbortPcs, Start, Slots, Kinds, lockedVars, callVars
<1>3. CASE ReadyPublish(c)
  <2>1. Publish("LIFE", "clear", Blank) \in Job
    BY RecordTypes, JobTypes DEF Slots, Kinds
  <2>2. Publish("OWNED", "record", OwnedRecord) \in Job
    BY RecordTypes, JobTypes DEF Slots, Kinds
  <2>3. pc' \in [Calls -> Pcs] /\ job' \in [Calls -> Job]
    BY <1>3, <2>1, <2>2, JobTypes DEF TypeOK, ReadyPublish, Start, Calls, Goto, Pcs, ReadyPcs, EnablePcs, AbortPcs
  <2>4. QED BY <1>3, <2>3 DEF TypeOK, ReadyPublish, Start, callVars
<1>4. CASE ReadyFinish(c)
  BY <1>4, RecordTypes, JobTypes DEF TypeOK, ReadyFinish, Calls, Goto, Pcs, ReadyPcs, EnablePcs, AbortPcs, Transition, LeasePhases, lockedVars, callVars
<1>5. CASE ReadyInvalidate(c)
  BY <1>5, RecordTypes, JobTypes DEF TypeOK, ReadyInvalidate, Calls, Goto, Pcs, ReadyPcs, EnablePcs, AbortPcs, GoAbort, LifetimeReasons, LeasePhases, lockedVars, callVars
<1>6. CASE ReadyVmmRange(c)
  BY <1>6, RecordTypes, JobTypes DEF TypeOK, ReadyVmmRange, Calls, Goto, Pcs, ReadyPcs, EnablePcs, AbortPcs, GoAbort, LifetimeReasons, lockedVars, callVars
<1>7. CASE ReadyStoreOwners(c)
  BY <1>7, RecordTypes, JobTypes DEF TypeOK, ReadyStoreOwners, Calls, Goto, Pcs, ReadyPcs, EnablePcs, AbortPcs, lockedVars, callVars
<1>8. QED BY <1>1, <1>2, <1>3, <1>4, <1>5, <1>6, <1>7 DEF ReadyStep

\* A step of an enable call keeps every type.
LEMMA EnableTypes ==
  ASSUME TypeOK, NEW c \in EnableCalls, EnableStep(c)
  PROVE  TypeOK'
<1>1. CASE BeginPool(c)
  BY <1>1, RecordTypes, JobTypes DEF TypeOK, BeginPool, Calls, Goto, Pcs, ReadyPcs, EnablePcs, AbortPcs, Transition, LeasePhases, lockedVars, callVars
<1>2. CASE RefusePool(c)
  BY <1>2, RecordTypes, JobTypes DEF TypeOK, RefusePool, Calls, Goto, Pcs, ReadyPcs, EnablePcs, AbortPcs, GoAbort, LifetimeReasons, LeasePhases, lockedVars, callVars
<1>3. CASE NativePools(c)
  <2>1. Publish("POOL", "record", Make("INVL", "new", "Native")) \in Job
    BY RecordTypes, JobTypes DEF Slots, Kinds, Reasons
  <2>2. pc' \in [Calls -> Pcs] /\ job' \in [Calls -> Job]
    BY <1>3, <2>1, JobTypes DEF TypeOK, NativePools, PublishInvalid, Start, Calls, Goto, Pcs, ReadyPcs, EnablePcs, AbortPcs
  <2>3. QED BY <1>3, <2>2 DEF TypeOK, NativePools, callVars
<1>4. CASE FinishPool(c)
  <2>1. Publish("POOL", "record", ActiveRecord) \in Job
    BY RecordTypes, JobTypes DEF Slots, Kinds
  <2>2. pc' \in [Calls -> Pcs] /\ job' \in [Calls -> Job]
    BY <1>4, <2>1, JobTypes DEF TypeOK, FinishPool, Start, Calls, Goto, Pcs, ReadyPcs, EnablePcs, AbortPcs
  <2>3. QED BY <1>4, <2>2 DEF TypeOK, FinishPool, Start, LeasePhases, callVars
<1>5. CASE ActivePublished(c)
  BY <1>5, RecordTypes, JobTypes DEF TypeOK, ActivePublished, Calls, Goto, Pcs, ReadyPcs, EnablePcs, AbortPcs, Start, lockedVars, callVars
<1>6. CASE Authorize(c)
  BY <1>6, RecordTypes, JobTypes DEF TypeOK, Authorize, Calls, Goto, Pcs, ReadyPcs, EnablePcs, AbortPcs, lockedVars, callVars
<1>7. CASE BeginValid(c)
  <2>1. Publish("LIFE", "valid", ValidMarker) \in Job
    BY RecordTypes, JobTypes DEF Slots, Kinds
  <2>2. pc' \in [Calls -> Pcs] /\ job' \in [Calls -> Job]
    BY <1>7, <2>1, JobTypes DEF TypeOK, BeginValid, Start, Calls, Goto, Pcs, ReadyPcs, EnablePcs, AbortPcs
  <2>3. QED BY <1>7, <2>2, RecordTypes DEF TypeOK, BeginValid, Start, Gate, GatePhases, callVars
<1>8. CASE FinishValid(c)
  <2>1. Publish("LIFE", "abort", MakeAbortLifetime(ValidMarker, gate.reason)) \in Job
    BY RecordTypes, JobTypes DEF TypeOK, Gate, Slots, Kinds, Reasons, LifetimeReasons
  <2>2. pc' \in [Calls -> Pcs] /\ job' \in [Calls -> Job]
    BY <1>8, <2>1, JobTypes DEF TypeOK, FinishValid, Start, Calls, Goto, Pcs, ReadyPcs, EnablePcs, AbortPcs
  <2>3. QED BY <1>8, <2>2 DEF TypeOK, FinishValid, Start, Gate, GatePhases, callVars
<1>9. CASE CheckGate(c)
  BY <1>9, RecordTypes, JobTypes DEF TypeOK, CheckGate, Calls, Goto, Pcs, ReadyPcs, EnablePcs, AbortPcs, lockedVars, callVars
<1>10. CASE Commit(c)
  BY <1>10, RecordTypes, JobTypes DEF TypeOK, Commit, Calls, Goto, Pcs, ReadyPcs, EnablePcs, AbortPcs, Transition, LeasePhases, lockedVars, callVars
<1>11. CASE FailPool(c)
  BY <1>11, RecordTypes, JobTypes DEF TypeOK, FailPool, Calls, Goto, Pcs, ReadyPcs, EnablePcs, AbortPcs, PublishInvalid, Start, Slots, Kinds, Reasons, lockedVars, callVars
<1>12. CASE InvalidPublished(c)
  BY <1>12, RecordTypes, JobTypes DEF TypeOK, InvalidPublished, Calls, Goto, Pcs, ReadyPcs, EnablePcs, AbortPcs, Start, Published, lockedVars, callVars
<1>13. CASE PoolInvalidate(c)
  BY <1>13, RecordTypes, JobTypes DEF TypeOK, PoolInvalidate, Calls, Goto, Pcs, ReadyPcs, EnablePcs, AbortPcs, LeasePhases, lockedVars, callVars
<1>14. QED BY <1>1, <1>2, <1>3, <1>4, <1>5, <1>6, <1>7, <1>8, <1>9, <1>10, <1>11, <1>12, <1>13 DEF EnableStep

\* The first state is typed.
LEMMA InitTypes == Init => TypeOK
<1> SUFFICES ASSUME Init PROVE TypeOK
  OBVIOUS
<1>1. /\ Make("OWND", "old", "none") \in Record
      /\ Make("ACTV", "old", "none") \in Record
      /\ MakeValidLifetime("old") \in Record
      /\ Make("ABRT", "old", "PoolOwner") \in Record
  BY DEF Make, MakeValidLifetime, Record, States, Binds, Reasons, LifetimeReasons, Sums
<1>2. InitialVram \subseteq [Slots -> Record]
  <2> SUFFICES ASSUME NEW v \in InitialVram PROVE v \in [Slots -> Record]
    OBVIOUS
  <2>1. CASE v = [s \in Slots |-> Blank]
    BY <2>1, RecordTypes
  <2>2. CASE v # [s \in Slots |-> Blank]
    <3>1. PICK marker \in {MakeValidLifetime("old"), Make("ABRT", "old", "PoolOwner")} :
            v = [s \in Slots |-> CASE s = "OWNED" -> Make("OWND", "old", "none")
                                   [] s = "POOL" -> Make("ACTV", "old", "none")
                                   [] s = "LIFE" -> marker]
      BY <2>2 DEF InitialVram
    <3>2. marker \in Record
      BY <1>1
    <3>3. ASSUME NEW s \in Slots PROVE v[s] \in Record
      BY <1>1, <3>1, <3>2, <3>3 DEF Slots
    <3>4. QED BY <3>1, <3>3
  <2>3. QED BY <2>1, <2>2
<1>3. vram \in [Slots -> Record]
  BY <1>2 DEF Init
<1>4. job \in [Calls -> Job] /\ pc \in [Calls -> Pcs]
  BY JobTypes DEF Init, Pcs
<1>5. QED BY <1>3, <1>4, RecordTypes DEF Init, TypeOK, Gate, GatePhases, LeasePhases

\* Every step keeps the types.
LEMMA NextTypes == TypeOK /\ [Next]_vars => TypeOK'
<1> SUFFICES ASSUME TypeOK, [Next]_vars PROVE TypeOK'
  OBVIOUS
<1>1. CASE \E c \in ReadyCalls : ReadyStart(c)
  BY <1>1 DEF TypeOK, ReadyStart, Goto, Calls, Pcs, ReadyPcs, lockedVars
<1>2. CASE \E c \in EnableCalls : EnableStart(c)
  BY <1>2 DEF TypeOK, EnableStart, Goto, GoAbort, Calls, Pcs, EnablePcs, AbortPcs,
     LifetimeReasons, lockedVars
<1>3. CASE \E c \in Calls : Proceed(c)
  BY <1>3, RunJobTypes, AbortTypes, ReadyTypes, EnableTypes DEF Proceed
<1>4. CASE LoseBar
  BY <1>4 DEF TypeOK, LoseBar, lockedVars, callVars
<1>5. CASE Rest \/ UNCHANGED vars
  BY <1>5 DEF TypeOK, Rest, vars
<1>6. QED BY <1>1, <1>2, <1>3, <1>4, <1>5 DEF Next

\* Every variable keeps its type, for any number of calls.
THEOREM TypeCorrect == Spec => []TypeOK
BY InitTypes, NextTypes, PTL DEF Spec

-----------------------------------------------------------------------------
(* The lease phase has one owner at a time.                                 *)

\* Steps of an abort.
LEMMA AbortLease ==
  ASSUME TypeOK, LeaseExclusion, NEW c \in Calls, AbortStep(c)
  PROVE  LeaseExclusion'
<1> USE DEF TypeOK, LeaseExclusion, Alone, At, ClaimPcs, PoolPcs, VerifiedPcs
<1>1. CASE RequestAbort(c)
  BY <1>1 DEF RequestAbort, Goto
<1>2. CASE InvalidateForAbort(c)
  BY <1>2 DEF InvalidateForAbort, Start, Goto
<1>3. CASE FinishAbort(c)
  BY <1>3 DEF FinishAbort, After, Goto
<1>4. QED BY <1>1, <1>2, <1>3 DEF AbortStep

\* Steps of a ready call.
LEMMA ReadyLease ==
  ASSUME TypeOK, LeaseExclusion, NEW c \in ReadyCalls, ReadyStep(c)
  PROVE  LeaseExclusion'
<1> USE DEF TypeOK, LeaseExclusion, Alone, At, ClaimPcs, PoolPcs, VerifiedPcs, Calls
<1>1. CASE ReadyClaim(c)
  BY <1>1 DEF ReadyClaim, Transition, Goto
<1>2. CASE ReadyAcquire(c)
  BY <1>2 DEF ReadyAcquire, Start, Goto, lockedVars
<1>3. CASE ReadyPublish(c)
  BY <1>3 DEF ReadyPublish, After, Start, Goto
<1>4. CASE ReadyFinish(c)
  BY <1>4 DEF ReadyFinish, Transition, Goto
<1>5. CASE ReadyInvalidate(c)
  BY <1>5 DEF ReadyInvalidate, GoAbort, Goto
<1>6. CASE ReadyVmmRange(c)
  BY <1>6 DEF ReadyVmmRange, GoAbort, Goto, lockedVars
<1>7. CASE ReadyStoreOwners(c)
  BY <1>7 DEF ReadyStoreOwners, Goto
<1>8. QED BY <1>1, <1>2, <1>3, <1>4, <1>5, <1>6, <1>7 DEF ReadyStep

\* Steps of an enable call.
LEMMA EnableLease ==
  ASSUME TypeOK, LeaseExclusion, NEW c \in EnableCalls, EnableStep(c)
  PROVE  LeaseExclusion'
<1> USE DEF TypeOK, LeaseExclusion, Alone, At, ClaimPcs, PoolPcs, VerifiedPcs, Calls
<1>1. CASE BeginPool(c)
  BY <1>1 DEF BeginPool, Transition, Goto
<1>2. CASE RefusePool(c)
  BY <1>2 DEF RefusePool, GoAbort, Goto
<1>3. CASE NativePools(c)
  BY <1>3 DEF NativePools, PublishInvalid, Goto, Start
<1>4. CASE FinishPool(c)
  BY <1>4 DEF FinishPool, Start, Goto
<1>5. CASE ActivePublished(c)
  BY <1>5 DEF ActivePublished, After, Start, Goto
<1>6. CASE Authorize(c)
  BY <1>6 DEF Authorize, Goto, lockedVars
<1>7. CASE BeginValid(c)
  BY <1>7 DEF BeginValid, Start, Goto
<1>8. CASE FinishValid(c)
  BY <1>8 DEF FinishValid, After, Start, Goto
<1>9. CASE CheckGate(c)
  BY <1>9 DEF CheckGate, Goto, lockedVars
<1>10. CASE Commit(c)
  BY <1>10 DEF Commit, Transition, Goto
<1>11. CASE FailPool(c)
  BY <1>11 DEF FailPool, PublishInvalid, lockedVars, Start, Goto
<1>12. CASE InvalidPublished(c)
  BY <1>12 DEF InvalidPublished, After, Start, Goto
<1>13. CASE PoolInvalidate(c)
  BY <1>13 DEF PoolInvalidate, Goto
<1>14. QED BY <1>1, <1>2, <1>3, <1>4, <1>5, <1>6, <1>7, <1>8, <1>9, <1>10, <1>11, <1>12, <1>13 DEF
   EnableStep

\* Every step keeps the owners of the lease phase apart.
LEMMA NextLease == TypeOK /\ LeaseExclusion /\ [Next]_vars => LeaseExclusion'
<1> SUFFICES ASSUME TypeOK, LeaseExclusion, [Next]_vars PROVE LeaseExclusion'
  OBVIOUS
<1> USE DEF LeaseExclusion, Alone, At, ClaimPcs, PoolPcs, VerifiedPcs
<1>1. CASE \E c \in ReadyCalls : ReadyStart(c)
  BY <1>1 DEF TypeOK, ReadyStart, Goto, lockedVars, Calls
<1>2. CASE \E c \in EnableCalls : EnableStart(c)
  BY <1>2 DEF TypeOK, EnableStart, Goto, GoAbort, lockedVars, Calls
<1>3. CASE \E c \in Calls : Proceed(c)
  <2> PICK c \in Calls : Proceed(c) BY <1>3
  <2>1. CASE RunJob(c) BY <2>1 DEF RunJob, lockedVars
  <2>2. QED BY <2>1, AbortLease, ReadyLease, EnableLease DEF Proceed
<1>4. CASE LoseBar \/ Rest \/ UNCHANGED vars
  BY <1>4 DEF LoseBar, Rest, vars, lockedVars
<1>5. QED BY <1>1, <1>2, <1>3, <1>4 DEF Next

(* The gate has one owner at a time, and opens only behind a verified lease. *)

\* Steps of an abort.
LEMMA AbortGate ==
  ASSUME TypeOK, LeaseExclusion, GateExclusion, NEW c \in Calls, AbortStep(c)
  PROVE  GateExclusion'
<1> USE DEF TypeOK, LeaseExclusion, Alone, At, ClaimPcs, PoolPcs, VerifiedPcs, GateExclusion,
   AbortOwnerPcs, Gate
<1>1. CASE RequestAbort(c)
  BY <1>1 DEF RequestAbort, Goto
<1>2. CASE InvalidateForAbort(c)
  BY <1>2 DEF InvalidateForAbort, Start, Goto
<1>3. CASE FinishAbort(c)
  BY <1>3 DEF FinishAbort, After, Goto
<1>4. QED BY <1>1, <1>2, <1>3 DEF AbortStep

\* Steps of a ready call.
LEMMA ReadyGate ==
  ASSUME TypeOK, LeaseExclusion, GateExclusion, NEW c \in ReadyCalls, ReadyStep(c)
  PROVE  GateExclusion'
<1> USE DEF TypeOK, LeaseExclusion, Alone, At, ClaimPcs, PoolPcs, VerifiedPcs, GateExclusion,
   AbortOwnerPcs, Gate, Calls
<1>1. CASE ReadyClaim(c)
  BY <1>1 DEF ReadyClaim, Transition, Goto
<1>2. CASE ReadyAcquire(c)
  BY <1>2 DEF ReadyAcquire, Start, Goto, lockedVars
<1>3. CASE ReadyPublish(c)
  BY <1>3 DEF ReadyPublish, After, Start, Goto
<1>4. CASE ReadyFinish(c)
  BY <1>4 DEF ReadyFinish, Transition, Goto
<1>5. CASE ReadyInvalidate(c)
  BY <1>5 DEF ReadyInvalidate, GoAbort, Goto
<1>6. CASE ReadyVmmRange(c)
  BY <1>6 DEF ReadyVmmRange, GoAbort, Goto, lockedVars
<1>7. CASE ReadyStoreOwners(c)
  BY <1>7 DEF ReadyStoreOwners, Goto
<1>8. QED BY <1>1, <1>2, <1>3, <1>4, <1>5, <1>6, <1>7 DEF ReadyStep

\* Steps of an enable call.
LEMMA EnableGate ==
  ASSUME TypeOK, LeaseExclusion, GateExclusion, NEW c \in EnableCalls, EnableStep(c)
  PROVE  GateExclusion'
<1> USE DEF TypeOK, LeaseExclusion, Alone, At, ClaimPcs, PoolPcs, VerifiedPcs, GateExclusion,
   AbortOwnerPcs, Gate, Calls
<1>1. CASE BeginPool(c)
  BY <1>1 DEF BeginPool, Transition, Goto
<1>2. CASE RefusePool(c)
  BY <1>2 DEF RefusePool, GoAbort, Goto
<1>3. CASE NativePools(c)
  BY <1>3 DEF NativePools, PublishInvalid, Goto, Start
<1>4. CASE FinishPool(c)
  BY <1>4 DEF FinishPool, Start, Goto
<1>5. CASE ActivePublished(c)
  BY <1>5 DEF ActivePublished, After, Start, Goto
<1>6. CASE Authorize(c)
  BY <1>6 DEF Authorize, Goto, lockedVars
<1>7. CASE BeginValid(c)
  BY <1>7 DEF BeginValid, Start, Goto
<1>8. CASE FinishValid(c)
  BY <1>8 DEF FinishValid, After, Start, Goto
<1>9. CASE CheckGate(c)
  BY <1>9 DEF CheckGate, Goto, lockedVars
<1>10. CASE Commit(c)
  BY <1>10 DEF Commit, Transition, Goto
<1>11. CASE FailPool(c)
  BY <1>11 DEF FailPool, PublishInvalid, lockedVars, Start, Goto
<1>12. CASE InvalidPublished(c)
  BY <1>12 DEF InvalidPublished, After, Start, Goto
<1>13. CASE PoolInvalidate(c)
  BY <1>13 DEF PoolInvalidate, Goto
<1>14. QED BY <1>1, <1>2, <1>3, <1>4, <1>5, <1>6, <1>7, <1>8, <1>9, <1>10, <1>11, <1>12, <1>13 DEF
   EnableStep

\* Every step keeps the owners of the gate apart.
LEMMA NextGate == TypeOK /\ LeaseExclusion /\ GateExclusion /\ [Next]_vars => GateExclusion'
<1> SUFFICES ASSUME TypeOK, LeaseExclusion, GateExclusion, [Next]_vars PROVE GateExclusion'
  OBVIOUS
<1> USE DEF GateExclusion, Alone, At, ClaimPcs, AbortOwnerPcs
<1>1. CASE \E c \in ReadyCalls : ReadyStart(c)
  BY <1>1 DEF TypeOK, ReadyStart, Goto, lockedVars, Calls
<1>2. CASE \E c \in EnableCalls : EnableStart(c)
  BY <1>2 DEF TypeOK, EnableStart, Goto, GoAbort, lockedVars, Calls
<1>3. CASE \E c \in Calls : Proceed(c)
  <2> PICK c \in Calls : Proceed(c) BY <1>3
  <2>1. CASE RunJob(c) BY <2>1 DEF RunJob, lockedVars
  <2>2. QED BY <2>1, AbortGate, ReadyGate, EnableGate DEF Proceed
<1>4. CASE LoseBar \/ Rest \/ UNCHANGED vars
  BY <1>4 DEF LoseBar, Rest, vars, lockedVars
<1>5. QED BY <1>1, <1>2, <1>3, <1>4 DEF Next

(* Each label has its publication, and each abort its reason.             *)

\* Steps of an abort.
LEMMA AbortJobs ==
  ASSUME TypeOK, LeaseExclusion, GateExclusion, JobBinding, ReasonBinding, NEW c \in Calls,
     AbortStep(c)
  PROVE  (JobBinding /\ ReasonBinding)'
<1> USE DEF JobBinding, ReasonBinding, JobOf, At, GateExclusion, AbortOwnerPcs, TypeOK, Gate,
   Publish, Blank, Alone
<1>1. CASE RequestAbort(c)
  BY <1>1 DEF RequestAbort, Goto, callVars
<1>2. CASE InvalidateForAbort(c)
  BY <1>2 DEF InvalidateForAbort, Start, Goto, callVars
<1>3. CASE FinishAbort(c)
  BY <1>3 DEF FinishAbort, After, Goto, callVars
<1>4. QED BY <1>1, <1>2, <1>3 DEF AbortStep

\* Steps of a ready call.
LEMMA ReadyJobs ==
  ASSUME TypeOK, LeaseExclusion, GateExclusion, JobBinding, ReasonBinding, NEW c \in ReadyCalls,
     ReadyStep(c)
  PROVE  (JobBinding /\ ReasonBinding)'
<1> USE DEF JobBinding, ReasonBinding, JobOf, At, GateExclusion, AbortOwnerPcs, TypeOK, Gate,
   Publish, Blank, Calls
<1>1. CASE ReadyClaim(c)
  BY <1>1 DEF ReadyClaim, Transition, callVars, Goto
<1>2. CASE ReadyAcquire(c)
  BY <1>2 DEF ReadyAcquire, Start, Goto, lockedVars, callVars
<1>3. CASE ReadyPublish(c)
  BY <1>3 DEF ReadyPublish, After, Start, callVars, Goto
<1>4. CASE ReadyFinish(c)
  BY <1>4 DEF ReadyFinish, Transition, callVars, Goto
<1>5. CASE ReadyInvalidate(c)
  BY <1>5 DEF ReadyInvalidate, GoAbort, Goto
<1>6. CASE ReadyVmmRange(c)
  BY <1>6 DEF ReadyVmmRange, GoAbort, Goto, lockedVars
<1>7. CASE ReadyStoreOwners(c)
  BY <1>7 DEF ReadyStoreOwners, Goto, callVars
<1>8. QED BY <1>1, <1>2, <1>3, <1>4, <1>5, <1>6, <1>7 DEF ReadyStep

\* Steps of an enable call.
LEMMA EnableJobs ==
  ASSUME TypeOK, LeaseExclusion, GateExclusion, JobBinding, ReasonBinding, NEW c \in
     EnableCalls, EnableStep(c)
  PROVE  (JobBinding /\ ReasonBinding)'
<1> USE DEF JobBinding, ReasonBinding, JobOf, At, GateExclusion, AbortOwnerPcs, TypeOK, Gate,
   Publish, Blank, Calls
<1>1. CASE BeginPool(c)
  BY <1>1 DEF BeginPool, Transition, callVars, Goto
<1>2. CASE RefusePool(c)
  BY <1>2 DEF RefusePool, GoAbort, Goto
<1>3. CASE NativePools(c)
  BY <1>3 DEF NativePools, PublishInvalid, Goto, callVars, Start, Make
<1>4. CASE FinishPool(c)
  BY <1>4 DEF FinishPool, Start, callVars, Goto
<1>5. CASE ActivePublished(c)
  BY <1>5 DEF ActivePublished, After, Start, callVars, Goto
<1>6. CASE Authorize(c)
  BY <1>6 DEF Authorize, Goto, lockedVars, callVars
<1>7. CASE BeginValid(c)
  BY <1>7 DEF BeginValid, Start, callVars, Goto
<1>8. CASE FinishValid(c)
  BY <1>8 DEF FinishValid, After, Start, callVars, Goto
<1>9. CASE CheckGate(c)
  BY <1>9 DEF CheckGate, Goto, lockedVars, callVars
<1>10. CASE Commit(c)
  BY <1>10 DEF Commit, Transition, Goto
<1>11. CASE FailPool(c)
  BY <1>11 DEF FailPool, PublishInvalid, lockedVars, callVars, Start, Goto, Make
<1>12. CASE InvalidPublished(c)
  BY <1>12 DEF InvalidPublished, After, Start, callVars, Goto
<1>13. CASE PoolInvalidate(c)
  BY <1>13 DEF PoolInvalidate, Goto, callVars
<1>14. QED BY <1>1, <1>2, <1>3, <1>4, <1>5, <1>6, <1>7, <1>8, <1>9, <1>10, <1>11, <1>12, <1>13 DEF
   EnableStep

\* A step of a publication changes neither its record nor its place.
LEMMA RunJobBinding ==
  ASSUME TypeOK, JobBinding, ReasonBinding, NEW c \in Calls, RunJob(c)
  PROVE  (JobBinding /\ ReasonBinding)'
<1>1. /\ job' = [job EXCEPT ![c] = job'[c]]
      /\ job'[c].slot = job[c].slot
      /\ job'[c].kind = job[c].kind
      /\ job'[c].value = job[c].value
      /\ job[c] # NoJob
  <2> job[c] \in Job BY DEF TypeOK
  <2>1. CASE JobCheck(c) BY <2>1 DEF TypeOK, Job, JobCheck, JobStep, NoJob
  <2>2. CASE JobMark(c) BY <2>2 DEF TypeOK, Job, JobMark, JobStep, NoJob
  <2>3. CASE JobStore(c)
    <3>1. PICK step \in Steps, todo \in SUBSET Words :
            job' = [job EXCEPT ![c] = [job[c] EXCEPT !.todo = todo, !.step = step]]
      BY <2>3 DEF JobStore, Job, Steps
    <3>2. QED BY <3>1, <2>3 DEF TypeOK, Job, JobStore, NoJob
  <2>4. CASE JobCommit(c) BY <2>4 DEF TypeOK, Job, JobCommit, JobStep, NoJob
  <2>5. CASE JobVerify(c) BY <2>5 DEF TypeOK, Job, JobVerify, JobStep, NoJob
  <2>6. QED BY <2>1, <2>2, <2>3, <2>4, <2>5 DEF RunJob
<1>2. UNCHANGED <<gate, status, pc, why>>
  BY DEF RunJob, lockedVars, callVars
<1>3. JobBinding'
  BY <1>1, <1>2 DEF JobBinding, JobOf, TypeOK
<1>4. ReasonBinding'
  BY <1>2 DEF ReasonBinding, At
<1>5. QED BY <1>3, <1>4

\* Every step keeps the publications and the reasons where they belong.
LEMMA NextJobs ==
  ASSUME TypeOK, LeaseExclusion, GateExclusion, JobBinding, ReasonBinding, [Next]_vars
  PROVE  (JobBinding /\ ReasonBinding)'
<1> USE DEF JobBinding, ReasonBinding, JobOf, At
<1>1. CASE \E c \in ReadyCalls : ReadyStart(c)
  BY <1>1 DEF TypeOK, ReadyStart, Goto, lockedVars, Calls
<1>2. CASE \E c \in EnableCalls : EnableStart(c)
  BY <1>2 DEF TypeOK, EnableStart, Goto, GoAbort, lockedVars, Calls
<1>3. CASE \E c \in Calls : Proceed(c)
  BY <1>3, RunJobBinding, AbortJobs, ReadyJobs, EnableJobs DEF Proceed
<1>4. CASE LoseBar \/ Rest \/ UNCHANGED vars
  BY <1>4 DEF LoseBar, Rest, vars, lockedVars, callVars
<1>5. QED BY <1>1, <1>2, <1>3, <1>4 DEF Next

\* No two publications, finished ones included, are about the same record.
LEMMA Exclusive ==
  ASSUME LeaseExclusion, GateExclusion, JobBinding,
         NEW c \in Calls, NEW d \in Calls,
         job[c].step # "none", job[d].step # "none", job[c].slot = job[d].slot
  PROVE  c = d
<1> DEFINE Poolers == {"clearPool", "publishActive", "publishInvalid"}
           Lifers  == {"clearLife", "publishValid", "publishAbort", "ownAbort"}
<1>1. \A e \in {c, d} :
        \/ job[e].slot = "OWNED" /\ pc[e] = "publishOwned"
        \/ job[e].slot = "POOL" /\ pc[e] \in Poolers
        \/ job[e].slot = "LIFE" /\ pc[e] \in Lifers
  BY DEF JobBinding, JobOf, NoJob
<1>2. CASE job[c].slot = "OWNED"
  BY <1>1, <1>2 DEF LeaseExclusion, Alone, At, ClaimPcs
<1>3. CASE job[c].slot = "POOL"
  BY <1>1, <1>3 DEF LeaseExclusion, Alone, At, ClaimPcs, PoolPcs, VerifiedPcs
<1>4. CASE job[c].slot = "LIFE"
  BY <1>1, <1>4 DEF LeaseExclusion, GateExclusion, Alone, At, ClaimPcs, PoolPcs,
     VerifiedPcs, AbortOwnerPcs
<1>5. QED BY <1>1, <1>2, <1>3, <1>4

(* How far each publication has come.                                     *)

\* A step that stores nothing and starts or drops publications at most.
LEMMA ProgressFrame ==
  ASSUME Progress, vram' = vram, bar' = "up" => bar = "up",
         \A d \in Calls : \/ job'[d] = job[d]
                         \/ job'[d] = NoJob
                         \/ /\ job'[d].step = "check"
                            /\ job'[d].kind # "clear" => job'[d].todo = BodyWords
  PROVE  Progress'
BY DEF Progress, NoJob

\* Steps of an abort.
LEMMA AbortFrame ==
  ASSUME TypeOK, NEW c \in Calls, AbortStep(c)
  PROVE  /\ UNCHANGED <<vram, bar>>
         /\ \A d \in Calls : \/ job'[d] = job[d]
                            \/ job'[d] = NoJob
                            \/ /\ job'[d].step = "check"
                               /\ job'[d].kind # "clear" => job'[d].todo = BodyWords
<1> USE DEF TypeOK, Calls, Publish
<1>1. CASE RequestAbort(c)
  BY <1>1 DEF RequestAbort, Goto, callVars
<1>2. CASE InvalidateForAbort(c)
  BY <1>2 DEF InvalidateForAbort, Start, Goto, callVars
<1>3. CASE FinishAbort(c)
  BY <1>3 DEF FinishAbort, After, Goto, callVars
<1>4. QED BY <1>1, <1>2, <1>3 DEF AbortStep

\* Steps of a ready call.
LEMMA ReadyFrame ==
  ASSUME TypeOK, NEW c \in ReadyCalls, ReadyStep(c)
  PROVE  /\ UNCHANGED <<vram, bar>>
         /\ \A d \in Calls : \/ job'[d] = job[d]
                            \/ job'[d] = NoJob
                            \/ /\ job'[d].step = "check"
                               /\ job'[d].kind # "clear" => job'[d].todo = BodyWords
<1> USE DEF TypeOK, Calls, Publish
<1>1. CASE ReadyClaim(c)
  BY <1>1 DEF ReadyClaim, Transition, callVars, Goto
<1>2. CASE ReadyAcquire(c)
  BY <1>2 DEF ReadyAcquire, Start, Goto, lockedVars, callVars
<1>3. CASE ReadyPublish(c)
  BY <1>3 DEF ReadyPublish, After, Start, callVars, Goto
<1>4. CASE ReadyFinish(c)
  BY <1>4 DEF ReadyFinish, Transition, callVars, Goto
<1>5. CASE ReadyInvalidate(c)
  BY <1>5 DEF ReadyInvalidate, GoAbort, Goto
<1>6. CASE ReadyVmmRange(c)
  BY <1>6 DEF ReadyVmmRange, GoAbort, Goto, lockedVars
<1>7. CASE ReadyStoreOwners(c)
  BY <1>7 DEF ReadyStoreOwners, Goto, callVars
<1>8. QED BY <1>1, <1>2, <1>3, <1>4, <1>5, <1>6, <1>7 DEF ReadyStep

\* Steps of an enable call.
LEMMA EnableFrame ==
  ASSUME TypeOK, NEW c \in EnableCalls, EnableStep(c)
  PROVE  /\ UNCHANGED <<vram, bar>>
         /\ \A d \in Calls : \/ job'[d] = job[d]
                            \/ job'[d] = NoJob
                            \/ /\ job'[d].step = "check"
                               /\ job'[d].kind # "clear" => job'[d].todo = BodyWords
<1> USE DEF TypeOK, Calls, Publish
<1>1. CASE BeginPool(c)
  BY <1>1 DEF BeginPool, Transition, callVars, Goto
<1>2. CASE RefusePool(c)
  BY <1>2 DEF RefusePool, GoAbort, Goto
<1>3. CASE NativePools(c)
  BY <1>3 DEF NativePools, PublishInvalid, Goto, callVars, Start
<1>4. CASE FinishPool(c)
  BY <1>4 DEF FinishPool, Start, callVars, Goto
<1>5. CASE ActivePublished(c)
  BY <1>5 DEF ActivePublished, After, Start, callVars, Goto
<1>6. CASE Authorize(c)
  BY <1>6 DEF Authorize, Goto, lockedVars, callVars
<1>7. CASE BeginValid(c)
  BY <1>7 DEF BeginValid, Start, callVars, Goto
<1>8. CASE FinishValid(c)
  BY <1>8 DEF FinishValid, After, Start, callVars, Goto
<1>9. CASE CheckGate(c)
  BY <1>9 DEF CheckGate, Goto, lockedVars, callVars
<1>10. CASE Commit(c)
  BY <1>10 DEF Commit, Transition, Goto
<1>11. CASE FailPool(c)
  BY <1>11 DEF FailPool, PublishInvalid, lockedVars, callVars, Start, Goto
<1>12. CASE InvalidPublished(c)
  BY <1>12 DEF InvalidPublished, After, Start, callVars, Goto
<1>13. CASE PoolInvalidate(c)
  BY <1>13 DEF PoolInvalidate, Goto, callVars
<1>14. QED BY <1>1, <1>2, <1>3, <1>4, <1>5, <1>6, <1>7, <1>8, <1>9, <1>10, <1>11, <1>12, <1>13 DEF
   EnableStep

\* A step of one publication leaves the progress of the others alone.
LEMMA ProgressOfOthers ==
  ASSUME TypeOK, LeaseExclusion, GateExclusion, JobBinding, Progress,
         NEW c \in Calls, RunJob(c), NEW d \in Calls, d # c
  PROVE  /\ job'[d] = job[d]
         /\ job[d].step # "none" => vram'[job[d].slot] = vram[job[d].slot]
         /\ job[d].kind \in {"valid", "abort"} => job[d].slot = "LIFE"
<1>1. job'[d] = job[d] /\ job[c].step # "none"
  BY DEF TypeOK, RunJob, JobCheck, JobMark, JobStore, JobCommit, JobVerify, JobStep
<1>2. \A s \in Slots : s # job[c].slot => vram'[s] = vram[s]
  BY DEF TypeOK, RunJob, JobCheck, JobMark, JobStore, JobCommit, JobVerify, StoreWord
<1>3. job[d].step # "none" => job[d].slot # job[c].slot
  BY <1>1, Exclusive
<1>4. job[d].slot \in Slots
  BY DEF TypeOK, Job
<1>5. job[d].kind \in {"valid", "abort"} => job[d].slot = "LIFE"
  BY DEF JobBinding, JobOf, NoJob
<1>6. QED BY <1>1, <1>2, <1>3, <1>4, <1>5

\* What one call's publication has achieved: Progress, for one call.
LEMMA ProgressOfOne ==
  ASSUME TypeOK, JobBinding, Progress, NEW c \in Calls, RunJob(c)
  PROVE  LET j == job'[c] IN
         /\ j.kind = "valid" /\ j.step \in {"mark", "body", "commit"} =>
              vram'["LIFE"].state = "zero"
         /\ j.kind = "abort" /\ j.step = "mark" => vram'["LIFE"] = ValidMarker
         /\ j.kind = "abort" /\ j.step \in {"body", "commit"} =>
              vram'["LIFE"].bind = "new" /\ vram'["LIFE"].state = "ABTG"
         /\ j.kind # "clear" /\ j.step \in {"body", "commit"} /\ bar' = "up" =>
              \A w \in BodyWords \ j.todo : vram'[j.slot][w] = j.value[w]
         /\ j.kind # "clear" /\ j.step \in {"check", "mark"} => j.todo = BodyWords
         /\ j.kind # "clear" => j.todo \subseteq BodyWords
         /\ j.kind = "clear" => j.step \notin {"mark", "commit"}
         /\ j.step = "commit" => j.todo = {}
         /\ j.step = "ok" => vram'[j.slot] = j.value
<1> DEFINE j == job[c]
<1>1. /\ j \in Job
      /\ j.kind = "valid" => j.slot = "LIFE" /\ j.value = ValidMarker
      /\ j.kind = "abort" => /\ j.slot = "LIFE"
                             /\ j.value = MakeAbortLifetime(ValidMarker, gate.reason)
  BY DEF TypeOK, JobBinding, JobOf, NoJob
<1>2. vram[j.slot] \in Record /\ vram["LIFE"] \in Record
  BY <1>1 DEF TypeOK, Job, Slots
<1>3. CASE JobCheck(c)
  <2>1. j.kind = "abort" /\ Admits(j, vram["LIFE"]) => vram["LIFE"] = ValidMarker
    BY <1>1, <1>2 DEF Admits, ValidLifetimeEncoding, SumMatches, MakeAbortLifetime,
       ValidMarker, MakeValidLifetime, Make, Record, LifetimeReasons
  <2>2. j.kind = "valid" /\ Admits(j, vram["LIFE"]) => vram["LIFE"].state = "zero"
    BY DEF Admits
  <2>3. job'[c] = [j EXCEPT !.step = IF bar = "lost" \/ ~Admits(j, vram[j.slot]) THEN "fail"
                                     ELSE IF j.kind = "clear" THEN "body" ELSE "mark"]
    BY <1>3 DEF JobCheck, JobStep, TypeOK
  <2>4. vram' = vram /\ j.step = "check"
    BY <1>3 DEF JobCheck
  <2>5. QED BY <1>1, <2>1, <2>2, <2>3, <2>4 DEF Job, Progress
<1>4. CASE JobMark(c)
  <2>1. job'[c] = [j EXCEPT !.step = IF ReadsMark(j) /\ bar = "lost" THEN "fail" ELSE "body"]
    BY <1>4 DEF JobMark, JobStep, TypeOK
  <2>2. j.step = "mark" /\ bar' = bar
    BY <1>4 DEF JobMark, RunJob
  <2>3. bar = "up" => vram' = [vram EXCEPT ![j.slot].state = MarkOf(j)]
    BY <1>4 DEF JobMark, StoreWord
  <2>4. bar \in {"up", "lost"} /\ j.kind # "clear" => j.todo = BodyWords
    BY <2>2 DEF Progress
  <2>5. j.kind = "valid" /\ bar = "up" => vram'["LIFE"].state = "zero"
    BY <1>1, <1>2, <2>3 DEF MarkOf, Record, TypeOK, Slots
  <2>6. j.kind = "abort" /\ bar = "up" =>
          vram'["LIFE"].state = "ABTG" /\ vram'["LIFE"].bind = "new"
    BY <1>1, <1>2, <2>2, <2>3 DEF MarkOf, Record, TypeOK, Slots, Progress, ValidMarker,
       MakeValidLifetime, Make
  <2>7. bar \in {"up", "lost"} BY DEF TypeOK
  <2>8. QED BY <1>1, <2>1, <2>2, <2>4, <2>5, <2>6, <2>7 DEF Job, ReadsMark
<1>5. CASE JobStore(c)
  <2>1. PICK w \in j.todo :
          /\ j.step = "body"
          /\ StoreWord(j.slot, w, j.value[w])
          /\ job' = [job EXCEPT ![c] = [j EXCEPT !.todo = j.todo \ {w},
                                           !.step = IF j.todo # {w} THEN "body"
                                                    ELSE IF j.kind = "clear" THEN "verify"
                                                    ELSE "commit"]]
    BY <1>5 DEF JobStore
  <2>2. /\ job'[c].slot = j.slot /\ job'[c].kind = j.kind /\ job'[c].value = j.value
        /\ job'[c].todo = j.todo \ {w}
        /\ job'[c].step \in {"body", "verify", "commit"}
        /\ job'[c].step = "commit" => j.todo = {w}
    BY <1>1, <2>1 DEF TypeOK, Job
  <2>3. bar' = bar /\ w \in Words
    BY <1>1, <1>5 DEF RunJob, Job
  <2>4. \/ vram' = vram
        \/ bar = "up" /\ vram' = [vram EXCEPT ![j.slot][w] = j.value[w]]
    BY <2>1 DEF StoreWord
  <2>5. /\ vram'[j.slot] = vram[j.slot] \/ vram'[j.slot] = [vram[j.slot] EXCEPT ![w] = j.value[w]]
        /\ bar = "up" => vram'[j.slot] = [vram[j.slot] EXCEPT ![w] = j.value[w]]
    BY <1>1, <2>1 DEF TypeOK, StoreWord, Job
  <2>6. \A u \in Words : u # w => vram'[j.slot][u] = vram[j.slot][u]
    BY <1>2, <2>5 DEF Record, Words
  <2>7. bar = "up" => vram'[j.slot][w] = j.value[w]
    BY <1>2, <2>3, <2>5 DEF Record, Words
  <2>8. j.kind # "clear" => w # "state"
    BY <2>1 DEF Progress, BodyWords
  <2>9. j.kind # "clear" => vram'[j.slot].state = vram[j.slot].state
    BY <2>6, <2>8 DEF Words
  <2>10. j.kind = "abort" => vram'["LIFE"].bind = "new"
    <3> HAVE j.kind = "abort"
    <3>1. j.slot = "LIFE" /\ j.value.bind = "new"
      BY <1>1 DEF ValidMarker, MakeValidLifetime, MakeAbortLifetime, Make
    <3>2. vram["LIFE"].bind = "new"
      BY <2>1 DEF Progress
    <3>3. CASE w # "bind" BY <2>6, <3>1, <3>2, <3>3 DEF Words
    <3>4. CASE w = "bind" BY <1>2, <2>4, <3>1, <3>2, <3>4 DEF Record, TypeOK, Slots
    <3>5. QED BY <3>3, <3>4
  <2>11. QED BY <1>1, <2>1, <2>2, <2>3, <2>6, <2>7, <2>9, <2>10 DEF Progress, BodyWords
<1>6. CASE JobCommit(c)
  <2>1. job'[c] = [j EXCEPT !.step = "verify"]
    BY <1>6 DEF JobCommit, JobStep, TypeOK
  <2>2. QED BY <1>1, <2>1 DEF Job, Progress
<1>7. CASE JobVerify(c)
  <2>1. /\ vram' = vram
        /\ job'[c] = [j EXCEPT !.step = IF bar = "up" /\ vram[j.slot] = j.value THEN "ok" ELSE "fail"]
    BY <1>7 DEF JobVerify, JobStep, TypeOK
  <2>2. QED BY <1>1, <2>1 DEF Job, Progress
<1>8. QED BY <1>3, <1>4, <1>5, <1>6, <1>7 DEF RunJob

\* A step of a publication keeps the progress of every publication.
LEMMA RunJobProgress ==
  ASSUME TypeOK, LeaseExclusion, GateExclusion, JobBinding, Progress,
         NEW c \in Calls, RunJob(c)
  PROVE  Progress'
<1>1. bar' = bar BY DEF RunJob
<1>2. QED BY <1>1, ProgressOfOne, ProgressOfOthers DEF Progress

\* Every step keeps the progress of every publication.
LEMMA NextProgress ==
  ASSUME TypeOK, LeaseExclusion, GateExclusion, JobBinding, Progress, [Next]_vars
  PROVE  Progress'
<1>1. CASE \E c \in ReadyCalls : ReadyStart(c)
  BY <1>1, ProgressFrame DEF ReadyStart
<1>2. CASE \E c \in EnableCalls : EnableStart(c)
  BY <1>2, ProgressFrame DEF EnableStart
<1>3. CASE \E c \in Calls : Proceed(c)
  BY <1>3, RunJobProgress, AbortFrame, ReadyFrame, EnableFrame, ProgressFrame DEF Proceed
<1>4. CASE LoseBar \/ Rest \/ UNCHANGED vars
  BY <1>4, ProgressFrame DEF LoseBar, Rest, vars
<1>5. QED BY <1>1, <1>2, <1>3, <1>4 DEF Next

\* What the stores of one publication do to the marker.
LifeStep(c) ==
  LET found == vram["LIFE"]
      left  == vram'["LIFE"]
  IN \/ /\ pc[c] = "clearLife"
        /\ left.bind = "new" => found.bind = "new"
        /\ left.state \in {"zero", found.state}
     \/ /\ pc[c] = "publishValid"
        /\ found.state = "zero"
        /\ left.state \in {"zero", "VALD"}
     \/ /\ pc[c] \in {"publishAbort", "ownAbort"}
        /\ found.bind = "new"
        /\ left.bind = "new"
        /\ \/ found = ValidMarker /\ left.state = "ABTG"
           \/ found.state = "ABTG" /\ left.state = "ABTG"
           \/ found.state = "ABTG" /\ left.state = "ABRT" /\ left.reason = gate.reason

\* Nothing else ever happens to the marker.
LEMMA LifeStore ==
  ASSUME TypeOK, JobBinding, Progress, NEW c \in Calls, RunJob(c),
         vram'["LIFE"] # vram["LIFE"]
  PROVE  LifeStep(c)
<1> DEFINE j == job[c]
<1>1. /\ j \in Job
      /\ j.slot = "LIFE"
      /\ j.step \in {"mark", "body", "commit"}
      /\ vram["LIFE"] \in Record
      /\ bar = "up"
  BY DEF TypeOK, Job, RunJob, JobCheck, JobMark, JobStore, JobCommit, JobVerify, StoreWord, Slots
<1>2. \/ j.kind = "clear" /\ j.value = Blank /\ pc[c] = "clearLife"
      \/ j.kind = "valid" /\ j.value = ValidMarker /\ pc[c] = "publishValid"
      \/ /\ j.kind = "abort" /\ pc[c] \in {"publishAbort", "ownAbort"}
         /\ j.value = MakeAbortLifetime(ValidMarker, gate.reason)
  BY <1>1 DEF JobBinding, JobOf, NoJob
<1>3. \/ /\ j.step = "mark" /\ j.kind # "clear"
         /\ vram' = [vram EXCEPT !["LIFE"].state = MarkOf(j)]
      \/ /\ j.step = "body"
         /\ \E w \in j.todo : vram' = [vram EXCEPT !["LIFE"][w] = j.value[w]]
      \/ /\ j.step = "commit" /\ j.kind # "clear"
         /\ vram' = [vram EXCEPT !["LIFE"].state = j.value.state]
  BY <1>1 DEF Progress, RunJob, JobCheck, JobMark, JobStore, JobCommit, JobVerify, StoreWord
<1>4. CASE j.kind = "clear"
  BY <1>1, <1>2, <1>3, <1>4 DEF LifeStep, Progress, Blank, TypeOK, Record, Job, Words
<1>5. CASE j.kind = "valid"
  BY <1>1, <1>2, <1>3, <1>5 DEF LifeStep, Progress, BodyWords, TypeOK, Record, Words, MarkOf,
     ValidMarker, MakeValidLifetime, Make
<1>6. CASE j.kind = "abort"
  <2>1. j.value.bind = "new" /\ j.value.state = "ABRT" /\ j.value.reason = gate.reason
    BY <1>2, <1>6 DEF MakeAbortLifetime, ValidMarker, MakeValidLifetime, Make
  <2>2. CASE j.step = "mark"
    <3>1. vram["LIFE"] = ValidMarker /\ vram["LIFE"].bind = "new"
      BY <1>6, <2>2 DEF Progress, ValidMarker, MakeValidLifetime, Make
    <3>2. QED BY <1>1, <1>2, <1>3, <1>6, <2>2, <3>1 DEF LifeStep, TypeOK, Record, Slots, MarkOf
  <2>3. CASE j.step = "body"
    BY <1>1, <1>2, <1>3, <1>6, <2>1, <2>3 DEF LifeStep, Progress, BodyWords, TypeOK, Record, Words
  <2>4. CASE j.step = "commit"
    <3>1. vram["LIFE"].reason = j.value.reason
      BY <1>1, <1>6, <2>4 DEF Progress, BodyWords, Words
    <3>2. QED BY <1>1, <1>2, <1>3, <1>6, <2>1, <2>4, <3>1 DEF LifeStep, Progress, TypeOK,
       Record, Slots
  <2>5. QED BY <1>1, <2>2, <2>3, <2>4
<1>7. QED BY <1>2, <1>4, <1>5, <1>6

(* The marker of this boot, against the gate and the lease.               *)

\* Steps of an abort.
LEMMA AbortMarker ==
  ASSUME TypeOK, LeaseExclusion, GateExclusion, JobBinding, ReasonBinding, Progress,
     MarkerState, NEW c \in Calls, AbortStep(c)
  PROVE  MarkerState'
<1> USE DEF TypeOK, Gate, LeaseExclusion, GateExclusion, ReasonBinding, MarkerState, Withdrawn,
   Alone, At, ClaimPcs, PoolPcs, VerifiedPcs, AbortOwnerPcs
<1>1. CASE RequestAbort(c)
  BY <1>1 DEF RequestAbort, Goto
<1>2. CASE InvalidateForAbort(c)
  BY <1>2 DEF InvalidateForAbort, Start, Goto
<1>3. CASE FinishAbort(c)
  BY <1>3 DEF FinishAbort, After, Goto
<1>4. QED BY <1>1, <1>2, <1>3 DEF AbortStep

\* Steps of a ready call.
LEMMA ReadyMarker ==
  ASSUME TypeOK, LeaseExclusion, GateExclusion, JobBinding, ReasonBinding, Progress,
     MarkerState, NEW c \in ReadyCalls, ReadyStep(c)
  PROVE  MarkerState'
<1> USE DEF TypeOK, Gate, LeaseExclusion, GateExclusion, ReasonBinding, MarkerState, Withdrawn,
   Alone, At, ClaimPcs, PoolPcs, VerifiedPcs, AbortOwnerPcs, Calls
<1>1. CASE ReadyClaim(c)
  BY <1>1 DEF ReadyClaim, Transition, Goto
<1>2. CASE ReadyAcquire(c)
  BY <1>2 DEF ReadyAcquire, Start, Goto, lockedVars
<1>3. CASE ReadyPublish(c)
  BY <1>3 DEF ReadyPublish, After, Start, Goto
<1>4. CASE ReadyFinish(c)
  BY <1>4 DEF ReadyFinish, Transition, Goto
<1>5. CASE ReadyInvalidate(c)
  BY <1>5 DEF ReadyInvalidate, GoAbort, Goto
<1>6. CASE ReadyVmmRange(c)
  BY <1>6 DEF ReadyVmmRange, GoAbort, Goto, lockedVars
<1>7. CASE ReadyStoreOwners(c)
  BY <1>7 DEF ReadyStoreOwners, Goto
<1>8. QED BY <1>1, <1>2, <1>3, <1>4, <1>5, <1>6, <1>7 DEF ReadyStep

\* Steps of an enable call.
LEMMA EnableMarker ==
  ASSUME TypeOK, LeaseExclusion, GateExclusion, JobBinding, ReasonBinding, Progress,
     MarkerState, NEW c \in EnableCalls, EnableStep(c)
  PROVE  MarkerState'
<1> USE DEF TypeOK, Gate, LeaseExclusion, GateExclusion, ReasonBinding, MarkerState, Withdrawn,
   Alone, At, ClaimPcs, PoolPcs, VerifiedPcs, AbortOwnerPcs, Calls
<1>1. CASE BeginPool(c)
  BY <1>1 DEF BeginPool, Transition, Goto
<1>2. CASE RefusePool(c)
  BY <1>2 DEF RefusePool, GoAbort, Goto
<1>3. CASE NativePools(c)
  BY <1>3 DEF NativePools, PublishInvalid, Goto, Start
<1>4. CASE FinishPool(c)
  BY <1>4 DEF FinishPool, Start, Goto
<1>5. CASE ActivePublished(c)
  BY <1>5 DEF ActivePublished, After, Start, Goto
<1>6. CASE Authorize(c)
  BY <1>6 DEF Authorize, Goto, lockedVars
<1>7. CASE BeginValid(c)
  BY <1>7 DEF BeginValid, Start, Goto
<1>8. CASE FinishValid(c)
  BY <1>8 DEF FinishValid, After, Start, Goto, JobBinding, JobOf, Progress, Published
<1>9. CASE CheckGate(c)
  BY <1>9 DEF CheckGate, Goto, lockedVars
<1>10. CASE Commit(c)
  BY <1>10 DEF Commit, Transition, Goto, ValidMarker, MakeValidLifetime, Make
<1>11. CASE FailPool(c)
  BY <1>11 DEF FailPool, PublishInvalid, lockedVars, Start, Goto
<1>12. CASE InvalidPublished(c)
  BY <1>12 DEF InvalidPublished, After, Start, Goto
<1>13. CASE PoolInvalidate(c)
  BY <1>13 DEF PoolInvalidate, Goto
<1>14. QED BY <1>1, <1>2, <1>3, <1>4, <1>5, <1>6, <1>7, <1>8, <1>9, <1>10, <1>11, <1>12, <1>13 DEF
   EnableStep

\* A step of a publication keeps what the marker says.
LEMMA RunJobMarker ==
  ASSUME TypeOK, LeaseExclusion, GateExclusion, JobBinding, Progress,
         MarkerState, NEW c \in Calls, RunJob(c)
  PROVE  MarkerState'
<1>0. UNCHANGED <<lease, gate, pc, bar, status, why>>
  BY DEF RunJob, lockedVars, callVars
<1>1. CASE vram'["LIFE"] = vram["LIFE"]
  BY <1>0, <1>1 DEF MarkerState, Withdrawn, At
<1>2. CASE vram'["LIFE"] # vram["LIFE"]
  <2>1. LifeStep(c)
    BY <1>2, LifeStore
  <2>2. /\ gate.phase # "Active"
        /\ \A d \in Calls : ~At(d, {"invalidateThenAbort"})
    BY <2>1 DEF LifeStep, GateExclusion, Alone, AbortOwnerPcs, ClaimPcs, At
  <2>3. CASE pc[c] = "clearLife"
    BY <1>0, <2>1, <2>2, <2>3 DEF LifeStep, MarkerState, GateExclusion, Withdrawn, At, ClaimPcs
  <2>4. CASE pc[c] = "publishValid"
    BY <1>0, <2>1, <2>2, <2>4 DEF LifeStep, MarkerState, GateExclusion, Withdrawn, At
  <2>5. CASE pc[c] \in {"publishAbort", "ownAbort"}
    <3>1. /\ gate.phase = "PublishingAbort"
          /\ \A d \in Calls : ~At(d, ClaimPcs)
          /\ lease \in {"PoolVerified", "Invalid"}
      BY <2>5 DEF LeaseExclusion, GateExclusion, At, AbortOwnerPcs, VerifiedPcs
    <3>2. QED BY <1>0, <2>1, <2>2, <2>5, <3>1 DEF LifeStep, MarkerState, Withdrawn, At
  <2>6. QED BY <2>1, <2>3, <2>4, <2>5 DEF LifeStep
<1>3. QED BY <1>1, <1>2

\* Every step keeps what the marker says.
LEMMA NextMarker ==
  ASSUME TypeOK, LeaseExclusion, GateExclusion, JobBinding, ReasonBinding, Progress,
         MarkerState, [Next]_vars
  PROVE  MarkerState'
<1> USE DEF MarkerState, Withdrawn, At, ClaimPcs
<1>1. CASE \E c \in ReadyCalls : ReadyStart(c)
  BY <1>1 DEF TypeOK, ReadyStart, Goto, lockedVars, Calls
<1>2. CASE \E c \in EnableCalls : EnableStart(c)
  BY <1>2 DEF TypeOK, EnableStart, Goto, GoAbort, lockedVars, Calls
<1>3. CASE \E c \in Calls : Proceed(c)
  BY <1>3, RunJobMarker, AbortMarker, ReadyMarker, EnableMarker DEF Proceed
<1>4. CASE LoseBar \/ Rest \/ UNCHANGED vars
  BY <1>4 DEF LoseBar, Rest, vars, lockedVars, callVars
<1>5. QED BY <1>1, <1>2, <1>3, <1>4 DEF Next

(* OWNED and POOL, once complete, stay as they are.                        *)

\* Steps of an abort.
LEMMA AbortRecords ==
  ASSUME TypeOK, LeaseExclusion, GateExclusion, JobBinding, Progress, RecordsKept, NEW c \in
     Calls, AbortStep(c)
  PROVE  RecordsKept'
<1> USE DEF TypeOK, Gate, LeaseExclusion, GateExclusion, RecordsKept, Alone, At, ClaimPcs,
   PoolPcs, VerifiedPcs, AbortOwnerPcs
<1>1. CASE RequestAbort(c)
  BY <1>1 DEF RequestAbort, Goto
<1>2. CASE InvalidateForAbort(c)
  BY <1>2 DEF InvalidateForAbort, Start, Goto
<1>3. CASE FinishAbort(c)
  BY <1>3 DEF FinishAbort, After, Goto
<1>4. QED BY <1>1, <1>2, <1>3 DEF AbortStep

\* Steps of a ready call.
LEMMA ReadyRecords ==
  ASSUME TypeOK, LeaseExclusion, GateExclusion, JobBinding, Progress, RecordsKept, NEW c \in
     ReadyCalls, ReadyStep(c)
  PROVE  RecordsKept'
<1> USE DEF TypeOK, Gate, LeaseExclusion, GateExclusion, RecordsKept, Alone, At, ClaimPcs,
   PoolPcs, VerifiedPcs, AbortOwnerPcs, Calls
<1>1. CASE ReadyClaim(c)
  BY <1>1 DEF ReadyClaim, Transition, Goto
<1>2. CASE ReadyAcquire(c)
  BY <1>2 DEF ReadyAcquire, Start, Goto, lockedVars
<1>3. CASE ReadyPublish(c)
  BY <1>3 DEF ReadyPublish, After, Start, Goto, JobBinding, JobOf, Progress, Published
<1>4. CASE ReadyFinish(c)
  BY <1>4 DEF ReadyFinish, Transition, Goto
<1>5. CASE ReadyInvalidate(c)
  BY <1>5 DEF ReadyInvalidate, GoAbort, Goto
<1>6. CASE ReadyVmmRange(c)
  BY <1>6 DEF ReadyVmmRange, GoAbort, Goto, lockedVars
<1>7. CASE ReadyStoreOwners(c)
  BY <1>7 DEF ReadyStoreOwners, Goto
<1>8. QED BY <1>1, <1>2, <1>3, <1>4, <1>5, <1>6, <1>7 DEF ReadyStep

\* Steps of an enable call.
LEMMA EnableRecords ==
  ASSUME TypeOK, LeaseExclusion, GateExclusion, JobBinding, Progress, RecordsKept, NEW c \in
     EnableCalls, EnableStep(c)
  PROVE  RecordsKept'
<1> USE DEF TypeOK, Gate, LeaseExclusion, GateExclusion, RecordsKept, Alone, At, ClaimPcs,
   PoolPcs, VerifiedPcs, AbortOwnerPcs, Calls
<1>1. CASE BeginPool(c)
  BY <1>1 DEF BeginPool, Transition, Goto
<1>2. CASE RefusePool(c)
  BY <1>2 DEF RefusePool, GoAbort, Goto
<1>3. CASE NativePools(c)
  BY <1>3 DEF NativePools, PublishInvalid, Goto, Start
<1>4. CASE FinishPool(c)
  BY <1>4 DEF FinishPool, Start, Goto
<1>5. CASE ActivePublished(c)
  BY <1>5 DEF ActivePublished, After, Start, Goto, JobBinding, JobOf, Progress, Published
<1>6. CASE Authorize(c)
  BY <1>6 DEF Authorize, Goto, lockedVars
<1>7. CASE BeginValid(c)
  BY <1>7 DEF BeginValid, Start, Goto
<1>8. CASE FinishValid(c)
  BY <1>8 DEF FinishValid, After, Start, Goto
<1>9. CASE CheckGate(c)
  BY <1>9 DEF CheckGate, Goto, lockedVars
<1>10. CASE Commit(c)
  BY <1>10 DEF Commit, Transition, Goto
<1>11. CASE FailPool(c)
  BY <1>11 DEF FailPool, PublishInvalid, lockedVars, Start, Goto
<1>12. CASE InvalidPublished(c)
  BY <1>12 DEF InvalidPublished, After, Start, Goto
<1>13. CASE PoolInvalidate(c)
  BY <1>13 DEF PoolInvalidate, Goto
<1>14. QED BY <1>1, <1>2, <1>3, <1>4, <1>5, <1>6, <1>7, <1>8, <1>9, <1>10, <1>11, <1>12, <1>13 DEF
   EnableStep

\* A step of a publication keeps OWNED and POOL once they are complete.
LEMMA RunJobRecords ==
  ASSUME TypeOK, GateExclusion, JobBinding, Progress, RecordsKept, NEW c \in Calls, RunJob(c)
  PROVE  RecordsKept'
<1>0. UNCHANGED <<lockedVars, bar, pc, callVars>>
  BY DEF RunJob
<1>1. job[c].step # "none" /\ \A s \in Slots : s # job[c].slot => vram'[s] = vram[s]
  BY DEF TypeOK, RunJob, JobCheck, JobMark, JobStore, JobCommit, JobVerify, StoreWord
<1>2. /\ job[c].slot = "OWNED" => pc[c] = "publishOwned"
      /\ job[c].slot = "POOL" => pc[c] \in {"clearPool", "publishActive", "publishInvalid"}
  BY <1>1 DEF JobBinding, JobOf, NoJob
<1>3. "OWNED" \in log => vram'["OWNED"] = vram["OWNED"]
  BY <1>1, <1>2 DEF RecordsKept, At, ClaimPcs, Slots
<1>4. poolReady => vram'["POOL"] = vram["POOL"]
  BY <1>1, <1>2 DEF RecordsKept, At, ClaimPcs, Slots
<1>5. vram'["LIFE"].bind = "new" => poolReady /\ "OWNED" \in log
  <2> SUFFICES ASSUME vram'["LIFE"].bind = "new", vram["LIFE"].bind # "new"
               PROVE  poolReady /\ "OWNED" \in log
    BY DEF RecordsKept
  <2>1. LifeStep(c) BY LifeStore
  <2>2. QED BY <2>1 DEF LifeStep, GateExclusion, RecordsKept, At
<1>6. QED BY <1>0, <1>3, <1>4, <1>5 DEF RecordsKept, At, lockedVars

\* Every step keeps OWNED and POOL once they are complete.
LEMMA NextRecords ==
  ASSUME TypeOK, LeaseExclusion, GateExclusion, JobBinding, Progress, RecordsKept, [Next]_vars
  PROVE  RecordsKept'
<1> USE DEF RecordsKept, At, ClaimPcs, PoolPcs, VerifiedPcs
<1>1. CASE \E c \in ReadyCalls : ReadyStart(c)
  BY <1>1 DEF TypeOK, ReadyStart, Goto, lockedVars, Calls
<1>2. CASE \E c \in EnableCalls : EnableStart(c)
  BY <1>2 DEF TypeOK, EnableStart, Goto, GoAbort, lockedVars, Calls
<1>3. CASE \E c \in Calls : Proceed(c)
  BY <1>3, RunJobRecords, AbortRecords, ReadyRecords, EnableRecords DEF Proceed
<1>4. CASE LoseBar \/ Rest \/ UNCHANGED vars
  BY <1>4 DEF LoseBar, Rest, vars, lockedVars, callVars
<1>5. QED BY <1>1, <1>2, <1>3, <1>4 DEF Next

(* An accepted abort has a call that publishes it.                         *)

\* Steps of an abort.
LEMMA AbortCarried ==
  ASSUME TypeOK, LeaseExclusion, GateExclusion, JobBinding, ReasonBinding, Progress,
     MarkerState, RecordsKept, Carried, NEW c \in Calls, AbortStep(c)
  PROVE  Carried'
<1> USE DEF TypeOK, Gate, GateExclusion, MarkerState, RecordsKept, Carried, Alone, At, ClaimPcs,
   PoolPcs, VerifiedPcs, AbortOwnerPcs, Publish, NoJob
<1>1. CASE RequestAbort(c)
  BY <1>1 DEF RequestAbort, Goto
<1>2. CASE InvalidateForAbort(c)
  BY <1>2 DEF InvalidateForAbort, Start, Goto
<1>3. CASE FinishAbort(c)
  BY <1>3 DEF FinishAbort, After, Goto, JobBinding, JobOf, Progress, Published, FinishedJob,
     MakeAbortLifetime, ValidMarker, MakeValidLifetime, Make
<1>4. QED BY <1>1, <1>2, <1>3 DEF AbortStep

\* Steps of a ready call.
LEMMA ReadyCarried ==
  ASSUME TypeOK, LeaseExclusion, GateExclusion, JobBinding, ReasonBinding, Progress,
     MarkerState, RecordsKept, Carried, NEW c \in ReadyCalls, ReadyStep(c)
  PROVE  Carried'
<1> USE DEF TypeOK, Gate, GateExclusion, MarkerState, RecordsKept, Carried, Alone, At, ClaimPcs,
   PoolPcs, VerifiedPcs, AbortOwnerPcs, Publish, NoJob, Calls
<1>1. CASE ReadyClaim(c)
  BY <1>1 DEF ReadyClaim, Transition, Goto
<1>2. CASE ReadyAcquire(c)
  BY <1>2 DEF ReadyAcquire, Start, Goto, lockedVars
<1>3. CASE ReadyPublish(c)
  BY <1>3 DEF ReadyPublish, After, Start, Goto, JobBinding, JobOf, Progress, Published,
     FinishedJob, Blank
<1>4. CASE ReadyFinish(c)
  BY <1>4 DEF ReadyFinish, Transition, Goto
<1>5. CASE ReadyInvalidate(c)
  BY <1>5 DEF ReadyInvalidate, GoAbort, Goto
<1>6. CASE ReadyVmmRange(c)
  BY <1>6 DEF ReadyVmmRange, GoAbort, Goto, lockedVars
<1>7. CASE ReadyStoreOwners(c)
  BY <1>7 DEF ReadyStoreOwners, Goto
<1>8. QED BY <1>1, <1>2, <1>3, <1>4, <1>5, <1>6, <1>7 DEF ReadyStep

\* Steps of an enable call.
LEMMA EnableCarried ==
  ASSUME TypeOK, LeaseExclusion, GateExclusion, JobBinding, ReasonBinding, Progress,
     MarkerState, RecordsKept, Carried, NEW c \in EnableCalls, EnableStep(c)
  PROVE  Carried'
<1> USE DEF TypeOK, Gate, GateExclusion, MarkerState, RecordsKept, Carried, Alone, At, ClaimPcs,
   PoolPcs, VerifiedPcs, AbortOwnerPcs, Publish, NoJob, Calls
<1>1. CASE BeginPool(c)
  BY <1>1 DEF BeginPool, Transition, Goto
<1>2. CASE RefusePool(c)
  BY <1>2 DEF RefusePool, GoAbort, Goto
<1>3. CASE NativePools(c)
  BY <1>3 DEF NativePools, PublishInvalid, Goto, Start
<1>4. CASE FinishPool(c)
  BY <1>4 DEF FinishPool, Start, Goto
<1>5. CASE ActivePublished(c)
  BY <1>5 DEF ActivePublished, After, Start, Goto
<1>6. CASE Authorize(c)
  BY <1>6 DEF Authorize, Goto, lockedVars
<1>7. CASE BeginValid(c)
  BY <1>7 DEF BeginValid, Start, Goto
<1>8. CASE FinishValid(c)
  BY <1>8 DEF FinishValid, After, Start, Goto, JobBinding, JobOf, Progress, Published,
     FinishedJob, ValidMarker, MakeValidLifetime, Make
<1>9. CASE CheckGate(c)
  BY <1>9 DEF CheckGate, Goto, lockedVars
<1>10. CASE Commit(c)
  BY <1>10 DEF Commit, Transition, Goto
<1>11. CASE FailPool(c)
  BY <1>11 DEF FailPool, PublishInvalid, lockedVars, Start, Goto
<1>12. CASE InvalidPublished(c)
  BY <1>12 DEF InvalidPublished, After, Start, Goto
<1>13. CASE PoolInvalidate(c)
  BY <1>13 DEF PoolInvalidate, Goto
<1>14. QED BY <1>1, <1>2, <1>3, <1>4, <1>5, <1>6, <1>7, <1>8, <1>9, <1>10, <1>11, <1>12, <1>13 DEF
   EnableStep

\* A step of a publication: no lifetime publication fails while the BAR works.
LEMMA RunJobCarried ==
  ASSUME TypeOK, LeaseExclusion, GateExclusion, JobBinding, Progress, RecordsKept,
         Carried, NEW c \in Calls, RunJob(c)
  PROVE  Carried'
<1> DEFINE j == job[c]
           Said(k, life) ==
             /\ k.kind = "valid" /\ k.step = "check" => life.state = "zero"
             /\ k.kind = "abort" /\ k.step = "check" => life = ValidMarker
             /\ k.kind \in {"valid", "abort"} /\ k.step = "verify" /\ bar = "up" => life = k.value
             /\ k.kind \in {"valid", "abort"} /\ k.step = "fail" => bar = "lost"
<1>0. UNCHANGED <<lease, gate, log, pc, bar>>
  BY DEF RunJob, lockedVars
<1>1. \A d \in Calls : Said(job[d], vram["LIFE"])
  BY DEF Carried
<1>2. \A d \in Calls \ {c} : Said(job'[d], vram'["LIFE"])
  BY <1>1, ProgressOfOthers
<1>3. Said(job'[c], vram'["LIFE"])
  <2>1. /\ j \in Job
        /\ j.kind = "valid" => j.slot = "LIFE" /\ j.value = ValidMarker
        /\ j.kind = "abort" => /\ j.slot = "LIFE"
                               /\ j.value = MakeAbortLifetime(ValidMarker, gate.reason)
    BY DEF TypeOK, JobBinding, JobOf, NoJob
  <2>2. CASE JobCheck(c)
    <3>1. j.kind = "abort" /\ vram["LIFE"] = ValidMarker => Admits(j, vram["LIFE"])
      BY <2>1 DEF Admits, ValidLifetimeEncoding, SumMatches, MakeAbortLifetime, ValidMarker,
         MakeValidLifetime, Make
    <3>2. j.kind = "valid" /\ vram["LIFE"].state = "zero" => Admits(j, vram["LIFE"])
      BY DEF Admits
    <3>3. /\ vram' = vram /\ j.step = "check"
          /\ job'[c] = [j EXCEPT !.step = IF bar = "lost" \/ ~Admits(j, vram[j.slot]) THEN "fail"
                                     ELSE IF j.kind = "clear" THEN "body" ELSE "mark"]
      BY <2>2 DEF JobCheck, JobStep, TypeOK
    <3>4. QED BY <1>1, <2>1, <3>1, <3>2, <3>3 DEF Job
  <2>3. CASE JobMark(c)
    BY <2>1, <2>3 DEF JobMark, JobStep, TypeOK, Job, ReadsMark
  <2>4. CASE JobStore(c)
    <3>1. PICK w \in j.todo :
            job' = [job EXCEPT ![c] = [j EXCEPT !.todo = j.todo \ {w},
                                             !.step = IF j.todo # {w} THEN "body"
                                                      ELSE IF j.kind = "clear" THEN "verify"
                                                      ELSE "commit"]]
      BY <2>4 DEF JobStore
    <3>2. /\ job'[c].kind = j.kind
          /\ job'[c].step \in {"body", "commit", "verify"}
          /\ job'[c].step = "verify" => j.kind = "clear"
      BY <2>1, <3>1 DEF TypeOK, Job
    <3>3. QED BY <3>2
  <2>5. CASE JobCommit(c)
    <3>1. /\ j.step = "commit"
          /\ StoreWord(j.slot, "state", j.value.state)
          /\ job'[c] = [j EXCEPT !.step = "verify"]
      BY <2>5 DEF JobCommit, JobStep, TypeOK
    <3>2. j.kind # "clear" /\ bar = "up" =>
            /\ vram[j.slot].bind = j.value.bind
            /\ vram[j.slot].reason = j.value.reason
            /\ vram[j.slot].sum = j.value.sum
      BY <3>1 DEF Progress, BodyWords, Words
    <3>3. j.kind # "clear" /\ bar = "up" => vram'[j.slot] = j.value
      BY <2>1, <3>1, <3>2 DEF StoreWord, TypeOK, Job, Record
    <3>4. QED BY <2>1, <3>1, <3>3 DEF Job
  <2>6. CASE JobVerify(c)
    <3>1. /\ vram' = vram /\ j.step = "verify"
          /\ job'[c] = [j EXCEPT !.step = IF bar = "up" /\ vram[j.slot] = j.value THEN "ok" ELSE "fail"]
      BY <2>6 DEF JobVerify, JobStep, TypeOK
    <3>2. bar \in {"up", "lost"} BY DEF TypeOK
    <3>3. QED BY <1>1, <2>1, <3>1, <3>2 DEF Job
  <2>7. QED BY <2>2, <2>3, <2>4, <2>5, <2>6 DEF RunJob
<1>4. \A d \in Calls : At(d, {"publishOwned", "finishOwned"}) => vram'["LIFE"].state = "zero"
  BY LifeStore DEF LifeStep, Carried, LeaseExclusion, GateExclusion, Alone, At, ClaimPcs,
     AbortOwnerPcs, PoolPcs, VerifiedPcs
<1>5. "OWNED" \in log /\ gate.phase = "Initial" => vram'["LIFE"].state = "zero"
  BY LifeStore DEF LifeStep, Carried, GateExclusion, At, AbortOwnerPcs
<1>6. bar = "up" => /\ gate.phase = "Poisoned" => vram'["LIFE"].bind # "new"
                    /\ gate.phase = "Aborted" => vram'["LIFE"].state # "VALD"
  BY LifeStore DEF LifeStep, Carried, GateExclusion, At, AbortOwnerPcs, ClaimPcs
<1>7. \A d \in Calls : Said(job'[d], vram'["LIFE"])
  BY <1>2, <1>3
<1>8. QED
  <2> HIDE DEF Said
  <2>1. \A d \in Calls : LET k == job'[d] IN
             /\ k.kind = "valid" /\ k.step = "check" => vram'["LIFE"].state = "zero"
             /\ k.kind = "abort" /\ k.step = "check" => vram'["LIFE"] = ValidMarker
             /\ k.kind \in {"valid", "abort"} /\ k.step = "verify" /\ bar = "up" =>
                  vram'["LIFE"] = k.value
             /\ k.kind \in {"valid", "abort"} /\ k.step = "fail" => bar = "lost"
    BY <1>7 DEF Said
  <2>2. QED BY <1>0, <2>1, <1>4, <1>5, <1>6 DEF Carried, At

\* Every step keeps an accepted abort carried.
LEMMA NextCarried ==
  ASSUME TypeOK, LeaseExclusion, GateExclusion, JobBinding, ReasonBinding, Progress,
         MarkerState, RecordsKept, Carried, [Next]_vars
  PROVE  Carried'
<1> USE DEF Carried, At
<1>1. CASE \E c \in ReadyCalls : ReadyStart(c)
  BY <1>1 DEF TypeOK, ReadyStart, Goto, lockedVars, Calls, AbortOwnerPcs
<1>2. CASE \E c \in EnableCalls : EnableStart(c)
  BY <1>2 DEF TypeOK, EnableStart, Goto, GoAbort, lockedVars, Calls, AbortOwnerPcs
<1>3. CASE \E c \in Calls : Proceed(c)
  BY <1>3, RunJobCarried, AbortCarried, ReadyCarried, EnableCarried DEF Proceed
<1>4. CASE LoseBar \/ Rest \/ UNCHANGED vars
  BY <1>4 DEF LoseBar, Rest, vars, lockedVars, callVars
<1>5. QED BY <1>1, <1>2, <1>3, <1>4 DEF Next

(* The invariant.                                                          *)

\* It holds before the first call, whatever an earlier run left behind.
LEMMA InitInv == Init => IInv
<1> SUFFICES ASSUME Init PROVE IInv
  OBVIOUS
<1>1. TypeOK BY InitTypes
<1>2. \A c \in Calls : pc[c] = "idle" /\ job[c] = NoJob
  BY DEF Init
<1>3. vram["LIFE"].bind # "new"
  BY DEF Init, InitialVram, Slots, Blank, MakeValidLifetime, Make
<1>4. LeaseExclusion
  BY <1>2 DEF LeaseExclusion, Alone, At, ClaimPcs, PoolPcs, VerifiedPcs
<1>5. GateExclusion
  BY <1>2 DEF Init, GateExclusion, Alone, At, ClaimPcs, AbortOwnerPcs
<1>6. JobBinding BY <1>2 DEF JobBinding, JobOf
<1>7. ReasonBinding BY <1>2 DEF Init, ReasonBinding, At
<1>8. Progress BY <1>2 DEF Progress, NoJob
<1>9. MarkerState BY <1>2, <1>3 DEF Init, MarkerState, Withdrawn, At
<1>10. RecordsKept
  BY <1>2, <1>3 DEF Init, RecordsKept, At, ClaimPcs, PoolPcs, VerifiedPcs
<1>11. Carried
  BY <1>2 DEF Init, Carried, At, NoJob
<1>12. QED BY <1>1, <1>4, <1>5, <1>6, <1>7, <1>8, <1>9, <1>10, <1>11 DEF IInv

\* It is kept by every step.
LEMMA NextInv == IInv /\ [Next]_vars => IInv'
<1> SUFFICES ASSUME IInv, [Next]_vars PROVE IInv'
  OBVIOUS
<1> USE DEF IInv
<1>1. TypeOK' BY NextTypes
<1>2. LeaseExclusion' BY NextLease
<1>3. GateExclusion' BY NextGate
<1>4. (JobBinding /\ ReasonBinding)' BY NextJobs
<1>5. Progress' BY NextProgress
<1>6. MarkerState' BY NextMarker
<1>7. RecordsKept' BY NextRecords
<1>8. Carried' BY NextCarried
<1>9. QED BY <1>1, <1>2, <1>3, <1>4, <1>5, <1>6, <1>7, <1>8

\* The strengthened invariant holds in every reachable state of any number of
\* driver calls.
THEOREM Invariant == Spec => []IInv
BY InitInv, NextInv, PTL DEF Spec

(* The properties.                                                         *)

\* At most one call stores to a record at any time.
THEOREM OneWriterCorrect == Spec => []OneWriter
<1>1. IInv => OneWriter
  <2> SUFFICES ASSUME IInv, NEW c \in Calls, NEW d \in Calls,
                      RunningJob(job[c]), RunningJob(job[d]), job[c].slot = job[d].slot
               PROVE  c = d
    BY DEF OneWriter
  <2>1. QED BY Exclusive DEF IInv, RunningJob
<1>2. QED BY Invariant, <1>1, PTL

\* While a marker is withdrawn no KIQ start is admitted.
THEOREM WithdrawnClosesKiqCorrect == Spec => []WithdrawnClosesKiq
<1>1. IInv => WithdrawnClosesKiq
  BY DEF IInv, MarkerState, WithdrawnClosesKiq, KiqAllowed
<1>2. QED BY Invariant, <1>1, PTL

\* A guest stopped anywhere is accepted only if both pools excluded the lease.
THEOREM AcceptedMeansExcludedCorrect == Spec => []AcceptedMeansExcluded
<1>1. IInv => AcceptedMeansExcluded
  BY DEF IInv, MarkerState, RecordsKept, AcceptedMeansExcluded, HostAccepts
<1>2. QED BY Invariant, <1>1, PTL

\* The lease becomes Active only behind a marker whose readback succeeded.
THEOREM ActiveBehindMarkerCorrect == Spec => []ActiveBehindMarker
<1>1. IInv => ActiveBehindMarker
  BY DEF IInv, MarkerState, GateExclusion, ActiveBehindMarker, ValidMarker,
     MakeValidLifetime, Make, At, AbortOwnerPcs
<1>2. QED BY Invariant, <1>1, PTL

\* The pool record that authorization compared with stays in video memory.
THEOREM PoolRecordKeptCorrect == Spec => []PoolRecordKept
<1>1. IInv => PoolRecordKept
  BY DEF IInv, RecordsKept, PoolRecordKept
<1>2. QED BY Invariant, <1>1, PTL

\* The first abort reason is the one made durable.
THEOREM FirstReasonDurableCorrect == Spec => []FirstReasonDurable
<1>1. IInv => FirstReasonDurable
  BY DEF IInv, MarkerState, JobBinding, JobOf, NoJob, RunningJob, FirstReasonDurable,
     Withdrawn, MakeAbortLifetime, Make
<1>2. QED BY Invariant, <1>1, PTL

\* When no call is in progress and an abort was accepted, the marker left behind
\* is not VALID, unless the BAR was lost first.
THEOREM AbortedWhenQuietCorrect == Spec => []AbortedWhenQuiet
<1>1. IInv => AbortedWhenQuiet
  <2> SUFFICES ASSUME IInv, Quiet, gate.reason # "none", bar = "up", HostAccepts
               PROVE  FALSE
    BY DEF AbortedWhenQuiet
  <2>1. gate.phase \in GatePhases
    BY DEF IInv, TypeOK, Gate
  <2>2. gate.phase \notin {"Initial", "PublishingValid", "Active"}
    BY DEF IInv, ReasonBinding
  <2>3. gate.phase \notin {"ValidAbortRequested", "PublishingAbort"}
    BY DEF IInv, Carried, Quiet, At, AbortOwnerPcs
  <2>4. gate.phase \notin {"Aborted", "Poisoned"}
    BY DEF IInv, Carried, HostAccepts
  <2>5. QED BY <2>1, <2>2, <2>3, <2>4 DEF GatePhases
<1>2. QED BY Invariant, <1>1, PTL

\* An accepted reason is never replaced.
THEOREM FirstReasonKeptCorrect == Spec => FirstReasonKept
<1>1. IInv /\ [Next]_vars => [gate.reason # "none" => gate'.reason = gate.reason]_gate
  <2> SUFFICES ASSUME IInv, [Next]_vars, gate' # gate, gate.reason # "none"
               PROVE  gate'.reason = gate.reason
    OBVIOUS
  <2>1. gate \in Gate /\ gate.phase \notin {"Initial", "PublishingValid", "Active"}
    BY DEF IInv, TypeOK, ReasonBinding
  <2>2. PICK c \in Calls : RequestAbort(c) \/ FinishAbort(c) \/ BeginValid(c) \/ FinishValid(c)
    BY DEF Next, ReadyStart, EnableStart, Proceed, LoseBar, Rest, vars, lockedVars, RunJob,
       AbortStep, InvalidateForAbort, ReadyStep, ReadyClaim, ReadyAcquire, ReadyPublish,
       ReadyFinish, ReadyInvalidate, ReadyVmmRange, ReadyStoreOwners, EnableStep, BeginPool,
       RefusePool, NativePools, FinishPool, ActivePublished, Authorize, CheckGate, Commit,
       FailPool, InvalidPublished, PoolInvalidate, Calls
  <2>3. QED BY <2>1, <2>2 DEF RequestAbort, FinishAbort, BeginValid, FinishValid, Gate
<1>2. QED BY Invariant, <1>1, PTL DEF Spec, FirstReasonKept

(* The contract with the host.                                             *)

\* The host accepts exactly the VALID marker of this boot: the other records
\* are then complete, and nothing changes them any more.
LEMMA AcceptsMarker == IInv => (HostAccepts <=> vram["LIFE"] = ValidMarker)
<1> SUFFICES ASSUME IInv PROVE HostAccepts <=> vram["LIFE"] = ValidMarker
  OBVIOUS
<1>1. ASSUME HostAccepts PROVE vram["LIFE"] = ValidMarker
  BY <1>1 DEF HostAccepts, ValidLifetimeEncoding, SumMatches, ValidMarker, MakeValidLifetime,
     Make, IInv, TypeOK, Record, Slots
<1>2. ASSUME vram["LIFE"] = ValidMarker PROVE HostAccepts
  <2>1. vram["LIFE"].bind = "new" /\ vram["LIFE"].state = "VALD"
    BY <1>2 DEF ValidMarker, MakeValidLifetime, Make
  <2>2. ValidLifetimeEncoding(vram["LIFE"])
    BY <1>2 DEF ValidMarker, MakeValidLifetime, Make, ValidLifetimeEncoding, SumMatches
  <2>3. poolReady /\ "OWNED" \in log
    BY <2>1 DEF IInv, RecordsKept
  <2>4. QED BY <2>1, <2>2, <2>3 DEF IInv, RecordsKept, TypeOK, HostAccepts
<1>3. QED BY <1>1, <1>2

\* The same of the state a step leads to.
LEMMA AcceptsMarkerNext == IInv' => (HostAccepts <=> vram["LIFE"] = ValidMarker)'
BY AcceptsMarker, PTL

\* A step that leaves the verdict of the host as it was.
MarkerKept == (HostAccepts' <=> HostAccepts) /\ (Withdrawn' <=> Withdrawn)

\* The marker only ever moves from absent to authorizing to withdrawn.
LEMMA MarkerMoves ==
  ASSUME IInv, IInv', NEW c \in Calls, RunJob(c)
  PROVE  \/ MarkerKept
         \/ ~HostAccepts /\ ~Withdrawn /\ HostAccepts' /\ reserved
         \/ HostAccepts /\ ~HostAccepts' /\ Withdrawn'
<1>1. CASE vram'["LIFE"] = vram["LIFE"]
  BY <1>1, AcceptsMarker, AcceptsMarkerNext DEF MarkerKept, Withdrawn
<1>2. CASE vram'["LIFE"] # vram["LIFE"]
  <2>1. LifeStep(c)
    BY <1>2, LifeStore DEF IInv
  <2>2. ValidMarker.bind = "new" /\ ValidMarker.state = "VALD"
    BY DEF ValidMarker, MakeValidLifetime, Make
  <2>3. CASE pc[c] = "clearLife"
    <3>1. vram["LIFE"].bind # "new"
      BY <2>3 DEF IInv, RecordsKept, At, ClaimPcs
    <3>2. vram'["LIFE"].bind # "new"
      BY <2>1, <2>3, <3>1 DEF LifeStep
    <3>3. QED BY <2>2, <3>1, <3>2, AcceptsMarker, AcceptsMarkerNext DEF MarkerKept, Withdrawn
  <2>4. CASE pc[c] = "publishValid"
    <3>1. reserved
      BY <2>4 DEF IInv, RecordsKept, At, VerifiedPcs
    <3>2. vram["LIFE"].state = "zero" /\ vram'["LIFE"].state \in {"zero", "VALD"}
      BY <2>1, <2>4 DEF LifeStep
    <3>3. QED BY <2>2, <3>1, <3>2, AcceptsMarker, AcceptsMarkerNext DEF MarkerKept, Withdrawn
  <2>5. CASE pc[c] \in {"publishAbort", "ownAbort"}
    BY <2>1, <2>2, <2>5, AcceptsMarker, AcceptsMarkerNext DEF MarkerKept, LifeStep, Withdrawn
  <2>6. QED BY <2>1, <2>3, <2>4, <2>5 DEF LifeStep
<1>3. QED BY <1>1, <1>2

\* A step that stores nothing moves no marker; it excludes the lease at most
\* once, and admits a client only behind a marker.
LEMMA MarkerStays ==
  ASSUME IInv, IInv', [Next]_vars, ~ \E c \in Calls : RunJob(c)
  PROVE  /\ MarkerKept
         /\ \/ UNCHANGED <<reserved, admitted>>
            \/ reserved' = TRUE /\ admitted' = admitted
            \/ reserved' = reserved /\ admitted' # {} /\ HostAccepts
<1>1. vram' = vram
  BY AbortFrame, ReadyFrame, EnableFrame DEF IInv, Next, ReadyStart, EnableStart, Proceed,
     LoseBar, Rest, vars
<1>2. MarkerKept
  BY <1>1, AcceptsMarker, AcceptsMarkerNext DEF MarkerKept, Withdrawn
<1>3. CASE UNCHANGED <<reserved, admitted>>
  BY <1>2, <1>3
<1>4. CASE ~UNCHANGED <<reserved, admitted>>
  <2>1. PICK c \in EnableCalls : NativePools(c) \/ Commit(c)
    BY <1>4 DEF Next, ReadyStart, EnableStart, Proceed, LoseBar, Rest, vars, lockedVars, callVars,
       AbortStep, RequestAbort, InvalidateForAbort, FinishAbort, ReadyStep, ReadyClaim,
       ReadyAcquire, ReadyPublish, ReadyFinish, ReadyInvalidate, ReadyVmmRange,
       ReadyStoreOwners, EnableStep, BeginPool, RefusePool, FinishPool, ActivePublished,
       Authorize, BeginValid, FinishValid, CheckGate, FailPool, InvalidPublished,
       PoolInvalidate, Calls
  <2>2. CASE NativePools(c)
    BY <1>2, <1>4, <2>2 DEF NativePools, callVars
  <2>3. CASE Commit(c)
    <3>1. lease = "PoolVerified" /\ pc[c] = "commit" /\ admitted' = admitted \cup {c}
          /\ reserved' = reserved
      BY <1>4, <2>3 DEF Commit
    <3>2. vram["LIFE"] = ValidMarker
      BY <3>1 DEF IInv, MarkerState, At, Calls
    <3>3. QED BY <1>2, <3>1, <3>2, AcceptsMarker
  <2>4. QED BY <2>1, <2>2, <2>3
<1>5. QED BY <1>3, <1>4

\* Once withdrawn, no interleaving of calls, stores and stops makes the host
\* accept again.
THEOREM WithdrawnForGoodCorrect == Spec => WithdrawnForGood
<1>1. IInv /\ IInv' /\ [Next]_vars => [Withdrawn => Withdrawn' /\ ~HostAccepts']_vars
  <2> SUFFICES ASSUME IInv, IInv', [Next]_vars, Withdrawn
               PROVE  Withdrawn' /\ ~HostAccepts'
    OBVIOUS
  <2>1. ~HostAccepts
    BY DEF HostAccepts, Withdrawn
  <2>2. Withdrawn'
    BY <2>1, MarkerMoves, MarkerStays DEF MarkerKept
  <2>3. ~HostAccepts'
    BY <2>2 DEF HostAccepts, Withdrawn
  <2>4. QED BY <2>2, <2>3
<1>2. QED BY Invariant, <1>1, PTL DEF Spec, WithdrawnForGood

\* The records and the callbacks implement the contract.
THEOREM ContractImplemented == Spec => ImplementsContract
<1> USE DEF Contract!contractVars
<1>1. Init => Contract!Init
  <2> SUFFICES ASSUME Init PROVE Contract!Init
    OBVIOUS
  <2>1. IInv /\ ~HostAccepts
    BY InitInv DEF Init, HostAccepts
  <2>2. ~Withdrawn
    BY DEF Init, InitialVram, Slots, Blank, MakeValidLifetime, Make, Withdrawn
  <2>3. QED BY <2>1, <2>2 DEF Init, Contract!Init
<1>2. IInv /\ IInv' /\ [Next]_vars => [Contract!Next]_(Contract!contractVars)
  <2> SUFFICES ASSUME IInv, IInv', [Next]_vars
               PROVE  [Contract!Next]_(Contract!contractVars)
    OBVIOUS
  <2>1. CASE \E c \in Calls : RunJob(c)
    <3>1. PICK c \in Calls : RunJob(c) BY <2>1
    <3>2. UNCHANGED <<reserved, admitted>>
      BY <3>1 DEF RunJob, lockedVars, callVars
    <3>3. CASE MarkerKept
      BY <3>2, <3>3 DEF MarkerKept
    <3>4. CASE ~HostAccepts /\ ~Withdrawn /\ HostAccepts' /\ reserved
      BY <3>2, <3>4 DEF Contract!Next, Contract!Authorize
    <3>5. CASE HostAccepts /\ ~HostAccepts' /\ Withdrawn'
      BY <3>2, <3>5 DEF Contract!Next, Contract!Withdraw
    <3>6. QED BY <3>1, <3>3, <3>4, <3>5, MarkerMoves
  <2>2. CASE ~ \E c \in Calls : RunJob(c)
    BY <2>2, MarkerStays DEF MarkerKept, Contract!Next, Contract!Exclude, Contract!Admit
  <2>3. QED BY <2>1, <2>2
<1>3. QED BY Invariant, <1>1, <1>2, PTL DEF Spec, Contract!Spec, ImplementsContract

\* What the host may act on is sound wherever the guest is stopped.
THEOREM AuthoritySoundCorrect == Spec => []AuthoritySound
BY AcceptedMeansExcludedCorrect, WithdrawnClosesKiqCorrect, ActiveBehindMarkerCorrect, PTL
   DEF AuthoritySound

\* Each record has one writer, the authorized pool record stays, and the durable
\* abort reason is the first.
THEOREM RecordsSoundCorrect == Spec => []RecordsSound
BY OneWriterCorrect, PoolRecordKeptCorrect, FirstReasonDurableCorrect, PTL DEF RecordsSound

\* No step takes a withdrawal or its reason back.
THEOREM IrrevocableCorrect == Spec => Irrevocable
BY WithdrawnForGoodCorrect, FirstReasonKeptCorrect DEF Irrevocable

(***************************************************************************)
(* A boot that makes one call of each kind is admitted.                    *)
(***************************************************************************)
\* The one call of each kind a clean boot makes, with the BAR there throughout.
CleanBoot == bar = "up" /\ OneStarted(ReadyCalls) /\ OneStarted(EnableCalls)
GateNew == gate = [phase |-> "Initial", reason |-> "none"]

\* A pool record that is published while the BAR works reads back.
ActiveLands ==
  \A c \in EnableCalls : At(c, {"publishActive"}) /\ bar = "up" =>
    job[c].step # "fail" /\ (job[c].step = "verify" => vram["POOL"] = ActiveRecord)

\* Before an enable call starts the ready call alone moves the lease.
ReadyAlone ==
  (\A e \in EnableCalls : pc[e] = "idle") =>
    /\ ~reserved /\ ~poolPublished
    /\ (\A r \in ReadyCalls : pc[r] = "idle") => GateNew /\ lease = "Requested"
    /\ \A r \in ReadyCalls :
         /\ At(r, {"claim"}) => GateNew
         /\ At(r, ClaimPcs) => GateNew /\ lease = "OwnershipPublishing"
         /\ At(r, {"vmmRange", "storeOwners"}) => GateNew /\ lease = "Owned"
    /\ owner => GateNew /\ lease = "Owned"

\* What an enable call still has before it, place by place.
EnableAlone(e) ==
  /\ At(e, AbortPcs \cup {"refusePool", "failPool", "publishInvalid", "poolInvalidate"}) => ~reserved
  /\ At(e, PoolPcs \cup {"beginPool"}) => owner
  /\ At(e, {"beginPool"}) => GateNew /\ lease = "Owned"
  /\ At(e, {"nativePools", "finishPool"}) => GateNew /\ lease = "PoolInitializing"
  /\ At(e, {"beginPool", "nativePools"}) => ~reserved
  /\ At(e, {"beginPool", "nativePools", "finishPool"}) => ~poolPublished
  /\ At(e, {"publishActive", "authorize", "beginValid"}) => GateNew /\ lease = "PoolVerified"
  /\ At(e, {"publishValid"}) => gate.phase = "PublishingValid" /\ lease = "PoolVerified"
  /\ At(e, {"checkGate", "commit"}) => gate.phase = "Active" /\ lease = "PoolVerified"
  /\ ~At(e, {"ownAbort"})
  /\ At(e, {"returned"}) /\ reserved => e \in admitted /\ gate.phase = "Active"

CleanPath ==
  CleanBoot =>
    /\ owner => /\ \E r \in ReadyCalls : At(r, {"returned"})
                /\ \A r \in ReadyCalls : At(r, {"idle", "returned"})
    /\ reserved => owner
    /\ \A r \in ReadyCalls : ~At(r, {"ownAbort"})
    /\ ReadyAlone
    /\ \A e \in EnableCalls : EnableAlone(e)

\* A call that started has started, and a BAR that is there was there.
LEMMA CleanBack == ASSUME IInv, [Next]_vars, CleanBoot' PROVE CleanBoot
<1>1. bar' = "up" => bar = "up"
  <2>1. CASE \E c \in Calls : Proceed(c)
    BY <2>1 DEF Proceed, RunJob, AbortStep, RequestAbort, InvalidateForAbort, FinishAbort,
       ReadyStep, ReadyClaim, ReadyAcquire, ReadyPublish, ReadyFinish, ReadyInvalidate,
       ReadyVmmRange, ReadyStoreOwners, EnableStep, BeginPool, RefusePool, NativePools,
       FinishPool, ActivePublished, Authorize, BeginValid, FinishValid, CheckGate, Commit,
       FailPool, InvalidPublished, PoolInvalidate
  <2>2. CASE ~(\E c \in Calls : Proceed(c))
    BY <2>2 DEF Next, ReadyStart, EnableStart, LoseBar, Rest, vars
  <2> QED
    BY <2>1, <2>2
<1>2. ASSUME NEW c \in Calls, pc[c] # "idle" PROVE pc'[c] # "idle"
  <2>0. pc \in [Calls -> Pcs]
    BY DEF IInv, TypeOK
  <2>1. CASE \E d \in Calls : RequestAbort(d)
    BY <1>2, <2>0, <2>1 DEF RequestAbort, Goto
  <2>2. CASE \E d \in Calls : InvalidateForAbort(d)
    BY <1>2, <2>0, <2>2 DEF InvalidateForAbort, Start, Goto
  <2>3. CASE \E d \in Calls : FinishAbort(d)
    BY <1>2, <2>0, <2>3 DEF FinishAbort, Goto
  <2>4. CASE \E d \in ReadyCalls : ReadyClaim(d)
    BY <1>2, <2>0, <2>4 DEF ReadyClaim, Transition, Goto
  <2>5. CASE \E d \in ReadyCalls : ReadyAcquire(d)
    BY <1>2, <2>0, <2>5 DEF ReadyAcquire, Start, Goto
  <2>6. CASE \E d \in ReadyCalls : ReadyPublish(d)
    BY <1>2, <2>0, <2>6 DEF ReadyPublish, Start, Goto
  <2>7. CASE \E d \in ReadyCalls : ReadyFinish(d)
    BY <1>2, <2>0, <2>7 DEF ReadyFinish, Transition, Goto
  <2>8. CASE \E d \in ReadyCalls : ReadyInvalidate(d)
    BY <1>2, <2>0, <2>8 DEF ReadyInvalidate, GoAbort, Goto
  <2>9. CASE \E d \in ReadyCalls : ReadyVmmRange(d)
    BY <1>2, <2>0, <2>9 DEF ReadyVmmRange, GoAbort, Goto
  <2>10. CASE \E d \in ReadyCalls : ReadyStoreOwners(d)
    BY <1>2, <2>0, <2>10 DEF ReadyStoreOwners, Goto
  <2>11. CASE \E d \in EnableCalls : BeginPool(d)
    BY <1>2, <2>0, <2>11 DEF BeginPool, Transition, Goto
  <2>12. CASE \E d \in EnableCalls : RefusePool(d)
    BY <1>2, <2>0, <2>12 DEF RefusePool, GoAbort, Goto
  <2>13. CASE \E d \in EnableCalls : NativePools(d)
    BY <1>2, <2>0, <2>13 DEF NativePools, PublishInvalid, Start, Goto
  <2>14. CASE \E d \in EnableCalls : FinishPool(d)
    BY <1>2, <2>0, <2>14 DEF FinishPool, Start, Goto
  <2>15. CASE \E d \in EnableCalls : ActivePublished(d)
    BY <1>2, <2>0, <2>15 DEF ActivePublished, Start, Goto
  <2>16. CASE \E d \in EnableCalls : Authorize(d)
    BY <1>2, <2>0, <2>16 DEF Authorize, Goto
  <2>17. CASE \E d \in EnableCalls : BeginValid(d)
    BY <1>2, <2>0, <2>17 DEF BeginValid, Start, Goto
  <2>18. CASE \E d \in EnableCalls : FinishValid(d)
    BY <1>2, <2>0, <2>18 DEF FinishValid, Start, Goto
  <2>19. CASE \E d \in EnableCalls : CheckGate(d)
    BY <1>2, <2>0, <2>19 DEF CheckGate, Goto
  <2>20. CASE \E d \in EnableCalls : Commit(d)
    BY <1>2, <2>0, <2>20 DEF Commit, Transition, Goto
  <2>21. CASE \E d \in EnableCalls : FailPool(d)
    BY <1>2, <2>0, <2>21 DEF FailPool, PublishInvalid, Start, Goto
  <2>22. CASE \E d \in EnableCalls : InvalidPublished(d)
    BY <1>2, <2>0, <2>22 DEF InvalidPublished, Start, Goto
  <2>23. CASE \E d \in EnableCalls : PoolInvalidate(d)
    BY <1>2, <2>0, <2>23 DEF PoolInvalidate, Goto
  <2>24. CASE (\E d \in ReadyCalls : ReadyStart(d)) \/ (\E d \in EnableCalls : EnableStart(d))
    BY <1>2, <2>0, <2>24 DEF ReadyStart, EnableStart, Goto, GoAbort
  <2>25. CASE (\E d \in Calls : RunJob(d)) \/ LoseBar \/ Rest \/ UNCHANGED vars
    BY <1>2, <2>25 DEF RunJob, LoseBar, Rest, vars
  <2> QED
    BY <2>1, <2>2, <2>3, <2>4, <2>5, <2>6, <2>7, <2>8, <2>9, <2>10, <2>11, <2>12, <2>13, <2>14, <2>15, <2>16, <2>17, <2>18, <2>19, <2>20, <2>21, <2>22, <2>23, <2>24, <2>25
       DEF Next, Proceed, AbortStep, ReadyStep, EnableStep
<1> QED
  BY <1>1, <1>2 DEF CleanBoot, OneStarted, Calls

\* A pool record stored while the BAR works is not torn by anybody else.
LEMMA ActiveLandsStep == ASSUME IInv, ActiveLands, [Next]_vars PROVE ActiveLands'
<1> SUFFICES ASSUME NEW e \in EnableCalls, pc'[e] = "publishActive", bar' = "up"
             PROVE  job'[e].step # "fail" /\ (job'[e].step = "verify" => vram'["POOL"] = ActiveRecord)
  BY DEF ActiveLands, At
<1>0. /\ pc \in [Calls -> Pcs] /\ job \in [Calls -> Job] /\ vram \in [Slots -> Record]
      /\ e \in Calls /\ bar \in {"up", "lost"}
  BY DEF IInv, TypeOK, Calls
<1> USE DEF At
<1>1. CASE \E d \in Calls : RunJob(d)
  <2> PICK d \in Calls : RunJob(d)
    BY <1>1
  <2>1. pc[e] = "publishActive" /\ bar = "up"
    BY DEF RunJob
  <2>2. /\ job[e].step # "fail" /\ (job[e].step = "verify" => vram["POOL"] = ActiveRecord)
        /\ job[e].slot = "POOL" /\ job[e].kind = "record" /\ job[e].value = ActiveRecord
    BY <1>0, <2>1 DEF ActiveLands, IInv, JobBinding, JobOf
  <2>3. CASE d = e
    <3>1. CASE JobCheck(e)
      BY <1>0, <2>1, <2>2, <3>1 DEF JobCheck, JobStep, Admits, Job
    <3>2. CASE JobMark(e)
      BY <1>0, <2>1, <2>2, <3>2 DEF JobMark, JobStep, ReadsMark, Job
    <3>3. CASE JobStore(e)
      <4>1. job'[e].step \in {"body", "commit"}
        BY <1>0, <2>2, <3>3 DEF JobStore, Job
      <4> QED
        BY <4>1
    <3>4. CASE JobCommit(e)
      <4>1. job[e].step = "commit" /\ job'[e].step = "verify"
            /\ StoreWord("POOL", "state", ActiveRecord.state)
        BY <1>0, <2>2, <3>4 DEF JobCommit, JobStep, Job
      <4>2. /\ vram["POOL"].bind = ActiveRecord.bind /\ vram["POOL"].reason = ActiveRecord.reason
            /\ vram["POOL"].sum = ActiveRecord.sum
        BY <1>0, <2>1, <2>2, <4>1 DEF IInv, Progress, BodyWords, Words
      <4>3. vram'["POOL"] = ActiveRecord
        BY <1>0, <2>1, <4>1, <4>2, RecordTypes DEF StoreWord, Record, Slots
      <4> QED
        BY <4>1, <4>3
    <3>5. CASE JobVerify(e)
      BY <1>0, <2>1, <2>2, <3>5 DEF JobVerify, JobStep, Job
    <3> QED
      BY <2>3, <3>1, <3>2, <3>3, <3>4, <3>5 DEF RunJob
  <2>4. CASE d # e
    <3>1. job'[e] = job[e]
      BY <1>0, <2>4 DEF RunJob, JobCheck, JobMark, JobStore, JobCommit, JobVerify, JobStep
    <3>2. job[d].step \in {"mark", "body", "commit"} => job[d].slot # "POOL"
      <4>1. ~At(d, PoolPcs) /\ ~At(d, ClaimPcs)
        BY <1>0, <2>1, <2>4 DEF IInv, LeaseExclusion, Alone, PoolPcs, VerifiedPcs
      <4> QED
        BY <4>1 DEF IInv, JobBinding, JobOf, NoJob, PoolPcs, VerifiedPcs, ClaimPcs
    <3>3. vram'["POOL"] = vram["POOL"]
      <4>1. CASE JobCheck(d) \/ JobVerify(d)
        BY <4>1 DEF JobCheck, JobVerify
      <4>2. CASE JobMark(d) \/ JobStore(d) \/ JobCommit(d)
        <5>1. job[d].slot # "POOL"
          BY <3>2, <4>2 DEF JobMark, JobStore, JobCommit
        <5> QED
          BY <1>0, <4>2, <5>1 DEF JobMark, JobStore, JobCommit, StoreWord, Slots
      <4> QED
        BY <4>1, <4>2 DEF RunJob
    <3> QED
      BY <2>2, <3>1, <3>3
  <2> QED
    BY <2>3, <2>4
<1>2. CASE \E d \in Calls : RequestAbort(d)
  BY <1>0, <1>2 DEF ActiveLands, RequestAbort, Goto, lockedVars, callVars, Calls
<1>3. CASE \E d \in Calls : InvalidateForAbort(d)
  BY <1>0, <1>3 DEF ActiveLands, InvalidateForAbort, Start, Goto, lockedVars, callVars, Calls
<1>4. CASE \E d \in Calls : FinishAbort(d)
  BY <1>0, <1>4 DEF ActiveLands, FinishAbort, Goto, After, NoJob, lockedVars, callVars, Calls
<1>5. CASE \E d \in ReadyCalls : ReadyClaim(d)
  BY <1>0, <1>5 DEF ActiveLands, ReadyClaim, Transition, Goto, lockedVars, callVars, Calls
<1>6. CASE \E d \in ReadyCalls : ReadyAcquire(d)
  BY <1>0, <1>6 DEF ActiveLands, ReadyAcquire, Start, Goto, lockedVars, callVars, Calls
<1>7. CASE \E d \in ReadyCalls : ReadyPublish(d)
  BY <1>0, <1>7 DEF ActiveLands, ReadyPublish, Start, Goto, After, lockedVars, callVars, Calls
<1>8. CASE \E d \in ReadyCalls : ReadyFinish(d)
  BY <1>0, <1>8 DEF ActiveLands, ReadyFinish, Transition, Goto, lockedVars, callVars, Calls
<1>9. CASE \E d \in ReadyCalls : ReadyInvalidate(d)
  BY <1>0, <1>9 DEF ActiveLands, ReadyInvalidate, GoAbort, Goto, lockedVars, callVars, Calls
<1>10. CASE \E d \in ReadyCalls : ReadyVmmRange(d)
  BY <1>0, <1>10 DEF ActiveLands, ReadyVmmRange, GoAbort, Goto, lockedVars, callVars, Calls
<1>11. CASE \E d \in ReadyCalls : ReadyStoreOwners(d)
  BY <1>0, <1>11 DEF ActiveLands, ReadyStoreOwners, Goto, lockedVars, callVars, Calls
<1>12. CASE \E d \in EnableCalls : BeginPool(d)
  BY <1>0, <1>12 DEF ActiveLands, BeginPool, Transition, Goto, lockedVars, callVars, Calls
<1>13. CASE \E d \in EnableCalls : RefusePool(d)
  BY <1>0, <1>13 DEF ActiveLands, RefusePool, GoAbort, Goto, lockedVars, callVars, Calls
<1>14. CASE \E d \in EnableCalls : NativePools(d)
  BY <1>0, <1>14 DEF ActiveLands, NativePools, PublishInvalid, Start, Goto, lockedVars, callVars, Calls
<1>15. CASE \E d \in EnableCalls : FinishPool(d)
  BY <1>0, <1>15 DEF ActiveLands, FinishPool, Start, Goto, Publish, lockedVars, callVars, Calls
<1>16. CASE \E d \in EnableCalls : ActivePublished(d)
  BY <1>0, <1>16 DEF ActiveLands, ActivePublished, Start, Goto, lockedVars, callVars, Calls
<1>17. CASE \E d \in EnableCalls : Authorize(d)
  BY <1>0, <1>17 DEF ActiveLands, Authorize, Goto, lockedVars, callVars, Calls
<1>18. CASE \E d \in EnableCalls : BeginValid(d)
  BY <1>0, <1>18 DEF ActiveLands, BeginValid, Start, Goto, lockedVars, callVars, Calls
<1>19. CASE \E d \in EnableCalls : FinishValid(d)
  BY <1>0, <1>19 DEF ActiveLands, FinishValid, Start, Goto, lockedVars, callVars, Calls
<1>20. CASE \E d \in EnableCalls : CheckGate(d)
  BY <1>0, <1>20 DEF ActiveLands, CheckGate, Goto, lockedVars, callVars, Calls
<1>21. CASE \E d \in EnableCalls : Commit(d)
  BY <1>0, <1>21 DEF ActiveLands, Commit, Transition, Goto, lockedVars, callVars, Calls
<1>22. CASE \E d \in EnableCalls : FailPool(d)
  BY <1>0, <1>22 DEF ActiveLands, FailPool, PublishInvalid, Start, Goto, lockedVars, callVars, Calls
<1>23. CASE \E d \in EnableCalls : InvalidPublished(d)
  BY <1>0, <1>23 DEF ActiveLands, InvalidPublished, Start, Goto, lockedVars, callVars, Calls
<1>24. CASE \E d \in EnableCalls : PoolInvalidate(d)
  BY <1>0, <1>24 DEF ActiveLands, PoolInvalidate, Goto, lockedVars, callVars, Calls
<1>25. CASE (\E d \in ReadyCalls : ReadyStart(d)) \/ (\E d \in EnableCalls : EnableStart(d))
  BY <1>0, <1>25 DEF ActiveLands, ReadyStart, EnableStart, Goto, GoAbort, lockedVars, Calls
<1>26. CASE LoseBar \/ Rest \/ UNCHANGED vars
  BY <1>26 DEF ActiveLands, LoseBar, Rest, vars
<1> QED
  BY <1>1, <1>2, <1>3, <1>4, <1>5, <1>6, <1>7, <1>8, <1>9, <1>10, <1>11, <1>12, <1>13, <1>14, <1>15, <1>16, <1>17, <1>18, <1>19, <1>20, <1>21, <1>22, <1>23, <1>24, <1>25, <1>26
     DEF Next, Proceed, AbortStep, ReadyStep, EnableStep

\* Steps of the enable call of a clean boot.
LEMMA EnableClean ==
  ASSUME IInv, ActiveLands, CleanPath, CleanBoot, CleanBoot', NEW c \in EnableCalls,
         EnableStep(c)
  PROVE  CleanPath'
<1>1. /\ pc \in [Calls -> Pcs] /\ c \in Calls /\ bar = "up"
      /\ owner => /\ \E r \in ReadyCalls : pc[r] = "returned"
                  /\ \A r \in ReadyCalls : pc[r] \in {"idle", "returned"}
      /\ reserved => owner
      /\ EnableAlone(c)
      /\ \A r \in ReadyCalls : r # c
  BY CallsAssumption DEF IInv, TypeOK, CleanPath, CleanBoot, At, Calls
<1>2. SUFFICES UNCHANGED owner /\ pc' = [pc EXCEPT ![c] = pc'[c]] /\ pc'[c] # "idle"
                 /\ (reserved' => owner) /\ EnableAlone(c)'
  <2> SUFFICES ASSUME UNCHANGED owner, pc' = [pc EXCEPT ![c] = pc'[c]], pc'[c] # "idle",
                      reserved' => owner, EnableAlone(c)'
               PROVE  CleanPath'
    OBVIOUS
  <2>1. \A r \in ReadyCalls : pc'[r] = pc[r]
    BY <1>1 DEF Calls
  <2>2. \A e \in EnableCalls : e # c => pc'[e] = "idle"
    BY DEF CleanBoot, OneStarted
  <2>3. \A e \in EnableCalls : EnableAlone(e)'
    <3> SUFFICES ASSUME NEW e \in EnableCalls, e # c PROVE EnableAlone(e)'
      OBVIOUS
    <3>1. pc'[e] = "idle"
      BY <2>2
    <3> QED
      BY <3>1 DEF EnableAlone, At, AbortPcs, PoolPcs, VerifiedPcs
  <2>4. ReadyAlone'
    BY DEF ReadyAlone
  <2> QED
    BY <1>1, <2>1, <2>3, <2>4 DEF CleanPath, At
<1>3. CASE BeginPool(c)
  BY <1>1, <1>3 DEF EnableAlone, At, GateNew, AbortPcs, PoolPcs, VerifiedPcs, BeginPool, Transition, Goto
<1>4. CASE RefusePool(c)
  BY <1>1, <1>4 DEF EnableAlone, At, GateNew, AbortPcs, PoolPcs, VerifiedPcs, RefusePool, GoAbort, Goto
<1>5. CASE NativePools(c)
  BY <1>1, <1>5 DEF EnableAlone, At, GateNew, AbortPcs, PoolPcs, VerifiedPcs, NativePools, PublishInvalid, Start, Goto
<1>6. CASE FinishPool(c)
  BY <1>1, <1>6 DEF EnableAlone, At, GateNew, AbortPcs, PoolPcs, VerifiedPcs, FinishPool, Start, Goto
<1>7. CASE ActivePublished(c)
  <2>1. Published(c)
    BY <1>1, <1>7 DEF ActivePublished, After, FinishedJob, Published, ActiveLands, At, CleanBoot, Calls
  <2> QED
    BY <1>1, <1>7, <2>1 DEF EnableAlone, At, GateNew, AbortPcs, PoolPcs, VerifiedPcs, ActivePublished, Start, Goto, After
<1>8. CASE Authorize(c)
  <2>1. poolReady
    BY <1>1, <1>8 DEF Authorize, IInv, RecordsKept, At, VerifiedPcs
  <2> QED
    BY <1>1, <1>8, <2>1 DEF EnableAlone, At, GateNew, AbortPcs, PoolPcs, VerifiedPcs, Authorize, Goto, lockedVars
<1>9. CASE BeginValid(c)
  BY <1>1, <1>9 DEF EnableAlone, At, GateNew, AbortPcs, PoolPcs, VerifiedPcs, BeginValid, Start, Goto
<1>10. CASE FinishValid(c)
  <2>1. Published(c)
    <3>1. job[c].kind = "valid"
      BY <1>1, <1>10 DEF FinishValid, After, IInv, JobBinding, JobOf
    <3> QED
      BY <1>1, <3>1, <1>10 DEF FinishValid, After, FinishedJob, Published, IInv, Carried, CleanBoot
  <2>2. gate \in Gate
    BY DEF IInv, TypeOK
  <2> QED
    BY <1>1, <1>10, <2>1, <2>2 DEF EnableAlone, At, GateNew, AbortPcs, PoolPcs, VerifiedPcs, FinishValid, Start, Goto, After, Gate
<1>11. CASE CheckGate(c)
  BY <1>1, <1>11 DEF EnableAlone, At, GateNew, AbortPcs, PoolPcs, VerifiedPcs, CheckGate, Goto, lockedVars
<1>12. CASE Commit(c)
  BY <1>1, <1>12 DEF EnableAlone, At, GateNew, AbortPcs, PoolPcs, VerifiedPcs, Commit, Transition, Goto
<1>13. CASE FailPool(c)
  BY <1>1, <1>13 DEF EnableAlone, At, GateNew, AbortPcs, PoolPcs, VerifiedPcs, FailPool, PublishInvalid, Start, Goto, lockedVars
<1>14. CASE InvalidPublished(c)
  BY <1>1, <1>14 DEF EnableAlone, At, GateNew, AbortPcs, PoolPcs, VerifiedPcs, InvalidPublished, Start, Goto, After
<1>15. CASE PoolInvalidate(c)
  BY <1>1, <1>15 DEF EnableAlone, At, GateNew, AbortPcs, PoolPcs, VerifiedPcs, PoolInvalidate, Goto
<1> QED
  BY <1>3, <1>4, <1>5, <1>6, <1>7, <1>8, <1>9, <1>10, <1>11, <1>12, <1>13, <1>14, <1>15 DEF EnableStep

\* Steps of the ready call of a clean boot.
LEMMA ReadyClean ==
  ASSUME IInv, ActiveLands, CleanPath, CleanBoot, CleanBoot', NEW c \in ReadyCalls,
         ReadyStep(c)
  PROVE  CleanPath'
<1>1. /\ pc \in [Calls -> Pcs] /\ c \in Calls /\ ~owner /\ ~reserved
      /\ \A e \in EnableCalls : e # c
  <2>1. pc[c] \notin {"idle", "returned"}
    BY DEF ReadyStep, ReadyClaim, ReadyAcquire, ReadyPublish, After, ReadyFinish, ReadyInvalidate,
       ReadyVmmRange, ReadyStoreOwners
  <2> QED
    BY <2>1, CallsAssumption DEF IInv, TypeOK, CleanPath, At, Calls
<1>2. /\ pc' = [pc EXCEPT ![c] = pc'[c]] /\ pc'[c] # "idle" /\ UNCHANGED <<reserved, poolPublished>>
      /\ (owner' => pc'[c] = "returned") /\ pc'[c] # "ownAbort"
  BY <1>1 DEF ReadyStep, ReadyClaim, ReadyAcquire, ReadyPublish, After, ReadyFinish, ReadyInvalidate,
       ReadyVmmRange, ReadyStoreOwners, Transition, Goto, Start, GoAbort, lockedVars
<1>3. /\ \A e \in EnableCalls : pc'[e] = pc[e]
      /\ \A r \in ReadyCalls : r # c => pc'[r] = "idle"
  BY <1>1, <1>2 DEF Calls, CleanBoot, OneStarted
<1>4. \A e \in EnableCalls : EnableAlone(e)'
  <2> SUFFICES ASSUME NEW e \in EnableCalls PROVE EnableAlone(e)'
    OBVIOUS
  <2>1. ~At(e, PoolPcs \cup {"beginPool"})
    BY <1>1 DEF CleanPath, EnableAlone
  <2> QED
    BY <1>1, <1>2, <1>3, <2>1 DEF EnableAlone, At, AbortPcs, PoolPcs, VerifiedPcs
<1>5. SUFFICES ASSUME \A e \in EnableCalls : pc[e] = "idle" PROVE ReadyAlone'
  <2>1. ASSUME ~(\A e \in EnableCalls : pc[e] = "idle") PROVE ReadyAlone'
    BY <1>3, <2>1 DEF ReadyAlone
  <2>2. ReadyAlone'
    BY <1>3, <1>5, <2>1
  <2> QED
    BY <1>1, <1>2, <1>3, <1>4, <2>2 DEF CleanPath, At
<1>6. /\ ~reserved /\ ~poolPublished
      /\ pc[c] = "claim" => GateNew
      /\ pc[c] \in ClaimPcs => GateNew /\ lease = "OwnershipPublishing"
      /\ pc[c] \in {"vmmRange", "storeOwners"} => GateNew /\ lease = "Owned"
  BY <1>5 DEF CleanPath, ReadyAlone, At
<1>7. SUFFICES /\ pc'[c] = "claim" => GateNew'
               /\ pc'[c] \in ClaimPcs => GateNew' /\ lease' = "OwnershipPublishing"
               /\ pc'[c] \in {"vmmRange", "storeOwners"} => GateNew' /\ lease' = "Owned"
               /\ owner' => GateNew' /\ lease' = "Owned"
  BY <1>1, <1>2, <1>3, <1>6 DEF ReadyAlone, At, ClaimPcs
<1>8. CASE ReadyClaim(c)
  BY <1>1, <1>6, <1>8 DEF ReadyClaim, Transition, Goto, ClaimPcs, GateNew
<1>9. CASE ReadyAcquire(c)
  BY <1>1, <1>6, <1>9 DEF ReadyAcquire, Start, Goto, lockedVars, ClaimPcs, GateNew
<1>10. CASE ReadyPublish(c)
  BY <1>1, <1>6, <1>10 DEF ReadyPublish, Start, Goto, After, ClaimPcs, GateNew
<1>11. CASE ReadyFinish(c)
  BY <1>1, <1>6, <1>11 DEF ReadyFinish, Transition, Goto, ClaimPcs, GateNew
<1>12. CASE ReadyInvalidate(c)
  BY <1>1, <1>6, <1>12 DEF ReadyInvalidate, GoAbort, Goto, ClaimPcs, GateNew
<1>13. CASE ReadyVmmRange(c)
  BY <1>1, <1>6, <1>13 DEF ReadyVmmRange, GoAbort, Goto, lockedVars, ClaimPcs, GateNew
<1>14. CASE ReadyStoreOwners(c)
  BY <1>1, <1>6, <1>14 DEF ReadyStoreOwners, Goto, ClaimPcs, GateNew
<1> QED
  BY <1>8, <1>9, <1>10, <1>11, <1>12, <1>13, <1>14 DEF ReadyStep

\* Steps of a call that aborts.
LEMMA AbortClean ==
  ASSUME IInv, ActiveLands, CleanPath, CleanBoot, CleanBoot', NEW c \in Calls,
         AbortStep(c)
  PROVE  CleanPath'
<1>1. pc \in [Calls -> Pcs] /\ ~reserved /\ pc[c] \in AbortPcs
  <2>1. pc[c] \in AbortPcs \cup {"ownAbort"}
    BY DEF AbortStep, RequestAbort, InvalidateForAbort, FinishAbort, After, AbortPcs
  <2>2. CASE c \in EnableCalls
    BY <2>1, <2>2 DEF IInv, TypeOK, CleanPath, EnableAlone, At
  <2>3. CASE c \in ReadyCalls
    <3>1. pc[c] # "ownAbort"
      BY <2>3 DEF CleanPath, At
    <3> QED
      BY <2>1, <2>3, <3>1 DEF IInv, TypeOK, CleanPath, At, AbortPcs
  <2> QED
    BY <2>2, <2>3 DEF Calls
<1>2. /\ pc' = [pc EXCEPT ![c] = pc'[c]] /\ pc'[c] \in AbortPcs \cup {"returned"}
      /\ UNCHANGED <<reserved, poolPublished, owner>>
  BY <1>1 DEF AbortStep, RequestAbort, InvalidateForAbort, FinishAbort, After, Start, Goto, AbortPcs
<1>3. CASE c \in EnableCalls
  <2>1. /\ \A r \in ReadyCalls : pc'[r] = pc[r]
        /\ \A e \in EnableCalls : e # c => pc'[e] = "idle"
    BY <1>2, <1>1, <1>3, CallsAssumption DEF CleanBoot, OneStarted, Calls, AbortPcs
  <2>2. pc'[c] # "idle"
    BY <1>2 DEF AbortPcs
  <2>3. \A e \in EnableCalls : EnableAlone(e)'
    BY <1>1, <1>2, <2>1 DEF EnableAlone, At, AbortPcs, PoolPcs, VerifiedPcs
  <2>4. ReadyAlone'
    BY <1>3, <2>2 DEF ReadyAlone
  <2> QED
    BY <1>1, <1>2, <2>1, <2>3, <2>4 DEF CleanPath, At
<1>4. CASE c \in ReadyCalls
  <2>1. ~owner
    BY <1>1, <1>4 DEF CleanPath, At, AbortPcs
  <2>2. /\ \A e \in EnableCalls : pc'[e] = pc[e]
        /\ \A r \in ReadyCalls : r # c => pc'[r] = "idle"
    BY <1>1, <1>2, <1>4, CallsAssumption DEF CleanBoot, OneStarted, Calls, AbortPcs
  <2>3. \A e \in EnableCalls : EnableAlone(e)'
    <3> SUFFICES ASSUME NEW e \in EnableCalls PROVE EnableAlone(e)'
      OBVIOUS
    <3>1. ~At(e, PoolPcs \cup {"beginPool"})
      BY <2>1 DEF CleanPath, EnableAlone
    <3> QED
      BY <1>1, <1>2, <2>2, <3>1 DEF EnableAlone, At, AbortPcs, PoolPcs, VerifiedPcs
  <2>4. ReadyAlone'
    BY <1>1, <1>2, <1>4, <2>1, <2>2 DEF CleanPath, ReadyAlone, At, AbortPcs, ClaimPcs
  <2> QED
    BY <1>1, <1>2, <1>4, <2>1, <2>2, <2>3, <2>4 DEF CleanPath, At, AbortPcs
<1> QED
  BY <1>3, <1>4 DEF Calls

LEMMA CleanPathStep == ASSUME IInv, ActiveLands, CleanPath, [Next]_vars PROVE CleanPath'
<1>1. SUFFICES ASSUME CleanBoot' PROVE CleanPath'
  BY DEF CleanPath
<1>2. CleanBoot
  BY <1>1, CleanBack
<1>3. CASE \E c \in Calls : Proceed(c)
  <2>1. CASE \E c \in Calls : RunJob(c)
    <3>1. UNCHANGED <<lockedVars, bar, pc, callVars>>
      BY <2>1 DEF RunJob
    <3> QED
      BY <1>2, <3>1 DEF CleanPath, ReadyAlone, EnableAlone, At, GateNew, lockedVars, callVars
  <2> QED
    BY <1>1, <1>2, <1>3, <2>1, AbortClean, ReadyClean, EnableClean DEF Proceed
<1>4. ASSUME NEW c \in ReadyCalls, ReadyStart(c) PROVE CleanPath'
  <2>1. /\ pc \in [Calls -> Pcs] /\ c \in Calls /\ pc[c] = "idle" /\ pc' = [pc EXCEPT ![c] = "claim"]
        /\ UNCHANGED <<lease, gate, owner, poolPublished, reserved, admitted>>
    BY <1>4 DEF IInv, TypeOK, ReadyStart, Goto, lockedVars, Calls
  <2>2. /\ \A e \in EnableCalls : pc'[e] = pc[e]
        /\ \A r \in ReadyCalls : pc[r] = "idle" /\ (r # c => pc'[r] = "idle")
    BY <1>1, <2>1, CallsAssumption DEF CleanBoot, OneStarted, Calls
  <2>3. ~owner /\ ~reserved
    BY <1>2, <2>2 DEF CleanPath, At
  <2>4. \A e \in EnableCalls : EnableAlone(e)'
    <3> SUFFICES ASSUME NEW e \in EnableCalls PROVE EnableAlone(e)'
      OBVIOUS
    <3>1. EnableAlone(e)
      BY <1>2 DEF CleanPath
    <3> QED
      BY <2>1, <2>2, <3>1 DEF EnableAlone, At, GateNew
  <2>5. ReadyAlone'
    BY <1>2, <1>4, <2>1, <2>2, <2>3 DEF CleanPath, ReadyAlone, At, GateNew, ClaimPcs
  <2> QED
    BY <2>1, <2>2, <2>3, <2>4, <2>5 DEF CleanPath, At
<1>5. ASSUME NEW c \in EnableCalls, EnableStart(c) PROVE CleanPath'
  <2>1. /\ pc \in [Calls -> Pcs] /\ c \in Calls /\ pc[c] = "idle"
        /\ \/ owner /\ pc' = [pc EXCEPT ![c] = "beginPool"]
           \/ pc' = [pc EXCEPT ![c] = "requestAbort"]
        /\ UNCHANGED <<lease, gate, owner, poolPublished, reserved, admitted>>
    BY <1>5 DEF IInv, TypeOK, EnableStart, Goto, GoAbort, lockedVars, Calls
  <2>2. /\ \A r \in ReadyCalls : pc'[r] = pc[r]
        /\ \A e \in EnableCalls : pc[e] = "idle" /\ (e # c => pc'[e] = "idle")
    BY <1>1, <2>1, CallsAssumption DEF CleanBoot, OneStarted, Calls
  <2>3. ~reserved /\ ~poolPublished /\ (owner => GateNew /\ lease = "Owned")
    BY <1>2, <2>2 DEF CleanPath, ReadyAlone
  <2>4. \A e \in EnableCalls : EnableAlone(e)'
    <3>1. EnableAlone(c)'
      BY <2>1, <2>3 DEF EnableAlone, At, GateNew, AbortPcs, PoolPcs, VerifiedPcs
    <3>2. ASSUME NEW e \in EnableCalls, e # c PROVE EnableAlone(e)'
      BY <2>2, <3>2 DEF EnableAlone, At, AbortPcs, PoolPcs, VerifiedPcs
    <3> QED
      BY <3>1, <3>2
  <2>5. ReadyAlone'
    BY <2>1 DEF ReadyAlone
  <2> QED
    BY <1>2, <2>1, <2>2, <2>3, <2>4, <2>5 DEF CleanPath, At
<1>6. CASE LoseBar \/ Rest \/ UNCHANGED vars
  <2>1. CASE LoseBar
    BY <1>1, <2>1 DEF LoseBar, CleanBoot
  <2>2. CASE Rest \/ UNCHANGED vars
    BY <1>2, <2>2 DEF Rest, vars, CleanPath, ReadyAlone, EnableAlone, At, GateNew
  <2> QED
    BY <1>6, <2>1, <2>2
<1> QED
  BY <1>3, <1>4, <1>5, <1>6 DEF Next

LEMMA CleanInvariant == Spec => [](IInv /\ ActiveLands /\ CleanPath)
<1>1. Init => ActiveLands /\ CleanPath
  BY DEF Init, ActiveLands, CleanPath, ReadyAlone, EnableAlone, At, GateNew, Calls, AbortPcs,
     PoolPcs, VerifiedPcs, ClaimPcs
<1>2. IInv /\ ActiveLands /\ CleanPath /\ [Next]_vars => (IInv /\ ActiveLands /\ CleanPath)'
  BY NextInv, ActiveLandsStep, CleanPathStep
<1> QED
  BY <1>1, <1>2, InitInv, PTL DEF Spec

\* A boot that makes one call of each kind, whose native steps succeed while the
\* BAR works, is admitted, whatever an earlier run left in the lease
\* (wrapVmmSetVSReady, wrapHwMemEnable).
THEOREM CleanBootAdmitsCorrect == Spec => []CleanBootAdmits
<1>1. IInv /\ CleanPath => CleanBootAdmits
  <2> SUFFICES ASSUME IInv, CleanPath, Quiet, reserved, CleanBoot
               PROVE  admitted # {} /\ HostAccepts
    BY DEF CleanBootAdmits, CleanBoot
  <2>1. PICK e \in EnableCalls : pc[e] # "idle"
    BY DEF CleanPath, ReadyAlone
  <2>2. e \in admitted /\ gate.phase = "Active"
    BY <2>1 DEF Quiet, Calls, CleanPath, EnableAlone, At
  <2>3. vram["LIFE"] = ValidMarker
    BY <2>2 DEF IInv, MarkerState
  <2> QED
    BY <2>2, <2>3, AcceptsMarker
<1> QED
  BY <1>1, CleanInvariant, PTL
=============================================================================
