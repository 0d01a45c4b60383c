--------------------------- MODULE GuestRecovery ---------------------------
(***************************************************************************)
(* The guest half of crash recovery: the lease phase word, the lifetime    *)
(* gate and the durable records, driven by concurrent driver callbacks.    *)
(* A member of ReadyCalls is one invocation of wrapVmmSetVSReady, a member *)
(* of EnableCalls one of wrapHwMemEnable; each may start at any time, and  *)
(* any number may be in progress.  Every atomic operation on a shared word *)
(* and every store to video memory is a step of its own.  The guest can be *)
(* stopped by force between any two steps, so what the host would conclude *)
(* from video memory is a predicate of every reachable state.              *)
(***************************************************************************)
EXTENDS DurableRecord

CONSTANTS ReadyCalls,   \* invocations of wrapVmmSetVSReady(ready # 0)
          EnableCalls,  \* invocations of wrapHwMemEnable
          BarMayFail    \* whether access to the BAR can be lost

ASSUME CallsAssumption ==
  /\ ReadyCalls \cap EnableCalls = {}
  /\ BarMayFail \in BOOLEAN

Calls == ReadyCalls \cup EnableCalls

VARIABLES
  lease,          \* LeaseState::phase_
  gate,           \* LifetimeGate::control_: phase and first abort reason
  vram,           \* the three durable records
  bar,            \* whether stores and reads through the BAR still work
  owner,          \* recoveryLeaseMemoryOwner / recoveryLeaseHardwareOwner set
  poolPublished,  \* recoveryPoolStatusPublished
  poolReady,      \* recoveryActivePoolStatusReady
  status,         \* recoveryLifetimeStatus
  reserved,       \* native reservation made, with exact evidence from both pools
  log,            \* critical records emitted: XH2 OWNED and XH2 POOL ACTIVE
  pc,             \* where each call is
  job,            \* the publication each call is performing
  acquisitionExpected,  \* canAcquire(), read when the ready call started
  why,            \* the reason a call aborts with, or its pool reason
  admitted        \* the enable calls that returned success to the driver

vars == <<lease, gate, vram, bar, owner, poolPublished, poolReady, status,
          reserved, log, pc, job, acquisitionExpected, why, admitted>>

LeasePhases == {"Requested", "OwnershipPublishing", "Owned", "PoolInitializing",
                "PoolVerified", "Active", "Invalid"}
GatePhases  == {"Initial", "PublishingValid", "ValidAbortRequested", "Active",
                "PublishingAbort", "Aborted", "Poisoned"}
Gate == [phase : GatePhases, reason : {"none"} \cup LifetimeReasons]

ReadyPcs  == {"claim", "acquire", "clearPool", "clearLife", "publishOwned",
              "finishOwned", "readyInvalidate", "vmmRange", "storeOwners"}
EnablePcs == {"beginPool", "refusePool", "nativePools", "finishPool",
              "publishActive", "authorize", "beginValid", "publishValid",
              "ownAbort", "checkGate", "commit", "failPool", "publishInvalid",
              "poolInvalidate"}
AbortPcs  == {"requestAbort", "invalidateOnly", "invalidateThenAbort",
              "publishAbort"}
Pcs == {"idle", "returned"} \cup ReadyPcs \cup EnablePcs \cup AbortPcs

OwnedRecord  == Make("OWND", "new", "none")
ActiveRecord == Make("ACTV", "new", "none")
ValidMarker  == MakeValidLifetime("new")

(***************************************************************************)
(* What the other side of each shared word sees.                           *)
(***************************************************************************)
\* LeaseState::kiqAllowed, read by wrapKiqStart before every native start.
KiqAllowed == lease \in {"Owned", "PoolInitializing", "Active"}

\* authenticate_v3_host_kiq_lease on what a guest stopped in this state left.
\* The captured log may miss late records, so an ABORT line is no protection.
HostAccepts ==
  /\ log = {"OWNED", "POOL"}
  /\ vram["OWNED"] = OwnedRecord
  /\ vram["POOL"] = ActiveRecord
  /\ ValidLifetimeEncoding(vram["LIFE"])
  /\ vram["LIFE"].bind = "new"
  /\ vram["LIFE"].state = "VALD"

-----------------------------------------------------------------------------
\* Video memory survives resets: a previous run may have left a complete set
\* of records in the same lease, with its marker still VALID or withdrawn.
InitialVram ==
  {[s \in Slots |-> Blank]} \cup
  {[s \in Slots |-> CASE s = "OWNED" -> Make("OWND", "old", "none")
                      [] s = "POOL"  -> Make("ACTV", "old", "none")
                      [] s = "LIFE"  -> marker] :
     marker \in {MakeValidLifetime("old"), Make("ABRT", "old", "PoolOwner")}}

Init ==
  /\ lease = "Requested"
  /\ gate = [phase |-> "Initial", reason |-> "none"]
  /\ vram \in InitialVram
  /\ bar = "up"
  /\ owner = FALSE
  /\ poolPublished = FALSE
  /\ poolReady = FALSE
  /\ status = Blank
  /\ reserved = FALSE
  /\ log = {}
  /\ pc = [c \in Calls |-> "idle"]
  /\ job = [c \in Calls |-> NoJob]
  /\ acquisitionExpected = [c \in ReadyCalls |-> FALSE]
  /\ why = [c \in Calls |-> "none"]
  /\ admitted = {}

Goto(c, label) == pc' = [pc EXCEPT ![c] = label]
Start(c, label, j) == Goto(c, label) /\ job' = [job EXCEPT ![c] = j]
GoAbort(c, reason) == Goto(c, "requestAbort") /\ why' = [why EXCEPT ![c] = reason]

\* A compare-and-swap of the lease phase: one label on success, one on failure.
Transition(c, from, to, won, lost) ==
  IF lease = from THEN lease' = to /\ Goto(c, won)
                  ELSE lease' = lease /\ Goto(c, lost)

lockedVars == <<lease, gate, owner, poolPublished, poolReady, status, reserved, log>>
callVars   == <<acquisitionExpected, why, admitted>>

-----------------------------------------------------------------------------
(***************************************************************************)
(* Publications: the helpers that store a record word by word.             *)
(***************************************************************************)
JobStep(c, step) == job' = [job EXCEPT ![c].step = step]
StoreWord(s, w, v) ==
  vram' = IF bar = "up" THEN [vram EXCEPT ![s][w] = v] ELSE vram

\* fbAperture() and the helper's own precondition.
JobCheck(c) ==
  LET j == job[c] IN
  /\ j.step = "check"
  /\ JobStep(c, IF bar = "lost" \/ ~Admits(j, vram[j.slot]) THEN "fail"
                ELSE IF j.kind = "clear" THEN "body" ELSE "mark")
  /\ UNCHANGED vram

\* Commit word := 0 or ABORTING, fence, and for a marker the readback.
JobMark(c) ==
  LET j == job[c] IN
  /\ j.step = "mark"
  /\ StoreWord(j.slot, "state", MarkOf(j))
  /\ JobStep(c, IF ReadsMark(j) /\ bar = "lost" THEN "fail" ELSE "body")

\* One word of the body; the fence ends the interval with the last of them.
JobStore(c) ==
  LET j == job[c] IN
  \E w \in j.todo :
    /\ j.step = "body"
    /\ StoreWord(j.slot, w, j.value[w])
    /\ job' = [job EXCEPT ![c] = [j EXCEPT !.todo = j.todo \ {w},
                                           !.step = IF j.todo # {w} THEN "body"
                                                    ELSE IF j.kind = "clear" THEN "verify"
                                                    ELSE "commit"]]

JobCommit(c) ==
  LET j == job[c] IN
  /\ j.step = "commit"
  /\ StoreWord(j.slot, "state", j.value.state)
  /\ JobStep(c, "verify")

JobVerify(c) ==
  LET j == job[c] IN
  /\ j.step = "verify"
  /\ JobStep(c, IF bar = "up" /\ vram[j.slot] = j.value THEN "ok" ELSE "fail")
  /\ UNCHANGED vram

RunJob(c) ==
  /\ JobCheck(c) \/ JobMark(c) \/ JobStore(c) \/ JobCommit(c) \/ JobVerify(c)
  /\ UNCHANGED <<lockedVars, bar, pc, callVars>>

Published(c) == job[c].step = "ok"
\* A call waits at this label for its publication to finish.
After(c, label) == pc[c] = label /\ FinishedJob(job[c])

-----------------------------------------------------------------------------
(***************************************************************************)
(* abortRecoveryLifetime: request, invalidate the lease, publish if owner. *)
(***************************************************************************)
\* Mutant: a request that finds the gate blocked replaces the reason.
RequestAbortReplacing(c) ==
  /\ pc[c] = "requestAbort"
  /\ gate' = [phase |-> CASE gate.phase = "PublishingValid" -> "ValidAbortRequested"
                          [] gate.phase = "Active" -> "PublishingAbort"
                          [] gate.phase = "Initial" -> "Poisoned"
                          [] OTHER -> gate.phase,
              reason |-> why[c]]
  /\ Goto(c, IF gate.phase = "Active" THEN "invalidateThenAbort" ELSE "invalidateOnly")
  /\ UNCHANGED <<lease, vram, bar, owner, poolPublished, poolReady, status,
                 reserved, log, job, callVars>>

\* Mutant: a request against an active lifetime is only recorded, not owned.
RequestAbortUnowned(c) ==
  /\ pc[c] = "requestAbort"
  /\ gate' = [phase |-> CASE gate.phase = "PublishingValid" -> "ValidAbortRequested"
                          [] gate.phase = "Active" -> "PublishingAbort"
                          [] gate.phase = "Initial" -> "Poisoned"
                          [] OTHER -> gate.phase,
              reason |-> IF gate.reason = "none" THEN why[c] ELSE gate.reason]
  /\ Goto(c, "invalidateOnly")
  /\ UNCHANGED <<lease, vram, bar, owner, poolPublished, poolReady, status,
                 reserved, log, job, callVars>>

RequestAbort(c) ==
  /\ pc[c] = "requestAbort"
  /\ \/ /\ gate.phase = "PublishingValid"          \* Deferred
        /\ gate' = [phase |-> "ValidAbortRequested", reason |-> why[c]]
        /\ Goto(c, "invalidateOnly")
     \/ /\ gate.phase = "Active"                   \* Owner
        /\ gate' = [phase |-> "PublishingAbort", reason |-> why[c]]
        /\ Goto(c, "invalidateThenAbort")
     \/ /\ gate.phase = "Initial"                  \* AlreadyBlocked
        /\ gate' = [phase |-> "Poisoned", reason |-> why[c]]
        /\ Goto(c, "invalidateOnly")
     \/ /\ gate.phase \notin {"PublishingValid", "Active", "Initial"}
        /\ gate' = gate
        /\ Goto(c, "invalidateOnly")
  /\ UNCHANGED <<lease, vram, bar, owner, poolPublished, poolReady, status,
                 reserved, log, job, callVars>>

InvalidateForAbort(c) ==
  /\ lease' = "Invalid"
  /\ \/ /\ pc[c] = "invalidateOnly"
        /\ Goto(c, "returned")
        /\ job' = job
     \/ /\ pc[c] = "invalidateThenAbort"
        /\ Start(c, "publishAbort",
                 Publish("LIFE", "abort", MakeAbortLifetime(status, why[c])))
  /\ UNCHANGED <<gate, vram, bar, owner, poolPublished, poolReady, status,
                 reserved, log, callVars>>

\* finishAbortPublication, for the requester (publishAbort) and for the
\* publisher of VALID that found a deferred request (ownAbort).
FinishAbort(c) ==
  /\ \/ After(c, "publishAbort") /\ Goto(c, "returned")
     \/ After(c, "ownAbort") /\ Goto(c, "failPool")
  /\ status' = IF Published(c) THEN job[c].value ELSE status
  /\ gate' = IF gate.phase = "PublishingAbort"
             THEN [gate EXCEPT !.phase = IF Published(c) THEN "Aborted" ELSE "Poisoned"]
             ELSE gate
  /\ job' = [job EXCEPT ![c] = NoJob]
  /\ UNCHANGED <<lease, vram, bar, owner, poolPublished, poolReady, reserved,
                 log, callVars>>

AbortStep(c) == RequestAbort(c) \/ InvalidateForAbort(c) \/ FinishAbort(c)

-----------------------------------------------------------------------------
(***************************************************************************)
(* wrapVmmSetVSReady and establishBeforeVmm.                               *)
(***************************************************************************)
ReadyStart(c) ==
  /\ pc[c] = "idle"
  /\ acquisitionExpected' = [acquisitionExpected EXCEPT ![c] = lease = "Requested"]
  /\ Goto(c, "claim")
  /\ UNCHANGED <<lockedVars, vram, bar, job, why, admitted>>

\* Mutant: the claim trusts canAcquire() as read when the call started.
ReadyClaimStale(c) ==
  /\ pc[c] = "claim"
  /\ IF acquisitionExpected[c]
     THEN lease' = "OwnershipPublishing" /\ Goto(c, "acquire")
     ELSE lease' = lease /\ Goto(c, "readyInvalidate")
  /\ UNCHANGED <<gate, vram, bar, owner, poolPublished, poolReady, status,
                 reserved, log, job, callVars>>

\* beginOwnershipPublication
ReadyClaim(c) ==
  /\ pc[c] = "claim"
  /\ Transition(c, "Requested", "OwnershipPublishing", "acquire", "readyInvalidate")
  /\ UNCHANGED <<gate, vram, bar, owner, poolPublished, poolReady, status,
                 reserved, log, job, callVars>>

\* preflight, the native append and validate: private to the call that claimed.
ReadyAcquire(c) ==
  /\ pc[c] = "acquire"
  /\ \/ Goto(c, "readyInvalidate") /\ job' = job
     \/ Start(c, "clearPool", Publish("POOL", "clear", Blank))
  /\ UNCHANGED <<lockedVars, vram, bar, callVars>>

\* Mutant: the lifetime slot is not cleared before OWNED is published.
ReadyPublishUncleared(c) ==
  /\ \/ /\ After(c, "clearPool") /\ Published(c)
        /\ Start(c, "publishOwned", Publish("OWNED", "record", OwnedRecord))
        /\ log' = log
     \/ /\ After(c, "publishOwned") /\ Published(c)
        /\ Start(c, "finishOwned", NoJob)
        /\ log' = log \cup {"OWNED"}
     \/ /\ \E label \in {"clearPool", "publishOwned"} : After(c, label)
        /\ ~Published(c)
        /\ Start(c, "readyInvalidate", NoJob)
        /\ log' = log
  /\ UNCHANGED <<lease, gate, vram, bar, owner, poolPublished, poolReady, status,
                 reserved, callVars>>

\* The publish callback: clear POOL, clear LIFETIME, publish OWNED, log it.
ReadyPublish(c) ==
  /\ \/ /\ After(c, "clearPool") /\ Published(c)
        /\ Start(c, "clearLife", Publish("LIFE", "clear", Blank))
        /\ log' = log
     \/ /\ After(c, "clearLife") /\ Published(c)
        /\ Start(c, "publishOwned", Publish("OWNED", "record", OwnedRecord))
        /\ log' = log
     \/ /\ After(c, "publishOwned") /\ Published(c)
        /\ Start(c, "finishOwned", NoJob)
        /\ log' = log \cup {"OWNED"}
     \/ /\ \E label \in {"clearPool", "clearLife", "publishOwned"} : After(c, label)
        /\ ~Published(c)
        /\ Start(c, "readyInvalidate", NoJob)
        /\ log' = log
  /\ UNCHANGED <<lease, gate, vram, bar, owner, poolPublished, poolReady, status,
                 reserved, callVars>>

\* finishOwnershipPublication; nativeVmm() runs only when it succeeds.
ReadyFinish(c) ==
  /\ pc[c] = "finishOwned"
  /\ Transition(c, "OwnershipPublishing", "Owned", "vmmRange", "readyInvalidate")
  /\ UNCHANGED <<gate, vram, bar, owner, poolPublished, poolReady, status,
                 reserved, log, job, callVars>>

\* The lease is invalidated; the lifetime is aborted only if the call did not
\* expect to acquire when it started.
ReadyInvalidate(c) ==
  /\ pc[c] = "readyInvalidate"
  /\ lease' = "Invalid"
  /\ IF acquisitionExpected[c] THEN Goto(c, "returned") /\ why' = why
                               ELSE GoAbort(c, "DuplicateReady")
  /\ UNCHANGED <<gate, vram, bar, owner, poolPublished, poolReady, status,
                 reserved, log, job, acquisitionExpected, admitted>>

\* The range the native VMM took is compared with the lease and the prediction.
ReadyVmmRange(c) ==
  /\ pc[c] = "vmmRange"
  /\ \/ Goto(c, "storeOwners") /\ why' = why
     \/ GoAbort(c, "VmmRange")
  /\ UNCHANGED <<lockedVars, vram, bar, job, acquisitionExpected, admitted>>

ReadyStoreOwners(c) ==
  /\ pc[c] = "storeOwners"
  /\ owner' = TRUE
  /\ Goto(c, "returned")
  /\ UNCHANGED <<lease, gate, vram, bar, poolPublished, poolReady, status,
                 reserved, log, job, callVars>>

ReadyStep(c) ==
  \/ ReadyClaim(c) \/ ReadyAcquire(c) \/ ReadyPublish(c) \/ ReadyFinish(c)
  \/ ReadyInvalidate(c) \/ ReadyVmmRange(c) \/ ReadyStoreOwners(c)

-----------------------------------------------------------------------------
(***************************************************************************)
(* wrapHwMemEnable and establishPools.                                     *)
(***************************************************************************)
\* The owner pair and the reserve target must match; before ReadyStoreOwners
\* they cannot, afterwards they may not.
EnableStart(c) ==
  /\ pc[c] = "idle"
  /\ \/ owner /\ Goto(c, "beginPool") /\ why' = why
     \/ GoAbort(c, "PoolOwner")
  /\ UNCHANGED <<lockedVars, vram, bar, job, acquisitionExpected, admitted>>

BeginPool(c) ==
  /\ pc[c] = "beginPool"
  /\ Transition(c, "Owned", "PoolInitializing", "nativePools", "refusePool")
  /\ UNCHANGED <<gate, vram, bar, owner, poolPublished, poolReady, status,
                 reserved, log, job, callVars>>

\* ReasonDuplicateEpoch: invalidate, then the caller aborts the lifetime.
RefusePool(c) ==
  /\ pc[c] = "refusePool"
  /\ lease' = "Invalid"
  /\ GoAbort(c, "DuplicatePool")
  /\ UNCHANGED <<gate, vram, bar, owner, poolPublished, poolReady, status,
                 reserved, log, job, acquisitionExpected, admitted>>

\* Mutant: the pool status is not one-shot.
PublishInvalidAgain(c, reason) ==
  Start(c, "publishInvalid", Publish("POOL", "record", Make("INVL", "new", reason)))

PublishInvalid(c, reason) ==
  IF poolPublished
  THEN Start(c, "poolInvalidate", NoJob)
  ELSE Start(c, "publishInvalid", Publish("POOL", "record", Make("INVL", "new", reason)))

\* Mutant: the evidence of the reservation is not checked.
NativePoolsUnchecked(c) ==
  /\ pc[c] = "nativePools"
  /\ reserved' \in {TRUE, reserved}
  /\ Goto(c, "finishPool")
  /\ UNCHANGED <<lease, gate, vram, bar, owner, poolPublished, poolReady, status,
                 log, job, callVars>>

\* nativeEnable, readFree, reserve, readFree and the checks on their results.
NativePools(c) ==
  /\ pc[c] = "nativePools"
  /\ \/ reserved' = TRUE /\ Goto(c, "finishPool") /\ job' = job
     \/ reserved' = reserved /\ PublishInvalid(c, "Native")
  /\ UNCHANGED <<lease, gate, vram, bar, owner, poolPublished, poolReady, status,
                 log, callVars>>

\* finishPoolInit; publishRecoveryPoolStatus starts on success.
FinishPool(c) ==
  /\ pc[c] = "finishPool"
  /\ \/ /\ lease = "PoolInitializing"
        /\ lease' = "PoolVerified"
        /\ IF poolPublished
           THEN Start(c, "failPool", NoJob)
           ELSE Start(c, "publishActive", Publish("POOL", "record", ActiveRecord))
     \/ /\ lease # "PoolInitializing"
        /\ lease' = lease
        /\ Start(c, "failPool", NoJob)
  /\ UNCHANGED <<gate, vram, bar, owner, poolPublished, poolReady, status,
                 reserved, log, callVars>>

ActivePublished(c) ==
  /\ After(c, "publishActive")
  /\ IF Published(c)
     THEN /\ poolPublished' = TRUE
          /\ poolReady' = TRUE
          /\ log' = log \cup {"POOL"}
          /\ Start(c, "authorize", NoJob)
     ELSE /\ UNCHANGED <<poolPublished, poolReady, log>>
          /\ Start(c, "failPool", NoJob)
  /\ UNCHANGED <<lease, gate, vram, bar, owner, status, reserved, callVars>>

\* authorizeRecoveryClients: the checks on the lease come before the gate.
Authorize(c) ==
  /\ pc[c] = "authorize"
  /\ Goto(c, IF poolReady /\ lease = "PoolVerified" THEN "beginValid" ELSE "failPool")
  /\ UNCHANGED <<lockedVars, vram, bar, job, callVars>>

\* beginValidPublication
BeginValid(c) ==
  /\ pc[c] = "beginValid"
  /\ \/ /\ gate = [phase |-> "Initial", reason |-> "none"]
        /\ gate' = [gate EXCEPT !.phase = "PublishingValid"]
        /\ status' = ValidMarker
        /\ Start(c, "publishValid", Publish("LIFE", "valid", ValidMarker))
     \/ /\ gate # [phase |-> "Initial", reason |-> "none"]
        /\ UNCHANGED <<gate, status>>
        /\ Start(c, "failPool", NoJob)
  /\ UNCHANGED <<lease, vram, bar, owner, poolPublished, poolReady, reserved,
                 log, callVars>>

\* Mutant: a late VALID completion overwrites an accepted abort request.
FinishValidLate(c) ==
  /\ After(c, "publishValid")
  /\ gate' = [gate EXCEPT !.phase = IF Published(c) THEN "Active" ELSE "Poisoned"]
  /\ Start(c, IF Published(c) THEN "checkGate" ELSE "failPool", NoJob)
  /\ UNCHANGED <<lease, vram, bar, owner, poolPublished, poolReady, status,
                 reserved, log, callVars>>

\* finishValidPublication: Active, AbortOwner or Poisoned.
FinishValid(c) ==
  /\ After(c, "publishValid")
  /\ \/ /\ gate.phase = "PublishingValid" /\ Published(c)
        /\ gate' = [gate EXCEPT !.phase = "Active"]
        /\ Start(c, "checkGate", NoJob)
     \/ /\ gate.phase = "ValidAbortRequested" /\ Published(c)
        /\ gate' = [gate EXCEPT !.phase = "PublishingAbort"]
        /\ Start(c, "ownAbort",
                 Publish("LIFE", "abort", MakeAbortLifetime(ValidMarker, gate.reason)))
     \/ /\ ~(gate.phase \in {"PublishingValid", "ValidAbortRequested"} /\ Published(c))
        /\ gate' = IF gate.phase \in {"PublishingValid", "ValidAbortRequested"}
                   THEN [gate EXCEPT !.phase = "Poisoned"] ELSE gate
        /\ Start(c, "failPool", NoJob)
  /\ UNCHANGED <<lease, vram, bar, owner, poolPublished, poolReady, status,
                 reserved, log, callVars>>

CheckGate(c) ==
  /\ pc[c] = "checkGate"
  /\ Goto(c, IF gate.phase = "Active" THEN "commit" ELSE "failPool")
  /\ UNCHANGED <<lockedVars, vram, bar, job, callVars>>

\* Mutant: the compare-and-swap is a plain store.
CommitStored(c) ==
  /\ pc[c] = "commit"
  /\ lease' = "Active"
  /\ Goto(c, "returned")
  /\ admitted' = admitted \cup {c}
  /\ UNCHANGED <<gate, vram, bar, owner, poolPublished, poolReady, status,
                 reserved, log, job, acquisitionExpected, why>>

\* commitPoolPublication: the call returns success to the driver.
Commit(c) ==
  /\ pc[c] = "commit"
  /\ Transition(c, "PoolVerified", "Active", "returned", "failPool")
  /\ admitted' = IF lease = "PoolVerified" THEN admitted \cup {c} ELSE admitted
  /\ UNCHANGED <<gate, vram, bar, owner, poolPublished, poolReady, status,
                 reserved, log, job, acquisitionExpected, why>>

\* ReasonWriteback: an INVALID record, unless a record was already published.
FailPool(c) ==
  /\ pc[c] = "failPool"
  /\ PublishInvalid(c, "Writeback")
  /\ UNCHANGED <<lockedVars, vram, bar, callVars>>

InvalidPublished(c) ==
  /\ After(c, "publishInvalid")
  /\ poolPublished' = (poolPublished \/ Published(c))
  /\ Start(c, "poolInvalidate", NoJob)
  /\ UNCHANGED <<lease, gate, vram, bar, owner, poolReady, status, reserved,
                 log, callVars>>

PoolInvalidate(c) ==
  /\ pc[c] = "poolInvalidate"
  /\ lease' = "Invalid"
  /\ Goto(c, "returned")
  /\ UNCHANGED <<gate, vram, bar, owner, poolPublished, poolReady, status,
                 reserved, log, job, callVars>>

EnableStep(c) ==
  \/ BeginPool(c) \/ RefusePool(c) \/ NativePools(c) \/ FinishPool(c)
  \/ ActivePublished(c) \/ Authorize(c) \/ BeginValid(c) \/ FinishValid(c)
  \/ CheckGate(c) \/ Commit(c) \/ FailPool(c) \/ InvalidPublished(c)
  \/ PoolInvalidate(c)

-----------------------------------------------------------------------------
\* The device drops off the bus, or the cached mapping's owner changed: from
\* here fbAperture() is null, stores are lost and reads return ones.
LoseBar ==
  /\ BarMayFail
  /\ bar = "up"
  /\ bar' = "lost"
  /\ UNCHANGED <<lockedVars, vram, pc, job, callVars>>

\* No call is in progress; the driver need not make another.
Quiet == \A c \in Calls : pc[c] \in {"idle", "returned"}
Rest  == Quiet /\ UNCHANGED vars

\* A call that has started, continuing.
Proceed(c) ==
  \/ RunJob(c) \/ AbortStep(c)
  \/ c \in ReadyCalls /\ ReadyStep(c)
  \/ c \in EnableCalls /\ EnableStep(c)

Next ==
  \/ \E c \in ReadyCalls : ReadyStart(c)
  \/ \E c \in EnableCalls : EnableStart(c)
  \/ \E c \in Calls : Proceed(c)
  \/ LoseBar
  \/ Rest

Spec == Init /\ [][Next]_vars

\* A thread inside a callback keeps running; no call has to start.
FairSpec == Spec /\ \A c \in Calls : WF_vars(Proceed(c))

-----------------------------------------------------------------------------
(***************************************************************************)
(* Properties.                                                             *)
(***************************************************************************)

\* Every variable keeps its type.
TypeOK ==
  /\ lease \in LeasePhases
  /\ gate \in Gate
  /\ vram \in [Slots -> Record]
  /\ bar \in {"up", "lost"}
  /\ owner \in BOOLEAN
  /\ poolPublished \in BOOLEAN
  /\ poolReady \in BOOLEAN
  /\ status \in Record
  /\ reserved \in BOOLEAN
  /\ log \in SUBSET {"OWNED", "POOL"}
  /\ pc \in [Calls -> Pcs]
  /\ job \in [Calls -> Job]
  /\ acquisitionExpected \in [ReadyCalls -> BOOLEAN]
  /\ why \in [Calls -> {"none"} \cup LifetimeReasons]
  /\ admitted \in SUBSET EnableCalls

\* ABORTING or ABORT is in the commit word of this run's marker.
Withdrawn == vram["LIFE"].bind = "new" /\ vram["LIFE"].state \in {"ABTG", "ABRT"}

\* A guest stopped anywhere, in particular between two stores of a record or
\* over the records of an earlier run, is accepted only if both pools of this
\* boot excluded the lease and the gate let the marker be published.
AcceptedMeansExcluded ==
  HostAccepts => /\ reserved
                 /\ poolReady
                 /\ gate.phase # "Initial"

\* "Every later prefix is non-authorizing": once ABORTING reached video memory
\* no interleaving of calls, stores and stops makes the host accept again.
WithdrawnForGood == [][Withdrawn => Withdrawn' /\ ~HostAccepts']_vars

\* While a marker is withdrawn no KIQ start is admitted, whichever call
\* publishes the abort and wherever the other calls are.
WithdrawnClosesKiq == Withdrawn => ~KiqAllowed

\* The lease becomes Active only behind a marker whose readback succeeded.
ActiveBehindMarker ==
  lease = "Active" => /\ gate.phase \in {"Active", "PublishingAbort"}
                      /\ vram["LIFE"].bind = "new"
                      /\ vram["LIFE"].state = "VALD"

\* The first abort reason is the one made durable, and it is never replaced.
FirstReasonDurable ==
  /\ Withdrawn /\ vram["LIFE"].state = "ABRT" => vram["LIFE"].reason = gate.reason
  /\ \A c \in Calls :
       job[c].kind = "abort" /\ RunningJob(job[c]) => job[c].value.reason = gate.reason
FirstReasonKept == [][gate.reason # "none" => gate'.reason = gate.reason]_gate

\* At most one call stores to a record at any time: neither a second claim of
\* the lease nor a second abort owner.
OneWriter ==
  \A c, d \in Calls :
    RunningJob(job[c]) /\ RunningJob(job[d]) /\ job[c].slot = job[d].slot => c = d

\* The pool record that authorization compared with is the one in video memory,
\* for good: no later failure of any call replaces or tears it.
PoolRecordKept == poolReady => vram["POOL"] = ActiveRecord

\* What the host may act on, at every point where the guest may be stopped: accepted
\* only behind both exclusions, no KIQ beside a withdrawn marker, no Active lease
\* without a marker that read back.
AuthoritySound == AcceptedMeansExcluded /\ WithdrawnClosesKiq /\ ActiveBehindMarker

\* The records in video memory: one writer each, the authorized pool record stays,
\* the durable abort reason is the first.
RecordsSound == OneWriter /\ PoolRecordKept /\ FirstReasonDurable

\* No step takes a withdrawal or its reason back.
Irrevocable == WithdrawnForGood /\ FirstReasonKept

\* A boot with one ready call and one enable call whose native steps succeed is
\* admitted, whatever an earlier run left in the lease; other calls are idle.
OneStarted(calls) ==
  \A c, d \in calls : pc[c] # "idle" /\ pc[d] # "idle" => c = d
CleanBootAdmits ==
  Quiet /\ reserved /\ bar = "up" /\ OneStarted(ReadyCalls) /\ OneStarted(EnableCalls)
    => admitted # {} /\ HostAccepts

\* The host's contract, seen through the records in video memory.
Contract == INSTANCE RecoveryContract WITH
  marker   <- IF HostAccepts THEN "authorizing"
              ELSE IF Withdrawn THEN "withdrawn" ELSE "absent",
  excluded <- reserved,
  clients  <- admitted # {}

\* The records and the callbacks implement the contract.
ImplementsContract == Contract!Spec

\* When no call is in progress and some call had an abort accepted, the marker
\* left behind is not VALID, unless the BAR was lost before it could be changed.
AbortedWhenQuiet ==
  Quiet /\ gate.reason # "none" /\ bar = "up" => ~HostAccepts

\* An accepted abort is carried out: the marker stops being acceptable, or the
\* BAR is lost first.
AbortReachesVram ==
  (gate.reason # "none") ~> (bar = "lost" \/ [](~HostAccepts))

\* Documented: "A late invalidation after VALID starts an immutable ABORT
\* transition when BAR access remains available".
InvalidationStartsAbort ==
  Quiet /\ lease = "Invalid" /\ bar = "up" => ~HostAccepts
=============================================================================
