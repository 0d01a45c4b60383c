----------------------- MODULE GuestRecoveryInvariant -----------------------
(***************************************************************************)
(* The inductive invariant behind the safety properties of GuestRecovery:  *)
(* who may be writing which record, given the lease phase and the gate.    *)
(***************************************************************************)
EXTENDS GuestRecovery

At(c, labels) == pc[c] \in labels

\* A ready call between a successful claim and its last CAS.
ClaimPcs == {"acquire", "clearPool", "clearLife", "publishOwned", "finishOwned"}
\* An enable call that won BeginPool; those that have tried FinishPool's CAS and won.
VerifiedPcs == {"publishActive", "authorize", "beginValid", "publishValid",
                "ownAbort", "checkGate", "commit"}
PoolPcs == {"nativePools", "finishPool", "failPool", "publishInvalid",
            "poolInvalidate"} \cup VerifiedPcs
\* The call that must write ABORT.
AbortOwnerPcs == {"invalidateThenAbort", "publishAbort", "ownAbort"}

Alone(labels) ==
  \A c, d \in Calls : At(c, labels) /\ At(d, labels) => c = d

\* The phase word has one owner at a time, and never two kinds of them.
LeaseExclusion ==
  /\ Alone(ClaimPcs)
  /\ Alone(PoolPcs)
  /\ \A c, d \in Calls : ~(At(c, ClaimPcs) /\ At(d, PoolPcs))
  /\ \A c \in Calls : At(c, ClaimPcs) => lease \in {"OwnershipPublishing", "Invalid"}
  /\ \A c \in Calls : At(c, PoolPcs) => lease \in {"PoolInitializing", "PoolVerified", "Invalid"}
  /\ \A c \in Calls : At(c, VerifiedPcs) => lease \in {"PoolVerified", "Invalid"}
  /\ \A c \in Calls : At(c, {"publishAbort"}) => lease = "Invalid"

\* The gate has one owner at a time, and opens only behind a verified lease.
GateExclusion ==
  /\ Alone(AbortOwnerPcs)
  /\ \A c \in Calls : At(c, AbortOwnerPcs) => gate.phase = "PublishingAbort"
  /\ \A c \in Calls : At(c, {"publishValid"}) =>
       gate.phase \in {"PublishingValid", "ValidAbortRequested"}
  /\ \A c \in Calls : At(c, ClaimPcs) => gate.phase \in {"Initial", "Poisoned"}
  /\ lease \in {"Requested", "OwnershipPublishing", "Owned", "PoolInitializing"} =>
       gate.phase \in {"Initial", "Poisoned"}

\* Which publication belongs to which label.
JobOf(label, j) ==
  CASE label = "clearPool"      -> j.slot = "POOL" /\ j.kind = "clear" /\ j.value = Blank
    [] label = "clearLife"      -> j.slot = "LIFE" /\ j.kind = "clear" /\ j.value = Blank
    [] label = "publishOwned"   -> j.slot = "OWNED" /\ j.kind = "record" /\ j.value = OwnedRecord
    [] label = "publishActive"  -> j.slot = "POOL" /\ j.kind = "record" /\ j.value = ActiveRecord
    [] label = "publishInvalid" -> j.slot = "POOL" /\ j.kind = "record" /\ j.value.state = "INVL"
    [] label = "publishValid"   -> j.slot = "LIFE" /\ j.kind = "valid" /\ j.value = ValidMarker
    [] label \in {"publishAbort", "ownAbort"} ->
         /\ j.slot = "LIFE"
         /\ j.kind = "abort"
         /\ j.value = MakeAbortLifetime(ValidMarker, gate.reason)
    [] OTHER                    -> j = NoJob
JobBinding == \A c \in Calls : JobOf(pc[c], job[c])

\* The first reason is recorded once, by the request that closes the gate, and
\* the call that owns the abort carries it with the marker of this boot.
ReasonBinding ==
  /\ gate.phase \in {"Initial", "PublishingValid", "Active"} => gate.reason = "none"
  /\ gate.phase \in {"PublishingValid", "ValidAbortRequested", "Active"} => status = ValidMarker
  /\ \A c \in Calls : At(c, {"invalidateThenAbort"}) =>
       why[c] = gate.reason /\ status = ValidMarker

\* How far the publication of each record has come.
Progress ==
  \A c \in Calls :
    LET j == job[c] IN
    /\ j.kind = "valid" /\ j.step \in {"mark", "body", "commit"} =>
         vram["LIFE"].state = "zero"
    /\ j.kind = "abort" /\ j.step = "mark" => vram["LIFE"] = ValidMarker
    /\ j.kind = "abort" /\ j.step \in {"body", "commit"} =>
         vram["LIFE"].bind = "new" /\ vram["LIFE"].state = "ABTG"
    /\ j.kind # "clear" /\ j.step \in {"body", "commit"} /\ bar = "up" =>
         \A w \in BodyWords \ j.todo : vram[j.slot][w] = j.value[w]
    /\ j.kind # "clear" /\ j.step \in {"check", "mark"} => j.todo = BodyWords
    /\ j.kind # "clear" => j.todo \subseteq BodyWords
    /\ j.kind = "clear" => j.step \notin {"mark", "commit"}
    /\ j.step = "commit" => j.todo = {}
    /\ j.step = "ok" => vram[j.slot] = j.value

\* The marker of this boot, against the gate and the lease.
MarkerState ==
  /\ vram["LIFE"].bind = "new" => gate.phase # "Initial"
  /\ gate.phase = "Active" => vram["LIFE"] = ValidMarker
  /\ \A c \in Calls : At(c, {"invalidateThenAbort"}) => vram["LIFE"] = ValidMarker
  /\ Withdrawn =>
       /\ gate.phase \in {"PublishingAbort", "Aborted", "Poisoned"}
       /\ \A c \in Calls : ~At(c, ClaimPcs)
       /\ lease \in {"PoolVerified", "Invalid"}
       /\ vram["LIFE"].state = "ABRT" => vram["LIFE"].reason = gate.reason
  /\ \A c \in Calls : At(c, {"checkGate", "commit"}) /\ lease # "Invalid" =>
       \/ gate.phase = "Active"
       \/ \E d \in Calls : At(d, {"invalidateThenAbort"})
  /\ lease = "Active" => \/ gate.phase = "Active"
                         \/ \E d \in Calls : At(d, {"invalidateThenAbort"})

\* OWNED and POOL, once complete, stay as they are.
RecordsKept ==
  /\ \A c \in Calls : At(c, {"publishActive", "publishInvalid"}) => ~poolPublished
  /\ poolReady => /\ poolPublished
                  /\ reserved
                  /\ vram["POOL"] = ActiveRecord
                  /\ \A c \in Calls : ~At(c, ClaimPcs)
                  /\ lease \in {"PoolVerified", "Active", "Invalid"}
  /\ "POOL" \in log <=> poolReady
  /\ \A c \in Calls : At(c, PoolPcs \cup {"finishOwned"}) => "OWNED" \in log
  /\ \A c \in Calls : At(c, VerifiedPcs \cup {"finishPool"}) => reserved
  /\ \A c \in Calls : At(c, VerifiedPcs \ {"publishActive"}) => poolReady
  /\ \A c \in Calls : At(c, ClaimPcs) \/ lease = "Requested" => "POOL" \notin log
  /\ lease \in {"Owned", "PoolInitializing", "PoolVerified", "Active"} => "OWNED" \in log
  /\ "OWNED" \in log => /\ vram["OWNED"] = OwnedRecord
                        /\ \A c \in Calls : ~At(c, ClaimPcs \ {"finishOwned"})
                        /\ lease # "Requested"
  /\ gate.phase \notin {"Initial", "Poisoned"} => poolReady /\ "OWNED" \in log
  /\ vram["LIFE"].bind = "new" => poolReady /\ "OWNED" \in log

\* While the BAR works no lifetime publication fails, and an accepted abort has
\* a call that will publish it.
Carried ==
  /\ \A c \in Calls : At(c, {"publishOwned", "finishOwned"}) => vram["LIFE"].state = "zero"
  /\ "OWNED" \in log /\ gate.phase = "Initial" => vram["LIFE"].state = "zero"
  /\ \A c \in Calls :
       LET j == job[c] IN
       /\ j.kind = "valid" /\ j.step = "check" => vram["LIFE"].state = "zero"
       /\ j.kind = "abort" /\ j.step = "check" => vram["LIFE"] = ValidMarker
       /\ j.kind \in {"valid", "abort"} /\ j.step = "verify" /\ bar = "up" =>
            vram["LIFE"] = j.value
       /\ j.kind \in {"valid", "abort"} /\ j.step = "fail" => bar = "lost"
  /\ bar = "up" =>
       /\ gate.phase = "Poisoned" => vram["LIFE"].bind # "new"
       /\ gate.phase = "Aborted" => vram["LIFE"].state # "VALD"
       /\ gate.phase \in {"PublishingValid", "ValidAbortRequested"} =>
            \E c \in Calls : At(c, {"publishValid"})
       /\ gate.phase = "PublishingAbort" => \E c \in Calls : At(c, AbortOwnerPcs)

IInv == /\ TypeOK
        /\ LeaseExclusion
        /\ GateExclusion
        /\ JobBinding
        /\ ReasonBinding
        /\ Progress
        /\ MarkerState
        /\ RecordsKept
        /\ Carried
=============================================================================
