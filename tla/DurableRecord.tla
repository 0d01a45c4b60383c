--------------------------- MODULE DurableRecord ---------------------------
(***************************************************************************)
(* The word-granular records the guest leaves in video memory for the host *)
(* (src/src/RecoveryLease.hpp, src/src/RecoveryLifetime.hpp): OWNED, POOL  *)
(* and the LIFE(time) marker.  A record is its commit word and the three   *)
(* groups of body words the readers tell apart.  The checksum word is the  *)
(* tuple of what it covers, so a record whose words come from two          *)
(* different publications does not verify; XOR collisions are abstracted.  *)
(***************************************************************************)

States  == {"zero", "OWND", "ACTV", "INVL", "VALD", "ABTG", "ABRT"}
Binds   == {"zero", "old", "new"}   \* nonce, lease span and bound checksums
Reasons == {"none", "DuplicateReady", "VmmRange", "PoolOwner", "DuplicatePool",
            "Native", "Writeback"}
Sums    == States \X Binds \X Reasons

Words     == {"state", "bind", "reason", "sum"}
BodyWords == Words \ {"state"}

Record == [state : States, bind : Binds, reason : Reasons, sum : Sums]

Blank == [state |-> "zero", bind |-> "zero", reason |-> "none",
          sum |-> <<"zero", "zero", "none">>]

Make(state, bind, reason) ==
  [state |-> state, bind |-> bind, reason |-> reason,
   sum |-> <<state, bind, reason>>]

\* The checksum word covers every other word of the record.
SumMatches(r) == r.sum = <<r.state, r.bind, r.reason>>

LifetimeReasons == {"DuplicateReady", "VmmRange", "PoolOwner", "DuplicatePool"}

\* validLifetimeEncoding: a committed marker, VALID without a reason or ABORT with one.
ValidLifetimeEncoding(r) ==
  /\ SumMatches(r)
  /\ \/ r.state = "VALD" /\ r.reason = "none"
     \/ r.state = "ABRT" /\ r.reason \in LifetimeReasons

MakeValidLifetime(bind) == Make("VALD", bind, "none")
MakeAbortLifetime(valid, reason) == Make("ABRT", valid.bind, reason)

(***************************************************************************)
(* A publication in progress.  kind is the helper that runs:               *)
(* clearRecord, publishRecord, publishValidLifetime, publishAbortLifetime. *)
(* todo holds the words of the current fence interval not yet stored; the  *)
(* stores of one interval reach video memory in any order.                 *)
(***************************************************************************)
Kinds == {"clear", "record", "valid", "abort"}
Slots == {"OWNED", "POOL", "LIFE"}
Steps == {"none", "check", "mark", "body", "commit", "verify", "ok", "fail"}
Job   == [slot : Slots, kind : Kinds, value : Record, step : Steps,
          todo : SUBSET Words]

NoJob == [slot |-> "OWNED", kind |-> "clear", value |-> Blank,
          step |-> "none", todo |-> {}]

Publish(slot, kind, value) ==
  [slot |-> slot, kind |-> kind, value |-> value, step |-> "check",
   todo |-> IF kind = "clear" THEN Words ELSE BodyWords]

\* What each helper requires of the record it finds before its first store.
Admits(j, found) ==
  CASE j.kind = "valid" -> found.state = "zero"
    [] j.kind = "abort" -> /\ ValidLifetimeEncoding(found)
                           /\ found.state = "VALD"
                           /\ found.bind = j.value.bind
    [] OTHER            -> TRUE

\* The commit word while the body is being stored.
MarkOf(j) == IF j.kind = "abort" THEN "ABTG" ELSE "zero"
\* Only the lifetime helpers read the mark back before the body.
ReadsMark(j) == j.kind \in {"valid", "abort"}

FinishedJob(j)  == j.step \in {"ok", "fail"}
RunningJob(j) == j.step \in {"check", "mark", "body", "commit", "verify"}
=============================================================================
