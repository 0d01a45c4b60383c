---------------------------- MODULE CriticalReplay ----------------------------
(***************************************************************************)
(* The critical record log and its way to the host.  Driver threads append *)
(* records without locks (DiagnosticRecords.hpp); one worker thread        *)
(* (criticalDumpThread) replays the published prefix over COM2 in numbered *)
(* snapshots (emitSnapshot, CriticalUart.hpp); the host asks it to stop    *)
(* with a token, resent until answered, and takes the acknowledgement as   *)
(* proof that it has everything (quiesce_critical_producer).  A write to   *)
(* the UART may stall and be cut at any byte.                              *)
(***************************************************************************)
EXTENDS CriticalCapture

CONSTANTS Producers,     \* threads that append records
          MaxAppends,    \* bound: appends of one producer
          Capacity,      \* kCriticalRecordCapacity
          ReplayLimit,   \* replays in the 180 s window (18)
          AttemptLimit,  \* replay numbers in all (64)
          TokenLength,   \* bytes of RGPUQ2\n
          RxLimit,       \* bytes the UART's receive FIFO holds
          MaxStalls,     \* bound: writes that time out
          Tolerant,      \* the manifest selects terminal-prefix
          Patience       \* whether the late deadlines outlast the exchange: the cases considered

ASSUME LimitAssumption ==
  /\ {Capacity, ReplayLimit, TokenLength, RxLimit} \subseteq Nat \ {0}
  /\ {MaxAppends, MaxStalls, AttemptLimit} \subseteq Nat
  /\ ReplayLimit < AttemptLimit /\ TokenLength <= RxLimit
  /\ Tolerant \in BOOLEAN /\ Patience \subseteq BOOLEAN

VARIABLES
  reserved,   \* reserved_: appends that took a sequence number
  slots,      \* the records, by sequence number
  dropped, truncated,
  job,        \* where each producer is in append
  appended,   \* how many it has started
  pc,         \* where the worker is
  replay,     \* its snapshot number
  sample,     \* count, dropped and truncated sampled for this snapshot
  at,         \* sequence in emitSnapshot's loop
  complete,   \* emitSnapshot returned true
  asked,      \* quiesceRequested of the worker
  final,      \* finalAttempt: it was asked before the sample
  failed, match, latched,  \* CriticalUart: failed_, quiesceMatch_, quiesceRequested_
  stalls,     \* writes that have timed out
  capture,    \* run/critical.log
  rx,         \* bytes in the UART's receive FIFO
  inflight,   \* next byte of the token the collector is sending, 0 for none
  host,       \* where the host is
  owed,       \* the log's counters when the host published its request
  receipt,    \* what the host accepted, and the capture it accepted it from
  patient     \* the deadlines of the late loop and of the host are not reached

store == <<reserved, slots, dropped, truncated, job, appended>>
uart == <<failed, match, latched>>
attempt == <<replay, sample, at, complete, asked, final>>
hostVars == <<inflight, host, owed, receipt, patient>>
vars == <<store, pc, attempt, uart, stalls, capture, rx, hostVars>>

Idle == [pc |-> "idle", seq |-> 0, cut |-> FALSE]
Record(p) == [by |-> p, n |-> appended[p], cut |-> job[p].cut]
NoRecord == [by |-> "nobody"]
Lesser(a, b) == IF a < b THEN a ELSE b
\* size(): slots taken, published or not.
Size == Lesser(reserved, Capacity)
Counters == [count |-> Size, dropped |-> dropped, truncated |-> truncated]
NoReceipt == [snap |-> 0, records |-> <<>>, capture |-> <<>>]

Init ==
  /\ reserved = 0 /\ dropped = 0 /\ truncated = 0
  /\ slots = [i \in 0..(Capacity - 1) |-> [ready |-> FALSE, record |-> NoRecord]]
  /\ job = [p \in Producers |-> Idle] /\ appended = [p \in Producers |-> 0]
  /\ pc = "boot" /\ replay = 0 /\ at = 0
  /\ sample = [count |-> 0, dropped |-> 0, truncated |-> 0]
  /\ complete = FALSE /\ asked = FALSE /\ final = FALSE
  /\ failed = FALSE /\ match = 0 /\ latched = FALSE
  /\ stalls = 0 /\ capture = <<>> /\ rx = <<>>
  /\ inflight = 0 /\ host = "run"
  /\ owed = [count |-> 0, dropped |-> 0, truncated |-> 0]
  /\ receipt = NoReceipt /\ patient \in Patience

(***************************************************************************)
(* Producers: DiagnosticRecords::append.                                   *)
(***************************************************************************)
Reserve(p) ==
  /\ job[p].pc = "idle" /\ appended[p] < MaxAppends
  /\ reserved' = reserved + 1
  /\ appended' = [appended EXCEPT ![p] = @ + 1]
  /\ \E cut \in BOOLEAN :
       job' = [job EXCEPT ![p] = [pc |-> IF reserved >= Capacity THEN "drop" ELSE "copy",
                                  seq |-> reserved, cut |-> cut]]
  /\ UNCHANGED <<slots, dropped, truncated>>

Drop(p) ==
  /\ job[p].pc = "drop"
  /\ dropped' = dropped + 1
  /\ job' = [job EXCEPT ![p] = Idle]
  /\ UNCHANGED <<reserved, slots, truncated, appended>>

\* Mutant: the slot is published before its text is there.
CopyPublishes(p) ==
  /\ job[p].pc = "copy"
  /\ slots' = [slots EXCEPT ![job[p].seq] = [ready |-> TRUE, record |-> Record(p)]]
  /\ truncated' = truncated + (IF job[p].cut THEN 1 ELSE 0)
  /\ job' = [job EXCEPT ![p].pc = "publish"]
  /\ UNCHANGED <<reserved, dropped, appended>>

Copy(p) ==
  /\ job[p].pc = "copy"
  /\ slots' = [slots EXCEPT ![job[p].seq].record = Record(p)]
  /\ truncated' = truncated + (IF job[p].cut THEN 1 ELSE 0)
  /\ job' = [job EXCEPT ![p].pc = "publish"]
  /\ UNCHANGED <<reserved, dropped, appended>>

Publish(p) ==
  /\ job[p].pc = "publish"
  /\ slots' = [slots EXCEPT ![job[p].seq].ready = TRUE]
  /\ job' = [job EXCEPT ![p] = Idle]
  /\ UNCHANGED <<reserved, dropped, truncated, appended>>

Append1(p) ==
  /\ Reserve(p) \/ Drop(p) \/ Copy(p) \/ Publish(p)
  /\ UNCHANGED <<pc, attempt, uart, stalls, capture, rx, hostVars>>

(***************************************************************************)
(* The UART.  A write ends well or is cut after any byte, which latches    *)
(* failed_ and silences it until it is initialised again.  A byte that the *)
(* FIFO reset of that initialisation discards is a byte cut here.  A port  *)
(* that fails initialize() is gone for good, and not modelled after boot.  *)
(***************************************************************************)
Write(line) ==
  \/ capture' = Append(capture, Written(line, "full", "nl")) /\ UNCHANGED <<failed, stalls>>
  \/ /\ stalls < MaxStalls
     /\ stalls' = stalls + 1 /\ failed' = TRUE
     /\ \/ UNCHANGED capture
        \/ \E p \in {<<"short", "open">>, <<"part", "open">>, <<"full", "open">>, <<"full", "cr">>} :
             capture' = Append(capture, Written(line, p[1], p[2]))

\* CR and perhaps LF: the end of a line that was cut, or a line with nothing on it.
Delimited(lf) ==
  IF capture = <<>> \/ Terminated(Last(capture))
  THEN Append(capture, Written(Blank, "short", IF lf THEN "nl" ELSE "cr"))
  ELSE [capture EXCEPT ![Len(capture)].end =
          IF ~lf THEN "cr" ELSE IF @ = "open" THEN "nl" ELSE "crcr"]

\* beginSnapshot, which has just cleared failed_.
Begin ==
  \/ capture' = Delimited(TRUE) /\ UNCHANGED <<failed, stalls>>
  \/ /\ stalls < MaxStalls
     /\ stalls' = stalls + 1 /\ failed' = TRUE
     /\ \E cr \in BOOLEAN : capture' = IF cr THEN Delimited(FALSE) ELSE capture

\* initialize(): the FIFO reset also throws a half-received token away.
Reinitialise ==
  /\ failed' = FALSE
  /\ rx' = <<>> /\ match' = IF latched THEN match ELSE 0

\* Mutant: every byte is compared with the start of the token.
MatchedForgets(m, b) == IF b = 1 THEN 1 ELSE 0

\* One byte at a time against the token; the rest stays in the FIFO.
Matched(m, b) == IF b = m + 1 THEN b ELSE IF b = 1 THEN 1 ELSE 0
Progress == [i \in 0..Len(rx) |->
  LET f[k \in 0..i] == IF k = 0 THEN match ELSE Matched(f[k - 1], rx[k]) IN f[i]]
Poll ==
  IF latched THEN UNCHANGED <<rx, match, latched>>
  ELSE LET done == {i \in 1..Len(rx) : Progress[i] = TokenLength}
       IN IF done = {}
          THEN rx' = <<>> /\ match' = Progress[Len(rx)] /\ UNCHANGED latched
          ELSE LET i == CHOOSE i \in done : \A j \in done : i <= j
               IN rx' = SubSeq(rx, i + 1, Len(rx)) /\ match' = 0 /\ latched' = TRUE

(***************************************************************************)
(* The worker: criticalDumpThread.                                         *)
(***************************************************************************)
Late == replay >= ReplayLimit
AskedNow == asked' = (asked \/ latched')

\* initialize and writeReady, or the end of the thread.
Boot ==
  /\ pc = "boot"
  /\ \/ pc' = "top" /\ UNCHANGED stalls
     \/ stalls < MaxStalls /\ stalls' = stalls + 1 /\ pc' = "done"
  /\ UNCHANGED <<attempt, uart, capture, rx>>

\* A failed UART is set up again before the next attempt.
Retry ==
  /\ pc = "top" /\ failed /\ (Late => asked)
  /\ Reinitialise
  /\ UNCHANGED <<pc, attempt, latched, stalls, capture>>

Top ==
  /\ pc = "top" /\ ~Late /\ ~failed
  /\ Poll /\ AskedNow /\ final' = asked'
  /\ pc' = "count"
  /\ UNCHANGED <<replay, sample, at, complete, failed, stalls, capture>>

LatePoll ==
  /\ pc = "top" /\ Late /\ ~asked /\ rx # <<>>
  /\ Poll /\ AskedNow
  /\ UNCHANGED <<pc, replay, sample, at, complete, final, failed, stalls, capture>>

LateTop ==
  /\ pc = "top" /\ Late /\ asked /\ ~failed /\ replay < AttemptLimit
  /\ final' = TRUE /\ pc' = "count"
  /\ UNCHANGED <<replay, sample, at, complete, asked, uart, stalls, capture, rx>>

Count ==
  /\ pc = "count"
  /\ sample' = [sample EXCEPT !.count = Size]
  /\ pc' = "dropped"
  /\ UNCHANGED <<replay, at, complete, asked, final, uart, stalls, capture, rx>>

Dropped ==
  /\ pc = "dropped"
  /\ sample' = [sample EXCEPT !.dropped = dropped]
  /\ pc' = "truncated"
  /\ UNCHANGED <<replay, at, complete, asked, final, uart, stalls, capture, rx>>

Truncated ==
  /\ pc = "truncated"
  /\ sample' = [sample EXCEPT !.truncated = truncated]
  /\ pc' = "begin"
  /\ UNCHANGED <<replay, at, complete, asked, final, uart, stalls, capture, rx>>

BeginSnapshot ==
  /\ pc = "begin"
  /\ Begin
  /\ at' = 0 /\ complete' = FALSE /\ pc' = "preflight"
  /\ UNCHANGED <<replay, sample, asked, final, match, latched, rx>>

Preflight ==
  /\ pc = "preflight"
  /\ IF at = sample.count
     THEN at' = 0 /\ pc' = "emit"
     ELSE IF slots[at].ready THEN at' = at + 1 /\ UNCHANGED pc
     ELSE UNCHANGED at /\ pc' = "after"
  /\ UNCHANGED <<replay, sample, complete, asked, final, uart, stalls, capture, rx>>

Replayed == [i \in 1..sample.count |-> slots[i - 1].record]
NextLine == IF at < sample.count THEN Chunk(replay, at, slots[at].record)
            ELSE End(replay, sample.count, sample.dropped, sample.truncated, Replayed)

\* Mutant: a failed write does not silence the UART.
EmitUnlatched ==
  /\ pc = "emit"
  /\ Write(NextLine)
  /\ IF at < sample.count THEN at' = at + 1 /\ UNCHANGED <<complete, pc>>
     ELSE complete' = TRUE /\ pc' = "after" /\ UNCHANGED at
  /\ UNCHANGED <<replay, sample, asked, final, match, latched, rx>>

\* One line and then the manifest; a latched failure swallows them.
Emit ==
  /\ pc = "emit"
  /\ IF failed THEN UNCHANGED <<failed, stalls, capture>> ELSE Write(NextLine)
  /\ IF at < sample.count THEN at' = at + 1 /\ UNCHANGED <<complete, pc>>
     ELSE complete' = TRUE /\ pc' = "after" /\ UNCHANGED at
  /\ UNCHANGED <<replay, sample, asked, final, match, latched, rx>>

\* Mutant: a snapshot that was never emitted is acknowledged.
AfterIncomplete ==
  /\ pc = "after"
  /\ IF Late THEN UNCHANGED <<asked, rx, match, latched>> ELSE Poll /\ AskedNow
  /\ pc' = IF final /\ ~failed THEN "checkCount" ELSE "pause"
  /\ UNCHANGED <<replay, sample, at, complete, final, failed, stalls, capture>>

\* The main loop looks at the token once more, for the next attempt.
After ==
  /\ pc = "after"
  /\ IF Late THEN UNCHANGED <<asked, rx, match, latched>> ELSE Poll /\ AskedNow
  /\ pc' = IF final /\ complete /\ ~failed THEN "checkCount" ELSE "pause"
  /\ UNCHANGED <<replay, sample, at, complete, final, failed, stalls, capture>>

\* criticalSnapshotCaughtUp, its arguments loaded in order.
Compare(label, field, next) ==
  /\ pc = label
  /\ pc' = IF sample[field] = Counters[field] THEN next ELSE "pause"
  /\ UNCHANGED <<attempt, uart, stalls, capture, rx>>

\* Mutant: truncation since the sample is not noticed.
CheckLosesTruncation == \/ Compare("checkCount", "count", "checkDropped")
                        \/ Compare("checkDropped", "dropped", "ack")

Check == \/ Compare("checkCount", "count", "checkDropped")
         \/ Compare("checkDropped", "dropped", "checkTruncated")
         \/ Compare("checkTruncated", "truncated", "ack")

Acknowledge ==
  /\ pc = "ack"
  /\ Write(Ack(replay, sample.count))
  /\ pc' = IF failed' THEN "pause" ELSE "done"
  /\ UNCHANGED <<attempt, match, latched, rx>>

\* The ten seconds between replays are spent listening.
PausePoll ==
  /\ pc = "pause" /\ ~Late /\ ~asked /\ rx # <<>>
  /\ Poll /\ AskedNow
  /\ UNCHANGED <<pc, replay, sample, at, complete, final, failed, stalls, capture>>

Resume ==
  /\ pc = "pause"
  /\ replay' = replay + 1
  /\ pc' = "top"
  /\ UNCHANGED <<sample, at, complete, asked, final, uart, stalls, capture, rx>>

\* The 180 s are over: on to the late loop.
WindowEnds ==
  /\ pc \in {"top", "pause", "count"} /\ ~Late
  /\ replay' = ReplayLimit /\ pc' = "top"
  /\ UNCHANGED <<sample, at, complete, asked, final, uart, stalls, capture, rx>>

GiveUp ==
  /\ pc = "top" /\ Late
  /\ replay >= AttemptLimit \/ ~patient
  /\ pc' = "done"
  /\ UNCHANGED <<attempt, uart, stalls, capture, rx>>

Work == Boot \/ Retry \/ Top \/ LatePoll \/ LateTop \/ Count \/ Dropped \/ Truncated
        \/ BeginSnapshot \/ Preflight \/ Emit \/ After \/ Check \/ Acknowledge
        \/ PausePoll \/ Resume
Worker == (Work \/ WindowEnds \/ GiveUp) /\ UNCHANGED <<store, hostVars>>

(***************************************************************************)
(* The host: experiment.py and the collector, sercat.py.                   *)
(***************************************************************************)
PublishRequest ==
  /\ host = "run"
  /\ host' = "waiting" /\ owed' = Counters
  /\ UNCHANGED <<inflight, receipt, patient, capture, rx>>

SendToken ==
  /\ host = "waiting" /\ inflight = 0
  /\ inflight' = 1
  /\ UNCHANGED <<host, owed, receipt, patient, capture, rx>>

DeliverByte ==
  /\ inflight # 0 /\ Len(rx) < RxLimit
  /\ rx' = Append(rx, inflight)
  /\ inflight' = IF inflight = TokenLength THEN 0 ELSE inflight + 1
  /\ UNCHANGED <<host, owed, receipt, patient, capture>>

\* quiesce_critical_producer reads the whole capture each time.
ReadCapture ==
  /\ host = "waiting"
  /\ LET state == QuiescedState(capture)
         got == Replay(capture)
         ack == capture[LastLine(capture)].line
     IN /\ state \in {"conflicting", "valid"}
        /\ IF state = "valid" /\ Accepts(capture, Tolerant)
              /\ ack.snap = got.snap /\ ack.count = Len(got.records)
           THEN /\ host' = "receipt"
                /\ receipt' = [snap |-> got.snap, records |-> got.records,
                               capture |-> capture]
           ELSE host' = "error" /\ UNCHANGED receipt
  /\ UNCHANGED <<inflight, owed, patient, capture, rx>>

Missed ==
  /\ host = "waiting" /\ ~patient
  /\ host' = "missed"
  /\ UNCHANGED <<inflight, owed, receipt, patient, capture, rx>>

Host == /\ \/ PublishRequest \/ SendToken \/ DeliverByte \/ ReadCapture \/ Missed
        /\ UNCHANGED <<store, pc, attempt, uart, stalls>>

Next == (\E p \in Producers : Append1(p)) \/ Worker \/ Host

Spec == Init /\ [][Next]_vars

\* Every thread is scheduled, the collector sends and the host reads.
FairSpec ==
  /\ Spec
  /\ \A p \in Producers : WF_vars(Append1(p))
  /\ WF_vars(Work /\ UNCHANGED <<store, hostVars>>)
  /\ WF_vars(SendToken /\ UNCHANGED <<store, pc, attempt, uart, stalls>>)
  /\ WF_vars(DeliverByte /\ UNCHANGED <<store, pc, attempt, uart, stalls>>)
  /\ WF_vars(ReadCapture /\ UNCHANGED <<store, pc, attempt, uart, stalls>>)

(***************************************************************************)
(* Properties.                                                             *)
(***************************************************************************)
WorkerPcs == {"boot", "top", "count", "dropped", "truncated", "begin", "preflight", "emit",
              "after", "checkCount", "checkDropped", "checkTruncated", "ack", "pause", "done"}
Hosts == {"run", "waiting", "receipt", "error", "missed"}
RecordType == [by : Producers, n : 1..MaxAppends, cut : BOOLEAN] \cup {NoRecord}

\* Every counter, index and label stays in range: a snapshot never samples more
\* records than the log holds, a producer writes only a slot that exists and is
\* its own, and the token matcher never runs past the token.
TypeOK ==
  /\ {reserved, dropped, truncated} \subseteq Nat /\ dropped + truncated <= reserved
  /\ slots \in [0..(Capacity - 1) -> [ready : BOOLEAN, record : RecordType]]
  /\ \A p \in Producers :
       /\ job[p].pc \in {"idle", "drop", "copy", "publish"} /\ appended[p] \in 0..MaxAppends
       /\ job[p].pc \in {"copy", "publish"} => job[p].seq \in DOMAIN slots
                                                  /\ ~slots[job[p].seq].ready
  /\ pc \in WorkerPcs /\ replay \in 0..AttemptLimit /\ sample.count \in 0..Capacity
  /\ at \in 0..sample.count
  /\ {complete, asked, final, failed, latched} \subseteq BOOLEAN
  /\ match \in 0..(TokenLength - 1) /\ Len(rx) <= RxLimit /\ inflight \in 0..TokenLength
  /\ host \in Hosts /\ stalls \in 0..MaxStalls

\* When the host takes the acknowledgement (quiesce_critical_producer), the
\* accepted snapshot holds every record that had a sequence number when the
\* request was published, each as its producer wrote it and none cut short,
\* and no record had been dropped by then.
AckFresh ==
  receipt # NoReceipt =>
    /\ owed.count <= Len(receipt.records) /\ owed.dropped = 0
    /\ \A i \in DOMAIN receipt.records :
         /\ slots[i - 1].ready /\ slots[i - 1].record = receipt.records[i]
         /\ ~receipt.records[i].cut

\* A manifest that reached the host in full, terminated or not, has every chunk
\* it counts before it, whole, each the record that was published in that slot
\* (emitSnapshot preflight, the failure latch of CriticalUart).
EndMeansWhole ==
  \A i \in DOMAIN capture :
    LET e == capture[i].line
    IN e.kind = "end" /\ capture[i].text = "full" =>
         \A r \in 0..(e.count - 1) :
           /\ slots[r].ready /\ e.digest[r + 1] = slots[r].record
           /\ \E j \in 1..(i - 1) : capture[j] = Written(Chunk(e.snap, r, slots[r].record), "full", "nl")

\* Whatever is cut, the parser's fatal conflicts never happen: snapshot numbers
\* do not go back, no line contradicts another, and a later complete snapshot
\* extends an earlier one.
CaptureConsistent ==
  /\ Ordered(capture) /\ Agreeing(capture)
  /\ \A s, t \in Finished(capture) :
       s < t => IsPrefix(Records(capture, s), Records(capture, t))

\* The receipt says the producer acknowledged and stopped replay
\* (tools/experiment.py:1301): nothing writes to COM2 any more, and the capture
\* verify_quiesced_capture sees after the run is the one that was accepted.
ReceiptMeansStopped == receipt # NoReceipt => pc = "done" /\ capture = receipt.capture

\* Without stalls the exchange fails only on a log that really lost something.
CleanHandshake == host = "error" => dropped + truncated > 0

\* What the host accepted stands, also where an acknowledgement that was cut
\* before its line end is ended by the delimiter of the next attempt and the
\* replay goes on (CriticalUart beginSnapshot): the accepted snapshot stays in
\* the capture and says what the receipt holds, so later ones only extend it.
ReceiptStands ==
  receipt # NoReceipt =>
    receipt.snap \in Finished(capture) /\ Records(capture, receipt.snap) = receipt.records

\* The captured text is what the log said, whole and free of contradictions, wherever a
\* write was cut, and keeps what was accepted of it.
CaptureSound == EndMeansWhole /\ CaptureConsistent /\ ReceiptStands

\* An exchange that ends in a receipt ended the replay; one that fails names a real loss.
HandshakeSound == ReceiptMeansStopped /\ CleanHandshake

\* Once the log is quiet, a request is answered: the token gets through, the
\* worker takes a fresh snapshot and the host sees the acknowledgement, if an
\* attempt is left (criticalDumpThread, sercat send_quiesce_if_requested).
Quiet == \A p \in Producers : job[p].pc = "idle" /\ appended[p] = MaxAppends
Answered == (host = "waiting" /\ patient /\ Quiet /\ replay + 1 < AttemptLimit) ~> (host # "waiting")
=============================================================================
