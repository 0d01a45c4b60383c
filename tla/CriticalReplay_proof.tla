------------------------ MODULE CriticalReplay_proof ------------------------
(***************************************************************************)
(* Proofs about CriticalReplay, for every number of producers and appends, *)
(* every capacity, token and FIFO that LimitAssumption admits, and every   *)
(* number of writes that stall.                                            *)
(*                                                                         *)
(* The argument follows a record to the host.  A slot has one writer until *)
(* it is published and none after (Discipline), so a line on the wire says *)
(* for ever what the log says (Truthful).  The lines come in the order of  *)
(* their snapshots (Numbered, Current), and since a write that stalls      *)
(* silences the UART, a manifest that arrived whole has every chunk before *)
(* it (EndsWhole).  A request precedes what it causes (Requested), the     *)
(* final snapshot is sampled after it (Answerable), and an acknowledgement *)
(* names such a snapshot, ended in the capture (Acked).  What the host     *)
(* accepts as fresh follows from these alone.  While no write stalls, the  *)
(* further invariant Smooth shows that it also accepts the last word.      *)
(***************************************************************************)
EXTENDS CriticalReplay, FiniteSetTheorems, SequenceTheorems, WellFoundedInduction, TLAPS

(***************************************************************************)
(* The inductive invariant.                                                *)
(***************************************************************************)

\* The kinds of values.  A line of the capture is one of four shapes.
RealRecord == [by : Producers, n : 1..MaxAppends, cut : BOOLEAN]
ChunkLine == [kind : {"chunk"}, snap : Nat, rec : Nat, record : RecordType]
EndLine   == [kind : {"end"}, snap : Nat, count : Nat, dropped : Nat, truncated : Nat,
              digest : Seq(RecordType)]
AckLine   == [kind : {"ack"}, snap : Nat, count : Nat]
Line      == ChunkLine \cup EndLine \cup AckLine \cup {Blank}
Physical  == [line : Line, text : {"full", "part", "short"}, end : {"open", "cr", "nl", "crcr"}]
\* A sample of the log's counters.
CounterType == [count : 0..Capacity, dropped : Nat, truncated : Nat]

\* The log, the worker, the UART and the host hold values of their kind.
StoreKinds ==
  /\ reserved \in Nat /\ dropped \in Nat /\ truncated \in Nat
  /\ slots \in [0..(Capacity - 1) -> [ready : BOOLEAN, record : RecordType]]
  /\ job \in [Producers -> [pc : {"idle", "drop", "copy", "publish"}, seq : Nat, cut : BOOLEAN]]
  /\ appended \in [Producers -> 0..MaxAppends]
WorkerKinds ==
  /\ pc \in WorkerPcs /\ replay \in 0..AttemptLimit
  /\ sample \in CounterType /\ at \in 0..sample.count
  /\ {complete, asked, final, failed} \subseteq BOOLEAN
UartKinds ==
  /\ latched \in BOOLEAN /\ match \in 0..(TokenLength - 1)
  /\ rx \in Seq(1..TokenLength) /\ Len(rx) <= RxLimit
  /\ stalls \in 0..MaxStalls /\ capture \in Seq(Physical)
HostKinds ==
  /\ inflight \in 0..TokenLength /\ host \in Hosts /\ owed \in CounterType

\* A producer between its reservation and its publication.
Holding(p) == job[p].pc \in {"copy", "publish"}
\* A slot has one writer until it is published, and none after.
Discipline ==
  /\ \A p \in Producers : Holding(p) => /\ job[p].seq < reserved /\ job[p].seq < Capacity
                                        /\ ~slots[job[p].seq].ready
                                        /\ appended[p] # 0
  /\ \A p, q \in Producers : Holding(p) /\ Holding(q) /\ job[p].seq = job[q].seq => p = q
  /\ \A r \in DOMAIN slots : slots[r].ready => r < reserved /\ slots[r].record \in RealRecord
  /\ \A p \in Producers : job[p].pc = "publish" => slots[job[p].seq].record \in RealRecord
\* A record that was cut is counted before it is published.
CutCounted == \A r \in DOMAIN slots : slots[r].record \in RealRecord /\ slots[r].record.cut => truncated > 0

\* An append that has still to be counted as dropped or as cut.
Pending == {p \in Producers : job[p].pc \in {"drop", "copy"}}
\* Every dropped or cut append, counted or still to be counted, took a number.
Counted == IsFiniteSet(Pending) /\ dropped + truncated + Cardinality(Pending) <= reserved

\* What the worker sampled is not ahead of the log, and what it emits is published.
Sampled ==
  /\ sample.count <= Size /\ sample.dropped <= dropped /\ sample.truncated <= truncated
  /\ pc \in {"count", "dropped", "truncated", "begin", "preflight", "emit", "after", "checkCount",
             "checkDropped", "checkTruncated", "ack", "pause"} => replay < AttemptLimit
  /\ pc \in {"count", "dropped", "truncated", "begin"} => ~failed
  /\ pc = "preflight" => \A r \in 0..(at - 1) : slots[r].ready
  /\ pc = "emit" => \A r \in 0..(sample.count - 1) : slots[r].ready

\* A chunk repeats a published slot; a manifest counts published slots and digests them.
Replayable(l) ==
  /\ l.kind = "chunk" =>
       /\ l.rec \in DOMAIN slots /\ slots[l.rec].ready /\ l.record = slots[l.rec].record
  /\ l.kind = "end" =>
       /\ l.count <= sample.count
       /\ l.dropped <= dropped /\ l.truncated <= truncated
       /\ \A r \in 0..(l.count - 1) : slots[r].ready
       /\ l.digest = [i \in 1..l.count |-> slots[i - 1].record]
Truthful == \A i \in DOMAIN capture : Replayable(capture[i].line)

\* Lines that belong to a snapshot, and what one says of a later one.
IsRecord(l) == l.kind \in {"chunk", "end"}
Follows(k, l) ==
  /\ k.snap <= l.snap
  /\ k.kind = "end" => k.snap < l.snap
  /\ k.kind = "end" /\ l.kind = "end" => k.count <= l.count
  /\ k.kind = "chunk" /\ l.kind = "end" /\ k.snap = l.snap => k.rec < l.count
Numbered ==
  \A i, j \in DOMAIN capture :
    i < j /\ IsRecord(capture[i].line) /\ IsRecord(capture[j].line)
      => Follows(capture[i].line, capture[j].line)

\* Where the worker has written nothing of its snapshot yet.
Fresh == {"boot", "top", "count", "dropped", "truncated", "begin", "preflight"}
\* No line is ahead of the worker, and a line of its snapshot is one it has passed.
InSnapshot(l) ==
  /\ l.snap <= replay
  /\ pc \in Fresh => l.snap < replay
  /\ l.snap = replay /\ pc # "done" =>
       IF l.kind = "chunk" THEN l.rec < (IF pc = "emit" THEN at ELSE sample.count)
       ELSE /\ pc # "emit"
            /\ l.count = sample.count /\ l.dropped = sample.dropped /\ l.truncated = sample.truncated
Current == \A i \in DOMAIN capture : IsRecord(capture[i].line) => InSnapshot(capture[i].line)

\* A line that arrived as it was written, and a chunk among the first n lines.
Whole(p) == p.text = "full" /\ p.end = "nl"
HasChunk(n, s, r) ==
  \E j \in 1..n : Whole(capture[j]) /\ capture[j].line = Chunk(s, r, slots[r].record)
\* A manifest in full text has its chunks before it, and so will the one being emitted.
EndsWhole ==
  /\ \A i \in DOMAIN capture : capture[i].line.kind = "end" /\ capture[i].text = "full" =>
       \A r \in 0..(capture[i].line.count - 1) : HasChunk(i - 1, capture[i].line.snap, r)
  /\ pc = "emit" /\ ~failed => \A r \in 0..(at - 1) : HasChunk(Len(capture), replay, r)

\* The manifest of a snapshot is in the capture.
HasEnd(s) == \E j \in DOMAIN capture : /\ Whole(capture[j]) /\ capture[j].line.kind = "end"
                                       /\ capture[j].line.snap = s
\* The worker compares and acknowledges only a snapshot whose manifest it has written.
Emitted ==
  /\ pc = "preflight" => ~complete
  /\ pc = "after" /\ complete /\ ~failed => HasEnd(replay)
  /\ pc \in {"checkCount", "checkDropped", "checkTruncated", "ack"} => HasEnd(replay) /\ final /\ ~failed

\* Nothing of a request is seen before the host published it.
Requested == rx # <<>> \/ inflight # 0 \/ latched \/ asked \/ final => host # "run"
\* None of the first n records was cut short.
NoneCut(n) == \A r \in 0..(n - 1) : ~slots[r].record.cut
\* A final attempt samples each counter after the request was published.
Answerable ==
  /\ owed.count <= Size /\ owed.dropped <= dropped
  /\ final /\ pc \in {"dropped", "truncated", "begin", "preflight", "emit", "after", "checkCount",
                      "checkDropped", "checkTruncated", "ack"} => owed.count <= sample.count
  /\ final /\ pc \in {"truncated", "begin", "preflight", "emit", "after", "checkCount",
                      "checkDropped", "checkTruncated", "ack"} => owed.dropped <= sample.dropped
  /\ pc = "ack" => (sample.truncated = 0 => NoneCut(sample.count))
\* A manifest of the acknowledged snapshot covers the request.
Acknowledges(a, e) ==
  e.kind = "end" /\ e.snap = a.snap =>
    /\ e.count = a.count /\ owed.dropped <= e.dropped
    /\ e.truncated = 0 => NoneCut(e.count)
\* An acknowledgement on the wire answers the request, by a snapshot the worker has left.
Acked ==
  \A i \in DOMAIN capture : LET a == capture[i].line IN a.kind = "ack" =>
    /\ host # "run" /\ owed.count <= a.count /\ HasEnd(a.snap)
    /\ a.snap < replay \/ pc \in {"pause", "done"}
    /\ \A j \in DOMAIN capture : Acknowledges(a, capture[j].line)

\* What the host accepted.
Received ==
  /\ receipt # NoReceipt => /\ host = "receipt"
                           /\ receipt.records \in Seq(RecordType) /\ Len(receipt.records) <= Capacity
  /\ AckFresh

StoreInv == StoreKinds /\ Discipline /\ CutCounted /\ Counted
\* The inductive invariant.
IInv ==
  /\ StoreInv /\ WorkerKinds /\ UartKinds /\ HostKinds /\ Sampled /\ Truthful /\ Numbered
  /\ Current /\ EndsWhole /\ Emitted /\ Requested /\ Answerable /\ Acked /\ Received

\* While no write stalls every line ends well, every snapshot is ended before the
\* worker leaves it, and an acknowledgement is the last word.
Smooth ==
  /\ ~failed
  /\ \A i \in DOMAIN capture : capture[i].end = "nl" /\ (capture[i].line # Blank => capture[i].text = "full")
  /\ \A i \in DOMAIN capture : capture[i].line.kind = "chunk" =>
       HasEnd(capture[i].line.snap) \/ (pc = "emit" /\ capture[i].line.snap = replay)
  /\ \A i \in DOMAIN capture : capture[i].line.kind = "ack" =>
       /\ i = Len(capture) /\ pc = "done"
       /\ \A j \in DOMAIN capture : IsRecord(capture[j].line) => capture[j].line.snap <= capture[i].line.snap

-----------------------------------------------------------------------------
(***************************************************************************)
(* The token matcher.                                                      *)
(***************************************************************************)

\* A set of numbers has a least member.
LEMMA LeastMember ==
  ASSUME NEW T, T \subseteq Nat, T # {}
  PROVE  \E i \in T : \A j \in T : i <= j
<1>1. \E x \in T : \A y \in T : ~(<<y, x>> \in OpToRel(<, Nat))
  BY NatLessThanWellFounded, WFMin
<1>2. PICK x \in T : \A y \in T : ~(<<y, x>> \in OpToRel(<, Nat))
  BY <1>1
<1>3. \A y \in T : x <= y
  <2> SUFFICES ASSUME NEW y \in T, y < x PROVE FALSE
    OBVIOUS
  <2>1. <<y, x>> \in OpToRel(<, Nat)
    BY DEF OpToRel
  <2> QED
    BY <1>2, <2>1
<1> QED
  BY <1>3

\* The matcher stays inside the token whatever bytes it reads (pollQuiesce).
LEMMA Scan ==
  ASSUME NEW T \in Nat \ {0}, NEW bytes \in Seq(1..T), NEW m \in 0..T, NEW i \in 0..Len(bytes)
  PROVE  LET f[k \in 0..i] == IF k = 0 THEN m ELSE Matched(f[k - 1], bytes[k])
         IN f[i] \in IF i = 0 THEN {m} ELSE 0..T
<1> DEFINE F(n, f) == f = [k \in 0..n |-> IF k = 0 THEN m ELSE Matched(f[k - 1], bytes[k])]
           Bad == {n \in 0..Len(bytes) : ~\E f \in [0..n -> 0..T] : F(n, f)}
<1>1. Bad = {}
  <2> SUFFICES ASSUME Bad # {} PROVE FALSE
    OBVIOUS
  <2>0. Bad \subseteq Nat /\ Len(bytes) \in Nat
    OBVIOUS
  <2> HIDE DEF Bad
  <2>1. PICK n \in Bad : \A j \in Bad : n <= j
    BY <2>0, LeastMember
  <2> USE DEF Bad
  <2>2. n # 0
    <3>1. F(0, [k \in 0..0 |-> m])
      OBVIOUS
    <3> QED
      BY <3>1
  <2>3. n \in Nat /\ n <= Len(bytes) /\ n - 1 \in 0..Len(bytes) /\ n - 1 \notin Bad
    <3>1. n \in 0..Len(bytes)
      BY <2>0
    <3> HIDE DEF Bad
    <3>2. n - 1 \notin Bad
      BY <2>0, <2>1, <3>1
    <3> QED
      BY <2>0, <2>2, <3>1, <3>2
  <2>4. PICK g \in [0..(n - 1) -> 0..T] : F(n - 1, g)
    BY <2>3
  <2>5. bytes[n] \in 1..T
    BY <2>2, <2>3
  <2> DEFINE h == [k \in 0..n |-> IF k = n THEN Matched(g[n - 1], bytes[n]) ELSE g[k]]
  <2>6. h \in [0..n -> 0..T]
    BY <2>2, <2>3, <2>5 DEF Matched
  <2>7. ASSUME NEW k \in 0..n PROVE h[k] = IF k = 0 THEN m ELSE Matched(h[k - 1], bytes[k])
    <3>1. CASE k = n
      BY <3>1, <2>2, <2>3
    <3>2. CASE k # n
      <4>1. k \in 0..(n - 1) /\ h[k] = g[k] /\ (k # 0 => h[k - 1] = g[k - 1])
        BY <3>2, <2>2, <2>3
      <4> QED
        BY <4>1, <2>4
    <3> QED
      BY <3>1, <3>2
  <2>8. F(n, h)
    BY <2>7
  <2> QED
    BY <2>1, <2>6, <2>8
<1>2. PICK f \in [0..i -> 0..T] : F(i, f)
  BY <1>1
<1> DEFINE P(f0) == f0 = [k \in 0..i |-> IF k = 0 THEN m ELSE Matched(f0[k - 1], bytes[k])]
           c == CHOOSE f0 : P(f0)
<1>3. P(c)
  <2>1. P(f)
    BY <1>2
  <2> HIDE DEF P
  <2> QED
    BY <2>1
<1>4. c = [k \in 0..i |-> IF k = 0 THEN m ELSE Matched(c[k - 1], bytes[k])]
  BY <1>3
<1> HIDE DEF c
<1>5. c[i] \in 0..T /\ (i = 0 => c[i] = m)
  <2>1. Len(bytes) \in Nat /\ i \in 0..i
    OBVIOUS
  <2>2. c[i] = IF i = 0 THEN m ELSE Matched(c[i - 1], bytes[i])
    BY <1>4, <2>1
  <2>3. i # 0 => bytes[i] \in 1..T
    BY <2>1
  <2> QED
    BY <2>2, <2>3 DEF Matched
<1> USE DEF c
<1> QED
  BY <1>5

\* How much of the token is matched after each byte of the FIFO.
LEMMA ProgressKnown ==
  ASSUME TokenLength \in Nat \ {0}, rx \in Seq(1..TokenLength), match \in 0..TokenLength
  PROVE  /\ Progress \in [0..Len(rx) -> 0..TokenLength]
         /\ Progress[0] = match
<1>1. Len(rx) \in Nat
  OBVIOUS
<1>2. \A i \in 0..Len(rx) : LET f[k \in 0..i] == IF k = 0 THEN match ELSE Matched(f[k - 1], rx[k])
                              IN f[i] \in IF i = 0 THEN {match} ELSE 0..TokenLength
  BY Scan
<1>3. \A i \in 0..Len(rx) : Progress[i] \in IF i = 0 THEN {match} ELSE 0..TokenLength
  BY <1>2 DEF Progress
<1>4. Progress = [i \in 0..Len(rx) |-> Progress[i]]
  BY DEF Progress
<1> QED
  BY <1>1, <1>3, <1>4

\* What a poll leaves of the receive FIFO is its end, and a token needs bytes.
LEMMA PollMeans ==
  ASSUME TokenLength \in Nat \ {0}, rx \in Seq(1..TokenLength), match \in 0..(TokenLength - 1),
         latched \in BOOLEAN, Poll
  PROVE  /\ rx' \in Seq(1..TokenLength) /\ Len(rx') <= Len(rx)
         /\ match' \in 0..(TokenLength - 1) /\ latched' \in BOOLEAN
         /\ latched => latched'
         /\ rx = <<>> => rx' = <<>> /\ latched' = latched
<1>1. /\ Progress \in [0..Len(rx) -> 0..TokenLength] /\ Progress[0] = match
      /\ Len(rx) \in Nat
  BY ProgressKnown
<1> DEFINE done == {i \in 1..Len(rx) : Progress[i] = TokenLength}
<1>2. CASE latched
  BY <1>2 DEF Poll
<1>3. CASE ~latched /\ done = {}
  <2>1. rx' = <<>> /\ match' = Progress[Len(rx)] /\ latched' = latched
    BY <1>3 DEF Poll
  <2>2. Progress[Len(rx)] # TokenLength
    BY <1>1, <1>3
  <2> QED
    BY <2>1, <2>2, <1>1
<1>4. CASE ~latched /\ done # {}
  <2> DEFINE i == CHOOSE k \in done : \A j \in done : k <= j
  <2>1. rx' = SubSeq(rx, i + 1, Len(rx)) /\ match' = 0 /\ latched' = TRUE
    BY <1>4 DEF Poll
  <2>2. i \in 1..Len(rx)
    <3>1. done \subseteq Nat /\ done \subseteq 1..Len(rx)
      OBVIOUS
    <3> HIDE DEF done
    <3>2. \E k \in done : \A j \in done : k <= j
      BY <1>4, <3>1, LeastMember
    <3> QED
      BY <3>1, <3>2
  <2> HIDE DEF i
  <2>3. rx # <<>>
    BY <1>1, <2>2
  <2>4. rx' \in Seq(1..TokenLength) /\ Len(rx') <= Len(rx)
    BY <1>1, <2>1, <2>2
  <2>5. match' \in 0..(TokenLength - 1) /\ latched' = TRUE
    BY <2>1
  <2> QED
    BY <2>3, <2>4, <2>5, Zenon
<1> QED
  BY <1>2, <1>3, <1>4

-----------------------------------------------------------------------------
(***************************************************************************)
(* The log.                                                                *)
(***************************************************************************)

\* What no step takes back: a count, a reservation, a published record.
Stable ==
  /\ reserved <= reserved' /\ dropped <= dropped' /\ truncated <= truncated'
  /\ \A r \in 0..(Capacity - 1) : slots[r].ready => slots'[r] = slots[r]

\* An empty slot is not a record.
LEMMA NoRecordIsNone == NoRecord \notin RealRecord
<1>1. \A x \in RealRecord : DOMAIN x = {"by", "n", "cut"}
  BY DEF RealRecord
<1>2. DOMAIN NoRecord = {"by"}
  BY DEF NoRecord
<1> QED
  BY <1>1, <1>2

\* An append that counts nothing yet joins the pending ones, and one that was counted leaves.
LEMMA PendingAdds ==
  ASSUME Counted, NEW p \in Producers, p \notin Pending, Pending' = Pending \cup {p},
         reserved \in Nat, dropped \in Nat, truncated \in Nat,
         reserved' = reserved + 1, UNCHANGED <<dropped, truncated>>
  PROVE  Counted'
<1>1. IsFiniteSet(Pending')
      /\ Cardinality(Pending') = Cardinality(Pending) + 1 /\ Cardinality(Pending) \in Nat
  BY FS_AddElement, FS_CardinalityType DEF Counted
<1> QED
  BY <1>1 DEF Counted
\* An append that has been counted leaves the pending ones.
LEMMA PendingLeaves ==
  ASSUME Counted, NEW p \in Pending, Pending' = Pending \ {p},
         reserved \in Nat, dropped \in Nat, truncated \in Nat, dropped' \in Nat, truncated' \in Nat,
         reserved' = reserved, dropped' + truncated' <= dropped + truncated + 1
  PROVE  Counted'
<1>1. IsFiniteSet(Pending')
      /\ Cardinality(Pending') = Cardinality(Pending) - 1 /\ Cardinality(Pending) \in Nat
  BY FS_RemoveElement, FS_CardinalityType DEF Counted
<1>2. \A a, b, c, d, e, n \in Nat : a + b + n <= e /\ c + d <= a + b + 1 => c + d + (n - 1) <= e
  OBVIOUS
<1>3. dropped + truncated + Cardinality(Pending) <= reserved
  BY DEF Counted
<1>4. dropped' + truncated' + (Cardinality(Pending) - 1) <= reserved
  BY <1>1, <1>2, <1>3
<1> QED
  BY <1>1, <1>4 DEF Counted

\* A reservation: the number is the producer's own (append, fetch_add).
LEMMA ReserveStep ==
  ASSUME StoreInv, NEW p \in Producers, Reserve(p) PROVE StoreInv' /\ Stable
<1> USE DEF StoreInv
<1>1. /\ reserved \in Nat /\ Capacity \in Nat /\ job[p].pc = "idle" /\ reserved' = reserved + 1
      /\ UNCHANGED <<slots, dropped, truncated>>
      /\ appended' = [appended EXCEPT ![p] = @ + 1] /\ appended[p] \in 0..MaxAppends
      /\ appended[p] < MaxAppends /\ MaxAppends \in Nat
  BY LimitAssumption DEF Reserve, StoreKinds
<1>2. PICK cut \in BOOLEAN :
        job' = [job EXCEPT ![p] = [pc |-> IF reserved >= Capacity THEN "drop" ELSE "copy",
                                   seq |-> reserved, cut |-> cut]]
  BY DEF Reserve
<1>3. StoreKinds'
  BY <1>1, <1>2 DEF StoreKinds
<1>4. Discipline'
  BY <1>1, <1>2 DEF StoreKinds, Discipline, Holding
<1>5. CutCounted' /\ Stable
  BY <1>1 DEF StoreKinds, CutCounted, Stable
<1>6. Counted'
  <2>1. p \notin Pending /\ Pending' = Pending \cup {p}
    BY <1>1, <1>2 DEF StoreKinds, Pending
  <2> QED
    BY <1>1, <2>1, PendingAdds DEF StoreKinds
<1> QED
  BY <1>3, <1>4, <1>5, <1>6

\* An append past the capacity is counted and gone.
LEMMA DropStep ==
  ASSUME StoreInv, NEW p \in Producers, Drop(p) PROVE StoreInv' /\ Stable
<1> USE DEF StoreInv
<1>1. /\ job[p].pc = "drop" /\ dropped' = dropped + 1 /\ job' = [job EXCEPT ![p] = Idle]
      /\ UNCHANGED <<reserved, slots, truncated, appended>>
  BY DEF Drop
<1>2. StoreKinds'
  BY <1>1 DEF StoreKinds, Idle
<1>3. Discipline'
  BY <1>1 DEF StoreKinds, Discipline, Holding, Idle
<1>4. CutCounted' /\ Stable
  BY <1>1 DEF StoreKinds, CutCounted, Stable
<1>5. Counted'
  <2>1. p \in Pending /\ Pending' = Pending \ {p}
    BY <1>1 DEF StoreKinds, Pending, Idle
  <2> QED
    BY <1>1, <2>1, PendingLeaves DEF StoreKinds
<1> QED
  BY <1>2, <1>3, <1>4, <1>5

\* The text is copied into a slot nobody else writes or reads.
LEMMA CopyStep ==
  ASSUME StoreInv, NEW p \in Producers, Copy(p) PROVE StoreInv' /\ Stable
<1> USE DEF StoreInv
<1> DEFINE r == job[p].seq
<1>1. /\ job[p].pc = "copy" /\ slots' = [slots EXCEPT ![r].record = Record(p)]
      /\ truncated' = truncated + (IF job[p].cut THEN 1 ELSE 0)
      /\ job' = [job EXCEPT ![p].pc = "publish"]
      /\ UNCHANGED <<reserved, dropped, appended>>
  BY DEF Copy
<1>2. /\ r \in 0..(Capacity - 1) /\ ~slots[r].ready /\ r < reserved
      /\ Record(p) \in RealRecord /\ Record(p).cut = job[p].cut /\ job[p].cut \in BOOLEAN
      /\ Capacity \in Nat
  BY <1>1, LimitAssumption DEF StoreKinds, Discipline, Holding, Record, RealRecord
<1>3. /\ \A s \in 0..(Capacity - 1) : s # r => slots'[s] = slots[s]
      /\ slots'[r].record = Record(p) /\ ~slots'[r].ready
      /\ slots' \in [0..(Capacity - 1) -> [ready : BOOLEAN, record : RecordType]]
  BY <1>1, <1>2 DEF StoreKinds, RecordType, RealRecord
<1>4. /\ \A q \in Producers : q # p => job'[q] = job[q]
      /\ job'[p].pc = "publish" /\ job'[p].seq = r
      /\ job' \in [Producers -> [pc : {"idle", "drop", "copy", "publish"}, seq : Nat, cut : BOOLEAN]]
  BY <1>1 DEF StoreKinds
<1>5. StoreKinds'
  BY <1>1, <1>2, <1>3, <1>4 DEF StoreKinds
<1>6. Discipline'
  BY <1>1, <1>2, <1>3, <1>4 DEF StoreKinds, Discipline, Holding
<1>7. CutCounted' /\ Stable
  BY <1>1, <1>2, <1>3 DEF StoreKinds, CutCounted, Stable
<1>8. Counted'
  <2>1. p \in Pending /\ Pending' = Pending \ {p}
    BY <1>1, <1>4 DEF Pending
  <2> QED
    BY <1>1, <1>2, <2>1, PendingLeaves DEF StoreKinds
<1> QED
  BY <1>5, <1>6, <1>7, <1>8

\* The slot is published with its text in place (store release).
LEMMA PublishStep ==
  ASSUME StoreInv, NEW p \in Producers, Publish(p) PROVE StoreInv' /\ Stable
<1> USE DEF StoreInv
<1> DEFINE r == job[p].seq
<1>1. /\ job[p].pc = "publish" /\ slots' = [slots EXCEPT ![r].ready = TRUE]
      /\ job' = [job EXCEPT ![p] = Idle]
      /\ UNCHANGED <<reserved, dropped, truncated, appended>>
  BY DEF Publish
<1>2. /\ r \in 0..(Capacity - 1) /\ ~slots[r].ready /\ r < reserved
      /\ slots[r].record \in RealRecord /\ Capacity \in Nat
  BY <1>1, LimitAssumption DEF StoreKinds, Discipline, Holding
<1> DEFINE Slot == [ready : BOOLEAN, record : RecordType]
<1>3. /\ \A s \in 0..(Capacity - 1) : s # r => slots'[s] = slots[s]
      /\ \A s \in 0..(Capacity - 1) : slots'[s].record = slots[s].record
      /\ slots' \in [0..(Capacity - 1) -> Slot]
  <2>1. slots \in [0..(Capacity - 1) -> Slot]
    BY DEF StoreKinds
  <2>2. slots[r] \in Slot
    BY <2>1, <1>2
  <2>3. [slots[r] EXCEPT !.ready = TRUE] \in Slot
        /\ [slots[r] EXCEPT !.ready = TRUE].record = slots[r].record
    BY <2>2
  <2>4. slots' = [slots EXCEPT ![r] = [slots[r] EXCEPT !.ready = TRUE]]
    BY <1>1, <1>2
  <2> HIDE DEF r, Slot
  <2> QED
    BY <2>1, <2>3, <2>4, <1>2
<1>4. /\ \A q \in Producers : q # p => job'[q] = job[q]
      /\ job'[p].pc = "idle"
      /\ job' \in [Producers -> [pc : {"idle", "drop", "copy", "publish"}, seq : Nat, cut : BOOLEAN]]
  BY <1>1 DEF StoreKinds, Idle
<1>5. StoreKinds'
  BY <1>1, <1>2, <1>3, <1>4 DEF StoreKinds
<1>6. Discipline'
  <2>1. \A q \in Producers : Holding(q)' => q # p /\ Holding(q) /\ job'[q] = job[q] /\ job[q].seq # r
    BY <1>1, <1>4 DEF StoreKinds, Discipline, Holding
  <2>2. \A q \in Producers : Holding(q) => job[q].seq \in 0..(Capacity - 1)
    BY <1>2 DEF StoreKinds, Discipline
  <2> QED
    BY <1>1, <1>2, <1>3, <1>4, <2>1, <2>2 DEF StoreKinds, Discipline, Holding
<1>7. CutCounted' /\ Stable
  BY <1>1, <1>2, <1>3 DEF StoreKinds, CutCounted, Stable
<1>8. Counted'
  <2>1. Pending' = Pending
    BY <1>1, <1>4 DEF Pending
  <2> QED
    BY <1>1, <2>1 DEF Counted
<1> QED
  BY <1>5, <1>6, <1>7, <1>8

\* Every step keeps the log's discipline and takes nothing of it back.
LEMMA StoreStep == ASSUME StoreInv, [Next]_vars PROVE StoreInv' /\ Stable
<1>1. ASSUME UNCHANGED store PROVE StoreInv' /\ Stable
  BY <1>1 DEF store, StoreInv, StoreKinds, Discipline, Holding, CutCounted, Counted, Pending, Stable
<1>2. ASSUME NEW p \in Producers, Append1(p) PROVE StoreInv' /\ Stable
  BY <1>2, ReserveStep, DropStep, CopyStep, PublishStep DEF Append1
<1> QED
  BY <1>1, <1>2 DEF Next, Worker, Host, vars

-----------------------------------------------------------------------------
(***************************************************************************)
(* The capture.                                                            *)
(***************************************************************************)

\* Where the lines are, and the shape of each by its kind.
LEMMA Lines ==
  ASSUME NEW c \in Seq(Physical)
  PROVE  /\ Len(c) \in Nat /\ DOMAIN c = 1..Len(c)
         /\ \A i \in 1..Len(c) : c[i] \in Physical /\ c[i].line \in Line
<1>1. /\ Len(c) \in Nat /\ DOMAIN c = 1..Len(c)
      /\ \A i \in 1..Len(c) : c[i] \in Physical
  OBVIOUS
<1>2. \A x \in Physical : x.line \in Line
  BY DEF Physical
<1> QED
  BY <1>1, <1>2
\* A line has one of four kinds, and its kind says its shape.
LEMMA KindOf ==
  ASSUME NEW l \in Line
  PROVE  /\ l.kind \in {"chunk", "end", "ack", "blank"}
         /\ l.kind = "chunk" => l \in ChunkLine
         /\ l.kind = "end" => l \in EndLine
         /\ l.kind = "ack" => l \in AckLine
         /\ l.kind = "blank" <=> l = Blank
<1>1. CASE l \in ChunkLine
  BY <1>1 DEF ChunkLine, Blank
<1>2. CASE l \in EndLine
  BY <1>2 DEF EndLine, Blank
<1>3. CASE l \in AckLine
  BY <1>3 DEF AckLine, Blank
<1>4. CASE l = Blank
  BY <1>4 DEF Blank
<1> QED
  BY <1>1, <1>2, <1>3, <1>4 DEF Line

\* d is the capture c after a write of line l, whole, cut or not begun: what a
\* line says never changes, a line that ended well is left alone, and at most l
\* is new.
Grown(c, d, l) ==
  /\ d \in Seq(Physical)
  /\ Len(d) \in {Len(c), Len(c) + 1}
  /\ \A i \in 1..Len(c) : /\ d[i].line = c[i].line /\ d[i].text = c[i].text
                          /\ c[i].end = "nl" => d[i] = c[i]
  /\ Len(d) # Len(c) => d[Len(d)].line = l

\* A step that writes nothing, and what a capture is after any write.
LEMMA NothingGrown == ASSUME NEW c \in Seq(Physical), NEW l PROVE Grown(c, c, l)
  BY Lines DEF Grown

\* Earlier lines stay; one more line at most, at the end.
LEMMA GrownLines ==
  ASSUME NEW c \in Seq(Physical), NEW d, NEW l, Grown(c, d, l)
  PROVE  /\ Len(c) \in Nat /\ DOMAIN c = 1..Len(c)
         /\ d \in Seq(Physical) /\ Len(d) \in Nat /\ DOMAIN d = 1..Len(d) /\ Len(c) <= Len(d)
         /\ \A i \in 1..Len(c) : i \in 1..Len(d) /\ d[i].line = c[i].line /\ d[i].text = c[i].text
         /\ \A i \in 1..Len(c) : c[i].end = "nl" => d[i] = c[i]
         /\ \A i \in 1..Len(d) : i \in 1..Len(c) \/ (i = Len(c) + 1 /\ i = Len(d) /\ d[i].line = l)
  BY Lines DEF Grown

\* A new line grows the capture by itself.
LEMMA AppendGrows ==
  ASSUME NEW c \in Seq(Physical), NEW x \in Physical PROVE Grown(c, Append(c, x), x.line)
<1>1. /\ Len(c) \in Nat /\ Append(c, x) \in Seq(Physical) /\ Len(Append(c, x)) = Len(c) + 1
      /\ \A i \in 1..Len(c) : Append(c, x)[i] = c[i]
      /\ Append(c, x)[Len(c) + 1] = x
  OBVIOUS
<1> QED
  BY <1>1 DEF Grown

\* A write ends well, or it is cut and the failure is latched.
LEMMA WriteMeans ==
  ASSUME NEW l \in Line, capture \in Seq(Physical), Write(l)
  PROVE  /\ Grown(capture, capture', l)
         /\ \/ capture' = Append(capture, Written(l, "full", "nl")) /\ UNCHANGED <<failed, stalls>>
            \/ stalls < MaxStalls /\ stalls' = stalls + 1 /\ failed' = TRUE
<1>1. \A t \in {"full", "part", "short"}, e \in {"open", "cr", "nl", "crcr"} :
        Written(l, t, e) \in Physical /\ Written(l, t, e).line = l
  BY DEF Written, Physical
<1>2. CASE capture' = Append(capture, Written(l, "full", "nl")) /\ UNCHANGED <<failed, stalls>>
  BY <1>1, <1>2, AppendGrows
<1>3. CASE /\ stalls < MaxStalls /\ stalls' = stalls + 1 /\ failed' = TRUE
           /\ UNCHANGED capture
  BY <1>3, NothingGrown
<1>4. CASE /\ stalls < MaxStalls /\ stalls' = stalls + 1 /\ failed' = TRUE
           /\ \E p \in {<<"short", "open">>, <<"part", "open">>, <<"full", "open">>, <<"full", "cr">>} :
                capture' = Append(capture, Written(l, p[1], p[2]))
  <2>1. \E t \in {"full", "part", "short"}, e \in {"open", "cr", "nl", "crcr"} :
          capture' = Append(capture, Written(l, t, e))
    BY <1>4
  <2> QED
    BY <1>1, <1>4, <2>1, AppendGrows
<1> QED
  BY <1>2, <1>3, <1>4 DEF Write

\* The terminator that begins a snapshot disturbs no line that ended well.
LEMMA DelimitedGrows ==
  ASSUME capture \in Seq(Physical), NEW lf \in BOOLEAN
  PROVE  Grown(capture, Delimited(lf), Blank)
<1>1. CASE capture = <<>> \/ Terminated(Last(capture))
  <2> DEFINE x == Written(Blank, "short", IF lf THEN "nl" ELSE "cr")
  <2>1. x \in Physical /\ x.line = Blank
    BY DEF Written, Physical, Line
  <2>2. Delimited(lf) = Append(capture, x)
    BY <1>1 DEF Delimited
  <2> HIDE DEF x
  <2> QED
    BY <2>1, <2>2, AppendGrows
<1>2. CASE ~(capture = <<>> \/ Terminated(Last(capture)))
  <2> DEFINE n == Len(capture)
             e == IF ~lf THEN "cr" ELSE IF capture[n].end = "open" THEN "nl" ELSE "crcr"
  <2>1. n \in Nat /\ n # 0 /\ capture[n] \in Physical /\ capture[n].end # "nl"
    BY <1>2, Lines DEF Terminated, Last
  <2>2. [capture[n] EXCEPT !.end = e] \in Physical
        /\ [capture[n] EXCEPT !.end = e].line = capture[n].line
        /\ [capture[n] EXCEPT !.end = e].text = capture[n].text
    BY <2>1 DEF Physical
  <2>3. Delimited(lf) = [capture EXCEPT ![n] = [capture[n] EXCEPT !.end = e]]
    BY <1>2, <2>1 DEF Delimited
  <2> HIDE DEF n, e
  <2>4. n = Len(capture)
    BY DEF n
  <2>5. /\ Delimited(lf) \in Seq(Physical) /\ Len(Delimited(lf)) = n
        /\ Delimited(lf)[n] = [capture[n] EXCEPT !.end = e]
        /\ \A i \in 1..n : i # n => Delimited(lf)[i] = capture[i]
    BY <2>1, <2>2, <2>3, <2>4, ExceptSeq
  <2> QED
    BY <2>1, <2>2, <2>4, <2>5 DEF Grown
<1> QED
  BY <1>1, <1>2

\* The delimiter of a snapshot adds a blank line or ends the line before (beginSnapshot).
LEMMA BeginMeans ==
  ASSUME capture \in Seq(Physical), Begin
  PROVE  /\ Grown(capture, capture', Blank)
         /\ \/ capture' = Delimited(TRUE) /\ UNCHANGED <<failed, stalls>>
            \/ stalls < MaxStalls /\ stalls' = stalls + 1 /\ failed' = TRUE
  BY DelimitedGrows, NothingGrown DEF Begin

-----------------------------------------------------------------------------
(***************************************************************************)
(* What the capture's invariants ask of a step, whatever line l it writes: *)
(* each holds after it if it holds of l.                                   *)
(***************************************************************************)

\* A slot a line of the capture speaks of is one a snapshot has replayed.
LEMMA Ranges ==
  ASSUME StoreKinds, WorkerKinds, Sampled
  PROVE  /\ Capacity \in Nat /\ DOMAIN slots = 0..(Capacity - 1)
         /\ Size \in Nat /\ Size <= Capacity /\ Size <= reserved
         /\ sample.count \in Nat /\ sample.count <= Capacity
         /\ sample.dropped \in Nat /\ sample.truncated \in Nat
         /\ at \in Nat /\ at <= sample.count
         /\ replay \in Nat /\ AttemptLimit \in Nat /\ ReplayLimit \in Nat
  BY LimitAssumption DEF StoreKinds, WorkerKinds, CounterType, Size, Lesser

\* Published slots do not change, so earlier lines stay true.
LEMMA TruthfulKept ==
  ASSUME StoreKinds, StoreKinds', WorkerKinds, WorkerKinds', Sampled, Truthful, Stable,
         sample.count <= sample'.count, capture \in Seq(Physical),
         NEW l \in Line, Grown(capture, capture', l), Replayable(l)'
  PROVE  Truthful'
<1>1. ASSUME NEW k \in Line, Replayable(k) PROVE Replayable(k)'
  <2>1. CASE k.kind = "chunk"
    BY <1>1, <2>1, Ranges DEF Replayable, Stable, StoreKinds
  <2>2. CASE k.kind = "end"
    <3>1. /\ k.count \in Nat /\ k.count <= sample.count /\ k.dropped <= dropped /\ k.truncated <= truncated
          /\ k.dropped \in Nat /\ k.truncated \in Nat
          /\ \A r \in 0..(k.count - 1) : slots[r].ready
          /\ k.digest = [i \in 1..k.count |-> slots[i - 1].record]
      BY <1>1, <2>2, KindOf DEF Replayable, EndLine
    <3>2. \A r \in 0..(k.count - 1) : slots'[r] = slots[r]
      BY <3>1, Ranges DEF Stable
    <3>3. k.count <= sample'.count /\ k.dropped <= dropped' /\ k.truncated <= truncated'
      <4>1. sample'.count \in Nat /\ sample.count \in Nat
        BY Ranges DEF WorkerKinds, CounterType
      <4>2. dropped <= dropped' /\ truncated <= truncated'
            /\ {dropped, truncated, dropped', truncated'} \subseteq Nat
        BY DEF Stable, StoreKinds
      <4> QED
        BY <3>1, <4>1, <4>2
    <3>4. \A i \in 1..k.count : slots'[i - 1] = slots[i - 1]
      BY <3>1, <3>2
    <3> QED
      BY <2>2, <3>1, <3>2, <3>3, <3>4 DEF Replayable
  <2> QED
    BY <2>1, <2>2 DEF Replayable
<1>2. ASSUME NEW i \in DOMAIN capture'
      PROVE  capture'[i].line \in Line /\ (capture'[i].line = l \/ Replayable(capture'[i].line))
  BY GrownLines, Lines DEF Truthful
<1>3. ASSUME NEW k \in Line, k = l \/ Replayable(k) PROVE Replayable(k)'
  BY <1>1, <1>3
<1> QED
  BY <1>2, <1>3 DEF Truthful, Replayable

\* A line that follows all the earlier ones keeps the order.
LEMMA NumberedKept ==
  ASSUME Numbered, capture \in Seq(Physical), NEW l \in Line, Grown(capture, capture', l),
         IsRecord(l) => \A i \in DOMAIN capture : IsRecord(capture[i].line) => Follows(capture[i].line, l)
  PROVE  Numbered'
<1>1. /\ Len(capture) \in Nat /\ DOMAIN capture = 1..Len(capture)
      /\ Len(capture') \in Nat /\ DOMAIN capture' = 1..Len(capture')
      /\ \A i \in 1..Len(capture) : capture'[i].line = capture[i].line
      /\ \A i \in 1..Len(capture') :
           i \in 1..Len(capture) \/ (i = Len(capture) + 1 /\ capture'[i].line = l)
  BY GrownLines
<1>2. ASSUME NEW i \in DOMAIN capture', NEW j \in DOMAIN capture', i < j,
             IsRecord(capture'[i].line), IsRecord(capture'[j].line)
      PROVE  Follows(capture'[i].line, capture'[j].line)
  <2>1. i \in 1..Len(capture) /\ capture'[i].line = capture[i].line
    BY <1>1, <1>2
  <2>2. CASE j \in 1..Len(capture)
    BY <1>1, <1>2, <2>1, <2>2 DEF Numbered
  <2>3. CASE j \notin 1..Len(capture)
    <3>1. capture'[j].line = l
      BY <1>1, <2>3
    <3> QED
      BY <1>1, <1>2, <2>1, <3>1
  <2> QED
    BY <2>2, <2>3
<1> QED
  BY <1>2 DEF Numbered, IsRecord, Follows

\* A line that ended well is there for good.
LEMMA ChunkKept ==
  ASSUME capture \in Seq(Physical), NEW l, Grown(capture, capture', l),
         NEW n \in Nat, n <= Len(capture), NEW s, NEW r, HasChunk(n, s, r), slots'[r] = slots[r]
  PROVE  \E j \in 1..n : Whole(capture'[j]) /\ capture'[j].line = Chunk(s, r, slots'[r].record)
<1>1. PICK j \in 1..n : Whole(capture[j]) /\ capture[j].line = Chunk(s, r, slots[r].record)
  BY DEF HasChunk
<1>2. capture'[j] = capture[j]
  BY <1>1, GrownLines DEF Whole
<1> QED
  BY <1>1, <1>2 DEF HasChunk, Whole
\* A manifest once written stays written.
LEMMA EndKept ==
  ASSUME capture \in Seq(Physical), NEW l, Grown(capture, capture', l), NEW s, HasEnd(s)
  PROVE  HasEnd(s)'
<1>1. PICK j \in DOMAIN capture : /\ Whole(capture[j]) /\ capture[j].line.kind = "end"
                                  /\ capture[j].line.snap = s
  BY DEF HasEnd
<1>2. j \in DOMAIN capture' /\ capture'[j] = capture[j]
  BY <1>1, GrownLines DEF Whole
<1> QED
  BY <1>1, <1>2 DEF HasEnd, Whole

\* Where the worker may go without a replayed line losing its place: on to a
\* later number, on towards a replay that has emitted nothing yet, forward in
\* the loop over the records, and out of it past the last one.
Onward ==
  \/ replay < replay'
  \/ replay' = replay /\ pc \in Fresh
  \/ UNCHANGED <<pc, replay, sample, at>>
  \/ /\ UNCHANGED <<replay, sample>> /\ pc \notin Fresh \cup {"done"} /\ pc' \notin Fresh
     /\ \/ pc # "emit" /\ pc' # "emit"
        \/ pc = "emit" /\ pc' = "emit" /\ at <= at'
        \/ pc = "emit" /\ pc' # "emit" /\ at = sample.count

\* A worker that only moves onward leaves no line ahead of it.
LEMMA CurrentKept ==
  ASSUME WorkerKinds, WorkerKinds', Current, Onward, capture \in Seq(Physical),
         NEW l \in Line, Grown(capture, capture', l), IsRecord(l) => InSnapshot(l)'
  PROVE  Current'
<1>1. ASSUME NEW k \in Line, IsRecord(k), InSnapshot(k) PROVE InSnapshot(k)'
  <2>1. /\ k.snap \in Nat /\ (k.kind = "chunk" => k.rec \in Nat) /\ k.kind \in {"chunk", "end"}
    BY <1>1, KindOf DEF IsRecord, ChunkLine, EndLine
  <2>2. /\ replay \in Nat /\ replay' \in Nat /\ at \in Nat /\ at' \in Nat
        /\ AttemptLimit \in Nat /\ sample.count \in Nat
    BY LimitAssumption DEF WorkerKinds, CounterType
  <2>3. CASE replay < replay'
    BY <1>1, <2>1, <2>2, <2>3 DEF InSnapshot
  <2>4. CASE replay' = replay /\ pc \in Fresh
    BY <1>1, <2>1, <2>2, <2>4 DEF InSnapshot
  <2>5. CASE UNCHANGED <<pc, replay, sample, at>>
    BY <1>1, <2>5 DEF InSnapshot
  <2>6. CASE /\ UNCHANGED <<replay, sample>> /\ pc \notin Fresh \cup {"done"} /\ pc' \notin Fresh
             /\ pc # "emit" /\ pc' # "emit"
    BY <1>1, <2>6 DEF InSnapshot
  <2>7. CASE /\ UNCHANGED <<replay, sample>> /\ pc' \notin Fresh
             /\ pc = "emit" /\ pc' = "emit" /\ at <= at'
    BY <1>1, <2>1, <2>2, <2>7 DEF InSnapshot
  <2>8. CASE /\ UNCHANGED <<replay, sample>> /\ pc' \notin Fresh
             /\ pc = "emit" /\ pc' # "emit" /\ at = sample.count
    BY <1>1, <2>1, <2>2, <2>8 DEF InSnapshot
  <2> QED
    BY <2>3, <2>4, <2>5, <2>6, <2>7, <2>8 DEF Onward
<1>2. ASSUME NEW i \in DOMAIN capture', IsRecord(capture'[i].line)
      PROVE  /\ capture'[i].line \in Line
             /\ capture'[i].line = l \/ InSnapshot(capture'[i].line)
  BY <1>2, GrownLines, Lines DEF Current
<1>3. ASSUME NEW k \in Line, IsRecord(k), k = l \/ InSnapshot(k) PROVE InSnapshot(k)'
  BY <1>1, <1>3
<1> QED
  BY <1>2, <1>3 DEF Current, IsRecord, InSnapshot

\* Chunks stay where they are, and the next place of the loop needs one more at most.
LEMMA EndsWholeKept ==
  ASSUME StoreKinds, WorkerKinds, Sampled, Truthful, EndsWhole, Stable, capture \in Seq(Physical),
         NEW l \in Line, Grown(capture, capture', l),
         NEW n \in Nat, n = Len(capture),
         l.kind = "end" => \A r \in 0..(l.count - 1) : HasChunk(n, l.snap, r)',
         pc' = "emit" /\ ~failed' => \A r \in 0..(at' - 1) :
           \/ pc = "emit" /\ ~failed /\ replay' = replay /\ r < at
           \/ HasChunk(Len(capture), replay, r)'
  PROVE  EndsWhole'
<1>1. /\ n = Len(capture) /\ DOMAIN capture = 1..n
      /\ Len(capture') \in Nat /\ DOMAIN capture' = 1..Len(capture') /\ n <= Len(capture')
      /\ \A i \in 1..n : i \in 1..Len(capture') /\ capture'[i].line = capture[i].line
                         /\ capture'[i].text = capture[i].text /\ capture[i].line \in Line
      /\ \A i \in 1..Len(capture') : i \in 1..n \/ (i = n + 1 /\ capture'[i].line = l)
  BY GrownLines, Lines
<1>2. ASSUME NEW i \in DOMAIN capture', capture'[i].line.kind = "end", capture'[i].text = "full",
             NEW r \in 0..(capture'[i].line.count - 1)
      PROVE  \E j \in 1..(i - 1) :
               Whole(capture'[j]) /\ capture'[j].line = Chunk(capture'[i].line.snap, r, slots'[r].record)
  <2>1. CASE i \in 1..n
    <3>1. capture'[i].line = capture[i].line /\ capture'[i].text = capture[i].text
      BY <1>1, <2>1
    <3>2. HasChunk(i - 1, capture[i].line.snap, r)
      BY <1>1, <1>2, <2>1, <3>1 DEF EndsWhole
    <3>3. slots'[r] = slots[r]
      <4>1. /\ capture[i].line.count \in Nat /\ Replayable(capture[i].line)
            /\ capture[i].line.kind = "end" /\ r \in 0..(capture[i].line.count - 1)
        BY <1>1, <1>2, <2>1, <3>1, KindOf DEF Truthful, EndLine
      <4>2. slots[r].ready /\ r \in 0..(Capacity - 1)
        BY <4>1, Ranges DEF Replayable
      <4> QED
        BY <4>2 DEF Stable
    <3>4. i - 1 \in Nat /\ i - 1 <= Len(capture)
      BY <1>1, <2>1
    <3>5. \A m \in Nat, s \in Nat :
            m <= Len(capture) /\ HasChunk(m, s, r) =>
              \E j \in 1..m : Whole(capture'[j]) /\ capture'[j].line = Chunk(s, r, slots'[r].record)
      BY <3>3, ChunkKept
    <3>6. capture[i].line.snap \in Nat
      BY <1>1, <1>2, <2>1, <3>1, KindOf DEF EndLine
    <3> QED
      BY <3>1, <3>2, <3>4, <3>5, <3>6
  <2>2. CASE i \notin 1..n
    <3>1. i - 1 = n /\ capture'[i].line = l
      BY <1>1, <2>2
    <3>2. HasChunk(n, l.snap, r)'
      BY <1>2, <3>1
    <3> QED
      BY <3>1, <3>2 DEF HasChunk, Whole
  <2> QED
    BY <2>1, <2>2
<1>3. ASSUME pc' = "emit", ~failed', NEW r \in 0..(at' - 1) PROVE HasChunk(Len(capture), replay, r)'
  <2>1. CASE pc = "emit" /\ ~failed /\ replay' = replay /\ r < at
    <3>1. slots[r].ready /\ r \in 0..(Capacity - 1) /\ r \in 0..(at - 1)
      BY <2>1, Ranges DEF Sampled
    <3>2. HasChunk(n, replay, r) /\ slots'[r] = slots[r]
      BY <1>1, <2>1, <3>1 DEF EndsWhole, Stable
    <3>3. \A s \in Nat :
            HasChunk(n, s, r) =>
              \E j \in 1..n : Whole(capture'[j]) /\ capture'[j].line = Chunk(s, r, slots'[r].record)
      BY <1>1, <3>2, ChunkKept
    <3> QED
      BY <1>1, <2>1, <3>2, <3>3, Ranges DEF HasChunk, Whole
  <2> QED
    BY <1>3, <2>1
<1> QED
  BY <1>2, <1>3 DEF EndsWhole, HasChunk, Whole

\* An acknowledgement goes on vouching for its snapshot, and none is due again.
LEMMA AckedKept ==
  ASSUME StoreKinds, WorkerKinds, WorkerKinds', Sampled, Truthful, Current, Acked, Stable,
         capture \in Seq(Physical), NEW l \in Line, Grown(capture, capture', l),
         host = "run" \/ (host' # "run" /\ UNCHANGED owed),
         replay < replay' \/ (replay' = replay /\ (pc' = pc \/ pc \notin {"pause", "done"})),
         l.kind = "end" => l.snap = replay /\ pc \notin {"pause", "done"},
         l.kind = "ack" => /\ host # "run" /\ owed.count <= l.count /\ HasEnd(l.snap)
                           /\ l.snap < replay' \/ pc' \in {"pause", "done"}
                           /\ \A j \in DOMAIN capture : Acknowledges(l, capture[j].line)
  PROVE  Acked'
<1>1. /\ Len(capture) \in Nat /\ DOMAIN capture = 1..Len(capture)
      /\ Len(capture') \in Nat /\ DOMAIN capture' = 1..Len(capture')
      /\ \A i \in 1..Len(capture) : capture'[i].line = capture[i].line /\ capture[i].line \in Line
      /\ \A i \in 1..Len(capture') :
           i \in 1..Len(capture) \/ (i = Len(capture) + 1 /\ capture'[i].line = l)
  BY GrownLines, Lines
<1> DEFINE Vouches(a, e) ==
             e.kind = "end" /\ e.snap = a.snap =>
               /\ e.count = a.count /\ owed'.dropped <= e.dropped
               /\ e.truncated = 0 => \A r \in 0..(e.count - 1) : ~slots'[r].record.cut
<1>2. ASSUME NEW a, NEW e \in Line, e.kind = "end" /\ e.snap = a.snap => Replayable(e),
             UNCHANGED owed, Acknowledges(a, e)
      PROVE  Vouches(a, e)
  <2>1. CASE e.kind = "end" /\ e.snap = a.snap
    <3>1. \A r \in 0..(e.count - 1) : slots'[r] = slots[r]
      <4>1. /\ e.count \in Nat /\ e.count <= sample.count
            /\ \A r \in 0..(e.count - 1) : slots[r].ready
        BY <1>2, <2>1, KindOf DEF Replayable, EndLine
      <4> QED
        BY <4>1, Ranges DEF Stable
    <3> QED
      BY <1>2, <3>1 DEF Acknowledges, NoneCut
  <2> QED
    BY <2>1 DEF Acknowledges
<1>3. ASSUME NEW i \in DOMAIN capture', capture'[i].line.kind = "ack"
      PROVE  LET a == capture'[i].line IN
             /\ a \in Line
             /\ host # "run" /\ host' # "run" /\ UNCHANGED owed
             /\ owed.count <= a.count /\ HasEnd(a.snap)
             /\ a.snap < replay' \/ pc' \in {"pause", "done"}
             /\ \A j \in DOMAIN capture : Acknowledges(a, capture[j].line)
             /\ l.kind = "end" => l.snap # a.snap
  <2> DEFINE a == capture'[i].line
  <2>1. CASE i \in 1..Len(capture)
    <3>1. /\ a = capture[i].line /\ a \in Line /\ a.snap \in Nat
      BY <1>1, <1>3, <2>1, KindOf DEF AckLine
    <3>2. /\ host # "run" /\ owed.count <= a.count /\ HasEnd(a.snap)
          /\ a.snap < replay \/ pc \in {"pause", "done"}
          /\ \A j \in DOMAIN capture : Acknowledges(a, capture[j].line)
      BY <1>1, <1>3, <2>1, <3>1 DEF Acked
    <3>3. a.snap <= replay
      BY <3>2 DEF HasEnd, Current, IsRecord, InSnapshot
    <3>4. a.snap < replay' \/ pc' \in {"pause", "done"}
      <4>1. replay \in Nat /\ replay' \in Nat
        BY Ranges, LimitAssumption DEF WorkerKinds
      <4> QED
        BY <3>1, <3>2, <3>3, <4>1
    <3>5. l.kind = "end" => l.snap # a.snap
      <4> HAVE l.kind = "end"
      <4>1. a.snap < replay /\ l.snap = replay /\ replay \in Nat
        BY <3>2, Ranges
      <4> QED
        BY <3>1, <4>1
    <3> QED
      BY <3>1, <3>2, <3>4, <3>5
  <2>2. CASE i \notin 1..Len(capture)
    <3>1. a = l
      BY <1>1, <2>2
    <3> QED
      BY <1>3, <3>1
  <2> QED
    BY <2>1, <2>2
<1>4. ASSUME NEW i \in DOMAIN capture', capture'[i].line.kind = "ack", NEW j \in DOMAIN capture'
      PROVE  Vouches(capture'[i].line, capture'[j].line)
  <2> DEFINE a == capture'[i].line
             e == capture'[j].line
  <2>1. CASE j \in 1..Len(capture)
    <3>1. e = capture[j].line /\ e \in Line /\ (e.kind = "end" => Replayable(e))
      BY <1>1, <2>1 DEF Truthful
    <3>2. Acknowledges(a, e) /\ UNCHANGED owed
      BY <1>1, <1>3, <1>4, <2>1, <3>1
    <3> QED
      BY <1>2, <3>1, <3>2
  <2>2. CASE j \notin 1..Len(capture)
    <3>1. e = l /\ (l.kind = "end" => l.snap # a.snap)
      BY <1>1, <1>3, <1>4, <2>2
    <3> QED
      BY <3>1
  <2> QED
    BY <2>1, <2>2
<1>5. ASSUME NEW i \in DOMAIN capture', capture'[i].line.kind = "ack"
      PROVE  HasEnd(capture[i].line.snap)'
  <2>1. \A s : HasEnd(s) => \E j \in DOMAIN capture' : /\ Whole(capture'[j]) /\ capture'[j].line.kind = "end"
                                                     /\ capture'[j].line.snap = s
    BY EndKept DEF HasEnd, Whole
  <2>2. HasEnd(capture'[i].line.snap)
    BY <1>3, <1>5
  <2> QED
    BY <2>1, <2>2 DEF HasEnd, Whole
<1> QED
  BY <1>3, <1>4, <1>5 DEF Acked, Acknowledges, NoneCut

\* What the host accepted stays accepted, and the slots it names stay published.
LEMMA ReceivedKept ==
  ASSUME Received, Stable, StoreKinds, UNCHANGED receipt, host = "receipt" => UNCHANGED <<host, owed>>
  PROVE  Received'
<1>1. CASE receipt = NoReceipt
  BY <1>1 DEF Received, AckFresh, NoReceipt
<1>2. CASE receipt # NoReceipt
  <2>1. /\ host = "receipt" /\ UNCHANGED <<host, owed>>
        /\ receipt.records \in Seq(RecordType) /\ Len(receipt.records) <= Capacity
    BY <1>2 DEF Received
  <2>2. \A i \in DOMAIN receipt.records : i - 1 \in 0..(Capacity - 1)
    BY <2>1, LimitAssumption
  <2>3. \A i \in DOMAIN receipt.records : slots'[i - 1] = slots[i - 1]
    BY <1>2, <2>2 DEF Received, AckFresh, Stable
  <2> QED
    BY <1>2, <2>1, <2>3 DEF Received, AckFresh, NoReceipt
<1> QED
  BY <1>1, <1>2

-----------------------------------------------------------------------------
(***************************************************************************)
(* The steps.                                                              *)
(***************************************************************************)

\* Every record a checked snapshot counts is published.
LEMMA SampleReady ==
  ASSUME StoreKinds, WorkerKinds, UartKinds, Sampled, Truthful, Current, Emitted,
         pc \in {"checkCount", "checkDropped", "checkTruncated", "ack"}
  PROVE  \A r \in 0..(sample.count - 1) : slots[r].ready
<1>1. PICK j \in DOMAIN capture : capture[j].line.kind = "end" /\ capture[j].line.snap = replay
  BY DEF Emitted, HasEnd
<1>2. capture[j].line.count = sample.count
  BY <1>1 DEF Current, IsRecord, InSnapshot
<1> QED
  BY <1>1, <1>2 DEF Truthful, Replayable

\* A step of a producer leaves the worker, the wire and the host as they were.
LEMMA AppendKeeps ==
  ASSUME IInv, StoreInv', Stable,
         UNCHANGED <<pc, attempt, uart, stalls, capture, rx, hostVars>>
  PROVE  IInv'
<1> USE DEF IInv, attempt, uart, hostVars
<1>1. StoreKinds /\ StoreKinds' /\ capture \in Seq(Physical)
  BY DEF StoreInv, UartKinds
<1>2. WorkerKinds' /\ UartKinds' /\ HostKinds'
  BY DEF WorkerKinds, UartKinds, HostKinds
<1>3. Blank \in Line /\ Grown(capture, capture', Blank) /\ Blank.kind = "blank"
  BY <1>1, NothingGrown, KindOf DEF Line, Blank
<1>4. Size <= Size' /\ {Size, Size'} \subseteq Nat
  <2>1. {reserved, reserved', Capacity} \subseteq Nat /\ reserved <= reserved'
    BY <1>1, LimitAssumption DEF Stable, StoreKinds
  <2> QED
    BY <2>1 DEF Size, Lesser
<1>5. Sampled'
  <2>1. /\ sample.count <= Size' /\ sample.dropped <= dropped' /\ sample.truncated <= truncated'
    <3>1. /\ sample.count <= Size /\ sample.dropped <= dropped /\ sample.truncated <= truncated
          /\ {sample.count, sample.dropped, sample.truncated} \subseteq Nat
      BY <1>1, Ranges DEF Sampled
    <3>2. /\ {dropped, truncated, dropped', truncated'} \subseteq Nat
          /\ dropped <= dropped' /\ truncated <= truncated'
      BY <1>1 DEF Stable, StoreKinds
    <3> QED
      BY <1>4, <3>1, <3>2
  <2>2. \A r \in 0..(sample.count - 1) : slots[r].ready => slots'[r] = slots[r]
    BY <1>1, Ranges DEF Stable
  <2>3. at \in Nat /\ at <= sample.count /\ sample.count \in Nat
    BY <1>1, Ranges
  <2> QED
    BY <2>1, <2>2, <2>3 DEF Sampled
<1>6. Truthful'
  <2>1. Replayable(Blank)'
    BY <1>3 DEF Replayable
  <2>2. sample.count <= sample'.count
    BY <1>1, Ranges
  <2> QED
    BY <1>1, <1>2, <1>3, <2>1, <2>2, TruthfulKept
<1>7. Numbered' /\ Current'
  BY <1>1, <1>2, <1>3, NumberedKept, CurrentKept DEF IsRecord, Onward
<1>8. EndsWhole'
  <2>1. Len(capture) \in Nat
    BY <1>1
  <2>2. \A r \in 0..(at' - 1) : r < at
    BY <1>1, Ranges
  <2> QED
    BY <1>1, <1>3, <2>1, <2>2, EndsWholeKept
<1>9. Emitted' /\ Requested'
  BY DEF Emitted, Requested, HasEnd, Whole
<1>10. Answerable'
  <2>1. owed.count <= Size' /\ owed.dropped <= dropped'
    BY <1>1, <1>4 DEF Stable, Answerable, HostKinds, CounterType, StoreKinds
  <2>2. pc = "ack" => \A r \in 0..(sample.count - 1) : slots'[r] = slots[r]
    BY <1>1, SampleReady, Ranges DEF Stable
  <2> QED
    BY <2>1, <2>2 DEF Answerable, NoneCut
<1>11. Acked'
  BY <1>1, <1>2, <1>3, AckedKept DEF Acked
<1>12. Received'
  BY <1>1, ReceivedKept
<1> QED
  BY <1>2, <1>5, <1>6, <1>7, <1>8, <1>9, <1>10, <1>11, <1>12

\* What is left to show of a step of the worker that adds no line of its own.
Calm ==
  /\ WorkerKinds' /\ UartKinds' /\ Sampled'
  /\ Onward /\ sample.count <= sample'.count
  /\ pc' = "emit" /\ ~failed' => at' = 0
  /\ replay < replay' \/ (replay' = replay /\ (pc' = pc \/ pc \notin {"pause", "done"}))
  /\ Emitted' /\ Requested' /\ Answerable'

\* A step of the worker that writes no record and claims nothing new keeps the invariant.
LEMMA CalmKeeps ==
  ASSUME IInv, UNCHANGED <<store, hostVars>>, Grown(capture, capture', Blank), Calm
  PROVE  IInv'
<1> USE DEF IInv, hostVars, Calm
<1>1. StoreKinds /\ capture \in Seq(Physical)
  BY DEF StoreInv, UartKinds
<1>2. StoreInv' /\ Stable /\ StoreKinds' /\ HostKinds'
  BY <1>1 DEF store, StoreInv, StoreKinds, Discipline, Holding, CutCounted, Counted, Pending, Stable,
              HostKinds
<1>3. Blank \in Line /\ Blank.kind = "blank"
  BY DEF Line, Blank
<1>6. Truthful'
  <2>1. Replayable(Blank)'
    BY <1>3 DEF Replayable
  <2> QED
    BY <1>1, <1>2, <1>3, <2>1, TruthfulKept
<1>7. Numbered' /\ Current'
  BY <1>1, <1>2, <1>3, NumberedKept, CurrentKept DEF IsRecord
<1>8. EndsWhole'
  <2>1. Len(capture) \in Nat
    BY <1>1
  <2> QED
    BY <1>1, <1>2, <1>3, <2>1, EndsWholeKept
<1>11. Acked'
  BY <1>1, <1>2, <1>3, AckedKept DEF Acked
<1>12. Received'
  BY <1>1, <1>2, ReceivedKept
<1> QED
  BY <1>2, <1>6, <1>7, <1>8, <1>11, <1>12

\* What a step of the worker starts from.
Facts ==
  /\ IInv /\ StoreKinds /\ WorkerKinds /\ UartKinds /\ HostKinds /\ Sampled /\ Emitted /\ Requested
  /\ Answerable
  /\ {Capacity, Size, sample.count, sample.dropped, sample.truncated, at, replay} \subseteq Nat
  /\ Size <= Capacity /\ at <= sample.count
\* The ranges every step needs.
LEMMA FactsHold == IInv => Facts
  BY Ranges DEF IInv, StoreInv, Facts

\* What a poll leaves behind.
Polled ==
  /\ rx' \in Seq(1..TokenLength) /\ Len(rx') <= Len(rx)
  /\ match' \in 0..(TokenLength - 1) /\ latched' \in BOOLEAN
  /\ latched => latched'
  /\ rx = <<>> => rx' = <<>> /\ latched' = latched
\* A poll keeps the FIFO and the matcher in their ranges.
LEMMA PollLeaves == ASSUME IInv, Poll PROVE Polled
<1>1. /\ TokenLength \in Nat \ {0} /\ rx \in Seq(1..TokenLength) /\ match \in 0..(TokenLength - 1)
      /\ latched \in BOOLEAN
  BY LimitAssumption DEF IInv, UartKinds
<1> QED
  BY <1>1, PollMeans DEF Polled

\* The banner reaches the host, or the thread ends (criticalDumpThread).
LEMMA BootStep == ASSUME IInv, Boot, UNCHANGED <<store, hostVars>> PROVE IInv'
<1> USE LimitAssumption DEF attempt, uart, hostVars, Boot
<1>1. Facts
  BY FactsHold
<1>3. UartKinds' /\ UNCHANGED capture
  <2>1. stalls \in 0..MaxStalls /\ MaxStalls \in Nat
    BY <1>1 DEF Facts, UartKinds
  <2>2. stalls' \in 0..MaxStalls
    BY <2>1
  <2> QED
    BY <1>1, <2>2 DEF Facts, UartKinds
<1>4. WorkerKinds'
  BY <1>1 DEF Facts, WorkerKinds, WorkerPcs, CounterType, Sampled, Late
<1>5. Sampled'
  BY <1>1 DEF Facts, Sampled, Late, store, Size, WorkerKinds, CounterType
<1>6. /\ Onward /\ sample.count <= sample'.count
      /\ pc' = "emit" /\ ~failed' => at' = 0
      /\ replay < replay' \/ (replay' = replay /\ (pc' = pc \/ pc \notin {"pause", "done"}))
  BY <1>1 DEF Facts, Onward, Fresh, Sampled, WorkerKinds, CounterType, Late
<1>7. Emitted'
  BY <1>1, <1>3 DEF Facts, Emitted, HasEnd, Whole, Sampled
<1>8. Requested'
  BY <1>1 DEF Facts, Requested
<1>9. Answerable'
  BY <1>1 DEF Facts, Answerable, Requested, Emitted, NoneCut, store, Size
<1> QED
  BY <1>1, <1>3, <1>4, <1>5, <1>6, <1>7, <1>8, <1>9, CalmKeeps, NothingGrown DEF Facts, Calm, UartKinds

\* Setting the UART up again forgets no request it latched (initialize).
LEMMA RetryStep == ASSUME IInv, Retry, UNCHANGED <<store, hostVars>> PROVE IInv'
<1> USE LimitAssumption DEF attempt, uart, hostVars, Retry
<1>1. Facts
  BY FactsHold
<1>3. UartKinds' /\ UNCHANGED capture
  BY <1>1 DEF Facts, UartKinds, Reinitialise
<1>4. WorkerKinds'
  BY <1>1 DEF Facts, WorkerKinds, WorkerPcs, CounterType, Sampled, Late, Reinitialise
<1>5. Sampled'
  BY <1>1 DEF Facts, Sampled, Late, store, Size, WorkerKinds, CounterType, Reinitialise
<1>6. /\ Onward /\ sample.count <= sample'.count
      /\ pc' = "emit" /\ ~failed' => at' = 0
      /\ replay < replay' \/ (replay' = replay /\ (pc' = pc \/ pc \notin {"pause", "done"}))
  BY <1>1 DEF Facts, Onward, Fresh, Sampled, WorkerKinds, CounterType, Late, Reinitialise
<1>7. Emitted'
  BY <1>1, <1>3 DEF Facts, Emitted, HasEnd, Whole, Sampled, Reinitialise
<1>8. Requested'
  BY <1>1 DEF Facts, Requested, Reinitialise
<1>9. Answerable'
  BY <1>1 DEF Facts, Answerable, Requested, Emitted, NoneCut, store, Size, Reinitialise
<1> QED
  BY <1>1, <1>3, <1>4, <1>5, <1>6, <1>7, <1>8, <1>9, CalmKeeps, NothingGrown DEF Facts, Calm, UartKinds

\* An attempt that was asked for is final (criticalDumpThread).
LEMMA TopStep == ASSUME IInv, Top, UNCHANGED <<store, hostVars>> PROVE IInv'
<1> USE LimitAssumption DEF attempt, uart, hostVars, Top, AskedNow
<1>1. Facts
  BY FactsHold
<1>2. Polled
  BY PollLeaves
<1>3. UartKinds' /\ UNCHANGED capture
  BY <1>1, <1>2 DEF Facts, UartKinds, Polled
<1>4. WorkerKinds'
  BY <1>1, <1>2 DEF Facts, WorkerKinds, WorkerPcs, CounterType, Sampled, Late, Polled
<1>5. Sampled'
  BY <1>1 DEF Facts, Sampled, Late, store, Size, WorkerKinds, CounterType
<1>6. /\ Onward /\ sample.count <= sample'.count
      /\ pc' = "emit" /\ ~failed' => at' = 0
      /\ replay < replay' \/ (replay' = replay /\ (pc' = pc \/ pc \notin {"pause", "done"}))
  BY <1>1 DEF Facts, Onward, Fresh, Sampled, WorkerKinds, CounterType, Late
<1>7. Emitted'
  BY <1>1, <1>3 DEF Facts, Emitted, HasEnd, Whole, Sampled
<1>8. Requested'
  BY <1>1, <1>2 DEF Facts, Requested, Polled
<1>9. Answerable'
  BY <1>1, <1>2 DEF Facts, Answerable, Requested, Emitted, NoneCut, store, Size, Polled
<1> QED
  BY <1>1, <1>3, <1>4, <1>5, <1>6, <1>7, <1>8, <1>9, CalmKeeps, NothingGrown DEF Facts, Calm, UartKinds

\* The late loop listens (pollQuiesce).
LEMMA LatePollStep == ASSUME IInv, LatePoll, UNCHANGED <<store, hostVars>> PROVE IInv'
<1> USE LimitAssumption DEF attempt, uart, hostVars, LatePoll, AskedNow
<1>1. Facts
  BY FactsHold
<1>2. Polled
  BY PollLeaves
<1>3. UartKinds' /\ UNCHANGED capture
  BY <1>1, <1>2 DEF Facts, UartKinds, Polled
<1>4. WorkerKinds'
  BY <1>1, <1>2 DEF Facts, WorkerKinds, WorkerPcs, CounterType, Sampled, Late, Polled
<1>5. Sampled'
  BY <1>1 DEF Facts, Sampled, Late, store, Size, WorkerKinds, CounterType
<1>6. /\ Onward /\ sample.count <= sample'.count
      /\ pc' = "emit" /\ ~failed' => at' = 0
      /\ replay < replay' \/ (replay' = replay /\ (pc' = pc \/ pc \notin {"pause", "done"}))
  BY <1>1 DEF Facts, Onward, Fresh, Sampled, WorkerKinds, CounterType, Late
<1>7. Emitted'
  BY <1>1, <1>3 DEF Facts, Emitted, HasEnd, Whole, Sampled
<1>8. Requested'
  BY <1>1, <1>2 DEF Facts, Requested, Polled
<1>9. Answerable'
  BY <1>1, <1>2 DEF Facts, Answerable, Requested, Emitted, NoneCut, store, Size, Polled
<1> QED
  BY <1>1, <1>3, <1>4, <1>5, <1>6, <1>7, <1>8, <1>9, CalmKeeps, NothingGrown DEF Facts, Calm, UartKinds

\* The late loop takes a request up (criticalDumpThread).
LEMMA LateTopStep == ASSUME IInv, LateTop, UNCHANGED <<store, hostVars>> PROVE IInv'
<1> USE LimitAssumption DEF attempt, uart, hostVars, LateTop
<1>1. Facts
  BY FactsHold
<1>3. UartKinds' /\ UNCHANGED capture
  BY <1>1 DEF Facts, UartKinds
<1>4. WorkerKinds'
  BY <1>1 DEF Facts, WorkerKinds, WorkerPcs, CounterType, Sampled, Late
<1>5. Sampled'
  BY <1>1 DEF Facts, Sampled, Late, store, Size, WorkerKinds, CounterType
<1>6. /\ Onward /\ sample.count <= sample'.count
      /\ pc' = "emit" /\ ~failed' => at' = 0
      /\ replay < replay' \/ (replay' = replay /\ (pc' = pc \/ pc \notin {"pause", "done"}))
  BY <1>1 DEF Facts, Onward, Fresh, Sampled, WorkerKinds, CounterType, Late
<1>7. Emitted'
  BY <1>1, <1>3 DEF Facts, Emitted, HasEnd, Whole, Sampled
<1>8. Requested'
  BY <1>1 DEF Facts, Requested
<1>9. Answerable'
  BY <1>1 DEF Facts, Answerable, Requested, Emitted, NoneCut, store, Size
<1> QED
  BY <1>1, <1>3, <1>4, <1>5, <1>6, <1>7, <1>8, <1>9, CalmKeeps, NothingGrown DEF Facts, Calm, UartKinds

\* The first counter of the sample covers what the request named (emitSnapshot).
LEMMA CountStep == ASSUME IInv, Count, UNCHANGED <<store, hostVars>> PROVE IInv'
<1> USE LimitAssumption DEF attempt, uart, hostVars, Count
<1>1. Facts
  BY FactsHold
<1>3. UartKinds' /\ UNCHANGED capture
  BY <1>1 DEF Facts, UartKinds
<1>4. WorkerKinds'
  BY <1>1 DEF Facts, WorkerKinds, WorkerPcs, CounterType, Sampled, Late
<1>5. Sampled'
  BY <1>1 DEF Facts, Sampled, Late, store, Size, WorkerKinds, CounterType
<1>6. /\ Onward /\ sample.count <= sample'.count
      /\ pc' = "emit" /\ ~failed' => at' = 0
      /\ replay < replay' \/ (replay' = replay /\ (pc' = pc \/ pc \notin {"pause", "done"}))
  BY <1>1 DEF Facts, Onward, Fresh, Sampled, WorkerKinds, CounterType, Late
<1>7. Emitted'
  BY <1>1, <1>3 DEF Facts, Emitted, HasEnd, Whole, Sampled
<1>8. Requested'
  BY <1>1 DEF Facts, Requested
<1>9. Answerable'
  BY <1>1 DEF Facts, Answerable, Requested, Emitted, NoneCut, store, Size
<1> QED
  BY <1>1, <1>3, <1>4, <1>5, <1>6, <1>7, <1>8, <1>9, CalmKeeps, NothingGrown DEF Facts, Calm, UartKinds

\* The second counter of the sample (emitSnapshot).
LEMMA DroppedStep == ASSUME IInv, Dropped, UNCHANGED <<store, hostVars>> PROVE IInv'
<1> USE LimitAssumption DEF attempt, uart, hostVars, Dropped
<1>1. Facts
  BY FactsHold
<1>2. /\ sample' \in CounterType /\ sample'.dropped = dropped
      /\ sample'.count = sample.count /\ sample'.truncated = sample.truncated
  BY <1>1 DEF Facts, StoreKinds, WorkerKinds, CounterType
<1>3. UartKinds' /\ UNCHANGED capture
  BY <1>1 DEF Facts, UartKinds
<1>4. WorkerKinds'
  BY <1>1, <1>2 DEF Facts, WorkerKinds, WorkerPcs, Sampled, Late
<1>5. Sampled'
  BY <1>1, <1>2 DEF Facts, Sampled, Late, store, Size, StoreKinds
<1>6. /\ Onward /\ sample.count <= sample'.count
      /\ pc' = "emit" /\ ~failed' => at' = 0
      /\ replay < replay' \/ (replay' = replay /\ (pc' = pc \/ pc \notin {"pause", "done"}))
  BY <1>1 DEF Facts, Onward, Fresh, Sampled, WorkerKinds, CounterType, Late
<1>7. Emitted'
  BY <1>1, <1>3 DEF Facts, Emitted, HasEnd, Whole, Sampled
<1>8. Requested'
  BY <1>1 DEF Facts, Requested
<1>9. Answerable'
  BY <1>1 DEF Facts, Answerable, Requested, Emitted, NoneCut, store, Size
<1> QED
  BY <1>1, <1>3, <1>4, <1>5, <1>6, <1>7, <1>8, <1>9, CalmKeeps, NothingGrown DEF Facts, Calm, UartKinds

\* The third counter of the sample (emitSnapshot).
LEMMA TruncatedStep == ASSUME IInv, Truncated, UNCHANGED <<store, hostVars>> PROVE IInv'
<1> USE LimitAssumption DEF attempt, uart, hostVars, Truncated
<1>1. Facts
  BY FactsHold
<1>2. /\ sample' \in CounterType /\ sample'.truncated = truncated
      /\ sample'.count = sample.count /\ sample'.dropped = sample.dropped
  BY <1>1 DEF Facts, StoreKinds, WorkerKinds, CounterType
<1>3. UartKinds' /\ UNCHANGED capture
  BY <1>1 DEF Facts, UartKinds
<1>4. WorkerKinds'
  BY <1>1, <1>2 DEF Facts, WorkerKinds, WorkerPcs, Sampled, Late
<1>5. Sampled'
  BY <1>1, <1>2 DEF Facts, Sampled, Late, store, Size, StoreKinds
<1>6. /\ Onward /\ sample.count <= sample'.count
      /\ pc' = "emit" /\ ~failed' => at' = 0
      /\ replay < replay' \/ (replay' = replay /\ (pc' = pc \/ pc \notin {"pause", "done"}))
  BY <1>1 DEF Facts, Onward, Fresh, Sampled, WorkerKinds, CounterType, Late
<1>7. Emitted'
  BY <1>1, <1>3 DEF Facts, Emitted, HasEnd, Whole, Sampled
<1>8. Requested'
  BY <1>1 DEF Facts, Requested
<1>9. Answerable'
  BY <1>1 DEF Facts, Answerable, Requested, Emitted, NoneCut, store, Size
<1> QED
  BY <1>1, <1>3, <1>4, <1>5, <1>6, <1>7, <1>8, <1>9, CalmKeeps, NothingGrown DEF Facts, Calm, UartKinds

\* The loop over the slots before the first line: every record it passes is published.
LEMMA PreflightStep == ASSUME IInv, Preflight, UNCHANGED <<store, hostVars>> PROVE IInv'
<1> USE LimitAssumption DEF attempt, uart, hostVars, Preflight
<1>1. Facts
  BY FactsHold
<1>3. UartKinds' /\ UNCHANGED capture
  BY <1>1 DEF Facts, UartKinds
<1>4. WorkerKinds'
  BY <1>1 DEF Facts, WorkerKinds, WorkerPcs, CounterType, Sampled, Late
<1>5. Sampled'
  BY <1>1 DEF Facts, Sampled, Late, store, Size, WorkerKinds, CounterType
<1>6. /\ Onward /\ sample.count <= sample'.count
      /\ pc' = "emit" /\ ~failed' => at' = 0
      /\ replay < replay' \/ (replay' = replay /\ (pc' = pc \/ pc \notin {"pause", "done"}))
  BY <1>1 DEF Facts, Onward, Fresh, Sampled, WorkerKinds, CounterType, Late
<1>7. Emitted'
  BY <1>1, <1>3 DEF Facts, Emitted, HasEnd, Whole, Sampled
<1>8. Requested'
  BY <1>1 DEF Facts, Requested
<1>9. Answerable'
  BY <1>1 DEF Facts, Answerable, Requested, Emitted, NoneCut, store, Size
<1> QED
  BY <1>1, <1>3, <1>4, <1>5, <1>6, <1>7, <1>8, <1>9, CalmKeeps, NothingGrown DEF Facts, Calm, UartKinds

\* Only a snapshot that was emitted whole goes on to be checked.
LEMMA AfterStep == ASSUME IInv, After, UNCHANGED <<store, hostVars>> PROVE IInv'
<1> USE LimitAssumption DEF attempt, uart, hostVars, After, AskedNow
<1>1. Facts
  BY FactsHold
<1>2. Polled
  <2>1. CASE Late
    <3>1. UNCHANGED <<rx, match, latched>> /\ Len(rx) \in Nat
      BY <1>1, <2>1 DEF Facts, UartKinds
    <3> QED
      BY <1>1, <3>1 DEF Facts, Polled, UartKinds
  <2>2. CASE ~Late
    BY <2>2, PollLeaves
  <2> QED
    BY <2>1, <2>2
<1>3. UartKinds' /\ UNCHANGED capture
  BY <1>1, <1>2 DEF Facts, UartKinds, Polled
<1>4. WorkerKinds'
  BY <1>1, <1>2 DEF Facts, WorkerKinds, WorkerPcs, CounterType, Sampled, Late, Polled
<1>5. Sampled'
  BY <1>1 DEF Facts, Sampled, Late, store, Size, WorkerKinds, CounterType
<1>6. /\ Onward /\ sample.count <= sample'.count
      /\ pc' = "emit" /\ ~failed' => at' = 0
      /\ replay < replay' \/ (replay' = replay /\ (pc' = pc \/ pc \notin {"pause", "done"}))
  BY <1>1 DEF Facts, Onward, Fresh, Sampled, WorkerKinds, CounterType, Late
<1>7. Emitted'
  BY <1>1, <1>3 DEF Facts, Emitted, HasEnd, Whole, Sampled
<1>8. Requested'
  BY <1>1, <1>2 DEF Facts, Requested, Polled
<1>9. Answerable'
  BY <1>1, <1>2 DEF Facts, Answerable, Requested, Emitted, NoneCut, store, Size, Polled
<1> QED
  BY <1>1, <1>3, <1>4, <1>5, <1>6, <1>7, <1>8, <1>9, CalmKeeps, NothingGrown DEF Facts, Calm, UartKinds

\* Listening between two replays (pollQuiesce).
LEMMA PausePollStep == ASSUME IInv, PausePoll, UNCHANGED <<store, hostVars>> PROVE IInv'
<1> USE LimitAssumption DEF attempt, uart, hostVars, PausePoll, AskedNow
<1>1. Facts
  BY FactsHold
<1>2. Polled
  BY PollLeaves
<1>3. UartKinds' /\ UNCHANGED capture
  BY <1>1, <1>2 DEF Facts, UartKinds, Polled
<1>4. WorkerKinds'
  BY <1>1, <1>2 DEF Facts, WorkerKinds, WorkerPcs, CounterType, Sampled, Late, Polled
<1>5. Sampled'
  BY <1>1 DEF Facts, Sampled, Late, store, Size, WorkerKinds, CounterType
<1>6. /\ Onward /\ sample.count <= sample'.count
      /\ pc' = "emit" /\ ~failed' => at' = 0
      /\ replay < replay' \/ (replay' = replay /\ (pc' = pc \/ pc \notin {"pause", "done"}))
  BY <1>1 DEF Facts, Onward, Fresh, Sampled, WorkerKinds, CounterType, Late
<1>7. Emitted'
  BY <1>1, <1>3 DEF Facts, Emitted, HasEnd, Whole, Sampled
<1>8. Requested'
  BY <1>1, <1>2 DEF Facts, Requested, Polled
<1>9. Answerable'
  BY <1>1, <1>2 DEF Facts, Answerable, Requested, Emitted, NoneCut, store, Size, Polled
<1> QED
  BY <1>1, <1>3, <1>4, <1>5, <1>6, <1>7, <1>8, <1>9, CalmKeeps, NothingGrown DEF Facts, Calm, UartKinds

\* The next replay has the next number.
LEMMA ResumeStep == ASSUME IInv, Resume, UNCHANGED <<store, hostVars>> PROVE IInv'
<1> USE LimitAssumption DEF attempt, uart, hostVars, Resume
<1>1. Facts
  BY FactsHold
<1>3. UartKinds' /\ UNCHANGED capture
  BY <1>1 DEF Facts, UartKinds
<1>4. WorkerKinds'
  BY <1>1 DEF Facts, WorkerKinds, WorkerPcs, CounterType, Sampled, Late
<1>5. Sampled'
  BY <1>1 DEF Facts, Sampled, Late, store, Size, WorkerKinds, CounterType
<1>6. /\ Onward /\ sample.count <= sample'.count
      /\ pc' = "emit" /\ ~failed' => at' = 0
      /\ replay < replay' \/ (replay' = replay /\ (pc' = pc \/ pc \notin {"pause", "done"}))
  BY <1>1 DEF Facts, Onward, Fresh, Sampled, WorkerKinds, CounterType, Late
<1>7. Emitted'
  BY <1>1, <1>3 DEF Facts, Emitted, HasEnd, Whole, Sampled
<1>8. Requested'
  BY <1>1 DEF Facts, Requested
<1>9. Answerable'
  BY <1>1 DEF Facts, Answerable, Requested, Emitted, NoneCut, store, Size
<1> QED
  BY <1>1, <1>3, <1>4, <1>5, <1>6, <1>7, <1>8, <1>9, CalmKeeps, NothingGrown DEF Facts, Calm, UartKinds

\* After 180 s the numbers go on from the limit of the window.
LEMMA WindowEndsStep == ASSUME IInv, WindowEnds, UNCHANGED <<store, hostVars>> PROVE IInv'
<1> USE LimitAssumption DEF attempt, uart, hostVars, WindowEnds
<1>1. Facts
  BY FactsHold
<1>3. UartKinds' /\ UNCHANGED capture
  BY <1>1 DEF Facts, UartKinds
<1>4. WorkerKinds'
  BY <1>1 DEF Facts, WorkerKinds, WorkerPcs, CounterType, Sampled, Late
<1>5. Sampled'
  BY <1>1 DEF Facts, Sampled, Late, store, Size, WorkerKinds, CounterType
<1>6. /\ Onward /\ sample.count <= sample'.count
      /\ pc' = "emit" /\ ~failed' => at' = 0
      /\ replay < replay' \/ (replay' = replay /\ (pc' = pc \/ pc \notin {"pause", "done"}))
  BY <1>1 DEF Facts, Onward, Fresh, Sampled, WorkerKinds, CounterType, Late
<1>7. Emitted'
  BY <1>1, <1>3 DEF Facts, Emitted, HasEnd, Whole, Sampled
<1>8. Requested'
  BY <1>1 DEF Facts, Requested
<1>9. Answerable'
  BY <1>1 DEF Facts, Answerable, Requested, Emitted, NoneCut, store, Size
<1> QED
  BY <1>1, <1>3, <1>4, <1>5, <1>6, <1>7, <1>8, <1>9, CalmKeeps, NothingGrown DEF Facts, Calm, UartKinds

\* The thread ends unasked.
LEMMA GiveUpStep == ASSUME IInv, GiveUp, UNCHANGED <<store, hostVars>> PROVE IInv'
<1> USE LimitAssumption DEF attempt, uart, hostVars, GiveUp
<1>1. Facts
  BY FactsHold
<1>3. UartKinds' /\ UNCHANGED capture
  BY <1>1 DEF Facts, UartKinds
<1>4. WorkerKinds'
  BY <1>1 DEF Facts, WorkerKinds, WorkerPcs, CounterType, Sampled, Late
<1>5. Sampled'
  BY <1>1 DEF Facts, Sampled, Late, store, Size, WorkerKinds, CounterType
<1>6. /\ Onward /\ sample.count <= sample'.count
      /\ pc' = "emit" /\ ~failed' => at' = 0
      /\ replay < replay' \/ (replay' = replay /\ (pc' = pc \/ pc \notin {"pause", "done"}))
  BY <1>1 DEF Facts, Onward, Fresh, Sampled, WorkerKinds, CounterType, Late
<1>7. Emitted'
  BY <1>1, <1>3 DEF Facts, Emitted, HasEnd, Whole, Sampled
<1>8. Requested'
  BY <1>1 DEF Facts, Requested
<1>9. Answerable'
  BY <1>1 DEF Facts, Answerable, Requested, Emitted, NoneCut, store, Size
<1> QED
  BY <1>1, <1>3, <1>4, <1>5, <1>6, <1>7, <1>8, <1>9, CalmKeeps, NothingGrown DEF Facts, Calm, UartKinds


\* The comparison that ends a final attempt: an acknowledgement is due only when
\* every record the snapshot counts is known to be whole (criticalSnapshotCaughtUp).
LEMMA CheckStep == ASSUME IInv, Check, UNCHANGED <<store, hostVars>> PROVE IInv'
<1> USE LimitAssumption DEF attempt, uart, hostVars
<1>1. Facts
  BY FactsHold
<1>2. /\ UNCHANGED <<attempt, uart, stalls, capture, rx>>
      /\ pc \in {"checkCount", "checkDropped", "checkTruncated"}
      /\ pc' \in {"checkDropped", "checkTruncated", "ack", "pause"}
      /\ pc' = "ack" => sample.truncated = truncated
  BY DEF Check, Compare, Counters
<1>3. WorkerKinds' /\ UartKinds' /\ Sampled'
  BY <1>1, <1>2 DEF Facts, WorkerKinds, WorkerPcs, UartKinds, Sampled, store, Size
<1>4. /\ Onward /\ sample.count <= sample'.count
      /\ pc' # "emit"
      /\ replay' = replay /\ pc \notin {"pause", "done"}
  BY <1>1, <1>2 DEF Facts, Onward, Fresh
<1>5. Emitted' /\ Requested'
  BY <1>1, <1>2 DEF Facts, Emitted, Requested, HasEnd, Whole
<1>6. Answerable'
  <2>1. pc' = "ack" => (sample.truncated = 0 => NoneCut(sample.count))
    <3> SUFFICES ASSUME pc' = "ack", sample.truncated = 0, NEW r \in 0..(sample.count - 1)
                 PROVE  ~slots[r].record.cut
      BY DEF NoneCut
    <3>1. slots[r].ready /\ r \in DOMAIN slots
      BY <1>1, <1>2, SampleReady, Ranges DEF Facts, IInv
    <3>2. slots[r].record \in RealRecord
      BY <3>1 DEF IInv, StoreInv, Discipline
    <3>3. slots[r].record.cut \in BOOLEAN /\ truncated = 0
      BY <1>2, <3>2 DEF RealRecord
    <3> QED
      BY <3>1, <3>2, <3>3 DEF IInv, StoreInv, CutCounted
  <2> QED
    BY <1>1, <1>2, <2>1 DEF Facts, Answerable, NoneCut, store, Size
<1> QED
  BY <1>1, <1>2, <1>3, <1>4, <1>5, <1>6, CalmKeeps, NothingGrown DEF Facts, Calm, UartKinds

\* A new snapshot begins on a line of its own, its loop at the first slot
\* (beginSnapshot).
LEMMA BeginSnapshotStep == ASSUME IInv, BeginSnapshot, UNCHANGED <<store, hostVars>> PROVE IInv'
<1> USE LimitAssumption DEF hostVars
<1>1. Facts
  BY FactsHold
<1>2. /\ pc = "begin" /\ pc' = "preflight" /\ at' = 0 /\ complete' = FALSE
      /\ UNCHANGED <<replay, sample, asked, final, match, latched, rx>>
  BY DEF BeginSnapshot
<1>3. /\ Grown(capture, capture', Blank) /\ capture' \in Seq(Physical)
      /\ failed' \in BOOLEAN /\ stalls' \in 0..MaxStalls
  <2>1. capture \in Seq(Physical) /\ failed \in BOOLEAN /\ stalls \in 0..MaxStalls /\ MaxStalls \in Nat
    BY <1>1 DEF Facts, UartKinds, WorkerKinds
  <2>2. /\ Grown(capture, capture', Blank)
        /\ UNCHANGED <<failed, stalls>> \/ (stalls < MaxStalls /\ stalls' = stalls + 1 /\ failed' = TRUE)
    BY <2>1, BeginMeans DEF BeginSnapshot
  <2>3. capture' \in Seq(Physical)
    BY <2>2 DEF Grown
  <2>4. failed' \in BOOLEAN
    BY <2>1, <2>2, Zenon
  <2>5. stalls' \in 0..MaxStalls
    BY <2>1, <2>2
  <2> QED
    BY <2>2, <2>3, <2>4, <2>5
<1>4. UartKinds' /\ WorkerKinds'
  <2>1. UartKinds'
    BY <1>1, <1>2, <1>3 DEF Facts, UartKinds
  <2>2. WorkerKinds'
    <3>1. at' \in 0..sample'.count /\ pc' \in WorkerPcs
      BY <1>1, <1>2 DEF Facts, WorkerPcs
    <3> QED
      BY <1>1, <1>2, <1>3, <3>1 DEF Facts, WorkerKinds
  <2> QED
    BY <2>1, <2>2
<1>5. Sampled'
  BY <1>1, <1>2 DEF Facts, Sampled, store, Size
<1>6. /\ Onward /\ sample.count <= sample'.count
      /\ pc' # "emit"
      /\ replay' = replay /\ pc \notin {"pause", "done"}
  BY <1>1, <1>2 DEF Facts, Onward, Fresh
<1>7. Emitted' /\ Requested'
  BY <1>1, <1>2 DEF Facts, Emitted, Requested
<1>8. Answerable'
  BY <1>1, <1>2 DEF Facts, Answerable, store, Size
<1> QED
  BY <1>1, <1>3, <1>4, <1>5, <1>6, <1>7, <1>8, CalmKeeps DEF Calm

\* The log and the host do not move with the worker.
LEMMA StoreSame ==
  ASSUME IInv, UNCHANGED <<store, hostVars>>
  PROVE  StoreInv' /\ Stable /\ StoreKinds' /\ HostKinds' /\ StoreKinds
<1>1. StoreKinds
  BY DEF IInv, StoreInv
<1> QED
  BY <1>1 DEF IInv, hostVars, store, StoreInv, StoreKinds, Discipline, Holding, CutCounted, Counted,
              Pending, Stable, HostKinds

\* What every line of emitSnapshot starts from.
LEMMA Emitting ==
  ASSUME Facts, Emit, UNCHANGED <<store, hostVars>>
  PROVE  /\ pc = "emit" /\ UNCHANGED <<replay, sample, asked, final, match, latched, rx>>
         /\ at \in Nat /\ sample.count \in Nat /\ sample.count <= Capacity /\ Capacity \in Nat
         /\ capture \in Seq(Physical) /\ replay \in Nat
         /\ \A r \in 0..(sample.count - 1) : r \in 0..(Capacity - 1) /\ slots[r].ready
         /\ \/ at < sample.count /\ at' = at + 1 /\ UNCHANGED <<complete, pc>>
            \/ at = sample.count /\ complete' = TRUE /\ pc' = "after" /\ UNCHANGED at
         /\ Onward
<1>1. /\ pc = "emit" /\ UNCHANGED <<replay, sample, asked, final, match, latched, rx>>
      /\ at \in Nat /\ sample.count \in Nat /\ sample.count <= Capacity /\ Capacity \in Nat
      /\ capture \in Seq(Physical) /\ replay \in Nat /\ at <= sample.count
  BY LimitAssumption, Ranges DEF Emit, Facts, UartKinds
<1>2. \A r \in 0..(sample.count - 1) : r \in 0..(Capacity - 1) /\ slots[r].ready
  BY <1>1 DEF Facts, Sampled
<1>3. \/ at < sample.count /\ at' = at + 1 /\ UNCHANGED <<complete, pc>>
      \/ at = sample.count /\ complete' = TRUE /\ pc' = "after" /\ UNCHANGED at
  BY <1>1 DEF Emit
<1> QED
  BY <1>1, <1>2, <1>3 DEF Onward, Fresh

\* After a failure the loop goes on and writes nothing.
LEMMA SilencedStep == ASSUME IInv, Emit, failed, UNCHANGED <<store, hostVars>> PROVE IInv'
<1>1. Facts
  BY FactsHold
<1>2. /\ pc = "emit" /\ UNCHANGED <<replay, sample, asked, final, match, latched, rx>>
      /\ at \in Nat /\ sample.count \in Nat
      /\ \A r \in 0..(sample.count - 1) : slots[r].ready
      /\ \/ at < sample.count /\ at' = at + 1 /\ UNCHANGED <<complete, pc>>
         \/ at = sample.count /\ complete' = TRUE /\ pc' = "after" /\ UNCHANGED at
      /\ Onward
  BY <1>1, Emitting
<1>3. UNCHANGED <<failed, stalls, capture>>
  BY DEF Emit
<1>4. at' \in 0..sample'.count
  BY <1>2
<1>5. UartKinds' /\ Sampled'
  BY <1>1, <1>2, <1>3 DEF Facts, UartKinds, Sampled, store, Size
<1>6. WorkerKinds'
  BY <1>1, <1>2, <1>3, <1>4 DEF Facts, WorkerKinds, WorkerPcs
<1>7. Emitted' /\ Requested'
  BY <1>1, <1>2, <1>3 DEF Facts, Emitted, Requested, hostVars
<1>8. Answerable'
  BY <1>1, <1>2 DEF Facts, Answerable, hostVars, store, Size
<1>9. Grown(capture, capture', Blank)
  BY <1>1, <1>3, NothingGrown DEF Facts, UartKinds
<1>10. Calm
  BY <1>2, <1>3, <1>5, <1>6, <1>7, <1>8 DEF Calm
<1> QED
  BY <1>9, <1>10, CalmKeeps

\* Every chunk is the published record of its slot, numbered after all before it.
LEMMA ChunkStep ==
  ASSUME IInv, Emit, ~failed, at < sample.count, UNCHANGED <<store, hostVars>> PROVE IInv'
<1>1. Facts
  BY FactsHold
<1>2. /\ pc = "emit" /\ UNCHANGED <<replay, sample, asked, final, match, latched, rx>>
      /\ at \in Nat /\ sample.count \in Nat
      /\ capture \in Seq(Physical) /\ replay \in Nat
      /\ \A r \in 0..(sample.count - 1) : slots[r].ready
      /\ at' = at + 1 /\ UNCHANGED <<complete, pc>>
      /\ Onward
      /\ at \in 0..(Capacity - 1) /\ slots[at].ready
  <2>1. /\ pc = "emit" /\ UNCHANGED <<replay, sample, asked, final, match, latched, rx>>
        /\ at \in Nat /\ sample.count \in Nat
        /\ capture \in Seq(Physical) /\ replay \in Nat
        /\ \A r \in 0..(sample.count - 1) : r \in 0..(Capacity - 1) /\ slots[r].ready
        /\ Onward
    BY <1>1, Emitting
  <2>2. at \in 0..(sample.count - 1)
    BY <2>1
  <2>3. at' = at + 1 /\ UNCHANGED <<complete, pc>>
    BY DEF Emit
  <2> QED
    BY <2>1, <2>2, <2>3
<1>3. StoreInv' /\ Stable /\ StoreKinds' /\ HostKinds' /\ StoreKinds
  BY StoreSame
<1>4. PICK l \in Line : l = Chunk(replay, at, slots[at].record)
  <2>1. slots[at].record \in RecordType
    BY <1>2, <1>3 DEF StoreKinds
  <2> QED
    BY <1>2, <2>1 DEF Chunk, Line, ChunkLine
<1>5. /\ l.kind = "chunk" /\ l.snap = replay /\ l.rec = at /\ l.record = slots[at].record
      /\ Write(l)
  BY <1>4 DEF Chunk, Emit, NextLine
<1>6. /\ Grown(capture, capture', l)
      /\ \/ capture' = Append(capture, Written(l, "full", "nl")) /\ UNCHANGED <<failed, stalls>>
         \/ stalls < MaxStalls /\ stalls' = stalls + 1 /\ failed' = TRUE
  BY <1>2, <1>4, <1>5, WriteMeans
<1>7. WorkerKinds' /\ UartKinds'
  <2>1. failed' \in BOOLEAN
    BY <1>1, <1>6, Zenon DEF Facts, WorkerKinds
  <2>2. stalls' \in 0..MaxStalls
    <3>1. stalls \in 0..MaxStalls /\ MaxStalls \in Nat
      BY <1>1, LimitAssumption DEF Facts, UartKinds
    <3> QED
      BY <1>6, <3>1
  <2>3. capture' \in Seq(Physical)
    BY <1>6 DEF Grown
  <2>4. at' \in 0..sample'.count
    BY <1>2
  <2>5. WorkerKinds'
    BY <1>1, <1>2, <2>1, <2>4 DEF Facts, WorkerKinds
  <2> QED
    BY <1>1, <1>2, <2>2, <2>3, <2>5 DEF Facts, UartKinds
<1>8. Sampled'
  BY <1>1, <1>2 DEF Facts, Sampled, store, Size
<1>9. Truthful'
  <2>1. Replayable(l)'
    BY <1>2, <1>3, <1>5 DEF Replayable, StoreKinds, store
  <2> QED
    BY <1>1, <1>2, <1>3, <1>6, <1>7, <2>1, TruthfulKept DEF IInv, Facts
<1>10. Numbered'
  <2>1. ASSUME NEW i \in DOMAIN capture, IsRecord(capture[i].line) PROVE Follows(capture[i].line, l)
    <3>1. InSnapshot(capture[i].line) /\ capture[i].line.kind \in {"chunk", "end"}
      BY <2>1 DEF IInv, Current, IsRecord
    <3>2. capture[i].line.snap \in Nat
      BY <1>2, <3>1, Lines, KindOf DEF ChunkLine, EndLine
    <3> QED
      BY <1>2, <1>5, <3>1, <3>2 DEF InSnapshot, Follows
  <2> QED
    BY <1>2, <1>4, <1>6, <2>1, NumberedKept DEF IInv
<1>11. Current'
  <2>1. InSnapshot(l)'
    BY <1>2, <1>5 DEF InSnapshot, Fresh
  <2> QED
    BY <1>1, <1>2, <1>4, <1>6, <1>7, <2>1, CurrentKept DEF Facts, IInv
<1>12. EndsWhole'
  <2>1. ASSUME ~failed', NEW r \in 0..(at' - 1) PROVE r < at \/ HasChunk(Len(capture), replay, r)'
    <3> SUFFICES ASSUME ~(r < at) PROVE HasChunk(Len(capture), replay, r)'
      OBVIOUS
    <3>1. r = at
      BY <1>2
    <3>2. capture' = Append(capture, Written(l, "full", "nl"))
      BY <1>6, <2>1
    <3>3. /\ Len(capture') \in 1..Len(capture')
          /\ Whole(capture'[Len(capture')]) /\ capture'[Len(capture')].line = l
      <4>1. Written(l, "full", "nl") \in Physical
        BY <1>4 DEF Written, Physical
      <4>2. Len(capture') = Len(capture) + 1 /\ capture'[Len(capture')] = Written(l, "full", "nl")
        BY <1>2, <3>2, <4>1
      <4> QED
        BY <1>2, <4>2 DEF Written, Whole
    <3>4. l = Chunk(replay', r, slots'[r].record)
      BY <1>2, <1>4, <3>1 DEF store
    <3> QED
      BY <3>3, <3>4 DEF HasChunk, Whole
  <2>2. Len(capture) \in Nat
    BY <1>2
  <2> QED
    BY <1>1, <1>2, <1>3, <1>5, <1>6, <2>1, <2>2, EndsWholeKept DEF IInv
<1>13. Emitted' /\ Requested'
  BY <1>1, <1>2 DEF Facts, Emitted, Requested, hostVars
<1>14. Answerable'
  BY <1>1, <1>2 DEF Facts, Answerable, hostVars, store, Size
<1>15. Acked'
  BY <1>1, <1>2, <1>3, <1>5, <1>6, <1>7, AckedKept DEF IInv, hostVars, Acked
<1>16. Received'
  BY <1>3, ReceivedKept DEF IInv, hostVars
<1> QED
  BY <1>3, <1>7, <1>8, <1>9, <1>10, <1>11, <1>12, <1>13, <1>14, <1>15, <1>16 DEF IInv

\* The manifest ends a snapshot whose chunks are all there, and is its last line.
LEMMA ManifestStep ==
  ASSUME IInv, Emit, ~failed, ~(at < sample.count), UNCHANGED <<store, hostVars>> PROVE IInv'
<1>1. Facts
  BY FactsHold
<1>2. /\ pc = "emit" /\ UNCHANGED <<replay, sample, asked, final, match, latched, rx, at>>
      /\ sample.count \in Nat /\ at = sample.count /\ pc' = "after" /\ complete' = TRUE
      /\ capture \in Seq(Physical) /\ replay \in Nat
      /\ sample.dropped \in Nat /\ sample.truncated \in Nat
      /\ \A r \in 0..(sample.count - 1) : r \in 0..(Capacity - 1) /\ slots[r].ready
      /\ Onward
  <2>1. /\ pc = "emit" /\ UNCHANGED <<replay, sample, asked, final, match, latched, rx>>
        /\ at \in Nat /\ sample.count \in Nat /\ at <= sample.count
        /\ capture \in Seq(Physical) /\ replay \in Nat
        /\ \A r \in 0..(sample.count - 1) : r \in 0..(Capacity - 1) /\ slots[r].ready
        /\ Onward
    BY <1>1, Emitting DEF Facts
  <2>2. pc' = "after" /\ complete' = TRUE /\ UNCHANGED at
    BY DEF Emit
  <2>3. sample.dropped \in Nat /\ sample.truncated \in Nat
    BY <1>1 DEF Facts
  <2>4. at = sample.count
    BY <2>1
  <2> QED
    BY <2>1, <2>2, <2>3, <2>4
<1>3. StoreInv' /\ Stable /\ StoreKinds' /\ HostKinds' /\ StoreKinds
  BY StoreSame
<1>4. PICK l \in Line : l = End(replay, sample.count, sample.dropped, sample.truncated, Replayed)
  <2>1. \A i \in 1..sample.count : slots[i - 1].record \in RecordType
    <3>1. \A i \in 1..sample.count : i - 1 \in 0..(Capacity - 1)
      BY <1>2
    <3> QED
      BY <1>3, <3>1 DEF StoreKinds
  <2>2. Replayed \in Seq(RecordType)
    BY <1>2, <2>1 DEF Replayed
  <2> QED
    BY <1>2, <2>2 DEF End, Line, EndLine
<1>5. /\ l.kind = "end" /\ l.snap = replay /\ l.count = sample.count
      /\ l.dropped = sample.dropped /\ l.truncated = sample.truncated
      /\ l.digest = [i \in 1..sample.count |-> slots[i - 1].record]
      /\ Write(l)
  BY <1>4 DEF End, Replayed, Emit, NextLine
<1>6. /\ Grown(capture, capture', l)
      /\ \/ capture' = Append(capture, Written(l, "full", "nl")) /\ UNCHANGED <<failed, stalls>>
         \/ stalls < MaxStalls /\ stalls' = stalls + 1 /\ failed' = TRUE
  BY <1>2, <1>4, <1>5, WriteMeans
<1>7. WorkerKinds' /\ UartKinds'
  <2>1. failed' \in BOOLEAN
    BY <1>1, <1>6, Zenon DEF Facts, WorkerKinds
  <2>2. stalls' \in 0..MaxStalls
    <3>1. stalls \in 0..MaxStalls /\ MaxStalls \in Nat
      BY <1>1, LimitAssumption DEF Facts, UartKinds
    <3> QED
      BY <1>6, <3>1
  <2>3. capture' \in Seq(Physical)
    BY <1>6 DEF Grown
  <2>4. WorkerKinds'
    BY <1>1, <1>2, <2>1 DEF Facts, WorkerKinds, WorkerPcs
  <2> QED
    BY <1>1, <1>2, <2>2, <2>3, <2>4 DEF Facts, UartKinds
<1>8. Sampled'
  BY <1>1, <1>2 DEF Facts, Sampled, store, Size
<1>9. Truthful'
  <2>1. sample.dropped <= dropped /\ sample.truncated <= truncated
    BY <1>1 DEF Facts, Sampled
  <2>2. Replayable(l)'
    BY <1>2, <1>3, <1>5, <2>1 DEF Replayable, store
  <2> QED
    BY <1>1, <1>2, <1>3, <1>6, <1>7, <2>2, TruthfulKept DEF IInv, Facts
<1>10. Numbered'
  <2>1. ASSUME NEW i \in DOMAIN capture, IsRecord(capture[i].line) PROVE Follows(capture[i].line, l)
    <3>1. InSnapshot(capture[i].line) /\ capture[i].line.kind \in {"chunk", "end"}
      BY <2>1 DEF IInv, Current, IsRecord
    <3>2. capture[i].line.snap \in Nat
      BY <1>2, <3>1, Lines, KindOf DEF ChunkLine, EndLine
    <3>3. Replayable(capture[i].line)
      BY DEF IInv, Truthful
    <3> QED
      BY <1>2, <1>5, <3>1, <3>2, <3>3 DEF InSnapshot, Follows, Replayable
  <2> QED
    BY <1>2, <1>4, <1>6, <2>1, NumberedKept DEF IInv
<1>11. Current'
  <2>1. InSnapshot(l)'
    BY <1>2, <1>5 DEF InSnapshot, Fresh
  <2> QED
    BY <1>1, <1>2, <1>4, <1>6, <1>7, <2>1, CurrentKept DEF Facts, IInv
<1>12. EndsWhole'
  <2>1. PICK n \in Nat : n = Len(capture)
    BY <1>2
  <2>2. ASSUME NEW r \in 0..(l.count - 1) PROVE HasChunk(n, l.snap, r)'
    <3>1. HasChunk(n, l.snap, r) /\ slots'[r] = slots[r]
      BY <1>2, <1>5, <2>1 DEF IInv, EndsWhole, store
    <3>2. n <= Len(capture)
      BY <2>1
    <3>3. \E j \in 1..n : Whole(capture'[j]) /\ capture'[j].line = Chunk(l.snap, r, slots'[r].record)
      BY <1>2, <1>6, <3>1, <3>2, ChunkKept
    <3> QED
      BY <3>3 DEF HasChunk, Whole
  <2> QED
    BY <1>1, <1>2, <1>3, <1>6, <2>1, <2>2, EndsWholeKept DEF IInv
<1>13. Emitted'
  <2>1. ASSUME ~failed' PROVE HasEnd(replay)'
    <3>1. capture' = Append(capture, Written(l, "full", "nl"))
      BY <1>6, <2>1
    <3>2. Written(l, "full", "nl") \in Physical
      BY <1>4 DEF Written, Physical
    <3>3. Len(capture) + 1 \in DOMAIN capture' /\ capture'[Len(capture) + 1] = Written(l, "full", "nl")
      BY <1>2, <3>1, <3>2
    <3> QED
      BY <1>2, <1>5, <3>3 DEF HasEnd, Whole, Written
  <2> QED
    BY <1>2, <2>1 DEF Emitted
<1>14. Requested' /\ Answerable'
  BY <1>1, <1>2 DEF Facts, Requested, Answerable, hostVars, store, Size
<1>15. Acked'
  BY <1>1, <1>2, <1>3, <1>5, <1>6, <1>7, AckedKept DEF IInv, hostVars, Acked
<1>16. Received'
  BY <1>3, ReceivedKept DEF IInv, hostVars
<1> QED
  BY <1>3, <1>7, <1>8, <1>9, <1>10, <1>11, <1>12, <1>13, <1>14, <1>15, <1>16 DEF IInv

\* One line of the snapshot, its manifest, or nothing when the UART has failed (emitSnapshot).
LEMMA EmitStep == ASSUME IInv, Emit, UNCHANGED <<store, hostVars>> PROVE IInv'
  BY SilencedStep, ChunkStep, ManifestStep

\* An acknowledgement names a snapshot that has its manifest and covers the request
\* (writeQuiesced).
LEMMA AcknowledgeStep == ASSUME IInv, Acknowledge, UNCHANGED <<store, hostVars>> PROVE IInv'
<1>1. Facts
  BY FactsHold
<1>2. /\ pc = "ack" /\ UNCHANGED <<attempt, match, latched, rx>>
      /\ pc' = IF failed' THEN "pause" ELSE "done"
      /\ sample.count \in Nat /\ replay \in Nat /\ capture \in Seq(Physical)
      /\ sample.dropped \in Nat /\ sample.truncated \in Nat /\ replay < AttemptLimit
  BY <1>1 DEF Acknowledge, Facts, UartKinds, Sampled
<1>3. StoreInv' /\ Stable /\ StoreKinds' /\ HostKinds' /\ StoreKinds
  BY StoreSame
<1>4. PICK l \in Line : l = Ack(replay, sample.count)
  BY <1>2 DEF Ack, Line, AckLine
<1>5. /\ l.kind = "ack" /\ l.snap = replay /\ l.count = sample.count
      /\ Write(l)
  BY <1>4 DEF Ack, Acknowledge
<1>6. /\ Grown(capture, capture', l)
      /\ \/ capture' = Append(capture, Written(l, "full", "nl")) /\ UNCHANGED <<failed, stalls>>
         \/ stalls < MaxStalls /\ stalls' = stalls + 1 /\ failed' = TRUE
  BY <1>2, <1>4, <1>5, WriteMeans
<1>7. WorkerKinds' /\ UartKinds'
  <2>1. failed' \in BOOLEAN
    BY <1>1, <1>6, Zenon DEF Facts, WorkerKinds
  <2>2. stalls' \in 0..MaxStalls
    <3>1. stalls \in 0..MaxStalls /\ MaxStalls \in Nat
      BY <1>1, LimitAssumption DEF Facts, UartKinds
    <3> QED
      BY <1>6, <3>1
  <2>3. capture' \in Seq(Physical)
    BY <1>6 DEF Grown
  <2>4. WorkerKinds'
    BY <1>1, <1>2, <2>1 DEF Facts, WorkerKinds, WorkerPcs, attempt
  <2> QED
    BY <1>1, <1>2, <2>2, <2>3, <2>4 DEF Facts, UartKinds
<1>8. Sampled'
  BY <1>1, <1>2 DEF Facts, Sampled, store, Size, attempt
<1>9. Onward
  BY <1>2 DEF Onward, Fresh, attempt
<1>10. Truthful' /\ Numbered' /\ Current'
  <2>1. Replayable(l)' /\ ~IsRecord(l) /\ sample.count <= sample'.count
    BY <1>2, <1>5 DEF Replayable, IsRecord, attempt
  <2> QED
    BY <1>1, <1>2, <1>3, <1>4, <1>6, <1>7, <1>9, <2>1, TruthfulKept, NumberedKept, CurrentKept
       DEF IInv, Facts
<1>11. EndsWhole'
  <2>1. PICK n \in Nat : n = Len(capture)
    BY <1>2
  <2> QED
    BY <1>1, <1>2, <1>3, <1>5, <1>6, <2>1, EndsWholeKept DEF IInv
<1>12. Emitted' /\ Requested' /\ Answerable'
  BY <1>1, <1>2 DEF Facts, Emitted, Requested, Answerable, attempt, hostVars, store, Size
<1>13. Acked'
  <2>1. /\ host # "run" /\ owed.count <= l.count /\ HasEnd(l.snap)
        /\ owed.dropped <= sample.dropped /\ (sample.truncated = 0 => NoneCut(sample.count))
    BY <1>1, <1>2, <1>5 DEF Facts, Emitted, Requested, Answerable
  <2>2. ASSUME NEW j \in DOMAIN capture PROVE Acknowledges(l, capture[j].line)
    <3> SUFFICES ASSUME capture[j].line.kind = "end", capture[j].line.snap = replay
                 PROVE  /\ capture[j].line.count = sample.count
                        /\ owed.dropped <= capture[j].line.dropped
                        /\ capture[j].line.truncated = 0 => NoneCut(capture[j].line.count)
      BY <1>5 DEF Acknowledges
    <3>1. /\ capture[j].line.count = sample.count /\ capture[j].line.dropped = sample.dropped
          /\ capture[j].line.truncated = sample.truncated
      BY <1>2 DEF IInv, Current, IsRecord, InSnapshot
    <3> QED
      BY <2>1, <3>1
  <2> QED
    BY <1>1, <1>2, <1>3, <1>4, <1>5, <1>6, <1>7, <2>1, <2>2, AckedKept DEF IInv, attempt, hostVars
<1>14. Received'
  BY <1>3, ReceivedKept DEF IInv, hostVars
<1> QED
  BY <1>3, <1>7, <1>8, <1>10, <1>11, <1>12, <1>13, <1>14 DEF IInv

\* Every step of the worker keeps the invariant.
LEMMA WorkerStep == ASSUME IInv, Worker PROVE IInv'
  BY BootStep, RetryStep, TopStep, LatePollStep, LateTopStep, CountStep, DroppedStep, TruncatedStep,
     BeginSnapshotStep, PreflightStep, EmitStep, AfterStep, CheckStep, AcknowledgeStep, PausePollStep,
     ResumeStep, WindowEndsStep, GiveUpStep DEF Worker, Work

-----------------------------------------------------------------------------
(***************************************************************************)
(* The host.                                                               *)
(***************************************************************************)

\* The manifests the parser finds for a snapshot are the end lines that arrived.
LEMMA EndsMeans ==
  ASSUME NEW c, NEW s
  PROVE  Ends(c, s) = {c[i].line : i \in {j \in DOMAIN c : Decodes(c[j]) /\ c[j].line.kind = "end"
                                                        /\ c[j].line.snap = s}}
  BY DEF Ends, ToSet
\* The snapshots of a capture are those a line that decodes names.
LEMMA SnapshotsMean ==
  ASSUME NEW c
  PROVE  Snapshots(c) = {c[i].line.snap : i \in {j \in DOMAIN c : Decodes(c[j])}}
  BY DEF Snapshots, ToSet

\* What is left to show of a step of the host.
LEMMA HostCalm ==
  ASSUME IInv, UNCHANGED <<store, pc, attempt, uart, stalls, capture>>,
         UartKinds', HostKinds', Requested', Answerable', Received',
         host = "run" \/ (host' # "run" /\ UNCHANGED owed)
  PROVE  IInv'
<1>1. Facts
  BY FactsHold
<1>2. StoreInv' /\ Stable /\ StoreKinds' /\ StoreKinds
  BY <1>1 DEF IInv, store, StoreInv, StoreKinds, Discipline, Holding, CutCounted, Counted, Pending,
              Stable
<1>3. WorkerKinds' /\ Sampled' /\ Emitted' /\ UNCHANGED <<pc, replay, sample, at>>
  BY <1>1 DEF Facts, WorkerKinds, Sampled, Emitted, HasEnd, Whole, attempt, uart, store, Size
<1>4. Truthful' /\ Numbered' /\ Current' /\ EndsWhole'
  BY DEF IInv, Truthful, Replayable, Numbered, Follows, IsRecord, Current, InSnapshot, EndsWhole, HasChunk,
         Whole, attempt, uart, store
<1>5. Acked'
  <2>1. capture \in Seq(Physical) /\ Blank \in Line /\ Blank.kind = "blank"
    BY <1>1 DEF Facts, UartKinds, Line, Blank
  <2> QED
    BY <1>1, <1>2, <1>3, <2>1, NothingGrown, AckedKept DEF IInv, Acked
<1> QED
  BY <1>2, <1>3, <1>4, <1>5 DEF IInv

\* The request is published with the counters it is owed.
LEMMA PublishRequestStep ==
  ASSUME IInv, PublishRequest, UNCHANGED <<store, pc, attempt, uart, stalls>> PROVE IInv'
<1>1. Facts
  BY FactsHold
<1>2. host = "run" /\ host' = "waiting" /\ owed' = Counters /\ UNCHANGED <<inflight, receipt, patient, capture, rx>>
  BY DEF PublishRequest
<1>3. receipt = NoReceipt /\ ~final /\ ~asked
  BY <1>1, <1>2 DEF Facts, IInv, Received, Requested
<1>4. UartKinds' /\ HostKinds'
  BY <1>1, <1>2 DEF Facts, UartKinds, HostKinds, Hosts, CounterType, Counters, uart, StoreKinds
<1>5. Requested'
  BY <1>2 DEF Requested
<1>6. Answerable'
  <2>1. owed'.count = Size /\ owed'.dropped = dropped
    BY <1>2 DEF Counters
  <2>2. Size \in Nat /\ dropped \in Nat
    BY <1>1 DEF Facts, StoreKinds
  <2> QED
    BY <1>1, <1>3, <2>1, <2>2 DEF Facts, Answerable, NoneCut, attempt, store, Size
<1>7. Received'
  BY <1>2, <1>3 DEF Received, AckFresh, NoReceipt
<1> QED
  BY <1>2, <1>4, <1>5, <1>6, <1>7, HostCalm

\* The collector sends only after the request.
LEMMA SendTokenStep ==
  ASSUME IInv, SendToken, UNCHANGED <<store, pc, attempt, uart, stalls>> PROVE IInv'
<1>1. Facts
  BY FactsHold
<1>2. host = "waiting" /\ inflight' = 1 /\ UNCHANGED <<host, owed, receipt, patient, capture, rx>>
  BY DEF SendToken
<1>3. UartKinds' /\ HostKinds'
  BY <1>1, <1>2, LimitAssumption DEF Facts, UartKinds, HostKinds, uart
<1>4. Requested' /\ Answerable'
  BY <1>1, <1>2 DEF Facts, Requested, Answerable, NoneCut, attempt, store, Size
<1>5. Received'
  BY <1>2 DEF IInv, Received, AckFresh, store
<1> QED
  BY <1>2, <1>3, <1>4, <1>5, HostCalm

\* A byte of the token enters the FIFO where there is room.
LEMMA DeliverByteStep ==
  ASSUME IInv, DeliverByte, UNCHANGED <<store, pc, attempt, uart, stalls>> PROVE IInv'
<1>1. Facts
  BY FactsHold
<1>2. /\ inflight # 0 /\ Len(rx) < RxLimit /\ rx' = Append(rx, inflight)
      /\ inflight' = IF inflight = TokenLength THEN 0 ELSE inflight + 1
      /\ UNCHANGED <<host, owed, receipt, patient, capture>>
  BY DEF DeliverByte
<1>3. /\ inflight \in 1..TokenLength /\ TokenLength \in Nat /\ RxLimit \in Nat /\ host # "run"
      /\ rx \in Seq(1..TokenLength)
  BY <1>1, <1>2, LimitAssumption DEF Facts, HostKinds, UartKinds, Requested
<1>4. rx' \in Seq(1..TokenLength) /\ Len(rx') <= RxLimit /\ inflight' \in 0..TokenLength
  BY <1>2, <1>3
<1>5. UartKinds' /\ HostKinds'
  BY <1>1, <1>2, <1>4 DEF Facts, UartKinds, HostKinds, uart
<1>6. Requested' /\ Answerable'
  BY <1>1, <1>2, <1>3 DEF Facts, Requested, Answerable, NoneCut, attempt, store, Size
<1>7. Received'
  BY <1>2 DEF IInv, Received, AckFresh, store
<1> QED
  BY <1>2, <1>3, <1>5, <1>6, <1>7, HostCalm

\* The deadline of the host changes nothing it has received.
LEMMA MissedStep ==
  ASSUME IInv, Missed, UNCHANGED <<store, pc, attempt, uart, stalls>> PROVE IInv'
<1>1. Facts
  BY FactsHold
<1>2. host = "waiting" /\ host' = "missed" /\ UNCHANGED <<inflight, owed, receipt, patient, capture, rx>>
  BY DEF Missed
<1>3. UartKinds' /\ HostKinds'
  BY <1>1, <1>2 DEF Facts, UartKinds, HostKinds, Hosts, uart
<1>4. Requested' /\ Answerable'
  BY <1>1, <1>2 DEF Facts, Requested, Answerable, NoneCut, attempt, store, Size
<1>5. Received'
  BY <1>2 DEF IInv, Received, AckFresh, NoReceipt
<1> QED
  BY <1>2, <1>3, <1>4, <1>5, HostCalm

\* The host accepts an acknowledgement only of a whole and lossless snapshot that
\* covers its request (quiesce_critical_producer).
LEMMA AcceptedMeans ==
  ASSUME IInv, QuiescedState(capture) = "valid", Accepts(capture, Tolerant),
         NEW a, a = capture[LastLine(capture)].line,
         a.snap = Replay(capture).snap, a.count = Len(Replay(capture).records)
  PROVE  LET records == Replay(capture).records IN
         /\ records \in Seq(RecordType) /\ Len(records) <= Capacity
         /\ owed.count <= Len(records) /\ owed.dropped = 0
         /\ \A i \in DOMAIN records : /\ slots[i - 1].ready /\ slots[i - 1].record = records[i]
                                      /\ ~records[i].cut
<1>1. Facts /\ capture \in Seq(Physical)
  BY FactsHold DEF Facts, UartKinds
<1>2. LastLine(capture) \in DOMAIN capture /\ a.kind = "ack"
  <2>1. AckComplete(capture) = {LastLine(capture)}
    BY DEF QuiescedState
  <2> QED
    BY <2>1 DEF AckComplete, AckLines
<1> DEFINE s == Replay(capture).snap
<1>3. /\ owed.count <= a.count /\ HasEnd(s)
      /\ \A j \in DOMAIN capture : Acknowledges(a, capture[j].line)
  BY <1>2 DEF IInv, Acked
<1>4. s \in Snapshots(capture) /\ Ends(capture, s) # {} /\ s = Latest(Finished(capture))
      /\ Replay(capture).records = Records(capture, s)
  <2>1. PICK j \in DOMAIN capture : /\ Whole(capture[j]) /\ capture[j].line.kind = "end"
                                    /\ capture[j].line.snap = s
    BY <1>3 DEF HasEnd
  <2>2. Decodes(capture[j])
    BY <2>1 DEF Whole, Decodes, Transport, Terminated
  <2>3. s = Latest(Finished(capture)) /\ Replay(capture).records = Records(capture, s)
    BY DEF Replay
  <2> HIDE DEF s
  <2> QED
    BY <2>1, <2>2, <2>3, EndsMeans, SnapshotsMean
<1>5. Reconstructs(capture, s)
  BY <1>4 DEF Accepts, AcceptedAsPrefix, AcceptedStrictly
<1> HIDE DEF s
<1>6. ASSUME NEW e \in Ends(capture, s)
      PROVE  /\ e.count = a.count /\ owed.dropped <= e.dropped
             /\ e.truncated = 0 => NoneCut(e.count)
             /\ e \in EndLine /\ e.count <= Capacity
             /\ \A r \in 0..(e.count - 1) : slots[r].ready
             /\ e.digest = [i \in 1..e.count |-> slots[i - 1].record]
  <2>1. PICK j \in DOMAIN capture : /\ capture[j].line = e /\ e.kind = "end" /\ e.snap = s
    BY EndsMeans
  <2>2. e.count = a.count /\ owed.dropped <= e.dropped /\ (e.truncated = 0 => NoneCut(e.count))
    BY <1>3, <2>1 DEF Acknowledges, s
  <2>3. e \in EndLine
    BY <1>1, <2>1, Lines, KindOf
  <2>4. Replayable(e)
    BY <2>1 DEF IInv, Truthful
  <2>5. e.count \in Nat
    BY <2>3 DEF EndLine
  <2>6. e.count <= Capacity
    <3>1. e.count <= sample.count
      BY <2>1, <2>4 DEF Replayable
    <3>2. sample.count \in Nat /\ sample.count <= Capacity /\ Capacity \in Nat
      BY <1>1, Ranges DEF Facts
    <3> QED
      BY <2>5, <3>1, <3>2
  <2> QED
    BY <2>1, <2>2, <2>3, <2>4, <2>6 DEF Replayable
<1>7. owed.dropped = 0 /\ NoneCut(a.count)
  <2>1. PICK e \in Ends(capture, s) : e.dropped = 0 /\ e.truncated = 0
    BY <1>5 DEF Reconstructs
  <2>2. owed.dropped \in Nat
    BY <1>1 DEF Facts, HostKinds, CounterType
  <2>3. owed.dropped <= e.dropped /\ e.count = a.count /\ NoneCut(e.count)
    BY <1>6, <2>1
  <2>4. owed.dropped = 0
    BY <2>1, <2>2, <2>3
  <2>5. NoneCut(a.count)
    BY <2>3
  <2> QED
    BY <2>4, <2>5
<1>8. PICK e \in Ends(capture, s) : Records(capture, s) = e.digest
  BY <1>4 DEF Records
<1>9. /\ e.digest \in Seq(RecordType) /\ e.count \in Nat /\ e.count = a.count
      /\ e.digest = [i \in 1..e.count |-> slots[i - 1].record]
  BY <1>6, <1>8 DEF EndLine
<1>10. Len(e.digest) = e.count /\ DOMAIN e.digest = 1..e.count
  BY <1>9
<1>11. \A i \in 1..e.count : i - 1 \in 0..(e.count - 1) /\ slots[i - 1].record = e.digest[i]
  BY <1>9
<1> QED
  BY <1>3, <1>4, <1>6, <1>7, <1>8, <1>9, <1>10, <1>11 DEF NoneCut

\* What the host accepts answers the request (quiesce_critical_producer).
LEMMA ReadCaptureStep ==
  ASSUME IInv, ReadCapture, UNCHANGED <<store, pc, attempt, uart, stalls>> PROVE IInv'
<1>1. Facts
  BY FactsHold
<1>2. /\ host = "waiting" /\ host' \in {"receipt", "error"}
      /\ UNCHANGED <<inflight, owed, patient, capture, rx>>
      /\ host' = "error" => UNCHANGED receipt
  BY DEF ReadCapture
<1>3. UartKinds' /\ HostKinds'
  BY <1>1, <1>2 DEF Facts, UartKinds, HostKinds, Hosts, uart
<1>4. Requested' /\ Answerable'
  BY <1>1, <1>2 DEF Facts, Requested, Answerable, NoneCut, attempt, store, Size
<1>5. Received'
  <2>1. CASE host' = "error"
    BY <1>2, <2>1 DEF IInv, Received, AckFresh, NoReceipt
  <2>2. CASE host' = "receipt"
    <3>1. /\ QuiescedState(capture) = "valid" /\ Accepts(capture, Tolerant)
          /\ capture[LastLine(capture)].line.snap = Replay(capture).snap
          /\ capture[LastLine(capture)].line.count = Len(Replay(capture).records)
          /\ receipt' = [snap |-> Replay(capture).snap, records |-> Replay(capture).records,
                         capture |-> capture]
      BY <2>2 DEF ReadCapture
    <3>2. receipt'.records = Replay(capture).records
      BY <3>1
    <3>3. /\ receipt'.records \in Seq(RecordType) /\ Len(receipt'.records) <= Capacity
          /\ owed.count <= Len(receipt'.records) /\ owed.dropped = 0
          /\ \A i \in DOMAIN receipt'.records :
               /\ slots[i - 1].ready /\ slots[i - 1].record = receipt'.records[i]
               /\ ~receipt'.records[i].cut
      BY <3>1, <3>2, AcceptedMeans
    <3> QED
      BY <1>2, <2>2, <3>3 DEF Received, AckFresh, store
  <2> QED
    BY <1>2, <2>1, <2>2
<1> QED
  BY <1>2, <1>3, <1>4, <1>5, HostCalm

\* Every step of the host keeps the invariant.
LEMMA HostStep == ASSUME IInv, Host PROVE IInv'
  BY PublishRequestStep, SendTokenStep, DeliverByteStep, MissedStep, ReadCaptureStep DEF Host

-----------------------------------------------------------------------------
(***************************************************************************)
(* The theorems.                                                           *)
(***************************************************************************)
LEMMA InitHolds == Init => IInv
<1> SUFFICES ASSUME Init PROVE IInv
  OBVIOUS
<1>1. StoreInv
  <2>1. StoreKinds /\ Discipline /\ CutCounted
    BY LimitAssumption, NoRecordIsNone
       DEF Init, StoreKinds, Discipline, CutCounted, Holding, Idle, RecordType
  <2>2. Pending = {}
    BY DEF Init, Pending, Idle
  <2>3. Counted
    BY <2>2, FS_EmptySet DEF Init, Counted
  <2> QED
    BY <2>1, <2>3 DEF StoreInv
<1>2. WorkerKinds /\ HostKinds
  <2>1. /\ Capacity \in Nat /\ AttemptLimit \in Nat /\ TokenLength \in Nat
        /\ pc \in WorkerPcs /\ replay = 0 /\ at = 0 /\ inflight = 0 /\ host \in Hosts
        /\ sample = [count |-> 0, dropped |-> 0, truncated |-> 0]
        /\ owed = [count |-> 0, dropped |-> 0, truncated |-> 0]
    BY LimitAssumption DEF Init, WorkerPcs, Hosts
  <2>2. sample \in CounterType /\ owed \in CounterType /\ sample.count = 0
    BY <2>1 DEF CounterType
  <2>3. {complete, asked, final, failed} \subseteq BOOLEAN
    BY DEF Init
  <2> QED
    BY <2>1, <2>2, <2>3 DEF WorkerKinds, HostKinds
<1>3. UartKinds
  <2>1. TokenLength \in Nat \ {0} /\ RxLimit \in Nat \ {0} /\ MaxStalls \in Nat
    BY LimitAssumption
  <2>2. /\ latched \in BOOLEAN /\ match = 0 /\ stalls = 0 /\ rx = <<>> /\ capture = <<>>
    BY DEF Init
  <2> QED
    BY <2>1, <2>2 DEF UartKinds
<1>4. Sampled /\ Emitted /\ Requested
  BY LimitAssumption DEF Init, Sampled, Size, Lesser, Emitted, Requested
<1>5. Truthful /\ Numbered /\ Current /\ EndsWhole /\ Acked
  BY DEF Init, Truthful, Numbered, Current, EndsWhole, Acked
<1>6. Answerable /\ Received
  BY LimitAssumption DEF Init, Answerable, Size, Lesser, Received, AckFresh
<1> QED
  BY <1>1, <1>2, <1>3, <1>4, <1>5, <1>6 DEF IInv

\* Every step keeps the invariant.
LEMMA StepHolds == ASSUME IInv, [Next]_vars PROVE IInv'
<1>1. StoreInv' /\ Stable
  BY StoreStep DEF IInv
<1>2. ASSUME NEW p \in Producers, Append1(p) PROVE IInv'
  BY <1>1, <1>2, AppendKeeps DEF Append1
<1>3. ASSUME UNCHANGED vars PROVE IInv'
  BY <1>1, <1>3, AppendKeeps DEF vars
<1> QED
  BY <1>2, <1>3, WorkerStep, HostStep DEF Next

\* The inductive invariant holds of every behaviour: in particular the store discipline of
\* DiagnosticRecords::append and the order of the lines criticalDumpThread writes.
THEOREM InvariantHolds == Spec => []IInv
  BY InitHolds, StepHolds, PTL DEF Spec

\* Type correctness: no index, counter or label of the log, of the worker or of the
\* host leaves its range, whatever the constants.
THEOREM TypeCorrect == Spec => []TypeOK
<1>1. ASSUME IInv PROVE TypeOK
  <2>1. Facts
    BY <1>1, FactsHold
  <2>2. dropped + truncated <= reserved
    <3>1. Cardinality(Pending) \in Nat /\ dropped + truncated + Cardinality(Pending) <= reserved
      BY <1>1, FS_CardinalityType DEF IInv, StoreInv, Counted
    <3>2. {dropped, truncated, reserved} \subseteq Nat
      BY <2>1 DEF Facts, StoreKinds
    <3>3. \A a, b, c, n \in Nat : a + b + n <= c => a + b <= c
      OBVIOUS
    <3> QED
      BY <3>1, <3>2, <3>3
  <2>3. ASSUME NEW p \in Producers
        PROVE  /\ job[p].pc \in {"idle", "drop", "copy", "publish"} /\ appended[p] \in 0..MaxAppends
               /\ job[p].pc \in {"copy", "publish"} => job[p].seq \in DOMAIN slots
                                                          /\ ~slots[job[p].seq].ready
    <3>1. job[p].seq \in Nat /\ Capacity \in Nat /\ DOMAIN slots = 0..(Capacity - 1)
      BY <2>1 DEF Facts, StoreKinds
    <3> QED
      BY <1>1, <2>1, <3>1 DEF IInv, StoreInv, Discipline, Holding, Facts, StoreKinds
  <2>4. sample.count \in 0..Capacity /\ at \in 0..sample.count
    BY <2>1, Ranges DEF Facts, WorkerKinds
  <2> QED
    BY <2>1, <2>2, <2>3, <2>4 DEF TypeOK, Facts, StoreKinds, WorkerKinds, UartKinds, HostKinds
<1> QED
  BY <1>1, InvariantHolds, PTL

\* The acknowledgement is proof: what the host accepted holds every record that had a
\* number when it asked, each as it was written and none cut or dropped.
THEOREM AckFreshAlways == Spec => []AckFresh
<1>1. IInv => AckFresh
  BY DEF IInv, Received
<1> QED
  BY <1>1, InvariantHolds, PTL

\* A manifest in the capture counts published records, and its digest is theirs.
LEMMA EndsKnown ==
  ASSUME IInv, NEW s, NEW e \in Ends(capture, s)
  PROVE  /\ e \in EndLine /\ e.kind = "end" /\ e.snap = s /\ e.count \in Nat
         /\ e.dropped \in Nat /\ e.truncated \in Nat
         /\ e.dropped <= dropped /\ e.truncated <= truncated
         /\ \E i \in DOMAIN capture : capture[i].line = e /\ capture[i].text = "full"
         /\ Len(e.digest) = e.count /\ e.digest \in Seq(RecordType)
         /\ \A i \in 1..e.count : e.digest[i] = slots[i - 1].record
<1>1. PICK i \in DOMAIN capture : capture[i].line = e /\ Decodes(capture[i]) /\ e.kind = "end" /\ e.snap = s
  BY EndsMeans
<1>2. e \in EndLine /\ Replayable(e)
  <2>1. capture \in Seq(Physical)
    BY DEF IInv, UartKinds
  <2> QED
    BY <1>1, <2>1, Lines, KindOf DEF IInv, Truthful
<1>3. /\ e.count \in Nat /\ e.dropped \in Nat /\ e.truncated \in Nat
      /\ e.digest \in Seq(RecordType)
  BY <1>2 DEF EndLine
<1>4. e.digest = [j \in 1..e.count |-> slots[j - 1].record]
      /\ e.dropped <= dropped /\ e.truncated <= truncated
  BY <1>1, <1>2 DEF Replayable
<1>5. Len(e.digest) = e.count
  <2>1. DOMAIN e.digest = 1..e.count
    BY <1>4
  <2> QED
    BY <1>3, <2>1, LenProperties
<1>6. \A j \in 1..e.count : e.digest[j] = slots[j - 1].record
  BY <1>4
<1> QED
  BY <1>1, <1>2, <1>3, <1>4, <1>5, <1>6 DEF Decodes

\* A manifest that arrived in full has its chunks: from Truthful and EndsWhole.
LEMMA WholeHolds == IInv => EndMeansWhole
<1> SUFFICES ASSUME IInv, NEW i \in DOMAIN capture, capture[i].line.kind = "end", capture[i].text = "full",
                    NEW r \in 0..(capture[i].line.count - 1)
             PROVE  LET e == capture[i].line IN
                    /\ slots[r].ready /\ e.digest[r + 1] = slots[r].record
                    /\ \E j \in 1..(i - 1) :
                         capture[j] = Written(Chunk(e.snap, r, slots[r].record), "full", "nl")
  BY DEF EndMeansWhole
<1> DEFINE e == capture[i].line
<1>1. capture \in Seq(Physical) /\ i \in 1..Len(capture) /\ Len(capture) \in Nat
  BY Lines DEF IInv, UartKinds
<1>2. e.count \in Nat /\ Replayable(e)
  BY <1>1, Lines, KindOf DEF IInv, Truthful, EndLine
<1>3. slots[r].ready
  BY <1>2 DEF Replayable
<1>4. e.digest[r + 1] = slots[r].record
  <2>1. r + 1 \in 1..e.count /\ (r + 1) - 1 = r
    BY <1>2
  <2>2. e.digest = [j \in 1..e.count |-> slots[j - 1].record]
    BY <1>2 DEF Replayable
  <2> HIDE DEF e
  <2> QED
    BY <2>1, <2>2
<1>5. PICK j \in 1..(i - 1) : Whole(capture[j]) /\ capture[j].line = Chunk(e.snap, r, slots[r].record)
  BY DEF IInv, EndsWhole, HasChunk
<1>6. capture[j] \in Physical
  BY <1>1
<1>7. \A p \in Physical : Whole(p) => p = Written(p.line, "full", "nl")
  BY DEF Physical, Whole, Written
<1> QED
  BY <1>3, <1>4, <1>5, <1>6, <1>7

\* No two lines conflict: from Truthful and Numbered.
LEMMA ConsistentHolds == IInv => CaptureConsistent
<1> SUFFICES ASSUME IInv PROVE CaptureConsistent
  OBVIOUS
<1>1. capture \in Seq(Physical) /\ DOMAIN capture = 1..Len(capture) /\ Len(capture) \in Nat
  BY Lines DEF IInv, UartKinds
<1>2. ASSUME NEW i \in DOMAIN capture, NEW j \in DOMAIN capture, i < j,
             IsRecord(capture[i].line), IsRecord(capture[j].line)
      PROVE  Follows(capture[i].line, capture[j].line)
  BY <1>2 DEF IInv, Numbered
<1>3. Ordered(capture)
  BY <1>2 DEF Ordered, Decodes, Transport, IsRecord, Follows
<1>4. \A s : \A e, f \in Ends(capture, s) : e = f
  <2> SUFFICES ASSUME NEW s, NEW e \in Ends(capture, s), NEW f \in Ends(capture, s), e # f PROVE FALSE
    OBVIOUS
  <2>1. PICK i \in DOMAIN capture : capture[i].line = e
    BY EndsKnown
  <2>2. PICK j \in DOMAIN capture : capture[j].line = f
    BY EndsKnown
  <2>3. e.kind = "end" /\ f.kind = "end" /\ e.snap = s /\ f.snap = s /\ e \in EndLine /\ s \in Nat
    BY EndsKnown DEF EndLine
  <2>4. i < j \/ j < i
    BY <1>1, <2>1, <2>2
  <2>5. s < s
    BY <1>2, <2>1, <2>2, <2>3, <2>4 DEF Follows, IsRecord
  <2> QED
    BY <2>3, <2>5
<1>5. \A s : \A k, l \in Chunks(capture, s) : k.rec = l.rec => k = l
  <2> SUFFICES ASSUME NEW s, NEW k \in Chunks(capture, s), NEW l \in Chunks(capture, s), k.rec = l.rec
               PROVE  k = l
    OBVIOUS
  <2>1. \A m \in Chunks(capture, s) : /\ m \in ChunkLine /\ m.snap = s /\ m.record = slots[m.rec].record
    <3> TAKE m \in Chunks(capture, s)
    <3>1. PICK i \in DOMAIN capture : capture[i].line = m /\ m.kind = "chunk" /\ m.snap = s
      BY DEF Chunks, ToSet
    <3> QED
      BY <1>1, <3>1, Lines, KindOf DEF IInv, Truthful, Replayable
  <2> QED
    BY <2>1 DEF ChunkLine
<1>6. ASSUME NEW s \in Finished(capture), NEW t \in Finished(capture), s < t
      PROVE  IsPrefix(Records(capture, s), Records(capture, t))
  <2>1. PICK e \in Ends(capture, s) : Records(capture, s) = e.digest
    BY DEF Finished, Records
  <2>2. PICK f \in Ends(capture, t) : Records(capture, t) = f.digest
    BY DEF Finished, Records
  <2>3. PICK i \in DOMAIN capture : capture[i].line = e
    BY EndsKnown
  <2>4. PICK j \in DOMAIN capture : capture[j].line = f
    BY EndsKnown
  <2>5. /\ e.kind = "end" /\ f.kind = "end" /\ e.snap = s /\ f.snap = t /\ s \in Nat /\ t \in Nat
        /\ e.count \in Nat /\ f.count \in Nat
    BY EndsKnown DEF EndLine
  <2>6. e.count <= f.count
    <3>1. i # j
      BY <1>6, <2>3, <2>4, <2>5
    <3>2. ~(j < i)
      <4> SUFFICES ASSUME j < i PROVE FALSE
        OBVIOUS
      <4>1. t <= s
        BY <1>2, <2>3, <2>4, <2>5 DEF Follows, IsRecord
      <4> QED
        BY <1>6, <2>5, <4>1
    <3>3. i < j
      BY <1>1, <3>1, <3>2
    <3> QED
      BY <1>2, <2>3, <2>4, <2>5, <3>3 DEF Follows, IsRecord
  <2>7. /\ Len(e.digest) = e.count /\ Len(f.digest) = f.count
        /\ e.digest \in Seq(RecordType) /\ f.digest \in Seq(RecordType)
        /\ \A n \in 1..e.count : e.digest[n] = f.digest[n]
    <3>1. \A n \in 1..e.count : n \in 1..f.count
      BY <2>5, <2>6
    <3> QED
      BY <3>1, EndsKnown
  <2>8. SubSeq(e.digest, 1, e.count) = SubSeq(f.digest, 1, e.count)
    <3>1. /\ SubSeq(e.digest, 1, e.count) = [n \in 1..e.count |-> e.digest[n]]
          /\ SubSeq(f.digest, 1, e.count) = [n \in 1..e.count |-> f.digest[n]]
      BY <2>5, <2>6, <2>7
    <3> QED
      BY <2>7, <3>1
  <2> QED
    BY <2>1, <2>2, <2>6, <2>7, <2>8 DEF IsPrefix
<1> QED
  BY <1>3, <1>4, <1>5, <1>6 DEF CaptureConsistent, Agreeing

\* Whatever a step writes, it adds one line at most and changes none that ended well.
LEMMA CaptureGrows ==
  ASSUME IInv, [Next]_vars PROVE \E l : Grown(capture, capture', l)
<1>1. Facts /\ capture \in Seq(Physical)
  BY FactsHold DEF Facts, UartKinds
<1>2. CASE UNCHANGED capture
  BY <1>1, <1>2, NothingGrown
<1>3. CASE BeginSnapshot
  BY <1>1, <1>3, BeginMeans DEF BeginSnapshot
<1>4. CASE Emit /\ ~failed
  <2>1. CASE at < sample.count
    <3>1. /\ replay \in Nat /\ at \in Nat /\ slots[at].record \in RecordType
      <4>1. replay \in Nat /\ at \in Nat /\ at \in 0..(Capacity - 1)
        BY <1>1, <2>1, Ranges DEF Facts
      <4> QED
        BY <1>1, <4>1 DEF Facts, StoreKinds
    <3>2. Chunk(replay, at, slots[at].record) \in Line
      BY <3>1 DEF Chunk, Line, ChunkLine
    <3>3. Write(Chunk(replay, at, slots[at].record))
      BY <1>4, <2>1 DEF Emit, NextLine
    <3> QED
      BY <1>1, <3>2, <3>3, WriteMeans
  <2>2. CASE ~(at < sample.count)
    <3>1. /\ replay \in Nat /\ sample.count \in Nat /\ sample.count <= Capacity /\ Capacity \in Nat
          /\ sample.dropped \in Nat /\ sample.truncated \in Nat
      BY <1>1, Ranges DEF Facts
    <3>2. \A i \in 1..sample.count : i - 1 \in 0..(Capacity - 1)
      BY <3>1
    <3>3. Replayed \in Seq(RecordType)
      <4>1. \A i \in 1..sample.count : slots[i - 1].record \in RecordType
        BY <1>1, <3>2 DEF Facts, StoreKinds
      <4> QED
        BY <3>1, <4>1 DEF Replayed
    <3>4. End(replay, sample.count, sample.dropped, sample.truncated, Replayed) \in Line
      BY <3>1, <3>3 DEF End, Line, EndLine
    <3>5. Write(End(replay, sample.count, sample.dropped, sample.truncated, Replayed))
      BY <1>4, <2>2 DEF Emit, NextLine
    <3> QED
      BY <1>1, <3>4, <3>5, WriteMeans
  <2> QED
    BY <2>1, <2>2
<1>5. CASE Acknowledge
  <2>1. replay \in Nat /\ sample.count \in Nat
    BY <1>1, Ranges DEF Facts
  <2>2. Ack(replay, sample.count) \in Line
    BY <2>1 DEF Ack, Line, AckLine
  <2> QED
    BY <1>1, <1>5, <2>2, WriteMeans DEF Acknowledge
<1>6. CASE Emit /\ failed
  BY <1>2, <1>6 DEF Emit
<1>7. CASE Worker
  BY <1>2, <1>3, <1>4, <1>5, <1>6, <1>7
     DEF Worker, Work, Boot, Retry, Top, LatePoll, LateTop, Count, Dropped, Truncated, Preflight, After,
         Check, Compare, PausePoll, Resume, WindowEnds, GiveUp
<1> QED
  BY <1>2, <1>7
     DEF Next, vars, Append1, Host, PublishRequest, SendToken, DeliverByte, ReadCapture, Missed

\* The manifest the host accepted is in the capture.
Standing ==
  receipt # NoReceipt =>
    \E j \in DOMAIN capture :
      /\ Whole(capture[j]) /\ capture[j].line.kind = "end"
      /\ capture[j].line.snap = receipt.snap /\ capture[j].line.digest = receipt.records

\* The records of a snapshot are those of any manifest of it that arrived.
LEMMA RecordsAre ==
  ASSUME IInv, NEW j \in DOMAIN capture, Whole(capture[j]), capture[j].line.kind = "end",
         NEW s, s = capture[j].line.snap
  PROVE  s \in Finished(capture) /\ Records(capture, s) = capture[j].line.digest
<1> DEFINE e == capture[j].line
<1>1. Decodes(capture[j])
  BY DEF Whole, Decodes, Transport, Terminated
<1>2. e \in Ends(capture, s) /\ s \in Snapshots(capture)
  BY <1>1, EndsMeans, SnapshotsMean
<1>3. \A f \in Ends(capture, s) : f = e
  BY <1>2, ConsistentHolds DEF CaptureConsistent, Agreeing
<1> HIDE DEF e
<1>4. (CHOOSE f \in Ends(capture, s) : TRUE) = e
  BY <1>2, <1>3
<1> QED
  BY <1>2, <1>4 DEF Finished, Records, e

\* A receipt is taken over a manifest that ended well, and no later write touches it.
LEMMA StandingStep == ASSUME IInv, Standing, [Next]_vars PROVE Standing'
<1>1. CASE UNCHANGED receipt
  <2> SUFFICES ASSUME receipt # NoReceipt PROVE Standing'
    BY <1>1 DEF Standing
  <2>1. PICK j \in DOMAIN capture :
          /\ Whole(capture[j]) /\ capture[j].line.kind = "end"
          /\ capture[j].line.snap = receipt.snap /\ capture[j].line.digest = receipt.records
    BY DEF Standing
  <2>2. PICK l : Grown(capture, capture', l)
    BY CaptureGrows
  <2>3. capture \in Seq(Physical)
    BY DEF IInv, UartKinds
  <2>4. j \in DOMAIN capture' /\ capture'[j] = capture[j]
    BY <2>1, <2>2, <2>3, GrownLines DEF Whole
  <2> QED
    BY <1>1, <2>1, <2>4 DEF Standing, Whole
<1>2. CASE ReadCapture /\ host' = "receipt"
  <2>1. /\ QuiescedState(capture) = "valid"
        /\ capture[LastLine(capture)].line.snap = Replay(capture).snap
        /\ receipt' = [snap |-> Replay(capture).snap, records |-> Replay(capture).records,
                       capture |-> capture]
        /\ UNCHANGED capture
    BY <1>2 DEF ReadCapture
  <2> DEFINE s == Replay(capture).snap
  <2>2. LastLine(capture) \in DOMAIN capture /\ capture[LastLine(capture)].line.kind = "ack"
    <3>1. AckComplete(capture) = {LastLine(capture)}
      BY <2>1 DEF QuiescedState
    <3> QED
      BY <3>1 DEF AckComplete, AckLines
  <2>3. HasEnd(s)
    BY <2>1, <2>2 DEF IInv, Acked
  <2>4. Replay(capture).records = Records(capture, s)
    BY DEF Replay
  <2> HIDE DEF s
  <2>5. PICK j \in DOMAIN capture : /\ Whole(capture[j]) /\ capture[j].line.kind = "end"
                                    /\ capture[j].line.snap = s
    BY <2>3 DEF HasEnd
  <2>6. Records(capture, s) = capture[j].line.digest
    BY <2>5, RecordsAre
  <2>7. receipt'.snap = s /\ receipt'.records = capture[j].line.digest
    BY <2>1, <2>4, <2>6 DEF s
  <2> QED
    BY <2>1, <2>5, <2>7 DEF Standing, Whole
<1> QED
  BY <1>1, <1>2
     DEF Next, vars, Append1, Worker, Host, PublishRequest, SendToken, DeliverByte, ReadCapture, Missed, hostVars

\* Whatever a stall cuts, the capture never contradicts the log or itself, a manifest
\* that arrived vouches for records that arrived, and what was accepted stands.
THEOREM CaptureSoundAlways == Spec => []CaptureSound
<1>1. Init => Standing
  BY DEF Init, Standing
<1>2. IInv /\ Standing /\ [Next]_vars => Standing'
  BY StandingStep
<1>3. IInv /\ Standing => ReceiptStands
  BY RecordsAre DEF Standing, ReceiptStands
<1>4. IInv /\ Standing => CaptureSound
  BY <1>3, WholeHolds, ConsistentHolds DEF CaptureSound
<1> QED
  BY <1>1, <1>2, <1>4, InvariantHolds, PTL DEF Spec

-----------------------------------------------------------------------------
(***************************************************************************)
(* The exchange while no write stalls.                                     *)
(***************************************************************************)

\* A step that writes nothing disturbs nothing, unless it leaves a snapshot unended
\* or goes on after the last word.
LEMMA SmoothQuiet ==
  ASSUME Smooth, UNCHANGED <<capture, failed>>,
         pc = "emit" => pc' = "emit" /\ replay' = replay,
         pc = "done" => pc' = "done"
  PROVE  Smooth'
  BY DEF Smooth, HasEnd, Whole, IsRecord

\* What a write does then.
LEMMA SmoothWrite ==
  ASSUME MaxStalls = 0, IInv, Smooth, pc # "done", UNCHANGED failed,
         NEW l \in Line, NEW t \in {"full", "part", "short"}, l # Blank => t = "full",
         capture' = Append(capture, Written(l, t, "nl")),
         l.kind = "ack" => pc' = "done" /\ l.snap = replay,
         l.kind = "chunk" => pc = "emit" /\ pc' = "emit" /\ l.snap = replay,
         pc = "emit" => replay' = replay /\ (pc' = "emit" \/ (l.kind = "end" /\ l.snap = replay))
  PROVE  Smooth'
<1>1. capture \in Seq(Physical) /\ Len(capture) \in Nat /\ DOMAIN capture = 1..Len(capture)
  BY Lines DEF IInv, UartKinds
<1> DEFINE x == Written(l, t, "nl")
           n == Len(capture) + 1
<1>2. x \in Physical /\ x.line = l /\ x.text = t /\ x.end = "nl"
  BY DEF Written, Physical
<1> HIDE DEF x
<1>3. /\ DOMAIN capture' = 1..n /\ Len(capture') = n /\ n \in Nat /\ capture'[n] = x
      /\ \A i \in 1..n : i # n => i \in DOMAIN capture /\ capture'[i] = capture[i]
      /\ \A i \in DOMAIN capture : i \in DOMAIN capture' /\ capture'[i] = capture[i]
  BY <1>1, <1>2 DEF x
<1> HIDE DEF n
<1>4. \A i \in DOMAIN capture : capture[i].line.kind # "ack"
  BY DEF Smooth
<1>5. \A s : HasEnd(s) => \E j \in DOMAIN capture' : /\ Whole(capture'[j]) /\ capture'[j].line.kind = "end"
                                                   /\ capture'[j].line.snap = s
  BY <1>3 DEF HasEnd
<1>6. ASSUME l.kind = "end"
      PROVE  \E j \in DOMAIN capture' : /\ Whole(capture'[j]) /\ capture'[j].line.kind = "end"
                                        /\ capture'[j].line.snap = l.snap
  <2>1. n \in DOMAIN capture' /\ capture'[n].line = l /\ t = "full"
    BY <1>2, <1>3, <1>6 DEF Blank
  <2> QED
    BY <1>2, <1>3, <1>6, <2>1 DEF Whole
<1>7. ~failed'
  BY DEF Smooth
<1>8. \A i \in DOMAIN capture' : capture'[i].end = "nl" /\ (capture'[i].line # Blank => capture'[i].text = "full")
  BY <1>2, <1>3 DEF Smooth
<1>9. ASSUME NEW i \in DOMAIN capture', capture'[i].line.kind = "chunk"
      PROVE  HasEnd(capture[i].line.snap)' \/ (pc' = "emit" /\ capture'[i].line.snap = replay')
  <2>1. CASE i = n
    BY <1>2, <1>3, <1>9, <2>1
  <2>2. CASE i # n
    <3>1. /\ capture'[i].line = capture[i].line
          /\ HasEnd(capture'[i].line.snap) \/ (pc = "emit" /\ capture'[i].line.snap = replay)
      BY <1>3, <1>9, <2>2 DEF Smooth
    <3>2. CASE HasEnd(capture'[i].line.snap)
      BY <1>5, <3>2 DEF HasEnd, Whole
    <3>3. CASE pc = "emit" /\ capture'[i].line.snap = replay
      BY <1>6, <3>3 DEF HasEnd, Whole
    <3> QED
      BY <3>1, <3>2, <3>3
  <2> QED
    BY <2>1, <2>2
<1>10. ASSUME NEW i \in DOMAIN capture', capture'[i].line.kind = "ack"
       PROVE  /\ i = Len(capture') /\ pc' = "done"
              /\ \A j \in DOMAIN capture' : IsRecord(capture'[j].line) =>
                   capture'[j].line.snap <= capture'[i].line.snap
  <2>1. i = n /\ l.kind = "ack" /\ capture'[i].line = l
    BY <1>2, <1>3, <1>4, <1>10
  <2>2. ASSUME NEW j \in DOMAIN capture', IsRecord(capture'[j].line)
        PROVE  capture'[j].line.snap <= replay
    <3>1. j # n
      BY <2>1, <2>2 DEF IsRecord
    <3>2. j \in DOMAIN capture /\ capture'[j] = capture[j]
      BY <1>3, <3>1
    <3> QED
      BY <2>2, <3>2 DEF IInv, Current, InSnapshot
  <2> QED
    BY <1>3, <2>1, <2>2
<1> QED
  BY <1>7, <1>8, <1>9, <1>10 DEF Smooth, IsRecord

\* While no write stalls no line is cut, and the worker stops at its first acknowledgement.
LEMMA SmoothStep == ASSUME MaxStalls = 0, IInv, Smooth, [Next]_vars PROVE Smooth'
<1>1. Facts /\ stalls = 0 /\ ~(stalls < MaxStalls)
  BY FactsHold DEF Facts, UartKinds
<1>2. CASE UNCHANGED <<pc, attempt, uart, capture>>
  BY <1>2, SmoothQuiet DEF attempt, uart
<1>3. CASE Emit
  <2>1. pc = "emit" /\ ~failed /\ UNCHANGED replay /\ Write(NextLine)
        /\ (at < sample.count => pc' = "emit")
    BY <1>3 DEF Emit, Smooth
  <2>2. capture' = Append(capture, Written(NextLine, "full", "nl")) /\ UNCHANGED failed
    BY <1>1, <2>1 DEF Write
  <2>3. CASE at < sample.count
    <3>1. NextLine \in Line /\ NextLine.kind = "chunk" /\ NextLine.snap = replay
      <4>1. at \in 0..(Capacity - 1) /\ at \in Nat /\ replay \in Nat
        BY <1>1, <2>3, Ranges DEF Facts
      <4>2. slots[at].record \in RecordType
        BY <1>1, <4>1 DEF Facts, StoreKinds
      <4> QED
        BY <2>3, <4>1, <4>2 DEF NextLine, Chunk, Line, ChunkLine
    <3>2. PICK l \in Line : l = NextLine
      BY <3>1
    <3> QED
      BY <2>1, <2>2, <2>3, <3>1, <3>2, SmoothWrite
  <2>4. CASE ~(at < sample.count)
    <3>1. NextLine \in Line /\ NextLine.kind = "end" /\ NextLine.snap = replay
      <4>1. \A i \in 1..sample.count : slots[i - 1].record \in RecordType
        <5>1. \A i \in 1..sample.count : i - 1 \in 0..(Capacity - 1)
          BY <1>1, Ranges DEF Facts
        <5> QED
          BY <1>1, <5>1 DEF Facts, StoreKinds
      <4>2. Replayed \in Seq(RecordType) /\ {replay, sample.count, sample.dropped, sample.truncated} \subseteq Nat
        BY <1>1, <4>1 DEF Replayed, Facts
      <4> QED
        BY <2>4, <4>2 DEF NextLine, End, Line, EndLine
    <3>2. PICK l \in Line : l = NextLine
      BY <3>1
    <3> QED
      BY <2>1, <2>2, <2>4, <3>1, <3>2, SmoothWrite
  <2> QED
    BY <2>3, <2>4
<1>4. CASE Acknowledge
  <2>1. pc = "ack" /\ UNCHANGED replay /\ Write(Ack(replay, sample.count))
        /\ pc' = IF failed' THEN "pause" ELSE "done"
    BY <1>4 DEF Acknowledge, attempt
  <2>2. capture' = Append(capture, Written(Ack(replay, sample.count), "full", "nl")) /\ UNCHANGED failed
    BY <1>1, <2>1 DEF Write
  <2>3. PICK l \in Line : l = Ack(replay, sample.count)
    BY <1>1 DEF Facts, Ack, Line, AckLine
  <2>4. l.kind = "ack" /\ l.snap = replay /\ pc' = "done"
    BY <2>1, <2>2, <2>3 DEF Ack, Smooth
  <2> QED
    BY <2>1, <2>2, <2>3, <2>4, SmoothWrite
<1>5. CASE BeginSnapshot
  <2>1. pc = "begin" /\ pc' = "preflight" /\ UNCHANGED replay /\ Begin
    BY <1>5 DEF BeginSnapshot
  <2>2. capture' = Delimited(TRUE) /\ UNCHANGED failed
    BY <1>1, <2>1 DEF Begin
  <2>3. capture = <<>> \/ Terminated(Last(capture))
    <3> SUFFICES ASSUME capture # <<>> PROVE Terminated(Last(capture))
      OBVIOUS
    <3>1. capture \in Seq(Physical)
      BY <1>1 DEF Facts, UartKinds
    <3>2. Len(capture) \in DOMAIN capture
      BY <3>1
    <3> QED
      BY <3>2 DEF Smooth, Terminated, Last
  <2>4. capture' = Append(capture, Written(Blank, "short", "nl"))
    BY <2>2, <2>3 DEF Delimited
  <2>5. Blank \in Line /\ Blank.kind = "blank"
    BY DEF Line, Blank
  <2> QED
    BY <2>1, <2>2, <2>4, <2>5, SmoothWrite
<1>6. CASE Boot \/ Top \/ LatePoll \/ LateTop \/ Count \/ Dropped \/ Truncated \/ Preflight \/ After
           \/ Check \/ PausePoll \/ Resume \/ WindowEnds \/ GiveUp
  <2>1. UNCHANGED <<capture, failed>> /\ pc # "emit" /\ pc # "done"
    BY <1>6 DEF Boot, Top, LatePoll, LateTop, Count, Dropped, Truncated, Preflight, After, Check, Compare,
                PausePoll, Resume, WindowEnds, GiveUp, uart
  <2> QED
    BY <2>1, SmoothQuiet
<1>7. CASE Retry
  BY <1>7 DEF Retry, Smooth
<1> QED
  BY <1>2, <1>3, <1>4, <1>5, <1>6, <1>7
     DEF Next, vars, Worker, Work, Append1, Host, PublishRequest, SendToken, DeliverByte, ReadCapture, Missed

\* Then every snapshot in the capture is ended, and reconstructs if the log lost nothing.
LEMMA SmoothSnapshots ==
  ASSUME IInv, Smooth, pc = "done", NEW s \in Snapshots(capture)
  PROVE  /\ s \in Finished(capture) /\ s \in Nat
         /\ dropped + truncated = 0 => Reconstructs(capture, s)
<1>1. capture \in Seq(Physical) /\ DOMAIN capture = 1..Len(capture) /\ Len(capture) \in Nat
      /\ dropped \in Nat /\ truncated \in Nat
  BY Lines DEF IInv, UartKinds, StoreInv, StoreKinds
<1>2. PICK i \in DOMAIN capture : Decodes(capture[i]) /\ capture[i].line.snap = s
  BY SnapshotsMean
<1>3. HasEnd(s)
  <2>1. CASE capture[i].line.kind = "chunk"
    BY <1>2, <2>1 DEF Smooth
  <2>2. CASE capture[i].line.kind = "end"
    <3>1. Whole(capture[i])
      BY <1>2, <2>2 DEF Smooth, Whole, Decodes
    <3> QED
      BY <1>2, <2>2, <3>1 DEF HasEnd
  <2> QED
    BY <1>2, <2>1, <2>2 DEF Decodes, Transport
<1>4. PICK j \in DOMAIN capture : /\ Whole(capture[j]) /\ capture[j].line.kind = "end"
                                  /\ capture[j].line.snap = s
  BY <1>3 DEF HasEnd
<1> DEFINE e == capture[j].line
<1>5. e \in Ends(capture, s)
  <2>1. Decodes(capture[j])
    BY <1>4 DEF Whole, Decodes, Transport, Terminated
  <2> QED
    BY <1>4, <2>1, EndsMeans
<1>6. s \in Finished(capture) /\ s \in Nat
  BY <1>5, EndsKnown DEF Finished, EndLine
<1>7. ASSUME dropped + truncated = 0 PROVE e.dropped = 0 /\ e.truncated = 0
  <2>1. e.dropped \in Nat /\ e.truncated \in Nat /\ e.dropped <= dropped /\ e.truncated <= truncated
    BY <1>5, EndsKnown
  <2> HIDE DEF e
  <2> QED
    BY <1>1, <1>7, <2>1
<1>8. ASSUME NEW k \in Chunks(capture, s) PROVE k.rec < e.count
  <2>1. PICK m \in DOMAIN capture : capture[m].line = k /\ k.kind = "chunk" /\ k.snap = s
    BY DEF Chunks, ToSet
  <2>2. m # j
    BY <1>4, <2>1
  <2>3. ~(j < m)
    <3> SUFFICES ASSUME j < m PROVE FALSE
      OBVIOUS
    <3>1. s < s
      BY <1>4, <2>1 DEF IInv, Numbered, IsRecord, Follows
    <3> QED
      BY <1>6, <3>1
  <2>4. m < j
    BY <1>1, <2>2, <2>3
  <2> QED
    BY <1>4, <2>1, <2>4 DEF IInv, Numbered, IsRecord, Follows
<1>9. ASSUME NEW r \in 0..(e.count - 1)
      PROVE  \E k \in Chunks(capture, s) : k.rec = r /\ k.record = e.digest[r + 1]
  <2>1. e.digest[r + 1] = slots[r].record
    BY <1>4, WholeHolds DEF EndMeansWhole, Whole
  <2>2. PICK m \in 1..(j - 1) : Whole(capture[m]) /\ capture[m].line = Chunk(s, r, slots[r].record)
    BY <1>4 DEF IInv, EndsWhole, HasChunk, Whole
  <2>3. m \in DOMAIN capture
    BY <1>1, <2>2
  <2>4. Decodes(capture[m]) /\ capture[m].line.kind = "chunk" /\ capture[m].line.snap = s
        /\ capture[m].line.rec = r /\ capture[m].line.record = slots[r].record
    BY <2>2 DEF Whole, Decodes, Transport, Terminated, Chunk
  <2>5. capture[m].line \in Chunks(capture, s)
    BY <2>3, <2>4 DEF Chunks, ToSet
  <2> QED
    BY <2>1, <2>4, <2>5
<1> QED
  BY <1>5, <1>6, <1>7, <1>8, <1>9 DEF Reconstructs

\* The largest of some numbers is the latest.
LEMMA LatestIs ==
  ASSUME NEW S, NEW t \in S, S \subseteq Nat, \A s \in S : s <= t PROVE Latest(S) = t
<1>1. \A u \in S : (\A s \in S : s <= u) => u = t
  <2> SUFFICES ASSUME NEW u \in S, \A s \in S : s <= u PROVE u = t
    OBVIOUS
  <2>1. u <= t /\ t <= u /\ u \in Nat /\ t \in Nat
    OBVIOUS
  <2> QED
    BY <2>1
<1> QED
  BY <1>1 DEF Latest

\* A capture whose last line is an acknowledgement is valid, and if nothing was lost the
\* parser accepts it as the snapshot the acknowledgement names.
LEMMA SmoothAnswer ==
  ASSUME IInv, Smooth, QuiescedState(capture) \in {"conflicting", "valid"}
  PROVE  /\ pc = "done" /\ QuiescedState(capture) = "valid"
         /\ dropped + truncated = 0 =>
              /\ Accepts(capture, Tolerant)
              /\ capture[LastLine(capture)].line.snap = Replay(capture).snap
              /\ capture[LastLine(capture)].line.count = Len(Replay(capture).records)
<1>1. capture \in Seq(Physical) /\ DOMAIN capture = 1..Len(capture) /\ Len(capture) \in Nat
      /\ dropped \in Nat /\ truncated \in Nat
  BY Lines DEF IInv, UartKinds, StoreInv, StoreKinds
<1>2. AckComplete(capture) # {}
  BY DEF QuiescedState
<1>3. /\ Len(capture) \in DOMAIN capture /\ capture[Len(capture)].line.kind = "ack" /\ pc = "done"
      /\ \A i \in DOMAIN capture : capture[i].line.kind = "ack" => i = Len(capture)
  BY <1>2 DEF AckComplete, AckLines, Smooth
<1> DEFINE a == capture[Len(capture)].line
<1>4. a # Blank /\ a.kind = "ack" /\ capture[Len(capture)].text = "full"
  BY <1>3 DEF Smooth, Blank
<1>5. LastLine(capture) = Len(capture)
  <2> DEFINE P(i) == capture[i].line # Blank /\ \A j \in DOMAIN capture : j > i => capture[j].line = Blank
  <2>1. P(Len(capture))
    BY <1>1, <1>4
  <2>2. \A i \in DOMAIN capture : P(i) => i = Len(capture)
    BY <1>1, <1>3, <1>4
  <2>3. LastLine(capture) = CHOOSE i \in DOMAIN capture : P(i)
    BY DEF LastLine
  <2> HIDE DEF P
  <2> QED
    BY <1>3, <2>1, <2>2, <2>3
<1>6. AckComplete(capture) = {Len(capture)} /\ ~AckPending(capture)
  BY <1>3, <1>4 DEF AckComplete, AckLines, AckPending, Smooth
<1>7. QuiescedState(capture) = "valid"
  BY <1>4, <1>5, <1>6 DEF QuiescedState
<1> DEFINE t == a.snap
<1>8. HasEnd(t) /\ \A j \in DOMAIN capture : Acknowledges(a, capture[j].line)
  BY <1>3 DEF IInv, Acked
<1>9. PICK j \in DOMAIN capture : /\ Whole(capture[j]) /\ capture[j].line.kind = "end"
                                  /\ capture[j].line.snap = t
  BY <1>8 DEF HasEnd
<1>10. t \in Snapshots(capture)
  <2>1. Decodes(capture[j])
    BY <1>9 DEF Whole, Decodes, Transport, Terminated
  <2> QED
    BY <1>9, <2>1, SnapshotsMean
<1>11. \A s \in Snapshots(capture) : s \in Finished(capture) /\ s \in Nat /\ s <= t
  <2> TAKE s \in Snapshots(capture)
  <2>1. PICK i \in DOMAIN capture : Decodes(capture[i]) /\ capture[i].line.snap = s
    BY SnapshotsMean
  <2>2. s <= t
    BY <1>3, <2>1 DEF Smooth, IsRecord, Decodes, Transport
  <2> QED
    BY <1>3, <2>2, SmoothSnapshots
<1>12. Finished(capture) = Snapshots(capture)
  BY <1>11 DEF Finished
<1> HIDE DEF t
<1>13. Latest(Snapshots(capture)) = t /\ Latest(Finished(capture)) = t
  BY <1>10, <1>11, <1>12, LatestIs
<1>14. PICK f \in Ends(capture, t) : Records(capture, t) = f.digest
  BY <1>10, <1>11 DEF Finished, Records
<1>15. a.count = Len(Replay(capture).records) /\ t = Replay(capture).snap
  <2>1. PICK m \in DOMAIN capture : capture[m].line = f /\ f.kind = "end" /\ f.snap = t
    BY EndsMeans
  <2>2. f.count = a.count
    BY <1>8, <2>1 DEF Acknowledges, t
  <2>3. Len(f.digest) = f.count
    BY EndsKnown
  <2> QED
    BY <1>13, <1>14, <2>2, <2>3 DEF Replay
<1>16. ASSUME dropped + truncated = 0 PROVE Accepts(capture, Tolerant)
  <2>1. \A s \in Snapshots(capture) : Reconstructs(capture, s)
    BY <1>3, <1>16, SmoothSnapshots
  <2>2. \A s, u \in Snapshots(capture) : s < u => IsPrefix(Records(capture, s), Records(capture, u))
    BY <1>12, ConsistentHolds DEF CaptureConsistent
  <2>3. ~CutOff(capture)
    BY <1>4 DEF CutOff, Transport, Last
  <2>4. Ordered(capture) /\ Agreeing(capture)
    BY ConsistentHolds DEF CaptureConsistent
  <2>5. AcceptedStrictly(capture)
    <3>1. ~Corrupt(capture)
      BY DEF Corrupt, ToSet, Transport, Smooth, Blank
    <3> QED
      BY <2>1, <2>2, <3>1 DEF AcceptedStrictly
  <2>6. AcceptedAsPrefix(capture)
    <3>1. ASSUME NEW i \in DOMAIN capture, NEW m \in DOMAIN capture, i < m,
                 capture[i].line \in Ends(capture, t), Transport(capture[m])
          PROVE  FALSE
      <4>1. capture[i].line.kind = "end" /\ capture[i].line.snap = t /\ t \in Nat
        BY <3>1, EndsKnown, <1>10, <1>11
      <4>2. t < capture[m].line.snap
        BY <3>1, <4>1 DEF IInv, Numbered, IsRecord, Follows, Transport
      <4>3. capture[m].line.snap <= t
        BY <1>3, <3>1 DEF Smooth, IsRecord, Transport, t
      <4>4. capture[m].line.snap \in Nat
        BY <1>1, <3>1, Lines, KindOf DEF Transport, ChunkLine, EndLine
      <4> QED
        BY <4>1, <4>2, <4>3, <4>4
    <3>2. ASSUME NEW s \in Snapshots(capture) \ {t}
          PROVE  Reconstructs(capture, s) /\ IsPrefix(Records(capture, s), Records(capture, t))
      <4>1. s < t
        BY <1>10, <1>11
      <4> QED
        BY <1>10, <2>1, <2>2, <4>1
    <3> QED
      BY <1>10, <1>12, <1>13, <2>1, <3>1, <3>2 DEF AcceptedAsPrefix
  <2> QED
    BY <1>10, <2>3, <2>4, <2>5, <2>6 DEF Accepts
<1> QED
  BY <1>3, <1>5, <1>7, <1>15, <1>16 DEF t

\* A receipt is taken when the worker is done, and a refusal needs a loss.
LEMMA HandshakeStep ==
  ASSUME IInv, Smooth, HandshakeSound, [Next]_vars PROVE HandshakeSound'
<1>1. dropped + truncated <= dropped' + truncated' /\ {dropped, truncated, dropped', truncated'} \subseteq Nat
  BY StoreStep DEF IInv, StoreInv, StoreKinds, Stable
<1>2. CASE ReadCapture /\ UNCHANGED <<store, pc, attempt, uart, stalls>>
  <2>1. QuiescedState(capture) \in {"conflicting", "valid"} /\ host = "waiting" /\ UNCHANGED capture
    BY <1>2 DEF ReadCapture
  <2>2. pc' = "done"
    BY <1>2, <2>1, SmoothAnswer
  <2>3. CASE host' = "receipt"
    <3>1. receipt'.capture = capture
      BY <1>2, <2>3 DEF ReadCapture
    <3> QED
      BY <2>1, <2>2, <2>3, <3>1 DEF HandshakeSound, ReceiptMeansStopped, CleanHandshake
  <2>4. CASE host' # "receipt"
    <3>1. dropped + truncated # 0
      BY <1>2, <2>1, <2>4, SmoothAnswer DEF ReadCapture
    <3>2. UNCHANGED receipt /\ receipt = NoReceipt
      BY <1>2, <2>1, <2>4 DEF ReadCapture, IInv, Received
    <3> QED
      BY <1>1, <3>1, <3>2 DEF HandshakeSound, ReceiptMeansStopped, CleanHandshake, NoReceipt
  <2> QED
    BY <2>3, <2>4
<1>3. CASE UNCHANGED <<receipt, capture, pc>> /\ (host' = "error" => host = "error")
  BY <1>1, <1>3 DEF HandshakeSound, ReceiptMeansStopped, CleanHandshake, NoReceipt
<1>4. CASE Worker
  <2>1. UNCHANGED <<host, receipt>> /\ pc # "done"
    BY <1>4 DEF Worker, Work, Boot, Retry, Top, LatePoll, LateTop, Count, Dropped, Truncated, BeginSnapshot,
                Preflight, Emit, After, Check, Compare, Acknowledge, PausePoll, Resume, WindowEnds, GiveUp,
                hostVars
  <2> QED
    BY <1>1, <2>1 DEF HandshakeSound, ReceiptMeansStopped, CleanHandshake, NoReceipt
<1> QED
  BY <1>2, <1>3, <1>4
     DEF Next, vars, Append1, Host, PublishRequest, SendToken, DeliverByte, Missed, hostVars

\* While no write stalls, a receipt means that replay has stopped on the capture the host
\* accepted, and a refusal that the log lost a record.
THEOREM HandshakeSoundAlways == ASSUME MaxStalls = 0 PROVE Spec => []HandshakeSound
<1>1. Init => Smooth /\ HandshakeSound
  BY DEF Init, Smooth, HandshakeSound, ReceiptMeansStopped, CleanHandshake
<1>2. IInv /\ Smooth /\ HandshakeSound /\ [Next]_vars => (Smooth /\ HandshakeSound)'
  BY SmoothStep, HandshakeStep
<1> QED
  BY <1>1, <1>2, InvariantHolds, PTL DEF Spec
=============================================================================
