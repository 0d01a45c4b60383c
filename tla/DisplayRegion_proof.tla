------------------------- MODULE DisplayRegion_proof -------------------------
(***************************************************************************)
(* Proofs about DisplayRegion, for any set of geometries, any number of    *)
(* buffers above one and any bounds on publications and submissions.       *)
(*                                                                         *)
(* The argument.  Until a power-off is announced only one thread publishes *)
(* (Roles), so the page behind its place is its geometry (Halfway), and    *)
(* what QEMU read is older than a publication that was under way meanwhile *)
(* (Read, Agreed).  The copy poller submits only with nothing in flight    *)
(* (Sampled); then, once the status word is of this boot, the fence stands *)
(* at the last submission and the word names its buffer (Fenced), so the   *)
(* next buffer is another one (Flying) and the one named stays whole       *)
(* (Framed), also when the queue is taken away: a copy that never lands    *)
(* leaves the poller waiting for good.  While the word is an earlier       *)
(* boot's, a copy may be taken for landed and a second one come to stand   *)
(* behind it (Queued): the first frame that lands makes the word this      *)
(* boot's, and the second then finds what it would have found in a boot    *)
(* with a zeroed word.                                                     *)
(* The list names what runs, or the thread that started it is on its way   *)
(* to put it there (Listed, QueueListed).                                  *)
(***************************************************************************)
EXTENDS DisplayRegion, FiniteSetTheorems, TLAPS

(***************************************************************************)
(* The inductive invariant.                                                *)
(***************************************************************************)

\* Publications that have begun and have still to count; 1 for each thread that has one.
Owed(t) == IF pc[t] \in Publishing /\ job[t].goal = "publish" THEN 1 ELSE 0

\* Which jobs a thread has where: only the poller of the copy publishes a bare list, and past
\* the list every publication goes to the end.
Jobbed ==
  /\ \A t \in {"wb", "power"} : pc[t] \in Publishing => job[t].goal = "publish"
  /\ \A t \in Threads :
       pc[t] \in {"active", "size", "rest", "seq"} => job[t].goal = "publish"
  /\ pc["sdma"] = "submit" => job["sdma"].goal = "publish"

\* The bound on publications counts the ones under way.
Counted == ctl.seq + Owed("wb") + Owed("sdma") + Owed("power") <= MaxSeq

\* The status word is of this boot: QEMU zeroed it, or a frame of this boot has landed.
Ours == word # "left"

\* The parts of the copy that move together.  Only the poller submits, only the engine lands,
\* and a submission is not taken before the last one has landed.
Fenced ==
  /\ ~sdma.inFlight => ~sdma.pending
  /\ Ours =>
       /\ fence.seq <= sdma.seq
       /\ ~sdma.inFlight => fence.seq = sdma.seq
       /\ fence.seq = sdma.seq => fence.idx = sdma.last

Busy == engine.state # "idle"
Waits == behind.state # "idle"

\* The copy that was submitted last, if any is in the ring.
Newest == IF Waits THEN behind ELSE engine

\* Nothing in flight although the engine is busy: only a left-over word makes that so.
Flying ==
  Busy =>
    /\ Newest.seq = sdma.seq /\ Newest.idx = sdma.last
    /\ engine.mode \in Modes /\ Newest.mode \in Modes
    /\ sdma.inFlight =>
         /\ sdma.pending = Newest.cursor
         /\ Newest.frame => Newest.mode = sdma.published
         /\ pc["sdma"] \in {"idle", "queue", "poll", "off"}
    /\ ~sdma.inFlight =>
         /\ ~Ours /\ ~Waits /\ fence.seq = sdma.seq
         /\ engine.frame => \/ engine.mode = sdma.published
                            \/ pc["sdma"] = "submit" /\ job["sdma"].frame
    /\ Ours =>
         /\ fence.seq # sdma.seq
         /\ IF engine.frame THEN engine.idx # fence.idx ELSE engine.idx = fence.idx

\* A copy behind the first stands there while the word is left over, and will find the word
\* of the first.
Queued ==
  Waits =>
    /\ Busy /\ ~Ours /\ sdma.inFlight /\ behind.state = "queued"
    /\ fence.seq # sdma.seq /\ engine.seq < sdma.seq
    /\ IF behind.frame THEN behind.idx # engine.idx
       ELSE /\ behind.idx = engine.idx
            /\ engine.frame => engine.mode = sdma.published

\* The poller on its way from the sample to the submission.
Sampled ==
  pc["sdma"] \in Publishing \cup {"submit"} /\ job["sdma"].goal = "publish" =>
    /\ ~sdma.inFlight /\ job["sdma"].mode \in Modes
    /\ IF pc["sdma"] = "submit"
       THEN job["sdma"].frame => sdma.published = job["sdma"].mode
       ELSE job["sdma"].frame

\* What has landed is there: the cursor image, and the frame the status word names.
Imaged ==
  /\ engine.state = "copying" /\ engine.cursor => image
  /\ word = "zeroed" =>
       /\ fence.seq = sdma.seq /\ sdma.pending => image
       /\ ctl.cursor => image

Framed ==
  Ours =>
    /\ buf[fence.idx] # "torn"
    /\ (/\ sdma.published # None /\ ~(pc["sdma"] = "submit" /\ job["sdma"].frame)
        /\ fence.seq = sdma.seq \/ (Busy /\ ~engine.frame))
         => buf[fence.idx] = sdma.published

Before == pc["power"] \in {"off", "on"}

\* Which threads may publish, until the end of the guest is announced.
Roles ==
  /\ pc["wb"] = "start" \/ pc["wb"] \in Publishing => stage = 0
  /\ pc["wb"] = "start" \/ (pc["wb"] = "agp" /\ stage = 0) => job["wb"].mode \in Modes
  /\ pc["sdma"] # "off" \/ Busy => stage = 2
  /\ pc["wb"] # "idle" \/ pc["power"] # "off" => wb.checked
  /\ wb.started => wb.timing \in Modes
  /\ pc["wb"] \in Publishing => wb.timing \in Modes

\* The geometry on the page while one is being published.
Halfway ==
  Before =>
    \A t \in {"wb", "sdma"} :
      /\ pc[t] \in {"active", "size", "rest", "seq"} => job[t].mode \in Modes
      /\ pc[t] \in {"size", "rest", "seq"} => ctl.magic
      /\ pc[t] \in {"rest", "seq"} => ctl.size = job[t].mode
      /\ pc[t] = "seq" => ctl.rest = job[t].mode

\* No geometry is half written.
Stable == \A t \in {"wb", "sdma"} : pc[t] \notin {"size", "rest", "seq"}

\* What QEMU has read is never newer than the page, and if it is as new, it is the same.
Read ==
  /\ qemu.loaded <= ctl.seq /\ qemu.seq <= ctl.seq /\ qemu.error <= ctl.seq
  /\ qemu.at # "idle" \/ qemu.configured => ctl.magic

Agreed ==
  Before /\ Stable /\ ctl.magic =>
    /\ ctl.size = ctl.rest
    /\ ctl.size \in Modes \/ (~ctl.active /\ qemu.at = "idle")
    /\ qemu.error # ctl.seq
    /\ qemu.at = "rest" /\ qemu.loaded = ctl.seq => qemu.size = ctl.size
    /\ qemu.configured /\ qemu.seq = ctl.seq => qemu.shape = <<ctl.size, ctl.rest>>

\* What runs is on the list, or its thread is on the way to put it there.
Listed ==
  pc["power"] = "on" /\ ~exited =>
    /\ stage = 2 => dwb = None
    /\ stage = 0 /\ dwb # None =>
         /\ pc["wb"] \in {"unlist", "list"} \/ "dwb" \in ctl.stops
         /\ pc["wb"] \in {"unlist", "list", "active"} \/ ctl.magic

\* The same for the queue, which is on the list from its first publication on.
QueueListed ==
  Before /\ ~exited =>
    /\ stage = 2 /\ sdma.published # None =>
         /\ ctl.magic
         /\ pc["sdma"] \in {"unlist", "list"} \/ "rlc0" \in ctl.stops
    /\ pc["sdma"] \in {"active", "size", "rest", "seq"} => "rlc0" \in ctl.stops

Stopped ==
  exited /\ pc["power"] = "on" =>
    /\ pc["wb"] = "idle" => dwb = None
    /\ Busy /\ sdma.published # None /\ Ours => ~queueOn

IInv ==
  /\ TypeOK /\ Jobbed /\ Counted /\ Fenced /\ Flying /\ Queued /\ Sampled /\ Imaged
  /\ Framed /\ Roles /\ Halfway /\ Read /\ Agreed /\ Listed /\ QueueListed /\ Stopped

-----------------------------------------------------------------------------
(***************************************************************************)
(* What the actions with several outcomes come to.                         *)
(***************************************************************************)

\* What a sample of the poller comes to: nothing, or a job with the geometry of the output,
\* which is published first if it is a frame of a new one (sdmaCopyStep).
LEMMA SampleMeans ==
  ASSUME TypeOK, Sample
  PROVE  /\ pc["sdma"] = "poll" /\ ~sdma.inFlight
         /\ \A t \in {"wb", "power"} : pc'[t] = pc[t] /\ job'[t] = job[t]
         /\ \/ pc'["sdma"] = "idle" /\ job' = job
            \/ /\ job'["sdma"].mode \in Modes /\ job'["sdma"].goal = "publish"
               /\ \/ pc'["sdma"] = "unlist" /\ job'["sdma"].frame /\ Room
                  \/ /\ pc'["sdma"] = "submit"
                     /\ job'["sdma"].frame => job'["sdma"].mode = sdma.published
         /\ UNCHANGED <<stage, driver, hardware, region, ctl, qemu, exited>>
<1>1. /\ pc["sdma"] = "poll" /\ ~sdma.inFlight
      /\ \/ Goto("sdma", "idle") /\ job' = job
         \/ \E mode \in Modes, frame, cursor \in BOOLEAN :
              /\ frame /\ mode # sdma.published => Room
              /\ Goto("sdma", IF frame /\ mode # sdma.published THEN "unlist"
                                                              ELSE "submit")
              /\ job' = [job EXCEPT !["sdma"] =
                   [NoJob EXCEPT !.active = TRUE, !.mode = mode, !.frame = frame,
                                 !.cursor = cursor, !.goal = "publish"]]
      /\ UNCHANGED <<stage, driver, hardware, region, ctl, qemu, exited>>
  BY DEF Sample, At
<1>2. CASE Goto("sdma", "idle") /\ job' = job
  BY <1>1, <1>2 DEF Goto, TypeOK, Threads
<1>3. ASSUME NEW mode \in Modes, NEW frame \in BOOLEAN, NEW cursor \in BOOLEAN,
             frame /\ mode # sdma.published => Room,
             Goto("sdma", IF frame /\ mode # sdma.published THEN "unlist" ELSE "submit"),
             job' = [job EXCEPT !["sdma"] =
                   [NoJob EXCEPT !.active = TRUE, !.mode = mode, !.frame = frame,
                                 !.cursor = cursor, !.goal = "publish"]]
      PROVE  /\ \A t \in {"wb", "power"} : pc'[t] = pc[t] /\ job'[t] = job[t]
             /\ job'["sdma"].mode = mode /\ job'["sdma"].goal = "publish"
             /\ \/ pc'["sdma"] = "unlist" /\ job'["sdma"].frame /\ Room
                \/ /\ pc'["sdma"] = "submit"
                   /\ job'["sdma"].frame => mode = sdma.published
  <2>1. /\ job'["sdma"].mode = mode /\ job'["sdma"].goal = "publish"
        /\ job'["sdma"].frame = frame
    BY <1>3 DEF TypeOK, Threads, NoJob
  <2>2. \A t \in {"wb", "power"} : pc'[t] = pc[t] /\ job'[t] = job[t]
    BY <1>3 DEF TypeOK, Threads, Goto
  <2>3. pc'["sdma"] = IF frame /\ mode # sdma.published THEN "unlist" ELSE "submit"
    BY <1>3 DEF TypeOK, Threads, Goto
  <2> QED
    BY <1>3, <2>1, <2>2, <2>3
<1> QED
  BY <1>1, <1>2, <1>3

\* The idle engine and the empty job are of their types.
LEMMA IdleIsTyped == Idle \in Copies /\ NoJob \in Jobs
BY DisplayAssumption DEF Idle, Copies, NoJob, Jobs, Indices, Shapes

\* A setup gives the writeback thread a job with a geometry, or with the copy none (wbStep).
LEMMA SetupMeans ==
  ASSUME TypeOK, Setup
  PROVE  /\ pc["wb"] = "idle" /\ wb.checked /\ pc' = [pc EXCEPT !["wb"] = "agp"]
         /\ \E j \in Jobs : job' = [job EXCEPT !["wb"] = j] /\ (stage = 0 => j.mode \in Modes)
         /\ UNCHANGED <<stage, driver, hardware, region, ctl, qemu, exited>>
<1>1. /\ pc["wb"] = "idle" /\ wb.checked /\ pc' = [pc EXCEPT !["wb"] = "agp"]
      /\ UNCHANGED <<stage, driver, hardware, region, ctl, qemu, exited>>
  BY DEF Setup, At, Goto
<1>2. \/ stage = 2 /\ job' = [job EXCEPT !["wb"] = NoJob]
      \/ \E mode \in Modes : job' = [job EXCEPT !["wb"] = [NoJob EXCEPT !.mode = mode]]
  BY DEF Setup
<1>3. CASE stage = 2 /\ job' = [job EXCEPT !["wb"] = NoJob]
  <2>1. stage # 0 /\ NoJob \in Jobs
    BY <1>3, IdleIsTyped
  <2>2. \E j \in Jobs : job' = [job EXCEPT !["wb"] = j]
    BY <1>3, <2>1
  <2> QED
    BY <1>1, <2>1, <2>2
<1>4. ASSUME NEW mode \in Modes, job' = [job EXCEPT !["wb"] = [NoJob EXCEPT !.mode = mode]]
      PROVE  \E j \in Jobs : job' = [job EXCEPT !["wb"] = j] /\ j.mode \in Modes
  <2> DEFINE j == [NoJob EXCEPT !.mode = mode]
  <2>1. j \in Jobs /\ j.mode = mode
    BY DEF NoJob, Jobs, Shapes
  <2> QED
    BY <1>4, <2>1
<1> QED
  BY <1>1, <1>2, <1>3, <1>4

\* Every buffer that is given out is a buffer of the region.
LEMMA BufferInRegion ==
  ASSUME IInv, NEW frame \in BOOLEAN
  PROVE  BufferFor(frame) \in Indices
<1>1. sdma.last \in Indices
  BY DEF IInv, TypeOK, Pollers
<1>2. (sdma.last + 1) % MaxBuffers \in 0..(MaxBuffers - 1)
  BY <1>1, DisplayAssumption DEF Indices
<1> QED
  BY <1>1, <1>2 DEF BufferFor, Indices

\* A submission takes the next buffer for a frame, and the buffer shown for a cursor alone.
LEMMA SubmitMeans ==
  ASSUME IInv, Submit
  PROVE  /\ pc["sdma"] = "submit" /\ ~sdma.inFlight /\ pc'["sdma"] = "idle"
         /\ \E copy \in Copies :
              /\ copy.state = "queued" /\ copy.seq = sdma'.seq /\ copy.idx = sdma'.last
              /\ copy.mode \in Modes /\ copy.cursor = sdma'.pending
              /\ copy.frame = job["sdma"].frame
              /\ copy.frame => copy.mode = sdma.published
              /\ IF copy.frame THEN copy.idx # sdma.last ELSE copy.idx = sdma.last
              /\ IF Busy THEN behind' = copy /\ engine' = engine
                         ELSE engine' = copy /\ behind' = behind
         /\ sdma'.inFlight /\ sdma'.seq = sdma.seq + 1 /\ sdma'.published = sdma.published
         /\ UNCHANGED <<fence, buf, image, word, ctl>>
<1> DEFINE copy == [state |-> "queued", seq |-> sdma.seq + 1,
                    idx |-> BufferFor(job["sdma"].frame), mode |-> job["sdma"].mode,
                    frame |-> job["sdma"].frame, cursor |-> job["sdma"].cursor]
<1>1. /\ pc["sdma"] = "submit" /\ sdma.seq < MaxCopies
      /\ IF Busy THEN behind' = copy /\ engine' = engine
                 ELSE engine' = copy /\ behind' = behind
      /\ sdma' = [sdma EXCEPT !.inFlight = TRUE, !.seq = @ + 1,
                              !.last = BufferFor(job["sdma"].frame),
                              !.pending = @ \/ job["sdma"].cursor]
      /\ Goto("sdma", "idle")
      /\ UNCHANGED <<fence, buf, image, word, ctl>>
  BY DEF Submit, Enqueue, At, Busy
<1>2. /\ ~sdma.inFlight /\ job["sdma"].mode \in Modes
      /\ job["sdma"].frame => sdma.published = job["sdma"].mode
  BY <1>1 DEF IInv, Jobbed, Sampled
<1>3. sdma.pending = FALSE
  BY <1>2 DEF IInv, TypeOK, Pollers, Fenced
<1>4. /\ sdma.last \in 0..(MaxBuffers - 1) /\ sdma.seq \in Nat
      /\ job["sdma"].frame \in BOOLEAN /\ job["sdma"].cursor \in BOOLEAN
      /\ sdma.seq + 1 \in 0..MaxCopies /\ job["sdma"] \in Jobs
  BY <1>1, DisplayAssumption DEF IInv, TypeOK, Pollers, Indices, Jobs, Threads
<1>5. BufferFor(TRUE) # sdma.last /\ BufferFor(FALSE) = sdma.last
  BY <1>4, DisplayAssumption DEF BufferFor
<1>6. IF job["sdma"].frame THEN BufferFor(job["sdma"].frame) # sdma.last
                           ELSE BufferFor(job["sdma"].frame) = sdma.last
  BY <1>4, <1>5 DEF BufferFor
<1>7. /\ sdma'.last = BufferFor(job["sdma"].frame) /\ sdma'.inFlight
      /\ sdma'.seq = sdma.seq + 1 /\ sdma'.pending = job["sdma"].cursor
      /\ sdma'.published = sdma.published
  BY <1>1, <1>3, <1>4 DEF IInv, TypeOK, Pollers
<1>8. pc'["sdma"] = "idle"
  BY <1>1 DEF Goto, IInv, TypeOK, Threads
<1>9. copy \in Copies
  BY <1>4, BufferInRegion DEF Copies, Jobs
<1>10. /\ copy.state = "queued" /\ copy.seq = sdma.seq + 1
       /\ copy.idx = BufferFor(job["sdma"].frame) /\ copy.mode = job["sdma"].mode
       /\ copy.frame = job["sdma"].frame /\ copy.cursor = job["sdma"].cursor
  OBVIOUS
<1> HIDE DEF copy
<1> QED
  BY <1>1, <1>2, <1>6, <1>7, <1>8, <1>9, <1>10

\* Room counts every thread that publishes, so at least every one that owes a publication.
LEMMA RoomLeft ==
  ASSUME TypeOK, Room
  PROVE  ctl.seq + Owed("wb") + Owed("sdma") + Owed("power") < MaxSeq
<1> DEFINE Put == {t \in Threads : pc[t] \in Publishing}
           Bit(t) == IF pc[t] \in Publishing THEN {t} ELSE {}
<1>1. Put = (Bit("wb") \cup Bit("sdma")) \cup Bit("power")
  BY DEF Threads
<1>2. \A t : /\ IsFiniteSet(Bit(t))
            /\ Cardinality(Bit(t)) = IF pc[t] \in Publishing THEN 1 ELSE 0
  BY FS_EmptySet, FS_Singleton
<1>3. /\ Bit("wb") \cap Bit("sdma") = {}
      /\ (Bit("wb") \cup Bit("sdma")) \cap Bit("power") = {}
  OBVIOUS
<1>4. Cardinality(Put) =
        Cardinality(Bit("wb")) + Cardinality(Bit("sdma")) + Cardinality(Bit("power"))
  <2> HIDE DEF Bit, Put
  <2>1. /\ IsFiniteSet(Bit("wb") \cup Bit("sdma"))
        /\ Cardinality(Bit("wb") \cup Bit("sdma")) =
             Cardinality(Bit("wb")) + Cardinality(Bit("sdma"))
               - Cardinality(Bit("wb") \cap Bit("sdma"))
    BY <1>2, FS_Union
  <2>2. Cardinality(Put) =
          Cardinality(Bit("wb") \cup Bit("sdma")) + Cardinality(Bit("power"))
            - Cardinality((Bit("wb") \cup Bit("sdma")) \cap Bit("power"))
    BY <1>1, <1>2, <2>1, FS_Union
  <2> QED
    BY <1>2, <1>3, <2>1, <2>2, FS_EmptySet
<1>5. \A t \in Threads : Owed(t) \in 0..1 /\ Owed(t) <= Cardinality(Bit(t))
  <2> SUFFICES ASSUME NEW t \in Threads
               PROVE  Owed(t) \in 0..1 /\ Owed(t) <= Cardinality(Bit(t))
    OBVIOUS
  <2>1. Cardinality(Bit(t)) = IF pc[t] \in Publishing THEN 1 ELSE 0
    BY <1>2
  <2> HIDE DEF Bit
  <2> QED
    BY <2>1 DEF Owed
<1>6. ctl.seq \in Nat /\ ctl.seq + Cardinality(Put) < MaxSeq
  BY DEF TypeOK, Pages, Room
<1> HIDE DEF Put, Bit
<1> QED
  BY <1>2, <1>4, <1>5, <1>6, DisplayAssumption DEF Threads

\* All places.
Labels == UNION {Places[t] : t \in Threads}

\* The places of each thread.
LEMMA PlacesAre ==
  /\ Places["wb"] = Publishing \cup {"idle", "agp", "start"}
  /\ Places["sdma"] = Publishing \cup {"off", "idle", "queue", "poll", "submit"}
  /\ Places["power"] = Publishing \cup {"off", "on", "stop", "sdma", "close", "done"}
  /\ \A t \in Threads : Publishing \subseteq Places[t]
<1>1. Places["wb"] = Publishing \cup {"idle", "agp", "start"}
  BY DEF Places, Threads
<1>2. Places["sdma"] = Publishing \cup {"off", "idle", "queue", "poll", "submit"}
  BY DEF Places, Threads
<1>3. Places["power"] = Publishing \cup {"off", "on", "stop", "sdma", "close", "done"}
  BY DEF Places, Threads
<1>4. \A t \in Threads : Publishing \subseteq Places[t]
  BY <1>1, <1>2, <1>3 DEF Threads
<1> QED
  BY <1>1, <1>2, <1>3, <1>4

\* A thread that moves to one of its places leaves all threads in their places.
LEMMA Moved ==
  ASSUME IInv, NEW t \in Threads, NEW l \in Places[t], Goto(t, l)
  PROVE  pc' \in [Threads -> Labels] /\ \A u \in Threads : pc'[u] \in Places[u]
BY DEF IInv, TypeOK, Goto, Labels

-----------------------------------------------------------------------------
(***************************************************************************)
(* Every step keeps the invariant, part by part.                           *)
(***************************************************************************)

\* Every thread stays in one of its places.
LEMMA PlacesKept ==
  ASSUME IInv, [Next]_vars
  PROVE  (pc' \in [Threads -> Labels] /\ \A u \in Threads : pc'[u] \in Places[u])
<1>1. CASE Landed \/ Copy \/ Land \/ Load
  BY <1>1 DEF IInv, TypeOK, Threads, Labels, Landed, Copy, Land, Load, At, hardware, region,
    driver
<1>2. CASE SnapSize \/ Configure \/ ShowWaiting
  BY <1>2 DEF IInv, TypeOK, Threads, Labels, SnapSize, Configure, ShowWaiting,
    driver, hardware, region
<1>3. CASE Exit
  BY <1>3 DEF IInv, TypeOK, Threads, Labels, Exit, driver, region
<1>4. ASSUME NEW t \in Threads, Unlist(t) PROVE (pc' \in [Threads -> Labels] /\ \A u \in
  Threads : pc'[u] \in Places[u])
  <2>1. Goto(t, "list")
    BY <1>4 DEF Unlist
  <2>2. "list" \in Places[t]
    BY <1>4, PlacesAre DEF Publishing
  <2> QED
    BY <2>1, <2>2, Moved DEF Threads
<1>5. ASSUME NEW t \in Threads, List(t) PROVE (pc' \in [Threads -> Labels] /\ \A u \in
  Threads : pc'[u] \in Places[u])
  <2>1. Goto(t, IF job[t].goal = "list" THEN "poll" ELSE "active")
    BY <1>5 DEF List
  <2>2. (IF job[t].goal = "list" THEN "poll" ELSE "active") \in Places[t]
    BY <1>5, PlacesAre DEF Publishing, List, At, IInv, Jobbed, Threads
  <2> QED
    BY <2>1, <2>2, Moved DEF Threads
<1>6. ASSUME NEW t \in Threads, PutActive(t) PROVE (pc' \in [Threads -> Labels] /\ \A u \in
  Threads : pc'[u] \in Places[u])
  <2>1. Goto(t, "size")
    BY <1>6 DEF PutActive
  <2>2. "size" \in Places[t]
    BY <1>6, PlacesAre DEF Publishing
  <2> QED
    BY <2>1, <2>2, Moved DEF Threads
<1>7. ASSUME NEW t \in Threads, PutSize(t) PROVE (pc' \in [Threads -> Labels] /\ \A u \in
  Threads : pc'[u] \in Places[u])
  <2>1. Goto(t, "rest")
    BY <1>7 DEF PutSize
  <2>2. "rest" \in Places[t]
    BY <1>7, PlacesAre DEF Publishing
  <2> QED
    BY <2>1, <2>2, Moved DEF Threads
<1>8. ASSUME NEW t \in Threads, PutRest(t) PROVE (pc' \in [Threads -> Labels] /\ \A u \in
  Threads : pc'[u] \in Places[u])
  <2>1. Goto(t, "seq")
    BY <1>8 DEF PutRest
  <2>2. "seq" \in Places[t]
    BY <1>8, PlacesAre DEF Publishing
  <2> QED
    BY <2>1, <2>2, Moved DEF Threads
<1>9. ASSUME NEW t \in Threads, WriteSeq(t) PROVE (pc' \in [Threads -> Labels] /\ \A u \in
  Threads : pc'[u] \in Places[u])
  <2>1. Goto(t, After(t))
    BY <1>9 DEF WriteSeq
  <2>2. After(t) \in Places[t]
    BY <1>9, PlacesAre DEF Publishing, After, Threads
  <2> QED
    BY <2>1, <2>2, Moved DEF Threads
<1>10. CASE FirstStep
  <2>1. Goto("power", "on")
    BY <1>10 DEF FirstStep
  <2>2. "on" \in Places["power"]
    BY <1>10, PlacesAre DEF Publishing
  <2> QED
    BY <2>1, <2>2, Moved DEF Threads
<1>11. CASE Refuse
  <2>1. Goto("wb", "idle")
    BY <1>11 DEF Refuse
  <2>2. "idle" \in Places["wb"]
    BY <1>11, PlacesAre DEF Publishing
  <2> QED
    BY <2>1, <2>2, Moved DEF Threads
<1>12. CASE Setup
  <2>1. Goto("wb", "agp")
    BY <1>12 DEF Setup
  <2>2. "agp" \in Places["wb"]
    BY <1>12, PlacesAre DEF Publishing
  <2> QED
    BY <2>1, <2>2, Moved DEF Threads
<1>13. CASE EnsureAgp
  <2>1. pc' = IF stage = 0 THEN [pc EXCEPT !["wb"] = "start"]
              ELSE [pc EXCEPT !["wb"] = "idle",
                     !["sdma"] = IF pc["sdma"] = "off" /\ ~sdma.disabled THEN "idle"
                                 ELSE pc["sdma"]]
    BY <1>13 DEF EnsureAgp, IInv, TypeOK, Threads
  <2> QED
    BY <2>1, PlacesAre DEF IInv, TypeOK, Threads, Labels
<1>14. CASE Start
  <2>1. Goto("wb", "unlist")
    BY <1>14 DEF Start, Publish
  <2>2. "unlist" \in Places["wb"]
    BY <1>14, PlacesAre DEF Publishing
  <2> QED
    BY <2>1, <2>2, Moved DEF Threads
<1>15. CASE StopWriteback
  <2>1. Goto("wb", "unlist")
    BY <1>15 DEF StopWriteback, Publish
  <2>2. "unlist" \in Places["wb"]
    BY <1>15, PlacesAre DEF Publishing
  <2> QED
    BY <2>1, <2>2, Moved DEF Threads
<1>16. CASE SdmaTick
  <2>1. Goto("sdma", IF sdma.disabled THEN "off" ELSE "queue")
    BY <1>16 DEF SdmaTick
  <2>2. (IF sdma.disabled THEN "off" ELSE "queue") \in Places["sdma"]
    BY <1>16, PlacesAre DEF Publishing
  <2> QED
    BY <2>1, <2>2, Moved DEF Threads
<1>17. CASE QueueRefused
  <2>1. Goto("sdma", "idle")
    BY <1>17 DEF QueueRefused
  <2>2. "idle" \in Places["sdma"]
    BY <1>17, PlacesAre DEF Publishing
  <2> QED
    BY <2>1, <2>2, Moved DEF Threads
<1>18. CASE QueueUp
  <2>1. Goto("sdma", IF sdma.ready THEN "poll" ELSE "unlist")
    BY <1>18 DEF QueueUp
  <2>2. (IF sdma.ready THEN "poll" ELSE "unlist") \in Places["sdma"]
    BY <1>18, PlacesAre DEF Publishing
  <2> QED
    BY <2>1, <2>2, Moved DEF Threads
<1>19. CASE Wait
  <2>1. Goto("sdma", "idle")
    BY <1>19 DEF Wait
  <2>2. "idle" \in Places["sdma"]
    BY <1>19, PlacesAre DEF Publishing
  <2> QED
    BY <2>1, <2>2, Moved DEF Threads
<1>20. CASE Hang
  <2>1. Goto("sdma", "idle")
    BY <1>20 DEF Hang
  <2>2. "idle" \in Places["sdma"]
    BY <1>20, PlacesAre DEF Publishing
  <2> QED
    BY <2>1, <2>2, Moved DEF Threads
<1>21. CASE Sample
  <2>1. \E l \in {"idle", "unlist", "submit"} : Goto("sdma", l)
    BY <1>21 DEF Sample
  <2> QED
    BY <2>1, Moved, PlacesAre DEF Threads, Publishing
<1>22. CASE Submit
  <2>1. Goto("sdma", "idle")
    BY <1>22 DEF Submit
  <2>2. "idle" \in Places["sdma"]
    BY <1>22, PlacesAre DEF Publishing
  <2> QED
    BY <2>1, <2>2, Moved DEF Threads
<1>23. CASE PowerBegin
  <2>1. Goto("power", "stop")
    BY <1>23 DEF PowerBegin
  <2>2. "stop" \in Places["power"]
    BY <1>23, PlacesAre DEF Publishing
  <2> QED
    BY <2>1, <2>2, Moved DEF Threads
<1>24. CASE PowerStop
  <2>1. Goto("power", "sdma")
    BY <1>24 DEF PowerStop
  <2>2. "sdma" \in Places["power"]
    BY <1>24, PlacesAre DEF Publishing
  <2> QED
    BY <2>1, <2>2, Moved DEF Threads
<1>25. CASE PowerSdma
  <2>1. Goto("power", "close")
    BY <1>25 DEF PowerSdma
  <2>2. "close" \in Places["power"]
    BY <1>25, PlacesAre DEF Publishing
  <2> QED
    BY <2>1, <2>2, Moved DEF Threads
<1>26. CASE PowerClose
  <2>1. Goto("power", "unlist")
    BY <1>26 DEF PowerClose, Publish
  <2>2. "unlist" \in Places["power"]
    BY <1>26, PlacesAre DEF Publishing
  <2> QED
    BY <2>1, <2>2, Moved DEF Threads
<1>27. CASE UNCHANGED vars
  BY <1>27 DEF IInv, TypeOK, Threads, Labels, vars, driver, hardware, region
<1> QED
  BY <1>1, <1>2, <1>3, <1>4, <1>5, <1>6, <1>7, <1>8, <1>9, <1>10, <1>11, <1>12, <1>13, <1>14,
    <1>15, <1>16, <1>17, <1>18, <1>19, <1>20, <1>21, <1>22, <1>23, <1>24, <1>25, <1>26, <1>27
    DEF Next

\* The jobs keep their type.
LEMMA JobsKept == ASSUME IInv, [Next]_vars PROVE job' \in [Threads -> Jobs]
<1>1. ASSUME NEW t \in Threads, Unlist(t) \/ PutActive(t) \/ PutSize(t) \/ PutRest(t) PROVE
  job' \in [Threads -> Jobs]
  BY <1>1 DEF IInv, TypeOK, Threads, Jobs, Shapes, Unlist, PutActive, PutSize, PutRest, At,
    Goto, driver, hardware, region
<1>2. CASE FirstStep \/ Refuse \/ EnsureAgp \/ SdmaTick
  BY <1>2 DEF IInv, TypeOK, Threads, Jobs, Shapes, FirstStep, Refuse, EnsureAgp, SdmaTick,
    At, Goto, region, hardware, driver
<1>3. CASE QueueRefused \/ Landed \/ Wait \/ Hang
  BY <1>3 DEF IInv, TypeOK, Threads, Jobs, Shapes, QueueRefused, Landed, Wait, Hang, At,
    Goto, hardware, region, driver, Shutdown
<1>4. CASE Copy \/ Land \/ PowerBegin \/ PowerStop
  BY <1>4 DEF IInv, TypeOK, Threads, Jobs, Shapes, Copy, Land, PowerBegin, PowerStop, driver,
    hardware, At, Goto, region
<1>5. CASE PowerSdma \/ Load \/ SnapSize \/ Configure
  BY <1>5 DEF IInv, TypeOK, Threads, Jobs, Shapes, PowerSdma, Load, SnapSize, Configure, At,
    Goto, Shutdown, driver, hardware, region
<1>6. CASE ShowWaiting \/ Exit
  BY <1>6 DEF IInv, TypeOK, Threads, Jobs, Shapes, ShowWaiting, Exit, driver,
    hardware, region
<1>7. ASSUME NEW t \in Threads, List(t) PROVE job' \in [Threads -> Jobs]
  <2>1. job[t] \in Jobs /\ wb.timing \in Shapes
    BY DEF IInv, TypeOK, Setups
  <2>2. [job[t] EXCEPT !.mode = wb.timing] \in Jobs
    BY <2>1 DEF Jobs
  <2>3. job' = job \/ job' = [job EXCEPT ![t] = [job[t] EXCEPT !.mode = wb.timing]]
    BY <1>7 DEF List
  <2> QED
    BY <2>2, <2>3 DEF IInv, TypeOK
<1>8. ASSUME NEW t \in Threads, WriteSeq(t) PROVE job' \in [Threads -> Jobs]
  BY <1>8 DEF IInv, TypeOK, Threads, Jobs, Shapes, NoJob, WriteSeq, At, Goto, After,
    hardware, region
<1>9. CASE Setup
  BY <1>9, SetupMeans DEF IInv, TypeOK, Threads, driver, hardware, region, Publishing,
    Jobs
<1>10. CASE Start
  BY <1>10 DEF IInv, TypeOK, Threads, Jobs, Shapes, NoJob, Start, At, Goto, Publish, region
<1>11. CASE StopWriteback
  BY <1>11 DEF IInv, TypeOK, Threads, Jobs, Shapes, NoJob, StopWriteback, At, Goto, Publish,
    region
<1>12. CASE QueueUp
  BY <1>12, IdleIsTyped DEF QueueUp, IInv, TypeOK, Threads
<1>13. CASE Sample
  <2>1. job' = job \/ \E mode \in Modes, frame, cursor \in BOOLEAN :
          job' = [job EXCEPT !["sdma"] =
               [NoJob EXCEPT !.active = TRUE, !.mode = mode, !.frame = frame,
                             !.cursor = cursor, !.goal = "publish"]]
    BY <1>13 DEF Sample
  <2>2. \A mode \in Modes, frame, cursor \in BOOLEAN :
          [NoJob EXCEPT !.active = TRUE, !.mode = mode, !.frame = frame,
                        !.cursor = cursor, !.goal = "publish"] \in Jobs
    BY DEF NoJob, Jobs, Shapes
  <2>3. \E j \in Jobs : job' = job \/ job' = [job EXCEPT !["sdma"] = j]
    BY <2>1, <2>2, IdleIsTyped
  <2> QED
    BY <2>3 DEF IInv, TypeOK
<1>14. CASE Submit
  BY <1>14 DEF IInv, TypeOK, Threads, Jobs, Shapes, NoJob, Submit, At, Goto, hardware
<1>15. CASE PowerClose
  BY <1>15 DEF IInv, TypeOK, Threads, Jobs, Shapes, NoJob, PowerClose, At, Goto, Publish,
    region
<1>16. CASE UNCHANGED vars
  BY <1>16 DEF IInv, TypeOK, Threads, Jobs, Shapes, vars, driver, hardware, region
<1> QED
  BY <1>1, <1>2, <1>3, <1>4, <1>5, <1>6, <1>7, <1>8, <1>9, <1>10, <1>11, <1>12, <1>13, <1>14,
    <1>15, <1>16 DEF Next

\* The variables of the copy poller keep their type.
LEMMA CopyKept == ASSUME IInv, [Next]_vars PROVE sdma' \in Pollers
<1>1. ASSUME NEW t \in Threads, Unlist(t) \/ List(t) \/ PutActive(t) \/ PutSize(t) PROVE
  sdma' \in Pollers
  BY <1>1 DEF IInv, TypeOK, Jobs, Threads, Pollers, Unlist, List, PutActive, PutSize, At,
    Goto, driver, hardware, region
<1>2. ASSUME NEW t \in Threads, PutRest(t) PROVE sdma' \in Pollers
  BY <1>2 DEF IInv, TypeOK, Jobs, Threads, Pollers, PutRest, At, Goto, driver, hardware,
    region
<1>3. CASE FirstStep \/ Refuse \/ Setup \/ EnsureAgp
  BY <1>3 DEF IInv, TypeOK, Jobs, Threads, Pollers, FirstStep, Refuse, Setup, EnsureAgp, At,
    Goto, region, hardware, driver
<1>4. CASE Start \/ StopWriteback \/ SdmaTick \/ Wait
  BY <1>4 DEF IInv, TypeOK, Jobs, Threads, Pollers, Start, StopWriteback, SdmaTick, Wait, At,
    Goto, Publish, region, driver, hardware
<1>5. CASE Sample \/ Copy \/ Land \/ PowerBegin
  BY <1>5 DEF IInv, TypeOK, Jobs, Threads, Pollers, Sample, Copy, Land, PowerBegin, At, Goto,
    driver, hardware, region
<1>6. CASE PowerStop \/ PowerClose \/ Load \/ SnapSize
  BY <1>6 DEF IInv, TypeOK, Jobs, Threads, Pollers, PowerStop, PowerClose, Load, SnapSize,
    At, Goto, driver, region, Publish, hardware
<1>7. CASE Configure \/ ShowWaiting \/ Exit
  BY <1>7 DEF IInv, TypeOK, Jobs, Threads, Pollers, Configure, ShowWaiting, Exit,
    driver, hardware, region
<1>8. ASSUME NEW t \in Threads, WriteSeq(t) PROVE sdma' \in Pollers
  BY <1>8 DEF IInv, TypeOK, Jobs, Threads, Pollers, WriteSeq, At, Goto, After, hardware,
    region
<1>9. CASE QueueRefused
  BY <1>9 DEF IInv, TypeOK, Jobs, Threads, Pollers, QueueRefused, At, Goto, hardware, region
<1>10. CASE QueueUp
  <2>1. sdma' = sdma \/ sdma' = [sdma EXCEPT !.ready = TRUE]
    BY <1>10 DEF QueueUp
  <2> QED
    BY <2>1 DEF IInv, TypeOK, Pollers
<1>11. CASE Landed
  BY <1>11 DEF IInv, TypeOK, Jobs, Threads, Pollers, Landed, At, hardware, region
<1>12. CASE Hang
  BY <1>12 DEF IInv, TypeOK, Jobs, Threads, Pollers, Hang, At, Goto, Shutdown
<1>13. CASE Submit
  <2>1. /\ sdma.seq < MaxCopies
        /\ sdma' = [sdma EXCEPT !.inFlight = TRUE, !.seq = sdma.seq + 1,
                                !.last = BufferFor(job["sdma"].frame),
                                !.pending = sdma.pending \/ job["sdma"].cursor]
    BY <1>13 DEF Submit, Enqueue, IInv, TypeOK, Pollers
  <2>2. sdma.seq + 1 \in 0..MaxCopies
    BY <2>1, DisplayAssumption DEF IInv, TypeOK, Pollers
  <2>3. /\ BufferFor(job["sdma"].frame) \in Indices
        /\ (sdma.pending \/ job["sdma"].cursor) \in BOOLEAN
    BY BufferInRegion DEF IInv, TypeOK, Threads, Jobs
  <2> QED
    BY <2>1, <2>2, <2>3 DEF IInv, TypeOK, Pollers
<1>14. CASE PowerSdma
  BY <1>14 DEF IInv, TypeOK, Jobs, Threads, Pollers, PowerSdma, At, Goto, Shutdown
<1>15. CASE UNCHANGED vars
  BY <1>15 DEF IInv, TypeOK, Jobs, Threads, Pollers, vars, driver, hardware, region
<1> QED
  BY <1>1, <1>2, <1>3, <1>4, <1>5, <1>6, <1>7, <1>8, <1>9, <1>10, <1>11, <1>12, <1>13, <1>14,
    <1>15 DEF Next

\* The copies in the ring keep their type.
LEMMA EngineKept == ASSUME IInv, [Next]_vars PROVE (engine' \in Copies /\ behind' \in Copies)
<1>1. ASSUME NEW t \in Threads, Unlist(t) \/ List(t) \/ PutActive(t) \/ PutSize(t) PROVE
  (engine' \in Copies /\ behind' \in Copies)
  BY <1>1 DEF IInv, TypeOK, Copies, Jobs, Threads, Idle, Unlist, List, PutActive, PutSize,
    At, Goto, driver, hardware, region
<1>2. ASSUME NEW t \in Threads, PutRest(t) \/ WriteSeq(t)
      PROVE  (engine' \in Copies /\ behind' \in Copies)
  BY <1>2 DEF IInv, TypeOK, Copies, Jobs, Threads, Idle, PutRest, WriteSeq, At, Goto, driver,
    hardware, region, After
<1>3. CASE FirstStep \/ Refuse \/ Setup \/ EnsureAgp
  BY <1>3 DEF IInv, TypeOK, Copies, Jobs, Threads, Idle, FirstStep, Refuse, Setup, EnsureAgp,
    At, Goto, region, hardware, driver
<1>4. CASE Start \/ StopWriteback \/ SdmaTick \/ QueueRefused
  BY <1>4 DEF IInv, TypeOK, Copies, Jobs, Threads, Idle, Start, StopWriteback, SdmaTick,
    QueueRefused, At, Goto, Publish, region, driver, hardware
<1>5. CASE Landed \/ Wait \/ Sample \/ PowerBegin
  BY <1>5 DEF IInv, TypeOK, Copies, Jobs, Threads, Idle, Landed, Wait, Sample, PowerBegin,
    At, hardware, region, Goto, driver
<1>6. CASE PowerStop \/ PowerClose \/ Load \/ SnapSize
  BY <1>6 DEF IInv, TypeOK, Copies, Jobs, Threads, Idle, PowerStop, PowerClose, Load,
    SnapSize, At, Goto, driver, region, Publish, hardware
<1>7. CASE Configure \/ ShowWaiting \/ Exit
  BY <1>7 DEF IInv, TypeOK, Copies, Jobs, Threads, Idle, Configure, ShowWaiting,
    Exit, driver, hardware, region
<1>8. CASE QueueUp
  BY <1>8, IdleIsTyped DEF QueueUp, IInv, TypeOK
<1>9. CASE Hang
  BY <1>9, IdleIsTyped DEF Hang, Shutdown, IInv, TypeOK
<1>10. CASE Submit
  <2> DEFINE copy == [state |-> "queued", seq |-> sdma.seq + 1,
                      idx |-> BufferFor(job["sdma"].frame), mode |-> job["sdma"].mode,
                      frame |-> job["sdma"].frame, cursor |-> job["sdma"].cursor]
  <2>1. \/ engine' = copy /\ behind' = behind
        \/ behind' = copy /\ engine' = engine
    BY <1>10 DEF Submit, Enqueue
  <2>2. job["sdma"] \in Jobs /\ sdma.seq + 1 \in 0..MaxCopies
    BY <1>10, DisplayAssumption DEF IInv, TypeOK, Threads, Pollers, Submit
  <2>3. copy \in Copies
    BY <2>2, BufferInRegion DEF Copies, Jobs
  <2> QED
    BY <2>1, <2>3 DEF IInv, TypeOK
<1>11. CASE Copy
  BY <1>11 DEF IInv, TypeOK, Copies, Jobs, Threads, Idle, Copy, driver, hardware
<1>12. CASE Land
  BY <1>12, IdleIsTyped DEF Land, IInv, TypeOK
<1>13. CASE PowerSdma
  BY <1>13, IdleIsTyped DEF PowerSdma, Shutdown, IInv, TypeOK
<1>14. CASE UNCHANGED vars
  BY <1>14 DEF IInv, TypeOK, Copies, Jobs, Threads, Idle, vars, driver, hardware, region
<1> QED
  BY <1>1, <1>2, <1>3, <1>4, <1>5, <1>6, <1>7, <1>8, <1>9, <1>10, <1>11, <1>12, <1>13, <1>14
    DEF Next

\* The page keeps its type; a publication that counts was counted in advance.
LEMMA PageKept == ASSUME IInv, [Next]_vars PROVE ctl' \in Pages
<1>1. CASE FirstStep \/ Refuse \/ Setup \/ EnsureAgp
  BY <1>1 DEF IInv, TypeOK, Pages, Jobs, Threads, Sources, FirstStep, Refuse, Setup,
    EnsureAgp, At, Goto, region, hardware, driver
<1>2. CASE Start \/ StopWriteback \/ SdmaTick \/ QueueRefused
  BY <1>2 DEF IInv, TypeOK, Pages, Jobs, Threads, Sources, Start, StopWriteback, SdmaTick,
    QueueRefused, At, Goto, Publish, region, driver, hardware
<1>3. CASE QueueUp \/ Wait \/ Hang \/ Sample
  BY <1>3 DEF IInv, TypeOK, Pages, Jobs, Threads, Sources, QueueUp, Wait, Hang, Sample, At,
    Goto, driver, hardware, region, Shutdown
<1>4. CASE Submit \/ Copy \/ Land \/ PowerBegin
  BY <1>4 DEF IInv, TypeOK, Pages, Jobs, Threads, Sources, Submit, Copy, Land, PowerBegin,
    At, Goto, hardware, driver, region
<1>5. CASE PowerStop \/ PowerSdma \/ PowerClose \/ Load
  BY <1>5 DEF IInv, TypeOK, Pages, Jobs, Threads, Sources, PowerStop, PowerSdma, PowerClose,
    Load, At, Goto, driver, region, Shutdown, Publish, hardware
<1>6. CASE SnapSize \/ Configure \/ ShowWaiting
  BY <1>6 DEF IInv, TypeOK, Pages, Jobs, Threads, Sources, SnapSize, Configure, ShowWaiting,
    driver, hardware, region
<1>7. ASSUME NEW t \in Threads, Unlist(t) PROVE ctl' \in Pages
  BY <1>7 DEF IInv, TypeOK, Pages, Jobs, Threads, Sources, Unlist, At, Goto, driver,
    hardware, region
<1>8. ASSUME NEW t \in Threads, List(t) PROVE ctl' \in Pages
  BY <1>8 DEF IInv, TypeOK, Pages, Jobs, Threads, Sources, List, At, Goto, driver, hardware,
    region
<1>9. ASSUME NEW t \in Threads, PutActive(t) PROVE ctl' \in Pages
  BY <1>9 DEF IInv, TypeOK, Pages, Jobs, Threads, Sources, PutActive, At, Goto, driver,
    hardware, region
<1>10. ASSUME NEW t \in Threads, PutSize(t) PROVE ctl' \in Pages
  BY <1>10 DEF IInv, TypeOK, Pages, Jobs, Threads, Sources, PutSize, At, Goto, driver,
    hardware, region
<1>11. ASSUME NEW t \in Threads, PutRest(t) PROVE ctl' \in Pages
  BY <1>11 DEF IInv, TypeOK, Pages, Jobs, Threads, Sources, PutRest, At, Goto, driver,
    hardware, region
<1>12. ASSUME NEW t \in Threads, WriteSeq(t) PROVE ctl' \in Pages
  <2>1. ctl.seq + 1 \in 0..MaxSeq
    <3>1. Owed(t) = 1
      BY <1>12 DEF WriteSeq, At, Owed, IInv, Jobbed, Publishing
    <3>2. \A u \in Threads : Owed(u) \in 0..1
      BY DEF Owed
    <3>3. ctl.seq + Owed("wb") + Owed("sdma") + Owed("power") <= MaxSeq /\ ctl.seq \in Nat
      BY DEF IInv, Counted, TypeOK, Pages
    <3> QED
      BY <3>1, <3>2, <3>3, DisplayAssumption DEF Threads
  <2> QED
    BY <1>12, <2>1 DEF WriteSeq, IInv, TypeOK, Pages
<1>13. CASE Landed
  BY <1>13 DEF IInv, TypeOK, Pages, Jobs, Threads, Sources, Landed, At, hardware, region
<1>14. CASE Exit
  BY <1>14 DEF IInv, TypeOK, Pages, Jobs, Threads, Sources, Exit, driver, region
<1>15. CASE UNCHANGED vars
  BY <1>15 DEF IInv, TypeOK, Pages, Jobs, Threads, Sources, vars, driver, hardware, region
<1> QED
  BY <1>1, <1>2, <1>3, <1>4, <1>5, <1>6, <1>7, <1>8, <1>9, <1>10, <1>11, <1>12, <1>13, <1>14,
    <1>15 DEF Next

\* What QEMU keeps of the page keeps its type.
LEMMA ReaderKept == ASSUME IInv, [Next]_vars PROVE qemu' \in Readers
<1>1. ASSUME NEW t \in Threads, Unlist(t) \/ List(t) \/ PutActive(t) \/ PutSize(t) PROVE
  qemu' \in Readers
  BY <1>1 DEF IInv, TypeOK, Readers, Pages, Shapes, Unlist, List, PutActive, PutSize, At,
    Goto, driver, hardware, region
<1>2. ASSUME NEW t \in Threads, PutRest(t) \/ WriteSeq(t) PROVE qemu' \in Readers
  BY <1>2 DEF IInv, TypeOK, Readers, Pages, Shapes, PutRest, WriteSeq, At, Goto, driver,
    hardware, region, After
<1>3. CASE FirstStep \/ Refuse \/ Setup \/ EnsureAgp
  BY <1>3 DEF IInv, TypeOK, Readers, Pages, Shapes, FirstStep, Refuse, Setup, EnsureAgp, At,
    Goto, region, hardware, driver
<1>4. CASE Start \/ StopWriteback \/ SdmaTick \/ QueueRefused
  BY <1>4 DEF IInv, TypeOK, Readers, Pages, Shapes, Start, StopWriteback, SdmaTick,
    QueueRefused, At, Goto, Publish, region, driver, hardware
<1>5. CASE QueueUp \/ Landed \/ Wait \/ Hang
  BY <1>5 DEF IInv, TypeOK, Readers, Pages, Shapes, QueueUp, Landed, Wait, Hang, At, Goto,
    hardware, region, driver, Shutdown
<1>6. CASE Sample \/ Submit \/ Copy \/ Land
  BY <1>6 DEF IInv, TypeOK, Readers, Pages, Shapes, Sample, Submit, Copy, Land, At, Goto,
    driver, hardware, region
<1>7. CASE PowerBegin \/ PowerStop \/ PowerSdma \/ PowerClose
  BY <1>7 DEF IInv, TypeOK, Readers, Pages, Shapes, PowerBegin, PowerStop, PowerSdma,
    PowerClose, At, Goto, hardware, region, driver, Shutdown, Publish
<1>8. CASE Exit
  BY <1>8 DEF IInv, TypeOK, Readers, Pages, Shapes, Exit, driver, hardware, region
<1>9. CASE Load
  BY <1>9 DEF IInv, TypeOK, Readers, Pages, Shapes, Load, driver, hardware, region
<1>10. CASE SnapSize
  BY <1>10 DEF IInv, TypeOK, Readers, Pages, Shapes, SnapSize, driver, hardware, region
<1>11. CASE Configure
  <2>1. 0 \in 0..MaxSeq /\ None \in Shapes /\ <<None, None>> \in Shapes \X Shapes
    BY DisplayAssumption DEF Shapes
  <2>2. /\ qemu.loaded \in 0..MaxSeq
        /\ <<qemu.size, ctl.rest>> \in Shapes \X Shapes
    BY DEF IInv, TypeOK, Readers, Pages
  <2>3. CASE None \in {qemu.size, ctl.rest}
    <3>1. qemu' = [qemu EXCEPT !.at = "idle", !.loaded = 0, !.size = None,
                               !.configured = FALSE, !.seq = 0, !.shape = <<None, None>>,
                               !.error = qemu.loaded]
      BY <1>11, <2>3 DEF Configure
    <3> QED
      BY <2>1, <2>2, <3>1 DEF IInv, TypeOK, Readers
  <2>4. CASE None \notin {qemu.size, ctl.rest}
    <3>1. qemu' = [qemu EXCEPT !.at = "idle", !.loaded = 0, !.size = None,
                               !.configured = TRUE, !.seq = qemu.loaded,
                               !.shape = <<qemu.size, ctl.rest>>]
      BY <1>11, <2>4 DEF Configure
    <3> QED
      BY <2>1, <2>2, <3>1 DEF IInv, TypeOK, Readers
  <2> QED
    BY <2>3, <2>4
<1>12. CASE ShowWaiting
  <2>1. 0 \in 0..MaxSeq /\ <<None, None>> \in Shapes \X Shapes
    BY DisplayAssumption DEF Shapes
  <2> QED
    BY <1>12, <2>1 DEF ShowWaiting, IInv, TypeOK, Readers
<1>13. CASE UNCHANGED vars
  BY <1>13 DEF IInv, TypeOK, Readers, Pages, Shapes, vars, driver, hardware, region
<1> QED
  BY <1>1, <1>2, <1>3, <1>4, <1>5, <1>6, <1>7, <1>8, <1>9, <1>10, <1>11, <1>12, <1>13 DEF
    Next

\* The variables of writeback keep their type.
LEMMA WritebackKept == ASSUME IInv, [Next]_vars PROVE wb' \in Setups
<1>1. ASSUME NEW t \in Threads, Unlist(t) \/ List(t) \/ PutActive(t) \/ PutSize(t) PROVE wb'
  \in Setups
  BY <1>1 DEF IInv, TypeOK, Setups, Jobs, Threads, Shapes, Unlist, List, PutActive, PutSize,
    At, Goto, driver, hardware, region
<1>2. ASSUME NEW t \in Threads, PutRest(t) \/ WriteSeq(t) PROVE wb' \in Setups
  BY <1>2 DEF IInv, TypeOK, Setups, Jobs, Threads, Shapes, PutRest, WriteSeq, At, Goto,
    driver, hardware, region, After
<1>3. CASE Setup \/ SdmaTick \/ QueueRefused \/ QueueUp
  BY <1>3 DEF IInv, TypeOK, Setups, Jobs, Threads, Shapes, Setup, SdmaTick, QueueRefused,
    QueueUp, At, Goto, driver, hardware, region
<1>4. CASE Landed \/ Wait \/ Hang \/ Sample
  BY <1>4 DEF IInv, TypeOK, Setups, Jobs, Threads, Shapes, Landed, Wait, Hang, Sample, At,
    hardware, region, Goto, driver, Shutdown
<1>5. CASE Submit \/ Copy \/ Land \/ PowerStop
  BY <1>5 DEF IInv, TypeOK, Setups, Jobs, Threads, Shapes, Submit, Copy, Land, PowerStop, At,
    Goto, hardware, driver, region
<1>6. CASE PowerSdma \/ Load \/ SnapSize \/ Configure
  BY <1>6 DEF IInv, TypeOK, Setups, Jobs, Threads, Shapes, PowerSdma, Load, SnapSize,
    Configure, At, Goto, Shutdown, driver, hardware, region
<1>7. CASE ShowWaiting \/ Exit
  BY <1>7 DEF IInv, TypeOK, Setups, Jobs, Threads, Shapes, ShowWaiting, Exit,
    driver, hardware, region
<1>8. CASE FirstStep
  BY <1>8 DEF IInv, TypeOK, Setups, Jobs, Threads, Shapes, FirstStep, At, Goto, region
<1>9. CASE Refuse
  BY <1>9 DEF IInv, TypeOK, Setups, Jobs, Threads, Shapes, Refuse, Goto, hardware, region
<1>10. CASE EnsureAgp
  BY <1>10 DEF IInv, TypeOK, Setups, Jobs, Threads, Shapes, EnsureAgp, At, region
<1>11. CASE Start
  BY <1>11 DEF IInv, TypeOK, Setups, Jobs, Threads, Shapes, Start, At, Goto, Publish, region
<1>12. CASE StopWriteback
  BY <1>12 DEF IInv, TypeOK, Setups, Jobs, Threads, Shapes, StopWriteback, At, Goto, Publish,
    region
<1>13. CASE PowerBegin
  BY <1>13 DEF IInv, TypeOK, Setups, Jobs, Threads, Shapes, PowerBegin, At, Goto, hardware,
    region
<1>14. CASE PowerClose
  BY <1>14 DEF IInv, TypeOK, Setups, Jobs, Threads, Shapes, PowerClose, At, Goto, Publish,
    region
<1>15. CASE UNCHANGED vars
  BY <1>15 DEF IInv, TypeOK, Setups, Jobs, Threads, Shapes, vars, driver, hardware, region
<1> QED
  BY <1>1, <1>2, <1>3, <1>4, <1>5, <1>6, <1>7, <1>8, <1>9, <1>10, <1>11, <1>12, <1>13, <1>14,
    <1>15 DEF Next

\* Writeback, windows and the queue's enable keep their types.
LEMMA HardwareKept ==
  ASSUME IInv, [Next]_vars
  PROVE  (dwb' \in Shapes /\ windows' \subseteq {"mm", "gc"} /\ queueOn' \in BOOLEAN)
<1>1. ASSUME NEW t \in Threads, Unlist(t) \/ List(t) \/ PutActive(t) \/ PutSize(t) PROVE
  (dwb' \in Shapes /\ windows' \subseteq {"mm", "gc"} /\ queueOn' \in BOOLEAN)
  BY <1>1 DEF IInv, TypeOK, Jobs, Threads, Shapes, Reach, Unlist, List, PutActive, PutSize,
    At, Goto, driver, hardware, region
<1>2. ASSUME NEW t \in Threads, PutRest(t) \/ WriteSeq(t) PROVE (dwb' \in Shapes /\ windows'
  \subseteq {"mm", "gc"} /\ queueOn' \in BOOLEAN)
  BY <1>2 DEF IInv, TypeOK, Jobs, Threads, Shapes, Reach, PutRest, WriteSeq, At, Goto,
    driver, hardware, region, After
<1>3. CASE Refuse \/ Setup \/ SdmaTick \/ QueueRefused
  BY <1>3 DEF IInv, TypeOK, Jobs, Threads, Shapes, Reach, Refuse, Setup, SdmaTick,
    QueueRefused, Goto, hardware, region, At, driver
<1>4. CASE Landed \/ Wait \/ Sample \/ Submit
  BY <1>4 DEF IInv, TypeOK, Jobs, Threads, Shapes, Reach, Landed, Wait, Sample, Submit, At,
    hardware, region, Goto, driver
<1>5. CASE Copy \/ Land \/ PowerBegin \/ Load
  BY <1>5 DEF IInv, TypeOK, Jobs, Threads, Shapes, Reach, Copy, Land, PowerBegin, Load,
    driver, hardware, At, Goto, region
<1>6. CASE SnapSize \/ Configure \/ ShowWaiting
  BY <1>6 DEF IInv, TypeOK, Jobs, Threads, Shapes, Reach, SnapSize, Configure, ShowWaiting,
    driver, hardware, region
<1>7. CASE FirstStep
  BY <1>7 DEF IInv, TypeOK, Jobs, Threads, Shapes, Reach, FirstStep, At, Goto, region
<1>8. CASE EnsureAgp
  BY <1>8 DEF IInv, TypeOK, Jobs, Threads, Shapes, Reach, EnsureAgp, At, region
<1>9. CASE Start
  BY <1>9 DEF IInv, TypeOK, Jobs, Threads, Shapes, Reach, Start, At, Goto, Publish, region
<1>10. CASE StopWriteback
  BY <1>10 DEF IInv, TypeOK, Jobs, Threads, Shapes, Reach, StopWriteback, At, Goto, Publish,
    region
<1>11. CASE QueueUp
  BY <1>11 DEF IInv, TypeOK, Jobs, Threads, Shapes, Reach, QueueUp, At, Goto
<1>12. CASE Hang
  BY <1>12 DEF IInv, TypeOK, Jobs, Threads, Shapes, Reach, Hang, At, Goto, Shutdown
<1>13. CASE PowerStop
  BY <1>13 DEF IInv, TypeOK, Jobs, Threads, Shapes, Reach, PowerStop, At, Goto, driver,
    region
<1>14. CASE PowerSdma
  BY <1>14 DEF IInv, TypeOK, Jobs, Threads, Shapes, Reach, PowerSdma, At, Goto, Shutdown
<1>15. CASE PowerClose
  BY <1>15 DEF IInv, TypeOK, Jobs, Threads, Shapes, Reach, PowerClose, At, Goto, Publish,
    region
<1>16. CASE Exit
  BY <1>16 DEF IInv, TypeOK, Jobs, Threads, Shapes, Reach, Exit, driver, region
<1>17. CASE UNCHANGED vars
  BY <1>17 DEF IInv, TypeOK, Jobs, Threads, Shapes, Reach, vars, driver, hardware, region
<1> QED
  BY <1>1, <1>2, <1>3, <1>4, <1>5, <1>6, <1>7, <1>8, <1>9, <1>10, <1>11, <1>12, <1>13, <1>14,
    <1>15, <1>16, <1>17 DEF Next

\* The status word keeps its type.
LEMMA FenceKept ==
  ASSUME IInv, [Next]_vars
  PROVE  fence' \in [seq : Nat, idx : Indices]
<1>1. ASSUME NEW t \in Threads, Unlist(t) \/ List(t) \/ PutActive(t) \/ PutSize(t) PROVE
  fence' \in [seq : Nat, idx : Indices]
  BY <1>1 DEF IInv, TypeOK, Copies, Pollers, Unlist, List, PutActive, PutSize, At, Goto,
    driver, hardware, region
<1>2. ASSUME NEW t \in Threads, PutRest(t) \/ WriteSeq(t)
      PROVE  fence' \in [seq : Nat, idx : Indices]
  BY <1>2 DEF IInv, TypeOK, Copies, Pollers, PutRest, WriteSeq, At, Goto, driver, hardware,
    region, After
<1>3. CASE FirstStep \/ Refuse \/ Setup \/ EnsureAgp
  BY <1>3 DEF IInv, TypeOK, Copies, Pollers, FirstStep, Refuse, Setup, EnsureAgp, At, Goto,
    region, hardware, driver
<1>4. CASE Start \/ StopWriteback \/ SdmaTick \/ QueueRefused
  BY <1>4 DEF IInv, TypeOK, Copies, Pollers, Start, StopWriteback, SdmaTick, QueueRefused,
    At, Goto, Publish, region, driver, hardware
<1>5. CASE QueueUp \/ Landed \/ Wait \/ Hang
  BY <1>5 DEF IInv, TypeOK, Copies, Pollers, QueueUp, Landed, Wait, Hang, At, Goto, hardware,
    region, driver, Shutdown
<1>6. CASE Sample \/ Submit \/ Copy \/ PowerBegin
  BY <1>6 DEF IInv, TypeOK, Copies, Pollers, Sample, Submit, Copy, PowerBegin, At, Goto,
    driver, hardware, region
<1>7. CASE PowerStop \/ PowerSdma \/ PowerClose \/ Load
  BY <1>7 DEF IInv, TypeOK, Copies, Pollers, PowerStop, PowerSdma, PowerClose, Load, At,
    Goto, driver, region, Shutdown, Publish, hardware
<1>8. CASE SnapSize \/ Configure \/ ShowWaiting
  BY <1>8 DEF IInv, TypeOK, Copies, Pollers, SnapSize, Configure, ShowWaiting,
    driver, hardware, region
<1>9. CASE Exit
  BY <1>9 DEF IInv, TypeOK, Copies, Pollers, Exit, driver, region
<1>10. CASE Land
  BY <1>10, DisplayAssumption DEF IInv, TypeOK, Copies, Pollers, Land, driver, hardware
<1>11. CASE UNCHANGED vars
  BY <1>11 DEF IInv, TypeOK, Copies, Pollers, vars, driver, hardware, region
<1> QED
  BY <1>1, <1>2, <1>3, <1>4, <1>5, <1>6, <1>7, <1>8, <1>9, <1>10, <1>11 DEF Next

\* The buffers, the cursor image and the history of the status word keep their types.
BuffersTyped ==
  /\ buf \in [Indices -> Shapes \cup {"torn"}] /\ image \in BOOLEAN
  /\ word \in {"zeroed", "left", "renewed"}

LEMMA BuffersKept ==
  ASSUME IInv, [Next]_vars
  PROVE  BuffersTyped'
<1>1. ASSUME NEW t \in Threads, Unlist(t) \/ List(t) \/ PutActive(t) \/ PutSize(t) PROVE
  BuffersTyped'
  BY <1>1 DEF IInv, BuffersTyped, TypeOK, Copies, Shapes, Unlist, List, PutActive,
    PutSize, At, Goto, driver, hardware, region
<1>2. ASSUME NEW t \in Threads, PutRest(t) \/ WriteSeq(t) PROVE BuffersTyped'
  BY <1>2 DEF IInv, BuffersTyped, TypeOK, Copies, Shapes, PutRest, WriteSeq, At, Goto,
    driver, hardware, region, After
<1>3. CASE FirstStep \/ Refuse \/ Setup \/ EnsureAgp
  BY <1>3 DEF IInv, BuffersTyped, TypeOK, Copies, Shapes, FirstStep, Refuse, Setup,
    EnsureAgp, At, Goto, region, hardware, driver
<1>4. CASE Start \/ StopWriteback \/ SdmaTick \/ QueueRefused
  BY <1>4 DEF IInv, BuffersTyped, TypeOK, Copies, Shapes, Start, StopWriteback, SdmaTick,
    QueueRefused, At, Goto, Publish, region, driver, hardware
<1>5. CASE QueueUp \/ Landed \/ Wait \/ Hang
  BY <1>5 DEF IInv, BuffersTyped, TypeOK, Copies, Shapes, QueueUp, Landed, Wait, Hang, At,
    Goto, hardware, region, driver, Shutdown
<1>6. CASE Sample \/ Submit \/ PowerBegin \/ PowerStop
  BY <1>6 DEF IInv, BuffersTyped, TypeOK, Copies, Shapes, Sample, Submit, PowerBegin,
    PowerStop, At, Goto, driver, hardware, region
<1>7. CASE PowerSdma \/ PowerClose \/ Load \/ SnapSize
  BY <1>7 DEF IInv, BuffersTyped, TypeOK, Copies, Shapes, PowerSdma, PowerClose, Load,
    SnapSize, At, Goto, Shutdown, Publish, region, driver, hardware
<1>8. CASE Configure \/ ShowWaiting \/ Exit
  BY <1>8 DEF IInv, BuffersTyped, TypeOK, Copies, Shapes, Configure, ShowWaiting, Exit,
    driver, hardware, region
<1>9. CASE Copy
  BY <1>9 DEF IInv, BuffersTyped, TypeOK, Copies, Shapes, Copy, driver, hardware
<1>10. CASE Land
  BY <1>10 DEF IInv, BuffersTyped, TypeOK, Copies, Shapes, Land, driver, hardware
<1>11. CASE UNCHANGED vars
  BY <1>11 DEF IInv, BuffersTyped, TypeOK, Copies, Shapes, vars, driver, hardware, region
<1> QED
  BY <1>1, <1>2, <1>3, <1>4, <1>5, <1>6, <1>7, <1>8, <1>9, <1>10, <1>11 DEF Next

\* The stage keeps its type.
LEMMA RestKept ==
  ASSUME IInv, [Next]_vars
  PROVE  stage' \in {0, 2} /\ exited' \in BOOLEAN
<1>1. ASSUME NEW t \in Threads, Unlist(t) \/ List(t) \/ PutActive(t) \/ PutSize(t) PROVE
  stage' \in {0, 2} /\ exited' \in BOOLEAN
  BY <1>1 DEF IInv, TypeOK, Shapes, Unlist, List, PutActive, PutSize, At, Goto, driver,
    hardware, region
<1>2. ASSUME NEW t \in Threads, PutRest(t) \/ WriteSeq(t)
      PROVE  stage' \in {0, 2} /\ exited' \in BOOLEAN
  BY <1>2 DEF IInv, TypeOK, Shapes, PutRest, WriteSeq, At, Goto, driver, hardware, region,
    After
<1>3. CASE FirstStep \/ Refuse \/ Setup \/ EnsureAgp
  BY <1>3 DEF IInv, TypeOK, Shapes, FirstStep, Refuse, Setup, EnsureAgp, At, Goto, region,
    hardware, driver
<1>4. CASE Start \/ StopWriteback \/ SdmaTick \/ QueueRefused
  BY <1>4 DEF IInv, TypeOK, Shapes, Start, StopWriteback, SdmaTick, QueueRefused, At, Goto,
    Publish, region, driver, hardware
<1>5. CASE QueueUp \/ Landed \/ Wait \/ Hang
  BY <1>5 DEF IInv, TypeOK, Shapes, QueueUp, Landed, Wait, Hang, At, Goto, hardware, region,
    driver, Shutdown
<1>6. CASE Sample \/ Submit \/ Copy \/ Land
  BY <1>6 DEF IInv, TypeOK, Shapes, Sample, Submit, Copy, Land, At, Goto, driver, hardware,
    region
<1>7. CASE PowerBegin \/ PowerStop \/ PowerSdma \/ PowerClose
  BY <1>7 DEF IInv, TypeOK, Shapes, PowerBegin, PowerStop, PowerSdma, PowerClose, At, Goto,
    hardware, region, driver, Shutdown, Publish
<1>8. CASE Load \/ SnapSize \/ Configure \/ ShowWaiting
  BY <1>8 DEF IInv, TypeOK, Shapes, Load, SnapSize, Configure, ShowWaiting, driver, hardware,
    region
<1>10. CASE Exit
  BY <1>10 DEF IInv, TypeOK, Shapes, Exit, driver, region
<1>11. CASE UNCHANGED vars
  BY <1>11 DEF IInv, TypeOK, Shapes, vars, driver, hardware, region
<1> QED
  BY <1>1, <1>2, <1>3, <1>4, <1>5, <1>6, <1>7, <1>8, <1>10, <1>11 DEF Next

\* Every step leaves each thread with a job for its place.
LEMMA JobbedKept == ASSUME IInv, [Next]_vars PROVE Jobbed'
<1>1. ASSUME NEW t \in Threads, Unlist(t) PROVE Jobbed'
  BY <1>1 DEF IInv, Jobbed, Publishing, Unlist, At, Goto, driver, hardware, region
<1>2. ASSUME NEW t \in Threads, List(t) PROVE Jobbed'
  BY <1>2 DEF IInv, Jobbed, Publishing, TypeOK, Setups, Pollers, Threads, NoJob, Jobs, List,
    At, Goto, driver, hardware, region
<1>3. ASSUME NEW t \in Threads, PutActive(t) PROVE Jobbed'
  BY <1>3 DEF IInv, Jobbed, Publishing, PutActive, At, Goto, driver, hardware, region
<1>4. ASSUME NEW t \in Threads, PutSize(t) PROVE Jobbed'
  BY <1>4 DEF IInv, Jobbed, Publishing, PutSize, At, Goto, driver, hardware, region
<1>5. ASSUME NEW t \in Threads, PutRest(t) PROVE Jobbed'
  BY <1>5 DEF IInv, Jobbed, Publishing, PutRest, At, Goto, driver, hardware, region
<1>6. ASSUME NEW t \in Threads, WriteSeq(t) PROVE Jobbed'
  BY <1>6 DEF IInv, Jobbed, Publishing, TypeOK, Setups, Pollers, Threads, NoJob, Jobs,
    WriteSeq, At, Goto, After, hardware, region
<1>7. CASE FirstStep
  BY <1>7 DEF IInv, Jobbed, Publishing, FirstStep, At, Goto, region
<1>8. CASE Refuse
  BY <1>8 DEF IInv, Jobbed, Publishing, Refuse, Goto, hardware, region
<1>9. CASE Setup
  BY <1>9, SetupMeans DEF IInv, TypeOK, Threads, driver, hardware, region, Publishing,
    Jobbed
<1>10. CASE EnsureAgp
  BY <1>10 DEF IInv, Jobbed, Publishing, TypeOK, Setups, Pollers, Threads, NoJob, Jobs,
    EnsureAgp, At, region
<1>11. CASE Start
  BY <1>11 DEF IInv, Jobbed, Publishing, TypeOK, Setups, Pollers, Threads, NoJob, Jobs,
    Start, At, Goto, Publish, region
<1>12. CASE StopWriteback
  BY <1>12 DEF IInv, Jobbed, Publishing, TypeOK, Setups, Pollers, Threads, NoJob, Jobs,
    StopWriteback, At, Goto, Publish, region
<1>13. CASE SdmaTick
  BY <1>13 DEF IInv, Jobbed, Publishing, SdmaTick, At, Goto, driver, hardware, region
<1>14. CASE QueueRefused
  BY <1>14 DEF IInv, Jobbed, Publishing, QueueRefused, At, Goto, hardware, region
<1>15. CASE QueueUp
  BY <1>15 DEF IInv, Jobbed, Publishing, TypeOK, Setups, Pollers, Threads, NoJob, Jobs,
    QueueUp, At, Goto
<1>16. CASE Landed
  BY <1>16 DEF IInv, Jobbed, Publishing, Landed, At, hardware, region
<1>17. CASE Wait
  BY <1>17 DEF IInv, Jobbed, Publishing, Wait, At, Goto, driver, hardware, region
<1>18. CASE Hang
  BY <1>18 DEF IInv, Jobbed, Publishing, Hang, At, Goto, Shutdown
<1>19. CASE Sample
  BY <1>19, SampleMeans DEF driver, hardware, region, IInv, Jobbed, Publishing,
    Threads
<1>20. CASE Submit
  BY <1>20 DEF IInv, Jobbed, Publishing, TypeOK, Setups, Pollers, Threads, NoJob, Jobs,
    Submit, At, Goto, hardware
<1>21. CASE Copy
  BY <1>21 DEF IInv, Jobbed, Publishing, Copy, driver, hardware
<1>22. CASE Land
  BY <1>22 DEF IInv, Jobbed, Publishing, Land, driver, hardware
<1>23. CASE PowerBegin
  BY <1>23 DEF IInv, Jobbed, Publishing, PowerBegin, At, Goto, hardware, region
<1>24. CASE PowerStop
  BY <1>24 DEF IInv, Jobbed, Publishing, PowerStop, At, Goto, driver, region
<1>25. CASE PowerSdma
  BY <1>25 DEF IInv, Jobbed, Publishing, PowerSdma, At, Goto, Shutdown
<1>26. CASE PowerClose
  BY <1>26 DEF IInv, Jobbed, Publishing, TypeOK, Setups, Pollers, Threads, NoJob, Jobs,
    PowerClose, At, Goto, Publish, region
<1>27. CASE Load
  BY <1>27 DEF IInv, Jobbed, Publishing, Load, driver, hardware, region
<1>28. CASE SnapSize
  BY <1>28 DEF IInv, Jobbed, Publishing, SnapSize, driver, hardware, region
<1>29. CASE Configure
  BY <1>29 DEF IInv, Jobbed, Publishing, Configure, driver, hardware, region
<1>30. CASE ShowWaiting
  BY <1>30 DEF IInv, Jobbed, Publishing, ShowWaiting, driver, hardware, region
<1>32. CASE Exit
  BY <1>32 DEF IInv, Jobbed, Publishing, Exit, driver, region
<1>33. CASE UNCHANGED vars
  BY <1>33 DEF IInv, Jobbed, Publishing, vars, driver, hardware, region
<1> QED
  BY <1>1, <1>2, <1>3, <1>4, <1>5, <1>6, <1>7, <1>8, <1>9, <1>10, <1>11, <1>12, <1>13, <1>14,
    <1>15, <1>16, <1>17, <1>18, <1>19, <1>20, <1>21, <1>22, <1>23, <1>24, <1>25, <1>26,
    <1>27, <1>28, <1>29, <1>30, <1>32, <1>33 DEF Next

\* No step makes more publications due than the bound leaves room for.
LEMMA CountedKept == ASSUME IInv, [Next]_vars PROVE Counted'
<1>1. ASSUME NEW t \in Threads, Unlist(t) PROVE Counted'
  BY <1>1, DisplayAssumption DEF IInv, Counted, Owed, TypeOK, Setups, Pollers, Threads,
    Pages, Publishing, Jobs, NoJob, After, Jobbed, Unlist, At, Goto, driver, hardware, region
<1>2. ASSUME NEW t \in Threads, List(t) PROVE Counted'
  BY <1>2, DisplayAssumption DEF IInv, Counted, Owed, TypeOK, Setups, Pollers, Threads,
    Pages, Publishing, Jobs, NoJob, After, Jobbed, List, At, Goto, driver, hardware, region
<1>3. ASSUME NEW t \in Threads, PutActive(t) PROVE Counted'
  BY <1>3, DisplayAssumption DEF IInv, Counted, Owed, TypeOK, Setups, Pollers, Threads,
    Pages, Publishing, Jobs, NoJob, After, Jobbed, PutActive, At, Goto, driver, hardware,
    region
<1>4. ASSUME NEW t \in Threads, PutSize(t) PROVE Counted'
  BY <1>4, DisplayAssumption DEF IInv, Counted, Owed, TypeOK, Setups, Pollers, Threads,
    Pages, Publishing, Jobs, NoJob, After, Jobbed, PutSize, At, Goto, driver, hardware,
    region
<1>5. ASSUME NEW t \in Threads, PutRest(t) PROVE Counted'
  BY <1>5, DisplayAssumption DEF IInv, Counted, Owed, TypeOK, Setups, Pollers, Threads,
    Pages, Publishing, Jobs, NoJob, After, Jobbed, PutRest, At, Goto, driver, hardware,
    region
<1>6. ASSUME NEW t \in Threads, WriteSeq(t) PROVE Counted'
  BY <1>6, DisplayAssumption DEF IInv, Counted, Owed, TypeOK, Setups, Pollers, Threads,
    Pages, Publishing, Jobs, NoJob, After, Jobbed, WriteSeq, At, Goto, hardware, region
<1>7. CASE FirstStep
  BY <1>7, DisplayAssumption DEF IInv, Counted, Owed, TypeOK, Setups, Pollers, Threads,
    Pages, Publishing, Jobs, NoJob, After, Jobbed, FirstStep, At, Goto, region
<1>8. CASE Refuse
  BY <1>8, DisplayAssumption DEF IInv, Counted, Owed, TypeOK, Setups, Pollers, Threads,
    Pages, Publishing, Jobs, NoJob, After, Jobbed, Refuse, Goto, hardware, region
<1>9. CASE Setup
  BY <1>9, DisplayAssumption DEF IInv, Counted, Owed, TypeOK, Setups, Pollers, Threads,
    Pages, Publishing, Jobs, NoJob, After, Jobbed, Setup, At, Goto, driver, hardware, region
<1>10. CASE EnsureAgp
  BY <1>10, DisplayAssumption DEF IInv, Counted, Owed, TypeOK, Setups, Pollers, Threads,
    Pages, Publishing, Jobs, NoJob, After, Jobbed, EnsureAgp, At, region
<1>11. CASE Start
  <2>1. ctl.seq + Owed("wb") + Owed("sdma") + Owed("power") < MaxSeq
    BY <1>11, RoomLeft DEF IInv, Start, Publish
  <2> QED
    BY <1>11, <2>1, DisplayAssumption DEF Start, At, Goto, Publish, IInv, Counted, Owed,
       TypeOK,
      Setups, Pollers, Threads, Pages, Publishing, Jobs, NoJob, After, Jobbed
<1>12. CASE StopWriteback
  <2>1. ctl.seq + Owed("wb") + Owed("sdma") + Owed("power") < MaxSeq
    BY <1>12, RoomLeft DEF IInv, StopWriteback, Publish
  <2> QED
    BY <1>12, <2>1, DisplayAssumption DEF StopWriteback, At, Goto, Publish, IInv, Counted,
       Owed,
      TypeOK, Setups, Pollers, Threads, Pages, Publishing, Jobs, NoJob, After, Jobbed
<1>13. CASE SdmaTick
  BY <1>13, DisplayAssumption DEF IInv, Counted, Owed, TypeOK, Setups, Pollers, Threads,
    Pages, Publishing, Jobs, NoJob, After, Jobbed, SdmaTick, At, Goto, driver, hardware,
    region
<1>14. CASE QueueRefused
  BY <1>14, DisplayAssumption DEF IInv, Counted, Owed, TypeOK, Setups, Pollers, Threads,
    Pages, Publishing, Jobs, NoJob, After, Jobbed, QueueRefused, At, Goto, hardware, region
<1>15. CASE QueueUp
  BY <1>15, DisplayAssumption DEF IInv, Counted, Owed, TypeOK, Setups, Pollers, Threads,
    Pages, Publishing, Jobs, NoJob, After, Jobbed, QueueUp, At, Goto
<1>16. CASE Landed
  BY <1>16, DisplayAssumption DEF IInv, Counted, Owed, TypeOK, Setups, Pollers, Threads,
    Pages, Publishing, Jobs, NoJob, After, Jobbed, Landed, At, hardware, region
<1>17. CASE Wait
  BY <1>17, DisplayAssumption DEF IInv, Counted, Owed, TypeOK, Setups, Pollers, Threads,
    Pages, Publishing, Jobs, NoJob, After, Jobbed, Wait, At, Goto, driver, hardware, region
<1>18. CASE Hang
  BY <1>18, DisplayAssumption DEF IInv, Counted, Owed, TypeOK, Setups, Pollers, Threads,
    Pages, Publishing, Jobs, NoJob, After, Jobbed, Hang, At, Goto, Shutdown
<1>19. CASE Sample
  <2>1. Room => ctl.seq + Owed("wb") + Owed("sdma") + Owed("power") < MaxSeq
    BY RoomLeft DEF IInv
  <2> QED
    BY <1>19, <2>1, SampleMeans, DisplayAssumption DEF IInv, Counted, Owed, TypeOK, Pages,
       Publishing
<1>20. CASE Submit
  BY <1>20, DisplayAssumption DEF IInv, Counted, Owed, TypeOK, Setups, Pollers, Threads,
    Pages, Publishing, Jobs, NoJob, After, Jobbed, Submit, At, Goto, hardware
<1>21. CASE Copy
  BY <1>21, DisplayAssumption DEF IInv, Counted, Owed, Copy, driver, hardware
<1>22. CASE Land
  BY <1>22, DisplayAssumption DEF IInv, Counted, Owed, Land, driver, hardware
<1>23. CASE PowerBegin
  BY <1>23, DisplayAssumption DEF IInv, Counted, Owed, TypeOK, Setups, Pollers, Threads,
    Pages, Publishing, Jobs, NoJob, After, Jobbed, PowerBegin, At, Goto, hardware, region
<1>24. CASE PowerStop
  BY <1>24, DisplayAssumption DEF IInv, Counted, Owed, TypeOK, Setups, Pollers, Threads,
    Pages, Publishing, Jobs, NoJob, After, Jobbed, PowerStop, At, Goto, driver, region
<1>25. CASE PowerSdma
  BY <1>25, DisplayAssumption DEF IInv, Counted, Owed, TypeOK, Setups, Pollers, Threads,
    Pages, Publishing, Jobs, NoJob, After, Jobbed, PowerSdma, At, Goto, Shutdown
<1>26. CASE PowerClose
  <2>1. ctl.seq + Owed("wb") + Owed("sdma") + Owed("power") < MaxSeq
    BY <1>26, RoomLeft DEF IInv, PowerClose, Publish
  <2> QED
    BY <1>26, <2>1, DisplayAssumption DEF PowerClose, At, Goto, Publish, IInv, Counted, Owed,
      TypeOK, Setups, Pollers, Threads, Pages, Publishing, Jobs, NoJob, After, Jobbed
<1>27. CASE Load
  BY <1>27, DisplayAssumption DEF IInv, Counted, Owed, Load, driver, hardware, region
<1>28. CASE SnapSize
  BY <1>28, DisplayAssumption DEF IInv, Counted, Owed, SnapSize, driver, hardware, region
<1>29. CASE Configure
  BY <1>29, DisplayAssumption DEF IInv, Counted, Owed, Configure, driver, hardware, region
<1>30. CASE ShowWaiting
  BY <1>30, DisplayAssumption DEF IInv, Counted, Owed, ShowWaiting, driver, hardware, region
<1>32. CASE Exit
  BY <1>32, DisplayAssumption DEF IInv, Counted, Owed, Exit, driver, region
<1>33. CASE UNCHANGED vars
  BY <1>33 DEF IInv, Counted, Owed, vars, driver, hardware, region
<1> QED
  BY <1>1, <1>2, <1>3, <1>4, <1>5, <1>6, <1>7, <1>8, <1>9, <1>10, <1>11, <1>12, <1>13, <1>14,
    <1>15, <1>16, <1>17, <1>18, <1>19, <1>20, <1>21, <1>22, <1>23, <1>24, <1>25, <1>26,
    <1>27, <1>28, <1>29, <1>30, <1>32, <1>33 DEF Next

\* The fence never overtakes the submissions, and reaches them when nothing is in flight.
LEMMA FencedKept == ASSUME IInv, [Next]_vars PROVE Fenced'
<1>1. ASSUME NEW t \in Threads, Unlist(t) PROVE Fenced'
  BY <1>1 DEF IInv, Fenced, Flying, Queued, Ours, Busy, Waits, Newest, Sampled, Unlist,
    At, Goto, driver, hardware, region
<1>2. ASSUME NEW t \in Threads, List(t) PROVE Fenced'
  BY <1>2 DEF IInv, Fenced, Flying, Queued, Ours, Busy, Waits, Newest, Sampled, List, At,
    Goto, driver, hardware, region
<1>3. ASSUME NEW t \in Threads, PutActive(t) PROVE Fenced'
  BY <1>3 DEF IInv, Fenced, Flying, Queued, Ours, Busy, Waits, Newest, Sampled, PutActive,
    At, Goto, driver, hardware, region
<1>4. ASSUME NEW t \in Threads, PutSize(t) PROVE Fenced'
  BY <1>4 DEF IInv, Fenced, Flying, Queued, Ours, Busy, Waits, Newest, Sampled, PutSize,
    At, Goto, driver, hardware, region
<1>5. ASSUME NEW t \in Threads, PutRest(t) PROVE Fenced'
  BY <1>5 DEF IInv, Fenced, Flying, Queued, Ours, Busy, Waits, Newest, Sampled, PutRest,
    At, Goto, driver, hardware, region
<1>6. ASSUME NEW t \in Threads, WriteSeq(t) PROVE Fenced'
  BY <1>6 DEF IInv, Fenced, Flying, Queued, Ours, Busy, Waits, Newest, Sampled, WriteSeq,
    At, Goto, After, hardware, region
<1>7. CASE FirstStep
  BY <1>7 DEF IInv, Fenced, Flying, Queued, Ours, Busy, Waits, Newest, Sampled, FirstStep,
    At, Goto, region
<1>8. CASE Refuse
  BY <1>8 DEF IInv, Fenced, Flying, Queued, Ours, Busy, Waits, Newest, Sampled, Refuse,
    Goto, hardware, region
<1>9. CASE Setup
  BY <1>9 DEF IInv, Fenced, Flying, Queued, Ours, Busy, Waits, Newest, Sampled, Setup, At,
    Goto, driver, hardware, region
<1>10. CASE EnsureAgp
  BY <1>10 DEF IInv, Fenced, Flying, Queued, Ours, Busy, Waits, Newest, Sampled,
    EnsureAgp, At, region
<1>11. CASE Start
  BY <1>11 DEF IInv, Fenced, Flying, Queued, Ours, Busy, Waits, Newest, Sampled, Start,
    At, Goto, Publish, region
<1>12. CASE StopWriteback
  BY <1>12 DEF IInv, Fenced, Flying, Queued, Ours, Busy, Waits, Newest, Sampled,
    StopWriteback, At, Goto, Publish, region
<1>13. CASE SdmaTick
  BY <1>13 DEF IInv, Fenced, Flying, Queued, Ours, Busy, Waits, Newest, Sampled, SdmaTick,
    At, Goto, driver, hardware, region
<1>14. CASE QueueRefused
  BY <1>14 DEF IInv, Fenced, Flying, Queued, Ours, Busy, Waits, Newest, Sampled,
    QueueRefused, At, Goto, hardware, region
<1>15. CASE QueueUp
  BY <1>15 DEF IInv, Fenced, Flying, Queued, Ours, Busy, Waits, Newest, Sampled, TypeOK,
    Setups, Pollers, Publishing, Copies, QueueUp, At, Goto
<1>16. CASE Landed
  BY <1>16 DEF IInv, Fenced, Flying, Queued, Ours, Busy, Waits, Newest, Sampled, Landed,
    At, hardware, region
<1>17. CASE Wait
  BY <1>17 DEF IInv, Fenced, Flying, Queued, Ours, Busy, Waits, Newest, Sampled, Wait, At,
    Goto, driver, hardware, region
<1>18. CASE Hang
  BY <1>18 DEF IInv, Fenced, Flying, Queued, Ours, Busy, Waits, Newest, Sampled, Hang, At,
    Goto, Shutdown
<1>19. CASE Sample
  BY <1>19 DEF IInv, Fenced, Flying, Queued, Ours, Busy, Waits, Newest, Sampled, Sample,
    At, Goto, driver, hardware, region
<1>20. CASE Submit
  BY <1>20, SubmitMeans DEF IInv, TypeOK, Pollers, Fenced, Ours
<1>21. CASE Copy
  BY <1>21 DEF IInv, Fenced, Flying, Queued, Ours, Busy, Waits, Newest, Sampled, Copy,
    driver, hardware
<1>22. CASE Land
  BY <1>22 DEF IInv, Fenced, Flying, Queued, Ours, Busy, Waits, Newest, Sampled, TypeOK,
    Setups, Pollers, Publishing, Copies, Land, driver, hardware
<1>23. CASE PowerBegin
  BY <1>23 DEF IInv, Fenced, Flying, Queued, Ours, Busy, Waits, Newest, Sampled,
    PowerBegin, At, Goto, hardware, region
<1>24. CASE PowerStop
  BY <1>24 DEF IInv, Fenced, Flying, Queued, Ours, Busy, Waits, Newest, Sampled,
    PowerStop, At, Goto, driver, region
<1>25. CASE PowerSdma
  BY <1>25 DEF IInv, Fenced, Flying, Queued, Ours, Busy, Waits, Newest, Sampled,
    PowerSdma, At, Goto, Shutdown
<1>26. CASE PowerClose
  BY <1>26 DEF IInv, Fenced, Flying, Queued, Ours, Busy, Waits, Newest, Sampled,
    PowerClose, At, Goto, Publish, region
<1>27. CASE Load
  BY <1>27 DEF IInv, Fenced, Flying, Queued, Ours, Busy, Waits, Newest, Sampled, Load,
    driver, hardware, region
<1>28. CASE SnapSize
  BY <1>28 DEF IInv, Fenced, Flying, Queued, Ours, Busy, Waits, Newest, Sampled, SnapSize,
    driver, hardware, region
<1>29. CASE Configure
  BY <1>29 DEF IInv, Fenced, Flying, Queued, Ours, Busy, Waits, Newest, Sampled,
    Configure, driver, hardware, region
<1>30. CASE ShowWaiting
  BY <1>30 DEF IInv, Fenced, Flying, Queued, Ours, Busy, Waits, Newest, Sampled,
    ShowWaiting, driver, hardware, region
<1>32. CASE Exit
  BY <1>32 DEF IInv, Fenced, Flying, Queued, Ours, Busy, Waits, Newest, Sampled, Exit,
    driver, region
<1>33. CASE UNCHANGED vars
  BY <1>33 DEF IInv, Fenced, Flying, Queued, Ours, Busy, Waits, Newest, Sampled, vars,
    driver, hardware, region
<1> QED
  BY <1>1, <1>2, <1>3, <1>4, <1>5, <1>6, <1>7, <1>8, <1>9, <1>10, <1>11, <1>12, <1>13, <1>14,
    <1>15, <1>16, <1>17, <1>18, <1>19, <1>20, <1>21, <1>22, <1>23, <1>24, <1>25, <1>26,
    <1>27, <1>28, <1>29, <1>30, <1>32, <1>33 DEF Next

\* A copy the engine has not finished is the last one submitted, into a buffer not shown.
LEMMA FlyingKept == ASSUME IInv, [Next]_vars PROVE Flying'
<1>1. ASSUME NEW t \in Threads, Unlist(t) PROVE Flying'
  BY <1>1 DEF IInv, Fenced, Flying, Queued, Ours, Busy, Waits, Newest, Sampled,
    Publishing, Unlist, At, Goto, driver, hardware, region
<1>2. ASSUME NEW t \in Threads, List(t) PROVE Flying'
  BY <1>2 DEF IInv, Fenced, Flying, Queued, Ours, Busy, Waits, Newest, Sampled,
    Publishing, List, At, Goto, driver, hardware, region
<1>3. ASSUME NEW t \in Threads, PutActive(t) PROVE Flying'
  BY <1>3 DEF IInv, Fenced, Flying, Queued, Ours, Busy, Waits, Newest, Sampled,
    Publishing, PutActive, At, Goto, driver, hardware, region
<1>4. ASSUME NEW t \in Threads, PutSize(t) PROVE Flying'
  BY <1>4 DEF IInv, Fenced, Flying, Queued, Ours, Busy, Waits, Newest, Sampled,
    Publishing, PutSize, At, Goto, driver, hardware, region
<1>5. ASSUME NEW t \in Threads, PutRest(t) PROVE Flying'
  BY <1>5 DEF IInv, Fenced, Flying, Queued, Ours, Busy, Waits, Newest, Sampled,
    Publishing, PutRest, At, Goto, driver, hardware, region
<1>6. ASSUME NEW t \in Threads, WriteSeq(t) PROVE Flying'
  <2>1. /\ pc[t] = "seq" /\ pc' = [pc EXCEPT ![t] = After(t)]
        /\ t # "sdma" => sdma' = sdma /\ job' = [job EXCEPT ![t] = NoJob]
        /\ t = "sdma" => job' = job /\ sdma' = [sdma EXCEPT !.published = job[t].mode]
        /\ UNCHANGED region
    BY <1>6 DEF WriteSeq, At, Goto
  <2>2. CASE t = "sdma"
    <3>1. /\ sdma'.seq = sdma.seq /\ sdma'.last = sdma.last
          /\ sdma'.inFlight = sdma.inFlight /\ pc'["sdma"] = "submit"
          /\ job'["sdma"] = job["sdma"]
      BY <2>1, <2>2 DEF IInv, TypeOK, Pollers, Threads, After
    <3>2. job["sdma"].frame /\ ~sdma.inFlight
      BY <2>1, <2>2 DEF IInv, Jobbed, Sampled, Publishing, Threads
    <3> QED
      BY <2>1, <3>1, <3>2 DEF IInv, Flying, Ours, Busy, Waits, Newest, region
  <2>3. CASE t # "sdma"
    <3>1. pc'["sdma"] = pc["sdma"] /\ job'["sdma"] = job["sdma"]
      BY <2>1, <2>3 DEF IInv, TypeOK, Threads
    <3> QED
      BY <2>1, <2>3, <3>1 DEF IInv, Flying, Ours, Busy, Waits, Newest, region
  <2> QED
    BY <2>2, <2>3
<1>7. CASE FirstStep
  BY <1>7 DEF IInv, Fenced, Flying, Queued, Ours, Busy, Waits, Newest, Sampled,
    Publishing, FirstStep, At, Goto, region
<1>8. CASE Refuse
  BY <1>8 DEF IInv, Fenced, Flying, Queued, Ours, Busy, Waits, Newest, Sampled,
    Publishing, Refuse, Goto, hardware, region
<1>9. CASE Setup
  BY <1>9, SetupMeans DEF IInv, TypeOK, Threads, driver, hardware, region, Publishing,
    Fenced, Flying, Queued, Ours, Busy, Waits, Newest
<1>10. CASE EnsureAgp
  BY <1>10 DEF IInv, Fenced, Flying, Queued, Ours, Busy, Waits, Newest, Sampled,
    Publishing, TypeOK, Setups, Pollers, Copies, Idle, Threads, EnsureAgp, At, region
<1>11. CASE Start
  BY <1>11 DEF IInv, Fenced, Flying, Queued, Ours, Busy, Waits, Newest, Sampled,
    Publishing, Start, At, Goto, Publish, region
<1>12. CASE StopWriteback
  BY <1>12 DEF IInv, Fenced, Flying, Queued, Ours, Busy, Waits, Newest, Sampled,
    Publishing, StopWriteback, At, Goto, Publish, region
<1>13. CASE SdmaTick
  BY <1>13 DEF IInv, Fenced, Flying, Queued, Ours, Busy, Waits, Newest, Sampled,
    Publishing, SdmaTick, At, Goto, driver, hardware, region
<1>14. CASE QueueRefused
  BY <1>14 DEF IInv, Fenced, Flying, Queued, Ours, Busy, Waits, Newest, Sampled,
    Publishing, QueueRefused, At, Goto, hardware, region
<1>15. CASE QueueUp
  BY <1>15 DEF IInv, Fenced, Flying, Queued, Ours, Busy, Waits, Newest, Sampled,
    Publishing, TypeOK, Setups, Pollers, Copies, Idle, Threads, QueueUp, At, Goto
<1>16. CASE Landed
  BY <1>16 DEF IInv, Fenced, Flying, Queued, Ours, Busy, Waits, Newest, Sampled,
    Publishing, Landed, At, hardware, region
<1>17. CASE Wait
  BY <1>17 DEF IInv, Fenced, Flying, Queued, Ours, Busy, Waits, Newest, Sampled,
    Publishing, Wait, At, Goto, driver, hardware, region
<1>18. CASE Hang
  BY <1>18 DEF IInv, Fenced, Flying, Queued, Ours, Busy, Waits, Newest, Sampled,
    Publishing, TypeOK, Setups, Pollers, Copies, Idle, Threads, Hang, At, Goto, Shutdown
<1>19. CASE Sample
  BY <1>19 DEF IInv, Fenced, Flying, Queued, Ours, Busy, Waits, Newest, Sampled,
    Publishing, Sample, At, Goto, driver, hardware, region
<1>20. CASE Submit
  <2>1. PICK copy \in Copies :
          /\ copy.state = "queued" /\ copy.seq = sdma'.seq /\ copy.idx = sdma'.last
          /\ copy.mode \in Modes /\ copy.cursor = sdma'.pending
          /\ copy.frame => copy.mode = sdma.published
          /\ IF copy.frame THEN copy.idx # sdma.last ELSE copy.idx = sdma.last
          /\ IF Busy THEN behind' = copy /\ engine' = engine
                     ELSE engine' = copy /\ behind' = behind
    BY <1>20, SubmitMeans
  <2>2. /\ ~sdma.inFlight /\ pc'["sdma"] = "idle" /\ sdma'.inFlight
        /\ sdma'.seq = sdma.seq + 1 /\ sdma'.published = sdma.published
        /\ UNCHANGED <<fence, word>>
    BY <1>20, SubmitMeans
  <2>3. CASE Busy
    <3>1. Waits' /\ ~Ours' /\ Newest' = copy /\ engine' = engine /\ engine.mode \in Modes
      BY <2>1, <2>2, <2>3 DEF IInv, Flying, Ours, Waits, Newest
    <3> QED
      BY <2>1, <2>2, <3>1 DEF Flying, Ours, Waits
  <2>4. CASE ~Busy
    <3>1. ~Waits' /\ Newest' = copy /\ engine' = copy
      BY <2>1, <2>4 DEF IInv, Queued, Waits, Newest
    <3>2. Ours => fence.seq = sdma.seq /\ fence.idx = sdma.last
      BY <2>2 DEF IInv, Fenced
    <3>3. sdma.seq \in Nat
      BY DEF IInv, TypeOK, Pollers
    <3> QED
      BY <2>1, <2>2, <3>1, <3>2, <3>3 DEF Flying, Ours
  <2> QED
    BY <2>3, <2>4
<1>21. CASE Copy
  BY <1>21 DEF IInv, Fenced, Flying, Queued, Ours, Busy, Waits, Newest, Sampled,
    Publishing, TypeOK, Setups, Pollers, Copies, Idle, Threads, Copy, driver, hardware
<1>22. CASE Land
  BY <1>22 DEF IInv, Fenced, Flying, Queued, Ours, Busy, Waits, Newest, Sampled,
    Publishing, TypeOK, Setups, Pollers, Copies, Idle, Threads, Land, driver, hardware
<1>23. CASE PowerBegin
  BY <1>23 DEF IInv, Fenced, Flying, Queued, Ours, Busy, Waits, Newest, Sampled,
    Publishing, PowerBegin, At, Goto, hardware, region
<1>24. CASE PowerStop
  BY <1>24 DEF IInv, Fenced, Flying, Queued, Ours, Busy, Waits, Newest, Sampled,
    Publishing, PowerStop, At, Goto, driver, region
<1>25. CASE PowerSdma
  BY <1>25 DEF IInv, Fenced, Flying, Queued, Ours, Busy, Waits, Newest, Sampled,
    Publishing, TypeOK, Setups, Pollers, Copies, Idle, Threads, PowerSdma, At, Goto,
    Shutdown
<1>26. CASE PowerClose
  BY <1>26 DEF IInv, Fenced, Flying, Queued, Ours, Busy, Waits, Newest, Sampled,
    Publishing, PowerClose, At, Goto, Publish, region
<1>27. CASE Load
  BY <1>27 DEF IInv, Fenced, Flying, Queued, Ours, Busy, Waits, Newest, Sampled,
    Publishing, Load, driver, hardware, region
<1>28. CASE SnapSize
  BY <1>28 DEF IInv, Fenced, Flying, Queued, Ours, Busy, Waits, Newest, Sampled,
    Publishing, SnapSize, driver, hardware, region
<1>29. CASE Configure
  BY <1>29 DEF IInv, Fenced, Flying, Queued, Ours, Busy, Waits, Newest, Sampled,
    Publishing, Configure, driver, hardware, region
<1>30. CASE ShowWaiting
  BY <1>30 DEF IInv, Fenced, Flying, Queued, Ours, Busy, Waits, Newest, Sampled,
    Publishing, ShowWaiting, driver, hardware, region
<1>32. CASE Exit
  BY <1>32 DEF IInv, Fenced, Flying, Queued, Ours, Busy, Waits, Newest, Sampled,
    Publishing, Exit, driver, region
<1>33. CASE UNCHANGED vars
  BY <1>33 DEF IInv, Fenced, Flying, Queued, Ours, Busy, Waits, Newest, Sampled,
    Publishing, vars, driver, hardware, region
<1> QED
  BY <1>1, <1>2, <1>3, <1>4, <1>5, <1>6, <1>7, <1>8, <1>9, <1>10, <1>11, <1>12, <1>13, <1>14,
    <1>15, <1>16, <1>17, <1>18, <1>19, <1>20, <1>21, <1>22, <1>23, <1>24, <1>25, <1>26,
    <1>27, <1>28, <1>29, <1>30, <1>32, <1>33 DEF Next

\* A second copy stands in the ring only behind one that was taken for landed too early.
LEMMA QueuedKept == ASSUME IInv, [Next]_vars PROVE Queued'
<1>1. ASSUME NEW t \in Threads, Unlist(t) PROVE Queued'
  BY <1>1 DEF IInv, Fenced, Flying, Queued, Ours, Busy, Waits, Newest, Sampled,
    Publishing, Unlist, At, Goto, driver, hardware, region
<1>2. ASSUME NEW t \in Threads, List(t) PROVE Queued'
  BY <1>2 DEF IInv, Fenced, Flying, Queued, Ours, Busy, Waits, Newest, Sampled,
    Publishing, List, At, Goto, driver, hardware, region
<1>3. ASSUME NEW t \in Threads, PutActive(t) PROVE Queued'
  BY <1>3 DEF IInv, Fenced, Flying, Queued, Ours, Busy, Waits, Newest, Sampled,
    Publishing, PutActive, At, Goto, driver, hardware, region
<1>4. ASSUME NEW t \in Threads, PutSize(t) PROVE Queued'
  BY <1>4 DEF IInv, Fenced, Flying, Queued, Ours, Busy, Waits, Newest, Sampled,
    Publishing, PutSize, At, Goto, driver, hardware, region
<1>5. ASSUME NEW t \in Threads, PutRest(t) PROVE Queued'
  BY <1>5 DEF IInv, Fenced, Flying, Queued, Ours, Busy, Waits, Newest, Sampled,
    Publishing, PutRest, At, Goto, driver, hardware, region
<1>6. ASSUME NEW t \in Threads, WriteSeq(t) PROVE Queued'
  BY <1>6 DEF IInv, Fenced, Flying, Queued, Ours, Busy, Waits, Newest, Sampled,
    Publishing, WriteSeq, At, Goto, After, hardware, region
<1>7. CASE FirstStep
  BY <1>7 DEF IInv, Fenced, Flying, Queued, Ours, Busy, Waits, Newest, Sampled,
    Publishing, FirstStep, At, Goto, region
<1>8. CASE Refuse
  BY <1>8 DEF IInv, Fenced, Flying, Queued, Ours, Busy, Waits, Newest, Sampled,
    Publishing, Refuse, Goto, hardware, region
<1>9. CASE Setup
  BY <1>9 DEF IInv, Fenced, Flying, Queued, Ours, Busy, Waits, Newest, Sampled,
    Publishing, Setup, At, Goto, driver, hardware, region
<1>10. CASE EnsureAgp
  BY <1>10 DEF IInv, Fenced, Flying, Queued, Ours, Busy, Waits, Newest, Sampled,
    Publishing, TypeOK, Setups, Pollers, Copies, Idle, Threads, EnsureAgp, At, region
<1>11. CASE Start
  BY <1>11 DEF IInv, Fenced, Flying, Queued, Ours, Busy, Waits, Newest, Sampled,
    Publishing, Start, At, Goto, Publish, region
<1>12. CASE StopWriteback
  BY <1>12 DEF IInv, Fenced, Flying, Queued, Ours, Busy, Waits, Newest, Sampled,
    Publishing, StopWriteback, At, Goto, Publish, region
<1>13. CASE SdmaTick
  BY <1>13 DEF IInv, Fenced, Flying, Queued, Ours, Busy, Waits, Newest, Sampled,
    Publishing, SdmaTick, At, Goto, driver, hardware, region
<1>14. CASE QueueRefused
  BY <1>14 DEF IInv, Fenced, Flying, Queued, Ours, Busy, Waits, Newest, Sampled,
    Publishing, QueueRefused, At, Goto, hardware, region
<1>15. CASE QueueUp
  BY <1>15 DEF IInv, Fenced, Flying, Queued, Ours, Busy, Waits, Newest, Sampled,
    Publishing, TypeOK, Setups, Pollers, Copies, Idle, Threads, QueueUp, At, Goto
<1>16. CASE Landed
  BY <1>16 DEF IInv, Fenced, Flying, Queued, Ours, Busy, Waits, Newest, Sampled,
    Publishing, Landed, At, hardware, region
<1>17. CASE Wait
  BY <1>17 DEF IInv, Fenced, Flying, Queued, Ours, Busy, Waits, Newest, Sampled,
    Publishing, Wait, At, Goto, driver, hardware, region
<1>18. CASE Hang
  BY <1>18 DEF IInv, Fenced, Flying, Queued, Ours, Busy, Waits, Newest, Sampled,
    Publishing, TypeOK, Setups, Pollers, Copies, Idle, Threads, Hang, At, Goto, Shutdown
<1>19. CASE Sample
  BY <1>19 DEF IInv, Fenced, Flying, Queued, Ours, Busy, Waits, Newest, Sampled,
    Publishing, Sample, At, Goto, driver, hardware, region
<1>20. CASE Submit
  <2>1. PICK copy \in Copies :
          /\ copy.state = "queued" /\ copy.seq = sdma'.seq /\ copy.idx = sdma'.last
          /\ copy.frame = job["sdma"].frame
          /\ IF copy.frame THEN copy.idx # sdma.last ELSE copy.idx = sdma.last
          /\ IF Busy THEN behind' = copy /\ engine' = engine
                     ELSE engine' = copy /\ behind' = behind
    BY <1>20, SubmitMeans
  <2>2. /\ ~sdma.inFlight /\ sdma'.inFlight /\ pc["sdma"] = "submit"
        /\ sdma'.seq = sdma.seq + 1 /\ sdma'.published = sdma.published
        /\ sdma.seq \in Nat /\ UNCHANGED <<fence, word>>
    BY <1>20, SubmitMeans DEF IInv, TypeOK, Pollers
  <2>3. CASE Busy
    <3>1. /\ ~Ours /\ ~Waits /\ fence.seq = sdma.seq
          /\ engine.seq = sdma.seq /\ engine.idx = sdma.last
          /\ engine.frame => engine.mode = sdma.published \/ job["sdma"].frame
      BY <2>2, <2>3 DEF IInv, Flying, Newest
    <3>2. Busy' /\ behind' = copy /\ engine' = engine
      BY <2>1, <2>3 DEF Busy
    <3> QED
      BY <2>1, <2>2, <3>1, <3>2 DEF Queued, Ours
  <2>4. CASE ~Busy
    BY <2>1, <2>4 DEF IInv, Queued, Waits
  <2> QED
    BY <2>3, <2>4
<1>21. CASE Copy
  BY <1>21 DEF IInv, Fenced, Flying, Queued, Ours, Busy, Waits, Newest, Sampled,
    Publishing, TypeOK, Setups, Pollers, Copies, Idle, Threads, Copy, driver, hardware
<1>22. CASE Land
  BY <1>22 DEF IInv, Fenced, Flying, Queued, Ours, Busy, Waits, Newest, Sampled,
    Publishing, TypeOK, Setups, Pollers, Copies, Idle, Threads, Land, driver, hardware
<1>23. CASE PowerBegin
  BY <1>23 DEF IInv, Fenced, Flying, Queued, Ours, Busy, Waits, Newest, Sampled,
    Publishing, PowerBegin, At, Goto, hardware, region
<1>24. CASE PowerStop
  BY <1>24 DEF IInv, Fenced, Flying, Queued, Ours, Busy, Waits, Newest, Sampled,
    Publishing, PowerStop, At, Goto, driver, region
<1>25. CASE PowerSdma
  BY <1>25 DEF IInv, Fenced, Flying, Queued, Ours, Busy, Waits, Newest, Sampled,
    Publishing, TypeOK, Setups, Pollers, Copies, Idle, Threads, PowerSdma, At, Goto,
    Shutdown
<1>26. CASE PowerClose
  BY <1>26 DEF IInv, Fenced, Flying, Queued, Ours, Busy, Waits, Newest, Sampled,
    Publishing, PowerClose, At, Goto, Publish, region
<1>27. CASE Load
  BY <1>27 DEF IInv, Fenced, Flying, Queued, Ours, Busy, Waits, Newest, Sampled,
    Publishing, Load, driver, hardware, region
<1>28. CASE SnapSize
  BY <1>28 DEF IInv, Fenced, Flying, Queued, Ours, Busy, Waits, Newest, Sampled,
    Publishing, SnapSize, driver, hardware, region
<1>29. CASE Configure
  BY <1>29 DEF IInv, Fenced, Flying, Queued, Ours, Busy, Waits, Newest, Sampled,
    Publishing, Configure, driver, hardware, region
<1>30. CASE ShowWaiting
  BY <1>30 DEF IInv, Fenced, Flying, Queued, Ours, Busy, Waits, Newest, Sampled,
    Publishing, ShowWaiting, driver, hardware, region
<1>32. CASE Exit
  BY <1>32 DEF IInv, Fenced, Flying, Queued, Ours, Busy, Waits, Newest, Sampled,
    Publishing, Exit, driver, region
<1>33. CASE UNCHANGED vars
  BY <1>33 DEF IInv, Fenced, Flying, Queued, Ours, Busy, Waits, Newest, Sampled,
    Publishing, vars, driver, hardware, region
<1> QED
  BY <1>1, <1>2, <1>3, <1>4, <1>5, <1>6, <1>7, <1>8, <1>9, <1>10, <1>11, <1>12, <1>13, <1>14,
    <1>15, <1>16, <1>17, <1>18, <1>19, <1>20, <1>21, <1>22, <1>23, <1>24, <1>25, <1>26,
    <1>27, <1>28, <1>29, <1>30, <1>32, <1>33 DEF Next

\* The poller prepares a submission only with nothing in flight.
LEMMA SampledKept == ASSUME IInv, [Next]_vars PROVE Sampled'
<1>1. ASSUME NEW t \in Threads, Unlist(t) PROVE Sampled'
  BY <1>1 DEF IInv, Sampled, Publishing, Jobbed, Fenced, Unlist, At, Goto, driver, hardware,
    region
<1>2. ASSUME NEW t \in Threads, List(t) PROVE Sampled'
  BY <1>2 DEF IInv, Sampled, Publishing, Jobbed, Fenced, List, At, Goto, driver, hardware,
    region
<1>3. ASSUME NEW t \in Threads, PutActive(t) PROVE Sampled'
  BY <1>3 DEF IInv, Sampled, Publishing, Jobbed, Fenced, PutActive, At, Goto, driver,
    hardware, region
<1>4. ASSUME NEW t \in Threads, PutSize(t) PROVE Sampled'
  BY <1>4 DEF IInv, Sampled, Publishing, Jobbed, Fenced, PutSize, At, Goto, driver, hardware,
    region
<1>5. ASSUME NEW t \in Threads, PutRest(t) PROVE Sampled'
  BY <1>5 DEF IInv, Sampled, Publishing, Jobbed, Fenced, PutRest, At, Goto, driver, hardware,
    region
<1>6. ASSUME NEW t \in Threads, WriteSeq(t) PROVE Sampled'
  BY <1>6 DEF IInv, Sampled, Publishing, Jobbed, Fenced, WriteSeq, At, Goto, After, hardware,
    region
<1>7. CASE FirstStep
  BY <1>7 DEF IInv, Sampled, Publishing, Jobbed, Fenced, FirstStep, At, Goto, region
<1>8. CASE Refuse
  BY <1>8 DEF IInv, Sampled, Publishing, Jobbed, Fenced, Refuse, Goto, hardware, region
<1>9. CASE Setup
  BY <1>9, SetupMeans DEF IInv, TypeOK, Threads, driver, hardware, region, Publishing,
    Sampled
<1>10. CASE EnsureAgp
  BY <1>10 DEF IInv, Sampled, Publishing, Jobbed, Fenced, TypeOK, Setups, Pollers, Threads,
    NoJob, Jobs, Shapes, EnsureAgp, At, region
<1>11. CASE Start
  BY <1>11 DEF IInv, Sampled, Publishing, Jobbed, Fenced, Start, At, Goto, Publish, region
<1>12. CASE StopWriteback
  BY <1>12 DEF IInv, Sampled, Publishing, Jobbed, Fenced, StopWriteback, At, Goto, Publish,
    region
<1>13. CASE SdmaTick
  BY <1>13 DEF IInv, Sampled, Publishing, Jobbed, Fenced, SdmaTick, At, Goto, driver,
    hardware, region
<1>14. CASE QueueRefused
  BY <1>14 DEF IInv, Sampled, Publishing, Jobbed, Fenced, QueueRefused, At, Goto, hardware,
    region
<1>15. CASE QueueUp
  BY <1>15 DEF IInv, Sampled, Publishing, Jobbed, Fenced, TypeOK, Setups, Pollers, Threads,
    NoJob, Jobs, Shapes, QueueUp, At, Goto
<1>16. CASE Landed
  BY <1>16 DEF IInv, Sampled, Publishing, Jobbed, Fenced, Landed, At, hardware, region
<1>17. CASE Wait
  BY <1>17 DEF IInv, Sampled, Publishing, Jobbed, Fenced, Wait, At, Goto, driver, hardware,
    region
<1>18. CASE Hang
  BY <1>18 DEF IInv, Sampled, Publishing, Jobbed, Fenced, Hang, At, Goto, Shutdown
<1>19. CASE Sample
  BY <1>19, SampleMeans DEF driver, hardware, region, IInv, Publishing, Sampled, Publishing,
    Jobbed, Fenced
<1>20. CASE Submit
  BY <1>20 DEF IInv, Sampled, Publishing, Jobbed, Fenced, TypeOK, Setups, Pollers, Threads,
    NoJob, Jobs, Shapes, Submit, At, Goto, hardware
<1>21. CASE Copy
  BY <1>21 DEF IInv, Sampled, Publishing, Jobbed, Fenced, Copy, driver, hardware
<1>22. CASE Land
  BY <1>22 DEF IInv, Sampled, Publishing, Jobbed, Fenced, Land, driver, hardware
<1>23. CASE PowerBegin
  BY <1>23 DEF IInv, Sampled, Publishing, Jobbed, Fenced, PowerBegin, At, Goto, hardware,
    region
<1>24. CASE PowerStop
  BY <1>24 DEF IInv, Sampled, Publishing, Jobbed, Fenced, PowerStop, At, Goto, driver, region
<1>25. CASE PowerSdma
  BY <1>25 DEF IInv, Sampled, Publishing, Jobbed, Fenced, PowerSdma, At, Goto, Shutdown
<1>26. CASE PowerClose
  BY <1>26 DEF IInv, Sampled, Publishing, Jobbed, Fenced, PowerClose, At, Goto, Publish,
    region
<1>27. CASE Load
  BY <1>27 DEF IInv, Sampled, Publishing, Jobbed, Fenced, Load, driver, hardware, region
<1>28. CASE SnapSize
  BY <1>28 DEF IInv, Sampled, Publishing, Jobbed, Fenced, SnapSize, driver, hardware, region
<1>29. CASE Configure
  BY <1>29 DEF IInv, Sampled, Publishing, Jobbed, Fenced, Configure, driver, hardware, region
<1>30. CASE ShowWaiting
  BY <1>30 DEF IInv, Sampled, Publishing, Jobbed, Fenced, ShowWaiting, driver, hardware,
    region
<1>32. CASE Exit
  BY <1>32 DEF IInv, Sampled, Publishing, Jobbed, Fenced, Exit, driver, region
<1>33. CASE UNCHANGED vars
  BY <1>33 DEF IInv, Sampled, Publishing, Jobbed, Fenced, vars, driver, hardware, region
<1> QED
  BY <1>1, <1>2, <1>3, <1>4, <1>5, <1>6, <1>7, <1>8, <1>9, <1>10, <1>11, <1>12, <1>13, <1>14,
    <1>15, <1>16, <1>17, <1>18, <1>19, <1>20, <1>21, <1>22, <1>23, <1>24, <1>25, <1>26,
    <1>27, <1>28, <1>29, <1>30, <1>32, <1>33 DEF Next

\* A cursor image is covered by the fence only after it has landed.
LEMMA ImagedKept == ASSUME IInv, [Next]_vars PROVE Imaged'
<1>1. ASSUME NEW t \in Threads, Unlist(t) PROVE Imaged'
  BY <1>1 DEF IInv, Fenced, Flying, Queued, Ours, Busy, Waits, Newest, Imaged, Sampled,
    Unlist, At, Goto, driver, hardware, region
<1>2. ASSUME NEW t \in Threads, List(t) PROVE Imaged'
  BY <1>2 DEF IInv, Fenced, Flying, Queued, Ours, Busy, Waits, Newest, Imaged, Sampled,
    List, At, Goto, driver, hardware, region
<1>3. ASSUME NEW t \in Threads, PutActive(t) PROVE Imaged'
  BY <1>3 DEF IInv, Fenced, Flying, Queued, Ours, Busy, Waits, Newest, Imaged, Sampled,
    PutActive, At, Goto, driver, hardware, region
<1>4. ASSUME NEW t \in Threads, PutSize(t) PROVE Imaged'
  BY <1>4 DEF IInv, Fenced, Flying, Queued, Ours, Busy, Waits, Newest, Imaged, Sampled,
    PutSize, At, Goto, driver, hardware, region
<1>5. ASSUME NEW t \in Threads, PutRest(t) PROVE Imaged'
  BY <1>5 DEF IInv, Fenced, Flying, Queued, Ours, Busy, Waits, Newest, Imaged, Sampled,
    PutRest, At, Goto, driver, hardware, region
<1>6. ASSUME NEW t \in Threads, WriteSeq(t) PROVE Imaged'
  BY <1>6 DEF IInv, Fenced, Flying, Queued, Ours, Busy, Waits, Newest, Imaged, Sampled,
    WriteSeq, At, Goto, After, hardware, region
<1>7. CASE FirstStep
  BY <1>7 DEF IInv, Fenced, Flying, Queued, Ours, Busy, Waits, Newest, Imaged, Sampled,
    FirstStep, At, Goto, region
<1>8. CASE Refuse
  BY <1>8 DEF IInv, Fenced, Flying, Queued, Ours, Busy, Waits, Newest, Imaged, Sampled,
    Refuse, Goto, hardware, region
<1>9. CASE Setup
  BY <1>9 DEF IInv, Fenced, Flying, Queued, Ours, Busy, Waits, Newest, Imaged, Sampled,
    Setup, At, Goto, driver, hardware, region
<1>10. CASE EnsureAgp
  BY <1>10 DEF IInv, Fenced, Flying, Queued, Ours, Busy, Waits, Newest, Imaged, Sampled,
    EnsureAgp, At, region
<1>11. CASE Start
  BY <1>11 DEF IInv, Fenced, Flying, Queued, Ours, Busy, Waits, Newest, Imaged, Sampled,
    Start, At, Goto, Publish, region
<1>12. CASE StopWriteback
  BY <1>12 DEF IInv, Fenced, Flying, Queued, Ours, Busy, Waits, Newest, Imaged, Sampled,
    StopWriteback, At, Goto, Publish, region
<1>13. CASE SdmaTick
  BY <1>13 DEF IInv, Fenced, Flying, Queued, Ours, Busy, Waits, Newest, Imaged, Sampled,
    SdmaTick, At, Goto, driver, hardware, region
<1>14. CASE QueueRefused
  BY <1>14 DEF IInv, Fenced, Flying, Queued, Ours, Busy, Waits, Newest, Imaged, Sampled,
    QueueRefused, At, Goto, hardware, region
<1>15. CASE QueueUp
  BY <1>15 DEF IInv, Fenced, Flying, Queued, Ours, Busy, Waits, Newest, Imaged, Sampled,
    TypeOK, Setups, Pollers, Copies, Idle, Pages, QueueUp, At, Goto
<1>16. CASE Landed
  BY <1>16 DEF IInv, Fenced, Flying, Queued, Ours, Busy, Waits, Newest, Imaged, Sampled,
    TypeOK, Setups, Pollers, Copies, Idle, Pages, Landed, At, hardware, region
<1>17. CASE Wait
  BY <1>17 DEF IInv, Fenced, Flying, Queued, Ours, Busy, Waits, Newest, Imaged, Sampled,
    Wait, At, Goto, driver, hardware, region
<1>18. CASE Hang
  BY <1>18 DEF IInv, Fenced, Flying, Queued, Ours, Busy, Waits, Newest, Imaged, Sampled,
    TypeOK, Setups, Pollers, Copies, Idle, Pages, Hang, At, Goto, Shutdown
<1>19. CASE Sample
  BY <1>19 DEF IInv, Fenced, Flying, Queued, Ours, Busy, Waits, Newest, Imaged, Sampled,
    Sample, At, Goto, driver, hardware, region
<1>20. CASE Submit
  <2>1. /\ engine' = engine \/ engine'.state = "queued"
        /\ ~sdma.inFlight /\ sdma'.seq = sdma.seq + 1 /\ sdma.seq \in Nat
        /\ UNCHANGED <<fence, image, word, ctl>>
    BY <1>20, SubmitMeans DEF IInv, TypeOK, Pollers
  <2>2. word = "zeroed" => fence.seq = sdma.seq
    BY <2>1 DEF IInv, Fenced, Ours
  <2> QED
    BY <2>1, <2>2 DEF IInv, Imaged
<1>21. CASE Copy
  BY <1>21 DEF IInv, Fenced, Flying, Queued, Ours, Busy, Waits, Newest, Imaged, Sampled,
    TypeOK, Setups, Pollers, Copies, Idle, Pages, Copy, driver, hardware
<1>22. CASE Land
  BY <1>22 DEF IInv, Fenced, Flying, Queued, Ours, Busy, Waits, Newest, Imaged, Sampled,
    TypeOK, Setups, Pollers, Copies, Idle, Pages, Land, driver, hardware
<1>23. CASE PowerBegin
  BY <1>23 DEF IInv, Fenced, Flying, Queued, Ours, Busy, Waits, Newest, Imaged, Sampled,
    PowerBegin, At, Goto, hardware, region
<1>24. CASE PowerStop
  BY <1>24 DEF IInv, Fenced, Flying, Queued, Ours, Busy, Waits, Newest, Imaged, Sampled,
    PowerStop, At, Goto, driver, region
<1>25. CASE PowerSdma
  BY <1>25 DEF IInv, Fenced, Flying, Queued, Ours, Busy, Waits, Newest, Imaged, Sampled,
    TypeOK, Setups, Pollers, Copies, Idle, Pages, PowerSdma, At, Goto, Shutdown
<1>26. CASE PowerClose
  BY <1>26 DEF IInv, Fenced, Flying, Queued, Ours, Busy, Waits, Newest, Imaged, Sampled,
    PowerClose, At, Goto, Publish, region
<1>27. CASE Load
  BY <1>27 DEF IInv, Fenced, Flying, Queued, Ours, Busy, Waits, Newest, Imaged, Sampled,
    Load, driver, hardware, region
<1>28. CASE SnapSize
  BY <1>28 DEF IInv, Fenced, Flying, Queued, Ours, Busy, Waits, Newest, Imaged, Sampled,
    SnapSize, driver, hardware, region
<1>29. CASE Configure
  BY <1>29 DEF IInv, Fenced, Flying, Queued, Ours, Busy, Waits, Newest, Imaged, Sampled,
    Configure, driver, hardware, region
<1>30. CASE ShowWaiting
  BY <1>30 DEF IInv, Fenced, Flying, Queued, Ours, Busy, Waits, Newest, Imaged, Sampled,
    ShowWaiting, driver, hardware, region
<1>32. CASE Exit
  BY <1>32 DEF IInv, Fenced, Flying, Queued, Ours, Busy, Waits, Newest, Imaged, Sampled,
    Exit, driver, region
<1>33. CASE UNCHANGED vars
  BY <1>33 DEF IInv, Fenced, Flying, Queued, Ours, Busy, Waits, Newest, Imaged, Sampled,
    vars, driver, hardware, region
<1> QED
  BY <1>1, <1>2, <1>3, <1>4, <1>5, <1>6, <1>7, <1>8, <1>9, <1>10, <1>11, <1>12, <1>13, <1>14,
    <1>15, <1>16, <1>17, <1>18, <1>19, <1>20, <1>21, <1>22, <1>23, <1>24, <1>25, <1>26,
    <1>27, <1>28, <1>29, <1>30, <1>32, <1>33 DEF Next

\* The buffer the status word names is whole and of the published geometry.
LEMMA FramedKept == ASSUME IInv, [Next]_vars PROVE Framed'
<1>1. ASSUME NEW t \in Threads, Unlist(t) PROVE Framed'
  BY <1>1 DEF IInv, Fenced, Flying, Queued, Ours, Busy, Waits, Newest, Framed, Sampled,
    Unlist, At, Goto, driver, hardware, region
<1>2. ASSUME NEW t \in Threads, List(t) PROVE Framed'
  BY <1>2 DEF IInv, Fenced, Flying, Queued, Ours, Busy, Waits, Newest, Framed, Sampled,
    List, At, Goto, driver, hardware, region
<1>3. ASSUME NEW t \in Threads, PutActive(t) PROVE Framed'
  BY <1>3 DEF IInv, Fenced, Flying, Queued, Ours, Busy, Waits, Newest, Framed, Sampled,
    PutActive, At, Goto, driver, hardware, region
<1>4. ASSUME NEW t \in Threads, PutSize(t) PROVE Framed'
  BY <1>4 DEF IInv, Fenced, Flying, Queued, Ours, Busy, Waits, Newest, Framed, Sampled,
    PutSize, At, Goto, driver, hardware, region
<1>5. ASSUME NEW t \in Threads, PutRest(t) PROVE Framed'
  BY <1>5 DEF IInv, Fenced, Flying, Queued, Ours, Busy, Waits, Newest, Framed, Sampled,
    PutRest, At, Goto, driver, hardware, region
<1>6. ASSUME NEW t \in Threads, WriteSeq(t) PROVE Framed'
  <2>1. /\ pc[t] = "seq" /\ UNCHANGED <<fence, buf, engine>>
        /\ pc' = [pc EXCEPT ![t] = After(t)]
        /\ t # "sdma" => sdma' = sdma /\ job' = [job EXCEPT ![t] = NoJob]
        /\ t = "sdma" => job' = job /\ sdma' = [sdma EXCEPT !.published = job[t].mode]
    BY <1>6 DEF WriteSeq, At, Goto, region
  <2>2. CASE t = "sdma"
    <3>1. pc["sdma"] \in Publishing /\ job["sdma"].goal = "publish"
      BY <2>1, <2>2 DEF IInv, Jobbed, Publishing, Threads
    <3>2. job["sdma"].frame /\ pc["sdma"] # "submit"
      BY <2>1, <2>2, <3>1 DEF IInv, Sampled
    <3>3. pc'["sdma"] = "submit" /\ job'["sdma"].frame
      BY <2>1, <2>2, <3>2 DEF IInv, TypeOK, Threads, After
    <3>4. word' = word
      BY <1>6 DEF WriteSeq, region
    <3> QED
      BY <2>1, <3>2, <3>3, <3>4 DEF IInv, Framed, Ours
  <2>3. CASE t # "sdma"
    <3>1. pc'["sdma"] = pc["sdma"] /\ job'["sdma"] = job["sdma"]
      BY <2>1, <2>3 DEF IInv, TypeOK, Threads
    <3>2. word' = word
      BY <1>6 DEF WriteSeq, region
    <3> QED
      BY <2>1, <2>3, <3>1, <3>2 DEF IInv, Framed, Busy, Ours
  <2> QED
    BY <2>2, <2>3
<1>7. CASE FirstStep
  BY <1>7 DEF IInv, Fenced, Flying, Queued, Ours, Busy, Waits, Newest, Framed, Sampled,
    FirstStep, At, Goto, region
<1>8. CASE Refuse
  BY <1>8 DEF IInv, Fenced, Flying, Queued, Ours, Busy, Waits, Newest, Framed, Sampled,
    Refuse, Goto, hardware, region
<1>9. CASE Setup
  BY <1>9, SetupMeans DEF IInv, TypeOK, Threads, driver, hardware, region, Publishing,
    Framed, Busy, Ours
<1>10. CASE EnsureAgp
  BY <1>10 DEF IInv, Fenced, Flying, Queued, Ours, Busy, Waits, Newest, Framed, Sampled,
    TypeOK, Setups, Pollers, Copies, Idle, Threads, Publishing, EnsureAgp, At, region
<1>11. CASE Start
  BY <1>11 DEF IInv, Fenced, Flying, Queued, Ours, Busy, Waits, Newest, Framed, Sampled,
    Start, At, Goto, Publish, region
<1>12. CASE StopWriteback
  BY <1>12 DEF IInv, Fenced, Flying, Queued, Ours, Busy, Waits, Newest, Framed, Sampled,
    StopWriteback, At, Goto, Publish, region
<1>13. CASE SdmaTick
  BY <1>13 DEF IInv, Fenced, Flying, Queued, Ours, Busy, Waits, Newest, Framed, Sampled,
    SdmaTick, At, Goto, driver, hardware, region
<1>14. CASE QueueRefused
  BY <1>14 DEF IInv, Fenced, Flying, Queued, Ours, Busy, Waits, Newest, Framed, Sampled,
    QueueRefused, At, Goto, hardware, region
<1>15. CASE QueueUp
  BY <1>15 DEF IInv, Fenced, Flying, Queued, Ours, Busy, Waits, Newest, Framed, Sampled,
    TypeOK, Setups, Pollers, Copies, Idle, Threads, Publishing, QueueUp, At, Goto
<1>16. CASE Landed
  BY <1>16 DEF IInv, Fenced, Flying, Queued, Ours, Busy, Waits, Newest, Framed, Sampled,
    Landed, At, hardware, region
<1>17. CASE Wait
  BY <1>17 DEF IInv, Fenced, Flying, Queued, Ours, Busy, Waits, Newest, Framed, Sampled,
    Wait, At, Goto, driver, hardware, region
<1>18. CASE Hang
  BY <1>18 DEF IInv, Fenced, Flying, Queued, Ours, Busy, Waits, Newest, Framed, Sampled,
    TypeOK, Setups, Pollers, Copies, Idle, Threads, Publishing, Hang, At, Goto, Shutdown
<1>19. CASE Sample
  BY <1>19 DEF IInv, Fenced, Flying, Queued, Ours, Busy, Waits, Newest, Framed, Sampled,
    Sample, At, Goto, driver, hardware, region
<1>20. CASE Submit
  <2>1. /\ pc["sdma"] = "submit" /\ ~sdma.inFlight
        /\ sdma'.seq = sdma.seq + 1 /\ sdma.seq \in Nat /\ sdma'.published = sdma.published
        /\ ~Busy => engine'.frame = job["sdma"].frame
        /\ UNCHANGED <<fence, buf, word>>
    BY <1>20, SubmitMeans DEF IInv, TypeOK, Pollers
  <2>2. Ours => fence.seq = sdma.seq /\ ~Busy
    BY <2>1 DEF IInv, Fenced, Flying
  <2>3. Ours => fence.seq # sdma'.seq
    BY <2>1, <2>2
  <2> QED
    BY <2>1, <2>2, <2>3 DEF IInv, Framed, Ours
<1>21. CASE Copy
  BY <1>21 DEF IInv, Fenced, Flying, Queued, Ours, Busy, Waits, Newest, Framed, Sampled,
    TypeOK, Setups, Pollers, Copies, Idle, Threads, Publishing, Copy, driver, hardware
<1>22. CASE Land
  <2>1. /\ Busy /\ engine.state = "copying" /\ engine' = behind /\ fence'.idx = engine.idx
        /\ fence'.seq = engine.seq
        /\ buf' = IF engine.frame THEN [buf EXCEPT ![engine.idx] = engine.mode] ELSE buf
        /\ word' = IF word = "left" /\ engine.frame THEN "renewed" ELSE word
        /\ UNCHANGED <<pc, job, sdma>>
    BY <1>22 DEF Land, Busy, driver
  <2>2. engine.idx \in DOMAIN buf /\ engine.mode \in Modes
    BY <2>1 DEF IInv, TypeOK, Copies, Flying
  <2>3. CASE engine.frame
    <3>1. buf'[fence'.idx] = engine.mode
      BY <2>1, <2>2, <2>3
    <3>2. Waits => engine.seq # sdma.seq /\ behind.state = "queued"
      BY DEF IInv, Queued, TypeOK, Copies, Pollers
    <3>3. CASE Waits
      <4>1. behind.frame \/ engine.mode = sdma.published
        BY <2>3, <3>3 DEF IInv, Queued
      <4> QED
        BY <2>1, <2>2, <3>1, <3>2, <3>3, <4>1, DisplayAssumption DEF Framed, Busy
    <3>4. CASE ~Waits
      <4>1. \/ engine.mode = sdma.published
            \/ pc["sdma"] = "submit" /\ job["sdma"].frame
        BY <2>1, <2>3, <3>4 DEF IInv, Flying, Newest
      <4> QED
        BY <2>1, <2>2, <3>1, <4>1, DisplayAssumption DEF Framed
    <3> QED
      BY <3>3, <3>4
  <2>4. CASE ~engine.frame
    <3>1. Ours' => Ours /\ fence'.idx = fence.idx
      BY <2>1, <2>4 DEF IInv, Flying, Ours
    <3> QED
      BY <2>1, <2>4, <3>1 DEF IInv, Framed
  <2> QED
    BY <2>3, <2>4
<1>23. CASE PowerBegin
  BY <1>23 DEF IInv, Fenced, Flying, Queued, Ours, Busy, Waits, Newest, Framed, Sampled,
    PowerBegin, At, Goto, hardware, region
<1>24. CASE PowerStop
  BY <1>24 DEF IInv, Fenced, Flying, Queued, Ours, Busy, Waits, Newest, Framed, Sampled,
    PowerStop, At, Goto, driver, region
<1>25. CASE PowerSdma
  BY <1>25 DEF IInv, Fenced, Flying, Queued, Ours, Busy, Waits, Newest, Framed, Sampled,
    TypeOK, Setups, Pollers, Copies, Idle, Threads, Publishing, PowerSdma, At, Goto,
    Shutdown
<1>26. CASE PowerClose
  BY <1>26 DEF IInv, Fenced, Flying, Queued, Ours, Busy, Waits, Newest, Framed, Sampled,
    PowerClose, At, Goto, Publish, region
<1>27. CASE Load
  BY <1>27 DEF IInv, Fenced, Flying, Queued, Ours, Busy, Waits, Newest, Framed, Sampled,
    Load, driver, hardware, region
<1>28. CASE SnapSize
  BY <1>28 DEF IInv, Fenced, Flying, Queued, Ours, Busy, Waits, Newest, Framed, Sampled,
    SnapSize, driver, hardware, region
<1>29. CASE Configure
  BY <1>29 DEF IInv, Fenced, Flying, Queued, Ours, Busy, Waits, Newest, Framed, Sampled,
    Configure, driver, hardware, region
<1>30. CASE ShowWaiting
  BY <1>30 DEF IInv, Fenced, Flying, Queued, Ours, Busy, Waits, Newest, Framed, Sampled,
    ShowWaiting, driver, hardware, region
<1>32. CASE Exit
  BY <1>32 DEF IInv, Fenced, Flying, Queued, Ours, Busy, Waits, Newest, Framed, Sampled,
    Exit, driver, region
<1>33. CASE UNCHANGED vars
  BY <1>33 DEF IInv, Fenced, Flying, Queued, Ours, Busy, Waits, Newest, Framed, Sampled,
    vars, driver, hardware, region
<1> QED
  BY <1>1, <1>2, <1>3, <1>4, <1>5, <1>6, <1>7, <1>8, <1>9, <1>10, <1>11, <1>12, <1>13, <1>14,
    <1>15, <1>16, <1>17, <1>18, <1>19, <1>20, <1>21, <1>22, <1>23, <1>24, <1>25, <1>26,
    <1>27, <1>28, <1>29, <1>30, <1>32, <1>33 DEF Next

\* Until the power-off writeback publishes with stage 0 only, the copy with stage 2 only.
LEMMA RolesKept == ASSUME IInv, [Next]_vars PROVE Roles'
<1>1. ASSUME NEW t \in Threads, Unlist(t) PROVE Roles'
  BY <1>1 DEF IInv, Roles, Publishing, Busy, Waits, Queued, Sampled, Unlist, At, Goto,
    driver, hardware, region
<1>2. ASSUME NEW t \in Threads, List(t) PROVE Roles'
  BY <1>2 DEF IInv, Roles, Publishing, Busy, Waits, Queued, Sampled, List, At, Goto,
    driver, hardware, region
<1>3. ASSUME NEW t \in Threads, PutActive(t) PROVE Roles'
  BY <1>3 DEF IInv, Roles, Publishing, Busy, Waits, Queued, Sampled, PutActive, At, Goto,
    driver, hardware, region
<1>4. ASSUME NEW t \in Threads, PutSize(t) PROVE Roles'
  BY <1>4 DEF IInv, Roles, Publishing, Busy, Waits, Queued, Sampled, PutSize, At, Goto,
    driver, hardware, region
<1>5. ASSUME NEW t \in Threads, PutRest(t) PROVE Roles'
  BY <1>5 DEF IInv, Roles, Publishing, Busy, Waits, Queued, Sampled, PutRest, At, Goto,
    driver, hardware, region
<1>6. ASSUME NEW t \in Threads, WriteSeq(t) PROVE Roles'
  BY <1>6 DEF IInv, Roles, Publishing, Busy, Waits, Queued, Sampled, WriteSeq, At, Goto,
    After, hardware, region
<1>7. CASE FirstStep
  BY <1>7 DEF IInv, Roles, Publishing, Busy, Waits, Queued, Sampled, FirstStep, At, Goto,
    region
<1>8. CASE Refuse
  BY <1>8 DEF IInv, Roles, Publishing, Busy, Waits, Queued, Sampled, Refuse, Goto,
    hardware, region
<1>9. CASE Setup
  BY <1>9 DEF IInv, Roles, Publishing, Busy, Waits, Queued, Sampled, TypeOK, Setups,
    Pollers, Threads, NoJob, Jobs, Shapes, Copies, Idle, Setup, At, Goto, driver,
    hardware, region
<1>10. CASE EnsureAgp
  BY <1>10 DEF IInv, Roles, Publishing, Busy, Waits, Queued, Sampled, TypeOK, Setups,
    Pollers, Threads, NoJob, Jobs, Shapes, Copies, Idle, EnsureAgp, At, region
<1>11. CASE Start
  BY <1>11 DEF IInv, Roles, Publishing, Busy, Waits, Queued, Sampled, TypeOK, Setups,
    Pollers, Threads, NoJob, Jobs, Shapes, Copies, Idle, Start, At, Goto, Publish, region
<1>12. CASE StopWriteback
  BY <1>12 DEF IInv, Roles, Publishing, Busy, Waits, Queued, Sampled, StopWriteback, At,
    Goto, Publish, region
<1>13. CASE SdmaTick
  BY <1>13 DEF IInv, Roles, Publishing, Busy, Waits, Queued, Sampled, SdmaTick, At, Goto,
    driver, hardware, region
<1>14. CASE QueueRefused
  BY <1>14 DEF IInv, Roles, Publishing, Busy, Waits, Queued, Sampled, QueueRefused, At,
    Goto, hardware, region
<1>15. CASE QueueUp
  BY <1>15 DEF IInv, Roles, Publishing, Busy, Waits, Queued, Sampled, TypeOK, Setups,
    Pollers, Threads, NoJob, Jobs, Shapes, Copies, Idle, QueueUp, At, Goto
<1>16. CASE Landed
  BY <1>16 DEF IInv, Roles, Publishing, Busy, Waits, Queued, Sampled, Landed, At,
    hardware, region
<1>17. CASE Wait
  BY <1>17 DEF IInv, Roles, Publishing, Busy, Waits, Queued, Sampled, Wait, At, Goto,
    driver, hardware, region
<1>18. CASE Hang
  BY <1>18 DEF IInv, Roles, Publishing, Busy, Waits, Queued, Sampled, TypeOK, Setups,
    Pollers, Threads, NoJob, Jobs, Shapes, Copies, Idle, Hang, At, Goto, Shutdown
<1>19. CASE Sample
  BY <1>19, SampleMeans DEF driver, hardware, region, IInv, Publishing, Roles, Busy,
    Waits, Queued, Sampled
<1>20. CASE Submit
  BY <1>20 DEF IInv, Roles, Publishing, Busy, Waits, Queued, Sampled, TypeOK, Setups,
    Pollers, Threads, NoJob, Jobs, Shapes, Copies, Idle, Submit, At, Goto, hardware
<1>21. CASE Copy
  BY <1>21 DEF IInv, Roles, Publishing, Busy, Waits, Queued, Sampled, TypeOK, Setups,
    Pollers, Threads, NoJob, Jobs, Shapes, Copies, Idle, Copy, driver, hardware
<1>22. CASE Land
  BY <1>22 DEF IInv, Roles, Publishing, Busy, Waits, Queued, Sampled, TypeOK, Setups,
    Pollers, Threads, NoJob, Jobs, Shapes, Copies, Idle, Land, driver, hardware
<1>23. CASE PowerBegin
  BY <1>23 DEF IInv, Roles, Publishing, Busy, Waits, Queued, Sampled, PowerBegin, At,
    Goto, hardware, region
<1>24. CASE PowerStop
  BY <1>24 DEF IInv, Roles, Publishing, Busy, Waits, Queued, Sampled, PowerStop, At, Goto,
    driver, region
<1>25. CASE PowerSdma
  BY <1>25 DEF IInv, Roles, Publishing, Busy, Waits, Queued, Sampled, TypeOK, Setups,
    Pollers, Threads, NoJob, Jobs, Shapes, Copies, Idle, PowerSdma, At, Goto, Shutdown
<1>26. CASE PowerClose
  BY <1>26 DEF IInv, Roles, Publishing, Busy, Waits, Queued, Sampled, PowerClose, At,
    Goto, Publish, region
<1>27. CASE Load
  BY <1>27 DEF IInv, Roles, Publishing, Busy, Waits, Queued, Sampled, Load, driver,
    hardware, region
<1>28. CASE SnapSize
  BY <1>28 DEF IInv, Roles, Publishing, Busy, Waits, Queued, Sampled, SnapSize, driver,
    hardware, region
<1>29. CASE Configure
  BY <1>29 DEF IInv, Roles, Publishing, Busy, Waits, Queued, Sampled, Configure, driver,
    hardware, region
<1>30. CASE ShowWaiting
  BY <1>30 DEF IInv, Roles, Publishing, Busy, Waits, Queued, Sampled, ShowWaiting, driver,
    hardware, region
<1>32. CASE Exit
  BY <1>32 DEF IInv, Roles, Publishing, Busy, Waits, Queued, Sampled, Exit, driver, region
<1>33. CASE UNCHANGED vars
  BY <1>33 DEF IInv, Roles, Publishing, Busy, Waits, Queued, Sampled, vars, driver,
    hardware, region
<1> QED
  BY <1>1, <1>2, <1>3, <1>4, <1>5, <1>6, <1>7, <1>8, <1>9, <1>10, <1>11, <1>12, <1>13, <1>14,
    <1>15, <1>16, <1>17, <1>18, <1>19, <1>20, <1>21, <1>22, <1>23, <1>24, <1>25, <1>26,
    <1>27, <1>28, <1>29, <1>30, <1>32, <1>33 DEF Next

\* Every field of the page behind the place of its publisher is written.
LEMMA HalfwayKept == ASSUME IInv, [Next]_vars PROVE Halfway'
<1>1. ASSUME NEW t \in Threads, Unlist(t) PROVE Halfway'
  BY <1>1 DEF IInv, Halfway, Before, Roles, Publishing, Sampled, Unlist, At, Goto, driver,
    hardware, region
<1>2. ASSUME NEW t \in Threads, List(t) PROVE Halfway'
  BY <1>2 DEF IInv, Halfway, Before, Roles, Publishing, Sampled, TypeOK, Setups, Pollers,
    Threads, NoJob, Jobs, Pages, List, At, Goto, driver, hardware, region
<1>3. ASSUME NEW t \in Threads, PutActive(t) PROVE Halfway'
  BY <1>3 DEF IInv, Halfway, Before, Roles, Publishing, Sampled, PutActive, At, Goto, driver,
    hardware, region
<1>4. ASSUME NEW t \in Threads, PutSize(t) PROVE Halfway'
  BY <1>4 DEF IInv, Halfway, Before, Roles, Publishing, Sampled, TypeOK, Setups, Pollers,
    Threads, NoJob, Jobs, Pages, PutSize, At, Goto, driver, hardware, region
<1>5. ASSUME NEW t \in Threads, PutRest(t) PROVE Halfway'
  BY <1>5 DEF IInv, Halfway, Before, Roles, Publishing, Sampled, TypeOK, Setups, Pollers,
    Threads, NoJob, Jobs, Pages, PutRest, At, Goto, driver, hardware, region
<1>6. ASSUME NEW t \in Threads, WriteSeq(t) PROVE Halfway'
  BY <1>6 DEF IInv, Halfway, Before, Roles, Publishing, Sampled, TypeOK, Setups, Pollers,
    Threads, NoJob, Jobs, Pages, WriteSeq, At, Goto, After, hardware, region
<1>7. CASE FirstStep
  BY <1>7 DEF IInv, Halfway, Before, Roles, Publishing, Sampled, FirstStep, At, Goto, region
<1>8. CASE Refuse
  BY <1>8 DEF IInv, Halfway, Before, Roles, Publishing, Sampled, Refuse, Goto, hardware,
    region
<1>9. CASE Setup
  BY <1>9, SetupMeans DEF IInv, TypeOK, Threads, driver, hardware, region, Publishing,
    Halfway, Before
<1>10. CASE EnsureAgp
  BY <1>10 DEF IInv, Halfway, Before, Roles, Publishing, Sampled, TypeOK, Setups, Pollers,
    Threads, NoJob, Jobs, Pages, EnsureAgp, At, region
<1>11. CASE Start
  BY <1>11 DEF IInv, Halfway, Before, Roles, Publishing, Sampled, Start, At, Goto, Publish,
    region
<1>12. CASE StopWriteback
  BY <1>12 DEF IInv, Halfway, Before, Roles, Publishing, Sampled, StopWriteback, At, Goto,
    Publish, region
<1>13. CASE SdmaTick
  BY <1>13 DEF IInv, Halfway, Before, Roles, Publishing, Sampled, SdmaTick, At, Goto, driver,
    hardware, region
<1>14. CASE QueueRefused
  BY <1>14 DEF IInv, Halfway, Before, Roles, Publishing, Sampled, QueueRefused, At, Goto,
    hardware, region
<1>15. CASE QueueUp
  BY <1>15 DEF IInv, Halfway, Before, Roles, Publishing, Sampled, TypeOK, Setups, Pollers,
    Threads, NoJob, Jobs, Pages, QueueUp, At, Goto
<1>16. CASE Landed
  BY <1>16 DEF IInv, Halfway, Before, Roles, Publishing, Sampled, Landed, At, hardware,
    region
<1>17. CASE Wait
  BY <1>17 DEF IInv, Halfway, Before, Roles, Publishing, Sampled, Wait, At, Goto, driver,
    hardware, region
<1>18. CASE Hang
  BY <1>18 DEF IInv, Halfway, Before, Roles, Publishing, Sampled, Hang, At, Goto, Shutdown
<1>19. CASE Sample
  BY <1>19, SampleMeans DEF driver, hardware, region, IInv, Publishing, Halfway, Before,
     Roles,
    Publishing, Sampled
<1>20. CASE Submit
  BY <1>20 DEF IInv, Halfway, Before, Roles, Publishing, Sampled, Submit, At, Goto, hardware
<1>21. CASE Copy
  BY <1>21 DEF IInv, Halfway, Before, Roles, Publishing, Sampled, Copy, driver, hardware
<1>22. CASE Land
  BY <1>22 DEF IInv, Halfway, Before, Roles, Publishing, Sampled, Land, driver, hardware
<1>23. CASE PowerBegin
  BY <1>23 DEF IInv, Halfway, Before, Roles, Publishing, Sampled, PowerBegin, At, Goto,
    hardware, region
<1>24. CASE PowerStop
  BY <1>24 DEF IInv, Halfway, Before, Roles, Publishing, Sampled, PowerStop, At, Goto,
    driver, region
<1>25. CASE PowerSdma
  BY <1>25 DEF IInv, Halfway, Before, Roles, Publishing, Sampled, PowerSdma, At, Goto,
    Shutdown
<1>26. CASE PowerClose
  BY <1>26 DEF IInv, Halfway, Before, Roles, Publishing, Sampled, PowerClose, At, Goto,
    Publish, region
<1>27. CASE Load
  BY <1>27 DEF IInv, Halfway, Before, Roles, Publishing, Sampled, Load, driver, hardware,
    region
<1>28. CASE SnapSize
  BY <1>28 DEF IInv, Halfway, Before, Roles, Publishing, Sampled, SnapSize, driver, hardware,
    region
<1>29. CASE Configure
  BY <1>29 DEF IInv, Halfway, Before, Roles, Publishing, Sampled, Configure, driver,
    hardware, region
<1>30. CASE ShowWaiting
  BY <1>30 DEF IInv, Halfway, Before, Roles, Publishing, Sampled, ShowWaiting, driver,
    hardware, region
<1>32. CASE Exit
  BY <1>32 DEF IInv, Halfway, Before, Roles, Publishing, Sampled, Exit, driver, region
<1>33. CASE UNCHANGED vars
  BY <1>33 DEF IInv, Halfway, Before, Roles, Publishing, Sampled, vars, driver, hardware,
    region
<1> QED
  BY <1>1, <1>2, <1>3, <1>4, <1>5, <1>6, <1>7, <1>8, <1>9, <1>10, <1>11, <1>12, <1>13, <1>14,
    <1>15, <1>16, <1>17, <1>18, <1>19, <1>20, <1>21, <1>22, <1>23, <1>24, <1>25, <1>26,
    <1>27, <1>28, <1>29, <1>30, <1>32, <1>33 DEF Next

\* QEMU has read nothing newer than the page.
LEMMA ReadKept == ASSUME IInv, [Next]_vars PROVE Read'
<1>1. ASSUME NEW t \in Threads, Unlist(t) PROVE Read'
  BY <1>1 DEF IInv, Read, Unlist, At, Goto, driver, hardware, region
<1>2. ASSUME NEW t \in Threads, List(t) PROVE Read'
  BY <1>2 DEF IInv, Read, List, At, Goto, driver, hardware, region
<1>3. ASSUME NEW t \in Threads, PutActive(t) PROVE Read'
  BY <1>3 DEF IInv, Read, PutActive, At, Goto, driver, hardware, region
<1>4. ASSUME NEW t \in Threads, PutSize(t) PROVE Read'
  BY <1>4 DEF IInv, Read, PutSize, At, Goto, driver, hardware, region
<1>5. ASSUME NEW t \in Threads, PutRest(t) PROVE Read'
  BY <1>5 DEF IInv, Read, PutRest, At, Goto, driver, hardware, region
<1>6. ASSUME NEW t \in Threads, WriteSeq(t) PROVE Read'
  BY <1>6 DEF IInv, Read, TypeOK, Setups, Pollers, Pages, Readers, WriteSeq, At, Goto, After,
    hardware, region
<1>7. CASE FirstStep
  BY <1>7 DEF IInv, Read, FirstStep, At, Goto, region
<1>8. CASE Refuse
  BY <1>8 DEF IInv, Read, Refuse, Goto, hardware, region
<1>9. CASE Setup
  BY <1>9 DEF IInv, Read, Setup, At, Goto, driver, hardware, region
<1>10. CASE EnsureAgp
  BY <1>10 DEF IInv, Read, EnsureAgp, At, region
<1>11. CASE Start
  BY <1>11 DEF IInv, Read, Start, At, Goto, Publish, region
<1>12. CASE StopWriteback
  BY <1>12 DEF IInv, Read, StopWriteback, At, Goto, Publish, region
<1>13. CASE SdmaTick
  BY <1>13 DEF IInv, Read, SdmaTick, At, Goto, driver, hardware, region
<1>14. CASE QueueRefused
  BY <1>14 DEF IInv, Read, QueueRefused, At, Goto, hardware, region
<1>15. CASE QueueUp
  BY <1>15 DEF IInv, Read, QueueUp, At, Goto
<1>16. CASE Landed
  BY <1>16 DEF IInv, Read, Landed, At, hardware, region
<1>17. CASE Wait
  BY <1>17 DEF IInv, Read, Wait, At, Goto, driver, hardware, region
<1>18. CASE Hang
  BY <1>18 DEF IInv, Read, Hang, At, Goto, Shutdown
<1>19. CASE Sample
  BY <1>19 DEF IInv, Read, Sample, At, Goto, driver, hardware, region
<1>20. CASE Submit
  BY <1>20 DEF IInv, Read, Submit, At, Goto, hardware
<1>21. CASE Copy
  BY <1>21 DEF IInv, Read, Copy, driver, hardware
<1>22. CASE Land
  BY <1>22 DEF IInv, Read, Land, driver, hardware
<1>23. CASE PowerBegin
  BY <1>23 DEF IInv, Read, PowerBegin, At, Goto, hardware, region
<1>24. CASE PowerStop
  BY <1>24 DEF IInv, Read, PowerStop, At, Goto, driver, region
<1>25. CASE PowerSdma
  BY <1>25 DEF IInv, Read, PowerSdma, At, Goto, Shutdown
<1>26. CASE PowerClose
  BY <1>26 DEF IInv, Read, PowerClose, At, Goto, Publish, region
<1>27. CASE Load
  BY <1>27 DEF IInv, Read, TypeOK, Setups, Pollers, Pages, Readers, Load, driver, hardware,
    region
<1>28. CASE SnapSize
  BY <1>28 DEF IInv, Read, SnapSize, driver, hardware, region
<1>29. CASE Configure
  BY <1>29 DEF IInv, Read, TypeOK, Setups, Pollers, Pages, Readers, Configure, driver,
    hardware, region
<1>30. CASE ShowWaiting
  BY <1>30 DEF IInv, Read, TypeOK, Setups, Pollers, Pages, Readers, ShowWaiting, driver,
    hardware, region
<1>32. CASE Exit
  BY <1>32 DEF IInv, Read, Exit, driver, region
<1>33. CASE UNCHANGED vars
  BY <1>33 DEF IInv, Read, vars, driver, hardware, region
<1> QED
  BY <1>1, <1>2, <1>3, <1>4, <1>5, <1>6, <1>7, <1>8, <1>9, <1>10, <1>11, <1>12, <1>13, <1>14,
    <1>15, <1>16, <1>17, <1>18, <1>19, <1>20, <1>21, <1>22, <1>23, <1>24, <1>25, <1>26,
    <1>27, <1>28, <1>29, <1>30, <1>32, <1>33 DEF Next

\* A QEMU that is up to date with a settled page has its geometry.
LEMMA AgreedKept == ASSUME IInv, [Next]_vars PROVE Agreed'
<1>1. ASSUME NEW t \in Threads, Unlist(t) PROVE Agreed'
  BY <1>1 DEF IInv, Agreed, Stable, Before, TypeOK, Setups, Pollers, Threads, Pages, Readers,
    Shapes, Publishing, Roles, Read, Unlist, At, Goto, driver, hardware, region
<1>2. ASSUME NEW t \in Threads, List(t) PROVE Agreed'
  BY <1>2 DEF IInv, Agreed, Stable, Before, TypeOK, Setups, Pollers, Threads, Pages, Readers,
    Shapes, Publishing, Roles, Read, List, At, Goto, driver, hardware, region
<1>3. ASSUME NEW t \in Threads, PutActive(t) PROVE Agreed'
  BY <1>3 DEF IInv, Agreed, Stable, Before, TypeOK, Setups, Pollers, Threads, Pages, Readers,
    Shapes, Publishing, Roles, Read, PutActive, At, Goto, driver, hardware, region
<1>4. ASSUME NEW t \in Threads, PutSize(t) PROVE Agreed'
  BY <1>4 DEF IInv, Agreed, Stable, Before, TypeOK, Setups, Pollers, Threads, Pages, Readers,
    Shapes, Publishing, Roles, Read, PutSize, At, Goto, driver, hardware, region
<1>5. ASSUME NEW t \in Threads, PutRest(t) PROVE Agreed'
  BY <1>5 DEF IInv, Agreed, Stable, Before, TypeOK, Setups, Pollers, Threads, Pages, Readers,
    Shapes, Publishing, Roles, Read, PutRest, At, Goto, driver, hardware, region
<1>6. ASSUME NEW t \in Threads, WriteSeq(t) PROVE Agreed'
  <2> SUFFICES ASSUME Before', Stable' PROVE Agreed'
    BY DEF Agreed
  <2>1. /\ pc[t] = "seq" /\ ctl' = [ctl EXCEPT !.seq = ctl.seq + 1] /\ UNCHANGED qemu
        /\ pc' = [pc EXCEPT ![t] = After(t)]
    BY <1>6 DEF WriteSeq, At, Goto
  <2>2. t \in {"wb", "sdma"} /\ Before
    BY <2>1 DEF IInv, TypeOK, Threads, After, Before
  <2>3. ctl.size = job[t].mode /\ ctl.rest = job[t].mode /\ job[t].mode \in Modes
    BY <2>1, <2>2 DEF IInv, Halfway
  <2>4. ctl'.size = ctl.size /\ ctl'.rest = ctl.rest /\ ctl'.seq = ctl.seq + 1
    BY <2>1 DEF IInv, TypeOK, Pages
  <2>5. /\ ctl.seq \in Nat /\ qemu.loaded \in Nat /\ qemu.seq \in Nat /\ qemu.error \in Nat
        /\ qemu.loaded <= ctl.seq /\ qemu.seq <= ctl.seq /\ qemu.error <= ctl.seq
    BY DEF IInv, TypeOK, Pages, Readers, Read
  <2> QED
    BY <2>1, <2>3, <2>4, <2>5 DEF Agreed
<1>7. CASE FirstStep
  BY <1>7 DEF IInv, Agreed, Stable, Before, TypeOK, Setups, Pollers, Threads, Pages, Readers,
    Shapes, Publishing, Roles, Read, FirstStep, At, Goto, region
<1>8. CASE Refuse
  BY <1>8 DEF IInv, Agreed, Stable, Before, Refuse, Goto, hardware, region
<1>9. CASE Setup
  BY <1>9 DEF IInv, Agreed, Stable, Before, Setup, At, Goto, driver, hardware, region
<1>10. CASE EnsureAgp
  BY <1>10 DEF IInv, Agreed, Stable, Before, TypeOK, Setups, Pollers, Threads, Pages,
    Readers, Shapes, Publishing, Roles, Read, EnsureAgp, At, region
<1>11. CASE Start
  BY <1>11 DEF IInv, Agreed, Stable, Before, TypeOK, Setups, Pollers, Threads, Pages,
    Readers, Shapes, Publishing, Roles, Read, Start, At, Goto, Publish, region
<1>12. CASE StopWriteback
  BY <1>12 DEF IInv, Agreed, Stable, Before, TypeOK, Setups, Pollers, Threads, Pages,
    Readers, Shapes, Publishing, Roles, Read, StopWriteback, At, Goto, Publish, region
<1>13. CASE SdmaTick
  BY <1>13 DEF IInv, Agreed, Stable, Before, SdmaTick, At, Goto, driver, hardware, region
<1>14. CASE QueueRefused
  BY <1>14 DEF IInv, Agreed, Stable, Before, QueueRefused, At, Goto, hardware, region
<1>15. CASE QueueUp
  BY <1>15 DEF IInv, Agreed, Stable, Before, TypeOK, Setups, Pollers, Threads, Pages,
    Readers, Shapes, Publishing, Roles, Read, QueueUp, At, Goto
<1>16. CASE Landed
  BY <1>16 DEF IInv, Agreed, Stable, Before, TypeOK, Setups, Pollers, Threads, Pages,
    Readers, Shapes, Publishing, Roles, Read, Landed, At, hardware, region
<1>17. CASE Wait
  BY <1>17 DEF IInv, Agreed, Stable, Before, Wait, At, Goto, driver, hardware, region
<1>18. CASE Hang
  BY <1>18 DEF IInv, Agreed, Stable, Before, Hang, At, Goto, Shutdown
<1>19. CASE Sample
  BY <1>19, SampleMeans DEF driver, hardware, region, IInv, Publishing, Agreed, Stable,
     Before
<1>20. CASE Submit
  BY <1>20 DEF IInv, Agreed, Stable, Before, Submit, At, Goto, hardware
<1>21. CASE Copy
  BY <1>21 DEF IInv, Agreed, Stable, Before, Copy, driver, hardware
<1>22. CASE Land
  BY <1>22 DEF IInv, Agreed, Stable, Before, Land, driver, hardware
<1>23. CASE PowerBegin
  BY <1>23 DEF IInv, Agreed, Stable, Before, PowerBegin, At, Goto, hardware, region
<1>24. CASE PowerStop
  BY <1>24 DEF IInv, Agreed, Stable, Before, PowerStop, At, Goto, driver, region
<1>25. CASE PowerSdma
  BY <1>25 DEF IInv, Agreed, Stable, Before, PowerSdma, At, Goto, Shutdown
<1>26. CASE PowerClose
  BY <1>26 DEF IInv, Agreed, Stable, Before, PowerClose, At, Goto, Publish, region
<1>27. CASE Load
  BY <1>27 DEF IInv, Agreed, Stable, Before, TypeOK, Setups, Pollers, Threads, Pages,
    Readers, Shapes, Publishing, Roles, Read, Load, driver, hardware, region
<1>28. CASE SnapSize
  BY <1>28 DEF IInv, Agreed, Stable, Before, TypeOK, Setups, Pollers, Threads, Pages,
    Readers, Shapes, Publishing, Roles, Read, SnapSize, driver, hardware, region
<1>29. CASE Configure
  <2> SUFFICES ASSUME Before', Stable', ctl'.magic PROVE Agreed'
    BY DEF Agreed
  <2>1. qemu.at = "rest" /\ UNCHANGED <<pc, ctl>>
    BY <1>29 DEF Configure
  <2>2. /\ ctl.size = ctl.rest /\ ctl.size \in Modes /\ qemu.error # ctl.seq
        /\ qemu.loaded = ctl.seq => qemu.size = ctl.size
    BY <2>1 DEF IInv, Agreed, Before, Stable
  <2>3. CASE None \in {qemu.size, ctl.rest}
    <3>1. qemu'.at = "idle" /\ ~qemu'.configured /\ qemu'.error = qemu.loaded
      BY <1>29, <2>3 DEF Configure, IInv, TypeOK, Readers
    <3>2. qemu.loaded # ctl.seq
      BY <2>2, <2>3, DisplayAssumption
    <3> QED
      BY <2>1, <2>2, <3>1, <3>2 DEF Agreed
  <2>4. CASE None \notin {qemu.size, ctl.rest}
    <3>1. /\ qemu'.at = "idle" /\ qemu'.seq = qemu.loaded /\ qemu'.error = qemu.error
          /\ qemu'.shape = <<qemu.size, ctl.rest>>
      BY <1>29, <2>4 DEF Configure, IInv, TypeOK, Readers
    <3> QED
      BY <2>1, <2>2, <3>1 DEF Agreed
  <2> QED
    BY <2>3, <2>4
<1>30. CASE ShowWaiting
  BY <1>30 DEF IInv, Agreed, Stable, Before, TypeOK, Setups, Pollers, Threads, Pages,
    Readers, Shapes, Publishing, Roles, Read, ShowWaiting, driver, hardware, region
<1>32. CASE Exit
  BY <1>32 DEF IInv, Agreed, Stable, Before, TypeOK, Setups, Pollers, Threads, Pages,
    Readers, Shapes, Publishing, Roles, Read, Exit, driver, region
<1>33. CASE UNCHANGED vars
  BY <1>33 DEF IInv, Agreed, Stable, Before, vars, driver, hardware, region
<1> QED
  BY <1>1, <1>2, <1>3, <1>4, <1>5, <1>6, <1>7, <1>8, <1>9, <1>10, <1>11, <1>12, <1>13, <1>14,
    <1>15, <1>16, <1>17, <1>18, <1>19, <1>20, <1>21, <1>22, <1>23, <1>24, <1>25, <1>26,
    <1>27, <1>28, <1>29, <1>30, <1>32, <1>33 DEF Next

\* Writeback that runs is on the list or about to be.
LEMMA ListedKept == ASSUME IInv, [Next]_vars PROVE Listed'
<1>1. ASSUME NEW t \in Threads, Unlist(t) PROVE Listed'
  BY <1>1 DEF IInv, Listed, Roles, Publishing, TypeOK, Setups, Pollers, Threads, NoJob,
    Sources, Pages, Unlist, At, Goto, driver, hardware, region
<1>2. ASSUME NEW t \in Threads, List(t) PROVE Listed'
  <2>1. /\ ctl' = [ctl EXCEPT !.stops = Sources]
        /\ pc[t] = "list" /\ UNCHANGED <<stage, dwb, exited>>
        /\ pc' = [pc EXCEPT ![t] = IF job[t].goal = "list" THEN "poll" ELSE "active"]
    BY <1>2 DEF List, At, Goto, hardware
  <2>2. ctl'.stops = Sources /\ ctl'.magic = ctl.magic
    BY <2>1 DEF IInv, TypeOK, Pages
  <2>3. t = "wb" => pc'["wb"] = "active"
    BY <2>1 DEF IInv, TypeOK, Threads, Jobbed, Publishing
  <2>4. t # "wb" => pc'["wb"] = pc["wb"]
    BY <2>1 DEF IInv, TypeOK, Threads
  <2>5. pc'["power"] = "on" => pc["power"] = "on"
    BY <2>1 DEF IInv, TypeOK, Threads
  <2> QED
    BY <2>1, <2>2, <2>3, <2>4, <2>5 DEF IInv, Listed, Sources
<1>3. ASSUME NEW t \in Threads, PutActive(t) PROVE Listed'
  BY <1>3 DEF IInv, Listed, Roles, Publishing, PutActive, At, Goto, driver, hardware, region
<1>4. ASSUME NEW t \in Threads, PutSize(t) PROVE Listed'
  BY <1>4 DEF IInv, Listed, Roles, Publishing, PutSize, At, Goto, driver, hardware, region
<1>5. ASSUME NEW t \in Threads, PutRest(t) PROVE Listed'
  BY <1>5 DEF IInv, Listed, Roles, Publishing, PutRest, At, Goto, driver, hardware, region
<1>6. ASSUME NEW t \in Threads, WriteSeq(t) PROVE Listed'
  BY <1>6 DEF IInv, Listed, Roles, Publishing, WriteSeq, At, Goto, After, hardware, region
<1>7. CASE FirstStep
  BY <1>7 DEF IInv, Listed, Roles, Publishing, FirstStep, At, Goto, region
<1>8. CASE Refuse
  BY <1>8 DEF IInv, Listed, Roles, Publishing, Refuse, Goto, hardware, region
<1>9. CASE Setup
  BY <1>9 DEF IInv, Listed, Roles, Publishing, Setup, At, Goto, driver, hardware, region
<1>10. CASE EnsureAgp
  BY <1>10 DEF IInv, Listed, Roles, Publishing, TypeOK, Setups, Pollers, Threads, NoJob,
    Sources, Pages, EnsureAgp, At, region
<1>11. CASE Start
  BY <1>11 DEF IInv, Listed, Roles, Publishing, TypeOK, Setups, Pollers, Threads, NoJob,
    Sources, Pages, Start, At, Goto, Publish, region
<1>12. CASE StopWriteback
  BY <1>12 DEF IInv, Listed, Roles, Publishing, StopWriteback, At, Goto, Publish, region
<1>13. CASE SdmaTick
  BY <1>13 DEF IInv, Listed, Roles, Publishing, SdmaTick, At, Goto, driver, hardware, region
<1>14. CASE QueueRefused
  BY <1>14 DEF IInv, Listed, Roles, Publishing, QueueRefused, At, Goto, hardware, region
<1>15. CASE QueueUp
  BY <1>15 DEF IInv, Listed, Roles, Publishing, TypeOK, Setups, Pollers, Threads, NoJob,
    Sources, Pages, QueueUp, At, Goto
<1>16. CASE Landed
  BY <1>16 DEF IInv, Listed, Roles, Publishing, Landed, At, hardware, region
<1>17. CASE Wait
  BY <1>17 DEF IInv, Listed, Roles, Publishing, Wait, At, Goto, driver, hardware, region
<1>18. CASE Hang
  BY <1>18 DEF IInv, Listed, Roles, Publishing, Hang, At, Goto, Shutdown
<1>19. CASE Sample
  BY <1>19, SampleMeans DEF driver, hardware, region, IInv, Publishing, Listed, Roles,
     Publishing
<1>20. CASE Submit
  BY <1>20 DEF IInv, Listed, Roles, Publishing, Submit, At, Goto, hardware
<1>21. CASE Copy
  BY <1>21 DEF IInv, Listed, Roles, Publishing, Copy, driver, hardware
<1>22. CASE Land
  BY <1>22 DEF IInv, Listed, Roles, Publishing, Land, driver, hardware
<1>23. CASE PowerBegin
  BY <1>23 DEF IInv, Listed, Roles, Publishing, PowerBegin, At, Goto, hardware, region
<1>24. CASE PowerStop
  BY <1>24 DEF IInv, Listed, Roles, Publishing, PowerStop, At, Goto, driver, region
<1>25. CASE PowerSdma
  BY <1>25 DEF IInv, Listed, Roles, Publishing, PowerSdma, At, Goto, Shutdown
<1>26. CASE PowerClose
  BY <1>26 DEF IInv, Listed, Roles, Publishing, PowerClose, At, Goto, Publish, region
<1>27. CASE Load
  BY <1>27 DEF IInv, Listed, Roles, Publishing, Load, driver, hardware, region
<1>28. CASE SnapSize
  BY <1>28 DEF IInv, Listed, Roles, Publishing, SnapSize, driver, hardware, region
<1>29. CASE Configure
  BY <1>29 DEF IInv, Listed, Roles, Publishing, Configure, driver, hardware, region
<1>30. CASE ShowWaiting
  BY <1>30 DEF IInv, Listed, Roles, Publishing, ShowWaiting, driver, hardware, region
<1>32. CASE Exit
  BY <1>32 DEF IInv, Listed, Roles, Publishing, Exit, driver, region
<1>33. CASE UNCHANGED vars
  BY <1>33 DEF IInv, Listed, Roles, Publishing, vars, driver, hardware, region
<1> QED
  BY <1>1, <1>2, <1>3, <1>4, <1>5, <1>6, <1>7, <1>8, <1>9, <1>10, <1>11, <1>12, <1>13, <1>14,
    <1>15, <1>16, <1>17, <1>18, <1>19, <1>20, <1>21, <1>22, <1>23, <1>24, <1>25, <1>26,
    <1>27, <1>28, <1>29, <1>30, <1>32, <1>33 DEF Next

\* From the first publication on the queue is on the list or about to be.
LEMMA QueueListedKept == ASSUME IInv, [Next]_vars PROVE QueueListed'
<1>1. ASSUME NEW t \in Threads, Unlist(t) PROVE QueueListed'
  BY <1>1 DEF IInv, QueueListed, Roles, Publishing, Halfway, Before, TypeOK, Setups, Pollers,
    Threads, NoJob, Sources, Pages, Unlist, At, Goto, driver, hardware, region
<1>2. ASSUME NEW t \in Threads, List(t) PROVE QueueListed'
  BY <1>2 DEF IInv, QueueListed, Roles, Publishing, Halfway, Before, TypeOK, Setups, Pollers,
    Threads, NoJob, Sources, Pages, List, At, Goto, driver, hardware, region
<1>3. ASSUME NEW t \in Threads, PutActive(t) PROVE QueueListed'
  BY <1>3 DEF IInv, QueueListed, Roles, Publishing, Halfway, Before, PutActive, At, Goto,
    driver, hardware, region
<1>4. ASSUME NEW t \in Threads, PutSize(t) PROVE QueueListed'
  BY <1>4 DEF IInv, QueueListed, Roles, Publishing, Halfway, Before, PutSize, At, Goto,
    driver, hardware, region
<1>5. ASSUME NEW t \in Threads, PutRest(t) PROVE QueueListed'
  BY <1>5 DEF IInv, QueueListed, Roles, Publishing, Halfway, Before, PutRest, At, Goto,
    driver, hardware, region
<1>6. ASSUME NEW t \in Threads, WriteSeq(t) PROVE QueueListed'
  BY <1>6 DEF IInv, QueueListed, Roles, Publishing, Halfway, Before, WriteSeq, At, Goto,
    After, hardware, region
<1>7. CASE FirstStep
  BY <1>7 DEF IInv, QueueListed, Roles, Publishing, Halfway, Before, FirstStep, At, Goto,
    region
<1>8. CASE Refuse
  BY <1>8 DEF IInv, QueueListed, Roles, Publishing, Halfway, Before, Refuse, Goto, hardware,
    region
<1>9. CASE Setup
  BY <1>9 DEF IInv, QueueListed, Roles, Publishing, Halfway, Before, Setup, At, Goto, driver,
    hardware, region
<1>10. CASE EnsureAgp
  BY <1>10 DEF IInv, QueueListed, Roles, Publishing, Halfway, Before, TypeOK, Setups,
    Pollers, Threads, NoJob, Sources, Pages, EnsureAgp, At, region
<1>11. CASE Start
  BY <1>11 DEF IInv, QueueListed, Roles, Publishing, Halfway, Before, Start, At, Goto,
    Publish, region
<1>12. CASE StopWriteback
  BY <1>12 DEF IInv, QueueListed, Roles, Publishing, Halfway, Before, StopWriteback, At,
    Goto, Publish, region
<1>13. CASE SdmaTick
  BY <1>13 DEF IInv, QueueListed, Roles, Publishing, Halfway, Before, SdmaTick, At, Goto,
    driver, hardware, region
<1>14. CASE QueueRefused
  BY <1>14 DEF IInv, QueueListed, Roles, Publishing, Halfway, Before, QueueRefused, At, Goto,
    hardware, region
<1>15. CASE QueueUp
  BY <1>15 DEF IInv, QueueListed, Roles, Publishing, Halfway, Before, TypeOK, Setups,
    Pollers, Threads, NoJob, Sources, Pages, QueueUp, At, Goto
<1>16. CASE Landed
  BY <1>16 DEF IInv, QueueListed, Roles, Publishing, Halfway, Before, Landed, At, hardware,
    region
<1>17. CASE Wait
  BY <1>17 DEF IInv, QueueListed, Roles, Publishing, Halfway, Before, Wait, At, Goto, driver,
    hardware, region
<1>18. CASE Hang
  BY <1>18 DEF IInv, QueueListed, Roles, Publishing, Halfway, Before, Hang, At, Goto,
    Shutdown
<1>19. CASE Sample
  BY <1>19, SampleMeans DEF driver, hardware, region, IInv, Publishing, QueueListed, Roles,
    Publishing, Halfway, Before
<1>20. CASE Submit
  <2>1. /\ pc' = [pc EXCEPT !["sdma"] = "idle"] /\ sdma'.published = sdma.published
        /\ UNCHANGED <<stage, ctl, exited>>
    BY <1>20, SubmitMeans DEF Submit, Goto
  <2>2. pc["sdma"] = "submit" /\ pc'["sdma"] = "idle" /\ pc'["power"] = pc["power"]
    BY <1>20, <2>1 DEF IInv, TypeOK, Threads, Submit, At
  <2> QED
    BY <2>1, <2>2 DEF IInv, QueueListed, Before
<1>21. CASE Copy
  BY <1>21 DEF IInv, QueueListed, Roles, Publishing, Halfway, Before, Copy, driver, hardware
<1>22. CASE Land
  BY <1>22 DEF IInv, QueueListed, Roles, Publishing, Halfway, Before, Land, driver, hardware
<1>23. CASE PowerBegin
  BY <1>23 DEF IInv, QueueListed, Roles, Publishing, Halfway, Before, PowerBegin, At, Goto,
    hardware, region
<1>24. CASE PowerStop
  BY <1>24 DEF IInv, QueueListed, Roles, Publishing, Halfway, Before, PowerStop, At, Goto,
    driver, region
<1>25. CASE PowerSdma
  BY <1>25 DEF IInv, QueueListed, Roles, Publishing, Halfway, Before, PowerSdma, At, Goto,
    Shutdown
<1>26. CASE PowerClose
  BY <1>26 DEF IInv, QueueListed, Roles, Publishing, Halfway, Before, PowerClose, At, Goto,
    Publish, region
<1>27. CASE Load
  BY <1>27 DEF IInv, QueueListed, Roles, Publishing, Halfway, Before, Load, driver, hardware,
    region
<1>28. CASE SnapSize
  BY <1>28 DEF IInv, QueueListed, Roles, Publishing, Halfway, Before, SnapSize, driver,
    hardware, region
<1>29. CASE Configure
  BY <1>29 DEF IInv, QueueListed, Roles, Publishing, Halfway, Before, Configure, driver,
    hardware, region
<1>30. CASE ShowWaiting
  BY <1>30 DEF IInv, QueueListed, Roles, Publishing, Halfway, Before, ShowWaiting, driver,
    hardware, region
<1>32. CASE Exit
  BY <1>32 DEF IInv, QueueListed, Roles, Publishing, Halfway, Before, Exit, driver, region
<1>33. CASE UNCHANGED vars
  BY <1>33 DEF IInv, QueueListed, Roles, Publishing, Halfway, Before, vars, driver, hardware,
    region
<1> QED
  BY <1>1, <1>2, <1>3, <1>4, <1>5, <1>6, <1>7, <1>8, <1>9, <1>10, <1>11, <1>12, <1>13, <1>14,
    <1>15, <1>16, <1>17, <1>18, <1>19, <1>20, <1>21, <1>22, <1>23, <1>24, <1>25, <1>26,
    <1>27, <1>28, <1>29, <1>30, <1>32, <1>33 DEF Next

\* What is on the list is stopped when QEMU exits.
LEMMA StoppedKept == ASSUME IInv, [Next]_vars PROVE Stopped'
<1>1. ASSUME NEW t \in Threads, Unlist(t) PROVE Stopped'
  BY <1>1 DEF IInv, Stopped, Flying, Ours, Queued, Busy, Listed, QueueListed, Before,
    Unlist, At, Goto, driver, hardware, region
<1>2. ASSUME NEW t \in Threads, List(t) PROVE Stopped'
  BY <1>2 DEF IInv, Stopped, Flying, Ours, Queued, Busy, Listed, QueueListed, Before,
    List, At, Goto, driver, hardware, region
<1>3. ASSUME NEW t \in Threads, PutActive(t) PROVE Stopped'
  BY <1>3 DEF IInv, Stopped, Flying, Ours, Queued, Busy, Listed, QueueListed, Before,
    PutActive, At, Goto, driver, hardware, region
<1>4. ASSUME NEW t \in Threads, PutSize(t) PROVE Stopped'
  BY <1>4 DEF IInv, Stopped, Flying, Ours, Queued, Busy, Listed, QueueListed, Before,
    PutSize, At, Goto, driver, hardware, region
<1>5. ASSUME NEW t \in Threads, PutRest(t) PROVE Stopped'
  BY <1>5 DEF IInv, Stopped, Flying, Ours, Queued, Busy, Listed, QueueListed, Before,
    PutRest, At, Goto, driver, hardware, region
<1>6. ASSUME NEW t \in Threads, WriteSeq(t) PROVE Stopped'
  BY <1>6 DEF IInv, Stopped, Flying, Ours, Queued, Busy, Listed, QueueListed, Before,
    WriteSeq, At, Goto, After, hardware, region
<1>7. CASE FirstStep
  BY <1>7 DEF IInv, Stopped, Flying, Ours, Queued, Busy, Listed, QueueListed, Before,
    FirstStep, At, Goto, region
<1>8. CASE Refuse
  BY <1>8 DEF IInv, Stopped, Flying, Ours, Queued, Busy, Listed, QueueListed, Before,
    Refuse, Goto, hardware, region
<1>9. CASE Setup
  BY <1>9 DEF IInv, Stopped, Flying, Ours, Queued, Busy, Listed, QueueListed, Before,
    Setup, At, Goto, driver, hardware, region
<1>10. CASE EnsureAgp
  BY <1>10 DEF IInv, Stopped, Flying, Ours, Queued, Busy, Listed, QueueListed, Before,
    EnsureAgp, At, region
<1>11. CASE Start
  BY <1>11 DEF IInv, Stopped, Flying, Ours, Queued, Busy, Listed, QueueListed, Before,
    Start, At, Goto, Publish, region
<1>12. CASE StopWriteback
  BY <1>12 DEF IInv, Stopped, Flying, Ours, Queued, Busy, Listed, QueueListed, Before,
    StopWriteback, At, Goto, Publish, region
<1>13. CASE SdmaTick
  BY <1>13 DEF IInv, Stopped, Flying, Ours, Queued, Busy, Listed, QueueListed, Before,
    SdmaTick, At, Goto, driver, hardware, region
<1>14. CASE QueueRefused
  BY <1>14 DEF IInv, Stopped, Flying, Ours, Queued, Busy, Listed, QueueListed, Before,
    QueueRefused, At, Goto, hardware, region
<1>15. CASE QueueUp
  BY <1>15 DEF IInv, Stopped, Flying, Ours, Queued, Busy, Listed, QueueListed, Before,
    QueueUp, At, Goto
<1>16. CASE Landed
  BY <1>16 DEF IInv, Stopped, Flying, Ours, Queued, Busy, Listed, QueueListed, Before,
    Landed, At, hardware, region
<1>17. CASE Wait
  BY <1>17 DEF IInv, Stopped, Flying, Ours, Queued, Busy, Listed, QueueListed, Before,
    Wait, At, Goto, driver, hardware, region
<1>18. CASE Hang
  BY <1>18 DEF IInv, Stopped, Flying, Ours, Queued, Busy, Listed, QueueListed, Before,
    Hang, At, Goto, Shutdown
<1>19. CASE Sample
  BY <1>19 DEF IInv, Stopped, Flying, Ours, Queued, Busy, Listed, QueueListed, Before,
    Sample, At, Goto, driver, hardware, region
<1>20. CASE Submit
  BY <1>20 DEF IInv, Stopped, Flying, Ours, Queued, Busy, Listed, QueueListed, Before,
    Submit, At, Goto, hardware
<1>21. CASE Copy
  BY <1>21 DEF IInv, Stopped, Flying, Ours, Queued, Busy, Listed, QueueListed, Before,
    Copy, driver, hardware
<1>22. CASE Land
  BY <1>22 DEF IInv, Stopped, Flying, Ours, Queued, Busy, Listed, QueueListed, Before,
    Land, driver, hardware
<1>23. CASE PowerBegin
  BY <1>23 DEF IInv, Stopped, Flying, Ours, Queued, Busy, Listed, QueueListed, Before,
    PowerBegin, At, Goto, hardware, region
<1>24. CASE PowerStop
  BY <1>24 DEF IInv, Stopped, Flying, Ours, Queued, Busy, Listed, QueueListed, Before,
    PowerStop, At, Goto, driver, region
<1>25. CASE PowerSdma
  BY <1>25 DEF IInv, Stopped, Flying, Ours, Queued, Busy, Listed, QueueListed, Before,
    PowerSdma, At, Goto, Shutdown
<1>26. CASE PowerClose
  BY <1>26 DEF IInv, Stopped, Flying, Ours, Queued, Busy, Listed, QueueListed, Before,
    PowerClose, At, Goto, Publish, region
<1>27. CASE Load
  BY <1>27 DEF IInv, Stopped, Flying, Ours, Queued, Busy, Listed, QueueListed, Before,
    Load, driver, hardware, region
<1>28. CASE SnapSize
  BY <1>28 DEF IInv, Stopped, Flying, Ours, Queued, Busy, Listed, QueueListed, Before,
    SnapSize, driver, hardware, region
<1>29. CASE Configure
  BY <1>29 DEF IInv, Stopped, Flying, Ours, Queued, Busy, Listed, QueueListed, Before,
    Configure, driver, hardware, region
<1>30. CASE ShowWaiting
  BY <1>30 DEF IInv, Stopped, Flying, Ours, Queued, Busy, Listed, QueueListed, Before,
    ShowWaiting, driver, hardware, region
<1>32. CASE Exit
  <2>1. /\ ~exited /\ UNCHANGED <<pc, stage, engine, sdma, word>>
        /\ dwb' = IF ctl.magic /\ "dwb" \in ctl.stops THEN None ELSE dwb
        /\ queueOn' = (queueOn /\ ~(ctl.magic /\ "rlc0" \in ctl.stops))
    BY <1>32 DEF Exit, driver, region
  <2> SUFFICES ASSUME pc["power"] = "on" PROVE Stopped'
    BY <2>1 DEF Stopped
  <2>2. pc["wb"] = "idle" => dwb' = None
    BY <2>1 DEF IInv, TypeOK, Listed
  <2>3. Busy /\ sdma.published # None /\ Ours => ~queueOn'
    <3> SUFFICES ASSUME Busy, sdma.published # None, Ours PROVE ~queueOn'
      OBVIOUS
    <3>1. stage = 2 /\ pc["sdma"] \notin {"unlist", "list"}
      BY DEF IInv, Flying, Roles
    <3> QED
      BY <2>1, <3>1 DEF IInv, QueueListed, Before
  <2> QED
    BY <2>1, <2>2, <2>3 DEF Stopped, Busy, Ours
<1>33. CASE UNCHANGED vars
  BY <1>33 DEF IInv, Stopped, Flying, Ours, Queued, Busy, Listed, QueueListed, Before,
    vars, driver, hardware, region
<1> QED
  BY <1>1, <1>2, <1>3, <1>4, <1>5, <1>6, <1>7, <1>8, <1>9, <1>10, <1>11, <1>12, <1>13, <1>14,
    <1>15, <1>16, <1>17, <1>18, <1>19, <1>20, <1>21, <1>22, <1>23, <1>24, <1>25, <1>26,
    <1>27, <1>28, <1>29, <1>30, <1>32, <1>33 DEF Next

\* The types together.
LEMMA TypeKept == ASSUME IInv, [Next]_vars PROVE TypeOK'
<1>1. /\ pc' \in [Threads -> UNION {Places[t] : t \in Threads}]
      /\ \A t \in Threads : pc'[t] \in Places[t]
  BY PlacesKept DEF Labels
<1>2. job' \in [Threads -> Jobs] /\ wb' \in Setups /\ sdma' \in Pollers
  BY JobsKept, WritebackKept, CopyKept
<1>3. engine' \in Copies /\ behind' \in Copies /\ ctl' \in Pages /\ qemu' \in Readers
  BY EngineKept, PageKept, ReaderKept
<1>4. dwb' \in Shapes /\ windows' \subseteq {"mm", "gc"} /\ queueOn' \in BOOLEAN
  BY HardwareKept
<1>5. /\ fence' \in [seq : Nat, idx : Indices]
      /\ buf' \in [Indices -> Shapes \cup {"torn"}] /\ image' \in BOOLEAN
      /\ word' \in {"zeroed", "left", "renewed"}
  BY FenceKept, BuffersKept DEF BuffersTyped
<1>6. stage' \in {0, 2} /\ exited' \in BOOLEAN
  BY RestKept
<1> QED
  BY <1>1, <1>2, <1>3, <1>4, <1>5, <1>6 DEF TypeOK

\* The inductive invariant holds in every reachable state.
THEOREM InvariantHolds == Spec => []IInv
<1>1. Init => IInv
  <2> SUFFICES ASSUME Init PROVE IInv
    OBVIOUS
  <2>1. /\ pc["wb"] = "idle" /\ pc["sdma"] = "off" /\ pc["power"] = "off"
        /\ engine.state = "idle" /\ behind.state = "idle" /\ engine.seq = 0
        /\ ~sdma.inFlight /\ sdma.seq = 0 /\ sdma.last = 0 /\ ~sdma.pending
        /\ sdma.published = None /\ ~wb.started /\ ~exited /\ image = FALSE
    BY DEF Init, Threads, Idle
  <2>2. /\ ctl \in Pages /\ ~ctl.cursor /\ ctl.seq \in 0..1
        /\ ctl.magic => /\ ctl.size = ctl.rest /\ ctl.seq = 1
                        /\ ctl.size \in Modes \/ ~ctl.active
    <3>1. ASSUME ctl = Blank
          PROVE  /\ ctl \in Pages /\ ~ctl.cursor /\ ctl.seq \in 0..1 /\ ~ctl.magic
      BY <3>1, DisplayAssumption DEF Blank, Pages, Shapes
    <3>2. ASSUME NEW c \in LeftOver,
                 ctl = [Blank EXCEPT !.magic = TRUE, !.active = c.active, !.size = c.size,
                                     !.rest = c.size, !.seq = 1, !.stops = Sources]
          PROVE  /\ ctl \in Pages /\ ~ctl.cursor /\ ctl.seq = 1
                 /\ ctl.size = ctl.rest /\ (ctl.size \in Modes \/ ~ctl.active)
      <4>1. /\ c.active \in BOOLEAN /\ c.size \in Shapes
            /\ c.size \in Modes \/ ~c.active
        BY DEF LeftOver, Shapes
      <4>2. 1 \in 0..MaxSeq
        BY DisplayAssumption
      <4>3. /\ ctl.magic = TRUE /\ ctl.active = c.active /\ ctl.size = c.size
            /\ ctl.rest = c.size /\ ctl.seq = 1 /\ ctl.stops = Sources /\ ctl.cursor = FALSE
            /\ ctl = [magic |-> TRUE, active |-> c.active, size |-> c.size,
                      rest |-> c.size, seq |-> 1, stops |-> Sources, cursor |-> FALSE]
        BY <3>2 DEF Blank
      <4> QED
        BY <4>1, <4>2, <4>3 DEF Pages
    <3> QED
      <4>1. ctl = Blank \/ ctl \in Earlier
        BY DEF Init
      <4>2. ASSUME ctl \in Earlier
            PROVE  \E c \in LeftOver :
                     ctl = [Blank EXCEPT !.magic = TRUE, !.active = c.active, !.size = c.size,
                                         !.rest = c.size, !.seq = 1, !.stops = Sources]
        BY <4>2 DEF Earlier
      <4>3. ASSUME ctl \in Earlier
            PROVE  /\ ctl \in Pages /\ ~ctl.cursor /\ ctl.seq = 1
                   /\ ctl.size = ctl.rest /\ (ctl.size \in Modes \/ ~ctl.active)
        BY <3>2, <4>2, <4>3
      <4> QED
        BY <3>1, <4>1, <4>3
  <2>3. /\ qemu \in Readers /\ qemu.at = "idle" /\ qemu.loaded = 0 /\ qemu.error = 0
        /\ qemu.seq <= ctl.seq
        /\ qemu.configured => ctl.magic
        /\ qemu.configured /\ qemu.seq = ctl.seq => qemu.shape = <<ctl.size, ctl.size>>
    <3>1. 0 \in 0..MaxSeq /\ None \in Shapes /\ Modes \subseteq Shapes
      BY DisplayAssumption DEF Shapes
    <3>2. CASE qemu = Waiting
      BY <2>2, <3>1, <3>2 DEF Waiting, Readers
    <3>3. ASSUME ctl \in Earlier, qemu \in Showing(ctl)
          PROVE  /\ qemu \in Readers /\ qemu.at = "idle" /\ qemu.loaded = 0
                 /\ qemu.error = 0 /\ qemu.seq <= ctl.seq /\ ctl.magic
                 /\ qemu.seq = ctl.seq => qemu.shape = <<ctl.size, ctl.size>>
      <4>1. ctl.magic /\ ctl.seq = 1 /\ ctl.active \in BOOLEAN
        BY <2>2, <3>3 DEF Earlier, Blank, Pages
      <4>2. PICK m \in IF ctl.active THEN {ctl.size} ELSE Modes :
              qemu = [Waiting EXCEPT !.configured = TRUE,
                                     !.seq = IF ctl.active THEN ctl.seq ELSE 0,
                                     !.shape = <<m, m>>]
        BY <3>3 DEF Showing
      <4>3. m \in Shapes /\ 1 \in 0..MaxSeq
        BY <2>2, <4>1, <4>2, <3>1, DisplayAssumption DEF Pages
      <4>4. qemu = [at |-> "idle", loaded |-> 0, size |-> None, configured |-> TRUE,
                    seq |-> IF ctl.active THEN 1 ELSE 0, shape |-> <<m, m>>, error |-> 0]
        BY <4>1, <4>2 DEF Waiting
      <4>5. qemu \in Readers
        BY <3>1, <4>3, <4>4 DEF Readers
      <4>6. /\ qemu.at = "idle" /\ qemu.loaded = 0 /\ qemu.error = 0
            /\ qemu.seq = IF ctl.active THEN 1 ELSE 0
            /\ qemu.shape = <<m, m>>
        BY <4>4
      <4>7. ctl.active => m = ctl.size
        OBVIOUS
      <4>8. qemu.seq <= ctl.seq /\ (qemu.seq = ctl.seq => ctl.active)
        BY <4>1, <4>6
      <4> QED
        BY <4>1, <4>5, <4>6, <4>7, <4>8
    <3> QED
      BY <3>2, <3>3 DEF Init, Waiting
  <2>4. /\ fence \in [seq : Nat, idx : Indices]
        /\ buf \in [Indices -> Shapes \cup {"torn"}] /\ word \in {"zeroed", "left"}
        /\ word = "zeroed" => fence.seq = 0 /\ fence.idx = 0 /\ buf[fence.idx] # "torn"
    BY DisplayAssumption DEF Init, Indices, Shapes
  <2>5. TypeOK
    <3>1. /\ pc \in [Threads -> UNION {Places[t] : t \in Threads}]
          /\ \A t \in Threads : pc[t] \in Places[t]
      <4>1. \A t \in Threads : pc[t] \in Places[t]
        BY <2>1, PlacesAre DEF Threads
      <4> QED
        BY <4>1 DEF Init
    <3>2. job \in [Threads -> Jobs] /\ engine \in Copies /\ behind \in Copies
      BY IdleIsTyped DEF Init
    <3>3. 0 \in 0..MaxCopies /\ 0 \in Indices /\ None \in Shapes
      BY DisplayAssumption DEF Indices, Shapes
    <3>4. wb \in Setups
      BY <3>3 DEF Init, Setups
    <3>5. sdma \in Pollers
      BY <3>3 DEF Init, Pollers
    <3>6. stage \in {0, 2} /\ exited \in BOOLEAN /\ dwb \in Shapes
          /\ windows \subseteq {"mm", "gc"} /\ queueOn \in BOOLEAN /\ image \in BOOLEAN
      BY DEF Init
    <3> QED
      BY <2>2, <2>3, <2>4, <3>1, <3>2, <3>4, <3>5, <3>6 DEF TypeOK
  <2>6. Jobbed /\ Fenced /\ Flying /\ Queued /\ Sampled /\ Imaged /\ Framed
    BY <2>1, <2>2, <2>4
       DEF Jobbed, Fenced, Flying, Queued, Sampled, Imaged, Framed, Ours, Busy, Waits,
           Publishing, Threads
  <2>7. Counted
    BY <2>1, <2>2, DisplayAssumption DEF Counted, Owed, Publishing
  <2>8. Roles /\ Halfway /\ Listed /\ QueueListed /\ Stopped
    BY <2>1 DEF Roles, Halfway, Listed, QueueListed, Stopped, Publishing, Busy
  <2>9. Read /\ Agreed
    BY <2>2, <2>3 DEF Read, Agreed
  <2> QED
    BY <2>5, <2>6, <2>7, <2>8, <2>9 DEF IInv
<1>2. ASSUME IInv, [Next]_vars PROVE IInv'
  <2>1. TypeOK' /\ Jobbed' /\ Counted'
    BY <1>2, TypeKept, JobbedKept, CountedKept
  <2>2. Fenced' /\ Flying' /\ Queued' /\ Sampled' /\ Imaged' /\ Framed'
    BY <1>2, FencedKept, FlyingKept, QueuedKept, SampledKept, ImagedKept, FramedKept
  <2>3. Roles' /\ Halfway' /\ Read' /\ Agreed'
    BY <1>2, RolesKept, HalfwayKept, ReadKept, AgreedKept
  <2>4. Listed' /\ QueueListed' /\ Stopped'
    BY <1>2, ListedKept, QueueListedKept, StoppedKept
  <2> QED
    BY <2>1, <2>2, <2>3, <2>4 DEF IInv
<1> QED
  BY <1>1, <1>2, PTL DEF Spec

-----------------------------------------------------------------------------
(***************************************************************************)
(* What the run checks, for every value of the constants.                  *)
(***************************************************************************)

\* Every variable keeps its type, and every buffer index stays inside the region.
THEOREM TypeCorrect == Spec => []TypeOK
<1>1. IInv => TypeOK
  BY DEF IInv
<1> QED
  BY <1>1, InvariantHolds, PTL

\* Once no publication is under way, a QEMU that is up to date with guest_seq shows the
\* geometry that was published, whole, and has not rejected it (publish, rgpu_gfx_update).
THEOREM SettledGeometryAlways == Spec => []SettledGeometry
<1>1. IInv => SettledGeometry
  BY DEF IInv, Agreed, Before, Stable, Publishing, Threads, SettledGeometry
<1> QED
  BY <1>1, InvariantHolds, PTL

\* The status word never names a buffer that is being written or was left half written, from
\* the start where QEMU zeroed it and from the first landed frame where an earlier boot left
\* it; where it was zeroed, a cursor is announced only after its image has landed
\* (sdmaCopyStep).
THEOREM PictureWholeAlways == Spec => []PictureWhole
<1>1. IInv => PictureWhole
  BY DEF IInv, Flying, Queued, Ours, Busy, Waits, Newest, Fenced, Imaged, Framed,
         PictureWhole
<1> QED
  BY <1>1, InvariantHolds, PTL

\* A forced exit stops what writes into the region, wherever the guest is, short of the setup
\* of writeback, of a power-off under way, and for the queue of a status word an earlier boot
\* left and no frame has renewed (wbPublishStops, rgpu_stop_device_writes).
THEOREM ForcedStopQuietAlways == Spec => []ForcedStopQuiet
<1>1. IInv => ForcedStopQuiet
  BY DEF IInv, Stopped, Ours, Busy, ForcedStopQuiet
<1> QED
  BY <1>1, InvariantHolds, PTL
=============================================================================
