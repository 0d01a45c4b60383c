--------------------------- MODULE CriticalCapture ---------------------------
(***************************************************************************)
(* The host's view of the COM2 capture: critical-replay.py, which accepts  *)
(* or refuses the replayed records, and quiesced_state of                  *)
(* critical-transport.py, which looks for the acknowledgement.  A capture  *)
(* is a sequence of physical lines; only the last may be unterminated.     *)
(*   line   what the guest meant to write                                  *)
(*   text   how much of it arrived: "full", "part" (its marker, not all of *)
(*          it) or "short" (not even the marker)                           *)
(*   end    the terminator so far: "open", "cr", "nl", or "crcr" for a     *)
(*          terminator that was cut after CR and sent again                *)
(* A record fits one chunk, so a missing chunk is a missing record; the    *)
(* digests of the manifest are the records they are computed from.         *)
(***************************************************************************)
EXTENDS Integers, Sequences, SequencesExt

Chunk(s, r, t) == [kind |-> "chunk", snap |-> s, rec |-> r, record |-> t]
End(s, n, d, c, all) == [kind |-> "end", snap |-> s, count |-> n, dropped |-> d,
                         truncated |-> c, digest |-> all]
Ack(s, n) == [kind |-> "ack", snap |-> s, count |-> n]

Blank == [kind |-> "blank"]

Written(l, t, e) == [line |-> l, text |-> t, end |-> e]

Terminated(p) == p.end \in {"nl", "crcr"}
Transport(p) == p.line.kind \in {"chunk", "end"} /\ p.text # "short"
Decodes(p) == Transport(p) /\ p.text = "full" /\ Terminated(p)

\* The lines of one snapshot number that decode.
Chunks(c, s) == {p.line : p \in {q \in ToSet(c) : Decodes(q) /\ q.line.kind = "chunk"
                                                 /\ q.line.snap = s}}
Ends(c, s) == {p.line : p \in {q \in ToSet(c) : Decodes(q) /\ q.line.kind = "end"
                                               /\ q.line.snap = s}}
Snapshots(c) == {p.line.snap : p \in {q \in ToSet(c) : Decodes(q)}}
Finished(c) == {s \in Snapshots(c) : Ends(c, s) # {}}

Latest(S) == CHOOSE s \in S : \A t \in S : t <= s

\* Mutant: a manifest that reports loss is accepted.
ReconstructsLossy(c, s) ==
  \E e \in Ends(c, s) :
    /\ \A k \in Chunks(c, s) : k.rec < e.count
    /\ \A r \in 0..(e.count - 1) : \E k \in Chunks(c, s) : k.rec = r /\ k.record = e.digest[r + 1]

Reconstructs(c, s) ==
  \E e \in Ends(c, s) :
    /\ e.dropped = 0 /\ e.truncated = 0
    /\ \A k \in Chunks(c, s) : k.rec < e.count
    /\ \A r \in 0..(e.count - 1) : \E k \in Chunks(c, s) : k.rec = r /\ k.record = e.digest[r + 1]

Records(c, s) == (CHOOSE e \in Ends(c, s) : TRUE).digest

\* Snapshot numbers never go back, and no line contradicts an earlier one.
Ordered(c) == \A i, j \in DOMAIN c :
                i < j /\ Decodes(c[i]) /\ Decodes(c[j]) => c[i].line.snap <= c[j].line.snap
Agreeing(c) == \A s \in Snapshots(c) :
                 /\ \A e, f \in Ends(c, s) : e = f
                 /\ \A k, l \in Chunks(c, s) : k.rec = l.rec => k = l

\* Transport the parser can make nothing of: refused in strict mode, and in any
\* mode when it is the cut-off end of the capture.
CutOff(c) == c # <<>> /\ Transport(Last(c)) /\ ~Terminated(Last(c))
Corrupt(c) == \E p \in ToSet(c) : Transport(p) /\ Terminated(p) /\ p.text # "full"

AcceptedStrictly(c) ==
  /\ ~Corrupt(c)
  /\ \A s \in Snapshots(c) : Reconstructs(c, s)
  /\ \A s, t \in Snapshots(c) : s < t => IsPrefix(Records(c, s), Records(c, t))

AcceptedAsPrefix(c) ==
  /\ Finished(c) # {}
  /\ LET t == Latest(Finished(c))
         all == Records(c, t)
     IN /\ t = Latest(Snapshots(c)) /\ Reconstructs(c, t)
        /\ \A i, j \in DOMAIN c :
             i < j /\ c[i].line \in Ends(c, t) /\ Decodes(c[i]) => ~Transport(c[j])
        /\ \A s \in Snapshots(c) \ {t} :
             IF Reconstructs(c, s) THEN IsPrefix(Records(c, s), all)
             ELSE \A k \in Chunks(c, s) : k.rec < Len(all) /\ all[k.rec + 1] = k.record

\* critical-replay.parse: does it return, and if so which snapshot and records.
Accepts(c, tolerant) ==
  /\ Snapshots(c) # {} /\ ~CutOff(c) /\ Ordered(c) /\ Agreeing(c)
  /\ IF tolerant THEN AcceptedAsPrefix(c) ELSE AcceptedStrictly(c)
Replay(c) == LET s == Latest(Finished(c)) IN [snap |-> s, records |-> Records(c, s)]

\* quiesced_state: exactly one acknowledgement, whole, and nothing after it.
\* splitlines() also ends a line at a stray CR, which leaves that line pending.
AckLines(c) == {i \in DOMAIN c : c[i].line.kind = "ack" /\ c[i].text # "short"}
LastLine(c) == CHOOSE i \in DOMAIN c : /\ c[i].line # Blank
                                      /\ \A j \in DOMAIN c : j > i => c[j].line = Blank
AckPending(c) == \E i \in AckLines(c) : c[i].end # "nl"
AckComplete(c) == {i \in AckLines(c) : c[i].end = "nl"}
QuiescedState(c) ==
  IF AckComplete(c) = {} THEN IF AckPending(c) THEN "pending" ELSE "absent"
  ELSE IF AckPending(c) \/ AckComplete(c) # {LastLine(c)} \/ c[LastLine(c)].text # "full"
       THEN "conflicting" ELSE "valid"
=============================================================================
