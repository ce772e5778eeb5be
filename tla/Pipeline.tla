------------------------------ MODULE Pipeline ------------------------------
(***************************************************************************)
(* The diagnosis of one clock on values: samples, environment readings and *)
(* link changes arrive in any order, late ones included, and analyses cut  *)
(* windows, merge them into segments and score those, in whole or up to    *)
(* the row where a statement fails, the client goes away or the process    *)
(* stops.  (internal/service with windowing, jumpdetect, attribution,      *)
(* sampling, baseline and their stores)                                    *)
(*                                                                         *)
(* The mutex makes an analysis one step for the samples, windows and       *)
(* segments of its clock; module Analysis has its steps one by one.  A     *)
(* sample's sequence number is its second; a window or segment is named by *)
(* the second it starts, which is unique (Analysis!UniqueWindows and       *)
(* UniqueAnchors).                                                         *)
(***************************************************************************)
EXTENDS Model, JumpDetect, Attribution

CONSTANTS Uploads,   \* what clients send: records of taken_at and freq_hz
          Readings,  \* environment readings clients send
          Links      \* links from this clock to others

ASSUME PipelineAssumption ==
  /\ \A u \in Uploads : u.at \in Int /\ u.hz \in Int
  /\ \A r \in Readings : r.at \in Int

VARIABLES status,     \* clocks.status
          samples,    \* rows of samples: taken_at and offset_ppb
          readings,   \* rows of env_readings
          linkStatus, \* compare_links.status, "absent" before the row exists
          windows,    \* rows of freq_windows
          jumps,      \* rows of jump_segments
          candidates  \* rows of source_candidates, by segment

vars == <<status, samples, readings, linkStatus, windows, jumps, candidates>>
results == <<windows, jumps, candidates>>

Starts == {WindowStart(u.at) : u \in Uploads}
Anchors(segments) == {seg.start : seg \in segments}

IsWindow(w) == /\ w.start \in Starts /\ w.n \in Nat \ {0} /\ IsFrac(w.mean)
               /\ w.status \in {"stable", "jump", "gap"}
IsSegment(seg) == /\ seg.start \in Starts /\ seg.end \in Int /\ seg.end > seg.start
                  /\ IsFrac(seg.magnitude) /\ seg.magnitude.num > 0
                  /\ seg.direction \in {"up", "down"}
IsCandidate(c) == /\ c.source \in Sources /\ IsFrac(c.score)
                  /\ c.score.num \in 0..c.score.den

TypeOK == /\ status \in ClockStatus
          /\ \A s \in samples : s.at \in Int /\ 20 * Distance(s.offset, 0) <= OffsetScale
          /\ readings \subseteq Readings
          /\ linkStatus \in [Links -> LinkStatus \cup {"absent"}]
          /\ \A w \in windows : IsWindow(w)
          /\ \A seg \in jumps : IsSegment(seg)
          /\ DOMAIN candidates = Starts
          /\ \A start \in Starts : \A c \in candidates[start] : IsCandidate(c)

Init == /\ status = "collecting"
        /\ samples = {} /\ readings = {} /\ windows = {} /\ jumps = {}
        /\ linkStatus = [l \in Links |-> "absent"]
        /\ candidates = [start \in Starts |-> {}]

-----------------------------------------------------------------------------
(* What clients send *)

\* Service.IngestSample: refused when the clock is sealed, the reading is in
\* another unit, or the sequence number is taken.
IngestSampleAnyUnit(u) ==   \* mutant: the unit check of Normalize is skipped
  /\ status # "sealed"
  /\ \A s \in samples : s.at # u.at
  /\ samples' = samples \cup {[at |-> u.at, offset |-> Offset(u.hz)]}
  /\ UNCHANGED <<status, readings, linkStatus, results>>
IngestSample(u) ==
  /\ status # "sealed"
  /\ Accepted(u.hz)
  /\ \A s \in samples : s.at # u.at
  /\ samples' = samples \cup {[at |-> u.at, offset |-> Offset(u.hz)]}
  /\ UNCHANGED <<status, readings, linkStatus, results>>

\* Receiver.IngestEnv: no check of the clock's status.
IngestEnv(r) == /\ readings' = readings \cup {r}
                /\ UNCHANGED <<status, samples, linkStatus, results>>

\* LinkStore.Upsert and Service.LinkAction
UpsertLink(l) == /\ linkStatus[l] = "absent"
                 /\ linkStatus' = [linkStatus EXCEPT ![l] = "healthy"]
                 /\ UNCHANGED <<status, samples, readings, results>>
LinkAction(l, to) == /\ linkStatus[l] # "absent"
                     /\ linkStatus' = [linkStatus EXCEPT ![l] = to]
                     /\ UNCHANGED <<status, samples, readings, results>>

SealClock == /\ CanTransition(status, "sealed")
             /\ status' = "sealed"
             /\ UNCHANGED <<samples, readings, linkStatus, results>>

-----------------------------------------------------------------------------
(* Analysis *)

\* LinkStore.ListBySubject: this clock's links that exist.
ListLinks == {[link |-> l, status |-> linkStatus[l]] :
              l \in {k \in Links : linkStatus[k] # "absent"}}

\* What ScoreCtx returns: a segment that has candidates, be it some of them, keeps
\* them.  For segments in unread EnvStore.Range fails; its error counts as no reading.
Scored(seg, unread) ==
  IF candidates[seg.start] # {} THEN candidates[seg.start]
  ELSE ScoreSegment(seg, IF seg \in unread THEN {} ELSE readings, ListLinks)

\* The table after the scoring of some segments,
ScoredBy(segments, unread) ==
  [start \in Starts |-> IF start \in Anchors(segments)
                        THEN Scored(CHOOSE seg \in segments : seg.start = start, unread)
                        ELSE candidates[start]]

\* and after one, in time order, that stops with some rows of the segment failed
\* in the table: none when the cleanup worked.
ScoredPast(segments, failed, unread, kept) ==   \* mutant: the later ones are scored
  [ScoredBy(segments, unread) EXCEPT ![failed.start] = {c \in @ : c.source \in kept}]
ScoredUpTo(segments, failed, unread, kept) ==
  [ScoredBy({seg \in segments : seg.start <= failed.start}, unread)
     EXCEPT ![failed.start] = {c \in @ : c.source \in kept}]

\* BuildCtx and DetectCtx: the windows afterwards and the segments to insert.
Built == Build(samples, windows)
Found(built) == Detect(built, Anchors(jumps))

\* No segment found means confirmed, else review, where the machine allows it;
\* a collecting clock passes through analyzing.
Verdict(found) == IF found = {} THEN "confirmed" ELSE "review"
NextStatus(found) ==
  LET from == IF status = "collecting" THEN "analyzing" ELSE status
  IN IF CanTransition(from, Verdict(found)) THEN Verdict(found) ELSE from

\* A complete AnalyzeClockCtx.
Analyze ==
  LET built == Built
      found == Found(built)
  IN /\ status # "sealed"
     /\ UNCHANGED <<samples, readings, linkStatus>>
     /\ windows' = built
     /\ jumps' = jumps \cup found
     /\ \E unread \in SUBSET found : candidates' = ScoredBy(found, unread)
     /\ status' = NextStatus(found)

\* One that stops in BuildCtx leaves nothing if its DeleteIDs works.  A crash or a
\* failing DeleteIDs leaves, of the windows inserted up to there, those not deleted,
AnalyzeStopsAtBuild ==
  /\ status # "sealed"
  /\ \E first, last \in SlotsToBuild(samples, windows) :
       windows' = windows \cup {w \in Built : w.start >= first /\ w.start <= last}
  /\ UNCHANGED <<status, samples, readings, linkStatus, jumps, candidates>>

\* in DetectCtx its windows and the segments inserted before the one that failed,
AnalyzeStopsAtDetect ==
  LET built == Built
      found == Found(built)
  IN /\ status # "sealed"
     /\ windows' = built
     /\ \/ UNCHANGED jumps
        \/ \E failed \in found : jumps' = jumps \cup {seg \in found : seg.start < failed.start}
     /\ UNCHANGED <<status, samples, readings, linkStatus, candidates>>

\* in ScoreCtx also its segments, with the candidates of the earlier ones and, if
\* the process crashed or both cleanups failed, some of the one that failed,
AnalyzeStopsAtScore ==
  LET built == Built
      found == Found(built)
  IN /\ status # "sealed"
     /\ \E failed \in found, unread \in SUBSET found, kept \in FirstSources :
          candidates' = ScoredUpTo(found, failed, unread, kept)
     /\ windows' = built
     /\ jumps' = jumps \cup found
     /\ UNCHANGED <<status, samples, readings, linkStatus>>

\* before the verdict everything but the verdict, or a collecting clock's first move.
AnalyzeStopsAtStatus ==
  LET built == Built
      found == Found(built)
  IN /\ status # "sealed"
     /\ windows' = built
     /\ jumps' = jumps \cup found
     /\ \E unread \in SUBSET found : candidates' = ScoredBy(found, unread)
     /\ UNCHANGED status \/ (status = "collecting" /\ status' = "analyzing")
     /\ UNCHANGED <<samples, readings, linkStatus>>

\* Service.AttributeJump: scores a segment that has no candidates, in whole or up
\* to the row where it stops.
AttributeJump(seg) ==
  /\ \E unread \in SUBSET {seg} : candidates' = ScoredBy({seg}, unread)
  /\ UNCHANGED <<status, samples, readings, linkStatus, windows, jumps>>
AttributeJumpStops(seg) ==
  /\ candidates[seg.start] = {}
  /\ \E unread \in SUBSET {seg}, kept \in FirstSources :
       candidates' = ScoredUpTo({seg}, seg, unread, kept)
  /\ UNCHANGED <<status, samples, readings, linkStatus, windows, jumps>>

-----------------------------------------------------------------------------

Next == \/ \E u \in Uploads : IngestSample(u)
        \/ \E r \in Readings : IngestEnv(r)
        \/ \E l \in Links : UpsertLink(l)
        \/ \E l \in Links : \E to \in {"healthy", "isolated"} : LinkAction(l, to)
        \/ Analyze
        \/ AnalyzeStopsAtBuild \/ AnalyzeStopsAtDetect
        \/ AnalyzeStopsAtScore \/ AnalyzeStopsAtStatus
        \/ \E seg \in jumps : AttributeJump(seg) \/ AttributeJumpStops(seg)
        \/ SealClock

Spec == Init /\ [][Next]_vars

-----------------------------------------------------------------------------
(* Properties *)

\* A window counts and averages samples of its own minute, those that were
\* there when it was cut: samples on a boundary belong to the later window, and
\* late ones to none.
WindowsSummariseTheirSlot ==
  \A w \in windows :
    LET minute == {s \in samples : s.at >= w.start /\ s.at < w.start + Width}
    IN \E S \in SUBSET minute : S # {} /\ w.n = Cardinality(S) /\ w.mean = Mean(S)

\* A window is cut once: late samples, later analyses and seals change nothing
\* of it and add no second one (windowing.go:112).
WindowsFixed ==
  [][/\ windows \subseteq windows'
     /\ \A v, w \in windows' : v.start = w.start => v = w]_vars

\* The analysis that fills the last slot without a window compares each window it
\* cuts with the last stable one it cut before, the first of them with the newest
\* stable one there was, even if that is later in time: a window is a jump exactly
\* if it has enough samples and is noisy or off that one.
Precedes(v, w) == v.start < w.start
Cut == windows' \ windows
NoSlotLeft == Slots(samples) \subseteq {v.start : v \in windows'}
ReferenceOf(w, cut, rows) ==
  LET earlier == {v \in Stable(cut) : Precedes(v, w)}
  IN Newest(IF earlier = {} THEN Stable(rows) ELSE earlier)
ComparedWithLastStable ==
  [][\A w \in Cut : NoSlotLeft =>
       LET S == SamplesIn(w.start, samples)
       IN w.status = "jump" <=>
            /\ Cardinality(S) >= MinSamples
            /\ Noisy(S) \/ \E v \in ReferenceOf(w, Cut, windows) : Shifted(w.mean, {v.mean})]_vars

\* The maximal runs of jump windows, said without a scan: the windows from
\* first to last are jump windows and no jump window adjoins them.
Adjacent(v, w, rows) == Precedes(v, w) /\ \A u \in rows : ~(Precedes(v, u) /\ Precedes(u, w))
Between(first, last, rows) == {w \in rows : w.start >= first.start /\ w.start <= last.start}
Hits(rows) == {w \in rows : w.status = "jump"}
IsRun(first, last, rows) ==
  /\ first.start <= last.start
  /\ Between(first, last, rows) \subseteq Hits(rows)
  /\ \A w \in Hits(rows) : ~Adjacent(w, first, rows) /\ ~Adjacent(last, w, rows)
Runs(rows) == {run \in Hits(rows) \X Hits(rows) : IsRun(run[1], run[2], rows)}
Spans(segments) == {<<seg.start, seg.end>> : seg \in segments}
SpansOfRuns(runs) == {<<run[1].start, WindowEnd(run[2].start)>> : run \in runs}

\* The scan of DetectCtx inserts the maximal runs whose first window anchors no
\* segment, each with its whole span, the earlier first; a complete analysis
\* leaves none out.
DetectsMaximalRuns ==
  [][LET inserted == Spans(jumps' \ jumps)
         due == SpansOfRuns({run \in Runs(windows') : run[1].start \notin Anchors(jumps)})
     IN /\ jumps' # jumps =>
             /\ inserted \subseteq due
             /\ \A span \in inserted, other \in due \ inserted : span[1] < other[1]
        /\ inserted # due => ~Analyze]_vars

\* jumpdetect.go:4: a new segment is measured from the last stable window before
\* it: going from there by its magnitude in its direction ends among the means of
\* its windows.  With no such window, or next to no shift, it has the least
\* magnitude.
Level(seg, from) == Minus(from, IF seg.direction = "down" THEN seg.magnitude
                                ELSE Minus(Zero, seg.magnitude))
MeasuredFromLastStable ==
  [][\A seg \in jumps' \ jumps :
       LET run == {w \in windows' : w.start >= seg.start /\ w.start < seg.end}
           before == Newest({v \in Stable(windows') : v.start < seg.start})
       IN \/ seg.magnitude = MinMagnitude
          \/ \E v \in before, low, high \in run :
               /\ ~Exceeds(low.mean, Level(seg, v.mean))
               /\ ~Exceeds(Level(seg, v.mean), high.mean)]_vars

\* A segment blamed on the environment has two readings from its own period, a
\* minute either side, that differ in some quantity by more than its threshold.
EnvironmentScoreGrounded ==
  \A seg \in jumps : \A c \in candidates[seg.start] :
    c.source = "environment" /\ c.score # Zero =>
      \E r, s \in readings :
        /\ {r.at, s.at} \subseteq (seg.start - Margin)..(seg.end + Margin)
        /\ \E q \in Quantities : r[q] - s[q] > Swing[q]

\* attribution.go:8: weak evidence has a candidate of its own: the best candidate
\* reaches one half, or "insufficient" is listed with it.
Supported(rows) ==
  /\ rows # {}
  /\ \/ \E c \in rows : c.source = "insufficient"
     \/ \E c \in rows : ~Exceeds(Half, c.score)

\* Segments are scored in time order, each in full before the next and all of them
\* before the clock moves on: whatever scoring fails, no segment of the run with a
\* scored one after it, and none of a run that moved the clock, lacks support.
ScoredInOrder ==
  [][\A seg \in jumps' \ jumps :
       (\/ status' # status
        \/ \E later \in jumps' \ jumps : Precedes(seg, later) /\ candidates'[later.start] # {})
       => Supported(candidates'[seg.start])]_vars

-----------------------------------------------------------------------------
(* What documents and comments say and the code does not do *)

\* windowing.go:5, baseline.go:80: a window is a jump if it is noisy or its mean is
\* off the mean of the previous window; here for adjacent windows with enough
\* samples, cut later than all there were.
ComparedWithPrevious ==
  [][NoSlotLeft /\ (\A v \in windows, w \in Cut : Precedes(v, w)) =>
       \A w \in Cut, v \in windows' :
         /\ WindowEnd(v.start) = w.start
         /\ v.n >= MinSamples /\ w.n >= MinSamples
         => (w.status = "jump" <=> \/ Noisy(SamplesIn(w.start, samples))
                                   \/ Shifted(w.mean, {v.mean}))]_vars

\* README.md:10, model.go:146: consecutive jump windows are merged into one
\* segment, so after an analysis the segments are the maximal runs.
SegmentsAreRuns == [][Analyze => Spans(jumps') = SpansOfRuns(Runs(windows'))]_vars
=============================================================================
