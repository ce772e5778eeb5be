--------------------------- MODULE PipelineProofs ---------------------------
(***************************************************************************)
(* Proofs about Pipeline for every set of uploads, readings and links and  *)
(* all thresholds.                                                         *)
(***************************************************************************)
EXTENDS Pipeline, ValueProofs

-----------------------------------------------------------------------------
(* The inductive invariant *)

\* A stored sample is a reading Normalize accepted.
SamplesOK ==
  /\ IsFiniteSet(samples)
  /\ \A s \in samples : \E u \in Uploads : s.at = u.at /\ Accepted(u.hz) /\ s.offset = Offset(u.hz)

LinksOK == /\ linkStatus \in [Links -> LinkStatus \cup {"absent"}]
           /\ IsFiniteSet({l \in Links : linkStatus[l] # "absent"})

\* A window is of its slot and of samples that are still there.
WindowOK(w) ==
  /\ w.start \in Starts /\ w.n \in Nat \ {0} /\ w.mean \in Fraction
  /\ w.status \in {"stable", "jump", "gap"}
WindowsOK == /\ IsFiniteSet(windows) /\ UniqueStarts(windows)
             /\ \A w \in windows : WindowOK(w)
             /\ WindowsSummariseTheirSlot

\* One segment per anchor; candidates for segments only, rows of one scoring.
JumpsOK == UniqueStarts(jumps) /\ \A seg \in jumps : IsSegment(seg)
ScoredOK(start) ==
  candidates[start] # {} =>
    /\ start \in Anchors(jumps)
    /\ \E env, link \in Score : candidates[start] \subseteq Candidates(env, link)
CandidatesOK == /\ DOMAIN candidates = Starts
                /\ \A start \in Starts : ScoredOK(start)
                /\ EnvironmentScoreGrounded

IInv == /\ status \in ClockStatus /\ readings \subseteq Readings
        /\ SamplesOK /\ LinksOK /\ WindowsOK /\ JumpsOK /\ CandidatesOK

-----------------------------------------------------------------------------
(* The kinds of step *)

\* An analysis that stops while it builds leaves some of the windows,
Builds == /\ windows \subseteq windows' /\ windows' \subseteq windows \cup Built
          /\ UNCHANGED <<status, samples, readings, linkStatus, jumps, candidates>>

\* a later one all of them, with none of what it found, all of it or what is earlier
\* than the segment it fails at; only with all of it does it score, in whole or up
\* to a segment, and only after the whole does the clock move.
Writes(inserted) ==
  LET found == Found(Built)
  IN /\ windows' = Built
     /\ inserted \subseteq found
     /\ \/ inserted \in {{}, found}
        \/ \E failed \in found : inserted = {seg \in found : seg.start < failed.start}
     /\ jumps' = jumps \cup inserted
     /\ UNCHANGED <<samples, readings, linkStatus>>
     /\ \/ UNCHANGED <<candidates, status>>
        \/ /\ inserted = found
           /\ \E unread : candidates' = ScoredBy(found, unread)
           /\ status' \in {status, "analyzing", NextStatus(found)}
        \/ /\ inserted = found
           /\ UNCHANGED status
           /\ \E failed \in found : \E unread, kept :
                candidates' = ScoredUpTo(found, failed, unread, kept)

\* AttributeJump scores one segment, in whole or, if it has no candidates, in part.
Attributes(seg) ==
  /\ seg \in jumps
  /\ \/ \E unread : candidates' = ScoredBy({seg}, unread)
     \/ /\ candidates[seg.start] = {}
        /\ \E unread, kept : candidates' = ScoredUpTo({seg}, seg, unread, kept)
  /\ UNCHANGED <<status, samples, readings, linkStatus, windows, jumps>>

\* A step of a client leaves what analyses wrote.
Request == UNCHANGED results

\* Every step is of one of these kinds.
LEMMA StepKinds ==
  ASSUME Next
  PROVE  \/ Builds
         \/ \E inserted : Writes(inserted)
         \/ \E seg : Attributes(seg)
         \/ Request /\ \E u \in Uploads : IngestSample(u)
         \/ Request /\ UNCHANGED samples /\ \E r \in Readings : IngestEnv(r)
         \/ Request /\ UNCHANGED samples /\ \E l \in Links : UpsertLink(l)
         \/ Request /\ UNCHANGED samples
              /\ \E l \in Links : \E to \in {"healthy", "isolated"} : LinkAction(l, to)
         \/ Request /\ UNCHANGED samples /\ SealClock
<1> DEFINE found == Found(Built)
<1>1. CASE Analyze
  <2>1. Writes(found)
    BY <1>1 DEF Analyze, Writes
  <2> QED BY <2>1
<1>2. CASE AnalyzeStopsAtBuild
  <2>1. windows \subseteq windows' /\ windows' \subseteq windows \cup Built
    BY <1>2 DEF AnalyzeStopsAtBuild
  <2> QED BY <1>2, <2>1 DEF AnalyzeStopsAtBuild, Builds
<1>3. CASE AnalyzeStopsAtDetect
  <2>1. CASE UNCHANGED jumps
    <3>1. Writes({})
      BY <1>3, <2>1 DEF AnalyzeStopsAtDetect, Writes
    <3> QED BY <3>1
  <2>2. CASE \E failed \in found : jumps' = jumps \cup {seg \in found : seg.start < failed.start}
    <3>1. PICK failed \in found : jumps' = jumps \cup {seg \in found : seg.start < failed.start}
      BY <2>2
    <3>2. Writes({seg \in found : seg.start < failed.start})
      BY <1>3, <3>1 DEF AnalyzeStopsAtDetect, Writes
    <3> QED BY <3>2
  <2> QED BY <1>3, <2>1, <2>2 DEF AnalyzeStopsAtDetect
<1>4. CASE AnalyzeStopsAtScore
  <2>1. PICK failed \in found, unread \in SUBSET found, kept \in FirstSources :
          candidates' = ScoredUpTo(found, failed, unread, kept)
    BY <1>4 DEF AnalyzeStopsAtScore
  <2>2. Writes(found)
    BY <1>4, <2>1 DEF AnalyzeStopsAtScore, Writes
  <2> QED BY <2>2
<1>5. CASE AnalyzeStopsAtStatus
  <2>1. Writes(found)
    BY <1>5 DEF AnalyzeStopsAtStatus, Writes
  <2> QED BY <2>1
<1>6. CASE \E u \in Uploads : IngestSample(u)
  BY <1>6 DEF IngestSample, Request
<1>7. CASE \E r \in Readings : IngestEnv(r)
  BY <1>7 DEF IngestEnv, Request
<1>8. CASE \E l \in Links : UpsertLink(l)
  BY <1>8 DEF UpsertLink, Request
<1>9. CASE \E l \in Links : \E to \in {"healthy", "isolated"} : LinkAction(l, to)
  BY <1>9 DEF LinkAction, Request
<1>10. CASE SealClock
  BY <1>10 DEF SealClock, Request
<1>11. ASSUME NEW seg \in jumps, AttributeJump(seg) \/ AttributeJumpStops(seg)
       PROVE  Attributes(seg)
  BY <1>11 DEF AttributeJump, AttributeJumpStops, Attributes
<1> QED BY <1>1, <1>2, <1>3, <1>4, <1>5, <1>6, <1>7, <1>8, <1>9, <1>10, <1>11 DEF Next

-----------------------------------------------------------------------------
(* What is true of stored values *)

\* Samples are integers within the unit tolerance.
LEMMA SampleTypes ==
  ASSUME SamplesOK
  PROVE  /\ IsFiniteSet(samples)
         /\ \A s \in samples : /\ s.at \in Int /\ s.offset \in Int
                               /\ 20 * Distance(s.offset, 0) <= OffsetScale
                               /\ WindowStart(s.at) \in Starts
<1> SUFFICES ASSUME NEW s \in samples
             PROVE  /\ s.at \in Int /\ s.offset \in Int
                    /\ 20 * Distance(s.offset, 0) <= OffsetScale
                    /\ WindowStart(s.at) \in Starts
  BY DEF SamplesOK
<1>1. PICK u \in Uploads : s.at = u.at /\ Accepted(u.hz) /\ s.offset = Offset(u.hz)
  BY DEF SamplesOK
<1>2. u.at \in Int /\ u.hz \in Int
  BY PipelineAssumption
<1>3. Offset(u.hz) \in Int /\ 20 * Distance(Offset(u.hz), 0) <= OffsetScale
  BY <1>1, <1>2, OffsetType
<1>4. WindowStart(u.at) \in Starts
  BY DEF Starts
<1> QED BY <1>1, <1>2, <1>3, <1>4

\* Windows start on the grid.
LEMMA StartTypes == \A start \in Starts : start \in Int /\ OnGrid(start)
BY PipelineAssumption, SlotOf DEF Starts

\* The windows an analysis leaves, and those it adds.
LEMMA BuiltOK ==
  ASSUME SamplesOK, WindowsOK
  PROVE  /\ IsFiniteSet(Built) /\ UniqueStarts(Built) /\ windows \subseteq Built
         /\ \A w \in Built : WindowOK(w)
         /\ \A w \in Built \ windows :
              /\ w.start \in SlotsToBuild(samples, windows)
              /\ LET S == SamplesIn(w.start, samples)
                 IN  /\ S \subseteq samples /\ S # {} /\ w.n = Cardinality(S) /\ w.mean = Mean(S)
                     /\ \A s \in S : s.at >= w.start /\ s.at < w.start + Width
<1>1. IsFiniteSet(samples) /\ \A s \in samples : s.at \in Int /\ s.offset \in Int
  BY SampleTypes
<1>2. BuiltRows(SlotsToBuild(samples, windows), Built, samples, windows)
  BY <1>1, BuildRows DEF Built
<1>3. IsFiniteSet(Built) /\ UniqueStarts(Built) /\ windows \subseteq Built
  BY <1>2 DEF BuiltRows, WindowsOK
<1>4. ASSUME NEW w \in Built \ windows
      PROVE  /\ WindowOK(w) /\ w.start \in SlotsToBuild(samples, windows)
             /\ LET S == SamplesIn(w.start, samples)
                IN  /\ S \subseteq samples /\ S # {} /\ w.n = Cardinality(S) /\ w.mean = Mean(S)
                    /\ \A s \in S : s.at >= w.start /\ s.at < w.start + Width
  <2>1. PICK p : w = NewWindow(w.start, samples, p)
    BY <1>2 DEF BuiltRows
  <2>2. w.start \in SlotsToBuild(samples, windows)
    BY <1>2 DEF BuiltRows
  <2>3. w.start \in Slots(samples)
    BY <2>2 DEF SlotsToBuild
  <2>4. w.start \in Starts
    BY <2>3, SampleTypes DEF Slots
  <2>5. /\ w.n \in Nat \ {0} /\ w.mean \in Fraction
        /\ w.status \in {"stable", "jump", "gap"}
        /\ LET S == SamplesIn(w.start, samples)
           IN  /\ S \subseteq samples /\ S # {} /\ w.n = Cardinality(S) /\ w.mean = Mean(S)
               /\ \A s \in S : s.at >= w.start /\ s.at < w.start + Width
    BY <1>1, <2>1, <2>3, WindowType
  <2> QED BY <2>2, <2>4, <2>5 DEF WindowOK
<1>5. \A w \in windows : WindowOK(w)
  BY DEF WindowsOK
<1> QED BY <1>3, <1>4, <1>5

\* The segments an analysis finds.
LEMMA FoundOK ==
  ASSUME SamplesOK, WindowsOK
  PROVE  /\ UniqueStarts(Found(Built))
         /\ \A seg \in Found(Built) : IsSegment(seg) /\ seg.start \notin Anchors(jumps)
<1>1. /\ IsFiniteSet(Built) /\ UniqueStarts(Built)
      /\ \A w \in Built : w.start \in Starts /\ w.start \in Int /\ w.mean \in Fraction
  BY BuiltOK, StartTypes DEF WindowOK
<1>2. /\ \A seg \in Found(Built) :
           /\ seg.start \notin Anchors(jumps)
           /\ \E run \in SUBSET Built : \E st :
                run # {} /\ Reference(st, Built) /\ seg = Segment(run, st)
      /\ UniqueStarts(Found(Built))
  BY <1>1, DetectRows DEF Found
<1>3. ASSUME NEW seg \in Found(Built) PROVE IsSegment(seg)
  <2>1. PICK run \in SUBSET Built : \E st :
               run # {} /\ Reference(st, Built) /\ seg = Segment(run, st)
    BY <1>2
  <2>2. PICK st : run # {} /\ Reference(st, Built) /\ seg = Segment(run, st)
    BY <2>1
  <2>3. IsFiniteSet(run) /\ \A w \in run : w.start \in Int /\ w.mean \in Fraction
    BY <1>1, FS_Subset
  <2>4. st \in SUBSET Fraction
    BY <1>1, <2>2 DEF Reference
  <2>5. /\ \E w \in run : seg.start = w.start
        /\ seg.end \in Int /\ seg.end > seg.start
        /\ IsFrac(seg.magnitude) /\ seg.magnitude.num > 0
        /\ seg.direction \in {"up", "down"}
    BY <2>2, <2>3, <2>4, SegmentType
  <2> QED BY <1>1, <2>5 DEF IsSegment
<1> QED BY <1>2, <1>3

-----------------------------------------------------------------------------
(* The invariant holds initially and every step keeps it *)

LEMMA InitOK == Init => IInv
<1> SUFFICES ASSUME Init PROVE IInv
  OBVIOUS
<1> USE DEF Init
<1>1. status \in ClockStatus /\ readings \subseteq Readings
  BY DEF ClockStatus
<1>2. SamplesOK
  BY FS_EmptySet DEF SamplesOK
<1>3. LinksOK
  <2>1. {l \in Links : linkStatus[l] # "absent"} = {}
    OBVIOUS
  <2> QED BY <2>1, FS_EmptySet DEF LinksOK
<1>4. WindowsOK
  BY FS_EmptySet DEF WindowsOK, UniqueStarts, WindowsSummariseTheirSlot
<1>5. JumpsOK
  BY DEF JumpsOK, UniqueStarts
<1>6. CandidatesOK
  BY DEF CandidatesOK, ScoredOK, EnvironmentScoreGrounded
<1> QED BY <1>1, <1>2, <1>3, <1>4, <1>5, <1>6 DEF IInv

\* An accepted upload is a sample; nothing else touches samples.
LEMMA SamplesStep ==
  ASSUME SamplesOK, Next
  PROVE  SamplesOK' /\ samples \subseteq samples'
<1>1. CASE \E u \in Uploads : IngestSample(u)
  <2>1. PICK u \in Uploads : IngestSample(u)
    BY <1>1
  <2>2. samples' = samples \cup {[at |-> u.at, offset |-> Offset(u.hz)]} /\ Accepted(u.hz)
    BY <2>1 DEF IngestSample
  <2>3. IsFiniteSet(samples')
    BY <2>2, FS_AddElement DEF SamplesOK
  <2> QED BY <2>2, <2>3 DEF SamplesOK
<1>2. CASE UNCHANGED samples
  BY <1>2 DEF SamplesOK
<1> QED BY <1>1, <1>2, StepKinds DEF Builds, Writes, Attributes

\* Finitely many links exist, with a legal status.
LEMMA LinksStep ==
  ASSUME LinksOK, Next
  PROVE  LinksOK'
<1> DEFINE listed == {l \in Links : linkStatus[l] # "absent"}
<1>1. ASSUME NEW l \in Links, NEW to \in LinkStatus, linkStatus' = [linkStatus EXCEPT ![l] = to]
      PROVE  LinksOK'
  <2>1. to # "absent"
    BY DEF LinkStatus
  <2>2. listed' = listed \cup {l}
    BY <1>1, <2>1 DEF LinksOK
  <2>3. IsFiniteSet(listed)
    BY DEF LinksOK
  <2> HIDE DEF listed
  <2>4. IsFiniteSet(listed')
    BY <2>2, <2>3, FS_AddElement
  <2>5. linkStatus' \in [Links -> LinkStatus \cup {"absent"}]
    BY <1>1 DEF LinksOK
  <2> QED BY <2>4, <2>5 DEF LinksOK, listed
<1>2. CASE UNCHANGED linkStatus
  BY <1>2 DEF LinksOK
<1>3. CASE \E l \in Links : UpsertLink(l)
  <2>1. "healthy" \in LinkStatus
    BY DEF LinkStatus
  <2> QED BY <1>1, <1>3, <2>1 DEF UpsertLink
<1>4. CASE \E l \in Links : \E to \in {"healthy", "isolated"} : LinkAction(l, to)
  <2>1. {"healthy", "isolated"} \subseteq LinkStatus
    BY DEF LinkStatus
  <2> QED BY <1>1, <1>4, <2>1 DEF LinkAction
<1> QED BY <1>2, <1>3, <1>4, StepKinds
    DEF Builds, Writes, Attributes, IngestSample, IngestEnv, SealClock

\* Status and readings stay within their types, readings are only added.
LEMMA StatusStep ==
  ASSUME status \in ClockStatus, readings \subseteq Readings, Next
  PROVE  status' \in ClockStatus /\ readings' \subseteq Readings /\ readings \subseteq readings'
<1>1. NextStatus(Found(Built)) \in ClockStatus /\ "analyzing" \in ClockStatus /\ "sealed" \in ClockStatus
  BY DEF NextStatus, Verdict, ClockStatus
<1> QED BY <1>1, StepKinds
    DEF Builds, Writes, Attributes, IngestSample, IngestEnv, UpsertLink, LinkAction, SealClock

\* Windows stay as they are; new ones summarise the samples of their minute.
LEMMA WindowsStep ==
  ASSUME SamplesOK, WindowsOK, Next
  PROVE  WindowsOK' /\ windows \subseteq windows' /\ windows' \subseteq Built
<1> DEFINE Slot(w, rows) == {s \in rows : s.at >= w.start /\ s.at < w.start + Width}
           Summary(w, rows) == \E S \in SUBSET Slot(w, rows) :
                                 S # {} /\ w.n = Cardinality(S) /\ w.mean = Mean(S)
<1>1. \A w \in windows : Summary(w, samples)
  BY DEF WindowsOK, WindowsSummariseTheirSlot
<1>2. samples \subseteq samples'
  BY SamplesStep
<1>3. ASSUME NEW w, Summary(w, samples) PROVE Summary(w, samples')
  <2>1. SUBSET Slot(w, samples) \subseteq SUBSET Slot(w, samples')
    BY <1>2
  <2> HIDE DEF Slot
  <2> QED BY <1>3, <2>1
<1>4. /\ IsFiniteSet(Built) /\ UniqueStarts(Built) /\ windows \subseteq Built
      /\ \A w \in Built : WindowOK(w)
  BY BuiltOK
<1>5. ASSUME NEW w \in Built \ windows PROVE Summary(w, samples)
  <2> DEFINE S == SamplesIn(w.start, samples)
  <2>1. /\ S \subseteq samples /\ S # {} /\ w.n = Cardinality(S) /\ w.mean = Mean(S)
        /\ \A s \in S : s.at >= w.start /\ s.at < w.start + Width
    BY BuiltOK
  <2> HIDE DEF S
  <2>2. S \in SUBSET Slot(w, samples)
    BY <2>1
  <2> HIDE DEF Slot
  <2> QED BY <2>1, <2>2
<1>6. windows \subseteq windows' /\ windows' \subseteq Built
  BY <1>4, StepKinds DEF Builds, Writes, Attributes, Request, results
<1>7. \A w \in windows' : Summary(w, samples')
  BY <1>1, <1>3, <1>5, <1>6
<1>8. IsFiniteSet(windows') /\ UniqueStarts(windows') /\ \A w \in windows' : WindowOK(w)
  BY <1>4, <1>6, FS_Subset DEF UniqueStarts
<1> QED BY <1>6, <1>7, <1>8 DEF WindowsOK, UniqueStarts, WindowsSummariseTheirSlot, WindowOK

\* Segments are only added, each at an anchor of its own.
LEMMA JumpsStep ==
  ASSUME SamplesOK, WindowsOK, JumpsOK, Next
  PROVE  JumpsOK' /\ jumps \subseteq jumps'
<1>1. CASE jumps' = jumps
  BY <1>1 DEF JumpsOK, UniqueStarts, IsSegment
<1>2. CASE \E new \in SUBSET Found(Built) : jumps' = jumps \cup new
  <2>1. PICK new \in SUBSET Found(Built) : jumps' = jumps \cup new
    BY <1>2
  <2>2. UniqueStarts(new) /\ \A seg \in new : IsSegment(seg) /\ seg.start \notin Anchors(jumps)
    BY FoundOK DEF UniqueStarts
  <2>3. UniqueStarts(jumps')
    BY <2>1, <2>2 DEF JumpsOK, UniqueStarts, Anchors
  <2>4. \A seg \in jumps' : IsSegment(seg)
    BY <2>1, <2>2 DEF JumpsOK
  <2> QED BY <2>1, <2>3, <2>4 DEF JumpsOK, UniqueStarts, IsSegment
<1> QED BY <1>1, <1>2, StepKinds DEF Builds, Writes, Attributes, Request, results

\* An analysis sees finitely many links.
LEMMA LinksFinite == LinksOK => IsFiniteSet(ListLinks)
<1> SUFFICES ASSUME LinksOK PROVE IsFiniteSet(ListLinks)
  OBVIOUS
<1> DEFINE listed == {l \in Links : linkStatus[l] # "absent"}
           f == [l \in listed |-> [link |-> l, status |-> linkStatus[l]]]
<1>1. f \in Surjection(listed, ListLinks)
  BY DEF Surjection, ListLinks
<1>2. IsFiniteSet(listed)
  BY DEF LinksOK
<1> QED BY <1>1, <1>2, FS_Surjection

\* The candidates ScoreCtx computes for a segment, from all readings or none.
Evidence(seg) ==
  \E r, s \in readings :
    /\ {r.at, s.at} \subseteq (seg.start - Margin)..(seg.end + Margin)
    /\ \E q \in Quantities : r[q] - s[q] > Swing[q]
LEMMA ScoredRows ==
  ASSUME LinksOK, readings \subseteq Readings, NEW seg, IsSegment(seg), NEW heard \in SUBSET readings
  PROVE  \E env, link \in Score :
           /\ ScoreSegment(seg, heard, ListLinks) = Candidates(env, link)
           /\ env # Zero => Evidence(seg)
<1> DEFINE near == EnvRange(seg, heard)
           env == EnvironmentCoherence(near)
           link == LinkCoherence(ListLinks)
<1>1. ScoreSegment(seg, heard, ListLinks) = Candidates(env, link)
  BY DEF ScoreSegment
<1>2. env \in Score /\ link \in Score
  BY EnvironmentScore, LinkScore, LinksFinite
<1>3. ASSUME env # Zero PROVE Evidence(seg)
  <2>1. PICK r \in near, s \in near : \E q \in Quantities : r[q] - s[q] > Swing[q]
    BY <1>3, EnvironmentEvidence
  <2>2. seg.start \in Int /\ seg.end \in Int /\ Margin \in Int
    BY StartTypes, AttributionAssumption DEF IsSegment
  <2>3. \A x \in near : x \in readings /\ x.at \in (seg.start - Margin)..(seg.end + Margin)
    BY <2>2, PipelineAssumption DEF EnvRange
  <2> HIDE DEF near
  <2> QED BY <2>1, <2>3 DEF Evidence
<1> HIDE DEF env, link
<1> QED BY <1>1, <1>2, <1>3

\* A scoring of the segments in E computes the candidates of those without any,
IsScoring(rows, seg) ==
  \E heard \in SUBSET readings : rows = ScoreSegment(seg, heard, ListLinks)
LEMMA ScoredByRows ==
  ASSUME NEW E, NEW unread, NEW start \in Starts
  PROVE  /\ DOMAIN ScoredBy(E, unread) = Starts
         /\ start \in Anchors(E) /\ candidates[start] = {} =>
              \E seg \in E : seg.start = start /\ IsScoring(ScoredBy(E, unread)[start], seg)
         /\ ~ (start \in Anchors(E) /\ candidates[start] = {}) =>
              ScoredBy(E, unread)[start] = candidates[start]
<1> DEFINE seg == CHOOSE t \in E : t.start = start
<1>1. ASSUME start \in Anchors(E) PROVE seg \in E /\ seg.start = start
  BY <1>1 DEF Anchors
<1>2. ScoredBy(E, unread)[start] = IF start \in Anchors(E) THEN Scored(seg, unread) ELSE candidates[start]
  BY DEF ScoredBy
<1> HIDE DEF seg
<1>3. ASSUME start \in Anchors(E), candidates[start] = {} PROVE IsScoring(Scored(seg, unread), seg)
  BY <1>1, <1>3 DEF Scored, IsScoring
<1>4. ASSUME start \in Anchors(E), candidates[start] # {} PROVE Scored(seg, unread) = candidates[start]
  BY <1>1, <1>4 DEF Scored
<1> QED BY <1>1, <1>2, <1>3, <1>4 DEF ScoredBy

\* one that stops at a segment those of the earlier ones, and part of its own.
LEMMA ScoredUpToRows ==
  ASSUME NEW E, NEW failed \in E, failed.start \in Starts, candidates[failed.start] = {},
         NEW unread, NEW kept, NEW past, past = ScoredUpTo(E, failed, unread, kept),
         NEW start \in Starts
  PROVE  /\ \/ past[start] = candidates[start]
            \/ /\ candidates[start] = {}
               /\ \E seg \in E : /\ seg.start = start
                                 /\ \E rows : IsScoring(rows, seg) /\ past[start] \subseteq rows
         /\ candidates[start] = {} /\ past[start] # {} => start <= failed.start \/ start = failed.start
         /\ /\ \E seg \in E : seg.start = start
            /\ start <= failed.start /\ start # failed.start /\ candidates[start] = {}
            => \E seg \in E : seg.start = start /\ IsScoring(past[start], seg)
<1> DEFINE early == {seg \in E : seg.start <= failed.start}
           by == ScoredBy(early, unread)
<1>0. /\ early = {seg \in E : seg.start <= failed.start}
      /\ past = [by EXCEPT ![failed.start] = {c \in @ : c.source \in kept}]
  BY DEF ScoredUpTo
<1> HIDE DEF early
<1>1. /\ DOMAIN by = Starts
      /\ start \in Anchors(early) /\ candidates[start] = {} =>
           \E seg \in early : seg.start = start /\ IsScoring(by[start], seg)
      /\ ~ (start \in Anchors(early) /\ candidates[start] = {}) => by[start] = candidates[start]
  BY ScoredByRows
<1>2. start \in Anchors(early) <=> \E seg \in E : seg.start = start /\ start <= failed.start
  BY <1>0 DEF Anchors
<1> HIDE DEF by
<1>3. start # failed.start => past[start] = by[start]
  BY <1>0, <1>1
<1>4. start = failed.start => past[start] \subseteq by[start]
  BY <1>0, <1>1
<1>5. \/ past[start] = candidates[start]
      \/ /\ candidates[start] = {}
         /\ \E seg \in E : /\ seg.start = start
                           /\ \E rows : IsScoring(rows, seg) /\ past[start] \subseteq rows
  <2>1. CASE start \in Anchors(early) /\ candidates[start] = {}
    <3>1. PICK seg \in early : seg.start = start /\ IsScoring(by[start], seg)
      BY <1>1, <2>1
    <3>2. seg \in E /\ past[start] \subseteq by[start]
      BY <1>0, <1>3, <1>4
    <3> QED BY <2>1, <3>1, <3>2
  <2>2. CASE ~ (start \in Anchors(early) /\ candidates[start] = {})
    <3>1. by[start] = candidates[start]
      BY <1>1, <2>2
    <3>2. start = failed.start => past[start] = {} /\ candidates[start] = {}
      BY <1>4, <3>1
    <3> QED BY <1>3, <3>1, <3>2
  <2> QED BY <2>1, <2>2
<1>6. candidates[start] = {} /\ past[start] # {} => start <= failed.start \/ start = failed.start
  BY <1>1, <1>2, <1>3
<1>7. ASSUME \E seg \in E : seg.start = start,
             start <= failed.start, start # failed.start, candidates[start] = {}
      PROVE  \E seg \in E : seg.start = start /\ IsScoring(past[start], seg)
  <2>1. PICK seg \in early : seg.start = start /\ IsScoring(by[start], seg)
    BY <1>1, <1>2, <1>7
  <2>2. seg \in E
    BY <1>0
  <2> QED BY <1>3, <1>7, <2>1, <2>2
<1> QED BY <1>5, <1>6, <1>7

\* What a step does to candidates: it leaves those there are, and adds rows of
\* scorings of segments.
Rescored ==
  /\ DOMAIN candidates' = Starts
  /\ \A start \in Starts :
       \/ candidates'[start] = candidates[start]
       \/ /\ candidates[start] = {}
          /\ \E seg \in jumps' : /\ seg.start = start
                                 /\ \E rows : IsScoring(rows, seg) /\ candidates'[start] \subseteq rows

\* The segments an analysis inserts have no candidates before.
LEMMA FoundUnscored ==
  ASSUME IInv
  PROVE  \A seg \in Found(Built) : seg.start \in Starts /\ candidates[seg.start] = {}
BY FoundOK DEF IInv, CandidatesOK, ScoredOK, IsSegment

\* Every step does that.
LEMMA RescoredStep ==
  ASSUME IInv, Next
  PROVE  Rescored
<1>1. ASSUME candidates' = candidates PROVE Rescored
  BY <1>1 DEF Rescored, IInv, CandidatesOK
<1>2. ASSUME NEW E, E \subseteq jumps', NEW unread, candidates' = ScoredBy(E, unread) PROVE Rescored
  <2>1. DOMAIN candidates' = Starts
    BY <1>2 DEF ScoredBy
  <2>2. ASSUME NEW start \in Starts
        PROVE  \/ candidates'[start] = candidates[start]
               \/ /\ candidates[start] = {}
                  /\ \E seg \in jumps' : /\ seg.start = start
                                         /\ \E rows : IsScoring(rows, seg) /\ candidates'[start] \subseteq rows
    <3>1. CASE start \in Anchors(E) /\ candidates[start] = {}
      <4>1. PICK seg \in E : seg.start = start /\ IsScoring(candidates'[start], seg)
        BY <1>2, <3>1, ScoredByRows
      <4> QED BY <1>2, <3>1, <4>1
    <3>2. CASE ~ (start \in Anchors(E) /\ candidates[start] = {})
      BY <1>2, <3>2, ScoredByRows
    <3> QED BY <3>1, <3>2
  <2> QED BY <2>1, <2>2 DEF Rescored
<1>3. ASSUME NEW E, E \subseteq jumps', NEW failed \in E, failed.start \in Starts,
             candidates[failed.start] = {}, NEW unread, NEW kept,
             candidates' = ScoredUpTo(E, failed, unread, kept)
      PROVE  Rescored
  <2>1. DOMAIN candidates' = Starts
    BY <1>3 DEF ScoredUpTo, ScoredBy
  <2>2. ASSUME NEW start \in Starts
        PROVE  \/ candidates'[start] = candidates[start]
               \/ /\ candidates[start] = {}
                  /\ \E seg \in E : /\ seg.start = start
                                    /\ \E rows : IsScoring(rows, seg) /\ candidates'[start] \subseteq rows
    BY <1>3, ScoredUpToRows
  <2> QED BY <1>3, <2>1, <2>2 DEF Rescored
<1>4. ASSUME NEW inserted, Writes(inserted) PROVE Rescored
  <2>1. Found(Built) \subseteq jumps' \/ candidates' = candidates
    BY <1>4 DEF Writes
  <2> QED BY <1>1, <1>2, <1>3, <1>4, <2>1, FoundUnscored DEF Writes
<1>5. ASSUME NEW seg, Attributes(seg) PROVE Rescored
  <2>1. {seg} \subseteq jumps' /\ seg.start \in Starts
    BY <1>5 DEF Attributes, IInv, JumpsOK, IsSegment
  <2> QED BY <1>2, <1>3, <1>5, <2>1 DEF Attributes
<1> QED BY <1>1, <1>4, <1>5, StepKinds DEF Builds, Request, results

\* So candidates stay rows of one scoring of their segment.
LEMMA CandidatesStep ==
  ASSUME IInv, Next
  PROVE  CandidatesOK'
<1>1. JumpsOK' /\ jumps \subseteq jumps' /\ readings \subseteq readings'
  BY JumpsStep, StatusStep DEF IInv
<1>2. LinksOK /\ readings \subseteq Readings /\ CandidatesOK
  BY DEF IInv
<1>3. Rescored
  BY RescoredStep
<1>4. ASSUME NEW seg \in jumps', NEW rows, IsScoring(rows, seg)
      PROVE  \E env, link \in Score : rows = Candidates(env, link) /\ (env # Zero => Evidence(seg))
  <2>1. IsSegment(seg)
    BY <1>1 DEF JumpsOK, IsSegment
  <2> QED BY <1>2, <1>4, <2>1, ScoredRows DEF IsScoring
<1>5. ASSUME NEW start \in Starts PROVE ScoredOK(start)'
  <2>1. CASE candidates'[start] = candidates[start]
    BY <1>1, <1>2, <2>1 DEF CandidatesOK, ScoredOK, Anchors
  <2>2. CASE candidates'[start] # candidates[start]
    <3>1. PICK seg \in jumps' : /\ seg.start = start
                                /\ \E rows : IsScoring(rows, seg) /\ candidates'[start] \subseteq rows
      BY <1>3, <2>2 DEF Rescored
    <3>2. \E env, link \in Score : candidates'[start] \subseteq Candidates(env, link)
      BY <1>4, <3>1
    <3>3. start \in Anchors(jumps')
      BY <3>1 DEF Anchors
    <3> QED BY <3>2, <3>3 DEF ScoredOK
  <2> QED BY <2>1, <2>2
<1>6. ASSUME NEW seg \in jumps', NEW c \in candidates'[seg.start],
             c.source = "environment", c.score # Zero
      PROVE  Evidence(seg)
  <2>1. seg.start \in Starts
    BY <1>1 DEF JumpsOK, IsSegment
  <2>2. CASE candidates'[seg.start] = candidates[seg.start]
    <3>1. seg \in jumps
      <4>1. PICK old \in jumps : old.start = seg.start
        BY <1>2, <1>6, <2>1, <2>2 DEF CandidatesOK, ScoredOK, Anchors
      <4> QED BY <1>1, <4>1 DEF JumpsOK, UniqueStarts
    <3> QED BY <1>2, <1>6, <2>2, <3>1 DEF CandidatesOK, EnvironmentScoreGrounded, Evidence
  <2>3. CASE candidates'[seg.start] # candidates[seg.start]
    <3>1. PICK scored \in jumps' : /\ scored.start = seg.start
                                   /\ \E rows : IsScoring(rows, scored) /\ candidates'[seg.start] \subseteq rows
      BY <1>3, <2>1, <2>3 DEF Rescored
    <3>2. scored = seg
      BY <1>1, <3>1 DEF JumpsOK, UniqueStarts
    <3>3. PICK env \in Score, link \in Score :
            c \in Candidates(env, link) /\ (env # Zero => Evidence(seg))
      BY <1>4, <1>6, <3>1, <3>2
    <3>4. c.score = env
      BY <1>6, <3>3, CandidateRows
    <3> QED BY <1>6, <3>3, <3>4
  <2> QED BY <2>2, <2>3
<1>7. EnvironmentScoreGrounded'
  BY <1>1, <1>6 DEF EnvironmentScoreGrounded, Evidence
<1> QED BY <1>3, <1>5, <1>7 DEF CandidatesOK, Rescored

\* The invariant is inductive.
LEMMA NextOK == IInv /\ [Next]_vars => IInv'
<1> SUFFICES ASSUME IInv, [Next]_vars PROVE IInv'
  OBVIOUS
<1>1. CASE Next
  <2>1. /\ status \in ClockStatus /\ readings \subseteq Readings
        /\ SamplesOK /\ LinksOK /\ WindowsOK /\ JumpsOK
    BY DEF IInv
  <2> QED BY <1>1, <2>1, SamplesStep, LinksStep, StatusStep, WindowsStep, JumpsStep, CandidatesStep DEF IInv
<1>2. CASE UNCHANGED vars
  BY <1>2 DEF vars, results, IInv, SamplesOK, LinksOK, WindowsOK, WindowOK, UniqueStarts,
              WindowsSummariseTheirSlot, JumpsOK, IsSegment, CandidatesOK, ScoredOK,
              EnvironmentScoreGrounded, Anchors
<1> QED BY <1>1, <1>2

LEMMA Invariance == Spec => []IInv
<1>1. Init => IInv
  BY InitOK
<1>2. IInv /\ [Next]_vars => IInv'
  BY NextOK
<1> QED BY <1>1, <1>2, PTL DEF Spec

-----------------------------------------------------------------------------
(* Theorems: what the runs check as invariants *)

\* Every row an analysis writes is of its type, whatever the thresholds: offsets
\* within the unit tolerance, windows of at least one sample, segments of
\* positive length and magnitude, scores between 0 and 1.
THEOREM TypeCorrect == Spec => []TypeOK
<1>1. IInv => TypeOK
  <2> SUFFICES ASSUME IInv PROVE TypeOK
    OBVIOUS
  <2>1. \A s \in samples : s.at \in Int /\ 20 * Distance(s.offset, 0) <= OffsetScale
    BY SampleTypes DEF IInv
  <2>2. \A w \in windows : IsWindow(w)
    BY DEF IInv, WindowsOK, WindowOK, IsWindow, IsFrac, Fraction
  <2>3. ASSUME NEW start \in Starts, NEW c \in candidates[start] PROVE IsCandidate(c)
    <3>1. PICK env \in Score, link \in Score : candidates[start] \subseteq Candidates(env, link)
      BY <2>3 DEF IInv, CandidatesOK, ScoredOK
    <3>2. c.source \in Sources /\ c.score \in Score
      BY <3>1, CandidateRows
    <3> QED BY <3>2 DEF IsCandidate, IsFrac, Score, Fraction
  <2> QED BY <2>1, <2>2, <2>3 DEF IInv, LinksOK, JumpsOK, CandidatesOK, TypeOK
<1> QED BY <1>1, Invariance, PTL

\* BuildCtx: a window counts and averages samples of its own minute only, and
\* keeps doing so while late samples arrive.
THEOREM WindowsSummarise == Spec => []WindowsSummariseTheirSlot
<1>1. IInv => WindowsSummariseTheirSlot
  BY DEF IInv, WindowsOK
<1> QED BY <1>1, Invariance, PTL

\* ScoreCtx: a segment is blamed on the environment only with two readings from
\* around it that differ by more than a threshold.
THEOREM EnvironmentGrounded == Spec => []EnvironmentScoreGrounded
<1>1. IInv => EnvironmentScoreGrounded
  BY DEF IInv, CandidatesOK
<1> QED BY <1>1, Invariance, PTL

-----------------------------------------------------------------------------
(* Theorems: what no step may do *)

\* A window is cut once: no step changes one or adds a second for its minute.
THEOREM WindowsKept == Spec => WindowsFixed
<1>1. IInv /\ IInv' /\ [Next]_vars =>
        /\ windows \subseteq windows'
        /\ \A v, w \in windows' : v.start = w.start => v = w
  <2> SUFFICES ASSUME IInv, IInv', [Next]_vars
               PROVE  /\ windows \subseteq windows'
                      /\ \A v, w \in windows' : v.start = w.start => v = w
    OBVIOUS
  <2>1. windows \subseteq windows'
    <3>1. CASE Next
      BY <3>1, WindowsStep DEF IInv
    <3>2. CASE UNCHANGED vars
      BY <3>2 DEF vars, results
    <3> QED BY <3>1, <3>2
  <2>2. UniqueStarts(windows')
    BY DEF IInv, WindowsOK, UniqueStarts
  <2> QED BY <2>1, <2>2 DEF UniqueStarts
<1> QED BY <1>1, Invariance, PTL DEF Spec, WindowsFixed

\* ScoreCtx: segments are scored in time order and each in full before the next,
\* and all of them before the verdict: a new segment before a scored one, and every
\* new one when the clock moves, has a credible candidate or "insufficient".
THEOREM ScoringOrdered == Spec => ScoredInOrder
<1> DEFINE P == \A seg \in jumps' \ jumps :
       (\/ status' # status
        \/ \E later \in jumps' \ jumps : Precedes(seg, later) /\ candidates'[later.start] # {})
       => Supported(candidates'[seg.start])
<1>1. IInv /\ [Next]_vars => P
  <2> SUFFICES ASSUME IInv, [Next]_vars, NEW seg \in jumps' \ jumps,
                      \/ status' # status
                      \/ \E later \in jumps' \ jumps :
                           Precedes(seg, later) /\ candidates'[later.start] # {}
               PROVE  Supported(candidates'[seg.start])
    OBVIOUS
  <2> DEFINE found == Found(Built)
             start == seg.start
  <2>1. PICK inserted : Writes(inserted)
    BY StepKinds DEF Builds, Attributes, Request, vars, results
  <2>2. jumps' \ jumps \subseteq found
    BY <2>1 DEF Writes
  <2>3. \A s \in found : /\ IsSegment(s) /\ s.start \in Starts /\ s.start \in Int
                         /\ candidates[s.start] = {}
    BY FoundOK, FoundUnscored, StartTypes DEF IInv, IsSegment
  <2>4. ASSUME NEW s \in found, NEW rows, IsScoring(rows, s) PROVE Supported(rows)
    <3>1. PICK env \in Score, link \in Score : rows = Candidates(env, link)
      BY <2>3, <2>4, ScoredRows DEF IInv, IsScoring
    <3> QED BY <3>1, CandidateRows DEF Supported
  <2> HIDE DEF found
  <2>5. CASE UNCHANGED <<candidates, status>>
    BY <2>2, <2>3, <2>5
  <2>6. CASE \E unread : candidates' = ScoredBy(found, unread)
    <3>1. start \in Anchors(found)
      BY <2>2 DEF Anchors
    <3>2. \E s \in found : s.start = start /\ IsScoring(candidates'[start], s)
      BY <2>2, <2>3, <2>6, <3>1, ScoredByRows
    <3> QED BY <2>4, <3>2
  <2>7. CASE /\ UNCHANGED status
             /\ \E failed \in found : \E unread, kept :
                  candidates' = ScoredUpTo(found, failed, unread, kept)
    <3>0. PICK failed \in found : \E unread, kept :
            candidates' = ScoredUpTo(found, failed, unread, kept)
      BY <2>7
    <3>1. PICK unread, kept : candidates' = ScoredUpTo(found, failed, unread, kept)
      BY <3>0
    <3>2. PICK later \in jumps' \ jumps : Precedes(seg, later) /\ candidates'[later.start] # {}
      BY <2>7
    <3>f. failed.start \in Starts /\ candidates[failed.start] = {}
      BY <2>3
    <3>l. later.start \in Starts /\ candidates[later.start] = {}
      BY <2>2, <2>3
    <3>3. later.start <= failed.start \/ later.start = failed.start
      BY <3>1, <3>2, <3>f, <3>l, ScoredUpToRows
    <3>4. start <= failed.start /\ start # failed.start
      <4>1. start \in Int /\ later.start \in Int /\ failed.start \in Int /\ start < later.start
        BY <2>2, <2>3, <3>2 DEF Precedes
      <4> HIDE DEF start
      <4> QED BY <3>3, <4>1
    <3>s. seg \in found /\ start \in Starts /\ candidates[start] = {}
      BY <2>2, <2>3
    <3>5. \E s \in found : s.start = start /\ IsScoring(candidates'[start], s)
      BY <3>1, <3>4, <3>f, <3>s, ScoredUpToRows
    <3> QED BY <2>4, <3>5
  <2> QED BY <2>1, <2>5, <2>6, <2>7 DEF Writes, found
<1> QED BY <1>1, Invariance, PTL DEF Spec, ScoredInOrder

\* BuildCtx: when no slot is left, each window that was cut is a jump exactly if it
\* has enough samples and is noisy or off the last stable one cut before it, or for
\* the first of them off the newest stable one there was.
THEOREM ComparedOK == Spec => ComparedWithLastStable
<1> DEFINE P == \A w \in Cut : NoSlotLeft =>
       LET S == SamplesIn(w.start, samples)
       IN w.status = "jump" <=>
            /\ Cardinality(S) >= MinSamples
            /\ Noisy(S) \/ \E v \in ReferenceOf(w, Cut, windows) : Shifted(w.mean, {v.mean})
<1>1. IInv /\ [Next]_vars => P
  <2> SUFFICES ASSUME IInv, [Next]_vars, NEW w \in Cut, NoSlotLeft
               PROVE  LET S == SamplesIn(w.start, samples)
                      IN w.status = "jump" <=>
                           /\ Cardinality(S) >= MinSamples
                           /\ Noisy(S) \/ \E v \in ReferenceOf(w, Cut, windows) : Shifted(w.mean, {v.mean})
    OBVIOUS
  <2> DEFINE S == SamplesIn(w.start, samples)
             before == ReferenceOf(w, Cut, windows)
             ref == {v.mean : v \in before}
  <2>1. windows \subseteq windows' /\ windows' \subseteq Built
    <3>1. CASE Next
      BY <3>1, WindowsStep DEF IInv
    <3>2. CASE UNCHANGED vars
      BY <3>2 DEF vars, results, Cut
    <3> QED BY <3>1, <3>2
  <2>2. IsFiniteSet(samples) /\ \A s \in samples : s.at \in Int
    BY SampleTypes DEF IInv
  <2>3. windows' = Built
    <3> SUFFICES ASSUME NEW v \in Built \ windows PROVE v \in windows'
      BY <2>1
    <3>1. v.start \in Slots(samples)
      BY BuiltOK DEF IInv, SlotsToBuild
    <3>2. PICK u \in windows' : u.start = v.start
      BY <3>1 DEF NoSlotLeft
    <3>3. UniqueStarts(Built)
      BY BuiltOK DEF IInv
    <3> QED BY <2>1, <3>2, <3>3 DEF UniqueStarts
  <2>4. w = NewWindow(w.start, samples, LastStableOf(Earlier(w.start, Cut), windows))
    BY <2>2, <2>3, BuildReference DEF Built, Cut
  <2>5. LastStableOf(Earlier(w.start, Cut), windows) = ref
    <3>1. Stable(Earlier(w.start, Cut)) = {v \in Stable(Cut) : Precedes(v, w)}
      BY DEF Stable, Earlier, Precedes
    <3> QED BY <3>1 DEF LastStableOf, ReferenceOf
  <2>6. w.mean = Mean(S) /\ w.status = Classify(S, ref)
    BY <2>4, <2>5 DEF NewWindow
  <2> HIDE DEF S, before
  <2>7. Shifted(Mean(S), ref) <=> \E v \in before : Shifted(w.mean, {v.mean})
    BY <2>6 DEF Shifted
  <2>8. w.status = "jump" <=> /\ Cardinality(S) >= MinSamples
                              /\ Noisy(S) \/ \E v \in before : Shifted(w.mean, {v.mean})
    <3>1. IsFiniteSet(S)
      BY <2>2, FS_Subset DEF S, SamplesIn
    <3>2. Cardinality(S) < MinSamples <=> ~ (Cardinality(S) >= MinSamples)
      BY <3>1, FS_CardinalityType, WindowingAssumption
    <3> HIDE DEF ref
    <3>3. CASE Cardinality(S) < MinSamples
      BY <2>6, <3>2, <3>3 DEF Classify
    <3>4. CASE Cardinality(S) >= MinSamples /\ (Noisy(S) \/ Shifted(Mean(S), ref))
      <4>1. w.status = "jump"
        BY <2>6, <3>2, <3>4 DEF Classify
      <4> QED BY <2>7, <3>4, <4>1, Zenon
    <3>5. CASE Cardinality(S) >= MinSamples /\ ~ (Noisy(S) \/ Shifted(Mean(S), ref))
      <4>1. w.status # "jump"
        BY <2>6, <3>2, <3>5 DEF Classify
      <4> QED BY <2>7, <3>5, <4>1, Zenon
    <3> QED BY <3>2, <3>3, <3>4, <3>5, Zenon
  <2> QED BY <2>8, Zenon DEF S, before
<1> QED BY <1>1, Invariance, PTL DEF Spec, ComparedWithLastStable

-----------------------------------------------------------------------------
(* DetectCtx finds the maximal runs *)

Ordered(T) == IsFiniteSet(T) /\ UniqueStarts(T) /\ \A w \in T : w.start \in Int

\* The jump windows after the last other window: the run that is still open.
Trailing(T) == {w \in Hits(T) : \A v \in T : w.start <= v.start => v \in Hits(T)}

\* All windows after a trailing one are trailing.
LEMMA TrailingGrows ==
  ASSUME NEW T, Ordered(T)
  PROVE  \A w \in Trailing(T), v \in T : w.start <= v.start => v \in Trailing(T)
<1> SUFFICES ASSUME NEW w \in Trailing(T), NEW v \in T, w.start <= v.start
             PROVE  v \in Trailing(T)
  OBVIOUS
<1>1. w \in T /\ v \in Hits(T)
  BY DEF Trailing, Hits
<1>2. ASSUME NEW u \in T, v.start <= u.start PROVE u \in Hits(T)
  <2>1. w.start \in Int /\ v.start \in Int /\ u.start \in Int
    BY <1>1 DEF Ordered
  <2>2. w.start <= u.start
    BY <1>2, <2>1
  <2> QED BY <2>2 DEF Trailing
<1> QED BY <1>1, <1>2 DEF Trailing

\* Only one maximal run is open: all trailing windows.
LEMMA OpenRun ==
  ASSUME NEW T, Ordered(T)
  PROVE  /\ \A run \in Runs(T) : run[2] \in Trailing(T) =>
              run = <<Earliest(Trailing(T)), Latest(Trailing(T))>>
         /\ Trailing(T) # {} => /\ <<Earliest(Trailing(T)), Latest(Trailing(T))>> \in Runs(T)
                                /\ Latest(Trailing(T)) \in Trailing(T)
<1> DEFINE tail == Trailing(T)
           e == Earliest(tail)
           m == Latest(tail)
<1>1. \A S \in SUBSET T : IsFiniteSet(S) /\ \A w \in S : w.start \in Int
  BY FS_Subset DEF Ordered
<1>2. tail \subseteq Hits(T) /\ Hits(T) \subseteq T
  BY DEF Trailing, Hits
<1>3. \A w \in tail, v \in T : w.start <= v.start => v \in tail
  BY TrailingGrows
<1>4. \A w \in Hits(T) : (\A v \in T : w.start <= v.start => v \in Hits(T)) => w \in tail
  BY DEF Trailing
<1>5. tail # {} => /\ e \in tail /\ \A v \in tail : e.start <= v.start
                   /\ m \in tail /\ \A v \in tail : v.start <= m.start
  <2>1. IsFiniteSet(tail) /\ \A w \in tail : w.start \in Int
    BY <1>1, <1>2
  <2> HIDE DEF tail
  <2> QED BY <2>1, EarliestExists, LatestExists
<1>6. \A v \in T : v.start \in Int
  BY DEF Ordered
<1>7. \A v, w \in T : v.start = w.start => v = w
  BY DEF Ordered, UniqueStarts
<1> HIDE DEF tail, e, m
<1>8. ASSUME tail # {} PROVE <<e, m>> \in Runs(T)
  <2>1. e \in Hits(T) /\ m \in Hits(T) /\ e \in T /\ m \in T /\ e.start <= m.start
    BY <1>2, <1>5, <1>8
  <2>2. Between(e, m, T) \subseteq Hits(T)
    BY <1>2, <1>3, <1>5, <1>8 DEF Between
  <2>3. ASSUME NEW w \in Hits(T), Adjacent(w, e, T) PROVE FALSE
    <3>1. ASSUME NEW v \in T, w.start <= v.start PROVE v \in Hits(T)
      <4>1. CASE v.start = w.start
        BY <1>2, <1>7, <4>1
      <4>2. CASE v.start # w.start
        <5>1. w.start < v.start
          BY <1>2, <1>6, <3>1, <4>2
        <5>2. e.start <= v.start
          BY <1>6, <2>1, <2>3, <5>1 DEF Adjacent, Precedes
        <5> QED BY <1>2, <1>3, <1>5, <1>8, <5>2
      <4> QED BY <4>1, <4>2
    <3>2. w \in tail
      BY <1>4, <3>1
    <3>3. e.start <= w.start /\ w.start < e.start /\ e.start \in Int /\ w.start \in Int
      BY <1>2, <1>5, <1>6, <1>8, <2>1, <2>3, <3>2 DEF Adjacent, Precedes
    <3> QED BY <3>3
  <2>4. ASSUME NEW w \in Hits(T), Adjacent(m, w, T) PROVE FALSE
    <3>1. m.start < w.start /\ m.start \in Int /\ w.start \in Int
      BY <1>2, <1>6, <2>1, <2>4 DEF Adjacent, Precedes
    <3>2. w \in tail
      BY <1>2, <1>3, <1>5, <1>8, <3>1
    <3>3. w.start <= m.start
      BY <1>5, <1>8, <3>2
    <3> QED BY <3>1, <3>3
  <2> QED BY <2>1, <2>2, <2>3, <2>4 DEF Runs, IsRun
<1>9. ASSUME NEW run \in Runs(T), run[2] \in tail PROVE run = <<e, m>>
  <2> DEFINE f == run[1]
             l == run[2]
  <2>1. run = <<f, l>> /\ f \in Hits(T) /\ l \in Hits(T) /\ IsRun(f, l, T)
    BY <1>9 DEF Runs
  <2>2. tail # {} /\ l \in tail
    BY <1>9
  <2> HIDE DEF f, l
  <2>3. f \in T /\ l \in T /\ f.start \in Int /\ l.start \in Int
    BY <1>2, <1>6, <2>1
  <2>4. ASSUME NEW v \in T, f.start <= v.start PROVE v \in Hits(T)
    <3>1. CASE v.start <= l.start
      BY <2>1, <2>4, <3>1 DEF IsRun, Between
    <3>2. CASE ~ (v.start <= l.start)
      <4>1. l.start <= v.start
        BY <1>6, <2>3, <3>2
      <4> QED BY <1>2, <1>3, <2>2, <4>1
    <3> QED BY <3>1, <3>2
  <2>5. f \in tail
    BY <1>4, <2>1, <2>4
  <2>6. /\ e \in T /\ m \in T /\ e.start \in Int /\ m.start \in Int
        /\ e.start <= f.start /\ l.start <= m.start /\ e \in tail /\ m \in tail
    BY <1>2, <1>5, <1>6, <2>2, <2>5
  <2>7. ASSUME e.start < f.start PROVE FALSE
    <3> DEFINE before == {v \in T : v.start < f.start}
               g == Latest(before)
    <3>1. before # {} /\ before \in SUBSET T /\ e \in before
      BY <2>6, <2>7
    <3>2. g \in before /\ \A v \in before : v.start <= g.start
      <4> HIDE DEF before
      <4>1. IsFiniteSet(before) /\ \A w \in before : w.start \in Int
        BY <1>1, <3>1
      <4> QED BY <3>1, <4>1, LatestExists
    <3> HIDE DEF g
    <3>3. g \in T /\ g.start < f.start /\ e.start <= g.start /\ g.start \in Int
      BY <1>6, <3>1, <3>2
    <3>4. g \in Hits(T)
      BY <1>2, <1>3, <2>6, <3>3
    <3>5. Adjacent(g, f, T)
      <4> SUFFICES ASSUME NEW u \in T, g.start < u.start, u.start < f.start PROVE FALSE
        BY <3>3 DEF Adjacent, Precedes
      <4>1. u.start <= g.start /\ u.start \in Int
        BY <1>6, <3>2
      <4> QED BY <3>3, <4>1
    <3> QED BY <2>1, <3>4, <3>5 DEF IsRun
  <2>8. ASSUME l.start < m.start PROVE FALSE
    <3> DEFINE after == {v \in T : l.start < v.start}
               g == Earliest(after)
    <3>1. after # {} /\ after \in SUBSET T /\ m \in after
      BY <2>6, <2>8
    <3>2. g \in after /\ \A v \in after : g.start <= v.start
      <4> HIDE DEF after
      <4>1. IsFiniteSet(after) /\ \A w \in after : w.start \in Int
        BY <1>1, <3>1
      <4> QED BY <3>1, <4>1, EarliestExists
    <3> HIDE DEF g
    <3>3. g \in T /\ l.start < g.start /\ g.start \in Int
      BY <1>6, <3>1, <3>2
    <3>4. g \in Hits(T)
      <4>1. l.start <= g.start
        BY <2>3, <3>3
      <4> QED BY <1>2, <1>3, <2>2, <3>3, <4>1
    <3>5. Adjacent(l, g, T)
      <4> SUFFICES ASSUME NEW u \in T, l.start < u.start, u.start < g.start PROVE FALSE
        BY <3>3 DEF Adjacent, Precedes
      <4>1. g.start <= u.start /\ u.start \in Int
        BY <1>6, <3>2
      <4> QED BY <3>3, <4>1
    <3> QED BY <2>1, <3>4, <3>5 DEF IsRun
  <2>9. e = f /\ m = l
    BY <1>7, <2>3, <2>6, <2>7, <2>8
  <2> QED BY <2>1, <2>9
<1> QED BY <1>5, <1>8, <1>9 DEF tail, e, m

\* The maximal runs that no later window can extend.
ClosedRuns(T) == {run \in Runs(T) : run[2] \notin Trailing(T)}

\* A jump window after all others extends the open run, another one closes it.
LEMMA OneMoreWindow ==
  ASSUME NEW T, Ordered(T), NEW k \in T, \A v \in T \ {k} : v.start < k.start
  PROVE  /\ k.status = "jump" => /\ Trailing(T) = Trailing(T \ {k}) \cup {k}
                                 /\ ClosedRuns(T) = ClosedRuns(T \ {k})
         /\ k.status # "jump" => /\ Trailing(T) = {}
                                 /\ ClosedRuns(T) = Runs(T \ {k})
<1> DEFINE U == T \ {k}
<1>1. \A v \in T : v.start \in Int
  BY DEF Ordered
<1>2. U \subseteq T /\ k \notin U /\ \A v \in T : v = k \/ v \in U
  OBVIOUS
<1>3. \A v \in U : v.start < k.start /\ ~ (k.start <= v.start) /\ v.start <= k.start
  BY <1>1
<1>4. Hits(T) = IF k.status = "jump" THEN Hits(U) \cup {k} ELSE Hits(U)
  BY DEF Hits
<1>5. Hits(U) \subseteq U
  BY DEF Hits
<1> HIDE DEF U
<1>6. \A v, w \in U : Adjacent(v, w, T) <=> Adjacent(v, w, U)
  <2> SUFFICES ASSUME NEW v \in U, NEW w \in U PROVE Adjacent(v, w, T) <=> Adjacent(v, w, U)
    OBVIOUS
  <2>1. ~ (k.start < w.start)
    BY <1>1, <1>2, <1>3
  <2> QED BY <1>2, <2>1 DEF Adjacent, Precedes
<1>7. \A v \in U : ~Adjacent(k, v, T)
  <2> SUFFICES ASSUME NEW v \in U PROVE ~ (k.start < v.start)
    BY DEF Adjacent, Precedes
  <2> QED BY <1>1, <1>2, <1>3
<1>8. \A v, w \in U : Between(v, w, T) = Between(v, w, U)
  <2> SUFFICES ASSUME NEW v \in U, NEW w \in U PROVE Between(v, w, T) = Between(v, w, U)
    OBVIOUS
  <2>1. ~ (k.start <= w.start)
    BY <1>3
  <2> QED BY <1>2, <2>1 DEF Between
<1>9. CASE k.status = "jump"
  <2>1. Trailing(T) = Trailing(U) \cup {k}
    <3>1. k \in Trailing(T)
      BY <1>2, <1>3, <1>4, <1>9 DEF Trailing
    <3>2. \A w \in U : w \in Trailing(T) <=> w \in Trailing(U)
      BY <1>2, <1>3, <1>4, <1>5, <1>9 DEF Trailing
    <3>3. Trailing(T) \subseteq T /\ Trailing(U) \subseteq U
      BY DEF Trailing, Hits
    <3> QED BY <1>2, <3>1, <3>2, <3>3
  <2>2. ASSUME NEW l \in Hits(U), l \notin Trailing(U) PROVE ~Adjacent(l, k, T)
    <3>1. PICK v \in U : l.start <= v.start /\ v \notin Hits(U)
      BY <2>2 DEF Trailing
    <3>2. l.start # v.start
      BY <1>2, <1>5, <3>1 DEF Ordered, UniqueStarts
    <3>3. l.start < v.start /\ v.start < k.start
      BY <1>1, <1>2, <1>3, <1>5, <3>1, <3>2
    <3> QED BY <1>2, <3>1, <3>3 DEF Adjacent, Precedes
  <2>3. ASSUME NEW f \in Hits(U), NEW l \in Hits(U), l \notin Trailing(U)
        PROVE  IsRun(f, l, T) <=> IsRun(f, l, U)
    <3>1. Between(f, l, T) = Between(f, l, U) /\ Between(f, l, U) \subseteq U
      BY <1>5, <1>8 DEF Between
    <3>2. Between(f, l, T) \subseteq Hits(T) <=> Between(f, l, U) \subseteq Hits(U)
      BY <1>2, <1>4, <1>9, <3>1
    <3>3. (\A w \in Hits(T) : ~Adjacent(w, f, T) /\ ~Adjacent(l, w, T))
            <=> (\A w \in Hits(U) : ~Adjacent(w, f, U) /\ ~Adjacent(l, w, U))
      BY <1>4, <1>5, <1>6, <1>7, <1>9, <2>2, <2>3
    <3> QED BY <3>2, <3>3 DEF IsRun
  <2>4. ASSUME NEW run \in ClosedRuns(T) PROVE run \in ClosedRuns(U)
    <3> DEFINE f == run[1]
               l == run[2]
    <3>1. /\ run = <<f, l>> /\ f \in Hits(T) /\ l \in Hits(T)
          /\ IsRun(f, l, T) /\ l \notin Trailing(T)
      BY <2>4 DEF ClosedRuns, Runs
    <3> HIDE DEF f, l
    <3>2. l \in Hits(U) /\ l \notin Trailing(U)
      BY <1>4, <1>9, <2>1, <3>1
    <3>3. f # k
      <4>1. f.start <= l.start
        BY <3>1 DEF IsRun
      <4> QED BY <1>3, <1>5, <3>2, <4>1
    <3>4. f \in Hits(U)
      BY <1>4, <1>9, <3>1, <3>3
    <3>5. IsRun(f, l, U)
      BY <2>3, <3>1, <3>2, <3>4
    <3> QED BY <3>1, <3>2, <3>4, <3>5 DEF ClosedRuns, Runs
  <2>5. ASSUME NEW run \in ClosedRuns(U) PROVE run \in ClosedRuns(T)
    <3> DEFINE f == run[1]
               l == run[2]
    <3>1. /\ run = <<f, l>> /\ f \in Hits(U) /\ l \in Hits(U)
          /\ IsRun(f, l, U) /\ l \notin Trailing(U)
      BY <2>5 DEF ClosedRuns, Runs
    <3> HIDE DEF f, l
    <3>2. IsRun(f, l, T)
      BY <2>3, <3>1
    <3>3. f \in Hits(T) /\ l \in Hits(T) /\ l \notin Trailing(T)
      BY <1>2, <1>4, <1>5, <1>9, <2>1, <3>1
    <3> QED BY <3>1, <3>2, <3>3 DEF ClosedRuns, Runs
  <2> QED BY <1>9, <2>1, <2>4, <2>5 DEF U
<1>10. CASE k.status # "jump"
  <2>1. Hits(T) = Hits(U) /\ k \notin Hits(T)
    BY <1>2, <1>4, <1>5, <1>10
  <2>2. Trailing(T) = {}
    <3> SUFFICES ASSUME NEW w \in Trailing(T) PROVE FALSE
      OBVIOUS
    <3>1. w \in U /\ \A v \in T : w.start <= v.start => v \in Hits(T)
      BY <1>5, <2>1 DEF Trailing
    <3> QED BY <1>3, <2>1, <3>1
  <2>3. ASSUME NEW f \in Hits(U), NEW l \in Hits(U)
        PROVE  IsRun(f, l, T) <=> IsRun(f, l, U)
    <3>1. Between(f, l, T) = Between(f, l, U)
      BY <1>5, <1>8
    <3>2. (\A w \in Hits(T) : ~Adjacent(w, f, T) /\ ~Adjacent(l, w, T))
            <=> (\A w \in Hits(U) : ~Adjacent(w, f, U) /\ ~Adjacent(l, w, U))
      BY <1>5, <1>6, <2>1
    <3> QED BY <2>1, <3>1, <3>2 DEF IsRun
  <2>4. Runs(T) = Runs(U)
    BY <2>1, <2>3 DEF Runs
  <2> QED BY <1>10, <2>2, <2>4 DEF ClosedRuns, U
<1> QED BY <1>9, <1>10

\* The scan has inserted the closed runs that anchor no segment yet.
Unanchored(runs, anchors) == {run \in runs : run[1].start \notin anchors}
ScanRuns(T, acc, anchors) ==
  /\ acc.run = Trailing(T)
  /\ Spans(acc.out) = SpansOfRuns(Unanchored(ClosedRuns(T), anchors))

\* Closing the open run completes the maximal runs.
LEMMA ClosedSpans ==
  ASSUME NEW T, Ordered(T), NEW anchors, NEW acc, ScanRuns(T, acc, anchors)
  PROVE  /\ Closed(acc, anchors).run = {}
         /\ Spans(Closed(acc, anchors).out) = SpansOfRuns(Unanchored(Runs(T), anchors))
<1> DEFINE tail == Trailing(T)
           open == <<Earliest(tail), Latest(tail)>>
           seg == Segment(tail, acc.stable)
           new == Closed(acc, anchors)
<1>1. acc.run = tail /\ Spans(acc.out) = SpansOfRuns(Unanchored(ClosedRuns(T), anchors))
  BY DEF ScanRuns
<1>2. new.run = {}
  BY DEF Closed
<1>3. new.out = IF tail = {} \/ open[1].start \in anchors THEN acc.out ELSE acc.out \cup {seg}
  BY <1>1 DEF Closed
<1>4. seg.start = open[1].start /\ seg.end = WindowEnd(open[2].start)
  BY DEF Segment
<1>5. /\ \A run \in Runs(T) : run[2] \in tail => run = open
      /\ tail # {} => open \in Runs(T) /\ open[2] \in tail
  BY OpenRun
<1> HIDE DEF tail, open, seg, new
<1>6. Runs(T) = ClosedRuns(T) \cup (IF tail = {} THEN {} ELSE {open})
  BY <1>5 DEF ClosedRuns, tail
<1>7. CASE tail = {} \/ open[1].start \in anchors
  <2>1. Unanchored(Runs(T), anchors) = Unanchored(ClosedRuns(T), anchors)
    BY <1>6, <1>7 DEF Unanchored
  <2> QED BY <1>1, <1>2, <1>3, <1>7, <2>1 DEF new
<1>8. CASE ~ (tail = {} \/ open[1].start \in anchors)
  <2>1. Unanchored(Runs(T), anchors) = Unanchored(ClosedRuns(T), anchors) \cup {open}
    BY <1>6, <1>8 DEF Unanchored
  <2>2. Spans(new.out) = Spans(acc.out) \cup {<<seg.start, seg.end>>}
    BY <1>3, <1>8 DEF Spans
  <2>3. SpansOfRuns(Unanchored(Runs(T), anchors))
          = SpansOfRuns(Unanchored(ClosedRuns(T), anchors)) \cup {<<open[1].start, WindowEnd(open[2].start)>>}
    BY <2>1 DEF SpansOfRuns
  <2> QED BY <1>1, <1>2, <1>4, <2>2, <2>3 DEF new
<1> QED BY <1>7, <1>8

\* What DetectCtx inserts spans exactly the maximal runs that anchor no segment.
LEMMA DetectSpans ==
  ASSUME NEW rows, Ordered(rows), NEW anchors
  PROVE  Spans(Detect(rows, anchors)) = SpansOfRuns(Unanchored(Runs(rows), anchors))
<1> DEFINE c == [T \in SUBSET rows |-> Latest(T)]
<1>1. \A T \in SUBSET rows : Ordered(T)
  BY FS_Subset DEF Ordered, UniqueStarts
<1>2. \A T \in SUBSET rows : T # {} => Latest(T) \in T /\ \A v \in T : v.start <= Latest(T).start
  BY <1>1, LatestExists DEF Ordered
<1>3. PICK f : IsScan(f, rows, anchors)
  BY DetectFold DEF Ordered
<1> DEFINE P == {T \in SUBSET rows : ScanRuns(T, f[T], anchors)}
<1>4. {} \in P
  <2>1. Trailing({}) = {} /\ ClosedRuns({}) = {}
    BY DEF Trailing, ClosedRuns, Runs, Hits
  <2>2. f[{}].run = {} /\ f[{}].out = {}
    BY <1>3 DEF IsScan, Unscanned
  <2> QED BY <2>1, <2>2 DEF ScanRuns, Spans, SpansOfRuns, Unanchored
<1>5. ASSUME NEW T \in SUBSET rows, T # {}, T \ {c[T]} \in P PROVE T \in P
  <2> DEFINE k == Latest(T)
             U == T \ {k}
             acc == f[U]
             new == Closed(acc, anchors)
  <2>1. c[T] = k
    OBVIOUS
  <2>2. k \in T /\ \A v \in U : v.start < k.start
    <3>1. k \in T /\ \A v \in T : v.start <= k.start
      BY <1>2, <1>5
    <3>2. \A v \in T : v.start = k.start => v = k
      BY <1>1, <3>1 DEF Ordered, UniqueStarts
    <3>3. \A v \in T : v.start \in Int
      BY <1>1 DEF Ordered
    <3> HIDE DEF k
    <3> QED BY <3>1, <3>2, <3>3
  <2>3. /\ acc = [stable |-> acc.stable, run |-> acc.run, out |-> acc.out]
        /\ f[T] = Scan(k, acc, anchors)
    BY <1>3, <1>5 DEF IsScan
  <2>4. ScanRuns(U, acc, anchors)
    BY <1>5, <2>1
  <2>5. Ordered(T) /\ Ordered(U) /\ U \in SUBSET rows
    BY <1>1, <1>5
  <2> HIDE DEF k, acc
  <2>6. /\ k.status = "jump" => /\ Trailing(T) = Trailing(U) \cup {k}
                                /\ ClosedRuns(T) = ClosedRuns(U)
        /\ k.status # "jump" => /\ Trailing(T) = {}
                                /\ ClosedRuns(T) = Runs(U)
    BY <2>2, <2>5, OneMoreWindow
  <2> HIDE DEF U
  <2>7. CASE k.status = "jump"
    <3>1. f[T].run = acc.run \cup {k} /\ f[T].out = acc.out
      BY <2>3, <2>7 DEF Scan
    <3>2. ScanRuns(T, f[T], anchors)
      BY <2>4, <2>6, <2>7, <3>1 DEF ScanRuns
    <3> QED BY <3>2
  <2>8. CASE k.status # "jump"
    <3>1. f[T].run = new.run /\ f[T].out = new.out
      BY <2>3, <2>8 DEF Scan, Closed
    <3> HIDE DEF new
    <3>2. new.run = {} /\ Spans(new.out) = SpansOfRuns(Unanchored(Runs(U), anchors))
      BY <2>4, <2>5, ClosedSpans DEF new
    <3>3. ScanRuns(T, f[T], anchors)
      BY <2>6, <2>8, <3>1, <3>2 DEF ScanRuns
    <3> QED BY <3>3
  <2> QED BY <2>7, <2>8
<1>6. \A T \in SUBSET rows : T \in P
  <2>1. Chooses(c, rows) /\ IsFiniteSet(rows)
    BY <1>2 DEF Chooses, Ordered
  <2> HIDE DEF P, c
  <2>2. \A T \in SUBSET rows : T # {} /\ T \ {c[T]} \in P => T \in P
    BY <1>5
  <2> QED BY <1>4, <2>1, <2>2, ChainInduction
<1>7. ScanRuns(rows, f[rows], anchors)
  BY <1>6
<1>8. Spans(Closed(f[rows], anchors).out) = SpansOfRuns(Unanchored(Runs(rows), anchors))
  BY <1>7, ClosedSpans
<1> QED BY <1>3, <1>8 DEF IsScan

\* DetectCtx: an analysis inserts the maximal runs of jump windows whose first
\* window anchors no segment, the earlier first, and leaves none out unless it
\* fails on the way.
THEOREM MaximalRunsDetected == Spec => DetectsMaximalRuns
<1> DEFINE inserted == Spans(jumps' \ jumps)
           due == SpansOfRuns({run \in Runs(windows') : run[1].start \notin Anchors(jumps)})
           P == /\ jumps' # jumps =>
                     /\ inserted \subseteq due
                     /\ \A span \in inserted, other \in due \ inserted : span[1] < other[1]
                /\ inserted # due => ~Analyze
<1>1. IInv /\ [Next]_vars => P
  <2> SUFFICES ASSUME IInv, [Next]_vars PROVE P
    OBVIOUS
  <2> DEFINE found == Found(Built)
  <2>1. /\ \A seg \in found : seg.start \notin Anchors(jumps) /\ seg.start \in Int
        /\ Ordered(Built)
    BY FoundOK, BuiltOK, StartTypes DEF IInv, IsSegment, WindowOK, Ordered
  <2>2. Spans(found) = SpansOfRuns(Unanchored(Runs(Built), Anchors(jumps)))
    BY <2>1, DetectSpans DEF Found
  <2>3. windows' = Built => due = Spans(found)
    BY <2>2 DEF Unanchored
  <2>4. found \cap jumps = {}
    BY <2>1 DEF Anchors
  <2> HIDE DEF found, due
  <2>5. ASSUME Analyze PROVE inserted = due
    <3>1. windows' = Built /\ jumps' = jumps \cup found
      BY <2>5 DEF Analyze, found
    <3>2. jumps' \ jumps = found
      BY <2>4, <3>1
    <3> QED BY <2>3, <3>1, <3>2
  <2>6. ASSUME jumps' # jumps
        PROVE  /\ inserted \subseteq due
               /\ \A span \in inserted, other \in due \ inserted : span[1] < other[1]
    <3>1. PICK new : Writes(new)
      BY <2>6, StepKinds DEF Builds, Attributes, Request, vars, results
    <3>2. windows' = Built /\ new \subseteq found /\ jumps' = jumps \cup new
      BY <3>1 DEF Writes, found
    <3>3. new = found \/ \E failed \in found : new = {seg \in found : seg.start < failed.start}
      BY <2>6, <3>1, <3>2 DEF Writes, found
    <3>4. inserted = Spans(new)
      <4>1. jumps' \ jumps = new
        BY <2>4, <3>2
      <4> QED BY <4>1
    <3>5. due = Spans(found)
      BY <2>3, <3>2
    <3> HIDE DEF inserted
    <3>6. inserted \subseteq due
      BY <3>2, <3>4, <3>5 DEF Spans
    <3>7. ASSUME NEW span \in inserted, NEW other \in due \ inserted
          PROVE  span[1] < other[1]
      <4>1. PICK seg \in new : span = <<seg.start, seg.end>>
        BY <3>4, <3>7 DEF Spans
      <4>2. PICK late \in found : other = <<late.start, late.end>>
        BY <3>5, <3>7 DEF Spans
      <4>3. late \notin new
        BY <3>4, <3>7, <4>2 DEF Spans
      <4>4. PICK failed \in found : new = {s \in found : s.start < failed.start}
        BY <3>3, <4>2, <4>3
      <4>5. seg.start < failed.start /\ ~ (late.start < failed.start)
        BY <4>1, <4>2, <4>3, <4>4
      <4>6. seg.start \in Int /\ failed.start \in Int /\ late.start \in Int
        BY <2>1, <3>2, <4>1, <4>2
      <4>7. seg.start < late.start
        BY <4>5, <4>6
      <4> QED BY <4>1, <4>2, <4>7
    <3> QED BY <3>6, <3>7
  <2> QED BY <2>5, <2>6
<1> QED BY <1>1, Invariance, PTL DEF Spec, DetectsMaximalRuns

-----------------------------------------------------------------------------
(* DetectCtx measures from the last stable window *)

\* A segment of a run without holes, measured from the last stable window of T
\* before it.
LastStableBefore(start, rows) == {v.mean : v \in Newest({u \in Stable(rows) : u.start < start})}
Measured(T, seg) ==
  \E run \in SUBSET T :
    /\ run # {} /\ run = Between(Earliest(run), Latest(run), T)
    /\ seg = Segment(run, LastStableBefore(Earliest(run).start, T))
ScanMeasures(T, acc) ==
  /\ acc.run = Trailing(T)
  /\ acc.stable = {v.mean : v \in Newest(Stable(T))}
  /\ \A seg \in acc.out : Measured(T, seg)

\* The bounds of a run.
LEMMA RunBounds ==
  ASSUME NEW T, Ordered(T), NEW run \in SUBSET T, run # {}
  PROVE  /\ IsFiniteSet(run) /\ Earliest(run) \in run /\ Latest(run) \in run
         /\ \A v \in run : Earliest(run).start <= v.start /\ v.start <= Latest(run).start
<1>1. IsFiniteSet(run) /\ \A w \in run : w.start \in Int
  BY FS_Subset DEF Ordered
<1> QED BY <1>1, EarliestExists, LatestExists

\* Closing the open run measures it from the last stable window before it.
LEMMA ClosedMeasures ==
  ASSUME NEW T, Ordered(T), NEW anchors, NEW acc, ScanMeasures(T, acc)
  PROVE  \A seg \in Closed(acc, anchors).out : Measured(T, seg)
<1> DEFINE tail == Trailing(T)
           e == Earliest(tail)
           m == Latest(tail)
<1>1. acc.run = tail /\ acc.stable = {v.mean : v \in Newest(Stable(T))}
  BY DEF ScanMeasures
<1>2. tail \subseteq T /\ \A w \in tail, v \in T : w.start <= v.start => v \in tail
  BY TrailingGrows DEF Trailing, Hits
<1> HIDE DEF tail, e, m
<1>3. ASSUME tail # {} PROVE Measured(T, Segment(tail, acc.stable))
  <2>1. /\ e \in tail /\ m \in tail
        /\ \A v \in tail : e.start <= v.start /\ v.start <= m.start
    BY <1>2, <1>3, RunBounds DEF e, m
  <2>2. tail = Between(e, m, T)
    BY <1>2, <2>1 DEF Between
  <2>3. {u \in Stable(T) : u.start < e.start} = Stable(T)
    <3> SUFFICES ASSUME NEW u \in Stable(T) PROVE u.start < e.start
      OBVIOUS
    <3>1. u \in T /\ u.status = "stable"
      BY DEF Stable
    <3>2. u \notin tail
      BY <3>1 DEF tail, Trailing, Hits
    <3>3. ~ (e.start <= u.start)
      BY <1>2, <2>1, <3>1, <3>2
    <3>4. e.start \in Int /\ u.start \in Int
      BY <1>2, <2>1, <3>1 DEF Ordered
    <3> QED BY <3>3, <3>4
  <2>4. LastStableBefore(e.start, T) = acc.stable
    BY <1>1, <2>3 DEF LastStableBefore
  <2> QED BY <1>2, <1>3, <2>2, <2>4 DEF Measured, e, m
<1>4. Closed(acc, anchors).out = IF tail = {} \/ Earliest(tail).start \in anchors THEN acc.out
                                 ELSE acc.out \cup {Segment(tail, acc.stable)}
  BY <1>1 DEF Closed
<1> QED BY <1>3, <1>4 DEF ScanMeasures

\* A later window changes nothing of that.
LEMMA MeasuredMore ==
  ASSUME NEW T, Ordered(T), NEW k \in T, \A v \in T \ {k} : v.start < k.start,
         NEW seg, Measured(T \ {k}, seg)
  PROVE  Measured(T, seg)
<1> DEFINE U == T \ {k}
<1>1. PICK run \in SUBSET U :
        /\ run # {} /\ run = Between(Earliest(run), Latest(run), U)
        /\ seg = Segment(run, LastStableBefore(Earliest(run).start, U))
  BY DEF Measured
<1> DEFINE e == Earliest(run)
           m == Latest(run)
<1>2. e \in run /\ m \in run /\ run \in SUBSET T
  BY <1>1, RunBounds
<1> HIDE DEF e, m
<1>3. /\ e.start \in Int /\ m.start \in Int /\ k.start \in Int
      /\ e.start < k.start /\ m.start < k.start
  BY <1>1, <1>2 DEF Ordered
<1>4. ~ (k.start < e.start) /\ ~ (k.start <= m.start)
  BY <1>3
<1>5. Between(e, m, T) = Between(e, m, U)
  BY <1>4 DEF Between
<1>6. {u \in Stable(T) : u.start < e.start} = {u \in Stable(U) : u.start < e.start}
  BY <1>4 DEF Stable
<1>7. LastStableBefore(e.start, T) = LastStableBefore(e.start, U)
  BY <1>6 DEF LastStableBefore
<1> HIDE DEF U
<1> QED BY <1>1, <1>2, <1>5, <1>7 DEF Measured, e, m

\* Every segment DetectCtx inserts is measured that way.
LEMMA DetectMeasures ==
  ASSUME NEW rows, Ordered(rows), NEW anchors
  PROVE  \A seg \in Detect(rows, anchors) : Measured(rows, seg)
<1> DEFINE c == [T \in SUBSET rows |-> Latest(T)]
<1>1. \A T \in SUBSET rows : Ordered(T)
  BY FS_Subset DEF Ordered, UniqueStarts
<1>2. \A T \in SUBSET rows : T # {} => Latest(T) \in T /\ \A v \in T : v.start <= Latest(T).start
  BY <1>1, LatestExists DEF Ordered
<1>3. PICK f : IsScan(f, rows, anchors)
  BY DetectFold DEF Ordered
<1> DEFINE P == {T \in SUBSET rows : ScanMeasures(T, f[T])}
<1>4. {} \in P
  <2>1. Trailing({}) = {} /\ Newest(Stable({})) = {}
    BY DEF Trailing, Hits, Newest, Stable
  <2>2. f[{}].run = {} /\ f[{}].out = {} /\ f[{}].stable = {}
    BY <1>3 DEF IsScan, Unscanned
  <2> QED BY <2>1, <2>2 DEF ScanMeasures
<1>5. ASSUME NEW T \in SUBSET rows, T # {}, T \ {c[T]} \in P PROVE T \in P
  <2> DEFINE k == Latest(T)
             U == T \ {k}
             acc == f[U]
             new == Closed(acc, anchors)
  <2>1. c[T] = k
    OBVIOUS
  <2>2. k \in T /\ \A v \in U : v.start < k.start
    <3>1. k \in T /\ \A v \in T : v.start <= k.start
      BY <1>2, <1>5
    <3>2. \A v \in T : v.start = k.start => v = k
      BY <1>1, <3>1 DEF Ordered, UniqueStarts
    <3>3. \A v \in T : v.start \in Int
      BY <1>1 DEF Ordered
    <3> HIDE DEF k
    <3> QED BY <3>1, <3>2, <3>3
  <2>3. /\ acc = [stable |-> acc.stable, run |-> acc.run, out |-> acc.out]
        /\ f[T] = Scan(k, acc, anchors)
    BY <1>3, <1>5 DEF IsScan
  <2>4. ScanMeasures(U, acc)
    BY <1>5, <2>1
  <2>5. Ordered(T) /\ Ordered(U) /\ U \in SUBSET rows
    BY <1>1, <1>5
  <2> HIDE DEF k, acc
  <2>6. /\ k.status = "jump" => Trailing(T) = Trailing(U) \cup {k}
        /\ k.status # "jump" => Trailing(T) = {}
    BY <2>2, <2>5, OneMoreWindow
  <2>7. \A seg : Measured(U, seg) => Measured(T, seg)
    BY <2>2, <2>5, MeasuredMore
  <2>8. Newest(Stable(T)) = IF k.status = "stable" THEN {k} ELSE Newest(Stable(U))
    <3>1. CASE k.status = "stable"
      <4>1. Stable(T) = Stable(U) \cup {k}
        BY <2>2, <3>1 DEF Stable
      <4>2. k.start \in Int /\ \A v \in Stable(U) : v.start \in Int /\ v.start < k.start
        BY <2>2, <2>5 DEF Stable, Ordered
      <4> HIDE DEF U
      <4>3. k.start <= k.start /\ \A v \in Stable(U) : v.start <= k.start /\ ~ (k.start <= v.start)
        <5>1. \A i, j \in Int : i < j => i <= j /\ ~ (j <= i) /\ j <= j
          OBVIOUS
        <5>2. k.start <= k.start
          BY <4>2
        <5> QED BY <4>2, <5>1, <5>2
      <4>4. k \in Newest(Stable(T))
        BY <4>1, <4>3 DEF Newest
      <4>5. \A v \in Newest(Stable(T)) : v = k
        BY <4>1, <4>3 DEF Newest
      <4> QED BY <3>1, <4>4, <4>5
    <3>2. CASE k.status # "stable"
      <4>1. Stable(T) = Stable(U)
        BY <3>2 DEF Stable
      <4> QED BY <3>2, <4>1
    <3> QED BY <3>1, <3>2
  <2> HIDE DEF U
  <2>9. CASE k.status = "jump"
    <3>1. f[T].run = acc.run \cup {k} /\ f[T].out = acc.out /\ f[T].stable = acc.stable
      BY <2>3, <2>9 DEF Scan
    <3>2. ScanMeasures(T, f[T])
      BY <2>4, <2>6, <2>7, <2>8, <2>9, <3>1 DEF ScanMeasures
    <3> QED BY <3>2
  <2>10. CASE k.status # "jump"
    <3>1. /\ f[T].run = {} /\ f[T].out = new.out
          /\ f[T].stable = IF k.status = "stable" THEN {k.mean} ELSE acc.stable
      BY <2>3, <2>10 DEF Scan, Closed
    <3>2. \A seg \in new.out : Measured(U, seg)
      BY <2>4, <2>5, ClosedMeasures
    <3> HIDE DEF new
    <3>3. f[T].stable = {v.mean : v \in Newest(Stable(T))}
      BY <2>4, <2>8, <3>1 DEF ScanMeasures
    <3>4. ScanMeasures(T, f[T])
      BY <2>6, <2>7, <2>10, <3>1, <3>2, <3>3 DEF ScanMeasures
    <3> QED BY <3>4
  <2> QED BY <2>9, <2>10
<1>6. \A T \in SUBSET rows : T \in P
  <2>1. Chooses(c, rows) /\ IsFiniteSet(rows)
    BY <1>2 DEF Chooses, Ordered
  <2> HIDE DEF P, c
  <2>2. \A T \in SUBSET rows : T # {} /\ T \ {c[T]} \in P => T \in P
    BY <1>5
  <2> QED BY <1>4, <2>1, <2>2, ChainInduction
<1>7. ScanMeasures(rows, f[rows])
  BY <1>6
<1>8. \A seg \in Closed(f[rows], anchors).out : Measured(rows, seg)
  BY <1>7, ClosedMeasures
<1> QED BY <1>3, <1>8 DEF IsScan

\* On the grid, the windows of a segment are those that start within it.
LEMMA WithinSegment ==
  ASSUME NEW m \in Int, NEW w \in Int, OnGrid(m), OnGrid(w)
  PROVE  w < WindowEnd(m) <=> w <= m
<1>1. PICK i \in Int : m = i * Width
  BY DEF OnGrid
<1>2. PICK j \in Int : w = j * Width
  BY DEF OnGrid
<1>3. Width \in Nat \ {0}
  BY BaselineAssumption
<1>4. ASSUME w < m + Width PROVE w <= m
  <2>1. (i + 1) * Width = m + Width
    BY <1>1, <1>3
  <2>2. j * Width < (i + 1) * Width
    BY <1>2, <1>4, <2>1
  <2>3. j < i + 1
    BY <1>3, <2>2
  <2>4. j <= i
    BY <2>3
  <2> QED BY <1>1, <1>2, <1>3, <2>4
<1>5. ASSUME w <= m PROVE w < m + Width
  BY <1>3, <1>5
<1> QED BY <1>4, <1>5 DEF WindowEnd

\* DetectCtx: going from the last stable window before a new segment by its
\* magnitude in its direction ends among the means of its windows; the magnitude
\* is the least one if there is no such window or next to no shift.
THEOREM MeasuredOK == Spec => MeasuredFromLastStable
<1> DEFINE P == \A seg \in jumps' \ jumps :
       LET run == {w \in windows' : w.start >= seg.start /\ w.start < seg.end}
           before == Newest({v \in Stable(windows') : v.start < seg.start})
       IN \/ seg.magnitude = MinMagnitude
          \/ \E v \in before, low, high \in run :
               /\ ~Exceeds(low.mean, Level(seg, v.mean))
               /\ ~Exceeds(Level(seg, v.mean), high.mean)
<1>1. IInv /\ [Next]_vars => P
  <2> SUFFICES ASSUME IInv, [Next]_vars, NEW seg \in jumps' \ jumps
               PROVE  LET run == {w \in windows' : w.start >= seg.start /\ w.start < seg.end}
                          before == Newest({v \in Stable(windows') : v.start < seg.start})
                      IN \/ seg.magnitude = MinMagnitude
                         \/ \E v \in before, low, high \in run :
                              /\ ~Exceeds(low.mean, Level(seg, v.mean))
                              /\ ~Exceeds(Level(seg, v.mean), high.mean)
    OBVIOUS
  <2> DEFINE among == {w \in windows' : w.start >= seg.start /\ w.start < seg.end}
             before == Newest({v \in Stable(windows') : v.start < seg.start})
  <2>1. windows' = Built /\ seg \in Found(Built)
    BY StepKinds DEF Builds, Writes, Attributes, Request, vars, results
  <2>2. /\ Ordered(Built)
        /\ \A w \in Built : w.start \in Int /\ OnGrid(w.start) /\ w.mean \in Fraction
    BY BuiltOK, StartTypes DEF IInv, WindowOK, Ordered
  <2>3. Measured(Built, seg)
    BY <2>1, <2>2, DetectMeasures DEF Found
  <2>4. PICK run \in SUBSET Built :
          /\ run # {} /\ run = Between(Earliest(run), Latest(run), Built)
          /\ seg = Segment(run, LastStableBefore(Earliest(run).start, Built))
    BY <2>3 DEF Measured
  <2> DEFINE e == Earliest(run)
             m == Latest(run)
  <2>5. IsFiniteSet(run) /\ e \in run /\ m \in run /\ \A w \in run : w.mean \in Fraction
    BY <2>2, <2>4, RunBounds
  <2>6. seg.start = e.start /\ seg.end = WindowEnd(m.start)
    BY <2>4 DEF Segment
  <2> HIDE DEF e, m
  <2>7. run = among
    <3>1. \A w \in Built : w.start < WindowEnd(m.start) <=> w.start <= m.start
      BY <2>2, <2>5, WithinSegment
    <3>2. run = {w \in Built : w.start >= e.start /\ w.start <= m.start}
      BY <2>4 DEF Between, e, m
    <3> QED BY <2>1, <2>6, <3>1, <3>2
  <2>8. seg = Segment(run, {v.mean : v \in before})
    BY <2>1, <2>4, <2>6 DEF LastStableBefore, e
  <2> HIDE DEF among
  <2>9. CASE before = {}
    <3>1. {v.mean : v \in before} = {}
      BY <2>9
    <3>2. seg.magnitude = MinMagnitude
      BY <2>4, <2>5, <2>8, <3>1, SegmentWithoutReference
    <3> QED BY <3>2
  <2>10. CASE before # {}
    <3>1. PICK v \in before : TRUE
      BY <2>10
    <3>2. \A u \in before : u \in Built /\ u.start <= v.start /\ v.start <= u.start
      BY <2>1 DEF Newest, Stable
    <3> HIDE DEF before
    <3>3. before = {v}
      <4>1. \A u \in before : u.start = v.start
        BY <2>2, <3>1, <3>2
      <4>2. \A u \in before : u = v
        BY <2>2, <3>1, <3>2, <4>1 DEF Ordered, UniqueStarts
      <4> QED BY <3>1, <4>2
    <3>4. {u.mean : u \in before} = {v.mean} /\ v.mean \in Fraction
      BY <2>2, <3>2, <3>3
    <3>5. seg = Segment(run, {v.mean})
      BY <2>8, <3>4
    <3> DEFINE mean == MeanOfMeans(run)
               level == Level(seg, v.mean)
    <3>6. \/ seg.magnitude = MinMagnitude
          \/ level \in Fraction /\ level.num * mean.den = mean.num * level.den
      BY <2>4, <2>5, <3>4, <3>5, SegmentMeasure DEF Level
    <3>7. CASE level \in Fraction /\ level.num * mean.den = mean.num * level.den
      <4>1. mean \in Fraction
        BY <2>4, <2>5, MeanOfMeansType
      <4>2. PICK low, high \in run : /\ ~Exceeds(low.mean, mean)
                                     /\ ~Exceeds(mean, high.mean)
        BY <2>4, <2>5, MeanBetween
      <4>3. low.mean \in Fraction /\ high.mean \in Fraction
        BY <2>5
      <4> HIDE DEF mean, level
      <4>4. ~Exceeds(mean, level) /\ ~Exceeds(level, mean)
        <5>1. mean.num * level.den \in Int /\ level.num * mean.den \in Int
          BY <3>7, <4>1 DEF Fraction
        <5> QED BY <3>7, <5>1 DEF Exceeds
      <4>5. ~Exceeds(low.mean, level)
        BY <3>7, <4>1, <4>2, <4>3, <4>4, ExceedsTrans
      <4>6. ~Exceeds(level, high.mean)
        BY <3>7, <4>1, <4>2, <4>3, <4>4, ExceedsTrans
      <4>7. \E u \in before, l, h \in among :
              /\ ~Exceeds(l.mean, Level(seg, u.mean))
              /\ ~Exceeds(Level(seg, u.mean), h.mean)
        BY <2>7, <3>1, <4>2, <4>5, <4>6 DEF level
      <4> QED BY <4>7 DEF among, before
    <3> QED BY <3>6, <3>7 DEF before
  <2> QED BY <2>9, <2>10
<1> QED BY <1>1, Invariance, PTL DEF Spec, MeasuredFromLastStable
=============================================================================
