# Verification of the atomic-clock jump diagnosis service

TLA+ models, TLC runs and TLAPS proofs for `task265-atomjump` (Go, one process,
one SQLite file). Paths below are relative to the repository; `internal/...`
means `src/internal/...`.

## 1. The system

A laboratory uploads frequency samples of atomic clocks. The service cuts them
into 60-second windows, merges consecutive *jump* windows into jump segments,
scores possible sources of each segment, and lets an engineer publish a
diagnosis snapshot that freezes the evidence and seals the clock.

| Component | State | Operations | Modelled in |
|---|---|---|---|
| `internal/model` | none; status values, clock state machine | `CanTransition` | `Model` |
| `internal/store` clocks | `clocks.status` | `Create`, `Get`, `SetStatus` (read, then `UPDATE ... WHERE status=<read>`) | `Publication`, `Analysis` |
| `internal/store` links | `compare_links.status` | `Upsert`, `SetStatus` | `Publication`, `Pipeline` |
| `internal/store` samples | `samples`, unique `(clock_id, seq)` | `Insert`, `InsertBatch` (a transaction), `ListByClock` (row limit) | `Ingest`, `Analysis` |
| `internal/store` environment readings | `env_readings` | `Insert`, `Range` | `Pipeline`, `Attribution` |
| `internal/store` windows | `freq_windows`, no unique index | `Insert`, `DeleteIDs`, list | `Analysis` |
| `internal/store` jumps | `jump_segments`, `source_candidates` | `InsertJump`, `InsertCandidate`, `DeleteCandidatesForJump`, `MarkJumpConfirmed` | `Analysis`, `Publication` |
| `internal/store` snapshots | `snapshots` | `Insert`, `PublishAndSeal` (one transaction) | `Publication` |
| `internal/snapshot` | none | `CreateDraft`, `freeze`, `PublishCtx` | `Publication`, refining `Diagnosis` |
| `internal/service` | per-clock mutexes, live sample index | `IngestSample`, `AnalyzeClockCtx`, `Recover`, `LinkAction`, `ConfirmJump`, `SealClock`, `IngestMany`, `AttributeJump` | `Analysis`, `Ingest`, `Pipeline`, `Publication` |
| `internal/sampling`, `internal/baseline` | none | `IngestCtx`, `IngestMany`, `IngestEnv`; `Normalize`, `AlignWindow` | `Ingest` (statements), `Pipeline` with `Baseline` (values) |
| `internal/windowing`, `internal/jumpdetect`, `internal/attribution` | none | `BuildCtx`, `DetectCtx`, `ScoreCtx`: the stages of an analysis | `Analysis` (statements), `Pipeline` with `Windowing`, `JumpDetect`, `Attribution` (values) |
| `internal/httpapi`, `cmd` | none | which operations clients start; start-up, recovery, stop | the `Begin` / `RequestStep` actions, `Crash`, `Recover` |

**How they interact.** Every HTTP request is a goroutine. All share one database
connection (`SetMaxOpenConns(1)`), so a statement, or a transaction, runs alone,
and requests interleave *between* statements. `IngestSample`, `AnalyzeClockCtx`
and `LinkAction` also hold a mutex of their clock; `PATCH status`, seal, confirm,
drafting and publishing do not. The live index duplicates the samples table and
is written under the mutex, next to the insert. A request's context may be
cancelled between any two statements. `main` runs `Recover` before the server
listens; the tables survive a crash, mutexes, live index and requests do not.

**What is hard**, and therefore what the properties are about: status updates
that read and write in two statements while a publication seals the clock; two
publications of one draft; evidence read before the transaction that stores it;
an analysis cancelled, failing or crashing between any two of its inserts, which
are in no transaction, and then retried; window idempotence without a unique
index; a live index that must equal a table; a mutex that must be released on
every path and is not reentrant; a transaction that must give the only connection
back; a batch under the mutex of one of its clocks; samples, readings and link
changes that arrive late, in any order, around analyses that each build on what
the earlier ones left. `PROJECT.json` lists every hazard at its line.

**What makes each component correct.** Publication: one snapshot in force per
clock, published together with the seal, with complete evidence of the right
clock. Analysis: one window per slot, one segment per run of jump windows, none
missed when the status is decided, every segment scored before it counts,
cleanups that delete what the run inserted and nothing else. Its values: a window
summarises samples of its own minute and never changes; a segment is a maximal
run of jump windows, measured from the stable window before it; a candidate's
score has its evidence in readings of the segment's period and in the links.
Ingest: batches whole or not at all, the connection always given back. Live index:
what is stored, each sample once, up to the row limit of a load. Recovery: no interrupted analysis
is left when the server starts to listen.

## 2. Modules

- **`Model`**: status values and `clockTransitions` as a relation.
- **`Diagnosis`**: the abstract specification of publication: a status per clock
  and the snapshot in force. Two actions: `Move` along the machine, and `Publish`,
  which puts a snapshot in force and seals the clock at once.
- **`Publication`**: drafting and publishing, statement by statement. The tables
  are functions from row ids; `req[r]` is what request `r` has read so far and
  its next statement. Shared with the outside world: links (`UpsertLink`,
  `LinkAction`), jumps (`InsertJump` by an analysis, `ConfirmJump`).

  | Code | Actions |
  |---|---|
  | `ClockStore.SetStatus` | `StatusGet`, `StatusUpdate` |
  | `Publisher.CreateDraft` | `DraftGetClock`, `DraftListLinks`, `DraftListJumps`, `DraftInsert` |
  | `Publisher.PublishCtx`, `freeze` | `PublishGet`, `FreezeClock`, `FreezeLinks`, `FreezeJumps` |
  | `SnapshotStore.PublishAndSeal` | `PublishCheck` (before the transaction), `PublishTx` (the transaction) |
  | error return, cancelled context; process stop | `Abort`; `Crash` |

  `PublishTx` is one action because the only connection is held by the
  transaction; a failure inside it is `Abort`. `Abort` is also allowed where the
  code looks at no context, because the statement itself may fail.
- **`Analysis`**: ingest, the whole of `AnalyzeClockCtx`, cancellation, crash,
  `Recover`. `pc` names the next statement.

  | Code | Actions |
  |---|---|
  | `lockClock` | `IngestLock`, `AnalyzeLock` (`Acquire`) |
  | `Receiver.IngestCtx`, live `Append` | `IngestCheck`, `IngestInsert` |
  | sealed check, live copy, `BuildCtx` | `Load`, `BuildWindow`, `BuildDone` |
  | `DetectCtx` | `Detect`, `InsertJump`, `DetectDone` |
  | `ScoreCtx` | `ScoreJump`, `InsertCandidate`, `ScoreDone` |
  | the status at the end | `Mark`, `MarkUpdate`, `Finish`, `FinishUpdate` |
  | cancellation or a failed statement | `Cancel`, then `Rollback`/`RollbackDone` or `Unscore`; `CleanupError` |
  | `PATCH status`, seal, confirm | `SetStatus`, `ConfirmJump` |
  | process stop, `Recover`, `ListenAndServe` | `Crash`, `RecoverClock`, `ListenAndServe` |

  Abstractions, and why they are sound: reads of tables that are written only
  under the mutex are merged with the step that uses them, since nobody can
  change those tables in between. The client's `SetStatus` is one action: the
  clock's status never returns to an earlier value, so its compare-and-set takes
  effect exactly when nothing changed since the read. A sample is its identity
  (clock and sequence number) and its time slot; what `classify` says of a window
  with enough samples is nondeterministically stable or jump, which includes
  what any sample values could make it.
- **`Ingest`**: samples between the client, the table and the live index, one
  statement at a time. `tx` is the open transaction, `holder` the mutexes, `live`
  counts the copies of each sample in the index, `req[w].next` is the input a loop
  is at.

  | Code | Actions |
  |---|---|
  | `IngestSample`, `IngestMany`, `AnalyzeClockCtx` are called; `lockClock` | `IngestSample`, `IngestMany`, `AnalyzeClock`; `Lock` |
  | `Receiver.prepare`, once per input | `Prepare` |
  | `SampleStore.Insert` | `Store` |
  | `SampleStore.InsertBatch` | `BeginTx`, `InsertRow` per sample, `Commit` |
  | `live.Append`, once per sample | `AppendLive` |
  | an analysis up to its copy of the samples | `LoadIndex`, `ListRows`, `ReplaceIndex` |
  | cancelled context, failed statement; seal; process stop | `Cancel`; `Seal`; `Crash` |
  | `Recover`'s load, `ListenAndServe` | `RecoverClock`, `ListenAndServe` |

  `Connection` guards every statement outside the transaction: with
  `SetMaxOpenConns(1)` it waits for the transaction to end. The rest of an analysis
  writes neither samples nor index; here it ends with its load. `Cancel` may also
  strike where no context is looked at, because the statement may fail there; after
  the commit nothing can stop a request but a crash.
- **`Fractions`, `Baseline`, `Windowing`, `JumpDetect`, `Attribution`**: the pure
  algorithms as operators. Means, magnitudes and scores are exact fractions; a
  standard deviation is compared squared.

  | Code | Operators |
  |---|---|
  | `Normalize`, `AlignWindow` | `Accepted`, `Offset`; `WindowStart`, `WindowEnd` |
  | `meanStd`, `classify`, `BuildCtx` | `Mean`, `Noisy`; `Classify`; `Build`, with `Insert` for the body of its loop |
  | `DetectCtx` | `Detect`, with `Scan` for the body of its loop, `Closed` for the end of a run, `MeanOfMeans` and `Segment` for what it inserts |
  | `EnvStore.Range`, `environmentCoherence`, `linkCoherence`, `ScoreCtx` | `EnvRange`, `EnvironmentCoherence`, `LinkCoherence`, `DeviceScore`, `Candidates`; `FirstSources`, what a scoring that stops has inserted |
  | the ranking of `AttributeJump` | `Verdicts` (any highest one: `sort.Slice` is not stable) |

- **`Pipeline`**: the diagnosis of one clock on values. Its state is the tables.

  | Code | Actions |
  |---|---|
  | `Service.IngestSample`, `Receiver.IngestEnv` | `IngestSample`, `IngestEnv` |
  | `LinkStore.Upsert`, `LinkAction`, `SealClock` | `UpsertLink`, `LinkAction`, `SealClock` |
  | `AnalyzeClockCtx`, complete | `Analyze` |
  | the same, ending early | `AnalyzeStopsAtBuild`, `AnalyzeStopsAtDetect`, `AnalyzeStopsAtScore`, `AnalyzeStopsAtStatus` |
  | `AttributeJump` | `AttributeJump`, `AttributeJumpStops` |

  An analysis is one step: the clock's mutex keeps others away from its samples,
  windows and segments, and `Analysis` has the statements. What may be left when it does not
  get to its end is in this model, for a crash, a cancellation and a failing statement alike:
  some of the windows, when `DeleteIDs`, which deletes them one by one from the earliest on,
  fails or is never reached (`AnalyzeStopsAtBuild`); the earlier segments
  (`AnalyzeStopsAtDetect`); and of the segment being scored none of its candidates or the
  first ones (`ScoredUpTo`), since they are inserted one by one outside a transaction. Later scorings
  keep such an incomplete set, as `len(existing) > 0` does (`Scored`). A failing
  `EnvStore.Range` counts as no reading (`unread`), as `environmentCoherence` has it. A
  link or reading that changes between two segments of one run is not in this model; it
  would only mix evidence of two moments. The samples an analysis
  sees are the table; where the index differs from it is the subject of `Ingest`. A
  sample's sequence number is its second, a window or segment is named by the
  second it starts.
- **`MCPublication`, `MCAnalysis`, `MCIngest`, `MCPipeline`**: values of the
  function constants and the symmetry set.
- **`PublicationProofs`, `IngestProofs`, `AnalysisProofs`, `PipelineProofs`**: theorems about
  `Publication`, `Ingest`, `Analysis` and `Pipeline`, with proofs. **`ValueProofs`**: the lemmas
  about the algorithms that `PipelineProofs` rests on.

## 3. Runs

Every property of a passing run has a mutant in `PROJECT.json`: a plausible bug in
one mapped definition, written just before it, that makes TLC find the property
violated. Deadlock checking is on everywhere: no state is without a step.

| Run | Bounds | Shows |
|---|---|---|
| `publication_one_clock` | 1 clock, 2 snapshots, 1 jump, 2 requests, `Asked` = analyzing, sealed and an illegal value | `TypeOK`, `AtMostOnePublished`, `PublishedIsSealed`, `EvidenceCoversDraft`, and the refinement of `Diagnosis` under every interleaving of two handlers |
| `publication_two_clocks` | 2 clocks with a snapshot each, a link and a jump of the second, 1 request | `EvidenceGrounded` and the refinement: a diagnosis neither names nor supersedes rows of another clock |
| `analysis_safety` | 1 clock, 3 samples in 3 slots, 2 requests and `Recover`, 2 candidates per segment, cancellation and crash anywhere | `UniqueWindows`, `UniqueAnchors`, `RollbackUnreferenced`, `DetectionComplete`, `LiveIsProjection`, `ScoredBeforeVerdict`, `HalfScoresOnlyFromCrash`, `RecoveredBeforeServing`, and the refinement of `Diagnosis` without snapshots |
| `analysis_liveness` | 1 sample, 2 requests, cleanups may fail, any number of crashes | `RequestsEnd`, `RecoveryServes` |
| `ingest_batches` | 2 clocks with 2 samples each, batches of one clock, of two, and with a duplicate, 2 requests, a load stops at 1 row | `BatchAtomic`, `IndexHoldsOnlyStored`, `IndexedOnce`, `IndexLacksOnlyNewest`, and under fairness `RequestsEnd` |
| `pipeline_values` | 3 windows of 2 samples, steady, shifted, noisy or a gap, one upload in another unit, 2 readings, 1 link | `WindowsSummariseTheirSlot`, `WindowsFixed`, `ComparedWithLastStable`, `DetectsMaximalRuns`, `MeasuredFromLastStable`, `EnvironmentScoreGrounded`, `ScoredInOrder` |
| `publication_rewritten` | as one clock | **violated**: `PublishedImmutable` |
| `publication_stale` | as one clock | **violated**: `JumpsFrozenAtPublish` |
| `analysis_review` | 2 samples | **violated**: `ReviewIsAdjudicated` |
| `analysis_sealed` | 2 samples, clients seal | **violated**: `SealedIsFinal` |
| `pipeline_previous` | 3 windows of 2 samples, the second and third on another level than the first | **violated**: `ComparedWithPrevious` |
| `pipeline_runs` | as `pipeline_values` | **violated**: `SegmentsAreRuns` |

*Why the bounds are enough to be interesting.* Two requests give every pairwise
race (publish/publish, publish/status update, analyse/analyse, analyse/ingest);
two snapshots of one clock are needed for superseding; two clocks are needed for
a missing `clock_id` condition to show, and there a single request suffices
because the rows of the other clock change through the environment. Three slots
are the least in which a run of jump windows can be split, extended at the front
by late samples, or separated from another; with `MinSamples = 1` a slot has its
window as soon as it has its sample. A gap window differs from a stable one in
nothing the properties of `Analysis` see; `Pipeline` has gaps. `CandRows = 2` is the least that can be half
written (the code writes 3 or 4). `WindowIds` and `JumpIds` are as many as rows
can exist at once, so no run stops for want of an id. `MaxLoad` is the number of
samples in `Analysis`; in `Ingest` the rows asked for (3) exceed the maximum (2) and a
load gets the default (1), as 10000, 5000 and 1000 do, so that a clock with two
samples is already beyond the limit.
In `Pipeline` an offset unit is a tenth of a ppb and two seconds stand for the
minute; the shift and noise thresholds (5 and 2 units) are the code's, `MinSamples`
is 2 instead of 3. Every window can be a gap, when one of its samples is late, the
outer ones can be noisy, the last has shifted against both others, so that each of
the three can be a jump and each can be stable. Three windows are the least in which
a run grows at either end, or is split by a gap or a stable window. Of the two readings one is within
a minute of every segment and one is too early for a segment that starts last.
`Requests` are interchangeable, hence the symmetry of `analysis_safety`, which
checks no liveness. No run uses a state
constraint: the state spaces are finite as they are.

**Fairness** of `Ingest` (`ingest_batches`): strong fairness of `Continue(w)`, because
its statements compete for one connection. `database/sql` hands a freed connection to
one of the waiting requests, so none waits for ever (with probability one, as the
waiter is picked at random); strong fairness of `Lock(w)` as below.
Nothing forces a transaction to be rolled back on cancellation but the code itself.

**Fairness** of `Analysis` (`analysis_liveness`). Weak fairness
of `Continue(w)`: a goroutine that can take its next step does, as Go schedules
every runnable goroutine and SQLite answers. Strong fairness of `Lock(w)`: a
`sync.Mutex` enters starvation mode after 1 ms and then hands over in FIFO order, so a
waiter is not overtaken for ever. Weak fairness of `Recover`: `main` runs it to
its end. No fairness for new requests, cancellations, status changes, failures
or crashes; `RecoveryServes` says that *if* crashes stop, the server serves.

### What the violated properties say

1. `PublishedImmutable`: "published snapshots allow no modification"
   (`internal/snapshot/snapshot.go:4`). `PublishAndSeal` checks the status before its
   transaction and updates by id only. Two publications of one draft that both
   passed the check: the later one overwrites the published evidence.
2. `JumpsFrozenAtPublish`: "evidence frozen at the instant of publication"
   (`internal/model/model.go:204`). `freeze` runs before the transaction, in three
   statements; a jump detected or confirmed in between is missing or stale.
3. `ReviewIsAdjudicated`: "review: waiting for human adjudication"
   (`internal/model/model.go:30`). A second analysis of a clock in review finds no
   *new* segment and confirms the clock with its segment open.
4. `SealedIsFinal`: "sealed: refuses modification" (`internal/model/model.go:32`).
   Ingest and analysis check once, sealing takes no mutex, and both then write.
5. `SegmentsAreRuns`: "consecutive jump windows are merged into one segment"
   (`README.md:10`, `internal/model/model.go:146`). A run that grows after its segment was
   inserted leaves it as it was (`jumpdetect.go:108`), and a late sample that
   puts a jump window before the run gets it a second, overlapping segment.
   (`DetectsMaximalRuns` says what does hold: each *new* segment is a maximal run.)
6. `ComparedWithPrevious`: "jump: the mean is off the previous window by more than the
   threshold" (`internal/windowing/windowing.go:5`, `internal/baseline/baseline.go:80`).
   `BuildCtx` moves its reference only at stable windows (`windowing.go:134`): after a
   shift every window of the new level is a jump, though it is not off the one before it,
   and the new level never becomes the reference. (`ComparedWithLastStable` says what the
   comparison is, for a slot that is filled late too.)

## 4. Proofs

`PublicationProofs` proves, for every value of the constants that satisfies
`PublicationAssumption` (each snapshot, link and jump row belongs to a clock, and
`None` is no snapshot):

| Theorem | States |
|---|---|
| `TypeCorrect` | `Spec => []TypeOK` |
| `OnePublication` | `Spec => []AtMostOnePublished` |
| `PublishedSealed` | `Spec => []PublishedIsSealed` |
| `EvidenceComplete` | `Spec => []EvidenceCoversDraft` |
| `EvidenceSound` | `Spec => []EvidenceGrounded` |
| `Refinement` | `Spec => ImplementsDiagnosis` |

None of the properties is inductive by itself: `PublishedIsSealed` says nothing of
a status update in flight, `EvidenceCoversDraft` nothing of what a request has
read and not yet stored. The inductive invariant is

    IInv == TypeInv /\ Publishing /\ EvidenceInv /\ \A r \in Requests : ReadsOK(req[r])

`TypeInv` adds to `TypeOK` the shape of each request: a publication has a snapshot
and that snapshot's clock, and the status an update wants to write is a legal successor
of the one it read. `Publishing` is the first two safety properties, `EvidenceInv`
the two about evidence plus the fact that stored drafts name only jumps and links that
exist. `ReadsOK` says of a request between two statements that what it read is
still true in the weak sense that survives the writes of others: its links and jumps
belong to its clock, its jumps are at most as far as the table, and a publication
that has read the jumps has seen all that its draft names. The compare-and-set
argument is there: when the `WHERE` clause matches, the status read is the
current one, so the write is a legal move, and `sealed` has none. There is a lemma for
each action, or group of actions that touch the same variables, then the temporal
steps by `PTL`.

The refinement maps `status` to the clocks table and `inForce` to *the* published
snapshot of each clock; it needs `AtMostOnePublished` for the mapping to
be well defined and `PublishedIsSealed` for a superseding publication to be a step of
`Diagnosis` that leaves the clock sealed. Everything else is a stutter.

`IngestProofs` proves about `Ingest`, for every set of clocks, samples, batches and
requests and every limit of `ListByClock` that satisfies `IngestAssumption`
(each sample has a clock and a time, batches are not empty):

| Theorem | States |
|---|---|
| `TypeCorrect` | `Spec => []TypeOK` |
| `BatchesAtomic` | `Spec => BatchAtomic` |
| `IndexSound` | `Spec => []IndexHoldsOnlyStored` |
| `IndexOnce` | `Spec => []IndexedOnce` |
| `IndexComplete` | `Spec => []IndexLacksOnlyNewest` |

The invariant has layers, each inductive given the ones before it. `TypeInv` adds to
`TypeOK` the shape of each request and `Exclusion`: a request past `Lock` holds the
mutex of its clock, and nobody else does. `TxOK`: the rows of the open
transaction are the inputs before `next`, all new and distinct; with it `Commit` adds a
whole batch (`BatchesAtomic`). `StoredOK`: what is in the index or waits to be
appended or replaced is stored (`IndexSound`). `BootOK`: nobody is at work while
`Recover` runs. `OnceOK`: what waits to be appended is not in the index yet; here `Exclusion`
decides, because of two requests that bring one sample into the index both would hold the
mutex of its clock, unless a batch carries it under another one: that is the set
`Foreign` the property exempts (`service.go:84`). `CompleteOK`: a stored sample that is
not in the index waits to be appended, or the index holds `Limit` samples that are not
newer; the same is kept of the list an analysis has read and not yet stored. `StepKinds` splits
the next-state relation into the few kinds of step that touch rows or index, so that each
layer looks only at those.

`AnalysisProofs` proves about `Analysis`, for every set of clocks, samples, requests,
slots and row ids, every `MinSamples` and every number of candidates per scoring that
satisfies `AnalysisAssumption` (each sample has a clock and a slot, `Recovery` is not a
request, `None` is no row):

| Theorem | States |
|---|---|
| `TypeCorrect` | `Spec => []TypeOK` |
| `MutexHolds` | `Spec => []MutualExclusion`: no two handlers in one clock's critical section |
| `WindowsUnique` | `Spec => []UniqueWindows` |
| `AnchorsUnique` | `Spec => []UniqueAnchors` |
| `RollbackSafe` | `Spec => []RollbackUnreferenced` |
| `DetectionDone` | `Spec => []DetectionComplete` |
| `VerdictScored` | `Spec => []ScoredBeforeVerdict` |
| `HalfScoreCrash` | `Spec => HalfScoresOnlyFromCrash`, if `~CleanupFails` |
| `BootRecovered` | `Spec => RecoveredBeforeServing` |
| `LiveProjection` | `Spec => []LiveIsProjection`, if `FitsLoad` |
| `Refinement` | `Spec => ImplementsDiagnosis` |

The two hypotheses are what the code needs. With `CleanupFails` a failed
`DeleteCandidatesForJump` leaves candidates behind, and its error is ignored.
`FitsLoad` says that no clock has more samples than `ListByClock` returns (1000); beyond
that the index is not the table after a restart (section 5).

The inductive invariant is

    IInv == TypeInv /\ TablesOK /\ \A w \in Workers : RunOK(req[w])

`TypeInv` adds to `TypeOK` the shape of each worker's record and `Exclusion`: a worker
past `Lock` is the holder of its clock. `TablesOK` are the keys: ids are unique, a segment's
window exists and belongs to the segment's clock, candidates have a segment, and the two
uniqueness properties, which are the point. They are not inductive without `RunOK`, which says
what the work a handler has still before it may rely on: no slot it will build has a window
(`BuildOK`, for `UniqueWindows`); no window it has inserted, or owes a segment, is
referenced (`FreshOK`, `PendingOK`, for `RollbackUnreferenced` and `UniqueAnchors`); every
run start is referenced or still pending (`CoveredOK`, for `DetectionComplete`); the
segments it has found exist and are scored in full, not at all, or are the one being scored
(`FoundOK`, `ScoresOK`). All of this is about rows of the worker's own clock, so it survives
the steps of others: two workers past `Lock` have different clocks, and a step writes rows of its own
clock only. `BystanderOK` is that argument, stated once; `WriteStep` combines it with the
obligations of the worker that moves, `QuietStep` is the case of a step that writes no row
the invariant speaks of. Below them there is a lemma for each action. `DeleteIDs` needs the
ids a run inserted to be still its own: a rolled-back id leaves `fresh`, because the
model may hand it out again, where the table's `AUTOINCREMENT` would not.

On top of it come layers for the properties of crash and recovery. `BootOK`: requests and `Recover`
are never at work together. `RecoveryOK`: while the server does not listen, a clock in
`analyzing` waits for `Recover` or is in its hands, and the resumed analysis goes straight to
its verdict, since nobody else moves the clock meanwhile; so the clock has left `analyzing`
when it ends. `LiveOK`: the index is exact for every clock `Recover` has
visited. `CasOK`: a status on its way to the table is a legal successor of the one read;
with the compare-and-set it makes every status write a `Move` of `Diagnosis`, and all the rest
stutters.

`PipelineProofs` proves about `Pipeline`, for every set of uploads, readings and links and
every nominal frequency, window width, threshold and margin that satisfies the assumptions of
the modules it composes:

| Theorem | States |
|---|---|
| `TypeCorrect` | `Spec => []TypeOK` |
| `WindowsSummarise` | `Spec => []WindowsSummariseTheirSlot` |
| `WindowsKept` | `Spec => WindowsFixed` |
| `ComparedOK` | `Spec => ComparedWithLastStable` |
| `MaximalRunsDetected` | `Spec => DetectsMaximalRuns` |
| `MeasuredOK` | `Spec => MeasuredFromLastStable` |
| `EnvironmentGrounded` | `Spec => []EnvironmentScoreGrounded` |
| `ScoringOrdered` | `Spec => ScoredInOrder` |

Assumed are integer time stamps and frequencies, a positive width and frequency, thresholds
that are naturals, a positive least magnitude (`0.001` in the code), and an `OffsetScale` that is
a multiple of 20: the tolerance of 5 % is then a whole number of offset units, as it is in ppb.
The offset is rounded down, so without it a reading at the limit could be stored one unit beyond.

The inductive invariant says where each row comes from: a sample is an accepted upload
(`SamplesOK`), finitely many links exist (`LinksOK`), a window starts on the grid and
summarises samples of its minute (`WindowsOK`), a segment has an anchor of its own
(`JumpsOK`), and candidates belong to a segment and are rows, all or some, that one run of
`ScoreCtx` makes of two scores between 0 and 1 (`CandidatesOK`). `StepKinds` reduces the
next-state relation to the steps that only cut windows (`Builds`), those that cut all due windows
and go on to segments and candidates (`Writes`), attributions (`Attributes`), and the requests
of clients.

`ScoringOrdered` cannot say that every scored segment has a credible candidate or
`insufficient`: a scoring that was interrupted between two rows leaves a segment that has
neither, for good. It says where that can be. The segments an analysis finds had no
candidates before (`FoundUnscored`); a scoring that stops completes those before the one
it stops at and touches none after it (`ScoredUpToRows`); and a complete set supports its verdict,
by arithmetic on two scores (`CandidateRows`). So an incomplete set belongs to the last
segment scored, and no run that leaves one moves the clock.

The loops of the algorithms are folds over finite sets. A fold is defined by `CHOOSE` of a
function that satisfies its recursive equation; `FoldExists` shows, by well-founded
induction on subsets, that one exists, and `BuildFold`, `DetectFold`, `MeansFold`,
`DenFold` name it. `ChainInduction` then plays the part of a loop invariant: it has to hold of the
empty set, and of a set if it holds of the set without its last element. The loop invariants are

- `BuiltRows` and `BuiltInOrder`: after the slots of `T`, each has its window, and `prev` is the
  mean of the last stable one cut so far, or of the newest stable one there was before the loop,
  earlier or later (`BuildReference`). The premise `NoSlotLeft` of `ComparedWithLastStable` tells a
  step that has run the loop to its end from one that has lost part of it again;
- `ScanRuns`: after the windows of `T`, the open run is the trailing jump windows of `T`, and the
  segments inserted are the maximal runs of `T` that end before those (`OneMoreWindow` is the step,
  `OpenRun` says that the trailing windows are one maximal run). `DetectSpans` concludes that the
  scan finds what `Runs` defines without one;
- `ScanMeasures`: the reference of the scan is the last stable window of `T`, and each inserted
  segment was measured from the last stable window before it. `SegmentMeasure` and `MeanBetween`
  are the arithmetic: back from the reference by the magnitude is the mean of means, which lies
  between two of the means because the fold of a sum is bounded by its parts.

Only model-checked is liveness (`RequestsEnd`, `RecoveryServes`): fairness and `ENABLED` are
out of the prover's reach. Every other property of a passing run is a theorem.

## 5. Not modelled

- `Recover`'s branch that seals a clock with a published snapshot: it is dead, by
  `PublishedIsSealed` (a theorem), unless another program wrote the file.
- Code that nothing calls: `ClockStore.UpdateReference`, `SetClockSealedOnPublish`,
  `Builder.Exclude` (so no window is ever `raw` or `excluded`), and `SnapshotStore.Publish`
  (tests only). The link status `suspect` is in `Model` and written by nobody.
  `IngestMany` and `AttributeJump` have no route either, but are part of the service
  and modelled.
- `ClockStore.MarkIsReference`, which clock creation calls: the flag guards nothing.
- Rounding of floating point, time stamps below a second, the label
  `ParseBaseline` returns, texts of rationales, JSON, HTTP status codes, statistics,
  read-only routes, the self test: data or output that no modelled state change depends on.

Seen in the models and stated as exemptions of a property rather than as a run:

- After a restart a clock with more than 1000 samples has only its oldest 1000 in the
  index, although `live.go:9` calls the index a projection of the samples; analyses then
  cut no window from the others (`BeyondLimit` in `IndexLacksOnlyNewest`).
- A batch over two clocks may leave a sample twice in the index, or out of it, when an
  analysis loads the second clock meanwhile (`Foreign` in `IndexedOnce` and
  `IndexLacksOnlyNewest`: without the exemption both are violated on the instance).
- A build that stops, and whose `DeleteIDs` does not get to its end, leaves windows that were
  classified against windows that are gone (`window_store.go:74`):
  `NoSlotLeft` in `ComparedWithLastStable`.

Seen while modelling, where the code differs from a comment and no property takes a side:

- "cancelling rolls back the windows of the run" (`service.go:102`): a cancellation noticed while
  building does, a later one leaves windows and segments, and `DetectionComplete` shows that
  the next analysis picks the windows up. Segments it leaves *unscored* are scored by nobody
  but `AttributeJump`: the next analysis finds their anchors covered and confirms the clock.
- `AttributeJump` "scores the segment anew" (`service.go:236`): a segment that has candidates
  keeps them (`attribution.go:62`), so readings and links that changed since have no effect.
- A candidate set without a credible row and without `insufficient` (`attribution.go:8`)
  remains after an interrupted scoring, see `ScoringOrdered`.
- "an error of a lower layer must be wrapped" (`attribution.go:46`): an error of
  `EnvStore.Range` is an environment score of zero (`attribution.go:105`).
- The comments want a device blamed when all links agree (`attribution.go:6`, `:133`); the code
  wants more than half of them not healthy (`attribution.go:75`).
- "sealed: refuses modification" (`model.go:32`): a draft of a clock that is sealed between the
  check of `CreateDraft` and its insert is stored, and may be published and replace the
  diagnosis in force. `Publication` has these steps and `Diagnosis` allows them: it
  promises one diagnosis in force, not the first one.

## 6. Plan

1. *(done)* `Model`, `Diagnosis`, `Publication`, `PublicationProofs`.
2. *(done)* `Analysis` with its runs.
3. *(done)* `Ingest` with its run, and `IngestProofs`.
4. *(done)* `Baseline`, `Windowing`, `JumpDetect`, `Attribution`, composed in `Pipeline`.
5. *(done)* `AnalysisProofs`: all safety properties of `Analysis` and its refinement of
   `Diagnosis`.
6. *(done)* `ValueProofs`, `PipelineProofs`: all properties of `Pipeline`.
7. `Service`: `Analysis` and `Publication` over shared tables, one stepping the jumps the
   other freezes; what a sealed clock still admits.
