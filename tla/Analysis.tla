------------------------------ MODULE Analysis ------------------------------
(***************************************************************************)
(* The analysis of a clock: sample ingest, AnalyzeClockCtx (windows, jumps, *)
(* candidates, status), cancellation at every point of it, process crash   *)
(* and Recover.  (internal/service, windowing, jumpdetect, attribution,    *)
(* sampling and their stores)                                              *)
(*                                                                         *)
(* Ingest and analysis hold the clock's mutex; PATCH status, seal and      *)
(* confirm do not.  A SQL statement is one step (one connection); reads of *)
(* tables written only under the mutex are merged with the step that uses  *)
(* them.  Values are abstracted: a sample is its upload and its time slot, *)
(* and what classify says of a window with enough samples is any of its    *)
(* outcomes.                                                               *)
(***************************************************************************)
EXTENDS Model, Naturals, FiniteSets

CONSTANTS Clocks, Requests,
          Recovery,                   \* the goroutine of main that runs Recover
          Samples, SampleClock, SampleSlot, \* uploads (clock_id, seq) and their aligned window
          WindowIds, JumpIds,         \* primary keys the tables can hand out
          MinSamples,                 \* baseline.MinSamplesPerWindow
          CandRows,                   \* candidate rows of one scoring
          MaxLoad,                    \* rows ListByClock returns at most
          Asked,                      \* what clients ask of PATCH status and seal
          Confirmable,                \* segments clients confirm
          CleanupFails,               \* may the cleanup statements fail too?
          None

Workers == Requests \cup {Recovery}

ASSUME AnalysisAssumption ==
  /\ SampleClock \in [Samples -> Clocks]
  /\ SampleSlot \in [Samples -> Nat]
  /\ MinSamples \in Nat /\ MaxLoad \in Nat \ {0} /\ CandRows \in Nat \ {0}
  /\ CleanupFails \in BOOLEAN
  /\ Recovery \notin Requests
  /\ None \notin Workers \cup Clocks \cup Samples \cup JumpIds

VARIABLES clockStatus,  \* clocks.status
          samples,      \* rows of samples
          windows,      \* rows of freq_windows
          jumps,        \* rows of jump_segments
          candidates,   \* number of source_candidates rows of each jump
          live,         \* liveIndex: how many copies of each sample it holds
          holder,       \* clockMu: who holds each clock's mutex
          serving,      \* ListenAndServe has started
          toRecover,    \* clocks Recover has still to visit
          req           \* local state of each worker

tables == <<clockStatus, samples, windows, jumps, candidates>>
boot == <<serving, toRecover>>
vars == <<tables, live, holder, boot, req>>

Slots == {SampleSlot[s] : s \in Samples}
Window == [id : WindowIds, clock : Clocks, slot : Slots, status : {"stable", "jump", "gap"}]
Jump == [id : JumpIds, clock : Clocks, window : WindowIds, status : JumpStatus]

\* Steps of the pipeline that run under the mutex.
Locked == {"ingest.check", "ingest.insert", "load", "build", "rollback", "detect",
           "jumps", "score", "candidates", "unscore", "mark", "mark.update", "finish", "finish.update"}
Finishing == {"mark", "mark.update", "finish", "finish.update"}
Steps == {"idle", "ingest.lock", "analyze.lock"} \cup Locked

Worker == [pc      : Steps,
           clock   : Clocks \cup {None},
           sample  : Samples \cup {None},       \* upload being ingested
           seen    : ClockStatus \cup {"none"}, \* clk.Status as last read
           snap    : SUBSET Samples,            \* copy of the live index
           todo    : SUBSET Slots,              \* windows still to build
           fresh   : SUBSET WindowIds,          \* windows inserted by this run, not rolled back
           pending : SUBSET WindowIds,          \* run starts without a segment
           found   : SUBSET JumpIds,            \* segments inserted by this run
           unscored : SUBSET JumpIds,           \* those not scored yet
           jump    : JumpIds \cup {None},       \* the one being scored
           cas     : ClockStatus \cup {"none"}] \* status read by SetStatus
Idle == [pc |-> "idle", clock |-> None, sample |-> None, seen |-> "none", snap |-> {},
         todo |-> {}, fresh |-> {}, pending |-> {}, found |-> {}, unscored |-> {},
         jump |-> None, cas |-> "none"]

TypeOK == /\ clockStatus \in [Clocks -> ClockStatus]
          /\ samples \subseteq Samples
          /\ windows \subseteq Window
          /\ jumps \subseteq Jump
          /\ candidates \in [JumpIds -> 0..CandRows]
          /\ live \in [Samples -> Nat]
          /\ holder \in [Clocks -> Workers \cup {None}]
          /\ serving \in BOOLEAN
          /\ toRecover \subseteq Clocks
          /\ req \in [Workers -> Worker]

\* A database whose clocks exist and have no samples yet, the server listening.
Init == /\ clockStatus = [c \in Clocks |-> "collecting"]
        /\ samples = {} /\ windows = {} /\ jumps = {}
        /\ candidates = [j \in JumpIds |-> 0]
        /\ live = [s \in Samples |-> 0]
        /\ holder = [c \in Clocks |-> None]
        /\ serving = TRUE /\ toRecover = {}
        /\ req = [w \in Workers |-> Idle]

-----------------------------------------------------------------------------
(* Queries and helpers *)

WindowsOf(c) == {win \in windows : win.clock = c}
JumpsOf(c) == {j \in jumps : j.clock = c}
SamplesOf(c) == {s \in samples : SampleClock[s] = c}
LiveOf(c) == {s \in Samples : SampleClock[s] = c /\ live[s] > 0}

\* What ListByClock may return: the MaxLoad oldest rows, ties in any order.
Loads(c) == {S \in SUBSET SamplesOf(c) :
               /\ Cardinality(S) = IF Cardinality(SamplesOf(c)) <= MaxLoad
                                   THEN Cardinality(SamplesOf(c)) ELSE MaxLoad
               /\ \A s \in S, t \in SamplesOf(c) \ S : SampleSlot[s] <= SampleSlot[t]}

\* liveIndex.Replace
Replaced(c, S) == [s \in Samples |-> IF SampleClock[s] # c THEN live[s]
                                     ELSE IF s \in S THEN 1 ELSE 0]

\* Primary keys.  They are AUTOINCREMENT and never reused; here an id is free again
\* once its row is rolled back, when no worker and no segment names it any more.
FreshWindowId == CHOOSE i \in WindowIds : \A win \in windows : win.id # i
FreshJumpId == CHOOSE i \in JumpIds : \A j \in jumps : j.id # i
First(S) == CHOOSE k \in S : \A m \in S : k <= m

\* The maximal runs of jump windows in a list ordered by start_at.
Before(win, rows) == {p \in rows : /\ p.slot < win.slot
                                   /\ \A q \in rows : q.slot < win.slot => q.slot <= p.slot}
StartsRun(win, rows) == /\ win.status = "jump"
                        /\ \A p \in Before(win, rows) : p.status # "jump"

\* windowing.classify: too few samples make a gap; otherwise the deviation or
\* the shift decides.
Classify(n) == IF n < MinSamples THEN {"gap"} ELSE {"stable", "jump"}

\* The deferred Unlock and the end of the handler.
Unlocked(w) == [holder EXCEPT ![req[w].clock] = None]
Return(w) == /\ holder' = Unlocked(w)
             /\ req' = [req EXCEPT ![w] = Idle]
Goto(w, step) == req' = [req EXCEPT ![w].pc = step]

-----------------------------------------------------------------------------
(* Service.lockClock *)

AcquireAlways(w, from, to) ==   \* mutant: each request locks a mutex of its own
  /\ req[w].pc = from
  /\ holder' = [holder EXCEPT ![req[w].clock] = w]
  /\ Goto(w, to)
  /\ UNCHANGED <<tables, live, boot>>
Acquire(w, from, to) ==
  /\ req[w].pc = from
  /\ holder[req[w].clock] = None
  /\ holder' = [holder EXCEPT ![req[w].clock] = w]
  /\ Goto(w, to)
  /\ UNCHANGED <<tables, live, boot>>

-----------------------------------------------------------------------------
(* Service.IngestSample *)

IngestBegin(w, s) ==
  /\ serving /\ req[w].pc = "idle"
  /\ req' = [req EXCEPT ![w] = [Idle EXCEPT !.pc = "ingest.lock", !.sample = s,
                                            !.clock = SampleClock[s]]]
  /\ UNCHANGED <<tables, live, holder, boot>>

IngestLock(w) == Acquire(w, "ingest.lock", "ingest.check")

\* Receiver.prepare refuses a sealed clock.
IngestCheck(w) ==
  /\ req[w].pc = "ingest.check"
  /\ IF clockStatus[req[w].clock] = "sealed"
     THEN Return(w)
     ELSE Goto(w, "ingest.insert") /\ UNCHANGED holder
  /\ UNCHANGED <<tables, live, boot>>

\* SampleStore.Insert, UNIQUE(clock_id, seq); only a stored sample is appended
\* to the live index.  Both under the mutex, so no one sees one without the other.
IngestInsertAnyway(w) ==   \* mutant: a duplicate upload is appended to the index
  /\ req[w].pc = "ingest.insert"
  /\ samples' = samples \cup {req[w].sample}
  /\ live' = [live EXCEPT ![req[w].sample] = @ + 1]
  /\ Return(w)
  /\ UNCHANGED <<clockStatus, windows, jumps, candidates, boot>>
IngestInsert(w) ==
  /\ req[w].pc = "ingest.insert"
  /\ samples' = samples \cup {req[w].sample}
  /\ live' = IF req[w].sample \in samples THEN live
             ELSE [live EXCEPT ![req[w].sample] = @ + 1]
  /\ Return(w)
  /\ UNCHANGED <<clockStatus, windows, jumps, candidates, boot>>

-----------------------------------------------------------------------------
(* Service.AnalyzeClockCtx *)

AnalyzeBegin(w, c) ==
  /\ serving /\ req[w].pc = "idle"
  /\ req' = [req EXCEPT ![w] = [Idle EXCEPT !.pc = "analyze.lock", !.clock = c]]
  /\ UNCHANGED <<tables, live, holder, boot>>

AnalyzeLock(w) == Acquire(w, "analyze.lock", "load")

\* Refuse a sealed clock; copy the live index, filling it from the table when
\* it is empty; BuildCtx then groups the copy and skips the slots that have a
\* window already.
Load(w) ==
  LET c == req[w].clock
      begin(snap) == [req EXCEPT ![w] =
                        [@ EXCEPT !.pc = "build", !.seen = clockStatus[c], !.snap = snap,
                                  !.todo = {SampleSlot[s] : s \in snap}
                                           \ {win.slot : win \in WindowsOf(c)}]]
  IN /\ req[w].pc = "load"
     /\ \/ /\ clockStatus[c] = "sealed"
           /\ Return(w)
           /\ UNCHANGED live
        \/ /\ clockStatus[c] # "sealed"
           /\ LiveOf(c) # {}
           /\ req' = begin(LiveOf(c))
           /\ UNCHANGED <<live, holder>>
        \/ /\ clockStatus[c] # "sealed"
           /\ LiveOf(c) = {}
           /\ \E S \in Loads(c) : live' = Replaced(c, S) /\ req' = begin(S)
           /\ UNCHANGED holder
     /\ UNCHANGED <<tables, boot>>

\* One turn of BuildCtx's insert loop: the windows in time order.
BuildWindow(w) ==
  LET c == req[w].clock
      k == First(req[w].todo)
      n == Cardinality({s \in req[w].snap : SampleSlot[s] = k})
  IN /\ req[w].pc = "build"
     /\ req[w].todo # {}
     /\ \E i \in WindowIds : \A win \in windows : win.id # i
     /\ \E status \in Classify(n) :
          windows' = windows \cup {[id |-> FreshWindowId, clock |-> c, slot |-> k,
                                    status |-> status]}
     /\ req' = [req EXCEPT ![w].todo = @ \ {k},
                           ![w].fresh = @ \cup {FreshWindowId}]
     /\ UNCHANGED <<clockStatus, samples, jumps, candidates, live, holder, boot>>

BuildDone(w) == /\ req[w].pc = "build"
                /\ req[w].todo = {}
                /\ Goto(w, "detect")
                /\ UNCHANGED <<tables, live, holder, boot>>

\* DetectCtx: the runs whose first window anchors no segment yet.
DetectAll(w) ==   \* mutant: covered is not consulted
  LET rows == WindowsOf(req[w].clock)
  IN /\ req[w].pc = "detect"
     /\ req' = [req EXCEPT ![w].pc = "jumps",
                           ![w].pending = {win.id : win \in {v \in rows : StartsRun(v, rows)}}]
     /\ UNCHANGED <<tables, live, holder, boot>>
DetectFresh(w) ==   \* mutant: only the windows of this run are looked at
  LET rows == WindowsOf(req[w].clock)
  IN /\ req[w].pc = "detect"
     /\ req' = [req EXCEPT ![w].pc = "jumps",
                           ![w].pending = {win.id : win \in {v \in rows : /\ StartsRun(v, rows)
                                                                         /\ v.id \in req[w].fresh}}
                                          \ {j.window : j \in JumpsOf(req[w].clock)}]
     /\ UNCHANGED <<tables, live, holder, boot>>
Detect(w) ==
  LET rows == WindowsOf(req[w].clock)
  IN /\ req[w].pc = "detect"
     /\ req' = [req EXCEPT ![w].pc = "jumps",
                           ![w].pending = {win.id : win \in {v \in rows : StartsRun(v, rows)}}
                                          \ {j.window : j \in JumpsOf(req[w].clock)}]
     /\ UNCHANGED <<tables, live, holder, boot>>

\* The earliest run first; the segment is anchored at its first window.
InsertJump(w) ==
  LET rows == WindowsOf(req[w].clock)
      win == CHOOSE v \in rows : /\ v.id \in req[w].pending
                                 /\ \A u \in rows : u.id \in req[w].pending => v.slot <= u.slot
  IN /\ req[w].pc = "jumps"
     /\ req[w].pending # {}
     /\ \E i \in JumpIds : \A j \in jumps : j.id # i
     /\ jumps' = jumps \cup {[id |-> FreshJumpId, clock |-> req[w].clock, window |-> win.id,
                              status |-> "open"]}
     /\ req' = [req EXCEPT ![w].pending = @ \ {win.id},
                           ![w].found = @ \cup {FreshJumpId},
                           ![w].unscored = @ \cup {FreshJumpId}]
     /\ UNCHANGED <<clockStatus, samples, windows, candidates, live, holder, boot>>

DetectDone(w) == /\ req[w].pc = "jumps"
                 /\ req[w].pending = {}
                 /\ Goto(w, "score")
                 /\ UNCHANGED <<tables, live, holder, boot>>

\* ScoreCtx of the next segment: one that has candidates is left as it is.
ScoreJumpSwallowing(w) ==   \* mutant: a scoring error is logged and the loop goes on
  /\ req[w].pc = "score"
  /\ \E j \in req[w].unscored :
       \/ req' = [req EXCEPT ![w].unscored = @ \ {j}]
       \/ req' = [req EXCEPT ![w].pc = "candidates", ![w].jump = j]
  /\ UNCHANGED <<tables, live, holder, boot>>
ScoreJump(w) ==
  /\ req[w].pc = "score"
  /\ \E j \in req[w].unscored :
       req' = IF candidates[j] > 0
              THEN [req EXCEPT ![w].unscored = @ \ {j}]
              ELSE [req EXCEPT ![w].pc = "candidates", ![w].jump = j]
  /\ UNCHANGED <<tables, live, holder, boot>>

\* The candidates are inserted one statement each, outside a transaction.
InsertExtraCandidate(w) ==   \* mutant: one row too many
  LET j == req[w].jump
      last == candidates[j] = CandRows
  IN /\ req[w].pc = "candidates"
     /\ candidates' = [candidates EXCEPT ![j] = @ + 1]
     /\ req' = IF last THEN [req EXCEPT ![w].pc = "score", ![w].jump = None,
                                        ![w].unscored = @ \ {j}]
               ELSE req
     /\ UNCHANGED <<clockStatus, samples, windows, jumps, live, holder, boot>>
InsertCandidate(w) ==
  LET j == req[w].jump
      last == candidates[j] + 1 = CandRows
  IN /\ req[w].pc = "candidates"
     /\ candidates' = [candidates EXCEPT ![j] = @ + 1]
     /\ req' = IF last THEN [req EXCEPT ![w].pc = "score", ![w].jump = None,
                                        ![w].unscored = @ \ {j}]
               ELSE req
     /\ UNCHANGED <<clockStatus, samples, windows, jumps, live, holder, boot>>

ScoreDone(w) == /\ req[w].pc = "score"
                /\ req[w].unscored = {}
                /\ Goto(w, IF req[w].seen = "collecting" THEN "mark" ELSE "finish")
                /\ UNCHANGED <<tables, live, holder, boot>>

-----------------------------------------------------------------------------
(* ClockStore.SetStatus as the analysis calls it *)

\* Read: a sealed clock or an illegal move ends the analysis with an error.
SetStatusGet(w, next, step) ==
  /\ IF CanTransition(clockStatus[req[w].clock], next)
     THEN /\ req' = [req EXCEPT ![w].pc = step, ![w].cas = clockStatus[req[w].clock]]
          /\ UNCHANGED holder
     ELSE Return(w)
  /\ UNCHANGED <<tables, live, boot>>

\* Write, if the status is still the one read.
SetById(w, next) ==   \* mutant: UPDATE ... WHERE id alone
  clockStatus' = [clockStatus EXCEPT ![req[w].clock] = next]
CompareAndSet(w, next) ==
  clockStatus' = IF clockStatus[req[w].clock] = req[w].cas
                 THEN [clockStatus EXCEPT ![req[w].clock] = next] ELSE clockStatus

Mark(w) == req[w].pc = "mark" /\ SetStatusGet(w, "analyzing", "mark.update")

\* The clock is read again afterwards: seen is whatever the table then says.
MarkUpdate(w) ==
  /\ req[w].pc = "mark.update"
  /\ CompareAndSet(w, "analyzing")
  /\ req' = [req EXCEPT ![w].pc = "finish", ![w].seen = clockStatus'[req[w].clock]]
  /\ UNCHANGED <<samples, windows, jumps, candidates, live, holder, boot>>

\* No new segment means confirmed, whatever segments the clock already has.
Verdict(w) == IF req[w].found = {} THEN "confirmed" ELSE "review"

Finish(w) ==
  /\ req[w].pc = "finish"
  /\ IF CanTransition(req[w].seen, Verdict(w))
     THEN SetStatusGet(w, Verdict(w), "finish.update")
     ELSE Return(w) /\ UNCHANGED <<tables, live, boot>>

FinishUpdate(w) ==
  /\ req[w].pc = "finish.update"
  /\ CompareAndSet(w, Verdict(w))
  /\ Return(w)
  /\ UNCHANGED <<samples, windows, jumps, candidates, live, boot>>

-----------------------------------------------------------------------------
(* Cancellation and failed statements *)

\* What the handler does when its context is cancelled, or its next statement
\* fails: roll the windows back while building, drop the candidates of the
\* segment being scored, and otherwise just return.
CleanupStep(w) ==
  CASE req[w].pc = "build" -> "rollback"
    [] req[w].pc \in {"score", "candidates"} -> "unscore"
    [] OTHER -> "idle"

CancelKeepsLock(w) ==   \* mutant: an error return before the Unlock was deferred
  /\ w # Recovery
  /\ req[w].pc \in Locked \ {"rollback", "unscore"}
  /\ IF CleanupStep(w) = "idle"
     THEN req' = [req EXCEPT ![w] = Idle] /\ UNCHANGED holder
     ELSE Goto(w, CleanupStep(w)) /\ UNCHANGED holder
  /\ UNCHANGED <<tables, live, boot>>
CancelKeepsCandidates(w) ==   \* mutant: candidates written so far are left behind
  /\ w # Recovery
  /\ req[w].pc \in Locked \ {"rollback", "unscore"}
  /\ IF req[w].pc # "build" THEN Return(w)
     ELSE Goto(w, "rollback") /\ UNCHANGED holder
  /\ UNCHANGED <<tables, live, boot>>
Cancel(w) ==
  /\ w # Recovery
  /\ req[w].pc \in Locked \ {"rollback", "unscore"}
  /\ IF CleanupStep(w) = "idle" THEN Return(w)
     ELSE Goto(w, CleanupStep(w)) /\ UNCHANGED holder
  /\ UNCHANGED <<tables, live, boot>>

\* WindowStore.DeleteIDs, one statement per window; each id is deleted once.
RolledBackByClock(w) == WindowsOf(req[w].clock)   \* mutant: DELETE ... WHERE clock_id
RolledBack(w) == {win \in windows : win.id \in req[w].fresh}

\* jump_segments.window_id REFERENCES freq_windows(id), foreign keys enforced.
Referenced(win) == \E j \in jumps : j.window = win.id

Rollback(w) ==
  /\ req[w].pc = "rollback"
  /\ \E win \in RolledBack(w) : /\ ~Referenced(win)
                               /\ windows' = windows \ {win}
                               /\ req' = [req EXCEPT ![w].fresh = @ \ {win.id}]
  /\ UNCHANGED <<clockStatus, samples, jumps, candidates, live, holder, boot>>

\* All deleted, or a delete the foreign key refuses; that error is dropped.
RollbackDone(w) ==
  /\ req[w].pc = "rollback"
  /\ RolledBack(w) # {} => \E win \in RolledBack(w) : Referenced(win)
  /\ Return(w)
  /\ UNCHANGED <<tables, live, boot>>

\* JumpStore.DeleteCandidatesForJump
Unscore(w) ==
  /\ req[w].pc = "unscore"
  /\ candidates' = [j \in JumpIds |-> IF j = req[w].jump THEN 0 ELSE candidates[j]]
  /\ Return(w)
  /\ UNCHANGED <<clockStatus, samples, windows, jumps, live, boot>>

\* The errors of both cleanups are ignored.
CleanupError(w) == /\ CleanupFails
                   /\ w # Recovery
                   /\ req[w].pc \in {"rollback", "unscore"}
                   /\ Return(w)
                   /\ UNCHANGED <<tables, live, boot>>

-----------------------------------------------------------------------------
(* Writers that do not take the mutex *)

\* PATCH status and seal: the read and the compare-and-set of SetStatus take
\* effect together or not at all.
SetStatus(c, next) ==
  /\ serving
  /\ CanTransition(clockStatus[c], next)
  /\ clockStatus' = [clockStatus EXCEPT ![c] = next]
  /\ UNCHANGED <<samples, windows, jumps, candidates, live, holder, boot, req>>

ConfirmJump(j) ==
  /\ serving
  /\ j.id \in Confirmable
  /\ j.status = "open"
  /\ jumps' = (jumps \ {j}) \cup {[j EXCEPT !.status = "confirmed"]}
  /\ UNCHANGED <<clockStatus, samples, windows, candidates, live, holder, boot, req>>

-----------------------------------------------------------------------------
(* Crash and Recover *)

\* The tables survive; mutexes, live index and requests do not.  A failure
\* inside Recover ends the process too (log.Fatalf).
Crash == /\ live' = [s \in Samples |-> 0]
         /\ holder' = [c \in Clocks |-> None]
         /\ serving' = FALSE
         /\ toRecover' = Clocks
         /\ req' = [w \in Workers |-> Idle]
         /\ UNCHANGED tables

\* One turn of Recover's loop: load the live index and, if the clock was being
\* analysed, run the analysis again.
RecoverClockOnlyLoads(c) ==   \* mutant: the analysis is not resumed
  /\ ~serving /\ c \in toRecover
  /\ req[Recovery].pc = "idle"
  /\ \E S \in Loads(c) : live' = Replaced(c, S)
  /\ toRecover' = toRecover \ {c}
  /\ UNCHANGED <<tables, holder, serving, req>>
RecoverClockLocked(c) ==   \* mutant: Recover locks the clock before it calls the analysis
  /\ ~serving /\ c \in toRecover
  /\ req[Recovery].pc = "idle"
  /\ \E S \in Loads(c) : live' = Replaced(c, S)
  /\ toRecover' = toRecover \ {c}
  /\ IF clockStatus[c] = "analyzing"
     THEN /\ holder' = [holder EXCEPT ![c] = Recovery]
          /\ req' = [req EXCEPT ![Recovery] = [Idle EXCEPT !.pc = "analyze.lock", !.clock = c]]
     ELSE UNCHANGED <<holder, req>>
  /\ UNCHANGED <<tables, serving>>
RecoverClock(c) ==
  /\ ~serving /\ c \in toRecover
  /\ req[Recovery].pc = "idle"
  /\ \E S \in Loads(c) : live' = Replaced(c, S)
  /\ toRecover' = toRecover \ {c}
  /\ req' = IF clockStatus[c] = "analyzing"
            THEN [req EXCEPT ![Recovery] = [Idle EXCEPT !.pc = "analyze.lock", !.clock = c]]
            ELSE req
  /\ UNCHANGED <<tables, holder, serving>>

ListenAndServe == /\ ~serving /\ toRecover = {}
                  /\ req[Recovery].pc = "idle"
                  /\ serving' = TRUE
                  /\ UNCHANGED <<tables, live, holder, toRecover, req>>

-----------------------------------------------------------------------------

\* Every step a worker takes once its request has begun, bar the mutex.
Continue(w) ==
  \/ IngestCheck(w) \/ IngestInsert(w)
  \/ Load(w) \/ BuildWindow(w) \/ BuildDone(w)
  \/ Detect(w) \/ InsertJump(w) \/ DetectDone(w)
  \/ ScoreJump(w) \/ InsertCandidate(w) \/ ScoreDone(w)
  \/ Mark(w) \/ MarkUpdate(w) \/ Finish(w) \/ FinishUpdate(w)
  \/ Rollback(w) \/ RollbackDone(w) \/ Unscore(w)

Lock(w) == IngestLock(w) \/ AnalyzeLock(w)

Begin(w) == \/ \E s \in Samples : IngestBegin(w, s)
            \/ \E c \in Clocks : AnalyzeBegin(w, c)

Recover == ListenAndServe \/ \E c \in Clocks : RecoverClock(c)

Next == \/ \E w \in Requests : Begin(w)
        \/ \E w \in Workers : Lock(w) \/ Continue(w) \/ Cancel(w) \/ CleanupError(w)
        \/ \E c \in Clocks : \E next \in Asked : SetStatus(c, next)
        \/ \E j \in jumps : ConfirmJump(j)
        \/ Recover
        \/ Crash

Spec == Init /\ [][Next]_vars

\* A goroutine that can run does; a sync.Mutex in starvation mode hands over to
\* the waiter in turn, so no one waits for ever; main runs Recover to its end.
Fairness == /\ \A w \in Workers : WF_vars(Continue(w)) /\ SF_vars(Lock(w))
            /\ WF_vars(Recover)
FairSpec == Spec /\ Fairness

-----------------------------------------------------------------------------
(* Properties *)

\* A clock never has two windows for one slot, though freq_windows has no
\* unique index: BuildCtx reads what exists and inserts the rest, and only the
\* mutex keeps another analysis out in between.
UniqueWindows ==
  \A v, u \in windows : v.clock = u.clock /\ v.slot = u.slot => v = u

\* A window starts at most one segment, across re-analysis, retry and recovery
\* (the covered set of DetectCtx).
UniqueAnchors == \A i, j \in jumps : i.window = j.window => i = j

\* What a run may still have to roll back anchors no segment: neither an
\* earlier run's windows nor windows somebody already detected a jump in are
\* deleted, and the foreign key never makes a cleanup stop half way.
RollbackUnreferenced ==
  \A w \in Workers : req[w].pc \in {"build", "rollback"}
                     => \A win \in RolledBack(w) : ~Referenced(win)

\* When an analysis comes to decide the status, every run of jump windows in
\* the table has its segment, also those an earlier, interrupted run left.
DetectionComplete ==
  \A w \in Workers : req[w].pc \in Finishing =>
    LET rows == WindowsOf(req[w].clock)
    IN \A win \in rows : StartsRun(win, rows) => \E j \in jumps : j.window = win.id

\* Outside Recover the live index holds every stored sample exactly once, if no
\* clock has more samples than a load returns (MaxLoad, 1000 in the code): beyond
\* that a reload leaves the newest out.
LiveIsProjection ==
  serving => \A s \in Samples : live[s] = IF s \in samples THEN 1 ELSE 0

\* An analysis decides the status only with all its segments fully scored.
ScoredBeforeVerdict ==
  \A w \in Workers : req[w].pc \in Finishing =>
    \A j \in req[w].found : candidates[j] = CandRows

\* A segment with some of its candidates is being scored or cleaned up; only a
\* crash leaves one behind (DeleteCandidatesForJump).
HalfScored(j) == candidates[j] \in 1..(CandRows - 1)
Attended(j) == \E w \in Workers : req[w].jump = j
HalfScoresOnlyFromCrash ==
  [][\A j \in JumpIds : HalfScored(j)' /\ ~Attended(j)' /\ serving'
                        => HalfScored(j) /\ ~Attended(j)]_vars

\* The server never starts to listen with a clock still waiting for the
\* analysis a crash interrupted.
RecoveredBeforeServing ==
  [][serving' /\ ~serving => \A c \in Clocks : clockStatus[c] # "analyzing"]_vars

\* Analyses and clients together move a clock only along its machine, one step at
\* a time: what an analysis read of the status is confirmed by its write.  Without
\* snapshots Diagnosis is that machine.
Promise == INSTANCE Diagnosis WITH status <- clockStatus, inForce <- [c \in Clocks |-> None],
                                   Snaps <- {}, SnapClock <- <<>>
ImplementsDiagnosis == Promise!Spec

\* Every request ends, whatever it waits for and wherever it is cancelled.
RequestsEnd == \A w \in Requests : req[w].pc # "idle" ~> req[w].pc = "idle"

\* If the process stops crashing, it comes back to serving.
RecoveryServes == <>[][~Crash]_vars => (~serving ~> serving)

\* model.go:30: a clock in review waits for human adjudication, so no analysis
\* confirms it while a segment of it is open (a client that PATCHes it does).
ReviewIsAdjudicated ==
  [][\A c \in Clocks : clockStatus[c] = "review" /\ clockStatus'[c] = "confirmed"
                       => \A j \in JumpsOf(c) : j.status = "confirmed"]_vars

\* model.go:32: a sealed clock refuses modification.
SealedIsFinal ==
  [][\A c \in Clocks : clockStatus[c] = "sealed"
                       => UNCHANGED <<clockStatus[c], SamplesOf(c), WindowsOf(c), JumpsOf(c)>>]_vars
=============================================================================
