--------------------------- MODULE AnalysisProofs ---------------------------
(***************************************************************************)
(* Proofs about Analysis for every set of clocks, samples, requests and    *)
(* rows, every number of candidates and every limit of ListByClock.        *)
(***************************************************************************)
EXTENDS Analysis, FiniteSetTheorems, WellFoundedInduction, TLAPS

-----------------------------------------------------------------------------
(* The parts of the inductive invariant *)

\* DetectCtx has compared the windows with the segments.
Detected == {"jumps", "score", "candidates"} \cup Finishing

\* What a worker works on, by the step it has reached.
ShapeOK(q) ==
  /\ q.pc # "idle" => q.clock \in Clocks
  /\ q.pc \in {"ingest.lock", "ingest.check", "ingest.insert"} => q.sample \in Samples
  /\ q.pc \in {"analyze.lock", "load"} => q.fresh = {}
  /\ q.pc # "jumps" => q.pending = {}
  /\ q.pc \notin Detected \cup {"unscore"} => q.found = {}
  /\ q.unscored \subseteq q.found
  /\ q.pc \in Finishing => q.unscored = {}
  /\ q.pc = "candidates" => q.jump # None
  /\ q.pc \notin {"candidates", "unscore"} => q.jump = None
  /\ q.jump # None => q.jump \in q.unscored

\* Past Lock a worker holds its mutex.
Exclusion == \A w \in Workers : req[w].pc \in Locked => holder[req[w].clock] = w

\* The keys of the tables: unique, and those a row refers to are there.
WindowKeys == \A u, v \in windows : u.id = v.id => u = v
JumpKeys == \A i, j \in jumps : i.id = j.id => i = j
Anchored == \A j \in jumps : \E win \in windows : win.id = j.window /\ win.clock = j.clock
ScoredRows == \A i \in JumpIds : candidates[i] # 0 => \E j \in jumps : j.id = i
TablesOK == WindowKeys /\ JumpKeys /\ Anchored /\ ScoredRows /\ UniqueWindows /\ UniqueAnchors

\* The slots still to build have no window.
BuildOK(q) == q.pc = "build" => \A win \in WindowsOf(q.clock) : win.slot \notin q.todo

\* What may be rolled back, and what a segment is due for, starts no segment yet.
Unanchored(c, ids) == \A i \in ids : \E win \in WindowsOf(c) : win.id = i /\ ~Referenced(win)
FreshOK(q) == q.pc \in {"build", "rollback"} => Unanchored(q.clock, q.fresh)
PendingOK(q) == Unanchored(q.clock, q.pending)

\* A run of jump windows has its segment or will get it from this worker.
CoveredOK(q) == q.pc \in Detected =>
  \A win \in WindowsOf(q.clock) :
    StartsRun(win, WindowsOf(q.clock)) => Referenced(win) \/ win.id \in q.pending

\* The segments of a run are in the table; they are scored in full, or not at
\* all, bar the one being scored.
FoundOK(q) == \A i \in q.found : \E j \in jumps : j.id = i /\ j.clock = q.clock
ScoresOK(q) == /\ \A i \in q.found \ q.unscored : candidates[i] = CandRows
               /\ \A i \in q.unscored : i # q.jump => candidates[i] = 0
               /\ q.pc = "candidates" => candidates[q.jump] < CandRows

RunOK(q) == /\ BuildOK(q) /\ FreshOK(q) /\ PendingOK(q) /\ CoveredOK(q)
            /\ FoundOK(q) /\ ScoresOK(q)

TypeInv == TypeOK /\ (\A w \in Workers : ShapeOK(req[w])) /\ Exclusion
IInv == TypeInv /\ TablesOK /\ \A w \in Workers : RunOK(req[w])

\* Requests and Recover are never at work together.
BootOK == /\ serving => toRecover = {} /\ req[Recovery].pc = "idle"
          /\ ~serving => \A w \in Requests : req[w].pc = "idle"

\* A clock whose analysis a crash interrupted is waiting for Recover or in its
\* hands, and Recover's analysis runs through, as nobody else moves the clock.
RecoveryOK ==
  LET q == req[Recovery]
  IN /\ ~serving => \A c \in Clocks : clockStatus[c] = "analyzing" =>
                      c \in toRecover \/ (q.pc # "idle" /\ q.clock = c)
     /\ q.pc # "idle" => clockStatus[q.clock] = "analyzing"
     /\ q.pc \notin {"idle", "analyze.lock", "load"} =>
          /\ q.seen = "analyzing"
          /\ q.pc \in {"build", "detect", "jumps", "score", "candidates", "finish",
                       "finish.update"}
     /\ q.pc = "finish.update" => q.cas = "analyzing"

\* Of a clock that Recover has visited the live index is exact.
LiveOK == \A s \in Samples : SampleClock[s] \notin toRecover =>
                               live[s] = IF s \in samples THEN 1 ELSE 0
-----------------------------------------------------------------------------
(* Numbers and records *)

\* A non-empty set of slots has an earliest one: what First chooses.
LEMMA LeastExists ==
  ASSUME NEW S \in SUBSET Nat, S # {}
  PROVE  \E k \in S : \A m \in S : k <= m
<1> DEFINE R == OpToRel(<, Nat)
<1>1. IsWellFoundedOn(R, Nat)
  BY NatLessThanWellFounded
<1>2. \A m, k \in Nat : m < k => <<m, k>> \in R
  BY DEF OpToRel
<1> HIDE DEF R
<1>3. PICK k \in S : \A m \in S : ~ (<<m, k>> \in R)
  BY <1>1, WFMin
<1>4. \A m \in S : ~ (m < k)
  BY <1>2, <1>3
<1>5. \A m \in S : k <= m
  BY <1>4
<1> QED BY <1>5

LEMMA SlotTypes == Slots \subseteq Nat
BY AnalysisAssumption DEF Slots

LEMMA IdleOK == Idle \in Worker /\ ShapeOK(Idle) /\ RunOK(Idle)
<1>1. Idle \in Worker
  BY DEF Idle, Worker, Steps
<1>2. ShapeOK(Idle)
  BY DEF Idle, ShapeOK, Detected, Finishing
<1>3. RunOK(Idle)
  BY DEF Idle, RunOK, BuildOK, FreshOK, PendingOK, Unanchored, CoveredOK, FoundOK, ScoresOK,
         Detected, Finishing
<1> QED BY <1>1, <1>2, <1>3

\* A worker that neither has windows to build or roll back nor segments owes the
\* tables nothing.
LEMMA RestOK ==
  ASSUME NEW q, ShapeOK(q), q.pc \notin Detected \cup {"build", "rollback", "unscore"}
  PROVE  RunOK(q)
BY DEF ShapeOK, RunOK, BuildOK, FreshOK, PendingOK, Unanchored, CoveredOK, FoundOK, ScoresOK,
       Detected, Finishing

-----------------------------------------------------------------------------
(* One worker moves *)

Becomes(w, x) == req' = [req EXCEPT ![w] = x]

\* It keeps its mutex, gives it back or takes a free one.
Holding(w, x) ==
  \/ /\ UNCHANGED holder
     /\ x.pc \in Locked => req[w].pc \in Locked /\ x.clock = req[w].clock
  \/ /\ holder' = Unlocked(w)
     /\ req[w].pc \in Locked /\ x.pc \notin Locked
  \/ /\ holder' = [holder EXCEPT ![x.clock] = w]
     /\ holder[x.clock] = None

LEMMA WorkerMoves ==
  ASSUME TypeInv, NEW w \in Workers, NEW x \in Worker, Becomes(w, x), ShapeOK(x),
         Holding(w, x)
  PROVE  /\ req' \in [Workers -> Worker] /\ req'[w] = x
         /\ \A v \in Workers : v # w => req'[v] = req[v]
         /\ holder' \in [Clocks -> Workers \cup {None}]
         /\ \A v \in Workers : ShapeOK(req'[v])
         /\ Exclusion'
<1>0. /\ TypeOK /\ Exclusion /\ None \notin Workers
      /\ req \in [Workers -> Worker] /\ holder \in [Clocks -> Workers \cup {None}]
  BY AnalysisAssumption DEF TypeInv, TypeOK
<1>1. /\ req' \in [Workers -> Worker] /\ req'[w] = x
      /\ \A v \in Workers : v # w => req'[v] = req[v]
  BY <1>0 DEF Becomes
<1>2. \A v \in Workers : ShapeOK(req'[v])
  BY <1>1 DEF TypeInv
<1>3. holder' \in [Clocks -> Workers \cup {None}]
  BY <1>0 DEF Holding, Unlocked
<1>4. Exclusion'
  <2> SUFFICES ASSUME NEW v \in Workers, req'[v].pc \in Locked
               PROVE  holder'[req'[v].clock] = v
    BY DEF Exclusion
  <2>1. CASE v = w
    <3>1. req'[v] = x /\ x.clock \in Clocks
      BY <2>1, <1>1 DEF ShapeOK, Locked
    <3>2. req[w].pc \in Locked => holder[req[w].clock] = w
      BY <1>0 DEF Exclusion
    <3> QED BY <2>1, <3>1, <3>2, <1>0 DEF Holding
  <2>2. CASE v # w
    <3>1. req'[v] = req[v] /\ req[v].clock \in Clocks /\ holder[req[v].clock] = v
      BY <2>2, <1>0, <1>1 DEF TypeInv, ShapeOK, Locked, Exclusion
    <3>2. req[w].pc \in Locked => holder[req[w].clock] = w
      BY <1>0 DEF Exclusion
    <3> QED BY <2>2, <3>1, <3>2, <1>0 DEF Holding, Unlocked
  <2> QED BY <2>1, <2>2
<1> QED BY <1>1, <1>2, <1>3, <1>4

\* The rows of a clock, as far as they concern its workers.
SameRows(J, K) == \A j \in J : \E k \in K : k.id = j.id /\ k.window = j.window
ClockKept(c) == /\ WindowsOf(c)' = WindowsOf(c)
                /\ SameRows(JumpsOf(c), JumpsOf(c)') /\ SameRows(JumpsOf(c)', JumpsOf(c))

\* A worker whose clock and whose segments' candidates stay as they are.
LEMMA BystanderOK ==
  ASSUME TablesOK, TablesOK', NEW u \in Workers, RunOK(req[u]), req'[u] = req[u],
         ClockKept(req[u].clock),
         \A i \in req[u].found : candidates'[i] = candidates[i],
         req[u].pc = "candidates" => req[u].jump \in req[u].found,
         req[u].unscored \subseteq req[u].found
  PROVE  RunOK(req[u])'
<1> DEFINE q == req[u]
           c == req[u].clock
<1>1. \A win \in WindowsOf(c) : Referenced(win)' <=> Referenced(win)
  <2> SUFFICES ASSUME NEW win \in WindowsOf(c) PROVE Referenced(win)' <=> Referenced(win)
    OBVIOUS
  <2>0. win \in windows /\ win \in windows' /\ win.clock = c
    BY DEF ClockKept, WindowsOf
  <2>1. ASSUME Referenced(win) PROVE Referenced(win)'
    <3>1. PICK j \in jumps : j.window = win.id
      BY <2>1 DEF Referenced
    <3>2. j \in JumpsOf(c)
      BY <2>0, <3>1 DEF TablesOK, Anchored, WindowKeys, JumpsOf
    <3>3. \E k \in JumpsOf(c)' : k.window = j.window
      BY <3>2 DEF ClockKept, SameRows
    <3> QED BY <3>1, <3>3 DEF Referenced, JumpsOf
  <2>2. ASSUME Referenced(win)' PROVE Referenced(win)
    <3>1. PICK j \in jumps' : j.window = win.id
      BY <2>2 DEF Referenced
    <3>2. j \in JumpsOf(c)'
      BY <2>0, <3>1 DEF TablesOK, Anchored, WindowKeys, JumpsOf
    <3>3. \E k \in JumpsOf(c) : k.window = j.window
      BY <3>2 DEF ClockKept, SameRows
    <3> QED BY <3>1, <3>3 DEF Referenced, JumpsOf
  <2> QED BY <2>1, <2>2
<1>2. WindowsOf(c)' = WindowsOf(c)
  BY DEF ClockKept
<1>3. BuildOK(q)' /\ FreshOK(q)' /\ PendingOK(q)' /\ CoveredOK(q)'
  BY <1>1, <1>2 DEF RunOK, BuildOK, FreshOK, PendingOK, Unanchored, CoveredOK
<1>4. FoundOK(q)'
  <2> SUFFICES ASSUME NEW i \in q.found PROVE \E j \in jumps' : j.id = i /\ j.clock = c
    BY DEF FoundOK
  <2>1. PICK j \in JumpsOf(c) : j.id = i
    BY DEF RunOK, FoundOK, JumpsOf
  <2>2. \E k \in JumpsOf(c)' : k.id = j.id
    BY DEF ClockKept, SameRows
  <2> QED BY <2>1, <2>2 DEF JumpsOf
<1>5. ScoresOK(q)'
  BY DEF RunOK, ScoresOK
<1> QED BY <1>3, <1>4, <1>5 DEF RunOK

LEMMA RestOKNext ==
  ASSUME NEW u \in Workers, ShapeOK(req'[u]),
         req'[u].pc \notin Detected \cup {"build", "rollback", "unscore"}
  PROVE  RunOK(req[u])'
BY DEF ShapeOK, RunOK, BuildOK, FreshOK, PendingOK, Unanchored, CoveredOK, FoundOK, ScoresOK,
       Detected, Finishing

\* A step that writes neither windows nor segments nor candidates.
LEMMA QuietStep ==
  ASSUME IInv, NEW w \in Workers, NEW x \in Worker, Becomes(w, x), ShapeOK(x),
         Holding(w, x), RunOK(x), UNCHANGED <<windows, jumps, candidates>>,
         clockStatus' \in [Clocks -> ClockStatus], samples' \subseteq Samples,
         live' \in [Samples -> Nat], serving' \in BOOLEAN, toRecover' \subseteq Clocks
  PROVE  IInv'
<1>0. TypeInv /\ TypeOK /\ TablesOK /\ \A v \in Workers : RunOK(req[v])
  BY DEF IInv, TypeInv
<1>1. /\ req' \in [Workers -> Worker] /\ req'[w] = x
      /\ \A v \in Workers : v # w => req'[v] = req[v]
      /\ holder' \in [Clocks -> Workers \cup {None}]
      /\ \A v \in Workers : ShapeOK(req'[v])
      /\ Exclusion'
  BY <1>0, WorkerMoves
<1>2. TypeInv'
  BY <1>0, <1>1 DEF TypeInv, TypeOK
<1>3. TablesOK'
  BY <1>0 DEF TablesOK, WindowKeys, JumpKeys, Anchored, ScoredRows, UniqueWindows, UniqueAnchors
<1>4. ASSUME NEW v \in Workers PROVE RunOK(req[v])'
  <2>1. RunOK(req'[v])
    BY <1>0, <1>1
  <2> QED BY <2>1 DEF RunOK, BuildOK, FreshOK, PendingOK, Unanchored, CoveredOK, FoundOK,
                      ScoresOK, WindowsOf, Referenced
<1> QED BY <1>2, <1>3, <1>4 DEF IInv

\* A step under the mutex that writes rows of its own clock.
LEMMA WriteStep ==
  ASSUME IInv, NEW w \in Workers, NEW x \in Worker, Becomes(w, x), ShapeOK(x),
         Holding(w, x), req[w].pc \in Locked,
         windows' \subseteq Window, jumps' \subseteq Jump,
         candidates' \in [JumpIds -> 0..CandRows],
         UNCHANGED <<clockStatus, samples, live, boot>>,
         TablesOK', RunOK(req[w])',
         \A c \in Clocks : c # req[w].clock => ClockKept(c),
         \A i \in JumpIds : candidates'[i] # candidates[i]
                              => \E j \in jumps : j.id = i /\ j.clock = req[w].clock
  PROVE  IInv'
<1>0. /\ TypeInv /\ TypeOK /\ TablesOK /\ Exclusion
      /\ \A v \in Workers : RunOK(req[v]) /\ ShapeOK(req[v]) /\ req[v] \in Worker
  BY DEF IInv, TypeInv, TypeOK
<1>1. /\ req' \in [Workers -> Worker] /\ req'[w] = x
      /\ \A v \in Workers : v # w => req'[v] = req[v]
      /\ holder' \in [Clocks -> Workers \cup {None}]
      /\ \A v \in Workers : ShapeOK(req'[v])
      /\ Exclusion'
  BY <1>0, WorkerMoves
<1>2. TypeInv'
  BY <1>0, <1>1 DEF TypeInv, TypeOK, boot
<1>3. ASSUME NEW v \in Workers PROVE RunOK(req[v])'
  <2>1. CASE v # w /\ req[v].pc \in Locked
    <3>1. req[v].clock \in Clocks /\ req[w].clock \in Clocks /\ req[v].clock # req[w].clock
      BY <2>1, <1>0 DEF Exclusion, ShapeOK, Locked
    <3>2. \A i \in req[v].found : candidates'[i] = candidates[i]
      <4> SUFFICES ASSUME NEW i \in req[v].found, candidates'[i] # candidates[i] PROVE FALSE
        OBVIOUS
      <4>1. i \in JumpIds
        BY <1>0 DEF Worker
      <4>2. PICK j \in jumps : j.id = i /\ j.clock = req[w].clock
        BY <4>1
      <4>3. PICK k \in jumps : k.id = i /\ k.clock = req[v].clock
        BY <1>0 DEF RunOK, FoundOK
      <4> QED BY <4>2, <4>3, <3>1, <1>0 DEF TablesOK, JumpKeys
    <3>3. /\ req[v].pc = "candidates" => req[v].jump \in req[v].found
          /\ req[v].unscored \subseteq req[v].found
      BY <1>0 DEF ShapeOK
    <3> QED BY <2>1, <3>1, <3>2, <3>3, <1>0, <1>1, BystanderOK
  <2>2. CASE v # w /\ req[v].pc \notin Locked
    <3>1. ShapeOK(req'[v]) /\ req'[v].pc \notin Detected \cup {"build", "rollback", "unscore"}
      BY <2>2, <1>1 DEF Locked, Detected, Finishing
    <3> QED BY <3>1, RestOKNext
  <2> QED BY <2>1, <2>2
<1> QED BY <1>2, <1>3 DEF IInv

LEMMA IInvInit == Init => IInv
<1> SUFFICES ASSUME Init PROVE IInv
  OBVIOUS
<1>1. TypeOK
  BY IdleOK, AnalysisAssumption DEF Init, TypeOK, ClockStatus
<1>2. (\A w \in Workers : ShapeOK(req[w]) /\ RunOK(req[w])) /\ Exclusion
  BY IdleOK DEF Init, Exclusion, Idle, Locked
<1>3. TablesOK
  BY DEF Init, TablesOK, WindowKeys, JumpKeys, Anchored, ScoredRows, UniqueWindows, UniqueAnchors
<1> QED BY <1>1, <1>2, <1>3 DEF IInv, TypeInv

-----------------------------------------------------------------------------
(* Beginning, the mutex, ingest *)

LEMMA Parts ==
  ASSUME IInv
  PROVE  /\ TypeInv /\ TypeOK /\ TablesOK /\ Exclusion
         /\ req \in [Workers -> Worker]
         /\ \A v \in Workers : req[v] \in Worker /\ ShapeOK(req[v]) /\ RunOK(req[v])
BY DEF IInv, TypeInv, TypeOK

\* The tables a quiet step leaves alone are well typed.
LEMMA QuietTypes ==
  ASSUME IInv, UNCHANGED <<clockStatus, samples, live, serving, toRecover>>
  PROVE  /\ clockStatus' \in [Clocks -> ClockStatus] /\ samples' \subseteq Samples
         /\ live' \in [Samples -> Nat] /\ serving' \in BOOLEAN /\ toRecover' \subseteq Clocks
BY DEF IInv, TypeInv, TypeOK

\* The handler returns: its deferred Unlock, then nothing.
LEMMA ReturnStep ==
  ASSUME IInv, NEW w \in Workers, req[w].pc \in Locked, Return(w),
         UNCHANGED <<windows, jumps, candidates>>,
         clockStatus' \in [Clocks -> ClockStatus], samples' \subseteq Samples,
         live' \in [Samples -> Nat], serving' \in BOOLEAN, toRecover' \subseteq Clocks
  PROVE  IInv'
<1>1. Becomes(w, Idle) /\ Holding(w, Idle)
  BY DEF Return, Becomes, Holding, Idle, Locked
<1> QED BY <1>1, IdleOK, QuietStep

LEMMA BeginStep ==
  ASSUME IInv, NEW w \in Requests, Begin(w)
  PROVE  IInv'
<1>0. w \in Workers
  BY DEF Workers
<1>1. ASSUME NEW s \in Samples, IngestBegin(w, s) PROVE IInv'
  <2> DEFINE x == [Idle EXCEPT !.pc = "ingest.lock", !.sample = s, !.clock = SampleClock[s]]
  <2>1. x \in Worker /\ ShapeOK(x)
    BY AnalysisAssumption DEF Idle, Worker, Steps, ShapeOK, Detected, Finishing
  <2>2. Becomes(w, x) /\ Holding(w, x)
    BY <1>1 DEF IngestBegin, Becomes, Holding, Idle, Locked
  <2>3. RunOK(x)
    BY <2>1, RestOK DEF Idle, Detected, Finishing
  <2> QED BY <1>0, <1>1, <2>1, <2>2, <2>3, QuietTypes, QuietStep DEF IngestBegin, tables, boot
<1>2. ASSUME NEW c \in Clocks, AnalyzeBegin(w, c) PROVE IInv'
  <2> DEFINE x == [Idle EXCEPT !.pc = "analyze.lock", !.clock = c]
  <2>1. x \in Worker /\ ShapeOK(x)
    BY DEF Idle, Worker, Steps, ShapeOK, Detected, Finishing
  <2>2. Becomes(w, x) /\ Holding(w, x)
    BY <1>2 DEF AnalyzeBegin, Becomes, Holding, Idle, Locked
  <2>3. RunOK(x)
    BY <2>1, RestOK DEF Idle, Detected, Finishing
  <2> QED BY <1>0, <1>2, <2>1, <2>2, <2>3, QuietTypes, QuietStep DEF AnalyzeBegin, tables, boot
<1> QED BY <1>1, <1>2 DEF Begin

LEMMA LockStep ==
  ASSUME IInv, NEW w \in Workers, Lock(w)
  PROVE  IInv'
<1>1. ASSUME NEW from \in {"ingest.lock", "analyze.lock"},
             NEW to \in {"ingest.check", "load"}, Acquire(w, from, to),
             from = "ingest.lock" <=> to = "ingest.check"
      PROVE  IInv'
  <2> DEFINE x == [req[w] EXCEPT !.pc = to]
  <2>0. req[w] \in Worker /\ ShapeOK(req[w]) /\ req[w].pc = from
    BY <1>1, Parts DEF Acquire
  <2>1. x \in Worker /\ ShapeOK(x)
    BY <1>1, <2>0 DEF Worker, Steps, Locked, ShapeOK, Detected, Finishing
  <2>2. Becomes(w, x) /\ Holding(w, x)
    BY <1>1, <2>0 DEF Acquire, Goto, Becomes, Holding, Worker
  <2>3. RunOK(x)
    BY <1>1, <2>0, <2>1, RestOK DEF Worker, Detected, Finishing
  <2> QED BY <1>1, <2>1, <2>2, <2>3, QuietTypes, QuietStep DEF Acquire, tables, boot
<1> QED BY <1>1 DEF Lock, IngestLock, AnalyzeLock

LEMMA IngestStep ==
  ASSUME IInv, NEW w \in Workers, IngestCheck(w) \/ IngestInsert(w)
  PROVE  IInv'
<1>0. req[w] \in Worker /\ ShapeOK(req[w]) /\ TypeOK
  BY Parts
<1>1. CASE IngestCheck(w) /\ Return(w)
  BY <1>1, QuietTypes, ReturnStep DEF IngestCheck, Locked, tables, boot
<1>2. CASE IngestCheck(w) /\ Goto(w, "ingest.insert") /\ UNCHANGED holder
  <2> DEFINE x == [req[w] EXCEPT !.pc = "ingest.insert"]
  <2>1. x \in Worker /\ ShapeOK(x)
    BY <1>0, <1>2 DEF IngestCheck, Worker, Steps, Locked, ShapeOK, Detected, Finishing
  <2>2. Becomes(w, x) /\ Holding(w, x)
    BY <1>0, <1>2 DEF IngestCheck, Goto, Becomes, Holding, Worker, Locked
  <2>3. RunOK(x)
    BY <1>0, <2>1, RestOK DEF Worker, Detected, Finishing
  <2> QED BY <1>2, <2>1, <2>2, <2>3, QuietTypes, QuietStep DEF IngestCheck, tables, boot
<1>3. CASE IngestInsert(w)
  <2>1. req[w].sample \in Samples /\ req[w].pc \in Locked
    BY <1>0, <1>3 DEF IngestInsert, ShapeOK, Locked
  <2>2. live' \in [Samples -> Nat] /\ samples' \subseteq Samples
    BY <1>0, <1>3, <2>1 DEF IngestInsert, TypeOK
  <2> QED BY <1>0, <1>3, <2>1, <2>2, ReturnStep DEF IngestInsert, TypeOK, boot
<1> QED BY <1>1, <1>2, <1>3 DEF IngestCheck

-----------------------------------------------------------------------------
(* AnalyzeClockCtx: windows *)

LEMMA LoadStep ==
  ASSUME IInv, NEW w \in Workers, Load(w)
  PROVE  IInv'
<1>0. /\ req[w] \in Worker /\ ShapeOK(req[w]) /\ TypeOK
      /\ req[w].pc = "load" /\ req[w].pc \in Locked /\ req[w].clock \in Clocks
      /\ UNCHANGED <<clockStatus, samples, windows, jumps, candidates, serving, toRecover>>
  BY Parts DEF Load, Locked, ShapeOK, tables, boot
<1> DEFINE c == req[w].clock
           x(snap) == [req[w] EXCEPT !.pc = "build", !.seen = clockStatus[c], !.snap = snap,
                                     !.todo = {SampleSlot[s] : s \in snap}
                                              \ {win.slot : win \in WindowsOf(c)}]
<1>1. ASSUME NEW snap \in SUBSET Samples, Becomes(w, x(snap)), UNCHANGED holder,
             live' \in [Samples -> Nat]
      PROVE  IInv'
  <2>1. {SampleSlot[s] : s \in snap} \subseteq Slots /\ clockStatus[c] \in ClockStatus
    BY <1>0 DEF Slots, TypeOK
  <2>2. x(snap) \in Worker /\ ShapeOK(x(snap))
    BY <1>0, <2>1 DEF Worker, Steps, Locked, ShapeOK, Detected, Finishing
  <2>3. Holding(w, x(snap))
    BY <1>0, <1>1 DEF Holding, Worker
  <2>4. /\ x(snap).pc = "build" /\ x(snap).clock = c /\ x(snap).fresh = {}
        /\ x(snap).pending = {} /\ x(snap).found = {} /\ x(snap).unscored = {}
        /\ x(snap).todo = {SampleSlot[s] : s \in snap} \ {win.slot : win \in WindowsOf(c)}
    BY <1>0 DEF Worker, ShapeOK, Detected, Finishing
  <2> HIDE DEF x
  <2>5. RunOK(x(snap))
    BY <2>4 DEF RunOK, BuildOK, FreshOK, PendingOK, Unanchored, CoveredOK, FoundOK, ScoresOK,
                Detected, Finishing
  <2> QED BY <1>0, <1>1, <2>2, <2>3, <2>5, QuietStep DEF TypeOK
<1>2. CASE Return(w) /\ UNCHANGED live
  BY <1>0, <1>2, QuietTypes, ReturnStep
<1>3. CASE Becomes(w, x(LiveOf(c))) /\ UNCHANGED <<live, holder>>
  <2>1. LiveOf(c) \in SUBSET Samples /\ live' \in [Samples -> Nat]
    BY <1>0, <1>3 DEF LiveOf, TypeOK
  <2> QED BY <1>1, <1>3, <2>1
<1>4. CASE (\E S \in Loads(c) : live' = Replaced(c, S) /\ Becomes(w, x(S))) /\ UNCHANGED holder
  <2>1. PICK S \in Loads(c) : live' = Replaced(c, S) /\ Becomes(w, x(S))
    BY <1>4
  <2>2. S \in SUBSET Samples
    BY <1>0 DEF Loads, SamplesOf, TypeOK
  <2>3. live' \in [Samples -> Nat]
    BY <1>0, <2>1 DEF Replaced, TypeOK
  <2> QED BY <1>1, <1>4, <2>1, <2>2, <2>3
<1> QED BY <1>2, <1>3, <1>4 DEF Load, Becomes

LEMMA BuildStep ==
  ASSUME IInv, NEW w \in Workers, BuildWindow(w)
  PROVE  IInv'
<1>0. /\ req[w] \in Worker /\ ShapeOK(req[w]) /\ RunOK(req[w]) /\ TypeOK /\ TablesOK
      /\ req[w].pc = "build" /\ req[w].pc \in Locked /\ req[w].clock \in Clocks
      /\ UNCHANGED <<clockStatus, samples, jumps, candidates, live, holder, boot>>
  BY Parts DEF BuildWindow, Locked, ShapeOK
<1>c. PICK c \in Clocks : c = req[w].clock
  BY <1>0
<1> DEFINE k == First(req[w].todo)
           i == FreshWindowId
           x == [req[w] EXCEPT !.todo = @ \ {k}, !.fresh = @ \cup {i}]
<1>1. k \in req[w].todo
  <2>1. req[w].todo \in SUBSET Nat /\ req[w].todo # {}
    BY <1>0, SlotTypes DEF Worker, BuildWindow
  <2> QED BY <2>1, LeastExists DEF First
<1>2. i \in WindowIds /\ \A win \in windows : win.id # i
  BY DEF BuildWindow, FreshWindowId
<1>3. PICK status \in {"gap", "stable", "jump"} :
        windows' = windows \cup {[id |-> i, clock |-> c, slot |-> k, status |-> status]}
  BY <1>c DEF BuildWindow, Classify
<1>s. k \in Slots
  BY <1>0, <1>1 DEF Worker
<1>5. Becomes(w, x)
  BY Parts DEF BuildWindow, Becomes
<1>6. x \in Worker /\ ShapeOK(x) /\ x.pc = "build"
  BY <1>0, <1>2 DEF Worker, ShapeOK, Detected, Finishing
<1>7. /\ req'[w].pc = "build" /\ req'[w].clock = c /\ req'[w].todo = req[w].todo \ {k}
      /\ req'[w].fresh = req[w].fresh \cup {i} /\ req'[w].pending = {}
      /\ req'[w].found = {} /\ req'[w].unscored = {}
  BY <1>0, <1>c, <1>5, Parts DEF Becomes, Worker, ShapeOK, Detected, Finishing
<1>8. Holding(w, x)
  BY <1>0, <1>6 DEF Holding, Worker
<1> HIDE DEF x, k, i
<1>4. PICK new \in Window : /\ windows' = windows \cup {new}
                            /\ new.id = i /\ new.clock = c /\ new.slot = k
  <2> DEFINE n == [id |-> i, clock |-> c, slot |-> k, status |-> status]
  <2>1. n \in Window /\ n.id = i /\ n.clock = c /\ n.slot = k
    BY <1>2, <1>s DEF Window
  <2> QED BY <1>3, <2>1
<1>9. TablesOK'
  <2>1. WindowKeys' /\ Anchored'
    BY <1>0, <1>2, <1>4 DEF TablesOK, WindowKeys, Anchored
  <2>2. UniqueWindows'
    BY <1>0, <1>c, <1>1, <1>4 DEF TablesOK, UniqueWindows, RunOK, BuildOK, WindowsOf
  <2> QED BY <1>0, <2>1, <2>2 DEF TablesOK, JumpKeys, ScoredRows, UniqueAnchors
<1>10. RunOK(req[w])'
  <2>1. BuildOK(req[w])'
    BY <1>0, <1>c, <1>4, <1>7 DEF RunOK, BuildOK, WindowsOf
  <2>2. FreshOK(req[w])'
    <3>1. new \in WindowsOf(c)' /\ ~Referenced(new)'
      BY <1>0, <1>2, <1>4 DEF TablesOK, Anchored, WindowsOf, Referenced
    <3>2. \A win : Referenced(win)' <=> Referenced(win)
      BY <1>0 DEF Referenced
    <3>3. WindowsOf(c) \subseteq WindowsOf(c)'
      BY <1>4 DEF WindowsOf
    <3>4. \A m \in req[w].fresh : \E win \in WindowsOf(c) : win.id = m /\ ~Referenced(win)
      BY <1>0, <1>c DEF RunOK, FreshOK, Unanchored
    <3> QED BY <1>4, <1>7, <3>1, <3>2, <3>3, <3>4 DEF FreshOK, Unanchored
  <2> QED BY <1>7, <2>1, <2>2 DEF RunOK, PendingOK, Unanchored, CoveredOK, FoundOK, ScoresOK,
                                  Detected, Finishing
<1>11. \A d \in Clocks : d # c => ClockKept(d)
  BY <1>0, <1>4 DEF ClockKept, WindowsOf, JumpsOf, SameRows
<1>12. /\ windows' \subseteq Window /\ jumps' \subseteq Jump
       /\ candidates' \in [JumpIds -> 0..CandRows] /\ candidates' = candidates
  BY <1>0, <1>4 DEF TypeOK
<1> QED BY <1>0, <1>c, <1>5, <1>6, <1>8, <1>9, <1>10, <1>11, <1>12, WriteStep

LEMMA BuildDoneStep ==
  ASSUME IInv, NEW w \in Workers, BuildDone(w)
  PROVE  IInv'
<1> DEFINE x == [req[w] EXCEPT !.pc = "detect"]
<1>0. req[w] \in Worker /\ ShapeOK(req[w]) /\ req[w].pc = "build"
  BY Parts DEF BuildDone
<1>1. x \in Worker /\ ShapeOK(x)
  BY <1>0 DEF Worker, Steps, Locked, ShapeOK, Detected, Finishing
<1>2. Becomes(w, x) /\ Holding(w, x)
  BY <1>0 DEF BuildDone, Goto, Becomes, Holding, Worker, Locked
<1>3. RunOK(x)
  BY <1>0, <1>1, RestOK DEF Worker, Detected, Finishing
<1> QED BY <1>1, <1>2, <1>3, QuietTypes, QuietStep DEF BuildDone, tables, boot

\* One DELETE of the rollback: a window of this run that starts no segment.
LEMMA RollbackStep ==
  ASSUME IInv, NEW w \in Workers, Rollback(w)
  PROVE  IInv'
<1>0. /\ req[w] \in Worker /\ ShapeOK(req[w]) /\ RunOK(req[w]) /\ TypeOK /\ TablesOK
      /\ req[w].pc = "rollback" /\ req[w].pc \in Locked /\ req[w].clock \in Clocks
      /\ UNCHANGED <<clockStatus, samples, jumps, candidates, live, holder, boot>>
  BY Parts DEF Rollback, Locked, ShapeOK
<1>c. PICK c \in Clocks : c = req[w].clock
  BY <1>0
<1>1. PICK win \in windows : /\ win.id \in req[w].fresh /\ ~Referenced(win)
                             /\ windows' = windows \ {win}
                             /\ req' = [req EXCEPT ![w].fresh = @ \ {win.id}]
  BY DEF Rollback, RolledBack
<1> DEFINE x == [req[w] EXCEPT !.fresh = @ \ {win.id}]
<1>2. win.clock = c
  BY <1>0, <1>c, <1>1 DEF RunOK, FreshOK, Unanchored, WindowsOf, TablesOK, WindowKeys
<1>3. Becomes(w, x)
  BY <1>1 DEF Becomes
<1>4. x \in Worker /\ ShapeOK(x) /\ x.pc = "rollback"
  BY <1>0 DEF Worker, ShapeOK, Detected, Finishing
<1>5. /\ req'[w].pc = "rollback" /\ req'[w].clock = c
      /\ req'[w].fresh = req[w].fresh \ {win.id} /\ req'[w].pending = {}
      /\ req'[w].found = {} /\ req'[w].unscored = {}
  BY <1>0, <1>c, <1>3, Parts DEF Becomes, Worker, ShapeOK, Detected, Finishing
<1>6. Holding(w, x)
  BY <1>0, <1>4 DEF Holding, Worker
<1> HIDE DEF x
<1>7. TablesOK'
  BY <1>0, <1>1 DEF TablesOK, WindowKeys, JumpKeys, Anchored, ScoredRows, UniqueWindows,
                    UniqueAnchors, Referenced
<1>8. RunOK(req[w])'
  <2>1. FreshOK(req[w])'
    <3>1. \A v : Referenced(v)' <=> Referenced(v)
      BY <1>0 DEF Referenced
    <3>2. ASSUME NEW m \in req[w].fresh \ {win.id}
          PROVE  \E v \in WindowsOf(c)' : v.id = m /\ ~Referenced(v)
      <4>1. PICK v \in WindowsOf(c) : v.id = m /\ ~Referenced(v)
        BY <1>0, <1>c DEF RunOK, FreshOK, Unanchored
      <4>2. v \in WindowsOf(c)'
        BY <1>1, <4>1 DEF WindowsOf
      <4> QED BY <4>1, <4>2
    <3> QED BY <1>5, <3>1, <3>2 DEF FreshOK, Unanchored
  <2> QED BY <1>5, <2>1 DEF RunOK, BuildOK, PendingOK, Unanchored, CoveredOK, FoundOK, ScoresOK,
                            Detected, Finishing
<1>9. \A d \in Clocks : d # c => ClockKept(d)
  BY <1>0, <1>1, <1>2 DEF ClockKept, WindowsOf, JumpsOf, SameRows
<1>10. /\ windows' \subseteq Window /\ jumps' \subseteq Jump
       /\ candidates' \in [JumpIds -> 0..CandRows] /\ candidates' = candidates
  BY <1>0, <1>1 DEF TypeOK
<1> QED BY <1>0, <1>c, <1>3, <1>4, <1>6, <1>7, <1>8, <1>9, <1>10, WriteStep

-----------------------------------------------------------------------------
(* AnalyzeClockCtx: segments *)

\* A window of a clock is referenced by a segment of the same clock.
LEMMA ReferencedByOwn ==
  ASSUME TablesOK, NEW win \in windows
  PROVE  Referenced(win) <=> win.id \in {j.window : j \in JumpsOf(win.clock)}
BY DEF TablesOK, Anchored, WindowKeys, Referenced, JumpsOf

LEMMA DetectStep ==
  ASSUME IInv, NEW w \in Workers, Detect(w)
  PROVE  IInv'
<1>0. /\ req[w] \in Worker /\ ShapeOK(req[w]) /\ RunOK(req[w]) /\ TypeOK /\ TablesOK
      /\ req[w].pc = "detect" /\ req[w].pc \in Locked
  BY Parts DEF Detect, Locked
<1> DEFINE rows == WindowsOf(req[w].clock)
           due == {win.id : win \in {v \in rows : StartsRun(v, rows)}}
                  \ {j.window : j \in JumpsOf(req[w].clock)}
           x == [req[w] EXCEPT !.pc = "jumps", !.pending = due]
<1>1. due \in SUBSET WindowIds
  BY <1>0 DEF WindowsOf, TypeOK, Window
<1>2. Becomes(w, x)
  BY Parts DEF Detect, Becomes
<1> HIDE DEF due
<1>3. /\ x \in Worker /\ x.pc = "jumps" /\ x.clock = req[w].clock /\ x.pending = due
      /\ x.found = {} /\ x.unscored = {} /\ ShapeOK(x)
  BY <1>0, <1>1 DEF Worker, Steps, Locked, ShapeOK, Detected, Finishing
<1>4. Holding(w, x)
  BY <1>0, <1>3 DEF Detect, Holding
<1> HIDE DEF x
<1>5. PendingOK(x)
  <2> SUFFICES ASSUME NEW i \in due PROVE \E win \in rows : win.id = i /\ ~Referenced(win)
    BY <1>3 DEF PendingOK, Unanchored
  <2>1. PICK win \in rows : win.id = i /\ i \notin {j.window : j \in JumpsOf(req[w].clock)}
    BY DEF due
  <2>2. win \in windows /\ win.clock = req[w].clock
    BY DEF WindowsOf
  <2> QED BY <1>0, <2>1, <2>2, ReferencedByOwn
<1>6. CoveredOK(x)
  <2> SUFFICES ASSUME NEW win \in rows, StartsRun(win, rows)
               PROVE  Referenced(win) \/ win.id \in due
    BY <1>3 DEF CoveredOK
  <2>1. win \in windows /\ win.clock = req[w].clock
    BY DEF WindowsOf
  <2> QED BY <1>0, <2>1, ReferencedByOwn DEF due
<1>7. RunOK(x)
  BY <1>3, <1>5, <1>6 DEF RunOK, BuildOK, FreshOK, FoundOK, ScoresOK
<1> QED BY <1>2, <1>3, <1>4, <1>7, QuietTypes, QuietStep DEF Detect, tables, boot

LEMMA InsertJumpStep ==
  ASSUME IInv, NEW w \in Workers, InsertJump(w)
  PROVE  IInv'
<1>0. /\ req[w] \in Worker /\ ShapeOK(req[w]) /\ RunOK(req[w]) /\ TypeOK /\ TablesOK
      /\ req[w].pc = "jumps" /\ req[w].pc \in Locked /\ req[w].clock \in Clocks
      /\ UNCHANGED <<clockStatus, samples, windows, candidates, live, holder, boot>>
  BY Parts DEF InsertJump, Locked, ShapeOK
<1>c. PICK c \in Clocks : c = req[w].clock
  BY <1>0
<1> DEFINE rows == WindowsOf(req[w].clock)
           first(v) == /\ v.id \in req[w].pending
                       /\ \A u \in rows : u.id \in req[w].pending => v.slot <= u.slot
           i == FreshJumpId
<1>1. \E v \in rows : first(v)
  <2> DEFINE P == {v \in rows : v.id \in req[w].pending}
             T == {v.slot : v \in P}
  <2>1. PICK m \in req[w].pending : TRUE
    BY DEF InsertJump
  <2>2. T # {}
    BY <1>0, <2>1 DEF RunOK, PendingOK, Unanchored
  <2>3. T \in SUBSET Nat
    BY <1>0, SlotTypes DEF TypeOK, Window, WindowsOf
  <2>4. PICK k \in T : \A n \in T : k <= n
    <3> HIDE DEF T
    <3> QED BY <2>2, <2>3, LeastExists
  <2> QED BY <2>4
<1>2. PICK win \in rows :
        /\ first(win)
        /\ jumps' = jumps \cup {[id |-> i, clock |-> req[w].clock, window |-> win.id,
                                 status |-> "open"]}
        /\ req' = [req EXCEPT ![w].pending = @ \ {win.id},
                              ![w].found = @ \cup {i}, ![w].unscored = @ \cup {i}]
  BY <1>1 DEF InsertJump
<1>3. i \in JumpIds /\ \A j \in jumps : j.id # i
  BY DEF InsertJump, FreshJumpId
<1> DEFINE x == [req[w] EXCEPT !.pending = @ \ {win.id}, !.found = @ \cup {i},
                               !.unscored = @ \cup {i}]
<1> HIDE DEF i
<1>4. /\ win \in windows /\ win.clock = c /\ win.id \in WindowIds
      /\ win.id \in req[w].pending /\ ~Referenced(win)
  BY <1>0, <1>c, <1>2 DEF RunOK, PendingOK, Unanchored, WindowsOf, TablesOK, WindowKeys, TypeOK,
                          Window
<1>5. PICK new \in Jump : /\ jumps' = jumps \cup {new}
                          /\ new.id = i /\ new.clock = c /\ new.window = win.id
  <2> DEFINE n == [id |-> i, clock |-> c, window |-> win.id, status |-> "open"]
  <2>1. n \in Jump /\ n.id = i /\ n.clock = c /\ n.window = win.id
    BY <1>3, <1>4 DEF Jump, JumpStatus
  <2> QED BY <1>2, <1>c, <2>1
<1>6. Becomes(w, x)
  BY <1>2, Parts DEF Becomes
<1>7. /\ x \in Worker /\ ShapeOK(x) /\ x.pc = "jumps" /\ x.clock = c
      /\ x.pending = req[w].pending \ {win.id} /\ x.found = req[w].found \cup {i}
      /\ x.unscored = req[w].unscored \cup {i} /\ x.jump = req[w].jump
  BY <1>0, <1>c, <1>3 DEF Worker, ShapeOK, Detected, Finishing
<1>8. req'[w] = x
  BY <1>6, Parts DEF Becomes
<1>9. Holding(w, x)
  BY <1>0, <1>c, <1>7 DEF Holding
<1>n. req[w].jump = None /\ i # None
  BY <1>0, <1>3, AnalysisAssumption DEF ShapeOK
<1> HIDE DEF x
<1>10. TablesOK'
  <2>1. JumpKeys' /\ Anchored' /\ UniqueAnchors'
    BY <1>0, <1>3, <1>4, <1>5 DEF TablesOK, JumpKeys, Anchored, UniqueAnchors, Referenced
  <2>2. ScoredRows'
    BY <1>0, <1>5 DEF TablesOK, ScoredRows
  <2> QED BY <1>0, <2>1, <2>2 DEF TablesOK, WindowKeys, UniqueWindows
<1>11. WindowsOf(c)' = WindowsOf(c) /\ rows = WindowsOf(c)
  BY <1>0, <1>c DEF WindowsOf
<1>12. RunOK(req[w])'
  <2>1. PendingOK(req[w])'
    <3> SUFFICES ASSUME NEW m \in req[w].pending \ {win.id}
                 PROVE  \E v \in WindowsOf(c)' : v.id = m /\ ~Referenced(v)'
      BY <1>7, <1>8 DEF PendingOK, Unanchored
    <3>1. PICK v \in WindowsOf(c) : v.id = m /\ ~Referenced(v)
      BY <1>0, <1>c DEF RunOK, PendingOK, Unanchored
    <3>2. ~Referenced(v)'
      BY <1>5, <3>1 DEF Referenced
    <3> QED BY <1>11, <3>1, <3>2
  <2>2. CoveredOK(req[w])'
    <3> SUFFICES ASSUME NEW v \in WindowsOf(c), StartsRun(v, WindowsOf(c))
                 PROVE  Referenced(v)' \/ v.id \in req[w].pending \ {win.id}
      BY <1>7, <1>8, <1>11 DEF CoveredOK
    <3>1. Referenced(v) \/ v.id \in req[w].pending
      BY <1>0, <1>c DEF RunOK, CoveredOK, Detected
    <3>2. Referenced(v) => Referenced(v)'
      BY <1>5 DEF Referenced
    <3>3. v.id = win.id => Referenced(v)'
      BY <1>5 DEF Referenced
    <3> QED BY <3>1, <3>2, <3>3
  <2>3. FoundOK(req[w])'
    BY <1>0, <1>c, <1>5, <1>7, <1>8 DEF RunOK, FoundOK
  <2>4. ScoresOK(req[w])'
    <3>1. candidates[i] = 0
      BY <1>0, <1>3 DEF TablesOK, ScoredRows
    <3> QED BY <1>0, <1>7, <1>8, <3>1, <1>n DEF RunOK, ScoresOK
  <2> QED BY <2>1, <2>2, <2>3, <2>4, <1>7, <1>8 DEF RunOK, BuildOK, FreshOK
<1>13. \A d \in Clocks : d # c => ClockKept(d)
  BY <1>0, <1>5 DEF ClockKept, WindowsOf, JumpsOf, SameRows
<1>14. /\ windows' \subseteq Window /\ jumps' \subseteq Jump
       /\ candidates' \in [JumpIds -> 0..CandRows] /\ candidates' = candidates
  BY <1>0, <1>5 DEF TypeOK
<1> QED BY <1>0, <1>c, <1>6, <1>7, <1>9, <1>10, <1>12, <1>13, <1>14, WriteStep

\* An analysis that goes on with what it has found.
SameWork(q, x) == /\ x.clock = q.clock /\ x.pending = q.pending /\ x.found = q.found
                  /\ x.unscored = q.unscored /\ x.jump = q.jump

LEMMA OnwardOK ==
  ASSUME NEW q, NEW x, RunOK(q), q.pc \in Detected, SameWork(q, x),
         x.pc \in Finishing \cup {"score", "unscore"}
  PROVE  RunOK(x)
<1>1. BuildOK(x) /\ FreshOK(x) /\ PendingOK(x) /\ CoveredOK(x)
  BY DEF RunOK, BuildOK, FreshOK, PendingOK, Unanchored, CoveredOK, Detected, Finishing, SameWork
<1>2. FoundOK(x) /\ ScoresOK(x)
  BY DEF RunOK, FoundOK, ScoresOK, Finishing, SameWork
<1> QED BY <1>1, <1>2 DEF RunOK

LEMMA DetectDoneStep ==
  ASSUME IInv, NEW w \in Workers, DetectDone(w)
  PROVE  IInv'
<1> DEFINE x == [req[w] EXCEPT !.pc = "score"]
<1>0. /\ req[w] \in Worker /\ ShapeOK(req[w]) /\ RunOK(req[w])
      /\ req[w].pc = "jumps" /\ req[w].pending = {}
  BY Parts DEF DetectDone
<1>1. x \in Worker /\ ShapeOK(x)
  BY <1>0 DEF Worker, Steps, Locked, ShapeOK, Detected, Finishing
<1>2. Becomes(w, x) /\ Holding(w, x)
  BY <1>0 DEF DetectDone, Goto, Becomes, Holding, Worker, Locked
<1>3. RunOK(x)
  BY <1>0, OnwardOK DEF Worker, SameWork, Detected
<1> QED BY <1>1, <1>2, <1>3, QuietTypes, QuietStep DEF DetectDone, tables, boot

\* The segments of a run have no candidates when their turn comes.
LEMMA ScoreStep ==
  ASSUME IInv, NEW w \in Workers, ScoreJump(w)
  PROVE  IInv'
<1>0. /\ req[w] \in Worker /\ ShapeOK(req[w]) /\ RunOK(req[w])
      /\ req[w].pc = "score" /\ req[w].jump = None
  BY Parts DEF ScoreJump, ShapeOK
<1>1. PICK j \in req[w].unscored :
        req' = IF candidates[j] > 0
               THEN [req EXCEPT ![w].unscored = @ \ {j}]
               ELSE [req EXCEPT ![w].pc = "candidates", ![w].jump = j]
  BY DEF ScoreJump
<1>2. j \in JumpIds /\ j # None /\ candidates[j] = 0 /\ j \in req[w].found
  BY <1>0, AnalysisAssumption DEF Worker, RunOK, ScoresOK, ShapeOK
<1> DEFINE x == [req[w] EXCEPT !.pc = "candidates", !.jump = j]
<1>3. Becomes(w, x)
  <2>1. ~ (candidates[j] > 0)
    BY <1>2
  <2>2. req' = [req EXCEPT ![w].pc = "candidates", ![w].jump = j]
    BY <1>1, <2>1
  <2> QED BY <2>2, Parts DEF Becomes
<1>4. /\ x \in Worker /\ x.pc = "candidates" /\ x.jump = j /\ x.clock = req[w].clock
      /\ x.pending = req[w].pending /\ x.found = req[w].found /\ x.unscored = req[w].unscored
  BY <1>0, <1>2 DEF Worker, Steps, Locked
<1>5. ShapeOK(x)
  BY <1>0, <1>2, <1>4 DEF ShapeOK, Detected, Finishing
<1>6. Holding(w, x)
  BY <1>0, <1>4 DEF ScoreJump, Holding, Locked
<1> HIDE DEF x
<1>7. BuildOK(x) /\ FreshOK(x) /\ PendingOK(x) /\ CoveredOK(x)
  BY <1>0, <1>4 DEF RunOK, BuildOK, FreshOK, PendingOK, Unanchored, CoveredOK, Detected
<1>8. FoundOK(x) /\ ScoresOK(x)
  <2>1. \A m \in req[w].unscored : m # None
    BY <1>0, AnalysisAssumption DEF Worker
  <2>2. candidates[j] < CandRows
    BY <1>2, AnalysisAssumption
  <2> QED BY <1>0, <1>2, <1>4, <2>1, <2>2 DEF RunOK, FoundOK, ScoresOK
<1> QED BY <1>3, <1>4, <1>5, <1>6, <1>7, <1>8, QuietTypes, QuietStep
        DEF ScoreJump, RunOK, tables, boot

\* A statement that writes candidates of a segment of this run.
LEMMA CandidateWrite ==
  ASSUME IInv, NEW w \in Workers, req[w].pc \in Locked, req[w].jump \in JumpIds,
         req[w].jump \in req[w].found,
         NEW x \in Worker, Becomes(w, x), ShapeOK(x), Holding(w, x), x.clock = req[w].clock \/ x = Idle,
         NEW n \in 0..CandRows, candidates' = [candidates EXCEPT ![req[w].jump] = n],
         UNCHANGED <<clockStatus, samples, windows, jumps, live, boot>>,
         RunOK(req[w])'
  PROVE  IInv'
<1>0. TypeOK /\ TablesOK /\ RunOK(req[w])
  BY Parts
<1>1. PICK j \in jumps : j.id = req[w].jump /\ j.clock = req[w].clock
  BY <1>0 DEF RunOK, FoundOK
<1>2. TablesOK'
  <2>1. ScoredRows'
    BY <1>0, <1>1 DEF TablesOK, ScoredRows, TypeOK
  <2> QED BY <1>0, <2>1 DEF TablesOK, WindowKeys, JumpKeys, Anchored, UniqueWindows, UniqueAnchors
<1>3. \A d \in Clocks : ClockKept(d)
  BY DEF ClockKept, WindowsOf, JumpsOf, SameRows
<1>4. /\ windows' \subseteq Window /\ jumps' \subseteq Jump
      /\ candidates' \in [JumpIds -> 0..CandRows]
  BY <1>0 DEF TypeOK
<1>5. \A i \in JumpIds : candidates'[i] # candidates[i] => i = req[w].jump
  BY <1>0 DEF TypeOK
<1> QED BY <1>1, <1>2, <1>3, <1>4, <1>5, WriteStep

LEMMA InsertCandidateStep ==
  ASSUME IInv, NEW w \in Workers, InsertCandidate(w)
  PROVE  IInv'
<1>0. /\ req[w] \in Worker /\ ShapeOK(req[w]) /\ RunOK(req[w]) /\ TypeOK
      /\ req \in [Workers -> Worker] /\ req[w].pc = "candidates" /\ req[w].pc \in Locked
      /\ UNCHANGED <<clockStatus, samples, windows, jumps, live, holder, boot>>
  BY Parts DEF InsertCandidate, Locked
<1>j. PICK j \in JumpIds : j = req[w].jump
  BY <1>0 DEF ShapeOK, Worker
<1>1. /\ j \in req[w].unscored /\ j \in req[w].found /\ j # None
      /\ candidates[j] \in 0..CandRows /\ candidates[j] < CandRows
  BY <1>0, <1>j DEF ShapeOK, RunOK, ScoresOK, TypeOK
<1>2. candidates' = [candidates EXCEPT ![j] = candidates[j] + 1] /\ candidates[j] + 1 \in 0..CandRows
  BY <1>j, <1>1, AnalysisAssumption DEF InsertCandidate
<1>3. candidates'[j] = candidates[j] + 1 /\ \A i \in JumpIds : i # j => candidates'[i] = candidates[i]
  BY <1>0, <1>2 DEF TypeOK
<1>4. req[w].found \subseteq JumpIds /\ req[w].unscored \subseteq JumpIds
  BY <1>0 DEF Worker
<1>5. ASSUME NEW x, x = req'[w], SameWork(req[w], x) \/
               (x.clock = req[w].clock /\ x.pending = req[w].pending /\ x.found = req[w].found),
             x.pc \in {"score", "candidates"}
      PROVE  /\ BuildOK(req[w])' /\ FreshOK(req[w])' /\ PendingOK(req[w])' /\ CoveredOK(req[w])'
             /\ FoundOK(req[w])'
  BY <1>0, <1>5 DEF RunOK, BuildOK, FreshOK, PendingOK, Unanchored, CoveredOK, FoundOK, Detected,
                    WindowsOf, Referenced, SameWork
<1>6. CASE candidates[j] + 1 = CandRows
  <2> DEFINE x == [req[w] EXCEPT !.pc = "score", !.jump = None, !.unscored = @ \ {j}]
  <2>1. Becomes(w, x)
    BY <1>0, <1>j, <1>6 DEF InsertCandidate, Becomes
  <2>2. /\ x \in Worker /\ x.pc = "score" /\ x.jump = None /\ x.clock = req[w].clock
        /\ x.unscored = req[w].unscored \ {j} /\ x.found = req[w].found
        /\ x.pending = req[w].pending /\ req'[w] = x
    BY <1>0, <2>1 DEF Worker, Steps, Locked, Becomes
  <2>3. ShapeOK(x)
    BY <1>0, <2>2 DEF ShapeOK, Detected, Finishing
  <2>4. Holding(w, x)
    BY <1>0, <2>2 DEF Holding
  <2> HIDE DEF x
  <2>5. ScoresOK(req[w])'
    BY <1>0, <1>j, <1>1, <1>3, <1>4, <1>6, <2>2 DEF RunOK, ScoresOK
  <2>6. RunOK(req[w])'
    BY <1>5, <2>2, <2>5 DEF RunOK
  <2> QED BY <1>0, <1>j, <1>1, <1>2, <2>1, <2>2, <2>3, <2>4, <2>6, CandidateWrite
<1>7. CASE candidates[j] + 1 # CandRows
  <2>1. Becomes(w, req[w]) /\ req'[w] = req[w]
    BY <1>0, <1>j, <1>7 DEF InsertCandidate, Becomes
  <2>2. Holding(w, req[w])
    BY <1>0 DEF Holding
  <2>3. candidates[j] + 1 < CandRows
    BY <1>2, <1>1, <1>7, AnalysisAssumption
  <2>4. ScoresOK(req[w])'
    BY <1>0, <1>j, <1>1, <1>3, <1>4, <2>1, <2>3 DEF RunOK, ScoresOK
  <2>5. RunOK(req[w])'
    BY <1>0, <1>5, <2>1, <2>4 DEF RunOK, SameWork
  <2> QED BY <1>0, <1>j, <1>1, <1>2, <2>1, <2>2, <2>5, CandidateWrite
<1> QED BY <1>6, <1>7

\* DeleteCandidatesForJump after a scoring that failed.
LEMMA UnscoreStep ==
  ASSUME IInv, NEW w \in Workers, Unscore(w)
  PROVE  IInv'
<1>0. /\ req[w] \in Worker /\ ShapeOK(req[w]) /\ TypeOK /\ Return(w)
      /\ req \in [Workers -> Worker] /\ req[w].pc = "unscore" /\ req[w].pc \in Locked
      /\ candidates' = [j \in JumpIds |-> IF j = req[w].jump THEN 0 ELSE candidates[j]]
      /\ UNCHANGED <<clockStatus, samples, windows, jumps, live, boot>>
  BY Parts DEF Unscore, Locked
<1>1. CASE req[w].jump = None
  <2>1. candidates' = candidates
    BY <1>0, <1>1, AnalysisAssumption DEF TypeOK
  <2> QED BY <1>0, <2>1, QuietTypes, ReturnStep DEF boot
<1>2. CASE req[w].jump # None
  <2>1. req[w].jump \in JumpIds /\ req[w].jump \in req[w].found
    BY <1>0, <1>2 DEF ShapeOK, Worker
  <2>2. candidates' = [candidates EXCEPT ![req[w].jump] = 0]
    BY <1>0 DEF TypeOK
  <2>n. 0 \in 0..CandRows
    BY AnalysisAssumption
  <2>3. Becomes(w, Idle) /\ Holding(w, Idle) /\ req'[w] = Idle
    BY <1>0 DEF Return, Becomes, Holding, Idle, Locked
  <2>4. RunOK(req[w])'
    BY <2>3, IdleOK, RestOKNext DEF Idle, Detected, Finishing
  <2> QED BY <1>0, <2>1, <2>2, <2>n, <2>3, <2>4, IdleOK, CandidateWrite
<1> QED BY <1>1, <1>2

-----------------------------------------------------------------------------
(* AnalyzeClockCtx: the status *)

\* The worker goes on to another step of the analysis.
LEMMA OnwardStep ==
  ASSUME IInv, NEW w \in Workers, NEW x \in Worker, Becomes(w, x), UNCHANGED holder,
         req[w].pc \in Detected, SameWork(req[w], x),
         x.pc \in Finishing \cup {"unscore"},
         x.pc \in Finishing => req[w].unscored = {} /\ req[w].pc # "candidates",
         x.pc = "unscore" => req[w].pc \in {"score", "candidates"},
         req[w].pending = {},
         UNCHANGED <<samples, windows, jumps, candidates, live, boot>>,
         clockStatus' \in [Clocks -> ClockStatus]
  PROVE  IInv'
<1>0. ShapeOK(req[w]) /\ RunOK(req[w]) /\ TypeOK
  BY Parts
<1>1. ShapeOK(x)
  BY <1>0 DEF ShapeOK, SameWork, Detected, Finishing
<1>2. Holding(w, x)
  BY DEF Holding, SameWork, Locked, Detected, Finishing
<1>3. RunOK(x)
  BY <1>0, OnwardOK
<1> QED BY <1>0, <1>1, <1>2, <1>3, QuietStep DEF TypeOK, boot

LEMMA VerdictTypes ==
  ASSUME NEW w \in Workers
  PROVE  Verdict(w) \in {"confirmed", "review"} /\ Verdict(w) \in ClockStatus
BY DEF Verdict, ClockStatus

LEMMA StatusWrite ==
  ASSUME TypeOK, NEW w \in Workers, NEW next \in ClockStatus, CompareAndSet(w, next)
  PROVE  clockStatus' \in [Clocks -> ClockStatus]
BY DEF TypeOK, CompareAndSet

LEMMA FinishSteps ==
  ASSUME IInv, NEW w \in Workers,
         ScoreDone(w) \/ Mark(w) \/ MarkUpdate(w) \/ Finish(w) \/ FinishUpdate(w)
  PROVE  IInv'
<1>0. /\ req[w] \in Worker /\ ShapeOK(req[w]) /\ TypeOK /\ req \in [Workers -> Worker]
      /\ req[w].pc # "idle" => clockStatus[req[w].clock] \in ClockStatus
  BY Parts DEF TypeOK, ShapeOK
<1>t. UNCHANGED clockStatus => clockStatus' \in [Clocks -> ClockStatus]
  BY <1>0 DEF TypeOK
<1>1. CASE ScoreDone(w)
  <2> DEFINE step == IF req[w].seen = "collecting" THEN "mark" ELSE "finish"
             x == [req[w] EXCEPT !.pc = step]
  <2>1. x \in Worker /\ SameWork(req[w], x) /\ x.pc \in Finishing
    BY <1>0 DEF Worker, Steps, Locked, SameWork, Finishing
  <2>2. Becomes(w, x) /\ req[w].pc = "score" /\ req[w].unscored = {} /\ req[w].pending = {}
    BY <1>0, <1>1 DEF ScoreDone, Goto, Becomes, ShapeOK
  <2> QED BY <1>1, <1>t, <2>1, <2>2, OnwardStep DEF ScoreDone, Detected, Finishing, tables
<1>2. ASSUME NEW next \in ClockStatus, NEW from \in {"mark", "finish"},
             NEW step \in {"mark.update", "finish.update"},
             req[w].pc = from, SetStatusGet(w, next, step)
      PROVE  IInv'
  <2> DEFINE x == [req[w] EXCEPT !.pc = step, !.cas = clockStatus[req[w].clock]]
  <2>1. CASE Return(w)
    BY <1>2, <2>1, QuietTypes, ReturnStep DEF SetStatusGet, Locked, tables, boot
  <2>2. CASE req' = [req EXCEPT ![w].pc = step, ![w].cas = clockStatus[req[w].clock]]
             /\ UNCHANGED holder
    <3>1. x \in Worker /\ SameWork(req[w], x) /\ x.pc \in Finishing
      BY <1>0, <1>2 DEF Worker, Steps, Locked, SameWork, Finishing
    <3>2. Becomes(w, x) /\ req[w].unscored = {} /\ req[w].pending = {}
      BY <1>0, <1>2, <2>2 DEF Becomes, ShapeOK, Finishing
    <3> QED BY <1>2, <1>t, <2>2, <3>1, <3>2, OnwardStep DEF SetStatusGet, Detected, Finishing, tables
  <2> QED BY <1>2, <2>1, <2>2 DEF SetStatusGet
<1>3. CASE Mark(w)
  BY <1>2, <1>3 DEF Mark, ClockStatus
<1>4. CASE MarkUpdate(w)
  <2> DEFINE x == [req[w] EXCEPT !.pc = "finish", !.seen = clockStatus'[req[w].clock]]
  <2>1. clockStatus' \in [Clocks -> ClockStatus]
    BY <1>0, <1>4, StatusWrite DEF MarkUpdate, ClockStatus
  <2>2. clockStatus'[req[w].clock] \in ClockStatus /\ req[w].pc = "mark.update"
    BY <1>0, <1>4, <2>1 DEF MarkUpdate, ShapeOK
  <2>3. x \in Worker /\ SameWork(req[w], x) /\ x.pc \in Finishing
    BY <1>0, <2>2 DEF Worker, Steps, Locked, SameWork, Finishing
  <2>4. Becomes(w, x) /\ req[w].unscored = {} /\ req[w].pending = {}
    BY <1>0, <1>4, <2>2 DEF MarkUpdate, Becomes, ShapeOK, Finishing
  <2> QED BY <1>4, <2>1, <2>2, <2>3, <2>4, OnwardStep DEF MarkUpdate, Detected, Finishing
<1>5. CASE Finish(w)
  <2>1. CASE Return(w) /\ UNCHANGED <<tables, live, boot>>
    BY <1>5, <2>1, QuietTypes, ReturnStep DEF Finish, Locked, tables, boot
  <2>2. CASE SetStatusGet(w, Verdict(w), "finish.update")
    BY <1>2, <1>5, <2>2, VerdictTypes DEF Finish
  <2> QED BY <1>5, <2>1, <2>2 DEF Finish
<1>6. CASE FinishUpdate(w)
  <2>1. clockStatus' \in [Clocks -> ClockStatus]
    BY <1>0, <1>6, StatusWrite, VerdictTypes DEF FinishUpdate
  <2> QED BY <1>0, <1>6, <2>1, ReturnStep DEF FinishUpdate, Locked, boot, TypeOK
<1> QED BY <1>1, <1>3, <1>4, <1>5, <1>6
-----------------------------------------------------------------------------
(* Cancellation and cleanup *)

LEMMA CancelStep ==
  ASSUME IInv, NEW w \in Workers, Cancel(w)
  PROVE  IInv'
<1>0. /\ req[w] \in Worker /\ ShapeOK(req[w]) /\ RunOK(req[w]) /\ TypeOK
      /\ req[w].pc \in Locked \ {"rollback", "unscore"}
      /\ UNCHANGED <<tables, live, boot>>
  BY Parts DEF Cancel
<1>1. CASE CleanupStep(w) = "idle"
  BY <1>0, <1>1, QuietTypes, ReturnStep DEF Cancel, tables, boot
<1>2. CASE req[w].pc = "build"
  <2> DEFINE x == [req[w] EXCEPT !.pc = "rollback"]
  <2>1. Goto(w, "rollback") /\ UNCHANGED holder
    BY <1>2 DEF Cancel, CleanupStep
  <2>2. x \in Worker /\ ShapeOK(x)
    BY <1>0, <1>2 DEF Worker, Steps, Locked, ShapeOK, Detected, Finishing
  <2>3. Becomes(w, x) /\ Holding(w, x)
    BY <1>0, <2>1 DEF Goto, Becomes, Holding, Worker
  <2>4. RunOK(x)
    BY <1>0, <1>2 DEF Worker, RunOK, BuildOK, FreshOK, PendingOK, Unanchored, CoveredOK, FoundOK,
                      ScoresOK, Detected, Finishing
  <2> QED BY <1>0, <2>2, <2>3, <2>4, QuietTypes, QuietStep DEF tables, boot
<1>3. CASE req[w].pc \in {"score", "candidates"}
  <2> DEFINE x == [req[w] EXCEPT !.pc = "unscore"]
  <2>1. Goto(w, "unscore") /\ UNCHANGED holder
    BY <1>3 DEF Cancel, CleanupStep
  <2>2. x \in Worker /\ SameWork(req[w], x) /\ x.pc = "unscore"
    BY <1>0 DEF Worker, Steps, Locked, SameWork
  <2>3. Becomes(w, x) /\ req[w].pending = {} /\ req[w].pc \in Detected
    BY <1>0, <1>3, <2>1 DEF Goto, Becomes, ShapeOK, Detected
  <2>4. clockStatus' \in [Clocks -> ClockStatus]
    BY <1>0 DEF TypeOK, tables
  <2> HIDE DEF x
  <2> QED BY <1>0, <1>3, <2>1, <2>2, <2>3, <2>4, OnwardStep DEF tables, Finishing
<1> QED BY <1>1, <1>2, <1>3 DEF CleanupStep

\* Both cleanups end by returning, whether or not they got to their end.
LEMMA CleanupEnds ==
  ASSUME IInv, NEW w \in Workers, RollbackDone(w) \/ CleanupError(w)
  PROVE  IInv'
BY QuietTypes, ReturnStep DEF RollbackDone, CleanupError, Locked, tables, boot

-----------------------------------------------------------------------------
(* The writers without the mutex, crash and Recover *)

\* A step that neither moves a worker nor changes what a row is to them.
LEMMA SetStatusStep ==
  ASSUME IInv, NEW c \in Clocks, NEW next, SetStatus(c, next)
  PROVE  IInv'
<1>1. next \in ClockStatus
  BY DEF SetStatus, CanTransition, ClockTransitions, ClockStatus
<1>2. TypeOK'
  BY <1>1, Parts DEF SetStatus, TypeOK, boot
<1>3. TypeInv'
  BY <1>2, Parts DEF TypeInv, SetStatus, Exclusion
<1>4. TablesOK'
  BY Parts DEF SetStatus, TablesOK, WindowKeys, JumpKeys, Anchored, ScoredRows, UniqueWindows,
               UniqueAnchors
<1>5. \A v \in Workers : RunOK(req[v])'
  BY Parts DEF SetStatus, RunOK, BuildOK, FreshOK, PendingOK, Unanchored, CoveredOK, FoundOK,
               ScoresOK, WindowsOf, Referenced
<1> QED BY <1>3, <1>4, <1>5 DEF IInv

LEMMA ConfirmStep ==
  ASSUME IInv, NEW j \in jumps, ConfirmJump(j)
  PROVE  IInv'
<1>0. TypeInv /\ TypeOK /\ TablesOK /\ UNCHANGED <<clockStatus, samples, windows, candidates,
                                                  live, holder, boot, req>>
  BY Parts DEF ConfirmJump
<1>1. j \in Jump
  BY <1>0 DEF TypeOK
<1>2. PICK k \in Jump : /\ jumps' = (jumps \ {j}) \cup {k}
                        /\ k.id = j.id /\ k.window = j.window /\ k.clock = j.clock
  <2> DEFINE n == [j EXCEPT !.status = "confirmed"]
  <2>1. n \in Jump /\ n.id = j.id /\ n.window = j.window /\ n.clock = j.clock
    BY <1>1 DEF Jump, JumpStatus
  <2> QED BY <2>1 DEF ConfirmJump
<1>3. TypeInv'
  <2>1. TypeOK'
    BY <1>0, <1>2 DEF TypeOK, boot
  <2> QED BY <1>0, <2>1 DEF TypeInv, Exclusion
<1>4. TablesOK'
  <2>1. JumpKeys' /\ Anchored' /\ UniqueAnchors'
    BY <1>0, <1>2 DEF TablesOK, JumpKeys, Anchored, UniqueAnchors
  <2>2. ScoredRows'
    BY <1>0, <1>2 DEF TablesOK, ScoredRows
  <2> QED BY <1>0, <2>1, <2>2 DEF TablesOK, WindowKeys, UniqueWindows
<1>5. ASSUME NEW v \in Workers PROVE RunOK(req[v])'
  <2>1. ClockKept(req[v].clock)
    BY <1>0, <1>2 DEF ClockKept, WindowsOf, JumpsOf, SameRows
  <2>2. /\ req[v].pc = "candidates" => req[v].jump \in req[v].found
        /\ req[v].unscored \subseteq req[v].found /\ RunOK(req[v])
    BY Parts DEF ShapeOK
  <2> QED BY <1>0, <1>4, <2>1, <2>2, BystanderOK
<1> QED BY <1>3, <1>4, <1>5 DEF IInv

LEMMA CrashStep ==
  ASSUME IInv, Crash
  PROVE  IInv'
<1>1. TypeOK'
  BY Parts, IdleOK DEF Crash, TypeOK, tables
<1>2. \A v \in Workers : req'[v] = Idle
  BY DEF Crash
<1>3. TypeInv'
  BY <1>1, <1>2, IdleOK DEF TypeInv, Exclusion, Idle, Locked
<1>4. TablesOK'
  BY Parts DEF Crash, tables, TablesOK, WindowKeys, JumpKeys, Anchored, ScoredRows, UniqueWindows,
               UniqueAnchors
<1>5. ASSUME NEW v \in Workers PROVE RunOK(req[v])'
  <2>1. ShapeOK(req'[v]) /\ req'[v].pc = "idle"
    BY <1>2, IdleOK DEF Idle
  <2> QED BY <2>1, RestOKNext DEF Detected, Finishing
<1> QED BY <1>3, <1>4, <1>5 DEF IInv

\* What ListByClock returns are samples, and Replace makes a live index of them.
LEMMA LoadTypes ==
  ASSUME TypeOK, NEW c \in Clocks, NEW S \in Loads(c), live' = Replaced(c, S)
  PROVE  live' \in [Samples -> Nat]
BY DEF TypeOK, Replaced

LEMMA RecoverStep ==
  ASSUME IInv, Recover
  PROVE  IInv'
<1>0. TypeOK /\ Recovery \in Workers /\ req \in [Workers -> Worker]
      /\ req[Recovery] \in Worker /\ ShapeOK(req[Recovery]) /\ RunOK(req[Recovery])
  BY Parts DEF Workers
<1>q. Becomes(Recovery, req[Recovery]) <=> UNCHANGED req
  BY <1>0 DEF Becomes
<1>h. UNCHANGED holder => Holding(Recovery, req[Recovery])
  BY DEF Holding
<1>1. CASE ListenAndServe
  <2>1. /\ UNCHANGED <<windows, jumps, candidates, req, holder>> /\ serving' \in BOOLEAN
        /\ clockStatus' \in [Clocks -> ClockStatus] /\ samples' \subseteq Samples
        /\ live' \in [Samples -> Nat] /\ toRecover' \subseteq Clocks
    BY <1>0, <1>1 DEF ListenAndServe, TypeOK, tables
  <2> QED BY <1>0, <1>q, <1>h, <2>1, QuietStep
<1>2. ASSUME NEW c \in Clocks, RecoverClock(c) PROVE IInv'
  <2> DEFINE x == [Idle EXCEPT !.pc = "analyze.lock", !.clock = c]
  <2>1. /\ UNCHANGED <<windows, jumps, candidates, holder>> /\ serving' \in BOOLEAN
        /\ clockStatus' \in [Clocks -> ClockStatus] /\ samples' \subseteq Samples
        /\ toRecover' \subseteq Clocks /\ req[Recovery].pc = "idle"
    BY <1>0, <1>2 DEF RecoverClock, TypeOK, tables
  <2>2. live' \in [Samples -> Nat]
    BY <1>0, <1>2, LoadTypes DEF RecoverClock
  <2>3. x \in Worker /\ ShapeOK(x) /\ x.pc = "analyze.lock"
    BY DEF Idle, Worker, Steps, ShapeOK, Detected, Finishing
  <2>4. Holding(Recovery, x) /\ RunOK(x)
    BY <2>1, <2>3, RestOK DEF Holding, Locked, Detected, Finishing
  <2>5. Becomes(Recovery, x) \/ Becomes(Recovery, req[Recovery])
    BY <1>2, <1>q DEF RecoverClock, Becomes
  <2> HIDE DEF x
  <2>6. CASE Becomes(Recovery, x)
    BY <1>0, <2>1, <2>2, <2>3, <2>4, <2>6, QuietStep
  <2>7. CASE Becomes(Recovery, req[Recovery])
    BY <1>0, <1>h, <2>1, <2>2, <2>7, QuietStep
  <2> QED BY <2>5, <2>6, <2>7
<1> QED BY <1>1, <1>2 DEF Recover

-----------------------------------------------------------------------------

LEMMA IInvNext ==
  ASSUME IInv, [Next]_vars
  PROVE  IInv'
<1>1. ASSUME NEW w \in Workers, Continue(w) PROVE IInv'
  BY <1>1, IngestStep, LoadStep, BuildStep, BuildDoneStep, DetectStep, InsertJumpStep,
     DetectDoneStep, ScoreStep, InsertCandidateStep, FinishSteps, RollbackStep, CleanupEnds,
     UnscoreStep DEF Continue
<1>2. CASE UNCHANGED vars
  <2>1. PICK w \in Workers : TRUE
    BY DEF Workers
  <2>2. Becomes(w, req[w]) /\ Holding(w, req[w]) /\ req[w] \in Worker
    BY <1>2, Parts DEF Becomes, Holding, vars
  <2> QED BY <1>2, <2>2, Parts, QuietTypes, QuietStep DEF vars, tables, boot
<1> QED BY <1>1, <1>2, BeginStep, LockStep, CancelStep, CleanupEnds, SetStatusStep, ConfirmStep,
           RecoverStep, CrashStep DEF Next

LEMMA IInvAlways == Spec => []IInv
BY IInvInit, IInvNext, PTL DEF Spec

-----------------------------------------------------------------------------
(* What the invariant says of the tables and the runs *)

\* Every clock, row and request stays within its type: statuses are those of
\* model.go, a segment names a window's key, no segment has more candidates than
\* one scoring inserts.
THEOREM TypeCorrect == Spec => []TypeOK
<1>1. IInv => TypeOK
  BY Parts
<1> QED BY <1>1, IInvAlways, PTL

\* No two handlers are inside one clock's critical section, whatever is
\* cancelled or crashes (lockClock and the deferred Unlock).
MutualExclusion ==
  \A v, w \in Workers : req[v].pc \in Locked /\ req[w].pc \in Locked
                        /\ req[v].clock = req[w].clock => v = w
THEOREM MutexHolds == Spec => []MutualExclusion
<1>1. IInv => MutualExclusion
  BY Parts DEF MutualExclusion, Exclusion
<1> QED BY <1>1, IInvAlways, PTL

\* A clock never has two windows for one slot, though the table has no unique
\* index and BuildCtx reads and inserts in separate statements.
THEOREM WindowsUnique == Spec => []UniqueWindows
<1>1. IInv => UniqueWindows
  BY Parts DEF TablesOK
<1> QED BY <1>1, IInvAlways, PTL

\* A window starts one segment at most, however often its clock is analysed,
\* cancelled and recovered (the covered set of DetectCtx).
THEOREM AnchorsUnique == Spec => []UniqueAnchors
<1>1. IInv => UniqueAnchors
  BY Parts DEF TablesOK
<1> QED BY <1>1, IInvAlways, PTL

\* No window a cancelled analysis deletes anchors a segment: the foreign key
\* never stops DeleteIDs half way.
THEOREM RollbackSafe == Spec => []RollbackUnreferenced
<1>1. ASSUME IInv PROVE RollbackUnreferenced
  <2> SUFFICES ASSUME NEW w \in Workers, req[w].pc \in {"build", "rollback"},
                      NEW win \in RolledBack(w)
               PROVE  ~Referenced(win)
    BY DEF RollbackUnreferenced
  <2>1. win \in windows /\ win.id \in req[w].fresh
    BY DEF RolledBack
  <2>2. PICK v \in WindowsOf(req[w].clock) : v.id = win.id /\ ~Referenced(v)
    BY <1>1, <2>1, Parts DEF RunOK, FreshOK, Unanchored
  <2> QED BY <1>1, <2>1, <2>2, Parts DEF TablesOK, WindowKeys, WindowsOf
<1> QED BY <1>1, IInvAlways, PTL

\* An analysis that decides the status has a segment for every run of jump
\* windows of its clock, those an interrupted run left included (DetectCtx).
THEOREM DetectionDone == Spec => []DetectionComplete
<1>1. ASSUME IInv PROVE DetectionComplete
  <2> SUFFICES ASSUME NEW w \in Workers, req[w].pc \in Finishing,
                      NEW win \in WindowsOf(req[w].clock),
                      StartsRun(win, WindowsOf(req[w].clock))
               PROVE  Referenced(win)
    BY DEF DetectionComplete, Referenced
  <2>1. req[w].pending = {} /\ CoveredOK(req[w])
    BY <1>1, Parts DEF ShapeOK, RunOK, Finishing
  <2> QED BY <2>1 DEF CoveredOK, Detected
<1> QED BY <1>1, IInvAlways, PTL

\* The status is decided only when every segment of the run has all its
\* candidates (ScoreCtx returns its errors, AnalyzeClockCtx stops on them).
THEOREM VerdictScored == Spec => []ScoredBeforeVerdict
<1>1. IInv => ScoredBeforeVerdict
  BY Parts DEF ScoredBeforeVerdict, ShapeOK, RunOK, ScoresOK
<1> QED BY <1>1, IInvAlways, PTL

-----------------------------------------------------------------------------
(* Candidates of a segment *)

\* A step moves at most one worker and leaves the others what they score; the
\* one it moves was scoring nothing, or stays with its segment.
LEMMA AttendedKept ==
  ASSUME IInv, [Next]_vars, serving', ~CleanupFails, NEW j \in JumpIds, Attended(j), ~Attended(j)'
  PROVE  ~HalfScored(j)'
<1>1. PICK w \in Workers : req[w].jump = j
  BY DEF Attended
<1>2. /\ req[w].pc \in {"candidates", "unscore"} /\ req \in [Workers -> Worker]
      /\ candidates \in [JumpIds -> 0..CandRows] /\ ShapeOK(req[w])
  BY <1>1, Parts, AnalysisAssumption DEF ShapeOK, TypeOK
<1>3. req'[w].jump # j
  BY DEF Attended
<1>4. \/ InsertCandidate(w) \/ Unscore(w)
  <2>1. ASSUME NEW v \in Workers, v # w,
               Begin(v) \/ Lock(v) \/ Continue(v) \/ Cancel(v) \/ CleanupError(v)
        PROVE  req'[w] = req[w]
    <3>1. Begin(v) \/ Lock(v) \/ Cancel(v) \/ CleanupError(v) => req'[w] = req[w]
      BY <1>2, <2>1 DEF Begin, IngestBegin, AnalyzeBegin, Lock, IngestLock, AnalyzeLock, Acquire,
                        Cancel, CleanupError, Return, Goto
    <3>2. Continue(v) => req'[w] = req[w]
      BY <1>2, <2>1 DEF Continue, IngestCheck, IngestInsert, Load, BuildWindow, BuildDone, Detect,
                        InsertJump, DetectDone, ScoreJump, InsertCandidate, ScoreDone, Mark,
                        SetStatusGet, MarkUpdate, Finish, FinishUpdate, Rollback, RollbackDone,
                        Unscore, Return, Goto
    <3> QED BY <2>1, <3>1, <3>2
  <2>2. ~Crash /\ ~UNCHANGED vars
    BY <1>1, <1>3 DEF Crash, vars
  <2>3. Recover => req'[w] = req[w]
    BY <1>2 DEF Recover, ListenAndServe, RecoverClock
  <2>4. (\E c \in Clocks, next \in Asked : SetStatus(c, next)) \/ (\E k \in jumps : ConfirmJump(k))
           => req' = req
    BY DEF SetStatus, ConfirmJump
  <2>5. ~Begin(w) /\ ~Lock(w)
    BY <1>2 DEF Begin, IngestBegin, AnalyzeBegin, Lock, IngestLock, AnalyzeLock, Acquire
  <2>6. ~CleanupError(w)
    BY DEF CleanupError
  <2>7. ~Cancel(w)
    <3>1. Cancel(w) => req'[w].jump = req[w].jump
      BY <1>2 DEF Cancel, CleanupStep, Goto, Worker
    <3> QED BY <3>1, <1>1, <1>3
  <2>8. Continue(w) => InsertCandidate(w) \/ Unscore(w)
    BY <1>2 DEF Continue, IngestCheck, IngestInsert, Load, BuildWindow, BuildDone, Detect,
                InsertJump, DetectDone, ScoreJump, ScoreDone, Mark, MarkUpdate, Finish,
                FinishUpdate, Rollback, RollbackDone
  <2>9. Requests \subseteq Workers
    BY DEF Workers
  <2> QED BY <1>1, <1>3, <2>1, <2>2, <2>3, <2>4, <2>5, <2>6, <2>7, <2>8, <2>9 DEF Next
<1>5. CASE InsertCandidate(w)
  <2>1. candidates[j] + 1 = CandRows
    BY <1>1, <1>2, <1>3, <1>5 DEF InsertCandidate
  <2>2. candidates'[j] = CandRows
    BY <1>1, <1>2, <1>5, <2>1 DEF InsertCandidate
  <2> QED BY <2>2, AnalysisAssumption DEF HalfScored
<1>6. CASE Unscore(w)
  BY <1>1, <1>6 DEF Unscore, HalfScored
<1> QED BY <1>4, <1>5, <1>6

\* Candidates are written by the worker that scores the segment or cleans up.
LEMMA CandidatesOfAttended ==
  ASSUME IInv, [Next]_vars, NEW j \in JumpIds, candidates'[j] # candidates[j]
  PROVE  Attended(j)
<1>1. candidates \in [JumpIds -> 0..CandRows]
  BY Parts DEF TypeOK
<1>2. ASSUME NEW w \in Workers, InsertCandidate(w) \/ Unscore(w) PROVE req[w].jump = j
  BY <1>1, <1>2 DEF InsertCandidate, Unscore
<1>3. ASSUME NEW w \in Workers, Continue(w) PROVE InsertCandidate(w) \/ Unscore(w)
  BY <1>3 DEF Continue, IngestCheck, IngestInsert, Load, BuildWindow, BuildDone, Detect,
              InsertJump, DetectDone, ScoreJump, ScoreDone, Mark, SetStatusGet, MarkUpdate, Finish,
              FinishUpdate, Rollback, RollbackDone, tables
<1>4. ASSUME NEW w \in Workers, Begin(w) \/ Lock(w) \/ Cancel(w) \/ CleanupError(w)
      PROVE  candidates' = candidates
  BY <1>4 DEF Begin, IngestBegin, AnalyzeBegin, Lock, IngestLock, AnalyzeLock, Acquire,
              Cancel, CleanupError, tables
<1>5. Recover \/ Crash \/ UNCHANGED vars \/ (\E k \in jumps : ConfirmJump(k))
        \/ (\E c \in Clocks, next \in Asked : SetStatus(c, next)) => candidates' = candidates
  BY DEF Recover, ListenAndServe, RecoverClock, Crash, vars, ConfirmJump, SetStatus, tables
<1>6. PICK w \in Workers : Continue(w)
  <2>1. Requests \subseteq Workers
    BY DEF Workers
  <2> QED BY <1>4, <1>5, <2>1 DEF Next
<1> QED BY <1>2, <1>3, <1>6 DEF Attended

\* Where the cleanup statements work, only a crash leaves a segment with part of
\* its candidates to nobody (DeleteCandidatesForJump).
THEOREM HalfScoreCrash == ASSUME ~CleanupFails PROVE Spec => HalfScoresOnlyFromCrash
<1>1. ASSUME IInv, [Next]_vars, NEW j \in JumpIds, HalfScored(j)', ~Attended(j)', serving'
      PROVE  HalfScored(j) /\ ~Attended(j)
  <2>1. ~Attended(j)
    BY <1>1, AttendedKept
  <2>2. candidates'[j] = candidates[j]
    BY <1>1, <2>1, CandidatesOfAttended
  <2> QED BY <1>1, <2>1, <2>2 DEF HalfScored
<1>2. IInv /\ [Next]_vars => [\A j \in JumpIds : HalfScored(j)' /\ ~Attended(j)' /\ serving'
                                                   => HalfScored(j) /\ ~Attended(j)]_vars
  BY <1>1
<1> QED BY <1>2, IInvAlways, PTL DEF Spec, HalfScoresOnlyFromCrash

-----------------------------------------------------------------------------
(* Crash and recovery *)

\* A worker at work moves itself alone.
LEMMA WorkMoves ==
  ASSUME IInv, NEW w \in Workers, Lock(w) \/ Continue(w) \/ Cancel(w) \/ CleanupError(w)
  PROVE  /\ req[w].pc # "idle" /\ UNCHANGED boot
         /\ \A v \in Workers : v # w => req'[v] = req[v]
<1>0. req \in [Workers -> Worker]
  BY Parts
<1>1. CASE Lock(w) \/ Cancel(w) \/ CleanupError(w)
  BY <1>0, <1>1 DEF Lock, IngestLock, AnalyzeLock, Acquire, Cancel, CleanupError, Return, Goto,
                    Locked
<1>2. CASE Continue(w)
  BY <1>0, <1>2 DEF Continue, IngestCheck, IngestInsert, Load, BuildWindow, BuildDone, Detect,
                    InsertJump, DetectDone, ScoreJump, InsertCandidate, ScoreDone, Mark,
                    SetStatusGet, MarkUpdate, Finish, FinishUpdate, Rollback, RollbackDone,
                    Unscore, Return, Goto, boot
<1> QED BY <1>1, <1>2

\* While the server listens Recover is over, and while it does not no request runs.
LEMMA BootNext ==
  ASSUME IInv, BootOK, [Next]_vars
  PROVE  BootOK'
<1>0. /\ req \in [Workers -> Worker] /\ Recovery \in Workers /\ Recovery \notin Requests
      /\ Requests \subseteq Workers /\ serving \in BOOLEAN
  BY Parts, AnalysisAssumption DEF Workers, TypeOK
<1>1. ASSUME NEW w \in Requests, Begin(w) PROVE BootOK'
  <2>1. serving /\ UNCHANGED boot /\ req'[Recovery] = req[Recovery]
    BY <1>0, <1>1 DEF Begin, IngestBegin, AnalyzeBegin
  <2> QED BY <1>0, <2>1 DEF BootOK, boot
<1>2. ASSUME NEW w \in Workers, Lock(w) \/ Continue(w) \/ Cancel(w) \/ CleanupError(w)
      PROVE  BootOK'
  <2>1. /\ req[w].pc # "idle" /\ UNCHANGED boot
        /\ \A v \in Workers : v # w => req'[v] = req[v]
    BY <1>2, WorkMoves
  <2>2. CASE w = Recovery
    BY <1>0, <2>1, <2>2 DEF BootOK, boot
  <2>3. CASE w \in Requests
    BY <1>0, <2>1, <2>3 DEF BootOK, boot
  <2> QED BY <2>2, <2>3 DEF Workers
<1>3. CASE (\E c \in Clocks, next \in Asked : SetStatus(c, next)) \/ (\E j \in jumps : ConfirmJump(j))
             \/ UNCHANGED vars
  BY <1>3 DEF SetStatus, ConfirmJump, vars, boot, BootOK
<1>4. CASE Recover
  <2>1. CASE ListenAndServe
    BY <2>1 DEF ListenAndServe, BootOK
  <2>2. ASSUME NEW c \in Clocks, RecoverClock(c) PROVE BootOK'
    <3>1. ~serving /\ ~serving' /\ \A w \in Requests : req'[w] = req[w]
      BY <1>0, <2>2 DEF RecoverClock
    <3> QED BY <3>1 DEF BootOK
  <2> QED BY <1>4, <2>1, <2>2 DEF Recover
<1>5. CASE Crash
  BY <1>0, <1>5 DEF Crash, BootOK, Idle
<1> QED BY <1>1, <1>2, <1>3, <1>4, <1>5 DEF Next

LEMMA BootAlways == Spec => []BootOK
<1>1. Init => BootOK
  BY DEF Init, BootOK, Idle, Workers
<1> QED BY <1>1, BootNext, IInvAlways, PTL DEF Spec

\* While requests may run nothing is left to recover.
LEMMA ServingRecovery ==
  ASSUME BootOK, serving
  PROVE  RecoveryOK
BY DEF BootOK, RecoveryOK

\* The analysis Recover runs: of an analysing clock, to its verdict.
LEMMA RecoveryWork ==
  ASSUME IInv, BootOK, RecoveryOK, Lock(Recovery) \/ Continue(Recovery)
  PROVE  RecoveryOK'
<1> DEFINE q == req[Recovery]
<1>0. /\ req \in [Workers -> Worker] /\ Recovery \in Workers /\ q \in Worker /\ ShapeOK(q)
      /\ clockStatus \in [Clocks -> ClockStatus]
  BY Parts DEF Workers, TypeOK
<1>1. q.pc # "idle" /\ ~serving /\ UNCHANGED boot /\ clockStatus[q.clock] = "analyzing"
      /\ q.clock \in Clocks
  BY <1>0, WorkMoves DEF BootOK, RecoveryOK, ShapeOK
<1>2. ASSUME UNCHANGED clockStatus, req'[Recovery].pc # "idle", req'[Recovery].clock = q.clock,
             \/ req'[Recovery].pc \in {"analyze.lock", "load"}
             \/ /\ req'[Recovery].seen = "analyzing"
                /\ req'[Recovery].pc \in {"build", "detect", "jumps", "score", "candidates",
                                          "finish", "finish.update"}
                /\ req'[Recovery].pc = "finish.update" => req'[Recovery].cas = "analyzing"
      PROVE  RecoveryOK'
  BY <1>1, <1>2 DEF RecoveryOK, boot
<1>3. CASE Lock(Recovery)
  <2>1. q.pc = "analyze.lock"
    BY <1>3 DEF Lock, IngestLock, AnalyzeLock, Acquire, RecoveryOK
  <2>2. /\ req' = [req EXCEPT ![Recovery].pc = "load"] /\ UNCHANGED clockStatus
    BY <1>3, <2>1 DEF Lock, IngestLock, AnalyzeLock, Acquire, Goto, tables
  <2> QED BY <1>0, <1>2, <2>2 DEF Worker
<1>4. CASE Load(Recovery)
  <2>1. /\ UNCHANGED clockStatus /\ req'[Recovery].pc = "build"
        /\ req'[Recovery].seen = "analyzing" /\ req'[Recovery].clock = q.clock
    <3>1. PICK S, T : req' = [req EXCEPT ![Recovery] =
                                [@ EXCEPT !.pc = "build", !.seen = clockStatus[q.clock],
                                          !.snap = S, !.todo = T]]
      BY <1>1, <1>4 DEF Load
    <3>2. req'[Recovery] = [q EXCEPT !.pc = "build", !.seen = clockStatus[q.clock],
                                     !.snap = S, !.todo = T]
      BY <1>0, <3>1
    <3> QED BY <1>0, <1>1, <1>4, <3>2 DEF Load, tables, Worker
  <2> QED BY <1>2, <2>1
<1>5. CASE q.pc \notin {"analyze.lock", "load"}
  <2>0. /\ q.seen = "analyzing" /\ (q.pc = "finish.update" => q.cas = "analyzing")
        /\ q.pc \in {"build", "detect", "jumps", "score", "candidates", "finish", "finish.update"}
        /\ Continue(Recovery)
    BY <1>1, <1>5 DEF RecoveryOK, Lock, IngestLock, AnalyzeLock, Acquire
  <2>1. CASE FinishUpdate(Recovery)
    <3>1. clockStatus' = [clockStatus EXCEPT ![q.clock] = Verdict(Recovery)]
      BY <1>1, <2>0, <2>1 DEF FinishUpdate, CompareAndSet
    <3>2. req'[Recovery].pc = "idle"
      BY <1>0, <2>1 DEF FinishUpdate, Return, Idle
    <3>3. clockStatus'[q.clock] # "analyzing"
      BY <1>0, <1>1, <3>1 DEF Verdict
    <3>4. \A c \in Clocks : c # q.clock => clockStatus'[c] = clockStatus[c]
      BY <1>0, <3>1
    <3> QED BY <1>1, <3>2, <3>3, <3>4 DEF RecoveryOK, boot
  <2>2. CASE Finish(Recovery)
    <3>1. CanTransition("analyzing", Verdict(Recovery))
      BY DEF Verdict, CanTransition, ClockTransitions
    <3>2. /\ req' = [req EXCEPT ![Recovery].pc = "finish.update",
                                ![Recovery].cas = clockStatus[q.clock]]
          /\ UNCHANGED clockStatus
      BY <1>1, <2>0, <2>2, <3>1 DEF Finish, SetStatusGet, tables
    <3> QED BY <1>0, <1>1, <1>2, <2>0, <3>2 DEF Worker
  <2>3. CASE ScoreDone(Recovery)
    <3>1. req' = [req EXCEPT ![Recovery].pc = "finish"] /\ UNCHANGED clockStatus
      BY <2>0, <2>3 DEF ScoreDone, Goto, tables
    <3> QED BY <1>0, <1>1, <1>2, <2>0, <3>1 DEF Worker
  <2>4. CASE BuildWindow(Recovery) \/ BuildDone(Recovery) \/ Detect(Recovery)
             \/ InsertJump(Recovery) \/ DetectDone(Recovery)
    <3>1. /\ UNCHANGED clockStatus /\ req'[Recovery].seen = q.seen
          /\ req'[Recovery].clock = q.clock
          /\ req'[Recovery].pc \in {"build", "detect", "jumps", "score"}
      <4>1. CASE BuildWindow(Recovery)
        BY <1>0, <4>1 DEF BuildWindow, Worker
      <4>2. CASE BuildDone(Recovery) \/ DetectDone(Recovery)
        BY <1>0, <4>2 DEF BuildDone, DetectDone, Goto, tables, Worker
      <4>3. CASE Detect(Recovery)
        <5>1. PICK due : req' = [req EXCEPT ![Recovery].pc = "jumps", ![Recovery].pending = due]
          BY <4>3 DEF Detect
        <5> QED BY <1>0, <4>3, <5>1 DEF Detect, tables, Worker
      <4>4. CASE InsertJump(Recovery)
        <5>1. PICK i, j : req' = [req EXCEPT ![Recovery].pending = @ \ {i},
                                             ![Recovery].found = @ \cup {j},
                                             ![Recovery].unscored = @ \cup {j}]
          BY <4>4 DEF InsertJump
        <5>2. req'[Recovery] = [q EXCEPT !.pending = @ \ {i}, !.found = @ \cup {j},
                                         !.unscored = @ \cup {j}]
          BY <1>0, <5>1
        <5>3. q.pc = "jumps" /\ UNCHANGED clockStatus
          BY <4>4 DEF InsertJump
        <5> QED BY <1>0, <5>2, <5>3 DEF Worker
      <4> QED BY <2>4, <4>1, <4>2, <4>3, <4>4
    <3> QED BY <1>2, <2>0, <3>1
  <2>5. CASE ScoreJump(Recovery) \/ InsertCandidate(Recovery)
    <3>1. /\ UNCHANGED clockStatus /\ req'[Recovery].seen = q.seen
          /\ req'[Recovery].clock = q.clock /\ req'[Recovery].pc \in {"score", "candidates"}
      BY <1>0, <2>0, <2>5 DEF ScoreJump, InsertCandidate, tables, Worker
    <3> QED BY <1>2, <2>0, <3>1
  <2> QED BY <2>0, <2>1, <2>2, <2>3, <2>4, <2>5 DEF Continue, IngestCheck, IngestInsert, Load,
                          Mark, MarkUpdate, Rollback, RollbackDone, Unscore
<1> QED BY <1>1, <1>3, <1>4, <1>5 DEF Continue, IngestCheck, IngestInsert, BuildWindow, BuildDone,
           Detect, InsertJump, DetectDone, ScoreJump, InsertCandidate, ScoreDone, Mark, MarkUpdate,
           Finish, FinishUpdate, Rollback, RollbackDone, Unscore

LEMMA RecoveryNext ==
  ASSUME IInv, BootOK, RecoveryOK, [Next]_vars
  PROVE  RecoveryOK'
<1>0. /\ req \in [Workers -> Worker] /\ Recovery \in Workers /\ Recovery \notin Requests
      /\ Requests \subseteq Workers
  BY Parts, AnalysisAssumption DEF Workers
<1>b. BootOK'
  BY BootNext
<1>1. CASE serving'
  <2>1. RecoveryOK'
    BY <1>b, <1>1 DEF BootOK, RecoveryOK
  <2> QED BY <2>1
<1>2. CASE ~serving' /\ ~Crash
  <2>1. CASE UNCHANGED vars
    BY <2>1 DEF vars, tables, boot, RecoveryOK
  <2>2. CASE Recover
    <3>1. PICK c \in Clocks : RecoverClock(c)
      BY <1>2, <2>2 DEF Recover, ListenAndServe
    <3>2. req'[Recovery] = IF clockStatus[c] = "analyzing"
                           THEN [Idle EXCEPT !.pc = "analyze.lock", !.clock = c]
                           ELSE req[Recovery]
      BY <1>0, <3>1 DEF RecoverClock
    <3>3. /\ ~serving /\ req[Recovery].pc = "idle" /\ UNCHANGED clockStatus
          /\ toRecover' = toRecover \ {c}
      BY <3>1 DEF RecoverClock, tables
    <3>4. CASE clockStatus[c] = "analyzing"
      <4>1. req'[Recovery].pc = "analyze.lock" /\ req'[Recovery].clock = c
        BY <3>2, <3>4 DEF Idle
      <4> QED BY <3>3, <3>4, <4>1 DEF RecoveryOK
    <3>5. CASE clockStatus[c] # "analyzing"
      BY <3>2, <3>3, <3>5 DEF RecoveryOK
    <3> QED BY <3>4, <3>5
  <2>3. ASSUME NEW w \in Workers, Lock(w) \/ Continue(w) \/ Cancel(w) \/ CleanupError(w)
        PROVE  RecoveryOK'
    <3>1. req[w].pc # "idle" /\ UNCHANGED boot
      BY <2>3, WorkMoves
    <3>2. w = Recovery
      BY <1>2, <3>1 DEF BootOK, Workers, boot
    <3> QED BY <2>3, <3>2, RecoveryWork DEF Cancel, CleanupError
  <2>4. serving => UNCHANGED serving \/ Crash
    BY WorkMoves, <1>0 DEF Next, Begin, IngestBegin, AnalyzeBegin, SetStatus, ConfirmJump, Recover,
       ListenAndServe, RecoverClock, vars, boot
  <2> QED BY <1>2, <2>1, <2>2, <2>3, <2>4 DEF Next, Begin, IngestBegin, AnalyzeBegin, SetStatus,
                                              ConfirmJump
<1>3. CASE Crash
  BY <1>0, <1>3 DEF Crash, RecoveryOK, Idle
<1> QED BY <1>1, <1>2, <1>3

LEMMA RecoveryAlways == Spec => []RecoveryOK
<1>1. Init => BootOK /\ RecoveryOK
  BY DEF Init, BootOK, RecoveryOK, Idle, Workers
<1> QED BY <1>1, BootAlways, RecoveryNext, IInvAlways, PTL DEF Spec

\* The server starts to listen only when no clock is left in analyzing: Recover
\* has visited them all and run the interrupted analyses to their verdict.
THEOREM BootRecovered == Spec => RecoveredBeforeServing
<1>1. ASSUME IInv, BootOK, RecoveryOK, [Next]_vars, serving', ~serving
      PROVE  \A c \in Clocks : clockStatus[c] # "analyzing"
  <2>1. ListenAndServe
    BY <1>1, WorkMoves DEF Next, Begin, IngestBegin, AnalyzeBegin, SetStatus, ConfirmJump, Recover,
                           RecoverClock, Crash, vars, boot, Workers
  <2> QED BY <1>1, <2>1 DEF ListenAndServe, RecoveryOK
<1>2. IInv /\ BootOK /\ RecoveryOK /\ [Next]_vars =>
        [serving' /\ ~serving => \A c \in Clocks : clockStatus[c] # "analyzing"]_vars
  BY <1>1
<1> QED BY <1>2, IInvAlways, BootAlways, RecoveryAlways, PTL DEF Spec, RecoveredBeforeServing

-----------------------------------------------------------------------------
(* The live index *)

\* No clock has more samples than ListByClock gives back.
FitsLoad == \A c \in Clocks : LET own == {s \in Samples : SampleClock[s] = c}
                              IN IsFiniteSet(own) /\ Cardinality(own) <= MaxLoad

\* Filling the index from the table makes it exact.
LEMMA LoadsAll ==
  ASSUME FitsLoad, TypeOK, NEW c \in Clocks, NEW S \in Loads(c)
  PROVE  S = SamplesOf(c)
<1> DEFINE own == {s \in Samples : SampleClock[s] = c}
<1>1. SamplesOf(c) \in SUBSET own /\ S \in SUBSET SamplesOf(c)
  BY DEF SamplesOf, TypeOK, Loads
<1>2. IsFiniteSet(own) /\ Cardinality(own) <= MaxLoad
  BY DEF FitsLoad
<1> HIDE DEF own
<1>3. IsFiniteSet(SamplesOf(c)) /\ Cardinality(SamplesOf(c)) <= Cardinality(own)
  BY <1>1, <1>2, FS_Subset
<1>4. Cardinality(own) \in Nat /\ Cardinality(SamplesOf(c)) \in Nat
  BY <1>2, <1>3, FS_CardinalityType
<1>5. Cardinality(SamplesOf(c)) <= MaxLoad
  BY <1>2, <1>3, <1>4, AnalysisAssumption
<1>6. Cardinality(S) = Cardinality(SamplesOf(c))
  BY <1>5 DEF Loads
<1> QED BY <1>1, <1>3, <1>6, FS_Subset

LEMMA ReplacedExact ==
  ASSUME TypeOK, NEW c \in Clocks, live' = Replaced(c, SamplesOf(c)), UNCHANGED samples,
         toRecover \ {c} \subseteq toRecover', LiveOK
  PROVE  LiveOK'
BY DEF TypeOK, Replaced, SamplesOf, LiveOK

LEMMA LiveNext ==
  ASSUME FitsLoad, IInv, LiveOK, [Next]_vars
  PROVE  LiveOK'
<1>0. TypeOK /\ live \in [Samples -> Nat]
  BY Parts DEF TypeOK
<1>k. UNCHANGED <<live, samples, toRecover>> => LiveOK'
  BY DEF LiveOK
<1>1. ASSUME NEW w \in Workers, IngestInsert(w) PROVE LiveOK'
  <2>1. req[w].sample \in Samples
    BY <1>1, Parts DEF IngestInsert, ShapeOK
  <2>2. /\ samples' = samples \cup {req[w].sample} /\ toRecover' = toRecover
        /\ live' = IF req[w].sample \in samples THEN live
                   ELSE [live EXCEPT ![req[w].sample] = @ + 1]
    BY <1>1 DEF IngestInsert, boot
  <2> QED BY <1>0, <2>1, <2>2 DEF LiveOK
<1>2. ASSUME NEW w \in Workers, Load(w) PROVE LiveOK'
  <2>1. PICK c \in Clocks : c = req[w].clock
    BY <1>2, Parts DEF Load, ShapeOK
  <2>2. UNCHANGED <<samples, toRecover>> /\ (UNCHANGED live \/ \E S \in Loads(c) : live' = Replaced(c, S))
    BY <1>2, <2>1 DEF Load, tables, boot
  <2> QED BY <1>0, <1>k, <2>2, LoadsAll, ReplacedExact
<1>3. ASSUME NEW c \in Clocks, RecoverClock(c) PROVE LiveOK'
  <2>1. UNCHANGED samples /\ toRecover' = toRecover \ {c} /\ \E S \in Loads(c) : live' = Replaced(c, S)
    BY <1>3 DEF RecoverClock, tables
  <2> QED BY <1>0, <2>1, LoadsAll, ReplacedExact
<1>4. CASE Crash
  BY <1>4, AnalysisAssumption DEF Crash, LiveOK
<1>5. ASSUME NEW w \in Workers, Continue(w) PROVE LiveOK'
  <2>1. CASE IngestInsert(w) \/ Load(w)
    BY <1>1, <1>2, <2>1
  <2>2. CASE ~IngestInsert(w) /\ ~Load(w)
    BY <1>5, <1>k, <2>2 DEF Continue, IngestCheck, BuildWindow, BuildDone, Detect, InsertJump,
       DetectDone, ScoreJump, InsertCandidate, ScoreDone, Mark, SetStatusGet, MarkUpdate, Finish,
       FinishUpdate, Rollback, RollbackDone, Unscore, tables, boot
  <2> QED BY <2>1, <2>2
<1>6. ASSUME NEW w \in Workers, Begin(w) \/ Lock(w) \/ Cancel(w) \/ CleanupError(w) PROVE LiveOK'
  BY <1>6, <1>k DEF Begin, IngestBegin, AnalyzeBegin, Lock, IngestLock, AnalyzeLock, Acquire, Cancel,
                    CleanupError, tables, boot
<1>7. CASE ListenAndServe \/ UNCHANGED vars \/ (\E j \in jumps : ConfirmJump(j))
             \/ (\E c \in Clocks, next \in Asked : SetStatus(c, next))
  BY <1>7, <1>k DEF ListenAndServe, vars, ConfirmJump, SetStatus, tables, boot
<1>8. Requests \subseteq Workers
  BY DEF Workers
<1> QED BY <1>3, <1>4, <1>5, <1>6, <1>7, <1>8 DEF Next, Recover

\* While the server listens the live index holds every stored sample once and no
\* other, whoever ingests, analyses or is cancelled, and after every crash: as
\* long as a clock's samples fit the limit ListByClock is called with.
THEOREM LiveProjection == ASSUME FitsLoad PROVE Spec => []LiveIsProjection
<1>1. Init => LiveOK
  BY DEF Init, LiveOK
<1>2. IInv /\ LiveOK /\ [Next]_vars => LiveOK'
  BY LiveNext
<1>3. BootOK /\ LiveOK => LiveIsProjection
  BY AnalysisAssumption DEF BootOK, LiveOK, LiveIsProjection
<1> QED BY <1>1, <1>2, <1>3, IInvAlways, BootAlways, PTL DEF Spec

-----------------------------------------------------------------------------
(* Refinement *)

\* A status on its way to the table is a legal successor of the one it was read as.
CasOK == \A w \in Workers :
  /\ req[w].pc = "mark.update" => CanTransition(req[w].cas, "analyzing")
  /\ req[w].pc = "finish.update" => CanTransition(req[w].cas, Verdict(w))

\* Only SetStatusGet starts a status update; nothing changes it before its write.
LEMMA CasNext ==
  ASSUME IInv, CasOK, [Next]_vars
  PROVE  CasOK'
<1>0. req \in [Workers -> Worker] /\ Requests \subseteq Workers
  BY Parts DEF Workers
<1>1. ASSUME NEW w \in Workers, req'[w].pc \in {"mark.update", "finish.update"}
      PROVE  \/ req'[w] = req[w]
             \/ Mark(w) /\ CanTransition(clockStatus[req[w].clock], "analyzing")
                        /\ req'[w].pc = "mark.update"
             \/ Finish(w) /\ CanTransition(clockStatus[req[w].clock], Verdict(w))
                          /\ req'[w].pc = "finish.update"
  <2>1. ASSUME NEW v \in Workers, Lock(v) \/ Continue(v) \/ Cancel(v) \/ CleanupError(v), v # w
        PROVE  req'[w] = req[w]
    BY <2>1, WorkMoves
  <2>2. ASSUME NEW v \in Requests, Begin(v) PROVE req'[w] = req[w]
    BY <1>0, <1>1, <2>2 DEF Begin, IngestBegin, AnalyzeBegin, Idle
  <2>3. ASSUME Lock(w) \/ Cancel(w) \/ CleanupError(w) PROVE FALSE
    <3>1. req'[w].pc \in {"ingest.check", "load", "rollback", "unscore", "idle"}
      BY <1>0, <2>3 DEF Lock, IngestLock, AnalyzeLock, Acquire, Cancel, CleanupStep, CleanupError,
                        Return, Goto, Idle, Worker
    <3> QED BY <1>1, <3>1
  <2>4. ASSUME IngestCheck(w) \/ IngestInsert(w) \/ BuildDone(w) \/ DetectDone(w) \/ ScoreDone(w)
               \/ MarkUpdate(w) \/ FinishUpdate(w) \/ RollbackDone(w) \/ Unscore(w)
        PROVE  FALSE
    <3>1. req'[w].pc \in {"ingest.insert", "detect", "score", "mark", "finish", "idle"}
      BY <1>0, <2>4 DEF IngestCheck, IngestInsert, BuildDone, DetectDone, ScoreDone, MarkUpdate,
                        FinishUpdate, RollbackDone, Unscore, Return, Goto, Idle, Worker
    <3> QED BY <1>1, <3>1
  <2>5. ASSUME BuildWindow(w) \/ InsertJump(w) \/ Rollback(w) PROVE FALSE
    <3>1. req'[w].pc = req[w].pc
      <4>1. CASE BuildWindow(w) \/ Rollback(w)
        BY <1>0, <4>1 DEF BuildWindow, Rollback, Worker
      <4>2. CASE InsertJump(w)
        <5>1. PICK i, j : req' = [req EXCEPT ![w].pending = @ \ {i}, ![w].found = @ \cup {j},
                                             ![w].unscored = @ \cup {j}]
          BY <4>2 DEF InsertJump
        <5>2. req'[w] = [req[w] EXCEPT !.pending = @ \ {i}, !.found = @ \cup {j},
                                       !.unscored = @ \cup {j}]
          BY <1>0, <5>1
        <5> QED BY <1>0, <5>2 DEF Worker
      <4> QED BY <2>5, <4>1, <4>2
    <3> QED BY <1>1, <2>5, <3>1 DEF BuildWindow, InsertJump, Rollback
  <2>6. ASSUME Load(w) \/ Detect(w) PROVE FALSE
    <3>1. CASE Load(w)
      <4>1. Return(w) \/ \E S, T : req' = [req EXCEPT ![w] =
                 [@ EXCEPT !.pc = "build", !.seen = clockStatus[req[w].clock], !.snap = S, !.todo = T]]
        BY <3>1 DEF Load
      <4>2. req'[w].pc \in {"idle", "build"}
        <5>1. CASE Return(w)
          BY <1>0, <5>1 DEF Return, Idle
        <5>2. CASE ~Return(w)
          <6>1. PICK S, T : req' = [req EXCEPT ![w] =
                 [@ EXCEPT !.pc = "build", !.seen = clockStatus[req[w].clock], !.snap = S, !.todo = T]]
            BY <4>1, <5>2
          <6>2. req'[w] = [req[w] EXCEPT !.pc = "build", !.seen = clockStatus[req[w].clock],
                                         !.snap = S, !.todo = T]
            BY <1>0, <6>1
          <6> QED BY <1>0, <6>2 DEF Worker
        <5> QED BY <5>1, <5>2
      <4> QED BY <1>1, <4>2
    <3>2. CASE Detect(w)
      <4>1. \E due : req' = [req EXCEPT ![w].pc = "jumps", ![w].pending = due]
        BY <3>2 DEF Detect
      <4>2. req'[w].pc = "jumps"
        BY <1>0, <4>1 DEF Worker
      <4> QED BY <1>1, <4>2
    <3> QED BY <2>6, <3>1, <3>2
  <2>7. ASSUME ScoreJump(w) \/ InsertCandidate(w) PROVE FALSE
    <3>1. req'[w].pc \in {"score", "candidates"}
      BY <1>0, <2>7 DEF ScoreJump, InsertCandidate, Worker
    <3> QED BY <1>1, <3>1
  <2>8. ASSUME Mark(w) PROVE CanTransition(clockStatus[req[w].clock], "analyzing")
                             /\ req'[w].pc = "mark.update"
    BY <1>0, <1>1, <2>8 DEF Mark, SetStatusGet, Return, Idle, Worker
  <2>9. ASSUME Finish(w) PROVE CanTransition(clockStatus[req[w].clock], Verdict(w))
                               /\ req'[w].pc = "finish.update"
    BY <1>0, <1>1, <2>9 DEF Finish, SetStatusGet, Return, Idle, Worker
  <2>10. Recover \/ Crash \/ UNCHANGED vars \/ (\E j \in jumps : ConfirmJump(j))
         \/ (\E c \in Clocks, next \in Asked : SetStatus(c, next)) => req'[w] = req[w]
    <3>1. Crash => req'[w].pc = "idle"
      BY DEF Crash, Idle
    <3>2. ASSUME NEW c \in Clocks, RecoverClock(c) PROVE req'[w] = req[w]
      BY <1>0, <1>1, <3>2 DEF RecoverClock, Idle
    <3> QED BY <1>1, <3>1, <3>2 DEF Recover, ListenAndServe, vars, ConfirmJump, SetStatus
  <2> QED BY <2>1, <2>2, <2>3, <2>4, <2>5, <2>6, <2>7, <2>8, <2>9, <2>10 DEF Next, Continue
<1>2. SUFFICES ASSUME NEW w \in Workers, req'[w].pc \in {"mark.update", "finish.update"}
               PROVE  /\ req'[w].pc = "mark.update" => CanTransition(req'[w].cas, "analyzing")
                      /\ req'[w].pc = "finish.update" => CanTransition(req'[w].cas, Verdict(w)')
  BY DEF CasOK
<1>3. CASE req'[w] = req[w]
  BY <1>2, <1>3 DEF CasOK, Verdict
<1>4. CASE Mark(w) /\ CanTransition(clockStatus[req[w].clock], "analyzing")
                   /\ req'[w].pc = "mark.update"
  <2>1. req'[w].cas = clockStatus[req[w].clock]
    BY <1>0, <1>4 DEF Mark, SetStatusGet, Worker
  <2> QED BY <1>4, <2>1
<1>5. CASE Finish(w) /\ CanTransition(clockStatus[req[w].clock], Verdict(w))
                     /\ req'[w].pc = "finish.update"
  <2>1. /\ req'[w].cas = clockStatus[req[w].clock] /\ req'[w].found = req[w].found
    BY <1>0, <1>5 DEF Finish, SetStatusGet, Return, Idle, Worker
  <2>2. Verdict(w)' = Verdict(w)
    BY <2>1 DEF Verdict
  <2> QED BY <1>5, <2>1, <2>2
<1> QED BY <1>1, <1>2, <1>3, <1>4, <1>5

LEMMA PromiseInit == Init => Promise!Init
BY DEF Init, Promise!Init

LEMMA PromiseNext ==
  ASSUME IInv, CasOK, [Next]_vars
  PROVE  [Promise!Next]_Promise!vars
<1>1. ASSUME NEW c \in Clocks, NEW next \in ClockStatus, CanTransition(clockStatus[c], next),
             clockStatus' = [clockStatus EXCEPT ![c] = next]
      PROVE  Promise!Next
  BY <1>1 DEF Promise!Next, Promise!Move, Promise!ClockStatus, ClockStatus, Promise!CanTransition,
              CanTransition, Promise!ClockTransitions, ClockTransitions
<1>2. ASSUME UNCHANGED clockStatus PROVE UNCHANGED Promise!vars
  BY <1>2 DEF Promise!vars
<1>3. ASSUME NEW w \in Workers, NEW next \in ClockStatus, CompareAndSet(w, next),
             req[w].clock \in Clocks, CanTransition(req[w].cas, next)
      PROVE  [Promise!Next]_Promise!vars
  BY <1>1, <1>2, <1>3 DEF CompareAndSet
<1>4. ASSUME NEW w \in Workers, MarkUpdate(w) PROVE [Promise!Next]_Promise!vars
  <2>1. req[w].clock \in Clocks /\ CanTransition(req[w].cas, "analyzing")
    BY <1>4, Parts DEF MarkUpdate, ShapeOK, CasOK
  <2> QED BY <1>3, <1>4, <2>1 DEF MarkUpdate, ClockStatus
<1>5. ASSUME NEW w \in Workers, FinishUpdate(w) PROVE [Promise!Next]_Promise!vars
  <2>1. req[w].clock \in Clocks /\ CanTransition(req[w].cas, Verdict(w))
    BY <1>5, Parts DEF FinishUpdate, ShapeOK, CasOK
  <2> QED BY <1>3, <1>5, <2>1, VerdictTypes DEF FinishUpdate
<1>6. ASSUME NEW c \in Clocks, NEW next, SetStatus(c, next) PROVE Promise!Next
  <2>1. next \in ClockStatus
    BY <1>6 DEF SetStatus, CanTransition, ClockTransitions, ClockStatus
  <2> QED BY <1>1, <1>6, <2>1 DEF SetStatus
<1>7. ASSUME NEW w \in Workers, Continue(w), ~MarkUpdate(w), ~FinishUpdate(w)
      PROVE  UNCHANGED clockStatus
  BY <1>7 DEF Continue, IngestCheck, IngestInsert, Load, BuildWindow, BuildDone, Detect, InsertJump,
       DetectDone, ScoreJump, InsertCandidate, ScoreDone, Mark, SetStatusGet, Finish, Rollback,
       RollbackDone, Unscore, tables
<1>8. ASSUME NEW w \in Workers, Begin(w) \/ Lock(w) \/ Cancel(w) \/ CleanupError(w)
      PROVE  UNCHANGED clockStatus
  BY <1>8 DEF Begin, IngestBegin, AnalyzeBegin, Lock, IngestLock, AnalyzeLock, Acquire, Cancel,
              CleanupError, tables
<1>9. Recover \/ Crash \/ UNCHANGED vars \/ (\E j \in jumps : ConfirmJump(j)) => UNCHANGED clockStatus
  BY DEF Recover, ListenAndServe, RecoverClock, Crash, vars, ConfirmJump, tables
<1>10. Requests \subseteq Workers
  BY DEF Workers
<1> QED BY <1>2, <1>4, <1>5, <1>6, <1>7, <1>8, <1>9, <1>10 DEF Next

\* However analyses, clients, cancellations, crashes and recovery interleave, a
\* clock moves along its status machine only: no analysis reopens a clock that was
\* sealed while it ran (ClockStore.SetStatus).
THEOREM Refinement == Spec => ImplementsDiagnosis
<1>1. Init => CasOK
  BY DEF Init, CasOK, Idle
<1> QED BY <1>1, CasNext, PromiseInit, PromiseNext, IInvAlways, PTL
        DEF Spec, ImplementsDiagnosis, Promise!Spec
=============================================================================
