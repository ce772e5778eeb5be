---------------------------- MODULE IngestProofs ----------------------------
(***************************************************************************)
(* Proofs about Ingest for every set of clocks, samples, batches, requests *)
(* and every limit of ListByClock.                                         *)
(***************************************************************************)
EXTENDS Ingest, FiniteSetTheorems, TLAPS

-----------------------------------------------------------------------------
(* The parts of the inductive invariant *)

\* What a request works on, by the step it has reached.
ShapeOK(q) ==
  /\ q.pc # "idle" => q.clock \in Clocks /\ q.op # "none"
  /\ q.op \in {"one", "many"} => q.batch \in Inputs /\ q.clock = SampleClock[q.batch[1]]
  /\ q.op = "one" => Len(q.batch) = 1
  /\ q.pc \in {"lock", "store", "begin"} => q.next = 1
  /\ q.pc = "store" => q.op = "one"
  /\ q.pc \in {"begin", "insert"} => q.op = "many"
  /\ q.pc \in {"prepare", "append"} => q.op \in {"one", "many"} /\ q.next \in 1..Len(q.batch)
  /\ q.pc = "insert" => q.next \in 1..(Len(q.batch) + 1)
  /\ q.pc \in {"load", "list", "replace"} => q.op = "analyze"

\* Past Lock a request holds its mutex.
Exclusion == \A w \in Requests : req[w].pc \in Locked => holder[req[w].clock] = w

\* The open transaction holds the inputs before next, all of them new.
TxOK == \A w \in Requests : tx.by = w =>
          LET q == req[w]
          IN /\ tx.rows = {q.batch[k] : k \in 1..(q.next - 1)}
             /\ tx.rows \cap rows = {}
             /\ \A i, k \in 1..(q.next - 1) : q.batch[i] = q.batch[k] => i = k

\* What is in the index, or on its way there, is stored.
AppendOK(q) == q.pc = "append" => Contents(q.batch) \subseteq rows /\ Distinct(q.batch)
ReplaceOK(q) == q.pc = "replace" => q.list \subseteq RowsOf(q.clock)
StoredOK == /\ IndexHoldsOnlyStored
            /\ \A w \in Requests : AppendOK(req[w]) /\ ReplaceOK(req[w])

\* What is on its way to the index is not in it yet.
NotYet(q) == q.pc = "append" => \A k \in q.next..Len(q.batch) :
                                  q.batch[k] \notin Foreign => live[q.batch[k]] = 0
OnceOK == IndexedOnce /\ \A w \in Requests : NotYet(req[w])

\* What is not in the index is on its way, or the load that left it out was full
\* of older samples.
Covered(s, L) == \E S \in SUBSET L : /\ Cardinality(S) = Limit
                                     /\ \A t \in S : TakenAt[t] <= TakenAt[s]
Listed(q) == q.pc = "replace" => \A s \in RowsOf(q.clock) \ Foreign :
                                   s \in q.list \/ Covered(s, q.list)
CompleteOK ==
  /\ \A s \in rows \ Foreign :
       \/ SampleClock[s] \in toLoad
       \/ live[s] > 0 \/ OnItsWay(s) \/ Covered(s, LiveOf(SampleClock[s]))
  /\ \A w \in Requests : Listed(req[w])

\* No request is under way while Recover runs.
BootOK == /\ serving => toLoad = {}
          /\ ~serving => \A w \in Requests : req[w].pc = "idle"

FiniteOK == IsFiniteSet(rows) /\ IsFiniteSet(tx.rows)

TypeInv == TypeOK /\ (\A w \in Requests : ShapeOK(req[w])) /\ Exclusion

-----------------------------------------------------------------------------
(* Inputs *)

LEMMA InputTypes ==
  ASSUME NEW b \in Inputs
  PROVE  /\ b \in Seq(Samples) /\ Len(b) \in Nat \ {0}
         /\ \A k \in 1..Len(b) : b[k] \in Samples
<1>1. CASE b \in Batches
  BY <1>1, IngestAssumption
<1>2. ASSUME NEW s \in Samples, b = <<s>>
      PROVE  b \in Seq(Samples) /\ Len(b) \in Nat \ {0} /\ \A k \in 1..Len(b) : b[k] \in Samples
  BY <1>2
<1> QED BY <1>1, <1>2 DEF Inputs

\* Of an input that is not foreign the request holds the mutex of its clock.
LEMMA OwnClock ==
  ASSUME NEW b \in Inputs, NEW k \in 1..Len(b), b[k] \notin Foreign
  PROVE  SampleClock[b[k]] = SampleClock[b[1]]
<1>1. CASE b \in Batches
  <2>1. b[k] \in Samples /\ b[k] \in Contents(b)
    BY InputTypes DEF Contents
  <2> QED BY <1>1, <2>1 DEF Foreign
<1>2. ASSUME NEW s \in Samples, b = <<s>> PROVE SampleClock[b[k]] = SampleClock[b[1]]
  <2>1. k = 1
    BY <1>2
  <2> QED BY <2>1
<1> QED BY <1>1, <1>2 DEF Inputs

-----------------------------------------------------------------------------
(* Types, shapes and mutual exclusion *)

LEMMA IdleOK == Idle \in Request /\ ShapeOK(Idle)
BY DEF Idle, Request, ShapeOK, Locked

LEMMA TypeInit == Init => TypeInv
<1> SUFFICES ASSUME Init PROVE TypeInv
  OBVIOUS
<1>1. TypeOK
  BY IdleOK, IngestAssumption DEF Init, TypeOK, NoTx, Idle
<1>2. (\A w \in Requests : ShapeOK(req[w])) /\ Exclusion
  BY IdleOK DEF Init, Exclusion, Idle, Locked
<1> QED BY <1>1, <1>2 DEF TypeInv

\* One request moves to the record x; it keeps its mutex, releases it or takes a free one.
MutexStep(w, x) ==
  LET c == req[w].clock
  IN \/ holder' = holder /\ x.clock = c /\ (x.pc \in Locked => req[w].pc \in Locked)
     \/ holder' = holder /\ x.pc \notin Locked
     \/ holder' = [holder EXCEPT ![c] = None] /\ req[w].pc \in Locked /\ x.pc \notin Locked
     \/ holder' = [holder EXCEPT ![c] = w] /\ holder[c] = None /\ x.clock = c

Others(w) == /\ req' \in [Requests -> Request]
             /\ \A v \in Requests \ {w} : req'[v] = req[v]

LEMMA RequestStepTypes ==
  ASSUME TypeInv, NEW w \in Requests, NEW x, x = req'[w], Others(w), ShapeOK(x),
         req[w].pc # "idle" \/ holder' = holder,
         MutexStep(w, x),
         x.pc = "insert" <=> tx'.by = w,
         tx'.by = tx.by \/ (tx.by \in {w, None} /\ tx'.by \in {w, None}),
         tx' \in [by : Requests \cup {None}, rows : SUBSET Samples],
         rows' \subseteq Samples, live' \in [Samples -> Nat],
         UNCHANGED <<sealed, serving, toLoad>>
  PROVE  TypeInv'
<1>0. TypeOK /\ Exclusion /\ (\A v \in Requests : ShapeOK(req[v])) /\ None \notin Requests
  BY IngestAssumption DEF TypeInv
<1>1. \A v \in Requests : req'[v] = IF v = w THEN x ELSE req[v]
  BY <1>0 DEF TypeOK, Others
<1>2. \A v \in Requests : ShapeOK(req[v]') /\ req'[v] \in Request
  BY <1>0, <1>1 DEF Others
<1>3. holder' \in [Clocks -> Requests \cup {None}]
  BY <1>0 DEF MutexStep, TypeOK
<1>4. Exclusion'
  <2> SUFFICES ASSUME NEW v \in Requests, req'[v].pc \in Locked
               PROVE  holder'[req'[v].clock] = v
    BY DEF Exclusion
  <2>1. CASE v = w
    <3>1. x.clock \in Clocks /\ req'[v] = x
      BY <2>1, <1>1 DEF ShapeOK, Locked
    <3> QED BY <2>1, <3>1, <1>0 DEF MutexStep, Exclusion, TypeOK
  <2>2. CASE v # w
    <3>1. req'[v] = req[v] /\ req[v].clock \in Clocks /\ holder[req[v].clock] = v
      BY <2>2, <1>0, <1>1 DEF ShapeOK, Locked, Exclusion
    <3>2. req[w].pc \in Locked => holder[req[w].clock] = w
      BY <1>0 DEF Exclusion
    <3> QED BY <2>2, <3>1, <3>2, <1>0 DEF MutexStep, TypeOK
  <2> QED BY <2>1, <2>2
<1>5. \A v \in Requests : tx'.by = v <=> req'[v].pc = "insert"
  BY <1>0, <1>1 DEF TypeOK
<1>6. req' \in [Requests -> Request]
  BY DEF Others
<1>7. TypeOK'
  BY <1>0, <1>3, <1>5, <1>6 DEF TypeOK
<1> QED BY <1>2, <1>4, <1>7 DEF TypeInv

LEMMA RequestFields ==
  ASSUME NEW q \in Request
  PROVE  /\ q.next \in Nat /\ q.list \in SUBSET Samples
         /\ q.pc \in {"idle", "lock"} \cup Locked
         /\ q.op \in {"none", "one", "many", "analyze"}
BY DEF Request

\* A request that returns releases its mutex.
LEMMA ReturnTypes ==
  ASSUME TypeInv, NEW w \in Requests, req[w].pc \in Locked, Return(w),
         tx'.by # w, tx'.by = tx.by \/ (tx.by = w /\ tx'.by = None),
         tx' \in [by : Requests \cup {None}, rows : SUBSET Samples],
         rows' \subseteq Samples, live' \in [Samples -> Nat],
         UNCHANGED <<sealed, serving, toLoad>>
  PROVE  TypeInv'
<1>1. MutexStep(w, Idle)
  BY DEF Return, MutexStep, Idle, Locked
<1>2. Idle.pc # "insert" /\ req[w].pc # "idle"
  BY DEF Idle, Locked
<1>3. Others(w) /\ req'[w] = Idle
  BY IdleOK DEF Return, Others, TypeInv, TypeOK
<1> QED BY <1>1, <1>2, <1>3, IdleOK, RequestStepTypes

\* A request that goes on to another step.
Continues(w, pc, next, list) ==
  /\ Others(w)
  /\ req'[w].pc = pc /\ req'[w].next = next /\ req'[w].list = list
  /\ req'[w].op = req[w].op /\ req'[w].clock = req[w].clock /\ req'[w].batch = req[w].batch

LEMMA ContinueTypes ==
  ASSUME TypeInv, NEW w \in Requests, req[w].pc \in Locked,
         NEW pc \in Locked, NEW next \in Nat, NEW list \in SUBSET Samples,
         Continues(w, pc, next, list), holder' = holder,
         pc \in {"store", "begin"} => next = 1,
         pc = "store" => req[w].op = "one",
         pc \in {"begin", "insert"} => req[w].op = "many",
         pc \in {"prepare", "append"} => req[w].op \in {"one", "many"} /\ next \in 1..Len(req[w].batch),
         pc = "insert" => next \in 1..(Len(req[w].batch) + 1),
         pc \in {"load", "list", "replace"} => req[w].op = "analyze",
         pc = "insert" <=> tx'.by = w,
         tx'.by = tx.by \/ (tx.by \in {w, None} /\ tx'.by \in {w, None}),
         tx' \in [by : Requests \cup {None}, rows : SUBSET Samples],
         rows' \subseteq Samples, live' \in [Samples -> Nat],
         UNCHANGED <<sealed, serving, toLoad>>
  PROVE  TypeInv'
<1>1. ShapeOK(req[w]) /\ pc # "lock" /\ req[w].pc # "idle"
  BY DEF TypeInv, TypeOK, Locked
<1>2. MutexStep(w, req'[w])
  BY DEF Continues, MutexStep
<1>3. ShapeOK(req'[w])
  BY <1>1 DEF ShapeOK, Continues
<1> QED BY <1>1, <1>2, <1>3, RequestStepTypes DEF Continues

\* The loop of a request goes on to its next input.
LEMMA AdvanceContinues ==
  ASSUME NEW w \in Requests, req \in [Requests -> Request], req[w].next + 1 \in Nat,
         req' = [req EXCEPT ![w].next = @ + 1]
  PROVE  Continues(w, req[w].pc, req[w].next + 1, req[w].list)
BY DEF Continues, Others, Request

LEMMA TypeNext == TypeInv /\ [Next]_vars => TypeInv'
<1> SUFFICES ASSUME TypeInv, [Next]_vars PROVE TypeInv'
  OBVIOUS
<1> USE IngestAssumption
<1>t. TypeOK /\ Exclusion /\ req \in [Requests -> Request]
      /\ (\A v \in Requests : ShapeOK(req[v]) /\ req[v] \in Request)
  BY DEF TypeInv, TypeOK
<1>r. req \in [Requests -> Request]
  BY <1>t
<1>x. tx \in [by : Requests \cup {None}, rows : SUBSET Samples] /\ rows \subseteq Samples
      /\ live \in [Samples -> Nat] /\ \A v \in Requests : tx.by = v <=> req[v].pc = "insert"
  BY <1>t DEF TypeOK
<1>f. \A v \in Requests : req[v].next \in Nat /\ req[v].list \in SUBSET Samples
  BY <1>t, RequestFields
<1>1. ASSUME NEW w \in Requests, NEW op \in {"one", "many", "analyze"},
             NEW batch \in Inputs \cup {<<>>}, NEW c \in Clocks,
             op # "analyze" => batch \in Inputs /\ c = SampleClock[batch[1]],
             op = "one" => Len(batch) = 1, Begin(w, op, batch, c)
      PROVE  TypeInv'
  <2> DEFINE x == [Idle EXCEPT !.pc = "lock", !.op = op, !.batch = batch, !.clock = c]
  <2>1. x \in Request /\ ShapeOK(x)
    BY <1>1 DEF Idle, Request, ShapeOK, Locked
  <2>2. MutexStep(w, x)
    BY <1>1 DEF Begin, MutexStep, Idle, Locked
  <2>3. x.pc = "lock" /\ req[w].pc = "idle" /\ tx' = tx
    BY <1>1 DEF Begin, Idle
  <2>4. Others(w) /\ req'[w] = x
    BY <2>1, <1>1, <1>t DEF Begin, Others
  <2> QED BY <2>4, <2>1, <2>2, <2>3, <1>x, <1>1, RequestStepTypes DEF Begin
<1>2. ASSUME NEW w \in Requests, Lock(w) PROVE TypeInv'
  <2> DEFINE step == IF req[w].op = "analyze" THEN "load" ELSE "prepare"
  <2>0. /\ req[w].pc = "lock" /\ tx' = tx /\ holder[req[w].clock] = None
        /\ holder' = [holder EXCEPT ![req[w].clock] = w]
        /\ req' = [req EXCEPT ![w].pc = step]
        /\ UNCHANGED <<sealed, rows, live, serving, toLoad>>
    BY <1>2 DEF Lock, Goto
  <2>1. step \in Locked /\ step \in {"load", "prepare"}
    BY DEF Locked
  <2>2. Continues(w, step, req[w].next, req[w].list)
    BY <2>0, <2>1, <1>r DEF Continues, Others, Request
  <2>3. /\ ShapeOK(req[w]) /\ req[w].op \in {"none", "one", "many", "analyze"}
        /\ req[w].op # "analyze" => req[w].op \in {"one", "many"} /\ Len(req[w].batch) \in Nat \ {0}
    BY <2>0, <1>t, InputTypes, RequestFields DEF ShapeOK
  <2>5. ShapeOK(req'[w])
    BY <2>0, <2>2, <2>3 DEF ShapeOK, Continues
  <2>6. MutexStep(w, req'[w])
    BY <2>0, <2>2 DEF MutexStep, Continues
  <2>7. req'[w].pc # "insert" /\ Others(w)
    BY <2>1, <2>2 DEF Continues
  <2> QED BY <2>0, <2>5, <2>6, <2>7, <1>x, RequestStepTypes
<1>3. ASSUME NEW w \in Requests, Prepare(w) PROVE TypeInv'
  <2> DEFINE step == IF req[w].op = "one" THEN "store" ELSE "begin"
  <2>0. /\ req[w].pc = "prepare" /\ tx' = tx /\ tx.by = None /\ req[w].pc \in Locked
        /\ UNCHANGED <<sealed, rows, live, serving, toLoad>>
    BY <1>3 DEF Prepare, Connection, Locked
  <2>1. /\ req[w].op \in {"one", "many"}
        /\ Len(req[w].batch) \in Nat \ {0} /\ req[w].next \in 1..Len(req[w].batch)
    BY <2>0, <1>t, InputTypes DEF ShapeOK
  <2>2. CASE Return(w)
    BY <2>0, <2>2, <1>x, ReturnTypes
  <2>3. CASE req[w].next < Len(req[w].batch) /\ req' = [req EXCEPT ![w].next = @ + 1]
             /\ holder' = holder
    <3>2. req[w].next + 1 \in 1..Len(req[w].batch) /\ req[w].next + 1 \in Nat
      BY <2>1, <2>3
    <3>1. Continues(w, "prepare", req[w].next + 1, req[w].list)
      BY <2>0, <2>3, <3>2, <1>r DEF Continues, Others, Request
    <3>3. "prepare" \in Locked
      BY DEF Locked
    <3> QED BY <2>0, <2>1, <2>3, <3>1, <3>2, <3>3, <1>x, <1>f, ContinueTypes
  <2>4. CASE req' = [req EXCEPT ![w].next = 1, ![w].pc = step] /\ holder' = holder
    <3>1. Continues(w, step, 1, req[w].list)
      BY <2>4, <1>r DEF Continues, Others, Request, Locked
    <3>2. step \in Locked /\ step \in {"store", "begin"}
          /\ (step = "store" => req[w].op = "one") /\ (step = "begin" => req[w].op = "many")
      BY <2>1 DEF Locked
    <3> HIDE DEF step
    <3> QED BY <2>0, <2>4, <3>1, <3>2, <1>x, <1>f, ContinueTypes
  <2> QED BY <2>2, <2>3, <2>4, <1>3 DEF Prepare
<1>4. ASSUME NEW w \in Requests, Store(w) PROVE TypeInv'
  <2>0. /\ req[w].pc = "store" /\ tx' = tx /\ tx.by = None /\ req[w].pc \in Locked
        /\ UNCHANGED <<sealed, live, serving, toLoad>>
    BY <1>4 DEF Store, Connection, Locked
  <2>1. /\ req[w].next = 1 /\ req[w].op = "one" /\ Len(req[w].batch) = 1
        /\ req[w].batch[1] \in Samples
    BY <2>0, <1>t, InputTypes DEF ShapeOK
  <2>2. rows' \subseteq Samples
    BY <2>1, <1>4, <1>x DEF Store
  <2>3. CASE Return(w)
    BY <2>0, <2>2, <2>3, <1>x, ReturnTypes
  <2>4. CASE Goto(w, "append") /\ holder' = holder
    <3>1. Continues(w, "append", req[w].next, req[w].list)
      BY <2>4, <1>r DEF Goto, Continues, Others, Request, Locked
    <3>2. "append" \in Locked
      BY DEF Locked
    <3> QED BY <2>0, <2>1, <2>2, <2>4, <3>1, <3>2, <1>x, <1>f, ContinueTypes
  <2> QED BY <2>3, <2>4, <1>4 DEF Store
<1>5. ASSUME NEW w \in Requests, BeginTx(w) PROVE TypeInv'
  <2>0. /\ req[w].pc = "begin" /\ tx' = [by |-> w, rows |-> {}] /\ tx.by = None
        /\ Goto(w, "insert") /\ UNCHANGED <<sealed, rows, live, holder, serving, toLoad>>
    BY <1>5 DEF BeginTx, Connection
  <2>1. /\ req[w].next = 1 /\ req[w].op = "many" /\ Len(req[w].batch) \in Nat
        /\ req[w].pc \in Locked
    BY <2>0, <1>t, InputTypes DEF ShapeOK, Locked
  <2>2. Continues(w, "insert", req[w].next, req[w].list)
    BY <2>0, <1>r DEF Goto, Continues, Others, Request, Locked
  <2>3. tx' \in [by : Requests \cup {None}, rows : SUBSET Samples] /\ tx'.by = w
    BY <2>0
  <2>4. "insert" \in Locked /\ req[w].next \in 1..(Len(req[w].batch) + 1)
    BY <2>1 DEF Locked
  <2> QED BY <2>0, <2>1, <2>2, <2>3, <2>4, <1>x, <1>f, ContinueTypes
<1>6. ASSUME NEW w \in Requests, InsertRow(w) PROVE TypeInv'
  <2> DEFINE s == req[w].batch[req[w].next]
  <2>0. /\ req[w].pc = "insert" /\ req[w].pc \in Locked /\ tx.by = w
        /\ req[w].next <= Len(req[w].batch)
        /\ UNCHANGED <<sealed, rows, live, serving, toLoad>>
    BY <1>6, <1>x DEF InsertRow, Locked
  <2>1. /\ Len(req[w].batch) \in Nat \ {0} /\ req[w].next \in 1..Len(req[w].batch)
        /\ s \in Samples /\ req[w].op = "many"
    <3>1. req[w].batch \in Inputs /\ req[w].op = "many" /\ req[w].next \in 1..(Len(req[w].batch) + 1)
      BY <2>0, <1>t DEF ShapeOK
    <3>2. Len(req[w].batch) \in Nat \ {0}
      BY <3>1, InputTypes
    <3>3. req[w].next \in 1..Len(req[w].batch)
      BY <3>1, <3>2, <2>0
    <3> QED BY <3>1, <3>2, <3>3, InputTypes
  <2>2. CASE tx' = NoTx /\ Return(w)
    <3>1. /\ tx'.by # w /\ tx'.by = None
          /\ tx' \in [by : Requests \cup {None}, rows : SUBSET Samples]
      BY <2>2 DEF NoTx
    <3> QED BY <2>0, <2>2, <3>1, <1>x, ReturnTypes
  <2>3. CASE /\ tx' = [tx EXCEPT !.rows = @ \cup {s}]
             /\ req' = [req EXCEPT ![w].next = @ + 1]
             /\ UNCHANGED holder
    <3>0. req[w].next + 1 \in Nat /\ req' = [req EXCEPT ![w].next = @ + 1] /\ holder' = holder
      BY <2>1, <2>3
    <3>1. Continues(w, "insert", req[w].next + 1, req[w].list)
      BY <2>0, <3>0, <1>r, AdvanceContinues
    <3>2. tx' \in [by : Requests \cup {None}, rows : SUBSET Samples] /\ tx'.by = w
      BY <2>0, <2>1, <2>3, <1>x
    <3>3. req[w].next + 1 \in Nat /\ req[w].next + 1 \in 1..(Len(req[w].batch) + 1)
          /\ "insert" \in Locked
      BY <2>1 DEF Locked
    <3> QED BY <2>0, <2>1, <3>0, <3>1, <3>2, <3>3, <1>x, <1>f, ContinueTypes
  <2> QED BY <2>2, <2>3, <1>6 DEF InsertRow
<1>7. ASSUME NEW w \in Requests, Commit(w) PROVE TypeInv'
  <2>0. /\ req[w].pc = "insert" /\ tx.by = w /\ tx' = NoTx /\ rows' \subseteq Samples
        /\ req[w].pc \in Locked /\ req' = [req EXCEPT ![w].pc = "append", ![w].next = 1]
        /\ UNCHANGED <<sealed, live, holder, serving, toLoad>>
    BY <1>7, <1>x DEF Commit, Locked
  <2>1. req[w].op = "many" /\ Len(req[w].batch) \in Nat \ {0}
    BY <2>0, <1>t, InputTypes DEF ShapeOK
  <2>2. Continues(w, "append", 1, req[w].list)
    <3>1. req' = [req EXCEPT ![w].pc = "append", ![w].next = 1]
      BY <2>0
    <3> QED BY <3>1, <1>r DEF Continues, Others, Request, Locked
  <2>3. tx' \in [by : Requests \cup {None}, rows : SUBSET Samples] /\ tx'.by = None
    BY <2>0 DEF NoTx
  <2>4. "append" \in Locked /\ 1 \in 1..Len(req[w].batch)
    BY <2>1 DEF Locked
  <2> QED BY <2>0, <2>1, <2>2, <2>3, <2>4, <1>x, <1>f, ContinueTypes
<1>8. ASSUME NEW w \in Requests, AppendLive(w) PROVE TypeInv'
  <2>0. /\ req[w].pc = "append" /\ req[w].pc \in Locked /\ tx' = tx /\ tx.by # w
        /\ UNCHANGED <<sealed, rows, serving, toLoad>>
    BY <1>8, <1>x DEF AppendLive, Locked
  <2>1. /\ req[w].op \in {"one", "many"}
        /\ Len(req[w].batch) \in Nat /\ req[w].next \in 1..Len(req[w].batch)
        /\ req[w].batch[req[w].next] \in Samples
    BY <2>0, <1>t, InputTypes DEF ShapeOK
  <2>2. live' \in [Samples -> Nat]
    <3> DEFINE sample == req[w].batch[req[w].next]
    <3>1. live' = [live EXCEPT ![sample] = @ + 1]
      BY <1>8, Zenon DEF AppendLive
    <3>2. sample \in Samples /\ live \in [Samples -> Nat]
      BY <2>1, <1>x
    <3> HIDE DEF sample
    <3> QED BY <3>1, <3>2
  <2>3. CASE Return(w)
    BY <2>0, <2>2, <2>3, <1>x, ReturnTypes
  <2>4. CASE req[w].next < Len(req[w].batch) /\ req' = [req EXCEPT ![w].next = @ + 1]
             /\ UNCHANGED holder
    <3>2. req[w].next + 1 \in 1..Len(req[w].batch) /\ req[w].next + 1 \in Nat
      BY <2>1, <2>4
    <3>1. Continues(w, "append", req[w].next + 1, req[w].list)
      BY <2>0, <2>4, <3>2, <1>r DEF Continues, Others, Request
    <3> QED BY <2>0, <2>1, <2>2, <2>4, <3>1, <3>2, <1>x, <1>f, ContinueTypes
  <2> QED BY <2>3, <2>4, <1>8 DEF AppendLive
<1>9. ASSUME NEW w \in Requests, LoadIndex(w) PROVE TypeInv'
  <2>0. /\ req[w].pc = "load" /\ req[w].pc \in Locked /\ tx' = tx /\ tx.by = None
        /\ UNCHANGED <<sealed, rows, live, serving, toLoad>>
    BY <1>9 DEF LoadIndex, Connection, Locked
  <2>1. CASE Return(w)
    BY <2>0, <2>1, <1>x, ReturnTypes
  <2>2. CASE Goto(w, "list") /\ UNCHANGED holder
    <3>1. Continues(w, "list", req[w].next, req[w].list)
      BY <2>2, <1>r DEF Goto, Continues, Others, Request, Locked
    <3>2. req[w].op = "analyze" /\ "list" \in Locked
      BY <2>0, <1>t DEF ShapeOK, Locked
    <3> QED BY <2>0, <2>2, <3>1, <3>2, <1>x, <1>f, ContinueTypes
  <2> QED BY <2>1, <2>2, <1>9 DEF LoadIndex
<1>10. ASSUME NEW w \in Requests, ListRows(w) PROVE TypeInv'
  <2>0. /\ req[w].pc = "list" /\ tx' = tx /\ tx.by = None /\ req[w].pc \in Locked
        /\ UNCHANGED <<sealed, rows, live, holder, serving, toLoad>>
    BY <1>10 DEF ListRows, Connection, Locked
  <2>1. PICK S \in Loads(req[w].clock) : req' = [req EXCEPT ![w].pc = "replace", ![w].list = S]
    BY <1>10 DEF ListRows
  <2>2. S \in SUBSET Samples
    BY <1>x DEF Loads, RowsOf
  <2>3. Continues(w, "replace", req[w].next, S)
    BY <2>1, <2>2, <1>r DEF Continues, Others, Request, Locked
  <2>4. req[w].op = "analyze" /\ "replace" \in Locked
    BY <2>0, <1>t DEF ShapeOK, Locked
  <2> QED BY <2>0, <2>2, <2>3, <2>4, <1>x, <1>f, ContinueTypes
<1>11. ASSUME NEW w \in Requests, ReplaceIndex(w) PROVE TypeInv'
  <2>0. req[w].pc = "replace" /\ req[w].pc \in Locked /\ tx' = tx /\ tx.by # w
    BY <1>11, <1>x DEF ReplaceIndex, Locked
  <2>1. live' \in [Samples -> Nat]
    BY <1>11, <1>x DEF ReplaceIndex, Replaced
  <2>2. Return(w) /\ rows' = rows /\ UNCHANGED <<sealed, serving, toLoad>>
    BY <1>11 DEF ReplaceIndex
  <2> QED BY <2>0, <2>1, <2>2, <1>x, ReturnTypes
<1>12. ASSUME NEW w \in Requests, Cancel(w) PROVE TypeInv'
  <2>1. /\ req[w].pc \in Locked /\ Return(w) /\ tx' = (IF tx.by = w THEN NoTx ELSE tx)
        /\ UNCHANGED <<sealed, rows, live, serving, toLoad>>
    BY <1>12 DEF Cancel
  <2>2. tx'.by # w /\ tx' \in [by : Requests \cup {None}, rows : SUBSET Samples]
    BY <2>1, <1>x DEF NoTx
  <2>3. tx'.by = tx.by \/ (tx.by = w /\ tx'.by = None)
    BY <2>1 DEF NoTx
  <2> QED BY <2>1, <2>2, <2>3, <1>x, ReturnTypes
<1>13. ASSUME NEW c \in Clocks, Seal(c) PROVE TypeInv'
  BY <1>13, <1>t DEF Seal, TypeInv, TypeOK, Exclusion
<1>14. ASSUME NEW c \in Clocks, RecoverClock(c) PROVE TypeInv'
  <2>1. live' \in [Samples -> Nat]
    BY <1>14, <1>x DEF RecoverClock, Replaced
  <2> QED BY <1>14, <2>1, <1>t DEF RecoverClock, TypeInv, TypeOK, Exclusion
<1>15. CASE ListenAndServe
  BY <1>15, <1>t DEF ListenAndServe, TypeInv, TypeOK, Exclusion
<1>16. CASE Crash
  <2>1. \A v \in Requests : req'[v] = Idle
    BY <1>16 DEF Crash
  <2>2. TypeOK'
    BY <1>16, <2>1, <1>t, IdleOK DEF Crash, TypeOK, NoTx, Idle
  <2> QED BY <2>1, <2>2, IdleOK DEF TypeInv, Exclusion, Idle, Locked
<1>17. CASE UNCHANGED vars
  BY <1>17, <1>t DEF vars, TypeInv, TypeOK, Exclusion
<1>18. ASSUME NEW w \in Requests, NEW s \in Samples, IngestSample(w, s) PROVE TypeInv'
  <2>1. <<s>> \in Inputs /\ Len(<<s>>) = 1 /\ SampleClock[s] \in Clocks
    BY DEF Inputs
  <2> QED BY <2>1, <1>18, <1>1 DEF IngestSample
<1>19. ASSUME NEW w \in Requests, NEW batch \in Batches, IngestMany(w, batch) PROVE TypeInv'
  <2>1. batch \in Inputs /\ SampleClock[batch[1]] \in Clocks
    BY InputTypes DEF Inputs
  <2> QED BY <2>1, <1>19, <1>1 DEF IngestMany
<1>20. ASSUME NEW w \in Requests, NEW c \in Clocks, AnalyzeClock(w, c) PROVE TypeInv'
  BY <1>20, <1>1 DEF AnalyzeClock
<1> QED BY <1>2, <1>3, <1>4, <1>5, <1>6, <1>7, <1>8, <1>9, <1>10, <1>11, <1>12, <1>13, <1>14,
           <1>15, <1>16, <1>17, <1>18, <1>19, <1>20 DEF Next, Continue

\* Every reachable state is well typed and no mutex has two holders: mutual
\* exclusion of clockMu, which the theorems below rest on.
THEOREM TypeCorrect == Spec => []TypeOK
<1>1. TypeInv => TypeOK
  BY DEF TypeInv
<1> QED BY TypeInit, TypeNext, <1>1, PTL DEF Spec

-----------------------------------------------------------------------------
(* What a step may do to the rows, the index and the transaction *)

\* Rows and index stay, and so does what is on its way to the index.
Quiet == /\ UNCHANGED <<rows, live, toLoad>>
         /\ \A v \in Requests : \/ req'[v] = req[v]
                                \/ /\ req[v].pc \notin {"append", "replace"}
                                   /\ req'[v].pc \notin {"append", "replace"}

\* Rows and transaction stay, and so does the request that owns it.
TxQuiet == /\ UNCHANGED <<rows, tx>>
           /\ \A v \in Requests : req[v].pc = "insert" => req'[v] = req[v]

\* A single upload is stored.
Stored(w) == /\ req[w].pc = "store" /\ tx.by = None /\ tx' = tx
             /\ req[w].batch[1] \notin rows
             /\ rows' = rows \cup {req[w].batch[1]}
             /\ req' = [req EXCEPT ![w].pc = "append"]
             /\ UNCHANGED <<live, toLoad>>

LEMMA StepKinds ==
  ASSUME TypeInv, [Next]_vars
  PROVE  \/ Quiet
         \/ \E w \in Requests : \/ Stored(w) \/ Commit(w) \/ AppendLive(w)
                                \/ ListRows(w) \/ ReplaceIndex(w)
         \/ \E c \in Clocks : RecoverClock(c)
         \/ Crash
<1>r. req \in [Requests -> Request]
  BY DEF TypeInv, TypeOK
<1>1. ASSUME NEW w \in Requests, req[w].pc \notin {"append", "replace"}, Return(w),
             UNCHANGED <<rows, live, toLoad>>
      PROVE  Quiet
  BY <1>1, <1>r DEF Quiet, Return, Idle
<1>2. ASSUME NEW w \in Requests, NEW op, NEW batch, NEW c, Begin(w, op, batch, c)
      PROVE  Quiet
  BY <1>2, <1>r DEF Quiet, Begin, Idle
<1>3. ASSUME NEW w \in Requests, Lock(w) PROVE Quiet
  BY <1>3, <1>r DEF Quiet, Lock, Goto, Request
<1>4. ASSUME NEW w \in Requests, Prepare(w) PROVE Quiet
  <2>1. CASE Return(w)
    BY <2>1, <1>1, <1>4 DEF Prepare
  <2>2. CASE req[w].next < Len(req[w].batch) /\ req' = [req EXCEPT ![w].next = @ + 1]
    BY <2>2, <1>4, <1>r DEF Prepare, Quiet, Request
  <2>3. CASE req' = [req EXCEPT ![w].next = 1,
                                ![w].pc = IF req[w].op = "one" THEN "store" ELSE "begin"]
    BY <2>3, <1>4, <1>r DEF Prepare, Quiet, Request
  <2> QED BY <2>1, <2>2, <2>3, <1>4 DEF Prepare
<1>5. ASSUME NEW w \in Requests, Store(w) PROVE Quiet \/ Stored(w)
  BY <1>1, <1>5 DEF Store, Stored, Connection, Goto
<1>6. ASSUME NEW w \in Requests, BeginTx(w) PROVE Quiet
  BY <1>6, <1>r DEF BeginTx, Quiet, Goto, Request
<1>7. ASSUME NEW w \in Requests, InsertRow(w) PROVE Quiet
  <2>1. CASE Return(w)
    BY <2>1, <1>1, <1>7 DEF InsertRow
  <2>2. CASE req' = [req EXCEPT ![w].next = @ + 1]
    BY <2>2, <1>7, <1>r DEF InsertRow, Quiet, Request
  <2> QED BY <2>1, <2>2, <1>7 DEF InsertRow
<1>8. ASSUME NEW w \in Requests, LoadIndex(w) PROVE Quiet
  <2>1. CASE Return(w)
    BY <2>1, <1>1, <1>8 DEF LoadIndex
  <2>2. CASE Goto(w, "list")
    BY <2>2, <1>8, <1>r DEF LoadIndex, Quiet, Goto, Request
  <2> QED BY <2>1, <2>2, <1>8 DEF LoadIndex
<1>9. ASSUME NEW w \in Requests, Cancel(w) PROVE Quiet
  BY <1>1, <1>9 DEF Cancel
<1>10. ASSUME \/ \E c \in Clocks : Seal(c)
              \/ ListenAndServe
              \/ UNCHANGED vars
       PROVE  Quiet
  BY <1>10 DEF Quiet, Seal, ListenAndServe, vars
<1> QED BY <1>2, <1>3, <1>4, <1>5, <1>6, <1>7, <1>8, <1>9, <1>10
        DEF Next, Continue, IngestSample, IngestMany, AnalyzeClock

LEMMA TxKinds ==
  ASSUME TypeInv, [Next]_vars
  PROVE  \/ TxQuiet
         \/ tx'.by = None
         \/ \E w \in Requests : BeginTx(w) \/ InsertRow(w)
<1>r. /\ req \in [Requests -> Request] /\ tx \in [by : Requests \cup {None}, rows : SUBSET Samples]
      /\ \A v \in Requests : tx.by = v <=> req[v].pc = "insert"
  BY DEF TypeInv, TypeOK
<1>1. ASSUME NEW w \in Requests, req[w].pc # "insert", UNCHANGED <<rows, tx>>, NEW x,
             req' = [req EXCEPT ![w] = x]
      PROVE  TxQuiet
  BY <1>1, <1>r DEF TxQuiet
<1>2. ASSUME NEW w \in Requests, req[w].pc # "insert", UNCHANGED <<rows, tx>>, Return(w)
      PROVE  TxQuiet
  BY <1>1, <1>2 DEF Return
<1>3. ASSUME NEW w \in Requests, NEW op, NEW batch, NEW c, Begin(w, op, batch, c)
      PROVE  TxQuiet
  BY <1>1, <1>3 DEF Begin
<1>4. ASSUME NEW w \in Requests, Lock(w) PROVE TxQuiet
  BY <1>4, <1>r DEF TxQuiet, Lock, Goto
<1>5. ASSUME NEW w \in Requests, Cancel(w) PROVE TxQuiet \/ tx'.by = None
  <2>1. CASE tx.by = w
    BY <2>1, <1>5 DEF Cancel, NoTx
  <2>2. CASE tx.by # w
    BY <2>2, <1>2, <1>5, <1>r DEF Cancel
  <2> QED BY <2>1, <2>2
<1>6. ASSUME NEW w \in Requests, AppendLive(w) \/ ReplaceIndex(w) PROVE TxQuiet
  BY <1>6, <1>2, <1>r DEF AppendLive, ReplaceIndex, TxQuiet
<1>7. ASSUME NEW w \in Requests,
             Prepare(w) \/ Store(w) \/ Commit(w) \/ LoadIndex(w) \/ ListRows(w)
      PROVE  tx'.by = None
  BY <1>7 DEF Prepare, Store, Commit, LoadIndex, ListRows, Connection, NoTx
<1>8. ASSUME Crash PROVE tx'.by = None
  BY <1>8 DEF Crash, NoTx
<1>9. ASSUME \/ \E c \in Clocks : Seal(c) \/ RecoverClock(c)
             \/ ListenAndServe
             \/ UNCHANGED vars
      PROVE  TxQuiet
  BY <1>9 DEF TxQuiet, Seal, RecoverClock, ListenAndServe, vars
<1> QED BY <1>3, <1>4, <1>5, <1>6, <1>7, <1>8, <1>9
        DEF Next, Continue, IngestSample, IngestMany, AnalyzeClock

-----------------------------------------------------------------------------
(* The open transaction *)

LEMMA TxNext == TypeInv /\ TxOK /\ [Next]_vars => TxOK'
<1> SUFFICES ASSUME TypeInv, TxOK, [Next]_vars, NEW v \in Requests, tx'.by = v
             PROVE  /\ tx'.rows = {req'[v].batch[k] : k \in 1..(req'[v].next - 1)}
                    /\ tx'.rows \cap rows' = {}
                    /\ \A i, k \in 1..(req'[v].next - 1) :
                         req'[v].batch[i] = req'[v].batch[k] => i = k
  BY DEF TxOK
<1>t. /\ req \in [Requests -> Request] /\ tx \in [by : Requests \cup {None}, rows : SUBSET Samples]
      /\ \A w \in Requests : tx.by = w <=> req[w].pc = "insert"
      /\ \A w \in Requests : ShapeOK(req[w]) /\ req[w].next \in Nat
  BY RequestFields DEF TypeInv, TypeOK
<1>n. None \notin Requests
  BY IngestAssumption
<1>1. CASE TxQuiet
  <2>1. tx' = tx /\ rows' = rows /\ tx.by = v /\ req'[v] = req[v]
    BY <1>1, <1>t DEF TxQuiet
  <2> QED BY <2>1 DEF TxOK
<1>2. ASSUME NEW w \in Requests, BeginTx(w)
      PROVE  /\ tx'.rows = {} /\ req'[v].next = 1
    <2>1. w = v /\ req[w].next = 1
      BY <1>2, <1>t DEF BeginTx, ShapeOK
    <2> QED BY <2>1, <1>2, <1>t DEF BeginTx, Goto
<1>3. ASSUME NEW w \in Requests, InsertRow(w)
      PROVE  /\ tx'.rows = {req'[v].batch[k] : k \in 1..(req'[v].next - 1)}
             /\ tx'.rows \cap rows' = {}
             /\ \A i, k \in 1..(req'[v].next - 1) :
                  req'[v].batch[i] = req'[v].batch[k] => i = k
  <2> DEFINE b == req[w].batch
             n == req[w].next
  <2>1. tx' # NoTx
    BY <1>n DEF NoTx
  <2>2. /\ tx.by = w /\ rows' = rows /\ b[n] \notin rows \cup tx.rows
        /\ tx' = [tx EXCEPT !.rows = @ \cup {b[n]}]
        /\ req' = [req EXCEPT ![w].next = @ + 1]
    BY <2>1, <1>3, <1>t DEF InsertRow
  <2>3. w = v /\ req'[v].batch = b /\ req'[v].next = n + 1 /\ n \in Nat /\ n >= 1
    <3>1. n >= 1 /\ n \in Nat
      BY <1>3, <1>t DEF InsertRow, ShapeOK
    <3>2. w = v
      BY <2>2, <1>t
    <3>3. req'[v] = [req[w] EXCEPT !.next = n + 1]
      BY <2>2, <3>2, <1>t
    <3> QED BY <3>1, <3>2, <3>3, <1>t DEF Request
  <2>4. /\ tx.rows = {b[k] : k \in 1..(n - 1)} /\ tx.rows \cap rows = {}
        /\ \A i, k \in 1..(n - 1) : b[i] = b[k] => i = k
    BY <2>2 DEF TxOK
  <2>5. tx'.rows = tx.rows \cup {b[n]}
    BY <2>2, <1>t
  <2> HIDE DEF b, n
  <2>6. 1..((n + 1) - 1) = (1..(n - 1)) \cup {n} /\ n \notin 1..(n - 1)
    BY <2>3
  <2>7. {b[k] : k \in 1..((n + 1) - 1)} = {b[k] : k \in 1..(n - 1)} \cup {b[n]}
    BY <2>6
  <2>8. \A i, k \in 1..((n + 1) - 1) : b[i] = b[k] => i = k
    BY <2>2, <2>4, <2>6
  <2> QED BY <2>2, <2>3, <2>4, <2>5, <2>7, <2>8
<1>4. CASE \E w \in Requests : BeginTx(w)
  BY <1>4, <1>2
<1>5. CASE tx'.by = None
  BY <1>5, <1>n
<1> QED BY <1>1, <1>3, <1>4, <1>5, TxKinds

LEMMA TxInit == Init => TxOK
BY IngestAssumption DEF Init, TxOK, NoTx

-----------------------------------------------------------------------------
(* What Stored and Commit add to the table *)

LEMMA StoredAdds ==
  ASSUME TypeInv, NEW w \in Requests, Stored(w)
  PROVE  /\ rows' = rows \cup Contents(req[w].batch)
         /\ Contents(req[w].batch) \cap rows = {} /\ Distinct(req[w].batch)
         /\ req[w].batch \in Inputs /\ req[w].clock = SampleClock[req[w].batch[1]]
<1>1. /\ Len(req[w].batch) = 1 /\ req[w].batch \in Inputs
      /\ req[w].clock = SampleClock[req[w].batch[1]]
  BY DEF TypeInv, ShapeOK, Stored
<1>2. Contents(req[w].batch) = {req[w].batch[1]} /\ Distinct(req[w].batch)
  BY <1>1 DEF Contents, Distinct
<1> QED BY <1>1, <1>2 DEF Stored

LEMMA CommitAdds ==
  ASSUME TypeInv, TxOK, NEW w \in Requests, Commit(w)
  PROVE  /\ rows' = rows \cup Contents(req[w].batch)
         /\ Contents(req[w].batch) \cap rows = {} /\ Distinct(req[w].batch)
         /\ req[w].batch \in Inputs /\ req[w].clock = SampleClock[req[w].batch[1]]
<1> DEFINE b == req[w].batch
<1>1. /\ b \in Inputs /\ req[w].clock = SampleClock[b[1]] /\ tx.by = w
      /\ req[w].next \in 1..(Len(b) + 1) /\ req[w].next > Len(b)
  BY DEF TypeInv, TypeOK, ShapeOK, Commit
<1>2. Len(b) \in Nat /\ 1..(req[w].next - 1) = 1..Len(b)
  BY <1>1, InputTypes
<1>3. tx.rows = Contents(b) /\ tx.rows \cap rows = {} /\ Distinct(b)
  BY <1>1, <1>2 DEF TxOK, Contents, Distinct
<1> QED BY <1>1, <1>3 DEF Commit

\* A batch is all or nothing, for every batch, every set of concurrent requests,
\* cancellations and crashes: InsertBatch runs its INSERTs in one transaction.
THEOREM BatchesAtomic == Spec => BatchAtomic
<1>1. TypeInv /\ TxOK /\ [Next]_vars =>
        [rows' # rows =>
           \E w \in Requests : /\ rows' = rows \cup Contents(req[w].batch)
                               /\ Contents(req[w].batch) \cap rows = {}
                               /\ Distinct(req[w].batch)]_vars
  <2> SUFFICES ASSUME TypeInv, TxOK, [Next]_vars, rows' # rows
               PROVE  \E w \in Requests : /\ rows' = rows \cup Contents(req[w].batch)
                                          /\ Contents(req[w].batch) \cap rows = {}
                                          /\ Distinct(req[w].batch)
    OBVIOUS
  <2>1. \E w \in Requests : Stored(w) \/ Commit(w)
    BY StepKinds DEF Quiet, AppendLive, ListRows, ReplaceIndex, RecoverClock, Crash
  <2> QED BY <2>1, StoredAdds, CommitAdds
<1> QED BY <1>1, TypeInit, TxInit, TypeNext, TxNext, PTL DEF Spec, BatchAtomic

-----------------------------------------------------------------------------
(* The index holds only stored samples *)

LEMMA StoredInit == Init => StoredOK
BY DEF Init, StoredOK, IndexHoldsOnlyStored, AppendOK, ReplaceOK, Idle

LEMMA StoredNext == TypeInv /\ TxOK /\ StoredOK /\ [Next]_vars => StoredOK'
<1> SUFFICES ASSUME TypeInv, TxOK, StoredOK, [Next]_vars PROVE StoredOK'
  OBVIOUS
<1>t. /\ req \in [Requests -> Request] /\ live \in [Samples -> Nat]
      /\ \A w \in Requests : ShapeOK(req[w]) /\ req[w].next \in Nat
  BY RequestFields DEF TypeInv, TypeOK
<1>s. /\ \A s \in Samples : live[s] > 0 => s \in rows
      /\ \A v \in Requests : AppendOK(req[v]) /\ ReplaceOK(req[v])
  BY DEF StoredOK, IndexHoldsOnlyStored
<1>1. CASE Quiet
  BY <1>1, <1>s DEF Quiet, StoredOK, IndexHoldsOnlyStored, AppendOK, ReplaceOK, RowsOf
<1>2. ASSUME NEW w \in Requests, rows \subseteq rows', live' = live, NEW x,
             req' = [req EXCEPT ![w] = x], x.pc # "replace",
             x.pc = "append" => Contents(x.batch) \subseteq rows' /\ Distinct(x.batch)
      PROVE  StoredOK'
  BY <1>2, <1>s, <1>t DEF StoredOK, IndexHoldsOnlyStored, AppendOK, ReplaceOK, RowsOf
<1>3. ASSUME NEW w \in Requests, Stored(w) PROVE StoredOK'
  <2> DEFINE x == [req[w] EXCEPT !.pc = "append"]
  <2>1. /\ rows \subseteq rows' /\ live' = live /\ req' = [req EXCEPT ![w] = x]
        /\ Contents(req[w].batch) \subseteq rows' /\ Distinct(req[w].batch)
    BY <1>3, StoredAdds DEF Stored
  <2>2. x.pc = "append" /\ x.batch = req[w].batch
    BY <1>t DEF Request
  <2> HIDE DEF x
  <2> QED BY <2>1, <2>2, <1>2
<1>4. ASSUME NEW w \in Requests, Commit(w) PROVE StoredOK'
  <2> DEFINE x == [req[w] EXCEPT !.pc = "append", !.next = 1]
  <2>1. /\ rows \subseteq rows' /\ live' = live
        /\ Contents(req[w].batch) \subseteq rows' /\ Distinct(req[w].batch)
    BY <1>4, CommitAdds DEF Commit
  <2>3. req' = [req EXCEPT ![w] = x]
    BY <1>4 DEF Commit
  <2>2. x.pc = "append" /\ x.batch = req[w].batch
    BY <1>t DEF Request
  <2> HIDE DEF x
  <2> QED BY <2>1, <2>2, <2>3, <1>2
<1>5. ASSUME NEW w \in Requests, AppendLive(w) PROVE StoredOK'
  <2> DEFINE s == req[w].batch[req[w].next]
  <2>1. /\ live' = [live EXCEPT ![s] = @ + 1] /\ rows' = rows
        /\ s \in Contents(req[w].batch) /\ s \in rows
    BY <1>5, <1>s, <1>t DEF AppendLive, AppendOK, ShapeOK, Contents
  <2>2. IndexHoldsOnlyStored'
    BY <2>1, <1>s, <1>t DEF IndexHoldsOnlyStored
  <2>3. ASSUME NEW v \in Requests PROVE AppendOK(req'[v]) /\ ReplaceOK(req'[v])
    <3>1. CASE req'[v] = req[v]
      BY <3>1, <2>1, <1>s
    <3>2. CASE Return(w)
      BY <3>2, <3>1, <1>t DEF Return, Idle, AppendOK, ReplaceOK
    <3>3. CASE req' = [req EXCEPT ![w].next = @ + 1] /\ v = w
      <4>1. req'[v].batch = req[w].batch /\ req'[v].pc = "append"
        BY <3>3, <1>5, <1>t DEF AppendLive, Request
      <4> QED BY <4>1, <1>5, <1>s DEF AppendOK, ReplaceOK, AppendLive
    <3> QED BY <3>1, <3>2, <3>3, <1>5, <1>t DEF AppendLive
  <2> QED BY <2>1, <2>2, <2>3 DEF StoredOK, AppendOK, ReplaceOK, RowsOf
<1>6. ASSUME NEW w \in Requests, ListRows(w) PROVE StoredOK'
  <2>1. PICK S \in Loads(req[w].clock) : req' = [req EXCEPT ![w].pc = "replace", ![w].list = S]
    BY <1>6 DEF ListRows
  <2>2. /\ req'[w].pc = "replace" /\ req'[w].list = S /\ req'[w].clock = req[w].clock
        /\ \A v \in Requests \ {w} : req'[v] = req[v]
    BY <2>1, <1>t DEF Request
  <2>3. S \subseteq RowsOf(req[w].clock) /\ rows' = rows /\ live' = live
    BY <1>6 DEF ListRows, Loads
  <2> QED BY <2>2, <2>3, <1>s DEF StoredOK, IndexHoldsOnlyStored, AppendOK, ReplaceOK, RowsOf
<1>7. ASSUME NEW c \in Clocks, NEW S \in SUBSET RowsOf(c), live' = Replaced(c, S), rows' = rows,
             \A v \in Requests : req'[v] = req[v] \/ req'[v] = Idle
      PROVE  StoredOK'
  <2>1. IndexHoldsOnlyStored'
    BY <1>7, <1>s DEF Replaced, IndexHoldsOnlyStored, RowsOf
  <2> QED BY <1>7, <2>1, <1>s DEF StoredOK, AppendOK, ReplaceOK, Idle, RowsOf
<1>8. ASSUME NEW w \in Requests, ReplaceIndex(w) PROVE StoredOK'
  <2>1. req[w].clock \in Clocks /\ req[w].list \subseteq RowsOf(req[w].clock)
    BY <1>8, <1>s, <1>t DEF ReplaceIndex, ReplaceOK, ShapeOK
  <2> QED BY <2>1, <1>7, <1>8, <1>t DEF ReplaceIndex, Return
<1>9. ASSUME NEW c \in Clocks, RecoverClock(c) PROVE StoredOK'
  BY <1>7, <1>9 DEF RecoverClock, Loads
<1>10. CASE Crash
  BY <1>10 DEF Crash, StoredOK, IndexHoldsOnlyStored, AppendOK, ReplaceOK, Idle
<1> QED BY <1>1, <1>3, <1>4, <1>5, <1>6, <1>8, <1>9, <1>10, StepKinds

\* Nothing enters the index that is not in the table, whatever batch is rolled
\* back and whenever the process crashes: ingests append after they have stored.
THEOREM IndexSound == Spec => []IndexHoldsOnlyStored
<1>1. StoredOK => IndexHoldsOnlyStored
  BY DEF StoredOK
<1> QED BY TypeInit, TxInit, StoredInit, TypeNext, TxNext, StoredNext, <1>1, PTL DEF Spec

-----------------------------------------------------------------------------
(* Recovery is alone *)

LEMMA BootInit == Init => BootOK
BY DEF Init, BootOK

LEMMA BootNext == TypeInv /\ BootOK /\ [Next]_vars => BootOK'
<1> SUFFICES ASSUME TypeInv, BootOK, [Next]_vars PROVE BootOK'
  OBVIOUS
<1>1. ASSUME NEW w \in Requests, req[w].pc # "idle", UNCHANGED <<serving, toLoad>> PROVE BootOK'
  BY <1>1 DEF BootOK
<1>2. ASSUME NEW w \in Requests, NEW op, NEW batch, NEW c, Begin(w, op, batch, c) PROVE BootOK'
  BY <1>2 DEF BootOK, Begin
<1>3. ASSUME NEW w \in Requests, Lock(w) \/ Continue(w) \/ Cancel(w) PROVE BootOK'
  <2>1. UNCHANGED <<serving, toLoad>>
    BY <1>3 DEF Lock, Continue, Cancel, Prepare, Store, BeginTx, InsertRow, Commit, AppendLive,
                LoadIndex, ListRows, ReplaceIndex
  <2>2. req[w].pc # "idle"
    BY <1>3 DEF Lock, Continue, Cancel, Prepare, Store, BeginTx, InsertRow, Commit, AppendLive,
                LoadIndex, ListRows, ReplaceIndex, Locked
  <2> QED BY <2>1, <2>2, <1>1
<1>4. ASSUME NEW c \in Clocks, Seal(c) \/ RecoverClock(c) PROVE BootOK'
  BY <1>4 DEF BootOK, Seal, RecoverClock
<1>5. CASE ListenAndServe
  BY <1>5 DEF BootOK, ListenAndServe
<1>6. CASE Crash
  BY <1>6 DEF BootOK, Crash, Idle
<1>7. CASE UNCHANGED vars
  BY <1>7 DEF BootOK, vars
<1> QED BY <1>2, <1>3, <1>4, <1>5, <1>6, <1>7 DEF Next, IngestSample, IngestMany, AnalyzeClock

-----------------------------------------------------------------------------
(* No sample is in the index twice *)

\* Two requests under the mutex of one clock are one request.
LEMMA SameClock ==
  ASSUME TypeInv, NEW v \in Requests, NEW w \in Requests, req[v].pc \in Locked,
         req[w].pc \in Locked, req[v].clock = req[w].clock
  PROVE  v = w
BY DEF TypeInv, Exclusion

\* Nobody appends an own sample of the clock whose mutex another request holds.
LEMMA AppendsOwnClock ==
  ASSUME TypeInv, NEW v \in Requests, req[v].pc = "append",
         NEW k \in req[v].next..Len(req[v].batch), req[v].batch[k] \notin Foreign
  PROVE  /\ SampleClock[req[v].batch[k]] = req[v].clock /\ req[v].batch[k] \in Samples
         /\ k \in 1..Len(req[v].batch)
<1>1. /\ req[v].batch \in Inputs /\ req[v].clock = SampleClock[req[v].batch[1]]
      /\ req[v].next \in 1..Len(req[v].batch) /\ Len(req[v].batch) \in Nat
  BY InputTypes DEF TypeInv, ShapeOK
<1>2. k \in 1..Len(req[v].batch)
  BY <1>1
<1> QED BY <1>1, <1>2, OwnClock, InputTypes

LEMMA OnceInit == Init => OnceOK
BY DEF Init, OnceOK, IndexedOnce, NotYet, Idle

LEMMA OnceNext ==
  TypeInv /\ TxOK /\ StoredOK /\ BootOK /\ OnceOK /\ [Next]_vars => OnceOK'
<1> SUFFICES ASSUME TypeInv, TxOK, StoredOK, BootOK, OnceOK, [Next]_vars PROVE OnceOK'
  OBVIOUS
<1>t. /\ req \in [Requests -> Request] /\ live \in [Samples -> Nat]
      /\ \A w \in Requests : ShapeOK(req[w]) /\ req[w].next \in Nat
  BY RequestFields DEF TypeInv, TypeOK
<1>o. /\ \A s \in Samples \ Foreign : live[s] <= 1
      /\ \A v \in Requests : NotYet(req[v])
  BY DEF OnceOK, IndexedOnce
<1>1. CASE Quiet
  BY <1>1, <1>o DEF Quiet, OnceOK, IndexedOnce, NotYet
<1>2. ASSUME NEW w \in Requests, live' = live, Others(w),
             req'[w].batch = req[w].batch, req[w].batch \in Inputs,
             Contents(req[w].batch) \cap rows = {}, req'[w].next \in Nat \ {0}
      PROVE  OnceOK'
  <2>1. ASSUME NEW k \in req'[w].next..Len(req'[w].batch) PROVE live[req'[w].batch[k]] = 0
    <3>1. k \in 1..Len(req[w].batch)
      BY <1>2, InputTypes
    <3>2. req[w].batch[k] \in Samples \ rows
      BY <3>1, <1>2, InputTypes DEF Contents
    <3> QED BY <3>2, <1>2, <1>t DEF StoredOK, IndexHoldsOnlyStored
  <2>2. NotYet(req[w])'
    BY <2>1, <1>2 DEF NotYet
  <2>3. \A v \in Requests \ {w} : req'[v] = req[v]
    BY <1>2 DEF Others
  <2> QED BY <2>2, <2>3, <1>2, <1>o DEF OnceOK, IndexedOnce, NotYet
<1>3. ASSUME NEW w \in Requests, Stored(w) PROVE OnceOK'
  <2>1. req' = [req EXCEPT ![w] = [req[w] EXCEPT !.pc = "append"]] /\ live' = live
    BY <1>3, <1>t DEF Stored
  <2>2. req'[w] = [req[w] EXCEPT !.pc = "append"]
    BY <2>1, <1>t
  <2>3. req'[w].next = 1 /\ req'[w].batch = req[w].batch
    BY <2>2, <1>3, <1>t DEF Stored, ShapeOK, Request
  <2>4. Others(w)
    BY TypeNext, <2>1, <1>t DEF Others, TypeInv, TypeOK
  <2> QED BY <2>1, <2>3, <2>4, <1>3, <1>2, StoredAdds
<1>4. ASSUME NEW w \in Requests, Commit(w) PROVE OnceOK'
  <2>1. /\ req' = [req EXCEPT ![w] = [req[w] EXCEPT !.pc = "append", !.next = 1]]
        /\ live' = live
    BY <1>4, <1>t DEF Commit
  <2>2. req'[w] = [req[w] EXCEPT !.pc = "append", !.next = 1]
    BY <2>1, <1>t
  <2>3. req'[w].next = 1 /\ req'[w].batch = req[w].batch
    BY <2>2, <1>t DEF Request
  <2>4. Others(w)
    BY TypeNext, <2>1, <1>t DEF Others, TypeInv, TypeOK
  <2> QED BY <2>1, <2>3, <2>4, <1>4, <1>2, CommitAdds
<1>5. ASSUME NEW w \in Requests, AppendLive(w) PROVE OnceOK'
  <2> DEFINE b == req[w].batch
             n == req[w].next
             s == b[n]
  <2>1. /\ req[w].pc = "append" /\ live' = [live EXCEPT ![s] = @ + 1]
        /\ n \in 1..Len(b) /\ n \in n..Len(b) /\ b \in Inputs /\ Len(b) \in Nat /\ s \in Samples
    BY <1>5, <1>t, InputTypes DEF AppendLive, ShapeOK
  <2>2. /\ s \notin Foreign => live[s] = 0
        /\ \A t \in Samples : live'[t] = IF t = s THEN live[t] + 1 ELSE live[t]
    BY <2>1, <1>o, <1>t DEF NotYet
  <2>3. IndexedOnce'
    BY <2>2, <1>o, <1>t DEF IndexedOnce, Foreign
  <2>4. /\ \A v \in Requests \ {w} : req'[v] = req[v]
        /\ \/ req'[w].pc # "append"
           \/ req'[w].batch = b /\ req'[w].next = n + 1
    <3>1. CASE Return(w)
      BY <3>1, <1>t DEF Return, Idle
    <3>2. CASE req' = [req EXCEPT ![w].next = @ + 1]
      BY <3>2, <1>t DEF Request
    <3> QED BY <3>1, <3>2, <1>5 DEF AppendLive
  <2>5. ASSUME NEW v \in Requests \ {w}, req[v].pc = "append",
               NEW k \in req[v].next..Len(req[v].batch), req[v].batch[k] \notin Foreign
        PROVE  live'[req[v].batch[k]] = 0
    <3>1. /\ SampleClock[req[v].batch[k]] = req[v].clock /\ req[v].batch[k] \in Samples
          /\ live[req[v].batch[k]] = 0
      BY <2>5, <1>o, AppendsOwnClock DEF NotYet
    <3>2. s \notin Foreign => SampleClock[s] = req[w].clock
      BY <2>1, AppendsOwnClock
    <3>3. req[v].clock # req[w].clock
      BY <2>1, <2>5, SameClock DEF Locked
    <3>4. req[v].batch[k] # s
      BY <3>1, <3>2, <3>3, <2>5
    <3> QED BY <3>1, <3>4, <2>2
  <2>6. ASSUME req'[w].batch = b, req'[w].next = n + 1,
               NEW k \in (n + 1)..Len(b), b[k] \notin Foreign
        PROVE  live'[b[k]] = 0
    <3>1. k \in 1..Len(b) /\ k \in n..Len(b) /\ k # n
      BY <2>6, <2>1
    <3>2. Distinct(b)
      BY <2>1 DEF StoredOK, AppendOK
    <3>3. b[k] # s /\ b[k] \in Samples
      BY <3>1, <3>2, <2>1, InputTypes DEF Distinct
    <3>4. live[b[k]] = 0
      BY <3>1, <2>1, <2>6, <1>o DEF NotYet
    <3> QED BY <3>3, <3>4, <2>2
  <2>7. ASSUME NEW v \in Requests PROVE NotYet(req[v])'
    BY <2>4, <2>5, <2>6 DEF NotYet, Foreign
  <2> QED BY <2>3, <2>7 DEF OnceOK, NotYet
<1>6. ASSUME NEW w \in Requests, ListRows(w) PROVE OnceOK'
  <2>1. req'[w].pc = "replace" /\ (\A v \in Requests \ {w} : req'[v] = req[v]) /\ live' = live
    BY <1>6, <1>t DEF ListRows, Request
  <2>2. ASSUME NEW v \in Requests PROVE NotYet(req[v])'
    BY <2>1, <1>o DEF NotYet
  <2> QED BY <2>1, <2>2, <1>o DEF ListRows, OnceOK, IndexedOnce, NotYet
<1>7. ASSUME NEW c \in Clocks, NEW S, live' = Replaced(c, S),
             \A v \in Requests : \/ req'[v].pc # "append"
                                 \/ req'[v] = req[v] /\ req[v].clock # c
      PROVE  OnceOK'
  <2>1. IndexedOnce'
    BY <1>7, <1>o DEF IndexedOnce, Replaced
  <2>2. ASSUME NEW v \in Requests PROVE NotYet(req[v])'
    <3>1. ASSUME req'[v] = req[v], req[v].clock # c, req[v].pc = "append",
                 NEW k \in req[v].next..Len(req[v].batch), req[v].batch[k] \notin Foreign
          PROVE  live'[req[v].batch[k]] = 0
      <4>1. /\ SampleClock[req[v].batch[k]] = req[v].clock /\ req[v].batch[k] \in Samples
            /\ live[req[v].batch[k]] = 0
        BY <3>1, <1>o, AppendsOwnClock DEF NotYet
      <4> QED BY <4>1, <3>1, <1>7 DEF Replaced
    <3> QED BY <3>1, <1>7 DEF NotYet
  <2> QED BY <2>1, <2>2 DEF OnceOK, NotYet
<1>8. ASSUME NEW w \in Requests, ReplaceIndex(w) PROVE OnceOK'
  <2>1. req[w].pc = "replace" /\ req[w].clock \in Clocks
        /\ live' = Replaced(req[w].clock, req[w].list)
    BY <1>8, <1>t DEF ReplaceIndex, ShapeOK
  <2>2. req'[w].pc = "idle" /\ \A v \in Requests \ {w} : req'[v] = req[v]
    BY <1>8, <1>t DEF ReplaceIndex, Return, Idle
  <2>3. ASSUME NEW v \in Requests \ {w}, req[v].pc = "append" PROVE req[v].clock # req[w].clock
    BY <2>1, <2>3, SameClock DEF Locked
  <2> QED BY <2>1, <2>2, <2>3, <1>7
<1>9. ASSUME NEW c \in Clocks, RecoverClock(c) PROVE OnceOK'
  <2>1. \A v \in Requests : req'[v] = req[v] /\ req[v].pc = "idle"
    BY <1>9 DEF RecoverClock, BootOK
  <2> QED BY <2>1, <1>7, <1>9 DEF RecoverClock
<1>10. CASE Crash
  BY <1>10 DEF Crash, OnceOK, IndexedOnce, NotYet, Idle
<1> QED BY <1>1, <1>3, <1>4, <1>5, <1>6, <1>8, <1>9, <1>10, StepKinds

\* No sample is counted twice by the next analysis: of the samples that only
\* travel under their own clock's mutex, at most one of a running load and the
\* running ingests brings each into the index.
THEOREM IndexOnce == Spec => []IndexedOnce
<1>1. OnceOK => IndexedOnce
  BY DEF OnceOK
<1> QED BY TypeInit, TxInit, StoredInit, BootInit, OnceInit,
           TypeNext, TxNext, StoredNext, BootNext, OnceNext, <1>1, PTL DEF Spec

-----------------------------------------------------------------------------
(* What the index lacks *)

\* The part of CompleteOK about one sample.
Accounted(s) == \/ SampleClock[s] \in toLoad
                \/ live[s] > 0 \/ OnItsWay(s) \/ Covered(s, LiveOf(SampleClock[s]))

LEMMA FiniteInit == Init => FiniteOK
BY FS_EmptySet DEF Init, FiniteOK, NoTx

LEMMA FiniteNext == TypeInv /\ FiniteOK /\ [Next]_vars => FiniteOK'
<1> SUFFICES ASSUME TypeInv, FiniteOK, [Next]_vars PROVE FiniteOK'
  OBVIOUS
<1>f. IsFiniteSet(rows) /\ IsFiniteSet(tx.rows) /\ IsFiniteSet({})
  BY FS_EmptySet DEF FiniteOK
<1>t. tx \in [by : Requests \cup {None}, rows : SUBSET Samples]
  BY DEF TypeInv, TypeOK
<1>1. IsFiniteSet(rows')
  <2>1. ASSUME NEW w \in Requests, Stored(w) PROVE IsFiniteSet(rows')
    BY <2>1, <1>f, FS_AddElement DEF Stored
  <2>2. ASSUME NEW w \in Requests, Commit(w) PROVE IsFiniteSet(rows')
    BY <2>2, <1>f, FS_Union DEF Commit
  <2>3. rows' = rows \/ \E w \in Requests : Stored(w) \/ Commit(w)
    BY StepKinds DEF Quiet, AppendLive, ListRows, ReplaceIndex, RecoverClock, Crash
  <2> QED BY <2>1, <2>2, <2>3, <1>f
<1>2. IsFiniteSet(tx'.rows)
  <2>1. ASSUME NEW w \in Requests, InsertRow(w) PROVE IsFiniteSet(tx'.rows)
    <3>1. CASE tx' = NoTx
      BY <3>1, <1>f DEF NoTx
    <3>2. ASSUME NEW s, tx' = [tx EXCEPT !.rows = @ \cup {s}] PROVE IsFiniteSet(tx'.rows)
      <4>1. tx'.rows = tx.rows \cup {s}
        BY <3>2, <1>t
      <4> QED BY <4>1, <1>f, FS_AddElement
    <3> QED BY <3>1, <3>2, <2>1 DEF InsertRow
  <2>2. \/ tx'.rows = tx.rows \/ tx' = NoTx
        \/ \E w \in Requests : tx' = [by |-> w, rows |-> {}]
        \/ \E w \in Requests : InsertRow(w)
    BY DEF Next, Continue, IngestSample, IngestMany, AnalyzeClock, Begin, Lock, Cancel, Prepare,
           Store, BeginTx, Commit, AppendLive, LoadIndex, ListRows, ReplaceIndex, Seal,
           RecoverClock, ListenAndServe, Crash, vars
  <2> QED BY <2>1, <2>2, <1>f DEF NoTx
<1> QED BY <1>1, <1>2 DEF FiniteOK

LEMMA CompleteInit == Init => CompleteOK
BY DEF Init, CompleteOK, Listed, Idle

\* A load leaves out only what is newer than a full list.
LEMMA LoadsCover ==
  ASSUME NEW c, NEW S \in Loads(c), NEW s \in RowsOf(c)
  PROVE  s \in S \/ Covered(s, S)
BY DEF Loads, Covered

\* Growing the index or the list accounts for no less.
LEMMA CoveredGrows ==
  ASSUME NEW L, NEW M, L \subseteq M, NEW s, Covered(s, L)
  PROVE  Covered(s, M)
BY DEF Covered

LEMMA CompleteNext ==
  TypeInv /\ TxOK /\ StoredOK /\ BootOK /\ CompleteOK /\ [Next]_vars => CompleteOK'
<1> SUFFICES ASSUME TypeInv, TxOK, StoredOK, BootOK, CompleteOK, [Next]_vars PROVE CompleteOK'
  OBVIOUS
<1>t. /\ req \in [Requests -> Request] /\ live \in [Samples -> Nat] /\ rows \subseteq Samples
      /\ \A w \in Requests : ShapeOK(req[w]) /\ req[w].next \in Nat
  BY RequestFields DEF TypeInv, TypeOK
<1>c. /\ \A s \in rows \ Foreign : Accounted(s)
      /\ \A v \in Requests : Listed(req[v])
  BY DEF CompleteOK, Accounted
<1>d. (\A s \in rows' \ Foreign : Accounted(s)') /\ (\A v \in Requests : Listed(req[v])') => CompleteOK'
  BY DEF CompleteOK, Accounted
<1>e. \A v \in Requests : /\ req'[v] \in Request /\ req'[v].next \in Nat
  BY TypeNext, RequestFields DEF TypeInv, TypeOK
\* What stays accounted for when no request stops appending it
<1>g. ASSUME NEW s \in Samples, Accounted(s), toLoad' = toLoad,
             \A t \in Samples : live[t] > 0 => live'[t] > 0,
             OnItsWay(s) => OnItsWay(s)' \/ live'[s] > 0
      PROVE  Accounted(s)'
  <2>1. LiveOf(SampleClock[s]) \subseteq LiveOf(SampleClock[s])'
    BY <1>g DEF LiveOf
  <2>2. Covered(s, LiveOf(SampleClock[s])) => Covered(s, LiveOf(SampleClock[s])')
    BY <2>1, CoveredGrows
  <2>3. Covered(s, LiveOf(SampleClock[s])') => Covered(s, LiveOf(SampleClock[s]))'
    BY DEF Covered
  <2> QED BY <2>2, <2>3, <1>g DEF Accounted
<1>1. CASE Quiet
  <2>1. \A s \in rows : OnItsWay(s) => OnItsWay(s)'
    BY <1>1 DEF Quiet, OnItsWay
  <2>2. \A s \in rows' \ Foreign : Accounted(s)'
    BY <1>1, <2>1, <1>c, <1>g, <1>t DEF Quiet
  <2>3. \A v \in Requests : Listed(req[v])'
    BY <1>1, <1>c DEF Quiet, Listed, RowsOf, Covered
  <2> QED BY <2>2, <2>3, <1>d
\* A request stores its input and goes on to append it
<1>2. ASSUME NEW w \in Requests, live' = live, toLoad' = toLoad, Others(w),
             req[w].pc \in Locked \ {"append", "replace"}, req'[w].pc = "append",
             req'[w].next = 1, req'[w].batch = req[w].batch, req[w].batch \in Inputs,
             rows' = rows \cup Contents(req[w].batch),
             req[w].clock = SampleClock[req[w].batch[1]]
      PROVE  CompleteOK'
  <2>1. \A s \in rows : OnItsWay(s) => OnItsWay(s)'
    BY <1>2 DEF OnItsWay, Others
  <2>2. \A s \in Contents(req[w].batch) : OnItsWay(s)'
    BY <1>2 DEF OnItsWay, Contents
  <2>3. ASSUME NEW s \in rows' \ Foreign PROVE Accounted(s)'
    <3>1. CASE s \in rows
      BY <3>1, <2>1, <2>3, <1>2, <1>c, <1>g, <1>t
    <3>2. CASE s \in Contents(req[w].batch)
      BY <3>2, <2>2 DEF Accounted
    <3> QED BY <3>1, <3>2, <2>3, <1>2
  <2>4. ASSUME NEW v \in Requests PROVE Listed(req[v])'
    <3>1. CASE v = w
      BY <3>1, <1>2 DEF Listed
    <3>2. ASSUME v # w, req[v].pc = "replace", NEW s \in RowsOf(req[v].clock)' \ Foreign
          PROVE  s \in RowsOf(req[v].clock)
      <4>1. CASE s \in rows
        BY <4>1, <3>2, <1>2 DEF RowsOf, Others
      <4>2. ASSUME NEW k \in 1..Len(req[w].batch), s = req[w].batch[k] PROVE FALSE
        <5>1. SampleClock[s] = req[w].clock
          BY <4>2, <3>2, <1>2, OwnClock
        <5>2. SampleClock[s] = req[v].clock
          BY <3>2, <1>2 DEF RowsOf, Others
        <5> QED BY <5>1, <5>2, <3>2, <1>2, SameClock DEF Locked
      <4> QED BY <4>1, <4>2, <3>2, <1>2 DEF RowsOf, Contents
    <3>3. CASE v # w
      <4>1. req'[v] = req[v]
        BY <3>3, <1>2 DEF Others
      <4>2. RowsOf(req[v].clock)' = {s \in rows' : SampleClock[s] = req[v].clock}
        BY <4>1 DEF RowsOf
      <4> QED BY <4>1, <4>2, <3>2, <3>3, <1>c DEF Listed, Covered, RowsOf
    <3> QED BY <3>1, <3>3
  <2> QED BY <2>3, <2>4, <1>d
<1>3. ASSUME NEW w \in Requests, Stored(w) PROVE CompleteOK'
  <2>1. req' = [req EXCEPT ![w].pc = "append"] /\ live' = live /\ toLoad' = toLoad
        /\ req[w].pc = "store" /\ req[w].next = 1
    BY <1>3, <1>t DEF Stored, ShapeOK
  <2>2. req'[w] = [req[w] EXCEPT !.pc = "append"]
    BY <2>1, <1>t
  <2>3. req'[w].next = 1 /\ req'[w].batch = req[w].batch /\ req'[w].pc = "append"
    BY <2>2, <2>1, <1>t DEF Request
  <2>4. Others(w) /\ req[w].pc \in Locked \ {"append", "replace"}
    BY TypeNext, <2>1, <1>t DEF Others, TypeInv, TypeOK, Locked
  <2> QED BY <2>1, <2>3, <2>4, <1>3, <1>2, StoredAdds
<1>4. ASSUME NEW w \in Requests, Commit(w) PROVE CompleteOK'
  <2>1. req' = [req EXCEPT ![w].pc = "append", ![w].next = 1] /\ live' = live /\ toLoad' = toLoad
        /\ req[w].pc = "insert"
    BY <1>4 DEF Commit
  <2>2. req'[w] = [req[w] EXCEPT !.pc = "append", !.next = 1]
    BY <2>1, <1>t
  <2>3. req'[w].next = 1 /\ req'[w].batch = req[w].batch /\ req'[w].pc = "append"
    BY <2>2, <1>t DEF Request
  <2>4. Others(w) /\ req[w].pc \in Locked \ {"append", "replace"}
    BY TypeNext, <2>1, <1>t DEF Others, TypeInv, TypeOK, Locked
  <2> QED BY <2>1, <2>3, <2>4, <1>4, <1>2, CommitAdds
<1>5. ASSUME NEW w \in Requests, AppendLive(w) PROVE CompleteOK'
  <2> DEFINE b == req[w].batch
             n == req[w].next
             s == b[n]
  <2>1. /\ req[w].pc = "append" /\ live' = [live EXCEPT ![s] = @ + 1]
        /\ n \in 1..Len(b) /\ Len(b) \in Nat /\ s \in Samples
        /\ toLoad' = toLoad /\ rows' = rows
    BY <1>5, <1>t, InputTypes DEF AppendLive, ShapeOK
  <2>2. live'[s] > 0 /\ \A t \in Samples : live[t] > 0 => live'[t] > 0
    BY <2>1, <1>t
  <2>3. /\ \A v \in Requests \ {w} : req'[v] = req[v]
        /\ \/ n >= Len(b) /\ req'[w].pc = "idle"
           \/ req'[w].pc = "append" /\ req'[w].batch = b /\ req'[w].next = n + 1
    <3>1. CASE n >= Len(b) /\ Return(w)
      BY <3>1, <1>t DEF Return, Idle
    <3>2. CASE req' = [req EXCEPT ![w].next = @ + 1]
      BY <3>2, <2>1, <1>t DEF Request
    <3> QED BY <3>1, <3>2, <1>5, <2>1 DEF AppendLive
  <2>4. ASSUME NEW t \in Samples, OnItsWay(t) PROVE OnItsWay(t)' \/ live'[t] > 0
    <3>1. PICK v \in Requests : /\ req[v].pc = "append"
                                /\ \E k \in req[v].next..Len(req[v].batch) : req[v].batch[k] = t
      BY <2>4 DEF OnItsWay
    <3>2. CASE v # w
      BY <3>1, <3>2, <2>3 DEF OnItsWay
    <3>3. CASE v = w
      <4>1. PICK k \in n..Len(b) : b[k] = t
        BY <3>1, <3>3
      <4>2. CASE k = n
        BY <4>1, <4>2, <2>2
      <4>3. CASE k # n
        <5>1. k \in (n + 1)..Len(b) /\ n < Len(b)
          BY <4>3, <2>1
        <5>2. req'[w].pc = "append" /\ req'[w].batch = b /\ req'[w].next = n + 1
          BY <5>1, <2>1, <2>3
        <5> QED BY <5>1, <5>2, <4>1 DEF OnItsWay
      <4> QED BY <4>2, <4>3
    <3> QED BY <3>2, <3>3
  <2>5. \A t \in rows' \ Foreign : Accounted(t)'
    BY <2>1, <2>2, <2>4, <1>c, <1>g, <1>t
  <2>6. ASSUME NEW v \in Requests PROVE Listed(req[v])'
    BY <2>1, <2>3, <1>c DEF Listed, RowsOf, Covered
  <2> QED BY <2>5, <2>6, <1>d
<1>6. ASSUME NEW w \in Requests, ListRows(w) PROVE CompleteOK'
  <2>1. PICK S \in Loads(req[w].clock) : req' = [req EXCEPT ![w].pc = "replace", ![w].list = S]
    BY <1>6 DEF ListRows
  <2>2. /\ req'[w].pc = "replace" /\ req'[w].list = S /\ req'[w].clock = req[w].clock
        /\ \A v \in Requests \ {w} : req'[v] = req[v]
    BY <2>1, <1>t DEF Request
  <2>3. rows' = rows /\ live' = live /\ toLoad' = toLoad /\ req[w].pc = "list"
    BY <1>6 DEF ListRows
  <2>4. \A s \in rows : OnItsWay(s) => OnItsWay(s)'
    BY <2>2, <2>3 DEF OnItsWay
  <2>5. \A s \in rows' \ Foreign : Accounted(s)'
    BY <2>3, <2>4, <1>c, <1>g, <1>t
  <2>6. ASSUME NEW v \in Requests PROVE Listed(req[v])'
    <3>1. CASE v = w
      <4>1. \A s \in RowsOf(req[w].clock) : s \in S \/ Covered(s, S)
        BY LoadsCover
      <4> QED BY <3>1, <4>1, <2>2, <2>3 DEF Listed, RowsOf, Covered
    <3>2. CASE v # w
      BY <3>2, <2>2, <2>3, <1>c DEF Listed, RowsOf, Covered
    <3> QED BY <3>1, <3>2
  <2> QED BY <2>5, <2>6, <1>d
\* The index of one clock becomes S
<1>7. ASSUME NEW c \in Clocks, NEW S \in SUBSET RowsOf(c), live' = Replaced(c, S), rows' = rows,
             toLoad' \in {toLoad, toLoad \ {c}},
             \A s \in RowsOf(c) \ Foreign : s \in S \/ Covered(s, S),
             NEW s \in rows' \ Foreign, OnItsWay(s) => OnItsWay(s)'
      PROVE  Accounted(s)'
  <2>1. s \in Samples /\ Accounted(s)
    BY <1>7, <1>c, <1>t
  <2>2. CASE SampleClock[s] = c
    <3>1. S \subseteq {t \in Samples : SampleClock[t] = c /\ live'[t] > 0}
      BY <1>7, <1>t DEF Replaced, RowsOf
    <3>2. s \in S \/ Covered(s, {t \in Samples : SampleClock[t] = c /\ live'[t] > 0})
      BY <3>1, <2>2, <1>7, CoveredGrows DEF RowsOf
    <3> QED BY <3>1, <3>2, <2>2, <2>1 DEF Accounted, LiveOf, Covered
  <2>3. CASE SampleClock[s] # c
    <3>1. live'[s] = live[s] /\ (SampleClock[s] \in toLoad => SampleClock[s] \in toLoad')
      BY <2>1, <2>3, <1>7 DEF Replaced
    <3>2. {t \in Samples : SampleClock[t] = SampleClock[s] /\ live'[t] > 0} = LiveOf(SampleClock[s])
      BY <2>3, <1>7 DEF LiveOf, Replaced
    <3>3. Covered(s, LiveOf(SampleClock[s])) => Covered(s, LiveOf(SampleClock[s]))'
      BY <3>2 DEF Covered, LiveOf
    <3> QED BY <3>1, <3>3, <2>1, <1>7 DEF Accounted
  <2> QED BY <2>2, <2>3
<1>8. ASSUME NEW w \in Requests, ReplaceIndex(w) PROVE CompleteOK'
  <2>1. /\ req[w].pc = "replace" /\ req[w].clock \in Clocks
        /\ live' = Replaced(req[w].clock, req[w].list) /\ rows' = rows /\ toLoad' = toLoad
        /\ req[w].list \in SUBSET RowsOf(req[w].clock)
    BY <1>8, <1>t DEF ReplaceIndex, ShapeOK, StoredOK, ReplaceOK
  <2>2. req'[w].pc = "idle" /\ \A v \in Requests \ {w} : req'[v] = req[v]
    BY <1>8, <1>t DEF ReplaceIndex, Return, Idle
  <2>3. \A s \in rows' : OnItsWay(s) => OnItsWay(s)'
    BY <2>1, <2>2 DEF OnItsWay
  <2>4. \A s \in RowsOf(req[w].clock) \ Foreign : s \in req[w].list \/ Covered(s, req[w].list)
    BY <2>1, <1>c DEF Listed
  <2>5. \A s \in rows' \ Foreign : Accounted(s)'
    BY <2>1, <2>3, <2>4, <1>7
  <2>6. ASSUME NEW v \in Requests PROVE Listed(req[v])'
    BY <2>1, <2>2, <1>c DEF Listed, RowsOf, Covered
  <2> QED BY <2>5, <2>6, <1>d
<1>9. ASSUME NEW c \in Clocks, RecoverClock(c) PROVE CompleteOK'
  <2>1. \A v \in Requests : req'[v] = req[v] /\ req[v].pc = "idle"
    BY <1>9 DEF RecoverClock, BootOK
  <2>2. PICK S \in Loads(c) : live' = Replaced(c, S)
    BY <1>9 DEF RecoverClock
  <2>3. /\ S \in SUBSET RowsOf(c) /\ rows' = rows /\ toLoad' = toLoad \ {c}
        /\ \A s \in RowsOf(c) : s \in S \/ Covered(s, S)
    BY <1>9, LoadsCover DEF RecoverClock, Loads
  <2>4. \A s \in rows' : OnItsWay(s) => OnItsWay(s)'
    BY <2>1 DEF OnItsWay
  <2>5. \A s \in rows' \ Foreign : Accounted(s)'
    BY <2>2, <2>3, <2>4, <1>7
  <2>6. ASSUME NEW v \in Requests PROVE Listed(req[v])'
    BY <2>1 DEF Listed
  <2> QED BY <2>5, <2>6, <1>d
<1>10. CASE Crash
  <2>1. \A s \in rows' : SampleClock[s] \in toLoad'
    BY <1>10, <1>t, IngestAssumption DEF Crash
  <2>2. \A v \in Requests : req'[v] = Idle
    BY <1>10 DEF Crash
  <2> QED BY <2>1, <2>2, <1>d DEF Accounted, Listed, Idle
<1> QED BY <1>1, <1>3, <1>4, <1>5, <1>6, <1>8, <1>9, <1>10, StepKinds

\* While the server serves, the index of a clock lacks only samples an ingest is
\* about to append and those newer than a load that stopped at its limit
\* (ListByClock), for every number of samples, batches, crashes and restarts.
THEOREM IndexComplete == Spec => []IndexLacksOnlyNewest
<1>1. TypeInv /\ StoredOK /\ BootOK /\ CompleteOK /\ FiniteOK => IndexLacksOnlyNewest
  <2> SUFFICES ASSUME TypeInv, StoredOK, BootOK, CompleteOK, FiniteOK, serving,
                      NEW s \in rows \ Foreign, live[s] = 0, ~OnItsWay(s)
               PROVE  BeyondLimit(s)
    BY DEF IndexLacksOnlyNewest
  <2> DEFINE older == {t \in LiveOf(SampleClock[s]) : TakenAt[t] <= TakenAt[s]}
  <2>1. Covered(s, LiveOf(SampleClock[s]))
    BY DEF BootOK, CompleteOK
  <2>2. PICK S \in SUBSET LiveOf(SampleClock[s]) : /\ Cardinality(S) = Limit
                                                   /\ \A t \in S : TakenAt[t] <= TakenAt[s]
    BY <2>1 DEF Covered
  <2>3. older \subseteq rows /\ IsFiniteSet(older)
    BY FS_Subset DEF LiveOf, StoredOK, IndexHoldsOnlyStored, FiniteOK
  <2>4. S \subseteq older
    BY <2>2
  <2>5. Cardinality(S) <= Cardinality(older) /\ Cardinality(S) \in Nat /\ Cardinality(older) \in Nat
    BY <2>3, <2>4, FS_Subset, FS_CardinalityType
  <2> QED BY <2>2, <2>5 DEF BeyondLimit
<1> QED BY TypeInit, TxInit, StoredInit, BootInit, CompleteInit, FiniteInit,
           TypeNext, TxNext, StoredNext, BootNext, CompleteNext, FiniteNext, <1>1, PTL DEF Spec
=============================================================================
