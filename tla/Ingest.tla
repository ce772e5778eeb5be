------------------------------- MODULE Ingest -------------------------------
(***************************************************************************)
(* Samples on their way into the table and into the live index: single and *)
(* batch uploads, the loading of the index by an analysis and by Recover.  *)
(* (internal/service, sampling, store.SampleStore)                         *)
(*                                                                         *)
(* All statements share one connection; a transaction keeps it until it    *)
(* ends.  IngestMany holds the mutex of its first input's clock only.  Of  *)
(* an analysis only the load is here: the rest writes neither the samples  *)
(* nor the index.  Values are left to Pipeline, and of the clock's status  *)
(* only whether it is sealed is kept.                                      *)
(***************************************************************************)
EXTENDS Naturals, Sequences, FiniteSets

CONSTANTS Clocks, Requests,
          Samples, SampleClock,  \* uploads (clock_id, seq) and their clock
          TakenAt,               \* samples.taken_at
          Batches,               \* argument lists of IngestMany
          AskedRows,             \* rows Recover and the analysis ask for, 10000
          MaxRows, DefaultRows,  \* 5000 and 1000 in ListByClock
          None

ASSUME IngestAssumption ==
  /\ SampleClock \in [Samples -> Clocks] /\ TakenAt \in [Samples -> Nat]
  /\ Batches \subseteq Seq(Samples) \ {<<>>}
  /\ AskedRows \in Nat /\ MaxRows \in Nat /\ DefaultRows \in Nat \ {0}
  /\ None \notin Clocks \cup Requests

VARIABLES sealed,   \* clocks whose status is sealed
          rows,     \* committed rows of samples
          tx,       \* the open transaction: whose it is and its rows
          live,     \* liveIndex: how many copies of each sample it holds
          holder,   \* clockMu: who holds each clock's mutex
          serving,  \* ListenAndServe has started
          toLoad,   \* clocks Recover has still to visit
          req       \* local state of each request

vars == <<sealed, rows, tx, live, holder, serving, toLoad, req>>

NoTx == [by |-> None, rows |-> {}]
Idle == [pc |-> "idle", op |-> "none", clock |-> None, batch |-> <<>>, next |-> 1, list |-> {}]

Inputs == Batches \cup {<<s>> : s \in Samples}
Contents(batch) == {batch[k] : k \in 1..Len(batch)}
Locked == {"prepare", "store", "begin", "insert", "append", "load", "list", "replace"}

Request == [pc    : {"idle", "lock"} \cup Locked,
            op    : {"none", "one", "many", "analyze"},
            clock : Clocks \cup {None},      \* whose mutex it takes
            batch : Inputs \cup {<<>>},
            next  : Nat,                     \* input the current loop is at
            list  : SUBSET Samples]          \* what ListByClock returned

TypeOK == /\ sealed \subseteq Clocks
          /\ rows \subseteq Samples
          /\ tx \in [by : Requests \cup {None}, rows : SUBSET Samples]
          /\ live \in [Samples -> Nat]
          /\ holder \in [Clocks -> Requests \cup {None}]
          /\ serving \in BOOLEAN /\ toLoad \subseteq Clocks
          /\ req \in [Requests -> Request]
          /\ \A w \in Requests : tx.by = w <=> req[w].pc = "insert"

Init == /\ sealed = {} /\ rows = {} /\ tx = NoTx
        /\ live = [s \in Samples |-> 0]
        /\ holder = [c \in Clocks |-> None]
        /\ serving = TRUE /\ toLoad = {}
        /\ req = [w \in Requests |-> Idle]

-----------------------------------------------------------------------------
(* Helpers *)

\* SetMaxOpenConns(1): a statement outside the transaction waits for its end.
Connection == tx.by = None

Goto(w, step) == req' = [req EXCEPT ![w].pc = step]
Return(w) == /\ holder' = [holder EXCEPT ![req[w].clock] = None]
             /\ req' = [req EXCEPT ![w] = Idle]

\* ListByClock: a limit out of range becomes the default, the oldest rows come
\* first, ties in any order.
Limit == IF AskedRows = 0 \/ AskedRows > MaxRows THEN DefaultRows ELSE AskedRows
RowsOf(c) == {s \in rows : SampleClock[s] = c}
LoadsNewest(c) ==   \* mutant: ORDER BY taken_at DESC
  {S \in SUBSET RowsOf(c) :
     /\ Cardinality(S) <= Limit
     /\ S = RowsOf(c) \/ Cardinality(S) = Limit
     /\ \A s \in S, t \in RowsOf(c) \ S : TakenAt[s] >= TakenAt[t]}
Loads(c) ==
  {S \in SUBSET RowsOf(c) :
     /\ Cardinality(S) <= Limit
     /\ S = RowsOf(c) \/ Cardinality(S) = Limit
     /\ \A s \in S, t \in RowsOf(c) \ S : TakenAt[s] <= TakenAt[t]}

\* liveIndex.Snapshot and Replace
LiveOf(c) == {s \in Samples : SampleClock[s] = c /\ live[s] > 0}
Replaced(c, S) == [s \in Samples |-> IF SampleClock[s] # c THEN live[s]
                                     ELSE IF s \in S THEN 1 ELSE 0]

-----------------------------------------------------------------------------
(* A request begins; lockClock *)

Begin(w, op, batch, c) ==
  /\ serving /\ req[w].pc = "idle"
  /\ req' = [req EXCEPT ![w] = [Idle EXCEPT !.pc = "lock", !.op = op, !.batch = batch,
                                            !.clock = c]]
  /\ UNCHANGED <<sealed, rows, tx, live, holder, serving, toLoad>>

IngestSample(w, s) == Begin(w, "one", <<s>>, SampleClock[s])
IngestMany(w, batch) == Begin(w, "many", batch, SampleClock[batch[1]])
AnalyzeClock(w, c) == Begin(w, "analyze", <<>>, c)

LockShared(w) ==   \* mutant: the mutex is a read lock
  /\ req[w].pc = "lock"
  /\ holder' = [holder EXCEPT ![req[w].clock] = w]
  /\ Goto(w, IF req[w].op = "analyze" THEN "load" ELSE "prepare")
  /\ UNCHANGED <<sealed, rows, tx, live, serving, toLoad>>
Lock(w) ==
  /\ req[w].pc = "lock"
  /\ holder[req[w].clock] = None
  /\ holder' = [holder EXCEPT ![req[w].clock] = w]
  /\ Goto(w, IF req[w].op = "analyze" THEN "load" ELSE "prepare")
  /\ UNCHANGED <<sealed, rows, tx, live, serving, toLoad>>

-----------------------------------------------------------------------------
(* Service.IngestSample and IngestMany *)

\* Receiver.prepare of the next input reads that input's clock.
Prepare(w) ==
  LET s == req[w].batch[req[w].next]
  IN /\ req[w].pc = "prepare"
     /\ Connection
     /\ \/ SampleClock[s] \in sealed /\ Return(w)
        \/ /\ SampleClock[s] \notin sealed
           /\ req' = IF req[w].next < Len(req[w].batch)
                     THEN [req EXCEPT ![w].next = @ + 1]
                     ELSE [req EXCEPT ![w].next = 1,
                                      ![w].pc = IF req[w].op = "one" THEN "store" ELSE "begin"]
           /\ UNCHANGED holder
     /\ UNCHANGED <<sealed, rows, tx, live, serving, toLoad>>

\* SampleStore.Insert
Store(w) ==
  LET s == req[w].batch[1]
  IN /\ req[w].pc = "store"
     /\ Connection
     /\ \/ s \in rows /\ Return(w) /\ UNCHANGED rows
        \/ s \notin rows /\ rows' = rows \cup {s} /\ Goto(w, "append") /\ UNCHANGED holder
     /\ UNCHANGED <<sealed, tx, live, serving, toLoad>>

\* SampleStore.InsertBatch: Begin,
BeginTx(w) == /\ req[w].pc = "begin"
              /\ Connection
              /\ tx' = [by |-> w, rows |-> {}]
              /\ Goto(w, "insert")
              /\ UNCHANGED <<sealed, rows, live, holder, serving, toLoad>>

\* one INSERT per sample: a duplicate rolls the transaction back,
InsertRowIgnoring(w) ==   \* mutant: INSERT OR IGNORE
  /\ req[w].pc = "insert"
  /\ req[w].next <= Len(req[w].batch)
  /\ tx' = [tx EXCEPT !.rows = @ \cup {req[w].batch[req[w].next]}]
  /\ req' = [req EXCEPT ![w].next = @ + 1]
  /\ UNCHANGED <<sealed, rows, live, holder, serving, toLoad>>
InsertRowIndexing(w) ==   \* mutant: each row goes into the index as it is inserted
  LET s == req[w].batch[req[w].next]
  IN /\ req[w].pc = "insert"
     /\ req[w].next <= Len(req[w].batch)
     /\ \/ s \in rows \cup tx.rows /\ tx' = NoTx /\ Return(w) /\ UNCHANGED live
        \/ /\ s \notin rows \cup tx.rows
           /\ tx' = [tx EXCEPT !.rows = @ \cup {s}]
           /\ live' = [live EXCEPT ![s] = @ + 1]
           /\ req' = [req EXCEPT ![w].next = @ + 1]
           /\ UNCHANGED holder
     /\ UNCHANGED <<sealed, rows, serving, toLoad>>
InsertRowLeaking(w) ==   \* mutant: no deferred Rollback, the connection is never returned
  LET s == req[w].batch[req[w].next]
  IN /\ req[w].pc = "insert"
     /\ req[w].next <= Len(req[w].batch)
     /\ \/ s \in rows \cup tx.rows /\ Return(w) /\ UNCHANGED tx
        \/ /\ s \notin rows \cup tx.rows
           /\ tx' = [tx EXCEPT !.rows = @ \cup {s}]
           /\ req' = [req EXCEPT ![w].next = @ + 1]
           /\ UNCHANGED holder
     /\ UNCHANGED <<sealed, rows, live, serving, toLoad>>
InsertRow(w) ==
  LET s == req[w].batch[req[w].next]
  IN /\ req[w].pc = "insert"
     /\ req[w].next <= Len(req[w].batch)
     /\ \/ s \in rows \cup tx.rows /\ tx' = NoTx /\ Return(w)
        \/ /\ s \notin rows \cup tx.rows
           /\ tx' = [tx EXCEPT !.rows = @ \cup {s}]
           /\ req' = [req EXCEPT ![w].next = @ + 1]
           /\ UNCHANGED holder
     /\ UNCHANGED <<sealed, rows, live, serving, toLoad>>

\* and Commit.
Commit(w) == /\ req[w].pc = "insert"
             /\ req[w].next > Len(req[w].batch)
             /\ rows' = rows \cup tx.rows
             /\ tx' = NoTx
             /\ req' = [req EXCEPT ![w].pc = "append", ![w].next = 1]
             /\ UNCHANGED <<sealed, live, holder, serving, toLoad>>

\* liveIndex.Append of each stored sample, whatever its clock.
AppendLive(w) ==
  /\ req[w].pc = "append"
  /\ live' = [live EXCEPT ![req[w].batch[req[w].next]] = @ + 1]
  /\ IF req[w].next < Len(req[w].batch)
     THEN req' = [req EXCEPT ![w].next = @ + 1] /\ UNCHANGED holder
     ELSE Return(w)
  /\ UNCHANGED <<sealed, rows, tx, serving, toLoad>>

-----------------------------------------------------------------------------
(* AnalyzeClockCtx up to its copy of the samples *)

\* A sealed clock is refused; an index that holds something is used as it is.
LoadIndex(w) ==
  /\ req[w].pc = "load"
  /\ Connection
  /\ IF req[w].clock \in sealed \/ LiveOf(req[w].clock) # {}
     THEN Return(w)
     ELSE Goto(w, "list") /\ UNCHANGED holder
  /\ UNCHANGED <<sealed, rows, tx, live, serving, toLoad>>

ListRows(w) == /\ req[w].pc = "list"
               /\ Connection
               /\ \E S \in Loads(req[w].clock) :
                    req' = [req EXCEPT ![w].pc = "replace", ![w].list = S]
               /\ UNCHANGED <<sealed, rows, tx, live, holder, serving, toLoad>>

ReplaceIndex(w) == /\ req[w].pc = "replace"
                   /\ live' = Replaced(req[w].clock, req[w].list)
                   /\ Return(w)
                   /\ UNCHANGED <<sealed, rows, tx, serving, toLoad>>

-----------------------------------------------------------------------------
(* Cancellation, sealing, crash *)

\* The context is cancelled, or the next statement fails: the deferred Rollback
\* and Unlock run.  After the commit nothing is looked at any more.
CancelKeepsTx(w) ==   \* mutant: the Rollback is forgotten
  /\ req[w].pc \in Locked \ {"append", "replace"}
  /\ Return(w)
  /\ UNCHANGED <<sealed, rows, tx, live, serving, toLoad>>
Cancel(w) == /\ req[w].pc \in Locked \ {"append", "replace"}
             /\ tx' = IF tx.by = w THEN NoTx ELSE tx
             /\ Return(w)
             /\ UNCHANGED <<sealed, rows, live, serving, toLoad>>

\* SetStatus and PublishAndSeal take no mutex.
Seal(c) == /\ serving /\ Connection
           /\ sealed' = sealed \cup {c}
           /\ UNCHANGED <<rows, tx, live, holder, serving, toLoad, req>>

Crash == /\ tx' = NoTx
         /\ live' = [s \in Samples |-> 0]
         /\ holder' = [c \in Clocks |-> None]
         /\ serving' = FALSE /\ toLoad' = Clocks
         /\ req' = [w \in Requests |-> Idle]
         /\ UNCHANGED <<sealed, rows>>

RecoverClock(c) == /\ c \in toLoad
                   /\ \E S \in Loads(c) : live' = Replaced(c, S)
                   /\ toLoad' = toLoad \ {c}
                   /\ UNCHANGED <<sealed, rows, tx, holder, serving, req>>
ListenAndServe == /\ ~serving /\ toLoad = {}
                  /\ serving' = TRUE
                  /\ UNCHANGED <<sealed, rows, tx, live, holder, toLoad, req>>

-----------------------------------------------------------------------------

\* What a request does once it holds the mutex.
Continue(w) == \/ Prepare(w) \/ Store(w)
               \/ BeginTx(w) \/ InsertRow(w) \/ Commit(w)
               \/ AppendLive(w)
               \/ LoadIndex(w) \/ ListRows(w) \/ ReplaceIndex(w)

Next == \/ \E w \in Requests :
             \/ \E s \in Samples : IngestSample(w, s)
             \/ \E batch \in Batches : IngestMany(w, batch)
             \/ \E c \in Clocks : AnalyzeClock(w, c)
             \/ Lock(w) \/ Continue(w) \/ Cancel(w)
        \/ \E c \in Clocks : Seal(c) \/ RecoverClock(c)
        \/ ListenAndServe
        \/ Crash

Spec == Init /\ [][Next]_vars

\* Goroutines run; sync.Mutex and the queue of database/sql for the connection
\* serve their waiters in turn.
Fairness == \A w \in Requests : SF_vars(Continue(w)) /\ SF_vars(Lock(w))
FairSpec == Spec /\ Fairness

-----------------------------------------------------------------------------
(* Properties *)

\* service.go:76: no half batch.  The table grows by all inputs of one request
\* at once, none of which was there before or is named twice; cancelled, failed
\* and refused batches leave nothing.
Distinct(batch) == \A i, k \in 1..Len(batch) : batch[i] = batch[k] => i = k
BatchAtomic ==
  [][rows' # rows =>
       \E w \in Requests : /\ rows' = rows \cup Contents(req[w].batch)
                           /\ Contents(req[w].batch) \cap rows = {}
                           /\ Distinct(req[w].batch)]_vars

\* The live index never holds a sample that is not stored, whatever batch is
\* rolled back.
IndexHoldsOnlyStored == \A s \in Samples : live[s] > 0 => s \in rows

\* Samples some batch sends under the mutex of another clock.
Foreign == {s \in Samples : \E batch \in Batches : /\ s \in Contents(batch)
                                                  /\ SampleClock[batch[1]] # SampleClock[s]}

\* An analysis that fills the index and an ingest that appends to it never
\* count a sample twice, unless a batch appends under another clock's mutex
\* (service.go:84).
IndexedOnce == \A s \in Samples \ Foreign : live[s] <= 1

\* While the server serves, a stored sample is missing from the index only on
\* its way there, or because a load stopped at its limit with older ones
\* (sample_store.go:67); again bar batches under another clock's mutex.
OnItsWay(s) == \E w \in Requests : /\ req[w].pc = "append"
                                   /\ \E k \in req[w].next..Len(req[w].batch) :
                                        req[w].batch[k] = s
BeyondLimit(s) == LET older == {t \in LiveOf(SampleClock[s]) : TakenAt[t] <= TakenAt[s]}
                  IN Cardinality(older) >= Limit
IndexLacksOnlyNewest ==
  serving => \A s \in rows \ Foreign : live[s] = 0 => OnItsWay(s) \/ BeyondLimit(s)

\* sampling.go:91: uploads can go on using the connection.  Every request ends,
\* although all share one connection and batches keep it for several statements.
RequestsEnd == \A w \in Requests : req[w].pc # "idle" ~> req[w].pc = "idle"
=============================================================================
