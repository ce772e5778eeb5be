------------------------- MODULE PublicationProofs -------------------------
(***************************************************************************)
(* Proofs about Publication for every set of clocks, links, jumps,         *)
(* snapshots and concurrent requests.                                      *)
(***************************************************************************)
EXTENDS Publication, TLAPS

-----------------------------------------------------------------------------
(* What a request in flight is entitled to believe *)

\* The clock and snapshot a request works on, by the step it has reached.
ShapeOK(q) ==
  /\ q.pc = "status.update" => q.clock \in Clocks /\ CanTransition(q.seen, q.next)
  /\ q.pc \in DraftSteps => q.clock \in Clocks
  /\ q.pc \in PublishSteps => /\ q.snap \in Snaps
                              /\ q.clock = SnapClock[q.snap]
                              /\ q.seen \in ClockStatus \/ q.pc = "publish.clock"

TypeInv == TypeOK /\ \A r \in Requests : ShapeOK(req[r])

LEMMA TransitionTypes ==
  ASSUME NEW a, NEW b, CanTransition(a, b)
  PROVE  a \in ClockStatus /\ b \in ClockStatus /\ a # "sealed"
BY DEF CanTransition, ClockTransitions, ClockStatus

\* A request that only reads keeps the types if its new record is well formed.
LEMMA ReadStepTypes ==
  ASSUME TypeInv, UNCHANGED tables,
         req' \in [Requests -> Request],
         \A r \in Requests : ShapeOK(req'[r])
  PROVE  TypeInv'
BY DEF TypeInv, TypeOK, tables, snapshots, drafts, ShapeOK

\* What the queries return.
LEMMA QueryTypes ==
  ASSUME TypeOK, NEW c
  PROVE  IsolatedLinks(c) \in SUBSET Links /\ JumpsOfClock(c) \in JumpRows
BY DEF TypeOK, IsolatedLinks, JumpsOfClock, JumpRows

LEMMA IdleOK == Idle \in Request /\ ShapeOK(Idle)
BY DEF Idle, Request, NoJumps, JumpRows, Steps, ShapeOK, DraftSteps, PublishSteps

LEMMA TypeInit == Init => TypeInv
<1> SUFFICES ASSUME Init PROVE TypeInv
  OBVIOUS
<1>1. TypeOK
  BY IdleOK DEF Init, TypeOK, ClockStatus, LinkStatus, JumpRows, NoJumps, SnapshotStatus,
                Evidence, NoEvidence
<1>2. \A r \in Requests : ShapeOK(req[r])
  BY IdleOK DEF Init
<1> QED BY <1>1, <1>2 DEF TypeInv

LEMMA TypeNext == TypeInv /\ [Next]_vars => TypeInv'
<1> SUFFICES ASSUME TypeInv, [Next]_vars PROVE TypeInv'
  OBVIOUS
<1> USE PublicationAssumption
<1>1. ASSUME NEW l \in Links, UpsertLink(l) PROVE TypeInv'
  BY <1>1 DEF UpsertLink, TypeInv, TypeOK, snapshots, drafts, LinkStatus, ShapeOK
<1>2. ASSUME NEW l \in Links, NEW to \in {"healthy", "isolated"}, LinkAction(l, to)
      PROVE TypeInv'
  BY <1>2 DEF LinkAction, TypeInv, TypeOK, snapshots, drafts, LinkStatus, ShapeOK
<1>3. ASSUME NEW j \in Jumps, InsertJump(j) PROVE TypeInv'
  BY <1>3 DEF InsertJump, TypeInv, TypeOK, snapshots, drafts, JumpRows, JumpStatus, ShapeOK
<1>4. ASSUME NEW j \in Jumps, ConfirmJump(j) PROVE TypeInv'
  BY <1>4 DEF ConfirmJump, TypeInv, TypeOK, snapshots, drafts, JumpRows, JumpStatus, ShapeOK
<1>5. ASSUME NEW r \in Requests, RequestStep(r) PROVE TypeInv'
  <2> DEFINE q == req[r]
  <2>q. q \in Request /\ ShapeOK(q) /\ TypeOK
    BY DEF TypeInv, TypeOK
  <2>0. ASSUME NEW x \in Request, ShapeOK(x), req' = [req EXCEPT ![r] = x], UNCHANGED tables
        PROVE  TypeInv'
    <3>1. req' \in [Requests -> Request] /\ \A p \in Requests : ShapeOK(req'[p])
      BY <2>0 DEF TypeInv, TypeOK
    <3> QED BY <3>1, <2>0, ReadStepTypes
  <2>1. ASSUME NEW c \in Clocks, NEW next \in Asked, StatusGet(r, c, next) PROVE TypeInv'
    <3> DEFINE x == [Idle EXCEPT !.pc = "status.update", !.clock = c,
                                 !.seen = clockStatus[c], !.next = next]
    <3>1. CanTransition(clockStatus[c], next)
      BY <2>1 DEF StatusGet
    <3>2. next \in ClockStatus /\ clockStatus[c] \in ClockStatus
      BY <3>1, TransitionTypes
    <3>3. x \in Request /\ ShapeOK(x)
      BY <3>1, <3>2, IdleOK DEF Request, ShapeOK, Steps, DraftSteps, PublishSteps, Idle
    <3> QED BY <3>3, <2>1, <2>0 DEF StatusGet
  <2>2. CASE StatusUpdate(r)
    <3>1. q.clock \in Clocks /\ q.next \in ClockStatus
      BY <2>2, <2>q, TransitionTypes DEF StatusUpdate, ShapeOK
    <3>2. clockStatus' \in [Clocks -> ClockStatus]
      BY <3>1, <2>2, <2>q DEF StatusUpdate, TypeOK
    <3>3. req' \in [Requests -> Request] /\ \A p \in Requests : ShapeOK(req'[p])
      BY <2>2, IdleOK DEF StatusUpdate, TypeInv, TypeOK
    <3> QED BY <3>2, <3>3, <2>2, <2>q DEF StatusUpdate, TypeInv, TypeOK, snapshots, drafts, ShapeOK
  <2>3. ASSUME NEW c \in Clocks, DraftGetClock(r, c) PROVE TypeInv'
    <3> DEFINE x == [Idle EXCEPT !.pc = "draft.links", !.clock = c]
    <3>1. x \in Request /\ ShapeOK(x)
      BY IdleOK DEF Request, ShapeOK, Steps, DraftSteps, PublishSteps, Idle
    <3> QED BY <3>1, <2>3, <2>0 DEF DraftGetClock
  <2>4. CASE DraftListLinks(r)
    <3> DEFINE x == [q EXCEPT !.pc = "draft.jumps", !.isolated = IsolatedLinks(q.clock)]
    <3>1. x \in Request /\ ShapeOK(x) /\ req' = [req EXCEPT ![r] = x]
      BY <2>4, <2>q, QueryTypes DEF DraftListLinks, Request, ShapeOK, Steps, DraftSteps,
                                    PublishSteps, TypeOK
    <3> QED BY <3>1, <2>4, <2>0 DEF DraftListLinks
  <2>5. CASE DraftListJumps(r)
    <3> DEFINE x == [q EXCEPT !.pc = "draft.insert", !.jumps = JumpsOfClock(q.clock)]
    <3>1. x \in Request /\ ShapeOK(x) /\ req' = [req EXCEPT ![r] = x]
      BY <2>5, <2>q, QueryTypes DEF DraftListJumps, Request, ShapeOK, Steps, DraftSteps,
                                    PublishSteps, TypeOK
    <3> QED BY <3>1, <2>5, <2>0 DEF DraftListJumps
  <2>6. ASSUME NEW s \in Snaps, DraftInsert(r, s) PROVE TypeInv'
    <3>1. req' \in [Requests -> Request] /\ \A p \in Requests : ShapeOK(req'[p])
      BY <2>6, IdleOK DEF DraftInsert, TypeInv, TypeOK
    <3>2. q.isolated \in SUBSET Links
      BY <2>q DEF Request
    <3>3. TypeOK'
      BY <3>1, <3>2, <2>6, <2>q DEF DraftInsert, TypeOK, SnapshotStatus
    <3> QED BY <3>1, <3>3 DEF TypeInv, ShapeOK
  <2>7. ASSUME NEW s \in Snaps, PublishGet(r, s) PROVE TypeInv'
    <3> DEFINE x == [Idle EXCEPT !.pc = "publish.clock", !.snap = s, !.clock = SnapClock[s]]
    <3>1. x \in Request /\ ShapeOK(x)
      BY IdleOK DEF Request, ShapeOK, Steps, DraftSteps, PublishSteps, Idle
    <3> QED BY <3>1, <2>7, <2>0 DEF PublishGet
  <2>8. CASE FreezeClock(r)
    <3> DEFINE x == [q EXCEPT !.pc = "publish.links", !.seen = clockStatus[q.clock]]
    <3>1. q.snap \in Snaps /\ q.clock \in Clocks /\ clockStatus[q.clock] \in ClockStatus
      BY <2>8, <2>q DEF FreezeClock, ShapeOK, PublishSteps, TypeOK
    <3>2. x \in Request /\ ShapeOK(x) /\ req' = [req EXCEPT ![r] = x]
      BY <2>8, <2>q, <3>1 DEF FreezeClock, Request, ShapeOK, Steps, DraftSteps,
                              PublishSteps, TypeOK
    <3> QED BY <3>2, <2>8, <2>0 DEF FreezeClock
  <2>9. CASE FreezeLinks(r)
    <3> DEFINE x == [q EXCEPT !.pc = "publish.jumps", !.isolated = IsolatedLinks(q.clock)]
    <3>1. x \in Request /\ ShapeOK(x) /\ req' = [req EXCEPT ![r] = x]
      BY <2>9, <2>q, QueryTypes DEF FreezeLinks, Request, ShapeOK, Steps, DraftSteps,
                                    PublishSteps, TypeOK
    <3> QED BY <3>1, <2>9, <2>0 DEF FreezeLinks
  <2>10. CASE FreezeJumps(r)
    <3> DEFINE x == [q EXCEPT !.pc = "publish.check", !.jumps = JumpsOfClock(q.clock)]
    <3>1. x \in Request /\ ShapeOK(x) /\ req' = [req EXCEPT ![r] = x]
      BY <2>10, <2>q, QueryTypes DEF FreezeJumps, Request, ShapeOK, Steps, DraftSteps,
                                     PublishSteps, TypeOK
    <3> QED BY <3>1, <2>10, <2>0 DEF FreezeJumps
  <2>11. CASE PublishCheck(r)
    <3> DEFINE x == [q EXCEPT !.pc = "publish.tx"]
    <3>1. x \in Request /\ ShapeOK(x)
      BY <2>11, <2>q DEF PublishCheck, Request, ShapeOK, Steps, DraftSteps, PublishSteps
    <3>2. req' = [req EXCEPT ![r] = x] \/ req' = [req EXCEPT ![r] = Idle]
      BY <2>11, <2>q DEF PublishCheck, TypeOK
    <3> QED BY <3>1, <3>2, <2>11, <2>0, IdleOK DEF PublishCheck
  <2>12. CASE PublishTx(r)
    <3>1. req' \in [Requests -> Request] /\ \A p \in Requests : ShapeOK(req'[p])
      BY <2>12, IdleOK DEF PublishTx, TypeInv, TypeOK
    <3>2. q.snap \in Snaps /\ q.clock \in Clocks /\ q.seen \in ClockStatus
          /\ q.isolated \in SUBSET Links /\ q.jumps \in JumpRows
      BY <2>12, <2>q DEF PublishTx, ShapeOK, PublishSteps, Request
    <3>3. clockStatus' \in [Clocks -> ClockStatus]
      BY <3>2, <2>12, <2>q DEF PublishTx, SealInTx, TypeOK, ClockStatus
    <3>4. snapStatus' \in [Snaps -> SnapshotStatus \cup {"absent"}]
      BY <3>2, <2>12, <2>q DEF PublishTx, PublishRows, TypeOK, SnapshotStatus
    <3>5. evidence' \in [Snaps -> Evidence]
      BY <3>2, <2>12, <2>q DEF PublishTx, Evidence, TypeOK
    <3>6. TypeOK'
      BY <3>1, <3>3, <3>4, <3>5, <2>12, <2>q DEF PublishTx, TypeOK, drafts
    <3> QED BY <3>1, <3>6 DEF TypeInv, ShapeOK
  <2>13. CASE Abort(r)
    BY <2>13, <2>0, IdleOK DEF Abort
  <2> QED
    BY <1>5, <2>1, <2>2, <2>3, <2>4, <2>5, <2>6, <2>7, <2>8, <2>9, <2>10, <2>11, <2>12, <2>13
    DEF RequestStep
<1>6. CASE Crash
  <2>1. req' \in [Requests -> Request] /\ \A p \in Requests : ShapeOK(req'[p])
    BY <1>6, IdleOK DEF Crash
  <2> QED BY <2>1, <1>6, ReadStepTypes DEF Crash
<1>7. CASE UNCHANGED vars
  BY <1>7 DEF vars, drafts, TypeInv, TypeOK, ShapeOK
<1> QED BY <1>1, <1>2, <1>3, <1>4, <1>5, <1>6, <1>7 DEF Next, Environment

\* Every reachable state is well typed; in particular a status a client made
\* up never reaches the clocks table (ClockStore.SetStatus).
THEOREM TypeCorrect == Spec => []TypeOK
<1>1. TypeInv => TypeOK
  BY DEF TypeInv
<1> QED BY <1>1, TypeInit, TypeNext, PTL DEF Spec

-----------------------------------------------------------------------------
(* Evidence and publication *)

\* What a request has read is still true of the tables, up to confirmation; and
\* once it has read the jumps it will freeze, they cover its draft.
ReadsOK(q) ==
  /\ LinksGrounded(q.isolated, q.clock)
  /\ JumpsGrounded(q.jumps, q.clock)
  /\ q.pc \in PublishSteps => snapStatus[q.snap] # "absent"
  /\ q.pc \in {"publish.check", "publish.tx"}
       => \A j \in draftJumps[q.snap] : q.jumps[j] # "absent"

\* A draft names existing jumps of its clock.
DraftsGrounded ==
  \A s \in Snaps : \A j \in draftJumps[s] : JumpClock[j] = SnapClock[s] /\ jumpStatus[j] # "absent"

Publishing == AtMostOnePublished /\ PublishedIsSealed
EvidenceInv == EvidenceCoversDraft /\ EvidenceGrounded /\ DraftsGrounded

IInv == TypeInv /\ Publishing /\ EvidenceInv /\ \A r \in Requests : ReadsOK(req[r])

LEMMA IdleReads == ReadsOK(Idle)
BY DEF ReadsOK, Idle, LinksGrounded, JumpsGrounded, NoJumps, PublishSteps

\* The queries return grounded data.
LEMMA QueriesGrounded ==
  ASSUME TypeOK, NEW c
  PROVE  LinksGrounded(IsolatedLinks(c), c) /\ JumpsGrounded(JumpsOfClock(c), c)
BY DEF TypeOK, IsolatedLinks, JumpsOfClock, LinksGrounded, JumpsGrounded

LEMMA IInvInit == Init => IInv
<1> SUFFICES ASSUME Init PROVE IInv
  OBVIOUS
<1>1. Publishing
  BY DEF Init, Publishing, AtMostOnePublished, PublishedIsSealed
<1>2. EvidenceInv
  BY DEF Init, EvidenceInv, EvidenceCoversDraft, EvidenceGrounded, DraftsGrounded,
         NoEvidence, NoJumps, LinksGrounded, JumpsGrounded
<1>3. \A r \in Requests : ReadsOK(req[r])
  BY IdleReads DEF Init
<1> QED BY <1>1, <1>2, <1>3, TypeInit DEF IInv

\* A step that leaves the tables alone can only break what requests believe.
LEMMA ReadStepIInv ==
  ASSUME IInv, TypeInv', UNCHANGED tables,
         NEW r \in Requests, NEW x, ReadsOK(x), req' = [req EXCEPT ![r] = x]
  PROVE  IInv'
<1> USE DEF tables, snapshots, drafts
<1>1. Publishing'
  BY DEF IInv, Publishing, AtMostOnePublished, PublishedIsSealed
<1>2. EvidenceInv'
  BY DEF IInv, EvidenceInv, EvidenceCoversDraft, EvidenceGrounded, DraftsGrounded,
         LinksGrounded, JumpsGrounded
<1>3. \A p \in Requests : ReadsOK(req'[p])
  BY DEF IInv, TypeInv, TypeOK
<1>4. \A p \in Requests : ReadsOK(req[p])'
  BY <1>3 DEF ReadsOK, LinksGrounded, JumpsGrounded
<1> QED BY <1>1, <1>2, <1>4 DEF IInv

\* Links keep their row and their subject: what was read as isolated stays grounded.
LEMMA LinkStepIInv ==
  ASSUME IInv, TypeInv', UNCHANGED <<clockStatus, jumpStatus, snapshots, req>>,
         \A l \in Links : linkStatus[l] # "absent" => linkStatus'[l] # "absent"
  PROVE  IInv'
<1> USE DEF snapshots, drafts
<1>0. ASSUME NEW links \in SUBSET Links, NEW c, LinksGrounded(links, c)
      PROVE  LinksGrounded(links, c)'
  BY <1>0 DEF LinksGrounded
<1>1. Publishing'
  BY DEF IInv, Publishing, AtMostOnePublished, PublishedIsSealed
<1>2. EvidenceInv'
  <2>1. \A s \in Snaps : evidence[s].isolated \in SUBSET Links
    BY DEF IInv, TypeInv, TypeOK, Evidence
  <2> QED BY <2>1, <1>0 DEF IInv, EvidenceInv, EvidenceCoversDraft, EvidenceGrounded,
                            DraftsGrounded, LinksGrounded, JumpsGrounded
<1>3. \A p \in Requests : ReadsOK(req[p])'
  <2>1. \A p \in Requests : req[p].isolated \in SUBSET Links
    BY DEF IInv, TypeInv, TypeOK, Request
  <2> QED BY <2>1, <1>0 DEF IInv, ReadsOK, LinksGrounded, JumpsGrounded
<1> QED BY <1>1, <1>2, <1>3 DEF IInv

\* Jumps are never deleted and only move to confirmed.
LEMMA JumpStepIInv ==
  ASSUME IInv, TypeInv', UNCHANGED <<clockStatus, linkStatus, snapshots, req>>,
         \A j \in Jumps : jumpStatus[j] # "absent"
                          => jumpStatus'[j] \in {jumpStatus[j], "confirmed"}
  PROVE  IInv'
<1> USE DEF snapshots, drafts
<1>0. ASSUME NEW rows \in JumpRows, NEW c, JumpsGrounded(rows, c)
      PROVE  JumpsGrounded(rows, c)'
  <2> SUFFICES ASSUME NEW j \in Jumps, rows[j] # "absent"
               PROVE  JumpClock[j] = c /\ jumpStatus'[j] \in {rows[j], "confirmed"}
    BY DEF JumpsGrounded
  <2>1. JumpClock[j] = c /\ jumpStatus[j] \in {rows[j], "confirmed"}
    BY <1>0 DEF JumpsGrounded
  <2> QED BY <2>1
<1>1. Publishing'
  BY DEF IInv, Publishing, AtMostOnePublished, PublishedIsSealed
<1>2. EvidenceInv'
  <2>1. \A s \in Snaps : evidence[s].jumps \in JumpRows /\ draftJumps[s] \in SUBSET Jumps
    BY DEF IInv, TypeInv, TypeOK, Evidence
  <2>2. EvidenceGrounded' /\ EvidenceCoversDraft'
    BY <2>1, <1>0 DEF IInv, EvidenceInv, EvidenceCoversDraft, EvidenceGrounded, LinksGrounded
  <2>3. DraftsGrounded'
    <3> SUFFICES ASSUME NEW s \in Snaps, NEW j \in draftJumps[s]
                 PROVE  JumpClock[j] = SnapClock[s] /\ jumpStatus'[j] # "absent"
      BY DEF DraftsGrounded
    <3>1. JumpClock[j] = SnapClock[s] /\ jumpStatus[j] # "absent"
      BY DEF IInv, EvidenceInv, DraftsGrounded
    <3> QED BY <3>1, <2>1
  <2> QED BY <2>2, <2>3 DEF EvidenceInv
<1>3. \A p \in Requests : ReadsOK(req[p])'
  <2>1. \A p \in Requests : req[p].jumps \in JumpRows
    BY DEF IInv, TypeInv, TypeOK, Request
  <2> QED BY <2>1, <1>0 DEF IInv, ReadsOK, LinksGrounded
<1> QED BY <1>1, <1>2, <1>3 DEF IInv

\* DraftInsert: a new row no publication can be working on.
LEMMA DraftInsertIInv ==
  ASSUME IInv, TypeInv', NEW r \in Requests, NEW s \in Snaps, DraftInsert(r, s)
  PROVE  IInv'
<1> DEFINE q == req[r]
<1>q. ReadsOK(q) /\ q.jumps \in JumpRows /\ TypeOK
  BY DEF IInv, TypeInv, TypeOK, Request
<1>1. Publishing'
  BY DEF DraftInsert, IInv, TypeInv, TypeOK, Publishing, AtMostOnePublished, PublishedIsSealed
<1>2. DraftsGrounded'
  <2> SUFFICES ASSUME NEW t \in Snaps, NEW j \in draftJumps'[t]
               PROVE  JumpClock[j] = SnapClock[t] /\ jumpStatus'[j] # "absent"
    BY DEF DraftsGrounded
  <2>1. CASE t = s
    <3>1. j \in Jumps /\ q.jumps[j] = "open" /\ q.clock = SnapClock[s] /\ jumpStatus' = jumpStatus
      BY <2>1, <1>q DEF DraftInsert, TypeOK
    <3> QED BY <3>1, <2>1, <1>q DEF ReadsOK, JumpsGrounded
  <2>2. CASE t # s
    BY <2>2, <1>q DEF DraftInsert, TypeOK, IInv, EvidenceInv, DraftsGrounded
  <2> QED BY <2>1, <2>2
<1>3. EvidenceCoversDraft' /\ EvidenceGrounded'
  BY <1>q DEF DraftInsert, TypeOK, IInv, EvidenceInv, EvidenceCoversDraft, EvidenceGrounded,
              LinksGrounded, JumpsGrounded
<1>4. ASSUME NEW p \in Requests PROVE ReadsOK(req[p])'
  <2>1. CASE p = r
    <3>1. req'[p] = Idle
      BY <2>1, <1>q DEF DraftInsert, TypeOK
    <3> QED BY <3>1 DEF ReadsOK, Idle, LinksGrounded, JumpsGrounded, NoJumps, PublishSteps
  <2>2. CASE p # r
    <3>1. req'[p] = req[p] /\ ReadsOK(req[p]) /\ ShapeOK(req[p])
      BY <2>2, <1>q DEF DraftInsert, TypeOK, IInv, TypeInv
    <3>2. req[p].pc \in PublishSteps => req[p].snap # s /\ req[p].snap \in Snaps
      BY <3>1 DEF ReadsOK, ShapeOK, DraftInsert
    <3>3. req[p].pc \in PublishSteps => /\ snapStatus'[req[p].snap] = snapStatus[req[p].snap]
                                        /\ draftJumps'[req[p].snap] = draftJumps[req[p].snap]
      BY <3>2, <1>q DEF DraftInsert, TypeOK
    <3> QED BY <3>1, <3>3 DEF DraftInsert, ReadsOK, LinksGrounded, JumpsGrounded, PublishSteps
  <2> QED BY <2>1, <2>2
<1> QED BY <1>1, <1>2, <1>3, <1>4 DEF IInv, EvidenceInv

\* PublishTx: the row published and the clock sealed belong together, and the
\* evidence written is what the request has read.
LEMMA PublishTxIInv ==
  ASSUME IInv, TypeInv', NEW r \in Requests, PublishTx(r)
  PROVE  IInv'
<1> DEFINE q == req[r]
           s == req[r].snap
<1>q. /\ ReadsOK(q) /\ TypeOK
      /\ s \in Snaps /\ q.clock = SnapClock[s] /\ q.clock \in Clocks
  BY PublicationAssumption DEF IInv, TypeInv, ShapeOK, PublishTx, PublishSteps
<1>p. /\ snapStatus' = PublishRows(s, SnapClock[s])
      /\ clockStatus' = [clockStatus EXCEPT ![SnapClock[s]] = "sealed"]
      /\ evidence' = [evidence EXCEPT ![s] = [clockStatus |-> q.seen, isolated |-> q.isolated,
                                              jumps |-> q.jumps]]
      /\ req' = [req EXCEPT ![r] = Idle]
      /\ UNCHANGED <<linkStatus, jumpStatus, draftJumps, draftLinks>>
      /\ q.pc = "publish.tx"
  BY <1>q DEF PublishTx, SealInTx, drafts
<1>1. AtMostOnePublished'
  <2> SUFFICES ASSUME NEW t \in Snaps, NEW u \in Snaps, snapStatus'[t] = "published",
                      snapStatus'[u] = "published", SnapClock[t] = SnapClock[u]
               PROVE  t = u
    BY DEF AtMostOnePublished
  <2>1. \A x \in {t, u} : x = s \/ (SnapClock[x] # SnapClock[s] /\ snapStatus[x] = "published")
    BY <1>p, <1>q DEF PublishRows
  <2> QED BY <2>1 DEF IInv, Publishing, AtMostOnePublished
<1>2. PublishedIsSealed'
  <2> SUFFICES ASSUME NEW t \in Snaps, snapStatus'[t] \in {"published", "superseded"}
               PROVE  clockStatus'[SnapClock[t]] = "sealed"
    BY DEF PublishedIsSealed
  <2>1. t = s \/ snapStatus[t] \in {"published", "superseded"}
    BY <1>p, <1>q DEF PublishRows
  <2>2. SnapClock[t] \in Clocks
    BY PublicationAssumption
  <2> QED BY <2>1, <2>2, <1>p, <1>q DEF IInv, Publishing, PublishedIsSealed, TypeOK
<1>3. EvidenceCoversDraft'
  <2> SUFFICES ASSUME NEW t \in Snaps, snapStatus'[t] \in {"published", "superseded"},
                      NEW j \in draftJumps[t]
               PROVE  evidence'[t].jumps[j] # "absent"
    BY <1>p DEF EvidenceCoversDraft
  <2>1. CASE t = s
    BY <2>1, <1>p, <1>q DEF ReadsOK, TypeOK
  <2>2. CASE t # s
    <3>1. snapStatus[t] \in {"published", "superseded"}
      BY <2>2, <1>p, <1>q DEF PublishRows
    <3>2. evidence'[t] = evidence[t]
      BY <2>2, <1>p, <1>q DEF TypeOK
    <3> QED BY <3>1, <3>2 DEF IInv, EvidenceInv, EvidenceCoversDraft
  <2> QED BY <2>1, <2>2
<1>4. EvidenceGrounded'
  <2> SUFFICES ASSUME NEW t \in Snaps
               PROVE  /\ LinksGrounded(evidence'[t].isolated, SnapClock[t])
                      /\ JumpsGrounded(evidence'[t].jumps, SnapClock[t])
    BY <1>p DEF EvidenceGrounded, LinksGrounded, JumpsGrounded
  <2>1. CASE t = s
    <3>1. evidence'[t].isolated = q.isolated /\ evidence'[t].jumps = q.jumps
      BY <2>1, <1>p, <1>q DEF TypeOK
    <3> QED BY <3>1, <2>1, <1>q DEF ReadsOK
  <2>2. CASE t # s
    BY <2>2, <1>p, <1>q DEF TypeOK, IInv, EvidenceInv, EvidenceGrounded
  <2> QED BY <2>1, <2>2
<1>5. DraftsGrounded'
  BY <1>p DEF DraftsGrounded, IInv, EvidenceInv
<1>6. ASSUME NEW p \in Requests PROVE ReadsOK(req[p])'
  <2>1. CASE p = r
    <3>1. req'[p] = Idle
      BY <2>1, <1>p, <1>q DEF TypeOK
    <3> QED BY <3>1 DEF ReadsOK, Idle, LinksGrounded, JumpsGrounded, NoJumps, PublishSteps
  <2>2. CASE p # r
    <3>1. req'[p] = req[p] /\ ReadsOK(req[p]) /\ ShapeOK(req[p])
      BY <2>2, <1>p, <1>q DEF TypeOK, IInv, TypeInv
    <3>2. req[p].pc \in PublishSteps => snapStatus'[req[p].snap] # "absent"
      BY <3>1, <1>p, <1>q DEF ReadsOK, ShapeOK, PublishRows
    <3> QED BY <3>1, <3>2, <1>p DEF ReadsOK, LinksGrounded, JumpsGrounded
  <2> QED BY <2>1, <2>2
<1> QED BY <1>1, <1>2, <1>3, <1>4, <1>5, <1>6 DEF IInv, Publishing, EvidenceInv

\* StatusUpdate: the compare in the UPDATE protects a clock sealed meanwhile.
LEMMA StatusUpdateIInv ==
  ASSUME IInv, TypeInv', NEW r \in Requests, StatusUpdate(r)
  PROVE  IInv'
<1> DEFINE q == req[r]
<1>q. TypeOK /\ ShapeOK(q) /\ q.seen # "sealed" /\ q.clock \in Clocks
  BY TransitionTypes DEF IInv, TypeInv, StatusUpdate, ShapeOK
<1>1. \A c \in Clocks : clockStatus[c] = "sealed" => clockStatus'[c] = "sealed"
  BY <1>q DEF StatusUpdate, TypeOK
<1>2. Publishing'
  BY <1>1, PublicationAssumption
  DEF StatusUpdate, snapshots, IInv, Publishing, AtMostOnePublished, PublishedIsSealed
<1>3. EvidenceInv'
  BY DEF StatusUpdate, snapshots, drafts, IInv, EvidenceInv, EvidenceCoversDraft,
         EvidenceGrounded, DraftsGrounded, LinksGrounded, JumpsGrounded
<1>4. \A p \in Requests : ReadsOK(req'[p])
  BY <1>q, IdleReads DEF StatusUpdate, IInv, TypeOK
<1>5. \A p \in Requests : ReadsOK(req[p])'
  BY <1>4 DEF StatusUpdate, snapshots, drafts, ReadsOK, LinksGrounded, JumpsGrounded
<1> QED BY <1>2, <1>3, <1>5 DEF IInv

LEMMA RequestStepIInv ==
  ASSUME IInv, TypeInv', NEW r \in Requests, RequestStep(r)
  PROVE  IInv'
<1> DEFINE q == req[r]
<1>q. q \in Request /\ ShapeOK(q) /\ ReadsOK(q) /\ TypeOK
  BY DEF IInv, TypeInv, TypeOK
<1>i. ASSUME req' = [req EXCEPT ![r] = Idle], UNCHANGED tables PROVE IInv'
  BY <1>i, IdleReads, ReadStepIInv
<1>1. ASSUME NEW c \in Clocks, NEW next \in Asked, StatusGet(r, c, next) PROVE IInv'
  <2> DEFINE x == [Idle EXCEPT !.pc = "status.update", !.clock = c,
                               !.seen = clockStatus[c], !.next = next]
  <2>1. ReadsOK(x)
    BY DEF ReadsOK, Idle, LinksGrounded, JumpsGrounded, NoJumps, PublishSteps
  <2>2. UNCHANGED tables /\ req' = [req EXCEPT ![r] = x]
    BY <1>1 DEF StatusGet
  <2> HIDE DEF x
  <2> QED BY <2>1, <2>2, ReadStepIInv
<1>2. CASE StatusUpdate(r)
  BY <1>2, StatusUpdateIInv
<1>3. ASSUME NEW c \in Clocks, DraftGetClock(r, c) PROVE IInv'
  <2> DEFINE x == [Idle EXCEPT !.pc = "draft.links", !.clock = c]
  <2>1. ReadsOK(x)
    BY DEF ReadsOK, Idle, LinksGrounded, JumpsGrounded, NoJumps, PublishSteps
  <2>2. UNCHANGED tables /\ req' = [req EXCEPT ![r] = x]
    BY <1>3 DEF DraftGetClock
  <2> HIDE DEF x
  <2> QED BY <2>1, <2>2, ReadStepIInv
<1>4. CASE DraftListLinks(r)
  <2> DEFINE x == [q EXCEPT !.pc = "draft.jumps", !.isolated = IsolatedLinks(q.clock)]
  <2>1. ReadsOK(x) /\ req' = [req EXCEPT ![r] = x] /\ UNCHANGED tables
    BY <1>4, <1>q, QueriesGrounded DEF DraftListLinks, ReadsOK, PublishSteps, Request, TypeOK
  <2> HIDE DEF x
  <2> QED BY <2>1, ReadStepIInv
<1>5. CASE DraftListJumps(r)
  <2> DEFINE x == [q EXCEPT !.pc = "draft.insert", !.jumps = JumpsOfClock(q.clock)]
  <2>1. ReadsOK(x) /\ req' = [req EXCEPT ![r] = x] /\ UNCHANGED tables
    BY <1>5, <1>q, QueriesGrounded DEF DraftListJumps, ReadsOK, PublishSteps, Request, TypeOK
  <2> HIDE DEF x
  <2> QED BY <2>1, ReadStepIInv
<1>6. ASSUME NEW s \in Snaps, DraftInsert(r, s) PROVE IInv'
  BY <1>6, DraftInsertIInv
<1>7. ASSUME NEW s \in Snaps, PublishGet(r, s) PROVE IInv'
  <2> DEFINE x == [Idle EXCEPT !.pc = "publish.clock", !.snap = s, !.clock = SnapClock[s]]
  <2>1. ReadsOK(x)
    BY <1>7 DEF PublishGet, ReadsOK, Idle, LinksGrounded, JumpsGrounded, NoJumps, PublishSteps
  <2>2. UNCHANGED tables /\ req' = [req EXCEPT ![r] = x]
    BY <1>7 DEF PublishGet
  <2> HIDE DEF x
  <2> QED BY <2>1, <2>2, ReadStepIInv
<1>8. CASE FreezeClock(r)
  <2> DEFINE x == [q EXCEPT !.pc = "publish.links", !.seen = clockStatus[q.clock]]
  <2>1. ReadsOK(x) /\ req' = [req EXCEPT ![r] = x] /\ UNCHANGED tables
    BY <1>8, <1>q DEF FreezeClock, ReadsOK, PublishSteps, Request, TypeOK
  <2> HIDE DEF x
  <2> QED BY <2>1, ReadStepIInv
<1>9. CASE FreezeLinks(r)
  <2> DEFINE x == [q EXCEPT !.pc = "publish.jumps", !.isolated = IsolatedLinks(q.clock)]
  <2>1. ReadsOK(x) /\ req' = [req EXCEPT ![r] = x] /\ UNCHANGED tables
    BY <1>9, <1>q, QueriesGrounded DEF FreezeLinks, ReadsOK, PublishSteps, Request, TypeOK
  <2> HIDE DEF x
  <2> QED BY <2>1, ReadStepIInv
<1>10. CASE FreezeJumps(r)
  <2> DEFINE x == [q EXCEPT !.pc = "publish.check", !.jumps = JumpsOfClock(q.clock)]
  <2>1. req' = [req EXCEPT ![r] = x] /\ UNCHANGED tables
    BY <1>10, <1>q DEF FreezeJumps, TypeOK
  <2>2. q.snap \in Snaps /\ q.clock = SnapClock[q.snap] /\ snapStatus[q.snap] # "absent"
    BY <1>10, <1>q DEF FreezeJumps, ShapeOK, ReadsOK, PublishSteps
  <2>3. \A j \in draftJumps[q.snap] : JumpsOfClock(q.clock)[j] # "absent"
    BY <2>2, <1>q DEF IInv, EvidenceInv, DraftsGrounded, JumpsOfClock, TypeOK
  <2>4. ReadsOK(x)
    BY <2>2, <2>3, <1>q, QueriesGrounded DEF ReadsOK, PublishSteps, Request, TypeOK
  <2> HIDE DEF x
  <2> QED BY <2>1, <2>4, ReadStepIInv
<1>11. CASE PublishCheck(r)
  <2> DEFINE x == [q EXCEPT !.pc = "publish.tx"]
  <2>1. ReadsOK(x) /\ UNCHANGED tables
    BY <1>11, <1>q DEF PublishCheck, ReadsOK, PublishSteps, Request
  <2>2. req' = [req EXCEPT ![r] = x] \/ req' = [req EXCEPT ![r] = Idle]
    BY <1>11, <1>q DEF PublishCheck, TypeOK
  <2> HIDE DEF x
  <2> QED BY <2>1, <2>2, <1>i, ReadStepIInv
<1>12. CASE PublishTx(r)
  BY <1>12, PublishTxIInv
<1>13. CASE Abort(r)
  BY <1>13, <1>i DEF Abort
<1> QED
  BY <1>1, <1>2, <1>3, <1>4, <1>5, <1>6, <1>7, <1>8, <1>9, <1>10, <1>11, <1>12, <1>13
  DEF RequestStep

LEMMA IInvNext == IInv /\ [Next]_vars => IInv'
<1> SUFFICES ASSUME IInv, [Next]_vars PROVE IInv'
  OBVIOUS
<1>0. TypeInv' /\ TypeOK
  BY TypeNext DEF IInv, TypeInv
<1>1. ASSUME NEW l \in Links, UpsertLink(l) PROVE IInv'
  <2>1. UNCHANGED <<clockStatus, jumpStatus, snapshots, req>>
        /\ \A k \in Links : linkStatus[k] # "absent" => linkStatus'[k] # "absent"
    BY <1>1, <1>0 DEF UpsertLink, TypeOK
  <2> QED BY <2>1, <1>0, LinkStepIInv
<1>2. ASSUME NEW l \in Links, NEW to \in {"healthy", "isolated"}, LinkAction(l, to) PROVE IInv'
  <2>1. UNCHANGED <<clockStatus, jumpStatus, snapshots, req>>
        /\ \A k \in Links : linkStatus[k] # "absent" => linkStatus'[k] # "absent"
    BY <1>2, <1>0 DEF LinkAction, TypeOK
  <2> QED BY <2>1, <1>0, LinkStepIInv
<1>3. ASSUME NEW j \in Jumps, InsertJump(j) \/ ConfirmJump(j) PROVE IInv'
  <2>1. UNCHANGED <<clockStatus, linkStatus, snapshots, req>>
        /\ \A k \in Jumps : jumpStatus[k] # "absent"
                            => jumpStatus'[k] \in {jumpStatus[k], "confirmed"}
    BY <1>3, <1>0 DEF InsertJump, ConfirmJump, TypeOK, JumpRows
  <2> QED BY <2>1, <1>0, JumpStepIInv
<1>4. ASSUME NEW r \in Requests, RequestStep(r) PROVE IInv'
  BY <1>4, <1>0, RequestStepIInv
<1>5. CASE Crash \/ UNCHANGED vars
  <2>1. UNCHANGED tables /\ \A p \in Requests : req'[p] = req[p] \/ req'[p] = Idle
    BY <1>5 DEF Crash, vars, tables, snapshots, drafts
  <2>2. \A p \in Requests : ReadsOK(req'[p])
    BY <2>1, IdleReads DEF IInv
  <2>3. \A p \in Requests : ReadsOK(req[p])'
    BY <2>1, <2>2 DEF tables, snapshots, drafts, ReadsOK, LinksGrounded, JumpsGrounded
  <2>4. Publishing' /\ EvidenceInv'
    BY <2>1 DEF tables, snapshots, drafts, IInv, Publishing, AtMostOnePublished,
                PublishedIsSealed, EvidenceInv, EvidenceCoversDraft, EvidenceGrounded,
                DraftsGrounded, LinksGrounded, JumpsGrounded
  <2> QED BY <2>3, <2>4, <1>0 DEF IInv
<1> QED BY <1>1, <1>2, <1>3, <1>4, <1>5 DEF Next, Environment

LEMMA Invariant == Spec => []IInv
BY IInvInit, IInvNext, PTL DEF Spec

\* However publications interleave, a clock has one published snapshot at most
\* (SnapshotStore.PublishAndSeal).
THEOREM OnePublication == Spec => []AtMostOnePublished
<1>1. IInv => AtMostOnePublished
  BY DEF IInv, Publishing
<1> QED BY <1>1, Invariant, PTL

\* A published or superseded snapshot's clock is sealed, at every instant a
\* crash could happen: the seal and the publication are one transaction, and
\* SetStatus never reopens a clock.
THEOREM PublishedSealed == Spec => []PublishedIsSealed
<1>1. IInv => PublishedIsSealed
  BY DEF IInv, Publishing
<1> QED BY <1>1, Invariant, PTL

\* Published evidence contains every jump its draft listed (Publisher.freeze).
THEOREM EvidenceComplete == Spec => []EvidenceCoversDraft
<1>1. IInv => EvidenceCoversDraft
  BY DEF IInv, EvidenceInv
<1> QED BY <1>1, Invariant, PTL

\* Published evidence is about the snapshot's own clock and never ahead of the
\* tables (Publisher.freeze, LinkStore, JumpStore).
THEOREM EvidenceSound == Spec => []EvidenceGrounded
<1>1. IInv => EvidenceGrounded
  BY DEF IInv, EvidenceInv
<1> QED BY <1>1, Invariant, PTL

-----------------------------------------------------------------------------
(* Refinement *)

\* Under the invariant the snapshot in force is the only published one.
LEMMA InForceUnique ==
  ASSUME AtMostOnePublished, NEW c, NEW s \in PublishedOf(c)
  PROVE  PublishedOf(c) = {s}
BY DEF AtMostOnePublished, PublishedOf

LEMMA PromiseInit == Init => Promise!Init
<1> SUFFICES ASSUME Init PROVE Promise!Init
  OBVIOUS
<1>1. \A c : PublishedOf(c) = {}
  BY DEF Init, PublishedOf
<1> QED BY <1>1 DEF Init, Promise!Init, InForce, Current

\* A step that publishes nothing keeps the diagnosis of every clock in force.
LEMMA InForceKept ==
  ASSUME \A s \in Snaps : snapStatus'[s] = "published" <=> snapStatus[s] = "published"
  PROVE  InForce' = InForce
<1>1. ASSUME NEW c \in Clocks PROVE PublishedOf(c)' = PublishedOf(c)
  BY DEF PublishedOf
<1> QED BY <1>1 DEF InForce

LEMMA PromiseNext == IInv /\ IInv' /\ [Next]_vars => [Promise!Next]_(Promise!vars)
<1> SUFFICES ASSUME IInv, IInv', [Next]_vars PROVE [Promise!Next]_(Promise!vars)
  OBVIOUS
<1> USE DEF Promise!vars
<1>t. TypeOK /\ \A r \in Requests : ShapeOK(req[r])
  BY DEF IInv, TypeInv
<1>1. ASSUME NEW r \in Requests, StatusUpdate(r) PROVE [Promise!Next]_(Promise!vars)
  <2> DEFINE q == req[r]
  <2>1. q.clock \in Clocks /\ CanTransition(q.seen, q.next) /\ q.next \in ClockStatus
    BY <1>1, <1>t, TransitionTypes DEF StatusUpdate, ShapeOK
  <2>2. InForce' = InForce
    BY <1>1, InForceKept DEF StatusUpdate, snapshots
  <2>3. CASE clockStatus[q.clock] = q.seen
    <3>1. Promise!Move(q.clock, q.next)
      BY <2>1, <2>2, <2>3, <1>1 DEF StatusUpdate, Promise!Move, Promise!CanTransition,
         Promise!ClockTransitions, CanTransition, ClockTransitions
    <3> QED BY <3>1, <2>1 DEF Promise!Next, Promise!ClockStatus, ClockStatus
  <2>4. CASE clockStatus[q.clock] # q.seen
    BY <2>2, <2>4, <1>1 DEF StatusUpdate
  <2> QED BY <2>3, <2>4
<1>2. ASSUME NEW r \in Requests, PublishTx(r) PROVE [Promise!Next]_(Promise!vars)
  <2>1. PICK s \in Snaps, c \in Clocks : s = req[r].snap /\ c = req[r].clock /\ c = SnapClock[s]
    BY <1>2, <1>t, PublicationAssumption DEF PublishTx, ShapeOK, PublishSteps
  <2>2. snapStatus' = PublishRows(s, c) /\ clockStatus' = [clockStatus EXCEPT ![c] = "sealed"]
    BY <1>2, <2>1 DEF PublishTx, SealInTx
  <2>3. AtMostOnePublished'
    BY DEF IInv, Publishing
  <2>4. snapStatus'[s] = "published"
    BY <2>1, <2>2 DEF PublishRows
  <2>5. PublishedOf(c)' = {s}
    BY <2>1, <2>3, <2>4 DEF AtMostOnePublished, PublishedOf
  <2>6. \A d \in Clocks : d # c => PublishedOf(d)' = PublishedOf(d)
    BY <2>1, <2>2 DEF PublishRows, PublishedOf
  <2>7. InForce'[c] = s
    <3>1. Current({s}) = s
      BY DEF Current
    <3> QED BY <2>1, <2>5, <3>1 DEF InForce
  <2>8. \A d \in Clocks : d # c => InForce'[d] = InForce[d]
    BY <2>6 DEF InForce
  <2>9. InForce' = [InForce EXCEPT ![c] = s]
    BY <2>1, <2>7, <2>8 DEF InForce
  <2>10. Promise!Publish(c, s)
    BY <2>1, <2>2, <2>9 DEF Promise!Publish
  <2> QED BY <2>1, <2>10 DEF Promise!Next
<1>3. ASSUME clockStatus' = clockStatus,
             \A s \in Snaps : snapStatus'[s] = "published" <=> snapStatus[s] = "published"
      PROVE [Promise!Next]_(Promise!vars)
  BY <1>3, InForceKept
<1>4. CASE Environment
  BY <1>4, <1>3 DEF Environment, UpsertLink, LinkAction, InsertJump, ConfirmJump, snapshots
<1>5. ASSUME NEW r \in Requests, NEW s \in Snaps, DraftInsert(r, s)
      PROVE [Promise!Next]_(Promise!vars)
  BY <1>5, <1>t, <1>3 DEF DraftInsert, TypeOK
<1>6. ASSUME UNCHANGED tables PROVE [Promise!Next]_(Promise!vars)
  BY <1>6, <1>3 DEF tables, snapshots
<1>7. ASSUME NEW r \in Requests, RequestStep(r) PROVE [Promise!Next]_(Promise!vars)
  BY <1>7, <1>1, <1>2, <1>5, <1>6
  DEF RequestStep, StatusGet, DraftGetClock, DraftListLinks, DraftListJumps, PublishGet,
      FreezeClock, FreezeLinks, FreezeJumps, PublishCheck, Abort
<1>8. CASE Crash \/ UNCHANGED vars
  BY <1>8, <1>6 DEF Crash, vars, tables, snapshots, drafts
<1> QED BY <1>4, <1>7, <1>8 DEF Next

\* Every behaviour of the handlers is a behaviour of Diagnosis: statuses move
\* along the machine, publication and seal are one step, and a diagnosis in
\* force is replaced but never withdrawn.
THEOREM Refinement == Spec => ImplementsDiagnosis
BY PromiseInit, PromiseNext, Invariant, PTL DEF Spec, ImplementsDiagnosis, Promise!Spec
=============================================================================
