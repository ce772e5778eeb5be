---------------------------- MODULE Publication ----------------------------
(***************************************************************************)
(* Drafting and publishing a diagnosis while clocks, links and jumps keep  *)
(* changing: Publisher (internal/snapshot), SnapshotStore, ClockStore,     *)
(* LinkStore and the part of JumpStore they read.                          *)
(*                                                                         *)
(* The store keeps one connection (SetMaxOpenConns(1)), so a statement, or *)
(* a transaction, is one step, and requests interleave between statements. *)
(* None of these handlers takes the clock lock except LinkAction, which    *)
(* writes with a single statement.  What a request has read so far is its  *)
(* local record req[r]; a request slot is reused when its request ends.    *)
(***************************************************************************)
EXTENDS Model

CONSTANTS Clocks, Links, Jumps, Snaps,   \* the row ids each table can hold
          Requests,                      \* handlers in flight at once
          Asked,                         \* what callers of SetStatus ask for, legal or not
          SnapClock, LinkClock, JumpClock, \* the clock_id / subject_id a row is created with
          None

ASSUME PublicationAssumption ==
  /\ SnapClock \in [Snaps -> Clocks]
  /\ LinkClock \in [Links -> Clocks]
  /\ JumpClock \in [Jumps -> Clocks]
  /\ None \notin Snaps

VARIABLES clockStatus,  \* clocks.status
          linkStatus,   \* compare_links.status, "absent" before the row exists
          jumpStatus,   \* jump_segments.status, "absent" before the row exists
          snapStatus,   \* snapshots.status, "absent" before the row exists
          draftJumps,   \* snapshots.jump_ids
          draftLinks,   \* snapshots.isolated_links
          evidence,     \* snapshots.evidence_json
          req           \* local state of each request

vars == <<clockStatus, linkStatus, jumpStatus, snapStatus, draftJumps,
          draftLinks, evidence, req>>
drafts == <<draftJumps, draftLinks>>
snapshots == <<snapStatus, drafts, evidence>>
tables == <<clockStatus, linkStatus, jumpStatus, snapshots>>

-----------------------------------------------------------------------------
(* Rows and request records *)

JumpRows == [Jumps -> JumpStatus \cup {"absent"}]
NoJumps  == [j \in Jumps |-> "absent"]

\* model.FrozenEvidence; a draft holds NoEvidence ("{}" in the column).
Evidence == [clockStatus : ClockStatus \cup {"none"},
             isolated    : SUBSET Links,
             jumps       : JumpRows]
NoEvidence == [clockStatus |-> "none", isolated |-> {}, jumps |-> NoJumps]

DraftSteps   == {"draft.links", "draft.jumps", "draft.insert"}
PublishSteps == {"publish.clock", "publish.links", "publish.jumps",
                 "publish.check", "publish.tx"}
Steps == {"idle", "status.update"} \cup DraftSteps \cup PublishSteps

Request == [pc    : Steps,
            clock : Clocks \cup {None},
            snap  : Snaps \cup {None},
            seen  : ClockStatus \cup {"none"},   \* clock status it read
            next  : ClockStatus \cup {"none"},   \* clock status it will write
            isolated : SUBSET Links,             \* isolated links it read
            jumps    : JumpRows]                 \* jumps it read
Idle == [pc |-> "idle", clock |-> None, snap |-> None, seen |-> "none",
         next |-> "none", isolated |-> {}, jumps |-> NoJumps]

TypeOK == /\ clockStatus \in [Clocks -> ClockStatus]
          /\ linkStatus \in [Links -> LinkStatus \cup {"absent"}]
          /\ jumpStatus \in JumpRows
          /\ snapStatus \in [Snaps -> SnapshotStatus \cup {"absent"}]
          /\ draftJumps \in [Snaps -> SUBSET Jumps]
          /\ draftLinks \in [Snaps -> SUBSET Links]
          /\ evidence \in [Snaps -> Evidence]
          /\ req \in [Requests -> Request]

Init == /\ clockStatus = [c \in Clocks |-> "collecting"]
        /\ linkStatus = [l \in Links |-> "absent"]
        /\ jumpStatus = NoJumps
        /\ snapStatus = [s \in Snaps |-> "absent"]
        /\ draftJumps = [s \in Snaps |-> {}]
        /\ draftLinks = [s \in Snaps |-> {}]
        /\ evidence = [s \in Snaps |-> NoEvidence]
        /\ req = [r \in Requests |-> Idle]

-----------------------------------------------------------------------------
(* Queries: what a SELECT returns in the current state *)

\* LinkStore.ListBySubject, kept to the isolated ones by both callers.
IsolatedLinksAnyClock(c) == {l \in Links : linkStatus[l] = "isolated"}   \* mutant
IsolatedLinks(c) == {l \in Links : LinkClock[l] = c /\ linkStatus[l] = "isolated"}

\* JumpStore.ListJumpsByClock.
OpenJumpsOfClock(c) ==   \* mutant: the freeze filters open jumps as the draft does
  [j \in Jumps |-> IF JumpClock[j] = c /\ jumpStatus[j] = "open"
                   THEN jumpStatus[j] ELSE "absent"]
JumpsOfClock(c) ==
  [j \in Jumps |-> IF JumpClock[j] = c THEN jumpStatus[j] ELSE "absent"]

-----------------------------------------------------------------------------
(* Writes outside publication *)

\* LinkStore.Upsert: a new pair starts healthy; a conflict keeps the status.
UpsertLink(l) == /\ linkStatus[l] = "absent"
                 /\ linkStatus' = [linkStatus EXCEPT ![l] = "healthy"]
                 /\ UNCHANGED <<clockStatus, jumpStatus, snapshots, req>>

\* Service.LinkAction: isolate or restore; the clock's status is not looked at.
LinkAction(l, to) == /\ linkStatus[l] # "absent"
                     /\ linkStatus' = [linkStatus EXCEPT ![l] = to]
                     /\ UNCHANGED <<clockStatus, jumpStatus, snapshots, req>>

\* JumpStore.InsertJump, from an analysis of the clock in flight.
InsertJump(j) == /\ jumpStatus[j] = "absent"
                 /\ jumpStatus' = [jumpStatus EXCEPT ![j] = "open"]
                 /\ UNCHANGED <<clockStatus, linkStatus, snapshots, req>>

\* Service.ConfirmJump: one UPDATE by id, whatever the clock's status.
ConfirmJump(j) == /\ jumpStatus[j] # "absent"
                  /\ jumpStatus' = [jumpStatus EXCEPT ![j] = "confirmed"]
                  /\ UNCHANGED <<clockStatus, linkStatus, snapshots, req>>

\* ClockStore.SetStatus, first statement: read, refuse a sealed clock and an
\* illegal move.  Callers: PATCH status, seal, and the analysis.
StatusGetUnchecked(r, c, next) ==   \* mutant: the requested status is not validated
  /\ req[r].pc = "idle"
  /\ clockStatus[c] # "sealed"
  /\ req' = [req EXCEPT ![r] = [Idle EXCEPT !.pc = "status.update", !.clock = c,
                                            !.seen = clockStatus[c], !.next = next]]
  /\ UNCHANGED tables
StatusGet(r, c, next) ==
  /\ req[r].pc = "idle"
  /\ clockStatus[c] # "sealed"
  /\ CanTransition(clockStatus[c], next)
  /\ req' = [req EXCEPT ![r] = [Idle EXCEPT !.pc = "status.update", !.clock = c,
                                            !.seen = clockStatus[c], !.next = next]]
  /\ UNCHANGED tables

\* ClockStore.SetStatus, second statement: UPDATE ... WHERE status = <the one
\* read>.  No row matched is not an error.
StatusUpdateBlind(r) ==   \* mutant: the WHERE clause forgets the status
  /\ req[r].pc = "status.update"
  /\ clockStatus' = [clockStatus EXCEPT ![req[r].clock] = req[r].next]
  /\ req' = [req EXCEPT ![r] = Idle]
  /\ UNCHANGED <<linkStatus, jumpStatus, snapshots>>
StatusUpdate(r) ==
  /\ req[r].pc = "status.update"
  /\ clockStatus' = IF clockStatus[req[r].clock] = req[r].seen
                    THEN [clockStatus EXCEPT ![req[r].clock] = req[r].next]
                    ELSE clockStatus
  /\ req' = [req EXCEPT ![r] = Idle]
  /\ UNCHANGED <<linkStatus, jumpStatus, snapshots>>

-----------------------------------------------------------------------------
(* Publisher.CreateDraft *)

DraftGetClock(r, c) ==
  /\ req[r].pc = "idle"
  /\ clockStatus[c] # "sealed"
  /\ req' = [req EXCEPT ![r] = [Idle EXCEPT !.pc = "draft.links", !.clock = c]]
  /\ UNCHANGED tables

DraftListLinks(r) ==
  /\ req[r].pc = "draft.links"
  /\ req' = [req EXCEPT ![r].pc = "draft.jumps",
                        ![r].isolated = IsolatedLinks(req[r].clock)]
  /\ UNCHANGED tables

DraftListJumps(r) ==
  /\ req[r].pc = "draft.jumps"
  /\ req' = [req EXCEPT ![r].pc = "draft.insert",
                        ![r].jumps = JumpsOfClock(req[r].clock)]
  /\ UNCHANGED tables

\* The draft lists the jumps still open; the clock may be sealed by now.
DraftInsert(r, s) ==
  /\ req[r].pc = "draft.insert"
  /\ snapStatus[s] = "absent"
  /\ SnapClock[s] = req[r].clock
  /\ snapStatus' = [snapStatus EXCEPT ![s] = "draft"]
  /\ draftJumps' = [draftJumps EXCEPT ![s] = {j \in Jumps : req[r].jumps[j] = "open"}]
  /\ draftLinks' = [draftLinks EXCEPT ![s] = req[r].isolated]
  /\ req' = [req EXCEPT ![r] = Idle]
  /\ UNCHANGED <<clockStatus, linkStatus, jumpStatus, evidence>>

-----------------------------------------------------------------------------
(* Publisher.PublishCtx *)

\* Snapshots.Get: only the clock id is used, so any existing snapshot passes.
PublishGet(r, s) ==
  /\ req[r].pc = "idle"
  /\ snapStatus[s] # "absent"
  /\ req' = [req EXCEPT ![r] = [Idle EXCEPT !.pc = "publish.clock", !.snap = s,
                                            !.clock = SnapClock[s]]]
  /\ UNCHANGED tables

\* freeze, in three statements.
FreezeClock(r) ==
  /\ req[r].pc = "publish.clock"
  /\ req' = [req EXCEPT ![r].pc = "publish.links",
                        ![r].seen = clockStatus[req[r].clock]]
  /\ UNCHANGED tables

FreezeLinks(r) ==
  /\ req[r].pc = "publish.links"
  /\ req' = [req EXCEPT ![r].pc = "publish.jumps",
                        ![r].isolated = IsolatedLinks(req[r].clock)]
  /\ UNCHANGED tables

FreezeOpenJumps(r) ==   \* mutant: evidence keeps only what is still open
  /\ req[r].pc = "publish.jumps"
  /\ req' = [req EXCEPT ![r].pc = "publish.check",
                        ![r].jumps = OpenJumpsOfClock(req[r].clock)]
  /\ UNCHANGED tables
FreezeJumps(r) ==
  /\ req[r].pc = "publish.jumps"
  /\ req' = [req EXCEPT ![r].pc = "publish.check",
                        ![r].jumps = JumpsOfClock(req[r].clock)]
  /\ UNCHANGED tables

\* PublishAndSeal reads the snapshot again, before the transaction, and
\* refuses one that is published or superseded.
PublishCheck(r) ==
  /\ req[r].pc = "publish.check"
  /\ req' = IF snapStatus[req[r].snap] = "draft"
            THEN [req EXCEPT ![r].pc = "publish.tx"]
            ELSE [req EXCEPT ![r] = Idle]
  /\ UNCHANGED tables

\* The two UPDATEs of snapshots inside the transaction: the clock's published
\* ones become superseded, then row s becomes published, whatever it was.
PublishRowsKeepOld(s, c) == [snapStatus EXCEPT ![s] = "published"]   \* mutant
PublishRowsAnyClock(s, c) ==   \* mutant: the first UPDATE forgets clock_id
  [x \in Snaps |-> IF x = s THEN "published"
                   ELSE IF snapStatus[x] = "published"
                   THEN "superseded" ELSE snapStatus[x]]
PublishRows(s, c) ==
  [x \in Snaps |-> IF x = s THEN "published"
                   ELSE IF SnapClock[x] = c /\ snapStatus[x] = "published"
                   THEN "superseded" ELSE snapStatus[x]]

\* SetClockSealedOnPublish as a step of its own would leave the clock as it is.
SealInTxLater(c) == clockStatus   \* mutant
SealInTx(c) == [clockStatus EXCEPT ![c] = "sealed"]

PublishTx(r) ==
  LET s == req[r].snap
      c == req[r].clock
  IN /\ req[r].pc = "publish.tx"
     /\ clockStatus[c] = "sealed" \/ CanTransition(clockStatus[c], "sealed")
     /\ snapStatus' = PublishRows(s, c)
     /\ evidence' = [evidence EXCEPT ![s] = [clockStatus |-> req[r].seen,
                                             isolated |-> req[r].isolated,
                                             jumps |-> req[r].jumps]]
     /\ clockStatus' = SealInTx(c)
     /\ req' = [req EXCEPT ![r] = Idle]
     /\ UNCHANGED <<linkStatus, jumpStatus, drafts>>

-----------------------------------------------------------------------------
(* Failures *)

\* The client goes away or a statement fails: an open transaction rolls back,
\* and nothing a request did before it is undone.
Abort(r) == /\ req[r].pc # "idle"
            /\ req' = [req EXCEPT ![r] = Idle]
            /\ UNCHANGED tables

\* The process stops; the tables survive, the requests do not.
Crash == /\ \E r \in Requests : req[r].pc # "idle"
         /\ req' = [r \in Requests |-> Idle]
         /\ UNCHANGED tables

-----------------------------------------------------------------------------

Environment == \/ \E l \in Links : \/ UpsertLink(l)
                                   \/ \E to \in {"healthy", "isolated"} : LinkAction(l, to)
               \/ \E j \in Jumps : InsertJump(j) \/ ConfirmJump(j)

RequestStep(r) ==
  \/ \E c \in Clocks : \E next \in Asked : StatusGet(r, c, next)
  \/ StatusUpdate(r)
  \/ \E c \in Clocks : DraftGetClock(r, c)
  \/ DraftListLinks(r)
  \/ DraftListJumps(r)
  \/ \E s \in Snaps : DraftInsert(r, s)
  \/ \E s \in Snaps : PublishGet(r, s)
  \/ FreezeClock(r)
  \/ FreezeLinks(r)
  \/ FreezeJumps(r)
  \/ PublishCheck(r)
  \/ PublishTx(r)
  \/ Abort(r)

Next == \/ Environment
        \/ \E r \in Requests : RequestStep(r)
        \/ Crash

Spec == Init /\ [][Next]_vars

-----------------------------------------------------------------------------
(* Properties *)

\* No interleaving of publications, not even two of the same draft, leaves a
\* clock with two published snapshots (PublishAndSeal's first UPDATE).
AtMostOnePublished ==
  \A s, t \in Snaps : /\ snapStatus[s] = "published"
                      /\ snapStatus[t] = "published"
                      /\ SnapClock[s] = SnapClock[t]
                      => s = t

\* A published snapshot never coexists with an unsealed clock, whatever status
\* update is in flight: the branch of Recover that seals a clock with a
\* published snapshot has nothing to do after a crash of this program.
PublishedIsSealed ==
  \A s \in Snaps : snapStatus[s] \in {"published", "superseded"}
                   => clockStatus[SnapClock[s]] = "sealed"

\* A publication that starts after the draft was stored freezes every jump the
\* draft names, even if it was confirmed in between.
EvidenceCoversDraft ==
  \A s \in Snaps : snapStatus[s] \in {"published", "superseded"}
                   => \A j \in draftJumps[s] : evidence[s].jumps[j] # "absent"

\* A set of isolated links, or the jump rows, somebody read for clock c.
LinksGrounded(links, c) == \A l \in links : LinkClock[l] = c /\ linkStatus[l] # "absent"
JumpsGrounded(rows, c) ==
  \A j \in Jumps : rows[j] # "absent" => /\ JumpClock[j] = c
                                         /\ jumpStatus[j] \in {rows[j], "confirmed"}

\* Evidence names only rows of the snapshot's clock, and its jumps are at most
\* as far as the live table: a jump frozen as confirmed is confirmed.
EvidenceGrounded ==
  \A s \in Snaps : /\ LinksGrounded(evidence[s].isolated, SnapClock[s])
                   /\ JumpsGrounded(evidence[s].jumps, SnapClock[s])

\* The tables implement the promise of Diagnosis: statuses move only along the
\* machine even when updates race, and the diagnosis in force is put there
\* together with the seal and only ever replaced.
PublishedOf(c) == {s \in Snaps : SnapClock[s] = c /\ snapStatus[s] = "published"}
Current(published) == IF published = {} THEN None ELSE CHOOSE s \in published : TRUE
InForce == [c \in Clocks |-> Current(PublishedOf(c))]
Promise == INSTANCE Diagnosis WITH status <- clockStatus, inForce <- InForce
ImplementsDiagnosis == Promise!Spec

\* snapshot.go:4: a published snapshot allows no modification; README.md:19:
\* published is immutable.  Nothing but superseding may touch its row.
PublishedImmutable ==
  [][\A s \in Snaps :
       /\ snapStatus[s] = "published" => /\ snapStatus'[s] \in {"published", "superseded"}
                                         /\ evidence'[s] = evidence[s]
       /\ snapStatus[s] = "superseded" => snapStatus'[s] = "superseded"]_vars

\* model.go:204: the jumps of a snapshot are frozen at the instant it is
\* published: they are the clock's jumps in the state PublishTx leaves from.
JumpsFrozenAtPublish ==
  [][\A s \in Snaps : snapStatus[s] = "draft" /\ snapStatus'[s] = "published"
                      => evidence'[s].jumps = JumpsOfClock(SnapClock[s])]_vars
=============================================================================
