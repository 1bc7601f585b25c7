----------------------------- MODULE LotIntake -----------------------------
(***************************************************************************)
(* How a lot posted in SAP becomes an IMIR and opens: the pull with its    *)
(* cursor, each lot stored in a transaction of its own, and the approval   *)
(* of the item's format, which opens the lots waiting for it.              *)
(* backend/src/modules/integration/sapSync.service.js (runSapSync) with    *)
(* the API adapter of integrations/sap/index.js, tryOpen and               *)
(* openAwaitingForItem of modules/imir/imir.service.js.                    *)
(*                                                                         *)
(* All lots are of one item. An advisory lock lets one pull run at a time, *)
(* a second one does nothing. The transactions are READ COMMITTED: what    *)
(* one stores the other sees after its commit, so reading and committing   *)
(* are steps of their own.                                                 *)
(***************************************************************************)
EXTENDS Naturals, FiniteSets

CONSTANTS
  NumLots,        \* lots, named by their numbers
  Unreadable,     \* lots SAP sends unreadable
  Foreign,        \* lots of a plant the plant master does not have at first
  Overlap,        \* SAP_API_OVERLAP_DAYS
  MaxDate,        \* bound: days
  MaxFaults,      \* bound: failures of a transaction, crashes of the worker
  MaxApprovals    \* bound: approvals of the item's format

Lot == 1..NumLots

ASSUME IntakeAssumption ==
  /\ NumLots \in Nat /\ Unreadable \subseteq Lot /\ Foreign \subseteq Lot
  /\ {Overlap, MaxDate, MaxFaults, MaxApprovals} \subseteq Nat

VARIABLES
  date,       \* per lot, its Start of Inspection in SAP; 0: not posted yet
  plantKnown, \* the plant of the foreign lots is in the plant master
  imir,       \* per lot, "NONE" or the status of its IMIR
  cursor,     \* cursor_value of the last finished pull, 0: none
  pull,       \* the running pull, or NoPull
  format,     \* the item has an approved format
  series,     \* there are a sampling table and a number series to open with
  approval,   \* the approval in its transaction, or NoApproval
  approvals,  \* approvals begun
  faults      \* faults so far

intake == <<imir, cursor, pull>>
intakeVars == <<date, plantKnown, imir, cursor, pull, format, series, approval, approvals, faults>>

NoLot == 0
NoPull == [on |-> FALSE, rest |-> {}, seen |-> {}, next |-> 0, position |-> 0, failed |-> FALSE, retryFrom |-> 0,
           lot |-> NoLot, status |-> "NONE"]
NoApproval == [on |-> FALSE, opens |-> {}]

Posted == {l \in Lot : date[l] # 0}
LastDate(lots, default) ==
  IF lots = {} THEN default ELSE CHOOSE d \in {date[l] : l \in lots} : \A l \in lots : date[l] <= d

IntakeInit ==
  /\ date = [l \in Lot |-> 0] /\ plantKnown = FALSE
  /\ imir = [l \in Lot |-> "NONE"] /\ cursor = 0 /\ pull = NoPull
  /\ format = FALSE /\ series = FALSE /\ approval = NoApproval /\ approvals = 0 /\ faults = 0

-----------------------------------------------------------------------------
(* SAP and the masters *)

\* A lot can reach SAP after later ones. Assumed of SAP: by at most the days the pull asks back for
\* ("a few days back", integrations/sap/index.js:57). A lot posted later than that is never pulled.
PostLot(l, d) ==
  /\ date[l] = 0 /\ d + Overlap >= LastDate(Posted, 0)
  /\ date' = [date EXCEPT ![l] = d]
  /\ UNCHANGED <<plantKnown, intake, format, series, approval, approvals, faults>>

AddPlant ==
  /\ ~plantKnown /\ plantKnown' = TRUE
  /\ UNCHANGED <<date, intake, format, series, approval, approvals, faults>>

AddSeries ==
  /\ ~series /\ series' = TRUE
  /\ UNCHANGED <<date, plantKnown, intake, format, approval, approvals, faults>>

-----------------------------------------------------------------------------
(* The pull *)

\* overlapFrom: the date the API is asked from.
From(c) == IF c > Overlap THEN c - Overlap ELSE 0

StartPull ==
  /\ ~pull.on
  /\ LET batch == {l \in Posted : date[l] >= From(cursor)} IN
       pull' = [NoPull EXCEPT !.on = TRUE, !.rest = batch, !.seen = {l \in batch : imir[l] # "NONE"},
                              !.next = LastDate(batch, cursor), !.position = cursor]
  /\ UNCHANGED <<date, plantKnown, imir, cursor, format, series, approval, approvals, faults>>

\* The lots of a batch come by date, then by number.
IsNext(l) ==
  /\ l \in pull.rest /\ pull.lot = NoLot
  /\ \A m \in pull.rest : date[l] < date[m] \/ (date[l] = date[m] /\ l <= m)

Past(l) == [pull EXCEPT !.rest = @ \ {l}, !.position = date[l], !.lot = NoLot, !.status = "NONE"]

\* A lot pulled before, or one that is unreadable: reported, and not asked for again.
PassOver(l) ==
  /\ IsNext(l) /\ (l \in pull.seen \/ l \in Unreadable)
  /\ pull' = Past(l)
  /\ UNCHANGED <<date, plantKnown, imir, cursor, format, series, approval, approvals, faults>>

\* Broken variant: the last failed lot decides where to ask from.
FailKeepingLast(l) == pull' = [Past(l) EXCEPT !.failed = TRUE, !.retryFrom = pull.position]
\* Broken variant: a failed lot ends the pull.
FailStopping(l) ==
  pull' = [Past(l) EXCEPT !.failed = TRUE, !.retryFrom = IF pull.failed THEN @ ELSE pull.position, !.rest = {}]

\* The next pull asks from the lot before the first one that failed.
Failed(l) == pull' = [Past(l) EXCEPT !.failed = TRUE, !.retryFrom = IF pull.failed THEN @ ELSE pull.position]

\* Neither passed over in this pull nor of an unreadable record.
Storable(l) == l \notin pull.seen \cup Unreadable

RefuseLot(l) ==
  /\ IsNext(l) /\ Storable(l) /\ l \in Foreign /\ ~plantKnown
  /\ Failed(l)
  /\ UNCHANGED <<date, plantKnown, imir, cursor, format, series, approval, approvals, faults>>

\* The transaction inserts the lot and its IMIR and reads (tryOpen) what it needs to open it.
StoreLot(l) ==
  /\ IsNext(l) /\ Storable(l) /\ (l \in Foreign => plantKnown)
  /\ pull' = [pull EXCEPT !.lot = l, !.status = IF format /\ series THEN "OPEN" ELSE "AWAITING_FORMAT"]
  /\ UNCHANGED <<date, plantKnown, imir, cursor, format, series, approval, approvals, faults>>

CommitLot(l) ==
  /\ pull.lot = l
  /\ imir' = [imir EXCEPT ![l] = pull.status] /\ pull' = Past(l)
  /\ UNCHANGED <<date, plantKnown, cursor, format, series, approval, approvals, faults>>

FinishPull ==
  /\ pull.on /\ pull.rest = {}
  /\ cursor' = (IF pull.failed THEN pull.retryFrom ELSE pull.next) /\ pull' = NoPull
  /\ UNCHANGED <<date, plantKnown, imir, format, series, approval, approvals, faults>>

\* An unexpected error rolls back the lot's transaction.
LotFails(l) ==
  /\ pull.lot = l /\ faults < MaxFaults
  /\ Failed(l) /\ faults' = faults + 1
  /\ UNCHANGED <<date, plantKnown, imir, cursor, format, series, approval, approvals>>

\* The worker crashes: its transaction is rolled back, its run stays unfinished, the lock is free.
Crash ==
  /\ pull.on /\ faults < MaxFaults
  /\ pull' = NoPull /\ faults' = faults + 1
  /\ UNCHANGED <<date, plantKnown, imir, cursor, format, series, approval, approvals>>

-----------------------------------------------------------------------------
(* Approval of the format *)

\* fastForward or the import, up to openAwaitingForItem: it opens the waiting lots it sees.
BeginApproval ==
  /\ ~approval.on /\ approvals < MaxApprovals
  /\ approval' = [on |-> TRUE, opens |-> {l \in Lot : imir[l] = "AWAITING_FORMAT" /\ series}]
  /\ approvals' = approvals + 1
  /\ UNCHANGED <<date, plantKnown, intake, format, series, faults>>

CommitApproval ==
  /\ approval.on
  /\ format' = TRUE /\ imir' = [l \in Lot |-> IF l \in approval.opens THEN "OPEN" ELSE imir[l]]
  /\ approval' = NoApproval
  /\ UNCHANGED <<date, plantKnown, cursor, pull, series, approvals, faults>>

SapNext == \E l \in Lot, d \in 1..MaxDate : PostLot(l, d)
MasterNext == AddPlant \/ AddSeries
PullNext ==
  \/ StartPull
  \/ \E l \in Lot : PassOver(l) \/ RefuseLot(l) \/ StoreLot(l) \/ CommitLot(l)
  \/ FinishPull
FaultNext == Crash \/ \E l \in Lot : LotFails(l)
ApprovalNext == BeginApproval \/ CommitApproval

IntakeNext == SapNext \/ MasterNext \/ PullNext \/ FaultNext \/ ApprovalNext

\* The worker pulls on a timer for as long as it runs; a transaction of an approval ends.
IntakeFairness == WF_intakeVars(PullNext) /\ WF_intakeVars(CommitApproval)

IntakeSpec == IntakeInit /\ [][IntakeNext]_intakeVars /\ IntakeFairness

-----------------------------------------------------------------------------
(* What the intake promises *)

PullRow ==
  [on : BOOLEAN, rest : SUBSET Lot, seen : SUBSET Lot, next : 0..MaxDate, position : 0..MaxDate, failed : BOOLEAN,
   retryFrom : 0..MaxDate, lot : Lot \cup {NoLot}, status : {"NONE", "AWAITING_FORMAT", "OPEN"}]

\* Types; a lot in a transaction is not stored yet, and an IMIR is only of a lot that was posted and
\* can be read (runSapSync).
IntakeTypeOK ==
  /\ date \in [Lot -> 0..MaxDate] /\ cursor \in 0..MaxDate /\ pull \in PullRow
  /\ imir \in [Lot -> {"NONE", "AWAITING_FORMAT", "OPEN"}]
  /\ {plantKnown, format, series} \subseteq BOOLEAN
  /\ approval \in [on : BOOLEAN, opens : SUBSET Lot] /\ approvals \in 0..MaxApprovals /\ faults \in 0..MaxFaults
  /\ pull.lot # NoLot => imir[pull.lot] = "NONE" /\ pull.lot \in pull.rest
  /\ {l \in Lot : imir[l] # "NONE"} \subseteq Posted \ Unreadable

\* Whatever failed, crashed or was posted late (as PostLot allows), the next pull asks SAP for every
\* lot that was posted and is not stored: the cursor never moves past it (retryFrom, overlapFrom).
NothingSlipsPast ==
  /\ IntakeTypeOK
  /\ \A l \in Posted \ Unreadable : imir[l] = "NONE" => date[l] >= From(cursor)

\* A lot that can be stored is stored in the end, whichever other lots keep failing ("one bad lot is
\* reported without blocking the others").
LotsArrive ==
  \A l \in Lot \ Unreadable : (l \in Posted /\ (l \in Foreign => plantKnown)) ~> imir[l] # "NONE"

-----------------------------------------------------------------------------
(* What the code says of itself and does not do *)

\* "It opens automatically once that is fixed": a lot waiting with nothing missing opens.
WaitingLotOpens ==
  \A l \in Lot : (imir[l] = "AWAITING_FORMAT" /\ format /\ series) ~> imir[l] = "OPEN"
=============================================================================
