----------------------------- MODULE Inspection -----------------------------
(***************************************************************************)
(* One inspection lot (IMIR) from opening to its first decision: the       *)
(* inspectors record readings on the web or on a tablet that holds the     *)
(* lot, one submits, the IQC In-Charge and the IQC Head review.            *)
(* imir.service.js and review.service.js of backend/src/modules/imir, and  *)
(* the checkouts of modules/sync.                                          *)
(*                                                                         *)
(* A handler locks the lot's row and is one action. Two things are not     *)
(* under that lock and are steps of their own: a checkout reads the lot    *)
(* before it inserts its row, and a reviewer decides on a page loaded      *)
(* earlier.                                                                *)
(*                                                                         *)
(* history holds the rows of imir_action that the rules of reversal read   *)
(* (IMIR_STEPS and REVERSED); a row's id is its place. A TAKE_OVER row,    *)
(* which no rule reads, is left out.                                       *)
(***************************************************************************)
EXTENDS Integers, Sequences, FiniteSets

CONSTANTS
  Inspector, InCharge, IqcHead,   \* the users who may inspect, review and decide for the lot's plant
  Device,       \* tablets of the plant
  Sample,       \* the readings the format asks for
  AcceptNo,     \* defective samples the sampling plan tolerates
  MaxSteps      \* bound: history rows

None == "-"
User == Inspector \cup InCharge \cup IqcHead
Reviewer == InCharge \cup IqcHead

ASSUME InspectionAssumption ==
  /\ None \notin User \cup Device
  /\ Sample # {} /\ IsFiniteSet(Sample)
  /\ AcceptNo \in Nat /\ MaxSteps \in Nat

VARIABLES
  lot,        \* status and result of the IMIR row
  readings,   \* imir_observation: the decision of each cell
  claim,      \* who holds the lot, and whether a save was recent enough (claimOf)
  checkout,   \* imir_checkout: the tablet the lot is on, and who took it
  taking,     \* per tablet: the user whose checkout has read the lot and not yet inserted its row
  granted,    \* tablets whose checkout was answered with the lot, since it was last given back
  page,       \* per reviewer: the lot as last loaded, and whether its row_version is still the row's
  history,    \* the lot's steps
  deviation   \* the deviation the hold opens

lotVars == <<lot, readings, claim, checkout, history, deviation>>
tabletVars == <<taking, granted>>
inspectionVars == <<lot, readings, claim, checkout, taking, granted, page, history, deviation>>

Editable == {"OPEN", "IN_INSPECTION"}
UnderReview == {"SUBMITTED", "WITH_IQC_HEAD"}
Reading == {"EMPTY", "OK", "NOK"}

NoClaim == [by |-> None, active |-> FALSE]
NoCheckout == [device |-> None, user |-> None]
NoPage == [readings |-> [s \in Sample |-> "EMPTY"], result |-> None, fresh |-> FALSE]

Init ==
  /\ lot = [status |-> "OPEN", result |-> None]
  /\ readings = [s \in Sample |-> "EMPTY"]
  /\ claim = NoClaim /\ checkout = NoCheckout
  /\ taking = [d \in Device |-> None] /\ granted = {}
  /\ page = [u \in Reviewer |-> NoPage]
  /\ history = <<>>
  /\ deviation = None

-----------------------------------------------------------------------------
(* The evaluation of an inspection *)

Missing(rd) == {s \in Sample : rd[s] = "EMPTY"}

\* Between Ac and Re counts as not accepted.
Result(rd) == IF Cardinality({s \in Sample : rd[s] = "NOK"}) <= AcceptNo THEN "OK" ELSE "NOK"

\* Every update of the row bumps row_version: pages loaded before are stale.
Touched == page' = [u \in Reviewer |-> [page[u] EXCEPT !.fresh = FALSE]]

Logged(action, actor, to) ==
  /\ Len(history) < MaxSteps
  /\ history' = Append(history, [action |-> action, actor |-> actor, before |-> lot, to |-> to,
                                 undone |-> 0])

-----------------------------------------------------------------------------
(* Inspecting *)

HeldByOther(u) ==
  lot.status = "IN_INSPECTION" /\ claim.active /\ claim.by \notin {None, u}

\* Broken variant: a lot on a tablet may be recorded from any tablet.
MayRecordFromAnyTablet(u, d) ==
  /\ u \in Inspector /\ lot.status \in Editable
  /\ checkout.device = None \/ d # None
  /\ (d # None /\ checkout.device = d) \/ ~HeldByOther(u)

\* Broken variant: the status of the lot is not looked at.
MayRecordLate(u, d) ==
  u \in Inspector /\ checkout.device \in {None, d} /\ ~HeldByOther(u)

\* lockForInspection: the request comes from tablet d, or from the web (None).
MayRecord(u, d) ==
  /\ u \in Inspector /\ lot.status \in Editable
  /\ checkout.device \in {None, d}
  /\ (d # None /\ checkout.device = d) \/ ~HeldByOther(u)

\* saveProgress: some cells are written or emptied, and the user holds the lot from now on.
Save(u, d, rd) ==
  /\ MayRecord(u, d)
  /\ readings' = rd
  /\ lot' = [lot EXCEPT !.status = "IN_INSPECTION"]
  /\ claim' = [by |-> u, active |-> TRUE]
  /\ Touched
  /\ UNCHANGED <<checkout, history, deviation, tabletVars>>

TakeOver(u) ==
  /\ u \in Inspector /\ lot.status = "IN_INSPECTION" /\ checkout = NoCheckout
  /\ claim.by \notin {None, u}
  /\ claim' = [by |-> u, active |-> TRUE]
  /\ Touched
  /\ UNCHANGED <<lot, readings, checkout, history, deviation, tabletVars>>

ClaimLapses ==
  /\ claim.active
  /\ claim' = [claim EXCEPT !.active = FALSE]
  /\ UNCHANGED <<lot, readings, checkout, history, deviation, page, tabletVars>>

\* Broken variant: an incomplete inspection is submitted.
SubmitIncomplete(u, d) ==
  /\ MayRecord(u, d)
  /\ lot' = [status |-> "SUBMITTED", result |-> Result(readings)]
  /\ claim' = NoClaim /\ checkout' = NoCheckout /\ granted' = {}
  /\ Logged("SUBMIT", u, "SUBMITTED")
  /\ Touched
  /\ UNCHANGED <<readings, deviation, taking>>

Submit(u, d) ==
  /\ MayRecord(u, d) /\ Missing(readings) = {}
  /\ lot' = [status |-> "SUBMITTED", result |-> Result(readings)]
  /\ claim' = NoClaim /\ checkout' = NoCheckout /\ granted' = {}
  /\ Logged("SUBMIT", u, "SUBMITTED")
  /\ Touched
  /\ UNCHANGED <<readings, deviation, taking>>

-----------------------------------------------------------------------------
(* Tablets *)

\* The lot is read without a lock and found free for this user and tablet.
CheckoutReads(u, d) ==
  /\ u \in Inspector /\ taking[d] = None
  /\ lot.status \in Editable /\ ~(HeldByOther(u) /\ checkout = NoCheckout)
  /\ checkout.device \in {None, d}
  /\ taking' = [taking EXCEPT ![d] = u]
  /\ UNCHANGED <<lotVars, page, granted>>

\* INSERT ... ON CONFLICT DO UPDATE WHERE device_id is this one; the lot is answered as taken.
CheckoutInserts(d) ==
  /\ taking[d] # None
  /\ checkout' = IF checkout.device \in {None, d} THEN [device |-> d, user |-> taking[d]] ELSE checkout
  /\ granted' = granted \cup {d}
  /\ taking' = [taking EXCEPT ![d] = None]
  /\ UNCHANGED <<lot, readings, claim, history, deviation, page>>

\* The tablet gives the lot back, the In-Charge releases it, or the tablet is deactivated.
Release ==
  /\ checkout # NoCheckout
  /\ checkout' = NoCheckout /\ granted' = granted \ {checkout.device}
  /\ UNCHANGED <<lot, readings, claim, history, deviation, page, taking>>

-----------------------------------------------------------------------------
(* Review *)

OpenPage(u) ==
  /\ lot.status \in UnderReview
  /\ page' = [page EXCEPT ![u] = [readings |-> readings, result |-> lot.result, fresh |-> TRUE]]
  /\ UNCHANGED <<lotVars, tabletVars>>

\* Broken variant: the row_version of the reviewer's page is not looked at.
ReviewOfAnyPage(u, from, reviewers, action, to) ==
  /\ lot.status = from /\ u \in reviewers
  /\ Logged(action, u, to)
  /\ Touched
  /\ UNCHANGED <<readings, claim, checkout, tabletVars>>

Review(u, from, reviewers, action, to) ==
  /\ lot.status = from /\ u \in reviewers /\ page[u].fresh
  /\ Logged(action, u, to)
  /\ Touched
  /\ UNCHANGED <<readings, claim, checkout, tabletVars>>

Close(u, from, reviewers, action) ==
  /\ Review(u, from, reviewers, action, "CLOSED_ACCEPTED")
  /\ lot' = [lot EXCEPT !.status = "CLOSED_ACCEPTED"]
  /\ UNCHANGED deviation

Approve(u) == Close(u, "SUBMITTED", InCharge, "APPROVE")
HeadApprove(u) == Close(u, "WITH_IQC_HEAD", IqcHead, "HEAD_APPROVE")

\* Broken variant: the result of the inspection stays.
RevertKeepsResult(u) ==
  /\ Review(u, "SUBMITTED", InCharge, "REVERT", "IN_INSPECTION")
  /\ lot' = [lot EXCEPT !.status = "IN_INSPECTION"]
  /\ UNCHANGED deviation

Revert(u) ==
  /\ Review(u, "SUBMITTED", InCharge, "REVERT", "IN_INSPECTION")
  /\ lot' = [status |-> "IN_INSPECTION", result |-> None]
  /\ UNCHANGED deviation

Escalate(u) ==
  /\ Review(u, "SUBMITTED", InCharge, "ESCALATE", "WITH_IQC_HEAD")
  /\ lot' = [lot EXCEPT !.status = "WITH_IQC_HEAD"]
  /\ UNCHANGED deviation

\* The hold opens a deviation, offered to both departments.
Hold(u) ==
  /\ Review(u, "WITH_IQC_HEAD", IqcHead, "HOLD", "DEPT_REVIEW")
  /\ lot' = [lot EXCEPT !.status = "DEPT_REVIEW"]
  /\ deviation' = "OFFERED"

-----------------------------------------------------------------------------
InspectNext ==
  \/ \E u \in Inspector, d \in Device \cup {None} :
       Submit(u, d) \/ \E rd \in [Sample -> Reading] : Save(u, d, rd)
  \/ \E u \in Inspector : TakeOver(u)
  \/ ClaimLapses

TabletNext ==
  \/ \E d \in Device : CheckoutInserts(d) \/ \E u \in Inspector : CheckoutReads(u, d)
  \/ Release

ReviewNext ==
  \E u \in Reviewer :
    OpenPage(u) \/ Approve(u) \/ Revert(u) \/ Escalate(u) \/ HeadApprove(u) \/ Hold(u)

Next == InspectNext \/ TabletNext \/ ReviewNext

Spec == Init /\ [][Next]_inspectionVars

-----------------------------------------------------------------------------
(* What the inspection promises *)

LotStatus == Editable \cup UnderReview \cup {"CLOSED_ACCEPTED", "DEPT_REVIEW"}
LotState == [status : LotStatus, result : {None, "OK", "NOK"}]
StepRow ==
  [action : {"SUBMIT", "APPROVE", "REVERT", "ESCALATE", "HEAD_APPROVE", "HOLD"},
   actor : User, before : LotState, to : LotStatus, undone : {0}]

\* Every column and request holds a value the code can put there; a lot has a result exactly while
\* its readings are locked.
TypeOK ==
  /\ lot \in LotState /\ (lot.result = None <=> lot.status \in Editable)
  /\ readings \in [Sample -> Reading]
  /\ claim \in [by : Inspector \cup {None}, active : BOOLEAN]
  /\ checkout \in [device : Device \cup {None}, user : Inspector \cup {None}]
  /\ taking \in [Device -> Inspector \cup {None}] /\ granted \subseteq Device
  /\ page \in [Reviewer -> [readings : [Sample -> Reading], result : {None, "OK", "NOK"}, fresh : BOOLEAN]]
  /\ history \in Seq(StepRow) /\ Len(history) <= MaxSteps
  /\ deviation \in {None, "OFFERED"}

\* From submission on, the result on the lot is the result of the readings stored, and none is
\* missing: no save, checkout, late tablet or second submission gets between the two.
SubmittedResultIsOfReadings ==
  lot.status \notin Editable => Missing(readings) = {} /\ lot.result = Result(readings)

\* Whoever takes a lot out of review decided on the readings and the result it has: a page loaded
\* before the lot was sent back and measured again decides nothing (rowVersion in review).
InformedReview ==
  [][lot.status \in UnderReview /\ lot'.status # lot.status =>
       LET seen == page[history'[Len(history')].actor] IN
         seen.readings = readings /\ seen.result = lot.result]_inspectionVars

\* The inspection is a card that is filled in, handed in and decided on (LotCard): whatever
\* inspectors, tablets and reviewers do at the same time, the lot changes as if one person did.
Card ==
  INSTANCE LotCard WITH
    Measurement <- [Sample -> Reading],
    Complete <- {rd \in [Sample -> Reading] : Missing(rd) = {}},
    Judgement <- [rd \in [Sample -> Reading] |-> Result(rd)],
    Unjudged <- None,
    phase <- CASE lot.status \in Editable -> "MEASURING"
               [] lot.status \in UnderReview -> "REVIEW"
               [] lot.status = "CLOSED_ACCEPTED" -> "ACCEPTED"
               [] OTHER -> "HELD",
    measured <- readings,
    verdict <- lot.result

ImplementsLotCard == Card!Spec

-----------------------------------------------------------------------------
(* What a comment says of the program and the code does not do *)

\* "A lot already on another tablet is refused (two tablets must never record the same lot)": a
\* tablet that was told the lot is its own is the one the lot is checked out to.
TakenLotIsTheTablets == granted \subseteq {checkout.device}

\* "... is inspecting this lot on the web; take it over there first": a tablet does not take a lot
\* that another inspector holds.
HeldLotIsNotTaken ==
  [][checkout = NoCheckout /\ checkout' # NoCheckout => ~HeldByOther(checkout'.user)]_inspectionVars
=============================================================================
