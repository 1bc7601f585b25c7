------------------------- MODULE DeviationReversal -------------------------
(***************************************************************************)
(* Reversal of the steps of a deviation, composed with Deviation: a user   *)
(* asks to undo an own decision, an admin sets the deviation back to its   *)
(* state just before it.                                                   *)
(* backend/src/modules/workflow/reversal.service.js for records of type    *)
(* DEVIATION.                                                              *)
(*                                                                         *)
(* history holds the deviation's rows of imir_action. A senior decision is *)
(* one row here: the SENIOR_RESULT that may follow it has the same actor   *)
(* and, like it, cannot be chosen. The row INCHARGE_REMARK of              *)
(* setInchargeRemark is left out: it changes nothing a rule reads, and as  *)
(* one more step of somebody it could only stand in a reversal's way.      *)
(***************************************************************************)
EXTENDS Deviation, ReversalRules

CONSTANTS
  Admin,      \* the users with workflow.reverse
  MaxSteps    \* bound: history rows

ASSUME ReversalAssumption == None \notin Admin /\ MaxSteps \in Nat

VARIABLES
  history,    \* the deviation's steps
  request,    \* the pending reversal request
  revisions   \* whether a Deviation Form was ever stored (deviation_form_revision)

reversalVars == <<vars, history, request, revisions>>

NoRequest == [by |-> None, status |-> None]

\* devStatus: a deviation nobody has accepted yet is shown as unassigned.
DeviationStatus(d) == IF d.dept = None /\ d.stage = "INITIATOR" THEN "UNASSIGNED" ELSE d.stage

ReversalInit ==
  /\ Init
  /\ history = <<>> /\ request = NoRequest /\ revisions = FALSE

\* A step keeps the row and the lot's status as they were before it, if the code takes a snapshot.
Row(action, actor, kept) ==
  [action |-> action, actor |-> actor, kept |-> kept, dev |-> dev, imir |-> imir, undone |-> 0]

Logged(row) == Len(history) < MaxSteps /\ history' = Append(history, row)

-----------------------------------------------------------------------------
(* Every step of Deviation, with the row it logs *)

\* move() keeps a snapshot.
Moves(u) ==
  \/ \E d \in Department : Accept(u, d)
  \/ RecommendReject(u) \/ DeptApprove(u) \/ SendBack(u) \/ DeptReject(u) \/ EnterQty(u)
  \/ FinalApprove(u) \/ FinalReject(u) \/ VerifyQty(u) \/ ReturnQty(u)
  \/ \E chosen \in (SUBSET Selectable) \ {{}} : Escalate(u, chosen)
  \/ \E decision \in OverrideDecision : OverrideFinal(u, decision)

\* A decision of a round is logged without one.
Decides(u) ==
  \/ \E a \in Authority, decision \in Decision : SeniorDecide(u, a, decision)
  \/ \E decision \in OverrideDecision : OverrideSenior(u, decision)

UserStep(u) ==
  \/ Moves(u) /\ Logged(Row("MOVE", u, TRUE)) /\ UNCHANGED revisions
  \/ \E action \in FormAction : SubmitForm(u, action) /\ Logged(Row("MOVE", u, TRUE)) /\ revisions' = TRUE
  \/ Decides(u) /\ Logged(Row("SENIOR_DECISION", u, FALSE)) /\ UNCHANGED revisions
  \/ (AskOverride(u) \/ OverrideRefused(u)) /\ UNCHANGED <<history, revisions>>

WorkerStep ==
  /\ \/ (EscalationTimeout \/ AutoClose) /\ dev' # dev /\ Logged(Row("TIMER", Timer, FALSE))
     \/ (EscalationTimeout \/ AutoClose) /\ dev' = dev /\ UNCHANGED history
     \/ (OpsHoursPass \/ QtyDaysPass \/ ReadOverdueRounds \/ ReadOverdueQuantities) /\ UNCHANGED history
  /\ UNCHANGED revisions

-----------------------------------------------------------------------------
(* Reversal *)

Options(u) == {s \in OwnSteps(history, u) : history[s].kept /\ history[s].dev.stage # "SENIOR"}

Request(u) ==
  /\ request = NoRequest /\ Options(u) # {}
  /\ request' = [by |-> u, status |-> DeviationStatus(dev)]
  /\ UNCHANGED <<vars, history, revisions>>

CloseRequest ==
  /\ request # NoRequest /\ request' = NoRequest
  /\ UNCHANGED <<vars, history, revisions>>

RoundClosed == [a \in Authority |-> IF round.step[a] = "PENDING" THEN "NOT_REQUIRED" ELSE round.step[a]]

EndOpenRound ==
  round' = IF round.status = "OPEN" THEN [round EXCEPT !.status = "COMPLETE", !.step = RoundClosed] ELSE round

\* Broken variants: the senior column is left out; an open round stays open.
RestoreWithoutSenior(row) == dev' = [row.dev EXCEPT !.senior = dev.senior] /\ imir' = row.imir /\ EndOpenRound
RestoreRowOnly(row) == dev' = row.dev /\ imir' = row.imir /\ UNCHANGED round

\* The columns of the snapshot; an open round ends without an outcome, and a closed one is left alone.
RestoreDeviation(row) == dev' = row.dev /\ imir' = row.imir /\ EndOpenRound

ApproveReversal(admin, step) ==
  /\ request # NoRequest /\ DeviationStatus(dev) = request.status
  /\ step \in Options(request.by)
  /\ RestoreDeviation(history[step])
  /\ Len(history) < MaxSteps
  /\ history' = Append(history, [Row("REVERSED", admin, FALSE) EXCEPT !.undone = step])
  /\ request' = NoRequest
  /\ UNCHANGED <<worker, requests, revisions>>

ReversalNext ==
  \/ (\E u \in User : UserStep(u)) /\ UNCHANGED request
  \/ WorkerStep /\ UNCHANGED request
  \/ \E u \in User : Request(u)
  \/ CloseRequest
  \/ \E admin \in Admin, step \in DOMAIN history : ApproveReversal(admin, step)

ReversalSpec == ReversalInit /\ [][ReversalNext]_reversalVars

-----------------------------------------------------------------------------
(* What reversals promise *)

\* The tables keep their types, the snapshots included.
ReversalTypeOK ==
  /\ TypeOK /\ revisions \in BOOLEAN
  /\ \A s \in DOMAIN history : history[s].dev \in DeviationRow /\ history[s].imir \in ImirStatus
  /\ request.by \in User \cup {None} /\ request.status \in Stage \cup {"UNASSIGNED", None}

\* However many steps are undone, the lot's status is the one that belongs to the deviation's stage,
\* and a round is open exactly while the deviation waits for the seniors (move, restoreDeviation).
LotAndRoundFollow ==
  /\ ReversalTypeOK
  /\ imir = ImirStatusOf(dev)
  /\ dev.stage = "SENIOR" <=> round.status = "OPEN"

\* A lot is taken under deviation or rejected only as the department and the seniors endorsed, however
\* many of their decisions were undone and made again on the way (restoreDeviation, final_approve).
ClosuresEndorsed == AcceptedLotIsEndorsed /\ RejectedLotIsEndorsed

\* A reversal takes back decisions of the user who asked for it, with the timers' steps on top of
\* them, and nobody else's, whatever happened between the request and its approval (ownOptions).
OthersDecisionsStand ==
  [][\A s \in EffectiveSteps(history) \ EffectiveSteps(history') :
        history[s].actor \in {Timer, request.by}]_reversalVars

-----------------------------------------------------------------------------
(* What the code says of itself and does not do *)

\* "Reverse the deviation to before it was accepted first": after that the hold can be undone, which
\* needs a deviation without department, stored form or round.
GivenBackIsNotTakenUp == dev.dept = None => ~revisions /\ round.no = 0

\* "the record is set back to its state just before the chosen step": the senior outcome in the row
\* is the one of its round, also after an override was undone.
OutcomeIsTheRounds == dev.senior \in SeniorFinal => round.effective = dev.senior

=============================================================================
