------------------------------ MODULE Deviation ------------------------------
(***************************************************************************)
(* The deviation track of one lot the IQC Head holds: department review,   *)
(* the IQC Head's final decision, senior escalation, the quantities after  *)
(* an approved Segregation / Rework, and the two timers of the worker.     *)
(* backend/src/modules/deviation/deviation.service.js, with the rules of   *)
(* backend/src/modules/workflow/rules.js.                                  *)
(*                                                                         *)
(* Every handler of act() runs in one transaction that first locks the     *)
(* deviation row, so it is one action here. What does not happen under     *)
(* that lock is a step of its own: the worker reads the ids that are due   *)
(* before it locks each of them, and an override's time is the start of    *)
(* its transaction, which is before it waits for the lock.                 *)
(***************************************************************************)
EXTENDS Escalation

CONSTANTS
  User,          \* people with an account
  Holds,         \* the roles each of them holds for the lot's plant
  FormAction,    \* bound: the actions a Deviation Form may ask for
  Selectable,    \* bound: the authorities an escalation may name
  MaxRounds,     \* bound: escalation rounds of the deviation
  MaxOverrides   \* bound: override requests sent

Department == {"SCM", "VD"}
DeviationAction == {"UAI", "SEGREGATION", "REWORK"}
Requestor == [d \in Department |-> IF d = "SCM" THEN "SCM_REQUESTOR" ELSE "VD_REQUESTOR"]
Approvers == [d \in Department |-> IF d = "SCM" THEN {"SCM_SUB_HEAD", "SCM_HEAD"}
                                                 ELSE {"VD_SUB_HEAD", "VD_HEAD"}]
Role == {"SYSTEM_ADMIN", "IQC_HEAD", "IQC_INCHARGE"} \cup Authority
          \cup UNION {{Requestor[d]} \cup Approvers[d] : d \in Department}

ASSUME ConstantsAssumption ==
  /\ Holds \in [User -> SUBSET Role]
  /\ None \notin User
  /\ FormAction \subseteq DeviationAction
  /\ Selectable \subseteq Authority
  /\ MaxRounds \in Nat
  /\ MaxOverrides \in Nat

VARIABLES
  dev,      \* the deviation row
  imir,     \* status of the lot's IMIR row
  round,    \* the deviation's last escalation round
  worker,   \* what the worker has read as due and not yet handled, and for which round
  clock,    \* transaction start times handed out to override requests
  asked     \* per user: start time of the override request in flight, 0 if none

vars == <<dev, imir, round, worker, clock, asked>>

Stage == {"INITIATOR", "HEAD", "FINAL", "SENIOR", "UNDER_DEVIATION", "QTY_VERIFICATION", "CLOSED"}
SeniorFinal == {"APPROVE", "REJECT"}

-----------------------------------------------------------------------------
(* Who may act (rules.js). System Admin stands in for every role. *)

MayActAs(u, roles) == Holds[u] \cap (roles \cup {"SYSTEM_ADMIN"}) # {}

\* Once accepted the deviation is the accepting user's; System Admin can stand in.
MayActForDepartment(u) ==
  /\ dev.dept # None
  /\ MayActAs(u, {Requestor[dev.dept]})
  /\ "SYSTEM_ADMIN" \in Holds[u] \/ dev.initiator \in {None, u}

MayApproveForDepartment(u) == dev.dept # None /\ MayActAs(u, Approvers[dev.dept])

(* What blocks an action the role allows (deviationBlock). *)

\* Broken variants: a senior rejection, or the department's approval, is not looked at.
FinalApproveDespiteSeniors == dev.form /\ (dev.senior = "APPROVE" \/ dev.deptOutcome = "APPROVED")
FinalRejectDespiteDepartment == dev.senior # "APPROVE"

FinalApproveAllowed ==
  /\ dev.form
  /\ dev.senior # "REJECT"
  /\ dev.senior = "APPROVE" \/ dev.deptOutcome = "APPROVED"

FinalRejectAllowed ==
  /\ dev.senior # "APPROVE"
  /\ dev.senior = "REJECT" \/ dev.deptOutcome # "APPROVED"

\* Broken variant: the seniors can be asked again over their own answer.
EscalateOverAnswer == dev.form

EscalateAllowed == dev.senior \notin SeniorFinal /\ dev.form

-----------------------------------------------------------------------------
(* move(): the deviation changes and the IMIR status follows it. *)

ImirStatusOf(d) ==
  CASE d.stage \in {"INITIATOR", "HEAD"} -> "DEPT_REVIEW"
    [] d.stage = "FINAL"                 -> "IQC_HEAD_FINAL"
    [] d.stage = "SENIOR"                -> "SENIOR_ESCALATION"
    [] d.stage = "CLOSED"                -> CASE d.outcome = "ACCEPTED_UNDER_DEVIATION" -> "CLOSED_UNDER_DEVIATION"
                                              [] d.outcome = "REJECTED"                 -> "CLOSED_REJECTED"
                                              [] OTHER                                  -> "AUTO_CLOSED"
    [] OTHER                             -> d.stage

Move(d) == dev' = d /\ imir' = ImirStatusOf(d)

\* settleRound: a complete round returns to the IQC Head, or to the initiator on a change of type.
Settle(r) ==
  IF ~Complete(r)
  THEN round' = r /\ UNCHANGED <<dev, imir>>
  ELSE /\ round' = Settled(r)
       /\ Move(IF Effective(r) = "CHANGE_TYPE"
               THEN [dev EXCEPT !.stage = "INITIATOR", !.senior = "CHANGE_TYPE", !.deptOutcome = None]
               ELSE [dev EXCEPT !.stage = "FINAL", !.senior = Effective(r)])

-----------------------------------------------------------------------------
(* The hold of the IQC Head opens the deviation, offered to both departments. *)

NewDeviation ==
  [stage |-> "INITIATOR", dept |-> None, acceptedBy |-> None, initiator |-> None, form |-> FALSE, action |-> None,
   deptOutcome |-> None, senior |-> None, final |-> None, due |-> None, qty |-> FALSE,
   outcome |-> None]

Idle == [job |-> None, no |-> 0]

Init ==
  /\ dev = NewDeviation
  /\ imir = "DEPT_REVIEW"
  /\ round = NoRound
  /\ worker = Idle
  /\ clock = 0
  /\ asked = [u \in User |-> 0]

requests == <<clock, asked>>

(* Department *)

Accept(u, d) ==
  /\ dev.stage = "INITIATOR" /\ dev.dept = None
  /\ MayActAs(u, {Requestor[d]})
  /\ Move([dev EXCEPT !.dept = d, !.acceptedBy = u, !.initiator = u])
  /\ UNCHANGED <<round, worker, requests>>

SubmitForm(u, action) ==
  /\ dev.stage = "INITIATOR" /\ MayActForDepartment(u)
  /\ Move([dev EXCEPT !.stage = "HEAD", !.initiator = u, !.action = action, !.form = TRUE,
                      !.deptOutcome = None, !.senior = None])
  /\ UNCHANGED <<round, worker, requests>>

RecommendReject(u) ==
  /\ dev.stage = "INITIATOR" /\ MayActForDepartment(u)
  /\ Move([dev EXCEPT !.stage = "HEAD", !.initiator = IF @ = None THEN u ELSE @,
                      !.deptOutcome = "REJECT_RECOMMENDED", !.senior = None])
  /\ UNCHANGED <<round, worker, requests>>

DeptApprove(u) ==
  /\ dev.stage = "HEAD" /\ MayApproveForDepartment(u)
  /\ Move([dev EXCEPT !.stage = "FINAL",
                      !.deptOutcome = IF @ = "REJECT_RECOMMENDED" THEN @ ELSE "APPROVED"])
  /\ UNCHANGED <<round, worker, requests>>

\* Broken variant: the sending back is recorded as an outcome of the department.
SendBackAsOutcome(u) ==
  /\ dev.stage = "HEAD" /\ MayApproveForDepartment(u)
  /\ Move([dev EXCEPT !.stage = "INITIATOR", !.deptOutcome = "SENT_BACK"])
  /\ UNCHANGED <<round, worker, requests>>

SendBack(u) ==
  /\ dev.stage = "HEAD" /\ MayApproveForDepartment(u)
  /\ Move([dev EXCEPT !.stage = "INITIATOR", !.deptOutcome = None])
  /\ UNCHANGED <<round, worker, requests>>

DeptReject(u) ==
  /\ dev.stage = "HEAD" /\ MayApproveForDepartment(u)
  /\ dev.deptOutcome # "REJECT_RECOMMENDED"
  /\ Move([dev EXCEPT !.stage = "FINAL", !.deptOutcome = "REJECTED"])
  /\ UNCHANGED <<round, worker, requests>>

(* IQC Head *)

FinalApprove(u) ==
  /\ dev.stage = "FINAL" /\ MayActAs(u, {"IQC_HEAD"}) /\ FinalApproveAllowed
  /\ Move(IF dev.action = "UAI"
          THEN [dev EXCEPT !.stage = "CLOSED", !.final = "APPROVED",
                           !.outcome = "ACCEPTED_UNDER_DEVIATION"]
          ELSE [dev EXCEPT !.stage = "UNDER_DEVIATION", !.final = "APPROVED", !.due = "RUNNING"])
  /\ UNCHANGED <<round, worker, requests>>

FinalReject(u) ==
  /\ dev.stage = "FINAL" /\ MayActAs(u, {"IQC_HEAD"}) /\ FinalRejectAllowed
  /\ Move([dev EXCEPT !.stage = "CLOSED", !.final = "REJECTED", !.outcome = "REJECTED"])
  /\ UNCHANGED <<round, worker, requests>>

Escalate(u, chosen) ==
  /\ dev.stage = "FINAL" /\ MayActAs(u, {"IQC_HEAD"}) /\ EscalateAllowed
  /\ round.no < MaxRounds
  /\ round' = OpenRound(round.no + 1, chosen)
  /\ Move([dev EXCEPT !.stage = "SENIOR"])
  /\ UNCHANGED <<worker, requests>>

(* Senior authorities *)

SeniorDecide(u, a, decision) ==
  /\ dev.stage = "SENIOR" /\ round.status = "OPEN"
  /\ round.step[a] = "PENDING" /\ MayActAs(u, {a})
  /\ Settle(RecordDecision(round, a, decision))
  /\ UNCHANGED <<worker, requests>>

MayOverride(u) == MayActAs(u, {"CQA_HEAD", "CENTRAL_OPS_HEAD"})

\* The request's transaction begins: this is its decided_at.
AskOverride(u) ==
  /\ MayOverride(u) /\ asked[u] = 0 /\ clock < MaxOverrides
  /\ clock' = clock + 1
  /\ asked' = [asked EXCEPT ![u] = clock']
  /\ UNCHANGED <<dev, imir, round, worker>>

OverrideSenior(u, decision) ==
  /\ dev.stage = "SENIOR" /\ asked[u] # 0
  /\ Settle(RecordOverride(round, decision, asked[u]))
  /\ asked' = [asked EXCEPT ![u] = 0]
  /\ UNCHANGED <<worker, clock>>

\* Broken variant: the round keeps the outcome it had.
OverrideFinalRowOnly(u, decision) ==
  /\ dev.stage = "FINAL" /\ dev.senior \in SeniorFinal /\ asked[u] # 0
  /\ round' = RecordOverride(round, decision, asked[u])
  /\ Move([dev EXCEPT !.senior = decision])
  /\ asked' = [asked EXCEPT ![u] = 0]
  /\ UNCHANGED <<worker, clock>>

\* After the round: the override replaces the outcome the IQC Head must follow.
OverrideFinal(u, decision) ==
  /\ dev.stage = "FINAL" /\ dev.senior \in SeniorFinal /\ asked[u] # 0
  /\ round' = [RecordOverride(round, decision, asked[u]) EXCEPT !.effective = decision]
  /\ Move([dev EXCEPT !.senior = decision])
  /\ asked' = [asked EXCEPT ![u] = 0]
  /\ UNCHANGED <<worker, clock>>

OverrideRefused(u) ==
  /\ asked[u] # 0
  /\ dev.stage # "SENIOR" /\ ~(dev.stage = "FINAL" /\ dev.senior \in SeniorFinal)
  /\ asked' = [asked EXCEPT ![u] = 0]
  /\ UNCHANGED <<dev, imir, round, worker, clock>>

(* Quantities *)

EnterQty(u) ==
  /\ dev.stage = "UNDER_DEVIATION" /\ MayActForDepartment(u)
  /\ Move([dev EXCEPT !.stage = "QTY_VERIFICATION", !.qty = TRUE])
  /\ UNCHANGED <<round, worker, requests>>

VerifyQty(u) ==
  /\ dev.stage = "QTY_VERIFICATION" /\ MayActAs(u, {"IQC_INCHARGE"})
  /\ Move([dev EXCEPT !.stage = "CLOSED", !.outcome = "ACCEPTED_UNDER_DEVIATION"])
  /\ UNCHANGED <<round, worker, requests>>

\* Broken variant: the 14 days are cleared when the quantities come back.
ReturnQtyClearsDue(u) ==
  /\ dev.stage = "QTY_VERIFICATION" /\ MayActAs(u, {"IQC_INCHARGE"})
  /\ Move([dev EXCEPT !.stage = "UNDER_DEVIATION", !.due = None])
  /\ UNCHANGED <<round, worker, requests>>

ReturnQty(u) ==
  /\ dev.stage = "QTY_VERIFICATION" /\ MayActAs(u, {"IQC_INCHARGE"})
  /\ Move([dev EXCEPT !.stage = "UNDER_DEVIATION"])
  /\ UNCHANGED <<round, worker, requests>>

-----------------------------------------------------------------------------
(* Time, and the worker's tick: the ids are read first, each is handled    *)
(* under its lock afterwards and looked at again there.                    *)

OpsHoursPass ==
  /\ round.opsDue = "RUNNING" /\ round.status = "OPEN"
  /\ round' = [round EXCEPT !.opsDue = "PAST"]
  /\ UNCHANGED <<dev, imir, worker, requests>>

QtyDaysPass ==
  /\ dev.due = "RUNNING" /\ dev.stage # "CLOSED"
  /\ dev' = [dev EXCEPT !.due = "PAST"]
  /\ UNCHANGED <<imir, round, worker, requests>>

ReadOverdueRounds ==
  /\ worker = Idle
  /\ round.status = "OPEN" /\ OpsOverdue(round)
  /\ worker' = [job |-> "ESCALATION", no |-> round.no]
  /\ UNCHANGED <<dev, imir, round, requests>>

EscalationTimeout ==
  /\ worker.job = "ESCALATION" /\ worker' = Idle
  /\ IF dev.stage = "SENIOR" /\ round.no = worker.no /\ round.status = "OPEN" /\ OpsOverdue(round)
     THEN Settle(TimeOutOps(round))
     ELSE UNCHANGED <<dev, imir, round>>
  /\ UNCHANGED requests

ReadOverdueQuantities ==
  /\ worker = Idle
  /\ dev.stage = "UNDER_DEVIATION" /\ dev.due = "PAST"
  /\ worker' = [job |-> "AUTO_CLOSE", no |-> 0]
  /\ UNCHANGED <<dev, imir, round, requests>>

\* Broken variant: the deviation is closed on what was read before the lock.
AutoCloseUnchecked ==
  /\ worker.job = "AUTO_CLOSE" /\ worker' = Idle
  /\ Move([dev EXCEPT !.stage = "CLOSED", !.outcome = "AUTO_CLOSED"])
  /\ UNCHANGED <<round, requests>>

AutoClose ==
  /\ worker.job = "AUTO_CLOSE" /\ worker' = Idle
  /\ IF dev.stage = "UNDER_DEVIATION" /\ dev.due = "PAST"
     THEN Move([dev EXCEPT !.stage = "CLOSED", !.outcome = "AUTO_CLOSED"])
     ELSE UNCHANGED <<dev, imir>>
  /\ UNCHANGED <<round, requests>>

-----------------------------------------------------------------------------
DepartmentNext ==
  \E u \in User :
    \/ \E d \in Department : Accept(u, d)
    \/ \E action \in FormAction : SubmitForm(u, action)
    \/ RecommendReject(u) \/ DeptApprove(u) \/ SendBack(u) \/ DeptReject(u)
    \/ EnterQty(u)

InspectionHeadNext ==
  \E u \in User :
    \/ FinalApprove(u) \/ FinalReject(u)
    \/ \E chosen \in (SUBSET Selectable) \ {{}} : Escalate(u, chosen)
    \/ VerifyQty(u) \/ ReturnQty(u)

SeniorNext ==
  \E u \in User :
    \/ \E a \in Authority, decision \in Decision : SeniorDecide(u, a, decision)
    \/ AskOverride(u) \/ OverrideRefused(u)
    \/ \E decision \in OverrideDecision : OverrideSenior(u, decision) \/ OverrideFinal(u, decision)

WorkerNext ==
  \/ OpsHoursPass \/ QtyDaysPass
  \/ ReadOverdueRounds \/ EscalationTimeout
  \/ ReadOverdueQuantities \/ AutoClose

Next == DepartmentNext \/ InspectionHeadNext \/ SeniorNext \/ WorkerNext

\* The worker runs both timers every five minutes and is restarted when it stops; people owe nothing.
WorkerFairness ==
  /\ WF_vars(OpsHoursPass) /\ WF_vars(QtyDaysPass)
  /\ WF_vars(ReadOverdueRounds) /\ WF_vars(EscalationTimeout)
  /\ WF_vars(ReadOverdueQuantities) /\ WF_vars(AutoClose)

Spec == Init /\ [][Next]_vars /\ WorkerFairness

-----------------------------------------------------------------------------
(* What the deviation track promises *)

Nullable(S) == S \cup {None}

DeviationRow ==
  [stage : Stage, dept : Nullable(Department), acceptedBy : Nullable(User),
   initiator : Nullable(User), form : BOOLEAN, action : Nullable(DeviationAction),
   deptOutcome : {None, "APPROVED", "REJECTED", "REJECT_RECOMMENDED"},
   senior : Nullable(Decision), final : {None, "APPROVED", "REJECTED"},
   due : {None, "RUNNING", "PAST"}, qty : BOOLEAN,
   outcome : {None, "ACCEPTED_UNDER_DEVIATION", "REJECTED", "AUTO_CLOSED"}]

ImirStatus ==
  {"DEPT_REVIEW", "IQC_HEAD_FINAL", "SENIOR_ESCALATION", "UNDER_DEVIATION", "QTY_VERIFICATION",
   "CLOSED_UNDER_DEVIATION", "CLOSED_REJECTED", "AUTO_CLOSED"}

\* Every column holds a value its table admits.
TypeOK ==
  /\ dev \in DeviationRow
  /\ imir \in ImirStatus
  /\ round \in Round /\ round.no \in 0..MaxRounds
  /\ worker \in [job : {None, "ESCALATION", "AUTO_CLOSE"}, no : 0..MaxRounds]
  /\ clock \in 0..MaxOverrides
  /\ asked \in [User -> 0..MaxOverrides]

\* A lot is taken under deviation only on a Deviation Form the department approved or the senior
\* authorities approved, never against a senior rejection; and, unless it is used as it is, it is
\* accepted only with quantities entered (final_approve, override, verify_qty, the timers).
AcceptedLotIsEndorsed ==
  imir \in {"UNDER_DEVIATION", "QTY_VERIFICATION", "CLOSED_UNDER_DEVIATION", "AUTO_CLOSED"} =>
    /\ dev.final = "APPROVED"
    /\ dev.form
    /\ dev.senior # "REJECT"
    /\ dev.senior = "APPROVE" \/ dev.deptOutcome = "APPROVED"
    /\ imir = "CLOSED_UNDER_DEVIATION" => dev.action = "UAI" \/ dev.qty

\* A lot is rejected only when the senior authorities rejected it, or the department did not
\* approve it and no senior authority overruled that (final_reject after every path to FINAL).
RejectedLotIsEndorsed ==
  imir = "CLOSED_REJECTED" =>
    /\ dev.final = "REJECTED"
    /\ \/ dev.senior = "REJECT"
       \/ dev.senior = None /\ dev.deptOutcome \in {"REJECTED", "REJECT_RECOMMENDED"}

\* The deviation waits for the senior authorities exactly while a round is open, and the senior
\* outcome the IQC Head must follow is the one recorded in its last round (settleRound, override).
SeniorOutcomeIsTheRounds ==
  /\ dev.stage = "SENIOR" <=> round.status = "OPEN"
  /\ dev.senior \in SeniorFinal => round.status = "COMPLETE" /\ round.effective = dev.senior

\* An open round always waits for an authority that can still decide: no order of decisions and
\* timeouts leaves it open with nobody to close it (resolveEscalation, runEscalationTimeouts).
OpenRoundWaitsForSomeone ==
  round.status = "OPEN" => \E a \in Authority : round.step[a] = "PENDING"

\* Rules 1 to 3 read off a closed round that nobody overrode: its outcome is the decision of an
\* authority above whom everyone asked has timed out; CQA's counts only with PDC's recorded if PDC
\* was asked; when the Operations Head timed out, CQA was in the round.
HighestAuthorityPrevails ==
  round.status = "COMPLETE" /\ ~Overridden(round) =>
    /\ \E a \in Authority :
         /\ round.step[a] = "DECIDED" /\ round.effective = round.decided[a]
         /\ \A b \in Authority : Rank[b] > Rank[a] => round.step[b] \in {"NONE", "TIMED_OUT"}
         /\ a = "CQA_HEAD" => round.step["PDC_HEAD"] \in {"NONE", "DECIDED"}
    /\ round.step["CENTRAL_OPS_HEAD"] = "TIMED_OUT" => round.step["CQA_HEAD"] # "NONE"

\* A recorded senior decision keeps counting: no timer, override or later decision of the same
\* round changes it or takes its step back (the timer against a decision made in time).
DecisionsStand ==
  [][round'.no = round.no =>
       \A a \in Authority : round.step[a] = "DECIDED" =>
         round'.step[a] = "DECIDED" /\ round'.decided[a] = round.decided[a]]_vars

\* A closed deviation and its lot stay as they were closed: a timer that read them as due before,
\* or an override asked for before, finds them closed (act, runAutoClose).
ClosedStaysClosed ==
  [][dev.stage = "CLOSED" => UNCHANGED <<dev, imir, round>>]_vars

\* The Operations Head cannot hold a round up for ever (rule 3 and the worker's timer).
OperationsHeadSilenceEnds ==
  round.step["CENTRAL_OPS_HEAD"] = "PENDING" ~> round.step["CENTRAL_OPS_HEAD"] # "PENDING"

\* Awaited quantities are entered or the deviation closes itself (runAutoClose).
AwaitedQuantitiesEnd == dev.stage = "UNDER_DEVIATION" ~> dev.stage # "UNDER_DEVIATION"

\* What the worker's timers are for: the two waits that have an end do end, also when quantities were
\* returned or a new round was opened in between. The silence of a department, the IQC Head, another
\* senior, or of the In-Charge over entered quantities has no timer and may last for ever.
TimedWaitsEnd == OperationsHeadSilenceEnds /\ AwaitedQuantitiesEnd

StandingAnswer ==
  LET seniors == dev.senior \in SeniorFinal IN
    [by |-> IF seniors THEN "SENIORS" ELSE "DEPARTMENT",
     is |-> IF (IF seniors THEN dev.senior = "APPROVE" ELSE dev.deptOutcome = "APPROVED")
            THEN "FOR" ELSE "AGAINST"]

\* The deviation is a case the IQC Head closes as the standing answer says (DeviationCase): the
\* department's until the seniors give theirs, none while the department has the case.
Case ==
  INSTANCE DeviationCase WITH
    phase <- CASE dev.stage \in {"INITIATOR", "HEAD"} -> "DEPARTMENT"
               [] dev.stage = "FINAL"                 -> "DECISION"
               [] dev.stage = "SENIOR"                -> "SENIORS"
               [] dev.stage = "CLOSED"                -> "CLOSED"
               [] OTHER                               -> "QUANTITIES",
    answer <- IF dev.stage \in {"INITIATOR", "HEAD"} THEN [by |-> "NOBODY", is |-> "NONE"] ELSE StandingAnswer,
    outcome <- CASE dev.outcome = "ACCEPTED_UNDER_DEVIATION" -> "ACCEPTED"
                 [] dev.outcome = "REJECTED"                 -> "REJECTED"
                 [] dev.outcome = "AUTO_CLOSED"              -> "LAPSED"
                 [] OTHER                                    -> "NONE"

ImplementsDeviationCase == Case!Spec

-----------------------------------------------------------------------------
(* What a comment says of the program and the code does not do *)

\* "Once accepted, the deviation is the accepting user's (System Admin can stand in)": while the
\* department has to act, the user who accepted the deviation may.
AccepterMayAct ==
  dev.stage \in {"INITIATOR", "UNDER_DEVIATION"} /\ dev.dept # None =>
    MayActForDepartment(dev.acceptedBy)

\* "the latest override is final": the decision the rules resolve from the recorded history is the
\* one the IQC Head has to follow.
LatestOverrideIsFinal ==
  dev.senior \in SeniorFinal => Effective(round) = dev.senior

=============================================================================
