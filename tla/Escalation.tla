----------------------------- MODULE Escalation -----------------------------
(***************************************************************************)
(* The rules of a senior escalation round: resolveEscalation and           *)
(* applyTimeouts of packages/shared/src/logic/escalation.js.               *)
(*                                                                         *)
(* A round is a record                                                     *)
(*   no        its number; 0 stands for "no round yet"                     *)
(*   status    "OPEN" or "COMPLETE" (None before the first round)          *)
(*   step      the status of each authority's step; "NONE": not asked      *)
(*   decided   the normal decision an authority recorded, or None          *)
(*   override  the OVERRIDE with the greatest decided_at, or NoOverride    *)
(*   effective the effective_decision column                               *)
(*   opsDue    the 24-hour clock of the Central Operations Head's step     *)
(*                                                                         *)
(* escalation_decision is append-only and the resolution reads only the    *)
(* latest row by decided_at: of a role's normal decisions there is one     *)
(* (a decided step is never PENDING again), of the overrides the round     *)
(* keeps the latest by time, which RecordOverride computes.                *)
(***************************************************************************)
EXTENDS Integers

None == "-"

Authority == {"PLANT_HEAD", "PLANT_QA_HEAD", "PDC_HEAD", "CQA_HEAD", "CENTRAL_OPS_HEAD"}

Rank == [a \in Authority |->
          CASE a = "PLANT_HEAD"       -> 1
            [] a = "PLANT_QA_HEAD"    -> 2
            [] a = "PDC_HEAD"         -> 3
            [] a = "CQA_HEAD"         -> 4
            [] a = "CENTRAL_OPS_HEAD" -> 5]

Decision == {"APPROVE", "REJECT", "CHANGE_TYPE"}
OverrideDecision == {"APPROVE", "REJECT"}
StepStatus == {"NONE", "PENDING", "DECIDED", "TIMED_OUT", "NOT_REQUIRED"}

NoOverride == [decision |-> None, at |-> 0]

Round ==
  [no : Nat, status : {None, "OPEN", "COMPLETE"}, step : [Authority -> StepStatus],
   decided : [Authority -> Decision \cup {None}],
   override : {NoOverride} \cup [decision : OverrideDecision, at : Nat],
   effective : Decision \cup {None}, opsDue : {None, "RUNNING", "PAST"}]

NoRound ==
  [no |-> 0, status |-> None, step |-> [a \in Authority |-> "NONE"],
   decided |-> [a \in Authority |-> None], override |-> NoOverride,
   effective |-> None, opsDue |-> None]

\* A new round: every chosen authority pending, the Operations Head with a 24-hour clock.
OpenRound(no, chosen) ==
  [no |-> no, status |-> "OPEN",
   step |-> [a \in Authority |-> IF a \in chosen THEN "PENDING" ELSE "NONE"],
   decided |-> [a \in Authority |-> None], override |-> NoOverride, effective |-> None,
   opsDue |-> IF "CENTRAL_OPS_HEAD" \in chosen THEN "RUNNING" ELSE None]

-----------------------------------------------------------------------------
(* Resolution *)

Active(r) == {a \in Authority : r.step[a] \in {"PENDING", "DECIDED"}}
HasDecided(r) == {a \in Active(r) : r.decided[a] # None}
Highest(S) == CHOOSE a \in S : \A b \in S : Rank[b] <= Rank[a]

Overridden(r) == r.override.decision # None

\* Rule 2: CQA has the deciding voice but PDC, also asked, has not recorded its decision.
PendingPdc(r) ==
  /\ HasDecided(r) # {}
  /\ Highest(HasDecided(r)) = "CQA_HEAD"
  /\ "PDC_HEAD" \in Active(r) \ HasDecided(r)

\* Broken variant: the first decision closes the round.
CompleteOnFirstDecision(r) == Overridden(r) \/ HasDecided(r) # {}

Complete(r) ==
  \/ Overridden(r)
  \/ /\ Active(r) # {}
     /\ Highest(Active(r)) \in HasDecided(r)
     /\ ~PendingPdc(r)

\* Rule 4, else Rule 1.
Effective(r) ==
  IF Overridden(r) THEN r.override.decision
  ELSE IF HasDecided(r) # {} THEN r.decided[Highest(HasDecided(r))]
  ELSE None

\* settleRound closing a complete round: who is still pending is no longer asked.
Settled(r) ==
  [r EXCEPT !.status = "COMPLETE", !.effective = Effective(r),
            !.step = [a \in Authority |-> IF @[a] = "PENDING" THEN "NOT_REQUIRED" ELSE @[a]]]

-----------------------------------------------------------------------------
(* What is recorded in a round *)

RecordDecision(r, a, d) == [r EXCEPT !.decided[a] = d, !.step[a] = "DECIDED"]

\* decided_at is the start of the transaction; of equal times the later row is the later one.
RecordOverride(r, d, at) ==
  IF r.override.at <= at THEN [r EXCEPT !.override = [decision |-> d, at |-> at]] ELSE r

\* Rule 3: the Operations Head's step that is still undecided when its 24 hours have passed.
OpsOverdue(r) == r.step["CENTRAL_OPS_HEAD"] = "PENDING" /\ r.opsDue = "PAST"

\* Broken variants: the timeout passes the question to nobody; it asks the CQA Head again.
TimeOutOpsAlone(r) == [r EXCEPT !.step["CENTRAL_OPS_HEAD"] = "TIMED_OUT"]
TimeOutOpsAsksAgain(r) ==
  [r EXCEPT !.step["CENTRAL_OPS_HEAD"] = "TIMED_OUT", !.step["CQA_HEAD"] = "PENDING"]

TimeOutOps(r) ==
  [r EXCEPT !.step["CENTRAL_OPS_HEAD"] = "TIMED_OUT",
            !.step["CQA_HEAD"] = IF @ \in {"NONE", "NOT_REQUIRED"} THEN "PENDING" ELSE @]
=============================================================================
