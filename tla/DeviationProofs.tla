--------------------------- MODULE DeviationProofs ---------------------------
(***************************************************************************)
(* Theorems of Escalation, Deviation and DeviationReversal, for every set  *)
(* of users, every assignment of roles and every bound.                    *)
(*                                                                         *)
(* The properties are not inductive: that a lot is endorsed when it is     *)
(* closed depends on what each stage on the way there has established, and *)
(* the outcome of a round on how its steps stood while it was open. IInv   *)
(* adds both, in two parts: TrackInv is kept by every handler whatever the *)
(* last round says, so it is also what survives when decisions are undone; *)
(* OutcomeInv ties the senior outcome to the last round.                   *)
(*                                                                         *)
(* With reversals, a restored row is as good as it was when it was kept:   *)
(* the invariant is TrackInv of the deviation and of every row in the      *)
(* history. OutcomeInv is not part of it: a reversal that ends an open     *)
(* round gives it no outcome, and one that takes the senior column back    *)
(* leaves a closed round as it is.                                         *)
(***************************************************************************)
EXTENDS DeviationReversal, ReversalRulesProofs

-----------------------------------------------------------------------------
(* The rules of an escalation round *)

\* Ranks are numbers and no two authorities share one.
LEMMA RankIsInjective ==
  /\ Rank \in [Authority -> 1..5]
  /\ \A a, b \in Authority : Rank[a] = Rank[b] => a = b
BY DEF Rank, Authority

\* Highest names a member of the set that nobody in it outranks.
LEMMA HighestIsHighest ==
  ASSUME NEW S \in SUBSET Authority, S # {}
  PROVE  Highest(S) \in S /\ \A b \in S : Rank[b] <= Rank[Highest(S)]
<1>1. \E a \in S : \A b \in S : Rank[b] <= Rank[a]
  <2>1. CASE "CENTRAL_OPS_HEAD" \in S
    BY <2>1 DEF Rank, Authority
  <2>2. CASE "CENTRAL_OPS_HEAD" \notin S /\ "CQA_HEAD" \in S
    BY <2>2 DEF Rank, Authority
  <2>3. CASE "CENTRAL_OPS_HEAD" \notin S /\ "CQA_HEAD" \notin S /\ "PDC_HEAD" \in S
    BY <2>3 DEF Rank, Authority
  <2>4. CASE S \subseteq {"PLANT_HEAD", "PLANT_QA_HEAD"}
    BY <2>4 DEF Rank, Authority
  <2>5. QED
    BY <2>1, <2>2, <2>3, <2>4 DEF Authority
<1>2. QED
  BY <1>1 DEF Highest

-----------------------------------------------------------------------------
(* The operations keep a round a round *)

LEMMA OpenRoundType ==
  ASSUME NEW no \in Nat, NEW chosen \in SUBSET Authority
  PROVE  OpenRound(no, chosen) \in Round
BY DEF OpenRound, Round, StepStatus, NoOverride

LEMMA RecordDecisionType ==
  ASSUME NEW r \in Round, NEW a \in Authority, NEW d \in Decision
  PROVE  RecordDecision(r, a, d) \in Round
BY DEF RecordDecision, Round, StepStatus

LEMMA RecordOverrideType ==
  ASSUME NEW r \in Round, NEW d \in OverrideDecision, NEW at \in Nat
  PROVE  RecordOverride(r, d, at) \in Round
BY DEF RecordOverride, Round

LEMMA TimeOutOpsType ==
  ASSUME NEW r \in Round
  PROVE  TimeOutOps(r) \in Round
BY DEF TimeOutOps, Round, StepStatus

\* A complete round has an outcome among the senior decisions.
LEMMA CompleteHasOutcome ==
  ASSUME NEW r \in Round, Complete(r)
  PROVE  Effective(r) \in Decision
<1>1. CASE Overridden(r)
  BY <1>1 DEF Overridden, Effective, Round, NoOverride, OverrideDecision, Decision
<1>2. CASE ~Overridden(r)
  <2>1. HasDecided(r) # {}
    BY <1>2 DEF Complete
  <2>2. Highest(HasDecided(r)) \in HasDecided(r)
    BY <2>1, HighestIsHighest DEF HasDecided, Active
  <2>3. QED
    BY <1>2, <2>1, <2>2 DEF Effective, HasDecided, Active, Round
<1>3. QED
  BY <1>1, <1>2

LEMMA SettledType ==
  ASSUME NEW r \in Round, Complete(r)
  PROVE  Settled(r) \in Round
BY CompleteHasOutcome DEF Settled, Round, StepStatus

-----------------------------------------------------------------------------
(* No dead end, and the outcome of a settled round *)

\* When everyone who is still asked has decided, the round is complete: resolveEscalation never
\* waits for an authority that has nothing left to do.
THEOREM AllDecidedIsComplete ==
  ASSUME NEW r \in Round, Active(r) # {}, Active(r) \subseteq HasDecided(r)
  PROVE  Complete(r)
<1>1. Highest(Active(r)) \in Active(r)
  BY HighestIsHighest DEF Active
<1>2. ~PendingPdc(r)
  BY DEF PendingPdc
<1>3. QED
  BY <1>1, <1>2 DEF Complete

\* The outcome rules 1 to 3 ask for, of a round that nobody overrode.
FollowsTheRanks(r) ==
  /\ \E a \in Authority :
       /\ r.step[a] = "DECIDED" /\ r.effective = r.decided[a]
       /\ \A b \in Authority : Rank[b] > Rank[a] => r.step[b] \in {"NONE", "TIMED_OUT"}
       /\ a = "CQA_HEAD" => r.step["PDC_HEAD"] \in {"NONE", "DECIDED"}
  /\ r.step["CENTRAL_OPS_HEAD"] = "TIMED_OUT" => r.step["CQA_HEAD"] # "NONE"

\* What the steps and decisions of a round under way say about each other.
StepsAgree(r) ==
  /\ \A a \in Authority :
       /\ r.step[a] # "NOT_REQUIRED"
       /\ r.step[a] = "DECIDED" <=> r.decided[a] # None
       /\ r.step[a] = "TIMED_OUT" => a = "CENTRAL_OPS_HEAD"
  /\ r.step["CENTRAL_OPS_HEAD"] = "TIMED_OUT" => r.step["CQA_HEAD"] # "NONE"

\* Settling a complete round gives it the outcome of the highest authority still asked.
THEOREM SettledFollowsTheRanks ==
  ASSUME NEW r \in Round, StepsAgree(r), Complete(r), ~Overridden(r)
  PROVE  FollowsTheRanks(Settled(r))
<1> DEFINE top == Highest(Active(r))
           q   == Settled(r)
<1>1. Active(r) # {} /\ top \in HasDecided(r) /\ ~PendingPdc(r)
  BY DEF Complete
<1>2. top \in Active(r) /\ \A b \in Active(r) : Rank[b] <= Rank[top]
  BY <1>1, HighestIsHighest DEF Active
<1>3. HasDecided(r) \subseteq Active(r) /\ Active(r) \subseteq Authority
  BY DEF HasDecided, Active
<1>4. Highest(HasDecided(r)) = top
  <2>1. /\ Highest(HasDecided(r)) \in HasDecided(r)
        /\ Rank[top] <= Rank[Highest(HasDecided(r))]
    BY <1>1, <1>3, HighestIsHighest
  <2>2. Rank[Highest(HasDecided(r))] <= Rank[top]
    BY <1>2, <1>3, <2>1
  <2>3. Rank[Highest(HasDecided(r))] = Rank[top]
    BY <1>2, <1>3, <2>1, <2>2, RankIsInjective
  <2>4. QED
    BY <1>2, <1>3, <2>1, <2>3, RankIsInjective
<1>5. /\ q.effective = r.decided[top]
      /\ q.decided = r.decided
      /\ q.step = [a \in Authority |-> IF r.step[a] = "PENDING" THEN "NOT_REQUIRED" ELSE r.step[a]]
  BY <1>1, <1>4 DEF Settled, Effective, Round
<1>6. top \in Authority /\ r.step[top] = "DECIDED"
  BY <1>1, <1>3 DEF HasDecided, StepsAgree
<1>7. \A b \in Authority : Rank[b] > Rank[top] => q.step[b] \in {"NONE", "TIMED_OUT"}
  <2>1. ASSUME NEW b \in Authority, Rank[b] > Rank[top] PROVE r.step[b] \in {"NONE", "TIMED_OUT"}
    <3>1. b \notin Active(r)
      BY <1>2, <1>6, <2>1, RankIsInjective
    <3>2. r.step[b] \in StepStatus \ {"PENDING", "DECIDED", "NOT_REQUIRED"}
      BY <3>1 DEF Active, Round, StepsAgree
    <3>3. QED
      BY <3>2 DEF StepStatus
  <2>2. QED
    BY <1>5, <2>1
<1>8. top = "CQA_HEAD" => q.step["PDC_HEAD"] \in {"NONE", "DECIDED"}
  <2>1. SUFFICES ASSUME top = "CQA_HEAD" PROVE q.step["PDC_HEAD"] \in {"NONE", "DECIDED"}
    OBVIOUS
  <2>2. "PDC_HEAD" \notin Active(r) \ HasDecided(r)
    BY <1>1, <1>4, <2>1 DEF PendingPdc
  <2>3. "PDC_HEAD" \in Authority
    BY DEF Authority
  <2>4. r.step["PDC_HEAD"] \in {"NONE", "DECIDED"}
    BY <2>2, <2>3 DEF Active, HasDecided, StepsAgree, Round, StepStatus
  <2>5. QED
    BY <1>5, <2>3, <2>4
<1>9. q.step["CENTRAL_OPS_HEAD"] = "TIMED_OUT" => q.step["CQA_HEAD"] # "NONE"
  BY <1>5 DEF StepsAgree, Authority
<1>10. QED
  BY <1>5, <1>6, <1>7, <1>8, <1>9 DEF FollowsTheRanks

-----------------------------------------------------------------------------
(* The inductive invariant *)

\* The IMIR row shows where the deviation is.
LotFollows == imir = ImirStatusOf(dev)

\* What the columns of the deviation say about each other at each stage.
Endorsed(d) ==
  /\ d.final = "APPROVED" /\ d.form /\ d.senior # "REJECT"
  /\ d.senior = "APPROVE" \/ d.deptOutcome = "APPROVED"

StageInv(d) ==
  /\ d.stage = "INITIATOR" => d.senior \in {None, "CHANGE_TYPE"}
  /\ d.stage \in {"HEAD", "SENIOR"} => d.senior = None
  /\ d.stage = "FINAL" => d.senior # "CHANGE_TYPE"
  /\ d.stage \in {"FINAL", "SENIOR"} => d.deptOutcome # None
  /\ d.stage \in {"UNDER_DEVIATION", "QTY_VERIFICATION"} => Endorsed(d)
  /\ d.stage = "QTY_VERIFICATION" => d.qty
  /\ d.stage = "CLOSED" =>
       \/ /\ d.outcome \in {"ACCEPTED_UNDER_DEVIATION", "AUTO_CLOSED"} /\ Endorsed(d)
          /\ d.outcome = "ACCEPTED_UNDER_DEVIATION" => d.action = "UAI" \/ d.qty
       \/ /\ d.outcome = "REJECTED" /\ d.final = "REJECTED"
          /\ \/ d.senior = "REJECT"
             \/ d.senior = None /\ d.deptOutcome \in {"REJECTED", "REJECT_RECOMMENDED"}

\* A round is open only while it waits for somebody and the rules have no answer yet.
OpenInv(r) == Active(r) # {} /\ ~Complete(r) /\ StepsAgree(r)

RoundFollows ==
  /\ dev.stage = "SENIOR" <=> round.status = "OPEN"
  /\ round.status = "OPEN" => OpenInv(round)

\* What the handlers keep whatever the last round says: it also holds when decisions are undone.
TrackInv == TypeOK /\ LotFollows /\ StageInv(dev) /\ RoundFollows

\* The senior outcome is the last round's, and that is the rules'. No reversal keeps it.
OutcomeInv ==
  /\ dev.senior \in SeniorFinal => round.status = "COMPLETE" /\ round.effective = dev.senior
  /\ HighestAuthorityPrevails

IInv == TrackInv /\ OutcomeInv

\* A step keeps the one, and the other if it held.
Kept == TrackInv' /\ (OutcomeInv => OutcomeInv')

-----------------------------------------------------------------------------
(* What the shared parts of the handlers preserve *)

\* The IMIR status that move() computes is one of the deviation track's.
LEMMA ImirStatusType ==
  ASSUME NEW d \in DeviationRow
  PROVE  ImirStatusOf(d) \in ImirStatus
<1>1. CASE d.stage \in {"UNDER_DEVIATION", "QTY_VERIFICATION"}
  BY <1>1 DEF ImirStatusOf, ImirStatus
<1>2. CASE d.stage = "CLOSED"
  BY <1>2 DEF ImirStatusOf, ImirStatus
<1>3. CASE d.stage \in {"INITIATOR", "HEAD", "FINAL", "SENIOR"}
  BY <1>3 DEF ImirStatusOf, ImirStatus
<1>4. QED
  BY <1>1, <1>2, <1>3 DEF DeviationRow, Stage

LEMMA MoveType ==
  ASSUME NEW d \in DeviationRow, Move(d)
  PROVE  dev' \in DeviationRow /\ imir' \in ImirStatus /\ LotFollows'
<1>1. ImirStatusOf(dev)' = ImirStatusOf(d)
  BY DEF Move, ImirStatusOf
<1>2. QED
  BY <1>1, ImirStatusType DEF Move, LotFollows

\* A step outside senior escalation that keeps or drops the senior outcome leaves the round's
\* invariants alone.
LEMMA RoundUntouched ==
  ASSUME RoundFollows, round' = round, dev.stage # "SENIOR", dev'.stage # "SENIOR"
  PROVE  RoundFollows'
BY DEF RoundFollows

LEMMA OutcomeUntouched ==
  ASSUME round' = round, dev'.senior \in {dev.senior, None}
  PROVE  OutcomeInv => OutcomeInv'
BY DEF OutcomeInv, HighestAuthorityPrevails, SeniorFinal, None, Overridden

\* settleRound of the deviation's own round, by a step that recorded something in it.
LEMMA SettleStep ==
  ASSUME TypeOK, LotFollows, StageInv(dev), dev.stage = "SENIOR",
         NEW r \in Round, r.no \in 0..MaxRounds, r.status = "OPEN",
         Active(r) # {}, StepsAgree(r), Settle(r)
  PROVE  /\ dev' \in DeviationRow /\ imir' \in ImirStatus
         /\ round' \in Round /\ round'.no \in 0..MaxRounds
         /\ LotFollows' /\ StageInv(dev)' /\ RoundFollows' /\ OutcomeInv'
<1>1. CASE ~Complete(r)
  <2>1. round' = r /\ dev' = dev /\ imir' = imir
    BY <1>1 DEF Settle
  <2>2. dev' \in DeviationRow /\ imir' \in ImirStatus /\ round' \in Round /\ round'.no \in 0..MaxRounds
    BY <2>1 DEF TypeOK
  <2>3. LotFollows' /\ StageInv(dev)'
    BY <2>1 DEF LotFollows, ImirStatusOf, StageInv, Endorsed
  <2>4. OpenInv(r)
    BY <1>1 DEF OpenInv
  <2>5. RoundFollows'
    <3>1. OpenInv(round')
      BY <2>1, <2>4
    <3>2. QED
      BY <2>1, <3>1 DEF RoundFollows
  <2>6. OutcomeInv'
    BY <2>1 DEF OutcomeInv, HighestAuthorityPrevails, StageInv, SeniorFinal, None
  <2>7. QED
    BY <2>2, <2>3, <2>5, <2>6
<1>2. CASE Complete(r)
  <2> DEFINE d == IF Effective(r) = "CHANGE_TYPE"
                  THEN [dev EXCEPT !.stage = "INITIATOR", !.senior = "CHANGE_TYPE", !.deptOutcome = None]
                  ELSE [dev EXCEPT !.stage = "FINAL", !.senior = Effective(r)]
  <2>1. round' = Settled(r) /\ Move(d)
    BY <1>2 DEF Settle
  <2>2. Effective(r) \in Decision
    BY <1>2, CompleteHasOutcome
  <2>3. d \in DeviationRow
    BY <2>2 DEF TypeOK, DeviationRow, Stage, Nullable, Decision
  <2>4. dev' \in DeviationRow /\ imir' \in ImirStatus /\ LotFollows'
    BY <2>1, <2>3, MoveType
  <2>5. dev' = d
    BY <2>1 DEF Move
  <2>6. round' \in Round /\ round'.no = r.no /\ round'.status = "COMPLETE" /\ round'.effective = Effective(r)
    BY <1>2, <2>1, SettledType DEF Settled, Round
  <2>7. StageInv(dev)'
    BY <2>2, <2>5 DEF StageInv, TypeOK, DeviationRow, Decision, None
  <2>8. RoundFollows'
    BY <2>5, <2>6 DEF RoundFollows, TypeOK, DeviationRow
  <2>9. HighestAuthorityPrevails'
    <3>1. SUFFICES ASSUME ~Overridden(round') PROVE FollowsTheRanks(round')
      BY DEF HighestAuthorityPrevails, FollowsTheRanks
    <3>2. ~Overridden(r)
      BY <2>1, <3>1 DEF Settled, Overridden, Round
    <3>3. QED
      BY <1>2, <2>1, <3>2, SettledFollowsTheRanks
  <2>10. OutcomeInv'
    BY <2>2, <2>5, <2>6, <2>9 DEF OutcomeInv, TypeOK, DeviationRow, SeniorFinal, Decision
  <2>11. QED
    BY <2>4, <2>6, <2>7, <2>8, <2>10
<1>3. QED
  BY <1>1, <1>2

-----------------------------------------------------------------------------
(* Recording in an open round keeps what its steps say consistent *)

LEMMA DecisionKeepsStepsAgree ==
  ASSUME NEW r \in Round, StepsAgree(r), NEW a \in Authority, r.step[a] = "PENDING", NEW d \in Decision
  PROVE  LET q == RecordDecision(r, a, d)
         IN  Active(q) # {} /\ StepsAgree(q) /\ q.no = r.no /\ q.status = r.status
<1> DEFINE q == RecordDecision(r, a, d)
<1>1. /\ q.step = [r.step EXCEPT ![a] = "DECIDED"] /\ q.decided = [r.decided EXCEPT ![a] = d]
      /\ q.no = r.no /\ q.status = r.status
  BY DEF RecordDecision, Round
<1>2. a \in Active(q)
  BY <1>1 DEF Active, Round
<1>3. d # None
  BY DEF Decision, None
<1>4. StepsAgree(q)
  BY <1>1, <1>3 DEF StepsAgree, Round, Authority
<1>5. QED
  BY <1>1, <1>2, <1>4

LEMMA OverrideKeepsStepsAgree ==
  ASSUME NEW r \in Round, StepsAgree(r), Active(r) # {}, NEW d \in OverrideDecision, NEW at \in Nat
  PROVE  LET q == RecordOverride(r, d, at)
         IN  Active(q) # {} /\ StepsAgree(q) /\ q.no = r.no /\ q.status = r.status
<1> DEFINE q == RecordOverride(r, d, at)
<1>1. q.step = r.step /\ q.decided = r.decided /\ q.no = r.no /\ q.status = r.status
  BY DEF RecordOverride, Round
<1>2. QED
  BY <1>1 DEF Active, StepsAgree

LEMMA TimeoutKeepsStepsAgree ==
  ASSUME NEW r \in Round, StepsAgree(r), OpsOverdue(r)
  PROVE  LET q == TimeOutOps(r)
         IN  Active(q) # {} /\ StepsAgree(q) /\ q.no = r.no /\ q.status = r.status
<1> DEFINE q == TimeOutOps(r)
<1>1. /\ q.decided = r.decided /\ q.no = r.no /\ q.status = r.status
      /\ \A a \in Authority :
           q.step[a] = CASE a = "CENTRAL_OPS_HEAD" -> "TIMED_OUT"
                         [] a = "CQA_HEAD" /\ r.step[a] \in {"NONE", "NOT_REQUIRED"} -> "PENDING"
                         [] OTHER -> r.step[a]
  BY DEF TimeOutOps, Round, Authority
<1>2. "CQA_HEAD" \in Active(q)
  BY <1>1 DEF Active, StepsAgree, Authority, Round, StepStatus
<1>3. StepsAgree(q)
  BY <1>1 DEF StepsAgree, OpsOverdue, Authority
<1>4. QED
  BY <1>1, <1>2, <1>3
-----------------------------------------------------------------------------
(* The invariant is established and kept *)

LEMMA InitEstablishes == Init => IInv
<1> SUFFICES ASSUME Init PROVE IInv
  OBVIOUS
<1>1. dev \in DeviationRow /\ imir \in ImirStatus
  BY DEF Init, NewDeviation, DeviationRow, Stage, Nullable, ImirStatus
<1>2. round \in Round /\ round.no \in 0..MaxRounds
  BY ConstantsAssumption DEF Init, NoRound, NoOverride, Round, StepStatus
<1>3. TypeOK
  BY <1>1, <1>2, ConstantsAssumption DEF Init, TypeOK, Idle
<1>4. LotFollows
  BY DEF Init, NewDeviation, LotFollows, ImirStatusOf
<1>5. StageInv(dev)
  BY DEF Init, NewDeviation, StageInv
<1>6. RoundFollows /\ OutcomeInv
  BY DEF Init, NewDeviation, NoRound, None, RoundFollows, OutcomeInv, SeniorFinal, HighestAuthorityPrevails
<1>7. QED
  BY <1>3, <1>4, <1>5, <1>6 DEF IInv, TrackInv

\* A move outside senior escalation: enough that the new row is a row, that its stage claims what
\* it may, and that it keeps the senior outcome or drops it.
LEMMA MoveKeeps ==
  ASSUME TrackInv, NEW d \in DeviationRow, Move(d), round' = round,
         dev.stage # "SENIOR", d.stage # "SENIOR", d.senior \in {dev.senior, None},
         worker' = worker, clock' = clock, asked' = asked, StageInv(dev)'
  PROVE  Kept
<1>1. dev' = d
  BY DEF Move
<1>2. RoundFollows' /\ (OutcomeInv => OutcomeInv')
  BY <1>1, RoundUntouched, OutcomeUntouched DEF TrackInv
<1>3. dev' \in DeviationRow /\ imir' \in ImirStatus /\ LotFollows'
  BY MoveType
<1>4. QED
  BY <1>2, <1>3 DEF Kept, TrackInv, TypeOK

LEMMA DepartmentStep == TrackInv /\ DepartmentNext => Kept
<1> SUFFICES ASSUME TrackInv, NEW u \in User,
                    \/ \E d \in Department : Accept(u, d)
                    \/ \E action \in FormAction : SubmitForm(u, action)
                    \/ RecommendReject(u) \/ DeptApprove(u) \/ SendBack(u) \/ DeptReject(u)
                    \/ EnterQty(u)
             PROVE  Kept
  BY DEF DepartmentNext
<1> USE DEF requests, None
<1>0. dev \in DeviationRow /\ StageInv(dev)
  BY DEF TrackInv, TypeOK
<1>1. ASSUME NEW d \in Department, Accept(u, d) PROVE Kept
  <2> DEFINE n == [dev EXCEPT !.dept = d, !.acceptedBy = u, !.initiator = u]
  <2>1. n \in DeviationRow /\ n.stage = "INITIATOR" /\ n.senior = dev.senior
    BY <1>0, <1>1 DEF Accept, DeviationRow, Nullable
  <2>2. Move(n) /\ round' = round /\ worker' = worker /\ clock' = clock /\ asked' = asked
    BY <1>1 DEF Accept
  <2>3. StageInv(dev)'
    BY <1>0, <1>1, <2>1, <2>2 DEF Accept, Move, StageInv
  <2>4. QED
    BY <1>1, <2>1, <2>2, <2>3, MoveKeeps DEF Accept
<1>2. ASSUME NEW action \in FormAction, SubmitForm(u, action) PROVE Kept
  <2> DEFINE n == [dev EXCEPT !.stage = "HEAD", !.initiator = u, !.action = action, !.form = TRUE,
                              !.deptOutcome = None, !.senior = None]
  <2>1. n \in DeviationRow /\ n.stage = "HEAD" /\ n.senior = None
    BY <1>0, ConstantsAssumption DEF DeviationRow, Stage, Nullable
  <2>2. Move(n) /\ round' = round /\ worker' = worker /\ clock' = clock /\ asked' = asked
    BY <1>2 DEF SubmitForm
  <2>3. StageInv(dev)'
    BY <2>1, <2>2 DEF Move, StageInv
  <2>4. QED
    BY <1>2, <2>1, <2>2, <2>3, MoveKeeps DEF SubmitForm
<1>3. ASSUME RecommendReject(u) PROVE Kept
  <2> DEFINE who == IF dev.initiator = None THEN u ELSE dev.initiator
             n   == [dev EXCEPT !.stage = "HEAD", !.initiator = who,
                                !.deptOutcome = "REJECT_RECOMMENDED", !.senior = None]
  <2>0. who \in Nullable(User)
    BY <1>0 DEF DeviationRow, Nullable
  <2>1. n \in DeviationRow /\ n.stage = "HEAD" /\ n.senior = None
    <3> HIDE DEF who
    <3>1. [dev EXCEPT !.initiator = who] \in DeviationRow
      BY <1>0, <2>0 DEF DeviationRow
    <3>2. n = [[dev EXCEPT !.initiator = who]
                 EXCEPT !.stage = "HEAD", !.deptOutcome = "REJECT_RECOMMENDED", !.senior = None]
      BY <1>0 DEF DeviationRow
    <3>3. QED
      BY <3>1, <3>2 DEF DeviationRow, Stage, Nullable
  <2>2. Move(n) /\ round' = round /\ worker' = worker /\ clock' = clock /\ asked' = asked
    BY <1>3 DEF RecommendReject
  <2>3. StageInv(dev)'
    BY <2>1, <2>2 DEF Move, StageInv
  <2>4. QED
    BY <1>3, <2>1, <2>2, <2>3, MoveKeeps DEF RecommendReject
<1>4. ASSUME DeptApprove(u) PROVE Kept
  <2> DEFINE n == [dev EXCEPT !.stage = "FINAL",
                              !.deptOutcome = IF @ = "REJECT_RECOMMENDED" THEN @ ELSE "APPROVED"]
  <2>1. n \in DeviationRow /\ n.stage = "FINAL" /\ n.senior = None /\ n.deptOutcome # None
    BY <1>0, <1>4 DEF DeptApprove, DeviationRow, Stage, StageInv
  <2>2. Move(n) /\ round' = round /\ worker' = worker /\ clock' = clock /\ asked' = asked
    BY <1>4 DEF DeptApprove
  <2>3. StageInv(dev)'
    BY <2>1, <2>2 DEF Move, StageInv
  <2>4. QED
    BY <1>4, <2>1, <2>2, <2>3, MoveKeeps DEF DeptApprove
<1>5. ASSUME SendBack(u) PROVE Kept
  <2> DEFINE n == [dev EXCEPT !.stage = "INITIATOR", !.deptOutcome = None]
  <2>1. n \in DeviationRow /\ n.stage = "INITIATOR" /\ n.senior = None
    BY <1>0, <1>5 DEF SendBack, DeviationRow, Stage, StageInv
  <2>2. Move(n) /\ round' = round /\ worker' = worker /\ clock' = clock /\ asked' = asked
    BY <1>5 DEF SendBack
  <2>3. StageInv(dev)'
    BY <2>1, <2>2 DEF Move, StageInv
  <2>4. QED
    BY <1>5, <2>1, <2>2, <2>3, MoveKeeps DEF SendBack
<1>6. ASSUME DeptReject(u) PROVE Kept
  <2> DEFINE n == [dev EXCEPT !.stage = "FINAL", !.deptOutcome = "REJECTED"]
  <2>1. n \in DeviationRow /\ n.stage = "FINAL" /\ n.senior = None /\ n.deptOutcome # None
    BY <1>0, <1>6 DEF DeptReject, DeviationRow, Stage, StageInv
  <2>2. Move(n) /\ round' = round /\ worker' = worker /\ clock' = clock /\ asked' = asked
    BY <1>6 DEF DeptReject
  <2>3. StageInv(dev)'
    BY <2>1, <2>2 DEF Move, StageInv
  <2>4. QED
    BY <1>6, <2>1, <2>2, <2>3, MoveKeeps DEF DeptReject
<1>7. ASSUME EnterQty(u) PROVE Kept
  <2> DEFINE n == [dev EXCEPT !.stage = "QTY_VERIFICATION", !.qty = TRUE]
  <2>1. n \in DeviationRow /\ n.stage = "QTY_VERIFICATION" /\ n.senior = dev.senior /\ n.qty
    BY <1>0 DEF DeviationRow, Stage
  <2>2. Move(n) /\ round' = round /\ worker' = worker /\ clock' = clock /\ asked' = asked
    BY <1>7 DEF EnterQty
  <2>3. Endorsed(n)
    BY <1>0, <1>7 DEF EnterQty, DeviationRow, StageInv, Endorsed
  <2>4. StageInv(dev)'
    BY <2>1, <2>2, <2>3 DEF Move, StageInv
  <2>5. QED
    BY <1>7, <2>1, <2>2, <2>4, MoveKeeps DEF EnterQty
<1>8. QED
  BY <1>1, <1>2, <1>3, <1>4, <1>5, <1>6, <1>7

LEMMA InspectionHeadStep == TrackInv /\ InspectionHeadNext => Kept
<1> SUFFICES ASSUME TrackInv, NEW u \in User,
                    \/ FinalApprove(u) \/ FinalReject(u)
                    \/ \E chosen \in (SUBSET Selectable) \ {{}} : Escalate(u, chosen)
                    \/ VerifyQty(u) \/ ReturnQty(u)
             PROVE  Kept
  BY DEF InspectionHeadNext
<1> USE DEF requests, None
<1>0. dev \in DeviationRow /\ StageInv(dev)
  BY DEF TrackInv, TypeOK
<1>1. ASSUME FinalApprove(u) PROVE Kept
  <2> DEFINE n == IF dev.action = "UAI"
                  THEN [dev EXCEPT !.stage = "CLOSED", !.final = "APPROVED",
                                   !.outcome = "ACCEPTED_UNDER_DEVIATION"]
                  ELSE [dev EXCEPT !.stage = "UNDER_DEVIATION", !.final = "APPROVED", !.due = "RUNNING"]
  <2>1. n \in DeviationRow /\ n.stage \in {"CLOSED", "UNDER_DEVIATION"} /\ n.senior = dev.senior
    BY <1>0 DEF DeviationRow, Stage
  <2>2. Move(n) /\ round' = round /\ worker' = worker /\ clock' = clock /\ asked' = asked
    BY <1>1 DEF FinalApprove
  <2>3. Endorsed(n)
    BY <1>0, <1>1 DEF FinalApprove, FinalApproveAllowed, DeviationRow, Endorsed
  <2>4. StageInv(dev)'
    <3>1. dev.action = "UAI" => n.action = "UAI" /\ n.outcome = "ACCEPTED_UNDER_DEVIATION"
      BY <1>0 DEF DeviationRow
    <3>2. dev.action # "UAI" => n.stage = "UNDER_DEVIATION"
      BY <1>0 DEF DeviationRow
    <3> HIDE DEF n
    <3>3. QED
      BY <2>1, <2>2, <2>3, <3>1, <3>2 DEF Move, StageInv
  <2>5. QED
    BY <1>1, <2>1, <2>2, <2>4, MoveKeeps DEF FinalApprove
<1>2. ASSUME FinalReject(u) PROVE Kept
  <2> DEFINE n == [dev EXCEPT !.stage = "CLOSED", !.final = "REJECTED", !.outcome = "REJECTED"]
  <2>1. /\ n \in DeviationRow /\ n.stage = "CLOSED" /\ n.senior = dev.senior
        /\ n.final = "REJECTED" /\ n.outcome = "REJECTED" /\ n.deptOutcome = dev.deptOutcome
    BY <1>0 DEF DeviationRow, Stage
  <2>2. Move(n) /\ round' = round /\ worker' = worker /\ clock' = clock /\ asked' = asked
    BY <1>2 DEF FinalReject
  <2>3. \/ dev.senior = "REJECT"
        \/ dev.senior = None /\ dev.deptOutcome \in {"REJECTED", "REJECT_RECOMMENDED"}
    BY <1>0, <1>2 DEF FinalReject, FinalRejectAllowed, DeviationRow, StageInv, Nullable, Decision
  <2>4. StageInv(dev)'
    BY <2>1, <2>2, <2>3 DEF Move, StageInv
  <2>5. QED
    BY <1>2, <2>1, <2>2, <2>4, MoveKeeps DEF FinalReject
<1>3. ASSUME NEW chosen \in (SUBSET Selectable) \ {{}}, Escalate(u, chosen) PROVE Kept
  <2> DEFINE n == [dev EXCEPT !.stage = "SENIOR"]
             r == OpenRound(round.no + 1, chosen)
  <2>1. n \in DeviationRow /\ n.stage = "SENIOR" /\ n.senior = dev.senior /\ n.deptOutcome = dev.deptOutcome
    BY <1>0 DEF DeviationRow, Stage
  <2>2. Move(n) /\ round' = r /\ worker' = worker /\ clock' = clock /\ asked' = asked
    BY <1>3 DEF Escalate
  <2>3. dev.senior = None
    BY <1>0, <1>3 DEF Escalate, EscalateAllowed, SeniorFinal, StageInv, DeviationRow, Nullable, Decision
  <2>4. StageInv(dev)'
    BY <1>0, <1>3, <2>1, <2>2, <2>3 DEF Escalate, Move, StageInv
  <2>5. dev' \in DeviationRow /\ imir' \in ImirStatus /\ LotFollows'
    BY <2>1, <2>2, MoveType
  <2>6. chosen \subseteq Authority /\ chosen # {}
    BY ConstantsAssumption
  <2>7. round.no + 1 \in 0..MaxRounds /\ round.no + 1 \in Nat
    <3>1. round.no \in 0..MaxRounds /\ round.no < MaxRounds /\ MaxRounds \in Nat
      BY <1>3, ConstantsAssumption DEF Escalate, TrackInv, TypeOK
    <3>2. QED
      BY <3>1
  <2>8. r \in Round /\ r.no \in 0..MaxRounds /\ r.status = "OPEN"
    BY <2>6, <2>7, OpenRoundType DEF OpenRound
  <2>9. OpenInv(r)
    <3>1. /\ \A a \in Authority : r.step[a] = IF a \in chosen THEN "PENDING" ELSE "NONE"
          /\ \A a \in Authority : r.decided[a] = None
          /\ r.override.decision = None
      BY DEF OpenRound, NoOverride
    <3>2. Active(r) # {}
      BY <2>6, <3>1 DEF Active
    <3>3. HasDecided(r) = {} /\ ~Overridden(r)
      BY <3>1 DEF HasDecided, Active, Overridden
    <3>4. StepsAgree(r)
      BY <3>1 DEF StepsAgree, Authority
    <3>5. QED
      BY <3>2, <3>3, <3>4 DEF OpenInv, Complete
  <2>10. RoundFollows'
    <3>1. OpenInv(round') /\ round'.status = "OPEN"
      BY <2>2, <2>8, <2>9
    <3>2. dev'.stage = "SENIOR" /\ dev'.senior = None
      BY <2>1, <2>2, <2>3 DEF Move
    <3>3. QED
      BY <3>1, <3>2 DEF RoundFollows
  <2>11. OutcomeInv'
    BY <2>1, <2>2, <2>3, <2>8 DEF Move, OutcomeInv, HighestAuthorityPrevails, SeniorFinal
  <2>12. TypeOK'
    BY <2>2, <2>5, <2>8 DEF TrackInv, TypeOK
  <2>13. QED
    BY <2>4, <2>5, <2>10, <2>11, <2>12 DEF Kept, TrackInv
<1>4. ASSUME VerifyQty(u) PROVE Kept
  <2> DEFINE n == [dev EXCEPT !.stage = "CLOSED", !.outcome = "ACCEPTED_UNDER_DEVIATION"]
  <2>1. /\ n \in DeviationRow /\ n.stage = "CLOSED" /\ n.senior = dev.senior
        /\ n.outcome = "ACCEPTED_UNDER_DEVIATION" /\ n.qty = dev.qty
    BY <1>0 DEF DeviationRow, Stage
  <2>2. Move(n) /\ round' = round /\ worker' = worker /\ clock' = clock /\ asked' = asked
    BY <1>4 DEF VerifyQty
  <2>3. Endorsed(n) /\ n.qty
    BY <1>0, <1>4 DEF VerifyQty, DeviationRow, StageInv, Endorsed
  <2>4. StageInv(dev)'
    BY <2>1, <2>2, <2>3 DEF Move, StageInv
  <2>5. QED
    BY <1>4, <2>1, <2>2, <2>4, MoveKeeps DEF VerifyQty
<1>5. ASSUME ReturnQty(u) PROVE Kept
  <2> DEFINE n == [dev EXCEPT !.stage = "UNDER_DEVIATION"]
  <2>1. n \in DeviationRow /\ n.stage = "UNDER_DEVIATION" /\ n.senior = dev.senior
    BY <1>0 DEF DeviationRow, Stage
  <2>2. Move(n) /\ round' = round /\ worker' = worker /\ clock' = clock /\ asked' = asked
    BY <1>5 DEF ReturnQty
  <2>3. Endorsed(n)
    BY <1>0, <1>5 DEF ReturnQty, DeviationRow, StageInv, Endorsed
  <2>4. StageInv(dev)'
    BY <2>1, <2>2, <2>3 DEF Move, StageInv
  <2>5. QED
    BY <1>5, <2>1, <2>2, <2>4, MoveKeeps DEF ReturnQty
<1>6. QED
  BY <1>1, <1>2, <1>3, <1>4, <1>5

\* A step that records something in the open round and settles it.
LEMMA SettleKeeps ==
  ASSUME TrackInv, dev.stage = "SENIOR",
         NEW r \in Round, r.no = round.no, r.status = round.status,
         Active(r) # {}, StepsAgree(r), Settle(r),
         worker' \in [job : {None, "ESCALATION", "AUTO_CLOSE"}, no : 0..MaxRounds],
         clock' = clock, asked' \in [User -> 0..MaxOverrides]
  PROVE  Kept
<1>1. r.no \in 0..MaxRounds /\ r.status = "OPEN"
  BY DEF TrackInv, TypeOK, RoundFollows
<1>2. /\ dev' \in DeviationRow /\ imir' \in ImirStatus
      /\ round' \in Round /\ round'.no \in 0..MaxRounds
      /\ LotFollows' /\ StageInv(dev)' /\ RoundFollows' /\ OutcomeInv'
  BY <1>1, SettleStep DEF TrackInv
<1>3. TypeOK'
  BY <1>2 DEF TrackInv, TypeOK
<1>4. QED
  BY <1>2, <1>3 DEF Kept, TrackInv

\* Nothing the other invariants speak of changes.
LEMMA OnlyRequests ==
  ASSUME TrackInv, dev' = dev, imir' = imir, round' = round,
         worker' \in [job : {None, "ESCALATION", "AUTO_CLOSE"}, no : 0..MaxRounds],
         clock' \in 0..MaxOverrides, asked' \in [User -> 0..MaxOverrides]
  PROVE  Kept
<1>1. TypeOK'
  BY DEF TrackInv, TypeOK
<1>2. LotFollows' /\ StageInv(dev)'
  BY DEF TrackInv, LotFollows, ImirStatusOf, StageInv, Endorsed
<1>3. RoundFollows' /\ (OutcomeInv => OutcomeInv')
  BY OutcomeUntouched DEF TrackInv, RoundFollows
<1>4. QED
  BY <1>1, <1>2, <1>3 DEF Kept, TrackInv

LEMMA SeniorStep == TrackInv /\ SeniorNext => Kept
<1> SUFFICES ASSUME TrackInv, NEW u \in User,
                    \/ \E a \in Authority, decision \in Decision : SeniorDecide(u, a, decision)
                    \/ AskOverride(u) \/ OverrideRefused(u)
                    \/ \E decision \in OverrideDecision :
                         OverrideSenior(u, decision) \/ OverrideFinal(u, decision)
             PROVE  Kept
  BY DEF SeniorNext
<1>0. /\ round \in Round /\ round.no \in 0..MaxRounds /\ dev \in DeviationRow
      /\ worker \in [job : {None, "ESCALATION", "AUTO_CLOSE"}, no : 0..MaxRounds]
      /\ clock \in 0..MaxOverrides /\ asked \in [User -> 0..MaxOverrides]
      /\ 0 \in 0..MaxOverrides /\ 0..MaxOverrides \subseteq Nat
  BY ConstantsAssumption DEF TrackInv, TypeOK
<1>1. ASSUME NEW a \in Authority, NEW decision \in Decision, SeniorDecide(u, a, decision) PROVE Kept
  <2> DEFINE r == RecordDecision(round, a, decision)
  <2>1. StepsAgree(round)
    BY <1>1 DEF SeniorDecide, TrackInv, RoundFollows, OpenInv
  <2>2. r \in Round /\ Active(r) # {} /\ StepsAgree(r) /\ r.no = round.no /\ r.status = round.status
    BY <1>0, <1>1, <2>1, RecordDecisionType, DecisionKeepsStepsAgree DEF SeniorDecide
  <2>3. dev.stage = "SENIOR" /\ Settle(r) /\ worker' = worker /\ clock' = clock /\ asked' = asked
    BY <1>1 DEF SeniorDecide, requests
  <2> HIDE DEF r
  <2>4. QED
    BY <1>0, <2>2, <2>3, SettleKeeps
<1>2. ASSUME AskOverride(u) PROVE Kept
  <2>1. clock + 1 \in 0..MaxOverrides
    <3>1. clock \in 0..MaxOverrides /\ clock < MaxOverrides /\ MaxOverrides \in Nat
      BY <1>0, <1>2, ConstantsAssumption DEF AskOverride
    <3>2. QED
      BY <3>1
  <2>2. /\ dev' = dev /\ imir' = imir /\ round' = round /\ worker' = worker
        /\ clock' = clock + 1 /\ asked' = [asked EXCEPT ![u] = clock']
    BY <1>2 DEF AskOverride
  <2>3. QED
    BY <1>0, <2>1, <2>2, OnlyRequests
<1>3. ASSUME OverrideRefused(u) PROVE Kept
  BY <1>0, <1>3, OnlyRequests DEF OverrideRefused
<1>4. ASSUME NEW decision \in OverrideDecision, OverrideSenior(u, decision) PROVE Kept
  <2> DEFINE r == RecordOverride(round, decision, asked[u])
  <2>1. StepsAgree(round) /\ Active(round) # {}
    BY <1>4 DEF OverrideSenior, TrackInv, RoundFollows, OpenInv
  <2>2. r \in Round /\ Active(r) # {} /\ StepsAgree(r) /\ r.no = round.no /\ r.status = round.status
    BY <1>0, <2>1, RecordOverrideType, OverrideKeepsStepsAgree
  <2>3. /\ dev.stage = "SENIOR" /\ Settle(r) /\ worker' = worker /\ clock' = clock
        /\ asked' \in [User -> 0..MaxOverrides]
    BY <1>0, <1>4 DEF OverrideSenior
  <2> HIDE DEF r
  <2>4. QED
    BY <1>0, <2>2, <2>3, SettleKeeps
<1>5. ASSUME NEW decision \in OverrideDecision, OverrideFinal(u, decision) PROVE Kept
  <2> DEFINE r == RecordOverride(round, decision, asked[u])
             q == [r EXCEPT !.effective = decision]
             n == [dev EXCEPT !.senior = decision]
  <2>1. dev.stage = "FINAL" /\ dev.senior \in SeniorFinal /\ round.status # "OPEN"
    BY <1>5 DEF OverrideFinal, TrackInv, RoundFollows
  <2>2. /\ round' = q /\ Move(n) /\ worker' = worker /\ clock' = clock
        /\ asked' \in [User -> 0..MaxOverrides]
    BY <1>0, <1>5 DEF OverrideFinal
  <2>3. r \in Round /\ r.no = round.no /\ r.status = round.status
    BY <1>0, RecordOverrideType DEF RecordOverride, Round
  <2>4. /\ q \in Round /\ q.no \in 0..MaxRounds /\ q.status = round.status /\ q.effective = decision
        /\ q.override = r.override
    <3> HIDE DEF r
    <3>1. QED
      BY <1>0, <2>1, <2>3 DEF Round, OverrideDecision, Decision
  <2>5. n \in DeviationRow /\ n.stage = "FINAL" /\ n.senior = decision /\ n.deptOutcome = dev.deptOutcome
    BY <1>0, <2>1 DEF DeviationRow, Nullable, OverrideDecision, Decision
  <2>6. dev' \in DeviationRow /\ imir' \in ImirStatus /\ LotFollows'
    BY <2>2, <2>5, MoveType
  <2>7. TypeOK'
    BY <1>0, <2>2, <2>4, <2>6 DEF TypeOK
  <2>8. StageInv(dev)'
    BY <2>1, <2>2, <2>5 DEF Move, StageInv, TrackInv, OverrideDecision
  <2>9. RoundFollows'
    BY <2>1, <2>2, <2>4, <2>5 DEF Move, RoundFollows
  <2>10. HighestAuthorityPrevails'
    <3>1. Overridden(r)
      <4>1. CASE round.override.at <= asked[u]
        BY <4>1, <1>0 DEF RecordOverride, Overridden, Round, OverrideDecision, None
      <4>2. CASE ~(round.override.at <= asked[u])
        \* An override recorded earlier, with a later time.
        <5>1. r = round
          BY <4>2 DEF RecordOverride
        <5>2. round.override # NoOverride
          BY <4>2, <1>0 DEF NoOverride
        <5>3. QED
          BY <5>1, <5>2, <1>0 DEF Overridden, Round, OverrideDecision, None
      <4>3. QED
        BY <4>1, <4>2
    <3>2. QED
      BY <2>2, <2>4, <3>1 DEF HighestAuthorityPrevails, Overridden
  <2>11. OutcomeInv => OutcomeInv'
    BY <2>1, <2>2, <2>4, <2>5, <2>10 DEF Move, OutcomeInv
  <2>12. QED
    BY <2>6, <2>7, <2>8, <2>9, <2>11 DEF Kept, TrackInv
<1>6. QED
  BY <1>1, <1>2, <1>3, <1>4, <1>5

LEMMA WorkerNextStep == TrackInv /\ WorkerNext => Kept
<1> SUFFICES ASSUME TrackInv, WorkerNext PROVE Kept
  OBVIOUS
<1> DEFINE WorkerType == [job : {None, "ESCALATION", "AUTO_CLOSE"}, no : 0..MaxRounds]
<1>0. /\ round \in Round /\ round.no \in 0..MaxRounds /\ dev \in DeviationRow /\ imir \in ImirStatus
      /\ worker \in WorkerType /\ Idle \in WorkerType
      /\ clock \in 0..MaxOverrides /\ asked \in [User -> 0..MaxOverrides]
      /\ 0 \in 0..MaxRounds
  BY ConstantsAssumption DEF TrackInv, TypeOK, Idle
<1>1. ASSUME OpsHoursPass PROVE Kept
  <2>1. /\ round' = [round EXCEPT !.opsDue = "PAST"] /\ round.status = "OPEN"
        /\ dev' = dev /\ imir' = imir /\ worker' = worker /\ clock' = clock /\ asked' = asked
    BY <1>1 DEF OpsHoursPass, requests
  <2>2. /\ round' \in Round /\ round'.no = round.no /\ round'.status = round.status
        /\ round'.step = round.step /\ round'.decided = round.decided
        /\ round'.override = round.override /\ round'.effective = round.effective
    BY <1>0, <2>1 DEF Round
  <2>3. TypeOK'
    BY <1>0, <2>1, <2>2 DEF TypeOK
  <2>4. LotFollows' /\ StageInv(dev)'
    BY <2>1 DEF TrackInv, LotFollows, ImirStatusOf, StageInv, Endorsed
  <2>5. OpenInv(round')
    BY <2>1, <2>2 DEF TrackInv, RoundFollows, OpenInv, Active, Complete, StepsAgree, Overridden, HasDecided, PendingPdc
  <2>6. RoundFollows'
    BY <2>1, <2>2, <2>5 DEF TrackInv, RoundFollows
  <2>7. OutcomeInv => OutcomeInv'
    BY <2>1, <2>2 DEF OutcomeInv, HighestAuthorityPrevails
  <2>8. QED
    BY <2>3, <2>4, <2>6, <2>7 DEF Kept, TrackInv
<1>2. ASSUME QtyDaysPass PROVE Kept
  <2> DEFINE n == [dev EXCEPT !.due = "PAST"]
  <2>1. /\ dev' = n /\ imir' = imir /\ round' = round /\ worker' = worker /\ clock' = clock /\ asked' = asked
    BY <1>2 DEF QtyDaysPass, requests
  <2>2. /\ n \in DeviationRow /\ n.stage = dev.stage /\ n.senior = dev.senior /\ n.outcome = dev.outcome
        /\ n.deptOutcome = dev.deptOutcome /\ n.final = dev.final /\ n.form = dev.form
        /\ n.qty = dev.qty /\ n.action = dev.action
    BY <1>0 DEF DeviationRow
  <2>3. TypeOK'
    BY <1>0, <2>1, <2>2 DEF TypeOK
  <2>4. LotFollows'
    BY <2>1, <2>2 DEF TrackInv, LotFollows, ImirStatusOf
  <2>5. StageInv(dev)'
    BY <2>1, <2>2 DEF TrackInv, StageInv, Endorsed
  <2>6. RoundFollows'
    BY <2>1, <2>2 DEF TrackInv, RoundFollows
  <2>7. OutcomeInv => OutcomeInv'
    BY <2>1, <2>2, OutcomeUntouched
  <2>8. QED
    BY <2>3, <2>4, <2>5, <2>6, <2>7 DEF Kept, TrackInv
<1>3. ASSUME ReadOverdueRounds PROVE Kept
  <2>1. /\ dev' = dev /\ imir' = imir /\ round' = round /\ clock' = clock /\ asked' = asked
        /\ worker' \in WorkerType
    BY <1>0, <1>3 DEF ReadOverdueRounds, requests
  <2>2. QED
    BY <1>0, <2>1, OnlyRequests
<1>4. ASSUME EscalationTimeout PROVE Kept
  <2>1. worker' \in WorkerType /\ clock' = clock /\ asked' = asked
    BY <1>0, <1>4 DEF EscalationTimeout, requests
  <2>2. CASE dev.stage = "SENIOR" /\ round.no = worker.no /\ round.status = "OPEN" /\ OpsOverdue(round)
    <3> DEFINE r == TimeOutOps(round)
    <3>1. Settle(r)
      BY <1>4, <2>2 DEF EscalationTimeout
    <3>2. StepsAgree(round)
      BY <2>2 DEF TrackInv, RoundFollows, OpenInv
    <3>3. r \in Round /\ Active(r) # {} /\ StepsAgree(r) /\ r.no = round.no /\ r.status = round.status
      BY <1>0, <2>2, <3>2, TimeOutOpsType, TimeoutKeepsStepsAgree
    <3> HIDE DEF r
    <3>4. QED
      BY <1>0, <2>1, <2>2, <3>1, <3>3, SettleKeeps
  <2>3. CASE ~(dev.stage = "SENIOR" /\ round.no = worker.no /\ round.status = "OPEN" /\ OpsOverdue(round))
    <3>1. dev' = dev /\ imir' = imir /\ round' = round
      BY <1>4, <2>3 DEF EscalationTimeout
    <3>2. QED
      BY <1>0, <2>1, <3>1, OnlyRequests
  <2>4. QED
    BY <2>2, <2>3
<1>5. ASSUME ReadOverdueQuantities PROVE Kept
  <2>1. /\ dev' = dev /\ imir' = imir /\ round' = round /\ clock' = clock /\ asked' = asked
        /\ worker' \in WorkerType
    BY <1>0, <1>5 DEF ReadOverdueQuantities, requests
  <2>2. QED
    BY <1>0, <2>1, OnlyRequests
<1>6. ASSUME AutoClose PROVE Kept
  <2>1. worker' \in WorkerType /\ clock' = clock /\ asked' = asked /\ round' = round
    BY <1>0, <1>6 DEF AutoClose, requests
  <2>2. CASE dev.stage = "UNDER_DEVIATION" /\ dev.due = "PAST"
    <3> DEFINE n == [dev EXCEPT !.stage = "CLOSED", !.outcome = "AUTO_CLOSED"]
    <3>1. Move(n) /\ dev' = n
      BY <1>6, <2>2 DEF AutoClose, Move
    <3>2. n \in DeviationRow /\ n.stage = "CLOSED" /\ n.senior = dev.senior /\ n.outcome = "AUTO_CLOSED"
      BY <1>0 DEF DeviationRow, Stage
    <3>3. Endorsed(n)
      BY <1>0, <2>2 DEF TrackInv, DeviationRow, StageInv, Endorsed
    <3>4. StageInv(dev)'
      BY <3>1, <3>2, <3>3 DEF StageInv
    <3>5. RoundFollows' /\ (OutcomeInv => OutcomeInv')
      BY <2>1, <2>2, <3>1, <3>2, RoundUntouched, OutcomeUntouched DEF TrackInv
    <3>6. dev' \in DeviationRow /\ imir' \in ImirStatus /\ LotFollows'
      BY <3>1, <3>2, MoveType
    <3>7. TypeOK'
      BY <1>0, <2>1, <3>6 DEF TypeOK
    <3>8. QED
      BY <3>4, <3>5, <3>6, <3>7 DEF Kept, TrackInv
  <2>3. CASE ~(dev.stage = "UNDER_DEVIATION" /\ dev.due = "PAST")
    <3>1. dev' = dev /\ imir' = imir
      BY <1>6, <2>3 DEF AutoClose
    <3>2. QED
      BY <1>0, <2>1, <3>1, OnlyRequests
  <2>4. QED
    BY <2>2, <2>3
<1>7. QED
  BY <1>1, <1>2, <1>3, <1>4, <1>5, <1>6 DEF WorkerNext

LEMMA TrackStep == TrackInv /\ [Next]_vars => Kept
<1>1. ASSUME TrackInv, UNCHANGED vars PROVE Kept
  <2>1. /\ dev' = dev /\ imir' = imir /\ round' = round /\ worker' = worker
        /\ clock' = clock /\ asked' = asked
    BY <1>1 DEF vars
  <2>2. QED
    BY <1>1, <2>1, OnlyRequests DEF TrackInv, TypeOK
<1>2. QED
  BY <1>1, DepartmentStep, InspectionHeadStep, SeniorStep, WorkerNextStep DEF Next

LEMMA Inductive == IInv /\ [Next]_vars => IInv'
BY TrackStep DEF Kept, IInv

\* The inductive invariant holds in every state the deviation track reaches.
THEOREM Invariance == Spec => []IInv
BY InitEstablishes, Inductive, PTL DEF Spec

-----------------------------------------------------------------------------
(* The safety properties *)

\* Every column holds a value its table admits.
THEOREM TypeCorrect == Spec => []TypeOK
<1>1. IInv => TypeOK
  BY DEF IInv, TrackInv
<1>2. QED
  BY <1>1, Invariance, PTL

\* What the invariant says of the stages, said of the lot's status.
LEMMA TrackedAcceptance == TrackInv => AcceptedLotIsEndorsed
<1> SUFFICES ASSUME TrackInv, imir \in {"UNDER_DEVIATION", "QTY_VERIFICATION",
                                       "CLOSED_UNDER_DEVIATION", "AUTO_CLOSED"}
             PROVE  /\ Endorsed(dev)
                    /\ imir = "CLOSED_UNDER_DEVIATION" => dev.action = "UAI" \/ dev.qty
  BY DEF AcceptedLotIsEndorsed, Endorsed
<1>1. dev.stage \in Stage /\ imir = ImirStatusOf(dev) /\ StageInv(dev)
  BY DEF TrackInv, LotFollows, TypeOK, DeviationRow
<1>2. CASE dev.stage = "CLOSED"
  BY <1>1, <1>2 DEF ImirStatusOf, StageInv
<1>3. CASE dev.stage \in {"UNDER_DEVIATION", "QTY_VERIFICATION"}
  BY <1>1, <1>3 DEF ImirStatusOf, StageInv
<1>4. CASE dev.stage \in {"INITIATOR", "HEAD", "FINAL", "SENIOR"}
  BY <1>1, <1>4 DEF ImirStatusOf
<1>5. QED
  BY <1>1, <1>2, <1>3, <1>4 DEF Stage

LEMMA TrackedRejection == TrackInv => RejectedLotIsEndorsed
<1> SUFFICES ASSUME TrackInv, imir = "CLOSED_REJECTED"
             PROVE  dev.stage = "CLOSED" /\ dev.outcome = "REJECTED"
  BY DEF RejectedLotIsEndorsed, TrackInv, StageInv
<1>1. dev.stage \in Stage /\ imir = ImirStatusOf(dev)
  BY DEF TrackInv, LotFollows, TypeOK, DeviationRow
<1>2. CASE dev.stage = "CLOSED"
  BY <1>1, <1>2 DEF ImirStatusOf
<1>3. CASE dev.stage \in {"UNDER_DEVIATION", "QTY_VERIFICATION"}
  BY <1>1, <1>3 DEF ImirStatusOf
<1>4. CASE dev.stage \in {"INITIATOR", "HEAD", "FINAL", "SENIOR"}
  BY <1>1, <1>4 DEF ImirStatusOf
<1>5. QED
  BY <1>1, <1>2, <1>3, <1>4 DEF Stage

\* A lot is accepted under deviation only with an endorsement of the department or of the senior
\* authorities, and with its quantities (final_approve, verify_qty, runAutoClose).
THEOREM AcceptanceEndorsed == Spec => []AcceptedLotIsEndorsed
<1>1. IInv => AcceptedLotIsEndorsed
  BY TrackedAcceptance DEF IInv
<1>2. QED
  BY <1>1, Invariance, PTL

\* A lot is rejected only on a senior rejection or on a department rejection nobody overruled.
THEOREM RejectionEndorsed == Spec => []RejectedLotIsEndorsed
<1>1. IInv => RejectedLotIsEndorsed
  BY TrackedRejection DEF IInv
<1>2. QED
  BY <1>1, Invariance, PTL

\* The outcome the IQC Head must follow is the one of the last round, whose state follows the
\* deviation's stage (settleRound, override).
THEOREM SeniorOutcomeAgrees == Spec => []SeniorOutcomeIsTheRounds
<1>1. IInv => SeniorOutcomeIsTheRounds
  BY DEF IInv, TrackInv, RoundFollows, OutcomeInv, SeniorOutcomeIsTheRounds
<1>2. QED
  BY <1>1, Invariance, PTL

\* No order of decisions, timeouts and overrides leaves a round open that nobody can close.
THEOREM NoStuckRound == Spec => []OpenRoundWaitsForSomeone
<1>1. IInv => OpenRoundWaitsForSomeone
  <2> SUFFICES ASSUME IInv, round.status = "OPEN", \A a \in Authority : round.step[a] # "PENDING"
               PROVE  FALSE
    BY DEF OpenRoundWaitsForSomeone
  <2>1. OpenInv(round) /\ round \in Round
    BY DEF IInv, TrackInv, RoundFollows, TypeOK
  <2>2. Active(round) \subseteq HasDecided(round)
    BY <2>1 DEF OpenInv, Active, HasDecided, StepsAgree
  <2>3. Complete(round)
    BY <2>1, <2>2, AllDecidedIsComplete DEF OpenInv
  <2>4. QED
    BY <2>1, <2>3 DEF OpenInv
<1>2. QED
  BY <1>1, Invariance, PTL

\* Rules 1 to 3 of resolveEscalation hold of every round that closes without an override.
THEOREM HighestPrevails == Spec => []HighestAuthorityPrevails
<1>1. IInv => HighestAuthorityPrevails
  BY DEF IInv, OutcomeInv
<1>2. QED
  BY <1>1, Invariance, PTL

-----------------------------------------------------------------------------
(* The action properties *)

\* Once closed, neither the worker acting on what it read before nor a late request moves the
\* deviation, its lot or its round.
THEOREM ClosedIsFinal == Spec => ClosedStaysClosed
<1>1. IInv /\ [Next]_vars => [dev.stage = "CLOSED" => UNCHANGED <<dev, imir, round>>]_vars
  <2> SUFFICES ASSUME IInv, Next, dev.stage = "CLOSED"
               PROVE  UNCHANGED <<dev, imir, round>>
    OBVIOUS
  <2>1. round.status # "OPEN"
    BY DEF IInv, TrackInv, RoundFollows
  <2>2. ~DepartmentNext
    BY DEF DepartmentNext, Accept, SubmitForm, RecommendReject, DeptApprove, SendBack, DeptReject, EnterQty
  <2>3. ~InspectionHeadNext
    BY DEF InspectionHeadNext, FinalApprove, FinalReject, Escalate, VerifyQty, ReturnQty
  <2>4. SeniorNext => UNCHANGED <<dev, imir, round>>
    BY DEF SeniorNext, SeniorDecide, AskOverride, OverrideSenior, OverrideFinal, OverrideRefused
  <2>5. WorkerNext => UNCHANGED <<dev, imir, round>>
    BY <2>1 DEF WorkerNext, OpsHoursPass, QtyDaysPass, ReadOverdueRounds, EscalationTimeout,
                ReadOverdueQuantities, AutoClose
  <2>6. QED
    BY <2>2, <2>3, <2>4, <2>5 DEF Next
<1>2. QED
  BY <1>1, Invariance, PTL DEF Spec, ClosedStaysClosed

\* What the deviation's round recorded for those who had decided is still in q.
KeepsDecisions(q) ==
  \A a \in Authority : round.step[a] = "DECIDED" =>
    q.step[a] = "DECIDED" /\ q.decided[a] = round.decided[a]

LEMMA SettleKeepsDecisions ==
  ASSUME NEW r \in Round, KeepsDecisions(r), Settle(r)
  PROVE  KeepsDecisions(round')
<1>1. CASE ~Complete(r)
  BY <1>1 DEF Settle, KeepsDecisions
<1>2. CASE Complete(r)
  <2>1. /\ round'.decided = r.decided
        /\ \A a \in Authority : r.step[a] = "DECIDED" => round'.step[a] = "DECIDED"
    <3>1. round' = Settled(r)
      BY <1>2 DEF Settle
    <3>2. /\ Settled(r).decided = r.decided
          /\ Settled(r).step =
               [a \in Authority |-> IF r.step[a] = "PENDING" THEN "NOT_REQUIRED" ELSE r.step[a]]
      BY DEF Settled, Round
    <3>3. QED
      BY <3>1, <3>2
  <2>2. QED
    BY <2>1 DEF KeepsDecisions
<1>3. QED
  BY <1>1, <1>2

\* A decision an authority recorded is never taken back or changed within its round.
THEOREM RecordedDecisionsStand == Spec => DecisionsStand
<1>1. IInv /\ [Next]_vars => [round'.no = round.no => KeepsDecisions(round')]_vars
  <2> SUFFICES ASSUME IInv, Next, round'.no = round.no PROVE KeepsDecisions(round')
    OBVIOUS
  <2>0. round \in Round /\ round.no \in Int
    BY DEF IInv, TrackInv, TypeOK, Round
  <2>1. CASE round' = round
    BY <2>1 DEF KeepsDecisions
  <2>2. ASSUME DepartmentNext PROVE round' = round
    BY <2>2 DEF DepartmentNext, Accept, SubmitForm, RecommendReject, DeptApprove, SendBack, DeptReject,
                EnterQty
  <2>3. ASSUME InspectionHeadNext PROVE round' = round
    <3>1. ASSUME NEW u \in User, NEW chosen, Escalate(u, chosen) PROVE FALSE
      BY <2>0, <3>1 DEF Escalate, OpenRound
    <3>2. QED
      BY <2>3, <3>1 DEF InspectionHeadNext, FinalApprove, FinalReject, VerifyQty, ReturnQty
  <2>4. ASSUME NEW u \in User, NEW a \in Authority, NEW d \in Decision, SeniorDecide(u, a, d)
        PROVE  KeepsDecisions(round')
    <3> DEFINE r == RecordDecision(round, a, d)
    <3>1. KeepsDecisions(r)
      BY <2>0, <2>4 DEF SeniorDecide, RecordDecision, KeepsDecisions, Round
    <3>2. r \in Round
      BY <2>0, RecordDecisionType
    <3>3. QED
      BY <2>4, <3>1, <3>2, SettleKeepsDecisions DEF SeniorDecide
  <2>5. ASSUME NEW u \in User, NEW d \in OverrideDecision, OverrideSenior(u, d) \/ OverrideFinal(u, d)
        PROVE  KeepsDecisions(round')
    <3> DEFINE r == RecordOverride(round, d, asked[u])
    <3>1. asked[u] \in Nat
      BY DEF IInv, TrackInv, TypeOK
    <3>2. r \in Round /\ r.step = round.step /\ r.decided = round.decided
      BY <2>0, <3>1, RecordOverrideType DEF RecordOverride, Round
    <3>3. KeepsDecisions(r)
      BY <3>2 DEF KeepsDecisions
    <3> HIDE DEF r
    <3>4. CASE Settle(r)
      BY <3>2, <3>3, <3>4, SettleKeepsDecisions
    <3>5. CASE round' = [r EXCEPT !.effective = d]
      BY <3>2, <3>3, <3>5 DEF KeepsDecisions, Round
    <3>6. QED
      BY <2>5, <3>4, <3>5 DEF OverrideSenior, OverrideFinal, r
  <2>6. ASSUME NEW u \in User, AskOverride(u) \/ OverrideRefused(u) PROVE round' = round
    BY <2>6 DEF AskOverride, OverrideRefused
  <2>7. ASSUME EscalationTimeout PROVE KeepsDecisions(round')
    <3>1. CASE round' = round
      BY <3>1 DEF KeepsDecisions
    <3>2. CASE OpsOverdue(round) /\ Settle(TimeOutOps(round))
      <4>1. KeepsDecisions(TimeOutOps(round))
        BY <2>0, <3>2 DEF OpsOverdue, TimeOutOps, KeepsDecisions, Round, Authority
      <4>2. QED
        BY <2>0, <3>2, <4>1, TimeOutOpsType, SettleKeepsDecisions
    <3>3. QED
      BY <2>7, <3>1, <3>2 DEF EscalationTimeout
  <2>8. ASSUME OpsHoursPass PROVE KeepsDecisions(round')
    BY <2>0, <2>8 DEF OpsHoursPass, KeepsDecisions, Round
  <2>9. ASSUME QtyDaysPass \/ ReadOverdueRounds \/ ReadOverdueQuantities \/ AutoClose PROVE round' = round
    BY <2>9 DEF QtyDaysPass, ReadOverdueRounds, ReadOverdueQuantities, AutoClose
  <2>10. QED
    BY <2>1, <2>2, <2>3, <2>4, <2>5, <2>6, <2>7, <2>8, <2>9 DEF Next, SeniorNext, WorkerNext
<1>2. [round'.no = round.no => KeepsDecisions(round')]_vars =>
        [round'.no = round.no =>
           \A a \in Authority : round.step[a] = "DECIDED" =>
             round'.step[a] = "DECIDED" /\ round'.decided[a] = round.decided[a]]_vars
  BY DEF KeepsDecisions
<1>3. QED
  BY <1>1, <1>2, Invariance, PTL DEF Spec, DecisionsStand

-----------------------------------------------------------------------------
(* The deviation implements the case *)

LEMMA CaseInit == Init => Case!Init
  BY DEF Init, NewDeviation, Case!Init, Case!NoAnswer, None

\* What the case shows depends only on these columns of the deviation.
LEMMA CaseStutters ==
  ASSUME dev'.stage = dev.stage, dev'.senior = dev.senior, dev'.deptOutcome = dev.deptOutcome,
         dev'.outcome = dev.outcome
  PROVE  UNCHANGED Case!case
  BY DEF Case!case, StandingAnswer

\* The department's answer is the standing one while the seniors gave none.
LEMMA DepartmentStanding ==
  ASSUME dev.senior \notin SeniorFinal
  PROVE  StandingAnswer \in [by : {"DEPARTMENT"}, is : Case!Answers]
  BY DEF StandingAnswer, Case!Answers

LEMMA SeniorsStanding ==
  ASSUME dev.senior \in SeniorFinal
  PROVE  StandingAnswer \in [by : {"SENIORS"}, is : Case!Answers]
  BY DEF StandingAnswer, Case!Answers

\* A step of the department moves between its two stages, or answers.
LEMMA DepartmentCase ==
  ASSUME IInv, DepartmentNext
  PROVE  [Case!Next]_(Case!case)
<1> USE DEF IInv, TrackInv, TypeOK, DeviationRow, Move
<1>1. ASSUME NEW u \in User, NEW d \in Department, Accept(u, d) PROVE UNCHANGED Case!case
  BY <1>1, CaseStutters DEF Accept
<1>2. ASSUME NEW u \in User, NEW a \in FormAction, SubmitForm(u, a) PROVE UNCHANGED Case!case
  BY <1>2 DEF SubmitForm, Case!case
<1>3. ASSUME NEW u \in User, RecommendReject(u) \/ SendBack(u) PROVE UNCHANGED Case!case
  BY <1>3 DEF RecommendReject, SendBack, Case!case
<1>4. ASSUME NEW u \in User, DeptApprove(u) \/ DeptReject(u) PROVE Case!DepartmentAnswers
  <2>1. dev.stage = "HEAD" /\ dev'.stage = "FINAL" /\ dev'.senior = dev.senior /\ dev'.outcome = dev.outcome
    BY <1>4 DEF DeptApprove, DeptReject
  <2>2. dev'.senior \notin SeniorFinal
    BY <2>1 DEF StageInv, SeniorFinal, None
  <2>3. StandingAnswer' \in [by : {"DEPARTMENT"}, is : Case!Answers]
    BY <2>2 DEF StandingAnswer, Case!Answers
  <2>4. QED
    BY <2>1, <2>3 DEF Case!DepartmentAnswers
<1>5. ASSUME NEW u \in User, EnterQty(u) PROVE UNCHANGED Case!case
  BY <1>5 DEF EnterQty, Case!case, StandingAnswer
<1>6. QED
  BY <1>1, <1>2, <1>3, <1>4, <1>5 DEF DepartmentNext, Case!Next

\* The IQC Head decides as the standing answer says, or asks the seniors.
LEMMA InspectionHeadCase ==
  ASSUME IInv, InspectionHeadNext
  PROVE  [Case!Next]_(Case!case)
<1> USE DEF IInv, TrackInv, TypeOK, DeviationRow, Move
<1>1. ASSUME NEW u \in User, FinalApprove(u) PROVE Case!Accept
  <2>1. dev.stage = "FINAL" /\ StandingAnswer.is = "FOR"
    BY <1>1 DEF FinalApprove, FinalApproveAllowed, StandingAnswer, SeniorFinal
  <2>2. dev'.senior = dev.senior /\ dev'.deptOutcome = dev.deptOutcome
    BY <1>1 DEF FinalApprove
  <2>3. StandingAnswer' = StandingAnswer
    BY <2>2 DEF StandingAnswer
  <2>4. \/ dev'.stage = "CLOSED" /\ dev'.outcome = "ACCEPTED_UNDER_DEVIATION"
        \/ dev'.stage = "UNDER_DEVIATION" /\ dev'.outcome = dev.outcome
    BY <1>1 DEF FinalApprove
  <2>5. QED
    BY <2>1, <2>3, <2>4 DEF Case!Accept
<1>2. ASSUME NEW u \in User, FinalReject(u) PROVE Case!Reject
  <2>1. dev.stage = "FINAL" /\ StandingAnswer.is = "AGAINST"
    BY <1>2 DEF FinalReject, FinalRejectAllowed, StandingAnswer, SeniorFinal
  <2>2. /\ dev'.senior = dev.senior /\ dev'.deptOutcome = dev.deptOutcome
        /\ dev'.stage = "CLOSED" /\ dev'.outcome = "REJECTED"
    BY <1>2 DEF FinalReject
  <2>3. StandingAnswer' = StandingAnswer
    BY <2>2 DEF StandingAnswer
  <2>4. QED
    BY <2>1, <2>2, <2>3 DEF Case!Reject
<1>3. ASSUME NEW u \in User, NEW chosen, Escalate(u, chosen) PROVE Case!AskSeniors
  <2>1. /\ dev.stage = "FINAL" /\ dev.senior \notin SeniorFinal /\ dev'.stage = "SENIOR"
        /\ dev'.senior = dev.senior /\ dev'.deptOutcome = dev.deptOutcome /\ dev'.outcome = dev.outcome
    BY <1>3 DEF Escalate, EscalateAllowed
  <2>2. StandingAnswer' = StandingAnswer /\ StandingAnswer.by = "DEPARTMENT"
    BY <2>1 DEF StandingAnswer
  <2>3. QED
    BY <2>1, <2>2 DEF Case!AskSeniors
<1>4. ASSUME NEW u \in User, VerifyQty(u) PROVE Case!CloseQuantities
  BY <1>4 DEF VerifyQty, Case!CloseQuantities, StandingAnswer
<1>5. ASSUME NEW u \in User, ReturnQty(u) PROVE UNCHANGED Case!case
  BY <1>5 DEF ReturnQty, Case!case, StandingAnswer
<1>6. QED
  BY <1>1, <1>2, <1>3, <1>4, <1>5 DEF InspectionHeadNext, Case!Next

\* settleRound answers for the seniors, hands the case back, or waits.
LEMMA SettleCase ==
  ASSUME IInv, dev.stage = "SENIOR", NEW r \in Round, Settle(r)
  PROVE  [Case!Next]_(Case!case)
<1> USE DEF IInv, TrackInv, TypeOK, DeviationRow, Move
<1>1. CASE ~Complete(r)
  BY <1>1, CaseStutters DEF Settle
<1>2. CASE Complete(r) /\ Effective(r) = "CHANGE_TYPE"
  <2>1. dev'.stage = "INITIATOR" /\ dev'.outcome = dev.outcome
    BY <1>2 DEF Settle
  <2>2. Case!SeniorsHandBack
    BY <2>1 DEF Case!SeniorsHandBack, Case!NoAnswer
  <2>3. QED
    BY <2>2 DEF Case!Next
<1>3. CASE Complete(r) /\ Effective(r) # "CHANGE_TYPE"
  <2>1. Effective(r) \in SeniorFinal
    BY <1>3, CompleteHasOutcome DEF Decision, SeniorFinal
  <2>2. dev'.stage = "FINAL" /\ dev'.senior = Effective(r) /\ dev'.outcome = dev.outcome
    BY <1>3 DEF Settle
  <2>3. StandingAnswer' \in [by : {"SENIORS"}, is : Case!Answers]
    BY <2>1, <2>2 DEF StandingAnswer, Case!Answers
  <2>4. Case!SeniorsAnswer
    BY <2>2, <2>3 DEF Case!SeniorsAnswer
  <2>5. QED
    BY <2>4 DEF Case!Next
<1>4. QED
  BY <1>1, <1>2, <1>3

LEMMA SeniorCase ==
  ASSUME IInv, SeniorNext
  PROVE  [Case!Next]_(Case!case)
<1>1. round \in Round /\ dev \in DeviationRow /\ asked \in [User -> Nat]
  BY DEF IInv, TrackInv, TypeOK
<1>2. ASSUME NEW u \in User, NEW a \in Authority, NEW decision \in Decision, SeniorDecide(u, a, decision)
      PROVE  [Case!Next]_(Case!case)
  BY <1>1, <1>2, RecordDecisionType, SettleCase DEF SeniorDecide
<1>3. ASSUME NEW u \in User, AskOverride(u) \/ OverrideRefused(u) PROVE UNCHANGED Case!case
  BY <1>3, CaseStutters DEF AskOverride, OverrideRefused
<1>4. ASSUME NEW u \in User, NEW decision \in OverrideDecision, OverrideSenior(u, decision)
      PROVE  [Case!Next]_(Case!case)
  BY <1>1, <1>4, RecordOverrideType, SettleCase DEF OverrideSenior
<1>5. ASSUME NEW u \in User, NEW decision \in OverrideDecision, OverrideFinal(u, decision)
      PROVE  Case!SeniorsAnswer
  <2>1. /\ dev.stage = "FINAL" /\ dev.senior \in SeniorFinal
        /\ dev'.stage = "FINAL" /\ dev'.senior = decision /\ dev'.outcome = dev.outcome
    BY <1>1, <1>5 DEF OverrideFinal, Move, DeviationRow
  <2>2. StandingAnswer' \in [by : {"SENIORS"}, is : Case!Answers] /\ StandingAnswer.by = "SENIORS"
    BY <2>1 DEF StandingAnswer, Case!Answers, OverrideDecision, SeniorFinal
  <2>3. QED
    BY <2>1, <2>2 DEF Case!SeniorsAnswer
<1>6. QED
  BY <1>2, <1>3, <1>4, <1>5 DEF SeniorNext, Case!Next

\* Of the worker's steps only a timeout that settles the round and the automatic closing show.
LEMMA WorkerCase ==
  ASSUME IInv, WorkerNext
  PROVE  [Case!Next]_(Case!case)
<1>1. round \in Round /\ dev \in DeviationRow
  BY DEF IInv, TrackInv, TypeOK
<1>2. CASE dev' = dev
  BY <1>2, CaseStutters
<1>3. CASE QtyDaysPass
  BY <1>1, <1>3, CaseStutters DEF QtyDaysPass, DeviationRow
<1>4. CASE EscalationTimeout /\ dev' # dev
  BY <1>1, <1>4, TimeOutOpsType, SettleCase DEF EscalationTimeout
<1>5. CASE AutoClose /\ dev' # dev
  <2>1. /\ dev.stage = "UNDER_DEVIATION" /\ dev'.stage = "CLOSED" /\ dev'.outcome = "AUTO_CLOSED"
        /\ dev'.senior = dev.senior /\ dev'.deptOutcome = dev.deptOutcome
    BY <1>1, <1>5 DEF AutoClose, Move, DeviationRow
  <2>2. Case!CloseQuantities
    BY <2>1 DEF Case!CloseQuantities, StandingAnswer
  <2>3. QED
    BY <2>2 DEF Case!Next
<1>6. QED
  BY <1>2, <1>3, <1>4, <1>5 DEF WorkerNext, OpsHoursPass, ReadOverdueRounds, ReadOverdueQuantities

\* Whoever acts, and however rounds, overrides and timers fall, the IQC Head closes the deviation as
\* the standing answer says (act, settleRound, runEscalationTimeouts, runAutoClose).
THEOREM DeviationIsACase == Spec => ImplementsDeviationCase
<1>1. IInv /\ [Next]_vars => [Case!Next]_(Case!case)
  <2>1. ASSUME UNCHANGED vars PROVE UNCHANGED Case!case
    BY <2>1, CaseStutters DEF vars
  <2>2. QED
    BY <2>1, DepartmentCase, InspectionHeadCase, SeniorCase, WorkerCase DEF Next
<1>2. QED
  BY <1>1, CaseInit, Invariance, PTL DEF Spec, ImplementsDeviationCase, Case!Spec

-----------------------------------------------------------------------------
(* The invariant under reversals *)

Actor == User \cup Admin \cup {Timer}

StepRow ==
  [action : {"MOVE", "SENIOR_DECISION", "TIMER", "REVERSED"}, actor : Actor, kept : BOOLEAN,
   dev : DeviationRow, imir : ImirStatus, undone : Nat]

\* The row kept with a step claims what its stage may, and the lot's status is the one that
\* belongs to it.
Sound(row) == StageInv(row.dev) /\ row.imir = ImirStatusOf(row.dev)

HistoryInv == history \in Seq(StepRow) /\ \A s \in DOMAIN history : Sound(history[s])

RequestInv == request.by \in User \cup {None} /\ request.status \in Stage \cup {"UNASSIGNED", None}

ReversalInv == TrackInv /\ HistoryInv /\ RequestInv /\ revisions \in BOOLEAN

-----------------------------------------------------------------------------
(* The history *)

\* The deviation and its lot as they are can be kept with a step.
LEMMA RowIsSound ==
  ASSUME TrackInv, NEW action \in {"MOVE", "SENIOR_DECISION", "TIMER", "REVERSED"},
         NEW actor \in Actor, NEW kept \in BOOLEAN
  PROVE  Row(action, actor, kept) \in StepRow /\ Sound(Row(action, actor, kept))
BY DEF Row, StepRow, Sound, TrackInv, TypeOK, LotFollows

LEMMA HistoryGrows ==
  ASSUME HistoryInv, NEW row \in StepRow, Sound(row), history' = Append(history, row)
  PROVE  HistoryInv'
<1>1. history' \in Seq(StepRow)
  BY DEF HistoryInv
<1>2. ASSUME NEW s \in DOMAIN history' PROVE Sound(history'[s])
  <2>1. history'[s] = row \/ (s \in DOMAIN history /\ history'[s] = history[s])
    BY DEF HistoryInv
  <2>2. QED
    BY <2>1 DEF HistoryInv
<1>3. QED
  BY <1>1, <1>2 DEF HistoryInv, Sound, ImirStatusOf

\* A step of a user or of the worker is one of Deviation, and logs at most one row.
LEMMA UserStepIsNext ==
  ASSUME TrackInv, NEW u \in User, UserStep(u)
  PROVE  /\ Next /\ revisions' \in {revisions, TRUE}
         /\ \/ history' = history
            \/ \E row \in StepRow : Sound(row) /\ row.action # "REVERSED" /\ history' = Append(history, row)
<1>1. u \in Actor
  BY DEF Actor
<1>2. /\ Row("MOVE", u, TRUE) \in StepRow /\ Sound(Row("MOVE", u, TRUE))
      /\ Row("MOVE", u, TRUE).action = "MOVE"
  BY <1>1, RowIsSound DEF Row
<1>3. /\ Row("SENIOR_DECISION", u, FALSE) \in StepRow /\ Sound(Row("SENIOR_DECISION", u, FALSE))
      /\ Row("SENIOR_DECISION", u, FALSE).action = "SENIOR_DECISION"
  BY <1>1, RowIsSound DEF Row
<1>4. Moves(u) => Next
  BY DEF Moves, Next, DepartmentNext, InspectionHeadNext, SeniorNext
<1>5. Decides(u) \/ AskOverride(u) \/ OverrideRefused(u) => Next
  BY DEF Decides, Next, SeniorNext
<1>6. ASSUME NEW action \in FormAction, SubmitForm(u, action) PROVE Next
  BY <1>6 DEF Next, DepartmentNext
<1>7. QED
  BY <1>2, <1>3, <1>4, <1>5, <1>6 DEF UserStep, Logged

LEMMA WorkerStepIsNext ==
  ASSUME TrackInv, WorkerStep
  PROVE  /\ Next /\ revisions' = revisions
         /\ \/ history' = history
            \/ \E row \in StepRow : Sound(row) /\ row.action # "REVERSED" /\ history' = Append(history, row)
<1>1. /\ Row("TIMER", Timer, FALSE) \in StepRow /\ Sound(Row("TIMER", Timer, FALSE))
      /\ Row("TIMER", Timer, FALSE).action = "TIMER"
  BY RowIsSound DEF Row, Actor
<1>2. Next
  BY DEF WorkerStep, Next, WorkerNext
<1>3. QED
  BY <1>1, <1>2 DEF WorkerStep, Logged

-----------------------------------------------------------------------------
(* The invariant is established and kept under reversals *)

LEMMA ReversalInitEstablishes == ReversalInit => ReversalInv
<1> SUFFICES ASSUME ReversalInit PROVE ReversalInv
  OBVIOUS
<1>1. TrackInv
  BY InitEstablishes DEF ReversalInit, IInv
<1>2. HistoryInv
  BY DEF ReversalInit, HistoryInv
<1>3. QED
  BY <1>1, <1>2 DEF ReversalInit, ReversalInv, RequestInv, NoRequest, None

\* The steps of the deviation track itself.
LEMMA TakenStep ==
  ASSUME ReversalInv, request' = request,
         (\E u \in User : UserStep(u)) \/ WorkerStep
  PROVE  ReversalInv'
<1>1. /\ Next /\ revisions' \in BOOLEAN
      /\ \/ history' = history
         \/ \E row \in StepRow : Sound(row) /\ row.action # "REVERSED" /\ history' = Append(history, row)
  BY UserStepIsNext, WorkerStepIsNext DEF ReversalInv
<1>2. TrackInv'
  BY <1>1, TrackStep DEF ReversalInv, Kept
<1>3. HistoryInv'
  <2>1. CASE history' = history
    BY <2>1 DEF ReversalInv, HistoryInv, Sound, ImirStatusOf
  <2>2. CASE \E row \in StepRow : Sound(row) /\ history' = Append(history, row)
    BY <2>2, HistoryGrows DEF ReversalInv
  <2>3. QED
    BY <1>1, <2>1, <2>2
<1>4. QED
  BY <1>1, <1>2, <1>3 DEF ReversalInv, RequestInv

\* Restoring a row whose stage is not SENIOR, with the round ended if it was open.
LEMMA RestoreStep ==
  ASSUME TrackInv, NEW row \in StepRow, Sound(row), row.dev.stage # "SENIOR", RestoreDeviation(row),
         UNCHANGED <<worker, requests>>
  PROVE  TrackInv'
<1>1. dev' = row.dev /\ imir' = row.imir /\ dev' \in DeviationRow /\ imir' \in ImirStatus
  BY DEF RestoreDeviation, StepRow
<1>2. StageInv(dev)' /\ LotFollows'
  BY <1>1 DEF Sound, LotFollows, StageInv, Endorsed, ImirStatusOf
<1>3. round' \in Round /\ round'.no = round.no /\ round'.status # "OPEN"
  <2>1. RoundClosed \in [Authority -> StepStatus] /\ round \in Round
    BY DEF RoundClosed, TrackInv, TypeOK, Round, StepStatus
  <2>2. CASE round.status = "OPEN"
    <3>1. round' = [round EXCEPT !.status = "COMPLETE", !.step = RoundClosed]
      BY <2>2 DEF RestoreDeviation, EndOpenRound
    <3>2. QED
      BY <2>1, <3>1 DEF Round
  <2>3. CASE round.status # "OPEN"
    BY <2>1, <2>3 DEF RestoreDeviation, EndOpenRound
  <2>4. QED
    BY <2>2, <2>3
<1>4. RoundFollows'
  BY <1>1, <1>3 DEF RoundFollows
<1>5. TypeOK'
  BY <1>1, <1>3 DEF TrackInv, TypeOK, requests
<1>6. QED
  BY <1>2, <1>4, <1>5 DEF TrackInv

LEMMA ApproveReversalStep ==
  ASSUME ReversalInv, NEW admin \in Admin, NEW step \in DOMAIN history, ApproveReversal(admin, step)
  PROVE  ReversalInv'
<1> DEFINE row == [Row("REVERSED", admin, FALSE) EXCEPT !.undone = step]
<1>1. history[step] \in StepRow /\ Sound(history[step]) /\ step \in Nat
  BY DEF ReversalInv, HistoryInv
<1>2. TrackInv'
  BY <1>1, RestoreStep DEF ReversalInv, ApproveReversal, Options
<1>3. row \in StepRow /\ Sound(row)
  <2>1. Row("REVERSED", admin, FALSE) \in StepRow /\ Sound(Row("REVERSED", admin, FALSE))
    BY RowIsSound DEF ReversalInv, Actor
  <2>2. row.dev = Row("REVERSED", admin, FALSE).dev /\ row.imir = Row("REVERSED", admin, FALSE).imir
    BY DEF Row
  <2>3. QED
    BY <1>1, <2>1, <2>2 DEF StepRow, Sound
<1>4. HistoryInv'
  BY <1>3, HistoryGrows DEF ReversalInv, ApproveReversal
<1>5. RequestInv' /\ revisions' \in BOOLEAN
  BY DEF ReversalInv, ApproveReversal, RequestInv, NoRequest
<1>6. QED
  BY <1>2, <1>4, <1>5 DEF ReversalInv

\* Asking, withdrawing and refusing change the request alone.
LEMMA RequestStep ==
  ASSUME ReversalInv, UNCHANGED <<vars, history, revisions>>, RequestInv'
  PROVE  ReversalInv'
<1>1. TrackInv'
  BY TrackStep DEF ReversalInv, Kept
<1>2. HistoryInv'
  BY DEF ReversalInv, HistoryInv, Sound, ImirStatusOf
<1>3. QED
  BY <1>1, <1>2 DEF ReversalInv

LEMMA ReversalInductive == ReversalInv /\ [ReversalNext]_reversalVars => ReversalInv'
<1> SUFFICES ASSUME ReversalInv, [ReversalNext]_reversalVars PROVE ReversalInv'
  OBVIOUS
<1>1. ASSUME NEW u \in User, Request(u) PROVE ReversalInv'
  <2>1. DeviationStatus(dev) \in Stage \cup {"UNASSIGNED"}
    BY DEF ReversalInv, TrackInv, TypeOK, DeviationRow, DeviationStatus
  <2>2. QED
    BY <1>1, <2>1, RequestStep DEF Request, RequestInv
<1>2. CASE CloseRequest
  BY <1>2, RequestStep DEF CloseRequest, RequestInv, NoRequest
<1>3. CASE UNCHANGED reversalVars
  BY <1>3, RequestStep DEF reversalVars, ReversalInv, RequestInv
<1>4. QED
  BY <1>1, <1>2, <1>3, TakenStep, ApproveReversalStep DEF ReversalNext

\* The invariant holds whatever is undone.
THEOREM ReversalInvariance == ReversalSpec => []ReversalInv
BY ReversalInitEstablishes, ReversalInductive, PTL DEF ReversalSpec

-----------------------------------------------------------------------------
(* The properties *)

\* However many steps are undone, the lot's status is the one that belongs to the deviation's stage
\* and a round is open exactly while the deviation waits for the seniors (restoreDeviation).
THEOREM LotAndRoundAlwaysFollow == ReversalSpec => []LotAndRoundFollow
<1>1. ReversalInv => LotAndRoundFollow
  <2>1. ReversalInv => \A s \in DOMAIN history : history[s].dev \in DeviationRow /\ history[s].imir \in ImirStatus
    <3>1. ASSUME HistoryInv, NEW s \in DOMAIN history PROVE history[s] \in StepRow
      BY <3>1 DEF HistoryInv
    <3>2. QED
      BY <3>1 DEF ReversalInv, StepRow
  <2>2. ReversalInv => ReversalTypeOK
    BY <2>1 DEF ReversalInv, TrackInv, RequestInv, ReversalTypeOK
  <2>3. QED
    BY <2>2 DEF ReversalInv, TrackInv, LotFollows, RoundFollows, LotAndRoundFollow
<1>2. QED
  BY <1>1, ReversalInvariance, PTL

\* A lot is taken under deviation or rejected only as the department and the seniors endorsed, also
\* after their decisions were undone and made again.
THEOREM ClosuresStayEndorsed == ReversalSpec => []ClosuresEndorsed
<1>1. ReversalInv => ClosuresEndorsed
  BY TrackedAcceptance, TrackedRejection DEF ReversalInv, ClosuresEndorsed
<1>2. QED
  BY <1>1, ReversalInvariance, PTL

\* A reversal takes back decisions of the user who asked for it and the timers' steps, and nobody
\* else's, whatever happened between the request and its approval.
THEOREM OnlyTheAskersDecisionsGo == ReversalSpec => OthersDecisionsStand
<1> DEFINE Stand == \A s \in EffectiveSteps(history) \ EffectiveSteps(history') :
                      history[s].actor \in {Timer, request.by}
<1>1. ReversalInv /\ [ReversalNext]_reversalVars => [Stand]_reversalVars
  <2> SUFFICES ASSUME ReversalInv, ReversalNext,
                      NEW s \in EffectiveSteps(history) \ EffectiveSteps(history')
               PROVE  history[s].actor \in {Timer, request.by}
    OBVIOUS
  <2>0. history \in Seq(StepRow) /\ TrackInv
    BY DEF ReversalInv, HistoryInv
  <2>1. history' # history
    OBVIOUS
  <2>2. ASSUME NEW row \in StepRow, row.action # "REVERSED", history' = Append(history, row) PROVE FALSE
    <3>1. EffectiveSteps(history') = EffectiveSteps(history) \cup {Len(history) + 1}
      BY <2>0, <2>2, EffectiveAfterStep
    <3>2. QED
      BY <3>1
  <2>3. PICK admin \in Admin, step \in DOMAIN history : ApproveReversal(admin, step)
    BY <2>0, <2>1, <2>2, UserStepIsNext, WorkerStepIsNext DEF ReversalNext, Request, CloseRequest
  <2> DEFINE row == [Row("REVERSED", admin, FALSE) EXCEPT !.undone = step]
  <2>4. step \in OwnSteps(history, request.by) /\ history' = Append(history, row)
    BY <2>3 DEF ApproveReversal, Options
  <2>5. row \in StepRow /\ row.action = "REVERSED" /\ row.undone = step
    <3>1. Row("REVERSED", admin, FALSE) \in StepRow
      BY <2>0, RowIsSound DEF Actor
    <3>2. step \in Nat
      BY <2>0
    <3>3. QED
      BY <3>1, <3>2 DEF StepRow, Row
  <2>6. QED
    <3> HIDE DEF row
    <3>1. QED
      BY <2>0, <2>4, <2>5, OwnStepsUndoOwnSteps
<1>2. QED
  BY <1>1, ReversalInvariance, PTL DEF ReversalSpec, OthersDecisionsStand
=============================================================================
