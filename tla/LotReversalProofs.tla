--------------------------- MODULE LotReversalProofs ---------------------------
(***************************************************************************)
(* Theorems of LotReversal: what an inspection lot is after any number of  *)
(* steps, reversals, holds and deviations, for any users and bounds.       *)
(*                                                                         *)
(* That a restored lot is where its history says is not inductive: a row   *)
(* keeps the lot as it was before the step, and that has to be where the   *)
(* steps before it, and still in effect, had taken it. HistoryInv says so  *)
(* of every step in effect; a reversal to before one of them then leaves   *)
(* exactly the steps that row was kept under.                              *)
(***************************************************************************)
EXTENDS LotReversal, InspectionProofs, ReversalRulesProofs

-----------------------------------------------------------------------------
(* The inductive invariant *)

StepAction == {"SUBMIT", "APPROVE", "REVERT", "ESCALATE", "HEAD_APPROVE", "HOLD"}

LotRow == [status : LotStatus \cup Track, result : {None, "OK", "NOK"}]

HistoryRow ==
  [action : StepAction \cup {"REVERSED"}, actor : User \cup Admin, before : LotRow,
   to : LotStatus \cup Track, undone : Nat]

HasResultIfLocked(l) == l.result = None <=> l.status \in Editable

\* A step of the inspection: only the hold enters the deviation's track, and nothing opens a lot again.
SoundStep(row) ==
  /\ row.action \in StepAction /\ row.to \in LotStatus \ {"OPEN"}
  /\ row.action = "HOLD" <=> row.to = "DEPT_REVIEW"
  /\ row.before.status \in Editable \cup UnderReview
  /\ HasResultIfLocked(row.before)

\* The status is where the last of the steps of h took the lot.
PlacedBy(status, h, steps) ==
  /\ steps = {} => status \in Editable
  /\ \A s \in steps :
       (\A t \in steps : t <= s) =>
         status = h[s].to \/ (h[s].to = "DEPT_REVIEW" /\ status \in Track)

\* Every step in effect was taken where the steps before it, still in effect, had brought the lot;
\* nothing is taken after a hold.
EffectInv(h) ==
  /\ \A s \in EffectiveSteps(h) :
       SoundStep(h[s]) /\ PlacedBy(h[s].before.status, h, {t \in EffectiveSteps(h) : t < s})
  /\ \A s, t \in EffectiveSteps(h) : s < t => h[s].action # "HOLD"

HistoryInv == history \in Seq(HistoryRow) /\ EffectInv(history)

LotInv ==
  /\ lot \in LotRow /\ HasResultIfLocked(lot)
  /\ PlacedBy(lot.status, history, EffectiveSteps(history))
  /\ deviation # None <=> InEffect("HOLD", EffectiveSteps(history))

RequestInv == request # NoRequest => request.by \in User /\ request.status \in LotStatus \cup Track

ReversalInv == HistoryInv /\ LotInv /\ RequestInv

-----------------------------------------------------------------------------
(* Consequences of the invariant *)

\* The lot follows its deviation exactly while its hold is in effect.
LEMMA TrackIsTheHolds ==
  ASSUME HistoryInv, LotInv
  PROVE  lot.status \in Track <=> InEffect("HOLD", EffectiveSteps(history))
<1> DEFINE steps == EffectiveSteps(history)
<1>1. steps \in SUBSET DOMAIN history /\ \A s \in steps : SoundStep(history[s])
  BY EffectiveAreSteps DEF HistoryInv, EffectInv
<1>2. CASE steps = {}
  BY <1>2 DEF LotInv, PlacedBy, InEffect, Editable, Track
<1>3. CASE steps # {}
  <2>1. PICK s \in steps : \A t \in steps : t <= s
    <3> HIDE DEF steps
    <3> QED BY <1>1, <1>3, LastStep DEF HistoryInv
  <2>2. lot.status = history[s].to \/ (history[s].to = "DEPT_REVIEW" /\ lot.status \in Track)
    BY <2>1 DEF LotInv, PlacedBy
  <2>3. lot.status \in Track <=> history[s].action = "HOLD"
    BY <1>1, <2>2 DEF SoundStep, Track, LotStatus, Editable, UnderReview
  <2>4. ASSUME NEW t \in steps, history[t].action = "HOLD" PROVE t = s
    <3>1. t \in Nat /\ s \in Nat /\ t <= s /\ ~(t < s)
      BY <1>1, <2>1, <2>4 DEF HistoryInv, EffectInv
    <3> QED BY <3>1
  <2> QED BY <2>3, <2>4 DEF InEffect
<1> QED BY <1>2, <1>3

-----------------------------------------------------------------------------
(* What the steps of the inspection change *)

\* A save: the lot stays, or is in inspection from now on.
Unlogged ==
  /\ history' = history /\ deviation' = deviation
  /\ \/ lot' = lot
     \/ lot.status \in Editable /\ lot' = [lot EXCEPT !.status = "IN_INSPECTION"]

\* Every other step of the lot logs one row and goes where the row says.
Taken(row) ==
  /\ row \in HistoryRow /\ SoundStep(row) /\ row.before = lot /\ row.to = lot'.status
  /\ lot' \in LotRow /\ HasResultIfLocked(lot')
  /\ deviation' = IF row.action = "HOLD" THEN "OFFERED" ELSE deviation
  /\ history' = Append(history, row)

LEMMA InspectionSteps ==
  ASSUME LotInv, [Next]_inspectionVars
  PROVE  Unlogged \/ \E row : Taken(row)
<1> USE DEF LotRow, HasResultIfLocked, LotStatus, Editable, UnderReview
<1>0. lot \in LotRow /\ HasResultIfLocked(lot)
  BY DEF LotInv
<1>1. ASSUME NEW u \in Inspector, NEW d, Submit(u, d) PROVE \E row : Taken(row)
  <2> DEFINE row == [action |-> "SUBMIT", actor |-> u, before |-> lot, to |-> "SUBMITTED", undone |-> 0]
  <2>1. Result(readings) \in {"OK", "NOK"} /\ Result(readings) # None
    BY ResultType DEF None
  <2>2. history' = Append(history, row) /\ lot.status \in Editable
    BY <1>1 DEF Submit, Logged, MayRecord
  <2>3. row \in HistoryRow /\ SoundStep(row)
    BY <1>0, <2>2 DEF HistoryRow, SoundStep, StepAction, User
  <2>4. lot' = [status |-> "SUBMITTED", result |-> Result(readings)] /\ deviation' = deviation
    BY <1>1 DEF Submit
  <2>5. Taken(row)
    BY <2>1, <2>2, <2>3, <2>4 DEF Taken
  <2> QED BY <2>5
<1>2. ASSUME NEW u \in Reviewer, NEW from \in UnderReview, NEW reviewers,
             NEW action \in StepAction, NEW to \in LotStatus \ {"OPEN"},
             Review(u, from, reviewers, action, to), action = "HOLD" <=> to = "DEPT_REVIEW",
             lot' \in LotRow, lot'.status = to, HasResultIfLocked(lot'),
             deviation' = IF action = "HOLD" THEN "OFFERED" ELSE deviation
      PROVE  \E row : Taken(row)
  <2> DEFINE row == [action |-> action, actor |-> u, before |-> lot, to |-> to, undone |-> 0]
  <2>1. history' = Append(history, row) /\ lot.status = from
    BY <1>2 DEF Review, Logged
  <2>2. row \in HistoryRow /\ SoundStep(row)
    BY <1>0, <1>2, <2>1 DEF HistoryRow, SoundStep, StepAction, User, Reviewer
  <2>3. Taken(row)
    BY <1>2, <2>1, <2>2 DEF Taken
  <2> QED BY <2>3
<1>3. ASSUME NEW u \in Reviewer, Approve(u) PROVE \E row : Taken(row)
  BY <1>0, <1>2, <1>3 DEF Approve, Close, Review, StepAction
<1>4. ASSUME NEW u \in Reviewer, HeadApprove(u) PROVE \E row : Taken(row)
  BY <1>0, <1>2, <1>4 DEF HeadApprove, Close, Review, StepAction
<1>5. ASSUME NEW u \in Reviewer, Escalate(u) PROVE \E row : Taken(row)
  BY <1>0, <1>2, <1>5 DEF Escalate, Review, StepAction
<1>6. ASSUME NEW u \in Reviewer, Revert(u) PROVE \E row : Taken(row)
  BY <1>0, <1>2, <1>6 DEF Revert, Review, StepAction
<1>7. ASSUME NEW u \in Reviewer, Hold(u) PROVE \E row : Taken(row)
  BY <1>0, <1>2, <1>7 DEF Hold, Review, StepAction
<1>8. ASSUME NEW u, NEW d, NEW rd, Save(u, d, rd) PROVE Unlogged
  BY <1>8 DEF Save, MayRecord, Unlogged
<1>9. ASSUME UNCHANGED <<lot, history, deviation>> PROVE Unlogged
  BY <1>9 DEF Unlogged
<1> QED
  BY <1>1, <1>3, <1>4, <1>5, <1>6, <1>7, <1>8, <1>9, NextIsHandlers
  DEF Handler, TakeOver, ClaimLapses, CheckoutReads, CheckoutInserts, Release, OpenPage, lotVars, inspectionVars

-----------------------------------------------------------------------------
(* The invariant is established and kept *)

LEMMA PlacedByAgrees ==
  ASSUME NEW status, NEW h, NEW g, NEW steps, \A s \in steps : g[s] = h[s]
  PROVE  PlacedBy(status, h, steps) <=> PlacedBy(status, g, steps)
  BY DEF PlacedBy

LEMMA ReversalInitInv == ReversalInit => ReversalInv
<1> SUFFICES ASSUME ReversalInit PROVE ReversalInv
  OBVIOUS
<1>1. history = <<>> /\ EffectiveSteps(history) = {}
  BY EffectiveOfNone DEF ReversalInit, Init
<1>2. HistoryInv
  BY <1>1 DEF HistoryInv, EffectInv
<1>3. LotInv
  BY <1>1 DEF ReversalInit, Init, LotInv, LotRow, LotStatus, Editable, HasResultIfLocked, PlacedBy, InEffect
<1>4. RequestInv
  BY DEF ReversalInit, RequestInv
<1> QED BY <1>2, <1>3, <1>4 DEF ReversalInv

LEMMA UnloggedKeeps ==
  ASSUME HistoryInv, LotInv, Unlogged
  PROVE  HistoryInv' /\ LotInv'
<1> DEFINE steps == EffectiveSteps(history)
<1>1. HistoryInv'
  BY DEF Unlogged, HistoryInv, EffectInv, SoundStep, HasResultIfLocked, PlacedBy
<1>2. \A s \in steps : history[s].to \in LotStatus \ {"OPEN"}
  BY DEF HistoryInv, EffectInv, SoundStep
<1>3. PlacedBy(lot'.status, history, steps)
  <2> HIDE DEF steps
  <2> SUFFICES ASSUME PlacedBy(lot.status, history, steps) PROVE PlacedBy(lot'.status, history, steps)
    BY DEF LotInv, steps
  <2>1. lot \in LotRow
    BY DEF LotInv
  <2> QED BY <1>2, <2>1 DEF Unlogged, PlacedBy, LotRow, LotStatus, Editable, UnderReview, Track
<1>4. lot' \in LotRow /\ HasResultIfLocked(lot')
  BY DEF Unlogged, LotInv, LotRow, LotStatus, Editable, HasResultIfLocked
<1>5. InEffect("HOLD", EffectiveSteps(history))' <=> InEffect("HOLD", EffectiveSteps(history))
  BY DEF Unlogged, InEffect
<1>6. deviation' = deviation /\ history' = history
  BY DEF Unlogged
<1> QED BY <1>1, <1>3, <1>4, <1>5, <1>6 DEF LotInv, HasResultIfLocked

LEMMA TakenKeeps ==
  ASSUME HistoryInv, LotInv, NEW row, Taken(row)
  PROVE  HistoryInv' /\ LotInv'
<1> DEFINE steps == EffectiveSteps(history)
           last  == Len(history) + 1
<1>1. /\ history \in Seq(HistoryRow) /\ row \in HistoryRow /\ SoundStep(row) /\ row.action # "REVERSED"
      /\ row.before = lot /\ row.to = lot'.status /\ history' = Append(history, row)
  BY DEF HistoryInv, Taken, SoundStep, StepAction
<1>2. EffectiveSteps(history') = steps \cup {last}
  BY <1>1, EffectiveAfterStep
<1>3. /\ history' \in Seq(HistoryRow) /\ history'[last] = row /\ last \in Nat
      /\ \A s \in steps : s \in Nat /\ s < last /\ history'[s] = history[s]
  BY <1>1, EffectiveAreSteps
<1>4. PlacedBy(lot.status, history', steps)
  <2>1. PlacedBy(lot.status, history, steps)
    BY DEF LotInv
  <2> HIDE DEF steps
  <2> QED BY <1>3, <2>1, PlacedByAgrees
<1>5. \A s \in steps : history[s].action # "HOLD"
  BY <1>1, TrackIsTheHolds DEF SoundStep, InEffect, Track, Editable, UnderReview
<1>6. ASSUME NEW s \in steps
      PROVE  SoundStep(history[s]) /\ PlacedBy(history[s].before.status, history, {t \in steps : t < s})
  BY DEF HistoryInv, EffectInv
<1> HIDE DEF steps, last
<1>7. EffectInv(history')
  <2>1. ASSUME NEW s \in steps
        PROVE  /\ SoundStep(history'[s])
               /\ PlacedBy(history'[s].before.status, history', {t \in steps \cup {last} : t < s})
    <3>1. {t \in steps \cup {last} : t < s} = {t \in steps : t < s}
      BY <1>3
    <3>2. PlacedBy(history[s].before.status, history', {t \in steps : t < s})
      BY <1>3, <1>6, PlacedByAgrees
    <3> QED BY <1>3, <1>6, <3>1, <3>2
  <2>2. /\ SoundStep(history'[last])
        /\ PlacedBy(history'[last].before.status, history', {t \in steps \cup {last} : t < last})
    <3>1. {t \in steps \cup {last} : t < last} = steps
      BY <1>3
    <3> QED BY <1>1, <1>3, <1>4, <3>1
  <2>3. ASSUME NEW s \in steps \cup {last}, NEW t \in steps \cup {last}, s < t PROVE history'[s].action # "HOLD"
    BY <1>3, <1>5, <2>3
  <2> QED BY <1>2, <2>1, <2>2, <2>3 DEF EffectInv
<1>8. PlacedBy(lot'.status, history', steps \cup {last})
  <2>1. ASSUME NEW s \in steps, last <= s PROVE FALSE
    BY <1>3, <2>1
  <2>2. history'[last].to = lot'.status
    BY <1>1, <1>3
  <2> QED BY <2>1, <2>2 DEF PlacedBy
<1>9. deviation' # None <=> \E s \in steps \cup {last} : history'[s].action = "HOLD"
  <2>1. deviation # None <=> \E s \in steps : history[s].action = "HOLD"
    BY DEF LotInv, InEffect, steps
  <2>2. CASE row.action = "HOLD"
    BY <1>3, <2>2 DEF Taken, None
  <2>3. CASE row.action # "HOLD"
    BY <1>3, <2>1, <2>3 DEF Taken
  <2> QED BY <2>2, <2>3
<1>10. LotInv'
  BY <1>2, <1>8, <1>9 DEF LotInv, InEffect, Taken, HasResultIfLocked
<1> QED BY <1>3, <1>7, <1>10 DEF HistoryInv

LEMMA ReversalKeeps ==
  ASSUME HistoryInv, LotInv, request.by \in User,
         NEW admin \in Admin, NEW step \in DOMAIN history, ApproveReversal(admin, step)
  PROVE  HistoryInv' /\ LotInv'
<1> DEFINE steps == EffectiveSteps(history)
           kept  == {s \in steps : s < step}
           row   == [action |-> "REVERSED", actor |-> admin, before |-> lot, to |-> lot'.status, undone |-> step]
<1>1. /\ history \in Seq(HistoryRow) /\ step \in steps /\ step \in Nat
      /\ history' = Append(history, row) /\ RestoreImir(step, kept)
  BY DEF HistoryInv, ApproveReversal, OwnSteps, Before
<1>2. lot' = history[step].before
  BY <1>1 DEF RestoreImir
<1>3. /\ SoundStep(history[step]) /\ PlacedBy(lot'.status, history, kept)
      /\ \A s \in kept : history[s].action # "HOLD"
  BY <1>1, <1>2 DEF HistoryInv, EffectInv
<1>4. lot' \in LotRow /\ HasResultIfLocked(lot')
  <2>1. history[step] \in HistoryRow
    BY <1>1
  <2> QED BY <1>2, <1>3, <2>1 DEF HistoryRow, SoundStep
<1>5. row \in HistoryRow
  BY <1>1, <1>4 DEF HistoryRow, LotInv, LotRow
<1>6. EffectiveSteps(history') = kept
  <2>1. row.action = "REVERSED" /\ row.undone = step
    OBVIOUS
  <2> HIDE DEF row
  <2> QED BY <1>1, <1>5, <2>1, EffectiveAfterReversal
<1>7. deviation' = None
  <2>1. ~InEffect("HOLD", kept)
    BY <1>3 DEF InEffect
  <2> HIDE DEF kept
  <2> QED BY <1>1, <2>1 DEF RestoreImir
<1>8. /\ history' \in Seq(HistoryRow)
      /\ \A s \in steps : s \in Nat /\ history'[s] = history[s]
  BY <1>1, <1>5, EffectiveAreSteps
<1>9. ASSUME NEW s \in steps
      PROVE  SoundStep(history[s]) /\ PlacedBy(history[s].before.status, history, {t \in steps : t < s})
  BY DEF HistoryInv, EffectInv
<1> HIDE DEF steps, row
<1>10. EffectInv(history')
  <2>1. ASSUME NEW s \in kept
        PROVE  SoundStep(history'[s]) /\ PlacedBy(history'[s].before.status, history', {t \in kept : t < s})
    <3>1. {t \in kept : t < s} = {t \in steps : t < s}
      BY <1>1, <1>8
    <3>2. PlacedBy(history[s].before.status, history', {t \in steps : t < s})
      BY <1>8, <1>9, PlacedByAgrees
    <3> QED BY <1>8, <1>9, <3>1, <3>2
  <2>2. ASSUME NEW s \in kept, NEW t \in kept, s < t PROVE history'[s].action # "HOLD"
    BY <1>3, <1>8
  <2> HIDE DEF kept
  <2> QED BY <1>6, <2>1, <2>2 DEF EffectInv
<1>11. PlacedBy(lot'.status, history', kept)
  BY <1>3, <1>8, PlacedByAgrees
<1>12. ~(\E s \in kept : history'[s].action = "HOLD")
  BY <1>3, <1>8
<1> HIDE DEF kept
<1>13. LotInv'
  BY <1>4, <1>6, <1>7, <1>11, <1>12 DEF LotInv, InEffect, HasResultIfLocked
<1> QED BY <1>8, <1>10, <1>13 DEF HistoryInv

\* The deviation's own steps move the lot within its track.
LEMMA DeviationKeeps ==
  ASSUME HistoryInv, LotInv, history' = history, lot' \in LotRow, lot'.result = lot.result,
         lot.status \in Track => lot'.status \in Track, lot'.status # lot.status => lot.status \in Track,
         deviation' # None <=> deviation # None
  PROVE  HistoryInv' /\ LotInv'
<1> DEFINE steps == EffectiveSteps(history)
<1>1. HistoryInv'
  BY DEF HistoryInv, EffectInv, SoundStep, HasResultIfLocked, PlacedBy
<1>2. PlacedBy(lot'.status, history, steps)
  <2>1. PlacedBy(lot.status, history, steps) /\ \A s \in steps : SoundStep(history[s])
    BY DEF LotInv, HistoryInv, EffectInv
  <2> HIDE DEF steps
  <2> QED BY <2>1 DEF PlacedBy, SoundStep, Track, LotStatus, Editable, UnderReview
<1>3. HasResultIfLocked(lot')
  BY DEF LotInv, HasResultIfLocked, Track, Editable
<1> QED BY <1>1, <1>2, <1>3 DEF LotInv, HasResultIfLocked, InEffect

LEMMA ReversalStep == ReversalInv /\ [ReversalNext]_reversalVars => ReversalInv'
<1> SUFFICES ASSUME ReversalInv, [ReversalNext]_reversalVars PROVE ReversalInv'
  OBVIOUS
<1>0. HistoryInv /\ LotInv /\ RequestInv
  BY DEF ReversalInv
<1>1. ASSUME [Next]_inspectionVars, request' = request PROVE ReversalInv'
  <2>1. HistoryInv' /\ LotInv'
    BY <1>0, <1>1, InspectionSteps, UnloggedKeeps, TakenKeeps
  <2> QED BY <1>0, <1>1, <2>1 DEF ReversalInv, RequestInv
<1>2. ASSUME UNCHANGED inspectionVars, RequestInv' PROVE ReversalInv'
  <2>1. HistoryInv' /\ LotInv'
    BY <1>0, <1>2, InspectionSteps, UnloggedKeeps, TakenKeeps
  <2> QED BY <1>2, <2>1 DEF ReversalInv
<1>3. ASSUME NEW u \in User, Request(u) PROVE ReversalInv'
  BY <1>0, <1>2, <1>3 DEF Request, RequestInv, LotInv, LotRow
<1>4. CASE CloseRequest
  BY <1>2, <1>4 DEF CloseRequest, RequestInv
<1>5. ASSUME NEW admin \in Admin, NEW step \in DOMAIN history, ApproveReversal(admin, step) PROVE ReversalInv'
  <2>1. request.by \in User /\ request' = NoRequest
    BY <1>0, <1>5 DEF ApproveReversal, RequestInv
  <2> QED BY <1>0, <1>5, <2>1, ReversalKeeps DEF ReversalInv, RequestInv
<1>6. CASE DeviationAccepted
  <2>1. HistoryInv' /\ LotInv'
    BY <1>0, <1>6, DeviationKeeps DEF DeviationAccepted, LotInv, None
  <2> QED BY <1>0, <1>6, <2>1 DEF DeviationAccepted, ReversalInv, RequestInv
<1>7. ASSUME deviation # None, lot.status \notin Track PROVE FALSE
  BY <1>0, <1>7, TrackIsTheHolds DEF LotInv
<1>8. ASSUME NEW status \in Track, DeviationMoves(status) PROVE ReversalInv'
  <2>1. lot' \in LotRow /\ lot'.status = status /\ lot'.result = lot.result
    BY <1>0, <1>8 DEF DeviationMoves, LotInv, LotRow
  <2>2. deviation # None /\ deviation' # None /\ history' = history
    BY <1>8 DEF DeviationMoves, None
  <2>3. HistoryInv' /\ LotInv'
    BY <1>0, <1>7, <2>1, <2>2, DeviationKeeps
  <2> QED BY <1>0, <1>8, <2>3 DEF DeviationMoves, ReversalInv, RequestInv
<1>9. CASE DeviationGivenBack
  <2>1. lot' \in LotRow /\ lot'.status \in Track /\ lot'.result = lot.result
    BY <1>0, <1>9 DEF DeviationGivenBack, LotInv, LotRow, Track
  <2>2. deviation # None /\ deviation' # None /\ history' = history
    BY <1>9 DEF DeviationGivenBack, None
  <2>3. HistoryInv' /\ LotInv'
    BY <1>0, <1>7, <2>1, <2>2, DeviationKeeps
  <2> QED BY <1>0, <1>9, <2>3 DEF DeviationGivenBack, ReversalInv, RequestInv
<1>10. CASE RaiseDn
  BY <1>0, <1>2, <1>10 DEF RaiseDn, RequestInv
<1>11. CASE UNCHANGED reversalVars
  BY <1>1, <1>11 DEF reversalVars
<1> QED BY <1>1, <1>3, <1>4, <1>5, <1>6, <1>8, <1>9, <1>10, <1>11 DEF ReversalNext

\* The invariant holds whatever is done, held, undone and done again.
THEOREM ReversalInvariance == ReversalSpec => []ReversalInv
  BY ReversalInitInv, ReversalStep, PTL DEF ReversalSpec

-----------------------------------------------------------------------------
(* The properties *)

\* The lot is where the last step still in effect took it, and has a result exactly while its
\* readings are locked (restoreImir, effectiveSteps).
THEOREM StatusFollowsTheHistory == ReversalSpec => []StatusIsOfTheHistory
<1>1. ReversalInv => StatusIsOfTheHistory
  <2> SUFFICES ASSUME ReversalInv PROVE StatusIsOfTheHistory
    OBVIOUS
  <2> DEFINE steps == EffectiveSteps(history)
             last  == CHOOSE s \in steps : \A t \in steps : t <= s
  <2>1. ReversalTypeOK
    BY DEF ReversalInv, LotInv, LotRow, HasResultIfLocked, RequestInv, ReversalTypeOK
  <2>2. steps = {} => lot.status \in Editable
    BY DEF ReversalInv, LotInv, PlacedBy
  <2>3. ASSUME steps # {} PROVE last \in steps /\ \A t \in steps : t <= last
    <3>1. steps \in SUBSET DOMAIN history /\ history \in Seq(HistoryRow)
      BY EffectiveAreSteps DEF ReversalInv, HistoryInv
    <3> HIDE DEF steps
    <3> QED BY <2>3, <3>1, LastStep
  <2>4. ASSUME steps # {}
        PROVE  lot.status = history[last].to \/ (history[last].to = "DEPT_REVIEW" /\ lot.status \in Track)
    BY <2>3, <2>4 DEF ReversalInv, LotInv, PlacedBy
  <2> QED BY <2>1, <2>2, <2>4 DEF StatusIsOfTheHistory
<1> QED BY <1>1, ReversalInvariance, PTL

\* The lot has a deviation exactly while its hold is in effect, and only then follows it.
THEOREM HeldWithItsDeviation == ReversalSpec => []DeviationIffHeld
<1>1. ReversalInv => DeviationIffHeld
  BY TrackIsTheHolds DEF ReversalInv, LotInv, DeviationIffHeld
<1> QED BY <1>1, ReversalInvariance, PTL

\* A reversal removes steps of the user who asked for it and of nobody else, although others may
\* have acted between the request and its approval (ownOptions, read again at the approval).
THEOREM OnlyTheAskersStepsGo == ReversalSpec => OnlyOwnStepsUndone
<1> DEFINE Own == \A s \in EffectiveSteps(history) \ EffectiveSteps(history') :
                    history[s].actor = request.by
<1>1. ReversalInv /\ [ReversalNext]_reversalVars => [Own]_reversalVars
  <2> SUFFICES ASSUME ReversalInv, ReversalNext,
                      NEW s \in EffectiveSteps(history) \ EffectiveSteps(history')
               PROVE  history[s].actor = request.by
    OBVIOUS
  <2>0. HistoryInv /\ LotInv /\ RequestInv /\ history \in Seq(HistoryRow)
    BY DEF ReversalInv, HistoryInv
  <2>1. history' # history
    OBVIOUS
  <2>2. ASSUME NEW row, Taken(row) PROVE FALSE
    <3>1. row \in HistoryRow /\ row.action # "REVERSED" /\ history' = Append(history, row)
      BY <2>2 DEF Taken, SoundStep, StepAction
    <3>2. EffectiveSteps(history') = EffectiveSteps(history) \cup {Len(history) + 1}
      BY <2>0, <3>1, EffectiveAfterStep
    <3> QED BY <3>2
  <2>3. ~Next
    BY <2>0, <2>1, <2>2, InspectionSteps DEF Unlogged
  <2>4. PICK admin \in Admin, step \in DOMAIN history : ApproveReversal(admin, step)
    BY <2>1, <2>3 DEF ReversalNext, Request, CloseRequest, DeviationAccepted, DeviationMoves, DeviationGivenBack,
       RaiseDn, inspectionVars
  <2> DEFINE row == [action |-> "REVERSED", actor |-> admin, before |-> lot, to |-> lot'.status, undone |-> step]
  <2>5. /\ step \in OwnSteps(history, request.by) /\ history' = Append(history, row)
        /\ row.action = "REVERSED" /\ row.undone = step /\ request.by \in User
    BY <2>0, <2>4 DEF ApproveReversal, RequestInv
  <2>6. history[s].actor \in {Timer, request.by}
    \* The lemma asks nothing of a row but that it is of the history's set.
    <3>1. history \in Seq(HistoryRow \cup {row}) /\ row \in HistoryRow \cup {row}
      BY <2>0
    <3> HIDE DEF row
    <3> QED BY <2>5, <3>1, OwnStepsUndoOwnSteps
  <2>7. history[s].actor \in User \cup Admin
    <3>1. history[s] \in HistoryRow
      BY <2>0, EffectiveAreSteps
    <3> QED BY <3>1 DEF HistoryRow
  <2> QED BY <2>6, <2>7, InspectionAssumption, AdminAssumption DEF Timer, None
<1> QED BY <1>1, ReversalInvariance, PTL DEF ReversalSpec, OnlyOwnStepsUndone
=============================================================================
