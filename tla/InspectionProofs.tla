-------------------------- MODULE InspectionProofs --------------------------
(***************************************************************************)
(* What holds of Inspection for any users, tablets, readings and bounds:   *)
(* type correctness, the result stored is the result of the readings, and  *)
(* nobody decides on a stale page.                                         *)
(***************************************************************************)
EXTENDS Inspection, TLAPS

\* A page whose row_version is still the row's shows what the lot is.
FreshPageIsCurrent ==
  \A u \in Reviewer :
    page[u].fresh => page[u].readings = readings /\ page[u].result = lot.result

IInv == TypeOK /\ SubmittedResultIsOfReadings /\ FreshPageIsCurrent

\* The steps of Next, one disjunct per handler.
Handler ==
  \/ \E u \in Inspector, d \in Device \cup {None}, rd \in [Sample -> Reading] : Save(u, d, rd)
  \/ \E u \in Inspector, d \in Device \cup {None} : Submit(u, d)
  \/ \E u \in Inspector : TakeOver(u)
  \/ ClaimLapses
  \/ \E u \in Inspector, d \in Device : CheckoutReads(u, d)
  \/ \E d \in Device : CheckoutInserts(d)
  \/ Release
  \/ \E u \in Reviewer : OpenPage(u)
  \/ \E u \in Reviewer : Approve(u) \/ HeadApprove(u) \/ Escalate(u)
  \/ \E u \in Reviewer : Revert(u)
  \/ \E u \in Reviewer : Hold(u)

LEMMA NextIsHandlers == Next => Handler
<1>1. InspectNext => Handler
  BY DEF InspectNext, Handler
<1>2. TabletNext => Handler
  BY DEF TabletNext, Handler
<1>3. ReviewNext => Handler
  BY DEF ReviewNext, Handler
<1> QED BY <1>1, <1>2, <1>3 DEF Next

\* The evaluation always yields one of the two results.
LEMMA ResultType == \A rd : Result(rd) \in {"OK", "NOK"}
  BY DEF Result

LEMMA InitInv == Init => IInv
<1> SUFFICES ASSUME Init PROVE IInv
  OBVIOUS
<1>1. TypeOK
  BY InspectionAssumption DEF Init, TypeOK, LotState, LotStatus, Editable, UnderReview, Reading, NoClaim, NoCheckout, NoPage, None
<1>2. SubmittedResultIsOfReadings
  BY DEF Init, SubmittedResultIsOfReadings, Editable
<1>3. FreshPageIsCurrent
  BY DEF Init, FreshPageIsCurrent, NoPage
<1> QED BY <1>1, <1>2, <1>3 DEF IInv

\* An update of the row leaves every page with its content, and stale.
LEMMA TouchedPages ==
  ASSUME TypeOK, Touched
  PROVE  /\ page' \in [Reviewer -> [readings : [Sample -> Reading], result : {None, "OK", "NOK"}, fresh : BOOLEAN]]
         /\ FreshPageIsCurrent'
  BY DEF TypeOK, Touched, FreshPageIsCurrent

LEMMA SaveInv ==
  ASSUME IInv, NEW u \in Inspector, NEW d, NEW rd \in [Sample -> Reading], Save(u, d, rd)
  PROVE  IInv'
<1> USE DEF IInv
<1>1. lot.status \in Editable
  BY DEF Save, MayRecord
<1>2. TypeOK'
  BY <1>1, TouchedPages DEF Save, tabletVars, TypeOK, LotState, LotStatus, Editable
<1>3. SubmittedResultIsOfReadings'
  BY <1>2 DEF Save, SubmittedResultIsOfReadings, Editable, TypeOK, LotState
<1> QED BY <1>2, <1>3, TouchedPages DEF Save

LEMMA AppendRow ==
  ASSUME TypeOK, NEW action, NEW actor \in User, NEW to \in LotStatus, Logged(action, actor, to),
         action \in {"SUBMIT", "APPROVE", "REVERT", "ESCALATE", "HEAD_APPROVE", "HOLD"}
  PROVE  history' \in Seq(StepRow) /\ Len(history') <= MaxSteps
  BY InspectionAssumption DEF TypeOK, Logged, StepRow

LEMMA SubmitInv ==
  ASSUME IInv, NEW u \in Inspector, NEW d, Submit(u, d)
  PROVE  IInv'
<1> USE DEF IInv
<1>1. history' \in Seq(StepRow) /\ Len(history') <= MaxSteps
  <2>1. u \in User /\ "SUBMITTED" \in LotStatus
    BY DEF User, LotStatus, UnderReview
  <2> QED BY <2>1, AppendRow DEF Submit
<1>2. Result(readings) \in {"OK", "NOK"}
  BY ResultType
<1>3. TypeOK'
  BY <1>1, <1>2, TouchedPages DEF Submit, TypeOK, LotState, LotStatus, Editable, UnderReview, NoClaim, NoCheckout, None
<1>4. SubmittedResultIsOfReadings'
  BY DEF Submit, SubmittedResultIsOfReadings, Missing, Result
<1> QED BY <1>3, <1>4, TouchedPages DEF Submit

\* A review step changes only the lot, the deviation, the history and the pages.
LEMMA ReviewInv ==
  ASSUME IInv, NEW u \in Reviewer, NEW from, NEW reviewers, NEW action, NEW to \in LotStatus,
         Review(u, from, reviewers, action, to),
         action \in {"APPROVE", "REVERT", "ESCALATE", "HEAD_APPROVE", "HOLD"},
         from \in UnderReview, lot' \in LotState, deviation' \in {None, "OFFERED"},
         \/ lot'.status \notin Editable /\ lot'.result = lot.result
         \/ lot'.status \in Editable /\ lot'.result = None
  PROVE  IInv'
<1> USE DEF IInv
<1>1. history' \in Seq(StepRow) /\ Len(history') <= MaxSteps
  <2>1. u \in User
    BY DEF User, Reviewer
  <2> QED BY <2>1, AppendRow DEF Review
<1>2. lot.status \notin Editable /\ lot.result # None
  BY DEF Review, UnderReview, Editable, TypeOK
<1>3. TypeOK'
  BY <1>1, <1>2, TouchedPages DEF Review, tabletVars, TypeOK
<1>4. SubmittedResultIsOfReadings'
  BY <1>2 DEF Review, SubmittedResultIsOfReadings, Missing, Result
<1> QED BY <1>3, <1>4, TouchedPages DEF Review

LEMMA DecisionInv ==
  ASSUME IInv, NEW u \in Reviewer, Approve(u) \/ HeadApprove(u) \/ Escalate(u) \/ Revert(u) \/ Hold(u)
  PROVE  IInv'
<1> USE DEF LotState, LotStatus, UnderReview, Editable
<1>1. CASE Approve(u)
  BY <1>1, ReviewInv DEF IInv, TypeOK, Approve, Close
<1>2. CASE HeadApprove(u)
  BY <1>2, ReviewInv DEF IInv, TypeOK, HeadApprove, Close
<1>3. CASE Escalate(u)
  BY <1>3, ReviewInv DEF IInv, TypeOK, Escalate
<1>4. CASE Revert(u)
  BY <1>4, ReviewInv DEF IInv, TypeOK, Revert, None
<1>5. CASE Hold(u)
  BY <1>5, ReviewInv DEF IInv, TypeOK, Hold
<1> QED BY <1>1, <1>2, <1>3, <1>4, <1>5

LEMMA StepInv == IInv /\ [Next]_inspectionVars => IInv'
<1> SUFFICES ASSUME IInv, [Next]_inspectionVars PROVE IInv'
  OBVIOUS
<1>1. CASE UNCHANGED inspectionVars
  BY <1>1 DEF inspectionVars, IInv, TypeOK, SubmittedResultIsOfReadings, FreshPageIsCurrent, Missing, Result
<1>2. ASSUME NEW u \in Inspector, NEW d \in Device \cup {None}, NEW rd \in [Sample -> Reading], Save(u, d, rd) PROVE IInv'
  BY <1>2, SaveInv
<1>3. ASSUME NEW u \in Inspector, NEW d \in Device \cup {None}, Submit(u, d) PROVE IInv'
  BY <1>3, SubmitInv
<1>4. ASSUME NEW u \in Inspector, TakeOver(u) PROVE IInv'
  BY <1>4, TouchedPages DEF TakeOver, tabletVars, IInv, TypeOK, SubmittedResultIsOfReadings, Missing, Result
<1>5. CASE ClaimLapses
  BY <1>5 DEF ClaimLapses, tabletVars, IInv, TypeOK, SubmittedResultIsOfReadings, FreshPageIsCurrent, Missing, Result
<1>6. ASSUME NEW u \in Inspector, NEW d \in Device, CheckoutReads(u, d) PROVE IInv'
  BY <1>6 DEF CheckoutReads, lotVars, IInv, TypeOK, SubmittedResultIsOfReadings, FreshPageIsCurrent, Missing, Result
<1>7. ASSUME NEW d \in Device, CheckoutInserts(d) PROVE IInv'
  <2>1. checkout' \in [device : Device \cup {None}, user : Inspector \cup {None}]
    BY <1>7 DEF CheckoutInserts, IInv, TypeOK
  <2> QED BY <2>1, <1>7 DEF CheckoutInserts, IInv, TypeOK, SubmittedResultIsOfReadings, FreshPageIsCurrent, Missing, Result
<1>8. CASE Release
  BY <1>8 DEF Release, NoCheckout, IInv, TypeOK, SubmittedResultIsOfReadings, FreshPageIsCurrent, Missing, Result
<1>9. ASSUME NEW u \in Reviewer, OpenPage(u) PROVE IInv'
  <2>1. UNCHANGED <<lot, readings, claim, checkout, history, deviation, taking, granted>>
    BY <1>9 DEF OpenPage, lotVars, tabletVars
  <2>2. TypeOK'
    BY <2>1, <1>9 DEF OpenPage, IInv, TypeOK, LotState
  <2>3. SubmittedResultIsOfReadings'
    BY <2>1 DEF IInv, SubmittedResultIsOfReadings, Missing, Result
  <2>4. FreshPageIsCurrent'
    BY <2>1, <1>9 DEF OpenPage, IInv, TypeOK, FreshPageIsCurrent
  <2> QED BY <2>2, <2>3, <2>4 DEF IInv
<1>10. ASSUME NEW u \in Reviewer, Approve(u) \/ HeadApprove(u) \/ Escalate(u) \/ Revert(u) \/ Hold(u) PROVE IInv'
  BY <1>10, DecisionInv
<1> QED
  BY <1>1, <1>2, <1>3, <1>4, <1>5, <1>6, <1>7, <1>8, <1>9, <1>10, NextIsHandlers DEF Handler

THEOREM Invariance == Spec => []IInv
  BY InitInv, StepInv, PTL DEF Spec

\* Types, for any users, tablets and bounds.
THEOREM TypeCorrect == Spec => []TypeOK
<1>1. IInv => TypeOK
  BY DEF IInv
<1> QED BY <1>1, Invariance, PTL

\* The result of a submitted lot is that of its readings (submit, saveProgress, review).
THEOREM ResultIsOfReadings == Spec => []SubmittedResultIsOfReadings
<1>1. IInv => SubmittedResultIsOfReadings
  BY DEF IInv
<1> QED BY <1>1, Invariance, PTL

\* The reviewer who moves a lot has its page fresh: the history's new row names that reviewer.
LEMMA DeciderHasFreshPage ==
  ASSUME IInv, Next, lot.status \in UnderReview, lot'.status # lot.status
  PROVE  LET u == history'[Len(history')].actor IN u \in Reviewer /\ page[u].fresh
<1> USE DEF IInv
<1>1. ASSUME NEW u \in Reviewer, NEW from, NEW reviewers, NEW action, NEW to, Review(u, from, reviewers, action, to)
      PROVE  history'[Len(history')].actor = u /\ page[u].fresh
  BY <1>1 DEF Review, Logged, TypeOK
<1>2. PICK u \in Reviewer : Approve(u) \/ HeadApprove(u) \/ Escalate(u) \/ Revert(u) \/ Hold(u)
  <2>1. lot.status \notin Editable
    BY DEF UnderReview, Editable
  <2> QED BY <2>1, NextIsHandlers DEF Handler, Save, Submit, MayRecord, TakeOver, ClaimLapses, CheckoutReads,
             CheckoutInserts, Release, OpenPage, lotVars
<1>3. \E from, reviewers, action, to : Review(u, from, reviewers, action, to)
  BY <1>2 DEF Approve, HeadApprove, Close, Escalate, Revert, Hold
<1> QED BY <1>1, <1>3

\* A page loaded before the lot was measured again decides nothing (rowVersion in review).
THEOREM ReviewIsInformed == Spec => InformedReview
<1>1. IInv /\ [Next]_inspectionVars =>
        [lot.status \in UnderReview /\ lot'.status # lot.status =>
           LET seen == page[history'[Len(history')].actor] IN
             seen.readings = readings /\ seen.result = lot.result]_inspectionVars
  <2> SUFFICES ASSUME IInv, Next, lot.status \in UnderReview, lot'.status # lot.status
               PROVE  LET seen == page[history'[Len(history')].actor] IN
                        seen.readings = readings /\ seen.result = lot.result
    BY DEF inspectionVars
  <2> QED BY DeciderHasFreshPage DEF IInv, FreshPageIsCurrent
<1> QED BY <1>1, Invariance, PTL DEF Spec, InformedReview

-----------------------------------------------------------------------------
(* The inspection implements the lot's card. *)

LEMMA CardInit == Init => Card!Init
<1> SUFFICES ASSUME Init PROVE Card!Init
  OBVIOUS
<1>1. readings \in [Sample -> Reading]
  BY DEF Init, Reading
<1> QED BY <1>1 DEF Init, Card!Init, Editable, UnderReview, None

\* The verdict of the card is the result of its readings.
LEMMA CardVerdict ==
  ASSUME NEW rd \in [Sample -> Reading]
  PROVE  [r \in [Sample -> Reading] |-> Result(r)][rd] = Result(rd)
  OBVIOUS

LEMMA CardStep == IInv /\ [Next]_inspectionVars => [Card!Next]_(Card!card)
<1> SUFFICES ASSUME IInv, [Next]_inspectionVars PROVE [Card!Next]_(Card!card)
  OBVIOUS
<1> USE DEF Editable, UnderReview
<1>a. UNCHANGED <<lot, readings>> => UNCHANGED Card!card
  BY DEF Card!card
<1>1. CASE UNCHANGED inspectionVars
  BY <1>1, <1>a DEF inspectionVars
<1>2. ASSUME NEW u \in Inspector, NEW d \in Device \cup {None}, NEW rd \in [Sample -> Reading], Save(u, d, rd)
      PROVE  Card!Measure
  BY <1>2 DEF Save, MayRecord, Card!Measure, IInv, TypeOK, LotState
<1>3. ASSUME NEW u \in Inspector, NEW d \in Device \cup {None}, Submit(u, d)
      PROVE  Card!HandIn
  BY <1>3, CardVerdict DEF Submit, MayRecord, Card!HandIn, IInv, TypeOK
<1>4. ASSUME NEW u \in Inspector, TakeOver(u) PROVE UNCHANGED <<lot, readings>>
  BY <1>4 DEF TakeOver
<1>5. CASE ClaimLapses
  BY <1>5, <1>a DEF ClaimLapses
<1>6. ASSUME NEW u \in Inspector, NEW d \in Device, CheckoutReads(u, d) PROVE UNCHANGED <<lot, readings>>
  BY <1>6 DEF CheckoutReads, lotVars
<1>7. ASSUME NEW d \in Device, CheckoutInserts(d) PROVE UNCHANGED <<lot, readings>>
  BY <1>7 DEF CheckoutInserts
<1>8. CASE Release
  BY <1>8, <1>a DEF Release
<1>9. ASSUME NEW u \in Reviewer, OpenPage(u) PROVE UNCHANGED <<lot, readings>>
  BY <1>9 DEF OpenPage, lotVars
<1>10. ASSUME NEW u \in Reviewer, Approve(u) \/ HeadApprove(u) PROVE Card!Decide
  BY <1>10 DEF Approve, HeadApprove, Close, Review, Card!Decide, IInv, TypeOK, LotState
<1>11. ASSUME NEW u \in Reviewer, Escalate(u) PROVE UNCHANGED Card!card
  BY <1>11 DEF Escalate, Review, Card!card, IInv, TypeOK, LotState
<1>12. ASSUME NEW u \in Reviewer, Revert(u) PROVE Card!SendBack
  BY <1>12 DEF Revert, Review, Card!SendBack, IInv, TypeOK, LotState
<1>13. ASSUME NEW u \in Reviewer, Hold(u) PROVE Card!Decide
  BY <1>13 DEF Hold, Review, Card!Decide, IInv, TypeOK, LotState
<1> QED
  BY <1>1, <1>2, <1>3, <1>4, <1>5, <1>6, <1>7, <1>8, <1>9, <1>10, <1>11, <1>12, <1>13, <1>a, NextIsHandlers
  DEF Handler, Card!Next

\* Whatever inspectors, tablets and reviewers do at once, the lot changes as one person's card.
THEOREM InspectionIsACard == Spec => ImplementsLotCard
  BY CardInit, CardStep, Invariance, PTL DEF Spec, ImplementsLotCard, Card!Spec
=============================================================================
