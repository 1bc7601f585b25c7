---------------------------- MODULE LotReversal ----------------------------
(***************************************************************************)
(* Reversal of the steps of an inspection lot: a user asks to undo an own  *)
(* decision, an admin sets the lot back to its state just before it.       *)
(* backend/src/modules/workflow/reversal.service.js for records of type    *)
(* IMIR, composed with Inspection; of the deviation and of the defect      *)
(* notification (DN) only what the rules of reversal look at is kept:      *)
(* whether they exist, and whether the deviation has been taken up.        *)
(***************************************************************************)
EXTENDS Inspection, ReversalRules

CONSTANT Admin   \* the users with workflow.reverse

ASSUME AdminAssumption == None \notin Admin

VARIABLES
  request,   \* the pending request: who asked, and the lot's status then (a unique index allows one)
  dn         \* whether a defect notification was raised for the lot

reversalVars == <<inspectionVars, request, dn>>

NoRequest == [by |-> None, status |-> None]

\* Statuses of a lot that follow its deviation; two stand for all.
Track == {"DEPT_REVIEW", "IQC_HEAD_FINAL"}

InEffect(action, steps) == \E s \in steps : history[s].action = action

ReversalInit == Init /\ request = NoRequest /\ dn = FALSE

-----------------------------------------------------------------------------
Request(u) ==
  /\ request = NoRequest /\ OwnSteps(history, u) # {}
  /\ request' = [by |-> u, status |-> lot.status]
  /\ UNCHANGED <<inspectionVars, dn>>

\* The requester takes the request back, or an admin rejects it.
CloseRequest ==
  /\ request # NoRequest /\ request' = NoRequest
  /\ UNCHANGED <<inspectionVars, dn>>

\* Broken variant: the deviation survives its hold.
RestoreKeepsDeviation(step, kept) ==
  /\ dn => InEffect("ESCALATE", kept)
  /\ lot' = history[step].before
  /\ UNCHANGED deviation

\* The deviation is withdrawn with its hold, if nobody has worked on it; a DN needs its escalation.
RestoreImir(step, kept) ==
  LET holdUndone == deviation # None /\ ~InEffect("HOLD", kept) IN
    /\ holdUndone => deviation = "OFFERED"
    /\ dn => InEffect("ESCALATE", kept)
    /\ lot' = history[step].before
    /\ deviation' = IF holdUndone THEN None ELSE deviation

ApproveReversal(admin, step) ==
  /\ request # NoRequest /\ lot.status = request.status
  /\ step \in OwnSteps(history, request.by)
  /\ RestoreImir(step, Before(history, step))
  /\ Len(history) < MaxSteps
  /\ history' = Append(history, [action |-> "REVERSED", actor |-> admin, before |-> lot,
                                 to |-> lot'.status, undone |-> step])
  /\ request' = NoRequest
  /\ Touched
  /\ UNCHANGED <<readings, claim, checkout, tabletVars, dn>>

-----------------------------------------------------------------------------
(* The deviation and the DN, as far as reversal looks at them *)

DeviationAccepted ==
  /\ deviation = "OFFERED"
  /\ deviation' = "ACCEPTED"
  /\ UNCHANGED <<lot, readings, claim, checkout, history, tabletVars, request, dn>>
  /\ Touched

\* Every later step, and its reversal: the lot's status follows. A step may leave a form or a round,
\* which no reversal removes, or neither (recommend_reject).
DeviationMoves(status) ==
  /\ deviation \in {"ACCEPTED", "WORKED"}
  /\ deviation' \in {deviation, "WORKED"}
  /\ lot' = [lot EXCEPT !.status = status]
  /\ Touched
  /\ UNCHANGED <<readings, claim, checkout, history, tabletVars, request, dn>>

\* The acceptance itself is reversed while there is neither form nor round.
DeviationGivenBack ==
  /\ deviation = "ACCEPTED"
  /\ deviation' = "OFFERED"
  /\ lot' = [lot EXCEPT !.status = "DEPT_REVIEW"]
  /\ Touched
  /\ UNCHANGED <<readings, claim, checkout, history, tabletVars, request, dn>>

\* canRaiseFrom looks at every row of the history.
RaiseDn ==
  /\ ~dn /\ InEffect("ESCALATE", DOMAIN history)
  /\ dn' = TRUE
  /\ UNCHANGED <<inspectionVars, request>>

ReversalNext ==
  \/ Next /\ UNCHANGED <<request, dn>>
  \/ \E u \in User : Request(u)
  \/ CloseRequest
  \/ \E admin \in Admin, step \in DOMAIN history : ApproveReversal(admin, step)
  \/ DeviationAccepted
  \/ \E status \in Track : DeviationMoves(status)
  \/ DeviationGivenBack
  \/ RaiseDn

ReversalSpec == ReversalInit /\ [][ReversalNext]_reversalVars

-----------------------------------------------------------------------------
(* What reversal promises *)

\* A lot has a result exactly while its readings are locked, whatever was undone and redone, and
\* the request waiting is one that could be made.
ReversalTypeOK ==
  /\ lot.status \in LotStatus \cup Track
  /\ lot.result \in {None, "OK", "NOK"}
  /\ lot.result = None <=> lot.status \in Editable
  /\ request # NoRequest => request.by \in User /\ request.status \in LotStatus \cup Track

\* A reversal removes steps of the user who asked for it and of nobody else, although others may
\* have acted between the request and its approval and brought the lot back to the same status.
OnlyOwnStepsUndone ==
  [][\A s \in EffectiveSteps(history) \ EffectiveSteps(history') :
        history[s].actor = request.by]_reversalVars

\* The lot is where the last step still in effect took it: what is undone leaves no trace in the
\* status, and what is not undone is not lost.
StatusIsOfTheHistory ==
  /\ ReversalTypeOK
  /\ LET steps == EffectiveSteps(history) IN
       IF steps = {} THEN lot.status \in Editable
       ELSE LET to == history[CHOOSE s \in steps : \A t \in steps : t <= s].to IN
              lot.status = to \/ (to = "DEPT_REVIEW" /\ lot.status \in Track)

\* The lot has a deviation exactly while its hold is in effect, and only then its status is one of
\* the deviation's.
DeviationIffHeld ==
  /\ deviation # None <=> InEffect("HOLD", EffectiveSteps(history))
  /\ deviation # None <=> lot.status \in Track

-----------------------------------------------------------------------------
(* What a comment says of the program and the code does not do *)

\* "A DN has been raised for this lot, so the lot cannot go back before it was escalated": a lot
\* with a DN has an escalation in effect.
DnLotIsEscalated == dn => InEffect("ESCALATE", EffectiveSteps(history))
=============================================================================
