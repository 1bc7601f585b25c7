--------------------------- MODULE DeviationCase ---------------------------
(***************************************************************************)
(* What the deviation of a held lot promises, without forms, rounds, roles *)
(* and timers: the IQC Head closes the case as the standing answer says.   *)
(* The department gives an answer; the senior authorities may replace it,  *)
(* once asked, and may replace their own; or they hand the case back to    *)
(* the department, which wipes the answer out.                             *)
(***************************************************************************)

VARIABLES
  phase,    \* "DEPARTMENT", "DECISION", "SENIORS", "QUANTITIES" or "CLOSED"
  answer,   \* the standing answer, and who gave it
  outcome   \* how the case was closed

case == <<phase, answer, outcome>>

Answers == {"FOR", "AGAINST"}
NoAnswer == [by |-> "NOBODY", is |-> "NONE"]

Init == phase = "DEPARTMENT" /\ answer = NoAnswer /\ outcome = "NONE"

DepartmentAnswers ==
  /\ phase = "DEPARTMENT" /\ phase' = "DECISION"
  /\ answer' \in [by : {"DEPARTMENT"}, is : Answers]
  /\ UNCHANGED outcome

AskSeniors ==
  /\ phase = "DECISION" /\ answer.by = "DEPARTMENT"
  /\ phase' = "SENIORS"
  /\ UNCHANGED <<answer, outcome>>

SeniorsAnswer ==
  /\ \/ phase = "SENIORS"
     \/ phase = "DECISION" /\ answer.by = "SENIORS"
  /\ phase' = "DECISION"
  /\ answer' \in [by : {"SENIORS"}, is : Answers]
  /\ UNCHANGED outcome

SeniorsHandBack ==
  /\ phase = "SENIORS" /\ phase' = "DEPARTMENT" /\ answer' = NoAnswer
  /\ UNCHANGED outcome

\* A lot that is segregated or reworked waits for its quantities, and closes without them in the end.
Accept ==
  /\ phase = "DECISION" /\ answer.is = "FOR"
  /\ \/ phase' = "CLOSED" /\ outcome' = "ACCEPTED"
     \/ phase' = "QUANTITIES" /\ UNCHANGED outcome
  /\ UNCHANGED answer

Reject ==
  /\ phase = "DECISION" /\ answer.is = "AGAINST"
  /\ phase' = "CLOSED" /\ outcome' = "REJECTED"
  /\ UNCHANGED answer

CloseQuantities ==
  /\ phase = "QUANTITIES" /\ phase' = "CLOSED"
  /\ outcome' \in {"ACCEPTED", "LAPSED"}
  /\ UNCHANGED answer

Next ==
  \/ DepartmentAnswers \/ AskSeniors \/ SeniorsAnswer \/ SeniorsHandBack
  \/ Accept \/ Reject \/ CloseQuantities

Spec == Init /\ [][Next]_case
=============================================================================
