------------------------------ MODULE LotCard ------------------------------
(***************************************************************************)
(* What the inspection of a lot promises, without inspectors, tablets,     *)
(* holds and pages: a card that is filled in, judged once when it is       *)
(* handed in, and not touched while somebody decides on it.                *)
(***************************************************************************)

CONSTANTS
  Measurement,   \* the ways the card can be filled in
  Complete,      \* those that may be handed in
  Judgement,     \* the verdict on a complete card
  Unjudged       \* no verdict

VARIABLES phase, measured, verdict

card == <<phase, measured, verdict>>

Init == phase = "MEASURING" /\ measured \in Measurement /\ verdict = Unjudged

Measure ==
  /\ phase = "MEASURING"
  /\ measured' \in Measurement
  /\ UNCHANGED <<phase, verdict>>

HandIn ==
  /\ phase = "MEASURING" /\ measured \in Complete
  /\ phase' = "REVIEW" /\ verdict' = Judgement[measured]
  /\ UNCHANGED measured

SendBack ==
  /\ phase = "REVIEW" /\ phase' = "MEASURING" /\ verdict' = Unjudged
  /\ UNCHANGED measured

\* The lot is taken, or held for a deviation: the card is closed.
Decide ==
  /\ phase = "REVIEW" /\ phase' \in {"ACCEPTED", "HELD"}
  /\ UNCHANGED <<measured, verdict>>

Next == Measure \/ HandIn \/ SendBack \/ Decide

Spec == Init /\ [][Next]_card
=============================================================================
