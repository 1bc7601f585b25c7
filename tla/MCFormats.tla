----------------------------- MODULE MCFormats -----------------------------
(* Formats on a small instance: checkpoints, and the values they ask for,   *)
(* are interchangeable.                                                     *)
EXTENDS Formats, TLC

MCSymmetry == Permutations(Check) \cup Permutations(Value)
=============================================================================
