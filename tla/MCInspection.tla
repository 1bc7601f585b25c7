---------------------------- MODULE MCInspection ----------------------------
(* Inspection with two interchangeable inspectors and tablets, an In-Charge *)
(* and an IQC Head who is also an In-Charge.                                *)
EXTENDS Inspection, TLC

CONSTANTS i1, i2, t1, t2, inCharge, head

Interchangeable == Permutations({i1, i2}) \cup Permutations({t1, t2})
=============================================================================
