----------------------------- MODULE MCDeviation -----------------------------
(* Deviation on a small cast: one requestor per department, System Admin    *)
(* who stands in for everybody, one user for the approvers, the IQC Head    *)
(* and the In-Charge, and two who may override.                             *)
EXTENDS Deviation

MCUser == {"scm", "vd", "iqc", "cqa", "ops", "admin"}

MCHolds ==
  [u \in MCUser |->
     CASE u = "scm"   -> {"SCM_REQUESTOR"}
       [] u = "vd"    -> {"VD_REQUESTOR"}
       [] u = "iqc"   -> {"SCM_SUB_HEAD", "VD_HEAD", "IQC_HEAD", "IQC_INCHARGE",
                          "PLANT_HEAD", "PLANT_QA_HEAD", "PDC_HEAD"}
       [] u = "cqa"   -> {"CQA_HEAD"}
       [] u = "ops"   -> {"CENTRAL_OPS_HEAD"}
       [] u = "admin" -> {"SYSTEM_ADMIN"}]
=============================================================================
