------------------------- MODULE MCDeviationReversal -------------------------
(* DeviationReversal on three people: a requestor who is a department head  *)
(* as well, the CQA Head, and a System Admin who stands in for everybody    *)
(* else and reverses.                                                       *)
EXTENDS DeviationReversal

MCUser == {"scm", "cqa", "admin"}

MCHolds ==
  [u \in MCUser |->
     CASE u = "scm"   -> {"SCM_REQUESTOR", "SCM_HEAD"}
       [] u = "cqa"   -> {"CQA_HEAD"}
       [] u = "admin" -> {"SYSTEM_ADMIN"}]
=============================================================================
