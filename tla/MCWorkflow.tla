----------------------------- MODULE MCWorkflow -----------------------------
(* A development plan: implement, check, report; a reviewer may be added.   *)
EXTENDS Workflow

MCNeeds == [n \in {"make", "check", "report"} |->
               CASE n = "make" -> {} [] n = "check" -> {"make"} [] OTHER -> {"make", "check"}]
=============================================================================
