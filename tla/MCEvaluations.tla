----------------------------- MODULE MCEvaluations -----------------------------
(* Evaluations on small sessions; the .cfg files give the bounds. *)
EXTENDS Evaluations
================================================================================
