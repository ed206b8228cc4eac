------------------------------- MODULE MCJob -------------------------------
(* Job on small instances. *)
EXTENDS Job
=============================================================================
