---------------------------- MODULE MCProcessSource ----------------------------
(* ProcessSource on small pipelines; the .cfg file gives the bounds. *)
EXTENDS ProcessSource
================================================================================
