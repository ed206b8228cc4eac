------------------------------ MODULE MCProducers ------------------------------
(* Bounded instances of Producers; the .cfg files give the bounds. *)
EXTENDS Producers
================================================================================
