------------------------------ MODULE MCWriter ------------------------------
(* Writer on small frames. *)
EXTENDS Writer

\* A frame longer than two chunks and than the pipe, an empty one, a short one
\* and one of exactly one chunk.
MCLength == <<5, 0, 1, 2>>
=============================================================================
