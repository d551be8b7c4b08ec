------------------------------ MODULE MCServer ------------------------------
(* Server with two connections: one can be served while the other owns the *)
(* short buffer, and the array is compacted under it.                      *)
EXTENDS Server
=============================================================================
