------------------------------- MODULE MCRing -------------------------------
(* Ring with two byte values: enough to tell a lost, repeated, swapped or  *)
(* unwritten byte apart.                                                   *)
EXTENDS Ring
=============================================================================
