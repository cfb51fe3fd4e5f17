--------------------------- MODULE MCValueStore ---------------------------
(* Two requests at a time, and records that outlive their age.              *)
EXTENDS ValueStore, TLC
=============================================================================
