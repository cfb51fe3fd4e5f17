------------------------------- MODULE MCDual -------------------------------
(* Three providers, of which either part may find any, in any order.         *)
EXTENDS Dual

CONSTANTS a, b, c
=============================================================================
