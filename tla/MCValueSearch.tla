--------------------------- MODULE MCValueSearch ---------------------------
(* Three peers, asked one or two at a time, of which two fit the result.     *)
EXTENDS ValueSearch

CONSTANTS p1, p2, p3

\* The peers differ in nothing but the value they hold: it is enough to start with
\* these in order.
MCInit == Init /\ holds[p1] <= holds[p2] /\ holds[p2] <= holds[p3]
MCSpec == MCInit /\ [][Next]_vars /\ Fairness
=============================================================================
