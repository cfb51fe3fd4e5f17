-------------------------- MODULE MCProviderSearch --------------------------
(* Three peers, asked one or two at a time, of which two fit the result, and *)
(* two providers.                                                            *)
EXTENDS ProviderSearch

CONSTANTS p1, p2, p3, a, b

\* The peers differ in nothing but the providers they answer with, nor do the providers in
\* anything but who knows them: it is enough to start with the answers in order of their
\* size, and with a where the largest has one provider.  Two queries run at a time, so one
\* peer may know no provider.
MCInit ==
    /\ Init
    /\ provides[p1] = {} /\ provides[p3] # {b}
    /\ Cardinality(provides[p2]) <= Cardinality(provides[p3])
MCSpec == MCInit /\ [][Next]_vars /\ Fairness
=============================================================================
