--------------------------- MODULE LookupOutline ---------------------------
(***************************************************************************)
(* The lookup (go-libp2p-kad-dht/query.go, in detail in Lookup) as the     *)
(* searches that run on it see it: at most alpha queries at a time, new    *)
(* ones only when an update arrives, stopFn looked at only then, the join  *)
(* of its workers, and the follow-up of those peers of the result that     *)
(* have not been asked to the end.  Distances are left out: any peers may  *)
(* be the nearest ones, and may be heard of at any time.                   *)
(*                                                                         *)
(* What a query does between "asking" and "report" or "failed", and the    *)
(* stop function, belong to the search: it passes the value of stopFn as   *)
(* stopped.                                                                *)
(***************************************************************************)
EXTENDS Node, CallerContext, Integers, FiniteSets

CONSTANTS alpha, beta

ASSUME LookupAssumption ==
    /\ IsFiniteSet(Peers)
    /\ alpha \in Nat \ {0} /\ beta \in Nat \ {0} /\ bucketSize \in Nat \ {0}
    /\ ContextsEnd \in BOOLEAN

VARIABLES
    lookup,         \* where the lookup is
    work,           \* work[p]: where the query of p is
    result          \* the peers of the lookup's result

lookupVars == <<lookup, work, result>>

At(w) == {p \in Peers : work[p] = w}
InFlight == At("asking") \cup At("send") \cup At("report") \cup At("failed")
Move(p, w) == work' = [work EXCEPT ![p] = w]

\* The context of a query has ended: the caller's, or that of its path.
Cancelled == ctxDone \/ lookup \in {"join", "drain"}

\* The sets of peers that may be asked next when n queries are outstanding.  Which of the
\* others the lookup has heard of by now is any choice.
Spawned(heard, n) == {S \in SUBSET heard : Cardinality(S) <= alpha - n}

NothingAsked == [p \in Peers |-> "heard"]

\* The peers nearest to the key are asked first.
Starts ==
    {[p \in Peers |-> IF p \in S THEN "asking" ELSE "heard"] : S \in Spawned(Peers, 0) \ {{}}}
-----------------------------------------------------------------------------
\* An update arrives.  The lookup ends if it is stopped; if it has heard of no other peer,
\* when none is being asked; or if the beta nearest peers have answered, when that many
\* have.  Otherwise it asks more peers.
HandleUpdate(p, stopped) ==
    /\ lookup = "run"
    /\ work[p] \in {"report", "failed"}
    /\ LET w == [work EXCEPT ![p] = IF work[p] = "report" THEN "done" ELSE "unreachable"]
           heard == At("heard")
           n == Cardinality(InFlight \ {p})
           queried == {q \in Peers : w[q] = "done"}
       IN  \/ /\ stopped \/ n = 0 \/ Cardinality(queried) >= beta
              /\ lookup' = "join" /\ work' = w
           \/ /\ ~stopped
              /\ \E S \in Spawned(heard, n) :
                    /\ S # {} \/ n > 0
                    /\ work' = [q \in Peers |-> IF q \in S THEN "asking" ELSE w[q]]
              /\ UNCHANGED lookup
    /\ UNCHANGED result

LookupCancelled ==
    /\ lookup = "run" /\ ctxDone
    /\ lookup' = "join"
    /\ UNCHANGED <<work, result>>

\* The peers of the result: the nearest bucketSize of those heard of and not unreachable.
Results ==
    {R \in SUBSET (Peers \ At("unreachable")) :
        \/ Cardinality(R) = bucketSize
        \/ Cardinality(R) < bucketSize /\ At("done") \cup InFlight \subseteq R}

\* The result is made.  Peers of it that were not asked to the end are asked (again),
\* unless the search has been stopped.
Followup(stopped) ==
    \E R \in Results :
        LET F == R \cap (At("heard") \cup InFlight) IN
        /\ result' = R
        /\ IF F = {} \/ ctxDone \/ stopped
           THEN lookup' = "ended" /\ UNCHANGED work
           ELSE /\ lookup' = "followup"
                /\ work' = [p \in Peers |-> IF p \in F THEN "asking"
                                            ELSE IF p \in InFlight THEN "heard" ELSE work[p]]

\* Mutant: waitGroup.Wait is left out.
JoinAtOnce(stopped) == lookup = "join" /\ Followup(stopped)

\* The workers have ended.
Join(stopped) ==
    /\ lookup = "join"
    /\ At("asking") = {} /\ At("send") = {}
    /\ Followup(stopped)

\* A query of the follow-up is over: the others are cancelled if the search is stopped.
ReceiveFollowup(p, stopped) ==
    /\ lookup = "followup"
    /\ work[p] \in {"report", "failed"}
    /\ Move(p, IF work[p] = "report" THEN "done" ELSE "unreachable")
    /\ lookup' = IF InFlight = {p} THEN "ended" ELSE IF stopped THEN "drain" ELSE "followup"
    /\ UNCHANGED result

CancelFollowup ==
    /\ lookup = "followup" /\ ctxDone
    /\ lookup' = "drain"
    /\ UNCHANGED <<work, result>>

\* The follow-ups that were cancelled are waited for.
Drain ==
    /\ lookup = "drain"
    /\ At("asking") = {} /\ At("send") = {}
    /\ lookup' = "ended"
    /\ UNCHANGED <<work, result>>

LookupMove(stopped) ==
    \/ \E p \in Peers : HandleUpdate(p, stopped) \/ ReceiveFollowup(p, stopped)
    \/ LookupCancelled \/ Join(stopped) \/ CancelFollowup \/ Drain
-----------------------------------------------------------------------------
(* The lookup by itself, whatever its queries do: what Lookup implements.   *)

LookupInit == lookup = "idle" /\ work = NothingAsked /\ result = {}

\* There are peers to ask; or the lookup is stopped before it asks the first one; or the
\* table is empty, or the context has ended.
LookupStart(stopped) ==
    /\ lookup = "idle"
    /\ \/ lookup' = "run" /\ work' \in Starts
       \/ stopped /\ lookup' = "join" /\ UNCHANGED work
       \/ lookup' = "ended" /\ UNCHANGED work
    /\ UNCHANGED result

\* A query goes on, or is over.
QueryMove(p) ==
    /\ \/ work[p] = "asking" /\ \E w \in {"send", "report", "failed"} : Move(p, w)
       \/ work[p] = "send" /\ \E w \in {"report", "failed"} : Move(p, w)
    /\ UNCHANGED <<lookup, result>>

LookupNext(stopped) ==
    LookupStart(stopped) \/ LookupMove(stopped) \/ \E p \in Peers : QueryMove(p)
=============================================================================
