--------------------------- MODULE ProviderStream ---------------------------
(***************************************************************************)
(* What FindProvidersAsync promises to its caller, for one DHT and for the *)
(* dual one: a channel of distinct providers, at most count of them unless *)
(* count is zero, that is closed once and carries nothing after that.      *)
(* ProviderSearch and DualProviders are shown to keep this promise, and    *)
(* DualProviders relies on it for both of its parts.                       *)
(***************************************************************************)
EXTENDS Integers, Sequences

CONSTANTS
    Provs,          \* the providers
    Counts          \* the values of count

VARIABLES
    count,
    sent,           \* what has been sent so far
    closed          \* the channel is closed

streamVars == <<count, sent, closed>>

Sent == {sent[i] : i \in DOMAIN sent}

Init == count \in Counts /\ sent = << >> /\ closed = FALSE

Send(v) ==
    /\ ~closed
    /\ v \notin Sent
    /\ count = 0 \/ Len(sent) < count
    /\ sent' = Append(sent, v)
    /\ UNCHANGED <<count, closed>>

Close == ~closed /\ closed' = TRUE /\ UNCHANGED <<count, sent>>

Next == (\E v \in Provs : Send(v)) \/ Close

Spec == Init /\ [][Next]_streamVars
=============================================================================
