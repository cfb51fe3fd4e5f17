---------------------------- MODULE ProviderCall ----------------------------
(***************************************************************************)
(* The arguments of FindProvidersAsync (go-libp2p-kad-dht/routing.go, and  *)
(* dual/dual.go for the dual DHT), and the channel it makes from them.     *)
(***************************************************************************)
EXTENDS CallerContext, Integers

CONSTANTS
    Provs,              \* the providers
    NoProv,
    Counts              \* the values of count: 0 if all providers are wanted

ASSUME ProviderCallAssumption == NoProv \notin Provs /\ Counts \subseteq Nat

VARIABLE count

\* Mutant: the channel has always the size for count = 0.
chSizeOne == 1

\* The room in the channel.
chSize == IF count = 0 THEN 1 ELSE count
=============================================================================
