------------------------- MODULE MCProviderManager -------------------------
(* Two keys that compete for one place in the cache, one with two providers.  *)
EXTENDS ProviderManager, TLC

CONSTANTS k1, k2, p1, p2

MCProvides == {<<k1, p1>>, <<k1, p2>>, <<k2, p1>>}
=============================================================================
