------------------------ MODULE MC_SingleFlightCache ------------------------
(* Four calls, enough for an owner, two waiters of which one is cancelled, *)
(* and a later call that meets what they left; two keys for the            *)
(* independence of keys.                                                   *)
EXTENDS SingleFlightCache, TLC

Symmetry == Permutations(Callers) \union Permutations(Keys)
=============================================================================
