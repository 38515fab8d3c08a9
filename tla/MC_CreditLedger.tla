--------------------------- MODULE MC_CreditLedger ---------------------------
(* One or two users, two advice requests and an analysis that compete for  *)
(* their credits, and two top-ups that may carry the same idempotency key. *)
EXTENDS CreditLedger, TLC

Symmetry ==
    Permutations(Users) \union Permutations(Advices) \union Permutations(TopUps)
=============================================================================
