----------------------------- MODULE MC_LiveCache -----------------------------
(* Two wallets in the wallets section and one other section: the smallest  *)
(* payload in which a wallet, its section and a stranger can overwrite     *)
(* each other.                                                             *)
EXTENDS LiveCache, TLC

Symmetry == Permutations(Wallets)
=============================================================================
