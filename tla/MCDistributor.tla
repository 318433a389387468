--------------------------- MODULE MCDistributor ----------------------------
(* The coroutines are alike, and so are the idents.                        *)
EXTENDS Distributor, TLC

Symmetric == Permutations(Coros) \cup Permutations(Idents)
=============================================================================
