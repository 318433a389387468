---------------------------- MODULE MCCoroMutex -----------------------------
(* Model checking of CoroMutex on a few clients.                           *)
EXTENDS CoroMutex, TLC

ClientSymmetry == Permutations(Clients)
=============================================================================
