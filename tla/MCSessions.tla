----------------------------- MODULE MCSessions -----------------------------
(* Model-checking instance of Sessions: the clients are interchangeable.   *)
EXTENDS SessionsInv, TLC

Symmetry == Permutations(Clients)
=============================================================================
