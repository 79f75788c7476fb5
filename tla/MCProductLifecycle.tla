------------------------- MODULE MCProductLifecycle -------------------------
(* Model values and bounds for ProductLifecycle. *)
EXTENDS ProductLifecycle, TLC

\* Requests and deliveries are interchangeable.
MCSymmetry == Permutations(Requests) \cup Permutations(Handlers)
=============================================================================
