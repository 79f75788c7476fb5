------------------------------ MODULE MCOrders ------------------------------
(* Model values and bounds for Orders. *)
EXTENDS Orders, TLC

\* Two SKUs, one of them scarce.
MCInitialStock == (1 :> 2) @@ (2 :> 1)

\* Checkouts are interchangeable; so are the keys they carry.
MCSymmetry == Permutations(OrderIds) \cup Permutations(IdemKeys)
=============================================================================
