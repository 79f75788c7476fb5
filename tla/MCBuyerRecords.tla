--------------------------- MODULE MCBuyerRecords ---------------------------
(* Model values for BuyerRecords. *)
EXTENDS BuyerRecords, TLC

MCSymmetry == Permutations(Requests) \cup Permutations(OldRows)
=============================================================================
