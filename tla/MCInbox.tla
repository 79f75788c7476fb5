------------------------------ MODULE MCInbox ------------------------------
(* Model values and bounds for Inbox. *)
EXTENDS Inbox, TLC

\* Deliveries are interchangeable.
MCSymmetry == Permutations(Deliveries)
=============================================================================
