---------------------------- MODULE MCModeration ----------------------------
(* Model values and bounds for Moderation. *)
EXTENDS Moderation, TLC

\* Requests and deliveries of one kind are interchangeable.
MCSymmetry ==
    Permutations(Requests) \cup Permutations(ModeratorRequests) \cup Permutations(Deliveries)
=============================================================================
