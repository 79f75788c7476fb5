------------------------- MODULE MCBlockingReasons -------------------------
(* Model values and bounds for BlockingReasons. *)
EXTENDS BlockingReasons, TLC

\* twin has the code of soft and may be created while soft is not there.
MCReasons == {"hard", "soft", "twin"}
MCCodeOf == [hard |-> "H", soft |-> "S", twin |-> "S"]
MCPicks == {<<"soft">>, <<"soft", "hard">>}

MCSymmetry == Permutations(Requests) \cup Permutations(Deliveries) \cup Permutations(Keepers)
=============================================================================
