--------------------------- MODULE MCInventoryTx ---------------------------
(* Model values and bounds for InventoryTx. *)
EXTENDS InventoryTx, TLC

LOCAL INSTANCE SequencesExt

\* Two SKUs: one of which two unit reserves fit, one of which a single one does.
MCInitialStock == (1 :> 2) @@ (2 :> 1)

\* Requests are alike, so of the initial states that differ only in which
\* request says what, one is enough.  (A SYMMETRY would reduce as much, but is
\* not sound for liveness.)
MCOps == SetToSeq({"reserve", "unreserve", "fulfill"})
MCIds == SetToSeq(IdemKeys \cup OrderIds)
MCRank(c) == 100 * IndexFirstSubSeq(<<c.op>>, MCOps) + 10 * IndexFirstSubSeq(<<c.id>>, MCIds)
             + 2 * c.items[1] + c.items[2]

MCInit == Init /\ \A r, q \in Requests : r < q => MCRank(call[r]) <= MCRank(call[q])

MCSpec == MCInit /\ [][Next]_vars /\ Fairness
=============================================================================
