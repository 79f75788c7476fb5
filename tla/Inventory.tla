----------------------------- MODULE Inventory -----------------------------
(***************************************************************************)
(* What POST /api/v1/inventory/{reserve,unreserve,fulfill} of B2B promises *)
(* its client: a request either takes effect entirely, in one step, or     *)
(* leaves the tables alone.  InventoryTx, the row-locking implementation,  *)
(* is shown to implement this specification.                               *)
(***************************************************************************)
EXTENDS Stock

CONSTANT Requests   \* HTTP requests the service receives

\* How a request ends; "pending" until then.
Outcomes ==
    {"pending", "applied", "cached", "conflict", "duplicate", "rolledback"}

VARIABLES
    call,     \* the content of each request
    outcome   \* its answer

vars == <<tables, call, outcome>>

TypeOK ==
    /\ StockTypeOK
    /\ call \in [Requests -> Calls]
    /\ outcome \in [Requests -> Outcomes]

Init ==
    /\ StockInit
    /\ call \in [Requests -> Calls]
    /\ \A r \in Requests : Wanted(call[r].items) # {}
    /\ outcome = [r \in Requests |-> "pending"]

-----------------------------------------------------------------------------
Answer(r, o) ==
    /\ outcome[r] = "pending"
    /\ outcome' = [outcome EXCEPT ![r] = o]
    /\ UNCHANGED call

\* 200: the request took effect.
Apply(r) ==
    /\ Answer(r, "applied")
    /\ TakesEffect(call[r])

\* 200 without effect: the id was processed before.
Replay(r) ==
    /\ Answer(r, "cached")
    /\ IsRepeat(call[r])
    /\ UNCHANGED tables

\* 409 RESERVE_FAILED.
Refuse(r) ==
    /\ Answer(r, "conflict")
    /\ IsRefused(call[r])
    /\ UNCHANGED tables

\* 500 on a UNIQUE violation, or the loss of the process or the connection:
\* the database rolls the transaction back.
Fail(r) ==
    /\ Answer(r, "duplicate") \/ Answer(r, "rolledback")
    /\ UNCHANGED tables

DeleteRow(s) ==
    /\ DeleteRowEffect(s)
    /\ UNCHANGED <<call, outcome>>

Next ==
    \/ \E r \in Requests : Apply(r) \/ Replay(r) \/ Refuse(r) \/ Fail(r)
    \/ \E s \in SKUs : DeleteRow(s)

Spec == Init /\ [][Next]_vars

=============================================================================
