------------------------------- MODULE Inbox -------------------------------
(***************************************************************************)
(* IdempotentHandler (shared/inbox/helpers.py): look the key up, run the   *)
(* handler, record the key, in one session.  In B2C the handler writes     *)
(* through that session.  In B2B its repositories open sessions of their   *)
(* own, each on another connection of the same pool, while the first one   *)
(* stays open.  OwnTransactions picks the kind: all keys are B2B, none is  *)
(* B2C, and a run with some of each checks the two kinds at once.          *)
(***************************************************************************)
EXTENDS Naturals, FiniteSets

CONSTANTS
    Deliveries,       \* HTTP deliveries of events
    Keys,             \* their idempotency keys
    PoolSize,         \* connections of the service's engine
    OwnTransactions   \* keys of the events whose handler commits by itself

ASSUME InboxAssumption ==
    /\ IsFiniteSet(Deliveries)
    /\ PoolSize \in Nat \ {0}
    /\ OwnTransactions \subseteq Keys

VARIABLES
    inbox,    \* processed_events
    applied,  \* how often the effect of each key was committed
    key,      \* the key each delivery carries
    step

vars == <<inbox, applied, key, step>>

Steps == {"idle", "arrived", "handling", "applying", "applied", "flushed",
          "done", "replayed", "failed", "crashed"}
Answered == {"done", "replayed", "failed", "crashed"}

TypeOK ==
    /\ inbox \subseteq Keys
    /\ applied \in [Keys -> Nat]
    /\ key \in [Deliveries -> Keys]
    /\ step \in [Deliveries -> Steps]

Init ==
    /\ inbox = {}
    /\ applied = [k \in Keys |-> 0]
    /\ key \in [Deliveries -> Keys]
    /\ step = [d \in Deliveries |-> "idle"]

\* The handler of this delivery opens transactions of its own.
Own(d) == key[d] \in OwnTransactions

Go(d, to) == step' = [step EXCEPT ![d] = to]

\* Connections in use: the inbox session's, and the handler's own.
Sessions == {d \in Deliveries : step[d] \in {"handling", "applying", "applied", "flushed"}}
Inner == {d \in Deliveries : Own(d) /\ step[d] = "applying"}
InUse == Cardinality(Sessions) + Cardinality(Inner)
PoolFull == InUse >= PoolSize

Arrive(d) ==
    /\ step[d] = "idle"
    /\ Go(d, "arrived")
    /\ UNCHANGED <<inbox, applied, key>>

\* _lookup takes a connection; a recorded key is answered from the record.
LookUp(d) ==
    /\ step[d] = "arrived" /\ ~PoolFull
    /\ Go(d, IF key[d] \in inbox THEN "replayed" ELSE "handling")
    /\ UNCHANGED <<inbox, applied, key>>

\* The handler begins: B2B's takes another connection.
BeginHandler(d) ==
    /\ step[d] = "handling"
    /\ Own(d) => ~PoolFull
    /\ Go(d, "applying")
    /\ UNCHANGED <<inbox, applied, key>>

\* The handler returns: B2B's has committed, in one step here; the chain of its
\* transactions is that of ProductLifecycle.
EndHandler(d) ==
    /\ step[d] = "applying"
    /\ applied' = IF Own(d) THEN [applied EXCEPT ![key[d]] = @ + 1] ELSE applied
    /\ Go(d, "applied")
    /\ UNCHANGED <<inbox, key>>

\* Mutant: ON CONFLICT DO NOTHING.
FlushAnyway(d) ==
    /\ step[d] = "applied"
    /\ \A e \in Deliveries : key[e] = key[d] => step[e] # "flushed"
    /\ Go(d, "flushed")
    /\ UNCHANGED <<inbox, applied, key>>

\* Mutant: the key is a mere index, not UNIQUE.
FlushUnseen(d) ==
    /\ step[d] = "applied"
    /\ Go(d, IF key[d] \in inbox THEN "failed" ELSE "flushed")
    /\ UNCHANGED <<inbox, applied, key>>

\* INSERT INTO processed_events waits for an uncommitted row of the same key.
\* Against a committed one it fails; the session is rolled back inside its
\* begin() block, the second lookup finds the block closed, and raises.
Flush(d) ==
    /\ step[d] = "applied"
    /\ \A e \in Deliveries : key[e] = key[d] => step[e] # "flushed"
    /\ Go(d, IF key[d] \in inbox THEN "failed" ELSE "flushed")
    /\ UNCHANGED <<inbox, applied, key>>

\* The session's transaction commits, B2C's effect with it.
Commit(d) ==
    /\ step[d] = "flushed"
    /\ inbox' = inbox \cup {key[d]}
    /\ applied' = IF Own(d) THEN applied ELSE [applied EXCEPT ![key[d]] = @ + 1]
    /\ Go(d, "done")
    /\ UNCHANGED key

\* Mutant: the pool waits for ever.
PoolTimeoutNever(d) == FALSE /\ UNCHANGED vars

\* The pool hands out no connection in time: 500.
PoolTimeout(d) ==
    /\ step[d] = "arrived" \/ (step[d] = "handling" /\ Own(d))
    /\ PoolFull
    /\ Go(d, "failed")
    /\ UNCHANGED <<inbox, applied, key>>

Crash(d) ==
    /\ step[d] \notin Answered \cup {"idle"}
    /\ Go(d, "crashed")
    /\ UNCHANGED <<inbox, applied, key>>

Proceed(d) ==
    \/ LookUp(d) \/ BeginHandler(d) \/ EndHandler(d) \/ Flush(d) \/ Commit(d) \/ PoolTimeout(d)

Next == \E d \in Deliveries : Arrive(d) \/ Proceed(d) \/ Crash(d)

Spec == Init /\ [][Next]_vars

\* The event loop, the database and the pool's timer go on.
FairSpec == Spec /\ \A d \in Deliveries : WF_vars(Proceed(d))

-----------------------------------------------------------------------------
(* Safety. *)

\* What is answered from the record has happened, and nothing is recorded that
\* has not.
RecordedIsApplied == \A k \in inbox : applied[k] > 0

\* B2B: of racing deliveries only one ends well; where all that took a key on
\* did, the effect was committed once.
CleanRunsApplyOnce ==
    \A k \in Keys :
        (\A d \in Deliveries : key[d] = k => step[d] \in {"idle", "arrived", "replayed", "done"})
        => applied[k] <= 1

\* B2C: at most once, and exactly with the record.
AppliedWithRecord ==
    \A k \in Keys \ OwnTransactions : applied[k] = IF k \in inbox THEN 1 ELSE 0

(* Liveness. *)

\* Deliveries that wait for connections held by each other are answered all the
\* same, by the pool's timeout.
EveryDeliveryIsAnswered ==
    \A d \in Deliveries : step[d] = "arrived" ~> step[d] \in Answered

(* What comments say and the code does not do. *)

\* helpers.py:32: at-most-once.
AtMostOnce == \A k \in Keys : applied[k] <= 1

\* helpers.py:56-57: of two concurrent deliveries, the one whose INSERT fails
\* answers from the record.
LoserIsReplayed ==
    [][\A d \in Deliveries : step[d] = "applied" /\ key[d] \in inbox => step'[d] # "failed"]_vars

=============================================================================
