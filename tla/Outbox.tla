------------------------------- MODULE Outbox -------------------------------
(***************************************************************************)
(* The outbox every service keeps (shared/outbox): use-cases insert rows,  *)
(* workers claim batches of them and send them over HTTP.  A worker's tick *)
(* is one transaction: the claimed rows are locked and the marks it makes  *)
(* are invisible until it commits, and lost if it does not.  The function  *)
(* that sends a row is the target's business; it answers, fails, or fails  *)
(* after the target took the row.                                          *)
(***************************************************************************)
EXTENDS Naturals, FiniteSets

CONSTANTS
    Rows,        \* outbox rows
    Workers,     \* OutboxWorker instances
    BatchSize,
    MaxRetries,  \* MAX_RETRIES
    MaxDowns     \* bound on failed ticks and stops

ASSUME OutboxAssumption ==
    /\ BatchSize \in Nat \ {0}
    /\ MaxRetries \in Nat \ {0}
    /\ MaxDowns \in Nat
    /\ IsFiniteSet(Rows)

VARIABLES
    row,        \* the table ("none": not inserted); due: next_retry_at has come
    at,         \* idle, ticking or down
    batch,      \* claimed rows the tick still has to send
    marks,      \* what the tick wrote to the rows it sent
    received,   \* deliveries the target took of each row
    disturbed,  \* those of them the table never showed: a late answer, a rollback
    tries,      \* deliveries that failed for the worker
    downs

outboxVars == <<row, at, batch, marks, received, disturbed, tries, downs>>

Marks == {"none", "SENT", "retry", "FAILED"}

OutboxTypeOK ==
    /\ row \in [Rows -> [status : {"none", "PENDING", "SENT", "FAILED"},
                         retries : 0..(MaxRetries - 1), due : BOOLEAN]]
    /\ at \in [Workers -> {"idle", "ticking", "down"}]
    /\ batch \in [Workers -> SUBSET Rows]
    /\ marks \in [Workers -> [Rows -> Marks]]
    /\ received \in [Rows -> Nat]
    /\ disturbed \in [Rows -> Nat]
    /\ tries \in [Rows -> Nat]
    /\ downs \in 0..MaxDowns

OutboxInit ==
    /\ row = [e \in Rows |-> [status |-> "none", retries |-> 0, due |-> TRUE]]
    /\ at = [w \in Workers |-> "idle"]
    /\ batch = [w \in Workers |-> {}]
    /\ marks = [w \in Workers |-> [e \in Rows |-> "none"]]
    /\ received = [e \in Rows |-> 0]
    /\ disturbed = [e \in Rows |-> 0]
    /\ tries = [e \in Rows |-> 0]
    /\ downs = 0

\* Rows locked by w: claimed, sent or not.
Holds(w) == batch[w] \cup {e \in Rows : marks[w][e] # "none"}
Locked(e) == \E w \in Workers : e \in Holds(w)

\* The use-case's transaction commits its row.
Enqueue(e) ==
    /\ row[e].status = "none"
    /\ row' = [row EXCEPT ![e].status = "PENDING"]
    /\ UNCHANGED <<at, batch, marks, received, disturbed, tries, downs>>

\* Mutant: next_retry_at <= now, without IS NULL: only retried rows.
ClaimableRetried ==
    {e \in Rows : row[e].status = "PENDING" /\ row[e].retries > 0 /\ row[e].due /\ ~Locked(e)}

\* Mutant: no SKIP LOCKED.
ClaimableLocked == {e \in Rows : row[e].status = "PENDING" /\ row[e].due}

Claimable == {e \in Rows : row[e].status = "PENDING" /\ row[e].due /\ ~Locked(e)}

\* LIMIT without ORDER BY: any rows, as many as fit.
Claim(w, B) ==
    /\ at[w] = "idle"
    /\ B # {} /\ B \subseteq Claimable
    /\ Cardinality(B) <= BatchSize
    /\ Cardinality(B) < BatchSize => B = Claimable
    /\ at' = [at EXCEPT ![w] = "ticking"]
    /\ batch' = [batch EXCEPT ![w] = B]
    /\ UNCHANGED <<row, marks, received, disturbed, tries, downs>>

\* dispatch returned: mark_sent.
SendOk(w, e) ==
    /\ e \in batch[w]
    /\ batch' = [batch EXCEPT ![w] = @ \ {e}]
    /\ marks' = [marks EXCEPT ![w][e] = "SENT"]
    /\ received' = [received EXCEPT ![e] = @ + 1]
    /\ UNCHANGED <<row, at, disturbed, tries, downs>>

\* The mark of a failed delivery: another try, until the last.
MarkFailure(e) == IF row[e].retries + 1 >= MaxRetries THEN "FAILED" ELSE "retry"

\* dispatch raised: before the target took the row, or after (late).
SendFails(w, e, late) ==
    /\ e \in batch[w]
    /\ batch' = [batch EXCEPT ![w] = @ \ {e}]
    /\ marks' = [marks EXCEPT ![w][e] = MarkFailure(e)]
    /\ tries' = [tries EXCEPT ![e] = @ + 1]
    /\ IF late
       THEN /\ received' = [received EXCEPT ![e] = @ + 1]
            /\ disturbed' = [disturbed EXCEPT ![e] = @ + 1]
       ELSE UNCHANGED <<received, disturbed>>
    /\ UNCHANGED <<row, at, downs>>

\* What a row becomes by its mark.
Marked(r, mark) ==
    CASE mark = "none"  -> r
      [] mark = "retry" -> [r EXCEPT !.retries = @ + 1, !.due = FALSE]
      [] OTHER          -> [r EXCEPT !.status = mark]

CommitTick(w) ==
    /\ at[w] = "ticking" /\ batch[w] = {}
    /\ row' = [e \in Rows |-> Marked(row[e], marks[w][e])]
    /\ marks' = [marks EXCEPT ![w] = [e \in Rows |-> "none"]]
    /\ at' = [at EXCEPT ![w] = "idle"]
    /\ UNCHANGED <<batch, received, disturbed, tries, downs>>

\* The tick fails, or its process dies: the transaction is rolled back, what
\* was sent stays sent.
Rollback(w, to) ==
    /\ at[w] = "ticking"
    /\ downs < MaxDowns
    /\ downs' = downs + 1
    /\ at' = [at EXCEPT ![w] = to]
    /\ batch' = [batch EXCEPT ![w] = {}]
    /\ marks' = [marks EXCEPT ![w] = [e \in Rows |-> "none"]]
    /\ disturbed' = [e \in Rows |-> disturbed[e] + (IF marks[w][e] = "SENT" THEN 1 ELSE 0)]
    /\ UNCHANGED <<row, received, tries>>

\* stop(): between ticks.
Stop(w) ==
    /\ at[w] = "idle"
    /\ downs < MaxDowns
    /\ downs' = downs + 1
    /\ at' = [at EXCEPT ![w] = "down"]
    /\ UNCHANGED <<row, batch, marks, received, disturbed, tries>>

\* The application starts again, and its worker with it.
Restart(w) ==
    /\ at[w] = "down"
    /\ at' = [at EXCEPT ![w] = "idle"]
    /\ UNCHANGED <<row, batch, marks, received, disturbed, tries, downs>>

\* The backoff of a retry is over.
BecomeDue(e) ==
    /\ ~row[e].due
    /\ row' = [row EXCEPT ![e].due = TRUE]
    /\ UNCHANGED <<at, batch, marks, received, disturbed, tries, downs>>

\* What a worker does by itself.
Work(w) ==
    \/ \E B \in SUBSET Rows : Claim(w, B)
    \/ \E e \in Rows : SendOk(w, e) \/ \E late \in BOOLEAN : SendFails(w, e, late)
    \/ CommitTick(w)
    \/ Restart(w)

OutboxNext ==
    \/ \E w \in Workers : Work(w) \/ Stop(w) \/ \E to \in {"idle", "down"} : Rollback(w, to)
    \/ \E e \in Rows : Enqueue(e) \/ BecomeDue(e)

OutboxSpec == OutboxInit /\ [][OutboxNext]_outboxVars

\* Workers poll for ever, are restarted, and time passes.
FairOutboxSpec ==
    /\ OutboxSpec
    /\ \A w \in Workers : WF_outboxVars(Work(w))
    /\ \A e \in Rows : WF_outboxVars(BecomeDue(e))

-----------------------------------------------------------------------------
(* Safety. *)

\* SKIP LOCKED: no two workers have one row in hand.
OneWorkerPerRow ==
    \A v, w \in Workers : v # w => Holds(v) \cap Holds(w) = {}

\* At least once, and more often only with a cause: a row was received once for
\* its mark SENT and once for every late answer and every rollback after it.
Accounted(e) ==
    row[e].status = "SENT" \/ \E w \in Workers : marks[w][e] = "SENT"
ReceivedIsAccountedFor ==
    \A e \in Rows : received[e] = disturbed[e] + (IF Accounted(e) THEN 1 ELSE 0)

\* A row is given up only after MAX_RETRIES failed deliveries; a rollback
\* forgets failures, it never invents one.
GivenUpAfterRetries ==
    \A e \in Rows : row[e].status = "FAILED" => tries[e] >= MaxRetries

\* SENT and FAILED are final.
SettledIsFinal ==
    [][\A e \in Rows : row[e].status \in {"SENT", "FAILED"} => row'[e].status = row[e].status]_outboxVars

(* Liveness. *)

\* Every row is sent or given up.
EveryRowSettles ==
    \A e \in Rows : row[e].status = "PENDING" ~> row[e].status \in {"SENT", "FAILED"}

=============================================================================
