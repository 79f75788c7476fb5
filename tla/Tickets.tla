------------------------------ MODULE Tickets ------------------------------
(***************************************************************************)
(* The tickets of the moderation service (moderation/apps/tickets, queue,  *)
(* events).  Moderators claim, release, approve and block; B2B sends the   *)
(* events CREATED, EDITED and DELETED of its products, each possibly       *)
(* several times.  Only claim keeps the row locked from its SELECT to its  *)
(* UPDATE; every other handler reads a ticket in one transaction and       *)
(* writes it, by id alone, in another.                                     *)
(***************************************************************************)
EXTENDS Naturals, Sequences, SequencesExt

CONSTANTS
    Products,     \* product_id is UNIQUE in tickets: it names the ticket
    Moderators,
    Admins,       \* moderators with role ADMIN
    Requests,     \* HTTP requests of moderators
    Deliveries,   \* HTTP deliveries of B2B events
    MaxMail,      \* bound on the events B2B sends
    Nobody

ASSUME TicketsAssumption ==
    /\ Admins \subseteq Moderators
    /\ Nobody \notin Products \cup Moderators \cup Requests
    /\ Requests \cap Deliveries = {}
    /\ MaxMail \in Nat

VARIABLES
    mail,      \* events B2B sent, in the order it made them; the position is the key
    ticket,    \* tickets: status ("none": no row) and claimed_by
    queue,     \* tickets by created_at; their priority is always the default
    inbox,     \* processed_events
    handling,  \* the event each delivery carries
    job,       \* what each request asks for
    step,      \* where each request and delivery is
    seen,      \* the ticket status it read
    holder,    \* row locks of claims
    verdicts   \* outbox to B2B, in commit order

ticketVars == <<ticket, queue, inbox, handling, job, step, seen, holder, verdicts>>
vars == <<mail, ticketVars>>

Procs == Requests \cup Deliveries

Decided == {"APPROVED", "BLOCKED", "HARD_BLOCKED"}
Statuses == {"none", "PENDING", "IN_REVIEW", "ARCHIVED"} \cup Decided
Events == [type : {"CREATED", "EDITED", "DELETED"}, product : Products]
Verdicts == [product : Products, status : Decided, by : Requests]
Decisions == [approve |-> "APPROVED", block |-> "BLOCKED", hard_block |-> "HARD_BLOCKED"]
Jobs == [op : {"none", "claim", "release"} \cup DOMAIN Decisions,
         by : Moderators \cup {Nobody}, on : Products \cup {Nobody}]
Steps == {"idle", "selected", "read", "checked", "refused", "empty",
          "recorded", "duplicate", "failed", "crashed", "done"}

TypeOK ==
    /\ mail \in Seq(Events) /\ Len(mail) <= MaxMail
    /\ ticket \in [Products -> [status : Statuses, owner : Moderators \cup {Nobody}]]
    /\ queue \in Seq(Products)
    /\ inbox \subseteq DOMAIN mail
    /\ handling \in [Deliveries -> 0..MaxMail]
    /\ job \in [Requests -> Jobs]
    /\ step \in [Procs -> Steps]
    /\ seen \in [Procs -> Statuses]
    /\ holder \in [Products -> Requests \cup {Nobody}]
    /\ verdicts \in Seq(Verdicts)

TicketInit ==
    /\ ticket = [p \in Products |-> [status |-> "none", owner |-> Nobody]]
    /\ queue = <<>>
    /\ inbox = {}
    /\ handling = [d \in Deliveries |-> 0]
    /\ job = [r \in Requests |-> [op |-> "none", by |-> Nobody, on |-> Nobody]]
    /\ step = [x \in Procs |-> "idle"]
    /\ seen = [x \in Procs |-> "none"]
    /\ holder = [p \in Products |-> Nobody]
    /\ verdicts = <<>>

Init == mail = <<>> /\ TicketInit

Go(x, to) == step' = [step EXCEPT ![x] = to]

\* Mutant: claim without FOR UPDATE SKIP LOCKED.
LockedNever(p) == FALSE

Locked(p) == holder[p] # Nobody

\* UPDATE tickets WHERE id: waits for the row, looks at nothing else.
Write(p, status, owner) ==
    /\ ~Locked(p)
    /\ ticket' = [ticket EXCEPT ![p] = [status |-> status, owner |-> owner]]

-----------------------------------------------------------------------------
(* Events of B2B. *)

ProductOf(d) == mail[handling[d]].product
TypeOf(d) == mail[handling[d]].type

\* The key is recorded first, in a transaction of its own; UNIQUE makes a
\* second delivery 409 DUPLICATE_EVENT.
RecordKey(d, k) ==
    /\ step[d] = "idle"
    /\ k \in DOMAIN mail
    /\ handling' = [handling EXCEPT ![d] = k]
    /\ inbox' = inbox \cup {k}
    /\ Go(d, IF k \in inbox THEN "duplicate" ELSE "recorded")
    /\ UNCHANGED <<mail, ticket, queue, job, seen, holder, verdicts>>

\* PRODUCT_CREATED: INSERT, or 500 where the product has a ticket.
OnCreated(d) ==
    /\ step[d] = "recorded" /\ TypeOf(d) = "CREATED"
    /\ LET p == ProductOf(d)
       IN IF ticket[p].status = "none"
          THEN /\ ticket' = [ticket EXCEPT ![p].status = "PENDING"]
               /\ queue' = Append(queue, p)
               /\ Go(d, "done")
          ELSE Go(d, "failed") /\ UNCHANGED <<ticket, queue>>
    /\ UNCHANGED <<mail, inbox, handling, job, seen, holder, verdicts>>

\* Mutant: the HARD_BLOCKED case is dropped.
ReadForEditHard(d) ==
    /\ step[d] = "recorded" /\ TypeOf(d) = "EDITED"
    /\ LET s == ticket[ProductOf(d)].status
       IN /\ seen' = [seen EXCEPT ![d] = s]
          /\ Go(d, IF s \in {"none", "ARCHIVED"} THEN "failed" ELSE "read")
    /\ UNCHANGED <<mail, ticket, queue, inbox, handling, job, holder, verdicts>>

\* PRODUCT_EDITED reads the active ticket: 404 without one, a no-op when it is
\* HARD_BLOCKED ...
ReadForEdit(d) ==
    /\ step[d] = "recorded" /\ TypeOf(d) = "EDITED"
    /\ LET s == ticket[ProductOf(d)].status
       IN /\ seen' = [seen EXCEPT ![d] = s]
          /\ Go(d, CASE s \in {"none", "ARCHIVED"} -> "failed"
                     [] s = "HARD_BLOCKED" -> "done"
                     [] OTHER -> "read")
    /\ UNCHANGED <<mail, ticket, queue, inbox, handling, job, holder, verdicts>>

\* ... and puts it back into the queue.
ResetTicket(d) ==
    /\ step[d] = "read" /\ d \in Deliveries
    /\ Write(ProductOf(d), "PENDING", Nobody)
    /\ Go(d, "done")
    /\ UNCHANGED <<mail, queue, inbox, handling, job, seen, holder, verdicts>>

\* PRODUCT_DELETED: one UPDATE ... WHERE status # ARCHIVED.
OnDeleted(d) ==
    /\ step[d] = "recorded" /\ TypeOf(d) = "DELETED"
    /\ LET p == ProductOf(d)
       IN IF ticket[p].status \in {"none", "ARCHIVED"}
          THEN UNCHANGED ticket
          ELSE Write(p, "ARCHIVED", ticket[p].owner)
    /\ Go(d, "done")
    /\ UNCHANGED <<mail, queue, inbox, handling, job, seen, holder, verdicts>>

-----------------------------------------------------------------------------
(* Requests of moderators. *)

Start(r, op, m, p) ==
    /\ step[r] = "idle"
    /\ job' = [job EXCEPT ![r] = [op |-> op, by |-> m, on |-> p]]

\* Positions of the queue claim_next may take: SELECT ... WHERE PENDING ORDER
\* BY created_at LIMIT 1 FOR UPDATE SKIP LOCKED.
Claimable == {i \in DOMAIN queue : ticket[queue[i]].status = "PENDING" /\ ~Locked(queue[i])}

SelectNext(r, m) ==
    \E i \in Claimable :
        /\ \A j \in Claimable : i <= j
        /\ Start(r, "claim", m, queue[i])
        /\ holder' = [holder EXCEPT ![queue[i]] = r]
        /\ Go(r, "selected")
        /\ UNCHANGED <<mail, ticket, queue, inbox, handling, seen, verdicts>>

\* 204: nothing to claim.
QueueEmpty(r, m) ==
    /\ Claimable = {}
    /\ Start(r, "claim", m, Nobody)
    /\ Go(r, "empty")
    /\ UNCHANGED <<mail, ticket, queue, inbox, handling, seen, holder, verdicts>>

CommitClaim(r) ==
    /\ step[r] = "selected"
    /\ ticket' = [ticket EXCEPT ![job[r].on] = [status |-> "IN_REVIEW", owner |-> job[r].by]]
    /\ holder' = [holder EXCEPT ![job[r].on] = Nobody]
    /\ Go(r, "done")
    /\ UNCHANGED <<mail, queue, inbox, handling, job, seen, verdicts>>

\* Mutant: owner and role are tested, the status is not.
MayDecideEver(m, p) == m \in Admins \/ ticket[p].owner = m

\* Approve, block and release may go on with this ticket: it is IN_REVIEW, of
\* this moderator or for an admin.
MayDecide(m, p) ==
    /\ ticket[p].status = "IN_REVIEW"
    /\ m \in Admins \/ ticket[p].owner = m

\* The ticket is read and its guards tested: 404, 403 or 409 otherwise.
ReadTicket(r, op, m, p) ==
    /\ Start(r, op, m, p)
    /\ seen' = [seen EXCEPT ![r] = ticket[p].status]
    /\ Go(r, IF MayDecide(m, p) THEN "read" ELSE "refused")
    /\ UNCHANGED <<mail, ticket, queue, inbox, handling, holder, verdicts>>

\* Approve asks B2B for the product, block looks its reasons up: 409, 503, 400.
Check(r, ok) ==
    /\ step[r] = "read" /\ r \in Requests
    /\ job[r].op \in DOMAIN Decisions
    /\ Go(r, IF ok THEN "checked" ELSE "refused")
    /\ UNCHANGED <<mail, ticket, queue, inbox, handling, job, seen, holder, verdicts>>

\* Mutant: the outbox row says BLOCKED for either kind of block.
DecideSoft(r) ==
    LET verdict == Decisions[job[r].op]
    IN  /\ step[r] = "checked"
        /\ Write(job[r].on, verdict, ticket[job[r].on].owner)
        /\ verdicts' = Append(verdicts, [product |-> job[r].on, by |-> r,
              status |-> IF verdict = "HARD_BLOCKED" THEN "BLOCKED" ELSE verdict])
        /\ Go(r, "done")
        /\ UNCHANGED <<mail, queue, inbox, handling, job, seen, holder>>

\* UPDATE tickets and INSERT outbox in one transaction.
Decide(r) ==
    LET verdict == Decisions[job[r].op]
    IN  /\ step[r] = "checked"
        /\ Write(job[r].on, verdict, ticket[job[r].on].owner)
        /\ verdicts' = Append(verdicts, [product |-> job[r].on, status |-> verdict, by |-> r])
        /\ Go(r, "done")
        /\ UNCHANGED <<mail, queue, inbox, handling, job, seen, holder>>

Release(r) ==
    /\ step[r] = "read" /\ r \in Requests
    /\ job[r].op = "release"
    /\ Write(job[r].on, "PENDING", Nobody)
    /\ Go(r, "done")
    /\ UNCHANGED <<mail, queue, inbox, handling, job, seen, holder, verdicts>>

\* The process dies; the database drops its row lock.
Crash(x) ==
    /\ step[x] \in {"selected", "read", "checked", "recorded"}
    /\ holder' = [p \in Products |-> IF holder[p] = x THEN Nobody ELSE holder[p]]
    /\ Go(x, "crashed")
    /\ UNCHANGED <<mail, ticket, queue, inbox, handling, job, seen, verdicts>>

-----------------------------------------------------------------------------
Deliver(d) ==
    \/ \E k \in DOMAIN mail : RecordKey(d, k)
    \/ OnCreated(d) \/ ReadForEdit(d) \/ ResetTicket(d) \/ OnDeleted(d)

Ask(r) ==
    \E m \in Moderators :
        \/ SelectNext(r, m) \/ QueueEmpty(r, m)
        \/ \E op \in DOMAIN Decisions \cup {"release"}, p \in Products : ReadTicket(r, op, m, p)

\* All but the check of the product in B2B, which composition ties to B2B.
TicketStep ==
    \/ \E d \in Deliveries : Deliver(d)
    \/ \E r \in Requests : Ask(r) \/ CommitClaim(r) \/ Decide(r) \/ Release(r)
    \/ \E x \in Procs : Crash(x)

\* B2B makes another event.
Send(e) ==
    /\ Len(mail) < MaxMail
    /\ mail' = Append(mail, e)
    /\ UNCHANGED ticketVars

Next ==
    \/ TicketStep
    \/ \E r \in Requests, ok \in BOOLEAN : Check(r, ok)
    \/ \E e \in Events : Send(e)

Spec == Init /\ [][Next]_vars

-----------------------------------------------------------------------------
(* Safety. *)

\* Two moderators never get one ticket: a claim is answered with a ticket that
\* was PENDING up to that very step (SKIP LOCKED and the row lock).
ClaimTakesPending ==
    [][\A r \in Requests :
          step[r] = "selected" /\ step'[r] = "done" => ticket[job[r].on].status = "PENDING"]_vars

\* B2B is told what was decided: the last outbox row of a decided ticket
\* carries the decision the ticket shows, races between decisions included.
LastVerdict(p) == SelectLastInSeq(verdicts, LAMBDA v : v.product = p)
DecisionIsSent ==
    \A p \in Products : ticket[p].status \in Decided =>
        /\ LastVerdict(p) > 0
        /\ verdicts[LastVerdict(p)].status = ticket[p].status

\* A key takes effect once: of its deliveries, concurrent ones included, all
\* but one are answered 409 and do nothing.
EventOnce ==
    \A d, e \in Deliveries :
        /\ d # e /\ handling[d] = handling[e]
        /\ step[d] # "idle" /\ step[e] # "idle"
        => step[d] = "duplicate" \/ step[e] = "duplicate"

\* A HARD_BLOCKED ticket is reopened or decided again only by a handler that
\* read it before it was HARD_BLOCKED.
OnlyStaleReadsReopen ==
    [][\A p \in Products :
          /\ ticket[p].status = "HARD_BLOCKED"
          /\ ticket'[p].status \notin {"HARD_BLOCKED", "ARCHIVED"}
          => \E x \in Procs :
                /\ step[x] \in {"read", "checked"} /\ step'[x] = "done"
                /\ seen[x] \notin {"none", "ARCHIVED", "HARD_BLOCKED"}]_vars

(* What comments say and the code does not do. *)

\* handle_b2b_event.py:18, approve_ticket.py:54: HARD_BLOCKED is terminal.
HardBlockIsFinal ==
    [][\A p \in Products :
          ticket[p].status = "HARD_BLOCKED" => ticket'[p].status \in {"HARD_BLOCKED", "ARCHIVED"}]_vars

\* approve_ticket.py:26, block_ticket.py:78: who decides holds the ticket, or
\* is an admin.
DecidedByHolder ==
    [][\A r \in Requests :
          step[r] = "checked" /\ step'[r] = "done" => MayDecide(job[r].by, job[r].on)]_vars

=============================================================================
