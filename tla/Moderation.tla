----------------------------- MODULE Moderation -----------------------------
(***************************************************************************)
(* B2B and the moderation service together: B2B's outbox rows are the mail *)
(* of Tickets, the outbox rows of Tickets are the verdicts of              *)
(* ProductLifecycle.  Rows arrive late, in any order, more than once or    *)
(* never, as the outbox workers of both sides allow.                       *)
(***************************************************************************)
EXTENDS ProductLifecycle

CONSTANTS
    Moderators, Admins,
    ModeratorRequests,   \* requests of moderators
    Deliveries,          \* deliveries of events to moderation
    MaxMail

ASSUME ModerationAssumption == ModeratorRequests \cap Deliveries = {}

VARIABLES ticket, queue, tInbox, handling, tJob, tStep, tSeen, holder

\* B2B without its outbox to moderation, and moderation without its own to B2B.
productOnly == <<status, deleted, skus, invoice, shop, inbox, carried, job, step, seen, todo, changed>>
ticketOnly == <<ticket, queue, tInbox, handling, tJob, tStep, tSeen, holder>>
bothVars == <<mail, verdicts, productOnly, ticketOnly>>

T == INSTANCE Tickets WITH
        Requests <- ModeratorRequests,
        inbox <- tInbox, job <- tJob, step <- tStep, seen <- tSeen

BothInit == ProductInit /\ T!TicketInit

\* Approve goes on only while B2B shows the product with a SKU.
HasSkus(p) == skus[p] # {}

CheckInB2B(r) ==
    /\ \E ok \in BOOLEAN :
          /\ T!Check(r, ok)
          /\ ok /\ tJob[r].op = "approve" => HasSkus(tJob[r].on)
    /\ UNCHANGED productOnly

BothNext ==
    \/ ProductStep /\ UNCHANGED ticketOnly
    \/ T!TicketStep /\ UNCHANGED productOnly
    \/ \E r \in ModeratorRequests : CheckInB2B(r)

BothSpec == BothInit /\ [][BothNext]_bothVars

-----------------------------------------------------------------------------
(* Safety. *)

\* A status that blocks a product or puts it on sale was decided on its
\* ticket, by a request that the ticket let through; and no ticket exists for a
\* product B2B never submitted.
ShownAs == [MODERATED |-> "APPROVED", BLOCKED |-> "BLOCKED", HARD_BLOCKED |-> "HARD_BLOCKED"]
StatusIsDecided ==
    \A p \in Products :
        /\ status[p] \in DOMAIN ShownAs =>
              \E i \in DOMAIN verdicts :
                  /\ verdicts[i].product = p /\ verdicts[i].status = ShownAs[status[p]]
                  /\ tSeen[verdicts[i].by] = "IN_REVIEW"
        /\ ticket[p].status # "none" => Posted(mail, "CREATED", p)

\* A ticket is archived only for a product that B2B deleted, or took back from
\* moderation with the deletion of its last SKU.
TookBack(r, p) ==
    /\ job[r].op = "delete_sku" /\ job[r].on = p /\ job[r].sku \notin skus[p]
    /\ changed[r] = "CREATED"
ArchivedWasWithdrawn ==
    \A p \in Products : ticket[p].status = "ARCHIVED" =>
        deleted[p] \/ \E r \in Requests : TookBack(r, p)

(* What comments say and the code does not do. *)

\* handle_b2b_event.py:16: CREATED makes a ticket.  B2B withdraws a product
\* whose last SKU is deleted and submits it again with the next one; the row
\* of the archived ticket is in the way.
SubmissionGetsTicket ==
    \A d \in Deliveries :
        handling[d] # 0 /\ tStep[d] = "failed" => mail[handling[d]].type # "CREATED"

=============================================================================
