-------------------------- MODULE BlockingReasons --------------------------
(***************************************************************************)
(* The catalogue of blocking reasons (moderation/apps/blocking_reasons) and *)
(* the tickets that refer to it.  A block looks its reasons up one by one,  *)
(* each in a transaction of its own, before the transaction that writes the *)
(* ticket; DELETE of a reason looks for tickets that refer to it in one     *)
(* transaction and hides the reason in another.  The rest of a ticket's     *)
(* life is that of Tickets, every step of which this module keeps.          *)
(***************************************************************************)
EXTENDS Tickets

CONSTANTS
    Reasons,      \* ids of reasons
    InitReasons,  \* those in the table from the start
    CodeOf,       \* reason -> code, UNIQUE in the table
    Hard,         \* reasons with hard_block, a column no request changes
    Picks,        \* sequences of reasons a block may be asked with
    Keepers       \* requests of admins to the catalogue

\* A block is refused by its schema unless it names a reason.
ASSUME ReasonsAssumption ==
    /\ InitReasons \subseteq Reasons
    /\ \A choice \in Picks : choice \in Seq(Reasons) /\ choice # <<>>

VARIABLES
    reasons,      \* rows: reason -> is_active
    reference,    \* tickets.blocking_reason_id: the first reason of the last block
    chosen,       \* the reasons of each block request
    found,        \* how many of them it has looked up
    task,         \* what each request to the catalogue asks for
    at,           \* and where it is
    met           \* history: blocks and DELETEs that ran at the same time

reasonVars == <<reasons, reference, chosen, found, task, at, met>>
allVars == <<vars, reasonVars>>

Blocks == {"block", "hard_block"}

ReasonsInit ==
    /\ Init
    /\ reasons = [i \in InitReasons |-> TRUE]
    /\ reference = [p \in Products |-> Nobody]
    /\ chosen = [r \in Requests |-> <<>>]
    /\ found = [r \in Requests |-> 0]
    /\ task = [k \in Keepers |-> [op |-> "none", on |-> Nobody, active |-> Nobody]]
    /\ at = [k \in Keepers |-> "idle"]
    /\ met = {}

\* list_: what a moderator may choose from; only active reasons by default.
Offered == {i \in DOMAIN reasons : reasons[i]}

Meet ==
    met' = met \cup {x \in Requests \X Keepers :
        /\ (step[x[1]] \in {"read", "checked"} /\ job[x[1]].op \in Blocks)'
        /\ (at[x[2]] \in {"found", "unreferenced"} /\ task[x[2]].op = "delete")'}

-----------------------------------------------------------------------------
(* Blocks. *)

\* POST tickets/{id}/block, and products/{id}/decline with one reason: hard if
\* any of the reasons is.  (An unknown id is refused like an inactive one.)
StartBlock(r, m, p) ==
    \E choice \in Picks :
        /\ ToSet(choice) \subseteq DOMAIN reasons
        /\ ReadTicket(r, IF ToSet(choice) \cap Hard = {} THEN "block" ELSE "hard_block", m, p)
        /\ chosen' = [chosen EXCEPT ![r] = choice]
        /\ UNCHANGED <<reasons, reference, found, task, at>>

\* Mutant: is_active is not looked at.
MayUseAny(i) == i \in DOMAIN reasons

MayUse(i) == i \in Offered

\* The next reason: 400 if it is unknown or inactive.
LookUp(r) ==
    LET next == chosen[r][found[r] + 1]
        isLast == found[r] + 1 = Len(chosen[r])
    IN  /\ step[r] = "read" /\ job[r].op \in Blocks
        /\ IF MayUse(next)
           THEN /\ found' = [found EXCEPT ![r] = @ + 1]
                /\ IF isLast THEN Check(r, TRUE) ELSE UNCHANGED vars
           ELSE Check(r, FALSE) /\ UNCHANGED found
        /\ UNCHANGED <<reasons, reference, chosen, task, at>>

\* The ticket keeps the first reason; all of them go to B2B.
DecideBlock(r) ==
    /\ job[r].op \in Blocks
    /\ Decide(r)
    /\ reference' = [reference EXCEPT ![job[r].on] = Head(chosen[r])]
    /\ UNCHANGED <<reasons, chosen, found, task, at>>

\* B2B tells of an edit only where a verdict was applied, after a CREATED; a
\* product may be deleted without one.
SendInOrder(e) ==
    /\ e.type = "EDITED" => [type |-> "CREATED", product |-> e.product] \in ToSet(mail)
    /\ Send(e)

\* Everything else the tickets go through, approval included.
OtherTicketStep ==
    /\ \/ \E d \in Deliveries : Deliver(d)
       \/ \E r \in Requests, m \in Moderators :
            \/ SelectNext(r, m) \/ QueueEmpty(r, m)
            \/ \E op \in {"approve", "release"}, p \in Products : ReadTicket(r, op, m, p)
       \/ \E r \in Requests : CommitClaim(r) \/ Release(r)
       \/ \E r \in Requests, ok \in BOOLEAN : job[r].op = "approve" /\ (Check(r, ok) \/ Decide(r))
       \/ \E x \in Procs : Crash(x)
       \/ \E e \in Events : SendInOrder(e)
    /\ UNCHANGED <<reasons, reference, chosen, found, task, at>>

-----------------------------------------------------------------------------
(* The catalogue. *)

Ready(k, op, i, active, to) ==
    /\ at[k] = "idle"
    /\ task' = [task EXCEPT ![k] = [op |-> op, on |-> i, active |-> active]]
    /\ at' = [at EXCEPT ![k] = to]
    /\ UNCHANGED <<vars, reasons, reference, chosen, found>>

CodeIsTaken(i) == \E j \in DOMAIN reasons : CodeOf[j] = CodeOf[i]

\* POST reads the code first: 409 ...
BeginCreate(k) ==
    \E i \in Reasons \ DOMAIN reasons :
        /\ \A j \in Keepers : task[j].op = "create" => task[j].on # i
        /\ Ready(k, "create", i, TRUE, IF CodeIsTaken(i) THEN "refused" ELSE "found")

\* ... and a code that came in between is a 500.
Insert(k) ==
    /\ at[k] = "found" /\ task[k].op = "create"
    /\ IF CodeIsTaken(task[k].on)
       THEN at' = [at EXCEPT ![k] = "failed"] /\ UNCHANGED reasons
       ELSE /\ reasons' = [i \in DOMAIN reasons \cup {task[k].on} |-> i = task[k].on \/ reasons[i]]
            /\ at' = [at EXCEPT ![k] = "done"]
    /\ UNCHANGED <<vars, reference, chosen, found, task>>

\* PATCH is_active and DELETE: 404, or on to the next transaction.
BeginChange(k) ==
    \E op \in {"update", "delete"}, i \in Reasons, active \in BOOLEAN :
        /\ op = "delete" => ~active
        /\ Ready(k, op, i, active, IF i \in DOMAIN reasons THEN "found" ELSE "refused")

\* DELETE of a reason some ticket refers to is a 409.
FindReferences(k) ==
    /\ at[k] = "found" /\ task[k].op = "delete"
    /\ at' = [at EXCEPT ![k] =
                IF \E p \in Products : reference[p] = task[k].on THEN "refused" ELSE "unreferenced"]
    /\ UNCHANGED <<vars, reasons, reference, chosen, found, task>>

\* UPDATE blocking_reasons SET is_active WHERE id; rows are never removed.
SetActive(k) ==
    /\ \/ at[k] = "found" /\ task[k].op = "update"
       \/ at[k] = "unreferenced" /\ task[k].op = "delete"
    /\ reasons' = [reasons EXCEPT ![task[k].on] = task[k].active]
    /\ at' = [at EXCEPT ![k] = "done"]
    /\ UNCHANGED <<vars, reference, chosen, found, task>>

-----------------------------------------------------------------------------
ReasonsNext ==
    /\ \/ OtherTicketStep
       \/ \E r \in Requests, m \in Moderators, p \in Products : StartBlock(r, m, p)
       \/ \E r \in Requests : LookUp(r) \/ DecideBlock(r)
       \/ \E k \in Keepers :
            BeginCreate(k) \/ Insert(k) \/ BeginChange(k) \/ FindReferences(k) \/ SetActive(k)
    /\ Meet

ReasonsSpec == ReasonsInit /\ [][ReasonsNext]_allVars

\* A ticket shows a reason the catalogue hides only if an admin deactivated it
\* by PATCH, or if the block that set it ran at the same time as a DELETE: the
\* look-up of the block and the search for references of the DELETE each close
\* the gap the other one leaves open, except while both are under way.
HiddenReasonWasRaced ==
    \A p \in Products : reference[p] \notin Offered \cup {Nobody} =>
        \E k \in Keepers :
            /\ at[k] = "done" /\ task[k].on = reference[p]
            /\ \/ task[k].op = "update" /\ ~task[k].active
               \/ /\ task[k].op = "delete"
                  /\ \E r \in Requests :
                        /\ <<r, k>> \in met
                        /\ job[r].on = p /\ step[r] = "done"
                        /\ Head(chosen[r]) = reference[p]

(* What a comment says and the code does not do. *)

\* delete.py:15-18: no reason that a ticket refers to is deleted.
ReferencedIsNotDeleted ==
    [][\A k \in Keepers :
          at[k] = "unreferenced" /\ at'[k] = "done"
          => \A p \in Products : reference[p] # task[k].on]_allVars
=============================================================================
