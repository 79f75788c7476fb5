------------------------ MODULE BlockingReasonsProofs ------------------------
(***************************************************************************)
(* Proofs about Tickets and BlockingReasons, for any products, moderators, *)
(* requests, deliveries, events and reasons.  Tickets: types, and the two  *)
(* mechanisms that do hold, the row lock of claim and the key of an event. *)
(* BlockingReasons: it refines Tickets, and a ticket shows a hidden reason *)
(* only after a PATCH or a race.                                           *)
(***************************************************************************)
EXTENDS BlockingReasons, SequenceTheorems, TLAPS

-----------------------------------------------------------------------------
(* Tickets. *)

\* A lock belongs to the claim that selected the ticket, which stays PENDING
\* under it.
LocksAreClaims ==
    /\ \A r \in Requests, p \in Products : holder[p] = r =>
          step[r] = "selected" /\ job[r].on = p /\ ticket[p].status = "PENDING"
    /\ \A r \in Requests : step[r] = "selected" =>
          job[r].on \in Products /\ holder[job[r].on] = r

\* The key of a delivery is recorded before it does anything, and it is an
\* event B2B sent; only requests claim.
DeliveriesAreRecorded ==
    \A d \in Deliveries :
        /\ step[d] # "idle" => handling[d] \in inbox
        /\ step[d] # "selected"

\* A request that goes on with a ticket names one; only decisions are checked.
JobsNameTickets ==
    \A r \in Requests :
        /\ step[r] \in {"read", "checked"} => job[r].on \in Products
        /\ step[r] = "checked" => job[r].op \in DOMAIN Decisions

IInv == TypeOK /\ LocksAreClaims /\ DeliveriesAreRecorded /\ JobsNameTickets /\ EventOnce

-----------------------------------------------------------------------------
LEMMA InitIInv == Init => IInv
<1> SUFFICES ASSUME Init PROVE IInv
  OBVIOUS
<1>1. TypeOK
  BY TicketsAssumption DEF Init, TicketInit, TypeOK, Statuses, Jobs, Steps, Procs
<1>2. LocksAreClaims /\ DeliveriesAreRecorded /\ JobsNameTickets /\ EventOnce
  BY TicketsAssumption
     DEF Init, TicketInit, LocksAreClaims, DeliveriesAreRecorded, JobsNameTickets, EventOnce, Procs
<1> QED
  BY <1>1, <1>2 DEF IInv

\* The event a delivery carries.
LEMMA EventFacts ==
    ASSUME TypeOK, DeliveriesAreRecorded, NEW d \in Deliveries, step[d] # "idle"
    PROVE  ProductOf(d) \in Products /\ handling[d] \in DOMAIN mail
<1>1. handling[d] \in DOMAIN mail
  BY DEF TypeOK, DeliveriesAreRecorded
<1>2. mail[handling[d]] \in Events
  BY <1>1, ElementOfSeq DEF TypeOK
<1> QED
  BY <1>1, <1>2 DEF ProductOf, Events

\* What a request asks for.
LEMMA JobFacts ==
    ASSUME TypeOK, NEW r \in Requests
    PROVE  /\ job[r].on \in Products \cup {Nobody}
           /\ job[r].by \in Moderators \cup {Nobody}
BY DEF TypeOK, Jobs

-----------------------------------------------------------------------------
(* Deliveries. *)

LEMMA RecordKeyKeeps ==
    ASSUME IInv, NEW d \in Deliveries, NEW k \in DOMAIN mail, RecordKey(d, k)
    PROVE  IInv'
<1> USE DEF IInv, RecordKey, Go
<1>0. k \in 0..MaxMail
  BY TicketsAssumption DEF TypeOK
<1>1. TypeOK'
  BY <1>0 DEF TypeOK, Steps, Procs
<1>2. LocksAreClaims'
  BY TicketsAssumption DEF TypeOK, LocksAreClaims, Procs
<1>3. DeliveriesAreRecorded' /\ JobsNameTickets'
  BY TicketsAssumption DEF TypeOK, DeliveriesAreRecorded, JobsNameTickets, Procs
<1>4. EventOnce'
  BY DEF TypeOK, DeliveriesAreRecorded, EventOnce, Procs
<1> QED
  BY <1>1, <1>2, <1>3, <1>4

LEMMA OnCreatedKeeps ==
    ASSUME IInv, NEW d \in Deliveries, OnCreated(d)
    PROVE  IInv'
<1> USE DEF IInv, OnCreated, Go
<1>0. ProductOf(d) \in Products
  BY EventFacts
<1> DEFINE p == ProductOf(d)
<1>1. CASE ticket[p].status = "none"
  <2>1. /\ ticket' = [ticket EXCEPT ![p].status = "PENDING"]
        /\ queue' = Append(queue, p)
        /\ step' = [step EXCEPT ![d] = "done"]
    BY <1>1
  <2>2. queue' \in Seq(Products)
    BY <1>0, <2>1, AppendProperties DEF TypeOK
  <2>3. TypeOK'
    BY <1>0, <2>1, <2>2 DEF TypeOK, Steps, Procs, Statuses
  <2>4. LocksAreClaims'
    BY <1>0, <1>1, <2>1, TicketsAssumption DEF TypeOK, LocksAreClaims, Procs
  <2>5. DeliveriesAreRecorded' /\ JobsNameTickets' /\ EventOnce'
    BY <2>1, TicketsAssumption
       DEF TypeOK, DeliveriesAreRecorded, JobsNameTickets, EventOnce, Procs
  <2> QED
    BY <2>3, <2>4, <2>5
<1>2. CASE ticket[p].status # "none"
  <2>1. UNCHANGED <<ticket, queue>> /\ step' = [step EXCEPT ![d] = "failed"]
    BY <1>2
  <2>2. TypeOK'
    BY <2>1 DEF TypeOK, Steps, Procs
  <2>3. LocksAreClaims'
    BY <2>1, TicketsAssumption DEF TypeOK, LocksAreClaims, Procs
  <2>4. DeliveriesAreRecorded' /\ JobsNameTickets' /\ EventOnce'
    BY <2>1, TicketsAssumption
       DEF TypeOK, DeliveriesAreRecorded, JobsNameTickets, EventOnce, Procs
  <2> QED
    BY <2>2, <2>3, <2>4
<1> QED
  BY <1>1, <1>2

LEMMA ReadForEditKeeps ==
    ASSUME IInv, NEW d \in Deliveries, ReadForEdit(d)
    PROVE  IInv'
<1> USE DEF IInv, ReadForEdit, Go
<1>0. ticket[ProductOf(d)].status \in Statuses
  BY EventFacts DEF TypeOK
<1>1. PICK to \in {"failed", "done", "read"} : step' = [step EXCEPT ![d] = to]
  OBVIOUS
<1>2. TypeOK'
  BY <1>0, <1>1 DEF TypeOK, Steps, Procs
<1>3. LocksAreClaims'
  BY <1>1, TicketsAssumption DEF TypeOK, LocksAreClaims, Procs
<1>4. DeliveriesAreRecorded' /\ JobsNameTickets' /\ EventOnce'
  BY <1>1, TicketsAssumption DEF TypeOK, DeliveriesAreRecorded, JobsNameTickets, EventOnce, Procs
<1> QED
  BY <1>2, <1>3, <1>4

\* A write waits for the lock, so it never touches a ticket being claimed.
LEMMA WriteKeeps ==
    ASSUME IInv, NEW x \in Procs, step[x] \in {"read", "checked", "recorded"},
           NEW p \in Products, NEW s \in Statuses, NEW o \in Moderators \cup {Nobody},
           Write(p, s, o), Go(x, "done"),
           UNCHANGED <<mail, queue, inbox, handling, job, seen, holder>>,
           verdicts' \in Seq(Verdicts)
    PROVE  IInv'
<1> USE DEF IInv, Write, Go, Locked
<1>1. TypeOK'
  BY DEF TypeOK, Steps
<1>2. LocksAreClaims'
  BY TicketsAssumption DEF TypeOK, LocksAreClaims, Procs
<1>3. DeliveriesAreRecorded' /\ JobsNameTickets' /\ EventOnce'
  BY DEF TypeOK, DeliveriesAreRecorded, JobsNameTickets, EventOnce
<1> QED
  BY <1>1, <1>2, <1>3

LEMMA ResetTicketKeeps ==
    ASSUME IInv, NEW d \in Deliveries, ResetTicket(d)
    PROVE  IInv'
<1>1. ProductOf(d) \in Products
  BY EventFacts DEF IInv, ResetTicket
<1>2. verdicts' \in Seq(Verdicts)
  BY DEF IInv, TypeOK, ResetTicket
<1> QED
  BY <1>1, <1>2, WriteKeeps DEF ResetTicket, Procs, Statuses

\* A delivery or a request whose step moves and nothing else does.
LEMMA MoveKeeps ==
    ASSUME IInv, NEW x \in Procs, step[x] \in {"read", "recorded"},
           NEW to \in {"done", "checked", "refused"}, Go(x, to),
           to = "checked" => step[x] = "read" /\ x \in Requests /\ job[x].op \in DOMAIN Decisions,
           UNCHANGED <<mail, ticket, queue, inbox, handling, job, seen, holder, verdicts>>
    PROVE  IInv'
<1> USE DEF IInv, Go
<1>1. TypeOK'
  BY DEF TypeOK, Steps
<1>2. LocksAreClaims'
  BY DEF TypeOK, LocksAreClaims, Procs
<1>3. DeliveriesAreRecorded' /\ JobsNameTickets' /\ EventOnce'
  BY DEF TypeOK, DeliveriesAreRecorded, JobsNameTickets, EventOnce
<1> QED
  BY <1>1, <1>2, <1>3

LEMMA OnDeletedKeeps ==
    ASSUME IInv, NEW d \in Deliveries, OnDeleted(d)
    PROVE  IInv'
<1>1. ProductOf(d) \in Products
  BY EventFacts DEF IInv, OnDeleted
<1>2. ticket[ProductOf(d)].owner \in Moderators \cup {Nobody}
  BY <1>1 DEF IInv, TypeOK
<1>3. CASE ticket[ProductOf(d)].status \in {"none", "ARCHIVED"}
  BY <1>3, MoveKeeps DEF OnDeleted, Procs
<1>4. CASE ticket[ProductOf(d)].status \notin {"none", "ARCHIVED"}
  <2>1. verdicts' \in Seq(Verdicts)
    BY DEF IInv, TypeOK, OnDeleted
  <2> QED
    BY <1>1, <1>2, <1>4, <2>1, WriteKeeps DEF OnDeleted, Procs, Statuses
<1> QED
  BY <1>3, <1>4

-----------------------------------------------------------------------------
(* Requests. *)

LEMMA SelectNextKeeps ==
    ASSUME IInv, NEW r \in Requests, NEW m \in Moderators, SelectNext(r, m)
    PROVE  IInv'
<1> USE DEF IInv
<1>1. PICK i \in Claimable :
        /\ step[r] = "idle"
        /\ job' = [job EXCEPT ![r] = [op |-> "claim", by |-> m, on |-> queue[i]]]
        /\ holder' = [holder EXCEPT ![queue[i]] = r]
        /\ step' = [step EXCEPT ![r] = "selected"]
        /\ UNCHANGED <<mail, ticket, queue, inbox, handling, seen, verdicts>>
  BY DEF SelectNext, Start, Go
<1> DEFINE p == queue[i]
<1>2. p \in Products /\ ticket[p].status = "PENDING" /\ holder[p] = Nobody
  BY DEF Claimable, Locked, TypeOK
<1>3. [op |-> "claim", by |-> m, on |-> p] \in Jobs
  BY <1>2 DEF Jobs
<1> HIDE DEF p
<1>4. TypeOK'
  BY <1>1, <1>2, <1>3 DEF TypeOK, Steps, Procs, p
<1>5. LocksAreClaims'
  <2>1. /\ \A q \in Products : holder'[q] = IF q = p THEN r ELSE holder[q]
        /\ \A x \in Procs : step'[x] = IF x = r THEN "selected" ELSE step[x]
        /\ \A q \in Requests : q # r => job'[q] = job[q]
        /\ job'[r].on = p
    BY <1>1, <1>2 DEF TypeOK, p
  <2>2. \A q \in Products : holder[q] # r
    BY <1>1 DEF LocksAreClaims
  <2>3. Nobody \notin Requests
    BY TicketsAssumption
  <2> QED
    BY <1>1, <1>2, <2>1, <2>2, <2>3 DEF LocksAreClaims, Procs
<1>6. DeliveriesAreRecorded' /\ JobsNameTickets' /\ EventOnce'
  BY <1>1, TicketsAssumption DEF TypeOK, DeliveriesAreRecorded, JobsNameTickets, EventOnce, Procs
<1> QED
  BY <1>4, <1>5, <1>6

\* A request that starts without a lock.
LEMMA StartKeeps ==
    ASSUME IInv, NEW r \in Requests, NEW j \in Jobs, NEW s \in Statuses,
           NEW to \in {"empty", "read", "refused"},
           step[r] = "idle", to = "read" => j.on \in Products,
           job' = [job EXCEPT ![r] = j], Go(r, to),
           seen' \in [Procs -> Statuses],
           UNCHANGED <<mail, ticket, queue, inbox, handling, holder, verdicts>>
    PROVE  IInv'
<1> USE DEF IInv, Go
<1>1. TypeOK'
  BY DEF TypeOK, Steps, Procs
<1>2. LocksAreClaims'
  BY DEF TypeOK, LocksAreClaims, Procs
<1>3. DeliveriesAreRecorded' /\ JobsNameTickets' /\ EventOnce'
  BY TicketsAssumption DEF TypeOK, DeliveriesAreRecorded, JobsNameTickets, EventOnce, Procs
<1> QED
  BY <1>1, <1>2, <1>3

LEMMA QueueEmptyKeeps ==
    ASSUME IInv, NEW r \in Requests, NEW m \in Moderators, QueueEmpty(r, m)
    PROVE  IInv'
<1>1. [op |-> "claim", by |-> m, on |-> Nobody] \in Jobs
  BY DEF Jobs
<1>2. seen' \in [Procs -> Statuses] /\ "none" \in Statuses
  BY DEF IInv, TypeOK, QueueEmpty, Statuses
<1> QED
  BY <1>1, <1>2, StartKeeps DEF QueueEmpty, Start

LEMMA ReadTicketKeeps ==
    ASSUME IInv, NEW r \in Requests, NEW op \in DOMAIN Decisions \cup {"release"},
           NEW m \in Moderators, NEW p \in Products, ReadTicket(r, op, m, p)
    PROVE  IInv'
<1>1. [op |-> op, by |-> m, on |-> p] \in Jobs
  BY DEF Jobs
<1>2. ticket[p].status \in Statuses
  BY DEF IInv, TypeOK
<1>3. seen' \in [Procs -> Statuses]
  BY <1>2 DEF IInv, TypeOK, ReadTicket
<1>4. PICK to \in {"read", "refused"} : Go(r, to)
  BY DEF ReadTicket
<1> QED
  BY <1>1, <1>2, <1>3, <1>4, StartKeeps DEF ReadTicket, Start

LEMMA CheckKeeps ==
    ASSUME IInv, NEW r \in Requests, NEW ok \in BOOLEAN, Check(r, ok)
    PROVE  IInv'
<1>1. PICK to \in {"checked", "refused"} : Go(r, to)
  BY DEF Check
<1> QED
  BY <1>1, MoveKeeps DEF Check, Procs

LEMMA CommitClaimKeeps ==
    ASSUME IInv, NEW r \in Requests, CommitClaim(r)
    PROVE  IInv'
<1> USE DEF IInv, CommitClaim, Go
<1> DEFINE p == job[r].on
<1>1. p \in Products /\ holder[p] = r
  BY DEF LocksAreClaims
<1>2. TypeOK'
  BY <1>1, JobFacts DEF TypeOK, Steps, Procs, Statuses
<1>3. LocksAreClaims'
  <2>1. /\ \A q \in Products : holder'[q] = IF q = p THEN Nobody ELSE holder[q]
        /\ \A q \in Products : q # p => ticket'[q] = ticket[q]
        /\ \A x \in Procs : step'[x] = IF x = r THEN "done" ELSE step[x]
    BY <1>1 DEF TypeOK
  <2>2. Nobody \notin Requests
    BY TicketsAssumption
  <2> QED
    BY <1>1, <2>1, <2>2 DEF LocksAreClaims, Procs
<1>4. DeliveriesAreRecorded' /\ JobsNameTickets' /\ EventOnce'
  BY TicketsAssumption DEF TypeOK, DeliveriesAreRecorded, JobsNameTickets, EventOnce, Procs
<1> QED
  BY <1>2, <1>3, <1>4

LEMMA DecideKeeps ==
    ASSUME IInv, NEW r \in Requests, Decide(r)
    PROVE  IInv'
<1>0. job[r].on \in Products /\ job[r].op \in DOMAIN Decisions
  BY DEF IInv, JobsNameTickets, Decide
<1>1. Decisions[job[r].op] \in Decided
  BY <1>0 DEF Decisions, Decided
<1>2. ticket[job[r].on].owner \in Moderators \cup {Nobody}
  BY <1>0 DEF IInv, TypeOK
<1>3. [product |-> job[r].on, status |-> Decisions[job[r].op], by |-> r] \in Verdicts
  BY <1>0, <1>1 DEF Verdicts
<1>4. verdicts' \in Seq(Verdicts)
  BY <1>3, AppendProperties DEF IInv, TypeOK, Decide
<1>5. Decisions[job[r].op] \in Statuses
  BY <1>1 DEF Statuses
<1> QED
  BY <1>0, <1>2, <1>4, <1>5, WriteKeeps DEF Decide, Procs

LEMMA ReleaseKeeps ==
    ASSUME IInv, NEW r \in Requests, Release(r)
    PROVE  IInv'
<1>1. job[r].on \in Products
  BY DEF IInv, JobsNameTickets, Release
<1>2. verdicts' \in Seq(Verdicts)
  BY DEF IInv, TypeOK, Release
<1> QED
  BY <1>1, <1>2, WriteKeeps DEF Release, Procs, Statuses

-----------------------------------------------------------------------------
(* Crashes and B2B. *)

\* A dead process loses its locks and only those.
LEMMA CrashKeeps ==
    ASSUME IInv, NEW x \in Procs, Crash(x)
    PROVE  IInv'
<1> USE DEF IInv, Crash, Go
<1>1. TypeOK'
  BY DEF TypeOK, Steps
<1>2. LocksAreClaims'
  BY TicketsAssumption DEF TypeOK, LocksAreClaims, Procs
<1>3. DeliveriesAreRecorded' /\ JobsNameTickets' /\ EventOnce'
  BY DEF TypeOK, DeliveriesAreRecorded, JobsNameTickets, EventOnce
<1> QED
  BY <1>1, <1>2, <1>3

LEMMA SendKeeps ==
    ASSUME IInv, NEW e \in Events, Send(e)
    PROVE  IInv'
<1> USE DEF IInv, Send, ticketVars
<1>1. /\ mail' \in Seq(Events) /\ Len(mail') = Len(mail) + 1
      /\ DOMAIN mail \subseteq DOMAIN mail'
  BY AppendProperties DEF TypeOK
<1>2. TypeOK'
  BY <1>1, TicketsAssumption DEF TypeOK
<1>3. LocksAreClaims' /\ DeliveriesAreRecorded' /\ JobsNameTickets' /\ EventOnce'
  BY DEF LocksAreClaims, DeliveriesAreRecorded, JobsNameTickets, EventOnce
<1> QED
  BY <1>2, <1>3

LEMMA StepKeepsIInv == IInv /\ [Next]_vars => IInv'
<1> SUFFICES ASSUME IInv, [Next]_vars PROVE IInv'
  OBVIOUS
<1>1. CASE \E d \in Deliveries : Deliver(d)
  BY <1>1, RecordKeyKeeps, OnCreatedKeeps, ReadForEditKeeps, ResetTicketKeeps, OnDeletedKeeps DEF Deliver
<1>2. CASE \E r \in Requests : Ask(r)
  BY <1>2, SelectNextKeeps, QueueEmptyKeeps, ReadTicketKeeps DEF Ask
<1>3. CASE \E r \in Requests : CommitClaim(r) \/ Decide(r) \/ Release(r)
  BY <1>3, CommitClaimKeeps, DecideKeeps, ReleaseKeeps
<1>4. CASE \E x \in Procs : Crash(x)
  BY <1>4, CrashKeeps
<1>5. CASE \E r \in Requests, ok \in BOOLEAN : Check(r, ok)
  BY <1>5, CheckKeeps
<1>6. CASE \E e \in Events : Send(e)
  BY <1>6, SendKeeps
<1>7. CASE UNCHANGED vars
  BY <1>7 DEF vars, ticketVars, IInv, TypeOK, LocksAreClaims, DeliveriesAreRecorded, JobsNameTickets, EventOnce
<1> QED
  BY <1>1, <1>2, <1>3, <1>4, <1>5, <1>6, <1>7 DEF Next, TicketStep

LEMMA AlwaysIInv == Spec => []IInv
BY InitIInv, StepKeepsIInv, PTL DEF Spec

-----------------------------------------------------------------------------
(* The results. *)

\* The types of tickets, requests, locks, events and verdicts.
THEOREM TypeCorrect == Spec => []TypeOK
<1>1. IInv => TypeOK
  BY DEF IInv
<1> QED
  BY <1>1, AlwaysIInv, PTL

\* One key, one effect: handle_b2b_event commits the key before it acts.
THEOREM EventsTakeEffectOnce == Spec => []EventOnce
<1>1. IInv => EventOnce
  BY DEF IInv
<1> QED
  BY <1>1, AlwaysIInv, PTL

\* FOR UPDATE SKIP LOCKED: no ticket is claimed twice, and no other handler
\* gets between a claim's SELECT and its UPDATE.
THEOREM ClaimsAreExclusive == Spec => ClaimTakesPending
<1>1. ASSUME IInv, NEW r \in Requests, step[r] = "selected"
      PROVE  ticket[job[r].on].status = "PENDING"
  BY <1>1 DEF IInv, LocksAreClaims
<1>2. IInv /\ [Next]_vars =>
        [\A r \in Requests :
            step[r] = "selected" /\ step'[r] = "done" => ticket[job[r].on].status = "PENDING"]_vars
  BY <1>1
<1> QED
  BY <1>2, AlwaysIInv, PTL DEF Spec, ClaimTakesPending

-----------------------------------------------------------------------------
(* Hard blocks: who goes on with a ticket saw it alive. *)

SeenAlive ==
    \A x \in Procs : step[x] \in {"read", "checked"} =>
        seen[x] \notin {"none", "ARCHIVED", "HARD_BLOCKED"}

LEMMA InitSeenAlive == Init => SeenAlive
BY DEF Init, TicketInit, SeenAlive

LEMMA StepKeepsSeenAlive ==
    ASSUME TypeOK, SeenAlive, [Next]_vars
    PROVE  SeenAlive'
<1> USE DEF SeenAlive, Go
<1>1. CASE \E d \in Deliveries : ReadForEdit(d)
  <2>1. PICK d \in Deliveries : ReadForEdit(d)
    BY <1>1
  <2> QED
    BY <2>1 DEF ReadForEdit, TypeOK
<1>2. CASE \E r \in Requests, op \in DOMAIN Decisions \cup {"release"}, m \in Moderators, p \in Products :
            ReadTicket(r, op, m, p)
  BY <1>2 DEF ReadTicket, Start, MayDecide, TypeOK
<1>3. CASE \E d \in Deliveries :
            (\E k \in DOMAIN mail : RecordKey(d, k)) \/ OnCreated(d) \/ ResetTicket(d) \/ OnDeleted(d)
  BY <1>3 DEF RecordKey, OnCreated, ResetTicket, OnDeleted, TypeOK, Procs
<1>4. CASE \E r \in Requests, m \in Moderators : SelectNext(r, m) \/ QueueEmpty(r, m)
  BY <1>4 DEF SelectNext, QueueEmpty, Start, TypeOK
<1>5. CASE \E r \in Requests : CommitClaim(r) \/ Decide(r) \/ Release(r)
  BY <1>5 DEF CommitClaim, Decide, Release, TypeOK
<1>6. CASE \E x \in Procs : Crash(x)
  BY <1>6 DEF Crash, TypeOK
<1>7. CASE \E r \in Requests, ok \in BOOLEAN : Check(r, ok)
  BY <1>7 DEF Check, TypeOK, Procs
<1>8. CASE (\E e \in Events : Send(e)) \/ UNCHANGED vars
  BY <1>8 DEF Send, vars, ticketVars
<1> QED
  BY <1>1, <1>2, <1>3, <1>4, <1>5, <1>6, <1>7, <1>8 DEF Next, TicketStep, Deliver, Ask

LEMMA AlwaysSeenAlive == Spec => []SeenAlive
<1>1. IInv /\ SeenAlive /\ [Next]_vars => SeenAlive'
  BY StepKeepsSeenAlive DEF IInv
<1> QED
  BY <1>1, InitSeenAlive, AlwaysIInv, PTL DEF Spec

\* HARD_BLOCKED gives way only to a handler that read the ticket before: claim
\* takes PENDING tickets, CREATED inserts, and the others write after a read.
THEOREM ReopenedOnStaleReads == Spec => OnlyStaleReadsReopen
<1> DEFINE Reopening ==
      \A p \in Products :
        /\ ticket[p].status = "HARD_BLOCKED"
        /\ ticket'[p].status \notin {"HARD_BLOCKED", "ARCHIVED"}
        => \E x \in Procs :
              /\ step[x] \in {"read", "checked"} /\ step'[x] = "done"
              /\ seen[x] \notin {"none", "ARCHIVED", "HARD_BLOCKED"}
<1>1. ASSUME IInv, SeenAlive, [Next]_vars PROVE Reopening
  <2> SUFFICES ASSUME NEW p \in Products, ticket[p].status = "HARD_BLOCKED",
                      ticket'[p].status \notin {"HARD_BLOCKED", "ARCHIVED"}
               PROVE  \E x \in Procs :
                        /\ step[x] \in {"read", "checked"} /\ step'[x] = "done"
                        /\ seen[x] \notin {"none", "ARCHIVED", "HARD_BLOCKED"}
    OBVIOUS
  <2>0. ticket[p] # ticket'[p]
    OBVIOUS
  <2> DEFINE Writes(x) == step[x] \in {"read", "checked"} /\ Go(x, "done")
  <2>1. SUFFICES \E x \in Procs : Writes(x)
    BY <1>1 DEF Go, IInv, TypeOK, SeenAlive
  <2>2. CASE \E d \in Deliveries : OnCreated(d) \/ OnDeleted(d)
    BY <1>1, <2>0, <2>2, EventFacts DEF OnCreated, OnDeleted, Write, IInv, TypeOK
  <2>3. CASE \E r \in Requests : CommitClaim(r)
    BY <1>1, <2>0, <2>3 DEF CommitClaim, IInv, LocksAreClaims, TypeOK
  <2>4. CASE (\E d \in Deliveries : ResetTicket(d)) \/ (\E r \in Requests : Decide(r) \/ Release(r))
    BY <2>4 DEF ResetTicket, Decide, Release, Procs
  <2> HIDE DEF Writes
  <2> QED
    BY <1>1, <2>0, <2>2, <2>3, <2>4
       DEF Next, TicketStep, Deliver, Ask, RecordKey, ReadForEdit, SelectNext, QueueEmpty, ReadTicket,
           Crash, Check, Send, vars, ticketVars
<1>2. IInv /\ SeenAlive /\ [Next]_vars => [Reopening]_vars
  BY <1>1
<1> QED
  BY <1>2, AlwaysSeenAlive, AlwaysIInv, PTL DEF Spec, OnlyStaleReadsReopen

-----------------------------------------------------------------------------
(* What B2B is told. *)

\* The row that tells of a decision is the last one of its product.
TellsOf(i, p) ==
    /\ i \in DOMAIN verdicts
    /\ verdicts[i].product = p
    /\ verdicts[i].status = ticket[p].status
    /\ \A j \in DOMAIN verdicts : verdicts[j].product = p => j <= i

DecisionIsLast == \A p \in Products : ticket[p].status \in Decided => \E i \in Nat : TellsOf(i, p)

LEMMA MaxIsIt ==
    ASSUME NEW S \in SUBSET Nat, NEW m \in S, \A i \in S : i <= m
    PROVE  Max(S) = m
<1> DEFINE IsMax(x) == x \in S /\ \A y \in S : x >= y
<1>1. IsMax(m)
  OBVIOUS
<1>2. \A x : IsMax(x) => x = m
  OBVIOUS
<1>3. Max(S) = CHOOSE x : IsMax(x)
  BY Zenon DEF Max
<1> HIDE DEF IsMax
<1> QED
  BY <1>1, <1>2, <1>3, Zenon

LEMMA LastTells ==
    ASSUME TypeOK, NEW p \in Products, NEW i \in Nat, TellsOf(i, p)
    PROVE  LastVerdict(p) = i
<1> DEFINE I == {j \in 1..Len(verdicts) : verdicts[j].product = p}
<1>1. i \in I /\ I \in SUBSET Nat /\ \A j \in I : j <= i
  BY DEF TypeOK, TellsOf
<1>2. Max(I) = i
  <2> HIDE DEF I
  <2> QED
    BY <1>1, MaxIsIt
<1>3. LastVerdict(p) = IF I # {} THEN Max(I) ELSE 0
  BY DEF LastVerdict, SelectLastInSeq
<1> HIDE DEF I
<1> QED
  BY <1>1, <1>2, <1>3

LEMMA DecideTells ==
    ASSUME IInv, DecisionIsLast, NEW r \in Requests, Decide(r)
    PROVE  DecisionIsLast'
<1> DEFINE q == job[r].on
           verdict == Decisions[job[r].op]
           row == [product |-> q, status |-> verdict, by |-> r]
           n == Len(verdicts) + 1
<1>1. q \in Products /\ verdict \in Decided
  BY DEF IInv, JobsNameTickets, Decide, Decisions, Decided
<1>2. row \in Verdicts /\ verdicts \in Seq(Verdicts)
  BY <1>1 DEF Verdicts, IInv, TypeOK
<1>3. /\ verdicts' = Append(verdicts, row)
      /\ ticket' = [ticket EXCEPT ![q] = [status |-> verdict, owner |-> ticket[q].owner]]
  BY DEF Decide, Write
<1> HIDE DEF q, verdict
<1>4. /\ Len(verdicts) \in Nat /\ DOMAIN verdicts = 1..Len(verdicts)
      /\ DOMAIN verdicts' = 1..n
      /\ verdicts'[n] = row
      /\ \A j \in DOMAIN verdicts : verdicts'[j] = verdicts[j]
  <2> HIDE DEF row
  <2> QED
    BY <1>2, <1>3, AppendProperties, LenProperties
<1> SUFFICES ASSUME NEW p \in Products, ticket'[p].status \in Decided
             PROVE  \E i \in Nat : TellsOf(i, p)'
  BY DEF DecisionIsLast
<1>5. CASE p = q
  <2>1. verdicts'[n].product = p /\ verdicts'[n].status = verdict
    BY <1>4, <1>5
  <2>2. ticket'[p].status = verdict
    BY <1>1, <1>3, <1>5 DEF IInv, TypeOK
  <2>3. \A j \in DOMAIN verdicts' : j <= n
    BY <1>4
  <2>4. n \in DOMAIN verdicts' /\ n \in Nat
    BY <1>4
  <2> HIDE DEF n
  <2> QED
    BY <2>1, <2>2, <2>3, <2>4 DEF TellsOf
<1>6. CASE p # q
  <2>1. ticket'[p] = ticket[p]
    BY <1>1, <1>3, <1>6 DEF IInv, TypeOK
  <2>2. PICK i \in Nat : TellsOf(i, p)
    BY <2>1 DEF DecisionIsLast
  <2>3. verdicts'[n].product # p
    BY <1>4, <1>6
  <2> HIDE DEF row
  <2> QED
    BY <1>4, <2>1, <2>2, <2>3 DEF TellsOf
<1> QED
  BY <1>5, <1>6

\* A step that adds no row and decides nothing new.
LEMMA OthersTell ==
    ASSUME DecisionIsLast, UNCHANGED verdicts,
           \A p \in Products : ticket'[p].status \in Decided => ticket'[p] = ticket[p]
    PROVE  DecisionIsLast'
<1> SUFFICES ASSUME NEW p \in Products, ticket'[p].status \in Decided
             PROVE  \E i \in Nat : TellsOf(i, p)'
  BY DEF DecisionIsLast
<1>1. PICK i \in Nat : TellsOf(i, p)
  BY DEF DecisionIsLast
<1> QED
  BY <1>1 DEF TellsOf

LEMMA StepTells ==
    ASSUME IInv, DecisionIsLast, [Next]_vars
    PROVE  DecisionIsLast'
<1> DEFINE Quiet == /\ UNCHANGED verdicts
                    /\ \A p \in Products : ticket'[p].status \in Decided => ticket'[p] = ticket[p]
<1>1. CASE \E d \in Deliveries : OnCreated(d) \/ OnDeleted(d) \/ ResetTicket(d)
  <2>1. PICK d \in Deliveries : OnCreated(d) \/ OnDeleted(d) \/ ResetTicket(d)
    BY <1>1
  <2>2. step[d] # "idle"
    BY <2>1 DEF OnCreated, OnDeleted, ResetTicket
  <2>3. ProductOf(d) \in Products
    BY <2>2, EventFacts DEF IInv
  <2>4. Quiet
    BY <2>1, <2>3 DEF OnCreated, OnDeleted, ResetTicket, Write, IInv, TypeOK, Decided
  <2> QED
    BY <2>4, OthersTell
<1>2. CASE \E r \in Requests : CommitClaim(r) \/ Release(r)
  <2>1. Quiet
    BY <1>2 DEF CommitClaim, Release, Write, IInv, TypeOK, LocksAreClaims, JobsNameTickets, Decided
  <2> QED
    BY <2>1, OthersTell
<1>3. CASE UNCHANGED <<ticket, verdicts>>
  BY <1>3, OthersTell
<1> QED
  BY <1>1, <1>2, <1>3, DecideTells
     DEF Next, TicketStep, Deliver, Ask, RecordKey, ReadForEdit, SelectNext, QueueEmpty, ReadTicket,
         Crash, Check, Send, vars, ticketVars

\* The transaction of a decision writes the ticket and the outbox row; what
\* comes later to the ticket comes with a later row, or is no decision.
THEOREM DecisionsAreSent == Spec => []DecisionIsSent
<1>1. Init => DecisionIsLast
  BY DEF Init, TicketInit, DecisionIsLast, Decided
<1>2. IInv /\ DecisionIsLast /\ [Next]_vars => DecisionIsLast'
  BY StepTells
<1>3. ASSUME IInv, DecisionIsLast PROVE DecisionIsSent
  <2> SUFFICES ASSUME NEW p \in Products, ticket[p].status \in Decided
               PROVE  LastVerdict(p) > 0 /\ verdicts[LastVerdict(p)].status = ticket[p].status
    BY DEF DecisionIsSent
  <2>1. PICK i \in Nat : TellsOf(i, p)
    BY <1>3 DEF DecisionIsLast
  <2>2. LastVerdict(p) = i
    BY <1>3, <2>1, LastTells DEF IInv
  <2> QED
    BY <1>3, <2>1, <2>2 DEF TellsOf, IInv, TypeOK
<1>4. IInv /\ DecisionIsLast => DecisionIsSent
  BY <1>3
<1> QED
  BY <1>1, <1>2, <1>4, AlwaysIInv, PTL DEF Spec

-----------------------------------------------------------------------------
(* Blocking reasons. *)

UnderWay(r) == step[r] \in {"read", "checked"} /\ job[r].op \in Blocks
Deleting(k) == at[k] \in {"found", "unreferenced"} /\ task[k].op = "delete"

Places == {"idle", "found", "unreferenced", "refused", "failed", "done"}

\* What the proofs need of the types.
ReasonShapes ==
    /\ reasons \in [DOMAIN reasons -> BOOLEAN]
    /\ DOMAIN reference = Products
    /\ chosen \in [Requests -> Picks \cup {<<>>}]
    /\ found \in [Requests -> Nat]
    /\ at \in [Keepers -> Places]
    /\ DOMAIN task = Keepers
    /\ \A k \in Keepers :
          /\ at[k] = "unreferenced" => task[k].op = "delete"
          /\ task[k].op \in {"update", "delete"} => task[k].active \in BOOLEAN

\* A block is checked after it looked its first reason up.
LookUpsCount ==
    \A r \in Requests :
        /\ step[r] = "idle" => found[r] = 0
        /\ UnderWay(r) /\ step[r] = "checked" => found[r] > 0

MetIsComplete == \A r \in Requests, k \in Keepers : UnderWay(r) /\ Deleting(k) => <<r, k>> \in met

PatchedAway(i) ==
    \E k \in Keepers :
        at[k] = "done" /\ task[k].on = i /\ task[k].op = "update" /\ ~task[k].active

DeletedNextTo(r, i) ==
    \E k \in Keepers :
        at[k] = "done" /\ task[k].on = i /\ task[k].op = "delete" /\ <<r, k>> \in met

\* The block r has given ticket p the reason i.
Gave(r, i, p) == job[r].on = p /\ step[r] = "done" /\ Head(chosen[r]) = i

Explained(i, p) ==
    \/ PatchedAway(i)
    \/ \E r \in Requests : Gave(r, i, p) /\ DeletedNextTo(r, i)

\* A reason a block looked up is still offered, or went while the block ran.
FirstIsOffered ==
    \A r \in Requests : UnderWay(r) /\ found[r] > 0 =>
        \/ Head(chosen[r]) \in Offered
        \/ PatchedAway(Head(chosen[r]))
        \/ DeletedNextTo(r, Head(chosen[r]))

\* A DELETE that found no references meets those that came since.
ReferencesCameLater ==
    \A k \in Keepers, p \in Products :
        at[k] = "unreferenced" /\ reference[p] = task[k].on =>
            \E r \in Requests : Gave(r, reference[p], p) /\ <<r, k>> \in met

HiddenIsExplained ==
    \A p \in Products : reference[p] \notin Offered \cup {Nobody} => Explained(reference[p], p)

RInv == /\ ReasonShapes /\ LookUpsCount /\ MetIsComplete
        /\ FirstIsOffered /\ ReferencesCameLater /\ HiddenIsExplained

-----------------------------------------------------------------------------
(* Refinement. *)

LEMMA StepIsTicketStep == [ReasonsNext]_allVars => [Next]_vars
<1> SUFFICES ASSUME [ReasonsNext]_allVars PROVE [Next]_vars
  OBVIOUS
<1>1. CASE OtherTicketStep
  <2>1. {"approve", "release"} \subseteq DOMAIN Decisions \cup {"release"}
    BY DEF Decisions
  <2> QED
    BY <1>1, <2>1 DEF OtherTicketStep, SendInOrder, Next, TicketStep, Ask
<1>2. CASE \E r \in Requests, m \in Moderators, p \in Products : StartBlock(r, m, p)
  <2>1. {"block", "hard_block"} \subseteq DOMAIN Decisions
    BY DEF Decisions
  <2>2. PICK r \in Requests, m \in Moderators, p \in Products : StartBlock(r, m, p)
    BY <1>2
  <2>3. \E op \in DOMAIN Decisions \cup {"release"} : ReadTicket(r, op, m, p)
    BY <2>1, <2>2 DEF StartBlock
  <2> QED
    BY <2>3 DEF Next, TicketStep, Ask
<1>3. CASE \E r \in Requests : LookUp(r) \/ DecideBlock(r)
  BY <1>3 DEF LookUp, DecideBlock, Next, TicketStep
<1>4. CASE \E k \in Keepers :
             BeginCreate(k) \/ Insert(k) \/ BeginChange(k) \/ FindReferences(k) \/ SetActive(k)
  BY <1>4 DEF BeginCreate, BeginChange, Ready, Insert, FindReferences, SetActive
<1>5. CASE UNCHANGED allVars
  BY <1>5 DEF allVars
<1> QED
  BY <1>1, <1>2, <1>3, <1>4, <1>5 DEF ReasonsNext

\* The catalogue adds to the tickets and changes nothing they do.
THEOREM ReasonsRefineTickets == ReasonsSpec => Spec
<1>1. ReasonsInit => Init
  BY DEF ReasonsInit
<1> QED
  BY <1>1, StepIsTicketStep, PTL DEF ReasonsSpec, Spec

-----------------------------------------------------------------------------
(* What stays. *)

\* Answers given and meetings recorded.
Stays ==
    /\ \A r \in Requests : step[r] = "done" =>
          step'[r] = "done" /\ job'[r] = job[r] /\ chosen'[r] = chosen[r]
    /\ \A k \in Keepers : at[k] = "done" => at'[k] = "done" /\ task'[k] = task[k]
    /\ met \subseteq met'

\* No block begins, is checked or reads more.
BlocksRest ==
    \A r \in Requests :
        /\ step'[r] = "idle" => step[r] = "idle"
        /\ UnderWay(r)' => UnderWay(r) /\ (step'[r] = "checked" => step[r] = "checked")

LEMMA MeetingsAreComplete ==
    ASSUME Meet
    PROVE  MetIsComplete' /\ met \subseteq met'
BY DEF Meet, MetIsComplete, UnderWay, Deleting

LEMMA TicketStepsRest ==
    ASSUME TypeOK, OtherTicketStep
    PROVE  /\ BlocksRest
           /\ \A r \in Requests : step[r] = "done" => step'[r] = "done" /\ job'[r] = job[r]
<1> DEFINE Rests == /\ BlocksRest
                    /\ \A r \in Requests : step[r] = "done" => step'[r] = "done" /\ job'[r] = job[r]
<1> USE DEF BlocksRest, UnderWay, Go, TypeOK
<1>1. CASE \E d \in Deliveries : Deliver(d)
  BY <1>1, TicketsAssumption
     DEF Deliver, RecordKey, OnCreated, ReadForEdit, ResetTicket, OnDeleted, Procs
<1>2. CASE \E r \in Requests, m \in Moderators : SelectNext(r, m) \/ QueueEmpty(r, m)
  BY <1>2 DEF SelectNext, QueueEmpty, Start, Procs
<1>3. CASE \E r \in Requests, m \in Moderators, op \in {"approve", "release"}, p \in Products :
              ReadTicket(r, op, m, p)
  BY <1>3 DEF ReadTicket, Start, Procs, Blocks
<1>4. CASE \E r \in Requests : CommitClaim(r) \/ Release(r)
  BY <1>4 DEF CommitClaim, Release, Procs
<1>5. CASE \E r \in Requests, ok \in BOOLEAN : job[r].op = "approve" /\ (Check(r, ok) \/ Decide(r))
  BY <1>5 DEF Check, Decide, Procs, Blocks
<1>6. CASE \E x \in Procs : Crash(x)
  BY <1>6 DEF Crash
<1>7. CASE \E e \in Events : SendInOrder(e)
  BY <1>7 DEF SendInOrder, Send, ticketVars
<1> HIDE DEF BlocksRest, UnderWay, Go, TypeOK
<1> QED
  BY <1>1, <1>2, <1>3, <1>4, <1>5, <1>6, <1>7 DEF OtherTicketStep

LEMMA ExplanationsStay ==
    ASSUME Stays, NEW i, NEW p, Explained(i, p)
    PROVE  Explained(i, p)'
<1>1. CASE PatchedAway(i)
  BY <1>1 DEF Explained, PatchedAway, Stays
<1>2. CASE \E r \in Requests : Gave(r, i, p) /\ DeletedNextTo(r, i)
  BY <1>2 DEF Explained, Gave, DeletedNextTo, Stays
<1> QED
  BY <1>1, <1>2 DEF Explained

\* A step that gives no ticket a reason and takes no reason from the offer.
LEMMA HiddenStaysExplained ==
    ASSUME HiddenIsExplained, Stays, reference' = reference, Offered \subseteq Offered'
    PROVE  HiddenIsExplained'
<1> SUFFICES ASSUME NEW p \in Products, reference[p] \notin Offered' \cup {Nobody}
             PROVE  Explained(reference[p], p)'
  BY DEF HiddenIsExplained
<1>1. PICK i : i = reference[p]
  OBVIOUS
<1>2. Explained(i, p)
  BY <1>1 DEF HiddenIsExplained
<1>3. Explained(i, p)'
  BY <1>2, ExplanationsStay
<1> QED
  BY <1>1, <1>3 DEF Explained, PatchedAway, DeletedNextTo, Gave

\* A step that gives no ticket a reason and ends no search for references.
LEMMA LaterReferencesStay ==
    ASSUME ReferencesCameLater, Stays, reference' = reference,
           NEW K \in SUBSET Keepers,
           \A k \in K : at[k] = "unreferenced" /\ task'[k].on = task[k].on,
           \A k \in Keepers \ K : at'[k] # "unreferenced"
    PROVE  ReferencesCameLater'
<1> SUFFICES ASSUME NEW k \in Keepers, NEW p \in Products,
                    at'[k] = "unreferenced", reference[p] = task'[k].on
             PROVE  (\E r \in Requests : Gave(r, reference[p], p) /\ <<r, k>> \in met)'
  BY DEF ReferencesCameLater
<1>1. k \in K /\ at[k] = "unreferenced" /\ reference[p] = task[k].on
  OBVIOUS
<1>2. PICK r \in Requests : Gave(r, reference[p], p) /\ <<r, k>> \in met
  BY <1>1 DEF ReferencesCameLater
<1>3. Gave(r, reference[p], p)'
  BY <1>2 DEF Gave, Stays
<1> QED
  BY <1>2, <1>3 DEF Stays

\* A block other than those of S that went on in its look-ups.
LEMMA FirstsStayOffered ==
    ASSUME FirstIsOffered, Stays, Offered \subseteq Offered',
           NEW S \in SUBSET Requests,
           \A r \in S : UnderWay(r)' => UnderWay(r) /\ found'[r] = found[r] /\ chosen'[r] = chosen[r],
           \A r \in Requests \ S : UnderWay(r)' /\ found'[r] > 0 => Head(chosen'[r]) \in Offered'
    PROVE  FirstIsOffered'
<1> SUFFICES ASSUME NEW r \in Requests, UnderWay(r)', found'[r] > 0
             PROVE  \/ Head(chosen'[r]) \in Offered'
                    \/ PatchedAway(Head(chosen[r]))'
                    \/ DeletedNextTo(r, Head(chosen[r]))'
  BY DEF FirstIsOffered
<1>1. CASE r \in S
  <2>1. PICK i : i = Head(chosen[r]) /\ i = Head(chosen'[r])
    BY <1>1
  <2>2. i \in Offered \/ PatchedAway(i) \/ DeletedNextTo(r, i)
    BY <1>1, <2>1 DEF FirstIsOffered
  <2>3. i \in Offered' \/ PatchedAway(i)' \/ DeletedNextTo(r, i)'
    BY <2>2 DEF PatchedAway, DeletedNextTo, Stays
  <2> QED
    BY <2>1, <2>3
<1>2. CASE r \notin S
  BY <1>2
<1> QED
  BY <1>1, <1>2

-----------------------------------------------------------------------------
(* The actions. *)

LEMMA OtherTicketStepKeeps ==
    ASSUME TypeOK, RInv, OtherTicketStep, Meet
    PROVE  RInv'
<1> USE DEF RInv
<1>1. UNCHANGED <<reasons, reference, chosen, found, task, at>>
  BY DEF OtherTicketStep
<1>2. MetIsComplete' /\ met \subseteq met'
  BY MeetingsAreComplete
<1>3. Stays /\ BlocksRest
  BY <1>1, <1>2, TicketStepsRest DEF Stays
<1>4. Offered' = Offered
  BY <1>1 DEF Offered
<1>5. ReasonShapes'
  BY <1>1 DEF ReasonShapes
<1>6. LookUpsCount'
  BY <1>1, <1>3 DEF LookUpsCount, BlocksRest
<1>7. FirstIsOffered'
  BY <1>1, <1>3, <1>4, FirstsStayOffered DEF BlocksRest
<1>8. ReferencesCameLater'
  <2> DEFINE K == {k \in Keepers : at[k] = "unreferenced"}
  <2>1. K \in SUBSET Keepers /\ (\A k \in K : at[k] = "unreferenced" /\ task'[k].on = task[k].on)
        /\ \A k \in Keepers \ K : at'[k] # "unreferenced"
    BY <1>1
  <2> HIDE DEF K
  <2> QED
    BY <1>1, <1>3, <2>1, LaterReferencesStay
<1>9. HiddenIsExplained'
  BY <1>1, <1>3, <1>4, HiddenStaysExplained
<1> QED
  BY <1>2, <1>5, <1>6, <1>7, <1>8, <1>9

LEMMA StartBlockKeeps ==
    ASSUME TypeOK, RInv, Meet,
           NEW q \in Requests, NEW m \in Moderators, NEW t \in Products, StartBlock(q, m, t)
    PROVE  RInv'
<1> USE DEF RInv
<1>1. /\ UNCHANGED <<reasons, reference, found, task, at>>
      /\ step[q] = "idle"
      /\ \A r \in Requests \ {q} : step'[r] = step[r] /\ job'[r] = job[r] /\ chosen'[r] = chosen[r]
      /\ step'[q] \in {"read", "refused"}
      /\ chosen' \in [Requests -> Picks \cup {<<>>}]
  BY DEF StartBlock, ReadTicket, Start, Go, TypeOK, Procs, ReasonShapes
<1>2. MetIsComplete' /\ met \subseteq met'
  BY MeetingsAreComplete
<1>3. Stays
  BY <1>1, <1>2 DEF Stays
<1>4. Offered' = Offered
  BY <1>1 DEF Offered
<1>5. ReasonShapes'
  BY <1>1 DEF ReasonShapes
<1>6. found[q] = 0 /\ LookUpsCount'
  BY <1>1 DEF LookUpsCount, UnderWay
<1>7. FirstIsOffered'
  <2> DEFINE S == Requests \ {q}
  <2>1. \A r \in S : UnderWay(r)' => UnderWay(r) /\ found'[r] = found[r] /\ chosen'[r] = chosen[r]
    BY <1>1 DEF UnderWay
  <2>2. \A r \in Requests \ S : ~(found'[r] > 0)
    BY <1>1, <1>6
  <2>3. S \in SUBSET Requests
    OBVIOUS
  <2> HIDE DEF S
  <2> QED
    BY <1>3, <1>4, <2>1, <2>2, <2>3, FirstsStayOffered
<1>8. ReferencesCameLater'
  <2> DEFINE K == {k \in Keepers : at[k] = "unreferenced"}
  <2>1. K \in SUBSET Keepers /\ (\A k \in K : at[k] = "unreferenced" /\ task'[k].on = task[k].on)
        /\ \A k \in Keepers \ K : at'[k] # "unreferenced"
    BY <1>1
  <2> HIDE DEF K
  <2> QED
    BY <1>1, <1>3, <2>1, LaterReferencesStay
<1>9. HiddenIsExplained'
  BY <1>1, <1>3, <1>4, HiddenStaysExplained
<1> QED
  BY <1>2, <1>5, <1>6, <1>7, <1>8, <1>9

LEMMA LookUpKeeps ==
    ASSUME TypeOK, RInv, Meet, NEW q \in Requests, LookUp(q)
    PROVE  RInv'
<1> USE DEF RInv
<1> DEFINE next == chosen[q][found[q] + 1]
<1>1. /\ UNCHANGED <<job, reasons, reference, chosen, task, at>>
      /\ UnderWay(q) /\ step[q] = "read"
      /\ \A r \in Requests \ {q} : step'[r] = step[r] /\ found'[r] = found[r]
  BY DEF LookUp, Check, Go, TypeOK, Procs, UnderWay, vars, ticketVars, ReasonShapes
<1>2. \/ /\ next \in Offered
         /\ found'[q] = found[q] + 1 /\ step'[q] \in {"read", "checked"}
      \/ step'[q] = "refused" /\ found'[q] = found[q]
  BY DEF LookUp, Check, Go, TypeOK, Procs, vars, ticketVars, MayUse, ReasonShapes
<1>3. MetIsComplete' /\ met \subseteq met'
  BY MeetingsAreComplete
<1>4. Stays
  BY <1>1, <1>3 DEF Stays
<1>5. Offered' = Offered
  BY <1>1 DEF Offered
<1>6. ReasonShapes'
  <2>1. found' = [found EXCEPT ![q] = found[q] + 1] \/ found' = found
    BY DEF LookUp
  <2>2. found' \in [Requests -> Nat]
    BY <2>1 DEF ReasonShapes
  <2> QED
    BY <1>1, <2>2 DEF ReasonShapes
<1>7. found[q] \in Nat
  BY DEF ReasonShapes
<1>8. LookUpsCount'
  BY <1>1, <1>2, <1>7 DEF LookUpsCount, UnderWay
<1>9. FirstIsOffered'
  <2> DEFINE S == IF found[q] = 0 \/ step'[q] = "refused" THEN Requests \ {q} ELSE Requests
  <2>1. CASE step'[q] = "refused" \/ found[q] = 0
    <3>1. \A r \in Requests \ {q} :
            UnderWay(r)' => UnderWay(r) /\ found'[r] = found[r] /\ chosen'[r] = chosen[r]
      BY <1>1 DEF UnderWay
    <3>2. UnderWay(q)' => Head(chosen'[q]) \in Offered'
      <4> SUFFICES ASSUME UnderWay(q)' PROVE Head(chosen[q]) \in Offered
        BY <1>1, <1>5
      <4>1. step'[q] # "refused"
        BY DEF UnderWay
      <4>2. next = chosen[q][1] /\ next \in Offered
        BY <1>2, <2>1, <4>1
      <4> QED
        BY <4>2
    <3> QED
      BY <1>4, <1>5, <3>1, <3>2, FirstsStayOffered
  <2>2. CASE step'[q] # "refused" /\ found[q] > 0
    <3> SUFFICES ASSUME NEW r \in Requests, UnderWay(r)', found'[r] > 0
                 PROVE  \/ Head(chosen[r]) \in Offered
                        \/ PatchedAway(Head(chosen[r]))'
                        \/ DeletedNextTo(r, Head(chosen[r]))'
      BY <1>1, <1>5 DEF FirstIsOffered, PatchedAway, DeletedNextTo
    <3>1. UnderWay(r) /\ found[r] > 0
      BY <1>1, <2>2 DEF UnderWay
    <3> QED
      BY <1>1, <1>4, <3>1 DEF FirstIsOffered, PatchedAway, DeletedNextTo, Stays
  <2> QED
    BY <1>7, <2>1, <2>2
<1>10. ReferencesCameLater'
  <2> DEFINE K == {k \in Keepers : at[k] = "unreferenced"}
  <2>1. K \in SUBSET Keepers /\ (\A k \in K : at[k] = "unreferenced" /\ task'[k].on = task[k].on)
        /\ \A k \in Keepers \ K : at'[k] # "unreferenced"
    BY <1>1
  <2> HIDE DEF K
  <2> QED
    BY <1>1, <1>4, <2>1, LaterReferencesStay
<1>11. HiddenIsExplained'
  BY <1>1, <1>4, <1>5, HiddenStaysExplained
<1> QED
  BY <1>3, <1>6, <1>8, <1>9, <1>10, <1>11

\* The only step that gives a ticket a reason.
LEMMA DecideBlockKeeps ==
    ASSUME IInv, RInv, Meet, NEW q \in Requests, DecideBlock(q)
    PROVE  RInv'
<1> USE DEF RInv
<1> DEFINE t == job[q].on
           first == Head(chosen[q])
<1>1. /\ UNCHANGED <<job, reasons, chosen, found, task, at>>
      /\ UnderWay(q) /\ step[q] = "checked" /\ step'[q] = "done"
      /\ \A r \in Requests \ {q} : step'[r] = step[r]
  BY DEF DecideBlock, Decide, Go, IInv, TypeOK, Procs, UnderWay
<1>2. /\ t \in Products
      /\ reference'[t] = first
      /\ \A p \in Products \ {t} : reference'[p] = reference[p]
      /\ DOMAIN reference' = Products
  BY <1>1 DEF DecideBlock, IInv, JobsNameTickets, ReasonShapes
<1>3. MetIsComplete' /\ met \subseteq met'
  BY MeetingsAreComplete
<1>4. Stays
  BY <1>1, <1>3 DEF Stays
<1>5. Offered' = Offered
  BY <1>1 DEF Offered
<1>6. ReasonShapes'
  BY <1>1, <1>2 DEF ReasonShapes
<1>7. LookUpsCount' /\ found[q] > 0
  BY <1>1 DEF LookUpsCount, UnderWay
<1>8. FirstIsOffered'
  <2>1. \A r \in Requests \ {q} :
          UnderWay(r)' => UnderWay(r) /\ found'[r] = found[r] /\ chosen'[r] = chosen[r]
    BY <1>1 DEF UnderWay
  <2>2. ~UnderWay(q)'
    BY <1>1 DEF UnderWay
  <2> QED
    BY <1>4, <1>5, <2>1, <2>2, FirstsStayOffered
<1>9. ReferencesCameLater'
  <2> SUFFICES ASSUME NEW k \in Keepers, NEW p \in Products,
                      at[k] = "unreferenced", reference'[p] = task[k].on
               PROVE  (\E r \in Requests : Gave(r, reference[p], p) /\ <<r, k>> \in met)'
    BY <1>1 DEF ReferencesCameLater
  <2>1. CASE p = t
    <3>1. <<q, k>> \in met
      BY <1>1 DEF MetIsComplete, Deleting, ReasonShapes
    <3>2. Gave(q, reference[p], p)'
      BY <1>1, <1>2, <2>1 DEF Gave
    <3> QED
      BY <1>3, <3>1, <3>2
  <2>2. CASE p # t
    <3>1. PICK r \in Requests : Gave(r, reference[p], p) /\ <<r, k>> \in met
      BY <1>2, <2>2 DEF ReferencesCameLater
    <3>2. Gave(r, reference[p], p)'
      BY <1>2, <1>4, <2>2, <3>1 DEF Gave, Stays
    <3> QED
      BY <1>3, <3>1, <3>2
  <2> QED
    BY <2>1, <2>2
<1>10. HiddenIsExplained'
  <2> SUFFICES ASSUME NEW p \in Products, reference'[p] \notin Offered \cup {Nobody}
               PROVE  Explained(reference[p], p)'
    BY <1>5 DEF HiddenIsExplained
  <2>1. CASE p = t
    <3>1. PICK i : i = first /\ i = reference'[p]
      BY <1>2, <2>1
    <3>2. PatchedAway(i) \/ DeletedNextTo(q, i)
      BY <1>1, <1>7, <3>1 DEF FirstIsOffered
    <3>3. PatchedAway(i)' \/ DeletedNextTo(q, i)'
      BY <1>4, <3>2 DEF PatchedAway, DeletedNextTo, Stays
    <3>4. Gave(q, i, p)'
      BY <1>1, <2>1, <3>1 DEF Gave
    <3>5. Explained(i, p)'
      BY <3>3, <3>4 DEF Explained
    <3> QED
      BY <3>1, <3>5 DEF Explained, PatchedAway, DeletedNextTo, Gave
  <2>2. CASE p # t
    <3>1. PICK i : i = reference[p] /\ i = reference'[p]
      BY <1>2, <2>2
    <3>2. Explained(i, p)
      BY <3>1 DEF HiddenIsExplained
    <3>3. Explained(i, p)'
      BY <1>4, <3>2, ExplanationsStay
    <3> QED
      BY <3>1, <3>3 DEF Explained, PatchedAway, DeletedNextTo, Gave
  <2> QED
    BY <2>1, <2>2
<1> QED
  BY <1>3, <1>6, <1>7, <1>8, <1>9, <1>10

-----------------------------------------------------------------------------
(* The catalogue. *)

\* What all its steps leave alone.
LEMMA KeeperFacts ==
    ASSUME RInv, Meet, UNCHANGED <<vars, reference, chosen, found>>, NEW k \in Keepers,
           at[k] # "done", \A j \in Keepers \ {k} : at'[j] = at[j] /\ task'[j] = task[j]
    PROVE  /\ Stays /\ MetIsComplete' /\ LookUpsCount'
           /\ \A r \in Requests : UnderWay(r)' = UnderWay(r)
<1>1. UNCHANGED <<step, job>>
  BY DEF vars, ticketVars
<1>2. MetIsComplete' /\ met \subseteq met'
  BY MeetingsAreComplete
<1>3. Stays
  BY <1>1, <1>2 DEF Stays
<1>4. LookUpsCount'
  BY <1>1 DEF RInv, LookUpsCount, UnderWay
<1> QED
  BY <1>1, <1>2, <1>3, <1>4 DEF UnderWay

\* Steps that hide no reason and end no search.
LEMMA MildKeeperKeeps ==
    ASSUME RInv, Meet, UNCHANGED <<vars, reference, chosen, found>>, ReasonShapes',
           Offered \subseteq Offered', NEW k \in Keepers,
           at[k] # "done", at'[k] # "unreferenced",
           \A j \in Keepers \ {k} : at'[j] = at[j] /\ task'[j] = task[j]
    PROVE  RInv'
<1>1. /\ Stays /\ MetIsComplete' /\ LookUpsCount'
      /\ \A r \in Requests : UnderWay(r)' = UnderWay(r)
  BY KeeperFacts
<1>2. FirstIsOffered'
  BY <1>1, FirstsStayOffered DEF RInv
<1>3. ReferencesCameLater'
  <2> DEFINE K == {j \in Keepers \ {k} : at[j] = "unreferenced"}
  <2>1. /\ K \in SUBSET Keepers
        /\ \A j \in K : at[j] = "unreferenced" /\ task'[j].on = task[j].on
        /\ \A j \in Keepers \ K : at'[j] # "unreferenced"
    OBVIOUS
  <2> HIDE DEF K
  <2> QED
    BY <1>1, <2>1, LaterReferencesStay DEF RInv
<1>4. HiddenIsExplained'
  BY <1>1, HiddenStaysExplained DEF RInv
<1> QED
  BY <1>1, <1>2, <1>3, <1>4 DEF RInv

LEMMA BeginKeeps ==
    ASSUME RInv, Meet, NEW k \in Keepers, BeginCreate(k) \/ BeginChange(k)
    PROVE  RInv'
<1>0. \E op \in {"create", "update", "delete"}, i \in Reasons, active \in BOOLEAN,
        to \in {"found", "refused"} :
          Ready(k, op, i, active, to)
  <2>1. CASE BeginCreate(k)
    <3>1. PICK i \in Reasons \ DOMAIN reasons :
              Ready(k, "create", i, TRUE, IF CodeIsTaken(i) THEN "refused" ELSE "found")
      BY <2>1 DEF BeginCreate
    <3>2. Ready(k, "create", i, TRUE, "refused") \/ Ready(k, "create", i, TRUE, "found")
      BY <3>1, Zenon
    <3> QED
      BY <3>2
  <2>2. CASE BeginChange(k)
    <3>1. PICK op \in {"update", "delete"}, i \in Reasons, active \in BOOLEAN :
              Ready(k, op, i, active, IF i \in DOMAIN reasons THEN "found" ELSE "refused")
      BY <2>2 DEF BeginChange
    <3>2. Ready(k, op, i, active, "refused") \/ Ready(k, op, i, active, "found")
      BY <3>1, Zenon
    <3> QED
      BY <3>2
  <2> QED
    BY <2>1, <2>2
<1>1. PICK op \in {"create", "update", "delete"}, i \in Reasons, active \in BOOLEAN,
        to \in {"found", "refused"} :
          Ready(k, op, i, active, to)
  BY <1>0
<1>2. ReasonShapes'
  BY <1>1 DEF RInv, ReasonShapes, Ready, Places
<1>3. Offered' = Offered
  BY <1>1 DEF Ready, Offered
<1> QED
  BY <1>1, <1>2, <1>3, MildKeeperKeeps DEF Ready, RInv, ReasonShapes

LEMMA InsertKeeps ==
    ASSUME RInv, Meet, NEW k \in Keepers, Insert(k)
    PROVE  RInv'
<1>1. reasons' \in [DOMAIN reasons' -> BOOLEAN] /\ Offered \subseteq Offered'
  <2>1. CASE reasons' = reasons
    BY <2>1 DEF RInv, ReasonShapes, Offered
  <2>2. CASE reasons' = [i \in DOMAIN reasons \cup {task[k].on} |-> i = task[k].on \/ reasons[i]]
    BY <2>2 DEF RInv, ReasonShapes, Offered
  <2> QED
    BY <2>1, <2>2 DEF Insert
<1>2. at' \in [Keepers -> Places] /\ at'[k] \in {"failed", "done"}
      /\ \A j \in Keepers \ {k} : at'[j] = at[j]
  BY DEF Insert, RInv, ReasonShapes, Places
<1>3. ReasonShapes'
  BY <1>1, <1>2 DEF Insert, RInv, ReasonShapes
<1> QED
  BY <1>1, <1>2, <1>3, MildKeeperKeeps DEF Insert

LEMMA FindReferencesKeeps ==
    ASSUME RInv, Meet, NEW k \in Keepers, FindReferences(k)
    PROVE  RInv'
<1>1. /\ at' \in [Keepers -> Places] /\ at[k] = "found" /\ task[k].op = "delete"
      /\ \A j \in Keepers \ {k} : at'[j] = at[j]
      /\ UNCHANGED <<vars, reasons, reference, chosen, found, task>>
      /\ at'[k] = "unreferenced" => \A p \in Products : reference[p] # task[k].on
  BY DEF FindReferences, RInv, ReasonShapes, Places
<1>2. /\ Stays /\ MetIsComplete' /\ LookUpsCount'
      /\ \A r \in Requests : UnderWay(r)' = UnderWay(r)
  BY <1>1, KeeperFacts
<1>3. Offered' = Offered
  BY <1>1 DEF Offered
<1>4. ReasonShapes'
  BY <1>1 DEF RInv, ReasonShapes
<1>5. FirstIsOffered'
  BY <1>1, <1>2, <1>3, FirstsStayOffered DEF RInv
<1>6. ReferencesCameLater'
  <2> SUFFICES ASSUME NEW j \in Keepers, NEW p \in Products,
                      at'[j] = "unreferenced", reference[p] = task[j].on
               PROVE  (\E r \in Requests : Gave(r, reference[p], p) /\ <<r, j>> \in met)'
    BY <1>1 DEF ReferencesCameLater
  <2>1. j # k /\ at[j] = "unreferenced"
    BY <1>1
  <2>2. PICK r \in Requests : Gave(r, reference[p], p) /\ <<r, j>> \in met
    BY <2>1 DEF RInv, ReferencesCameLater
  <2>3. Gave(r, reference[p], p)'
    BY <1>1, <1>2, <2>2 DEF Gave, Stays
  <2> QED
    BY <1>2, <2>2, <2>3 DEF Stays
<1>7. HiddenIsExplained'
  BY <1>1, <1>2, <1>3, HiddenStaysExplained DEF RInv
<1> QED
  BY <1>2, <1>4, <1>5, <1>6, <1>7 DEF RInv

\* The only step that hides a reason.
LEMMA SetActiveKeeps ==
    ASSUME RInv, Meet, NEW k \in Keepers, SetActive(k)
    PROVE  RInv'
<1>0. PICK i : i = task[k].on
  OBVIOUS
<1>1. /\ at' = [at EXCEPT ![k] = "done"]
      /\ reasons' = [reasons EXCEPT ![i] = task[k].active]
      /\ UNCHANGED <<vars, reference, chosen, found, task>>
      /\ \/ at[k] = "found" /\ task[k].op = "update"
         \/ at[k] = "unreferenced" /\ task[k].op = "delete"
  BY <1>0 DEF SetActive
<1>2. /\ Stays /\ MetIsComplete' /\ LookUpsCount'
      /\ \A r \in Requests : UnderWay(r)' = UnderWay(r)
  BY <1>1, KeeperFacts DEF RInv, ReasonShapes
<1>3. Offered \ {i} \subseteq Offered' /\ ReasonShapes'
  <2>1. task[k].active \in BOOLEAN /\ reasons' \in [DOMAIN reasons' -> BOOLEAN]
    BY <1>1 DEF RInv, ReasonShapes
  <2>2. ReasonShapes'
    BY <1>1, <2>1 DEF RInv, ReasonShapes, Places
  <2> QED
    BY <1>0, <1>1, <2>2 DEF RInv, ReasonShapes, Offered
<1>4. at'[k] = "done" /\ \A j \in Keepers \ {k} : at'[j] = at[j]
  BY <1>1 DEF RInv, ReasonShapes
<1>5. CASE Offered \subseteq Offered'
  <2>1. at[k] # "done" /\ at'[k] # "unreferenced"
    BY <1>1, <1>4
  <2> QED
    BY <1>1, <1>3, <1>4, <1>5, <2>1, MildKeeperKeeps
<1>6. CASE i \in Offered /\ i \notin Offered'
  <2>1. ~task[k].active
    BY <1>1, <1>6 DEF RInv, ReasonShapes, Offered
  <2>2. task[k].op = "update" => PatchedAway(i)'
    BY <1>0, <1>1, <1>4, <2>1 DEF PatchedAway
  <2>3. \A r \in Requests : task[k].op = "delete" /\ <<r, k>> \in met => DeletedNextTo(r, i)'
    BY <1>0, <1>1, <1>2, <1>4 DEF DeletedNextTo, Stays
  <2>4. FirstIsOffered'
    <3> SUFFICES ASSUME NEW r \in Requests, UnderWay(r), found[r] > 0
                 PROVE  \/ Head(chosen[r]) \in Offered'
                        \/ PatchedAway(Head(chosen[r]))'
                        \/ DeletedNextTo(r, Head(chosen[r]))'
      BY <1>1, <1>2 DEF FirstIsOffered, PatchedAway, DeletedNextTo
    <3>0. PICK h : h = Head(chosen[r])
      OBVIOUS
    <3>1. h \in Offered \/ PatchedAway(h) \/ DeletedNextTo(r, h)
      BY <3>0 DEF RInv, FirstIsOffered
    <3>2. CASE h = i
      <4>1. task[k].op = "delete" => <<r, k>> \in met
        BY <1>1 DEF RInv, MetIsComplete, Deleting
      <4>2. PatchedAway(i)' \/ DeletedNextTo(r, i)'
        BY <1>1, <2>2, <2>3, <4>1
      <4> QED
        BY <1>1, <3>0, <3>2, <4>2 DEF PatchedAway, DeletedNextTo
    <3>3. CASE h # i
      <4>1. h \in Offered' \/ PatchedAway(h)' \/ DeletedNextTo(r, h)'
        BY <1>2, <1>3, <3>1, <3>3 DEF PatchedAway, DeletedNextTo, Stays
      <4> QED
        BY <1>1, <3>0, <4>1 DEF PatchedAway, DeletedNextTo
    <3> QED
      BY <3>2, <3>3
  <2>5. ReferencesCameLater'
    <3> DEFINE K == {j \in Keepers \ {k} : at[j] = "unreferenced"}
    <3>1. /\ K \in SUBSET Keepers
          /\ \A j \in K : at[j] = "unreferenced" /\ task'[j].on = task[j].on
          /\ \A j \in Keepers \ K : at'[j] # "unreferenced"
      BY <1>1, <1>4
    <3> HIDE DEF K
    <3> QED
      BY <1>1, <1>2, <3>1, LaterReferencesStay DEF RInv
  <2>6. HiddenIsExplained'
    <3> SUFFICES ASSUME NEW p \in Products, reference[p] \notin Offered' \cup {Nobody}
                 PROVE  Explained(reference[p], p)'
      BY <1>1 DEF HiddenIsExplained
    <3>0. PICK h : h = reference[p]
      OBVIOUS
    <3>1. CASE h = i
      <4>1. ASSUME task[k].op = "update" PROVE Explained(h, p)'
        BY <2>2, <3>1, <4>1 DEF Explained
      <4>2. ASSUME task[k].op = "delete" PROVE Explained(h, p)'
        <5>1. PICK r \in Requests : Gave(r, reference[p], p) /\ <<r, k>> \in met
          BY <1>0, <1>1, <3>0, <3>1, <4>2 DEF RInv, ReferencesCameLater
        <5>2. Gave(r, h, p)'
          BY <1>2, <3>0, <5>1 DEF Gave, Stays
        <5> QED
          BY <2>3, <3>1, <4>2, <5>1, <5>2 DEF Explained
      <4>3. Explained(h, p)'
        BY <1>1, <4>1, <4>2
      <4> QED
        BY <1>1, <3>0, <4>3 DEF Explained, PatchedAway, DeletedNextTo, Gave
    <3>2. CASE h # i
      <4>1. Explained(h, p)
        BY <1>3, <3>0, <3>2 DEF RInv, HiddenIsExplained
      <4>2. Explained(h, p)'
        BY <1>2, <4>1, ExplanationsStay
      <4> QED
        BY <1>1, <3>0, <4>2 DEF Explained, PatchedAway, DeletedNextTo, Gave
    <3> QED
      BY <3>1, <3>2
  <2> QED
    BY <1>2, <1>3, <2>4, <2>5, <2>6 DEF RInv
<1> QED
  BY <1>3, <1>5, <1>6

-----------------------------------------------------------------------------
(* The result. *)

LEMMA InitRInv == ReasonsInit => RInv
<1> SUFFICES ASSUME ReasonsInit PROVE RInv
  OBVIOUS
<1>1. ReasonShapes
  BY DEF ReasonsInit, ReasonShapes, Places
<1>2. LookUpsCount /\ MetIsComplete /\ FirstIsOffered
  BY DEF ReasonsInit, Init, TicketInit, LookUpsCount, MetIsComplete, FirstIsOffered, UnderWay, Procs
<1>3. ReferencesCameLater /\ HiddenIsExplained
  BY DEF ReasonsInit, ReferencesCameLater, HiddenIsExplained
<1> QED
  BY <1>1, <1>2, <1>3 DEF RInv

LEMMA StepKeepsRInv == IInv /\ RInv /\ [ReasonsNext]_allVars => RInv'
<1> SUFFICES ASSUME IInv, RInv, [ReasonsNext]_allVars PROVE RInv'
  OBVIOUS
<1>0. TypeOK
  BY DEF IInv
<1>1. CASE ReasonsNext
  <2>1. Meet
    BY <1>1 DEF ReasonsNext
  <2>2. CASE OtherTicketStep
    BY <1>0, <2>1, <2>2, OtherTicketStepKeeps
  <2>3. CASE \E r \in Requests, m \in Moderators, p \in Products : StartBlock(r, m, p)
    BY <1>0, <2>1, <2>3, StartBlockKeeps
  <2>4. CASE \E r \in Requests : LookUp(r) \/ DecideBlock(r)
    BY <1>0, <2>1, <2>4, LookUpKeeps, DecideBlockKeeps
  <2>5. CASE \E k \in Keepers :
               BeginCreate(k) \/ Insert(k) \/ BeginChange(k) \/ FindReferences(k) \/ SetActive(k)
    BY <2>1, <2>5, BeginKeeps, InsertKeeps, FindReferencesKeeps, SetActiveKeeps
  <2> QED
    BY <1>1, <2>2, <2>3, <2>4, <2>5 DEF ReasonsNext
<1>2. CASE UNCHANGED allVars
  <2> USE <1>2 DEF allVars, vars, ticketVars, reasonVars, RInv
  <2>1. ReasonShapes'
    BY DEF ReasonShapes
  <2>2. LookUpsCount' /\ MetIsComplete'
    BY DEF LookUpsCount, MetIsComplete, UnderWay, Deleting
  <2>3. FirstIsOffered'
    BY DEF FirstIsOffered, UnderWay, Offered, PatchedAway, DeletedNextTo
  <2>4. ReferencesCameLater'
    BY DEF ReferencesCameLater, Gave
  <2>5. HiddenIsExplained'
    BY DEF HiddenIsExplained, Explained, Gave, Offered, PatchedAway, DeletedNextTo
  <2> QED
    BY <2>1, <2>2, <2>3, <2>4, <2>5
<1> QED
  BY <1>1, <1>2

\* However many blocks, DELETEs and PATCHes run at once: the look-ups of a
\* block and the search of a DELETE miss each other only if both are under way.
THEOREM HiddenReasonsWereRaced == ReasonsSpec => []HiddenReasonWasRaced
<1>1. ASSUME RInv PROVE HiddenReasonWasRaced
  <2> SUFFICES ASSUME NEW p \in Products, reference[p] \notin Offered \cup {Nobody}
               PROVE  \E k \in Keepers :
                        /\ at[k] = "done" /\ task[k].on = reference[p]
                        /\ \/ task[k].op = "update" /\ ~task[k].active
                           \/ /\ task[k].op = "delete"
                              /\ \E r \in Requests :
                                    /\ <<r, k>> \in met
                                    /\ job[r].on = p /\ step[r] = "done"
                                    /\ Head(chosen[r]) = reference[p]
    BY DEF HiddenReasonWasRaced
  <2>1. Explained(reference[p], p)
    BY <1>1 DEF RInv, HiddenIsExplained
  <2>2. CASE PatchedAway(reference[p])
    BY <2>2 DEF PatchedAway
  <2>3. CASE \E r \in Requests : Gave(r, reference[p], p) /\ DeletedNextTo(r, reference[p])
    <3>1. PICK r \in Requests : Gave(r, reference[p], p) /\ DeletedNextTo(r, reference[p])
      BY <2>3
    <3> QED
      BY <3>1 DEF Gave, DeletedNextTo
  <2> QED
    BY <2>1, <2>2, <2>3 DEF Explained
<1>2. RInv => HiddenReasonWasRaced
  BY <1>1
<1> QED
  BY <1>2, InitRInv, StepKeepsRInv, ReasonsRefineTickets, AlwaysIInv, PTL DEF ReasonsSpec
=============================================================================
