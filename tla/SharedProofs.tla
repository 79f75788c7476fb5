---------------------------- MODULE SharedProofs ----------------------------
(***************************************************************************)
(* Proofs about what the services share: Inbox, for any number of          *)
(* deliveries, keys and connections, Outbox, for any number of rows and    *)
(* workers, any batch size and any number of retries, and Sessions, for    *)
(* any number of requests and accounts.                                    *)
(***************************************************************************)
EXTENDS Inbox, Outbox, Sessions, TLAPS

-----------------------------------------------------------------------------
(* Inbox. *)

\* An uncommitted record is the only one of its key.
PendingIsUnique ==
    \A d \in Deliveries : step[d] = "flushed" =>
        /\ key[d] \notin inbox
        /\ \A e \in Deliveries : step[e] = "flushed" /\ key[e] = key[d] => e = d

\* Where the handler commits by itself, it has before its key is recorded.
RanIsApplied ==
    \A d \in Deliveries :
        Own(d) /\ step[d] \in {"applied", "flushed"} => applied[key[d]] > 0

IInv ==
    /\ TypeOK
    /\ PendingIsUnique
    /\ RanIsApplied
    /\ AppliedWithRecord
    /\ RecordedIsApplied

LEMMA InitIInv == Init => IInv
BY DEF Init, IInv, Own, TypeOK, Steps, PendingIsUnique, RanIsApplied,
       AppliedWithRecord, RecordedIsApplied

\* Only Flush opens a record and only Commit closes one.
LEMMA FlushKeeps ==
    ASSUME IInv, NEW f \in Deliveries, Flush(f)
    PROVE  IInv'
<1> USE DEF IInv, Flush, Go, Own
<1>1. TypeOK'
  BY DEF TypeOK, Steps
<1>2. PendingIsUnique'
  BY DEF TypeOK, PendingIsUnique
<1>3. RanIsApplied' /\ AppliedWithRecord' /\ RecordedIsApplied'
  BY DEF TypeOK, RanIsApplied, AppliedWithRecord, RecordedIsApplied
<1> QED
  BY <1>1, <1>2, <1>3

LEMMA CommitKeeps ==
    ASSUME IInv, NEW f \in Deliveries, Commit(f)
    PROVE  IInv'
<1> USE DEF IInv, Commit, Go, Own
<1>0. /\ key[f] \in Keys /\ key[f] \notin inbox
      /\ \A k \in Keys : applied[k] \in Nat
      /\ \A d \in Deliveries : step'[d] = IF d = f THEN "done" ELSE step[d]
  BY DEF TypeOK, PendingIsUnique
<1>1. TypeOK'
  <2>1. applied' \in [Keys -> Nat]
    <3>1. CASE Own(f)
      BY <3>1 DEF TypeOK
    <3>2. CASE ~Own(f)
      BY <3>2 DEF TypeOK
    <3> QED
      BY <3>1, <3>2
  <2> QED
    BY <1>0, <2>1 DEF TypeOK, Steps
<1>2. PendingIsUnique'
  BY <1>0 DEF PendingIsUnique
<1>3. CASE Own(f)
  <2>1. applied' = applied
    BY <1>3
  <2> QED
    BY <1>0, <1>1, <1>2, <1>3, <2>1 DEF RanIsApplied, AppliedWithRecord, RecordedIsApplied
<1>4. CASE ~Own(f)
  <2>1. applied' = [applied EXCEPT ![key[f]] = @ + 1]
    BY <1>4
  <2>2. AppliedWithRecord'
    BY <1>0, <1>4, <2>1 DEF TypeOK, AppliedWithRecord
  <2>3. RecordedIsApplied'
    BY <1>0, <2>1 DEF TypeOK, RecordedIsApplied
  <2> QED
    BY <1>1, <1>2, <1>4, <2>2, <2>3 DEF RanIsApplied, AppliedWithRecord
<1> QED
  BY <1>3, <1>4

LEMMA EndHandlerKeeps ==
    ASSUME IInv, NEW f \in Deliveries, EndHandler(f)
    PROVE  IInv'
<1> USE DEF IInv, EndHandler, Go, Own
<1>0. /\ key[f] \in Keys
      /\ \A k \in Keys : applied[k] \in Nat
      /\ \A d \in Deliveries : step'[d] = IF d = f THEN "applied" ELSE step[d]
  BY DEF TypeOK
<1>1. PendingIsUnique'
  BY <1>0 DEF PendingIsUnique
<1>2. CASE Own(f)
  <2>1. applied' = [applied EXCEPT ![key[f]] = @ + 1]
    BY <1>2
  <2>2. TypeOK'
    BY <2>1 DEF TypeOK, Steps
  <2>3. RanIsApplied'
    BY <1>0, <2>1 DEF TypeOK, RanIsApplied
  <2>4. RecordedIsApplied'
    BY <1>0, <2>1 DEF TypeOK, RecordedIsApplied
  <2> QED
    BY <1>1, <1>2, <2>2, <2>3, <2>4 DEF AppliedWithRecord
<1>3. CASE ~Own(f)
  <2>1. applied' = applied
    BY <1>3
  <2>2. TypeOK'
    BY <2>1 DEF TypeOK, Steps
  <2> QED
    BY <1>1, <1>3, <2>1, <2>2 DEF RanIsApplied, AppliedWithRecord, RecordedIsApplied
<1> QED
  BY <1>2, <1>3

\* The other steps move one delivery, to a step that promises nothing.
LEMMA MoveKeeps ==
    ASSUME IInv, NEW f \in Deliveries,
           NEW to \in {"arrived", "replayed", "handling", "applying", "failed", "crashed"},
           Go(f, to), UNCHANGED <<inbox, applied, key>>
    PROVE  IInv'
<1> USE DEF IInv, Go, Own
<1>0. \A d \in Deliveries : step'[d] = IF d = f THEN to ELSE step[d]
  BY DEF TypeOK
<1>1. TypeOK'
  BY DEF TypeOK, Steps
<1>2. PendingIsUnique' /\ RanIsApplied'
  BY <1>0 DEF PendingIsUnique, RanIsApplied
<1>3. AppliedWithRecord' /\ RecordedIsApplied'
  BY DEF AppliedWithRecord, RecordedIsApplied
<1> QED
  BY <1>1, <1>2, <1>3

LEMMA StepKeepsIInv == IInv /\ [Next]_vars => IInv'
<1> SUFFICES ASSUME IInv, [Next]_vars PROVE IInv'
  OBVIOUS
<1>1. CASE Next
  <2>1. PICK d \in Deliveries : Arrive(d) \/ Proceed(d) \/ Crash(d)
    BY <1>1 DEF Next
  <2>2. CASE Arrive(d) \/ LookUp(d) \/ BeginHandler(d) \/ PoolTimeout(d) \/ Crash(d)
    BY <2>2, MoveKeeps DEF Arrive, LookUp, BeginHandler, PoolTimeout, Crash
  <2>3. CASE EndHandler(d) \/ Flush(d) \/ Commit(d)
    BY <2>3, EndHandlerKeeps, FlushKeeps, CommitKeeps
  <2> QED
    BY <2>1, <2>2, <2>3 DEF Proceed
<1>2. CASE UNCHANGED vars
  BY <1>2 DEF vars, IInv, Own, TypeOK, PendingIsUnique, RanIsApplied,
              AppliedWithRecord, RecordedIsApplied
<1> QED
  BY <1>1, <1>2

LEMMA AlwaysIInv == Spec => []IInv
BY InitIInv, StepKeepsIInv, PTL DEF Spec

-----------------------------------------------------------------------------
(* The results. *)

\* Deliveries, keys, records and the pool keep their types.
THEOREM TypeCorrect == Spec => []TypeOK
<1>1. IInv => TypeOK
  BY DEF IInv
<1> QED
  BY <1>1, AlwaysIInv, PTL

\* What the inbox answers from the record has taken effect, in both services.
THEOREM RecordsAreTrue == Spec => []RecordedIsApplied
<1>1. IInv => RecordedIsApplied
  BY DEF IInv
<1> QED
  BY <1>1, AlwaysIInv, PTL

\* Where the handler writes through the inbox's session, as in B2C, an event
\* takes effect exactly with its record: at most once, and never without it.
THEOREM OneSessionIsExactlyOnce == Spec => []AppliedWithRecord
<1>1. IInv => AppliedWithRecord
  BY DEF IInv
<1> QED
  BY <1>1, AlwaysIInv, PTL

-----------------------------------------------------------------------------
(* Own transactions: how often an event is applied. *)

Past(d) == step[d] \in {"applied", "flushed", "done", "failed", "crashed"}

\* Whoever is done left the one record of its key.
DoneIsUnique ==
    \A d \in Deliveries : step[d] = "done" =>
        /\ key[d] \in inbox
        /\ \A e \in Deliveries : step[e] = "done" /\ key[e] = key[d] => e = d

\* Every application beyond the first takes a delivery of its own, as far as the
\* property needs to count.
EffectsHaveRuns ==
    \A k \in OwnTransactions :
        /\ applied[k] > 0 => \E d \in Deliveries : key[d] = k /\ Past(d)
        /\ applied[k] > 1 => \E d, e \in Deliveries :
                                d # e /\ key[d] = k /\ key[e] = k /\ Past(d) /\ Past(e)

RunInv == DoneIsUnique /\ EffectsHaveRuns

LEMMA InitRunInv == Init => RunInv
BY InboxAssumption DEF Init, RunInv, DoneIsUnique, EffectsHaveRuns

\* Who is past the handler stays so, and the only step that applies an event
\* brings another delivery past it.
LEMMA StepKeepsRunInv ==
    ASSUME IInv, RunInv, [Next]_vars
    PROVE  RunInv'
<1> USE DEF Go, Own
<1>0. key' = key /\ \A d \in Deliveries : Past(d) => Past(d)'
  BY DEF IInv, TypeOK, Next, Proceed, Arrive, LookUp, BeginHandler, EndHandler, Flush, Commit,
         PoolTimeout, Crash, Past, Answered, vars
<1>1. CASE \E d \in Deliveries : EndHandler(d)
  <2>1. PICK f \in Deliveries : EndHandler(f)
    BY <1>1
  <2>2. DoneIsUnique'
    BY <2>1 DEF EndHandler, IInv, TypeOK, RunInv, DoneIsUnique
  <2>3. Past(f)' /\ ~Past(f)
    BY <2>1 DEF EndHandler, IInv, TypeOK, Past
  <2>4. ASSUME NEW k \in OwnTransactions, k = key[f] PROVE applied'[k] = applied[k] + 1
    BY <2>1, <2>4 DEF EndHandler, IInv, TypeOK
  <2>5. ASSUME NEW k \in OwnTransactions, k # key[f] PROVE applied'[k] = applied[k]
    BY <2>1, <2>5 DEF EndHandler, IInv, TypeOK
  <2>6. ASSUME NEW k \in OwnTransactions, applied'[k] > 0
        PROVE  \E d \in Deliveries : key[d] = k /\ Past(d)'
    BY <1>0, <2>3, <2>5, <2>6 DEF RunInv, EffectsHaveRuns
  <2>7. ASSUME NEW k \in OwnTransactions, applied'[k] > 1
        PROVE  \E d, e \in Deliveries : d # e /\ key[d] = k /\ key[e] = k /\ Past(d)' /\ Past(e)'
    <3>1. CASE k = key[f]
      <4>1. applied[k] \in Nat
        BY InboxAssumption DEF IInv, TypeOK
      <4>2. applied[k] > 0
        BY <2>4, <2>7, <3>1, <4>1
      <4>3. PICK d \in Deliveries : key[d] = k /\ Past(d)
        BY <4>2 DEF RunInv, EffectsHaveRuns
      <4>4. d # f
        BY <2>3, <4>3
      <4> QED
        BY <1>0, <2>3, <3>1, <4>3, <4>4
    <3>2. CASE k # key[f]
      BY <1>0, <2>5, <2>7, <3>2 DEF RunInv, EffectsHaveRuns
    <3> QED
      BY <3>1, <3>2
  <2>8. EffectsHaveRuns'
    BY <1>0, <2>6, <2>7 DEF EffectsHaveRuns
  <2> QED
    BY <2>2, <2>8 DEF RunInv
<1>2. CASE ~\E d \in Deliveries : EndHandler(d)
  <2>1. \A k \in OwnTransactions : applied'[k] = applied[k]
    <3>1. CASE \E d \in Deliveries : Commit(d)
      <4>1. PICK f \in Deliveries : Commit(f)
        BY <3>1
      <4>2. CASE Own(f)
        BY <4>1, <4>2 DEF Commit
      <4>3. CASE ~Own(f)
        <5>1. applied' = [applied EXCEPT ![key[f]] = @ + 1]
          BY <4>1, <4>3 DEF Commit
        <5> QED
          BY <4>3, <5>1, InboxAssumption DEF IInv, TypeOK
      <4> QED
        BY <4>2, <4>3
    <3>2. CASE ~\E d \in Deliveries : Commit(d)
      <4>1. applied' = applied
        BY <1>2, <3>2 DEF Next, Proceed, Arrive, LookUp, BeginHandler, Flush, PoolTimeout, Crash, vars
      <4> QED
        BY <4>1
    <3> QED
      BY <3>1, <3>2
  <2>2. EffectsHaveRuns'
    BY <1>0, <2>1 DEF RunInv, EffectsHaveRuns
  <2>3. CASE \E d \in Deliveries : Commit(d)
    <3>1. PICK f \in Deliveries : Commit(f)
      BY <2>3
    <3> QED
      BY <2>2, <3>1 DEF Commit, IInv, TypeOK, PendingIsUnique, RunInv, DoneIsUnique
  <2>4. CASE ~\E d \in Deliveries : Commit(d)
    <3>1. inbox' = inbox /\ \A d \in Deliveries : step'[d] = "done" => step[d] = "done"
      BY <1>2, <2>4 DEF IInv, TypeOK, Next, Proceed, Arrive, LookUp, BeginHandler, Flush,
                        PoolTimeout, Crash, vars
    <3> QED
      BY <1>0, <2>2, <3>1 DEF RunInv, DoneIsUnique
  <2> QED
    BY <2>3, <2>4
<1> QED
  BY <1>1, <1>2

\* Where the handler commits by itself, as in B2B, an event is applied twice
\* only if a delivery that ran it was refused, failed or died, or is not over:
\* of those that end well there is one.
THEOREM CleanRunsCount == Spec => []CleanRunsApplyOnce
<1>1. IInv /\ RunInv => CleanRunsApplyOnce
  <2> SUFFICES ASSUME IInv, RunInv, NEW k \in Keys, applied[k] > 1,
                      \A d \in Deliveries :
                         key[d] = k => step[d] \in {"idle", "arrived", "replayed", "done"}
               PROVE  FALSE
    BY DEF CleanRunsApplyOnce, IInv, TypeOK
  <2>1. k \in OwnTransactions
    BY DEF IInv, AppliedWithRecord
  <2>2. PICK d, e \in Deliveries : d # e /\ key[d] = k /\ key[e] = k /\ Past(d) /\ Past(e)
    BY <2>1 DEF RunInv, EffectsHaveRuns
  <2>3. step[d] = "done" /\ step[e] = "done"
    BY <2>2 DEF Past
  <2> QED
    BY <2>2, <2>3 DEF RunInv, DoneIsUnique
<1>2. IInv /\ RunInv /\ [Next]_vars => RunInv'
  BY StepKeepsRunInv
<1> QED
  BY <1>1, <1>2, InitRunInv, AlwaysIInv, PTL DEF Spec

-----------------------------------------------------------------------------
(* Outbox. *)

\* Only a tick has rows in hand; those it sent are marked and those it has to
\* send are not; all of them are PENDING.
HandsInOrder ==
    \A w \in Workers, e \in Rows :
        /\ at[w] # "ticking" => batch[w] = {} /\ marks[w][e] = "none"
        /\ e \in batch[w] => marks[w][e] = "none"
        /\ e \in batch[w] \/ marks[w][e] # "none" => row[e].status = "PENDING"

\* Every retry the table shows, and every failure mark, is a delivery that
\* failed; a mark is FAILED exactly when it is the last one's.
FailuresAreCounted ==
    /\ \A e \in Rows : tries[e] >= row[e].retries
    /\ \A w \in Workers, e \in Rows :
          /\ marks[w][e] \in {"retry", "FAILED"} => tries[e] >= row[e].retries + 1
          /\ marks[w][e] = "retry" => row[e].retries + 1 < MaxRetries
          /\ marks[w][e] = "FAILED" => row[e].retries + 1 >= MaxRetries

OutboxIInv ==
    /\ OutboxTypeOK
    /\ HandsInOrder
    /\ FailuresAreCounted
    /\ OneWorkerPerRow
    /\ ReceivedIsAccountedFor
    /\ GivenUpAfterRetries

\* One row is in one worker's hands, said row by row.
LEMMA InOneHand ==
    ASSUME OutboxIInv, NEW v \in Workers, NEW w \in Workers, v # w, NEW e \in Rows,
           e \in batch[v] \/ marks[v][e] # "none"
    PROVE  e \notin batch[w] /\ marks[w][e] = "none"
BY DEF OutboxIInv, OneWorkerPerRow, Holds

-----------------------------------------------------------------------------
LEMMA OutboxInitIInv == OutboxInit => OutboxIInv
<1> SUFFICES ASSUME OutboxInit PROVE OutboxIInv
  OBVIOUS
<1>1. OutboxTypeOK
  BY OutboxAssumption DEF OutboxInit, OutboxTypeOK, Marks
<1>2. HandsInOrder /\ FailuresAreCounted /\ OneWorkerPerRow /\ GivenUpAfterRetries
  BY DEF OutboxInit, HandsInOrder, FailuresAreCounted, OneWorkerPerRow, Holds, GivenUpAfterRetries
<1>3. ReceivedIsAccountedFor
  BY DEF OutboxInit, ReceivedIsAccountedFor, Accounted
<1> QED
  BY <1>1, <1>2, <1>3 DEF OutboxIInv

\* A use-case inserts a row.
LEMMA EnqueueKeeps ==
    ASSUME OutboxIInv, NEW f \in Rows, Enqueue(f)
    PROVE  OutboxIInv'
<1> USE DEF OutboxIInv, Enqueue
<1>1. OutboxTypeOK'
  BY DEF OutboxTypeOK
<1>2. HandsInOrder'
  BY DEF OutboxTypeOK, HandsInOrder
<1>3. FailuresAreCounted'
  BY DEF OutboxTypeOK, FailuresAreCounted
<1>4. OneWorkerPerRow'
  BY DEF OneWorkerPerRow, Holds
<1>5. ReceivedIsAccountedFor'
  BY DEF OutboxTypeOK, ReceivedIsAccountedFor, Accounted
<1>6. GivenUpAfterRetries'
  BY DEF OutboxTypeOK, GivenUpAfterRetries
<1> QED
  BY <1>1, <1>2, <1>3, <1>4, <1>5, <1>6

\* The backoff of a row ends.
LEMMA BecomeDueKeeps ==
    ASSUME OutboxIInv, NEW f \in Rows, BecomeDue(f)
    PROVE  OutboxIInv'
<1> USE DEF OutboxIInv, BecomeDue
<1>1. OutboxTypeOK'
  BY DEF OutboxTypeOK
<1>2. HandsInOrder'
  BY DEF OutboxTypeOK, HandsInOrder
<1>3. FailuresAreCounted'
  BY DEF OutboxTypeOK, FailuresAreCounted
<1>4. OneWorkerPerRow'
  BY DEF OneWorkerPerRow, Holds
<1>5. ReceivedIsAccountedFor'
  BY DEF OutboxTypeOK, ReceivedIsAccountedFor, Accounted
<1>6. GivenUpAfterRetries'
  BY DEF OutboxTypeOK, GivenUpAfterRetries
<1> QED
  BY <1>1, <1>2, <1>3, <1>4, <1>5, <1>6

\* SKIP LOCKED: what is claimed was in nobody's hands.
LEMMA ClaimKeeps ==
    ASSUME OutboxIInv, NEW u \in Workers, NEW B \in SUBSET Rows, Claim(u, B)
    PROVE  OutboxIInv'
<1> USE DEF OutboxIInv, Claim
<1>0. \A e \in B, w \in Workers : row[e].status = "PENDING" /\ e \notin Holds(w)
  BY DEF Claimable, Locked
<1>1. OutboxTypeOK'
  BY DEF OutboxTypeOK
<1>2. HandsInOrder'
  BY <1>0 DEF OutboxTypeOK, HandsInOrder, Holds
<1>3. FailuresAreCounted'
  BY DEF FailuresAreCounted
<1>4. OneWorkerPerRow'
  BY <1>0 DEF OutboxTypeOK, HandsInOrder, OneWorkerPerRow, Holds
<1>5. ReceivedIsAccountedFor'
  BY DEF ReceivedIsAccountedFor, Accounted
<1>6. GivenUpAfterRetries'
  BY DEF GivenUpAfterRetries
<1> QED
  BY <1>1, <1>2, <1>3, <1>4, <1>5, <1>6

\* A delivery that returns is received once and marked once.
LEMMA SendOkKeeps ==
    ASSUME OutboxIInv, NEW u \in Workers, NEW f \in Rows, SendOk(u, f)
    PROVE  OutboxIInv'
<1> USE DEF OutboxIInv, SendOk
<1>1. OutboxTypeOK'
  BY DEF OutboxTypeOK, Marks
<1>2. HandsInOrder'
  BY DEF OutboxTypeOK, HandsInOrder
<1>3. FailuresAreCounted'
  BY DEF OutboxTypeOK, FailuresAreCounted
<1>4. OneWorkerPerRow'
  BY DEF OutboxTypeOK, OneWorkerPerRow, Holds
<1>5. ReceivedIsAccountedFor'
  <2> SUFFICES ASSUME NEW e \in Rows
               PROVE  received'[e] = disturbed'[e] + (IF Accounted(e)' THEN 1 ELSE 0)
    BY DEF ReceivedIsAccountedFor
  <2>1. CASE e = f
    <3>1. ~Accounted(f)
      BY InOneHand DEF HandsInOrder, Accounted
    <3>2. Accounted(f)'
      BY DEF OutboxTypeOK, Accounted
    <3> QED
      BY <2>1, <3>1, <3>2 DEF OutboxTypeOK, ReceivedIsAccountedFor
  <2>2. CASE e # f
    <3>1. Accounted(e)' <=> Accounted(e)
      BY <2>2 DEF OutboxTypeOK, Accounted
    <3> QED
      BY <2>2, <3>1 DEF OutboxTypeOK, ReceivedIsAccountedFor
  <2> QED
    BY <2>1, <2>2
<1>6. GivenUpAfterRetries'
  BY DEF GivenUpAfterRetries
<1> QED
  BY <1>1, <1>2, <1>3, <1>4, <1>5, <1>6

\* A delivery that raises is counted, received or not.
LEMMA SendFailsKeeps ==
    ASSUME OutboxIInv, NEW u \in Workers, NEW f \in Rows, NEW late \in BOOLEAN, SendFails(u, f, late)
    PROVE  OutboxIInv'
<1> USE DEF OutboxIInv, SendFails
<1>0. /\ marks[u][f] = "none" /\ row[f].status = "PENDING"
      /\ row[f].retries \in Nat /\ tries[f] \in Nat /\ tries[f] >= row[f].retries
  BY OutboxAssumption DEF OutboxTypeOK, HandsInOrder, FailuresAreCounted
<1>1. OutboxTypeOK'
  <2>1. MarkFailure(f) \in Marks
    BY DEF Marks, MarkFailure
  <2>2. marks' \in [Workers -> [Rows -> Marks]]
    BY <2>1 DEF OutboxTypeOK
  <2>3. received' \in [Rows -> Nat] /\ disturbed' \in [Rows -> Nat]
    <3>1. CASE late
      <4>1. /\ received' = [received EXCEPT ![f] = @ + 1]
            /\ disturbed' = [disturbed EXCEPT ![f] = @ + 1]
        BY <3>1, Zenon
      <4> HIDE DEF SendFails
      <4> QED
        BY <4>1 DEF OutboxTypeOK
    <3>2. CASE ~late
      BY <3>2 DEF OutboxTypeOK
    <3> QED
      BY <3>1, <3>2
  <2>4. batch' \in [Workers -> SUBSET Rows] /\ tries' \in [Rows -> Nat]
    BY DEF OutboxTypeOK
  <2> QED
    BY <2>2, <2>3, <2>4 DEF OutboxTypeOK
<1>2. HandsInOrder'
  BY DEF OutboxTypeOK, HandsInOrder
<1>3. FailuresAreCounted'
  <2>1. \A e \in Rows : tries'[e] >= tries[e] /\ tries'[e] \in Nat /\ tries[e] \in Nat /\ row[e].retries \in Nat
    BY OutboxAssumption DEF OutboxTypeOK
  <2>2. \A e \in Rows : tries'[e] >= row[e].retries
    BY <2>1 DEF FailuresAreCounted
  <2>3. \A w \in Workers, e \in Rows : w # u \/ e # f => marks'[w][e] = marks[w][e]
    BY DEF OutboxTypeOK
  <2>4. /\ marks'[u][f] = MarkFailure(f)
        /\ tries'[f] = tries[f] + 1
    BY DEF OutboxTypeOK
  <2>5. MaxRetries \in Nat
    BY OutboxAssumption
  <2>6. /\ marks'[u][f] = "retry" => row[f].retries + 1 < MaxRetries
        /\ marks'[u][f] = "FAILED" => row[f].retries + 1 >= MaxRetries
    BY <1>0, <2>4, <2>5 DEF MarkFailure
  <2>7. tries'[f] >= row[f].retries + 1
    BY <1>0, <2>4
  <2> QED
    BY <2>1, <2>2, <2>3, <2>6, <2>7 DEF FailuresAreCounted
<1>4. OneWorkerPerRow'
  BY DEF OutboxTypeOK, OneWorkerPerRow, Holds
<1>5. ReceivedIsAccountedFor'
  <2>1. \A e \in Rows : Accounted(e)' <=> Accounted(e)
    BY <1>0 DEF OutboxTypeOK, Accounted, MarkFailure
  <2> QED
    BY <2>1 DEF OutboxTypeOK, ReceivedIsAccountedFor
<1>6. GivenUpAfterRetries'
  BY OutboxAssumption DEF OutboxTypeOK, GivenUpAfterRetries
<1> QED
  BY <1>1, <1>2, <1>3, <1>4, <1>5, <1>6

\* A tick that fails leaves its rows as they were.
LEMMA RollbackKeeps ==
    ASSUME OutboxIInv, NEW u \in Workers, NEW to \in {"idle", "down"}, Rollback(u, to)
    PROVE  OutboxIInv'
<1> USE DEF OutboxIInv, Rollback
<1>1. OutboxTypeOK'
  BY OutboxAssumption DEF OutboxTypeOK, Marks
<1>2. HandsInOrder'
  BY DEF OutboxTypeOK, HandsInOrder
<1>3. FailuresAreCounted'
  BY DEF OutboxTypeOK, FailuresAreCounted
<1>4. OneWorkerPerRow'
  BY DEF OutboxTypeOK, OneWorkerPerRow, Holds
<1>5. ReceivedIsAccountedFor'
  <2> SUFFICES ASSUME NEW e \in Rows
               PROVE  received'[e] = disturbed'[e] + (IF Accounted(e)' THEN 1 ELSE 0)
    BY DEF ReceivedIsAccountedFor
  <2>1. CASE marks[u][e] = "SENT"
    <3>1. Accounted(e)
      BY <2>1 DEF Accounted
    <3>2. ~Accounted(e)'
      BY <2>1, InOneHand DEF OutboxTypeOK, HandsInOrder, Accounted
    <3> QED
      BY <2>1, <3>1, <3>2 DEF OutboxTypeOK, ReceivedIsAccountedFor
  <2>2. CASE marks[u][e] # "SENT"
    <3>1. Accounted(e)' <=> Accounted(e)
      BY <2>2 DEF OutboxTypeOK, Accounted
    <3> QED
      BY <2>2, <3>1 DEF OutboxTypeOK, ReceivedIsAccountedFor
  <2> QED
    BY <2>1, <2>2
<1>6. GivenUpAfterRetries'
  BY DEF GivenUpAfterRetries
<1> QED
  BY <1>1, <1>2, <1>3, <1>4, <1>5, <1>6

-----------------------------------------------------------------------------
\* What a commit makes of one row.
LEMMA CommittedRow ==
    ASSUME OutboxIInv, NEW u \in Workers, CommitTick(u), NEW e \in Rows
    PROVE  /\ row'[e] \in [status : {"none", "PENDING", "SENT", "FAILED"},
                           retries : 0..(MaxRetries - 1), due : BOOLEAN]
           /\ marks[u][e] = "none" => row'[e] = row[e]
           /\ marks[u][e] = "retry" => row'[e].status = row[e].status
                                    /\ row'[e].retries = row[e].retries + 1
           /\ marks[u][e] \in {"SENT", "FAILED"} => row'[e].status = marks[u][e]
                                    /\ row'[e].retries = row[e].retries
<1> DEFINE Row == [status : {"none", "PENDING", "SENT", "FAILED"},
                   retries : 0..(MaxRetries - 1), due : BOOLEAN]
<1>1. row[e] \in Row /\ row'[e] = Marked(row[e], marks[u][e]) /\ marks[u][e] \in Marks
  BY DEF OutboxIInv, OutboxTypeOK, CommitTick
<1>2. MaxRetries \in Nat
  BY OutboxAssumption
<1>3. CASE marks[u][e] = "none"
  BY <1>1, <1>3 DEF Marked
<1>4. CASE marks[u][e] = "retry"
  <2>1. row[e].retries + 1 \in 0..(MaxRetries - 1)
    BY <1>1, <1>2, <1>4 DEF OutboxIInv, FailuresAreCounted
  <2>2. row'[e] = [row[e] EXCEPT !.retries = @ + 1, !.due = FALSE]
    BY <1>1, <1>4 DEF Marked
  <2> QED
    BY <1>1, <1>4, <2>1, <2>2
<1>5. CASE marks[u][e] \in {"SENT", "FAILED"}
  <2>1. row'[e] = [row[e] EXCEPT !.status = marks[u][e]]
    BY <1>1, <1>5 DEF Marked
  <2> QED
    BY <1>1, <1>5, <2>1
<1> QED
  BY <1>1, <1>3, <1>4, <1>5 DEF Marks

LEMMA CommitTickKeeps ==
    ASSUME OutboxIInv, NEW u \in Workers, CommitTick(u)
    PROVE  OutboxIInv'
<1>0. /\ batch[u] = {} /\ batch' = batch
      /\ marks' = [marks EXCEPT ![u] = [e \in Rows |-> "none"]]
      /\ at' = [at EXCEPT ![u] = "idle"]
      /\ UNCHANGED <<received, disturbed, tries, downs>>
  BY DEF CommitTick
<1>1. OutboxTypeOK'
  <2>1. row' = [e \in Rows |-> row'[e]]
    BY DEF CommitTick
  <2>2. row' \in [Rows -> [status : {"none", "PENDING", "SENT", "FAILED"},
                           retries : 0..(MaxRetries - 1), due : BOOLEAN]]
    BY <2>1, CommittedRow
  <2> QED
    BY <1>0, <2>2 DEF OutboxIInv, OutboxTypeOK, Marks
<1>2. \A w \in Workers, e \in Rows :
          marks'[w][e] = IF w = u THEN "none" ELSE marks[w][e]
  BY <1>0 DEF OutboxIInv, OutboxTypeOK
<1>3. \A w \in Workers, e \in Rows :
          w # u /\ (e \in batch[w] \/ marks[w][e] # "none") => row'[e] = row[e]
  BY CommittedRow, InOneHand
<1>4. HandsInOrder'
  BY <1>0, <1>2, <1>3 DEF OutboxIInv, OutboxTypeOK, HandsInOrder
<1>5. FailuresAreCounted'
  <2>1. \A e \in Rows : tries[e] >= row'[e].retries
    <3> SUFFICES ASSUME NEW e \in Rows PROVE tries[e] >= row'[e].retries
      OBVIOUS
    <3>1. marks[u][e] \in Marks
      BY DEF OutboxIInv, OutboxTypeOK
    <3>2. CASE marks[u][e] = "retry"
      BY <3>2, CommittedRow DEF OutboxIInv, FailuresAreCounted
    <3>3. CASE marks[u][e] # "retry"
      BY <3>1, <3>3, CommittedRow DEF OutboxIInv, FailuresAreCounted, Marks
    <3> QED
      BY <3>2, <3>3
  <2>2. ASSUME NEW w \in Workers, NEW e \in Rows
        PROVE  /\ marks'[w][e] \in {"retry", "FAILED"} => tries[e] >= row'[e].retries + 1
               /\ marks'[w][e] = "retry" => row'[e].retries + 1 < MaxRetries
               /\ marks'[w][e] = "FAILED" => row'[e].retries + 1 >= MaxRetries
    <3>1. CASE w = u
      BY <1>2, <3>1
    <3>2. CASE w # u
      BY <1>2, <1>3, <3>2 DEF OutboxIInv, FailuresAreCounted
    <3> QED
      BY <3>1, <3>2
  <2> QED
    BY <1>0, <2>1, <2>2 DEF FailuresAreCounted
<1>6. OneWorkerPerRow'
  BY <1>0, <1>2 DEF OutboxIInv, OneWorkerPerRow, Holds
<1>7. ReceivedIsAccountedFor'
  <2>1. ASSUME NEW e \in Rows PROVE Accounted(e)' <=> Accounted(e)
    <3>1. marks[u][e] \in Marks
      BY DEF OutboxIInv, OutboxTypeOK
    <3>2. CASE marks[u][e] = "SENT"
      BY <3>2, CommittedRow DEF Accounted
    <3>3. CASE marks[u][e] # "SENT"
      <4>1. row'[e].status = "SENT" <=> row[e].status = "SENT"
        <5>1. CASE marks[u][e] = "FAILED"
          BY <5>1, CommittedRow DEF OutboxIInv, HandsInOrder
        <5>2. CASE marks[u][e] # "FAILED"
          BY <3>1, <3>3, <5>2, CommittedRow DEF Marks
        <5> QED
          BY <5>1, <5>2
      <4> QED
        BY <1>2, <3>3, <4>1 DEF Accounted
    <3> QED
      BY <3>2, <3>3
  <2> QED
    BY <1>0, <2>1 DEF OutboxIInv, ReceivedIsAccountedFor
<1>8. GivenUpAfterRetries'
  <2> SUFFICES ASSUME NEW e \in Rows, row'[e].status = "FAILED"
               PROVE  tries[e] >= MaxRetries
    BY <1>0 DEF GivenUpAfterRetries
  <2>1. marks[u][e] \in Marks /\ tries[e] \in Nat /\ row[e].retries \in 0..(MaxRetries - 1) /\ MaxRetries \in Nat
    BY OutboxAssumption DEF OutboxIInv, OutboxTypeOK
  <2>2. CASE marks[u][e] = "FAILED"
    BY <2>1, <2>2 DEF OutboxIInv, FailuresAreCounted
  <2>3. CASE marks[u][e] # "FAILED"
    BY <2>1, <2>3, CommittedRow DEF OutboxIInv, GivenUpAfterRetries, Marks
  <2> QED
    BY <2>2, <2>3
<1> QED
  BY <1>1, <1>4, <1>5, <1>6, <1>7, <1>8 DEF OutboxIInv

\* Stopping and starting again happens between ticks.
LEMMA IdleKeeps ==
    ASSUME OutboxIInv, NEW u \in Workers, Stop(u) \/ Restart(u)
    PROVE  OutboxIInv'
<1> USE DEF OutboxIInv, Stop, Restart
<1>1. OutboxTypeOK'
  BY OutboxAssumption DEF OutboxTypeOK
<1>2. HandsInOrder'
  BY DEF OutboxTypeOK, HandsInOrder
<1>3. FailuresAreCounted' /\ GivenUpAfterRetries'
  BY DEF FailuresAreCounted, GivenUpAfterRetries
<1>4. OneWorkerPerRow' /\ ReceivedIsAccountedFor'
  BY DEF OneWorkerPerRow, Holds, ReceivedIsAccountedFor, Accounted
<1> QED
  BY <1>1, <1>2, <1>3, <1>4

-----------------------------------------------------------------------------
LEMMA OutboxStepKeepsIInv == OutboxIInv /\ [OutboxNext]_outboxVars => OutboxIInv'
<1> SUFFICES ASSUME OutboxIInv, [OutboxNext]_outboxVars PROVE OutboxIInv'
  OBVIOUS
<1>1. CASE \E e \in Rows : Enqueue(e) \/ BecomeDue(e)
  BY <1>1, EnqueueKeeps, BecomeDueKeeps
<1>2. CASE \E w \in Workers : Work(w)
  BY <1>2, ClaimKeeps, SendOkKeeps, SendFailsKeeps, CommitTickKeeps, IdleKeeps DEF Work
<1>3. CASE \E w \in Workers : Stop(w) \/ \E to \in {"idle", "down"} : Rollback(w, to)
  BY <1>3, IdleKeeps, RollbackKeeps
<1>4. CASE UNCHANGED outboxVars
  BY <1>4 DEF outboxVars, OutboxIInv, OutboxTypeOK, HandsInOrder, FailuresAreCounted, OneWorkerPerRow, Holds,
              ReceivedIsAccountedFor, Accounted, GivenUpAfterRetries
<1> QED
  BY <1>1, <1>2, <1>3, <1>4 DEF OutboxNext

LEMMA OutboxAlwaysIInv == OutboxSpec => []OutboxIInv
BY OutboxInitIInv, OutboxStepKeepsIInv, PTL DEF OutboxSpec

-----------------------------------------------------------------------------
(* The results. *)

\* The types of the table, of the workers' batches and of their marks.
THEOREM OutboxTypeCorrect == OutboxSpec => []OutboxTypeOK
<1>1. OutboxIInv => OutboxTypeOK
  BY DEF OutboxIInv
<1> QED
  BY <1>1, OutboxAlwaysIInv, PTL

\* claim_batch gives no row to two workers at once.
THEOREM RowsAreNotShared == OutboxSpec => []OneWorkerPerRow
<1>1. OutboxIInv => OneWorkerPerRow
  BY DEF OutboxIInv
<1> QED
  BY <1>1, OutboxAlwaysIInv, PTL

\* Every delivery the target took is a row marked SENT, a late answer or a
\* rollback: without these two, delivery is exactly once.
THEOREM DeliveriesAddUp == OutboxSpec => []ReceivedIsAccountedFor
<1>1. OutboxIInv => ReceivedIsAccountedFor
  BY DEF OutboxIInv
<1> QED
  BY <1>1, OutboxAlwaysIInv, PTL

\* _tick gives a row up only after MAX_RETRIES failed deliveries.
THEOREM NotGivenUpEarly == OutboxSpec => []GivenUpAfterRetries
<1>1. OutboxIInv => GivenUpAfterRetries
  BY DEF OutboxIInv
<1> QED
  BY <1>1, OutboxAlwaysIInv, PTL

\* No worker touches a row that is SENT or FAILED.
THEOREM SettledRowsStay == OutboxSpec => SettledIsFinal
<1>1. ASSUME OutboxIInv, [OutboxNext]_outboxVars,
             NEW e \in Rows, row[e].status \in {"SENT", "FAILED"}
      PROVE  row'[e].status = row[e].status
  <2>1. CASE \E w \in Workers : CommitTick(w)
    <3>1. PICK w \in Workers : CommitTick(w)
      BY <2>1
    <3>2. marks[w][e] = "none"
      BY <1>1 DEF OutboxIInv, HandsInOrder
    <3> QED
      BY <1>1, <3>1, <3>2, CommittedRow
  <2>2. CASE \E f \in Rows : Enqueue(f) \/ BecomeDue(f)
    BY <1>1, <2>2 DEF OutboxIInv, OutboxTypeOK, Enqueue, BecomeDue
  <2>3. CASE row' = row
    BY <2>3
  <2> QED
    BY <1>1, <2>1, <2>2, <2>3 DEF OutboxNext, Work, Claim, SendOk, SendFails, Restart, Stop, Rollback, outboxVars
<1>2. OutboxIInv /\ [OutboxNext]_outboxVars =>
        [\A e \in Rows : row[e].status \in {"SENT", "FAILED"} => row'[e].status = row[e].status]_outboxVars
  BY <1>1
<1> QED
  BY <1>2, OutboxAlwaysIInv, PTL DEF OutboxSpec, SettledIsFinal

-----------------------------------------------------------------------------
(* Sessions. *)


\* The stages each kind of request passes through, and may die in.
StagesFit ==
    \A r \in Requests :
        /\ req[r].kind = "none" <=> req[r].pc = "idle"
        /\ req[r].kind = "register" =>
            /\ req[r].pc \in {"email", "inn", "insert", "issue"} \cup Finished
            /\ req[r].at \in {"idle", "email", "inn", "insert", "issue"}
            /\ service = "moderation" => req[r].pc # "issue" /\ req[r].at # "issue"
        /\ req[r].kind = "login" => req[r].pc \in {"account", "issue"} \cup Finished
        /\ req[r].kind = "refresh" =>
            req[r].pc \in {"blacklist", "row", "account", "revoke", "delete", "issue"} \cup Finished
        /\ req[r].kind = "logout" =>
            /\ req[r].pc \in {"blacklist", "revoke"} \cup Finished
            /\ req[r].at \in {"idle", "blacklist", "revoke"}

\* A request that presents a token was given one, and belongs to its login.
Descends(r) ==
    /\ req[r].kind \in {"refresh", "logout"} =>
        /\ req[r].token \in Requests
        /\ Issued(req[r].token)
        /\ req[r].chain = req[req[r].token].chain
        /\ req[r].chain \in Requests
        /\ Issued(req[r].chain)
    /\ req[r].kind \in {"register", "login"} => req[r].chain = r

TokensDescend == \A r \in Requests : Descends(r)

\* A row of refresh_tokens is deleted only after its token was revoked.
StoredOrRevoked ==
    /\ \A t \in Requests : Issued(t) => t \in tokens \cup blacklist
    /\ \A t \in tokens : Issued(t)

UsedAreRevoked == \A r \in Requests : UsesUp(r) => req[r].token \in blacklist

\* What works, or is being exchanged, is one per login.
OneCarrier ==
    \A r, q \in Requests :
        Carries(r) /\ Carries(q) /\ req[r].chain = req[q].chain => r = q

SessionsIInv ==
    /\ SessionsTypeOK
    /\ StagesFit
    /\ TokensDescend
    /\ StoredOrRevoked
    /\ UsedAreRevoked
    /\ TokenIsUsedOnce
    /\ OneCarrier
    /\ LogoutEndsLogin

LEMMA SessionsInitIInv == SessionsInit => SessionsIInv
BY DEF SessionsInit, SessionsIInv, SessionsTypeOK, Idle, StagesFit, TokensDescend, Descends, StoredOrRevoked, Issued,
       UsedAreRevoked, UsesUp, TokenIsUsedOnce, OneCarrier, Carries, Live,
       LogoutEndsLogin

\* A step in which no token is issued, used up or taken up again.
LEMMA QuietStepKeeps ==
    ASSUME SessionsIInv, SessionsTypeOK', StagesFit', StoredOrRevoked',
           UNCHANGED <<service, blacklist>>,
           \A r \in Requests :
                req'[r].chain = req[r].chain /\ req'[r].token = req[r].token,
           \A r \in Requests : req'[r].kind = req[r].kind,
           \A r \in Requests : Issued(r)' <=> Issued(r),
           \A r \in Requests : UsesUp(r)' <=> UsesUp(r),
           \A r \in Requests : Carries(r)' => Carries(r)
    PROVE  SessionsIInv'
<1>1. ASSUME NEW r \in Requests PROVE Descends(r)'
  <2>1. Descends(r)
    BY DEF SessionsIInv, TokensDescend
  <2>2. CASE req[r].kind \in {"refresh", "logout"}
    <3>1. Issued(req[r].token)' /\ Issued(req[r].chain)'
      BY <2>1, <2>2 DEF Descends, Issued
    <3> QED
      BY <2>1, <2>2, <3>1 DEF Descends
  <2>3. CASE req[r].kind \notin {"refresh", "logout"}
    BY <2>1, <2>3 DEF Descends
  <2> QED
    BY <2>2, <2>3
<1>2. UsedAreRevoked' /\ TokenIsUsedOnce'
  BY DEF SessionsIInv, UsedAreRevoked, TokenIsUsedOnce
<1>3. OneCarrier' /\ LogoutEndsLogin'
  BY DEF SessionsIInv, OneCarrier, LogoutEndsLogin
<1> QED
  BY <1>1, <1>2, <1>3 DEF SessionsIInv, TokensDescend

\* Enter changes one stage.
LEMMA GoChanges ==
    ASSUME SessionsTypeOK, NEW r \in Requests, NEW to \in Running \cup Finished, Enter(r, to),
           req[r].pc # "idle",
           account' \in [Emails -> {"absent", "active", "blocked"}],
           UNCHANGED <<service, expired>>, tokens' \subseteq Requests, blacklist' \subseteq Requests
    PROVE  /\ SessionsTypeOK'
           /\ \A q \in Requests : q # r => req'[q] = req[q]
           /\ req'[r].pc = to
           /\ req'[r].kind = req[r].kind /\ req'[r].token = req[r].token
           /\ req'[r].chain = req[r].chain /\ req'[r].at = req[r].at
           /\ req'[r].email = req[r].email
<1>1. \A q \in Requests : q # r => req'[q] = req[q]
  BY DEF SessionsTypeOK, Enter
<1>2. req'[r] = [req[r] EXCEPT !.pc = to]
  BY DEF SessionsTypeOK, Enter
<1>3. req'[r].pc = to /\ req'[r].kind = req[r].kind /\ req'[r].token = req[r].token
      /\ req'[r].chain = req[r].chain /\ req'[r].at = req[r].at /\ req'[r].email = req[r].email
  BY <1>2 DEF SessionsTypeOK
<1>4. to # "idle"
  BY DEF Running, Finished
<1>5. req' \in [Requests ->
            [kind : Kinds \cup {"none"}, email : Emails \cup {"none"},
             token : Requests \cup {NoToken}, chain : Requests \cup {NoToken},
             pc : Running \cup Finished \cup {"idle"}, at : Running \cup {"idle"}]]
  BY DEF SessionsTypeOK, Enter
<1> QED
  BY <1>1, <1>3, <1>4, <1>5 DEF SessionsTypeOK

\* A step between two stages before a token is used up or issued.
LEMMA QuietGoKeeps ==
    ASSUME SessionsIInv, NEW r \in Requests, NEW to \in Running \cup Finished, Enter(r, to),
           account' \in [Emails -> {"absent", "active", "blocked"}],
           UNCHANGED <<service, tokens, blacklist, expired>>,
           req[r].pc \in Running \ {"delete", "issue"},
           \/ to \notin {"delete", "issue", "ok", "lost", "died"}
           \/ to = "issue" /\ req[r].kind \in {"login", "register"}
           \/ to \in {"ok", "lost"} /\ req[r].kind = "register" /\ service = "moderation",
           StagesFit'
    PROVE  SessionsIInv'
<1>1. req[r].pc \notin {"idle", "delete", "issue", "ok", "lost", "died"}
  BY DEF Running
<1>2. tokens' \subseteq Requests /\ blacklist' \subseteq Requests
  BY DEF SessionsIInv, SessionsTypeOK
<1>3. /\ SessionsTypeOK'
      /\ \A q \in Requests : q # r => req'[q] = req[q]
      /\ req'[r].pc = to /\ req'[r].kind = req[r].kind /\ req'[r].token = req[r].token
      /\ req'[r].chain = req[r].chain
  BY <1>1, <1>2, GoChanges DEF SessionsIInv
<1>4. \A q \in Requests : req'[q].chain = req[q].chain /\ req'[q].token = req[q].token
  BY <1>3
<1>5. \A q \in Requests : req'[q].kind = req[q].kind
  BY <1>3
<1>6. \A q \in Requests : Issued(q)' <=> Issued(q)
  BY <1>1, <1>3 DEF Issued
<1>7. \A q \in Requests : UsesUp(q)' <=> UsesUp(q)
  BY <1>1, <1>3 DEF UsesUp
<1>8. \A q \in Requests : Carries(q)' => Carries(q)
  BY <1>1, <1>3 DEF Carries, Live
<1>9. StoredOrRevoked'
  BY <1>2, <1>6 DEF SessionsIInv, StoredOrRevoked
<1> QED
  BY <1>3, <1>4, <1>5, <1>6, <1>7, <1>8, <1>9, QuietStepKeeps

LEMMA BeginKeeps ==
    ASSUME SessionsIInv, NEW r \in Requests, NEW kind, NEW e \in Emails, NEW token,
           NEW chain, NEW pc, Begin(r, kind, e, token, chain, pc),
           \/ kind = "register" /\ pc = "email" /\ token = NoToken /\ chain = r
           \/ kind = "login" /\ pc = "account" /\ token = NoToken /\ chain = r
           \/ /\ kind \in {"refresh", "logout"} /\ pc = "blacklist"
              /\ token \in Requests /\ Issued(token) /\ chain = req[token].chain
    PROVE  SessionsIInv'
<1> DEFINE new == [kind |-> kind, email |-> e, token |-> token, chain |-> chain,
                   pc |-> pc, at |-> "idle"]
<1>1. /\ req[r].pc = "idle" /\ req[r].kind = "none"
      /\ UNCHANGED <<service, account, tokens, blacklist, expired>>
  BY DEF Begin, SessionsIInv, StagesFit
<1>2. req'[r] = new /\ \A q \in Requests : q # r => req'[q] = req[q]
  BY DEF Begin, SessionsIInv, SessionsTypeOK
<1>3. /\ req'[r].kind = kind /\ req'[r].pc = pc /\ req'[r].at = "idle"
      /\ req'[r].token = token /\ req'[r].chain = chain /\ req'[r].email = e
  BY <1>2
<1>4. \A q \in Requests : Issued(q)' <=> Issued(q)
  BY <1>1, <1>2, <1>3 DEF Issued
<1>5. \A q \in Requests : UsesUp(q)' <=> UsesUp(q)
  BY <1>1, <1>2, <1>3 DEF UsesUp
<1>6. \A q \in Requests : Carries(q)' => Carries(q) /\ q # r
  BY <1>1, <1>2, <1>3 DEF Carries, Live, SessionsIInv, StoredOrRevoked, Issued
<1>7. ASSUME NEW t \in Requests, Issued(t)
      PROVE  /\ t # r /\ req[t].chain \in Requests /\ Issued(req[t].chain)
             /\ req[t].chain # r
  <2>1. t # r
    BY <1>1, <1>7 DEF Issued
  <2>2. CASE req[t].kind = "refresh"
    BY <1>1, <2>1, <2>2 DEF SessionsIInv, TokensDescend, Descends, Issued
  <2>3. CASE req[t].kind \in {"register", "login"}
    BY <1>7, <2>1, <2>3 DEF SessionsIInv, TokensDescend, Descends
  <2> QED
    BY <1>7, <2>2, <2>3, <2>1 DEF Issued
<1>8. SessionsTypeOK'
  <2>1. chain \in Requests /\ token \in Requests \cup {NoToken}
    BY <1>7
  <2>2. new \in [kind : Kinds \cup {"none"}, email : Emails \cup {"none"},
                 token : Requests \cup {NoToken}, chain : Requests \cup {NoToken},
                 pc : Running \cup Finished \cup {"idle"}, at : Running \cup {"idle"}]
    BY <2>1 DEF Kinds, Running
  <2>3. req' \in [Requests ->
            [kind : Kinds \cup {"none"}, email : Emails \cup {"none"},
             token : Requests \cup {NoToken}, chain : Requests \cup {NoToken},
             pc : Running \cup Finished \cup {"idle"}, at : Running \cup {"idle"}]]
    BY <2>2 DEF Begin, SessionsIInv, SessionsTypeOK
  <2> QED
    BY <1>1, <1>2, <1>3, <2>1, <2>3 DEF SessionsIInv, SessionsTypeOK
<1>9. StagesFit'
  BY <1>1, <1>2, <1>3 DEF SessionsIInv, StagesFit
<1>10. TokensDescend'
  <2>1. Descends(r)'
    <3>1. CASE kind \in {"register", "login"}
      BY <1>3, <3>1 DEF Descends
    <3>2. CASE kind \in {"refresh", "logout"}
      <4>1. token \in Requests /\ Issued(token) /\ chain = req[token].chain
        BY <3>2
      <4>2. token # r /\ chain \in Requests /\ Issued(chain) /\ chain # r
        BY <4>1, <1>7
      <4>3. Issued(token)' /\ Issued(chain)' /\ req'[token] = req[token]
        BY <4>1, <4>2, <1>4, <1>2
      <4> QED
        BY <1>3, <3>2, <4>1, <4>2, <4>3 DEF Descends, Issued
    <3> QED
      BY <3>1, <3>2
  <2>2. ASSUME NEW q \in Requests, q # r PROVE Descends(q)'
    <3>1. Descends(q) /\ req'[q] = req[q]
      BY <1>2, <2>2 DEF SessionsIInv, TokensDescend
    <3>2. CASE req[q].kind \in {"refresh", "logout"}
      <4>0. PICK t, c \in Requests : t = req[q].token /\ c = req[q].chain
        BY <3>1, <3>2 DEF Descends
      <4>1. Issued(t) /\ c = req[t].chain /\ Issued(c) /\ t # r /\ c # r
        BY <3>1, <3>2, <4>0, <1>7 DEF Descends
      <4>2. req'[t] = req[t] /\ Issued(t)' /\ Issued(c)'
        BY <4>1, <1>2, <1>4
      <4> QED
        BY <3>1, <3>2, <4>0, <4>1, <4>2 DEF Descends, Issued
    <3>3. CASE req[q].kind \notin {"refresh", "logout"}
      BY <3>1, <3>3 DEF Descends
    <3> QED
      BY <3>2, <3>3
  <2> QED
    BY <2>1, <2>2 DEF TokensDescend
<1>11. StoredOrRevoked'
  BY <1>1, <1>4 DEF SessionsIInv, StoredOrRevoked, SessionsTypeOK
<1>12. UsedAreRevoked' /\ TokenIsUsedOnce'
  <2>1. ~UsesUp(r)
    BY <1>1 DEF UsesUp
  <2> QED
    BY <1>1, <1>2, <1>5, <2>1 DEF SessionsIInv, UsedAreRevoked, TokenIsUsedOnce
<1>13. OneCarrier'
  BY <1>2, <1>6 DEF SessionsIInv, OneCarrier
<1>14. LogoutEndsLogin'
  <2>1. ~UsesUp(r)
    BY <1>1 DEF UsesUp
  <2> QED
    BY <1>2, <1>5, <1>6, <2>1 DEF SessionsIInv, LogoutEndsLogin
<1> QED
  BY <1>8, <1>9, <1>10, <1>11, <1>12, <1>13, <1>14 DEF SessionsIInv

\* The token of a request that may use it is the one its login still has.
LEMMA TokenOfRevokeIsLive ==
    ASSUME SessionsIInv, NEW r \in Requests, req[r].pc = "revoke", req[r].token \notin blacklist
    PROVE  /\ req[r].kind \in {"refresh", "logout"}
           /\ req[r].token \in Requests /\ req[r].token # r
           /\ Live(req[r].token) /\ Carries(req[r].token) /\ req[req[r].token].chain = req[r].chain
<1>1. req[r].kind \in {"refresh", "logout"}
  BY DEF SessionsIInv, StagesFit, SessionsTypeOK, Kinds, Finished
<1>2. /\ req[r].token \in Requests /\ Issued(req[r].token)
      /\ req[req[r].token].chain = req[r].chain
  BY <1>1 DEF SessionsIInv, TokensDescend, Descends
<1>3. Live(req[r].token)
  BY <1>2 DEF SessionsIInv, StoredOrRevoked, Live
<1> QED
  BY <1>1, <1>2, <1>3 DEF Issued, Carries

LEMMA RevokeKeeps ==
    ASSUME SessionsIInv, NEW r \in Requests, Revoke(r)
    PROVE  SessionsIInv'
<1>1. CASE req[r].token \in blacklist
  <2>1. Enter(r, "failed") /\ UNCHANGED <<service, account, tokens, blacklist, expired>>
    BY <1>1 DEF Revoke
  <2>2. req[r].pc \in Running \ {"delete", "issue"} /\ "failed" \in Running \cup Finished
        /\ account' \in [Emails -> {"absent", "active", "blocked"}]
    BY <2>1 DEF Revoke, Running, Finished, SessionsIInv, SessionsTypeOK
  <2>3. StagesFit'
    BY <2>1, <2>2 DEF Revoke, Enter, SessionsIInv, SessionsTypeOK, StagesFit, Finished
  <2> QED
    BY <2>1, <2>2, <2>3, QuietGoKeeps
<1>2. CASE req[r].token \notin blacklist
  <2>1. PICK t \in Requests :
            /\ t = req[r].token /\ t # r /\ Live(t) /\ Carries(t) /\ req[t].chain = req[r].chain
            /\ req[r].kind \in {"refresh", "logout"}
    BY <1>2, TokenOfRevokeIsLive DEF Revoke
  <2>2. PICK to \in {"delete", "ok", "lost"} :
            /\ Enter(r, to)
            /\ req[r].kind = "refresh" <=> to = "delete"
    BY <1>2, <2>1 DEF Revoke, Answer
  <2>3. /\ blacklist' = blacklist \cup {t}
        /\ UNCHANGED <<service, account, tokens, expired>> /\ req[r].pc = "revoke"
    BY <1>2, <2>1 DEF Revoke
  <2>4. /\ SessionsTypeOK'
        /\ \A q \in Requests : q # r => req'[q] = req[q]
        /\ req'[r].pc = to /\ req'[r].kind = req[r].kind /\ req'[r].token = req[r].token
        /\ req'[r].chain = req[r].chain /\ req'[r].at = req[r].at
    <3>1. to \in Running \cup Finished /\ req[r].pc # "idle" /\ SessionsTypeOK
      BY <2>3 DEF Running, Finished, SessionsIInv
    <3>2. tokens' \subseteq Requests /\ blacklist' \subseteq Requests
          /\ account' \in [Emails -> {"absent", "active", "blocked"}]
      BY <2>3 DEF SessionsIInv, SessionsTypeOK
    <3> QED
      BY <2>2, <2>3, <3>1, <3>2, GoChanges
  <2>5. StagesFit'
    BY <2>1, <2>2, <2>3, <2>4 DEF SessionsIInv, StagesFit, Finished
  <2>6. \A q \in Requests : req'[q].chain = req[q].chain /\ req'[q].token = req[q].token
                            /\ req'[q].kind = req[q].kind
    BY <2>4
  <2>7. \A q \in Requests : Issued(q)' <=> Issued(q)
    BY <2>1, <2>2, <2>3, <2>4 DEF Issued
  <2>8. /\ \A q \in Requests : UsesUp(q)' <=> (UsesUp(q) \/ q = r)
        /\ ~UsesUp(r)
    BY <2>1, <2>2, <2>3, <2>4 DEF UsesUp
  <2>9. \A q \in Requests : Carries(q)' =>
            (Carries(q) /\ q # t) \/ (q = r /\ req[r].kind = "refresh")
    <3>1. ~Live(t)'
      BY <2>3 DEF Live
    <3>2. \A q \in Requests : Live(q)' => Live(q)
      BY <2>3 DEF Live
    <3>4. ~(req[t].kind = "refresh" /\ req[t].pc \in {"delete", "issue"})
      BY <2>1 DEF Live, SessionsIInv, StoredOrRevoked, Issued
    <3> QED
      BY <2>1, <2>2, <2>3, <2>4, <3>1, <3>2, <3>4 DEF Carries
  <2>10. \A q \in Requests : Carries(q) /\ q # t => req[q].chain # req[r].chain
    BY <2>1 DEF SessionsIInv, OneCarrier
  <2>11. TokensDescend'
    <3>1. ASSUME NEW q \in Requests PROVE Descends(q)'
      <4>1. Descends(q)
        BY DEF SessionsIInv, TokensDescend
      <4>2. CASE req[q].kind \in {"refresh", "logout"}
        BY <4>1, <4>2, <2>6, <2>7 DEF Descends, Issued
      <4>3. CASE req[q].kind \notin {"refresh", "logout"}
        BY <4>1, <4>3, <2>6 DEF Descends
      <4> QED
        BY <4>2, <4>3
    <3> QED
      BY <3>1 DEF TokensDescend
  <2>12. StoredOrRevoked'
    BY <2>3, <2>7 DEF SessionsIInv, StoredOrRevoked, SessionsTypeOK
  <2>13. UsedAreRevoked'
    BY <2>1, <2>3, <2>6, <2>8 DEF SessionsIInv, UsedAreRevoked
  <2>14. TokenIsUsedOnce'
    BY <1>2, <2>1, <2>6, <2>8 DEF SessionsIInv, TokenIsUsedOnce, UsedAreRevoked
  <2>15. OneCarrier'
    BY <2>6, <2>9, <2>10 DEF SessionsIInv, OneCarrier
  <2>16. LogoutEndsLogin'
    <3>1. \A l \in Requests : req[l].kind = "logout" /\ UsesUp(l) => req[l].chain # req[r].chain
      BY <2>1 DEF SessionsIInv, LogoutEndsLogin
    <3> QED
      BY <2>6, <2>8, <2>9, <2>10, <3>1 DEF SessionsIInv, LogoutEndsLogin
  <2> QED
    BY <2>4, <2>5, <2>11, <2>12, <2>13, <2>14, <2>15, <2>16 DEF SessionsIInv
<1> QED
  BY <1>1, <1>2

LEMMA DeleteRowKeeps ==
    ASSUME SessionsIInv, NEW r \in Requests, DeleteRow(r)
    PROVE  SessionsIInv'
<1>1. /\ Enter(r, "issue") /\ req[r].pc = "delete" /\ tokens' = tokens \ {req[r].token}
      /\ UNCHANGED <<service, account, blacklist, expired>>
  BY DEF DeleteRow
<1>2. req[r].kind = "refresh"
  BY <1>1 DEF SessionsIInv, StagesFit, SessionsTypeOK, Kinds, Finished
<1>3. req[r].token \in blacklist
  BY <1>1, <1>2 DEF SessionsIInv, UsedAreRevoked, UsesUp
<1>4. /\ SessionsTypeOK'
      /\ \A q \in Requests : q # r => req'[q] = req[q]
      /\ req'[r].pc = "issue" /\ req'[r].kind = req[r].kind /\ req'[r].token = req[r].token
      /\ req'[r].chain = req[r].chain /\ req'[r].at = req[r].at
  <2>1. "issue" \in Running \cup Finished /\ tokens' \subseteq Requests
        /\ blacklist' \subseteq Requests /\ SessionsTypeOK
        /\ account' \in [Emails -> {"absent", "active", "blocked"}]
    BY <1>1 DEF Running, SessionsIInv, SessionsTypeOK
  <2> QED
    BY <1>1, <2>1, GoChanges
<1>5. StagesFit'
  BY <1>1, <1>2, <1>4 DEF SessionsIInv, StagesFit
<1>6. \A q \in Requests : req'[q].chain = req[q].chain /\ req'[q].token = req[q].token
  BY <1>4
<1>7. \A q \in Requests : req'[q].kind = req[q].kind
  BY <1>4
<1>8. \A q \in Requests : Issued(q)' <=> Issued(q)
  BY <1>1, <1>4 DEF Issued
<1>9. \A q \in Requests : UsesUp(q)' <=> UsesUp(q)
  BY <1>1, <1>2, <1>4 DEF UsesUp
<1>10. \A q \in Requests : Carries(q)' => Carries(q)
  BY <1>1, <1>2, <1>4 DEF Carries, Live
<1>11. StoredOrRevoked'
  <2>1. ASSUME NEW t \in Requests, Issued(t) PROVE t \in tokens' \cup blacklist'
    <3>1. t \in tokens \cup blacklist
      BY <2>1 DEF SessionsIInv, StoredOrRevoked
    <3> QED
      BY <1>1, <1>3, <3>1
  <2>2. \A t \in tokens' : t \in Requests /\ Issued(t)
    BY <1>1 DEF SessionsIInv, StoredOrRevoked, SessionsTypeOK
  <2> QED
    BY <1>8, <2>1, <2>2 DEF StoredOrRevoked
<1> QED
  BY <1>1, <1>4, <1>5, <1>6, <1>7, <1>8, <1>9, <1>10, <1>11, QuietStepKeeps

LEMMA IssueRowKeeps ==
    ASSUME SessionsIInv, NEW r \in Requests, IssueRow(r)
    PROVE  SessionsIInv'
<1>1. PICK to \in {"ok", "lost"} : Enter(r, to)
  BY DEF IssueRow, Answer
<1>2. /\ req[r].pc = "issue" /\ tokens' = tokens \cup {r}
      /\ UNCHANGED <<service, account, blacklist, expired>>
  BY DEF IssueRow
<1>3. /\ req[r].kind \in {"register", "login", "refresh"}
      /\ req[r].kind = "register" => service # "moderation"
  BY <1>2 DEF SessionsIInv, StagesFit, SessionsTypeOK, Kinds, Finished
<1>4. /\ SessionsTypeOK'
      /\ \A q \in Requests : q # r => req'[q] = req[q]
      /\ req'[r].pc = to /\ req'[r].kind = req[r].kind /\ req'[r].token = req[r].token
      /\ req'[r].chain = req[r].chain /\ req'[r].at = req[r].at
  <2>1. to \in Running \cup Finished /\ tokens' \subseteq Requests
        /\ blacklist' \subseteq Requests /\ SessionsTypeOK
        /\ account' \in [Emails -> {"absent", "active", "blocked"}]
    BY <1>2 DEF Finished, SessionsIInv, SessionsTypeOK
  <2> QED
    BY <1>1, <1>2, <2>1, GoChanges
<1>5. StagesFit'
  BY <1>2, <1>3, <1>4 DEF SessionsIInv, StagesFit, Finished
<1>6. \A q \in Requests : req'[q].chain = req[q].chain /\ req'[q].token = req[q].token
                          /\ req'[q].kind = req[q].kind
  BY <1>4
<1>7. \A q \in Requests : Issued(q)' <=> (Issued(q) \/ q = r)
  BY <1>2, <1>3, <1>4 DEF Issued
<1>8. \A q \in Requests : UsesUp(q)' <=> UsesUp(q)
  BY <1>2, <1>3, <1>4 DEF UsesUp
<1>9. \A q \in Requests : Carries(q)' => Carries(q) \/ q = r
  BY <1>2, <1>3, <1>4 DEF Carries, Live
<1>10. ~Issued(r)
  BY <1>2 DEF Issued
<1>11. TokensDescend'
  <2>1. ASSUME NEW q \in Requests PROVE Descends(q)'
    <3>1. Descends(q)
      BY DEF SessionsIInv, TokensDescend
    <3>2. CASE req[q].kind \in {"refresh", "logout"}
      <4>1. PICK t, c \in Requests : t = req[q].token /\ c = req[q].chain
        BY <3>1, <3>2 DEF Descends
      <4>2. Issued(t) /\ c = req[t].chain /\ Issued(c)
        BY <3>1, <3>2, <4>1 DEF Descends
      <4>3. Issued(t)' /\ Issued(c)'
        BY <4>2, <1>7
      <4> QED
        BY <1>6, <3>1, <3>2, <4>1, <4>2, <4>3 DEF Descends, Issued
    <3>3. CASE req[q].kind \notin {"refresh", "logout"}
      BY <3>1, <3>3, <1>6 DEF Descends
    <3> QED
      BY <3>2, <3>3
  <2> QED
    BY <2>1 DEF TokensDescend
<1>12. StoredOrRevoked'
  <2>1. \A t \in Requests : Issued(t) \/ t = r => t \in tokens' \cup blacklist'
    BY <1>2 DEF SessionsIInv, StoredOrRevoked
  <2>2. \A t \in tokens' : t \in Requests /\ (Issued(t) \/ t = r)
    BY <1>2 DEF SessionsIInv, StoredOrRevoked, SessionsTypeOK
  <2> QED
    BY <1>7, <2>1, <2>2 DEF StoredOrRevoked
<1>13. UsedAreRevoked' /\ TokenIsUsedOnce'
  BY <1>2, <1>6, <1>8 DEF SessionsIInv, UsedAreRevoked, TokenIsUsedOnce
<1>14. CASE req[r].kind = "refresh"
  <2>1. Carries(r)
    BY <1>2, <1>14 DEF Carries
  <2>2. OneCarrier' /\ LogoutEndsLogin'
    BY <1>6, <1>8, <1>9, <2>1 DEF SessionsIInv, OneCarrier, LogoutEndsLogin
  <2> QED
    BY <1>4, <1>5, <1>11, <1>12, <1>13, <2>2 DEF SessionsIInv
\* The first token of a login: nobody else belongs to it yet.
<1>15. CASE req[r].kind \in {"register", "login"}
  <2>1. req[r].chain = r
    BY <1>15 DEF SessionsIInv, TokensDescend, Descends
  <2>2. ASSUME NEW q \in Requests, q # r PROVE req[q].chain # r
    <3>1. CASE req[q].kind \in {"refresh", "logout"}
      BY <1>10, <3>1 DEF SessionsIInv, TokensDescend, Descends
    <3>2. CASE req[q].kind \in {"register", "login"}
      BY <2>2, <3>2 DEF SessionsIInv, TokensDescend, Descends
    <3>3. CASE req[q].kind = "none"
      BY <3>3, SessionsAssumption DEF SessionsIInv, StagesFit, SessionsTypeOK, Idle
    <3> QED
      BY <3>1, <3>2, <3>3 DEF SessionsIInv, SessionsTypeOK, Kinds
  <2>3. OneCarrier'
    BY <1>6, <1>9, <2>1, <2>2 DEF SessionsIInv, OneCarrier
  <2>4. LogoutEndsLogin'
    BY <1>6, <1>8, <1>9, <1>15, <2>1, <2>2 DEF SessionsIInv, LogoutEndsLogin
  <2> QED
    BY <1>4, <1>5, <1>11, <1>12, <1>13, <2>3, <2>4 DEF SessionsIInv
<1> QED
  BY <1>3, <1>14, <1>15

LEMMA DieKeeps ==
    ASSUME SessionsIInv, NEW r \in Requests, Die(r)
    PROVE  SessionsIInv'
<1>1. /\ req[r].pc \in Running /\ UNCHANGED <<service, account, tokens, blacklist, expired>>
      /\ req' = [req EXCEPT ![r].pc = "died", ![r].at = req[r].pc]
  BY DEF Die
<1>2. req'[r] = [req[r] EXCEPT !.pc = "died", !.at = req[r].pc]
  BY <1>1 DEF SessionsIInv, SessionsTypeOK
<1>3. /\ \A q \in Requests : q # r => req'[q] = req[q]
      /\ req'[r].pc = "died" /\ req'[r].kind = req[r].kind /\ req'[r].token = req[r].token
      /\ req'[r].chain = req[r].chain /\ req'[r].at = req[r].pc /\ req'[r].email = req[r].email
  BY <1>1, <1>2 DEF SessionsIInv, SessionsTypeOK
<1>4. SessionsTypeOK'
  <2>1. req' \in [Requests ->
            [kind : Kinds \cup {"none"}, email : Emails \cup {"none"},
             token : Requests \cup {NoToken}, chain : Requests \cup {NoToken},
             pc : Running \cup Finished \cup {"idle"}, at : Running \cup {"idle"}]]
    <3> DEFINE Request == [kind : Kinds \cup {"none"}, email : Emails \cup {"none"},
                 token : Requests \cup {NoToken}, chain : Requests \cup {NoToken},
                 pc : Running \cup Finished \cup {"idle"}, at : Running \cup {"idle"}]
    <3>1. req \in [Requests -> Request] /\ "died" \in Finished
      BY DEF SessionsIInv, SessionsTypeOK, Finished
    <3>2. [req[r] EXCEPT !.pc = "died", !.at = req[r].pc] \in Request
      BY <1>1, <3>1
    <3> HIDE DEF Request
    <3>3. req' \in [Requests -> Request]
      BY <1>1, <1>2, <1>3, <3>1, <3>2
    <3> QED
      BY <3>3 DEF Request
  <2> QED
    BY <1>1, <1>3, <2>1 DEF SessionsIInv, SessionsTypeOK, Running
<1>5. StagesFit'
  BY <1>1, <1>3 DEF SessionsIInv, StagesFit, SessionsTypeOK, Kinds, Running, Finished
<1>6. \A q \in Requests : req'[q].chain = req[q].chain /\ req'[q].token = req[q].token
  BY <1>3
<1>7. \A q \in Requests : req'[q].kind = req[q].kind
  BY <1>3
<1>8. \A q \in Requests : Issued(q)' <=> Issued(q)
  BY <1>1, <1>3 DEF Issued, Running
<1>9. \A q \in Requests : UsesUp(q)' <=> UsesUp(q)
  BY <1>1, <1>3 DEF UsesUp, Running
<1>10. \A q \in Requests : Carries(q)' => Carries(q)
  BY <1>1, <1>3 DEF Carries, Live
<1>11. StoredOrRevoked'
  BY <1>1, <1>8 DEF SessionsIInv, StoredOrRevoked, SessionsTypeOK
<1> QED
  BY <1>1, <1>4, <1>5, <1>6, <1>7, <1>8, <1>9, <1>10, <1>11, QuietStepKeeps

LEMMA OutsideKeeps ==
    ASSUME SessionsIInv,
           \/ UNCHANGED sessionsVars
           \/ \E e \in Emails : UpdateModerator(e)
           \/ \E t \in Requests : Expire(t)
    PROVE  SessionsIInv'
<1>1. UNCHANGED <<service, tokens, blacklist, req>>
  BY DEF sessionsVars, UpdateModerator, Expire
<1>2. SessionsTypeOK'
  <2>1. account' \in [Emails -> {"absent", "active", "blocked"}]
    BY DEF sessionsVars, UpdateModerator, Expire, SessionsIInv, SessionsTypeOK
  <2>2. expired' \subseteq Requests
    BY DEF sessionsVars, UpdateModerator, Expire, SessionsIInv, SessionsTypeOK
  <2> QED
    BY <1>1, <2>1, <2>2 DEF SessionsIInv, SessionsTypeOK
<1> QED
  BY <1>1, <1>2 DEF SessionsIInv, StagesFit, TokensDescend, Descends, StoredOrRevoked, Issued,
     UsedAreRevoked, UsesUp, TokenIsUsedOnce, OneCarrier, Carries, Live, LogoutEndsLogin

\* The steps before a token is used up or issued.
LEMMA EarlyStepKeeps ==
    ASSUME SessionsIInv, NEW r \in Requests,
           \/ CheckEmail(r) \/ CheckInn(r) \/ InsertAccount(r)
           \/ CheckBlacklist(r) \/ CheckRow(r) \/ CheckAccount(r)
    PROVE  SessionsIInv'
<1>1. PICK to \in Running \cup Finished :
        /\ Enter(r, to)
        /\ req[r].pc \in Running \ {"delete", "issue"}
        /\ \/ to \notin {"delete", "issue", "ok", "lost", "died"}
           \/ to = "issue" /\ req[r].kind \in {"login", "register"}
           \/ to \in {"ok", "lost"} /\ req[r].kind = "register" /\ service = "moderation"
        /\ \/ to \in {"refused", "failed"}
           \/ req[r].pc = "email" /\ to \in {"inn", "insert"}
           \/ req[r].pc = "inn" /\ to = "insert"
           \/ req[r].pc = "insert" /\ service # "moderation" /\ to = "issue"
           \/ req[r].pc = "insert" /\ service = "moderation" /\ to \in {"ok", "lost"}
           \/ req[r].pc = "blacklist" /\ req[r].kind = "logout" /\ to \in {"known", "revoke"}
           \/ req[r].pc = "blacklist" /\ req[r].kind # "logout" /\ to = "row"
           \/ req[r].pc = "row" /\ to = "account"
           \/ req[r].pc = "account" /\ req[r].kind = "login" /\ to = "issue"
           \/ req[r].pc = "account" /\ req[r].kind # "login" /\ to = "revoke"
  <2>0. req[r].pc \in {"email", "inn", "insert"} => req[r].kind = "register"
    BY DEF SessionsIInv, StagesFit, SessionsTypeOK, Kinds, Finished
  <2>1. CASE CheckEmail(r)
    BY <2>1 DEF CheckEmail, Running, Finished
  <2>2. CASE CheckInn(r)
    BY <2>2 DEF CheckInn, Running, Finished
  <2>3. CASE InsertAccount(r)
    BY <2>0, <2>3 DEF InsertAccount, Answer, Running, Finished
  <2>4. CASE CheckBlacklist(r)
    BY <2>4 DEF CheckBlacklist, Running, Finished
  <2>5. CASE CheckRow(r)
    BY <2>5 DEF CheckRow, Running, Finished
  <2>6. CASE CheckAccount(r)
    BY <2>6 DEF CheckAccount, Running, Finished
  <2> QED
    BY <2>1, <2>2, <2>3, <2>4, <2>5, <2>6
<1>2. /\ UNCHANGED <<service, tokens, blacklist, expired>>
      /\ account' \in [Emails -> {"absent", "active", "blocked"}]
  BY DEF CheckEmail, CheckInn, InsertAccount, CheckBlacklist, CheckRow, CheckAccount,
         SessionsIInv, SessionsTypeOK
<1>3. /\ \A q \in Requests : q # r => req'[q] = req[q]
      /\ req'[r].pc = to /\ req'[r].kind = req[r].kind /\ req'[r].at = req[r].at
  <2>1. req[r].pc # "idle" /\ tokens' \subseteq Requests /\ blacklist' \subseteq Requests
        /\ SessionsTypeOK
    BY <1>1, <1>2 DEF Running, SessionsIInv, SessionsTypeOK
  <2> QED
    BY <1>1, <1>2, <2>1, GoChanges
<1>4. StagesFit'
  <2>1. StagesFit /\ req[r].kind \in Kinds \cup {"none"}
    BY DEF SessionsIInv, SessionsTypeOK
  <2> QED
    BY <1>1, <1>2, <1>3, <2>1 DEF StagesFit, Running, Finished, Kinds
<1> QED
  BY <1>1, <1>2, <1>4, QuietGoKeeps

LEMMA SessionsNextKeeps == SessionsIInv /\ [SessionsNext]_sessionsVars => SessionsIInv'
<1> SUFFICES ASSUME SessionsIInv, [SessionsNext]_sessionsVars PROVE SessionsIInv'
  OBVIOUS
<1>1. ASSUME NEW r \in Requests, BeginRegister(r) \/ BeginLogin(r) PROVE SessionsIInv'
  BY <1>1, BeginKeeps DEF BeginRegister, BeginLogin
<1>2. ASSUME NEW r \in Requests, BeginRefresh(r) \/ BeginLogout(r) PROVE SessionsIInv'
  <2>1. PICK t \in Requests, kind \in {"refresh", "logout"} :
            Issued(t) /\ Begin(r, kind, req[t].email, t, req[t].chain, "blacklist")
    BY <1>2 DEF BeginRefresh, BeginLogout, Presentable
  <2>2. req[t].email \in Emails
    BY <2>1 DEF Issued, SessionsIInv, SessionsTypeOK
  <2> QED
    BY <2>1, <2>2, BeginKeeps
<1>3. ASSUME NEW r \in Requests, Revoke(r) \/ DeleteRow(r) \/ IssueRow(r) \/ Die(r)
      PROVE  SessionsIInv'
  BY <1>3, RevokeKeeps, DeleteRowKeeps, IssueRowKeeps, DieKeeps
<1>4. ASSUME \/ UNCHANGED sessionsVars
             \/ \E e \in Emails : UpdateModerator(e)
             \/ \E t \in Requests : Expire(t)
      PROVE  SessionsIInv'
  BY <1>4, OutsideKeeps
<1> QED
  BY <1>1, <1>2, <1>3, <1>4, EarlyStepKeeps DEF SessionsNext, Register, Login, Refresh, Logout

THEOREM SessionsAlwaysIInv == SessionsSpec => []SessionsIInv
BY SessionsInitIInv, SessionsNextKeeps, PTL DEF SessionsSpec

\* Every reachable state has the types of the model.
THEOREM SessionsTypeCorrect == SessionsSpec => []SessionsTypeOK
BY SessionsAlwaysIInv, PTL DEF SessionsIInv

\* refresh and logout use a token up once, whatever races.
THEOREM TokensAreUsedOnce == SessionsSpec => []TokenIsUsedOnce
BY SessionsAlwaysIInv, PTL DEF SessionsIInv

\* A login has one working token at most.
THEOREM LoginsHaveOneToken == SessionsSpec => []OneLiveTokenPerLogin
<1>1. SessionsIInv => OneLiveTokenPerLogin
  BY DEF SessionsIInv, OneCarrier, Carries, OneLiveTokenPerLogin
<1> QED
  BY <1>1, SessionsAlwaysIInv, PTL

\* A logout whose INSERT is in ends its login for good.
THEOREM LogoutsHold == SessionsSpec => []LogoutEndsLogin
BY SessionsAlwaysIInv, PTL DEF SessionsIInv

-----------------------------------------------------------------------------
(* Accounts: registrations have theirs, and only an insertion makes one.     *)

RegisteredHaveAccounts ==
    \A r \in Requests : Registered(r) => account[req[r].email] # "absent"

AccountsInv == AccountsAreUnique /\ RegisteredHaveAccounts

\* A step that neither makes an account nor ends a registration.
LEMMA OldAccountsKeep ==
    ASSUME AccountsInv,
           \A e \in Emails : account'[e] # "absent" <=> account[e] # "absent",
           UNCHANGED service,
           \A r \in Requests : Registered(r)' => Registered(r) /\ req'[r].email = req[r].email,
           SessionsTypeOK
    PROVE  AccountsInv'
<1>1. InnsUnique'
  BY DEF AccountsInv, AccountsAreUnique, InnsUnique
<1>2. \A r \in Requests : Registered(r) => req[r].email \in Emails
  BY DEF SessionsTypeOK, Registered
<1> QED
  BY <1>1, <1>2 DEF AccountsInv, AccountsAreUnique, RegisteredHaveAccounts

LEMMA InsertKeepsAccounts ==
    ASSUME SessionsIInv, AccountsInv, NEW r \in Requests, InsertAccount(r)
    PROVE  AccountsInv'
<1>1. /\ req[r].pc = "insert" /\ req[r].email \in Emails /\ UNCHANGED service
      /\ \A q \in Requests : q # r => req'[q] = req[q]
      /\ req'[r].email = req[r].email /\ req'[r].kind = req[r].kind
  BY DEF SessionsIInv, SessionsTypeOK, InsertAccount, Answer, Enter
<1>2. \A q \in Requests : q # r => (Registered(q)' <=> Registered(q))
  BY <1>1 DEF Registered
<1>3. CASE Taken(req[r].email)
  <2>1. account' = account /\ req'[r].pc = "failed"
    BY <1>3 DEF InsertAccount, Enter, SessionsIInv, SessionsTypeOK
  <2>2. ~Registered(r)'
    BY <2>1 DEF Registered
  <2> QED
    BY <1>1, <1>2, <2>1, <2>2, OldAccountsKeep DEF SessionsIInv
<1>4. CASE ~Taken(req[r].email)
  <2>1. account' = [account EXCEPT ![req[r].email] = "active"]
    BY <1>4 DEF InsertAccount
  <2>2. /\ account[req[r].email] = "absent" /\ account'[req[r].email] = "active"
        /\ \A e \in Emails : e # req[r].email => account'[e] = account[e]
    BY <1>1, <1>4, <2>1 DEF Taken, SessionsIInv, SessionsTypeOK
  <2>3. InnsUnique'
    BY <1>1, <1>4, <2>2 DEF Taken, InnTaken, AccountsInv, AccountsAreUnique, InnsUnique
  <2>4. \A q \in Requests : Registered(q) => req[q].email # req[r].email /\ req[q].email \in Emails
    BY <2>2 DEF AccountsInv, RegisteredHaveAccounts, SessionsIInv, SessionsTypeOK, Registered
  <2> QED
    BY <1>1, <1>2, <2>2, <2>3, <2>4 DEF AccountsInv, AccountsAreUnique, RegisteredHaveAccounts
<1> QED
  BY <1>3, <1>4

\* A request that begins or goes on without having been registered.
LEMMA OtherStepsKeepAccounts ==
    ASSUME SessionsIInv, AccountsInv, NEW r \in Requests,
           Register(r) \/ Login(r) \/ Refresh(r) \/ Logout(r) \/ IssueRow(r) \/ Die(r),
           ~InsertAccount(r)
    PROVE  AccountsInv'
<1>1. UNCHANGED <<service, account>>
  BY DEF Register, Login, Refresh, Logout, BeginRegister, BeginLogin, BeginRefresh, BeginLogout, Begin,
         CheckEmail, CheckInn, CheckBlacklist, CheckRow, CheckAccount, Revoke, DeleteRow, IssueRow, Die
<1>2. ASSUME NEW kind \in Kinds, NEW e, NEW t, NEW c, NEW pc \in {"email", "account", "blacklist"},
             Begin(r, kind, e, t, c, pc)
      PROVE  AccountsInv'
  <2>1. /\ \A q \in Requests : q # r => req'[q] = req[q]
        /\ req'[r].pc = pc
    BY <1>2 DEF Begin, SessionsIInv, SessionsTypeOK
  <2>2. \A q \in Requests : Registered(q)' => Registered(q) /\ req'[q].email = req[q].email
    BY <2>1 DEF Registered
  <2> QED
    BY <1>1, <2>2, OldAccountsKeep DEF SessionsIInv
<1>3. ASSUME NEW pc, Enter(r, pc),
             req[r].kind = "register" => req[r].pc = "issue" \/ pc \notin {"issue", "ok", "lost", "died"}
      PROVE  AccountsInv'
  <2>1. /\ \A q \in Requests : q # r => req'[q] = req[q]
        /\ req'[r].pc = pc /\ req'[r].email = req[r].email /\ req'[r].kind = req[r].kind
        /\ req'[r].at = req[r].at
    BY <1>3 DEF Enter, SessionsIInv, SessionsTypeOK
  <2>2. \A q \in Requests : Registered(q)' => Registered(q) /\ req'[q].email = req[q].email
    BY <1>3, <2>1 DEF Registered
  <2> QED
    BY <1>1, <2>2, OldAccountsKeep DEF SessionsIInv
<1>4. CASE Die(r)
  <2>1. /\ \A q \in Requests : q # r => req'[q] = req[q]
        /\ req'[r].pc = "died" /\ req'[r].email = req[r].email /\ req'[r].kind = req[r].kind
        /\ req'[r].at = req[r].pc
    BY <1>4 DEF Die, SessionsIInv, SessionsTypeOK
  <2>2. \A q \in Requests : Registered(q)' => Registered(q) /\ req'[q].email = req[q].email
    BY <2>1 DEF Registered
  <2> QED
    BY <1>1, <2>2, OldAccountsKeep DEF SessionsIInv
<1>5. CASE BeginRegister(r) \/ BeginLogin(r) \/ BeginRefresh(r) \/ BeginLogout(r)
  BY <1>2, <1>5 DEF BeginRegister, BeginLogin, BeginRefresh, BeginLogout, Kinds
<1>6. CASE CheckEmail(r) \/ CheckInn(r)
  BY <1>3, <1>6 DEF CheckEmail, CheckInn
<1>7. CASE CheckBlacklist(r) \/ CheckRow(r) \/ CheckAccount(r) \/ Revoke(r) \/ DeleteRow(r)
  <2>1. req[r].kind # "register"
    BY <1>7 DEF CheckBlacklist, CheckRow, CheckAccount, Revoke, DeleteRow, SessionsIInv, StagesFit, Finished
  <2>2. \E pc : Enter(r, pc)
    BY <1>7 DEF CheckBlacklist, CheckRow, CheckAccount, Revoke, DeleteRow, Answer
  <2> QED
    BY <1>3, <2>1, <2>2
<1>8. CASE IssueRow(r)
  BY <1>3, <1>8 DEF IssueRow, Answer
<1> QED
  BY <1>4, <1>5, <1>6, <1>7, <1>8 DEF Register, Login, Refresh, Logout

LEMMA NextKeepsAccounts == SessionsIInv /\ AccountsInv /\ [SessionsNext]_sessionsVars => AccountsInv'
<1> SUFFICES ASSUME SessionsIInv, AccountsInv, [SessionsNext]_sessionsVars PROVE AccountsInv'
  OBVIOUS
<1>1. CASE \/ UNCHANGED sessionsVars
           \/ \E e \in Emails : UpdateModerator(e)
           \/ \E t \in Requests : Expire(t)
  <2>1. /\ \A e \in Emails : account'[e] # "absent" <=> account[e] # "absent"
        /\ UNCHANGED <<service, req>>
    BY <1>1 DEF sessionsVars, UpdateModerator, Expire, SessionsIInv, SessionsTypeOK
  <2> QED
    BY <2>1, OldAccountsKeep DEF Registered, SessionsIInv
<1> QED
  BY <1>1, InsertKeepsAccounts, OtherStepsKeepAccounts DEF SessionsNext

\* register: no two sellers share an INN, and no email is registered twice.
THEOREM AccountsStayUnique == SessionsSpec => []AccountsAreUnique
<1>1. SessionsInit => AccountsInv
  BY DEF SessionsInit, Idle, AccountsInv, AccountsAreUnique, RegisteredHaveAccounts, Registered
<1>2. AccountsInv => AccountsAreUnique
  BY DEF AccountsInv
<1> QED
  BY <1>1, <1>2, NextKeepsAccounts, SessionsAlwaysIInv, PTL DEF SessionsSpec

-----------------------------------------------------------------------------
(* Why logins end.                                                           *)

\* What keeps a login going, or accounts for its end.
Reason(r) ==
    \/ Carries(r) /\ req[r].pc # "lost"
    \/ req[r].kind = "logout" /\ UsesUp(r)
    \/ req[r].kind = "refresh" /\ UsesUp(r) /\ req[r].pc \in {"died", "lost"}

\* A login whose client got a token.
Given(c) == req[c].chain = c /\ Issued(c) /\ req[c].pc = "ok"

RevokedWereIssued == \A t \in blacklist : Issued(t)

ReasonInv ==
    /\ RevokedWereIssued
    /\ \A c \in Requests : Given(c) => \E r \in Requests : req[r].chain = c /\ Reason(r)

LEMMA InitReasonInv == SessionsInit => ReasonInv
BY DEF SessionsInit, ReasonInv, RevokedWereIssued, Given, Issued, Idle

\* A step at which every reason stays one, or hands over to one of its login.
LEMMA HandingOnKeeps ==
    ASSUME ReasonInv, RevokedWereIssued',
           \A q \in Requests : Reason(q) =>
                \E r \in Requests : Reason(r)' /\ req'[r].chain = req[q].chain,
           \A c \in Requests : Given(c)' => Given(c) \/ Reason(c)'
    PROVE  ReasonInv'
<1>1. ASSUME NEW c \in Requests, Given(c)'
      PROVE  \E r \in Requests : req'[r].chain = c /\ Reason(r)'
  <2>1. CASE Given(c)
    BY <2>1 DEF ReasonInv
  <2>2. CASE Reason(c)'
    BY <1>1, <2>2 DEF Given
  <2> QED
    BY <1>1, <2>1, <2>2
<1> QED
  BY <1>1 DEF ReasonInv

\* A step of one request that is no reason, becomes no login and revokes nothing.
LEMMA PlainStepKeeps ==
    ASSUME SessionsIInv, ReasonInv, NEW r \in Requests,
           \A q \in Requests : q # r => req'[q] = req[q],
           UNCHANGED <<service, tokens, blacklist>>,
           ~Reason(r), ~Issued(r), ~Given(r)'
    PROVE  ReasonInv'
<1>1. \A q \in Requests : q # r => (Issued(q)' <=> Issued(q)) /\ (Given(q)' <=> Given(q))
  BY DEF Issued, Given
<1>2. RevokedWereIssued'
  BY <1>1 DEF ReasonInv, RevokedWereIssued, SessionsIInv, SessionsTypeOK
<1>3. \A q \in Requests : Reason(q) => Reason(q)' /\ req'[q].chain = req[q].chain
  BY DEF Reason, Carries, Live, UsesUp
<1> QED
  BY <1>1, <1>2, <1>3, HandingOnKeeps

LEMMA BeginKeepsReasons ==
    ASSUME SessionsIInv, ReasonInv, NEW r \in Requests, NEW kind, NEW e, NEW token, NEW chain, NEW pc,
           Begin(r, kind, e, token, chain, pc), pc \in Running
    PROVE  ReasonInv'
<1>1. /\ req[r].pc = "idle"
      /\ \A q \in Requests : q # r => req'[q] = req[q]
      /\ UNCHANGED <<service, tokens, blacklist>>
      /\ req'[r].pc = pc
  BY DEF Begin, SessionsIInv, SessionsTypeOK
<1>2. ~Issued(r) /\ r \notin tokens
  BY <1>1 DEF Issued, SessionsIInv, StoredOrRevoked
<1>3. ~Reason(r)
  BY <1>1, <1>2 DEF Reason, Carries, Live, UsesUp
<1>4. ~Given(r)'
  BY <1>1 DEF Given, Running
<1> QED
  BY <1>1, <1>2, <1>3, <1>4, PlainStepKeeps

LEMMA EarlyKeepsReasons ==
    ASSUME SessionsIInv, ReasonInv, NEW r \in Requests,
           \/ CheckEmail(r) \/ CheckInn(r) \/ InsertAccount(r)
           \/ CheckBlacklist(r) \/ CheckRow(r) \/ CheckAccount(r)
           \/ Revoke(r) /\ req[r].token \in blacklist
    PROVE  ReasonInv'
<1>1. PICK to \in Running \cup Finished :
        /\ Enter(r, to)
        /\ to \in {"ok", "lost"} => req[r].kind = "register" /\ service = "moderation"
  <2>1. req[r].pc = "insert" => req[r].kind = "register"
    BY DEF SessionsIInv, StagesFit, SessionsTypeOK, Kinds, Finished
  <2> QED
    BY <2>1 DEF CheckEmail, CheckInn, InsertAccount, CheckBlacklist, CheckRow, CheckAccount,
                Revoke, Answer, Running, Finished
<1>2. /\ req[r].pc \in {"email", "inn", "insert", "blacklist", "row", "account", "revoke"}
      /\ UNCHANGED <<service, tokens, blacklist>>
  BY DEF CheckEmail, CheckInn, InsertAccount, CheckBlacklist, CheckRow, CheckAccount, Revoke
<1>3. /\ \A q \in Requests : q # r => req'[q] = req[q]
      /\ req'[r].pc = to /\ req'[r].kind = req[r].kind
  BY <1>1 DEF Enter, SessionsIInv, SessionsTypeOK
<1>4. ~Issued(r) /\ r \notin tokens
  BY <1>2 DEF Issued, SessionsIInv, StoredOrRevoked
<1>5. ~Reason(r)
  BY <1>2, <1>4 DEF Reason, Carries, Live, UsesUp
<1>6. ~Given(r)'
  BY <1>1, <1>2, <1>3 DEF Given, Issued
<1> QED
  BY <1>2, <1>3, <1>4, <1>5, <1>6, PlainStepKeeps

\* A token is revoked by a logout, which is a reason, or by its heir, which is one too.
LEMMA RevokeKeepsReasons ==
    ASSUME SessionsIInv, ReasonInv, NEW r \in Requests, Revoke(r), req[r].token \notin blacklist
    PROVE  ReasonInv'
<1>1. PICK t \in Requests :
          /\ t = req[r].token /\ t # r /\ Live(t) /\ req[t].chain = req[r].chain
          /\ req[r].kind \in {"refresh", "logout"}
  BY TokenOfRevokeIsLive DEF Revoke
<1>2. PICK to \in {"delete", "ok", "lost"} :
          Enter(r, to) /\ (req[r].kind = "refresh" <=> to = "delete")
  BY <1>1 DEF Revoke, Answer
<1>3. /\ blacklist' = blacklist \cup {t} /\ UNCHANGED <<service, tokens>> /\ req[r].pc = "revoke"
  BY <1>1 DEF Revoke
<1>4. /\ \A q \in Requests : q # r => req'[q] = req[q]
      /\ req'[r].pc = to /\ req'[r].kind = req[r].kind /\ req'[r].chain = req[r].chain
  BY <1>2 DEF Enter, SessionsIInv, SessionsTypeOK
<1>5. \A q \in Requests : Issued(q)' <=> Issued(q)
  BY <1>1, <1>2, <1>3, <1>4 DEF Issued
<1>6. RevokedWereIssued'
  <2>1. Issued(t) /\ blacklist \subseteq Requests
    BY <1>1 DEF Live, SessionsIInv, StoredOrRevoked, SessionsTypeOK
  <2> QED
    BY <1>3, <1>5, <2>1 DEF ReasonInv, RevokedWereIssued
<1>7. Reason(r)'
  BY <1>1, <1>2, <1>4 DEF Reason, Carries, UsesUp
<1>8. ASSUME NEW q \in Requests, q # r, q # t, Reason(q)
      PROVE  Reason(q)' /\ req'[q].chain = req[q].chain
  BY <1>3, <1>4, <1>8 DEF Reason, Carries, Live, UsesUp
<1>9. \A q \in Requests : Reason(q) =>
          \E p \in Requests : Reason(p)' /\ req'[p].chain = req[q].chain
  BY <1>1, <1>4, <1>7, <1>8
<1>10. \A c \in Requests : Given(c)' => Given(c) \/ Reason(c)'
  BY <1>4, <1>5, <1>7 DEF Given
<1> QED
  BY <1>6, <1>9, <1>10, HandingOnKeeps

LEMMA DeleteRowKeepsReasons ==
    ASSUME SessionsIInv, ReasonInv, NEW r \in Requests, DeleteRow(r)
    PROVE  ReasonInv'
<1>1. /\ Enter(r, "issue") /\ req[r].pc = "delete" /\ tokens' = tokens \ {req[r].token}
      /\ UNCHANGED <<service, blacklist>>
  BY DEF DeleteRow
<1>2. req[r].kind = "refresh" /\ req[r].token \in blacklist
  BY <1>1 DEF SessionsIInv, StagesFit, SessionsTypeOK, Kinds, Finished, UsedAreRevoked, UsesUp
<1>3. /\ \A q \in Requests : q # r => req'[q] = req[q]
      /\ req'[r].pc = "issue" /\ req'[r].kind = req[r].kind /\ req'[r].chain = req[r].chain
  BY <1>1 DEF Enter, SessionsIInv, SessionsTypeOK
<1>4. \A q \in Requests : Issued(q)' <=> Issued(q)
  BY <1>1, <1>3 DEF Issued
<1>5. RevokedWereIssued'
  BY <1>1, <1>4 DEF ReasonInv, RevokedWereIssued, SessionsIInv, SessionsTypeOK
<1>6. \A q \in Requests : Live(q) => Live(q)'
  BY <1>1, <1>2 DEF Live
<1>7. \A q \in Requests : Reason(q) => Reason(q)' /\ req'[q].chain = req[q].chain
  BY <1>2, <1>3, <1>6 DEF Reason, Carries, UsesUp
<1>8. \A c \in Requests : Given(c)' => Given(c)
  BY <1>3, <1>4 DEF Given
<1> QED
  BY <1>5, <1>7, <1>8, HandingOnKeeps

\* The new token works, or nobody learns of it and the refresh was lost.
LEMMA IssueRowKeepsReasons ==
    ASSUME SessionsIInv, ReasonInv, NEW r \in Requests, IssueRow(r)
    PROVE  ReasonInv'
<1>1. PICK to \in {"ok", "lost"} : Enter(r, to)
  BY DEF IssueRow, Answer
<1>2. /\ req[r].pc = "issue" /\ tokens' = tokens \cup {r}
      /\ UNCHANGED <<service, blacklist>>
  BY DEF IssueRow
<1>3. req[r].kind \in {"register", "login", "refresh"}
  BY <1>2 DEF SessionsIInv, StagesFit, SessionsTypeOK, Kinds, Finished
<1>4. /\ \A q \in Requests : q # r => req'[q] = req[q]
      /\ req'[r].pc = to /\ req'[r].kind = req[r].kind /\ req'[r].chain = req[r].chain
  BY <1>1 DEF Enter, SessionsIInv, SessionsTypeOK
<1>5. ~Issued(r) /\ r \notin blacklist
  BY <1>2 DEF Issued, ReasonInv, RevokedWereIssued
<1>6. \A q \in Requests : Issued(q) => Issued(q)'
  BY <1>2, <1>4, <1>5 DEF Issued
<1>7. RevokedWereIssued'
  BY <1>2, <1>6 DEF ReasonInv, RevokedWereIssued, SessionsIInv, SessionsTypeOK
<1>8. to = "ok" => Reason(r)'
  BY <1>2, <1>4, <1>5 DEF Reason, Carries, Live
<1>9. to = "lost" /\ req[r].kind = "refresh" => Reason(r)'
  BY <1>4 DEF Reason, UsesUp
<1>10. Reason(r) => req[r].kind = "refresh"
  <2>1. r \notin tokens
    BY <1>5 DEF SessionsIInv, StoredOrRevoked
  <2> QED
    BY <1>3, <2>1 DEF Reason, Carries, Live
<1>11. \A q \in Requests : q # r /\ Reason(q) => Reason(q)' /\ req'[q].chain = req[q].chain
  BY <1>2, <1>4 DEF Reason, Carries, Live, UsesUp
<1>12. \A q \in Requests : Reason(q) =>
          \E p \in Requests : Reason(p)' /\ req'[p].chain = req[q].chain
  BY <1>4, <1>8, <1>9, <1>10, <1>11
<1>13. \A c \in Requests : Given(c)' => Given(c) \/ Reason(c)'
  <2>1. Given(r)' => Reason(r)'
    BY <1>4, <1>8 DEF Given
  <2>2. \A c \in Requests : c # r /\ Given(c)' => Given(c)
    BY <1>2, <1>4 DEF Given, Issued
  <2> QED
    BY <2>1, <2>2
<1> QED
  BY <1>7, <1>12, <1>13, HandingOnKeeps

LEMMA DieKeepsReasons ==
    ASSUME SessionsIInv, ReasonInv, NEW r \in Requests, Die(r)
    PROVE  ReasonInv'
<1>1. /\ req[r].pc \in Running /\ UNCHANGED <<service, tokens, blacklist>>
      /\ req' = [req EXCEPT ![r].pc = "died", ![r].at = req[r].pc]
  BY DEF Die
<1>2. req'[r] = [req[r] EXCEPT !.pc = "died", !.at = req[r].pc]
  BY <1>1 DEF SessionsIInv, SessionsTypeOK
<1>3. /\ \A q \in Requests : q # r => req'[q] = req[q]
      /\ req'[r].pc = "died" /\ req'[r].kind = req[r].kind
      /\ req'[r].chain = req[r].chain /\ req'[r].at = req[r].pc
  BY <1>1, <1>2 DEF SessionsIInv, SessionsTypeOK
<1>4. ~Issued(r) /\ r \notin tokens
  BY <1>1 DEF Issued, Running, SessionsIInv, StoredOrRevoked
<1>5. \A q \in Requests : Issued(q)' <=> Issued(q)
  BY <1>1, <1>3, <1>4 DEF Issued
<1>6. RevokedWereIssued'
  BY <1>1, <1>5 DEF ReasonInv, RevokedWereIssued, SessionsIInv, SessionsTypeOK
<1>7. Reason(r) => Reason(r)'
  <2>1. ASSUME Reason(r) PROVE req[r].kind = "refresh" /\ req[r].pc \in {"delete", "issue"}
    <3>1. req[r].kind = "logout" => req[r].pc \in {"blacklist", "revoke"}
      BY <1>1 DEF SessionsIInv, StagesFit, Running, Finished
    <3> QED
      BY <1>1, <1>4, <2>1, <3>1 DEF Reason, Carries, Live, UsesUp, Running
  <2> QED
    BY <1>3, <2>1 DEF Reason, UsesUp
<1>8. \A q \in Requests : Reason(q) => Reason(q)' /\ req'[q].chain = req[q].chain
  <2>1. \A q \in Requests : q # r /\ Reason(q) => Reason(q)' /\ req'[q].chain = req[q].chain
    BY <1>1, <1>3 DEF Reason, Carries, Live, UsesUp
  <2> QED
    BY <1>3, <1>7, <2>1
<1>9. \A c \in Requests : Given(c)' => Given(c)
  BY <1>3, <1>5 DEF Given
<1> QED
  BY <1>6, <1>8, <1>9, HandingOnKeeps

LEMMA StepKeepsReasons == SessionsIInv /\ ReasonInv /\ [SessionsNext]_sessionsVars => ReasonInv'
<1> SUFFICES ASSUME SessionsIInv, ReasonInv, [SessionsNext]_sessionsVars PROVE ReasonInv'
  OBVIOUS
<1>1. ASSUME NEW r \in Requests,
             BeginRegister(r) \/ BeginLogin(r) \/ BeginRefresh(r) \/ BeginLogout(r)
      PROVE  ReasonInv'
  BY <1>1, BeginKeepsReasons DEF BeginRegister, BeginLogin, BeginRefresh, BeginLogout, Running
<1>2. ASSUME NEW r \in Requests, Revoke(r) PROVE ReasonInv'
  BY <1>2, EarlyKeepsReasons, RevokeKeepsReasons
<1>3. ASSUME \/ UNCHANGED sessionsVars
             \/ \E e \in Emails : UpdateModerator(e)
             \/ \E t \in Requests : Expire(t)
      PROVE  ReasonInv'
  <2>1. UNCHANGED <<service, tokens, blacklist, req>>
    BY <1>3 DEF sessionsVars, UpdateModerator, Expire
  <2> QED
    BY <2>1 DEF ReasonInv, RevokedWereIssued, Given, Issued, Reason, Carries, Live, UsesUp
<1> QED
  BY <1>1, <1>2, <1>3, EarlyKeepsReasons, DeleteRowKeepsReasons, IssueRowKeepsReasons, DieKeepsReasons
     DEF SessionsNext, Register, Login, Refresh, Logout

\* refresh revokes before it stores, yet a login whose client got a token ends only
\* by a logout, or by a refresh that died in between or whose answer was lost.
THEOREM EndedLoginsHaveReasons == SessionsSpec => []LoginsEndForAReason
<1>1. ReasonInv => LoginsEndForAReason
  BY DEF ReasonInv, Given, Reason, LoginsEndForAReason
<1> QED
  BY <1>1, InitReasonInv, StepKeepsReasons, SessionsAlwaysIInv, PTL DEF SessionsSpec
=============================================================================
