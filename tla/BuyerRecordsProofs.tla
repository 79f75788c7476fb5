-------------------------- MODULE BuyerRecordsProofs --------------------------
(***************************************************************************)
(* Proofs about BuyerRecords, for any number of requests and rows.         *)
(***************************************************************************)
EXTENDS BuyerRecords, TLAPS

Done(r) == req[r].pc \in Finished
Defaults(r) == req[r].op \in {"create", "update"} /\ req[r].flag

\* What precedes a request has ended.
BeforeIsEnded == \A r \in Requests : \A q \in req[r].before : q \in Requests /\ Done(q)

\* Each kind of request is about its kind of thing, and passes its stages.
Fits(r) ==
    /\ req[r].op = "none" <=> req[r].pc = "idle"
    /\ req[r].op = "create" => req[r].on = r /\ req[r].pc # "unset"
    /\ req[r].op = "create" /\ req[r].pc = "write" => req[r].flag
    /\ req[r].op \in {"update", "delete"} => req[r].on \in Names
    /\ req[r].op = "delete" => ~req[r].flag
    /\ req[r].op \in {"add", "remove"} => req[r].on \in Lists
    /\ req[r].op = "remove" => req[r].pc \in {"ok", "known"}
    /\ req[r].pc = "unset" => req[r].op = "update" /\ req[r].flag

RequestsFit == \A r \in Requests : Fits(r)

\* A row is default by the request that made it so, which is done, or from before.
SettersAreDone ==
    \A x \in Names : default[x] # None =>
        \/ default[x] \in OldRows
        \/ default[x] \in Requests /\ Defaults(default[x])
              /\ req[default[x]].on = x /\ req[default[x]].pc = "ok"

OneOldDefault ==
    \A x, y \in Names : default[x] \in OldRows /\ default[y] \in OldRows => x = y

\* Between unset and write: another default row is of a request that was under way.
OthersAreLater ==
    \A r \in Requests : Defaults(r) /\ req[r].pc = "write" =>
        \A y \in Names \ {req[r].on} :
            default[y] # None => default[y] \in Requests /\ default[y] \notin req[r].before

\* A row of a list is there by an addition, which is done.
MarksAreAdded ==
    \A l \in Lists : mark[l] # None =>
        /\ mark[l] \in Requests
        /\ req[mark[l]].op = "add" /\ req[mark[l]].on = l /\ req[mark[l]].pc = "ok"

\* Between lookup and INSERT: a row that is there is of an addition under way.
MarksAreLater ==
    \A r \in Requests : req[r].op = "add" /\ req[r].pc = "write" /\ mark[req[r].on] # None =>
        mark[req[r].on] \notin req[r].before

IInv ==
    /\ TypeOK
    /\ BeforeIsEnded
    /\ RequestsFit
    /\ SettersAreDone
    /\ OneOldDefault
    /\ OthersAreLater
    /\ TwoDefaultsWereRaced
    /\ LastWordCounts
    /\ MarksAreAdded
    /\ MarksAreLater
    /\ FailedAddWasRaced
    /\ AnsweredMarksHold

-----------------------------------------------------------------------------
LEMMA Apart ==
    /\ Requests \cap OldRows = {} /\ None \notin Requests /\ None \notin OldRows
    /\ None \notin Names /\ Requests \subseteq Names /\ OldRows \subseteq Names
BY RecordsAssumption DEF Names

LEMMA InitIInv == Init => IInv
<1> SUFFICES ASSUME Init PROVE IInv
  OBVIOUS
<1> USE Apart DEF Init, Idle, Finished
<1>1. TypeOK
  BY DEF TypeOK, Names, Ops
<1>2. BeforeIsEnded /\ RequestsFit /\ OthersAreLater /\ LastWordCounts
  BY DEF BeforeIsEnded, RequestsFit, Fits, OthersAreLater, LastWordCounts, Defaults
<1>3. PICK d \in OldRows \cup {None} : default = [x \in Names |-> IF x = d THEN x ELSE None]
  OBVIOUS
<1>4. SettersAreDone /\ OneOldDefault /\ TwoDefaultsWereRaced
  BY <1>3 DEF SettersAreDone, OneOldDefault, TwoDefaultsWereRaced
<1>5. MarksAreAdded /\ MarksAreLater /\ FailedAddWasRaced /\ AnsweredMarksHold
  BY DEF MarksAreAdded, MarksAreLater, FailedAddWasRaced, AnsweredMarksHold
<1> QED
  BY <1>1, <1>2, <1>4, <1>5 DEF IInv

-----------------------------------------------------------------------------
(* In each step one request moves: it begins, or goes on to another stage.   *)

ReqType ==
    req \in [Requests ->
            [op : Ops \cup {"none"}, on : Names \cup Lists \cup {None}, flag : BOOLEAN,
             before : SUBSET Requests, pc : Running \cup Finished \cup {"idle"}]]

Moves(r) ==
    /\ ReqType'
    /\ \A q \in Requests : q # r => req'[q] = req[q]
    /\ req'[r].pc # "idle"
    /\ \/ req[r].pc = "idle" /\ req'[r].before = Ended
       \/ /\ req[r].pc \in Running
          /\ req'[r].op = req[r].op /\ req'[r].on = req[r].on
          /\ req'[r].flag = req[r].flag /\ req'[r].before = req[r].before

LEMMA BeginsMoves ==
    ASSUME IInv, NEW r \in Requests, NEW op \in Ops, NEW x \in Names \cup Lists,
           NEW flag \in BOOLEAN, NEW to \in Running \cup Finished, Begins(r, op, x, flag, to)
    PROVE  /\ Moves(r)
           /\ req'[r].op = op /\ req'[r].on = x /\ (req'[r].flag <=> flag) /\ req'[r].pc = to
<1>1. to # "idle"
  BY DEF Running, Finished
<1>2. ReqType' /\ \A q \in Requests : q # r => req'[q] = req[q]
  BY DEF IInv, TypeOK, Begins, Ended, ReqType
<1>3. req[r].pc = "idle" /\ req'[r] = [op |-> op, on |-> x, flag |-> flag, before |-> Ended, pc |-> to]
  BY DEF IInv, TypeOK, Begins
<1> QED
  BY <1>1, <1>2, <1>3 DEF Moves

LEMMA GoMoves ==
    ASSUME IInv, NEW r \in Requests, NEW to \in Running \cup Finished, Go(r, to),
           req[r].pc \in Running
    PROVE  Moves(r) /\ req'[r] = [req[r] EXCEPT !.pc = to]
<1>1. to # "idle"
  BY DEF Running, Finished
<1>2. req'[r] = [req[r] EXCEPT !.pc = to] /\ ReqType'
  BY DEF IInv, TypeOK, Go, ReqType
<1> QED
  BY <1>1, <1>2 DEF IInv, TypeOK, Go, Moves

\* Who moves has not ended, so that nobody has it before; who had ended stays so.
LEMMA MovesKeeps ==
    ASSUME IInv, NEW r \in Requests, Moves(r)
    PROVE  /\ BeforeIsEnded'
           /\ ~Done(r)
           /\ \A q \in Requests : r \notin req[q].before /\ r \notin req'[q].before
           /\ \A q \in Requests : Done(q) => q # r /\ req'[q] = req[q]
<1>1. ~Done(r)
  BY DEF Moves, Done, Running, Finished
<1>2. \A q \in Requests : Done(q) => q # r /\ req'[q] = req[q]
  BY <1>1 DEF Moves
<1>3. \A q \in Requests : req'[q].before = req[q].before \/ req'[q].before = Ended
  BY DEF Moves
<1>4. \A q \in Requests : \A p \in req'[q].before : p \in Requests /\ Done(p)
  BY <1>3 DEF IInv, BeforeIsEnded, Ended, Done
<1>5. \A p \in Requests : Done(p) => Done(p)'
  BY <1>2 DEF Done
<1>6. BeforeIsEnded'
  BY <1>4, <1>5 DEF BeforeIsEnded
<1> QED
  BY <1>1, <1>2, <1>4, <1>6 DEF IInv, BeforeIsEnded

\* Where both had ended, or neither moves, one precedes the other as before.
LEMMA PrecedesStays ==
    ASSUME NEW r \in Requests, Moves(r), NEW p, NEW q \in Requests, q # r
    PROVE  Precedes(p, q)' <=> Precedes(p, q)
BY DEF Moves, Precedes

-----------------------------------------------------------------------------
(* The two halves of the invariant: the rows, and the lists.                 *)

RowsInv == SettersAreDone /\ OneOldDefault /\ OthersAreLater /\ TwoDefaultsWereRaced /\ LastWordCounts
ListsInv == MarksAreAdded /\ MarksAreLater /\ FailedAddWasRaced /\ AnsweredMarksHold

\* What was said of the requests that were first to last stays true of any step.
LEMMA LastWordStays ==
    ASSUME IInv, NEW r \in Requests, Moves(r), NEW q \in Requests, q # r,
           Defaults(q)', req'[q].pc = "ok",
           \A p \in Requests \ {q} : Began(p)' => Precedes(p, q)'
    PROVE  FALSE
<1>1. Began(r)'
  BY DEF Moves, Began
<1>2. Precedes(r, q)'
  BY <1>1
<1>3. r \in req'[q].before
  BY <1>2, Apart DEF Precedes
<1> QED
  BY <1>3, MovesKeeps

\* A step that gives no default, though it may take some.
LEMMA FewerDefaults ==
    ASSUME IInv, NEW r \in Requests, Moves(r),
           \A x \in Names : default'[x] \in {default[x], None},
           Defaults(r)' => req'[r].pc # "ok",
           Defaults(r)' /\ req'[r].pc = "write" =>
                \A y \in Names \ {req'[r].on} : default'[y] = None
    PROVE  RowsInv'
<1> USE Apart
<1>1. \A q \in Requests : Done(q) => q # r /\ req'[q] = req[q]
  BY MovesKeeps
<1>2. \A q \in Requests : q # r => req'[q] = req[q]
  BY DEF Moves
<1>3. SettersAreDone'
  BY <1>1 DEF IInv, SettersAreDone, Defaults, Done, Finished
<1>4. OneOldDefault'
  BY DEF IInv, OneOldDefault
<1>5. OthersAreLater'
  <2> SUFFICES ASSUME NEW q \in Requests, Defaults(q)', req'[q].pc = "write",
                      NEW y \in Names \ {req'[q].on}, default'[y] # None
               PROVE  default'[y] \in Requests /\ default'[y] \notin req'[q].before
    BY DEF OthersAreLater
  <2>1. q # r
    OBVIOUS
  <2>2. Defaults(q) /\ default'[y] = default[y] /\ req'[q] = req[q]
    BY <1>2, <2>1 DEF Defaults
  <2> QED
    BY <2>2 DEF IInv, OthersAreLater
<1>6. TwoDefaultsWereRaced'
  <2>1. \A x \in Names : default[x] # None =>
            default[x] \in OldRows \/ (default[x] \in Requests /\ default[x] # r)
    BY <1>1 DEF IInv, SettersAreDone, Done, Finished
  <2> QED
    BY <1>2, <2>1 DEF IInv, TwoDefaultsWereRaced, Raced, Precedes
<1>7. LastWordCounts'
  <2> SUFFICES ASSUME NEW q \in Requests, Defaults(q)', req'[q].pc = "ok",
                      \A p \in Requests \ {q} : Began(p)' => Precedes(p, q)'
               PROVE  FALSE
    BY DEF LastWordCounts, Defaults
  <2>1. q # r
    OBVIOUS
  <2> QED
    BY <2>1, LastWordStays
<1> QED
  BY <1>3, <1>4, <1>5, <1>6, <1>7 DEF RowsInv

\* A request makes its row the default, having unset the others.
LEMMA DefaultGiven ==
    ASSUME IInv, NEW r \in Requests, Moves(r), Defaults(r), req[r].pc = "write",
           NEW x \in Names, x = req[r].on, default' = [default EXCEPT ![x] = r],
           req'[r].pc = "ok"
    PROVE  RowsInv'
<1> USE Apart
<1>1. \A q \in Requests : Done(q) => q # r /\ req'[q] = req[q]
  BY MovesKeeps
<1>2. \A q \in Requests : q # r => req'[q] = req[q]
  BY DEF Moves
<1>3. Defaults(r)' /\ req'[r].on = x /\ req'[r].before = req[r].before
  BY DEF Moves, Defaults
<1>4. default'[x] = r /\ \A y \in Names : y # x => default'[y] = default[y]
  BY DEF IInv, TypeOK
<1>5. \A y \in Names : y # x /\ default[y] # None =>
        /\ default[y] \in Requests /\ default[y] \notin req[r].before
        /\ default[y] # r /\ Done(default[y]) /\ r \notin req[default[y]].before
  <2> SUFFICES ASSUME NEW y \in Names, y # x, default[y] # None
               PROVE  /\ default[y] \in Requests /\ default[y] \notin req[r].before
                      /\ default[y] # r /\ Done(default[y]) /\ r \notin req[default[y]].before
    OBVIOUS
  <2>1. default[y] \in Requests /\ default[y] \notin req[r].before
    BY DEF IInv, OthersAreLater
  <2>2. Done(default[y])
    BY <2>1 DEF IInv, SettersAreDone, Done, Finished
  <2> QED
    BY <1>1, <2>1, <2>2, MovesKeeps
<1>6. SettersAreDone'
  <2> SUFFICES ASSUME NEW y \in Names, NEW p, p = default'[y], p # None
               PROVE  \/ p \in OldRows
                      \/ /\ p \in Requests
                         /\ req'[p].op \in {"create", "update"} /\ req'[p].flag
                         /\ req'[p].on = y /\ req'[p].pc = "ok"
    BY DEF SettersAreDone, Defaults
  <2>1. CASE y = x
    BY <1>3, <1>4, <2>1 DEF Defaults
  <2>2. CASE y # x
    BY <1>1, <1>4, <1>5, <2>2 DEF IInv, SettersAreDone, Defaults
  <2> QED
    BY <2>1, <2>2
<1>7. OneOldDefault'
  BY <1>4 DEF IInv, OneOldDefault
<1>8. OthersAreLater'
  <2> SUFFICES ASSUME NEW q \in Requests, Defaults(q)', req'[q].pc = "write",
                      NEW y \in Names \ {req'[q].on}, default'[y] # None
               PROVE  default'[y] \in Requests /\ default'[y] \notin req'[q].before
    BY DEF OthersAreLater
  <2>1. q # r
    OBVIOUS
  <2>2. Defaults(q) /\ req'[q] = req[q]
    BY <1>2, <2>1 DEF Defaults
  <2>3. r \notin req'[q].before
    BY MovesKeeps
  <2> QED
    BY <1>4, <2>2, <2>3 DEF IInv, OthersAreLater
<1>9. TwoDefaultsWereRaced'
  <2> SUFFICES ASSUME NEW y \in Names, NEW z \in Names, y # z,
                      NEW p, p = default'[y], p # None, NEW q, q = default'[z], q # None
               PROVE  Raced(p, q)'
    BY DEF TwoDefaultsWereRaced, Raced, Precedes
  <2>1. CASE y # x /\ z # x
    <3>1. p = default[y] /\ q = default[z]
      BY <1>4, <2>1
    <3>2. Raced(p, q)
      BY <3>1 DEF IInv, TwoDefaultsWereRaced
    <3>3. p \in Requests /\ q \in Requests /\ p # r /\ q # r
      BY <1>5, <2>1, <3>1
    <3> QED
      BY <1>2, <3>2, <3>3 DEF Raced, Precedes
  <2>2. CASE y = x
    <3>1. p = r /\ q = default[z] /\ z # x
      BY <1>4, <2>2
    <3>2. q \in Requests /\ q \notin req'[r].before /\ r \notin req'[q].before
      BY <1>1, <1>3, <1>5, <3>1
    <3> QED
      BY <3>1, <3>2 DEF Raced, Precedes
  <2>3. CASE z = x
    <3>1. q = r /\ p = default[y] /\ y # x
      BY <1>4, <2>3
    <3>2. p \in Requests /\ p \notin req'[r].before /\ r \notin req'[p].before
      BY <1>1, <1>3, <1>5, <3>1
    <3> QED
      BY <3>1, <3>2 DEF Raced, Precedes
  <2> QED
    BY <2>1, <2>2, <2>3
<1>10. LastWordCounts'
  <2> SUFFICES ASSUME NEW q \in Requests, Defaults(q)', req'[q].pc = "ok",
                      \A p \in Requests \ {q} : Began(p)' => Precedes(p, q)'
               PROVE  {y \in Names : default'[y] # None} = {req'[q].on}
    BY DEF LastWordCounts, Defaults
  <2>1. q = r
    BY LastWordStays
  <2>2. \A y \in Names : y # x => default[y] = None
    <3> SUFFICES ASSUME NEW y \in Names, y # x, default[y] # None
                 PROVE  FALSE
      OBVIOUS
    <3>1. Began(default[y])'
      BY <1>1, <1>5 DEF Began, Done, Finished
    <3>2. Precedes(default[y], r)'
      BY <1>5, <2>1, <3>1
    <3> QED
      BY <1>3, <1>5, <3>2 DEF Precedes
  <2> QED
    BY <1>3, <1>4, <2>1, <2>2
<1> QED
  BY <1>6, <1>7, <1>8, <1>9, <1>10 DEF RowsInv

\* A step that changes a list only by an addition or a removal, and whose
\* answers are true when they are given.
LEMMA ListsKept ==
    ASSUME IInv, NEW r \in Requests, Moves(r), mark' \in [Lists -> Requests \cup {None}],
           req'[r].op \in {"add", "remove"} => req'[r].on \in Lists,
           \A l \in Lists :
              \/ mark'[l] = mark[l]
              \/ mark'[l] = None /\ req'[r].op = "remove" /\ req'[r].on = l
              \/ mark'[l] = r /\ req'[r].op = "add" /\ req'[r].on = l /\ req'[r].pc = "ok",
           req'[r].op = "add" /\ req'[r].pc = "write" => mark'[req'[r].on] = None,
           req'[r].op = "add" /\ req'[r].pc \in {"ok", "known"} => mark'[req'[r].on] # None,
           req'[r].op = "remove" => mark'[req'[r].on] = None,
           req'[r].op = "add" /\ req'[r].pc = "failed" =>
                \E p \in Requests \ {r} :
                    /\ req[p].op = "add" /\ req[p].on = req'[r].on /\ req[p].pc = "ok"
                    /\ p \notin req'[r].before
    PROVE  ListsInv'
<1> USE Apart
<1>1. \A q \in Requests : Done(q) => q # r /\ req'[q] = req[q]
  BY MovesKeeps
<1>2. \A q \in Requests : q # r => req'[q] = req[q]
  BY DEF Moves
<1>3. \A q \in Requests : r \notin req[q].before /\ r \notin req'[q].before
  BY MovesKeeps
<1>4. MarksAreAdded'
  <2> SUFFICES ASSUME NEW l \in Lists, NEW p, p = mark'[l], p # None
               PROVE  p \in Requests /\ req'[p].op = "add" /\ req'[p].on = l /\ req'[p].pc = "ok"
    BY DEF MarksAreAdded
  <2>1. CASE p = mark[l]
    BY <1>1, <2>1 DEF IInv, MarksAreAdded, Done, Finished
  <2>2. CASE p # mark[l]
    BY <2>2
  <2> QED
    BY <2>1, <2>2
<1>5. MarksAreLater'
  <2> SUFFICES ASSUME NEW q \in Requests, req'[q].op = "add", req'[q].pc = "write",
                      NEW p, p = mark'[req'[q].on], p # None
               PROVE  p \notin req'[q].before
    BY DEF MarksAreLater
  <2>1. q # r
    OBVIOUS
  <2>2. req'[q] = req[q] /\ req[q].on \in Lists
    BY <1>2, <2>1 DEF IInv, RequestsFit, Fits
  <2>3. p = mark[req[q].on] \/ p = r
    BY <2>2
  <2> QED
    BY <1>3, <2>2, <2>3 DEF IInv, MarksAreLater
<1>6. FailedAddWasRaced'
  <2> SUFFICES ASSUME NEW q \in Requests, req'[q].op = "add", req'[q].pc = "failed"
               PROVE  \E p \in Requests \ {q} :
                        req'[p].op = "add" /\ req'[p].on = req'[q].on /\ req'[p].pc = "ok" /\ Raced(p, q)'
    BY DEF FailedAddWasRaced, Raced, Precedes
  <2>1. CASE q # r
    <3>1. req'[q] = req[q]
      BY <1>2, <2>1
    <3>2. PICK p \in Requests \ {q} :
              req[p].op = "add" /\ req[p].on = req[q].on /\ req[p].pc = "ok" /\ Raced(p, q)
      BY <3>1 DEF IInv, FailedAddWasRaced
    <3>3. p # r /\ req'[p] = req[p]
      BY <1>1, <3>2 DEF Done, Finished
    <3> QED
      BY <3>1, <3>2, <3>3 DEF Raced, Precedes
  <2>2. CASE q = r
    <3>1. PICK p \in Requests \ {r} :
              /\ req[p].op = "add" /\ req[p].on = req'[r].on /\ req[p].pc = "ok"
              /\ p \notin req'[r].before
      BY <2>2
    <3>2. req'[p] = req[p]
      BY <1>2, <3>1
    <3>3. Raced(p, r)'
      BY <1>3, <3>1 DEF Raced, Precedes
    <3> QED
      BY <2>2, <3>1, <3>2, <3>3
  <2> QED
    BY <2>1, <2>2
<1>7. \A q \in Requests, op \in {"add", "remove"} :
        (\E p \in Requests : req[p].op = op /\ req[p].on = req[q].on /\ ~Precedes(p, q)) /\ q # r
            => \E p \in Requests : req'[p].op = op /\ req'[p].on = req'[q].on /\ ~Precedes(p, q)'
  <2> SUFFICES ASSUME NEW q \in Requests, NEW op \in {"add", "remove"}, q # r, NEW p \in Requests,
                      req[p].op = op, req[p].on = req[q].on, ~Precedes(p, q)
               PROVE  req'[p].op = op /\ req'[p].on = req'[q].on /\ ~Precedes(p, q)'
    OBVIOUS
  <2>1. req'[p].op = req[p].op /\ req'[p].on = req[p].on
    BY <1>2 DEF IInv, RequestsFit, Fits, Moves
  <2> QED
    BY <1>2, <2>1, PrecedesStays
<1>8. \A q \in Requests : q # r => ~Precedes(r, q)'
  BY <1>3 DEF Precedes
<1>9. AnsweredMarksHold'
  <2> SUFFICES ASSUME NEW q \in Requests
      PROVE  /\ /\ req'[q].op = "add" /\ req'[q].pc \in {"ok", "known"}
                /\ ~\E p \in Requests : req'[p].op = "remove" /\ req'[p].on = req'[q].on /\ ~Precedes(p, q)'
                => mark'[req'[q].on] # None
             /\ /\ req'[q].op = "remove"
                /\ ~\E p \in Requests : req'[p].op = "add" /\ req'[p].on = req'[q].on /\ ~Precedes(p, q)'
                => mark'[req'[q].on] = None
    BY DEF AnsweredMarksHold, Precedes
  <2>1. CASE q = r
    BY <2>1
  <2>2. CASE q # r
    <3>1. req'[q] = req[q]
      BY <1>2, <2>2
    <3>2. req[q].op \in {"add", "remove"} => req[q].on \in Lists
      BY DEF IInv, RequestsFit, Fits
    <3>3. ASSUME req[q].op = "add", req[q].pc \in {"ok", "known"},
                 ~\E p \in Requests : req'[p].op = "remove" /\ req'[p].on = req'[q].on /\ ~Precedes(p, q)'
          PROVE  mark'[req[q].on] # None
      <4>1. mark[req[q].on] # None
        BY <1>7, <2>2, <3>3 DEF IInv, AnsweredMarksHold
      <4>2. ~(req'[r].op = "remove" /\ req'[r].on = req[q].on)
        BY <1>8, <2>2, <3>1, <3>3
      <4> QED
        BY <3>2, <3>3, <4>1, <4>2
    <3>4. ASSUME req[q].op = "remove",
                 ~\E p \in Requests : req'[p].op = "add" /\ req'[p].on = req'[q].on /\ ~Precedes(p, q)'
          PROVE  mark'[req[q].on] = None
      <4>1. mark[req[q].on] = None
        BY <1>7, <2>2, <3>4 DEF IInv, AnsweredMarksHold
      <4>2. ~(req'[r].op = "add" /\ req'[r].on = req[q].on)
        BY <1>8, <2>2, <3>1, <3>4
      <4> QED
        BY <3>2, <3>4, <4>1, <4>2
    <3> QED
      BY <3>1, <3>3, <3>4
  <2> QED
    BY <2>1, <2>2
<1> QED
  BY <1>4, <1>5, <1>6, <1>9 DEF ListsInv

-----------------------------------------------------------------------------
(* The steps. *)

LEMMA FitStays ==
    ASSUME IInv, NEW r \in Requests, Moves(r), Fits(r)'
    PROVE  RequestsFit'
BY DEF IInv, Moves, RequestsFit, Fits

\* A request that goes on to anything but unset.
LEMMA FitGoesOn ==
    ASSUME IInv, NEW r \in Requests, Moves(r), req[r].pc \in Running, req'[r].pc # "unset"
    PROVE  RequestsFit'
<1>1. /\ req[r].pc # "idle" /\ req'[r].pc # "idle"
      /\ req'[r].op = req[r].op /\ req'[r].on = req[r].on /\ req'[r].flag = req[r].flag
  BY DEF Moves, Running
<1>2. req[r].op # "remove" /\ Fits(r)
  BY DEF IInv, RequestsFit, Fits, Running
<1>3. Fits(r)'
  BY <1>1, <1>2 DEF Fits, Running
<1> QED
  BY <1>3, FitStays

LEMMA HalvesMakeInv ==
    ASSUME IInv, NEW r \in Requests, Moves(r), RowsInv', ListsInv',
           rows' \subseteq Names, default' \in [Names -> Names \cup {None}],
           mark' \in [Lists -> Requests \cup {None}],
           \A x \in Names : default'[x] # None => x \in rows',
           RequestsFit'
    PROVE  IInv'
<1>1. TypeOK'
  BY DEF Moves, ReqType, TypeOK
<1>2. BeforeIsEnded'
  BY MovesKeeps
<1> QED
  BY <1>1, <1>2 DEF IInv, RowsInv, ListsInv

\* The lists of a step that is about the rows.
LEMMA RowsStepKeepsLists ==
    ASSUME IInv, NEW r \in Requests, Moves(r), mark' = mark, req'[r].op \in {"create", "update", "delete"}
    PROVE  ListsInv'
BY ListsKept DEF IInv, TypeOK

LEMMA ThingsOfRequests ==
    /\ \A r \in Requests : r \in Names \cup Lists
    /\ \A x \in Names : x \in Names \cup Lists
    /\ \A l \in Lists : l \in Names \cup Lists
    /\ "create" \in Ops /\ "add" \in Ops /\ "remove" \in Ops
    /\ \A op \in {"update", "delete"} : op \in Ops
    /\ TRUE \in BOOLEAN /\ FALSE \in BOOLEAN
    /\ Finished \subseteq Running \cup Finished /\ "write" \in Running /\ "unset" \in Running
    /\ {"ok", "known", "refused", "failed", "died"} \subseteq Running \cup Finished
BY DEF Names, Ops, Running, Finished

LEMMA RowSteps ==
    ASSUME IInv, NEW r \in Requests,
           BeginCreate(r) \/ Create(r) \/ Load(r) \/ UnsetOthers(r) \/ Update(r) \/ Delete(r)
    PROVE  IInv'
<1> USE Apart, ThingsOfRequests
<1>1. CASE BeginCreate(r)
  <2>0. PICK flag \in BOOLEAN :
            /\ Begins(r, "create", r, flag, IF flag THEN "write" ELSE "ok")
            /\ flag => default' = AllBut(None) /\ UNCHANGED <<rows, mark>>
            /\ ~flag => InsertRow(r, FALSE)
    <3>1. CASE Begins(r, "create", r, TRUE, "write") /\ default' = AllBut(None) /\ UNCHANGED <<rows, mark>>
      BY <3>1, Zenon
    <3>2. CASE Begins(r, "create", r, FALSE, "ok") /\ InsertRow(r, FALSE)
      BY <3>2, Zenon
    <3> QED
      BY <1>1, <3>1, <3>2 DEF BeginCreate
  <2> DEFINE to == IF flag THEN "write" ELSE "ok"
  <2>1. Begins(r, "create", r, flag, to) /\ to \in {"write", "ok"} /\ (to = "write" <=> flag)
    BY <2>0
  <2> HIDE DEF to
  <2>2. /\ Moves(r)
        /\ req'[r].op = "create" /\ req'[r].on = r /\ (req'[r].flag <=> flag) /\ req'[r].pc = to
    <3>1. to \in Running \cup Finished /\ r \in Names \cup Lists /\ "create" \in Ops
      BY <2>1 DEF Running, Finished, Names, Ops
    <3> QED
      BY <2>1, <3>1, BeginsMoves
  <2>3. /\ mark' = mark /\ rows' \subseteq Names
        /\ default' \in [Names -> Names \cup {None}]
        /\ \A x \in Names : default'[x] \in {default[x], None}
        /\ \A x \in Names : default'[x] # None => x \in rows'
        /\ flag => \A x \in Names : default'[x] = None
    BY <2>0 DEF IInv, TypeOK, InsertRow, AllBut
  <2>4. RequestsFit'
    <3>1. Fits(r)'
      BY <2>1, <2>2 DEF Fits
    <3> QED
      BY <2>2, <3>1, FitStays
  <2>5. RowsInv'
    BY <2>1, <2>2, <2>3, FewerDefaults DEF Defaults
  <2>6. ListsInv'
    BY <2>2, <2>3, RowsStepKeepsLists
  <2> QED
    BY <2>2, <2>3, <2>4, <2>5, <2>6, HalvesMakeInv DEF IInv, TypeOK
<1>2. CASE Create(r)
  <2>1. /\ req[r].op = "create" /\ req[r].pc = "write" /\ Go(r, "ok") /\ InsertRow(r, TRUE)
    BY <1>2 DEF Create, At
  <2>2. Moves(r) /\ req'[r] = [req[r] EXCEPT !.pc = "ok"]
    BY <2>1, GoMoves
  <2>3. req'[r].op = "create" /\ req'[r].pc = "ok" /\ req'[r].on = req[r].on /\ req'[r].flag = req[r].flag
    BY <2>1, <2>2 DEF IInv, TypeOK
  <2>4. req[r].on = r
    BY <2>1 DEF IInv, RequestsFit, Fits
  <2>5. /\ mark' = mark /\ rows' \subseteq Names /\ default' = [default EXCEPT ![r] = r]
        /\ default' \in [Names -> Names \cup {None}]
        /\ \A x \in Names : default'[x] # None => x \in rows'
    BY <2>1 DEF IInv, TypeOK, InsertRow
  <2>6. RequestsFit'
    BY <2>1, <2>2, <2>3, FitGoesOn DEF Running
  <2>7. RowsInv'
    <3>1. req[r].flag
      BY <2>1 DEF IInv, RequestsFit, Fits
    <3>2. Defaults(r)
      BY <2>1, <3>1 DEF Defaults
    <3> QED
      BY <2>1, <2>2, <2>3, <2>4, <2>5, <3>2, DefaultGiven
  <2>8. ListsInv'
    BY <2>2, <2>3, <2>5, RowsStepKeepsLists
  <2> QED
    BY <2>2, <2>5, <2>6, <2>7, <2>8, HalvesMakeInv DEF IInv, TypeOK
<1>3. CASE Load(r)
  <2>0. PICK op \in {"update", "delete"}, x \in Names, flag \in BOOLEAN :
            /\ op = "delete" => ~flag
            /\ Begins(r, op, x, flag,
                      IF x \notin rows THEN "refused" ELSE IF flag THEN "unset" ELSE "write")
    BY <1>3, Zenon DEF Load
  <2> DEFINE to == IF x \notin rows THEN "refused" ELSE IF flag THEN "unset" ELSE "write"
  <2>1. /\ op = "delete" => ~flag
        /\ to \in {"refused", "unset", "write"}
        /\ to = "unset" => flag
        /\ to = "write" => ~flag
        /\ Begins(r, op, x, flag, to)
    BY <2>0
  <2> HIDE DEF to
  <2>2. /\ Moves(r)
        /\ req'[r].op = op /\ req'[r].on = x /\ (req'[r].flag <=> flag) /\ req'[r].pc = to
    <3>1. to \in Running \cup Finished /\ x \in Names \cup Lists /\ op \in Ops
      BY <2>1 DEF Running, Finished, Ops
    <3> QED
      BY <2>1, <3>1, BeginsMoves
  <2>3. UNCHANGED <<rows, default, mark>>
    BY <1>3 DEF Load
  <2>4. RequestsFit'
    <3>1. Fits(r)'
      BY <2>1, <2>2 DEF Fits
    <3> QED
      BY <2>2, <3>1, FitStays
  <2>5. RowsInv'
    BY <2>1, <2>2, <2>3, FewerDefaults DEF Defaults
  <2>6. ListsInv'
    BY <2>2, <2>3, RowsStepKeepsLists
  <2> QED
    BY <2>2, <2>3, <2>4, <2>5, <2>6, HalvesMakeInv DEF IInv, TypeOK
<1>4. CASE UnsetOthers(r)
  <2>1. req[r].pc = "unset" /\ Go(r, "write") /\ default' = AllBut(req[r].on) /\ UNCHANGED <<rows, mark>>
    BY <1>4 DEF UnsetOthers
  <2>2. Moves(r) /\ req'[r] = [req[r] EXCEPT !.pc = "write"]
    BY <2>1, GoMoves
  <2>3. req[r].op = "update"
    BY <2>1 DEF IInv, RequestsFit, Fits
  <2>4. req'[r].op = "update" /\ req'[r].pc = "write" /\ req'[r].on = req[r].on
    BY <2>2, <2>3 DEF IInv, TypeOK
  <2>5. /\ default' \in [Names -> Names \cup {None}]
        /\ \A x \in Names : default'[x] \in {default[x], None}
        /\ \A x \in Names : x # req[r].on => default'[x] = None
    BY <2>1 DEF IInv, TypeOK, AllBut
  <2>6. RequestsFit'
    BY <2>1, <2>2, <2>3, <2>4, FitGoesOn DEF Running
  <2>7. RowsInv'
    BY <2>2, <2>4, <2>5, FewerDefaults DEF Defaults
  <2>8. ListsInv'
    BY <2>1, <2>2, <2>4, RowsStepKeepsLists
  <2> QED
    BY <2>1, <2>2, <2>5, <2>6, <2>7, <2>8, HalvesMakeInv DEF IInv, TypeOK
<1>5. CASE Update(r)
  <2>1. req[r].op = "update" /\ req[r].pc = "write" /\ req[r].on \in Names /\ UNCHANGED <<rows, mark>>
    BY <1>5 DEF Update, At, IInv, RequestsFit, Fits
  <2>2. CASE req[r].on \in rows
    <3>1. default' = [default EXCEPT ![req[r].on] = IF req[r].flag THEN r ELSE None] /\ Go(r, "ok")
      BY <1>5, <2>2 DEF Update
    <3>2. Moves(r) /\ req'[r] = [req[r] EXCEPT !.pc = "ok"]
      BY <2>1, <3>1, GoMoves
    <3>3. req'[r].op = "update" /\ req'[r].pc = "ok" /\ req'[r].on = req[r].on /\ req'[r].flag = req[r].flag
      BY <2>1, <3>2 DEF IInv, TypeOK
    <3>4. /\ default' \in [Names -> Names \cup {None}]
          /\ \A x \in Names : default'[x] # None => x \in rows'
      BY <2>1, <2>2, <3>1 DEF IInv, TypeOK
    <3>5. RequestsFit'
      BY <2>1, <3>2, <3>3, FitGoesOn DEF Running
    <3>6. CASE req[r].flag
      <4>1. default' = [default EXCEPT ![req[r].on] = r]
        BY <3>1, <3>6
      <4>2. Defaults(r)
        BY <2>1, <3>6 DEF Defaults
      <4>3. RowsInv'
        BY <2>1, <3>2, <3>3, <4>1, <4>2, DefaultGiven
      <4> QED
        BY <2>1, <3>2, <3>3, <3>4, <3>5, <4>3, RowsStepKeepsLists, HalvesMakeInv DEF IInv, TypeOK
    <3>7. CASE ~req[r].flag
      <4>1. \A x \in Names : default'[x] \in {default[x], None}
        BY <3>1, <3>7 DEF IInv, TypeOK
      <4>2. ~Defaults(r)'
        BY <3>3, <3>7 DEF Defaults
      <4>3. RowsInv'
        BY <3>2, <4>1, <4>2, FewerDefaults
      <4> QED
        BY <2>1, <3>2, <3>3, <3>4, <3>5, <4>3, RowsStepKeepsLists, HalvesMakeInv DEF IInv, TypeOK
    <3> QED
      BY <3>6, <3>7
  <2>3. CASE req[r].on \notin rows
    <3>1. Go(r, "refused") /\ default' = default
      BY <1>5, <2>3 DEF Update
    <3>2. Moves(r) /\ req'[r] = [req[r] EXCEPT !.pc = "refused"]
      BY <2>1, <3>1, GoMoves
    <3>3. req'[r].op = "update" /\ req'[r].pc = "refused" /\ req'[r].on = req[r].on
      BY <2>1, <3>2 DEF IInv, TypeOK
    <3>4. RequestsFit'
      BY <2>1, <3>2, <3>3, FitGoesOn DEF Running
    <3>5. RowsInv'
      BY <3>1, <3>2, <3>3, FewerDefaults
    <3> QED
      BY <2>1, <3>1, <3>2, <3>3, <3>4, <3>5, RowsStepKeepsLists, HalvesMakeInv DEF IInv, TypeOK
  <2> QED
    BY <2>2, <2>3
<1>6. CASE Delete(r)
  <2>1. /\ req[r].op = "delete" /\ req[r].pc = "write" /\ req[r].on \in Names /\ Go(r, "ok")
        /\ mark' = mark /\ rows' = rows \ {req[r].on} /\ default' = [default EXCEPT ![req[r].on] = None]
    BY <1>6 DEF Delete, At, IInv, RequestsFit, Fits
  <2>2. Moves(r) /\ req'[r] = [req[r] EXCEPT !.pc = "ok"]
    BY <2>1, GoMoves
  <2>3. req'[r].op = "delete" /\ req'[r].pc = "ok" /\ req'[r].on = req[r].on /\ req'[r].flag = req[r].flag
    BY <2>1, <2>2 DEF IInv, TypeOK
  <2>4. /\ rows' \subseteq Names /\ default' \in [Names -> Names \cup {None}]
        /\ \A x \in Names : default'[x] \in {default[x], None}
        /\ \A x \in Names : default'[x] # None => x \in rows'
    BY <2>1 DEF IInv, TypeOK
  <2>5. RequestsFit'
    BY <2>1, <2>2, <2>3, FitGoesOn DEF Running
  <2>6. ~Defaults(r)'
    BY <2>3 DEF Defaults
  <2>7. RowsInv'
    BY <2>2, <2>4, <2>6, FewerDefaults
  <2> QED
    BY <2>1, <2>2, <2>3, <2>4, <2>5, <2>7, RowsStepKeepsLists, HalvesMakeInv DEF IInv, TypeOK
<1> QED
  BY <1>1, <1>2, <1>3, <1>4, <1>5, <1>6

LEMMA ListSteps ==
    ASSUME IInv, NEW r \in Requests, BeginAdd(r) \/ Add(r) \/ Remove(r)
    PROVE  IInv'
<1> USE Apart, ThingsOfRequests
<1>1. UNCHANGED <<rows, default>>
  BY DEF BeginAdd, Add, Remove
<1>2. SUFFICES Moves(r) /\ req'[r].op \in {"add", "remove"} /\ RequestsFit' /\ ListsInv'
               /\ mark' \in [Lists -> Requests \cup {None}]
  <2>1. ~Defaults(r)'
    BY <1>2 DEF Defaults
  <2>2. RowsInv'
    BY <1>1, <1>2, <2>1, FewerDefaults
  <2> QED
    BY <1>1, <1>2, <2>2, HalvesMakeInv DEF IInv, TypeOK
<1>3. CASE BeginAdd(r)
  <2>0. PICK l \in Lists :
            \/ Begins(r, "add", l, FALSE,
                      IF mark[l] = None THEN "write" ELSE IF l = "favorites" THEN "ok" ELSE "known")
            \/ Begins(r, "add", l, FALSE, "refused")
    BY <1>3, Zenon DEF BeginAdd
  <2>1. PICK to \in {"write", "ok", "known", "refused"} :
            /\ Begins(r, "add", l, FALSE, to)
            /\ to = "write" => mark[l] = None
            /\ to \in {"ok", "known"} => mark[l] # None
    BY <2>0
  <2>2. /\ Moves(r)
        /\ req'[r].op = "add" /\ req'[r].on = l /\ ~req'[r].flag /\ req'[r].pc = to
    <3>1. to \in Running \cup Finished /\ l \in Names \cup Lists /\ "add" \in Ops
      BY <2>1 DEF Running, Finished, Ops
    <3>2. \A y \in Names \cup Lists, end \in Running \cup Finished : Begins(r, "add", y, FALSE, end) =>
            /\ Moves(r)
            /\ req'[r].op = "add" /\ req'[r].on = y /\ ~req'[r].flag /\ req'[r].pc = end
      BY <3>1, BeginsMoves
    <3> QED
      BY <2>1, <3>1, <3>2
  <2>3. mark' = mark
    BY <1>3 DEF BeginAdd
  <2>4. RequestsFit'
    BY <2>2, FitStays DEF Fits
  <2>5. ListsInv'
    BY <2>1, <2>2, <2>3, ListsKept DEF IInv, TypeOK
  <2> QED
    BY <2>2, <2>3, <2>4, <2>5 DEF IInv, TypeOK
<1>4. CASE Add(r)
  <2>1. req[r].op = "add" /\ req[r].pc = "write" /\ req[r].on \in Lists
    BY <1>4 DEF Add, At, IInv, RequestsFit, Fits
  <2>2. PICK to \in {"ok", "failed"} :
            /\ Go(r, to)
            /\ to = "ok" => mark[req[r].on] = None /\ mark' = [mark EXCEPT ![req[r].on] = r]
            /\ to = "failed" => mark[req[r].on] # None /\ mark' = mark
    BY <1>4 DEF Add
  <2>3. Moves(r) /\ req'[r] = [req[r] EXCEPT !.pc = to]
    BY <2>1, <2>2, GoMoves
  <2>4. /\ req'[r].op = "add" /\ req'[r].pc = to /\ req'[r].on = req[r].on
        /\ req'[r].before = req[r].before
    BY <2>1, <2>3 DEF IInv, TypeOK
  <2>5. RequestsFit'
    BY <2>1, <2>3, <2>4, FitGoesOn DEF Running
  <2>6. mark' \in [Lists -> Requests \cup {None}]
    BY <2>2 DEF IInv, TypeOK
  <2>7. ASSUME to = "failed"
        PROVE  \E p \in Requests \ {r} :
                    /\ req[p].op = "add" /\ req[p].on = req[r].on /\ req[p].pc = "ok"
                    /\ p \notin req[r].before
    <3>1. mark[req[r].on] \in Requests
      BY <2>1, <2>2, <2>7 DEF IInv, TypeOK
    <3> QED
      BY <2>1, <2>2, <2>7, <3>1 DEF IInv, MarksAreAdded, MarksAreLater
  <2>8. /\ \A l \in Lists : mark'[l] = mark[l] \/ (mark'[l] = r /\ l = req[r].on /\ to = "ok")
        /\ to = "ok" => mark'[req[r].on] # None
    BY <2>1, <2>2 DEF IInv, TypeOK
  <2>9. ListsInv'
    BY <2>1, <2>3, <2>4, <2>6, <2>7, <2>8, ListsKept
  <2> QED
    BY <2>3, <2>4, <2>5, <2>6, <2>9
<1>5. CASE Remove(r)
  <2>0. PICK l \in Lists :
            /\ Begins(r, "remove", l, FALSE,
                      IF l = "subscriptions" /\ mark[l] = None THEN "known" ELSE "ok")
            /\ mark' = [mark EXCEPT ![l] = None]
    BY <1>5, Zenon DEF Remove
  <2>1. PICK to \in {"known", "ok"} : Begins(r, "remove", l, FALSE, to)
    BY <2>0
  <2>2. /\ Moves(r)
        /\ req'[r].op = "remove" /\ req'[r].on = l /\ ~req'[r].flag /\ req'[r].pc = to
    <3>1. to \in Running \cup Finished /\ l \in Names \cup Lists /\ "remove" \in Ops
      BY <2>1 DEF Running, Finished, Ops
    <3>2. \A y \in Names \cup Lists, end \in Running \cup Finished : Begins(r, "remove", y, FALSE, end) =>
            /\ Moves(r)
            /\ req'[r].op = "remove" /\ req'[r].on = y /\ ~req'[r].flag /\ req'[r].pc = end
      BY <3>1, BeginsMoves
    <3> QED
      BY <2>1, <3>1, <3>2
  <2>3. mark' \in [Lists -> Requests \cup {None}] /\ mark'[l] = None
        /\ \A k \in Lists : k # l => mark'[k] = mark[k]
    BY <2>0 DEF IInv, TypeOK
  <2>4. RequestsFit'
    BY <2>2, FitStays DEF Fits
  <2>5. ListsInv'
    BY <2>2, <2>3, ListsKept
  <2> QED
    BY <2>2, <2>3, <2>4, <2>5
<1> QED
  BY <1>3, <1>4, <1>5

LEMMA DieStep ==
    ASSUME IInv, NEW r \in Requests, Die(r)
    PROVE  IInv'
<1> USE Apart, ThingsOfRequests
<1>1. req[r].pc \in Running /\ Go(r, "died") /\ UNCHANGED <<rows, default, mark>>
  BY DEF Die
<1>2. Moves(r) /\ req'[r] = [req[r] EXCEPT !.pc = "died"]
  BY <1>1, GoMoves
<1>3. req'[r].pc = "died" /\ req'[r].op = req[r].op /\ req'[r].on = req[r].on /\ req'[r].flag = req[r].flag
  BY <1>2 DEF IInv, TypeOK
<1>4. req[r].op # "remove"
  BY <1>1 DEF IInv, RequestsFit, Fits, Running
<1>5. RequestsFit'
  BY <1>1, <1>2, <1>3, FitGoesOn DEF Running
<1>6. RowsInv'
  BY <1>1, <1>2, <1>3, FewerDefaults
<1>7. ListsInv'
  BY <1>1, <1>2, <1>3, <1>4, ListsKept DEF IInv, TypeOK, RequestsFit, Fits
<1> QED
  BY <1>1, <1>2, <1>5, <1>6, <1>7, HalvesMakeInv DEF IInv, TypeOK

LEMMA NextKeeps == IInv /\ [Next]_vars => IInv'
<1> SUFFICES ASSUME IInv, [Next]_vars PROVE IInv'
  OBVIOUS
<1>1. CASE UNCHANGED vars
  BY <1>1 DEF vars, IInv, TypeOK, BeforeIsEnded, Done, RequestsFit, Fits, SettersAreDone, OneOldDefault,
     OthersAreLater, Defaults, TwoDefaultsWereRaced, LastWordCounts, Raced, Precedes, Began,
     MarksAreAdded, MarksAreLater, FailedAddWasRaced, AnsweredMarksHold
<1> QED
  BY <1>1, RowSteps, ListSteps, DieStep DEF Next

THEOREM Invariance == Spec => []IInv
  BY InitIInv, NextKeeps, PTL DEF Spec

\* Rows, default rows, lists and requests keep their types, and a default row is there.
THEOREM TypeCorrect == Spec => []TypeOK
<1>1. IInv => TypeOK
  BY DEF IInv
<1> QED
  BY <1>1, Invariance, PTL

\* create_address.py, update_address.py: two defaults come only of a race.
THEOREM DefaultsRaced == Spec => []TwoDefaultsWereRaced
<1>1. IInv => TwoDefaultsWereRaced
  BY DEF IInv
<1> QED
  BY <1>1, Invariance, PTL

\* create_address.py, update_address.py: a request alone puts the default right.
THEOREM LastWordsCount == Spec => []LastWordCounts
<1>1. IInv => LastWordCounts
  BY DEF IInv
<1> QED
  BY <1>1, Invariance, PTL

\* add_favorite.py, subscribe.py: an addition fails only against one it raced.
THEOREM FailuresRaced == Spec => []FailedAddWasRaced
<1>1. IInv => FailedAddWasRaced
  BY DEF IInv
<1> QED
  BY <1>1, Invariance, PTL

\* Favorites and subscriptions: what was answered holds until it is undone.
THEOREM AnswersHold == Spec => []AnsweredMarksHold
<1>1. IInv => AnsweredMarksHold
  BY DEF IInv
<1> QED
  BY <1>1, Invariance, PTL
=============================================================================
