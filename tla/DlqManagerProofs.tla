------------------------- MODULE DlqManagerProofs -------------------------
(***************************************************************************)
(* Proofs about DlqManager, for every set of rows, every finite set of     *)
(* workers and all bounds.                                                 *)
(*                                                                         *)
(* CountInv, which holds whatever the workers do, counts: the attempts in  *)
(* the table and the workers that are about to write one more are no more  *)
(* than the runs that raised.  ExclusiveInv needs Prompt: a row that a     *)
(* worker has is in_progress and not stale, so no two workers have it.     *)
(***************************************************************************)
EXTENDS DlqManager, FiniteSetTheorems, TLAPS

\* Types; the counter of a row that Postpone took back from the dead may pass
\* max_attempts when a claim can become stale.
Row == [status : Status, attempts : Nat, age : 0..(Stale + 1), wait : Nat]

RowType == row \in [Rows -> Row]

LoopType ==
    /\ pc \in [Workers -> Pcs]
    /\ cur \in [Workers -> Rows \cup {NoRow}]
    /\ batch \in [Workers -> SUBSET Rows]
    /\ \A w \in Workers :
         cur[w] # NoRow <=> pc[w] \in {"unresolved", "handling", "deleting", "failing"}

HistoryType ==
    good \in [Rows -> Nat] /\ bad \in [Rows -> Nat] /\ undeleted \in [Rows -> Nat]

Types == RowType /\ LoopType /\ HistoryType

\* Workers whose handler raised and who have not recorded it
Failing(r) == {w \in Workers : pc[w] = "failing" /\ cur[w] = r}

Delivered ==
    /\ \A r \in Rows : row[r].status = "deleted" => good[r] > 0
    /\ \A w \in Workers : pc[w] = "deleting" => good[cur[w]] > 0

Counted ==
    \A r \in Rows :
        /\ row[r].attempts + Cardinality(Failing(r)) <= bad[r]
        /\ row[r].status = "dead" => row[r].attempts >= MaxAttempts

CountInv == Types /\ Delivered /\ Counted

\* A claim that is in somebody's hands is in nobody else's, and not stale.
Exclusive ==
    /\ \A w \in Workers : cur[w] # NoRow =>
          row[cur[w]].status = "in_progress" /\ row[cur[w]].age <= Stale
    /\ \A v, w \in Workers : cur[v] = cur[w] /\ cur[w] # NoRow => v = w

\* The delivery of the row that is, or will be, settled by its DELETE
Owed(r) ==
    row[r].status = "deleted" \/ \E w \in Workers : pc[w] = "deleting" /\ cur[w] = r

Paid ==
    \A r \in Rows :
        /\ good[r] <= undeleted[r] + 1
        /\ ~Owed(r) => good[r] <= undeleted[r]

\* The counter of a row that can still be tried
Bounded ==
    \A r \in Rows :
        /\ row[r].attempts <= MaxAttempts
        /\ row[r].status # "dead" => row[r].attempts < MaxAttempts

ExclusiveInv == CountInv /\ Exclusive /\ Paid /\ Bounded

USE DlqConstants DEF loop, history, Status, Pcs, RowType, LoopType, HistoryType

----------------------------------------------------------------------------
\* The least of two numbers
LEMMA MinOfTwo ==
    ASSUME NEW a \in Nat, NEW b \in Nat
    PROVE  Min({a, b}) = IF a <= b THEN a ELSE b
<1>1. \E x \in {a, b} : \A y \in {a, b} : x <= y
  OBVIOUS
<1>2. Min({a, b}) \in {a, b} /\ \A y \in {a, b} : Min({a, b}) <= y
  BY <1>1 DEF Min
<1> QED
  BY <1>2

\* Failing workers can be counted
LEMMA FailingFinite ==
    ASSUME NEW r
    PROVE  IsFiniteSet(Failing(r)) /\ Cardinality(Failing(r)) \in Nat
  BY FS_Subset, FS_CardinalityType DEF Failing

\* Fewer workers failing on a row
LEMMA FailingFewer ==
    ASSUME NEW r, Failing(r)' \subseteq Failing(r)
    PROVE  Cardinality(Failing(r))' \in Nat /\ Cardinality(Failing(r))' <= Cardinality(Failing(r))
  BY FailingFinite, FS_Subset, FS_CardinalityType

\* What a row is made of
LEMMA RowFields ==
    ASSUME NEW s \in Row
    PROVE  s.status \in Status /\ s.attempts \in Nat /\ s.age \in 0..(Stale + 1) /\ s.wait \in Nat
  BY DEF Row

\* Time makes a row older, by one and not beyond the bound
LEMMA AgedIs ==
    ASSUME NEW s \in Row
    PROVE  /\ Aged(s) \in Row
           /\ Aged(s).status = s.status /\ Aged(s).attempts = s.attempts
           /\ Aged(s).age <= s.age + 1
<1> DEFINE m == Min({s.age + 1, Stale + 1})
<1>1. m \in 0..(Stale + 1) /\ m <= s.age + 1
  BY RowFields, MinOfTwo
<1>2. Aged(s) = [s EXCEPT !.age = IF s.status = "in_progress" THEN m ELSE 0,
                          !.wait = IF s.wait = 0 THEN 0 ELSE s.wait - 1]
  BY DEF Aged
<1> HIDE DEF m
<1> DEFINE a == IF s.status = "in_progress" THEN m ELSE 0
<1> DEFINE n == IF s.wait = 0 THEN 0 ELSE s.wait - 1
<1>3. a \in 0..(Stale + 1) /\ n \in Nat /\ a <= s.age + 1
  BY <1>1, RowFields
<1> DEFINE t == [s EXCEPT !.age = a]
<1>4. Aged(s) = [t EXCEPT !.wait = n]
  BY <1>2
<1> HIDE DEF a, n
<1>7. t \in Row /\ t.status = s.status /\ t.attempts = s.attempts /\ t.age = a
  BY <1>3 DEF Row
<1> HIDE DEF t
<1>5. Aged(s) \in Row
  BY <1>3, <1>4, <1>7 DEF Row
<1>6. Aged(s).status = s.status /\ Aged(s).attempts = s.attempts /\ Aged(s).age = a
  BY <1>4, <1>7 DEF Row
<1> QED
  BY <1>3, <1>5, <1>6

\* The table's counter after a failed run
LEMMA FailedIs ==
    ASSUME NEW s \in Row
    PROVE  /\ Failed(s) \in Row
           /\ Failed(s).attempts = s.attempts + 1
           /\ Failed(s).status = IF s.attempts + 1 >= MaxAttempts THEN "dead" ELSE "pending"
<1> DEFINE n == s.attempts + 1
<1> DEFINE st == IF n >= MaxAttempts THEN "dead" ELSE "pending"
<1> DEFINE d == IF n >= MaxAttempts THEN 0 ELSE Backoff(n)
<1>1. n \in Nat /\ st \in Status /\ d \in Nat
  BY PowersAreNatural, RowFields DEF Backoff
<1>2. Failed(s) = [s EXCEPT !.status = st, !.attempts = n, !.age = 0, !.wait = d]
  BY DEF Failed
<1> HIDE DEF n, st, d
<1> DEFINE t1 == [s EXCEPT !.status = st]
<1> DEFINE t2 == [t1 EXCEPT !.attempts = n]
<1> DEFINE t3 == [t2 EXCEPT !.age = 0]
<1>3. Failed(s) = [t3 EXCEPT !.wait = d]
  BY <1>2
<1>4. t1 \in Row /\ t1.status = st
  BY <1>1 DEF Row
<1> HIDE DEF t1
<1>5. t2 \in Row /\ t2.status = st /\ t2.attempts = n
  BY <1>1, <1>4 DEF Row
<1> HIDE DEF t2
<1>6. t3 \in Row /\ t3.status = st /\ t3.attempts = n
  BY <1>5 DEF Row
<1> HIDE DEF t3
<1>7. Failed(s) \in Row /\ Failed(s).status = st /\ Failed(s).attempts = n
  BY <1>1, <1>3, <1>6 DEF Row
<1> QED
  BY <1>7 DEF n, st

\* A row put back
LEMMA UnregisteredIs ==
    ASSUME NEW s \in Row
    PROVE  /\ Unregistered(s) \in Row
           /\ Unregistered(s).status = "pending" /\ Unregistered(s).attempts = s.attempts
<1> DEFINE t1 == [s EXCEPT !.status = "pending"]
<1> DEFINE t2 == [t1 EXCEPT !.age = 0]
<1>1. Unregistered(s) = [t2 EXCEPT !.wait = RetryWait]
  BY DEF Unregistered
<1>2. t1 \in Row /\ t1.status = "pending" /\ t1.attempts = s.attempts
  BY DEF Row
<1> HIDE DEF t1
<1>3. t2 \in Row /\ t2.status = "pending" /\ t2.attempts = s.attempts
  BY <1>2 DEF Row
<1> HIDE DEF t2
<1> QED
  BY <1>1, <1>3 DEF Row

\* A row whose claim is given back, taken or settled
LEMMA ClaimIs ==
    ASSUME NEW s \in Row, NEW st \in Status
    PROVE  LET c == [s EXCEPT !.status = st, !.age = 0]
           IN c \in Row /\ c.status = st /\ c.attempts = s.attempts
<1> DEFINE t == [s EXCEPT !.status = st]
<1>1. [s EXCEPT !.status = st, !.age = 0] = [t EXCEPT !.age = 0]
  OBVIOUS
<1>2. t \in Row /\ t.status = st /\ t.attempts = s.attempts
  BY DEF Row
<1> HIDE DEF t
<1> QED
  BY <1>1, <1>2 DEF Row

\* A row that is gone
LEMMA DeletedIs ==
    ASSUME NEW s \in Row
    PROVE  LET c == [s EXCEPT !.status = "deleted", !.age = 0, !.wait = 0]
           IN c \in Row /\ c.status = "deleted" /\ c.attempts = s.attempts
<1> DEFINE t1 == [s EXCEPT !.status = "deleted"]
<1> DEFINE t2 == [t1 EXCEPT !.age = 0]
<1>1. [s EXCEPT !.status = "deleted", !.age = 0, !.wait = 0] = [t2 EXCEPT !.wait = 0]
  OBVIOUS
<1>2. t1 \in Row /\ t1.status = "deleted" /\ t1.attempts = s.attempts
  BY DEF Row
<1> HIDE DEF t1
<1>3. t2 \in Row /\ t2.status = "deleted" /\ t2.attempts = s.attempts
  BY <1>2 DEF Row
<1> HIDE DEF t2
<1> QED
  BY <1>1, <1>3 DEF Row

----------------------------------------------------------------------------
\* A step that leaves attempts and histories alone, revives no row and adds
\* no failing or deleting worker keeps the counts.
LEMMA CountsKept ==
    ASSUME CountInv, Types', UNCHANGED <<good, bad>>,
           \A r \in Rows : /\ row'[r].attempts = row[r].attempts
                           /\ row'[r].status \in {"deleted", "dead"} => row'[r].status = row[r].status,
           \A w \in Workers : pc'[w] \in {"deleting", "failing"} => pc'[w] = pc[w] /\ cur'[w] = cur[w]
    PROVE  CountInv'
<1>1. Delivered'
  BY DEF CountInv, Types, Delivered
<1>2. \A r \in Rows : Failing(r)' \subseteq Failing(r)
  BY DEF Failing
<1>3. Counted'
  <2> SUFFICES ASSUME NEW r \in Rows
               PROVE  /\ row'[r].attempts + Cardinality(Failing(r))' <= bad'[r]
                      /\ row'[r].status = "dead" => row'[r].attempts >= MaxAttempts
    BY DEF Counted
  <2>1. Cardinality(Failing(r))' \in Nat /\ Cardinality(Failing(r))' <= Cardinality(Failing(r))
    BY <1>2, FailingFewer
  <2>2. row[r].attempts \in Nat /\ Cardinality(Failing(r)) \in Nat /\ bad[r] \in Nat
    BY FailingFinite, RowFields DEF CountInv, Types
  <2> QED
    BY <2>1, <2>2 DEF CountInv, Counted
<1> QED
  BY <1>1, <1>3 DEF CountInv

\* CountInv holds of an empty table.
LEMMA CountInit ==
    ASSUME DlqInit
    PROVE  CountInv
<1>1. Types /\ Delivered
  BY DEF DlqInit, Types, Delivered, Row
<1>2. \A r \in Rows : Failing(r) = {}
  BY DEF DlqInit, Failing
<1>3. \A r \in Rows : Cardinality(Failing(r)) = 0
  BY <1>2, FS_EmptySet
<1> QED
  BY <1>1, <1>3 DEF DlqInit, CountInv, Counted

\* CountInv survives a new row.
LEMMA EnqueueStep ==
    ASSUME CountInv, NEW r \in Rows, Enqueue(r)
    PROVE  CountInv'
<1>1. Backoff(1) \in Nat
  BY PowersAreNatural DEF Backoff
<1>2. Types'
  BY <1>1 DEF CountInv, Types, Enqueue, Row
<1>3. Delivered'
  BY DEF CountInv, Types, Delivered, Enqueue
<1>4. \A s \in Rows : Failing(s)' = Failing(s)
  BY DEF Failing, Enqueue
<1>5. Counted'
  <2> SUFFICES ASSUME NEW s \in Rows
               PROVE  /\ row'[s].attempts + Cardinality(Failing(s)) <= bad[s]
                      /\ row'[s].status = "dead" => row'[s].attempts >= MaxAttempts
    BY <1>4 DEF Counted, Enqueue
  <2>1. Cardinality(Failing(s)) \in Nat /\ row[s].attempts \in Nat /\ bad[s] \in Nat
    BY FailingFinite, RowFields DEF CountInv, Types
  <2>2. row'[s] = row[s] \/ (row'[s].attempts = 0 /\ row'[s].status = "pending")
    BY DEF CountInv, Types, Enqueue
  <2> QED
    BY <2>1, <2>2 DEF CountInv, Counted
<1> QED
  BY <1>2, <1>3, <1>5 DEF CountInv

\* CountInv survives the start of a worker and its look for stale rows, which
\* may fail.
LEMMA StartStep ==
    ASSUME CountInv, NEW w \in Workers, Start(w) \/ Recover(w) \/ RecoverFails(w)
    PROVE  CountInv'
<1>0. row' = [r \in Rows |-> row'[r]]
  BY DEF CountInv, Types, Start, Recover, RecoverFails
<1>1. \A r \in Rows : row'[r] = row[r] \/ row'[r] = [row[r] EXCEPT !.status = "pending", !.age = 0]
  BY DEF Start, Recover, RecoverFails
<1>2. \A r \in Rows : /\ row'[r] \in Row
                      /\ row'[r].attempts = row[r].attempts
                      /\ row'[r].status \in {"deleted", "dead"} => row'[r].status = row[r].status
  <2> SUFFICES ASSUME NEW r \in Rows, row'[r] # row[r]
               PROVE  row'[r] \in Row /\ row'[r].attempts = row[r].attempts /\ row'[r].status = "pending"
    BY DEF CountInv, Types
  <2> DEFINE c == [row[r] EXCEPT !.status = "pending", !.age = 0]
  <2>1. row'[r] = c
    BY <1>1
  <2>2. c \in Row /\ c.status = "pending" /\ c.attempts = row[r].attempts
    BY ClaimIs DEF CountInv, Types
  <2> HIDE DEF c
  <2> QED
    BY <2>1, <2>2
<1>3. Types'
  <2>1. RowType'
    BY <1>0, <1>2
  <2>2. LoopType' /\ HistoryType'
    BY DEF CountInv, Types, Start, Recover, RecoverFails
  <2> QED
    BY <2>1, <2>2 DEF Types
<1>4. \A v \in Workers : pc'[v] \in {"deleting", "failing"} => pc'[v] = pc[v] /\ cur'[v] = cur[v]
  BY DEF CountInv, Types, Start, Recover, RecoverFails
<1>5. UNCHANGED <<good, bad>>
  BY DEF Start, Recover, RecoverFails
<1> QED
  BY <1>2, <1>3, <1>4, <1>5, CountsKept

\* CountInv survives fetching a batch.
LEMMA FetchStep ==
    ASSUME CountInv, NEW w \in Workers, Fetch(w)
    PROVE  CountInv'
<1>1. UNCHANGED <<row, cur, history>>
  BY DEF Fetch
<1>2. /\ batch' \in [Workers -> SUBSET Rows]
      /\ pc' \in [Workers -> Pcs]
      /\ \A v \in Workers : pc'[v] # pc[v] => pc[v] = "polling" /\ pc'[v] = "working"
  BY DEF CountInv, Types, Fetch, Due
<1>3. Types'
  BY <1>1, <1>2 DEF CountInv, Types
<1> QED
  BY <1>1, <1>2, <1>3, CountsKept

\* CountInv survives taking a row from the batch, and passing one over.
LEMMA TakeStep ==
    ASSUME CountInv, NEW w \in Workers, NEW r \in Rows, Claim(w, r) \/ Skip(w, r)
    PROVE  CountInv'
<1>1. CASE Claim(w, r)
  <2>1. row' = [row EXCEPT ![r] = [row[r] EXCEPT !.status = "in_progress", !.age = 0]]
    BY <1>1 DEF CountInv, Types, Claim
  <2> DEFINE c == [row[r] EXCEPT !.status = "in_progress", !.age = 0]
  <2>2. c \in Row /\ c.status = "in_progress" /\ c.attempts = row[r].attempts
    BY ClaimIs DEF CountInv, Types
  <2> HIDE DEF c
  <2>3. /\ row' \in [Rows -> Row]
        /\ \A s \in Rows : /\ row'[s].attempts = row[s].attempts
                           /\ row'[s].status \in {"deleted", "dead"} => row'[s].status = row[s].status
    BY <2>1, <2>2 DEF CountInv, Types, c
  <2>4. LoopType' /\ HistoryType'
    BY <1>1 DEF CountInv, Types, Claim
  <2>5. \A v \in Workers : pc'[v] \in {"deleting", "failing"} => pc'[v] = pc[v] /\ cur'[v] = cur[v]
    BY <1>1 DEF CountInv, Types, Claim
  <2> QED
    BY <1>1, <2>3, <2>4, <2>5, CountsKept DEF Types, Claim
<1>2. CASE Skip(w, r)
  <2>1. UNCHANGED <<row, cur, history>>
    BY <1>2 DEF Skip
  <2>2. /\ batch' \in [Workers -> SUBSET Rows]
        /\ pc' \in [Workers -> Pcs]
        /\ \A v \in Workers : pc'[v] # pc[v] => pc[v] = "working" /\ pc'[v] = "polling"
    BY <1>2 DEF CountInv, Types, Skip
  <2>3. Types'
    BY <2>1, <2>2 DEF CountInv, Types
  <2> QED
    BY <2>1, <2>2, <2>3, CountsKept
<1> QED
  BY <1>1, <1>2

\* CountInv survives putting a row back for want of a handler.
LEMMA PostponeStep ==
    ASSUME CountInv, NEW w \in Workers, Postpone(w)
    PROVE  CountInv'
<1>0. cur[w] \in Rows
  BY DEF CountInv, Types, Postpone
<1>1. Types'
  <2>1. RowType'
    BY <1>0, UnregisteredIs DEF CountInv, Types, Postpone
  <2>2. LoopType' /\ HistoryType'
    BY DEF CountInv, Types, Postpone, Done
  <2> QED
    BY <2>1, <2>2 DEF Types
<1>2. \A s \in Rows : /\ row'[s].attempts = row[s].attempts
                      /\ row'[s].status \in {"deleted", "dead"} => row'[s].status = row[s].status
  BY <1>0, UnregisteredIs DEF CountInv, Types, Postpone
<1>3. \A v \in Workers : pc'[v] \in {"deleting", "failing"} => pc'[v] = pc[v] /\ cur'[v] = cur[v]
  BY DEF CountInv, Types, Postpone, Done
<1> QED
  BY <1>1, <1>2, <1>3, CountsKept DEF Postpone

\* CountInv survives a handler that returns.
LEMMA ReturnsStep ==
    ASSUME CountInv, NEW w \in Workers, HandlerReturns(w)
    PROVE  CountInv'
<1>1. cur[w] \in Rows
  BY DEF CountInv, Types, HandlerReturns
<1>2. Types' /\ Delivered'
  BY <1>1 DEF CountInv, Types, Delivered, HandlerReturns
<1>3. \A s \in Rows : Failing(s)' = Failing(s)
  BY DEF CountInv, Types, Failing, HandlerReturns
<1>4. Counted'
  BY <1>3 DEF CountInv, Counted, HandlerReturns
<1> QED
  BY <1>2, <1>4 DEF CountInv

\* CountInv survives a handler that raises: one run and one worker more.
LEMMA RaisesStep ==
    ASSUME CountInv, NEW w \in Workers, HandlerRaises(w)
    PROVE  CountInv'
<1>1. cur[w] \in Rows
  BY DEF CountInv, Types, HandlerRaises
<1>2. Types' /\ Delivered'
  BY <1>1 DEF CountInv, Types, Delivered, HandlerRaises
<1>3. Counted'
  <2> SUFFICES ASSUME NEW s \in Rows
               PROVE  row'[s].attempts + Cardinality(Failing(s))' <= bad'[s]
    BY DEF CountInv, Counted, HandlerRaises
  <2>1. Cardinality(Failing(s)) \in Nat /\ row[s].attempts \in Nat /\ bad[s] \in Nat
    BY FailingFinite, RowFields DEF CountInv, Types
  <2>2. CASE s = cur[w]
    <3>1. Failing(s)' = Failing(s) \cup {w} /\ w \notin Failing(s)
      BY <2>2 DEF CountInv, Types, Failing, HandlerRaises
    <3>2. Cardinality(Failing(s))' = Cardinality(Failing(s)) + 1
      BY <3>1, FailingFinite, FS_AddElement
    <3>3. bad'[s] = bad[s] + 1
      BY <2>2 DEF CountInv, Types, HandlerRaises
    <3> QED
      BY <2>1, <3>2, <3>3 DEF CountInv, Counted, HandlerRaises
  <2>3. CASE s # cur[w]
    <3>1. Failing(s)' = Failing(s) /\ bad'[s] = bad[s]
      BY <2>3 DEF CountInv, Types, Failing, HandlerRaises
    <3> QED
      BY <3>1 DEF CountInv, Counted, HandlerRaises
  <2> QED
    BY <2>2, <2>3
<1> QED
  BY <1>2, <1>3 DEF CountInv

\* CountInv survives the DELETE: the handler returned before it.
LEMMA DeleteStep ==
    ASSUME CountInv, NEW w \in Workers, Delete(w)
    PROVE  CountInv'
<1>1. cur[w] \in Rows /\ good[cur[w]] > 0
  BY DEF CountInv, Types, Delivered, Delete
<1>0. row' = [row EXCEPT ![cur[w]] = [row[cur[w]] EXCEPT !.status = "deleted", !.age = 0, !.wait = 0]]
  BY <1>1 DEF CountInv, Types, Delete
<1> DEFINE c == [row[cur[w]] EXCEPT !.status = "deleted", !.age = 0, !.wait = 0]
<1>7. c \in Row /\ c.status = "deleted" /\ c.attempts = row[cur[w]].attempts
  BY <1>1, DeletedIs DEF CountInv, Types
<1> HIDE DEF c
<1>2. Types'
  <2>1. RowType'
    BY <1>0, <1>1, <1>7 DEF CountInv, Types, c
  <2>2. LoopType' /\ HistoryType'
    BY DEF CountInv, Types, Delete, Done
  <2> QED
    BY <2>1, <2>2 DEF Types
<1>6. Delivered'
  <2>1. \A s \in Rows : s # cur[w] => row'[s] = row[s]
    BY <1>0 DEF CountInv, Types
  <2>2. \A v \in Workers : pc'[v] = "deleting" => pc[v] = "deleting" /\ cur'[v] = cur[v]
    BY DEF CountInv, Types, Delete, Done
  <2> QED
    BY <1>1, <2>1, <2>2 DEF CountInv, Delivered, Delete
<1>3. \A s \in Rows : Failing(s)' = Failing(s)
  BY DEF CountInv, Types, Failing, Delete, Done
<1>4. \A s \in Rows : row'[s].attempts = row[s].attempts
                      /\ (row'[s].status = "dead" => row[s].status = "dead")
  BY <1>0, <1>1, <1>7 DEF CountInv, Types, c
<1>5. Counted'
  BY <1>3, <1>4 DEF CountInv, Counted, Delete
<1> QED
  BY <1>2, <1>5, <1>6 DEF CountInv

\* CountInv survives the record of a failed run: one attempt more in the
\* table, one worker less.
LEMMA RecordFailureStep ==
    ASSUME CountInv, NEW w \in Workers, RecordFailure(w)
    PROVE  CountInv'
<1> DEFINE c == cur[w]
<1>1. c \in Rows /\ pc[w] = "failing"
  BY DEF CountInv, Types, RecordFailure
<1>2. /\ row'[c] = IF row[c].status = "in_progress" THEN Failed(row[c]) ELSE row[c]
      /\ \A s \in Rows \ {c} : row'[s] = row[s]
  BY <1>1 DEF CountInv, Types, RecordFailure
<1>3. Types'
  BY <1>1, FailedIs DEF CountInv, Types, RecordFailure, Done
<1>4. Delivered'
  <2>1. row'[c].status = "deleted" => row[c].status = "deleted"
    BY <1>1, <1>2, FailedIs DEF CountInv, Types
  <2>2. \A v \in Workers : pc'[v] = "deleting" => pc[v] = "deleting" /\ cur'[v] = cur[v]
    BY DEF CountInv, Types, RecordFailure, Done
  <2> QED
    BY <1>1, <1>2, <2>1, <2>2 DEF CountInv, Delivered, RecordFailure
<1>5. Counted'
  <2> SUFFICES ASSUME NEW s \in Rows
               PROVE  /\ row'[s].attempts + Cardinality(Failing(s))' <= bad[s]
                      /\ row'[s].status = "dead" => row'[s].attempts >= MaxAttempts
    BY DEF Counted, RecordFailure
  <2>1. Cardinality(Failing(s)) \in Nat /\ row[s].attempts \in Nat /\ bad[s] \in Nat
    BY FailingFinite, RowFields DEF CountInv, Types
  <2>2. CASE s = c
    <3>1. Failing(s)' = Failing(s) \ {w} /\ w \in Failing(s)
      BY <1>1, <2>2 DEF CountInv, Types, Failing, RecordFailure, Done
    <3>2. Cardinality(Failing(s))' = Cardinality(Failing(s)) - 1
      BY <3>1, FailingFinite, FS_RemoveElement
    <3>3. CASE row[s].status = "in_progress"
      <4>1. row'[s].attempts = row[s].attempts + 1
            /\ (row'[s].status = "dead" => row[s].attempts + 1 >= MaxAttempts)
        BY <1>2, <2>2, <3>3, FailedIs DEF CountInv, Types
      <4> QED
        BY <2>1, <3>2, <4>1 DEF CountInv, Counted
    <3>4. CASE row[s].status # "in_progress"
      BY <1>2, <2>1, <2>2, <3>2, <3>4 DEF CountInv, Counted
    <3> QED
      BY <3>3, <3>4
  <2>3. CASE s # c
    <3>1. Failing(s)' = Failing(s)
      BY <2>3 DEF CountInv, Types, Failing, RecordFailure, Done
    <3> QED
      BY <1>2, <2>3, <3>1 DEF CountInv, Counted
  <2> QED
    BY <2>2, <2>3
<1> QED
  BY <1>3, <1>4, <1>5 DEF CountInv

\* CountInv survives a failed transaction, a stop or a crash.
LEMMA FaultStep ==
    ASSUME CountInv, NEW w \in Workers, DbError(w) \/ Interrupt(w)
    PROVE  CountInv'
<1>1. Types'
  <2>1. RowType' /\ LoopType'
    BY DEF CountInv, Types, DbError, Interrupt, Abandon
  <2>2. HistoryType'
    BY DEF CountInv, Types, DbError, Interrupt, Unfinished
  <2> QED
    BY <2>1, <2>2 DEF Types
<1>2. \A v \in Workers : pc'[v] \in {"deleting", "failing"} => pc'[v] = pc[v] /\ cur'[v] = cur[v]
  BY DEF CountInv, Types, DbError, Interrupt, Abandon
<1>3. UNCHANGED <<row, good, bad>>
  BY DEF DbError, Interrupt
<1> QED
  BY <1>1, <1>2, <1>3, CountsKept

\* CountInv survives the passing of time.
LEMMA TickStep ==
    ASSUME CountInv, Tick
    PROVE  CountInv'
<1>1. \A r \in Rows : row'[r] = Aged(row[r])
  BY DEF Tick
<1>2. Types'
  BY AgedIs DEF CountInv, Types, Tick
<1>3. \A r \in Rows : row'[r].attempts = row[r].attempts /\ row'[r].status = row[r].status
  BY <1>1, AgedIs DEF CountInv, Types
<1> QED
  BY <1>2, <1>3, CountsKept DEF Tick

\* Every step keeps the counts.
LEMMA CountNext ==
    ASSUME CountInv, [Next]_vars
    PROVE  CountInv'
<1>1. CASE UNCHANGED vars
  BY <1>1, CountsKept DEF CountInv, Types, vars
<1>2. ASSUME NEW w \in Workers, Work(w) PROVE CountInv'
  BY <1>2, StartStep, FetchStep, TakeStep, PostponeStep, ReturnsStep, RaisesStep, DeleteStep,
     RecordFailureStep DEF Work
<1> QED
  BY <1>1, <1>2, EnqueueStep, StartStep, FaultStep, TickStep DEF Next

\* The counts are right in every reachable state.
LEMMA CountInvariant == Spec => []CountInv
  BY CountInit, CountNext, PTL DEF Spec

\* A row leaves the table only after a delivery and is buried only after
\* max_attempts runs that raised, however slow the workers are: no assumption
\* on time is needed.
THEOREM EndsAreEarned == Spec => []RowEndEarned
<1>1. ASSUME CountInv PROVE RowEndEarned
  <2>1. \A r \in Rows : Cardinality(Failing(r)) \in Nat /\ row[r].attempts \in Nat /\ bad[r] \in Nat
    BY <1>1, FailingFinite, RowFields DEF CountInv, Types
  <2> QED
    BY <1>1, <2>1 DEF CountInv, Delivered, Counted, RowEndEarned
<1> QED
  BY <1>1, CountInvariant, PTL

----------------------------------------------------------------------------
(* From here on Prompt: a worker settles what it claimed within Stale.     *)

\* A step in which the claims stay where they are, no row is settled, revived
\* or newly tried and no delivery begins or ends.
LEMMA ClaimsKept ==
    ASSUME ExclusiveInv, CountInv', UNCHANGED <<cur, good, undeleted>>,
           \A w \in Workers : cur[w] # NoRow =>
               row'[cur[w]].status = "in_progress" /\ row'[cur[w]].age <= Stale,
           \A r \in Rows : row'[r].status = "deleted" <=> row[r].status = "deleted",
           \A r \in Rows : /\ row'[r].attempts = row[r].attempts
                           /\ row[r].status = "dead" => row'[r].status = "dead",
           \A w \in Workers : pc'[w] = "deleting" <=> pc[w] = "deleting"
    PROVE  ExclusiveInv'
<1>1. Exclusive'
  BY DEF ExclusiveInv, Exclusive
<1>2. Paid'
  BY DEF ExclusiveInv, Paid, Owed
<1>3. Bounded'
  BY DEF ExclusiveInv, Bounded
<1> QED
  BY <1>1, <1>2, <1>3 DEF ExclusiveInv

\* A step in which the worker w lets go of its row c, in whatever state, and no
\* other row is touched.
LEMMA ClaimGone ==
    ASSUME ExclusiveInv, CountInv', NEW w \in Workers, cur[w] # NoRow,
           cur' = [cur EXCEPT ![w] = NoRow],
           pc'[w] # "deleting", \A v \in Workers \ {w} : pc'[v] = pc[v],
           \A r \in Rows \ {cur[w]} :
               row'[r] = row[r] /\ good'[r] = good[r] /\ undeleted'[r] = undeleted[r],
           good'[cur[w]] <= undeleted'[cur[w]] + 1,
           row'[cur[w]].status # "deleted" => good'[cur[w]] <= undeleted'[cur[w]],
           row'[cur[w]].attempts <= MaxAttempts,
           row'[cur[w]].status # "dead" => row'[cur[w]].attempts < MaxAttempts
    PROVE  ExclusiveInv'
<1>0. cur[w] \in Rows /\ cur'[w] = NoRow /\ \A v \in Workers \ {w} : cur'[v] = cur[v]
  BY DEF ExclusiveInv, CountInv, Types
<1>1. Exclusive'
  <2>1. \A v \in Workers : cur'[v] # NoRow =>
           v # w /\ cur'[v] = cur[v] /\ cur[v] \in Rows \ {cur[w]}
    BY <1>0 DEF ExclusiveInv, CountInv, Types, Exclusive
  <2>2. \A v \in Workers : cur'[v] # NoRow =>
           row'[cur'[v]].status = "in_progress" /\ row'[cur'[v]].age <= Stale
    BY <2>1 DEF ExclusiveInv, Exclusive
  <2>3. \A v, u \in Workers : cur'[v] = cur'[u] /\ cur'[u] # NoRow => v = u
    BY <2>1 DEF ExclusiveInv, Exclusive
  <2> QED
    BY <2>2, <2>3 DEF Exclusive
<1>2. Paid'
  <2> SUFFICES ASSUME NEW r \in Rows
               PROVE  good'[r] <= undeleted'[r] + 1 /\ (~Owed(r)' => good'[r] <= undeleted'[r])
    BY DEF Paid
  <2>1. CASE r = cur[w]
    BY <2>1 DEF Owed
  <2>2. CASE r # cur[w]
    <3>1. Owed(r) => Owed(r)'
      BY <1>0, <2>2 DEF Owed
    <3> QED
      BY <2>2, <3>1 DEF ExclusiveInv, Paid
  <2> QED
    BY <2>1, <2>2
<1>3. Bounded'
  BY DEF ExclusiveInv, Bounded
<1> QED
  BY <1>1, <1>2, <1>3 DEF ExclusiveInv

\* A worker that has not yet delivered its row owes nothing for it.
LEMMA NothingOwed ==
    ASSUME ExclusiveInv, NEW w \in Workers, cur[w] # NoRow, pc[w] # "deleting"
    PROVE  ~Owed(cur[w]) /\ cur[w] \in Rows /\ good[cur[w]] <= undeleted[cur[w]]
<1>1. cur[w] \in Rows
  BY DEF ExclusiveInv, CountInv, Types
<1>2. ~Owed(cur[w])
  BY <1>1 DEF ExclusiveInv, Exclusive, Owed
<1> QED
  BY <1>1, <1>2 DEF ExclusiveInv, Paid

\* ExclusiveInv survives a new row.
LEMMA ExclusiveEnqueue ==
    ASSUME ExclusiveInv, CountInv', NEW r \in Rows, Enqueue(r)
    PROVE  ExclusiveInv'
<1>1. /\ \A s \in Rows \ {r} : row'[s] = row[s]
      /\ row[r].status = "none" /\ row'[r].status = "pending" /\ row'[r].attempts = 0
  BY DEF ExclusiveInv, CountInv, Types, Enqueue
<1>2. \A w \in Workers : cur[w] # NoRow => cur[w] \in Rows \ {r}
  BY <1>1 DEF ExclusiveInv, CountInv, Types, Exclusive
<1>3. UNCHANGED <<pc, cur, good, undeleted>>
  BY DEF Enqueue
<1>4. Exclusive'
  BY <1>1, <1>2, <1>3 DEF ExclusiveInv, Exclusive
<1>5. \A s \in Rows : Owed(s)' <=> Owed(s)
  BY <1>1, <1>3 DEF Owed
<1>6. Paid'
  BY <1>3, <1>5 DEF ExclusiveInv, Paid
<1>7. Bounded'
  BY <1>1 DEF ExclusiveInv, Bounded
<1> QED
  BY <1>4, <1>6, <1>7 DEF ExclusiveInv

\* ExclusiveInv survives the start of a worker, its look for stale rows and a fetch.
LEMMA ExclusiveStart ==
    ASSUME ExclusiveInv, CountInv', NEW w \in Workers,
           Start(w) \/ Recover(w) \/ RecoverFails(w) \/ Fetch(w) \/ \E r \in Rows : Skip(w, r)
    PROVE  ExclusiveInv'
<1>1. \A r \in Rows : row'[r] = row[r] \/ (IsStale(r) /\ row'[r] = [row[r] EXCEPT !.status = "pending", !.age = 0])
  BY DEF Start, Recover, RecoverFails, Fetch, Skip
<1>2. \A r \in Rows : row'[r] # row[r] =>
         /\ row[r].status = "in_progress" /\ row[r].age > Stale
         /\ row'[r].status = "pending" /\ row'[r].attempts = row[r].attempts
  <2> SUFFICES ASSUME NEW r \in Rows, row'[r] # row[r]
               PROVE  /\ row[r].status = "in_progress" /\ row[r].age > Stale
                      /\ row'[r].status = "pending" /\ row'[r].attempts = row[r].attempts
    OBVIOUS
  <2> DEFINE c == [row[r] EXCEPT !.status = "pending", !.age = 0]
  <2>1. row'[r] = c /\ IsStale(r)
    BY <1>1
  <2>2. c \in Row /\ c.status = "pending" /\ c.attempts = row[r].attempts
    BY ClaimIs DEF ExclusiveInv, CountInv, Types
  <2> HIDE DEF c
  <2> QED
    BY <2>1, <2>2 DEF IsStale
<1>3. \A v \in Workers : cur[v] # NoRow => cur[v] \in Rows /\ row'[cur[v]] = row[cur[v]]
  <2> SUFFICES ASSUME NEW v \in Workers, cur[v] # NoRow
               PROVE  cur[v] \in Rows /\ row'[cur[v]] = row[cur[v]]
    OBVIOUS
  <2>1. cur[v] \in Rows /\ row[cur[v]].age <= Stale
    BY DEF ExclusiveInv, CountInv, Types, Exclusive
  <2>2. row[cur[v]].age \in Nat
    BY <2>1, RowFields DEF ExclusiveInv, CountInv, Types
  <2> QED
    BY <1>2, <2>1, <2>2
<1>4. UNCHANGED <<cur, good, undeleted>>
  BY DEF Start, Recover, RecoverFails, Fetch, Skip
<1>5. \A v \in Workers : pc'[v] = "deleting" <=> pc[v] = "deleting"
  BY DEF ExclusiveInv, CountInv, Types, Start, Recover, RecoverFails, Fetch, Skip
<1>6. \A v \in Workers : cur[v] # NoRow =>
         row'[cur[v]].status = "in_progress" /\ row'[cur[v]].age <= Stale
  BY <1>3 DEF ExclusiveInv, Exclusive
<1>7. \A r \in Rows : row'[r].status = "deleted" <=> row[r].status = "deleted"
  BY <1>2
<1>8. \A r \in Rows : /\ row'[r].attempts = row[r].attempts
                      /\ row[r].status = "dead" => row'[r].status = "dead"
  BY <1>2
<1> QED
  BY <1>4, <1>5, <1>6, <1>7, <1>8, ClaimsKept

\* ExclusiveInv survives a claim.
LEMMA ExclusiveClaim ==
    ASSUME ExclusiveInv, CountInv', NEW w \in Workers, NEW r \in Rows, Claim(w, r)
    PROVE  ExclusiveInv'
<1> DEFINE c == [row[r] EXCEPT !.status = "in_progress", !.age = 0]
<1>1. row' = [row EXCEPT ![r] = c]
  BY DEF ExclusiveInv, CountInv, Types, Claim
<1>2. c.status = "in_progress" /\ c.attempts = row[r].attempts /\ c.age = 0
  BY DEF ExclusiveInv, CountInv, Types, Row
<1> HIDE DEF c
<1>3. /\ row'[r].status = "in_progress" /\ row'[r].attempts = row[r].attempts /\ row'[r].age = 0
      /\ \A s \in Rows \ {r} : row'[s] = row[s]
  BY <1>1, <1>2 DEF ExclusiveInv, CountInv, Types
<1>4. row[r].status = "pending" /\ pc[w] = "working" /\ cur[w] = NoRow
  BY DEF ExclusiveInv, CountInv, Types, Claim, Claimable
<1>5. /\ cur'[w] = r /\ \A v \in Workers \ {w} : cur'[v] = cur[v] /\ pc'[v] = pc[v]
      /\ pc'[w] # "deleting"
  BY DEF ExclusiveInv, CountInv, Types, Claim
<1>6. \A v \in Workers : cur[v] # NoRow => cur[v] \in Rows \ {r}
  BY <1>4 DEF ExclusiveInv, CountInv, Types, Exclusive
<1>7. Exclusive'
  <2>1. \A v \in Workers : cur'[v] # NoRow =>
           row'[cur'[v]].status = "in_progress" /\ row'[cur'[v]].age <= Stale
    BY <1>3, <1>5, <1>6 DEF ExclusiveInv, Exclusive
  <2>2. \A v, u \in Workers : cur'[v] = cur'[u] /\ cur'[u] # NoRow => v = u
    BY <1>5, <1>6 DEF ExclusiveInv, Exclusive
  <2> QED
    BY <2>1, <2>2 DEF Exclusive
<1>8. \A s \in Rows : Owed(s) => Owed(s)'
  BY <1>3, <1>4, <1>5 DEF Owed
<1>9. Paid'
  BY <1>8 DEF ExclusiveInv, Paid, Claim
<1>10. Bounded'
  BY <1>3, <1>4 DEF ExclusiveInv, Bounded
<1> QED
  BY <1>7, <1>9, <1>10 DEF ExclusiveInv

\* ExclusiveInv survives a handler that returns.
LEMMA ExclusiveReturns ==
    ASSUME ExclusiveInv, CountInv', NEW w \in Workers, HandlerReturns(w)
    PROVE  ExclusiveInv'
<1>1. pc[w] = "handling" /\ cur[w] # NoRow
  BY DEF ExclusiveInv, CountInv, Types, HandlerReturns
<1>2. cur[w] \in Rows /\ good[cur[w]] <= undeleted[cur[w]]
  BY <1>1, NothingOwed
<1>3. Exclusive' /\ Bounded'
  BY DEF ExclusiveInv, Exclusive, Bounded, HandlerReturns
<1>4. Paid'
  <2> SUFFICES ASSUME NEW r \in Rows
               PROVE  good'[r] <= undeleted[r] + 1 /\ (~Owed(r)' => good'[r] <= undeleted[r])
    BY DEF Paid, HandlerReturns
  <2>1. CASE r = cur[w]
    <3>1. good'[r] = good[r] + 1 /\ Owed(r)'
      BY <2>1 DEF ExclusiveInv, CountInv, Types, HandlerReturns, Owed
    <3>2. good[r] \in Nat /\ undeleted[r] \in Nat
      BY DEF ExclusiveInv, CountInv, Types
    <3> QED
      BY <1>2, <2>1, <3>1, <3>2
  <2>2. CASE r # cur[w]
    <3>1. good'[r] = good[r] /\ (Owed(r) => Owed(r)')
      BY <1>1, <2>2 DEF ExclusiveInv, CountInv, Types, HandlerReturns, Owed
    <3> QED
      BY <3>1 DEF ExclusiveInv, Paid
  <2> QED
    BY <2>1, <2>2
<1> QED
  BY <1>3, <1>4 DEF ExclusiveInv

\* ExclusiveInv survives a handler that raises.
LEMMA ExclusiveRaises ==
    ASSUME ExclusiveInv, CountInv', NEW w \in Workers, HandlerRaises(w)
    PROVE  ExclusiveInv'
<1>1. \A v \in Workers : pc'[v] = "deleting" <=> pc[v] = "deleting"
  BY DEF ExclusiveInv, CountInv, Types, HandlerRaises
<1> QED
  BY <1>1, ClaimsKept DEF ExclusiveInv, Exclusive, HandlerRaises

\* ExclusiveInv survives putting a row back.
LEMMA ExclusivePostpone ==
    ASSUME ExclusiveInv, CountInv', NEW w \in Workers, Postpone(w)
    PROVE  ExclusiveInv'
<1>1. pc[w] = "unresolved" /\ cur[w] # NoRow
  BY DEF ExclusiveInv, CountInv, Types, Postpone
<1>2. cur[w] \in Rows /\ good[cur[w]] <= undeleted[cur[w]]
  BY <1>1, NothingOwed
<1>3. row[cur[w]].status = "in_progress"
  BY <1>1 DEF ExclusiveInv, Exclusive
<1>4. row'[cur[w]] = Unregistered(row[cur[w]]) /\ \A r \in Rows \ {cur[w]} : row'[r] = row[r]
  BY <1>2, <1>3 DEF ExclusiveInv, CountInv, Types, Postpone
<1>5. row'[cur[w]].status = "pending" /\ row'[cur[w]].attempts = row[cur[w]].attempts
  BY <1>2, <1>4, UnregisteredIs DEF ExclusiveInv, CountInv, Types
<1>6. row[cur[w]].attempts < MaxAttempts /\ row[cur[w]].attempts <= MaxAttempts
  BY <1>2, <1>3 DEF ExclusiveInv, Bounded
<1>7. /\ cur' = [cur EXCEPT ![w] = NoRow] /\ pc'[w] # "deleting"
      /\ \A v \in Workers \ {w} : pc'[v] = pc[v]
  BY DEF ExclusiveInv, CountInv, Types, Postpone, Done
<1>8. UNCHANGED <<good, undeleted>>
  BY DEF Postpone
<1>9. good[cur[w]] <= undeleted[cur[w]] + 1
  BY <1>2 DEF ExclusiveInv, Paid
<1> QED
  BY <1>1, <1>2, <1>4, <1>5, <1>6, <1>7, <1>8, <1>9, ClaimGone

\* ExclusiveInv survives the DELETE.
LEMMA ExclusiveDelete ==
    ASSUME ExclusiveInv, CountInv', NEW w \in Workers, Delete(w)
    PROVE  ExclusiveInv'
<1>1. cur[w] # NoRow /\ cur[w] \in Rows
  BY DEF ExclusiveInv, CountInv, Types, Delete
<1> DEFINE c == [row[cur[w]] EXCEPT !.status = "deleted", !.age = 0, !.wait = 0]
<1>2. c.status = "deleted" /\ c.attempts = row[cur[w]].attempts
  BY <1>1, DeletedIs DEF ExclusiveInv, CountInv, Types
<1>3. row' = [row EXCEPT ![cur[w]] = c]
  BY <1>1 DEF ExclusiveInv, CountInv, Types, Delete
<1> HIDE DEF c
<1>4. /\ row'[cur[w]].status = "deleted" /\ row'[cur[w]].attempts = row[cur[w]].attempts
      /\ \A r \in Rows \ {cur[w]} : row'[r] = row[r]
  BY <1>1, <1>2, <1>3 DEF ExclusiveInv, CountInv, Types
<1>5. row[cur[w]].status = "in_progress"
  BY <1>1 DEF ExclusiveInv, Exclusive
<1>6. row[cur[w]].attempts < MaxAttempts /\ row[cur[w]].attempts <= MaxAttempts
  BY <1>1, <1>5 DEF ExclusiveInv, Bounded
<1>7. /\ cur' = [cur EXCEPT ![w] = NoRow] /\ pc'[w] # "deleting"
      /\ \A v \in Workers \ {w} : pc'[v] = pc[v]
  BY DEF ExclusiveInv, CountInv, Types, Delete, Done
<1>8. UNCHANGED <<good, undeleted>>
  BY DEF Delete
<1>9. good[cur[w]] <= undeleted[cur[w]] + 1
  BY <1>1 DEF ExclusiveInv, Paid
<1> QED
  BY <1>1, <1>4, <1>6, <1>7, <1>8, <1>9, ClaimGone

\* ExclusiveInv survives the record of a failed run.
LEMMA ExclusiveFailure ==
    ASSUME ExclusiveInv, CountInv', NEW w \in Workers, RecordFailure(w)
    PROVE  ExclusiveInv'
<1>1. pc[w] = "failing" /\ cur[w] # NoRow
  BY DEF ExclusiveInv, CountInv, Types, RecordFailure
<1>2. cur[w] \in Rows /\ good[cur[w]] <= undeleted[cur[w]]
  BY <1>1, NothingOwed
<1>3. row[cur[w]].status = "in_progress"
  BY <1>1 DEF ExclusiveInv, Exclusive
<1>4. row'[cur[w]] = Failed(row[cur[w]]) /\ \A r \in Rows \ {cur[w]} : row'[r] = row[r]
  BY <1>2, <1>3 DEF ExclusiveInv, CountInv, Types, RecordFailure
<1>5. row[cur[w]] \in Row /\ row[cur[w]].attempts \in Nat /\ row[cur[w]].attempts < MaxAttempts
  BY <1>2, <1>3, RowFields DEF ExclusiveInv, CountInv, Types, Bounded
<1>6. /\ row'[cur[w]].attempts <= MaxAttempts
      /\ row'[cur[w]].status # "dead" => row'[cur[w]].attempts < MaxAttempts
      /\ row'[cur[w]].status # "deleted"
  BY <1>4, <1>5, FailedIs
<1>7. /\ cur' = [cur EXCEPT ![w] = NoRow] /\ pc'[w] # "deleting"
      /\ \A v \in Workers \ {w} : pc'[v] = pc[v]
  BY DEF ExclusiveInv, CountInv, Types, RecordFailure, Done
<1>8. UNCHANGED <<good, undeleted>>
  BY DEF RecordFailure
<1>9. good[cur[w]] <= undeleted[cur[w]] + 1
  BY <1>2 DEF ExclusiveInv, Paid
<1> QED
  BY <1>1, <1>2, <1>4, <1>6, <1>7, <1>8, <1>9, ClaimGone

\* ExclusiveInv survives a failed transaction, a stop or a crash.
LEMMA ExclusiveFault ==
    ASSUME ExclusiveInv, CountInv', NEW w \in Workers, DbError(w) \/ Interrupt(w)
    PROVE  ExclusiveInv'
<1>1. UNCHANGED <<row, good>>
  BY DEF DbError, Interrupt
<1>2. /\ cur' = [cur EXCEPT ![w] = NoRow] /\ pc'[w] # "deleting"
      /\ \A v \in Workers \ {w} : pc'[v] = pc[v]
  BY DEF ExclusiveInv, CountInv, Types, DbError, Interrupt, Abandon
<1>3. CASE cur[w] = NoRow
  <2>1. pc[w] # "deleting"
    BY <1>3 DEF ExclusiveInv, CountInv, Types
  <2>2. UNCHANGED <<cur, undeleted>>
    BY <1>2, <1>3, <2>1 DEF ExclusiveInv, CountInv, Types, DbError, Interrupt, Unfinished
  <2>3. \A v \in Workers : pc'[v] = "deleting" <=> pc[v] = "deleting"
    BY <1>2, <2>1
  <2> QED
    BY <1>1, <2>2, <2>3, ClaimsKept DEF ExclusiveInv, Exclusive
<1>4. CASE cur[w] # NoRow
  <2>1. cur[w] \in Rows /\ row[cur[w]].status = "in_progress"
    BY <1>4 DEF ExclusiveInv, CountInv, Types, Exclusive
  <2>2. \A r \in Rows \ {cur[w]} : undeleted'[r] = undeleted[r]
    BY DEF ExclusiveInv, CountInv, Types, DbError, Interrupt, Unfinished
  <2>3. good[cur[w]] <= undeleted'[cur[w]] /\ good[cur[w]] <= undeleted'[cur[w]] + 1
    <3>1. good[cur[w]] \in Nat /\ undeleted[cur[w]] \in Nat
      BY <2>1 DEF ExclusiveInv, CountInv, Types
    <3>2. CASE pc[w] = "deleting"
      <4>1. undeleted'[cur[w]] = undeleted[cur[w]] + 1
        BY <2>1, <3>2 DEF ExclusiveInv, CountInv, Types, DbError, Interrupt, Unfinished
      <4> QED
        BY <2>1, <3>1, <4>1 DEF ExclusiveInv, Paid
    <3>3. CASE pc[w] # "deleting"
      <4>1. undeleted' = undeleted
        BY <3>3 DEF DbError, Interrupt, Unfinished
      <4> QED
        BY <1>4, <3>1, <3>3, <4>1, NothingOwed
    <3> QED
      BY <3>2, <3>3
  <2>4. row[cur[w]].attempts < MaxAttempts /\ row[cur[w]].attempts <= MaxAttempts
    BY <2>1 DEF ExclusiveInv, Bounded
  <2> QED
    BY <1>1, <1>2, <1>4, <2>2, <2>3, <2>4, ClaimGone
<1> QED
  BY <1>3, <1>4

\* ExclusiveInv survives the passing of time: this is where Prompt is used.
LEMMA ExclusiveTick ==
    ASSUME Prompt, ExclusiveInv, CountInv', Tick
    PROVE  ExclusiveInv'
<1>1. \A r \in Rows : /\ row'[r].status = row[r].status /\ row'[r].attempts = row[r].attempts
                      /\ row'[r].age <= row[r].age + 1
  BY AgedIs DEF ExclusiveInv, CountInv, Types, Tick
<1>2. \A w \in Workers : cur[w] # NoRow =>
         row'[cur[w]].status = "in_progress" /\ row'[cur[w]].age <= Stale
  <2> SUFFICES ASSUME NEW w \in Workers, cur[w] # NoRow
               PROVE  row'[cur[w]].status = "in_progress" /\ row'[cur[w]].age <= Stale
    OBVIOUS
  <2>1. cur[w] \in Rows /\ row[cur[w]].age < Stale
    BY DEF ExclusiveInv, CountInv, Types, Tick, Active
  <2>2. row[cur[w]].age \in Nat /\ row'[cur[w]].age \in Nat
    BY <2>1, RowFields DEF ExclusiveInv, CountInv, Types
  <2> QED
    BY <1>1, <2>1, <2>2 DEF ExclusiveInv, Exclusive
<1> QED
  BY <1>1, <1>2, ClaimsKept DEF Tick

\* ExclusiveInv holds of an empty table.
LEMMA ExclusiveInit ==
    ASSUME DlqInit
    PROVE  ExclusiveInv
<1>1. Exclusive /\ Paid
  BY DEF DlqInit, Exclusive, Paid
<1>2. Bounded
  BY DEF DlqInit, Bounded
<1> QED
  BY <1>1, <1>2, CountInit DEF ExclusiveInv

\* Every step keeps it.
LEMMA ExclusiveNext ==
    ASSUME Prompt, ExclusiveInv, [Next]_vars
    PROVE  ExclusiveInv'
<1>0. CountInv'
  BY CountNext DEF ExclusiveInv
<1>1. CASE UNCHANGED vars
  BY <1>0, <1>1, ClaimsKept DEF ExclusiveInv, Exclusive, vars
<1>2. ASSUME NEW w \in Workers, Work(w) PROVE ExclusiveInv'
  BY <1>0, <1>2, ExclusiveStart, ExclusiveClaim, ExclusivePostpone, ExclusiveReturns,
     ExclusiveRaises, ExclusiveDelete, ExclusiveFailure DEF Work
<1> QED
  BY <1>0, <1>1, <1>2, ExclusiveEnqueue, ExclusiveStart, ExclusiveFault, ExclusiveTick DEF Next

\* Claims are exclusive in every reachable state.
LEMMA ExclusiveInvariant ==
    ASSUME Prompt
    PROVE  Spec => []ExclusiveInv
<1>1. Prompt
  OBVIOUS
<1> QED
  BY <1>1, ExclusiveInit, ExclusiveNext, PTL DEF Spec

\* When workers settle what they claimed within the minute of
\* _recover_stale_rows, a row is delivered again only for a DELETE that was
\* prevented: whatever number of processes have the file open.
THEOREM RepeatsArePaid ==
    ASSUME Prompt
    PROVE  Spec => []RepeatsAccounted
<1>1. ASSUME ExclusiveInv PROVE RepeatsAccounted
  BY <1>1 DEF ExclusiveInv, CountInv, Types, Paid, RepeatsAccounted
<1> QED
  BY <1>1, ExclusiveInvariant, PTL

\* With prompt workers the counter of a row never passes max_attempts, and a
\* worker holds a row exactly in the states in which it must settle it.
THEOREM TypeCorrect ==
    ASSUME Prompt
    PROVE  Spec => []TypeOK
<1>1. ASSUME ExclusiveInv PROVE TypeOK
  <2>1. \A r \in Rows : row[r] \in [status : Status, attempts : 0..MaxAttempts,
                                    age : 0..(Stale + 1), wait : Nat]
    <3> SUFFICES ASSUME NEW r \in Rows
                 PROVE  row[r] \in [status : Status, attempts : 0..MaxAttempts,
                                    age : 0..(Stale + 1), wait : Nat]
      OBVIOUS
    <3>1. row[r] \in Row /\ row[r].attempts <= MaxAttempts
      BY <1>1 DEF ExclusiveInv, CountInv, Types, Bounded
    <3> QED
      BY <3>1 DEF Row
  <2> QED
    BY <1>1, <2>1 DEF ExclusiveInv, CountInv, Types, TypeOK
<1> QED
  BY <1>1, ExclusiveInvariant, PTL

=============================================================================
