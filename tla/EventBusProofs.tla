---------------------------- MODULE EventBusProofs ----------------------------
(***************************************************************************)
(* Proofs about EventBus, for every number of publishers, of subscribers   *)
(* and of events, every queue size and both caps.                          *)
(*                                                                         *)
(* The argument follows an event: before the dispatcher it is with one     *)
(* publisher or once in the queue and nothing has been done with it        *)
(* (Before); from the dispatcher on each of its pairs is in one place only *)
(* (Apart), and none is dropped without being counted (Held).  So a loss   *)
(* is counted once (Counts), and the phases of stop() leave nothing        *)
(* anywhere (Life).                                                        *)
(***************************************************************************)
EXTENDS EventBus, FiniteSetTheorems, WellFoundedInduction, TLAPS

Slots == 1 .. Len(queue)

\* TypeOK without its caps, and the counts
Types ==
    /\ state \in {"STOPPED", "STARTING", "RUNNING", "STOPPING"}
    /\ disp \in {"none", "live", "ended", "dead"}
    /\ stopping \in {"no", "finish", "publishers", "abort", "sentinel", "await", "cancel", "dlq"}
    /\ queue \in Seq(Events \cup {Sentinel})
    /\ pub \in [Publishers -> {"idle", "putting", "put"}]
    /\ item \in [Publishers -> Events \cup {0}]
    /\ next \in 1 .. MaxEvents + 1 /\ starts \in 0 .. MaxStarts
    /\ lost \in Nat /\ drops \in Nat
    /\ pending \subseteq [pair : Pairs, st : {"run", "saving"}]
    /\ dlq \subseteq Pairs
    /\ accepted \subseteq Events
    /\ done \subseteq Pairs /\ saved \subseteq Pairs
    /\ counted \subseteq Whole(Events) \cup Pairs

Counts ==
    /\ IsFiniteSet(pending) /\ IsFiniteSet(dlq) /\ IsFiniteSet(counted)
    /\ Cardinality(pending) <= MaxPending /\ Cardinality(dlq) <= MaxDlq
    /\ Len(queue) <= QueueMax /\ unfinished = Len(queue)
    /\ lost = Cardinality(counted)

\* What each phase of a life has left behind
Life ==
    /\ state = "STOPPING" <=> stopping # "no"
    /\ disp = "none" <=> state \in {"STOPPED", "STARTING"}
    /\ state \in {"STOPPED", "STARTING"} =>
          queue = <<>> /\ pending = {} /\ dlq = {} /\ ~Admitted
    /\ stopping \in {"sentinel", "await", "cancel", "dlq"} => ~Admitted
    /\ stopping \in {"abort", "cancel", "dlq"} => Dead
    /\ stopping \in {"cancel", "dlq"} => queue = <<>>
    /\ stopping = "dlq" => pending = {}
    /\ disp = "ended" => stopping \in {"await", "cancel", "dlq"} /\ queue = <<>>

\* An event nothing has been done with
Fresh(e) ==
    \A h \in Handlers \cup {0} :
        /\ <<e, h>> \notin counted \cup done \cup saved \cup dlq
        /\ \A t \in pending : t.pair # <<e, h>>

\* The events before the dispatcher: the one a publisher puts is not in the
\* queue yet, and those in the queue are in it once.
Putting ==
    /\ \A p \in Publishers :
          pub[p] = "putting" => item[p] \in Events \ accepted /\ item[p] < next
    /\ \A p, q \in Publishers :
          pub[p] = "putting" /\ pub[q] = "putting" /\ item[p] = item[q] => p = q
    /\ \A e \in accepted : e < next

Unseen == \A e \in Events \ accepted : Fresh(e)

Queued ==
    /\ \A i \in Slots : queue[i] # Sentinel => queue[i] \in accepted /\ Fresh(queue[i])
    /\ \A i \in Slots : queue[i] = Sentinel => stopping = "await" /\ i = Len(queue)
    /\ \A i, j \in Slots : queue[i] = queue[j] => i = j

Before == Putting /\ Unseen /\ Queued

\* A pair is in one place only.
Apart ==
    /\ \A t \in pending : t.st = "run" => t.pair \notin dlq \cup done \cup saved \cup counted
    /\ dlq \cap (done \cup saved \cup counted) = {}
    /\ counted \cap (done \cup saved) = {}

\* Where the pair of an event the dispatcher took may be
Kept(d) ==
    \/ d \in done \cup saved \cup counted \cup dlq
    \/ \E t \in pending : t.pair = d /\ t.st = "run"

\* Every event that entered the queue is in it, was counted, or each of its
\* pairs is somewhere.
Held ==
    \A e \in accepted :
        \/ \E i \in Slots : queue[i] = e
        \/ <<e, 0>> \in counted
        \/ \A h \in Handlers : Kept(<<e, h>>)

BusInv == Types /\ Counts /\ Life /\ Before /\ Apart /\ Held

USE BusAssumption

-----------------------------------------------------------------------------
(* Sets, counts and the queue                                              *)

\* Subscribers are positive numbers, so the pair of a whole event is nobody's.
LEMMA HandlersAre ==
    /\ Handlers \subseteq Nat /\ 0 \notin Handlers
    /\ Handlers = 1 .. Cardinality(Handlers) /\ Cardinality(Handlers) \in Nat
  BY FS_CardinalityType

\* A set of subscribers that is not empty has a last one.
LEMMA LastOf ==
    ASSUME NEW S \in SUBSET Handlers, S # {}
    PROVE  \E m \in S : \A x \in S : x <= m
<1> DEFINE N == Cardinality(Handlers)
<1> DEFINE T == {N - x : x \in S}
<1>0. N \in Nat /\ \A x \in S : x \in Nat /\ x <= N
  BY HandlersAre
<1>1. T \subseteq Nat /\ T # {}
  <2>1. \A x \in S : N - x \in Nat
    BY <1>0
  <2> HIDE DEF N
  <2> QED
    BY <2>1
<1>2. IsWellFoundedOn(OpToRel(<, Nat), Nat)
  BY NatLessThanWellFounded
<1>3. PICK y \in T : \A z \in T : ~(<<z, y>> \in OpToRel(<, Nat))
  <2> DEFINE R == OpToRel(<, Nat)
  <2> HIDE DEF R, T
  <2> QED
    BY <1>1, <1>2, WFMin DEF R
<1>4. \A z \in T : ~(z < y)
  BY <1>1, <1>3 DEF OpToRel
<1>5. PICK m \in S : y = N - m
  OBVIOUS
<1>6. \A x \in S : ~(N - x < N - m)
  BY <1>4, <1>5
<1>7. \A x \in S : x <= m
  <2> HIDE DEF N
  <2> QED
    BY <1>0, <1>6
<1> QED
  BY <1>7

\* First picks no more than it is asked for.
LEMMA FirstBound ==
    ASSUME NEW n \in Nat, NEW hs \in SUBSET Handlers
    PROVE  /\ First(n, hs) \in SUBSET hs /\ IsFiniteSet(First(n, hs))
           /\ Cardinality(First(n, hs)) <= n
<1> DEFINE F == First(n, hs)
<1>1. F \in SUBSET hs /\ IsFiniteSet(F) /\ IsFiniteSet(hs)
  BY FS_Subset DEF First
<1>2. CASE F = {}
  BY <1>1, <1>2, FS_EmptySet
<1>3. CASE F # {}
  <2>1. PICK m \in F : \A x \in F : x <= m
    <3> HIDE DEF F
    <3> QED
      BY <1>1, <1>3, LastOf
  <2> DEFINE B == {g \in hs : g < m}
  <2>2. Cardinality(B) < n
    BY <2>1 DEF First
  <2>3. F \ {m} \subseteq B
    <3> HIDE DEF F
    <3> QED
      BY <1>1, <2>1, HandlersAre
  <2>4. IsFiniteSet(B) /\ Cardinality(F \ {m}) <= Cardinality(B)
    <3>1. IsFiniteSet(B)
      BY <1>1, FS_Subset
    <3> HIDE DEF B, F
    <3> QED
      BY <2>3, <3>1, FS_Subset
  <2>5. Cardinality(F \ {m}) = Cardinality(F) - 1 /\ Cardinality(F) \in Nat
        /\ Cardinality(B) \in Nat
    <3> HIDE DEF F, B
    <3> QED
      BY <1>1, <2>1, <2>4, FS_RemoveElement, FS_CardinalityType
  <2>6. Cardinality(F) <= n
    <3> HIDE DEF F, B
    <3> QED
      BY <2>2, <2>4, <2>5
  <2> QED
    BY <1>1, <2>6
<1> QED
  BY <1>2, <1>3

\* The pairs and the tasks of an event are no more than its subscribers.
LEMMA PairsOf ==
    ASSUME NEW e, NEW S, IsFiniteSet(S)
    PROVE  /\ IsFiniteSet({<<e, h>> : h \in S})
           /\ Cardinality({<<e, h>> : h \in S}) <= Cardinality(S)
<1> DEFINE T == {<<e, h>> : h \in S}
<1> DEFINE f == [h \in S |-> <<e, h>>]
<1>1. f \in Surjection(S, T)
  BY DEF Surjection
<1> HIDE DEF T, f
<1>2. IsFiniteSet(T) /\ Cardinality(T) <= Cardinality(S)
  BY <1>1, FS_Surjection
<1> QED
  BY <1>2 DEF T

LEMMA RunningOf ==
    ASSUME NEW e, NEW S, IsFiniteSet(S)
    PROVE  IsFiniteSet(Running(e, S)) /\ Cardinality(Running(e, S)) <= Cardinality(S)
<1> DEFINE T == Running(e, S)
<1> DEFINE f == [h \in S |-> [pair |-> <<e, h>>, st |-> "run"]]
<1>1. f \in Surjection(S, T)
  BY DEF Surjection, Running
<1> HIDE DEF T, f
<1>2. IsFiniteSet(T) /\ Cardinality(T) <= Cardinality(S)
  BY <1>1, FS_Surjection
<1> QED
  BY <1>2 DEF T

\* What Lose counts is new, so it is counted once.
LEMMA LoseCounts ==
    ASSUME Counts, NEW xs, IsFiniteSet(xs), xs \cap counted = {}, Lose(xs)
    PROVE  /\ IsFiniteSet(counted') /\ counted' = counted \cup xs
           /\ lost' \in Nat /\ lost' = Cardinality(counted')
<1>1. counted' = counted \cup xs /\ lost' = Cardinality(counted) + Cardinality(xs)
  BY DEF Lose, Counts
<1>2. IsFiniteSet(counted \cup xs)
      /\ Cardinality(counted \cup xs)
           = Cardinality(counted) + Cardinality(xs) - Cardinality(counted \cap xs)
  BY FS_Union DEF Counts
<1>3. Cardinality(counted \cap xs) = 0
  <2>1. counted \cap xs = {}
    OBVIOUS
  <2> QED
    BY <2>1, FS_EmptySet
<1>4. Cardinality(counted) \in Nat /\ Cardinality(xs) \in Nat
  BY FS_CardinalityType DEF Counts
<1> QED
  BY <1>1, <1>2, <1>3, <1>4

\* The queue loses its head.
LEMMA QueueTail ==
    ASSUME Types, queue # <<>>
    PROVE  /\ Tail(queue) \in Seq(Events \cup {Sentinel})
           /\ Len(queue) \in Nat \ {0} /\ Len(Tail(queue)) = Len(queue) - 1
           /\ Head(queue) = queue[1] /\ queue[1] \in Events \cup {Sentinel}
           /\ \A i \in 1 .. Len(queue) - 1 : Tail(queue)[i] = queue[i + 1]
  BY DEF Types

\* The queue gets another item.
LEMMA QueueAppend ==
    ASSUME Types, NEW x \in Events \cup {Sentinel}
    PROVE  /\ Append(queue, x) \in Seq(Events \cup {Sentinel})
           /\ Len(queue) \in Nat /\ Len(Append(queue, x)) = Len(queue) + 1
           /\ Append(queue, x)[Len(queue) + 1] = x
           /\ \A i \in 1 .. Len(queue) : Append(queue, x)[i] = queue[i]
  BY DEF Types

\* The queue is drained: what was in it is counted, and nothing else.
LEMMA DrainedCounts ==
    ASSUME BusInv, Drained
    PROVE  /\ queue' = <<>> /\ unfinished' = 0
           /\ IsFiniteSet(counted') /\ lost' \in Nat /\ lost' = Cardinality(counted')
           /\ counted \subseteq counted' /\ counted' \subseteq counted \cup Whole(Events)
           /\ \A i \in Slots : queue[i] # Sentinel => <<queue[i], 0>> \in counted'
           /\ \A e \in Events : <<e, 0>> \in counted' \ counted => e \in accepted
<1> DEFINE E == {queue[i] : i \in DOMAIN queue} \ {Sentinel}
<1>1. DOMAIN queue = Slots /\ Len(queue) \in Nat
  BY DEF BusInv, Types, Slots
<1>0. \A i \in Slots : queue[i] \in Events \cup {Sentinel}
  BY <1>1 DEF BusInv, Types
<1>2. E \subseteq Events /\ E \subseteq accepted
  BY <1>0, <1>1 DEF BusInv, Before, Queued
<1>3. IsFiniteSet(E)
  <2> DEFINE A == {queue[i] : i \in Slots}
  <2> DEFINE f == [i \in Slots |-> queue[i]]
  <2>1. f \in Surjection(Slots, A)
    BY DEF Surjection
  <2>2. IsFiniteSet(Slots)
    BY <1>1, FS_Interval DEF Slots
  <2>3. IsFiniteSet(A)
    <3> HIDE DEF A, f
    <3> QED
      BY <2>1, <2>2, FS_Surjection
  <2>4. E \subseteq A
    BY <1>1
  <2> HIDE DEF E, A
  <2> QED
    BY <2>3, <2>4, FS_Subset
<1>4. Whole(E) = {<<e, 0>> : e \in E}
  BY DEF Whole
<1>5. IsFiniteSet(Whole(E))
  <2> DEFINE f == [e \in E |-> <<e, 0>>]
  <2> DEFINE T == {<<e, 0>> : e \in E}
  <2>1. f \in Surjection(E, T)
    BY DEF Surjection
  <2>2. IsFiniteSet(T)
    <3> HIDE DEF E, f, T
    <3> QED
      BY <1>3, <2>1, FS_Surjection
  <2> QED
    BY <1>4, <2>2
<1>6. Whole(E) \cap counted = {}
  <2>1. \A i \in Slots : queue[i] # Sentinel => <<queue[i], 0>> \notin counted
    BY DEF BusInv, Before, Queued, Fresh
  <2>2. \A e \in E : <<e, 0>> \notin counted
    BY <1>1, <2>1
  <2> HIDE DEF E
  <2> QED
    BY <1>4, <2>2
<1>7. Lose(Whole(E)) /\ queue' = <<>> /\ unfinished' = unfinished - Len(queue)
  BY DEF Drained
<1>8. /\ IsFiniteSet(counted') /\ counted' = counted \cup Whole(E)
      /\ lost' \in Nat /\ lost' = Cardinality(counted')
  <2> HIDE DEF E
  <2> QED
    BY <1>5, <1>6, <1>7, LoseCounts DEF BusInv
<1>9. unfinished' = 0
  BY <1>1, <1>7 DEF BusInv, Counts
<1> QED
  BY <1>1, <1>2, <1>4, <1>7, <1>8, <1>9 DEF Whole, Slots

\* What one event through the subscriptions does: its pairs get tasks (sp), go
\* to the DLQ (re) or are counted, and no cap is exceeded.
Routed(e, hs, extra) ==
    /\ \E sp, re \in SUBSET hs :
          /\ sp \cap re = {}
          /\ pending' = pending \cup Running(e, sp)
          /\ dlq' = dlq \cup {<<e, h>> : h \in re}
          /\ counted' = counted \cup {<<e, h>> : h \in hs \ (sp \cup re)} \cup extra
    /\ IsFiniteSet(pending') /\ Cardinality(pending') <= MaxPending
    /\ IsFiniteSet(dlq') /\ Cardinality(dlq') <= MaxDlq
    /\ IsFiniteSet(counted') /\ lost' = Cardinality(counted')
    /\ lost' \in Nat /\ drops' \in Nat

\* One event through the subscriptions: each of its pairs gets a task, goes to
\* the DLQ or is counted, and no cap is exceeded.
LEMMA RouteDoes ==
    ASSUME BusInv, NEW e \in Events, Fresh(e), NEW hs \in SUBSET Handlers,
           NEW extra \in SUBSET {<<e, 0>>}, Route(e, hs, extra)
    PROVE  Routed(e, hs, extra)
<1> DEFINE n == MaxPending - Cardinality(pending)
<1> DEFINE sp == First(n, hs)
<1> DEFINE dr == hs \ sp
<1> DEFINE re == First(Room, dr)
<1> DEFINE xs == {<<e, h>> : h \in dr \ re} \cup extra
<1>1. /\ pending' = pending \cup Running(e, sp)
      /\ drops' = drops + Cardinality(dr)
      /\ dlq' = dlq \cup {<<e, h>> : h \in re}
      /\ Lose(xs)
  BY DEF Route
<1>2. /\ IsFiniteSet(pending) /\ IsFiniteSet(dlq) /\ drops \in Nat
      /\ Cardinality(pending) \in Nat /\ Cardinality(dlq) \in Nat
      /\ n \in Nat /\ Room \in Nat /\ Cardinality(dlq) + Room <= MaxDlq
  BY FS_CardinalityType, SMTT(40) DEF BusInv, Types, Counts, Room
<1>3. sp \in SUBSET hs /\ IsFiniteSet(sp) /\ Cardinality(sp) <= n
  <2> HIDE DEF n
  <2> QED
    BY <1>2, FirstBound
<1>4. dr \in SUBSET hs /\ IsFiniteSet(dr)
  <2> HIDE DEF sp
  <2>1. IsFiniteSet(hs)
    BY FS_Subset
  <2> QED
    BY <2>1, FS_Subset
<1>5. re \in SUBSET dr /\ IsFiniteSet(re) /\ Cardinality(re) <= Room
  <2>1. dr \in SUBSET Handlers
    BY <1>4
  <2> HIDE DEF dr
  <2> QED
    BY <1>2, <2>1, FirstBound
<1> HIDE DEF n, sp, dr, re
<1>6. IsFiniteSet(pending') /\ Cardinality(pending') <= MaxPending
  <2> DEFINE R == Running(e, sp)
  <2>1. IsFiniteSet(R) /\ Cardinality(R) <= n
    <3>1. IsFiniteSet(R) /\ Cardinality(R) <= Cardinality(sp)
      BY <1>3, RunningOf
    <3>2. Cardinality(R) \in Nat /\ Cardinality(sp) \in Nat
      BY <1>3, <3>1, FS_CardinalityType
    <3> HIDE DEF R
    <3> QED
      BY <1>2, <1>3, <3>1, <3>2
  <2> HIDE DEF R
  <2>2. /\ IsFiniteSet(pending \cup R) /\ IsFiniteSet(pending \cap R)
        /\ Cardinality(pending \cup R)
             = Cardinality(pending) + Cardinality(R) - Cardinality(pending \cap R)
    BY <1>2, <2>1, FS_Union, FS_Intersection
  <2>3. Cardinality(R) \in Nat /\ Cardinality(pending \cap R) \in Nat
    BY <2>1, <2>2, FS_CardinalityType
  <2>4. n = MaxPending - Cardinality(pending)
    BY DEF n
  <2>5. Cardinality(pending \cup R) <= MaxPending
    BY <1>2, <2>1, <2>2, <2>3, <2>4
  <2>6. pending' = pending \cup R
    BY <1>1 DEF R
  <2> QED
    BY <2>2, <2>5, <2>6
<1>7. IsFiniteSet(dlq') /\ Cardinality(dlq') <= MaxDlq
  <2> DEFINE R == {<<e, h>> : h \in re}
  <2>1. IsFiniteSet(R) /\ Cardinality(R) <= Room
    <3>1. IsFiniteSet(R) /\ Cardinality(R) <= Cardinality(re)
      BY <1>5, PairsOf
    <3>2. Cardinality(R) \in Nat /\ Cardinality(re) \in Nat
      BY <1>5, <3>1, FS_CardinalityType
    <3> HIDE DEF R
    <3> QED
      BY <1>2, <1>5, <3>1, <3>2
  <2> HIDE DEF R
  <2>2. /\ IsFiniteSet(dlq \cup R) /\ IsFiniteSet(dlq \cap R)
        /\ Cardinality(dlq \cup R)
             = Cardinality(dlq) + Cardinality(R) - Cardinality(dlq \cap R)
    BY <1>2, <2>1, FS_Union, FS_Intersection
  <2>3. Cardinality(R) \in Nat /\ Cardinality(dlq \cap R) \in Nat
    BY <2>1, <2>2, FS_CardinalityType
  <2>4. Cardinality(dlq \cup R) <= MaxDlq
    BY <1>2, <2>1, <2>2, <2>3
  <2>5. dlq' = dlq \cup R
    BY <1>1 DEF R
  <2> QED
    BY <2>2, <2>4, <2>5
<1>8. /\ IsFiniteSet(counted') /\ counted' = counted \cup xs
      /\ lost' \in Nat /\ lost' = Cardinality(counted')
  <2>1. IsFiniteSet(dr \ re)
    BY <1>4, FS_Subset
  <2>2. IsFiniteSet({<<e, h>> : h \in dr \ re})
    BY <2>1, PairsOf
  <2>3. IsFiniteSet(extra)
    BY FS_Singleton, FS_Subset
  <2>4. IsFiniteSet(xs)
    <3> DEFINE A == {<<e, h>> : h \in dr \ re}
    <3> HIDE DEF A
    <3>1. IsFiniteSet(A \cup extra)
      BY <2>2, <2>3, FS_Union DEF A
    <3> QED
      BY <3>1 DEF A
  <2>5. xs \cap counted = {}
    BY <1>4, <1>5 DEF Fresh
  <2> HIDE DEF xs
  <2> QED
    BY <1>1, <2>4, <2>5, LoseCounts DEF BusInv
<1>9. drops' \in Nat
  BY <1>1, <1>2, <1>4, FS_CardinalityType
<1>10. re \in SUBSET hs /\ sp \cap re = {} /\ dr \ re = hs \ (sp \cup re)
  BY <1>3, <1>4, <1>5 DEF dr
<1> QED
  BY <1>1, <1>3, <1>6, <1>7, <1>8, <1>9, <1>10, ZenonT(40) DEF Routed

-----------------------------------------------------------------------------
(* The invariant                                                           *)

\* Initially
LEMMA BusBegins ==
    ASSUME Init
    PROVE  BusInv
<1>1. Types
  BY DEF Init, Types
<1>2. Counts
  BY FS_EmptySet DEF Init, Counts
<1>3. Life
  BY DEF Init, Life, Admitted, Dead
<1>4. Before /\ Apart /\ Held
  BY DEF Init, Before, Putting, Unseen, Queued, Apart, Held, Fresh, Slots
<1> QED
  BY <1>1, <1>2, <1>3, <1>4 DEF BusInv

\* BusInv survives a step that changes the life of the bus only.
LEMMA LifeKeeps ==
    ASSUME BusInv, UNCHANGED <<queueVars, pubVars, taskVars, fateVars>>,
           stopping = "await" => stopping' = "await"
    PROVE  /\ Life' /\ Types' => BusInv'
<1>1. Counts' /\ Apart' /\ Held'
  BY DEF BusInv, Counts, Apart, Held, Kept, Slots, queueVars, pubVars, taskVars, fateVars
<1>2. Before'
  BY DEF BusInv, Before, Putting, Unseen, Queued, Fresh, Slots, queueVars, pubVars, taskVars,
     fateVars
<1> QED
  BY <1>1, <1>2 DEF BusInv

\* BusInv survives a draining, with the tasks whose callback runs left alone.
LEMMA DrainKeeps ==
    ASSUME BusInv, Drained, pending' \in SUBSET pending,
           \A t \in pending : t.st = "run" => t \in pending',
           UNCHANGED <<dlq, done, saved, accepted>>
    PROVE  Counts' /\ Unseen' /\ Queued' /\ Apart' /\ Held'
<1>1. /\ queue' = <<>> /\ unfinished' = 0
      /\ IsFiniteSet(counted') /\ lost' \in Nat /\ lost' = Cardinality(counted')
      /\ counted \subseteq counted' /\ counted' \subseteq counted \cup Whole(Events)
      /\ \A i \in Slots : queue[i] # Sentinel => <<queue[i], 0>> \in counted'
      /\ \A e \in Events : <<e, 0>> \in counted' \ counted => e \in accepted
  BY DrainedCounts
<1>2. Slots' = {} /\ Len(queue') = 0
  BY <1>1 DEF Slots
<1>3. /\ IsFiniteSet(pending') /\ Cardinality(pending') <= Cardinality(pending)
      /\ Cardinality(pending') \in Nat /\ Cardinality(pending) \in Nat
  BY FS_Subset, FS_CardinalityType DEF BusInv, Counts
<1>4. Counts'
  BY <1>1, <1>2, <1>3 DEF BusInv, Counts
<1>5. \A d \in Pairs : d \notin Whole(Events) /\ (d \in counted' => d \in counted)
  BY <1>1, HandlersAre DEF Whole, Pairs
<1>6. Unseen'
  <2> SUFFICES ASSUME NEW e \in Events \ accepted
               PROVE  Fresh(e)'
    BY DEF Unseen
  <2>1. Fresh(e)
    BY DEF BusInv, Before, Unseen
  <2>2. \A h \in Handlers : <<e, h>> \notin counted'
    BY <1>5, <2>1 DEF Fresh, Pairs
  <2>3. <<e, 0>> \notin counted'
    BY <1>1, <2>1 DEF Fresh
  <2> QED
    BY <2>1, <2>2, <2>3 DEF Fresh
<1>7. Queued'
  BY <1>2 DEF Queued
<1>8. Apart'
  BY <1>5 DEF BusInv, Types, Apart
<1>9. Held'
  <2> SUFFICES ASSUME NEW e \in accepted, <<e, 0>> \notin counted'
               PROVE  \A h \in Handlers : Kept(<<e, h>>)'
    BY DEF Held
  <2>1. e # Sentinel
    BY DEF BusInv, Types, Events, Sentinel
  <2>2. \A h \in Handlers : Kept(<<e, h>>)
    BY <1>1, <2>1 DEF BusInv, Held
  <2> QED
    BY <1>1, <2>2 DEF Kept
<1> QED
  BY <1>4, <1>6, <1>7, <1>8, <1>9

\* BusInv survives a step that moves one pair, from a task or from the DLQ
\* route, to where it is kept.
LEMMA PairKeeps ==
    ASSUME BusInv, NEW d \in Pairs, d \in dlq \/ \E t \in pending : t.pair = d,
           UNCHANGED <<queue, accepted, stopping, pub, item, next>>,
           counted' \subseteq counted \cup {d}, dlq' \subseteq dlq \cup {d},
           done' \subseteq done \cup {d}, saved' \subseteq saved \cup {d},
           \A t \in pending' : t \in pending \/ t.pair = d
    PROVE  Before'
<1>1. \A e : Fresh(e) => Fresh(e)'
  <2> SUFFICES ASSUME NEW e, Fresh(e)
               PROVE  Fresh(e)'
    OBVIOUS
  <2>1. \A h \in Handlers \cup {0} : d # <<e, h>>
    BY DEF Fresh
  <2> QED
    BY <2>1 DEF Fresh
<1>2. Putting'
  BY DEF BusInv, Before, Putting
<1>3. Unseen'
  BY <1>1 DEF BusInv, Before, Unseen
<1>4. Queued'
  BY <1>1 DEF BusInv, Before, Queued, Slots
<1> QED
  BY <1>2, <1>3, <1>4 DEF Before

\* Held survives a step that loses no pair.
LEMMA PairHeld ==
    ASSUME BusInv, UNCHANGED <<queue, accepted>>, counted \subseteq counted',
           \A d \in Pairs : Kept(d) => Kept(d)'
    PROVE  Held'
  BY DEF BusInv, Types, Held, Slots, Pairs

\* The items of the queue when its head was taken, and when one was added
LEMMA TailSlots ==
    ASSUME Len(queue) \in Nat \ {0}, Len(queue') = Len(queue) - 1,
           \A i \in 1 .. Len(queue) - 1 : queue'[i] = queue[i + 1]
    PROVE  /\ 1 \in Slots
           /\ \A i \in Slots' : i + 1 \in Slots /\ i + 1 # 1 /\ queue'[i] = queue[i + 1]
           /\ \A i \in Slots : i = 1 \/ \E j \in Slots' : queue'[j] = queue[i]
<1>1. \A i \in Slots : i # 1 => i - 1 \in Slots' /\ queue'[i - 1] = queue[i]
  <2> SUFFICES ASSUME NEW i \in Slots, i # 1
               PROVE  i - 1 \in Slots' /\ queue'[i - 1] = queue[i]
    OBVIOUS
  <2>1. i - 1 \in 1 .. Len(queue) - 1 /\ (i - 1) + 1 = i
    BY DEF Slots
  <2> QED
    BY <2>1 DEF Slots
<1> QED
  BY <1>1 DEF Slots

\* BusInv survives the taking of an event whose pairs get a task (sp), go to
\* the DLQ (re) or are counted (ls), or which is counted itself.
LEMMA RouteKeeps ==
    ASSUME BusInv, NEW e \in accepted, Fresh(e), e = queue[1], stopping' = stopping,
           UNCHANGED <<pub, item, next, accepted, done, saved>>,
           queue' \in Seq(Events \cup {Sentinel}),
           Len(queue) \in Nat \ {0}, Len(queue') = Len(queue) - 1,
           \A i \in 1 .. Len(queue) - 1 : queue'[i] = queue[i + 1],
           NEW sp \in SUBSET Handlers, NEW re \in SUBSET Handlers, NEW ls \in SUBSET Handlers,
           sp \cap re = {}, sp \cap ls = {}, re \cap ls = {},
           NEW extra \in SUBSET {<<e, 0>>},
           sp \cup re \cup ls = Handlers \/ <<e, 0>> \in extra,
           pending' = pending \cup Running(e, sp),
           dlq' = dlq \cup {<<e, h>> : h \in re},
           counted' = counted \cup {<<e, h>> : h \in ls} \cup extra
    PROVE  /\ pending' \subseteq [pair : Pairs, st : {"run", "saving"}]
           /\ dlq' \subseteq Pairs /\ counted' \subseteq Whole(Events) \cup Pairs
           /\ Before' /\ Apart' /\ Held'
<1>1. e \in Events /\ e # Sentinel
  BY DEF BusInv, Types, Events, Sentinel
<1>2. \A t \in pending' : \/ t \in pending
                          \/ t.st = "run" /\ t = [pair |-> t.pair, st |-> "run"]
                             /\ \E h \in sp : t.pair = <<e, h>>
  BY DEF Running
<1>3. \A h \in sp : \E t \in pending' : t.st = "run" /\ t.pair = <<e, h>>
  <2> SUFFICES ASSUME NEW h \in sp
               PROVE  \E t \in pending' : t.st = "run" /\ t.pair = <<e, h>>
    OBVIOUS
  <2> DEFINE t == [pair |-> <<e, h>>, st |-> "run"]
  <2>1. t \in pending'
    BY DEF Running
  <2> QED
    BY <2>1
<1>4. /\ pending' \subseteq [pair : Pairs, st : {"run", "saving"}]
      /\ dlq' \subseteq Pairs /\ counted' \subseteq Whole(Events) \cup Pairs
  BY <1>1 DEF BusInv, Types, Running, Pairs, Whole
<1>5. \A x : x # e /\ Fresh(x) => Fresh(x)'
  <2> SUFFICES ASSUME NEW x, x # e, Fresh(x)
               PROVE  Fresh(x)'
    OBVIOUS
  <2>1. \A h \in Handlers \cup {0} : <<x, h>> \notin counted' \cup done' \cup saved' \cup dlq'
    BY DEF Fresh
  <2>2. \A h \in Handlers \cup {0}, t \in pending' : t.pair # <<x, h>>
    BY <1>2 DEF Fresh
  <2> QED
    BY <2>1, <2>2 DEF Fresh
<1>6. Putting' /\ Unseen'
  BY <1>5 DEF BusInv, Before, Putting, Unseen
<1>7. /\ 1 \in Slots
      /\ \A i \in Slots' : i + 1 \in Slots /\ i + 1 # 1 /\ queue'[i] = queue[i + 1]
      /\ \A i \in Slots : i = 1 \/ \E j \in Slots' : queue'[j] = queue[i]
  BY TailSlots
<1>8. Queued'
  <2>1. \A i \in Slots' : queue'[i] # e
    BY <1>7 DEF BusInv, Before, Queued
  <2>2. \A i \in Slots' : queue'[i] # Sentinel => queue'[i] \in accepted /\ Fresh(queue[i])'
    <3> SUFFICES ASSUME NEW i \in Slots', queue'[i] # Sentinel
                 PROVE  queue'[i] \in accepted /\ Fresh(queue[i])'
      OBVIOUS
    <3>1. PICK x : x = queue'[i]
      OBVIOUS
    <3>2. x \in accepted /\ Fresh(x) /\ x # e
      BY <1>7, <2>1, <3>1 DEF BusInv, Before, Queued
    <3>3. Fresh(x)'
      BY <1>5, <3>2
    <3> QED
      BY <3>1, <3>2, <3>3 DEF Fresh
  <2>3. \A i \in Slots' : queue'[i] = Sentinel => stopping = "await" /\ i = Len(queue')
    <3> SUFFICES ASSUME NEW i \in Slots', queue'[i] = Sentinel
                 PROVE  stopping = "await" /\ i = Len(queue')
      OBVIOUS
    <3>1. stopping = "await" /\ i + 1 = Len(queue)
      BY <1>7 DEF BusInv, Before, Queued
    <3> QED
      BY <3>1 DEF Slots
  <2>4. \A i, j \in Slots' : queue'[i] = queue'[j] => i = j
    <3> SUFFICES ASSUME NEW i \in Slots', NEW j \in Slots', queue'[i] = queue'[j]
                 PROVE  i = j
      OBVIOUS
    <3>1. i + 1 = j + 1
      BY <1>7 DEF BusInv, Before, Queued
    <3> QED
      BY <3>1 DEF Slots
  <2> QED
    BY <2>2, <2>3, <2>4 DEF Queued
<1>9. Apart'
  <2>1. \A h \in Handlers \cup {0} :
           /\ <<e, h>> \notin counted \cup done \cup saved \cup dlq
           /\ \A t \in pending : t.pair # <<e, h>>
    BY DEF Fresh
  <2>2. \A t \in pending' : t.st = "run" => t.pair \notin dlq' \cup done' \cup saved' \cup counted'
    <3> SUFFICES ASSUME NEW t \in pending', t.st = "run"
                 PROVE  t.pair \notin dlq' \cup done' \cup saved' \cup counted'
      OBVIOUS
    <3>1. CASE t \in pending
      <4>1. t.pair \notin dlq \cup done \cup saved \cup counted
        BY <3>1 DEF BusInv, Apart
      <4>2. \A h \in Handlers \cup {0} : t.pair # <<e, h>>
        BY <2>1, <3>1
      <4> QED
        BY <4>1, <4>2
    <3>2. CASE t \notin pending
      <4>1. PICK h \in sp : t.pair = <<e, h>>
        BY <1>2, <3>2
      <4> QED
        BY <2>1, <4>1, HandlersAre
    <3> QED
      BY <3>1, <3>2
  <2>3. dlq' \cap (done' \cup saved' \cup counted') = {}
    <3> SUFFICES ASSUME NEW d \in dlq'
                 PROVE  d \notin done \cup saved \cup counted'
      OBVIOUS
    <3>1. CASE d \in dlq
      BY <2>1, <3>1 DEF BusInv, Apart
    <3>2. CASE d \notin dlq
      <4>1. PICK h \in re : d = <<e, h>>
        BY <3>2
      <4> QED
        BY <2>1, <4>1, HandlersAre
    <3> QED
      BY <3>1, <3>2
  <2>4. counted' \cap (done' \cup saved') = {}
    BY <2>1 DEF BusInv, Apart
  <2> QED
    BY <2>2, <2>3, <2>4 DEF Apart
<1>10. Held'
  <2> SUFFICES ASSUME NEW x \in accepted
               PROVE  \/ \E i \in Slots' : queue'[i] = x
                      \/ <<x, 0>> \in counted'
                      \/ \A h \in Handlers : Kept(<<x, h>>)'
    BY DEF Held
  <2>1. \A d : Kept(d) => Kept(d)'
    BY DEF Kept
  <2>2. CASE x # e
    BY <1>7, <2>1, <2>2 DEF BusInv, Held
  <2>3. CASE x = e
    BY <1>3, <2>3 DEF Kept
  <2> QED
    BY <2>2, <2>3
<1> QED
  BY <1>4, <1>6, <1>8, <1>9, <1>10 DEF Before

\* BusInv survives an item that enters the queue.
LEMMA AppendKeeps ==
    ASSUME BusInv, NEW x \in Events \cup {Sentinel}, queue' = Append(queue, x),
           x = Sentinel => stopping' = "await",
           \A i \in Slots : queue[i] # Sentinel /\ queue[i] # x,
           accepted' = IF x = Sentinel THEN accepted ELSE accepted \cup {x},
           x # Sentinel => Fresh(x),
           UNCHANGED <<pending, dlq, done, saved, counted>>
    PROVE  Unseen' /\ Queued' /\ Apart' /\ Held'
<1>1. /\ Len(queue) \in Nat /\ Len(queue') = Len(queue) + 1
      /\ queue'[Len(queue) + 1] = x
      /\ \A i \in 1 .. Len(queue) : queue'[i] = queue[i]
  BY QueueAppend DEF BusInv
<1>2. /\ \A i \in Slots : i \in Slots' /\ queue'[i] = queue[i]
      /\ \A i \in Slots' : i \in Slots \/ (i = Len(queue') /\ queue'[i] = x)
      /\ Len(queue') \in Slots' /\ queue'[Len(queue')] = x
  BY <1>1 DEF Slots
<1>3. \A e : Fresh(e)' = Fresh(e)
  BY DEF Fresh
<1>4. Unseen'
  BY <1>3 DEF BusInv, Before, Unseen
<1>5. Queued'
  BY <1>2, <1>3 DEF BusInv, Before, Queued
<1>6. Apart'
  BY DEF BusInv, Apart
<1>7. Held'
  <2>1. \A d : Kept(d)' = Kept(d)
    BY DEF Kept
  <2> QED
    BY <1>2, <2>1 DEF BusInv, Held
<1> QED
  BY <1>4, <1>5, <1>6, <1>7

\* BusInv survives the beginning of start().
LEMMA BeginStartKeeps ==
    ASSUME BusInv, BeginStart
    PROVE  BusInv'
<1>1. /\ UNCHANGED <<queueVars, pubVars, taskVars, fateVars>>
      /\ stopping = "await" => stopping' = "await"
  BY DEF BusInv, Life, BeginStart, Phase
<1>2. Types'
  BY <1>1 DEF BusInv, Types, BeginStart, Phase, queueVars, pubVars, taskVars, fateVars
<1>3. Life'
  BY <1>1 DEF BusInv, Life, Admitted, Dead, BeginStart, Phase, queueVars, pubVars,
     taskVars
<1> QED
  BY <1>1, <1>2, <1>3, LifeKeeps

\* BusInv survives its end.
LEMMA StartWorksKeeps ==
    ASSUME BusInv, StartWorks
    PROVE  BusInv'
<1>1. /\ UNCHANGED <<queueVars, pubVars, taskVars, fateVars>>
      /\ stopping = "await" => stopping' = "await"
  BY DEF BusInv, Life, StartWorks, Phase
<1>2. Types'
  BY <1>1 DEF BusInv, Types, StartWorks, Phase, queueVars, pubVars, taskVars, fateVars
<1>3. Life'
  BY <1>1 DEF BusInv, Life, Admitted, Dead, StartWorks, Phase, queueVars, pubVars,
     taskVars
<1> QED
  BY <1>1, <1>2, <1>3, LifeKeeps

\* BusInv survives its failure.
LEMMA StartFailsKeeps ==
    ASSUME BusInv, StartFails
    PROVE  BusInv'
<1>1. /\ UNCHANGED <<queueVars, pubVars, taskVars, fateVars>>
      /\ stopping = "await" => stopping' = "await"
  BY DEF BusInv, Life, StartFails, Phase
<1>2. Types'
  BY <1>1 DEF BusInv, Types, StartFails, Phase, queueVars, pubVars, taskVars, fateVars
<1>3. Life'
  BY <1>1 DEF BusInv, Life, Admitted, Dead, StartFails, Phase, queueVars, pubVars,
     taskVars
<1> QED
  BY <1>1, <1>2, <1>3, LifeKeeps

\* BusInv survives the beginning of stop().
LEMMA BeginStopKeeps ==
    ASSUME BusInv, BeginStop
    PROVE  BusInv'
<1>1. /\ UNCHANGED <<queueVars, pubVars, taskVars, fateVars>>
      /\ stopping = "await" => stopping' = "await"
  BY DEF BusInv, Life, BeginStop, Phase
<1>2. Types'
  BY <1>1 DEF BusInv, Types, BeginStop, Phase, queueVars, pubVars, taskVars, fateVars
<1>3. Life'
  BY <1>1 DEF BusInv, Life, Admitted, Dead, BeginStop, Phase, queueVars, pubVars, taskVars
<1> QED
  BY <1>1, <1>2, <1>3, LifeKeeps

\* BusInv survives its look at the dispatcher and the publishers.
LEMMA StopLooksKeeps ==
    ASSUME BusInv, StopLooks
    PROVE  BusInv'
<1>1. /\ UNCHANGED <<queueVars, pubVars, taskVars, fateVars>>
      /\ stopping = "await" => stopping' = "await"
  BY DEF BusInv, Life, StopLooks, Phase
<1>2. Types'
  BY <1>1 DEF BusInv, Types, StopLooks, Phase, queueVars, pubVars, taskVars, fateVars
<1>3. Life'
  BY <1>1 DEF BusInv, Life, Admitted, Dead, StopLooks, Phase, queueVars, pubVars, taskVars
<1> QED
  BY <1>1, <1>2, <1>3, LifeKeeps

\* BusInv survives its wait for the handler tasks.
LEMMA StopGathersKeeps ==
    ASSUME BusInv, StopGathers
    PROVE  BusInv'
<1>1. /\ UNCHANGED <<queueVars, pubVars, taskVars, fateVars>>
      /\ stopping = "await" => stopping' = "await"
  BY DEF BusInv, Life, StopGathers, Phase
<1>2. Types'
  BY <1>1 DEF BusInv, Types, StopGathers, Phase, queueVars, pubVars, taskVars, fateVars
<1>3. Life'
  BY <1>1 DEF BusInv, Life, Admitted, Dead, StopGathers, Phase, queueVars, pubVars,
     taskVars
<1> QED
  BY <1>1, <1>2, <1>3, LifeKeeps

\* BusInv survives its end.
LEMMA StopEndsKeeps ==
    ASSUME BusInv, StopEnds
    PROVE  BusInv'
<1>1. /\ UNCHANGED <<queueVars, pubVars, taskVars, fateVars>>
      /\ stopping = "await" => stopping' = "await"
  BY DEF BusInv, Life, StopEnds, Phase
<1>2. Types'
  BY <1>1 DEF BusInv, Types, StopEnds, Phase, queueVars, pubVars, taskVars, fateVars
<1>3. Life'
  BY <1>1 DEF BusInv, Life, Admitted, Dead, StopEnds, Phase, queueVars, pubVars, taskVars
<1> QED
  BY <1>1, <1>2, <1>3, LifeKeeps

\* BusInv survives the cancellation of the dispatcher.
LEMMA DispatcherCancelledKeeps ==
    ASSUME BusInv, DispatcherCancelled
    PROVE  BusInv'
<1>1. /\ UNCHANGED <<queueVars, pubVars, taskVars, fateVars>>
      /\ stopping = "await" => stopping' = "await"
  BY DEF BusInv, Life, DispatcherCancelled, Phase
<1>2. Types'
  BY <1>1 DEF BusInv, Types, DispatcherCancelled, Phase, queueVars, pubVars, taskVars,
     fateVars
<1>3. Life'
  BY <1>1 DEF BusInv, Life, Admitted, Dead, DispatcherCancelled, Phase, queueVars,
     pubVars, taskVars
<1> QED
  BY <1>1, <1>2, <1>3, LifeKeeps

\* BusInv survives the draining of stop() with the dispatcher dead.
LEMMA StopAbortsKeeps ==
    ASSUME BusInv, StopAborts
    PROVE  BusInv'
<1>1. Counts' /\ Unseen' /\ Queued' /\ Apart' /\ Held'
  BY DrainKeeps DEF StopAborts, CancelPending, pubVars
<1>2. Types'
  <2>1. queue' = <<>> /\ lost' \in Nat /\ counted' \subseteq counted \cup Whole(Events)
    BY DrainedCounts DEF StopAborts
  <2> QED
    BY <2>1 DEF BusInv, Types, StopAborts, Phase, CancelPending, Leave, lifeVars,
       pubVars, taskVars
<1>3. Life'
  BY DrainedCounts DEF BusInv, Types, Life, Admitted, Dead, StopAborts, Phase,
     CancelPending, Leave, lifeVars, pubVars, taskVars
<1>4. Putting'
  BY DEF BusInv, Types, Before, Putting, StopAborts, Leave, pubVars
<1> QED
  BY <1>1, <1>2, <1>3, <1>4 DEF BusInv, Before

\* BusInv survives a publish() that finds the dispatcher over.
LEMMA PublishFailsKeeps ==
    ASSUME BusInv, NEW p \in Publishers, PublishFails(p)
    PROVE  BusInv'
<1>1. Counts' /\ Unseen' /\ Queued' /\ Apart' /\ Held'
  BY DrainKeeps DEF PublishFails, taskVars
<1>2. Types'
  <2>1. queue' = <<>> /\ lost' \in Nat /\ counted' \subseteq counted \cup Whole(Events)
    BY DrainedCounts DEF PublishFails
  <2> QED
    BY <2>1 DEF BusInv, Types, PublishFails, Phase, CancelPending, Leave, lifeVars,
       pubVars, taskVars
<1>3. Life'
  BY DrainedCounts DEF BusInv, Types, Life, Admitted, Dead, PublishFails, Phase,
     CancelPending, Leave, lifeVars, pubVars, taskVars
<1>4. Putting'
  BY DEF BusInv, Types, Before, Putting, PublishFails, Leave, pubVars
<1> QED
  BY <1>1, <1>2, <1>3, <1>4 DEF BusInv, Before

\* BusInv survives the end of its wait for the dispatcher.
LEMMA DispatcherOverKeeps ==
    ASSUME BusInv, DispatcherOver
    PROVE  BusInv'
<1> DEFINE kept == UNCHANGED <<queueVars, lost, counted>>
<1>0. /\ pending' \in SUBSET pending /\ \A t \in pending : t.st = "run" => t \in pending'
      /\ UNCHANGED <<state, disp, starts, pubVars, dlq, drops, done, saved>>
      /\ Dead /\ stopping \in {"sentinel", "await"} /\ stopping' = "cancel"
      /\ Drained \/ (stopping = "await" /\ disp = "ended" /\ kept)
  BY DEF DispatcherOver, CancelPending, Phase
<1>1. Counts' /\ Unseen' /\ Queued' /\ Apart' /\ Held'
  <2>1. CASE Drained
    BY <1>0, <2>1, DrainKeeps DEF pubVars
  <2>2. CASE disp = "ended" /\ kept
    <3>1. Counts'
      <4>1. /\ IsFiniteSet(pending') /\ Cardinality(pending') <= Cardinality(pending)
            /\ Cardinality(pending') \in Nat /\ Cardinality(pending) \in Nat
        BY <1>0, FS_Subset, FS_CardinalityType DEF BusInv, Counts
      <4> QED
        BY <1>0, <2>2, <4>1 DEF BusInv, Counts, queueVars
    <3>2. Unseen' /\ Apart' /\ Held'
      BY <1>0, <2>2, SMTT(40) DEF BusInv, Before, Unseen, Fresh, Apart, Held, Kept, Slots,
         queueVars, pubVars
    <3>3. Queued'
      BY <1>0, <2>2 DEF BusInv, Life, Queued, Slots, queueVars
    <3> QED
      BY <3>1, <3>2, <3>3
  <2> QED
    BY <1>0, <2>1, <2>2
<1>2. Types'
  <2>1. CASE Drained
    <3>1. queue' = <<>> /\ lost' \in Nat /\ counted' \subseteq counted \cup Whole(Events)
      BY <2>1, DrainedCounts
    <3> QED
      BY <1>0, <3>1 DEF BusInv, Types, pubVars
  <2>2. CASE kept
    BY <1>0, <2>2 DEF BusInv, Types, pubVars, queueVars
  <2> QED
    BY <1>0, <2>1, <2>2
<1>3. Life'
  <2>1. queue' = <<>>
    BY <1>0 DEF BusInv, Life, Drained, queueVars
  <2> QED
    BY <1>0, <2>1 DEF BusInv, Life, Admitted, Dead, pubVars
<1>4. Putting'
  BY <1>0 DEF BusInv, Before, Putting, pubVars
<1> QED
  BY <1>1, <1>2, <1>3, <1>4 DEF BusInv, Before

\* BusInv survives the put of the sentinel.
LEMMA PutSentinelKeeps ==
    ASSUME BusInv, PutSentinel
    PROVE  BusInv'
<1>1. Unseen' /\ Queued' /\ Apart' /\ Held'
  <2>1. \A i \in Slots : queue[i] # Sentinel
    BY DEF BusInv, Before, Queued, PutSentinel, Phase
  <2>2. queue' = Append(queue, Sentinel) /\ stopping' = "await" /\ accepted' = accepted
        /\ UNCHANGED <<pending, dlq, done, saved, counted>>
    BY DEF PutSentinel, Phase, pubVars, taskVars, fateVars
  <2> QED
    BY <2>1, <2>2, AppendKeeps
<1>2. Types'
  BY QueueAppend DEF BusInv, Types, PutSentinel, Phase, pubVars, taskVars, fateVars
<1>3. Life' /\ Counts'
  <2>1. Life'
    BY DEF BusInv, Life, Admitted, Dead, PutSentinel, Phase, pubVars, taskVars
  <2>2. Len(queue') = Len(queue) + 1 /\ Len(queue) \in Nat
    BY QueueAppend DEF BusInv, PutSentinel
  <2>3. Counts'
    BY <2>2 DEF BusInv, Counts, PutSentinel, taskVars, fateVars
  <2> QED
    BY <2>1, <2>3
<1>4. Putting'
  BY DEF BusInv, Before, Putting, PutSentinel, Phase, pubVars
<1> QED
  BY <1>1, <1>2, <1>3, <1>4 DEF BusInv, Before

\* BusInv survives the end of a put.
LEMMA PutKeeps ==
    ASSUME BusInv, NEW p \in Publishers, Put(p)
    PROVE  BusInv'
<1>0. item[p] \in Events \ accepted /\ item[p] < next /\ item[p] # Sentinel
  BY DEF BusInv, Before, Putting, Put, Events, Sentinel
<1>1. Unseen' /\ Queued' /\ Apart' /\ Held'
  <2>1. Admitted
    BY DEF Put, Admitted
  <2>2. \A i \in Slots : queue[i] # Sentinel /\ queue[i] # item[p]
    BY <1>0, <2>1 DEF BusInv, Life, Before, Queued
  <2>3. Fresh(item[p])
    BY <1>0 DEF BusInv, Before, Unseen
  <2>4. queue' = Append(queue, item[p]) /\ accepted' = accepted \cup {item[p]}
        /\ UNCHANGED <<pending, dlq, done, saved, counted>>
    BY DEF Put, taskVars, fateVars
  <2> QED
    BY <1>0, <2>2, <2>3, <2>4, AppendKeeps
<1>2. Types'
  BY <1>0, QueueAppend DEF BusInv, Types, Put, lifeVars, taskVars, fateVars
<1>3. Life' /\ Counts'
  <2>1. Life'
    BY DEF BusInv, Types, Life, Admitted, Dead, Put, lifeVars, taskVars
  <2>2. Len(queue') = Len(queue) + 1 /\ Len(queue) \in Nat
    BY <1>0, QueueAppend DEF BusInv, Put
  <2>3. Counts'
    BY <2>2 DEF BusInv, Counts, Put, taskVars, fateVars
  <2> QED
    BY <2>1, <2>3
<1>4. Putting'
  <2>1. \A q \in Publishers \ {p} : pub'[q] = pub[q] /\ item'[q] = item[q]
    BY DEF BusInv, Types, Put
  <2>2. pub'[p] = "put" /\ next' = next /\ pub[p] = "putting"
        /\ accepted' = accepted \cup {item[p]}
    BY DEF BusInv, Types, Put
  <2> QED
    BY <1>0, <2>1, <2>2 DEF BusInv, Before, Putting
<1> QED
  BY <1>1, <1>2, <1>3, <1>4 DEF BusInv, Before

\* BusInv survives an admission.
LEMMA PublishKeeps ==
    ASSUME BusInv, NEW p \in Publishers, Publish(p)
    PROVE  BusInv'
<1>1. Unseen' /\ Queued' /\ Apart' /\ Held' /\ Counts'
  <2>1. UNCHANGED <<lifeVars, queueVars, accepted, taskVars, fateVars>>
    BY DEF Publish
  <2>2. Unseen' /\ Queued'
    BY <2>1 DEF BusInv, Before, Unseen, Queued, Fresh, Slots, lifeVars, queueVars, taskVars,
       fateVars
  <2>3. Apart' /\ Held' /\ Counts'
    BY <2>1 DEF BusInv, Apart, Held, Kept, Counts, Slots, queueVars, taskVars, fateVars
  <2> QED
    BY <2>2, <2>3
<1>2. Types'
  BY DEF BusInv, Types, Events, Publish, lifeVars, queueVars, taskVars, fateVars
<1>3. Life'
  BY DEF BusInv, Types, Life, Admitted, Dead, Publish, lifeVars, queueVars, taskVars
<1>4. Putting'
  BY DEF BusInv, Types, Before, Putting, Events, Publish
<1> QED
  BY <1>1, <1>2, <1>3, <1>4 DEF BusInv, Before

\* BusInv survives the return of publish().
LEMMA PublishReturnsKeeps ==
    ASSUME BusInv, NEW p \in Publishers, PublishReturns(p)
    PROVE  BusInv'
<1>1. Unseen' /\ Queued' /\ Apart' /\ Held' /\ Counts'
  <2>1. UNCHANGED <<lifeVars, queueVars, accepted, taskVars, fateVars>>
    BY DEF PublishReturns
  <2>2. Unseen' /\ Queued'
    BY <2>1 DEF BusInv, Before, Unseen, Queued, Fresh, Slots, lifeVars, queueVars, taskVars,
       fateVars
  <2>3. Apart' /\ Held' /\ Counts'
    BY <2>1 DEF BusInv, Apart, Held, Kept, Counts, Slots, queueVars, taskVars, fateVars
  <2> QED
    BY <2>2, <2>3
<1>2. Types'
  BY DEF BusInv, Types, Events, PublishReturns, Leave, lifeVars, queueVars, taskVars,
     fateVars
<1>3. Life'
  BY DEF BusInv, Types, Life, Admitted, Dead, PublishReturns, Leave, lifeVars, queueVars,
     taskVars
<1>4. Putting'
  BY DEF BusInv, Types, Before, Putting, Events, PublishReturns, Leave
<1> QED
  BY <1>1, <1>2, <1>3, <1>4 DEF BusInv, Before

\* BusInv survives the cancellation of a publisher.
LEMMA PublishCancelledKeeps ==
    ASSUME BusInv, NEW p \in Publishers, PublishCancelled(p)
    PROVE  BusInv'
<1>1. Unseen' /\ Queued' /\ Apart' /\ Held' /\ Counts'
  <2>1. UNCHANGED <<lifeVars, queueVars, accepted, taskVars, fateVars>>
    BY DEF PublishCancelled
  <2>2. Unseen' /\ Queued'
    BY <2>1 DEF BusInv, Before, Unseen, Queued, Fresh, Slots, lifeVars, queueVars, taskVars,
       fateVars
  <2>3. Apart' /\ Held' /\ Counts'
    BY <2>1 DEF BusInv, Apart, Held, Kept, Counts, Slots, queueVars, taskVars, fateVars
  <2> QED
    BY <2>2, <2>3
<1>2. Types'
  BY DEF BusInv, Types, Events, PublishCancelled, Leave, lifeVars, queueVars, taskVars,
     fateVars
<1>3. Life'
  BY DEF BusInv, Types, Life, Admitted, Dead, PublishCancelled, Leave, lifeVars,
     queueVars, taskVars
<1>4. Putting'
  BY DEF BusInv, Types, Before, Putting, Events, PublishCancelled, Leave
<1> QED
  BY <1>1, <1>2, <1>3, <1>4 DEF BusInv, Before

\* BusInv survives the dispatch of an event.
LEMMA DispatchKeeps ==
    ASSUME BusInv, Dispatch
    PROVE  BusInv'
<1> DEFINE e == Head(queue)
<1>0. /\ queue # <<>> /\ unfinished' = unfinished - 1
      /\ queue' \in Seq(Events \cup {Sentinel})
      /\ Len(queue) \in Nat \ {0} /\ Len(queue') = Len(queue) - 1
      /\ Head(queue) = queue[1] /\ queue[1] \in Events \cup {Sentinel} /\ 1 \in Slots
      /\ \A i \in 1 .. Len(queue) - 1 : queue'[i] = queue[i + 1]
  BY QueueTail DEF Dispatch, Take, BusInv, Slots
<1>5. /\ e = queue[1] /\ e \in accepted /\ e \in Events /\ Fresh(e) /\ disp = "live" /\ disp' = disp
      /\ UNCHANGED <<state, stopping, starts, pubVars, done, saved>>
  BY <1>0 DEF Dispatch, Take, BusInv, Before, Queued, Sentinel, lifeVars
<1> HIDE DEF e
<1>6. Route(e, Handlers, {})
  BY DEF Dispatch, e
<1>7. Routed(e, Handlers, {})
  <2>1. Handlers \in SUBSET Handlers /\ {} \in SUBSET {<<e, 0>>}
    OBVIOUS
  <2> QED
    BY <1>5, <1>6, <2>1, RouteDoes
<1>8. PICK sp \in SUBSET Handlers, re \in SUBSET Handlers :
         /\ sp \cap re = {}
         /\ pending' = pending \cup Running(e, sp)
         /\ dlq' = dlq \cup {<<e, h>> : h \in re}
         /\ counted' = counted \cup {<<e, h>> : h \in Handlers \ (sp \cup re)} \cup {}
  BY <1>7 DEF Routed
<1> DEFINE ls == Handlers \ (sp \cup re)
<1>9. /\ sp \in SUBSET Handlers /\ re \in SUBSET Handlers /\ ls \in SUBSET Handlers
      /\ sp \cap re = {} /\ sp \cap ls = {} /\ re \cap ls = {}
      /\ sp \cup re \cup ls = Handlers
      /\ counted' = counted \cup {<<e, h>> : h \in ls} \cup {}
  BY <1>8
<1> HIDE DEF ls
<1>1. /\ pending' \subseteq [pair : Pairs, st : {"run", "saving"}]
      /\ dlq' \subseteq Pairs /\ counted' \subseteq Whole(Events) \cup Pairs
      /\ Before' /\ Apart' /\ Held'
  <2>1. UNCHANGED <<pub, item, next, accepted, done, saved>> /\ stopping' = stopping
    BY <1>5 DEF pubVars
  <2>2. pending' = pending \cup Running(e, sp) /\ dlq' = dlq \cup {<<e, h>> : h \in re}
    BY <1>8
  <2>3. {} \in SUBSET {<<e, 0>>} /\ (sp \cup re \cup ls = Handlers \/ <<e, 0>> \in {})
    BY <1>9
  <2> QED
    BY <1>0, <1>5, <1>9, <2>1, <2>2, <2>3, RouteKeeps
<1>2. Types'
  BY <1>0, <1>1, <1>5, <1>7 DEF BusInv, Types, Routed, pubVars
<1>3. Life'
  BY <1>0, <1>5 DEF BusInv, Life, Admitted, Dead, pubVars
<1>4. Counts'
  BY <1>0, <1>7 DEF BusInv, Types, Counts, Routed
<1> QED
  BY <1>1, <1>2, <1>3, <1>4 DEF BusInv, Before

\* BusInv survives a dispatch that raises.
LEMMA DispatchAbortsKeeps ==
    ASSUME BusInv, DispatchAborts
    PROVE  BusInv'
<1> DEFINE e == Head(queue)
<1>0. /\ queue # <<>> /\ unfinished' = unfinished - 1
      /\ queue' \in Seq(Events \cup {Sentinel})
      /\ Len(queue) \in Nat \ {0} /\ Len(queue') = Len(queue) - 1
      /\ Head(queue) = queue[1] /\ queue[1] \in Events \cup {Sentinel} /\ 1 \in Slots
      /\ \A i \in 1 .. Len(queue) - 1 : queue'[i] = queue[i + 1]
  BY QueueTail DEF DispatchAborts, Take, BusInv, Slots
<1>5. /\ e = queue[1] /\ e \in accepted /\ e \in Events /\ Fresh(e) /\ disp = "live" /\ disp' = "dead"
      /\ UNCHANGED <<state, stopping, starts, pubVars, done, saved>>
  BY <1>0 DEF DispatchAborts, Take, BusInv, Before, Queued, Sentinel, lifeVars
<1> HIDE DEF e
<1>6. PICK hs \in SUBSET Handlers : Route(e, hs, {<<e, 0>>})
  <2>1. Whole({e}) = {<<e, 0>>}
    BY DEF Whole
  <2>2. PICK k \in Handlers : Route(e, 1 .. (k - 1), {<<e, 0>>})
    BY <2>1 DEF DispatchAborts, e
  <2>3. 1 .. (k - 1) \in SUBSET Handlers
    BY HandlersAre
  <2> QED
    BY <2>2, <2>3
<1>7. Routed(e, hs, {<<e, 0>>})
  <2>1. hs \in SUBSET Handlers /\ {<<e, 0>>} \in SUBSET {<<e, 0>>}
    OBVIOUS
  <2> QED
    BY <1>5, <1>6, <2>1, RouteDoes
<1>8. PICK sp \in SUBSET hs, re \in SUBSET hs :
         /\ sp \cap re = {}
         /\ pending' = pending \cup Running(e, sp)
         /\ dlq' = dlq \cup {<<e, h>> : h \in re}
         /\ counted' = counted \cup {<<e, h>> : h \in hs \ (sp \cup re)} \cup {<<e, 0>>}
  BY <1>7 DEF Routed
<1> DEFINE ls == hs \ (sp \cup re)
<1>9. /\ sp \in SUBSET Handlers /\ re \in SUBSET Handlers /\ ls \in SUBSET Handlers
      /\ sp \cap re = {} /\ sp \cap ls = {} /\ re \cap ls = {}
      /\ sp \cup re \cup ls = hs
      /\ counted' = counted \cup {<<e, h>> : h \in ls} \cup {<<e, 0>>}
  BY <1>8
<1> HIDE DEF ls
<1>1. /\ pending' \subseteq [pair : Pairs, st : {"run", "saving"}]
      /\ dlq' \subseteq Pairs /\ counted' \subseteq Whole(Events) \cup Pairs
      /\ Before' /\ Apart' /\ Held'
  <2>1. UNCHANGED <<pub, item, next, accepted, done, saved>> /\ stopping' = stopping
    BY <1>5 DEF pubVars
  <2>2. pending' = pending \cup Running(e, sp) /\ dlq' = dlq \cup {<<e, h>> : h \in re}
    BY <1>8
  <2>3. {<<e, 0>>} \in SUBSET {<<e, 0>>} /\ (sp \cup re \cup ls = Handlers \/ <<e, 0>> \in {<<e, 0>>})
    BY <1>9
  <2> QED
    BY <1>0, <1>5, <1>9, <2>1, <2>2, <2>3, RouteKeeps
<1>2. Types'
  BY <1>0, <1>1, <1>5, <1>7 DEF BusInv, Types, Routed, pubVars
<1>3. Life'
  BY <1>0, <1>5 DEF BusInv, Life, Admitted, Dead, pubVars
<1>4. Counts'
  BY <1>0, <1>7 DEF BusInv, Types, Counts, Routed
<1> QED
  BY <1>1, <1>2, <1>3, <1>4 DEF BusInv, Before

\* BusInv survives the end of the dispatcher.
LEMMA DispatchSentinelKeeps ==
    ASSUME BusInv, DispatchSentinel
    PROVE  BusInv'
<1>0. /\ queue # <<>> /\ unfinished' = unfinished - 1
      /\ queue' \in Seq(Events \cup {Sentinel})
      /\ Len(queue) \in Nat \ {0} /\ Len(queue') = Len(queue) - 1
      /\ Head(queue) = queue[1] /\ queue[1] \in Events \cup {Sentinel} /\ 1 \in Slots
      /\ \A i \in 1 .. Len(queue) - 1 : queue'[i] = queue[i + 1]
  BY QueueTail DEF DispatchSentinel, Take, BusInv, Slots
<1>5. /\ queue[1] = Sentinel /\ disp = "live" /\ disp' = "ended" /\ stopping = "await"
      /\ UNCHANGED <<state, stopping, starts, pubVars, taskVars, fateVars>> /\ Len(queue) = 1
  BY <1>0 DEF DispatchSentinel, Take, BusInv, Before, Queued
<1>6. queue' = <<>> /\ Slots' = {} /\ Slots = {1}
  BY <1>0, <1>5 DEF Slots
<1>1. Counts' /\ Unseen' /\ Queued' /\ Apart'
  BY <1>0, <1>5, <1>6 DEF BusInv, Counts, Before, Unseen, Queued, Fresh, Apart, pubVars,
     taskVars, fateVars
<1>2. Types'
  BY <1>0, <1>5 DEF BusInv, Types, pubVars, taskVars, fateVars
<1>3. Life' /\ Held'
  <2>1. Life'
    BY <1>5, <1>6 DEF BusInv, Life, Admitted, Dead, pubVars, taskVars
  <2>2. \A e \in accepted : e # Sentinel
    BY DEF BusInv, Types, Events, Sentinel
  <2>3. Held'
    BY <1>5, <1>6, <2>2 DEF BusInv, Held, Kept, pubVars, taskVars, fateVars
  <2> QED
    BY <2>1, <2>3
<1>4. Putting'
  BY <1>5 DEF BusInv, Before, Putting, pubVars
<1> QED
  BY <1>1, <1>2, <1>3, <1>4 DEF BusInv, Before

\* BusInv survives the end of a handler.
LEMMA HandlerDoneKeeps ==
    ASSUME BusInv, NEW t \in pending, HandlerDone(t)
    PROVE  BusInv'
<1>0. /\ t.st = "run" /\ pending' = pending \ {t} /\ done' = done \cup {t.pair}
      /\ UNCHANGED <<dlq, lost, drops, saved, counted>>
      /\ UNCHANGED <<lifeVars, queueVars, pubVars>>
  BY DEF HandlerDone, fateVars
<1>5. t.pair \in Pairs
  BY DEF BusInv, Types
<1>1. Before'
  <2>1. UNCHANGED <<queue, accepted, stopping, pub, item, next>>
    BY <1>0 DEF lifeVars, queueVars, pubVars
  <2> QED
    BY <1>0, <1>5, <2>1, PairKeeps
<1>2. Types' /\ Life'
  <2>1. Types'
    BY <1>0, <1>5 DEF BusInv, Types, lifeVars, queueVars, pubVars
  <2>2. Life'
    BY <1>0 DEF BusInv, Life, Admitted, Dead, lifeVars, queueVars, pubVars
  <2> QED
    BY <2>1, <2>2
<1>3. Counts'
  <2>1. /\ IsFiniteSet(pending') /\ IsFiniteSet(dlq')
        /\ Cardinality(pending') <= Cardinality(pending) /\ Cardinality(pending) \in Nat
        /\ Cardinality(dlq') <= Cardinality(dlq) /\ Cardinality(dlq) \in Nat
        /\ Cardinality(pending') \in Nat /\ Cardinality(dlq') \in Nat
    BY <1>0, FS_Subset, FS_CardinalityType DEF BusInv, Counts
  <2> QED
    BY <1>0, <2>1 DEF BusInv, Counts, queueVars
<1>4. Apart' /\ Held'
  <2>1. \A x \in pending : x.st = "run" /\ x.pair = t.pair /\ t.st = "run" => x = t
    BY DEF BusInv, Types
  <2>2. Apart'
    BY <1>0, <2>1 DEF BusInv, Apart
  <2>3. \A x \in Pairs : Kept(x) => Kept(x)'
    BY <1>0 DEF Kept
  <2>4. Held'
    BY <1>0, <2>3, PairHeld DEF queueVars, pubVars
  <2> QED
    BY <2>2, <2>4
<1> QED
  BY <1>1, <1>2, <1>3, <1>4 DEF BusInv, Before

\* BusInv survives the failure of a handler.
LEMMA HandlerFailsKeeps ==
    ASSUME BusInv, NEW t \in pending, HandlerFails(t)
    PROVE  BusInv'
<1> DEFINE u == [t EXCEPT !.st = "saving"]
<1>0. /\ UNCHANGED <<lifeVars, queueVars, pubVars, drops, done, saved>> /\ t.st = "run"
      /\ \/ /\ Room > 0 /\ dlq' = dlq \cup {t.pair} /\ pending' = (pending \ {t}) \cup {u}
            /\ UNCHANGED <<lost, counted>>
         \/ /\ pending' = pending \ {t} /\ Lose({t.pair}) /\ UNCHANGED dlq
  BY DEF HandlerFails
<1>5. t.pair \in Pairs /\ t \in [pair : Pairs, st : {"run", "saving"}]
  BY DEF BusInv, Types
<1>6. u \in [pair : Pairs, st : {"run", "saving"}] /\ u.pair = t.pair /\ u.st = "saving"
  BY <1>5
<1> HIDE DEF u
<1>7. t.pair \notin dlq \cup done \cup saved \cup counted
  BY <1>0 DEF BusInv, Apart
<1>8. /\ counted' \subseteq counted \cup {t.pair} /\ counted \subseteq counted'
      /\ IsFiniteSet(counted') /\ lost' \in Nat /\ lost' = Cardinality(counted')
  <2>1. CASE UNCHANGED <<lost, counted>>
    BY <2>1 DEF BusInv, Types, Counts
  <2>2. CASE Lose({t.pair})
    <3>1. IsFiniteSet({t.pair}) /\ {t.pair} \cap counted = {}
      BY <1>7, FS_Singleton, ZenonT(40)
    <3> QED
      BY <2>2, <3>1, LoseCounts DEF BusInv
  <2> QED
    BY <1>0, <2>1, <2>2
<1>9. /\ t.pair \in dlq' \cup counted' /\ dlq' \subseteq dlq \cup {t.pair} /\ dlq \subseteq dlq'
      /\ \A x \in pending \ {t} : x \in pending'
      /\ \A x \in pending' : x \in pending \ {t} \/ x = u
      /\ ~(t.pair \in dlq' /\ t.pair \in counted')
  BY <1>0, <1>7 DEF Lose
<1>1. Before'
  <2>1. UNCHANGED <<queue, accepted, stopping, pub, item, next, done, saved>>
    BY <1>0 DEF lifeVars, queueVars, pubVars
  <2> QED
    BY <1>5, <1>6, <1>8, <1>9, <2>1, PairKeeps
<1>2. Types' /\ Life'
  <2>1. Types'
    BY <1>0, <1>5, <1>6, <1>8, <1>9 DEF BusInv, Types, lifeVars, queueVars, pubVars
  <2>2. Life'
    BY <1>0 DEF BusInv, Life, Admitted, Dead, lifeVars, queueVars, pubVars
  <2> QED
    BY <2>1, <2>2
<1>3. Counts'
  <2>1. IsFiniteSet(pending) /\ IsFiniteSet(dlq) /\ Cardinality(pending) \in Nat
        /\ Cardinality(dlq) \in Nat
    BY FS_CardinalityType DEF BusInv, Counts
  <2>2. IsFiniteSet(pending \ {t}) /\ Cardinality(pending \ {t}) = Cardinality(pending) - 1
    BY <2>1, FS_RemoveElement
  <2>3. /\ IsFiniteSet((pending \ {t}) \cup {u})
        /\ Cardinality((pending \ {t}) \cup {u}) \in {Cardinality(pending) - 1, Cardinality(pending)}
    <3>0. IsFiniteSet((pending \ {t}) \cup {u})
      BY <2>2, FS_AddElement
    <3>1. CASE u \in pending \ {t}
      <4>1. (pending \ {t}) \cup {u} = pending \ {t}
        BY <3>1
      <4> QED
        BY <2>2, <4>1
    <3>2. CASE u \notin pending \ {t}
      <4>1. Cardinality((pending \ {t}) \cup {u}) = Cardinality(pending \ {t}) + 1
        BY <2>2, <3>2, FS_AddElement
      <4> QED
        BY <2>1, <2>2, <3>0, <4>1
    <3> QED
      BY <3>1, <3>2
  <2>4. IsFiniteSet(pending') /\ Cardinality(pending') <= MaxPending
    <3>1. pending' \in {pending \ {t}, (pending \ {t}) \cup {u}}
      BY <1>0
    <3>2. Cardinality(pending) <= MaxPending
      BY DEF BusInv, Counts
    <3>3. Cardinality(pending \ {t}) <= MaxPending
      BY <2>1, <2>2, <3>2
    <3>4. Cardinality((pending \ {t}) \cup {u}) <= MaxPending
      BY <2>1, <2>3, <3>2
    <3> QED
      BY <2>2, <2>3, <3>1, <3>3, <3>4
  <2>5. /\ IsFiniteSet(dlq \cup {t.pair})
        /\ Cardinality(dlq \cup {t.pair}) = Cardinality(dlq) + 1
    BY <1>7, <2>1, FS_AddElement
  <2>6. Room > 0 => Cardinality(dlq) + 1 <= MaxDlq
    BY <2>1 DEF Room
  <2>7. IsFiniteSet(dlq') /\ Cardinality(dlq') <= MaxDlq
    BY <1>0, <2>1, <2>5, <2>6 DEF BusInv, Counts
  <2> QED
    BY <1>0, <1>8, <2>4, <2>7 DEF BusInv, Counts, queueVars
<1>4. Apart' /\ Held'
  <2>1. \A x \in pending : x.st = "run" /\ x.pair = t.pair => x = t
    BY <1>0 DEF BusInv, Types
  <2>2. Apart'
    <3>1. \A x \in pending' : x.st = "run" => x \in pending \ {t} /\ x.pair # t.pair
      BY <1>6, <1>9, <2>1
    <3> QED
      BY <1>0, <1>7, <1>8, <1>9, <3>1 DEF BusInv, Apart
  <2>3. \A x \in Pairs : Kept(x) => Kept(x)'
    BY <1>0, <1>8, <1>9 DEF Kept
  <2>4. Held'
    BY <1>0, <1>8, <2>3, PairHeld DEF queueVars, pubVars
  <2> QED
    BY <2>2, <2>4
<1> QED
  BY <1>1, <1>2, <1>3, <1>4 DEF BusInv, Before

\* BusInv survives the end of its wait.
LEMMA HandlerLeavesKeeps ==
    ASSUME BusInv, NEW t \in pending, HandlerLeaves(t)
    PROVE  BusInv'
<1>0. /\ t.st = "saving" /\ pending' = pending \ {t}
      /\ UNCHANGED <<dlq, lost, drops, done, saved, counted>>
      /\ UNCHANGED <<lifeVars, queueVars, pubVars>>
  BY DEF HandlerLeaves, fateVars
<1>5. t.pair \in Pairs
  BY DEF BusInv, Types
<1>1. Before'
  <2>1. UNCHANGED <<queue, accepted, stopping, pub, item, next>>
    BY <1>0 DEF lifeVars, queueVars, pubVars
  <2> QED
    BY <1>0, <1>5, <2>1, PairKeeps
<1>2. Types' /\ Life'
  <2>1. Types'
    BY <1>0, <1>5 DEF BusInv, Types, lifeVars, queueVars, pubVars
  <2>2. Life'
    BY <1>0 DEF BusInv, Life, Admitted, Dead, lifeVars, queueVars, pubVars
  <2> QED
    BY <2>1, <2>2
<1>3. Counts'
  <2>1. /\ IsFiniteSet(pending') /\ IsFiniteSet(dlq')
        /\ Cardinality(pending') <= Cardinality(pending) /\ Cardinality(pending) \in Nat
        /\ Cardinality(dlq') <= Cardinality(dlq) /\ Cardinality(dlq) \in Nat
        /\ Cardinality(pending') \in Nat /\ Cardinality(dlq') \in Nat
    BY <1>0, FS_Subset, FS_CardinalityType DEF BusInv, Counts
  <2> QED
    BY <1>0, <2>1 DEF BusInv, Counts, queueVars
<1>4. Apart' /\ Held'
  <2>2. Apart'
    BY <1>0 DEF BusInv, Apart
  <2>3. \A x \in Pairs : Kept(x) => Kept(x)'
    BY <1>0 DEF Kept
  <2>4. Held'
    BY <1>0, <2>3, PairHeld DEF queueVars, pubVars
  <2> QED
    BY <2>2, <2>4
<1> QED
  BY <1>1, <1>2, <1>3, <1>4 DEF BusInv, Before

\* BusInv survives an enqueue that works.
LEMMA EnqueueWorksKeeps ==
    ASSUME BusInv, NEW d \in dlq, EnqueueWorks(d)
    PROVE  BusInv'
<1>0. /\ dlq' = dlq \ {d} /\ saved' = saved \cup {d}
      /\ UNCHANGED <<pending, lost, drops, done, counted>>
      /\ UNCHANGED <<lifeVars, queueVars, pubVars>>
  BY DEF EnqueueWorks, fateVars
<1>5. d \in Pairs
  BY DEF BusInv, Types
<1>1. Before'
  <2>1. UNCHANGED <<queue, accepted, stopping, pub, item, next>>
    BY <1>0 DEF lifeVars, queueVars, pubVars
  <2> QED
    BY <1>0, <1>5, <2>1, PairKeeps
<1>2. Types' /\ Life'
  <2>1. Types'
    BY <1>0, <1>5 DEF BusInv, Types, lifeVars, queueVars, pubVars
  <2>2. Life'
    BY <1>0 DEF BusInv, Life, Admitted, Dead, lifeVars, queueVars, pubVars
  <2> QED
    BY <2>1, <2>2
<1>3. Counts'
  <2>1. /\ IsFiniteSet(pending') /\ IsFiniteSet(dlq')
        /\ Cardinality(pending') <= Cardinality(pending) /\ Cardinality(pending) \in Nat
        /\ Cardinality(dlq') <= Cardinality(dlq) /\ Cardinality(dlq) \in Nat
        /\ Cardinality(pending') \in Nat /\ Cardinality(dlq') \in Nat
    BY <1>0, FS_Subset, FS_CardinalityType DEF BusInv, Counts
  <2> QED
    BY <1>0, <2>1 DEF BusInv, Counts, queueVars
<1>4. Apart' /\ Held'
  <2>2. Apart'
    BY <1>0 DEF BusInv, Apart
  <2>3. \A x \in Pairs : Kept(x) => Kept(x)'
    BY <1>0 DEF Kept
  <2>4. Held'
    BY <1>0, <2>3, PairHeld DEF queueVars, pubVars
  <2> QED
    BY <2>2, <2>4
<1> QED
  BY <1>1, <1>2, <1>3, <1>4 DEF BusInv, Before

\* BusInv survives an enqueue that fails.
LEMMA EnqueueFailsKeeps ==
    ASSUME BusInv, NEW d \in dlq, EnqueueFails(d)
    PROVE  BusInv'
<1>0. /\ dlq' = dlq \ {d} /\ Lose({d})
      /\ UNCHANGED <<pending, drops, done, saved>>
      /\ UNCHANGED <<lifeVars, queueVars, pubVars>>
  BY DEF EnqueueFails, fateVars
<1>5. d \in Pairs
  BY DEF BusInv, Types
<1>8. /\ counted' = counted \cup {d} /\ IsFiniteSet(counted')
      /\ lost' \in Nat /\ lost' = Cardinality(counted')
  <2>1. IsFiniteSet({d}) /\ {d} \cap counted = {}
    <3>1. d \notin counted
      BY DEF BusInv, Apart
    <3> QED
      BY <3>1, FS_Singleton
  <2>2. counted' = counted \cup {d} /\ IsFiniteSet(counted')
        /\ lost' \in Nat /\ lost' = Cardinality(counted')
    BY <1>0, <2>1, LoseCounts DEF BusInv
  <2> QED
    BY <2>2
<1>1. Before'
  <2>1. UNCHANGED <<queue, accepted, stopping, pub, item, next>>
    BY <1>0 DEF lifeVars, queueVars, pubVars
  <2> QED
    BY <1>0, <1>5, <1>8, <2>1, PairKeeps
<1>2. Types' /\ Life'
  <2>1. Types'
    BY <1>0, <1>5, <1>8 DEF BusInv, Types, lifeVars, queueVars, pubVars
  <2>2. Life'
    BY <1>0 DEF BusInv, Life, Admitted, Dead, lifeVars, queueVars, pubVars
  <2> QED
    BY <2>1, <2>2
<1>3. Counts'
  <2>1. /\ IsFiniteSet(pending') /\ IsFiniteSet(dlq')
        /\ Cardinality(pending') <= Cardinality(pending) /\ Cardinality(pending) \in Nat
        /\ Cardinality(dlq') <= Cardinality(dlq) /\ Cardinality(dlq) \in Nat
        /\ Cardinality(pending') \in Nat /\ Cardinality(dlq') \in Nat
    BY <1>0, FS_Subset, FS_CardinalityType DEF BusInv, Counts
  <2> QED
    BY <1>0, <1>8, <2>1 DEF BusInv, Counts, queueVars
<1>4. Apart' /\ Held'
  <2>2. Apart'
    BY <1>0, <1>8 DEF BusInv, Apart
  <2>3. \A x \in Pairs : Kept(x) => Kept(x)'
    BY <1>0, <1>8 DEF Kept
  <2>4. Held'
    BY <1>0, <1>8, <2>3, PairHeld DEF queueVars, pubVars
  <2> QED
    BY <2>2, <2>4
<1> QED
  BY <1>1, <1>2, <1>3, <1>4 DEF BusInv, Before

\* BusInv survives every step.
LEMMA BusNext ==
    ASSUME BusInv, [Next]_vars
    PROVE  BusInv'
<1>1. CASE UNCHANGED vars
  <2>1. Types' /\ Counts' /\ Life'
    BY <1>1 DEF BusInv, Types, Counts, Life, Admitted, Dead, vars
  <2>2. Before' /\ Apart' /\ Held'
    BY <1>1, SMTT(40) DEF BusInv, Before, Putting, Unseen, Queued, Fresh, Apart, Held, Kept,
       Slots, vars
  <2> QED
    BY <2>1, <2>2 DEF BusInv
<1>2. CASE BeginStart \/ StartWorks \/ StartFails \/ BeginStop \/ StopStep
  BY <1>2, BeginStartKeeps, StartWorksKeeps, StartFailsKeeps, BeginStopKeeps, StopLooksKeeps,
     StopAbortsKeeps, PutSentinelKeeps, DispatcherOverKeeps, StopGathersKeeps, StopEndsKeeps
     DEF StopStep
<1>3. ASSUME NEW p \in Publishers, Publish(p) \/ PublishStep(p) \/ PublishCancelled(p)
      PROVE  BusInv'
  BY <1>3, PublishKeeps, PutKeeps, PublishReturnsKeeps, PublishFailsKeeps, PublishCancelledKeeps
     DEF PublishStep
<1>4. CASE Dispatch \/ DispatchSentinel \/ DispatchAborts \/ DispatcherCancelled
  BY <1>4, DispatchKeeps, DispatchSentinelKeeps, DispatchAbortsKeeps, DispatcherCancelledKeeps
<1>5. ASSUME NEW t \in pending, HandlerDone(t) \/ TaskStep(t)
      PROVE  BusInv'
  BY <1>5, HandlerDoneKeeps, HandlerFailsKeeps, HandlerLeavesKeeps DEF TaskStep
<1>6. ASSUME NEW d \in dlq, EnqueueStep(d)
      PROVE  BusInv'
  BY <1>6, EnqueueWorksKeeps, EnqueueFailsKeeps DEF EnqueueStep
<1> QED
  BY <1>1, <1>2, <1>3, <1>4, <1>5, <1>6 DEF Next

\* BusInv holds in every reachable state.
LEMMA BusInvariant == Spec => []BusInv
  BY BusBegins, BusNext, PTL DEF Spec

-----------------------------------------------------------------------------
(* What follows from it                                                    *)

\* The state has its type and no pool exceeds its cap: the queue, the handler
\* tasks and the enqueues in flight.
THEOREM TypeCorrect == Spec => []TypeOK
<1>1. ASSUME BusInv PROVE TypeOK
  <2>1. Len(queue) \in Nat
    BY <1>1 DEF BusInv, Types
  <2> QED
    BY <1>1, <2>1 DEF BusInv, Types, Counts, TypeOK
<1> QED
  BY <1>1, BusInvariant, PTL

\* No event vanishes: once the bus is stopped every event that entered the
\* queue was, for each subscriber, handled, saved or counted as lost, and
\* events_lost counts each loss once, and only losses.
THEOREM NoEventVanishes == Spec => []EventsAccounted
<1>1. ASSUME BusInv PROVE EventsAccounted
  <2>1. ASSUME state = "STOPPED", NEW e \in accepted, <<e, 0>> \notin counted, NEW h \in Handlers
        PROVE  <<e, h>> \in done \cup saved \cup counted
    <3>1. queue = <<>> /\ pending = {} /\ dlq = {}
      BY <1>1, <2>1 DEF BusInv, Life
    <3>2. Slots = {}
      BY <3>1 DEF Slots
    <3>3. Kept(<<e, h>>)
      BY <1>1, <2>1, <3>2 DEF BusInv, Held
    <3> QED
      BY <3>1, <3>3 DEF Kept
  <2>2. lost = Cardinality(counted) /\ counted \cap (done \cup saved) = {}
    BY <1>1 DEF BusInv, Counts, Apart
  <2> QED
    BY <2>1, <2>2 DEF EventsAccounted
<1> QED
  BY <1>1, BusInvariant, PTL

\* stop() leaves nothing behind: no item, no publisher inside publish(), no
\* handler, no enqueue, and Queue.join() would return.
THEOREM StopLeavesNothing == Spec => []StoppedMeansQuiet
<1>1. ASSUME BusInv PROVE StoppedMeansQuiet
  BY <1>1 DEF BusInv, Counts, Life, StoppedMeansQuiet
<1> QED
  BY <1>1, BusInvariant, PTL
=============================================================================
