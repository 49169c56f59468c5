------------------------- MODULE DbLifecycleProofs -------------------------
(***************************************************************************)
(* Proofs about DbLifecycle, for every set of tasks and paths and every    *)
(* bound on connections.                                                   *)
(*                                                                         *)
(* BaseInv holds for all operations: the admission counter counts the      *)
(* admitted tasks, transitions exclude each other, a task that uses a      *)
(* connection holds the lock of its path and the connection is the one     *)
(* registered there, and a connection number has one owner.  IndInv adds   *)
(* what holds while get_connection() is not called: a recovery window      *)
(* keeps its path quarantined and empty, and what is in service is open.   *)
(* ServeInv stands on both: what is in service is clean unless its         *)
(* transaction still holds the path, and was opened on the current file.   *)
(* Traced needs BaseInv only: what is open is registered or logged.        *)
(***************************************************************************)
EXTENDS DbLifecycle, FiniteSetTheorems, TLAPS

USE ConstantsAssumption DEF BaseInv, TypeOK, Leave, GiveBack, Free, Release, Admit, Goto, Call,
    Deliver, flags, registry, locks, work, local, disk, ghost, Conns, NoConn

\* The admitted tasks are finitely many, so they can be counted.
LEMMA AdmittedFinite ==
    IsFiniteSet(AdmittedTasks) /\ Cardinality(AdmittedTasks) \in Nat
  BY FS_Subset, FS_CardinalityType DEF AdmittedTasks, ConstantsAssumption

\* While a task is admitted the counter is not zero and the event is not set.
LEMMA AdmittedPositive ==
    ASSUME Accounting, NEW t \in Tasks, Admitted(t)
    PROVE  admitted \in Nat /\ admitted # 0 /\ ~drained
<1>1. AdmittedTasks # {}
  BY DEF AdmittedTasks
<1>2. Cardinality(AdmittedTasks) # 0
  BY <1>1, AdmittedFinite, FS_EmptySet
<1> QED
  BY <1>2, AdmittedFinite DEF Accounting

\* The same for all tasks at once.
LEMMA AnyAdmitted ==
    ASSUME Accounting
    PROVE  \A u \in Tasks : Admitted(u) => admitted # 0 /\ ~drained
  BY AdmittedPositive

\* One more task is admitted
LEMMA OneAdmitted ==
    ASSUME Accounting, NEW t \in Tasks, ~Admitted(t), Admitted(t)',
           \A u \in Tasks \ {t} : Admitted(u)' <=> Admitted(u),
           admitted' = admitted + 1, drained' = FALSE
    PROVE  Accounting'
<1>1. AdmittedTasks' = AdmittedTasks \cup {t} /\ t \notin AdmittedTasks
  BY DEF AdmittedTasks
<1>2. Cardinality(AdmittedTasks') = Cardinality(AdmittedTasks) + 1
  BY <1>1, AdmittedFinite, FS_AddElement
<1>3. admitted' = Cardinality(AdmittedTasks') /\ admitted' # 0
  BY <1>2, AdmittedFinite DEF Accounting
<1> QED
  BY <1>3 DEF Accounting

\* One task gives its admission back
LEMMA OneReleased ==
    ASSUME Accounting, NEW t \in Tasks, Admitted(t), ~Admitted(t)',
           \A u \in Tasks \ {t} : Admitted(u)' <=> Admitted(u), Release
    PROVE  Accounting'
<1>1. AdmittedTasks' = AdmittedTasks \ {t} /\ t \in AdmittedTasks
  BY DEF AdmittedTasks
<1>2. Cardinality(AdmittedTasks') = Cardinality(AdmittedTasks) - 1
  BY <1>1, AdmittedFinite, FS_RemoveElement
<1>3. admitted' = Cardinality(AdmittedTasks') /\ (admitted = 1 <=> admitted' = 0)
  BY <1>2, AdmittedFinite DEF Accounting
<1>4. drained' <=> admitted = 1
  BY DEF Release
<1> QED
  BY <1>3, <1>4 DEF Accounting

\* Connection numbers are integers
LEMMA NumberTypes ==
    ASSUME TypeShared, TypeLocal, TypeDisk
    PROVE  /\ nextConn \in Int
           /\ \A q \in Paths : connections[q] \in Int
           /\ \A u \in Tasks : conn[u] \in Int
  BY DEF TypeShared, TypeLocal, TypeDisk, ConstantsAssumption

\* The items of a loop are pairs of a path and a connection number
LEMMA ItemTypes ==
    ASSUME TypeTodo
    PROVE  \A u \in Tasks : \A item \in todo[u] :
              /\ item[1] \in Paths /\ item[2] \in Int
              /\ item[2] \in Conns \cup {NoConn}
  BY DEF TypeTodo, ConstantsAssumption

\* Nobody's admission changes
LEMMA SameAdmitted ==
    ASSUME Accounting, \A u \in Tasks : Admitted(u)' <=> Admitted(u), UNCHANGED work
    PROVE  Accounting'
<1>1. AdmittedTasks' = AdmittedTasks
  BY DEF AdmittedTasks
<1> QED
  BY <1>1 DEF Accounting

\* Leaving an operation, admitted or not
LEMMA LeaveAccounting ==
    ASSUME TypeLocal, Accounting, NEW t \in Tasks, Leave(t), op' = op
    PROVE  Accounting'
<1>1. ~Admitted(t)' /\ \A u \in Tasks \ {t} : Admitted(u)' <=> Admitted(u)
  BY DEF TypeLocal, Admitted
<1>2. CASE Admitted(t)
  BY <1>1, <1>2, OneReleased
<1>3. CASE ~Admitted(t)
  BY <1>1, <1>3, SameAdmitted
<1> QED
  BY <1>2, <1>3

\* BaseInv survives operation() or transaction() being admitted.
LEMMA EnterBoundaryStep ==
    ASSUME BaseInv, NEW t \in Tasks, NEW p \in Paths, EnterBoundary(t, p)
    PROVE  BaseInv'
<1>1. TypeFlags' /\ TypeTodo' /\ TypeDisk'
  BY DEF EnterBoundary, TypeFlags, TypeTodo, TypeLocal, TypeShared, Registered,
      TypeDisk, LockHeld, Using
<1>2. TypeShared'
  BY AdmittedPositive DEF EnterBoundary, TypeShared, TypeLocal, Admitted
<1>3. TypeLocal' /\ PcOp' /\ Transition'
  BY AdmittedPositive DEF EnterBoundary, TypeLocal, Labels, AllOps, TypeShared, PcOp,
      Transition, InTransition, TypeFlags, Admitted, LockHeld
<1>4. LockHeld' /\ LoopItems'
  BY DEF EnterBoundary, LockHeld, Using, PcOp, TypeLocal, TypeShared, TypeTodo,
      LoopItems, ConstantsAssumption, Registered
<1>5. Fresh' /\ OneOwner'
  BY DEF EnterBoundary, Fresh, TypeLocal, TypeShared, TypeTodo, TypeDisk, Registered,
      OneOwner, LockHeld, Using
<1>6. Accounting'
  <2>1. ~Admitted(t) /\ Admitted(t)' /\ \A u \in Tasks \ {t} : Admitted(u)' <=> Admitted(u)
    BY DEF EnterBoundary, TypeLocal, Admitted
  <2> QED
    BY <2>1, OneAdmitted DEF EnterBoundary
<1> QED
  BY <1>1, <1>2, <1>3, <1>4, <1>5, <1>6

\* BaseInv survives get_connection() being admitted.
LEMMA EnterGetConnectionStep ==
    ASSUME BaseInv, NEW t \in Tasks, NEW p \in Paths, EnterGetConnection(t, p)
    PROVE  BaseInv'
<1>1. TypeFlags' /\ TypeTodo' /\ TypeDisk'
  BY DEF EnterGetConnection, TypeFlags, TypeTodo, TypeLocal, TypeShared, Registered,
      TypeDisk, LockHeld, Using
<1>2. TypeShared'
  BY AdmittedPositive DEF EnterGetConnection, TypeShared, TypeLocal, Admitted
<1>3. TypeLocal' /\ PcOp' /\ Transition'
  BY AdmittedPositive DEF EnterGetConnection, TypeLocal, Labels, AllOps, TypeShared,
      PcOp, Transition, InTransition, TypeFlags, Admitted, LockHeld
<1>4. LockHeld' /\ LoopItems'
  BY DEF EnterGetConnection, LockHeld, Using, PcOp, TypeLocal, TypeShared, TypeTodo,
      LoopItems, ConstantsAssumption, Registered
<1>5. Fresh' /\ OneOwner'
  BY DEF EnterGetConnection, Fresh, TypeLocal, TypeShared, TypeTodo, TypeDisk,
      Registered, OneOwner, LockHeld, Using
<1>6. Accounting'
  <2>1. ~Admitted(t) /\ Admitted(t)' /\ \A u \in Tasks \ {t} : Admitted(u)' <=> Admitted(u)
    BY DEF EnterGetConnection, TypeLocal, Admitted
  <2> QED
    BY <2>1, OneAdmitted DEF EnterGetConnection
<1> QED
  BY <1>1, <1>2, <1>3, <1>4, <1>5, <1>6

\* BaseInv survives recover_connection() being admitted.
LEMMA EnterRecoverStep ==
    ASSUME BaseInv, NEW t \in Tasks, EnterRecover(t)
    PROVE  BaseInv'
<1>1. TypeFlags' /\ TypeTodo' /\ TypeDisk'
  BY DEF EnterRecover, TypeFlags, TypeTodo, TypeLocal, TypeShared, Registered,
      TypeDisk, LockHeld, Using
<1>2. TypeShared'
  BY AdmittedPositive DEF EnterRecover, TypeShared, TypeLocal, Admitted
<1>3. TypeLocal' /\ PcOp' /\ Transition'
  BY AdmittedPositive DEF EnterRecover, TypeLocal, Labels, AllOps, TypeShared, PcOp,
      Transition, InTransition, TypeFlags, Admitted, LockHeld
<1>4. LockHeld' /\ LoopItems'
  BY DEF EnterRecover, LockHeld, Using, PcOp, TypeLocal, TypeShared, TypeTodo,
      LoopItems, ConstantsAssumption, Registered
<1>5. Fresh' /\ OneOwner'
  BY DEF EnterRecover, Fresh, TypeLocal, TypeShared, TypeTodo, TypeDisk, Registered,
      OneOwner, LockHeld, Using
<1>6. Accounting'
  <2>1. ~Admitted(t) /\ Admitted(t)' /\ \A u \in Tasks \ {t} : Admitted(u)' <=> Admitted(u)
    BY DEF EnterRecover, TypeLocal, Admitted
  <2> QED
    BY <2>1, OneAdmitted DEF EnterRecover
<1> QED
  BY <1>1, <1>2, <1>3, <1>4, <1>5, <1>6

\* BaseInv survives checkpoint_all() starting its loop.
LEMMA EnterCheckpointStep ==
    ASSUME BaseInv, NEW t \in Tasks, EnterCheckpoint(t, path[t])
    PROVE  BaseInv'
<1>1. TypeFlags'
  BY DEF EnterCheckpoint, TypeFlags
<1>2. TypeTodo'
  BY DEF EnterCheckpoint, TypeTodo, TypeLocal, TypeShared, Registered
<1>3. TypeDisk'
  BY DEF EnterCheckpoint, TypeDisk, TypeLocal, TypeShared, LockHeld, Using
<1>4. TypeShared'
  BY AdmittedPositive DEF EnterCheckpoint, TypeShared, TypeLocal, Admitted
<1>5. TypeLocal' /\ PcOp' /\ Transition'
  BY AdmittedPositive DEF EnterCheckpoint, TypeLocal, Labels, AllOps, TypeShared, PcOp,
      Transition, InTransition, TypeFlags, Admitted, LockHeld
<1>6. LockHeld' /\ LoopItems'
  BY DEF EnterCheckpoint, LockHeld, Using, PcOp, TypeLocal, TypeShared, TypeTodo,
      LoopItems, ConstantsAssumption, Registered
<1>7. Fresh' /\ OneOwner'
  BY DEF EnterCheckpoint, Fresh, TypeLocal, TypeShared, TypeTodo, TypeDisk, Registered,
      OneOwner, LockHeld, Using
<1>8. Accounting'
  <2>1. ~Admitted(t) /\ Admitted(t)' /\ \A u \in Tasks \ {t} : Admitted(u)' <=> Admitted(u)
    BY DEF EnterCheckpoint, TypeLocal, Admitted
  <2> QED
    BY <2>1, OneAdmitted DEF EnterCheckpoint
<1> QED
  BY <1>1, <1>2, <1>3, <1>4, <1>5, <1>6, <1>7, <1>8

\* BaseInv survives init_all() or shutdown_all() waiting for the transition lock.
LEMMA EnterTransitionStep ==
    ASSUME BaseInv, NEW t \in Tasks, EnterTransition(t, path[t])
    PROVE  BaseInv'
<1>1. TypeFlags' /\ TypeTodo' /\ TypeDisk'
  BY DEF EnterTransition, TypeFlags, TypeTodo, TypeLocal, TypeShared, Registered,
      TypeDisk, LockHeld, Using
<1>2. TypeShared'
  BY AdmittedPositive DEF EnterTransition, TypeShared, TypeLocal, Admitted
<1>3. TypeLocal' /\ PcOp' /\ Transition'
  BY AdmittedPositive DEF EnterTransition, TypeLocal, Labels, AllOps, TypeShared, PcOp,
      Transition, InTransition, TypeFlags, Admitted, LockHeld
<1>4. LockHeld' /\ LoopItems'
  BY DEF EnterTransition, LockHeld, Using, PcOp, TypeLocal, TypeShared, TypeTodo,
      LoopItems, ConstantsAssumption, Registered
<1>5. Fresh' /\ OneOwner'
  BY DEF EnterTransition, Fresh, TypeLocal, TypeShared, TypeTodo, TypeDisk, Registered,
      OneOwner, LockHeld, Using
<1>6. Accounting'
  <2>1. \A u \in Tasks : Admitted(u)' <=> Admitted(u)
    BY DEF EnterTransition, TypeLocal, Admitted, PcOp
  <2> QED
    BY <2>1, SameAdmitted DEF EnterTransition
<1> QED
  BY <1>1, <1>2, <1>3, <1>4, <1>5, <1>6

\* BaseInv survives init_all() reopening the gate or being refused.
LEMMA BeginInitAllStep ==
    ASSUME BaseInv, NEW t \in Tasks, BeginInitAll(t)
    PROVE  BaseInv'
<1>0. \A u \in Tasks : \A item \in todo'[u] : item \in todo[u] \/ item[2] = NoConn
  BY DEF BeginInitAll, TypeTodo
<1>1. TypeFlags'
  BY DEF BeginInitAll, TypeFlags
<1>2. TypeTodo'
  BY DEF BeginInitAll, TypeTodo, TypeLocal, TypeShared, Registered
<1>3. TypeDisk'
  BY DEF BeginInitAll, TypeDisk, TypeLocal, TypeShared, LockHeld, Using
<1>4. TypeShared'
  BY AdmittedPositive DEF BeginInitAll, TypeShared, TypeLocal, Admitted
<1>5. TypeLocal' /\ PcOp' /\ Transition'
  BY AdmittedPositive DEF BeginInitAll, TypeLocal, Labels, AllOps, TypeShared, PcOp,
      Transition, InTransition, TypeFlags, Admitted, LockHeld
<1>6. LockHeld' /\ LoopItems'
  BY DEF BeginInitAll, LockHeld, Using, PcOp, TypeLocal, TypeShared, TypeTodo,
      LoopItems, ConstantsAssumption, Registered
<1>7. Fresh'
  BY <1>0 DEF BeginInitAll, Fresh, TypeDisk, TypeTodo
<1>8. OneOwner'
  BY <1>0 DEF BeginInitAll, OneOwner, TypeTodo
<1>9. Accounting'
  <2>1. CASE Leave(t)
    BY <2>1, LeaveAccounting DEF BeginInitAll
  <2>2. CASE ~Leave(t)
    <3>1. ~Admitted(t) /\ Admitted(t)' /\ \A u \in Tasks \ {t} : Admitted(u)' <=> Admitted(u)
      BY <2>2 DEF BeginInitAll, TypeLocal, Admitted
    <3> QED
      BY <2>2, <3>1, OneAdmitted DEF BeginInitAll
  <2> QED
    BY <2>1, <2>2
<1> QED
  BY <1>1, <1>2, <1>3, <1>4, <1>5, <1>6, <1>7, <1>8, <1>9

\* BaseInv survives shutdown_all() closing the gate.
LEMMA BeginShutdownStep ==
    ASSUME BaseInv, NEW t \in Tasks, BeginShutdown(t)
    PROVE  BaseInv'
<1>1. TypeFlags' /\ TypeTodo' /\ TypeDisk'
  BY DEF BeginShutdown, TypeFlags, TypeTodo, TypeLocal, TypeShared, Registered,
      TypeDisk, LockHeld, Using
<1>2. TypeShared'
  BY AdmittedPositive DEF BeginShutdown, TypeShared, TypeLocal, Admitted
<1>3. TypeLocal' /\ PcOp' /\ Transition'
  BY AdmittedPositive DEF BeginShutdown, TypeLocal, Labels, AllOps, TypeShared, PcOp,
      Transition, InTransition, TypeFlags, Admitted, LockHeld
<1>4. LockHeld' /\ LoopItems'
  BY DEF BeginShutdown, LockHeld, Using, PcOp, TypeLocal, TypeShared, TypeTodo,
      LoopItems, ConstantsAssumption, Registered
<1>5. Fresh' /\ OneOwner'
  BY DEF BeginShutdown, Fresh, TypeLocal, TypeShared, TypeTodo, TypeDisk, Registered,
      OneOwner, LockHeld, Using
<1>6. Accounting'
  <2>1. \A u \in Tasks : Admitted(u)' <=> Admitted(u)
    BY DEF BeginShutdown, TypeLocal, Admitted, PcOp
  <2> QED
    BY <2>1, SameAdmitted DEF BeginShutdown
<1> QED
  BY <1>1, <1>2, <1>3, <1>4, <1>5, <1>6

\* BaseInv survives _resolve_connection under the path lock.
LEMMA ResolveStep ==
    ASSUME BaseInv, NEW t \in Tasks, Resolve(t)
    PROVE  BaseInv'
<1>1. TypeFlags' /\ TypeTodo' /\ TypeDisk'
  BY DEF Resolve, TypeFlags, TypeTodo, TypeLocal, TypeShared, Registered, TypeDisk,
      LockHeld, Using
<1>2. TypeShared'
  BY AdmittedPositive DEF Resolve, TypeShared, TypeLocal, Admitted
<1>3. TypeLocal' /\ PcOp' /\ Transition'
  BY AdmittedPositive DEF Resolve, TypeLocal, Labels, AllOps, TypeShared, PcOp,
      Transition, InTransition, TypeFlags, Admitted, LockHeld
<1>4. LockHeld' /\ LoopItems'
  BY DEF Resolve, LockHeld, Using, PcOp, TypeLocal, TypeShared, TypeTodo, LoopItems,
      ConstantsAssumption, Registered
<1>5. Fresh'
  BY DEF Resolve, Fresh, TypeLocal, TypeShared, TypeTodo, TypeDisk, Registered
<1>6. OneOwner'
  <2>1. conn' = conn \/ conn' = [conn EXCEPT ![t] = connections[path[t]]]
    BY DEF Resolve
  <2>2. UNCHANGED <<connections, path, todo>>
    BY DEF Resolve
  <2> QED
    BY <2>1, <2>2 DEF OneOwner, TypeLocal, TypeShared
<1>7. Accounting'
  <2>1. CASE Leave(t)
    BY <2>1, LeaveAccounting DEF Resolve
  <2>2. CASE ~Leave(t)
    <3>1. \A u \in Tasks : Admitted(u)' <=> Admitted(u)
      BY <2>2 DEF Resolve, TypeLocal, Admitted
    <3> QED
      BY <2>2, <3>1, SameAdmitted DEF Resolve
  <2> QED
    BY <2>1, <2>2
<1> QED
  BY <1>1, <1>2, <1>3, <1>4, <1>5, <1>6, <1>7

\* BaseInv survives the second look at the registry under _init_lock.
LEMMA AcquireInitStep ==
    ASSUME BaseInv, NEW t \in Tasks, AcquireInit(t)
    PROVE  BaseInv'
<1>1. TypeFlags' /\ TypeTodo' /\ TypeDisk'
  BY DEF AcquireInit, TypeFlags, TypeTodo, TypeLocal, TypeShared, Registered, TypeDisk,
      LockHeld, Using
<1>2. TypeShared'
  BY AdmittedPositive DEF AcquireInit, TypeShared, TypeLocal, Admitted
<1>3. TypeLocal' /\ PcOp' /\ Transition'
  BY AdmittedPositive DEF AcquireInit, TypeLocal, Labels, AllOps, TypeShared, PcOp,
      Transition, InTransition, TypeFlags, Admitted, LockHeld
<1>4. LockHeld' /\ LoopItems'
  BY DEF AcquireInit, LockHeld, Using, PcOp, TypeLocal, TypeShared, TypeTodo,
      LoopItems, ConstantsAssumption, Registered
<1>5. Fresh'
  BY DEF AcquireInit, Fresh, TypeLocal, TypeShared, TypeTodo, TypeDisk, Registered
<1>6. OneOwner'
  <2>1. conn' = conn \/ conn' = [conn EXCEPT ![t] = connections[path[t]]]
    BY DEF AcquireInit
  <2>2. UNCHANGED <<connections, path, todo>>
    BY DEF AcquireInit
  <2> QED
    BY <2>1, <2>2 DEF OneOwner, TypeLocal, TypeShared
<1>7. Accounting'
  <2>1. CASE Leave(t)
    BY <2>1, LeaveAccounting DEF AcquireInit
  <2>2. CASE ~Leave(t)
    <3>1. \A u \in Tasks : Admitted(u)' <=> Admitted(u)
      BY <2>2 DEF AcquireInit, TypeLocal, Admitted
    <3> QED
      BY <2>2, <3>1, SameAdmitted DEF AcquireInit
  <2> QED
    BY <2>1, <2>2
<1> QED
  BY <1>1, <1>2, <1>3, <1>4, <1>5, <1>6, <1>7

\* BaseInv survives _init_single registering a fresh connection.
LEMMA OpenOkStep ==
    ASSUME BaseInv, NEW t \in Tasks, OpenOk(t)
    PROVE  BaseInv'
<1>0. /\ nextConn \in Conns /\ nextConn # NoConn
      /\ connections' = [connections EXCEPT ![path[t]] = nextConn]
      /\ nextConn' = nextConn + 1
      /\ UNCHANGED <<path, op, todo>>
      /\ conn' = conn \/ conn' = [conn EXCEPT ![t] = nextConn]
      /\ path[t] \in Paths
  BY DEF OpenOk, TypeDisk, TypeLocal
<1>1. TypeFlags'
  BY DEF OpenOk, TypeFlags
<1>2. TypeTodo'
  BY DEF OpenOk, TypeTodo, TypeLocal, TypeShared, Registered
<1>3. TypeDisk'
  BY DEF OpenOk, TypeDisk, TypeLocal, TypeShared, LockHeld, Using
<1>4. TypeShared'
  BY <1>0, AdmittedPositive DEF OpenOk, TypeShared, TypeLocal
<1>5. PcOp' /\ Transition'
  BY AdmittedPositive DEF OpenOk, PcOp, TypeLocal, Transition, InTransition,
      TypeShared, TypeFlags, Admitted, LockHeld
<1>6. TypeLocal'
  BY <1>0 DEF OpenOk, TypeLocal, Labels, AllOps
<1>7. LoopItems'
  BY DEF OpenOk, LoopItems, TypeLocal, TypeShared, TypeTodo, PcOp, Registered
<1>8. LockHeld'
  BY <1>0 DEF OpenOk, LockHeld, Using, PcOp, TypeLocal, TypeShared
<1>9. Fresh'
  <2>1. nextConn' = nextConn + 1
    BY <1>0
  <2>2. \A u \in Tasks : \A item \in todo'[u] : item[2] < nextConn'
    BY <1>0, ItemTypes DEF Fresh, TypeDisk
  <2>3. (\A q \in Paths : connections[q] < nextConn)'
    <3>1. connections' = [connections EXCEPT ![path[t]] = nextConn]
      BY <1>0
    <3> QED
      BY <2>1, <3>1, NumberTypes DEF Fresh, TypeShared
  <2>4. (\A u \in Tasks : conn[u] < nextConn)'
    <3>1. CASE conn' = conn
      BY <2>1, <3>1, NumberTypes DEF Fresh
    <3>2. CASE conn' = [conn EXCEPT ![t] = nextConn]
      BY <2>1, <3>2, NumberTypes DEF Fresh, TypeLocal
    <3> QED
      BY <1>0, <3>1, <3>2
  <2> QED
    BY <2>2, <2>3, <2>4 DEF Fresh
<1>10. OneOwner'
  <2>1. /\ \A q \in Paths : connections[q] # nextConn
        /\ \A u \in Tasks : conn[u] # nextConn
        /\ \A u \in Tasks : \A item \in todo[u] : item[2] # nextConn
    BY NumberTypes, ItemTypes DEF Fresh, TypeDisk
  <2>2. (\A p, q \in Paths :
           connections[p] # NoConn /\ connections[p] = connections[q] => p = q)'
    BY <1>0, <2>1 DEF OneOwner, TypeShared
  <2>3. (\A u \in Tasks, q \in Paths :
           conn[u] # NoConn /\ connections[q] = conn[u] => q = path[u])'
    <3>1. CASE conn' = conn
      BY <1>0, <2>1, <3>1 DEF OneOwner, TypeShared
    <3>2. CASE conn' = [conn EXCEPT ![t] = nextConn]
      BY <1>0, <2>1, <3>2 DEF OneOwner, TypeShared, TypeLocal
    <3> QED
      BY <1>0, <3>1, <3>2
  <2>4. (\A u \in Tasks, q \in Paths : \A item \in todo[u] :
           item[2] # NoConn /\ connections[q] = item[2] => q = item[1])'
    BY <1>0, <2>1 DEF OneOwner, TypeShared
  <2> QED
    BY <2>2, <2>3, <2>4 DEF OneOwner
<1>11. Accounting'
  <2>1. CASE Leave(t)
    BY <2>1, LeaveAccounting DEF OpenOk
  <2>2. CASE ~Leave(t)
    <3>1. \A u \in Tasks : Admitted(u)' <=> Admitted(u)
      BY <2>2 DEF OpenOk, TypeLocal, Admitted
    <3> QED
      BY <2>2, <3>1, SameAdmitted DEF OpenOk
  <2> QED
    BY <2>1, <2>2
<1> QED
  BY <1>1, <1>2, <1>3, <1>4, <1>5, <1>6, <1>7, <1>8, <1>9, <1>10, <1>11

\* BaseInv survives _init_single failing.
LEMMA OpenFailStep ==
    ASSUME BaseInv, NEW t \in Tasks, OpenFail(t)
    PROVE  BaseInv'
<1>1. TypeFlags' /\ TypeTodo' /\ TypeDisk'
  BY DEF OpenFail, TypeFlags, TypeTodo, TypeLocal, TypeShared, Registered, TypeDisk,
      LockHeld, Using
<1>2. TypeShared'
  BY AdmittedPositive DEF OpenFail, TypeShared, TypeLocal, Admitted
<1>3. TypeLocal' /\ PcOp' /\ Transition'
  BY AdmittedPositive DEF OpenFail, TypeLocal, Labels, AllOps, TypeShared, PcOp,
      Transition, InTransition, TypeFlags, Admitted, LockHeld
<1>4. LockHeld' /\ LoopItems'
  BY DEF OpenFail, LockHeld, Using, PcOp, TypeLocal, TypeShared, TypeTodo, LoopItems,
      ConstantsAssumption, Registered
<1>5. Fresh' /\ OneOwner'
  BY DEF OpenFail, Fresh, TypeLocal, TypeShared, TypeTodo, TypeDisk, Registered,
      OneOwner, LockHeld, Using
<1>6. Accounting'
  BY LeaveAccounting DEF OpenFail
<1> QED
  BY <1>1, <1>2, <1>3, <1>4, <1>5, <1>6

\* BaseInv survives _init_single failing to open and to close.
LEMMA OpenFailUnclosedStep ==
    ASSUME BaseInv, NEW t \in Tasks, OpenFailUnclosed(t)
    PROVE  BaseInv'
<1>0. nextConn' = nextConn + 1 /\ UNCHANGED <<connections, path, op, todo, conn>>
  BY DEF OpenFailUnclosed
<1>1. TypeFlags'
  BY DEF OpenFailUnclosed, TypeFlags
<1>2. TypeTodo'
  BY DEF OpenFailUnclosed, TypeTodo, TypeLocal, TypeShared, Registered
<1>3. TypeDisk'
  BY DEF OpenFailUnclosed, TypeDisk, TypeLocal, TypeShared, LockHeld, Using
<1>4. TypeShared'
  BY AdmittedPositive DEF OpenFailUnclosed, TypeShared, TypeLocal, Admitted
<1>5. TypeLocal' /\ PcOp' /\ Transition'
  BY AdmittedPositive DEF OpenFailUnclosed, TypeLocal, Labels, AllOps, TypeShared,
      PcOp, Transition, InTransition, TypeFlags, Admitted, LockHeld
<1>6. LockHeld' /\ LoopItems'
  BY DEF OpenFailUnclosed, LockHeld, Using, PcOp, TypeLocal, TypeShared, TypeTodo,
      LoopItems, ConstantsAssumption, Registered
<1>7. OneOwner'
  BY DEF OpenFailUnclosed, OneOwner, Fresh, TypeLocal, TypeShared, TypeTodo, TypeDisk,
      LockHeld, Using, Registered
<1>8. Fresh'
  <2>1. \A u \in Tasks : \A item \in todo'[u] : item[2] < nextConn'
    BY <1>0, ItemTypes DEF Fresh, TypeDisk
  <2>2. (\A q \in Paths : connections[q] < nextConn)'
    BY <1>0, NumberTypes DEF Fresh, TypeShared
  <2>3. (\A u \in Tasks : conn[u] < nextConn)'
    BY <1>0, NumberTypes DEF Fresh
  <2> QED
    BY <2>1, <2>2, <2>3 DEF Fresh
<1>9. Accounting'
  BY LeaveAccounting DEF OpenFailUnclosed
<1> QED
  BY <1>1, <1>2, <1>3, <1>4, <1>5, <1>6, <1>7, <1>8, <1>9

\* BaseInv survives a WAL recovery that retains its connection.
LEMMA OpenRetainedStep ==
    ASSUME BaseInv, NEW t \in Tasks, OpenRetained(t)
    PROVE  BaseInv'
<1>0. /\ nextConn \in Conns /\ nextConn # NoConn
      /\ connections' = [connections EXCEPT ![path[t]] = nextConn]
      /\ nextConn' = nextConn + 1
      /\ UNCHANGED <<path, op, todo, conn>>
      /\ path[t] \in Paths
  BY DEF OpenRetained, TypeDisk, TypeLocal
<1>1. TypeFlags'
  BY DEF OpenRetained, TypeFlags
<1>2. TypeTodo'
  BY DEF OpenRetained, TypeTodo, TypeLocal, TypeShared, Registered
<1>3. TypeDisk'
  BY DEF OpenRetained, TypeDisk, TypeLocal, TypeShared, LockHeld, Using
<1>4. TypeShared'
  BY <1>0, AdmittedPositive DEF OpenRetained, TypeShared, TypeLocal
<1>5. TypeLocal' /\ PcOp' /\ Transition'
  BY AdmittedPositive DEF OpenRetained, TypeLocal, Labels, AllOps, TypeShared, PcOp,
      Transition, InTransition, TypeFlags, Admitted, LockHeld
<1>6. LockHeld' /\ LoopItems'
  BY DEF OpenRetained, LockHeld, Using, PcOp, TypeLocal, TypeShared, TypeTodo,
      LoopItems, ConstantsAssumption, Registered
<1>7. OneOwner'
  BY DEF OpenRetained, OneOwner, Fresh, TypeLocal, TypeShared, TypeTodo, TypeDisk,
      LockHeld, Using, Registered
<1>8. Fresh'
  <2>1. \A u \in Tasks : \A item \in todo'[u] : item[2] < nextConn'
    BY <1>0, ItemTypes DEF Fresh, TypeDisk
  <2>2. (\A q \in Paths : connections[q] < nextConn)'
    BY <1>0, NumberTypes DEF Fresh, TypeShared
  <2>3. (\A u \in Tasks : conn[u] < nextConn)'
    BY <1>0, NumberTypes DEF Fresh
  <2> QED
    BY <2>1, <2>2, <2>3 DEF Fresh
<1>9. Accounting'
  BY LeaveAccounting DEF OpenRetained
<1> QED
  BY <1>1, <1>2, <1>3, <1>4, <1>5, <1>6, <1>7, <1>8, <1>9

\* BaseInv survives a write in a transaction.
LEMMA BodyWriteStep ==
    ASSUME BaseInv, NEW t \in Tasks, BodyWrite(t)
    PROVE  BaseInv'
<1>1. TypeFlags' /\ TypeTodo' /\ TypeDisk'
  BY DEF BodyWrite, TypeFlags, TypeTodo, TypeLocal, TypeShared, Registered, TypeDisk,
      LockHeld, Using
<1>2. TypeShared'
  BY AdmittedPositive DEF BodyWrite, TypeShared, TypeLocal, Admitted
<1>3. TypeLocal' /\ PcOp' /\ Transition'
  BY AdmittedPositive DEF BodyWrite, TypeLocal, Labels, AllOps, TypeShared, PcOp,
      Transition, InTransition, TypeFlags, Admitted, LockHeld
<1>4. LockHeld' /\ LoopItems'
  BY DEF BodyWrite, LockHeld, Using, PcOp, TypeLocal, TypeShared, TypeTodo, LoopItems,
      ConstantsAssumption, Registered
<1>5. Fresh' /\ OneOwner'
  BY DEF BodyWrite, Fresh, TypeLocal, TypeShared, TypeTodo, TypeDisk, Registered,
      OneOwner, LockHeld, Using
<1>6. Accounting'
  <2>1. \A u \in Tasks : Admitted(u)' <=> Admitted(u)
    BY DEF BodyWrite, TypeLocal, Admitted, PcOp
  <2> QED
    BY <2>1, SameAdmitted DEF BodyWrite
<1> QED
  BY <1>1, <1>2, <1>3, <1>4, <1>5, <1>6

\* BaseInv survives a body that returns.
LEMMA BodyReturnStep ==
    ASSUME BaseInv, NEW t \in Tasks, BodyReturn(t)
    PROVE  BaseInv'
<1>1. TypeFlags' /\ TypeTodo' /\ TypeDisk'
  BY DEF BodyReturn, TypeFlags, TypeTodo, TypeLocal, TypeShared, Registered, TypeDisk,
      LockHeld, Using
<1>2. TypeShared'
  BY AdmittedPositive DEF BodyReturn, TypeShared, TypeLocal, Admitted
<1>3. TypeLocal' /\ PcOp' /\ Transition'
  BY AdmittedPositive DEF BodyReturn, TypeLocal, Labels, AllOps, TypeShared, PcOp,
      Transition, InTransition, TypeFlags, Admitted, LockHeld
<1>4. LockHeld' /\ LoopItems'
  BY DEF BodyReturn, LockHeld, Using, PcOp, TypeLocal, TypeShared, TypeTodo, LoopItems,
      ConstantsAssumption, Registered
<1>5. Fresh' /\ OneOwner'
  BY DEF BodyReturn, Fresh, TypeLocal, TypeShared, TypeTodo, TypeDisk, Registered,
      OneOwner, LockHeld, Using
<1>6. Accounting'
  <2>1. CASE Leave(t)
    BY <2>1, LeaveAccounting DEF BodyReturn
  <2>2. CASE ~Leave(t)
    <3>1. \A u \in Tasks : Admitted(u)' <=> Admitted(u)
      BY <2>2 DEF BodyReturn, TypeLocal, Admitted
    <3> QED
      BY <2>2, <3>1, SameAdmitted DEF BodyReturn
  <2> QED
    BY <2>1, <2>2
<1> QED
  BY <1>1, <1>2, <1>3, <1>4, <1>5, <1>6

\* BaseInv survives a body that raises.
LEMMA BodyRaiseStep ==
    ASSUME BaseInv, NEW t \in Tasks, BodyRaise(t)
    PROVE  BaseInv'
<1>1. TypeFlags' /\ TypeTodo' /\ TypeDisk'
  BY DEF BodyRaise, TypeFlags, TypeTodo, TypeLocal, TypeShared, Registered, TypeDisk,
      LockHeld, Using
<1>2. TypeShared'
  BY AdmittedPositive DEF BodyRaise, TypeShared, TypeLocal, Admitted
<1>3. TypeLocal' /\ PcOp' /\ Transition'
  BY AdmittedPositive DEF BodyRaise, TypeLocal, Labels, AllOps, TypeShared, PcOp,
      Transition, InTransition, TypeFlags, Admitted, LockHeld
<1>4. LockHeld' /\ LoopItems'
  BY DEF BodyRaise, LockHeld, Using, PcOp, TypeLocal, TypeShared, TypeTodo, LoopItems,
      ConstantsAssumption, Registered
<1>5. Fresh' /\ OneOwner'
  BY DEF BodyRaise, Fresh, TypeLocal, TypeShared, TypeTodo, TypeDisk, Registered,
      OneOwner, LockHeld, Using
<1>6. Accounting'
  <2>1. CASE Leave(t)
    BY <2>1, LeaveAccounting DEF BodyRaise
  <2>2. CASE ~Leave(t)
    <3>1. \A u \in Tasks : Admitted(u)' <=> Admitted(u)
      BY <2>2 DEF BodyRaise, TypeLocal, Admitted
    <3> QED
      BY <2>2, <3>1, SameAdmitted DEF BodyRaise
  <2> QED
    BY <2>1, <2>2
<1> QED
  BY <1>1, <1>2, <1>3, <1>4, <1>5, <1>6

\* BaseInv survives the commit.
LEMMA CommitStep ==
    ASSUME BaseInv, NEW t \in Tasks, Commit(t)
    PROVE  BaseInv'
<1>1. TypeFlags' /\ TypeTodo' /\ TypeDisk'
  BY DEF Commit, TypeFlags, TypeTodo, TypeLocal, TypeShared, Registered, TypeDisk,
      LockHeld, Using
<1>2. TypeShared'
  BY AdmittedPositive DEF Commit, TypeShared, TypeLocal, Admitted
<1>3. TypeLocal' /\ PcOp' /\ Transition'
  BY AdmittedPositive DEF Commit, TypeLocal, Labels, AllOps, TypeShared, PcOp,
      Transition, InTransition, TypeFlags, Admitted, LockHeld
<1>4. LockHeld' /\ LoopItems'
  BY DEF Commit, LockHeld, Using, PcOp, TypeLocal, TypeShared, TypeTodo, LoopItems,
      ConstantsAssumption, Registered
<1>5. Fresh' /\ OneOwner'
  BY DEF Commit, Fresh, TypeLocal, TypeShared, TypeTodo, TypeDisk, Registered,
      OneOwner, LockHeld, Using
<1>6. Accounting'
  <2>1. CASE Leave(t)
    BY <2>1, LeaveAccounting DEF Commit
  <2>2. CASE ~Leave(t)
    <3>1. \A u \in Tasks : Admitted(u)' <=> Admitted(u)
      BY <2>2 DEF Commit, TypeLocal, Admitted
    <3> QED
      BY <2>2, <3>1, SameAdmitted DEF Commit
  <2> QED
    BY <2>1, <2>2
<1> QED
  BY <1>1, <1>2, <1>3, <1>4, <1>5, <1>6

\* BaseInv survives the rollback.
LEMMA RollbackStep ==
    ASSUME BaseInv, NEW t \in Tasks, Rollback(t)
    PROVE  BaseInv'
<1>1. TypeFlags' /\ TypeTodo' /\ TypeDisk'
  BY DEF Rollback, TypeFlags, TypeTodo, TypeLocal, TypeShared, Registered, TypeDisk,
      LockHeld, Using
<1>2. TypeShared'
  BY AdmittedPositive DEF Rollback, TypeShared, TypeLocal, Admitted
<1>3. TypeLocal' /\ PcOp' /\ Transition'
  BY AdmittedPositive DEF Rollback, TypeLocal, Labels, AllOps, TypeShared, PcOp,
      Transition, InTransition, TypeFlags, Admitted, LockHeld
<1>4. LockHeld' /\ LoopItems'
  BY DEF Rollback, LockHeld, Using, PcOp, TypeLocal, TypeShared, TypeTodo, LoopItems,
      ConstantsAssumption, Registered
<1>5. Fresh' /\ OneOwner'
  BY DEF Rollback, Fresh, TypeLocal, TypeShared, TypeTodo, TypeDisk, Registered,
      OneOwner, LockHeld, Using
<1>6. Accounting'
  <2>1. CASE Leave(t)
    BY <2>1, LeaveAccounting DEF Rollback
  <2>2. CASE ~Leave(t)
    <3>1. \A u \in Tasks : Admitted(u)' <=> Admitted(u)
      BY <2>2 DEF Rollback, TypeLocal, Admitted
    <3> QED
      BY <2>2, <3>1, SameAdmitted DEF Rollback
  <2> QED
    BY <2>1, <2>2
<1> QED
  BY <1>1, <1>2, <1>3, <1>4, <1>5, <1>6

\* BaseInv survives recover_connection() getting the path lock.
LEMMA BeginInvalidateStep ==
    ASSUME BaseInv, NEW t \in Tasks, BeginInvalidate(t)
    PROVE  BaseInv'
<1>1. TypeFlags' /\ TypeTodo' /\ TypeDisk'
  BY DEF BeginInvalidate, TypeFlags, TypeTodo, TypeLocal, TypeShared, Registered,
      TypeDisk, LockHeld, Using
<1>2. TypeShared'
  BY AdmittedPositive DEF BeginInvalidate, TypeShared, TypeLocal, Admitted
<1>3. TypeLocal' /\ PcOp' /\ Transition'
  BY AdmittedPositive DEF BeginInvalidate, TypeLocal, Labels, AllOps, TypeShared, PcOp,
      Transition, InTransition, TypeFlags, Admitted, LockHeld
<1>4. LockHeld' /\ LoopItems'
  BY DEF BeginInvalidate, LockHeld, Using, PcOp, TypeLocal, TypeShared, TypeTodo,
      LoopItems, ConstantsAssumption, Registered
<1>5. Fresh' /\ OneOwner'
  BY DEF BeginInvalidate, Fresh, TypeLocal, TypeShared, TypeTodo, TypeDisk, Registered,
      OneOwner, LockHeld, Using
<1>6. Accounting'
  <2>1. \A u \in Tasks : Admitted(u)' <=> Admitted(u)
    BY DEF BeginInvalidate, TypeLocal, Admitted, PcOp
  <2> QED
    BY <2>1, SameAdmitted DEF BeginInvalidate
<1> QED
  BY <1>1, <1>2, <1>3, <1>4, <1>5, <1>6

\* BaseInv survives a confirmed close of an invalidated connection.
LEMMA InvalidateClosedStep ==
    ASSUME BaseInv, NEW t \in Tasks, InvalidateClosed(t)
    PROVE  BaseInv'
<1>1. TypeFlags' /\ TypeTodo' /\ TypeDisk'
  BY DEF InvalidateClosed, TypeFlags, TypeTodo, TypeLocal, TypeShared, Registered,
      TypeDisk, LockHeld, Using
<1>2. TypeShared'
  BY AdmittedPositive DEF TypeShared, TypeLocal, InvalidateClosed
<1>3. TypeLocal' /\ PcOp' /\ Transition'
  BY AdmittedPositive DEF InvalidateClosed, TypeLocal, Labels, AllOps, TypeShared,
      PcOp, Transition, InTransition, TypeFlags, Admitted, LockHeld
<1>4. LockHeld' /\ LoopItems'
  BY DEF InvalidateClosed, LockHeld, Using, PcOp, TypeLocal, TypeShared, TypeTodo,
      LoopItems, ConstantsAssumption, Registered
<1>5. Fresh' /\ OneOwner'
  BY DEF InvalidateClosed, Fresh, TypeLocal, TypeShared, TypeTodo, TypeDisk,
      Registered, OneOwner, LockHeld, Using
<1>6. Accounting'
  <2>1. CASE Leave(t)
    BY <2>1, LeaveAccounting DEF InvalidateClosed
  <2>2. CASE ~Leave(t)
    <3>1. \A u \in Tasks : Admitted(u)' <=> Admitted(u)
      BY <2>2 DEF InvalidateClosed, TypeLocal, Admitted
    <3> QED
      BY <2>2, <3>1, SameAdmitted DEF InvalidateClosed
  <2> QED
    BY <2>1, <2>2
<1> QED
  BY <1>1, <1>2, <1>3, <1>4, <1>5, <1>6

\* BaseInv survives an unconfirmed close of an invalidated connection.
LEMMA InvalidateUnconfirmedStep ==
    ASSUME BaseInv, NEW t \in Tasks, InvalidateUnconfirmed(t)
    PROVE  BaseInv'
<1>1. TypeFlags' /\ TypeTodo' /\ TypeDisk'
  BY DEF InvalidateUnconfirmed, TypeFlags, TypeTodo, TypeLocal, TypeShared, Registered,
      TypeDisk, LockHeld, Using
<1>2. TypeShared'
  BY AdmittedPositive DEF InvalidateUnconfirmed, TypeShared, TypeLocal, Admitted
<1>3. TypeLocal' /\ PcOp' /\ Transition'
  BY AdmittedPositive DEF InvalidateUnconfirmed, TypeLocal, Labels, AllOps, TypeShared,
      PcOp, Transition, InTransition, TypeFlags, Admitted, LockHeld
<1>4. LockHeld' /\ LoopItems'
  BY DEF InvalidateUnconfirmed, LockHeld, Using, PcOp, TypeLocal, TypeShared, TypeTodo,
      LoopItems, ConstantsAssumption, Registered
<1>5. Fresh' /\ OneOwner'
  BY DEF InvalidateUnconfirmed, Fresh, TypeLocal, TypeShared, TypeTodo, TypeDisk,
      Registered, OneOwner, LockHeld, Using
<1>6. Accounting'
  BY LeaveAccounting DEF InvalidateUnconfirmed
<1> QED
  BY <1>1, <1>2, <1>3, <1>4, <1>5, <1>6

\* BaseInv survives the forensic rename.
LEMMA RenameStep ==
    ASSUME BaseInv, NEW t \in Tasks, Rename(t)
    PROVE  BaseInv'
<1>1. TypeFlags' /\ TypeTodo' /\ TypeDisk'
  BY DEF Rename, TypeFlags, TypeTodo, TypeLocal, TypeShared, Registered, TypeDisk,
      LockHeld, Using
<1>2. TypeShared'
  BY AdmittedPositive DEF Rename, TypeShared, TypeLocal, Admitted
<1>3. TypeLocal' /\ PcOp' /\ Transition'
  BY AdmittedPositive DEF Rename, TypeLocal, Labels, AllOps, TypeShared, PcOp,
      Transition, InTransition, TypeFlags, Admitted, LockHeld
<1>4. LockHeld' /\ LoopItems'
  BY DEF Rename, LockHeld, Using, PcOp, TypeLocal, TypeShared, TypeTodo, LoopItems,
      ConstantsAssumption, Registered
<1>5. Fresh' /\ OneOwner'
  BY DEF Rename, Fresh, TypeLocal, TypeShared, TypeTodo, TypeDisk, Registered,
      OneOwner, LockHeld, Using
<1>6. Accounting'
  <2>1. \A u \in Tasks : Admitted(u)' <=> Admitted(u)
    BY DEF Rename, TypeLocal, Admitted, PcOp
  <2> QED
    BY <2>1, SameAdmitted DEF Rename
<1> QED
  BY <1>1, <1>2, <1>3, <1>4, <1>5, <1>6

\* BaseInv survives the call of reabrir().
LEMMA ReopenStep ==
    ASSUME BaseInv, NEW t \in Tasks, Reopen(t)
    PROVE  BaseInv'
<1>1. TypeFlags' /\ TypeTodo' /\ TypeDisk'
  BY DEF Reopen, TypeFlags, TypeTodo, TypeLocal, TypeShared, Registered, TypeDisk,
      LockHeld, Using
<1>2. TypeShared'
  BY AdmittedPositive DEF Reopen, TypeShared, TypeLocal, Admitted
<1>3. TypeLocal' /\ PcOp' /\ Transition'
  BY AdmittedPositive DEF Reopen, TypeLocal, Labels, AllOps, TypeShared, PcOp,
      Transition, InTransition, TypeFlags, Admitted, LockHeld
<1>4. LockHeld' /\ LoopItems'
  BY DEF Reopen, LockHeld, Using, PcOp, TypeLocal, TypeShared, TypeTodo, LoopItems,
      ConstantsAssumption, Registered
<1>5. Fresh' /\ OneOwner'
  BY DEF Reopen, Fresh, TypeLocal, TypeShared, TypeTodo, TypeDisk, Registered,
      OneOwner, LockHeld, Using
<1>6. Accounting'
  <2>1. \A u \in Tasks : Admitted(u)' <=> Admitted(u)
    BY DEF Reopen, TypeLocal, Admitted, PcOp
  <2> QED
    BY <2>1, SameAdmitted DEF Reopen
<1> QED
  BY <1>1, <1>2, <1>3, <1>4, <1>5, <1>6

\* BaseInv survives a loop taking its next item or ending.
LEMMA ScanStep ==
    ASSUME BaseInv, NEW t \in Tasks, Scan(t)
    PROVE  BaseInv'
<1> DEFINE Takes(item) ==
      /\ todo' = [todo EXCEPT ![t] = @ \ {item}]
      /\ path' = [path EXCEPT ![t] = item[1]]
      /\ conn' = [conn EXCEPT ![t] = item[2]]
      /\ Goto(t, "path")
      /\ UNCHANGED <<locks, work, closed>>
<1>a. \/ /\ todo[t] = {} /\ Leave(t) /\ conn' = [conn EXCEPT ![t] = NoConn]
         /\ UNCHANGED <<todo, path>>
      \/ \E item \in todo[t] : Takes(item)
  BY DEF Scan
<1>b. UNCHANGED <<shuttingDown, registry, op, disk>>
  BY DEF Scan
<1>1. TypeFlags'
  BY DEF Scan, TypeFlags
<1>2. TypeTodo'
  BY DEF Scan, TypeTodo, TypeLocal, TypeShared, Registered
<1>3. TypeDisk'
  BY DEF Scan, TypeDisk, TypeLocal, TypeShared, LockHeld, Using
<1>4. TypeShared'
  BY AdmittedPositive DEF Scan, TypeShared, TypeLocal, Admitted
<1>5. PcOp'
  BY DEF Scan, PcOp, TypeLocal
<1>6. TypeLocal'
  <2>1. CASE \E item \in todo[t] : Takes(item)
    BY <1>b, <2>1, ItemTypes DEF TypeLocal, Labels
  <2>2. CASE Leave(t) /\ conn' = [conn EXCEPT ![t] = NoConn] /\ UNCHANGED path
    BY <1>b, <2>2 DEF TypeLocal, Labels
  <2> QED
    BY <1>a, <2>1, <2>2
<1>7. Transition'
  <2>1. CASE \E item \in todo[t] : Takes(item)
    BY <1>b, <2>1 DEF Scan, Transition, InTransition, TypeLocal
  <2>2. CASE todo[t] = {} /\ Leave(t)
    <3>1. Registered = {} => \A p \in Paths : connections[p] = NoConn
      BY DEF Registered
    <3>2. op[t] = "shutdown_all" => shuttingDown /\ admitted = 0
      BY DEF Transition, InTransition, Scan
    <3> QED
      BY <2>2, <3>1, <3>2, AdmittedPositive
      DEF Scan, Transition, InTransition, TypeLocal, TypeFlags, TypeShared, PcOp, Admitted
  <2> QED
    BY <1>a, <2>1, <2>2
<1>8. LockHeld' /\ LoopItems'
  BY DEF Scan, LockHeld, Using, PcOp, TypeLocal, TypeShared, TypeTodo, LoopItems,
      ConstantsAssumption, Registered
<1>9. Fresh'
  <2>1. CASE \E item \in todo[t] : Takes(item)
    BY <1>b, <2>1, ItemTypes DEF Fresh, TypeLocal, TypeTodo
  <2>2. CASE conn' = [conn EXCEPT ![t] = NoConn] /\ UNCHANGED todo
    BY <1>b, <2>2 DEF Fresh, TypeLocal, TypeDisk
  <2> QED
    BY <1>a, <2>1, <2>2
<1>10. OneOwner'
  <2>1. CASE \E item \in todo[t] : Takes(item)
    BY <1>b, <2>1, ItemTypes DEF OneOwner, TypeLocal, TypeTodo
  <2>2. CASE conn' = [conn EXCEPT ![t] = NoConn] /\ UNCHANGED <<todo, path>>
    BY <1>b, <2>2 DEF OneOwner, TypeLocal
  <2> QED
    BY <1>a, <2>1, <2>2
<1>11. Accounting'
  <2>1. CASE Leave(t)
    BY <2>1, LeaveAccounting DEF Scan
  <2>2. CASE ~Leave(t)
    <3>1. \A u \in Tasks : Admitted(u)' <=> Admitted(u)
      BY <2>2 DEF Scan, TypeLocal, Admitted
    <3> QED
      BY <2>2, <3>1, SameAdmitted DEF Scan
  <2> QED
    BY <2>1, <2>2
<1> QED
  BY <1>1, <1>2, <1>3, <1>4, <1>5, <1>6, <1>7, <1>8, <1>9, <1>10, <1>11

\* BaseInv survives checkpoint_all() getting a path lock.
LEMMA BeginCheckpointStep ==
    ASSUME BaseInv, NEW t \in Tasks, BeginCheckpoint(t)
    PROVE  BaseInv'
<1>1. TypeFlags' /\ TypeTodo' /\ TypeDisk'
  BY DEF BeginCheckpoint, TypeFlags, TypeTodo, TypeLocal, TypeShared, Registered,
      TypeDisk, LockHeld, Using
<1>2. TypeShared'
  BY AdmittedPositive DEF BeginCheckpoint, TypeShared, TypeLocal, Admitted
<1>3. TypeLocal' /\ PcOp' /\ Transition'
  BY AdmittedPositive DEF BeginCheckpoint, TypeLocal, Labels, AllOps, TypeShared, PcOp,
      Transition, InTransition, TypeFlags, Admitted, LockHeld
<1>4. LockHeld' /\ LoopItems'
  BY DEF BeginCheckpoint, LockHeld, Using, PcOp, TypeLocal, TypeShared, TypeTodo,
      LoopItems, ConstantsAssumption, Registered
<1>5. Fresh' /\ OneOwner'
  BY DEF BeginCheckpoint, Fresh, TypeLocal, TypeShared, TypeTodo, TypeDisk, Registered,
      OneOwner, LockHeld, Using
<1>6. Accounting'
  <2>1. \A u \in Tasks : Admitted(u)' <=> Admitted(u)
    BY DEF BeginCheckpoint, TypeLocal, Admitted, PcOp
  <2> QED
    BY <2>1, SameAdmitted DEF BeginCheckpoint
<1> QED
  BY <1>1, <1>2, <1>3, <1>4, <1>5, <1>6

\* BaseInv survives a checkpoint.
LEMMA CheckpointStep ==
    ASSUME BaseInv, NEW t \in Tasks, Checkpoint(t)
    PROVE  BaseInv'
<1>1. TypeFlags' /\ TypeTodo' /\ TypeDisk'
  BY DEF Checkpoint, TypeFlags, TypeTodo, TypeLocal, TypeShared, Registered, TypeDisk,
      LockHeld, Using
<1>2. TypeShared'
  BY AdmittedPositive DEF Checkpoint, TypeShared, TypeLocal, Admitted
<1>3. TypeLocal' /\ PcOp' /\ Transition'
  BY AdmittedPositive DEF Checkpoint, TypeLocal, Labels, AllOps, TypeShared, PcOp,
      Transition, InTransition, TypeFlags, Admitted, LockHeld
<1>4. LockHeld' /\ LoopItems'
  BY DEF Checkpoint, LockHeld, Using, PcOp, TypeLocal, TypeShared, TypeTodo, LoopItems,
      ConstantsAssumption, Registered
<1>5. Fresh' /\ OneOwner'
  BY DEF Checkpoint, Fresh, TypeLocal, TypeShared, TypeTodo, TypeDisk, Registered,
      OneOwner, LockHeld, Using
<1>6. Accounting'
  <2>1. \A u \in Tasks : Admitted(u)' <=> Admitted(u)
    BY DEF Checkpoint, TypeLocal, Admitted, PcOp
  <2> QED
    BY <2>1, SameAdmitted DEF Checkpoint
<1> QED
  BY <1>1, <1>2, <1>3, <1>4, <1>5, <1>6

\* BaseInv survives shutdown_all() seeing the drained event.
LEMMA DrainedStep ==
    ASSUME BaseInv, NEW t \in Tasks, Drained(t)
    PROVE  BaseInv'
<1>a. Registered = {} => \A p \in Paths : connections[p] = NoConn
  BY DEF Registered
<1>b. /\ pc[t] = "drain" /\ UNCHANGED <<shuttingDown, registry, local, disk, ghost>>
      /\ Leave(t) \/ (Goto(t, "truncate") /\ UNCHANGED <<locks, work>>)
  BY DEF Drained
<1>0. shuttingDown /\ admitted = 0 /\ ~Admitted(t) /\ op[t] = "shutdown_all"
  BY DEF Transition, InTransition, Drained, Accounting, PcOp, Admitted
<1>1. TypeFlags' /\ TypeTodo' /\ TypeDisk'
  BY DEF Drained, TypeFlags, TypeTodo, TypeLocal, TypeShared, Registered, TypeDisk,
      LockHeld, Using
<1>2. TypeShared'
  BY AdmittedPositive DEF Drained, TypeShared, TypeLocal, Admitted
<1>3. TypeLocal'
  BY DEF Drained, TypeLocal, Labels, AllOps, TypeShared
<1>4. PcOp'
  BY <1>b DEF PcOp, TypeLocal
<1>5. Transition'
  <2>1. CASE Registered = {}
    BY <1>0, <1>a, <2>1 DEF Drained, Transition, InTransition, TypeLocal, TypeShared
  <2>2. CASE Registered # {}
    BY <1>0, <2>2 DEF Drained, Transition, InTransition, TypeLocal
  <2> QED
    BY <2>1, <2>2
<1>6. LoopItems'
  BY <1>b, <1>0 DEF LoopItems, TypeLocal, TypeTodo
<1>7. LockHeld'
  <2>1. CASE Leave(t)
    BY <1>b, <2>1 DEF LockHeld, Using, TypeLocal, TypeShared, ConstantsAssumption
  <2>2. CASE ~Leave(t)
    BY <1>b, <2>2 DEF LockHeld, Using, TypeLocal, TypeShared
  <2> QED
    BY <2>1, <2>2
<1>8. Fresh' /\ OneOwner'
  BY DEF Drained, Fresh, TypeLocal, TypeShared, TypeTodo, TypeDisk, Registered,
      OneOwner, LockHeld, Using
<1>9. Accounting'
  <2>1. CASE Leave(t)
    BY <2>1, LeaveAccounting DEF Drained
  <2>2. CASE ~Leave(t)
    <3>1. \A u \in Tasks : Admitted(u)' <=> Admitted(u)
      BY <2>2 DEF Drained, TypeLocal, Admitted
    <3> QED
      BY <2>2, <3>1, SameAdmitted DEF Drained
  <2> QED
    BY <2>1, <2>2
<1> QED
  BY <1>1, <1>2, <1>3, <1>4, <1>5, <1>6, <1>7, <1>8, <1>9

\* BaseInv survives the TRUNCATE checkpoint.
LEMMA TruncateStep ==
    ASSUME BaseInv, NEW t \in Tasks, Truncate(t)
    PROVE  BaseInv'
<1>1. TypeFlags' /\ TypeTodo' /\ TypeDisk'
  BY DEF Truncate, TypeFlags, TypeTodo, TypeLocal, TypeShared, Registered, TypeDisk,
      LockHeld, Using
<1>2. TypeShared'
  BY AdmittedPositive DEF Truncate, TypeShared, TypeLocal, Admitted
<1>3. TypeLocal' /\ PcOp' /\ Transition'
  BY AdmittedPositive DEF Truncate, TypeLocal, Labels, AllOps, TypeShared, PcOp,
      Transition, InTransition, TypeFlags, Admitted, LockHeld
<1>4. LockHeld' /\ LoopItems'
  BY DEF Truncate, LockHeld, Using, PcOp, TypeLocal, TypeShared, TypeTodo, LoopItems,
      ConstantsAssumption, Registered
<1>5. Fresh' /\ OneOwner'
  BY DEF Truncate, Fresh, TypeLocal, TypeShared, TypeTodo, TypeDisk, Registered,
      OneOwner, LockHeld, Using
<1>6. Accounting'
  <2>1. \A u \in Tasks : Admitted(u)' <=> Admitted(u)
    BY DEF Truncate, TypeLocal, Admitted, PcOp
  <2> QED
    BY <2>1, SameAdmitted DEF Truncate
<1> QED
  BY <1>1, <1>2, <1>3, <1>4, <1>5, <1>6

\* BaseInv survives shutdown_all() getting a path lock.
LEMMA BeginCloseStep ==
    ASSUME BaseInv, NEW t \in Tasks, BeginClose(t)
    PROVE  BaseInv'
<1>1. TypeFlags' /\ TypeTodo' /\ TypeDisk'
  BY DEF BeginClose, TypeFlags, TypeTodo, TypeLocal, TypeShared, Registered, TypeDisk,
      LockHeld, Using
<1>2. TypeShared'
  BY AdmittedPositive DEF BeginClose, TypeShared, TypeLocal, Admitted
<1>3. TypeLocal' /\ PcOp' /\ Transition'
  BY AdmittedPositive DEF BeginClose, TypeLocal, Labels, AllOps, TypeShared, PcOp,
      Transition, InTransition, TypeFlags, Admitted, LockHeld
<1>4. LockHeld' /\ LoopItems'
  BY DEF BeginClose, LockHeld, Using, PcOp, TypeLocal, TypeShared, TypeTodo, LoopItems,
      ConstantsAssumption, Registered
<1>5. Fresh' /\ OneOwner'
  BY DEF BeginClose, Fresh, TypeLocal, TypeShared, TypeTodo, TypeDisk, Registered,
      OneOwner, LockHeld, Using
<1>6. Accounting'
  <2>1. \A u \in Tasks : Admitted(u)' <=> Admitted(u)
    BY DEF BeginClose, TypeLocal, Admitted, PcOp
  <2> QED
    BY <2>1, SameAdmitted DEF BeginClose
<1> QED
  BY <1>1, <1>2, <1>3, <1>4, <1>5, <1>6

\* BaseInv survives a successful close in shutdown_all().
LEMMA CloseOkStep ==
    ASSUME BaseInv, NEW t \in Tasks, CloseOk(t)
    PROVE  BaseInv'
<1>1. TypeFlags' /\ TypeTodo' /\ TypeDisk'
  BY DEF CloseOk, TypeFlags, TypeTodo, TypeLocal, TypeShared, Registered, TypeDisk,
      LockHeld, Using
<1>2. TypeShared'
  BY AdmittedPositive DEF CloseOk, TypeShared, TypeLocal, Admitted
<1>3. TypeLocal' /\ PcOp' /\ Transition'
  BY AdmittedPositive DEF CloseOk, TypeLocal, Labels, AllOps, TypeShared, PcOp,
      Transition, InTransition, TypeFlags, Admitted, LockHeld
<1>4. LockHeld' /\ LoopItems'
  BY DEF CloseOk, LockHeld, Using, PcOp, TypeLocal, TypeShared, TypeTodo, LoopItems,
      ConstantsAssumption, Registered
<1>5. Fresh' /\ OneOwner'
  BY DEF CloseOk, Fresh, TypeLocal, TypeShared, TypeTodo, TypeDisk, Registered,
      OneOwner, LockHeld, Using
<1>6. Accounting'
  <2>1. \A u \in Tasks : Admitted(u)' <=> Admitted(u)
    BY DEF CloseOk, TypeLocal, Admitted, PcOp
  <2> QED
    BY <2>1, SameAdmitted DEF CloseOk
<1> QED
  BY <1>1, <1>2, <1>3, <1>4, <1>5, <1>6

\* BaseInv survives a failed close in shutdown_all().
LEMMA CloseFailStep ==
    ASSUME BaseInv, NEW t \in Tasks, CloseFail(t)
    PROVE  BaseInv'
<1>1. TypeFlags' /\ TypeTodo' /\ TypeDisk'
  BY DEF CloseFail, TypeFlags, TypeTodo, TypeLocal, TypeShared, Registered, TypeDisk,
      LockHeld, Using
<1>2. TypeShared'
  BY AdmittedPositive DEF CloseFail, TypeShared, TypeLocal, Admitted
<1>3. TypeLocal' /\ PcOp' /\ Transition'
  BY AdmittedPositive DEF CloseFail, TypeLocal, Labels, AllOps, TypeShared, PcOp,
      Transition, InTransition, TypeFlags, Admitted, LockHeld
<1>4. LockHeld' /\ LoopItems'
  BY DEF CloseFail, LockHeld, Using, PcOp, TypeLocal, TypeShared, TypeTodo, LoopItems,
      ConstantsAssumption, Registered
<1>5. Fresh' /\ OneOwner'
  BY DEF CloseFail, Fresh, TypeLocal, TypeShared, TypeTodo, TypeDisk, Registered,
      OneOwner, LockHeld, Using
<1>6. Accounting'
  <2>1. \A u \in Tasks : Admitted(u)' <=> Admitted(u)
    BY DEF CloseFail, TypeLocal, Admitted, PcOp
  <2> QED
    BY <2>1, SameAdmitted DEF CloseFail
<1> QED
  BY <1>1, <1>2, <1>3, <1>4, <1>5, <1>6

\* BaseInv survives a cancellation.
LEMMA CancelStep ==
    ASSUME BaseInv, NEW t \in Tasks, Cancel(t)
    PROVE  BaseInv'
<1>1. TypeFlags' /\ TypeTodo' /\ TypeDisk'
  BY DEF Cancel, TypeFlags, TypeTodo, TypeLocal, TypeShared, Registered, TypeDisk,
      LockHeld, Using
<1>2. TypeShared'
  BY AdmittedPositive DEF Cancel, TypeShared, TypeLocal, Admitted
<1>3. TypeLocal' /\ PcOp' /\ Transition'
  BY AdmittedPositive DEF Cancel, TypeLocal, Labels, AllOps, TypeShared, PcOp,
      Transition, InTransition, TypeFlags, Admitted, LockHeld
<1>4. LockHeld' /\ LoopItems'
  BY DEF Cancel, LockHeld, Using, PcOp, TypeLocal, TypeShared, TypeTodo, LoopItems,
      ConstantsAssumption, Registered
<1>5. Fresh' /\ OneOwner'
  BY DEF Cancel, Fresh, TypeLocal, TypeShared, TypeTodo, TypeDisk, Registered,
      OneOwner, LockHeld, Using
<1>6. Accounting'
  BY LeaveAccounting DEF Cancel
<1> QED
  BY <1>1, <1>2, <1>3, <1>4, <1>5, <1>6

\* The base invariant holds initially.
LEMMA BaseInit ==
    Init => BaseInv
<1> SUFFICES ASSUME Init PROVE BaseInv
  OBVIOUS
<1>1. TypeOK
  <2>1. TypeFlags /\ TypeShared
    BY DEF Init, TypeFlags, TypeShared
  <2>2. TypeLocal /\ TypeTodo
    BY DEF Init, TypeLocal, TypeTodo, Labels, AllOps
  <2>3. TypeDisk
    BY DEF Init, TypeDisk, ConstantsAssumption
  <2> QED
    BY <2>1, <2>2, <2>3
<1>2. Accounting
  <2>1. AdmittedTasks = {}
    BY DEF Init, AdmittedTasks, Admitted
  <2> QED
    BY <2>1, FS_EmptySet DEF Init, Accounting
<1>3. PcOp /\ Transition /\ LockHeld /\ LoopItems
  BY DEF Init, PcOp, Transition, InTransition, LockHeld, Using, LoopItems
<1>4. Fresh /\ OneOwner
  BY DEF Init, Fresh, OneOwner
<1> QED
  BY <1>1, <1>2, <1>3, <1>4

\* Every step, whatever the operations, keeps the invariant
LEMMA BaseNext ==
    BaseInv /\ [Next]_vars => BaseInv'
<1> SUFFICES ASSUME BaseInv, [Next]_vars PROVE BaseInv'
  OBVIOUS
<1>1. ASSUME NEW t \in Tasks, Enter(t) PROVE BaseInv'
  BY <1>1, EnterBoundaryStep, EnterGetConnectionStep, EnterRecoverStep,
     EnterCheckpointStep, EnterTransitionStep DEF Enter
<1>2. ASSUME NEW t \in Tasks, Progress(t) PROVE BaseInv'
  BY <1>2, BeginInitAllStep, BeginShutdownStep, ResolveStep, AcquireInitStep,
     OpenOkStep, OpenFailStep, OpenFailUnclosedStep, OpenRetainedStep, BodyReturnStep,
     BodyRaiseStep, CommitStep, RollbackStep, BeginInvalidateStep, InvalidateClosedStep,
     InvalidateUnconfirmedStep, RenameStep, ReopenStep, ScanStep, BeginCheckpointStep,
     CheckpointStep, DrainedStep, TruncateStep, BeginCloseStep, CloseOkStep, CloseFailStep
  DEF Progress
<1>3. ASSUME NEW t \in Tasks, BodyWrite(t) PROVE BaseInv'
  BY <1>3, BodyWriteStep
<1>4. ASSUME NEW t \in Tasks, Cancel(t) PROVE BaseInv'
  BY <1>4, CancelStep
<1>5. CASE UNCHANGED vars
  <2>1. TypeOK'
    BY <1>5 DEF vars, TypeFlags, TypeShared, TypeLocal, TypeTodo, TypeDisk
  <2>2. Accounting'
    BY <1>5 DEF vars, Accounting, AdmittedTasks, Admitted
  <2>3. PcOp' /\ Transition' /\ LockHeld' /\ Fresh' /\ OneOwner' /\ LoopItems'
    BY <1>5 DEF vars, PcOp, Transition, InTransition, LockHeld, Using, Fresh, OneOwner,
       LoopItems
  <2> QED
    BY <2>1, <2>2, <2>3
<1> QED
  BY <1>1, <1>2, <1>3, <1>4, <1>5 DEF Next

\* The base invariant holds in every reachable state, for all operations.
THEOREM BaseInvariant ==
    Spec => []BaseInv
  BY BaseInit, BaseNext, PTL DEF Spec

\* Types are kept; in particular the admission counter never goes negative,
\* for any number of tasks, paths and connections.
THEOREM TypeCorrect ==
    Spec => []TypeOK
<1>1. BaseInv => TypeOK
  OBVIOUS
<1> QED
  BY <1>1, BaseInvariant, PTL

\* shutdown_all() checkpoints and closes only when no other work is admitted.
THEOREM ShutdownIsAlone ==
    Spec => []DrainedBeforeClose
<1>1. BaseInv => DrainedBeforeClose
  <2> SUFFICES ASSUME BaseInv, NEW s \in Tasks, op[s] = "shutdown_all",
                      pc[s] \in {"truncate", "scan", "path", "close"},
                      NEW t \in Tasks, Admitted(t)
               PROVE  FALSE
    BY DEF DrainedBeforeClose
  <2>1. admitted = 0
    BY DEF Transition, InTransition
  <2> QED
    BY <2>1, AdmittedPositive
<1> QED
  BY <1>1, BaseInvariant, PTL

\* Two tasks never have SQL in flight on one connection.
THEOREM ConnectionsAreExclusive ==
    Spec => []ExclusiveUse
<1>1. BaseInv => ExclusiveUse
  BY DEF ExclusiveUse, LockHeld, OneOwner, TypeLocal
<1> QED
  BY <1>1, BaseInvariant, PTL
-----------------------------------------------------------------------------
(* Recovery windows and open connections, without get_connection().         *)

\* WindowInv and OpenInv survive operation() or transaction() being admitted.
LEMMA EnterBoundaryOpen ==
    ASSUME BaseInv, BaseInv', WindowInv, OpenInv, "get_connection" \notin Ops,
           NEW t \in Tasks, NEW p \in Paths, EnterBoundary(t, p)
    PROVE  WindowInv' /\ OpenInv'
  BY AnyAdmitted DEF EnterBoundary, OpenInv, InService, NoUseAfterClose, WindowInv,
     WindowOpen, PcOp, LockHeld, OneOwner, Fresh, Using, TypeLocal, TypeShared, TypeDisk,
     TypeFlags, Transition, InTransition, Admitted

\* WindowInv and OpenInv survive get_connection() being admitted.
LEMMA EnterGetConnectionOpen ==
    ASSUME BaseInv, BaseInv', WindowInv, OpenInv, "get_connection" \notin Ops,
           NEW t \in Tasks, NEW p \in Paths, EnterGetConnection(t, p)
    PROVE  WindowInv' /\ OpenInv'
  BY AnyAdmitted DEF EnterGetConnection, OpenInv, InService, NoUseAfterClose, WindowInv,
     WindowOpen, PcOp, LockHeld, OneOwner, Fresh, Using, TypeLocal, TypeShared, TypeDisk,
     TypeFlags, Transition, InTransition, Admitted

\* WindowInv and OpenInv survive recover_connection() being admitted.
LEMMA EnterRecoverOpen ==
    ASSUME BaseInv, BaseInv', WindowInv, OpenInv, "get_connection" \notin Ops,
           NEW t \in Tasks, EnterRecover(t)
    PROVE  WindowInv' /\ OpenInv'
  BY AnyAdmitted DEF EnterRecover, OpenInv, InService, NoUseAfterClose, WindowInv, WindowOpen,
     PcOp, LockHeld, OneOwner, Fresh, Using, TypeLocal, TypeShared, TypeDisk, TypeFlags,
     Transition, InTransition, Admitted

\* WindowInv and OpenInv survive checkpoint_all() starting its loop.
LEMMA EnterCheckpointOpen ==
    ASSUME BaseInv, BaseInv', WindowInv, OpenInv, "get_connection" \notin Ops,
           NEW t \in Tasks, EnterCheckpoint(t, path[t])
    PROVE  WindowInv' /\ OpenInv'
  BY AnyAdmitted DEF EnterCheckpoint, OpenInv, InService, NoUseAfterClose, WindowInv,
     WindowOpen, PcOp, LockHeld, OneOwner, Fresh, Using, TypeLocal, TypeShared, TypeDisk,
     TypeFlags, Transition, InTransition, Admitted

\* WindowInv and OpenInv survive init_all() or shutdown_all() waiting for the transition lock.
LEMMA EnterTransitionOpen ==
    ASSUME BaseInv, BaseInv', WindowInv, OpenInv, "get_connection" \notin Ops,
           NEW t \in Tasks, EnterTransition(t, path[t])
    PROVE  WindowInv' /\ OpenInv'
  BY AnyAdmitted DEF EnterTransition, OpenInv, InService, NoUseAfterClose, WindowInv,
     WindowOpen, PcOp, LockHeld, OneOwner, Fresh, Using, TypeLocal, TypeShared, TypeDisk,
     TypeFlags, Transition, InTransition, Admitted

\* WindowInv and OpenInv survive init_all() reopening the gate or being refused.
LEMMA BeginInitAllOpen ==
    ASSUME BaseInv, BaseInv', WindowInv, OpenInv, "get_connection" \notin Ops,
           NEW t \in Tasks, BeginInitAll(t)
    PROVE  WindowInv' /\ OpenInv'
<1>1. WindowInv'
  BY DEF BeginInitAll, WindowInv, WindowOpen, TypeLocal
<1>2. InService'
  BY DEF BeginInitAll, OpenInv, InService, TypeFlags, Transition, InTransition, TypeShared
<1>3. NoUseAfterClose'
  BY DEF BeginInitAll, OpenInv, NoUseAfterClose, Using, TypeLocal
<1> QED
  BY <1>1, <1>2, <1>3 DEF OpenInv

\* WindowInv and OpenInv survive shutdown_all() closing the gate.
LEMMA BeginShutdownOpen ==
    ASSUME BaseInv, BaseInv', WindowInv, OpenInv, "get_connection" \notin Ops,
           NEW t \in Tasks, BeginShutdown(t)
    PROVE  WindowInv' /\ OpenInv'
  BY AnyAdmitted DEF BeginShutdown, OpenInv, InService, NoUseAfterClose, WindowInv,
     WindowOpen, PcOp, LockHeld, OneOwner, Fresh, Using, TypeLocal, TypeShared, TypeDisk,
     TypeFlags, Transition, InTransition, Admitted

\* WindowInv and OpenInv survive _resolve_connection under the path lock.
LEMMA ResolveOpen ==
    ASSUME BaseInv, BaseInv', WindowInv, OpenInv, "get_connection" \notin Ops,
           NEW t \in Tasks, Resolve(t)
    PROVE  WindowInv' /\ OpenInv'
<1>1. WindowInv'
  BY AnyAdmitted DEF Resolve, WindowInv, WindowOpen, PcOp, LockHeld, OneOwner, Using,
     TypeLocal, TypeShared, Transition, InTransition, Admitted
<1>2. InService'
  BY AnyAdmitted DEF Resolve, InService, OpenInv, NoUseAfterClose, WindowInv, WindowOpen,
     PcOp, LockHeld, Fresh, OneOwner, Using, TypeLocal, TypeShared, TypeDisk, Transition,
     InTransition, Admitted, TypeFlags
<1>3. NoUseAfterClose'
  BY AnyAdmitted DEF Resolve, InService, OpenInv, NoUseAfterClose, WindowInv, WindowOpen,
     PcOp, LockHeld, OneOwner, Using, TypeLocal, TypeShared, Transition, InTransition,
     Admitted
<1> QED
  BY <1>1, <1>2, <1>3 DEF OpenInv

\* WindowInv and OpenInv survive the second look at the registry under _init_lock.
LEMMA AcquireInitOpen ==
    ASSUME BaseInv, BaseInv', WindowInv, OpenInv, "get_connection" \notin Ops,
           NEW t \in Tasks, AcquireInit(t)
    PROVE  WindowInv' /\ OpenInv'
<1>1. WindowInv'
  BY AnyAdmitted DEF AcquireInit, WindowInv, WindowOpen, PcOp, LockHeld, OneOwner, Using,
     TypeLocal, TypeShared, Transition, InTransition, Admitted
<1>2. InService'
  BY AnyAdmitted DEF AcquireInit, InService, OpenInv, NoUseAfterClose, WindowInv, WindowOpen,
     PcOp, LockHeld, Fresh, OneOwner, Using, TypeLocal, TypeShared, TypeDisk, Transition,
     InTransition, Admitted, TypeFlags
<1>3. NoUseAfterClose'
  BY AnyAdmitted DEF AcquireInit, InService, OpenInv, NoUseAfterClose, WindowInv, WindowOpen,
     PcOp, LockHeld, OneOwner, Using, TypeLocal, TypeShared, Transition, InTransition,
     Admitted
<1> QED
  BY <1>1, <1>2, <1>3 DEF OpenInv

\* WindowInv and OpenInv survive _init_single registering a fresh connection.
LEMMA OpenOkOpen ==
    ASSUME BaseInv, BaseInv', WindowInv, OpenInv, "get_connection" \notin Ops,
           NEW t \in Tasks, OpenOk(t)
    PROVE  WindowInv' /\ OpenInv'
<1>1. WindowInv'
  <2>1. /\ connections' = [connections EXCEPT ![path[t]] = nextConn]
        /\ UNCHANGED <<quarantined, op, path>>
        /\ pc' \in {[pc EXCEPT ![t] = x] : x \in {"body", "scan", "idle"}}
        /\ \A u \in Tasks \ {t} : conn'[u] = conn[u]
    BY DEF OpenOk, TypeLocal
  <2>2. op[t] \notin {"recover_connection", "get_connection"} /\ pathLock[path[t]] = t
    BY DEF OpenOk, WindowInv, PcOp, LockHeld
  <2> QED
    BY <2>1, <2>2 DEF OpenOk, WindowInv, WindowOpen, LockHeld, TypeLocal, TypeShared
<1>2. InService'
  BY AnyAdmitted DEF OpenOk, InService, OpenInv, NoUseAfterClose, WindowInv, WindowOpen, PcOp,
     LockHeld, Fresh, OneOwner, Using, TypeLocal, TypeShared, TypeDisk, Transition,
     InTransition, Admitted, TypeFlags
<1>3. NoUseAfterClose'
  BY AnyAdmitted DEF OpenOk, InService, OpenInv, NoUseAfterClose, WindowInv, WindowOpen, PcOp,
     LockHeld, OneOwner, Using, TypeLocal, TypeShared, Transition, InTransition, Admitted
<1> QED
  BY <1>1, <1>2, <1>3 DEF OpenInv

\* WindowInv and OpenInv survive _init_single failing.
LEMMA OpenFailOpen ==
    ASSUME BaseInv, BaseInv', WindowInv, OpenInv, "get_connection" \notin Ops,
           NEW t \in Tasks, OpenFail(t)
    PROVE  WindowInv' /\ OpenInv'
  BY AnyAdmitted DEF OpenFail, OpenInv, InService, NoUseAfterClose, WindowInv, WindowOpen,
     PcOp, LockHeld, OneOwner, Fresh, Using, TypeLocal, TypeShared, TypeDisk, TypeFlags,
     Transition, InTransition, Admitted

\* WindowInv and OpenInv survive _init_single failing to open and to close.
LEMMA OpenFailUnclosedOpen ==
    ASSUME BaseInv, BaseInv', WindowInv, OpenInv, "get_connection" \notin Ops,
           NEW t \in Tasks, OpenFailUnclosed(t)
    PROVE  WindowInv' /\ OpenInv'
  BY AnyAdmitted DEF OpenFailUnclosed, OpenInv, InService, NoUseAfterClose, WindowInv,
     WindowOpen, PcOp, LockHeld, OneOwner, Fresh, Using, TypeLocal, TypeShared, TypeDisk,
     TypeFlags, Transition, InTransition, Admitted

\* WindowInv and OpenInv survive a WAL recovery that retains its connection.
LEMMA OpenRetainedOpen ==
    ASSUME BaseInv, BaseInv', WindowInv, OpenInv, "get_connection" \notin Ops,
           NEW t \in Tasks, OpenRetained(t)
    PROVE  WindowInv' /\ OpenInv'
  BY AnyAdmitted DEF OpenRetained, OpenInv, InService, NoUseAfterClose, WindowInv, WindowOpen,
     PcOp, LockHeld, OneOwner, Fresh, Using, TypeLocal, TypeShared, TypeDisk, TypeFlags,
     Transition, InTransition, Admitted

\* WindowInv and OpenInv survive a write in a transaction.
LEMMA BodyWriteOpen ==
    ASSUME BaseInv, BaseInv', WindowInv, OpenInv, "get_connection" \notin Ops,
           NEW t \in Tasks, BodyWrite(t)
    PROVE  WindowInv' /\ OpenInv'
  BY AnyAdmitted DEF BodyWrite, OpenInv, InService, NoUseAfterClose, WindowInv, WindowOpen,
     PcOp, LockHeld, OneOwner, Fresh, Using, TypeLocal, TypeShared, TypeDisk, TypeFlags,
     Transition, InTransition, Admitted

\* WindowInv and OpenInv survive a body that returns.
LEMMA BodyReturnOpen ==
    ASSUME BaseInv, BaseInv', WindowInv, OpenInv, "get_connection" \notin Ops,
           NEW t \in Tasks, BodyReturn(t)
    PROVE  WindowInv' /\ OpenInv'
<1>1. WindowInv'
  BY AnyAdmitted DEF BodyReturn, WindowInv, WindowOpen, PcOp, LockHeld, OneOwner, Using,
     TypeLocal, TypeShared, Transition, InTransition, Admitted
<1>2. InService'
  BY AnyAdmitted DEF BodyReturn, InService, OpenInv, NoUseAfterClose, WindowInv, WindowOpen,
     PcOp, LockHeld, Fresh, OneOwner, Using, TypeLocal, TypeShared, TypeDisk, Transition,
     InTransition, Admitted, TypeFlags
<1>3. NoUseAfterClose'
  BY AnyAdmitted DEF BodyReturn, InService, OpenInv, NoUseAfterClose, WindowInv, WindowOpen,
     PcOp, LockHeld, OneOwner, Using, TypeLocal, TypeShared, Transition, InTransition,
     Admitted
<1> QED
  BY <1>1, <1>2, <1>3 DEF OpenInv

\* WindowInv and OpenInv survive a body that raises.
LEMMA BodyRaiseOpen ==
    ASSUME BaseInv, BaseInv', WindowInv, OpenInv, "get_connection" \notin Ops,
           NEW t \in Tasks, BodyRaise(t)
    PROVE  WindowInv' /\ OpenInv'
<1>1. WindowInv'
  BY AnyAdmitted DEF BodyRaise, WindowInv, WindowOpen, PcOp, LockHeld, OneOwner, Using,
     TypeLocal, TypeShared, Transition, InTransition, Admitted
<1>2. InService'
  BY AnyAdmitted DEF BodyRaise, InService, OpenInv, NoUseAfterClose, WindowInv, WindowOpen,
     PcOp, LockHeld, Fresh, OneOwner, Using, TypeLocal, TypeShared, TypeDisk, Transition,
     InTransition, Admitted, TypeFlags
<1>3. NoUseAfterClose'
  BY AnyAdmitted DEF BodyRaise, InService, OpenInv, NoUseAfterClose, WindowInv, WindowOpen,
     PcOp, LockHeld, OneOwner, Using, TypeLocal, TypeShared, Transition, InTransition,
     Admitted
<1> QED
  BY <1>1, <1>2, <1>3 DEF OpenInv

\* WindowInv and OpenInv survive the commit.
LEMMA CommitOpen ==
    ASSUME BaseInv, BaseInv', WindowInv, OpenInv, "get_connection" \notin Ops,
           NEW t \in Tasks, Commit(t)
    PROVE  WindowInv' /\ OpenInv'
<1>1. WindowInv'
  BY AnyAdmitted DEF Commit, WindowInv, WindowOpen, PcOp, LockHeld, OneOwner, Using,
     TypeLocal, TypeShared, Transition, InTransition, Admitted
<1>2. InService'
  BY AnyAdmitted DEF Commit, InService, OpenInv, NoUseAfterClose, WindowInv, WindowOpen, PcOp,
     LockHeld, Fresh, OneOwner, Using, TypeLocal, TypeShared, TypeDisk, Transition,
     InTransition, Admitted, TypeFlags
<1>3. NoUseAfterClose'
  BY AnyAdmitted DEF Commit, InService, OpenInv, NoUseAfterClose, WindowInv, WindowOpen, PcOp,
     LockHeld, OneOwner, Using, TypeLocal, TypeShared, Transition, InTransition, Admitted
<1> QED
  BY <1>1, <1>2, <1>3 DEF OpenInv

\* WindowInv and OpenInv survive the rollback.
LEMMA RollbackOpen ==
    ASSUME BaseInv, BaseInv', WindowInv, OpenInv, "get_connection" \notin Ops,
           NEW t \in Tasks, Rollback(t)
    PROVE  WindowInv' /\ OpenInv'
<1>1. WindowInv'
  BY AnyAdmitted DEF Rollback, WindowInv, WindowOpen, PcOp, LockHeld, OneOwner, Using,
     TypeLocal, TypeShared, Transition, InTransition, Admitted
<1>2. InService'
  BY AnyAdmitted DEF Rollback, InService, OpenInv, NoUseAfterClose, WindowInv, WindowOpen,
     PcOp, LockHeld, Fresh, OneOwner, Using, TypeLocal, TypeShared, TypeDisk, Transition,
     InTransition, Admitted, TypeFlags
<1>3. NoUseAfterClose'
  BY AnyAdmitted DEF Rollback, InService, OpenInv, NoUseAfterClose, WindowInv, WindowOpen,
     PcOp, LockHeld, OneOwner, Using, TypeLocal, TypeShared, Transition, InTransition,
     Admitted
<1> QED
  BY <1>1, <1>2, <1>3 DEF OpenInv

\* WindowInv and OpenInv survive recover_connection() getting the path lock.
LEMMA BeginInvalidateOpen ==
    ASSUME BaseInv, BaseInv', WindowInv, OpenInv, "get_connection" \notin Ops,
           NEW t \in Tasks, BeginInvalidate(t)
    PROVE  WindowInv' /\ OpenInv'
  BY AnyAdmitted DEF BeginInvalidate, OpenInv, InService, NoUseAfterClose, WindowInv,
     WindowOpen, PcOp, LockHeld, OneOwner, Fresh, Using, TypeLocal, TypeShared, TypeDisk,
     TypeFlags, Transition, InTransition, Admitted

\* WindowInv and OpenInv survive a confirmed close of an invalidated connection.
LEMMA InvalidateClosedOpen ==
    ASSUME BaseInv, BaseInv', WindowInv, OpenInv, "get_connection" \notin Ops,
           NEW t \in Tasks, InvalidateClosed(t)
    PROVE  WindowInv' /\ OpenInv'
<1>1. WindowInv'
  BY AnyAdmitted DEF InvalidateClosed, WindowInv, WindowOpen, PcOp, LockHeld, OneOwner, Using,
     TypeLocal, TypeShared, Transition, InTransition, Admitted
<1>2. InService'
  BY AnyAdmitted DEF InvalidateClosed, InService, OpenInv, NoUseAfterClose, WindowInv,
     WindowOpen, PcOp, LockHeld, Fresh, OneOwner, Using, TypeLocal, TypeShared, TypeDisk,
     Transition, InTransition, Admitted, TypeFlags
<1>3. NoUseAfterClose'
  BY AnyAdmitted DEF InvalidateClosed, InService, OpenInv, NoUseAfterClose, WindowInv,
     WindowOpen, PcOp, LockHeld, OneOwner, Using, TypeLocal, TypeShared, Transition,
     InTransition, Admitted
<1> QED
  BY <1>1, <1>2, <1>3 DEF OpenInv

\* WindowInv and OpenInv survive an unconfirmed close of an invalidated connection.
LEMMA InvalidateUnconfirmedOpen ==
    ASSUME BaseInv, BaseInv', WindowInv, OpenInv, "get_connection" \notin Ops,
           NEW t \in Tasks, InvalidateUnconfirmed(t)
    PROVE  WindowInv' /\ OpenInv'
  BY AnyAdmitted DEF InvalidateUnconfirmed, OpenInv, InService, NoUseAfterClose, WindowInv,
     WindowOpen, PcOp, LockHeld, OneOwner, Fresh, Using, TypeLocal, TypeShared, TypeDisk,
     TypeFlags, Transition, InTransition, Admitted

\* WindowInv and OpenInv survive the forensic rename.
LEMMA RenameOpen ==
    ASSUME BaseInv, BaseInv', WindowInv, OpenInv, "get_connection" \notin Ops,
           NEW t \in Tasks, Rename(t)
    PROVE  WindowInv' /\ OpenInv'
  BY AnyAdmitted DEF Rename, OpenInv, InService, NoUseAfterClose, WindowInv, WindowOpen, PcOp,
     LockHeld, OneOwner, Fresh, Using, TypeLocal, TypeShared, TypeDisk, TypeFlags, Transition,
     InTransition, Admitted

\* WindowInv and OpenInv survive the call of reabrir().
LEMMA ReopenOpen ==
    ASSUME BaseInv, BaseInv', WindowInv, OpenInv, "get_connection" \notin Ops,
           NEW t \in Tasks, Reopen(t)
    PROVE  WindowInv' /\ OpenInv'
  BY AnyAdmitted DEF Reopen, OpenInv, InService, NoUseAfterClose, WindowInv, WindowOpen, PcOp,
     LockHeld, OneOwner, Fresh, Using, TypeLocal, TypeShared, TypeDisk, TypeFlags, Transition,
     InTransition, Admitted

\* WindowInv and OpenInv survive a loop taking its next item or ending.
LEMMA ScanOpen ==
    ASSUME BaseInv, BaseInv', WindowInv, OpenInv, "get_connection" \notin Ops,
           NEW t \in Tasks, Scan(t)
    PROVE  WindowInv' /\ OpenInv'
<1>1. UNCHANGED <<flags, connections, quarantined, connOpen, op>> \/ Leave(t)
  BY DEF Scan
<1>2. WindowInv'
  <2>1. /\ UNCHANGED <<connections, quarantined, op>>
        /\ pc' \in {[pc EXCEPT ![t] = "path"], [pc EXCEPT ![t] = "idle"]}
        /\ \A u \in Tasks \ {t} : conn'[u] = conn[u] /\ path'[u] = path[u]
    BY DEF Scan, TypeLocal
  <2> QED
    BY <2>1 DEF Scan, WindowInv, WindowOpen, PcOp, TypeLocal
<1>3. InService'
  BY AnyAdmitted DEF Scan, InService, OpenInv, NoUseAfterClose, WindowInv, WindowOpen, PcOp,
     LockHeld, Fresh, OneOwner, Using, TypeLocal, TypeShared, TypeDisk, Transition,
     InTransition, Admitted, TypeFlags
<1>4. NoUseAfterClose'
  BY DEF Scan, InService, OpenInv, NoUseAfterClose, WindowInv, WindowOpen, PcOp, LockHeld,
      OneOwner, Using, TypeLocal, TypeShared, Transition, InTransition, Admitted
<1> QED
  BY <1>2, <1>3, <1>4 DEF OpenInv

\* WindowInv and OpenInv survive checkpoint_all() getting a path lock.
LEMMA BeginCheckpointOpen ==
    ASSUME BaseInv, BaseInv', WindowInv, OpenInv, "get_connection" \notin Ops,
           NEW t \in Tasks, BeginCheckpoint(t)
    PROVE  WindowInv' /\ OpenInv'
<1>1. WindowInv'
  BY AnyAdmitted DEF BeginCheckpoint, WindowInv, WindowOpen, PcOp, LockHeld, OneOwner, Using,
     TypeLocal, TypeShared, Transition, InTransition, Admitted
<1>2. InService'
  BY AnyAdmitted DEF BeginCheckpoint, InService, OpenInv, NoUseAfterClose, WindowInv,
     WindowOpen, PcOp, LockHeld, Fresh, OneOwner, Using, TypeLocal, TypeShared, TypeDisk,
     Transition, InTransition, Admitted, TypeFlags
<1>3. NoUseAfterClose'
  BY AnyAdmitted DEF BeginCheckpoint, InService, OpenInv, NoUseAfterClose, WindowInv,
     WindowOpen, PcOp, LockHeld, OneOwner, Using, TypeLocal, TypeShared, Transition,
     InTransition, Admitted
<1> QED
  BY <1>1, <1>2, <1>3 DEF OpenInv

\* WindowInv and OpenInv survive a checkpoint.
LEMMA CheckpointOpen ==
    ASSUME BaseInv, BaseInv', WindowInv, OpenInv, "get_connection" \notin Ops,
           NEW t \in Tasks, Checkpoint(t)
    PROVE  WindowInv' /\ OpenInv'
  BY AnyAdmitted DEF Checkpoint, OpenInv, InService, NoUseAfterClose, WindowInv, WindowOpen,
     PcOp, LockHeld, OneOwner, Fresh, Using, TypeLocal, TypeShared, TypeDisk, TypeFlags,
     Transition, InTransition, Admitted

\* WindowInv and OpenInv survive shutdown_all() seeing the drained event.
LEMMA DrainedOpen ==
    ASSUME BaseInv, BaseInv', WindowInv, OpenInv, "get_connection" \notin Ops,
           NEW t \in Tasks, Drained(t)
    PROVE  WindowInv' /\ OpenInv'
<1>1. /\ UNCHANGED <<connections, quarantined, op, conn, path, connOpen, shuttingDown>>
      /\ pc' \in {[pc EXCEPT ![t] = "truncate"], [pc EXCEPT ![t] = "idle"]}
      /\ shuttingDown /\ ~Admitted(t) /\ UNCHANGED admitted
  BY DEF Drained, Transition, InTransition, PcOp, Admitted
<1>2. WindowInv'
  BY <1>1 DEF Drained, WindowInv, WindowOpen, TypeLocal
<1>3. InService' /\ NoUseAfterClose'
  BY <1>1 DEF Drained, OpenInv, InService, NoUseAfterClose, Using, TypeLocal
<1> QED
  BY <1>2, <1>3 DEF OpenInv

\* WindowInv and OpenInv survive the TRUNCATE checkpoint.
LEMMA TruncateOpen ==
    ASSUME BaseInv, BaseInv', WindowInv, OpenInv, "get_connection" \notin Ops,
           NEW t \in Tasks, Truncate(t)
    PROVE  WindowInv' /\ OpenInv'
  BY AnyAdmitted DEF Truncate, OpenInv, InService, NoUseAfterClose, WindowInv, WindowOpen,
     PcOp, LockHeld, OneOwner, Fresh, Using, TypeLocal, TypeShared, TypeDisk, TypeFlags,
     Transition, InTransition, Admitted

\* WindowInv and OpenInv survive shutdown_all() getting a path lock.
LEMMA BeginCloseOpen ==
    ASSUME BaseInv, BaseInv', WindowInv, OpenInv, "get_connection" \notin Ops,
           NEW t \in Tasks, BeginClose(t)
    PROVE  WindowInv' /\ OpenInv'
<1>1. WindowInv'
  BY AnyAdmitted DEF BeginClose, WindowInv, WindowOpen, PcOp, LockHeld, OneOwner, Using,
     TypeLocal, TypeShared, Transition, InTransition, Admitted
<1>2. InService'
  BY AnyAdmitted DEF BeginClose, InService, OpenInv, NoUseAfterClose, WindowInv, WindowOpen,
     PcOp, LockHeld, Fresh, OneOwner, Using, TypeLocal, TypeShared, TypeDisk, Transition,
     InTransition, Admitted, TypeFlags
<1>3. NoUseAfterClose'
  BY AnyAdmitted DEF BeginClose, InService, OpenInv, NoUseAfterClose, WindowInv, WindowOpen,
     PcOp, LockHeld, OneOwner, Using, TypeLocal, TypeShared, Transition, InTransition,
     Admitted
<1> QED
  BY <1>1, <1>2, <1>3 DEF OpenInv

\* WindowInv and OpenInv survive a successful close in shutdown_all().
LEMMA CloseOkOpen ==
    ASSUME BaseInv, BaseInv', WindowInv, OpenInv, "get_connection" \notin Ops,
           NEW t \in Tasks, CloseOk(t)
    PROVE  WindowInv' /\ OpenInv'
  BY AnyAdmitted DEF CloseOk, OpenInv, InService, NoUseAfterClose, WindowInv, WindowOpen,
     PcOp, LockHeld, OneOwner, Fresh, Using, TypeLocal, TypeShared, TypeDisk, TypeFlags,
     Transition, InTransition, Admitted

\* WindowInv and OpenInv survive a failed close in shutdown_all().
LEMMA CloseFailOpen ==
    ASSUME BaseInv, BaseInv', WindowInv, OpenInv, "get_connection" \notin Ops,
           NEW t \in Tasks, CloseFail(t)
    PROVE  WindowInv' /\ OpenInv'
  BY AnyAdmitted DEF CloseFail, OpenInv, InService, NoUseAfterClose, WindowInv, WindowOpen,
     PcOp, LockHeld, OneOwner, Fresh, Using, TypeLocal, TypeShared, TypeDisk, TypeFlags,
     Transition, InTransition, Admitted

\* WindowInv and OpenInv survive a cancellation.
LEMMA CancelOpen ==
    ASSUME BaseInv, BaseInv', WindowInv, OpenInv, "get_connection" \notin Ops,
           NEW t \in Tasks, Cancel(t)
    PROVE  WindowInv' /\ OpenInv'
  BY AnyAdmitted DEF Cancel, OpenInv, InService, NoUseAfterClose, WindowInv, WindowOpen, PcOp,
     LockHeld, OneOwner, Fresh, Using, TypeLocal, TypeShared, TypeDisk, TypeFlags, Transition,
     InTransition, Admitted

\* The full invariant holds initially.
LEMMA IndInit ==
    Init => IndInv
<1> SUFFICES ASSUME Init PROVE IndInv
  OBVIOUS
<1>1. WindowInv /\ OpenInv
  BY DEF Init, WindowInv, WindowOpen, OpenInv, InService, NoUseAfterClose, Using
<1> QED
  BY <1>1, BaseInit DEF IndInv

\* Without get_connection() every step keeps the full invariant.
LEMMA IndNext ==
    ASSUME "get_connection" \notin Ops
    PROVE  IndInv /\ [Next]_vars => IndInv'
<1> SUFFICES ASSUME BaseInv, WindowInv, OpenInv, [Next]_vars PROVE WindowInv' /\ OpenInv'
  BY BaseNext DEF IndInv
<1>0. BaseInv'
  BY BaseNext
<1>1. ASSUME NEW t \in Tasks, Enter(t) PROVE WindowInv' /\ OpenInv'
  BY <1>0, <1>1, EnterBoundaryOpen, EnterGetConnectionOpen, EnterRecoverOpen,
     EnterCheckpointOpen, EnterTransitionOpen DEF Enter
<1>2. ASSUME NEW t \in Tasks, Progress(t) PROVE WindowInv' /\ OpenInv'
  BY <1>0, <1>2, BeginInitAllOpen, BeginShutdownOpen, ResolveOpen, AcquireInitOpen,
     OpenOkOpen, OpenFailOpen, OpenFailUnclosedOpen, OpenRetainedOpen, BodyReturnOpen,
     BodyRaiseOpen, CommitOpen, RollbackOpen, BeginInvalidateOpen, InvalidateClosedOpen,
     InvalidateUnconfirmedOpen, RenameOpen, ReopenOpen, ScanOpen, BeginCheckpointOpen,
     CheckpointOpen, DrainedOpen, TruncateOpen, BeginCloseOpen, CloseOkOpen, CloseFailOpen
  DEF Progress
<1>3. ASSUME NEW t \in Tasks, BodyWrite(t) PROVE WindowInv' /\ OpenInv'
  BY <1>0, <1>3, BodyWriteOpen
<1>4. ASSUME NEW t \in Tasks, Cancel(t) PROVE WindowInv' /\ OpenInv'
  BY <1>0, <1>4, CancelOpen
<1>5. CASE UNCHANGED vars
  BY <1>5 DEF vars, WindowInv, WindowOpen, OpenInv, InService, NoUseAfterClose, Using
<1> QED
  BY <1>1, <1>2, <1>3, <1>4, <1>5 DEF Next

\* While the connection is only used under the path lock (nobody calls
\* get_connection()), no SQL is issued on a connection that may be closed,
\* whatever fails, is cancelled, is recovered or is shut down.
THEOREM NoSqlAfterClose ==
    ASSUME "get_connection" \notin Ops
    PROVE  Spec => []NoUseAfterClose
<1>1. IndInv => NoUseAfterClose
  BY DEF IndInv, OpenInv
<1> QED
  BY <1>1, IndInit, IndNext, PTL DEF Spec

\* The registry never loses or overwrites an entry whose connection is open.
THEOREM RegistryKeepsOwnership ==
    Spec => EntryLeavesClosed
<1> DEFINE Kept == \A p \in Paths :
                      connections[p] # NoConn /\ connections'[p] # connections[p] =>
                          connections'[p] = NoConn /\ connections[p] \notin connOpen'
<1>1. BaseInv /\ [Next]_vars => [Kept]_vars
  <2> SUFFICES ASSUME BaseInv, [Next]_vars, ~UNCHANGED connections PROVE Kept
    BY DEF vars
  <2>1. ASSUME NEW t \in Tasks, OpenOk(t) \/ OpenRetained(t) PROVE Kept
    BY <2>1 DEF OpenOk, OpenRetained, LockHeld, TypeShared, TypeLocal
  <2>2. ASSUME NEW t \in Tasks, InvalidateClosed(t) PROVE Kept
    BY <2>2 DEF InvalidateClosed, TypeShared, TypeLocal
  <2>3. ASSUME NEW t \in Tasks, CloseOk(t) PROVE Kept
    BY <2>3 DEF CloseOk, LockHeld, TypeShared, TypeLocal
  <2>4. ASSUME NEW t \in Tasks, Enter(t) PROVE FALSE
    BY <2>4 DEF Enter, EnterBoundary, EnterGetConnection, EnterRecover, EnterCheckpoint,
                EnterTransition
  <2>5. ASSUME NEW t \in Tasks, Progress(t) PROVE Kept
    <3>1. ~(BeginInitAll(t) \/ BeginShutdown(t) \/ Resolve(t) \/ AcquireInit(t)
            \/ OpenFail(t) \/ OpenFailUnclosed(t) \/ BodyReturn(t) \/ BodyRaise(t)
            \/ Commit(t) \/ Rollback(t))
      BY DEF BeginInitAll, BeginShutdown, Resolve, AcquireInit, OpenFail, OpenFailUnclosed,
             BodyReturn, BodyRaise, Commit, Rollback
    <3>2. ~(BeginInvalidate(t) \/ InvalidateUnconfirmed(t) \/ Rename(t) \/ Reopen(t)
            \/ Scan(t) \/ BeginCheckpoint(t) \/ Checkpoint(t) \/ Drained(t) \/ Truncate(t)
            \/ BeginClose(t) \/ CloseFail(t))
      BY DEF BeginInvalidate, InvalidateUnconfirmed, Rename, Reopen, Scan, BeginCheckpoint,
             Checkpoint, Drained, Truncate, BeginClose, CloseFail
    <3> QED
      BY <2>1, <2>2, <2>3, <2>5, <3>1, <3>2 DEF Progress
  <2>6. ASSUME NEW t \in Tasks, BodyWrite(t) \/ Cancel(t) PROVE FALSE
    BY <2>6 DEF BodyWrite, Cancel
  <2> QED
    BY <2>4, <2>5, <2>6 DEF Next, vars
<1> QED
  BY <1>1, BaseInvariant, PTL DEF Spec, EntryLeavesClosed

-----------------------------------------------------------------------------
(* What is served, without get_connection(), and what is open after a      *)
(* shutdown.                                                               *)

\* A step of a task that has no open transaction takes no lock from another.
LEMMA DirtyStays ==
    ASSUME DirtyHeld, NEW t \in Tasks,
           dirty' \subseteq dirty, UNCHANGED <<connections, quarantined, op>>,
           ~(op[t] = "transaction" /\ pc[t] \in {"body", "commit", "rollback", "invalidate"}),
           \A u \in Tasks \ {t} : pc'[u] = pc[u] /\ path'[u] = path[u],
           \A p \in Paths : pathLock[p] \in Tasks \ {t} => pathLock'[p] = pathLock[p]
    PROVE  DirtyHeld'
  BY DEF DirtyHeld

\* A transaction that goes on keeps its connection to itself.
LEMMA DirtyGoesOn ==
    ASSUME DirtyHeld, NEW t \in Tasks,
           UNCHANGED <<dirty, connections, quarantined, op, path, pathLock>>,
           op[t] = "transaction" /\ pc'[t] \in {"body", "commit", "rollback", "invalidate"},
           \A u \in Tasks \ {t} : pc'[u] = pc[u]
    PROVE  DirtyHeld'
  BY DEF DirtyHeld

\* A transaction that ends has cleaned its connection.
LEMMA DirtyEnds ==
    ASSUME BaseInv, DirtyHeld, NEW t \in Tasks,
           dirty' = dirty \ {conn[t]}, Leave(t), UNCHANGED <<connections, quarantined, op, path>>,
           pc[t] \in {"commit", "rollback"}
    PROVE  DirtyHeld'
<1>1. /\ connections[path[t]] = conn[t]
      /\ \A u \in Tasks \ {t} : pc'[u] = pc[u]
      /\ \A p \in Paths : pathLock[p] \in Tasks \ {t} => pathLock'[p] = pathLock[p]
  BY DEF LockHeld, Using, TypeLocal, TypeShared
<1> QED
  BY <1>1 DEF DirtyHeld

\* No connection becomes dirty and no reopened body appears.
LEMMA BirthStays ==
    ASSUME CleanBirth, dirty' \subseteq dirty, UNCHANGED <<nextConn, conn, op>>,
           \A u \in Tasks : pc'[u] = "body" => pc[u] = "body"
    PROVE  CleanBirth'
  BY DEF CleanBirth

\* The quarantine is not lifted and no recovery window opens or advances.
LEMMA CondemnedStays ==
    ASSUME CondemnedInv, UNCHANGED <<condemned, quarantined, connections>>,
           \A u \in Tasks : WindowOpen(u)' =>
              WindowOpen(u) /\ path'[u] = path[u] /\ (pc[u] = "window" => pc'[u] = "window")
    PROVE  CondemnedInv'
  BY DEF CondemnedInv

\* ServeInv survives operation() or transaction() being admitted.
LEMMA EnterBoundaryServe ==
    ASSUME BaseInv, WindowInv, ServeInv, "get_connection" \notin Ops,
           NEW t \in Tasks, NEW p \in Paths, EnterBoundary(t, p)
    PROVE  ServeInv'
<1>1. DirtyHeld'
  BY DEF EnterBoundary, ServeInv, DirtyHeld, CleanBirth, PcOp, LockHeld, OneOwner, Using,
     TypeLocal, TypeShared, TypeDisk
<1>2. CleanBirth'
  BY DEF EnterBoundary, ServeInv, CleanBirth, DirtyHeld, PcOp, LockHeld, OneOwner, Fresh,
     WindowInv, WindowOpen, Using, TypeLocal, TypeShared, TypeDisk
<1>3. CurrentFile'
  BY DEF EnterBoundary, ServeInv, CurrentFile, WindowInv, WindowOpen, LockHeld, Fresh,
     TypeLocal, TypeShared, TypeDisk
<1>4. CondemnedInv'
  BY DEF EnterBoundary, ServeInv, CondemnedInv, WindowInv, WindowOpen, PcOp, LockHeld, Using,
     TypeLocal, TypeShared, TypeDisk
<1> QED
  BY <1>1, <1>2, <1>3, <1>4 DEF ServeInv

\* ServeInv survives get_connection() being admitted.
LEMMA EnterGetConnectionServe ==
    ASSUME BaseInv, WindowInv, ServeInv, "get_connection" \notin Ops,
           NEW t \in Tasks, NEW p \in Paths, EnterGetConnection(t, p)
    PROVE  ServeInv'
<1>1. DirtyHeld'
  BY DEF EnterGetConnection, ServeInv, DirtyHeld, CleanBirth, PcOp, LockHeld, OneOwner,
     Using, TypeLocal, TypeShared, TypeDisk
<1>2. CleanBirth'
  BY DEF EnterGetConnection, ServeInv, CleanBirth, DirtyHeld, PcOp, LockHeld, OneOwner,
     Fresh, WindowInv, WindowOpen, Using, TypeLocal, TypeShared, TypeDisk
<1>3. CurrentFile'
  BY DEF EnterGetConnection, ServeInv, CurrentFile, WindowInv, WindowOpen, LockHeld, Fresh,
     TypeLocal, TypeShared, TypeDisk
<1>4. CondemnedInv'
  BY DEF EnterGetConnection, ServeInv, CondemnedInv, WindowInv, WindowOpen, PcOp, LockHeld,
     Using, TypeLocal, TypeShared, TypeDisk
<1> QED
  BY <1>1, <1>2, <1>3, <1>4 DEF ServeInv

\* ServeInv survives recover_connection() being admitted.
LEMMA EnterRecoverServe ==
    ASSUME BaseInv, WindowInv, ServeInv, "get_connection" \notin Ops,
           NEW t \in Tasks, EnterRecover(t)
    PROVE  ServeInv'
<1>1. DirtyHeld'
  BY DEF EnterRecover, ServeInv, DirtyHeld, CleanBirth, PcOp, LockHeld, OneOwner, Using,
     TypeLocal, TypeShared, TypeDisk
<1>2. CleanBirth'
  BY DEF EnterRecover, ServeInv, CleanBirth, DirtyHeld, PcOp, LockHeld, OneOwner, Fresh,
     WindowInv, WindowOpen, Using, TypeLocal, TypeShared, TypeDisk
<1>3. CurrentFile'
  BY DEF EnterRecover, ServeInv, CurrentFile, WindowInv, WindowOpen, LockHeld, Fresh,
     TypeLocal, TypeShared, TypeDisk
<1>4. CondemnedInv'
  BY DEF EnterRecover, ServeInv, CondemnedInv, WindowInv, WindowOpen, PcOp, LockHeld, Using,
     TypeLocal, TypeShared, TypeDisk
<1> QED
  BY <1>1, <1>2, <1>3, <1>4 DEF ServeInv

\* ServeInv survives checkpoint_all() starting its loop.
LEMMA EnterCheckpointServe ==
    ASSUME BaseInv, WindowInv, ServeInv, "get_connection" \notin Ops,
           NEW t \in Tasks, EnterCheckpoint(t, path[t])
    PROVE  ServeInv'
<1>1. DirtyHeld'
  BY DEF EnterCheckpoint, ServeInv, DirtyHeld, CleanBirth, PcOp, LockHeld, OneOwner, Using,
     TypeLocal, TypeShared, TypeDisk
<1>2. CleanBirth'
  BY DEF EnterCheckpoint, ServeInv, CleanBirth, DirtyHeld, PcOp, LockHeld, OneOwner, Fresh,
     WindowInv, WindowOpen, Using, TypeLocal, TypeShared, TypeDisk
<1>3. CurrentFile'
  BY DEF EnterCheckpoint, ServeInv, CurrentFile, WindowInv, WindowOpen, LockHeld, Fresh,
     TypeLocal, TypeShared, TypeDisk
<1>4. CondemnedInv'
  BY DEF EnterCheckpoint, ServeInv, CondemnedInv, WindowInv, WindowOpen, PcOp, LockHeld,
     Using, TypeLocal, TypeShared, TypeDisk
<1> QED
  BY <1>1, <1>2, <1>3, <1>4 DEF ServeInv

\* ServeInv survives init_all() or shutdown_all() waiting for the transition lock.
LEMMA EnterTransitionServe ==
    ASSUME BaseInv, WindowInv, ServeInv, "get_connection" \notin Ops,
           NEW t \in Tasks, EnterTransition(t, path[t])
    PROVE  ServeInv'
<1>1. DirtyHeld'
  BY DEF EnterTransition, ServeInv, DirtyHeld, CleanBirth, PcOp, LockHeld, OneOwner, Using,
     TypeLocal, TypeShared, TypeDisk
<1>2. CleanBirth'
  BY DEF EnterTransition, ServeInv, CleanBirth, DirtyHeld, PcOp, LockHeld, OneOwner, Fresh,
     WindowInv, WindowOpen, Using, TypeLocal, TypeShared, TypeDisk
<1>3. CurrentFile'
  BY DEF EnterTransition, ServeInv, CurrentFile, WindowInv, WindowOpen, LockHeld, Fresh,
     TypeLocal, TypeShared, TypeDisk
<1>4. CondemnedInv'
  BY DEF EnterTransition, ServeInv, CondemnedInv, WindowInv, WindowOpen, PcOp, LockHeld,
     Using, TypeLocal, TypeShared, TypeDisk
<1> QED
  BY <1>1, <1>2, <1>3, <1>4 DEF ServeInv

\* ServeInv survives init_all() reopening the gate or being refused.
LEMMA BeginInitAllServe ==
    ASSUME BaseInv, WindowInv, ServeInv, "get_connection" \notin Ops,
           NEW t \in Tasks, BeginInitAll(t)
    PROVE  ServeInv'
<1>1. DirtyHeld'
  <2>1. /\ dirty' \subseteq dirty
        /\ UNCHANGED <<connections, quarantined, op>>
        /\ ~(op[t] = "transaction" /\ pc[t] \in {"body", "commit", "rollback", "invalidate"})
        /\ \A u \in Tasks \ {t} : pc'[u] = pc[u] /\ path'[u] = path[u]
        /\ \A p \in Paths : pathLock[p] \in Tasks \ {t} => pathLock'[p] = pathLock[p]
    BY DEF BeginInitAll, PcOp, LockHeld, TypeLocal, TypeShared
  <2> QED
    BY <2>1, DirtyStays DEF ServeInv
<1>2. CleanBirth'
  BY DEF BeginInitAll, ServeInv, CleanBirth, DirtyHeld, PcOp, LockHeld, OneOwner, Fresh,
     WindowInv, WindowOpen, Using, TypeLocal, TypeShared, TypeDisk
<1>3. CurrentFile'
  BY DEF BeginInitAll, ServeInv, CurrentFile, WindowInv, WindowOpen, LockHeld, Fresh,
     TypeLocal, TypeShared, TypeDisk
<1>4. CondemnedInv'
  BY DEF BeginInitAll, ServeInv, CondemnedInv, WindowInv, WindowOpen, PcOp, LockHeld, Using,
     TypeLocal, TypeShared, TypeDisk
<1> QED
  BY <1>1, <1>2, <1>3, <1>4 DEF ServeInv

\* ServeInv survives shutdown_all() closing the gate.
LEMMA BeginShutdownServe ==
    ASSUME BaseInv, WindowInv, ServeInv, "get_connection" \notin Ops,
           NEW t \in Tasks, BeginShutdown(t)
    PROVE  ServeInv'
<1>1. DirtyHeld'
  BY DEF BeginShutdown, ServeInv, DirtyHeld, CleanBirth, PcOp, LockHeld, OneOwner, Using,
     TypeLocal, TypeShared, TypeDisk
<1>2. CleanBirth'
  BY DEF BeginShutdown, ServeInv, CleanBirth, DirtyHeld, PcOp, LockHeld, OneOwner, Fresh,
     WindowInv, WindowOpen, Using, TypeLocal, TypeShared, TypeDisk
<1>3. CurrentFile'
  BY DEF BeginShutdown, ServeInv, CurrentFile, WindowInv, WindowOpen, LockHeld, Fresh,
     TypeLocal, TypeShared, TypeDisk
<1>4. CondemnedInv'
  BY DEF BeginShutdown, ServeInv, CondemnedInv, WindowInv, WindowOpen, PcOp, LockHeld, Using,
     TypeLocal, TypeShared, TypeDisk
<1> QED
  BY <1>1, <1>2, <1>3, <1>4 DEF ServeInv

\* ServeInv survives _resolve_connection under the path lock.
LEMMA ResolveServe ==
    ASSUME BaseInv, WindowInv, ServeInv, "get_connection" \notin Ops,
           NEW t \in Tasks, Resolve(t)
    PROVE  ServeInv'
<1>1. DirtyHeld'
  <2>1. /\ dirty' \subseteq dirty
        /\ UNCHANGED <<connections, quarantined, op>>
        /\ ~(op[t] = "transaction" /\ pc[t] \in {"body", "commit", "rollback", "invalidate"})
        /\ \A u \in Tasks \ {t} : pc'[u] = pc[u] /\ path'[u] = path[u]
        /\ \A p \in Paths : pathLock[p] \in Tasks \ {t} => pathLock'[p] = pathLock[p]
    BY DEF Resolve, PcOp, LockHeld, TypeLocal, TypeShared
  <2> QED
    BY <2>1, DirtyStays DEF ServeInv
<1>2. CleanBirth'
  BY DEF Resolve, ServeInv, CleanBirth, DirtyHeld, PcOp, LockHeld, OneOwner, Fresh,
     WindowInv, WindowOpen, Using, TypeLocal, TypeShared, TypeDisk
<1>3. CurrentFile'
  BY DEF Resolve, ServeInv, CurrentFile, WindowInv, WindowOpen, LockHeld, Fresh, TypeLocal,
     TypeShared, TypeDisk
<1>4. CondemnedInv'
  <2>1. /\ UNCHANGED <<condemned, quarantined, connections>>
        /\ \A u \in Tasks : WindowOpen(u)' =>
              WindowOpen(u) /\ path'[u] = path[u] /\ (pc[u] = "window" => pc'[u] = "window")
    BY DEF Resolve, WindowOpen, PcOp, TypeLocal
  <2> QED
    BY <2>1, CondemnedStays DEF ServeInv
<1> QED
  BY <1>1, <1>2, <1>3, <1>4 DEF ServeInv

\* ServeInv survives the second look at the registry under _init_lock.
LEMMA AcquireInitServe ==
    ASSUME BaseInv, WindowInv, ServeInv, "get_connection" \notin Ops,
           NEW t \in Tasks, AcquireInit(t)
    PROVE  ServeInv'
<1>1. DirtyHeld'
  <2>1. /\ dirty' \subseteq dirty
        /\ UNCHANGED <<connections, quarantined, op>>
        /\ ~(op[t] = "transaction" /\ pc[t] \in {"body", "commit", "rollback", "invalidate"})
        /\ \A u \in Tasks \ {t} : pc'[u] = pc[u] /\ path'[u] = path[u]
        /\ \A p \in Paths : pathLock[p] \in Tasks \ {t} => pathLock'[p] = pathLock[p]
    BY DEF AcquireInit, PcOp, LockHeld, TypeLocal, TypeShared
  <2> QED
    BY <2>1, DirtyStays DEF ServeInv
<1>2. CleanBirth'
  BY DEF AcquireInit, ServeInv, CleanBirth, DirtyHeld, PcOp, LockHeld, OneOwner, Fresh,
     WindowInv, WindowOpen, Using, TypeLocal, TypeShared, TypeDisk
<1>3. CurrentFile'
  BY DEF AcquireInit, ServeInv, CurrentFile, WindowInv, WindowOpen, LockHeld, Fresh,
     TypeLocal, TypeShared, TypeDisk
<1>4. CondemnedInv'
  <2>1. /\ UNCHANGED <<condemned, quarantined, connections>>
        /\ \A u \in Tasks : WindowOpen(u)' =>
              WindowOpen(u) /\ path'[u] = path[u] /\ (pc[u] = "window" => pc'[u] = "window")
    BY DEF AcquireInit, WindowOpen, PcOp, TypeLocal
  <2> QED
    BY <2>1, CondemnedStays DEF ServeInv
<1> QED
  BY <1>1, <1>2, <1>3, <1>4 DEF ServeInv

\* ServeInv survives _init_single registering a fresh connection.
LEMMA OpenOkServe ==
    ASSUME BaseInv, WindowInv, ServeInv, "get_connection" \notin Ops,
           NEW t \in Tasks, OpenOk(t)
    PROVE  ServeInv'
<1>1. DirtyHeld'
  <2>1. /\ connections' = [connections EXCEPT ![path[t]] = nextConn]
        /\ UNCHANGED <<dirty, quarantined, op, path>>
        /\ pc[t] = "opening"
        /\ \A u \in Tasks \ {t} : pc'[u] = pc[u]
        /\ \A p \in Paths : pathLock[p] \in Tasks \ {t} => pathLock'[p] = pathLock[p]
    BY DEF OpenOk, LockHeld, PcOp, WindowInv, TypeLocal, TypeShared
  <2>2. nextConn \notin dirty
    BY DEF ServeInv, CleanBirth, TypeDisk
  <2> QED
    BY <2>1, <2>2 DEF ServeInv, DirtyHeld, TypeLocal, TypeShared
<1>2. CleanBirth'
  BY DEF OpenOk, ServeInv, CleanBirth, DirtyHeld, PcOp, LockHeld, OneOwner, Fresh, WindowInv,
     WindowOpen, Using, TypeLocal, TypeShared, TypeDisk
<1>3. CurrentFile'
  BY DEF OpenOk, ServeInv, CurrentFile, WindowInv, WindowOpen, LockHeld, Fresh, TypeLocal,
     TypeShared, TypeDisk
<1>4. CondemnedInv'
  BY DEF OpenOk, ServeInv, CondemnedInv, WindowInv, WindowOpen, PcOp, LockHeld, Using,
     TypeLocal, TypeShared, TypeDisk
<1> QED
  BY <1>1, <1>2, <1>3, <1>4 DEF ServeInv

\* ServeInv survives _init_single failing.
LEMMA OpenFailServe ==
    ASSUME BaseInv, WindowInv, ServeInv, "get_connection" \notin Ops,
           NEW t \in Tasks, OpenFail(t)
    PROVE  ServeInv'
<1>1. DirtyHeld'
  BY DEF OpenFail, ServeInv, DirtyHeld, CleanBirth, PcOp, LockHeld, OneOwner, Using,
     TypeLocal, TypeShared, TypeDisk
<1>2. CleanBirth'
  BY DEF OpenFail, ServeInv, CleanBirth, DirtyHeld, PcOp, LockHeld, OneOwner, Fresh,
     WindowInv, WindowOpen, Using, TypeLocal, TypeShared, TypeDisk
<1>3. CurrentFile'
  BY DEF OpenFail, ServeInv, CurrentFile, WindowInv, WindowOpen, LockHeld, Fresh, TypeLocal,
     TypeShared, TypeDisk
<1>4. CondemnedInv'
  BY DEF OpenFail, ServeInv, CondemnedInv, WindowInv, WindowOpen, PcOp, LockHeld, Using,
     TypeLocal, TypeShared, TypeDisk
<1> QED
  BY <1>1, <1>2, <1>3, <1>4 DEF ServeInv

\* ServeInv survives _init_single failing to open and to close.
LEMMA OpenFailUnclosedServe ==
    ASSUME BaseInv, WindowInv, ServeInv, "get_connection" \notin Ops,
           NEW t \in Tasks, OpenFailUnclosed(t)
    PROVE  ServeInv'
<1>1. DirtyHeld'
  BY DEF OpenFailUnclosed, ServeInv, DirtyHeld, CleanBirth, PcOp, LockHeld, OneOwner, Using,
     TypeLocal, TypeShared, TypeDisk
<1>2. CleanBirth'
  BY DEF OpenFailUnclosed, ServeInv, CleanBirth, DirtyHeld, PcOp, LockHeld, OneOwner, Fresh,
     WindowInv, WindowOpen, Using, TypeLocal, TypeShared, TypeDisk
<1>3. CurrentFile'
  BY DEF OpenFailUnclosed, ServeInv, CurrentFile, WindowInv, WindowOpen, LockHeld, Fresh,
     TypeLocal, TypeShared, TypeDisk
<1>4. CondemnedInv'
  BY DEF OpenFailUnclosed, ServeInv, CondemnedInv, WindowInv, WindowOpen, PcOp, LockHeld,
     Using, TypeLocal, TypeShared, TypeDisk
<1> QED
  BY <1>1, <1>2, <1>3, <1>4 DEF ServeInv

\* ServeInv survives a WAL recovery that retains its connection.
LEMMA OpenRetainedServe ==
    ASSUME BaseInv, WindowInv, ServeInv, "get_connection" \notin Ops,
           NEW t \in Tasks, OpenRetained(t)
    PROVE  ServeInv'
<1>1. DirtyHeld'
  BY DEF OpenRetained, ServeInv, DirtyHeld, CleanBirth, PcOp, LockHeld, OneOwner, Using,
     TypeLocal, TypeShared, TypeDisk
<1>2. CleanBirth'
  BY DEF OpenRetained, ServeInv, CleanBirth, DirtyHeld, PcOp, LockHeld, OneOwner, Fresh,
     WindowInv, WindowOpen, Using, TypeLocal, TypeShared, TypeDisk
<1>3. CurrentFile'
  BY DEF OpenRetained, ServeInv, CurrentFile, WindowInv, WindowOpen, LockHeld, Fresh,
     TypeLocal, TypeShared, TypeDisk
<1>4. CondemnedInv'
  BY DEF OpenRetained, ServeInv, CondemnedInv, WindowInv, WindowOpen, PcOp, LockHeld, Using,
     TypeLocal, TypeShared, TypeDisk
<1> QED
  BY <1>1, <1>2, <1>3, <1>4 DEF ServeInv

\* ServeInv survives a write in a transaction.
LEMMA BodyWriteServe ==
    ASSUME BaseInv, WindowInv, ServeInv, "get_connection" \notin Ops,
           NEW t \in Tasks, BodyWrite(t)
    PROVE  ServeInv'
<1>1. DirtyHeld'
  BY DEF BodyWrite, ServeInv, DirtyHeld, CleanBirth, PcOp, LockHeld, OneOwner, Using,
     TypeLocal, TypeShared, TypeDisk
<1>2. CleanBirth'
  BY DEF BodyWrite, ServeInv, CleanBirth, DirtyHeld, PcOp, LockHeld, OneOwner, Fresh,
     WindowInv, WindowOpen, Using, TypeLocal, TypeShared, TypeDisk
<1>3. CurrentFile'
  BY DEF BodyWrite, ServeInv, CurrentFile, WindowInv, WindowOpen, LockHeld, Fresh, TypeLocal,
     TypeShared, TypeDisk
<1>4. CondemnedInv'
  BY DEF BodyWrite, ServeInv, CondemnedInv, WindowInv, WindowOpen, PcOp, LockHeld, Using,
     TypeLocal, TypeShared, TypeDisk
<1> QED
  BY <1>1, <1>2, <1>3, <1>4 DEF ServeInv

\* ServeInv survives a body that returns.
LEMMA BodyReturnServe ==
    ASSUME BaseInv, WindowInv, ServeInv, "get_connection" \notin Ops,
           NEW t \in Tasks, BodyReturn(t)
    PROVE  ServeInv'
<1>1. DirtyHeld'
  BY DEF BodyReturn, ServeInv, DirtyHeld, CleanBirth, PcOp, LockHeld, OneOwner, Using,
     TypeLocal, TypeShared, TypeDisk
<1>2. CleanBirth'
  BY DEF BodyReturn, ServeInv, CleanBirth, DirtyHeld, PcOp, LockHeld, OneOwner, Fresh,
     WindowInv, WindowOpen, Using, TypeLocal, TypeShared, TypeDisk
<1>3. CurrentFile'
  BY DEF BodyReturn, ServeInv, CurrentFile, WindowInv, WindowOpen, LockHeld, Fresh,
     TypeLocal, TypeShared, TypeDisk
<1>4. CondemnedInv'
  <2>1. /\ UNCHANGED <<condemned, connections, path, op>>
        /\ quarantined \ {path[t]} \subseteq quarantined'
        /\ \A u \in Tasks : WindowOpen(u)' => WindowOpen(u) /\ pc'[u] = pc[u]
    BY DEF BodyReturn, WindowOpen, TypeLocal
  <2>2. path[t] \notin condemned
    BY DEF BodyReturn, ServeInv, CondemnedInv, LockHeld, Using, TypeLocal
  <2> QED
    BY <2>1, <2>2 DEF ServeInv, CondemnedInv
<1> QED
  BY <1>1, <1>2, <1>3, <1>4 DEF ServeInv

\* ServeInv survives a body that raises.
LEMMA BodyRaiseServe ==
    ASSUME BaseInv, WindowInv, ServeInv, "get_connection" \notin Ops,
           NEW t \in Tasks, BodyRaise(t)
    PROVE  ServeInv'
<1>1. DirtyHeld'
  <2>1. CASE op[t] = "transaction"
    BY <2>1, DirtyGoesOn DEF BodyRaise, ServeInv, TypeLocal
  <2>2. CASE op[t] # "transaction"
    <3>1. /\ UNCHANGED <<dirty, connections, quarantined, op>>
          /\ \A u \in Tasks \ {t} : pc'[u] = pc[u] /\ path'[u] = path[u]
          /\ \A p \in Paths : pathLock[p] \in Tasks \ {t} => pathLock'[p] = pathLock[p]
      BY <2>2 DEF BodyRaise, TypeLocal, TypeShared
    <3> QED
      BY <2>2, <3>1, DirtyStays DEF ServeInv
  <2> QED
    BY <2>1, <2>2
<1>2. CleanBirth'
  BY DEF BodyRaise, ServeInv, CleanBirth, DirtyHeld, PcOp, LockHeld, OneOwner, Fresh,
     WindowInv, WindowOpen, Using, TypeLocal, TypeShared, TypeDisk
<1>3. CurrentFile'
  BY DEF BodyRaise, ServeInv, CurrentFile, WindowInv, WindowOpen, LockHeld, Fresh, TypeLocal,
     TypeShared, TypeDisk
<1>4. CondemnedInv'
  <2>1. /\ UNCHANGED <<condemned, quarantined, connections>>
        /\ \A u \in Tasks : WindowOpen(u)' =>
              WindowOpen(u) /\ path'[u] = path[u] /\ (pc[u] = "window" => pc'[u] = "window")
    BY DEF BodyRaise, WindowOpen, PcOp, TypeLocal
  <2> QED
    BY <2>1, CondemnedStays DEF ServeInv
<1> QED
  BY <1>1, <1>2, <1>3, <1>4 DEF ServeInv

\* ServeInv survives the commit.
LEMMA CommitServe ==
    ASSUME BaseInv, WindowInv, ServeInv, "get_connection" \notin Ops,
           NEW t \in Tasks, Commit(t)
    PROVE  ServeInv'
<1>1. DirtyHeld'
  <2>1. CASE Goto(t, "rollback") /\ UNCHANGED <<dirty, pathLock>>
    BY <2>1, DirtyGoesOn DEF Commit, ServeInv, PcOp, TypeLocal
  <2>2. CASE dirty' = dirty \ {conn[t]} /\ Leave(t)
    <3>1. pc[t] = "commit" /\ UNCHANGED <<connections, quarantined, op, path>>
      BY DEF Commit
    <3> QED
      BY <2>2, <3>1, DirtyEnds DEF ServeInv
  <2> QED
    BY <2>1, <2>2 DEF Commit
<1>2. CleanBirth'
  <2>1. /\ dirty' \subseteq dirty
        /\ UNCHANGED <<nextConn, conn, op>>
        /\ \A u \in Tasks : pc'[u] = "body" => pc[u] = "body"
    BY DEF Commit, TypeLocal
  <2> QED
    BY <2>1, BirthStays DEF ServeInv
<1>3. CurrentFile'
  BY DEF Commit, ServeInv, CurrentFile, WindowInv, WindowOpen, LockHeld, Fresh, TypeLocal,
     TypeShared, TypeDisk
<1>4. CondemnedInv'
  <2>1. /\ UNCHANGED <<condemned, quarantined, connections>>
        /\ \A u \in Tasks : WindowOpen(u)' =>
              WindowOpen(u) /\ path'[u] = path[u] /\ (pc[u] = "window" => pc'[u] = "window")
    BY DEF Commit, WindowOpen, PcOp, TypeLocal
  <2> QED
    BY <2>1, CondemnedStays DEF ServeInv
<1> QED
  BY <1>1, <1>2, <1>3, <1>4 DEF ServeInv

\* ServeInv survives the rollback.
LEMMA RollbackServe ==
    ASSUME BaseInv, WindowInv, ServeInv, "get_connection" \notin Ops,
           NEW t \in Tasks, Rollback(t)
    PROVE  ServeInv'
<1>1. DirtyHeld'
  <2>1. CASE Goto(t, "invalidate") /\ UNCHANGED <<dirty, pathLock>>
    BY <2>1, DirtyGoesOn DEF Rollback, ServeInv, PcOp, TypeLocal
  <2>2. CASE dirty' = dirty \ {conn[t]} /\ Leave(t)
    <3>1. pc[t] = "rollback" /\ UNCHANGED <<connections, quarantined, op, path>>
      BY DEF Rollback
    <3> QED
      BY <2>2, <3>1, DirtyEnds DEF ServeInv
  <2> QED
    BY <2>1, <2>2 DEF Rollback
<1>2. CleanBirth'
  <2>1. /\ dirty' \subseteq dirty
        /\ UNCHANGED <<nextConn, conn, op>>
        /\ \A u \in Tasks : pc'[u] = "body" => pc[u] = "body"
    BY DEF Rollback, TypeLocal
  <2> QED
    BY <2>1, BirthStays DEF ServeInv
<1>3. CurrentFile'
  BY DEF Rollback, ServeInv, CurrentFile, WindowInv, WindowOpen, LockHeld, Fresh, TypeLocal,
     TypeShared, TypeDisk
<1>4. CondemnedInv'
  <2>1. /\ UNCHANGED <<condemned, quarantined, connections>>
        /\ \A u \in Tasks : WindowOpen(u)' =>
              WindowOpen(u) /\ path'[u] = path[u] /\ (pc[u] = "window" => pc'[u] = "window")
    BY DEF Rollback, WindowOpen, PcOp, TypeLocal
  <2> QED
    BY <2>1, CondemnedStays DEF ServeInv
<1> QED
  BY <1>1, <1>2, <1>3, <1>4 DEF ServeInv

\* ServeInv survives recover_connection() getting the path lock.
LEMMA BeginInvalidateServe ==
    ASSUME BaseInv, WindowInv, ServeInv, "get_connection" \notin Ops,
           NEW t \in Tasks, BeginInvalidate(t)
    PROVE  ServeInv'
<1>1. DirtyHeld'
  BY DEF BeginInvalidate, ServeInv, DirtyHeld, CleanBirth, PcOp, LockHeld, OneOwner, Using,
     TypeLocal, TypeShared, TypeDisk
<1>2. CleanBirth'
  BY DEF BeginInvalidate, ServeInv, CleanBirth, DirtyHeld, PcOp, LockHeld, OneOwner, Fresh,
     WindowInv, WindowOpen, Using, TypeLocal, TypeShared, TypeDisk
<1>3. CurrentFile'
  BY DEF BeginInvalidate, ServeInv, CurrentFile, WindowInv, WindowOpen, LockHeld, Fresh,
     TypeLocal, TypeShared, TypeDisk
<1>4. CondemnedInv'
  BY DEF BeginInvalidate, ServeInv, CondemnedInv, WindowInv, WindowOpen, PcOp, LockHeld,
     Using, TypeLocal, TypeShared, TypeDisk
<1> QED
  BY <1>1, <1>2, <1>3, <1>4 DEF ServeInv

\* ServeInv survives a confirmed close of an invalidated connection.
LEMMA InvalidateClosedServe ==
    ASSUME BaseInv, WindowInv, ServeInv, "get_connection" \notin Ops,
           NEW t \in Tasks, InvalidateClosed(t)
    PROVE  ServeInv'
<1>1. DirtyHeld'
  <2>1. /\ UNCHANGED <<op, path>>
        /\ dirty' = dirty \ {conn[t]}
        /\ quarantined \subseteq quarantined'
        /\ \A p \in Paths : connections'[p] \in {connections[p], NoConn}
        /\ \A u \in Tasks \ {t} : pc'[u] = pc[u]
        /\ \A p \in Paths : pathLock[p] \in Tasks \ {t} => pathLock'[p] = pathLock[p]
    BY DEF InvalidateClosed, LockHeld, TypeLocal, TypeShared
  <2>2. op[t] = "transaction" => connections[path[t]] = conn[t]
    BY DEF InvalidateClosed, LockHeld
  <2>3. NoConn \notin dirty
    BY DEF TypeDisk
  <2> QED
    BY <2>1, <2>2, <2>3 DEF ServeInv, DirtyHeld
<1>2. CleanBirth'
  BY DEF InvalidateClosed, ServeInv, CleanBirth, DirtyHeld, PcOp, LockHeld, OneOwner, Fresh,
     WindowInv, WindowOpen, Using, TypeLocal, TypeShared, TypeDisk
<1>3. CurrentFile'
  BY DEF InvalidateClosed, ServeInv, CurrentFile, WindowInv, WindowOpen, LockHeld, Fresh,
     TypeLocal, TypeShared, TypeDisk
<1>4. CondemnedInv'
  <2>1. /\ UNCHANGED <<path, op>>
        /\ \A u \in Tasks : WindowOpen(u)' =>
              pc'[u] = "window" \/ (WindowOpen(u) /\ pc'[u] = pc[u])
        /\ \A p \in Paths : connections[p] = NoConn => connections'[p] = NoConn
        /\ quarantined \subseteq quarantined'
    BY DEF InvalidateClosed, WindowOpen, PcOp, TypeLocal, TypeShared
  <2>2. CASE condemned' = condemned
    BY <2>1, <2>2 DEF InvalidateClosed, ServeInv, CondemnedInv, TypeShared
  <2>3. CASE condemned' = condemned \cup {path[t]} /\ connections[path[t]] = conn[t]
             /\ op[t] = "recover_connection"
    <3>1. connections[path[t]] # NoConn /\ path[t] \in quarantined'
          /\ connections'[path[t]] = NoConn
      BY <2>3 DEF InvalidateClosed, WindowInv, TypeLocal, TypeShared
    <3>2. \A u \in Tasks : WindowOpen(u) => path[u] # path[t]
      BY <3>1 DEF WindowInv
    <3> QED
      <4> SUFFICES ASSUME NEW p \in condemned'
                   PROVE  /\ p \in quarantined' /\ connections'[p] = NoConn
                          /\ \A u \in Tasks : WindowOpen(u)' /\ path'[u] = p => pc'[u] = "window"
        BY DEF CondemnedInv
      <4>1. CASE p = path[t]
        BY <2>1, <3>1, <3>2, <4>1
      <4>2. CASE p \in condemned
        BY <2>1, <4>2 DEF ServeInv, CondemnedInv, TypeShared
      <4> QED
        BY <2>3, <4>1, <4>2
  <2> QED
    BY <2>2, <2>3 DEF InvalidateClosed
<1> QED
  BY <1>1, <1>2, <1>3, <1>4 DEF ServeInv

\* ServeInv survives an unconfirmed close of an invalidated connection.
LEMMA InvalidateUnconfirmedServe ==
    ASSUME BaseInv, WindowInv, ServeInv, "get_connection" \notin Ops,
           NEW t \in Tasks, InvalidateUnconfirmed(t)
    PROVE  ServeInv'
<1>1. DirtyHeld'
  BY DEF InvalidateUnconfirmed, ServeInv, DirtyHeld, CleanBirth, PcOp, LockHeld, OneOwner,
     Using, TypeLocal, TypeShared, TypeDisk
<1>2. CleanBirth'
  BY DEF InvalidateUnconfirmed, ServeInv, CleanBirth, DirtyHeld, PcOp, LockHeld, OneOwner,
     Fresh, WindowInv, WindowOpen, Using, TypeLocal, TypeShared, TypeDisk
<1>3. CurrentFile'
  BY DEF InvalidateUnconfirmed, ServeInv, CurrentFile, WindowInv, WindowOpen, LockHeld,
     Fresh, TypeLocal, TypeShared, TypeDisk
<1>4. CondemnedInv'
  BY DEF InvalidateUnconfirmed, ServeInv, CondemnedInv, WindowInv, WindowOpen, PcOp,
     LockHeld, Using, TypeLocal, TypeShared, TypeDisk
<1> QED
  BY <1>1, <1>2, <1>3, <1>4 DEF ServeInv

\* ServeInv survives the forensic rename.
LEMMA RenameServe ==
    ASSUME BaseInv, WindowInv, ServeInv, "get_connection" \notin Ops,
           NEW t \in Tasks, Rename(t)
    PROVE  ServeInv'
<1>1. DirtyHeld'
  BY DEF Rename, ServeInv, DirtyHeld, CleanBirth, PcOp, LockHeld, OneOwner, Using, TypeLocal,
     TypeShared, TypeDisk
<1>2. CleanBirth'
  BY DEF Rename, ServeInv, CleanBirth, DirtyHeld, PcOp, LockHeld, OneOwner, Fresh, WindowInv,
     WindowOpen, Using, TypeLocal, TypeShared, TypeDisk
<1>3. CurrentFile'
  BY DEF Rename, ServeInv, CurrentFile, WindowInv, WindowOpen, LockHeld, Fresh, TypeLocal,
     TypeShared, TypeDisk
<1>4. CondemnedInv'
  BY DEF Rename, ServeInv, CondemnedInv, WindowInv, WindowOpen, PcOp, LockHeld, Using,
     TypeLocal, TypeShared, TypeDisk
<1> QED
  BY <1>1, <1>2, <1>3, <1>4 DEF ServeInv

\* ServeInv survives the call of reabrir().
LEMMA ReopenServe ==
    ASSUME BaseInv, WindowInv, ServeInv, "get_connection" \notin Ops,
           NEW t \in Tasks, Reopen(t)
    PROVE  ServeInv'
<1>1. DirtyHeld'
  BY DEF Reopen, ServeInv, DirtyHeld, CleanBirth, PcOp, LockHeld, OneOwner, Using, TypeLocal,
     TypeShared, TypeDisk
<1>2. CleanBirth'
  BY DEF Reopen, ServeInv, CleanBirth, DirtyHeld, PcOp, LockHeld, OneOwner, Fresh, WindowInv,
     WindowOpen, Using, TypeLocal, TypeShared, TypeDisk
<1>3. CurrentFile'
  BY DEF Reopen, ServeInv, CurrentFile, WindowInv, WindowOpen, LockHeld, Fresh, TypeLocal,
     TypeShared, TypeDisk
<1>4. CondemnedInv'
  BY DEF Reopen, ServeInv, CondemnedInv, WindowInv, WindowOpen, PcOp, LockHeld, Using,
     TypeLocal, TypeShared, TypeDisk
<1> QED
  BY <1>1, <1>2, <1>3, <1>4 DEF ServeInv

\* ServeInv survives a loop taking its next item or ending.
LEMMA ScanServe ==
    ASSUME BaseInv, WindowInv, ServeInv, "get_connection" \notin Ops,
           NEW t \in Tasks, Scan(t)
    PROVE  ServeInv'
<1>1. DirtyHeld'
  BY DEF Scan, ServeInv, DirtyHeld, CleanBirth, PcOp, LockHeld, OneOwner, Using, TypeLocal,
     TypeShared, TypeDisk
<1>2. CleanBirth'
  BY DEF Scan, ServeInv, CleanBirth, DirtyHeld, PcOp, LockHeld, OneOwner, Fresh, WindowInv,
     WindowOpen, Using, TypeLocal, TypeShared, TypeDisk
<1>3. CurrentFile'
  BY DEF Scan, ServeInv, CurrentFile, WindowInv, WindowOpen, LockHeld, Fresh, TypeLocal,
     TypeShared, TypeDisk
<1>4. CondemnedInv'
  <2>1. /\ UNCHANGED <<condemned, quarantined, connections>>
        /\ \A u \in Tasks : WindowOpen(u)' =>
              WindowOpen(u) /\ path'[u] = path[u] /\ (pc[u] = "window" => pc'[u] = "window")
    BY DEF Scan, WindowOpen, PcOp, TypeLocal
  <2> QED
    BY <2>1, CondemnedStays DEF ServeInv
<1> QED
  BY <1>1, <1>2, <1>3, <1>4 DEF ServeInv

\* ServeInv survives checkpoint_all() getting a path lock.
LEMMA BeginCheckpointServe ==
    ASSUME BaseInv, WindowInv, ServeInv, "get_connection" \notin Ops,
           NEW t \in Tasks, BeginCheckpoint(t)
    PROVE  ServeInv'
<1>1. DirtyHeld'
  <2>1. /\ dirty' \subseteq dirty
        /\ UNCHANGED <<connections, quarantined, op>>
        /\ ~(op[t] = "transaction" /\ pc[t] \in {"body", "commit", "rollback", "invalidate"})
        /\ \A u \in Tasks \ {t} : pc'[u] = pc[u] /\ path'[u] = path[u]
        /\ \A p \in Paths : pathLock[p] \in Tasks \ {t} => pathLock'[p] = pathLock[p]
    BY DEF BeginCheckpoint, PcOp, LockHeld, TypeLocal, TypeShared
  <2> QED
    BY <2>1, DirtyStays DEF ServeInv
<1>2. CleanBirth'
  BY DEF BeginCheckpoint, ServeInv, CleanBirth, DirtyHeld, PcOp, LockHeld, OneOwner, Fresh,
     WindowInv, WindowOpen, Using, TypeLocal, TypeShared, TypeDisk
<1>3. CurrentFile'
  BY DEF BeginCheckpoint, ServeInv, CurrentFile, WindowInv, WindowOpen, LockHeld, Fresh,
     TypeLocal, TypeShared, TypeDisk
<1>4. CondemnedInv'
  BY DEF BeginCheckpoint, ServeInv, CondemnedInv, WindowInv, WindowOpen, PcOp, LockHeld,
     Using, TypeLocal, TypeShared, TypeDisk
<1> QED
  BY <1>1, <1>2, <1>3, <1>4 DEF ServeInv

\* ServeInv survives a checkpoint.
LEMMA CheckpointServe ==
    ASSUME BaseInv, WindowInv, ServeInv, "get_connection" \notin Ops,
           NEW t \in Tasks, Checkpoint(t)
    PROVE  ServeInv'
<1>1. DirtyHeld'
  BY DEF Checkpoint, ServeInv, DirtyHeld, CleanBirth, PcOp, LockHeld, OneOwner, Using,
     TypeLocal, TypeShared, TypeDisk
<1>2. CleanBirth'
  BY DEF Checkpoint, ServeInv, CleanBirth, DirtyHeld, PcOp, LockHeld, OneOwner, Fresh,
     WindowInv, WindowOpen, Using, TypeLocal, TypeShared, TypeDisk
<1>3. CurrentFile'
  BY DEF Checkpoint, ServeInv, CurrentFile, WindowInv, WindowOpen, LockHeld, Fresh,
     TypeLocal, TypeShared, TypeDisk
<1>4. CondemnedInv'
  BY DEF Checkpoint, ServeInv, CondemnedInv, WindowInv, WindowOpen, PcOp, LockHeld, Using,
     TypeLocal, TypeShared, TypeDisk
<1> QED
  BY <1>1, <1>2, <1>3, <1>4 DEF ServeInv

\* ServeInv survives shutdown_all() seeing the drained event.
LEMMA DrainedServe ==
    ASSUME BaseInv, WindowInv, ServeInv, "get_connection" \notin Ops,
           NEW t \in Tasks, Drained(t)
    PROVE  ServeInv'
<1>1. DirtyHeld'
  <2>1. /\ UNCHANGED <<dirty, connections, quarantined, op, path>>
        /\ pc[t] = "drain" /\ op[t] # "transaction"
    BY DEF Drained, PcOp
  <2>2. CASE Leave(t)
    BY <2>1, <2>2, DirtyStays DEF ServeInv, TypeLocal, TypeShared
  <2>3. CASE Goto(t, "truncate") /\ UNCHANGED locks
    BY <2>1, <2>3, DirtyStays DEF ServeInv, TypeLocal, TypeShared
  <2> QED
    BY <2>2, <2>3 DEF Drained
<1>2. CleanBirth'
  <2>1. /\ dirty' \subseteq dirty
        /\ UNCHANGED <<nextConn, conn, op>>
        /\ \A u \in Tasks : pc'[u] = "body" => pc[u] = "body"
    BY DEF Drained, TypeLocal
  <2> QED
    BY <2>1, BirthStays DEF ServeInv
<1>3. CurrentFile'
  BY DEF Drained, ServeInv, CurrentFile, WindowInv, WindowOpen, LockHeld, Fresh, TypeLocal,
     TypeShared, TypeDisk
<1>4. CondemnedInv'
  <2>1. /\ UNCHANGED <<condemned, quarantined, connections>>
        /\ \A u \in Tasks : WindowOpen(u)' =>
              WindowOpen(u) /\ path'[u] = path[u] /\ (pc[u] = "window" => pc'[u] = "window")
    BY DEF Drained, WindowOpen, PcOp, TypeLocal
  <2> QED
    BY <2>1, CondemnedStays DEF ServeInv
<1> QED
  BY <1>1, <1>2, <1>3, <1>4 DEF ServeInv

\* ServeInv survives the TRUNCATE checkpoint.
LEMMA TruncateServe ==
    ASSUME BaseInv, WindowInv, ServeInv, "get_connection" \notin Ops,
           NEW t \in Tasks, Truncate(t)
    PROVE  ServeInv'
<1>1. DirtyHeld'
  BY DEF Truncate, ServeInv, DirtyHeld, CleanBirth, PcOp, LockHeld, OneOwner, Using,
     TypeLocal, TypeShared, TypeDisk
<1>2. CleanBirth'
  BY DEF Truncate, ServeInv, CleanBirth, DirtyHeld, PcOp, LockHeld, OneOwner, Fresh,
     WindowInv, WindowOpen, Using, TypeLocal, TypeShared, TypeDisk
<1>3. CurrentFile'
  BY DEF Truncate, ServeInv, CurrentFile, WindowInv, WindowOpen, LockHeld, Fresh, TypeLocal,
     TypeShared, TypeDisk
<1>4. CondemnedInv'
  BY DEF Truncate, ServeInv, CondemnedInv, WindowInv, WindowOpen, PcOp, LockHeld, Using,
     TypeLocal, TypeShared, TypeDisk
<1> QED
  BY <1>1, <1>2, <1>3, <1>4 DEF ServeInv

\* ServeInv survives shutdown_all() getting a path lock.
LEMMA BeginCloseServe ==
    ASSUME BaseInv, WindowInv, ServeInv, "get_connection" \notin Ops,
           NEW t \in Tasks, BeginClose(t)
    PROVE  ServeInv'
<1>1. DirtyHeld'
  <2>1. /\ dirty' \subseteq dirty
        /\ UNCHANGED <<connections, quarantined, op>>
        /\ ~(op[t] = "transaction" /\ pc[t] \in {"body", "commit", "rollback", "invalidate"})
        /\ \A u \in Tasks \ {t} : pc'[u] = pc[u] /\ path'[u] = path[u]
        /\ \A p \in Paths : pathLock[p] \in Tasks \ {t} => pathLock'[p] = pathLock[p]
    BY DEF BeginClose, PcOp, LockHeld, TypeLocal, TypeShared
  <2> QED
    BY <2>1, DirtyStays DEF ServeInv
<1>2. CleanBirth'
  BY DEF BeginClose, ServeInv, CleanBirth, DirtyHeld, PcOp, LockHeld, OneOwner, Fresh,
     WindowInv, WindowOpen, Using, TypeLocal, TypeShared, TypeDisk
<1>3. CurrentFile'
  BY DEF BeginClose, ServeInv, CurrentFile, WindowInv, WindowOpen, LockHeld, Fresh,
     TypeLocal, TypeShared, TypeDisk
<1>4. CondemnedInv'
  BY DEF BeginClose, ServeInv, CondemnedInv, WindowInv, WindowOpen, PcOp, LockHeld, Using,
     TypeLocal, TypeShared, TypeDisk
<1> QED
  BY <1>1, <1>2, <1>3, <1>4 DEF ServeInv

\* ServeInv survives a successful close in shutdown_all().
LEMMA CloseOkServe ==
    ASSUME BaseInv, WindowInv, ServeInv, "get_connection" \notin Ops,
           NEW t \in Tasks, CloseOk(t)
    PROVE  ServeInv'
<1>1. DirtyHeld'
  BY DEF CloseOk, ServeInv, DirtyHeld, CleanBirth, PcOp, LockHeld, OneOwner, Using,
     TypeLocal, TypeShared, TypeDisk
<1>2. CleanBirth'
  BY DEF CloseOk, ServeInv, CleanBirth, DirtyHeld, PcOp, LockHeld, OneOwner, Fresh,
     WindowInv, WindowOpen, Using, TypeLocal, TypeShared, TypeDisk
<1>3. CurrentFile'
  BY DEF CloseOk, ServeInv, CurrentFile, WindowInv, WindowOpen, LockHeld, Fresh, TypeLocal,
     TypeShared, TypeDisk
<1>4. CondemnedInv'
  BY DEF CloseOk, ServeInv, CondemnedInv, WindowInv, WindowOpen, PcOp, LockHeld, Using,
     TypeLocal, TypeShared, TypeDisk
<1> QED
  BY <1>1, <1>2, <1>3, <1>4 DEF ServeInv

\* ServeInv survives a failed close in shutdown_all().
LEMMA CloseFailServe ==
    ASSUME BaseInv, WindowInv, ServeInv, "get_connection" \notin Ops,
           NEW t \in Tasks, CloseFail(t)
    PROVE  ServeInv'
<1>1. DirtyHeld'
  BY DEF CloseFail, ServeInv, DirtyHeld, CleanBirth, PcOp, LockHeld, OneOwner, Using,
     TypeLocal, TypeShared, TypeDisk
<1>2. CleanBirth'
  BY DEF CloseFail, ServeInv, CleanBirth, DirtyHeld, PcOp, LockHeld, OneOwner, Fresh,
     WindowInv, WindowOpen, Using, TypeLocal, TypeShared, TypeDisk
<1>3. CurrentFile'
  BY DEF CloseFail, ServeInv, CurrentFile, WindowInv, WindowOpen, LockHeld, Fresh, TypeLocal,
     TypeShared, TypeDisk
<1>4. CondemnedInv'
  BY DEF CloseFail, ServeInv, CondemnedInv, WindowInv, WindowOpen, PcOp, LockHeld, Using,
     TypeLocal, TypeShared, TypeDisk
<1> QED
  BY <1>1, <1>2, <1>3, <1>4 DEF ServeInv

\* ServeInv survives a cancellation.
LEMMA CancelServe ==
    ASSUME BaseInv, WindowInv, ServeInv, "get_connection" \notin Ops,
           NEW t \in Tasks, Cancel(t)
    PROVE  ServeInv'
<1>1. DirtyHeld'
  BY DEF Cancel, ServeInv, DirtyHeld, CleanBirth, PcOp, LockHeld, OneOwner, Using, TypeLocal,
     TypeShared, TypeDisk
<1>2. CleanBirth'
  BY DEF Cancel, ServeInv, CleanBirth, DirtyHeld, PcOp, LockHeld, OneOwner, Fresh, WindowInv,
     WindowOpen, Using, TypeLocal, TypeShared, TypeDisk
<1>3. CurrentFile'
  BY DEF Cancel, ServeInv, CurrentFile, WindowInv, WindowOpen, LockHeld, Fresh, TypeLocal,
     TypeShared, TypeDisk
<1>4. CondemnedInv'
  BY DEF Cancel, ServeInv, CondemnedInv, WindowInv, WindowOpen, PcOp, LockHeld, Using,
     TypeLocal, TypeShared, TypeDisk
<1> QED
  BY <1>1, <1>2, <1>3, <1>4 DEF ServeInv

\* No connection is open before the first step.
LEMMA ServeInit ==
    Init => ServeInv
  BY DEF Init, ServeInv, DirtyHeld, CleanBirth, CurrentFile, CondemnedInv, WindowOpen

\* Without get_connection() every step keeps what is served clean and current.
LEMMA ServeNext ==
    ASSUME "get_connection" \notin Ops
    PROVE  IndInv /\ ServeInv /\ [Next]_vars => ServeInv'
<1> SUFFICES ASSUME BaseInv, WindowInv, ServeInv, [Next]_vars PROVE ServeInv'
  BY DEF IndInv
<1>1. ASSUME NEW t \in Tasks, Enter(t) PROVE ServeInv'
  BY <1>1, EnterBoundaryServe, EnterGetConnectionServe, EnterRecoverServe,
     EnterCheckpointServe, EnterTransitionServe DEF Enter
<1>2. ASSUME NEW t \in Tasks, Progress(t) PROVE ServeInv'
  BY <1>2, BeginInitAllServe, BeginShutdownServe, ResolveServe, AcquireInitServe,
     OpenOkServe, OpenFailServe, OpenFailUnclosedServe, OpenRetainedServe,
     BodyReturnServe, BodyRaiseServe, CommitServe, RollbackServe, BeginInvalidateServe,
     InvalidateClosedServe, InvalidateUnconfirmedServe, RenameServe, ReopenServe,
     ScanServe, BeginCheckpointServe, CheckpointServe, DrainedServe, TruncateServe,
     BeginCloseServe, CloseOkServe, CloseFailServe
  DEF Progress
<1>3. ASSUME NEW t \in Tasks, BodyWrite(t) PROVE ServeInv'
  BY <1>3, BodyWriteServe
<1>4. ASSUME NEW t \in Tasks, Cancel(t) PROVE ServeInv'
  BY <1>4, CancelServe
<1>5. CASE UNCHANGED vars
  BY <1>5 DEF vars, ServeInv, DirtyHeld, CleanBirth, CurrentFile, CondemnedInv, WindowOpen
<1> QED
  BY <1>1, <1>2, <1>3, <1>4, <1>5 DEF Next

\* Nobody receives a connection with somebody else's transaction on it: a
\* connection that no lock holder accounts for is clean, or its path is
\* quarantined, whatever commit, rollback or close failed before.
THEOREM CleanHandover ==
    ASSUME "get_connection" \notin Ops
    PROVE  Spec => []NoDirtyHandover
<1>1. ServeInv => NoDirtyHandover
  BY DEF ServeInv, DirtyHeld, NoDirtyHandover
<1> QED
  BY <1>1, IndInit, IndNext, ServeInit, ServeNext, PTL DEF Spec

\* What a task uses was opened on the file now at its path, and that file was
\* never declared corrupt, across recoveries, shutdowns and reopenings.
THEOREM CurrentFileServed ==
    ASSUME "get_connection" \notin Ops
    PROVE  Spec => []ServedFromCurrentFile
<1>1. IndInv /\ ServeInv => ServedFromCurrentFile
  BY DEF IndInv, ServeInv, CurrentFile, CondemnedInv, ServedFromCurrentFile, LockHeld, TypeLocal
<1> QED
  BY <1>1, IndInit, IndNext, ServeInit, ServeNext, PTL DEF Spec

\* A step of a task keeps every open connection registered or lost.
LEMMA TracedStep ==
    ASSUME BaseInv, Traced, NEW t \in Tasks, Enter(t) \/ Progress(t) \/ BodyWrite(t) \/ Cancel(t)
    PROVE  Traced'
<1>1. CASE OpenOk(t)
  BY <1>1 DEF OpenOk, Traced, LockHeld, TypeLocal, TypeShared, TypeDisk
<1>2. CASE OpenRetained(t)
  BY <1>2 DEF OpenRetained, Traced, LockHeld, TypeLocal, TypeShared, TypeDisk
<1>3. CASE OpenFailUnclosed(t)
  BY <1>3 DEF OpenFailUnclosed, Traced
<1>4. CASE InvalidateClosed(t)
  BY <1>4 DEF InvalidateClosed, Traced, TypeLocal, TypeShared
<1>5. CASE CloseOk(t)
  BY <1>5 DEF CloseOk, Traced, LockHeld, TypeLocal, TypeShared
<1>6. ASSUME connOpen' \subseteq connOpen, UNCHANGED <<lost, connections>> PROVE Traced'
  BY <1>6 DEF Traced
<1>7. CASE Enter(t)
  BY <1>6, <1>7 DEF Enter, EnterBoundary, EnterGetConnection, EnterRecover,
     EnterCheckpoint, EnterTransition
<1>8. CASE BodyWrite(t) \/ Cancel(t)
  BY <1>6, <1>8 DEF BodyWrite, Cancel
<1>9. CASE Progress(t)
  <2>1. CASE BeginInitAll(t) \/ BeginShutdown(t) \/ Resolve(t) \/ AcquireInit(t)
             \/ OpenFail(t) \/ BodyReturn(t) \/ BodyRaise(t) \/ Commit(t) \/ Rollback(t)
    BY <1>6, <2>1 DEF BeginInitAll, BeginShutdown, Resolve, AcquireInit, OpenFail,
       BodyReturn, BodyRaise, Commit, Rollback
  <2>2. CASE BeginInvalidate(t) \/ InvalidateUnconfirmed(t) \/ Rename(t) \/ Reopen(t)
             \/ Scan(t) \/ BeginCheckpoint(t) \/ Checkpoint(t) \/ Drained(t)
             \/ Truncate(t) \/ BeginClose(t) \/ CloseFail(t)
    BY <1>6, <2>2 DEF BeginInvalidate, InvalidateUnconfirmed, Rename, Reopen, Scan,
       BeginCheckpoint, Checkpoint, Drained, Truncate, BeginClose, CloseFail
  <2> QED
    BY <1>1, <1>2, <1>3, <1>4, <1>5, <1>9, <2>1, <2>2 DEF Progress
<1> QED
  BY <1>7, <1>8, <1>9

\* shutdown_all() declares CLOSED only when all it opened is closed, except
\* what _init_single logged; unconditional, get_connection() included.
THEOREM ClosedIsClosed ==
    Spec => []ClosedMeansClosed
<1>1. Init => Traced
  BY DEF Init, Traced
<1>2. BaseInv /\ Traced /\ [Next]_vars => Traced'
  <2>1. CASE UNCHANGED vars
    BY <2>1 DEF vars, Traced
  <2> QED
    BY <2>1, TracedStep DEF Next
<1>3. BaseInv /\ Traced => ClosedMeansClosed
  BY DEF Traced, ClosedMeansClosed, Transition, TypeDisk
<1> QED
  BY <1>1, <1>2, <1>3, BaseInvariant, PTL DEF Spec

=============================================================================
