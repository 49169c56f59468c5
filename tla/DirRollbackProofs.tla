------------------------- MODULE DirRollbackProofs -------------------------
(***************************************************************************)
(* Proofs about DirRollback, for every number of runs and of faults, when  *)
(* the lease is not lost during the move aside or a restore (CalmRestore). *)
(*                                                                         *)
(* The argument: a run on its way that has not lost the lease holds it,    *)
(* and is the last that entered (LockInv, OrderInv), so nobody else        *)
(* touches the target or its backup.  What it finds aside is what it found *)
(* at the entry (AsideInv), and what is at the target is its own           *)
(* (TargetInv).  A backup is of an earlier generation than the run that    *)
(* made it (BirthInv), and the generation to be kept is of a run that has  *)
(* finished, after a commit never an earlier one (GoodInv); so whatever is *)
(* cleared, torn or removed is another tree.                               *)
(***************************************************************************)
EXTENDS DirRollback, FiniteSetTheorems, WellFoundedInduction, TLAPS

Trees == [gen : 0..MaxRuns, kind : Kinds]
Busy == {"renaming", "undoing", "body", "clearing", "puttingBack", "validating",
         "refilling", "discarding", "sealed"}
Moved == Busy \ {"renaming", "undoing"}

\* TypeOK, and the types of the rest; what has no kind has no generation.
TypeDisk ==
    /\ target \in Trees /\ backup \in [Runs -> Trees] /\ before \in [Runs -> Trees]
    /\ target.kind = "absent" => target = Absent
    /\ \A r \in Runs : backup[r].kind = "absent" => backup[r] = Absent
TypeRuns ==
    /\ pc \in [Runs -> Busy \cup {"new", "releasing", "over"}]
    /\ lost \in [Runs -> BOOLEAN]
    /\ rbDone \in [Runs -> BOOLEAN] /\ finDone \in [Runs -> BOOLEAN]
TypeRest ==
    /\ lock \in 0..Sweeper /\ good \in 0..NoGood
    /\ left \subseteq Runs /\ (left # {} => lock = Sweeper)
Types == TypeDisk /\ TypeRuns /\ TypeRest

\* The lease: a run on its way has it or has noticed that it lost it.
LockInv ==
    \A r \in Runs :
        /\ lock = r <=> pc[r] \notin {"new", "over"} /\ ~lost[r]
        /\ pc[r] = "new" => ~lost[r]
        /\ pc[r] \in {"renaming", "undoing", "clearing", "puttingBack"} => ~lost[r]

\* Runs enter in their order, and the one that holds the lease is the last.
OrderInv ==
    \A q, r \in Runs : q < r =>
        /\ pc[r] # "new" => pc[q] # "new"
        /\ lock = q => pc[r] = "new"

\* A tree was written by a run that has got as far as its body, and a backup
\* was written by an earlier run than the one that made it.
Unborn(g) == g \in Runs /\ pc[g] \in {"new", "renaming", "undoing"}
BirthInv ==
    /\ ~Unborn(target.gen)
    /\ \A r \in Runs : ~Unborn(backup[r].gen) /\ backup[r].gen < r

\* What is aside is what was there at the entry.
AsideInv ==
    \A r \in Runs :
        /\ pc[r] = "new" => backup[r] = Absent
        /\ pc[r] = "renaming" => target = before[r] /\ backup[r] = Absent
        /\ pc[r] = "undoing" =>
               \/ target = before[r] /\ backup[r] = Absent
               \/ target = Absent /\ backup[r] = before[r]
        /\ pc[r] \in Moved /\ ~lost[r] => backup[r] = before[r]

\* What is at the target was written by the run that holds the lease.
TargetInv ==
    \A r \in Runs : ~lost[r] =>
        /\ pc[r] \in Moved => target = Absent \/ target.gen = r
        /\ pc[r] = "puttingBack" => target = Absent
        /\ pc[r] = "validating" /\ target.gen = r => target.kind # "partial"
        /\ pc[r] = "discarding" => target = Tree(r, "whole") /\ good = r

\* The generation to be kept was finished, and no commit made it an older one.
GoodInv ==
    /\ good \in Runs =>
           pc[good] \in {"validating", "refilling", "discarding", "sealed", "releasing", "over"}
    /\ \A r \in Runs : pc[r] = "sealed" => good >= r

\* Reports are false until they are earned.
ReportInv == \A r \in Runs : pc[r] \in Busy => ~rbDone[r] /\ ~finDone[r]

DirInv ==
    /\ Types /\ LockInv /\ OrderInv /\ BirthInv /\ AsideInv /\ TargetInv
    /\ GoodInv /\ ReportInv /\ LastGoodKept /\ ReportTruthful

(* A tree is its generation and its kind.                                  *)
LEMMA TreeIs ==
    \A g \in 0..MaxRuns, k \in Kinds :
        /\ Tree(g, k) \in Trees /\ Tree(g, k).gen = g /\ Tree(g, k).kind = k
        /\ \A t \in Trees : t.gen = g /\ t.kind = k => t = Tree(g, k)
BY DEF Tree, Trees

LEMMA AbsentIs == Absent \in Trees /\ Absent.gen = 0 /\ Absent.kind = "absent"
BY DirConstants DEF Absent, Trees, Kinds

LEMMA TornIs ==
    \A t \in Trees : Torn(t) \in Trees /\ Torn(t).gen = t.gen /\ Torn(t).kind = "partial"
BY DEF Torn, Trees, Kinds

LEMMA KindsAre == {"whole", "partial", "empty", "link", "absent"} \subseteq Kinds
BY DEF Kinds

(* The fields of a tree.                                                   *)
LEMMA FieldsAre == \A t \in Trees : t.gen \in 0..MaxRuns /\ t.kind \in Kinds
BY DEF Trees

(* The backup that the reconciler looks at next is one it has listed.      *)
LEMMA MinIsListed ==
    ASSUME NEW S \in SUBSET Runs, S # {}
    PROVE  Min(S) \in S
<1>1. S \subseteq Nat
    BY DirConstants DEF Runs
<1>2. PICK x \in S : \A y \in S : ~(<<y, x>> \in OpToRel(<, Nat))
    BY <1>1, NatLessThanWellFounded, WFMin
<1>3. \A y \in S : ~(y < x)
  BY <1>1, <1>2 DEF OpToRel
<1>4. \A y \in S : x =< y
    BY <1>1, <1>3
<1> QED BY <1>4 DEF Min

(* No tree appears of a run that has not got as far as its body, when a    *)
(* step only moves, tears or removes trees.                                *)
LEMMA BirthKept ==
    ASSUME DirInv,
           \A g \in Runs : Unborn(g)' => Unborn(g),
           \/ target'.gen \in {0, target.gen}
           \/ \E q \in Runs : target'.gen = backup[q].gen,
           \A q \in Runs : backup'[q].gen \in {0, backup[q].gen}
    PROVE  BirthInv'
<1>1. BirthInv /\ 0 \notin Runs /\ Runs \subseteq Nat \ {0}
    BY DirConstants DEF DirInv, Runs
<1>2. \A g : ~Unborn(g) => ~Unborn(g)'
    BY DEF Unborn
<1>3. ~Unborn(0)
    BY <1>1 DEF Unborn
<1>4. ~Unborn(target.gen)'
    BY <1>1, <1>2, <1>3 DEF BirthInv
<1>5. ASSUME NEW q \in Runs
      PROVE  ~Unborn(backup[q].gen)' /\ backup'[q].gen < q
  <2>1. CASE backup'[q].gen = 0
      BY <1>1, <1>2, <1>3, <2>1
  <2>2. CASE backup'[q].gen = backup[q].gen
      BY <1>1, <1>2, <2>2 DEF BirthInv
  <2> QED BY <2>1, <2>2
<1> QED BY <1>4, <1>5 DEF BirthInv

(* The run that holds the lease is the only one on its way that has not    *)
(* lost it, and the target it finds was written before it entered.         *)
LEMMA HolderIsAlone ==
    ASSUME DirInv, NEW r \in Runs, lock = r
    PROVE  /\ \A q \in Runs : q # r => pc[q] \in {"new", "over"} \/ lost[q]
           /\ pc[r] \notin {"new", "over"} /\ ~lost[r]
           /\ \A q \in Runs : q > r => pc[q] = "new"
BY DirConstants DEF DirInv, LockInv, OrderInv, Runs

(* The run at a step that only the holder of the lease makes holds it.     *)
LEMMA UnlostHolds ==
    ASSUME DirInv, NEW r \in Runs, ~lost[r], pc[r] \notin {"new", "over"}
    PROVE  lock = r
BY DEF DirInv, LockInv

(* The generation to be kept, as a tree.                                   *)
LEMMA GoodIs == Tree(good, "whole").gen = good /\ Tree(good, "whole").kind = "whole"
BY DEF Tree

(* What the reconciler does with one backup: nothing, or it puts it back   *)
(* where nothing is.                                                       *)
LEMMA SweptOne ==
    ASSUME DirInv, SweepOne
    PROVE  /\ lock = Sweeper
           /\ \/ UNCHANGED <<target, backup>>
              \/ \E q \in Runs :
                     /\ ~Present(target) /\ Present(backup[q])
                     /\ target' = backup[q] /\ backup' = [backup EXCEPT ![q] = Absent]
<1>1. left \in SUBSET Runs /\ left # {} /\ lock = Sweeper
    BY DEF DirInv, Types, TypeRest, SweepOne
<1>2. Min(left) \in Runs
    BY <1>1, MinIsListed
<1>3. \/ UNCHANGED <<target, backup>>
      \/ /\ ~Present(target) /\ Present(backup[Min(left)])
         /\ target' = backup[Min(left)] /\ backup' = [backup EXCEPT ![Min(left)] = Absent]
    BY DEF SweepOne
<1> QED BY <1>1, <1>2, <1>3

(* A backup that returns to where nothing is takes no generation away.     *)
LEMMA BackInPlace ==
    ASSUME DirInv, good' = good, ~Present(target), NEW r \in Runs,
           target' = backup[r], backup' = [backup EXCEPT ![r] = Absent]
    PROVE  LastGoodKept'
<1>1. good # NoGood => Tree(good, "whole") # target
    BY GoodIs DEF Present
<1>2. target' \in Places' /\ \A q \in Runs : backup'[q] \in Places'
    BY DEF Places
<1>3. \A q \in Runs : backup[q] \in Places'
    BY <1>2 DEF DirInv, Types, TypeDisk
<1> QED BY <1>1, <1>3 DEF DirInv, LastGoodKept, Places

(* A run enters, last in order, and takes the lease.                       *)
LEMMA EnterKeeps ==
    ASSUME DirInv, NEW r \in Runs, Enter(r)
    PROVE  DirInv'
<1>1. Types'
  <2>1. TypeDisk'
      BY DirConstants DEF DirInv, Types, TypeDisk, Enter, Free, At, Report, Trees, Runs,
             Absent, Kinds
  <2>2. TypeRuns'
      BY DirConstants DEF DirInv, Types, TypeRuns, Enter, Free, At, Report, Runs, Busy
  <2>3. TypeRest'
      BY DirConstants DEF DirInv, Types, TypeRest, Enter, Free, At, Report, Sweeper, NoGood,
             Runs
  <2> QED BY <2>1, <2>2, <2>3 DEF Types
<1>2. LockInv'
    BY DirConstants DEF DirInv, Types, TypeRuns, TypeRest, LockInv, Runs, Enter, Free, At,
           Report, Busy, Sweeper, NoGood
<1>3. OrderInv'
    BY DirConstants DEF DirInv, Types, TypeRuns, TypeRest, LockInv, OrderInv, Runs, Enter,
           Free, At, Report, Busy, Sweeper, NoGood
<1>4. BirthInv'
    BY DirConstants, AbsentIs, TornIs, TreeIs, KindsAre, FieldsAre DEF DirInv, Types,
           TypeDisk, TypeRuns, LockInv, OrderInv, BirthInv, Unborn, Runs, Enter, Free, At,
           Report, Busy
<1>5. AsideInv'
    BY DirConstants, SMTT(40) DEF DirInv, Types, TypeDisk, TypeRuns, TypeRest, LockInv,
       AsideInv, Runs, Absent, Moved, Busy, Enter, Free, At, Report, Trees, Sweeper, NoGood,
       Kinds
<1>6. TargetInv'
    BY DirConstants DEF DirInv, Types, TypeDisk, TypeRuns, TypeRest, LockInv, AsideInv,
           TargetInv, Runs, Moved, Absent, Tree, Busy, Enter, Free, At, Report, Trees,
           Sweeper, NoGood, Kinds
<1>7. GoodInv'
    BY DirConstants, SMTT(40) DEF DirInv, Types, TypeDisk, TypeRuns, TypeRest, LockInv,
       OrderInv, GoodInv, Runs, Enter, Free, At, Report, Trees, Absent, Busy, Sweeper, NoGood,
       Kinds
<1>8. ReportInv'
    BY DirConstants DEF DirInv, Types, TypeRuns, ReportInv, Runs, Busy, Enter, Free, At,
           Report
<1>9. LastGoodKept'
    BY DirConstants DEF DirInv, Types, TypeDisk, TypeRuns, TypeRest, LockInv, LastGoodKept,
           NoGood, Tree, Places, Runs, Enter, Free, At, Report, Trees, Absent, Busy, Sweeper,
           Kinds
<1>10. ReportTruthful'
    BY DirConstants DEF DirInv, Types, TypeDisk, TypeRuns, TypeRest, LockInv, ReportInv,
           AsideInv, ReportTruthful, Runs, Present, Enter, Free, At, Report, Trees, Absent,
           Busy, Sweeper, NoGood, Moved, Kinds
<1> QED BY <1>1, <1>2, <1>3, <1>4, <1>5, <1>6, <1>7, <1>8, <1>9, <1>10 DEF DirInv

(* The rename: the target goes aside, or stays.                            *)
LEMMA MoveAsideKeeps ==
    ASSUME DirInv, NEW r \in Runs, MoveAside(r)
    PROVE  DirInv'
<1>1. Types'
  <2>1. TypeDisk'
      BY DirConstants, AbsentIs, TornIs, TreeIs, KindsAre, FieldsAre, SMTT(40) DEF DirInv,
         Types, TypeDisk, LockInv, MoveAside, Rename, Present, At, Fault, Runs
  <2>2. TypeRuns'
      BY DirConstants DEF DirInv, Types, TypeRuns, MoveAside, Rename, Present, At, Absent,
             Fault, Runs, Busy
  <2>3. TypeRest'
      BY DirConstants DEF DirInv, Types, TypeRest, MoveAside, Rename, Present, At, Absent,
             Fault, Sweeper, NoGood, Runs
  <2> QED BY <2>1, <2>2, <2>3 DEF Types
<1>2. LockInv'
    BY DirConstants DEF DirInv, Types, TypeRuns, TypeRest, LockInv, Runs, MoveAside, Rename,
           Present, At, Absent, Fault, Busy, Sweeper, NoGood
<1>3. OrderInv'
    BY DirConstants DEF DirInv, Types, TypeRuns, TypeRest, LockInv, OrderInv, Runs,
           MoveAside, Rename, Present, At, Absent, Fault, Busy, Sweeper, NoGood
<1>4. BirthInv'
  <2>1. \A g \in Runs : Unborn(g)' => Unborn(g)
      BY DEF DirInv, Types, TypeRuns, Unborn, MoveAside, Rename, At
  <2>2. pc[r] = "renaming"
      BY DEF MoveAside, Rename, At
  <2>3. lock = r
      BY <2>2 DEF DirInv, Types, TypeRuns, LockInv
  <2>4. target.gen < r
    <3>1. target.gen \in 0..MaxRuns /\ ~Unborn(target.gen)
        BY FieldsAre DEF DirInv, Types, TypeDisk, BirthInv
    <3>2. \A q \in Runs : q >= r => Unborn(q)
        BY <2>2, <2>3, HolderIsAlone, DirConstants DEF Unborn, Runs
    <3> QED BY <3>1, <3>2, DirConstants DEF Runs
  <2>5. CASE UNCHANGED <<target, backup>>
      BY <2>1, <2>5, BirthKept
  <2>6. CASE target' = Absent /\ backup' = [backup EXCEPT ![r] = target]
    <3>1. BirthInv /\ TypeDisk /\ \A g : ~Unborn(g) => ~Unborn(g)'
        BY <2>1 DEF DirInv, Types, Unborn
    <3>2. ~Unborn(target.gen)'
        BY <2>6, AbsentIs, DirConstants DEF Unborn, Runs
    <3>3. \A q \in Runs : ~Unborn(backup[q].gen)' /\ backup'[q].gen < q
        BY <2>4, <2>6, <3>1 DEF BirthInv, TypeDisk
    <3> QED BY <3>2, <3>3 DEF BirthInv
  <2> QED BY <2>5, <2>6 DEF MoveAside, Rename
<1>5. AsideInv'
    BY DirConstants, AbsentIs, TornIs, TreeIs, KindsAre, FieldsAre DEF DirInv, Types,
           TypeDisk, TypeRuns, TypeRest, LockInv, AsideInv, Runs, Moved, Busy, MoveAside,
           Rename, Present, At, Fault, Sweeper, NoGood
<1>6. TargetInv'
    BY DirConstants, AbsentIs, TornIs, TreeIs, KindsAre, FieldsAre DEF DirInv, Types,
           TypeDisk, TypeRuns, TypeRest, LockInv, AsideInv, TargetInv, Runs, Moved, Busy,
           MoveAside, Rename, Present, At, Fault, Sweeper, NoGood
<1>7. GoodInv'
    BY DirConstants, SMTT(40) DEF DirInv, Types, TypeDisk, TypeRuns, TypeRest, LockInv,
       OrderInv, GoodInv, Runs, MoveAside, Rename, Present, At, Absent, Fault, Trees, Busy,
       Sweeper, NoGood, Kinds
<1>8. ReportInv'
    BY DirConstants DEF DirInv, Types, TypeRuns, ReportInv, Runs, Busy, MoveAside, Rename,
           Present, At, Absent, Fault
<1>9. LastGoodKept'
    BY DirConstants, SMTT(40) DEF DirInv, Types, TypeDisk, TypeRuns, TypeRest, LockInv,
       AsideInv, LastGoodKept, NoGood, Tree, Places, Runs, MoveAside, Rename, Present, At,
       Absent, Fault, Trees, Busy, Sweeper, Moved, Kinds
<1>10. ReportTruthful'
  <2>1. pc[r] = "renaming" /\ UNCHANGED <<lost, before, rbDone, finDone>>
      BY DEF MoveAside, Rename, At
  <2>2. /\ pc'[r] \in {"body", "undoing"}
        /\ \A q \in Runs \ {r} : pc'[q] = pc[q]
      BY DEF DirInv, Types, TypeRuns, MoveAside, Rename, At
  <2>3. \A q \in Runs : q # r => pc[q] \in {"new", "over"} \/ lost[q]
      BY <2>1, UnlostHolds, HolderIsAlone DEF DirInv, LockInv
  <2> QED BY <2>1, <2>2, <2>3 DEF ReportTruthful
<1> QED BY <1>1, <1>2, <1>3, <1>4, <1>5, <1>6, <1>7, <1>8, <1>9, <1>10 DEF DirInv

(* A rename that was cancelled is undone by what is on the disk.           *)
LEMMA UndoKeeps ==
    ASSUME DirInv, NEW r \in Runs, Undo(r)
    PROVE  DirInv'
<1>1. Types'
  <2>1. TypeDisk'
      BY DirConstants, AbsentIs, TornIs, TreeIs, KindsAre, FieldsAre DEF DirInv, Types,
             TypeDisk, Undo, At, Present, Report, Fault, Runs
  <2>2. TypeRuns'
      BY DirConstants DEF DirInv, Types, TypeRuns, Undo, At, Present, Report, Absent, Fault,
             Runs, Busy
  <2>3. TypeRest'
      BY DirConstants DEF DirInv, Types, TypeRest, Undo, At, Present, Report, Absent, Fault,
             Sweeper, NoGood, Runs
  <2> QED BY <2>1, <2>2, <2>3 DEF Types
<1>2. LockInv'
    BY DirConstants DEF DirInv, Types, TypeRuns, TypeRest, LockInv, Runs, Undo, At, Present,
           Report, Absent, Fault, Busy, Sweeper, NoGood
<1>3. OrderInv'
    BY DirConstants DEF DirInv, Types, TypeRuns, TypeRest, LockInv, OrderInv, Runs, Undo, At,
           Present, Report, Absent, Fault, Busy, Sweeper, NoGood
<1>4. BirthInv'
    BY DirConstants, AbsentIs, TornIs, TreeIs, KindsAre, FieldsAre DEF DirInv, Types,
           TypeDisk, TypeRuns, LockInv, OrderInv, AsideInv, BirthInv, Unborn, Runs, Undo, At,
           Present, Report, Fault, Busy, Moved
<1>5. AsideInv'
    BY DirConstants, SMTT(40) DEF DirInv, Types, TypeDisk, TypeRuns, TypeRest, LockInv,
       AsideInv, Runs, Absent, Moved, Busy, Undo, At, Present, Report, Fault, Trees, Sweeper,
       NoGood, Kinds
<1>6. TargetInv'
  <2>1. pc[r] = "undoing" /\ UNCHANGED <<lost, good>>
      BY DEF Undo, At
  <2>2. /\ pc'[r] = "releasing"
        /\ \A q \in Runs \ {r} : pc'[q] = pc[q]
      BY DEF DirInv, Types, TypeRuns, Undo, At
  <2>3. \A q \in Runs : q # r => pc[q] \in {"new", "over"} \/ lost[q]
      BY <2>1, UnlostHolds, HolderIsAlone DEF DirInv, LockInv
  <2> QED BY <2>1, <2>2, <2>3 DEF TargetInv, Moved, Busy
<1>7. GoodInv'
    BY DirConstants DEF DirInv, Types, TypeDisk, TypeRuns, TypeRest, LockInv, OrderInv,
           GoodInv, Runs, Undo, At, Present, Report, Absent, Fault, Trees, Busy, Sweeper,
           NoGood, Kinds
<1>8. ReportInv'
    BY DirConstants DEF DirInv, Types, TypeRuns, ReportInv, Runs, Busy, Undo, At, Present,
           Report, Absent, Fault
<1>9. LastGoodKept'
  <2>1. good' = good
      BY DEF Undo
  <2>2. CASE UNCHANGED <<target, backup>>
      BY <2>1, <2>2 DEF DirInv, LastGoodKept, Places
  <2>3. CASE /\ ~Present(target)
             /\ target' = backup[r] /\ backup' = [backup EXCEPT ![r] = Absent]
      BY <2>1, <2>3, BackInPlace
  <2> QED BY <2>2, <2>3 DEF Undo
<1>10. ReportTruthful'
    BY DirConstants, SMTT(40) DEF DirInv, Types, TypeDisk, TypeRuns, TypeRest, LockInv,
       ReportInv, AsideInv, ReportTruthful, Runs, Present, Undo, At, Report, Absent, Fault,
       Trees, Busy, Sweeper, NoGood, Moved, Kinds
<1> QED BY <1>1, <1>2, <1>3, <1>4, <1>5, <1>6, <1>7, <1>8, <1>9, <1>10 DEF DirInv

(* The tool writes a tree of its run's generation.                         *)
LEMMA WriteKeeps ==
    ASSUME DirInv, NEW r \in Runs, NEW k \in Kinds \ {"absent"}, Write(r, k)
    PROVE  DirInv'
<1>1. Types'
  <2>1. TypeDisk'
      BY DirConstants DEF DirInv, Types, TypeDisk, Write, Tree, runVars, Trees, Runs, Absent,
             Kinds
  <2>2. TypeRuns'
      BY DirConstants DEF DirInv, Types, TypeRuns, Write, Tree, runVars, Runs, Busy
  <2>3. TypeRest'
      BY DirConstants DEF DirInv, Types, TypeRest, Write, Tree, runVars, Sweeper, NoGood,
             Runs
  <2> QED BY <2>1, <2>2, <2>3 DEF Types
<1>2. LockInv'
    BY DirConstants DEF DirInv, Types, TypeRuns, TypeRest, LockInv, Runs, Write, Tree,
           runVars, Busy, Sweeper, NoGood
<1>3. OrderInv'
    BY DirConstants DEF DirInv, Types, TypeRuns, TypeRest, LockInv, OrderInv, Runs, Write,
           Tree, runVars, Busy, Sweeper, NoGood
<1>4. BirthInv'
    BY DirConstants DEF DirInv, Types, TypeDisk, TypeRuns, LockInv, OrderInv, BirthInv,
           Unborn, Runs, Write, Tree, runVars, Trees, Absent, Busy, Kinds
<1>5. AsideInv'
    BY DirConstants DEF DirInv, Types, TypeDisk, TypeRuns, TypeRest, LockInv, AsideInv, Runs,
           Absent, Moved, Busy, Write, Tree, runVars, Trees, Sweeper, NoGood, Kinds
<1>6. TargetInv'
    BY DirConstants DEF DirInv, Types, TypeDisk, TypeRuns, TypeRest, LockInv, TargetInv,
           Runs, Moved, Absent, Tree, Busy, Write, runVars, Trees, Sweeper, NoGood, Kinds
<1>7. GoodInv'
    BY DirConstants DEF DirInv, Types, TypeDisk, TypeRuns, TypeRest, LockInv, OrderInv,
           GoodInv, Runs, Write, Tree, runVars, Trees, Absent, Busy, Sweeper, NoGood, Kinds
<1>8. ReportInv'
    BY DirConstants DEF DirInv, Types, TypeRuns, ReportInv, Runs, Busy, Write, Tree, runVars
<1>9. LastGoodKept'
  <2>1. /\ target' = Tree(r, k) /\ UNCHANGED <<backup, good>>
        /\ pc[r] = "body" /\ ~lost[r]
      BY DEF Write
  <2>2. good # r /\ (target = Absent \/ target.gen = r)
      BY <2>1 DEF DirInv, GoodInv, TargetInv, Moved, Busy
  <2>3. good # NoGood => Tree(good, "whole") # target
      BY <2>2, GoodIs, AbsentIs
  <2> QED BY <2>1, <2>3 DEF DirInv, LastGoodKept, Places
<1>10. ReportTruthful'
    BY DirConstants DEF DirInv, Types, TypeDisk, TypeRuns, TypeRest, LockInv, ReportInv,
           ReportTruthful, Runs, Present, Write, Tree, runVars, Trees, Absent, Busy, Sweeper,
           NoGood, Kinds
<1> QED BY <1>1, <1>2, <1>3, <1>4, <1>5, <1>6, <1>7, <1>8, <1>9, <1>10 DEF DirInv

(* The body raises; only a run that has the lease may restore.             *)
LEMMA BodyRaisesKeeps ==
    ASSUME DirInv, NEW r \in Runs, BodyRaises(r)
    PROVE  DirInv'
<1>1. Types'
  <2>1. TypeDisk'
      BY DirConstants DEF DirInv, Types, TypeDisk, BodyRaises, MayRestore, Trees, Runs,
             Absent, Kinds
  <2>2. TypeRuns'
      BY DirConstants DEF DirInv, Types, TypeRuns, BodyRaises, MayRestore, Runs, Busy
  <2>3. TypeRest'
      BY DirConstants DEF DirInv, Types, TypeRest, BodyRaises, MayRestore, Sweeper, NoGood,
             Runs
  <2> QED BY <2>1, <2>2, <2>3 DEF Types
<1>2. LockInv'
    BY DirConstants DEF DirInv, Types, TypeRuns, TypeRest, LockInv, Runs, BodyRaises,
           MayRestore, Busy, Sweeper, NoGood
<1>3. OrderInv'
    BY DirConstants DEF DirInv, Types, TypeRuns, TypeRest, LockInv, OrderInv, Runs,
           BodyRaises, MayRestore, Busy, Sweeper, NoGood
<1>4. BirthInv'
    BY DirConstants DEF DirInv, Types, TypeDisk, TypeRuns, LockInv, OrderInv, BirthInv,
           Unborn, Runs, BodyRaises, MayRestore, Trees, Absent, Busy, Kinds
<1>5. AsideInv'
    BY DirConstants DEF DirInv, Types, TypeDisk, TypeRuns, TypeRest, LockInv, AsideInv, Runs,
           Absent, Moved, Busy, BodyRaises, MayRestore, Trees, Sweeper, NoGood, Kinds
<1>6. TargetInv'
    BY DirConstants DEF DirInv, Types, TypeDisk, TypeRuns, TypeRest, LockInv, GoodInv,
           TargetInv, Runs, Moved, Absent, Tree, Busy, BodyRaises, MayRestore, Trees,
           Sweeper, NoGood, Kinds
<1>7. GoodInv'
    BY DirConstants DEF DirInv, Types, TypeDisk, TypeRuns, TypeRest, LockInv, OrderInv,
           GoodInv, Runs, BodyRaises, MayRestore, Trees, Absent, Busy, Sweeper, NoGood,
           Kinds
<1>8. ReportInv'
    BY DirConstants DEF DirInv, Types, TypeRuns, ReportInv, Runs, Busy, BodyRaises,
           MayRestore
<1>9. LastGoodKept'
    BY DirConstants DEF DirInv, Types, TypeDisk, TypeRuns, TypeRest, LockInv, LastGoodKept,
           NoGood, Tree, Places, Runs, BodyRaises, MayRestore, Trees, Absent, Busy, Sweeper,
           Kinds
<1>10. ReportTruthful'
    BY DirConstants DEF DirInv, Types, TypeDisk, TypeRuns, TypeRest, LockInv, ReportInv,
           ReportTruthful, Runs, Present, BodyRaises, MayRestore, Trees, Absent, Busy,
           Sweeper, NoGood, Kinds
<1> QED BY <1>1, <1>2, <1>3, <1>4, <1>5, <1>6, <1>7, <1>8, <1>9, <1>10 DEF DirInv

(* The tree of the run itself is cleared, perhaps in part.                 *)
LEMMA ClearKeeps ==
    ASSUME DirInv, NEW r \in Runs, Clear(r)
    PROVE  DirInv'
<1>1. Types'
  <2>1. TypeDisk'
      BY DirConstants DEF DirInv, Types, TypeDisk, Clear, ClearTarget, At, Absent, Present,
             Fault, Torn, Trees, Runs, Kinds
  <2>2. TypeRuns'
      BY DirConstants DEF DirInv, Types, TypeRuns, Clear, ClearTarget, At, Absent, Present,
             Fault, Torn, Runs, Busy
  <2>3. TypeRest'
      BY DirConstants DEF DirInv, Types, TypeRest, Clear, ClearTarget, At, Absent, Present,
             Fault, Torn, Sweeper, NoGood, Runs
  <2> QED BY <2>1, <2>2, <2>3 DEF Types
<1>2. LockInv'
    BY DirConstants DEF DirInv, Types, TypeRuns, TypeRest, LockInv, Runs, Clear, ClearTarget,
           At, Absent, Present, Fault, Torn, Busy, Sweeper, NoGood
<1>3. OrderInv'
    BY DirConstants, SMTT(40) DEF DirInv, Types, TypeRuns, TypeRest, LockInv, OrderInv, Runs,
       Clear, ClearTarget, At, Absent, Present, Fault, Torn, Busy, Sweeper, NoGood
<1>4. BirthInv'
    BY DirConstants, SMTT(40) DEF DirInv, Types, TypeDisk, TypeRuns, LockInv, OrderInv,
       TargetInv, BirthInv, Unborn, Runs, Clear, ClearTarget, At, Absent, Present, Fault,
       Torn, Trees, Busy, Moved, Tree, Kinds
<1>5. AsideInv'
  <2>1. lock = r
      BY UnlostHolds DEF DirInv, Types, TypeRuns, LockInv, Clear, ClearTarget, At
  <2>2. \A q \in Runs : q # r => pc[q] \in {"new", "over"} \/ lost[q]
      BY <2>1, HolderIsAlone
  <2>3. /\ UNCHANGED <<backup, lost, before>>
        /\ pc[r] = "clearing" /\ pc'[r] \in {"puttingBack", "releasing"}
        /\ \A q \in Runs \ {r} : pc'[q] = pc[q]
      BY DEF DirInv, Types, TypeRuns, Clear, ClearTarget, At
  <2>4. \A q \in Runs : pc[q] \in {"renaming", "undoing"} => ~lost[q]
      BY DEF DirInv, LockInv
  <2> QED BY <2>2, <2>3, <2>4 DEF DirInv, AsideInv, Moved, Busy
<1>6. TargetInv'
    BY DirConstants, AbsentIs, TornIs, TreeIs, KindsAre, FieldsAre DEF DirInv, Types,
           TypeDisk, TypeRuns, TypeRest, LockInv, TargetInv, Runs, Moved, Busy, Clear,
           ClearTarget, At, Present, Fault, Sweeper, NoGood
<1>7. GoodInv'
    BY DirConstants, SMTT(40) DEF DirInv, Types, TypeDisk, TypeRuns, TypeRest, LockInv,
       OrderInv, GoodInv, Runs, Clear, ClearTarget, At, Absent, Present, Fault, Torn, Trees,
       Busy, Sweeper, NoGood, Kinds
<1>8. ReportInv'
    BY DirConstants DEF DirInv, Types, TypeRuns, ReportInv, Runs, Busy, Clear, ClearTarget,
           At, Absent, Present, Fault, Torn
<1>9. LastGoodKept'
    BY DirConstants DEF DirInv, Types, TypeDisk, TypeRuns, TypeRest, LockInv, TargetInv,
           GoodInv, LastGoodKept, NoGood, Tree, Places, Runs, Clear, ClearTarget, At, Absent,
           Present, Fault, Torn, Trees, Busy, Sweeper, Moved, Kinds
<1>10. ReportTruthful'
  <2>1. lock = r
      BY UnlostHolds DEF DirInv, Types, TypeRuns, LockInv, Clear, ClearTarget, At
  <2>2. \A q \in Runs : q # r => pc[q] \in {"new", "over"} \/ lost[q]
      BY <2>1, HolderIsAlone
  <2>3. /\ UNCHANGED <<backup, lost, before, rbDone, finDone>> /\ pc[r] = "clearing"
        /\ \A q \in Runs \ {r} : pc'[q] = pc[q]
      BY DEF DirInv, Types, TypeRuns, Clear, ClearTarget, At
  <2>4. ~rbDone[r] /\ ~finDone[r]
      BY <2>3 DEF DirInv, ReportInv, Busy
  <2> QED BY <2>2, <2>3, <2>4 DEF ReportTruthful
<1> QED BY <1>1, <1>2, <1>3, <1>4, <1>5, <1>6, <1>7, <1>8, <1>9, <1>10 DEF DirInv

(* The backup returns to a target that was cleared.                        *)
LEMMA PutBackKeeps ==
    ASSUME DirInv, NEW r \in Runs, PutBack(r)
    PROVE  DirInv'
<1>1. Types'
  <2>1. TypeDisk'
      BY DirConstants, AbsentIs, TornIs, TreeIs, KindsAre, FieldsAre DEF DirInv, Types,
             TypeDisk, PutBack, At, Present, Report, Runs
  <2>2. TypeRuns'
      BY DirConstants DEF DirInv, Types, TypeRuns, PutBack, At, Present, Absent, Report,
             Runs, Busy
  <2>3. TypeRest'
      BY DirConstants DEF DirInv, Types, TypeRest, PutBack, At, Present, Absent, Report,
             Sweeper, NoGood, Runs
  <2> QED BY <2>1, <2>2, <2>3 DEF Types
<1>2. LockInv'
    BY DirConstants DEF DirInv, Types, TypeRuns, TypeRest, LockInv, Runs, PutBack, At,
           Present, Absent, Report, Busy, Sweeper, NoGood
<1>3. OrderInv'
    BY DirConstants DEF DirInv, Types, TypeRuns, TypeRest, LockInv, OrderInv, Runs, PutBack,
           At, Present, Absent, Report, Busy, Sweeper, NoGood
<1>4. BirthInv'
    BY DirConstants, AbsentIs, TornIs, TreeIs, KindsAre, FieldsAre DEF DirInv, Types,
           TypeDisk, TypeRuns, LockInv, OrderInv, BirthInv, Unborn, Runs, PutBack, At,
           Present, Report, Busy
<1>5. AsideInv'
    BY DirConstants, SMTT(40) DEF DirInv, Types, TypeDisk, TypeRuns, TypeRest, LockInv,
       AsideInv, Runs, Absent, Moved, Busy, PutBack, At, Present, Report, Trees, Sweeper,
       NoGood, Kinds
<1>6. TargetInv'
    BY DirConstants DEF DirInv, Types, TypeDisk, TypeRuns, TypeRest, LockInv, TargetInv,
           Runs, Moved, Absent, Tree, Busy, PutBack, At, Present, Report, Trees, Sweeper,
           NoGood, Kinds
<1>7. GoodInv'
    BY DirConstants DEF DirInv, Types, TypeDisk, TypeRuns, TypeRest, LockInv, OrderInv,
           GoodInv, Runs, PutBack, At, Present, Absent, Report, Trees, Busy, Sweeper, NoGood,
           Kinds
<1>8. ReportInv'
    BY DirConstants DEF DirInv, Types, TypeRuns, ReportInv, Runs, Busy, PutBack, At, Present,
           Absent, Report
<1>9. LastGoodKept'
    BY DirConstants DEF DirInv, Types, TypeDisk, TypeRuns, TypeRest, LockInv, TargetInv,
           GoodInv, LastGoodKept, NoGood, Tree, Places, Runs, PutBack, At, Present, Absent,
           Report, Trees, Busy, Sweeper, Moved, Kinds
<1>10. ReportTruthful'
    BY DirConstants, SMTT(40) DEF DirInv, Types, TypeDisk, TypeRuns, TypeRest, LockInv,
       ReportInv, AsideInv, TargetInv, ReportTruthful, Runs, Present, PutBack, At, Absent,
       Report, Trees, Busy, Sweeper, NoGood, Moved, Tree, Kinds
<1> QED BY <1>1, <1>2, <1>3, <1>4, <1>5, <1>6, <1>7, <1>8, <1>9, <1>10 DEF DirInv

(* The body returns.                                                       *)
LEMMA BodyReturnsKeeps ==
    ASSUME DirInv, NEW r \in Runs, BodyReturns(r)
    PROVE  DirInv'
<1>1. Types'
  <2>1. TypeDisk'
      BY DirConstants DEF DirInv, Types, TypeDisk, BodyReturns, At, Trees, Runs, Absent,
             Kinds
  <2>2. TypeRuns'
      BY DirConstants DEF DirInv, Types, TypeRuns, BodyReturns, At, Runs, Busy
  <2>3. TypeRest'
      BY DirConstants DEF DirInv, Types, TypeRest, BodyReturns, At, Sweeper, NoGood, Runs
  <2> QED BY <2>1, <2>2, <2>3 DEF Types
<1>2. LockInv'
    BY DirConstants DEF DirInv, Types, TypeRuns, TypeRest, LockInv, Runs, BodyReturns, At,
           Busy, Sweeper, NoGood
<1>3. OrderInv'
    BY DirConstants DEF DirInv, Types, TypeRuns, TypeRest, LockInv, OrderInv, Runs,
           BodyReturns, At, Busy, Sweeper, NoGood
<1>4. BirthInv'
    BY DirConstants DEF DirInv, Types, TypeDisk, TypeRuns, LockInv, OrderInv, BirthInv,
           Unborn, Runs, BodyReturns, At, Trees, Absent, Busy, Kinds
<1>5. AsideInv'
    BY DirConstants DEF DirInv, Types, TypeDisk, TypeRuns, TypeRest, LockInv, AsideInv, Runs,
           Absent, Moved, Busy, BodyReturns, At, Trees, Sweeper, NoGood, Kinds
<1>6. TargetInv'
    BY DirConstants DEF DirInv, Types, TypeDisk, TypeRuns, TypeRest, LockInv, TargetInv,
           Runs, Moved, Absent, Tree, Busy, BodyReturns, At, Trees, Sweeper, NoGood, Kinds
<1>7. GoodInv'
    BY DirConstants DEF DirInv, Types, TypeDisk, TypeRuns, TypeRest, LockInv, OrderInv,
           GoodInv, Runs, BodyReturns, At, Trees, Absent, Busy, Sweeper, NoGood, Kinds
<1>8. ReportInv'
    BY DirConstants DEF DirInv, Types, TypeRuns, ReportInv, Runs, Busy, BodyReturns, At
<1>9. LastGoodKept'
    BY DirConstants DEF DirInv, Types, TypeDisk, TypeRuns, TypeRest, LockInv, LastGoodKept,
           NoGood, Tree, Places, Runs, BodyReturns, At, Trees, Absent, Busy, Sweeper, Kinds
<1>10. ReportTruthful'
    BY DirConstants DEF DirInv, Types, TypeDisk, TypeRuns, TypeRest, LockInv, ReportInv,
           ReportTruthful, Runs, Present, BodyReturns, At, Trees, Absent, Busy, Sweeper,
           NoGood, Kinds
<1> QED BY <1>1, <1>2, <1>3, <1>4, <1>5, <1>6, <1>7, <1>8, <1>9, <1>10 DEF DirInv

(* The final target is validated.                                          *)
LEMMA ValidateKeeps ==
    ASSUME DirInv, NEW r \in Runs, Validate(r)
    PROVE  DirInv'
<1>1. Types'
  <2>1. TypeDisk'
      BY DirConstants DEF DirInv, Types, TypeDisk, Validate, At, Present, Finished,
             Regenerated, Tree, Trees, Runs, Absent, Kinds
  <2>2. TypeRuns'
      BY DirConstants DEF DirInv, Types, TypeRuns, Validate, At, Present, Finished,
             Regenerated, Tree, Runs, Busy
  <2>3. TypeRest'
      BY DirConstants DEF DirInv, Types, TypeRest, Validate, At, Present, Finished,
             Regenerated, Tree, Sweeper, NoGood, Runs
  <2> QED BY <2>1, <2>2, <2>3 DEF Types
<1>2. LockInv'
    BY DirConstants DEF DirInv, Types, TypeRuns, TypeRest, LockInv, Runs, Validate, At,
           Present, Finished, Regenerated, Tree, Busy, Sweeper, NoGood
<1>3. OrderInv'
  <2>1. lock' = lock /\ \A q \in Runs : pc'[q] = "new" <=> pc[q] = "new"
      BY DEF DirInv, Types, TypeRuns, Validate, At
  <2> QED BY <2>1 DEF DirInv, OrderInv
<1>4. BirthInv'
    BY DirConstants, AbsentIs, TornIs, TreeIs, KindsAre, FieldsAre DEF DirInv, Types,
           TypeDisk, TypeRuns, LockInv, OrderInv, BirthInv, Unborn, Runs, Validate, At,
           Present, Finished, Regenerated, Busy
<1>5. AsideInv'
    BY DirConstants, AbsentIs, TornIs, TreeIs, KindsAre, FieldsAre DEF DirInv, Types,
           TypeDisk, TypeRuns, TypeRest, LockInv, AsideInv, Runs, Moved, Busy, Validate, At,
           Present, Finished, Regenerated, Sweeper, NoGood
<1>6. TargetInv'
    BY DirConstants, AbsentIs, TornIs, TreeIs, KindsAre, FieldsAre DEF DirInv, Types,
           TypeDisk, TypeRuns, TypeRest, LockInv, TargetInv, Runs, Moved, Busy, Validate, At,
           Present, Finished, Regenerated, Sweeper, NoGood
<1>7. GoodInv'
  <2>1. /\ pc[r] = "validating" /\ good' \in {good, Finished(r)}
        /\ \E to \in {"releasing", "discarding", "refilling"} : pc' = [pc EXCEPT ![r] = to]
      BY DEF Validate, At
  <2>2. CASE good' = good
      BY <2>1, <2>2 DEF DirInv, Types, TypeRuns, GoodInv
  <2>3. CASE good' = r /\ ~lost[r]
    <3>1. \A q \in Runs : q > r => pc[q] = "new"
        BY <2>1, <2>3, UnlostHolds, HolderIsAlone
    <3>2. \A q \in Runs : pc'[q] = "sealed" => r >= q
        BY <2>1, <3>1, DirConstants DEF DirInv, Types, TypeRuns, Runs
    <3>3. pc'[r] \in {"releasing", "discarding", "refilling"}
        BY <2>1 DEF DirInv, Types, TypeRuns
    <3> QED BY <2>3, <3>2, <3>3 DEF GoodInv
  <2> QED BY <2>1, <2>2, <2>3 DEF Finished
<1>8. ReportInv'
    BY DirConstants DEF DirInv, Types, TypeRuns, ReportInv, Runs, Busy, Validate, At,
           Present, Finished, Regenerated, Tree
<1>9. LastGoodKept'
    BY DirConstants, AbsentIs, TornIs, TreeIs, KindsAre, FieldsAre DEF DirInv, Types,
           TypeDisk, TypeRuns, TypeRest, LockInv, LastGoodKept, NoGood, Places, Runs,
           Validate, At, Present, Finished, Regenerated, Busy, Sweeper
<1>10. ReportTruthful'
    BY DirConstants DEF DirInv, Types, TypeDisk, TypeRuns, TypeRest, LockInv, ReportInv,
           ReportTruthful, Runs, Present, Validate, At, Finished, Regenerated, Tree, Trees,
           Absent, Busy, Sweeper, NoGood, Kinds
<1> QED BY <1>1, <1>2, <1>3, <1>4, <1>5, <1>6, <1>7, <1>8, <1>9, <1>10 DEF DirInv

(* The backup returns to a target that nothing was written to.             *)
LEMMA RefillKeeps ==
    ASSUME DirInv, NEW r \in Runs, Refill(r)
    PROVE  DirInv'
<1>1. Types'
  <2>1. TypeDisk'
      <3>1. TypeDisk
          BY DEF DirInv, Types
      <3>2. /\ target' \in {target, Absent, backup[r]} /\ before' = before
            /\ backup' \in {backup, [backup EXCEPT ![r] = Absent]}
          BY DEF Refill
      <3> QED BY <3>1, <3>2, AbsentIs DEF TypeDisk
  <2>2. TypeRuns'
      BY DirConstants DEF DirInv, Types, TypeRuns, Refill, At, Absent, Fault, Runs, Busy
  <2>3. TypeRest'
      BY DirConstants DEF DirInv, Types, TypeRest, Refill, At, Absent, Fault, Sweeper,
             NoGood, Runs
  <2> QED BY <2>1, <2>2, <2>3 DEF Types
<1>2. LockInv'
    BY DirConstants DEF DirInv, Types, TypeRuns, TypeRest, LockInv, Runs, Refill, At, Absent,
           Fault, Busy, Sweeper, NoGood
<1>3. OrderInv'
    BY DirConstants DEF DirInv, Types, TypeRuns, TypeRest, LockInv, OrderInv, Runs, Refill,
           At, Absent, Fault, Busy, Sweeper, NoGood
<1>4. BirthInv'
    BY DirConstants, AbsentIs, TornIs, TreeIs, KindsAre, FieldsAre, SMTT(40) DEF DirInv, Types,
           TypeDisk, TypeRuns, LockInv, OrderInv, BirthInv, Unborn, Runs, Refill, At, Fault,
           Busy
<1>5. AsideInv'
    BY DirConstants, SMTT(40) DEF DirInv, Types, TypeDisk, TypeRuns, TypeRest, LockInv,
       AsideInv, Runs, Absent, Moved, Busy, Refill, At, Fault, Trees, Sweeper, NoGood, Kinds
<1>6. TargetInv'
  <2>1. pc[r] = "refilling" /\ UNCHANGED <<lost, good>>
      BY DEF Refill, At
  <2>2. /\ pc'[r] = "releasing"
        /\ \A q \in Runs \ {r} : pc'[q] = pc[q]
      BY DEF DirInv, Types, TypeRuns, Refill, At
  <2>3. CASE lost[r]
    <3>1. target' = target
        BY <2>3 DEF Refill
    <3> QED BY <2>1, <2>2, <3>1 DEF DirInv, TargetInv, Moved, Busy
  <2>4. CASE ~lost[r]
    <3>1. \A q \in Runs : q # r => pc[q] \in {"new", "over"} \/ lost[q]
        BY <2>1, <2>4, UnlostHolds, HolderIsAlone
    <3> QED BY <2>1, <2>2, <3>1 DEF TargetInv, Moved, Busy
  <2> QED BY <2>3, <2>4
<1>7. GoodInv'
    BY DirConstants DEF DirInv, Types, TypeDisk, TypeRuns, TypeRest, LockInv, OrderInv,
           GoodInv, Runs, Refill, At, Absent, Fault, Trees, Busy, Sweeper, NoGood, Kinds
<1>8. ReportInv'
    BY DirConstants DEF DirInv, Types, TypeRuns, ReportInv, Runs, Busy, Refill, At, Absent,
           Fault
<1>9. LastGoodKept'
    BY DirConstants, SMTT(40) DEF DirInv, Types, TypeDisk, TypeRuns, TypeRest, LockInv,
       TargetInv, GoodInv, LastGoodKept, NoGood, Tree, Places, Runs, Refill, At, Absent,
       Fault, Trees, Busy, Sweeper, Moved, Kinds
<1>10. ReportTruthful'
    BY DirConstants, SMTT(40) DEF DirInv, Types, TypeDisk, TypeRuns, TypeRest, LockInv,
       ReportInv, AsideInv, ReportTruthful, Runs, Present, Refill, At, Absent, Fault, Trees,
       Busy, Sweeper, NoGood, Moved, Kinds
<1> QED BY <1>1, <1>2, <1>3, <1>4, <1>5, <1>6, <1>7, <1>8, <1>9, <1>10 DEF DirInv

(* The backup is discarded, for a newer generation that is there.          *)
LEMMA DiscardKeeps ==
    ASSUME DirInv, NEW r \in Runs, Discard(r)
    PROVE  DirInv'
<1>1. Types'
  <2>1. TypeDisk'
      BY DirConstants, AbsentIs, TornIs, TreeIs, KindsAre, FieldsAre DEF DirInv, Types,
             TypeDisk, Discard, At, Remove, Present, Fault, Runs
  <2>2. TypeRuns'
      BY DirConstants DEF DirInv, Types, TypeRuns, Discard, At, Remove, Absent, Present,
             Fault, Torn, Runs, Busy
  <2>3. TypeRest'
      BY DirConstants DEF DirInv, Types, TypeRest, Discard, At, Remove, Absent, Present,
             Fault, Torn, Sweeper, NoGood, Runs
  <2> QED BY <2>1, <2>2, <2>3 DEF Types
<1>2. LockInv'
    BY DirConstants DEF DirInv, Types, TypeRuns, TypeRest, LockInv, Runs, Discard, At,
           Remove, Absent, Present, Fault, Torn, Busy, Sweeper, NoGood
<1>3. OrderInv'
    BY DirConstants DEF DirInv, Types, TypeRuns, TypeRest, LockInv, OrderInv, Runs, Discard,
           At, Remove, Absent, Present, Fault, Torn, Busy, Sweeper, NoGood
<1>4. BirthInv'
  <2>1. \A g \in Runs : Unborn(g)' => Unborn(g)
      BY DEF DirInv, Types, TypeRuns, Unborn, Discard, At
  <2>2. \A q \in Runs : backup'[q].gen \in {0, backup[q].gen}
      BY AbsentIs, TornIs DEF DirInv, Types, TypeDisk, Discard, Remove
  <2>3. target' = target
      BY DEF Discard
  <2> QED BY <2>1, <2>2, <2>3, BirthKept
<1>5. AsideInv'
    BY DirConstants, SMTT(40) DEF DirInv, Types, TypeDisk, TypeRuns, TypeRest, LockInv,
       AsideInv, Runs, Absent, Moved, Busy, Discard, At, Remove, Present, Fault, Torn, Trees,
       Sweeper, NoGood, Kinds
<1>6. TargetInv'
    BY DirConstants DEF DirInv, Types, TypeDisk, TypeRuns, TypeRest, LockInv, TargetInv,
           Runs, Moved, Absent, Tree, Busy, Discard, At, Remove, Present, Fault, Torn, Trees,
           Sweeper, NoGood, Kinds
<1>7. GoodInv'
    BY DirConstants DEF DirInv, Types, TypeDisk, TypeRuns, TypeRest, LockInv, OrderInv,
           GoodInv, Runs, Discard, At, Remove, Absent, Present, Fault, Torn, Trees, Busy,
           Sweeper, NoGood, Kinds
<1>8. ReportInv'
    BY DirConstants DEF DirInv, Types, TypeRuns, ReportInv, Runs, Busy, Discard, At, Remove,
           Absent, Present, Fault, Torn
<1>9. LastGoodKept'
    BY DirConstants DEF DirInv, Types, TypeDisk, TypeRuns, TypeRest, LockInv, TargetInv,
           GoodInv, LastGoodKept, NoGood, Tree, Places, Runs, Discard, At, Remove, Absent,
           Present, Fault, Torn, Trees, Busy, Sweeper, Moved, Kinds
<1>10. ReportTruthful'
    BY DirConstants, AbsentIs, TornIs, TreeIs, KindsAre, FieldsAre DEF DirInv, Types,
           TypeDisk, TypeRuns, TypeRest, LockInv, ReportInv, ReportTruthful, Runs, Present,
           Discard, At, Remove, Fault, Busy, Sweeper, NoGood
<1> QED BY <1>1, <1>2, <1>3, <1>4, <1>5, <1>6, <1>7, <1>8, <1>9, <1>10 DEF DirInv

(* commit(): what is at the target is final.                               *)
LEMMA CommitKeeps ==
    ASSUME DirInv, NEW r \in Runs, Commit(r)
    PROVE  DirInv'
<1>1. Types'
  <2>1. TypeDisk'
      BY DirConstants DEF DirInv, Types, TypeDisk, Commit, At, NoGood, Trees, Runs, Absent,
             Kinds
  <2>2. TypeRuns'
      BY DirConstants DEF DirInv, Types, TypeRuns, Commit, At, NoGood, Runs, Busy
  <2>3. TypeRest'
      BY DirConstants, AbsentIs, TornIs, TreeIs, KindsAre, FieldsAre DEF DirInv, Types,
             TypeRest, TypeDisk, TargetInv, Commit, At, NoGood, Sweeper, Runs, Moved, Busy
  <2> QED BY <2>1, <2>2, <2>3 DEF Types
<1>2. LockInv'
    BY DirConstants DEF DirInv, Types, TypeRuns, TypeRest, LockInv, Runs, Commit, At, NoGood,
           Busy, Sweeper
<1>3. OrderInv'
    BY DirConstants DEF DirInv, Types, TypeRuns, TypeRest, LockInv, OrderInv, Runs, Commit,
           At, NoGood, Busy, Sweeper
<1>4. BirthInv'
    BY DirConstants DEF DirInv, Types, TypeDisk, TypeRuns, LockInv, OrderInv, BirthInv,
           Unborn, Runs, Commit, At, NoGood, Trees, Absent, Busy, Kinds
<1>5. AsideInv'
    BY DirConstants DEF DirInv, Types, TypeDisk, TypeRuns, TypeRest, LockInv, AsideInv, Runs,
           Absent, Moved, Busy, Commit, At, NoGood, Trees, Sweeper, Kinds
<1>6. TargetInv'
    BY DirConstants DEF DirInv, Types, TypeDisk, TypeRuns, TypeRest, LockInv, TargetInv,
           Runs, Moved, Absent, Tree, Busy, Commit, At, NoGood, Trees, Sweeper, Kinds
<1>7. GoodInv'
  <2>1. /\ pc[r] = "body" /\ pc' = [pc EXCEPT ![r] = "sealed"] /\ ~lost[r]
        /\ good' = IF target.kind = "whole" THEN target.gen ELSE NoGood
      BY DEF Commit, At
  <2>2. lock = r
      BY <2>1, UnlostHolds
  <2>3. good' \in {r, NoGood}
      BY <2>1, AbsentIs DEF DirInv, TargetInv, Moved, Busy
  <2>4. \A q \in Runs : q > r => pc[q] = "new"
      BY <2>2, HolderIsAlone
  <2>5. NoGood \notin Runs /\ \A q \in Runs : NoGood >= q
      BY DirConstants DEF NoGood, Runs
  <2>6. \A q \in Runs : pc'[q] = "sealed" => r >= q
      BY <2>1, <2>4, DirConstants DEF DirInv, Types, TypeRuns, Runs
  <2>7. \A q \in Runs : pc'[q] = "sealed" => good' >= q
      BY <2>3, <2>5, <2>6
  <2>8. good' \in Runs => pc'[good'] = "sealed"
      BY <2>1, <2>3, <2>5 DEF DirInv, Types, TypeRuns
  <2> QED BY <2>7, <2>8 DEF GoodInv
<1>8. ReportInv'
    BY DirConstants DEF DirInv, Types, TypeRuns, ReportInv, Runs, Busy, Commit, At, NoGood
<1>9. LastGoodKept'
    BY DirConstants DEF DirInv, Types, TypeDisk, TypeRuns, TypeRest, LockInv, TargetInv,
           GoodInv, LastGoodKept, NoGood, Tree, Places, Runs, Commit, At, Trees, Absent,
           Busy, Sweeper, Moved, Kinds
<1>10. ReportTruthful'
    BY DirConstants DEF DirInv, Types, TypeDisk, TypeRuns, TypeRest, LockInv, ReportInv,
           ReportTruthful, Runs, Present, Commit, At, NoGood, Trees, Absent, Busy, Sweeper,
           Kinds
<1> QED BY <1>1, <1>2, <1>3, <1>4, <1>5, <1>6, <1>7, <1>8, <1>9, <1>10 DEF DirInv

(* The backup is discarded after a commit; it is of an older generation.   *)
LEMMA DiscardSealedKeeps ==
    ASSUME DirInv, NEW r \in Runs, DiscardSealed(r)
    PROVE  DirInv'
<1>1. Types'
  <2>1. TypeDisk'
      BY DirConstants, AbsentIs, TornIs, TreeIs, KindsAre, FieldsAre DEF DirInv, Types,
             TypeDisk, DiscardSealed, At, Remove, Present, Fault, Runs
  <2>2. TypeRuns'
      BY DirConstants DEF DirInv, Types, TypeRuns, DiscardSealed, At, Remove, Absent,
             Present, Fault, Torn, Runs, Busy
  <2>3. TypeRest'
      BY DirConstants DEF DirInv, Types, TypeRest, DiscardSealed, At, Remove, Absent,
             Present, Fault, Torn, Sweeper, NoGood, Runs
  <2> QED BY <2>1, <2>2, <2>3 DEF Types
<1>2. LockInv'
    BY DirConstants DEF DirInv, Types, TypeRuns, TypeRest, LockInv, Runs, DiscardSealed, At,
           Remove, Absent, Present, Fault, Torn, Busy, Sweeper, NoGood
<1>3. OrderInv'
    BY DirConstants DEF DirInv, Types, TypeRuns, TypeRest, LockInv, OrderInv, Runs,
           DiscardSealed, At, Remove, Absent, Present, Fault, Torn, Busy, Sweeper, NoGood
<1>4. BirthInv'
  <2>1. \A g \in Runs : Unborn(g)' => Unborn(g)
      BY DEF DirInv, Types, TypeRuns, Unborn, DiscardSealed, At
  <2>2. \A q \in Runs : backup'[q].gen \in {0, backup[q].gen}
      BY AbsentIs, TornIs DEF DirInv, Types, TypeDisk, DiscardSealed, Remove
  <2>3. target' = target
      BY DEF DiscardSealed
  <2> QED BY <2>1, <2>2, <2>3, BirthKept
<1>5. AsideInv'
    BY DirConstants, AbsentIs, TornIs, TreeIs, KindsAre, FieldsAre DEF DirInv, Types,
           TypeDisk, TypeRuns, TypeRest, LockInv, AsideInv, Runs, Moved, Busy, DiscardSealed,
           At, Remove, Present, Fault, Sweeper, NoGood
<1>6. TargetInv'
    BY DirConstants DEF DirInv, Types, TypeDisk, TypeRuns, TypeRest, LockInv, TargetInv,
           Runs, Moved, Absent, Tree, Busy, DiscardSealed, At, Remove, Present, Fault, Torn,
           Trees, Sweeper, NoGood, Kinds
<1>7. GoodInv'
    BY DirConstants DEF DirInv, Types, TypeDisk, TypeRuns, TypeRest, LockInv, OrderInv,
           GoodInv, Runs, DiscardSealed, At, Remove, Absent, Present, Fault, Torn, Trees,
           Busy, Sweeper, NoGood, Kinds
<1>8. ReportInv'
    BY DirConstants DEF DirInv, Types, TypeRuns, ReportInv, Runs, Busy, DiscardSealed, At,
           Remove, Absent, Present, Fault, Torn
<1>9. LastGoodKept'
  <2>1. /\ UNCHANGED <<target, good>> /\ pc[r] = "sealed"
        /\ \A q \in Runs \ {r} : backup'[q] = backup[q]
      BY DEF DirInv, Types, TypeDisk, DiscardSealed, At, Remove
  <2>2. good >= r /\ backup[r].gen < r /\ backup[r].gen \in Int /\ good \in Int /\ r \in Int
      BY <2>1, FieldsAre DEF DirInv, Types, TypeDisk, TypeRest, GoodInv, BirthInv, Runs
  <2>3. good # NoGood => Tree(good, "whole") # backup[r]
      BY <2>2, GoodIs
  <2> QED BY <2>1, <2>3 DEF DirInv, LastGoodKept, Places
<1>10. ReportTruthful'
    BY DirConstants, SMTT(40) DEF DirInv, Types, TypeDisk, TypeRuns, TypeRest, LockInv,
       ReportInv, ReportTruthful, Runs, Present, DiscardSealed, At, Remove, Absent, Fault,
       Torn, Trees, Busy, Sweeper, NoGood, Kinds
<1> QED BY <1>1, <1>2, <1>3, <1>4, <1>5, <1>6, <1>7, <1>8, <1>9, <1>10 DEF DirInv

(* The run is over, and gives the lease back.                              *)
LEMMA ReleaseKeeps ==
    ASSUME DirInv, NEW r \in Runs, Release(r)
    PROVE  DirInv'
<1>1. Types'
  <2>1. TypeDisk'
      BY DirConstants DEF DirInv, Types, TypeDisk, Release, At, Free, Trees, Runs, Absent,
             Kinds
  <2>2. TypeRuns'
      BY DirConstants DEF DirInv, Types, TypeRuns, Release, At, Free, Runs, Busy
  <2>3. TypeRest'
      BY DirConstants DEF DirInv, Types, TypeRest, Release, At, Free, Sweeper, NoGood, Runs
  <2> QED BY <2>1, <2>2, <2>3 DEF Types
<1>2. LockInv'
    BY DirConstants DEF DirInv, Types, TypeRuns, TypeRest, LockInv, Runs, Release, At, Free,
           Busy, Sweeper, NoGood
<1>3. OrderInv'
    BY DirConstants, SMTT(40) DEF DirInv, Types, TypeRuns, TypeRest, LockInv, OrderInv, Runs,
       Release, At, Free, Busy, Sweeper, NoGood
<1>4. BirthInv'
    BY DirConstants DEF DirInv, Types, TypeDisk, TypeRuns, LockInv, OrderInv, BirthInv,
           Unborn, Runs, Release, At, Free, Trees, Absent, Busy, Kinds
<1>5. AsideInv'
    BY DirConstants DEF DirInv, Types, TypeDisk, TypeRuns, TypeRest, LockInv, AsideInv, Runs,
           Absent, Moved, Busy, Release, At, Free, Trees, Sweeper, NoGood, Kinds
<1>6. TargetInv'
    BY DirConstants DEF DirInv, Types, TypeDisk, TypeRuns, TypeRest, LockInv, TargetInv,
           Runs, Moved, Absent, Tree, Busy, Release, At, Free, Trees, Sweeper, NoGood, Kinds
<1>7. GoodInv'
    BY DirConstants DEF DirInv, Types, TypeDisk, TypeRuns, TypeRest, LockInv, OrderInv,
           GoodInv, Runs, Release, At, Free, Trees, Absent, Busy, Sweeper, NoGood, Kinds
<1>8. ReportInv'
    BY DirConstants DEF DirInv, Types, TypeRuns, ReportInv, Runs, Busy, Release, At, Free
<1>9. LastGoodKept'
    BY DirConstants DEF DirInv, Types, TypeDisk, TypeRuns, TypeRest, LockInv, LastGoodKept,
           NoGood, Tree, Places, Runs, Release, At, Free, Trees, Absent, Busy, Sweeper,
           Kinds
<1>10. ReportTruthful'
    BY DirConstants DEF DirInv, Types, TypeDisk, TypeRuns, TypeRest, LockInv, ReportInv,
           ReportTruthful, Runs, Present, Release, At, Free, Trees, Absent, Busy, Sweeper,
           NoGood, Kinds
<1> QED BY <1>1, <1>2, <1>3, <1>4, <1>5, <1>6, <1>7, <1>8, <1>9, <1>10 DEF DirInv

(* The lease lapses, but not during the move aside or a restore.           *)
LEMMA LoseKeeps ==
    ASSUME DirInv, NEW r \in Runs, CalmRestore, Lose(r)
    PROVE  DirInv'
<1>1. Types'
  <2>1. TypeDisk'
      BY DirConstants DEF DirInv, Types, TypeDisk, Lose, Fault, Free, Trees, Runs, Absent,
             Kinds
  <2>2. TypeRuns'
      BY DirConstants DEF DirInv, Types, TypeRuns, Lose, Fault, Free, Runs, Busy
  <2>3. TypeRest'
      BY DirConstants DEF DirInv, Types, TypeRest, Lose, Fault, Free, Sweeper, NoGood, Runs
  <2> QED BY <2>1, <2>2, <2>3 DEF Types
<1>2. LockInv'
    BY DirConstants DEF DirInv, Types, TypeRuns, TypeRest, LockInv, Runs, Lose, Fault, Free,
           Busy, Sweeper, NoGood
<1>3. OrderInv'
    BY DirConstants DEF DirInv, Types, TypeRuns, TypeRest, LockInv, OrderInv, Runs, Lose,
           Fault, Free, Busy, Sweeper, NoGood
<1>4. BirthInv'
    BY DirConstants DEF DirInv, Types, TypeDisk, TypeRuns, LockInv, OrderInv, BirthInv,
           Unborn, Runs, Lose, Fault, Free, Trees, Absent, Busy, Kinds
<1>5. AsideInv'
    BY DirConstants DEF DirInv, Types, TypeDisk, TypeRuns, TypeRest, LockInv, AsideInv, Runs,
           Absent, Moved, Busy, Lose, Fault, Free, Trees, Sweeper, NoGood, Kinds
<1>6. TargetInv'
    BY DirConstants DEF DirInv, Types, TypeDisk, TypeRuns, TypeRest, LockInv, TargetInv,
           Runs, Moved, Absent, Tree, Busy, Lose, Fault, Free, Trees, Sweeper, NoGood, Kinds
<1>7. GoodInv'
    BY DirConstants DEF DirInv, Types, TypeDisk, TypeRuns, TypeRest, LockInv, OrderInv,
           GoodInv, Runs, Lose, Fault, Free, Trees, Absent, Busy, Sweeper, NoGood, Kinds
<1>8. ReportInv'
    BY DirConstants DEF DirInv, Types, TypeRuns, ReportInv, Runs, Busy, Lose, Fault, Free
<1>9. LastGoodKept'
    BY DirConstants DEF DirInv, Types, TypeDisk, TypeRuns, TypeRest, LockInv, LastGoodKept,
           NoGood, Tree, Places, Runs, Lose, Fault, Free, Trees, Absent, Busy, Sweeper,
           Kinds
<1>10. ReportTruthful'
    BY DirConstants DEF DirInv, Types, TypeDisk, TypeRuns, TypeRest, LockInv, ReportInv,
           ReportTruthful, Runs, Present, Lose, Fault, Free, Trees, Absent, Busy, Sweeper,
           NoGood, Kinds
<1> QED BY <1>1, <1>2, <1>3, <1>4, <1>5, <1>6, <1>7, <1>8, <1>9, <1>10 DEF DirInv

(* The process dies, perhaps in the middle of a removal.                   *)
LEMMA CrashKeeps ==
    ASSUME DirInv, NEW r \in Runs, Crash(r)
    PROVE  DirInv'
<1>1. Types'
  <2>1. TypeDisk'
      BY DirConstants, AbsentIs, TornIs, TreeIs, KindsAre, FieldsAre, SMTT(40) DEF DirInv,
         Types, TypeDisk, Crash, Fault, Gone, Present, Runs
  <2>2. TypeRuns'
      BY DirConstants DEF DirInv, Types, TypeRuns, Crash, Fault, Gone, Present, Torn, Runs,
             Busy
  <2>3. TypeRest'
      BY DirConstants DEF DirInv, Types, TypeRest, Crash, Fault, Gone, Present, Torn,
             Sweeper, NoGood, Runs
  <2> QED BY <2>1, <2>2, <2>3 DEF Types
<1>2. LockInv'
    BY DirConstants DEF DirInv, Types, TypeRuns, TypeRest, LockInv, Runs, Crash, Fault, Gone,
           Present, Torn, Busy, Sweeper, NoGood
<1>3. OrderInv'
    BY DirConstants DEF DirInv, Types, TypeRuns, TypeRest, LockInv, OrderInv, Runs, Crash,
           Fault, Gone, Present, Torn, Busy, Sweeper, NoGood
<1>4. BirthInv'
  <2>1. \A g \in Runs : Unborn(g)' => Unborn(g)
      BY DEF DirInv, Types, TypeRuns, Unborn, Crash
  <2>2. \A q \in Runs : backup'[q].gen \in {0, backup[q].gen}
      BY TornIs DEF DirInv, Types, TypeDisk, Crash
  <2>3. target'.gen = target.gen
      BY TornIs DEF DirInv, Types, TypeDisk, Crash
  <2> QED BY <2>1, <2>2, <2>3, BirthKept
<1>5. AsideInv'
    BY DirConstants, SMTT(40) DEF DirInv, Types, TypeDisk, TypeRuns, TypeRest, LockInv,
       AsideInv, Runs, Absent, Moved, Busy, Crash, Fault, Gone, Present, Torn, Trees, Sweeper,
       NoGood, Kinds
<1>6. TargetInv'
    BY DirConstants, SMTT(40) DEF DirInv, Types, TypeDisk, TypeRuns, TypeRest, LockInv,
       TargetInv, Runs, Moved, Absent, Tree, Busy, Crash, Fault, Gone, Present, Torn, Trees,
       Sweeper, NoGood, Kinds
<1>7. GoodInv'
    BY DirConstants DEF DirInv, Types, TypeDisk, TypeRuns, TypeRest, LockInv, OrderInv,
           GoodInv, Runs, Crash, Fault, Gone, Present, Torn, Trees, Absent, Busy, Sweeper,
           NoGood, Kinds
<1>8. ReportInv'
    BY DirConstants DEF DirInv, Types, TypeRuns, ReportInv, Runs, Busy, Crash, Fault, Gone,
           Present, Torn
<1>9. LastGoodKept'
    BY DirConstants, AbsentIs, TornIs, TreeIs, KindsAre, FieldsAre, SMTT(40) DEF DirInv, Types,
           TypeDisk, TypeRuns, TypeRest, LockInv, TargetInv, GoodInv, BirthInv, LastGoodKept,
           NoGood, Places, Runs, Crash, Fault, Gone, Present, Busy, Sweeper, Moved, Unborn
<1>10. ReportTruthful'
  <2>1. /\ UNCHANGED <<lost, before, rbDone, finDone>> /\ pc'[r] = "over"
        /\ \A q \in Runs \ {r} : pc'[q] = pc[q] /\ backup'[q] = backup[q]
      BY DEF DirInv, Types, TypeRuns, TypeDisk, Crash
  <2>2. target' # target => pc[r] = "clearing"
      BY DEF Crash
  <2>3. target' # target => \A q \in Runs : q # r => pc[q] \in {"new", "over"} \/ lost[q]
      BY <2>2, UnlostHolds, HolderIsAlone DEF DirInv, LockInv
  <2> QED BY <2>1, <2>3 DEF DirInv, ReportTruthful
<1> QED BY <1>1, <1>2, <1>3, <1>4, <1>5, <1>6, <1>7, <1>8, <1>9, <1>10 DEF DirInv

(* The lease of a dead process expires.                                    *)
LEMMA ExpireKeeps ==
    ASSUME DirInv, Expire
    PROVE  DirInv'
<1>1. Types'
  <2>1. TypeDisk'
      BY DirConstants DEF DirInv, Types, TypeDisk, Expire, Gone, Free, runVars, Trees, Runs,
             Absent, Kinds
  <2>2. TypeRuns'
      BY DirConstants DEF DirInv, Types, TypeRuns, Expire, Gone, Free, runVars, Runs, Busy
  <2>3. TypeRest'
      BY DirConstants DEF DirInv, Types, TypeRest, Expire, Gone, Free, runVars, Sweeper,
             NoGood, Runs
  <2> QED BY <2>1, <2>2, <2>3 DEF Types
<1>2. LockInv'
    BY DirConstants DEF DirInv, Types, TypeRuns, TypeRest, LockInv, Runs, Expire, Gone, Free,
           runVars, Busy, Sweeper, NoGood
<1>3. OrderInv'
    BY DirConstants DEF DirInv, Types, TypeRuns, TypeRest, LockInv, OrderInv, Runs, Expire,
           Gone, Free, runVars, Busy, Sweeper, NoGood
<1>4. BirthInv'
    BY DirConstants DEF DirInv, Types, TypeDisk, TypeRuns, LockInv, OrderInv, BirthInv,
           Unborn, Runs, Expire, Gone, Free, runVars, Trees, Absent, Busy, Kinds
<1>5. AsideInv'
    BY DirConstants DEF DirInv, Types, TypeDisk, TypeRuns, TypeRest, LockInv, AsideInv, Runs,
           Absent, Moved, Busy, Expire, Gone, Free, runVars, Trees, Sweeper, NoGood, Kinds
<1>6. TargetInv'
    BY DirConstants DEF DirInv, Types, TypeDisk, TypeRuns, TypeRest, LockInv, TargetInv,
           Runs, Moved, Absent, Tree, Busy, Expire, Gone, Free, runVars, Trees, Sweeper,
           NoGood, Kinds
<1>7. GoodInv'
    BY DirConstants DEF DirInv, Types, TypeDisk, TypeRuns, TypeRest, LockInv, OrderInv,
           GoodInv, Runs, Expire, Gone, Free, runVars, Trees, Absent, Busy, Sweeper, NoGood,
           Kinds
<1>8. ReportInv'
    BY DirConstants DEF DirInv, Types, TypeRuns, ReportInv, Runs, Busy, Expire, Gone, Free,
           runVars
<1>9. LastGoodKept'
    BY DirConstants DEF DirInv, Types, TypeDisk, TypeRuns, TypeRest, LockInv, LastGoodKept,
           NoGood, Tree, Places, Runs, Expire, Gone, Free, runVars, Trees, Absent, Busy,
           Sweeper, Kinds
<1>10. ReportTruthful'
    BY DirConstants DEF DirInv, Types, TypeDisk, TypeRuns, TypeRest, LockInv, ReportInv,
           ReportTruthful, Runs, Present, Expire, Gone, Free, runVars, Trees, Absent, Busy,
           Sweeper, NoGood, Kinds
<1> QED BY <1>1, <1>2, <1>3, <1>4, <1>5, <1>6, <1>7, <1>8, <1>9, <1>10 DEF DirInv

(* The reconciler lists the backups, under the lock.                       *)
LEMMA SweepBeginsKeeps ==
    ASSUME DirInv, SweepBegins
    PROVE  DirInv'
<1>1. Types'
  <2>1. TypeDisk'
      BY DirConstants DEF DirInv, Types, TypeDisk, SweepBegins, Free, Runs, Present, Sweeper,
             runVars, Trees, Absent, Kinds
  <2>2. TypeRuns'
      BY DirConstants DEF DirInv, Types, TypeRuns, SweepBegins, Free, Runs, Present, Sweeper,
             runVars, Busy
  <2>3. TypeRest'
      BY DirConstants DEF DirInv, Types, TypeRest, SweepBegins, Free, Runs, Present, Sweeper,
             runVars, NoGood
  <2> QED BY <2>1, <2>2, <2>3 DEF Types
<1>2. LockInv'
    BY DirConstants DEF DirInv, Types, TypeRuns, TypeRest, LockInv, Runs, SweepBegins, Free,
           Present, Sweeper, runVars, Busy, NoGood
<1>3. OrderInv'
    BY DirConstants DEF DirInv, Types, TypeRuns, TypeRest, LockInv, OrderInv, Runs,
           SweepBegins, Free, Present, Sweeper, runVars, Busy, NoGood
<1>4. BirthInv'
    BY DirConstants DEF DirInv, Types, TypeDisk, TypeRuns, LockInv, OrderInv, BirthInv,
           Unborn, Runs, SweepBegins, Free, Present, Sweeper, runVars, Trees, Absent, Busy,
           Kinds
<1>5. AsideInv'
    BY DirConstants DEF DirInv, Types, TypeDisk, TypeRuns, TypeRest, LockInv, AsideInv, Runs,
           Absent, Moved, Busy, SweepBegins, Free, Present, Sweeper, runVars, Trees, NoGood,
           Kinds
<1>6. TargetInv'
    BY DirConstants DEF DirInv, Types, TypeDisk, TypeRuns, TypeRest, LockInv, TargetInv,
           Runs, Moved, Absent, Tree, Busy, SweepBegins, Free, Present, Sweeper, runVars,
           Trees, NoGood, Kinds
<1>7. GoodInv'
    BY DirConstants DEF DirInv, Types, TypeDisk, TypeRuns, TypeRest, LockInv, OrderInv,
           GoodInv, Runs, SweepBegins, Free, Present, Sweeper, runVars, Trees, Absent, Busy,
           NoGood, Kinds
<1>8. ReportInv'
    BY DirConstants DEF DirInv, Types, TypeRuns, ReportInv, Runs, Busy, SweepBegins, Free,
           Present, Sweeper, runVars
<1>9. LastGoodKept'
    BY DirConstants DEF DirInv, Types, TypeDisk, TypeRuns, TypeRest, LockInv, LastGoodKept,
           NoGood, Tree, Places, Runs, SweepBegins, Free, Present, Sweeper, runVars, Trees,
           Absent, Busy, Kinds
<1>10. ReportTruthful'
    BY DirConstants DEF DirInv, Types, TypeDisk, TypeRuns, TypeRest, LockInv, ReportInv,
           ReportTruthful, Runs, Present, SweepBegins, Free, Sweeper, runVars, Trees, Absent,
           Busy, NoGood, Kinds
<1> QED BY <1>1, <1>2, <1>3, <1>4, <1>5, <1>6, <1>7, <1>8, <1>9, <1>10 DEF DirInv

(* The reconciler looks at one backup, under the lock.                     *)
LEMMA SweepOneKeeps ==
    ASSUME DirInv, SweepOne
    PROVE  DirInv'
<1>1. Types'
  <2>1. TypeDisk'
      <3>1. TypeDisk
          BY DEF DirInv, Types
      <3>2. before' = before
          BY DEF SweepOne
      <3> QED BY <3>1, <3>2, SweptOne, AbsentIs DEF TypeDisk
  <2>2. TypeRuns'
      BY DirConstants DEF DirInv, Types, TypeRuns, SweepOne, Present, Absent, Fault, runVars,
             Runs, Busy
  <2>3. TypeRest'
      BY DirConstants DEF DirInv, Types, TypeRest, SweepOne, Present, Absent, Fault, runVars,
             Sweeper, NoGood, Runs
  <2> QED BY <2>1, <2>2, <2>3 DEF Types
<1>2. LockInv'
    BY DirConstants DEF DirInv, Types, TypeRuns, TypeRest, LockInv, Runs, SweepOne, Present,
           Absent, Fault, runVars, Busy, Sweeper, NoGood
<1>3. OrderInv'
    BY DirConstants DEF DirInv, Types, TypeRuns, TypeRest, LockInv, OrderInv, Runs, SweepOne,
           Present, Absent, Fault, runVars, Busy, Sweeper, NoGood
<1>4. BirthInv'
  <2>1. \A g \in Runs : Unborn(g)' => Unborn(g)
      BY DEF DirInv, Types, TypeRuns, Unborn, SweepOne, runVars
  <2>2. \A q \in Runs : backup'[q].gen \in {0, backup[q].gen}
      BY SweptOne, AbsentIs DEF DirInv, Types, TypeDisk
  <2>3. \/ target' = target
        \/ \E q \in Runs : target' = backup[q]
      BY SweptOne
  <2> QED BY <2>1, <2>2, <2>3, BirthKept
<1>5. AsideInv'
    BY DirConstants, MinIsListed, SMTT(40) DEF DirInv, Types, TypeDisk, TypeRuns, TypeRest,
       LockInv, AsideInv, Runs, Absent, Moved, Busy, SweepOne, Present, Fault, runVars, Trees,
       Sweeper, NoGood, Kinds
<1>6. TargetInv'
  <2>1. \A q \in Runs : lock # q
      BY SweptOne, DirConstants DEF Runs, Sweeper
  <2>2. \A q \in Runs : ~lost[q] => pc[q] \in {"new", "over"}
      BY <2>1 DEF DirInv, LockInv
  <2> QED BY <2>2 DEF SweepOne, runVars, TargetInv, Moved, Busy
<1>7. GoodInv'
    BY DirConstants DEF DirInv, Types, TypeDisk, TypeRuns, TypeRest, LockInv, OrderInv,
           GoodInv, Runs, SweepOne, Present, Absent, Fault, runVars, Trees, Busy, Sweeper,
           NoGood, Kinds
<1>8. ReportInv'
    BY DirConstants DEF DirInv, Types, TypeRuns, ReportInv, Runs, Busy, SweepOne, Present,
           Absent, Fault, runVars
<1>9. LastGoodKept'
    BY DirConstants, MinIsListed DEF DirInv, Types, TypeDisk, TypeRuns, TypeRest, LockInv,
           LastGoodKept, NoGood, Tree, Places, Runs, SweepOne, Present, Absent, Fault,
           runVars, Trees, Busy, Sweeper, Kinds
<1>10. ReportTruthful'
  <2>1. \A q \in Runs : lock # q
      BY SweptOne, DirConstants DEF Runs, Sweeper
  <2>2. \A q \in Runs : ~lost[q] => pc[q] \in {"new", "over"}
      BY <2>1 DEF DirInv, LockInv
  <2> QED BY <2>2 DEF SweepOne, runVars, ReportTruthful
<1> QED BY <1>1, <1>2, <1>3, <1>4, <1>5, <1>6, <1>7, <1>8, <1>9, <1>10 DEF DirInv

(* The reconciler is done.                                                 *)
LEMMA SweepEndsKeeps ==
    ASSUME DirInv, SweepEnds
    PROVE  DirInv'
<1>1. Types'
  <2>1. TypeDisk'
      BY DirConstants DEF DirInv, Types, TypeDisk, SweepEnds, Sweeper, Free, runVars, Trees,
             Runs, Absent, Kinds
  <2>2. TypeRuns'
      BY DirConstants DEF DirInv, Types, TypeRuns, SweepEnds, Sweeper, Free, runVars, Runs,
             Busy
  <2>3. TypeRest'
      BY DirConstants DEF DirInv, Types, TypeRest, SweepEnds, Sweeper, Free, runVars, NoGood,
             Runs
  <2> QED BY <2>1, <2>2, <2>3 DEF Types
<1>2. LockInv'
    BY DirConstants DEF DirInv, Types, TypeRuns, TypeRest, LockInv, Runs, SweepEnds, Sweeper,
           Free, runVars, Busy, NoGood
<1>3. OrderInv'
    BY DirConstants DEF DirInv, Types, TypeRuns, TypeRest, LockInv, OrderInv, Runs,
           SweepEnds, Sweeper, Free, runVars, Busy, NoGood
<1>4. BirthInv'
    BY DirConstants DEF DirInv, Types, TypeDisk, TypeRuns, LockInv, OrderInv, BirthInv,
           Unborn, Runs, SweepEnds, Sweeper, Free, runVars, Trees, Absent, Busy, Kinds
<1>5. AsideInv'
    BY DirConstants DEF DirInv, Types, TypeDisk, TypeRuns, TypeRest, LockInv, AsideInv, Runs,
           Absent, Moved, Busy, SweepEnds, Sweeper, Free, runVars, Trees, NoGood, Kinds
<1>6. TargetInv'
    BY DirConstants DEF DirInv, Types, TypeDisk, TypeRuns, TypeRest, LockInv, TargetInv,
           Runs, Moved, Absent, Tree, Busy, SweepEnds, Sweeper, Free, runVars, Trees, NoGood,
           Kinds
<1>7. GoodInv'
    BY DirConstants DEF DirInv, Types, TypeDisk, TypeRuns, TypeRest, LockInv, OrderInv,
           GoodInv, Runs, SweepEnds, Sweeper, Free, runVars, Trees, Absent, Busy, NoGood,
           Kinds
<1>8. ReportInv'
    BY DirConstants DEF DirInv, Types, TypeRuns, ReportInv, Runs, Busy, SweepEnds, Sweeper,
           Free, runVars
<1>9. LastGoodKept'
    BY DirConstants DEF DirInv, Types, TypeDisk, TypeRuns, TypeRest, LockInv, LastGoodKept,
           NoGood, Tree, Places, Runs, SweepEnds, Sweeper, Free, runVars, Trees, Absent,
           Busy, Kinds
<1>10. ReportTruthful'
    BY DirConstants DEF DirInv, Types, TypeDisk, TypeRuns, TypeRest, LockInv, ReportInv,
           ReportTruthful, Runs, Present, SweepEnds, Sweeper, Free, runVars, Trees, Absent,
           Busy, NoGood, Kinds
<1> QED BY <1>1, <1>2, <1>3, <1>4, <1>5, <1>6, <1>7, <1>8, <1>9, <1>10 DEF DirInv

(* The reconciler dies.                                                    *)
LEMMA SweepCrashesKeeps ==
    ASSUME DirInv, SweepCrashes
    PROVE  DirInv'
<1>1. Types'
  <2>1. TypeDisk'
      BY DirConstants DEF DirInv, Types, TypeDisk, SweepCrashes, Sweeper, Fault, Gone,
             runVars, Trees, Runs, Absent, Kinds
  <2>2. TypeRuns'
      BY DirConstants DEF DirInv, Types, TypeRuns, SweepCrashes, Sweeper, Fault, Gone,
             runVars, Runs, Busy
  <2>3. TypeRest'
      BY DirConstants DEF DirInv, Types, TypeRest, SweepCrashes, Sweeper, Fault, Gone,
             runVars, NoGood, Runs
  <2> QED BY <2>1, <2>2, <2>3 DEF Types
<1>2. LockInv'
    BY DirConstants DEF DirInv, Types, TypeRuns, TypeRest, LockInv, Runs, SweepCrashes,
           Sweeper, Fault, Gone, runVars, Busy, NoGood
<1>3. OrderInv'
    BY DirConstants DEF DirInv, Types, TypeRuns, TypeRest, LockInv, OrderInv, Runs,
           SweepCrashes, Sweeper, Fault, Gone, runVars, Busy, NoGood
<1>4. BirthInv'
    BY DirConstants DEF DirInv, Types, TypeDisk, TypeRuns, LockInv, OrderInv, BirthInv,
           Unborn, Runs, SweepCrashes, Sweeper, Fault, Gone, runVars, Trees, Absent, Busy,
           Kinds
<1>5. AsideInv'
    BY DirConstants DEF DirInv, Types, TypeDisk, TypeRuns, TypeRest, LockInv, AsideInv, Runs,
           Absent, Moved, Busy, SweepCrashes, Sweeper, Fault, Gone, runVars, Trees, NoGood,
           Kinds
<1>6. TargetInv'
    BY DirConstants DEF DirInv, Types, TypeDisk, TypeRuns, TypeRest, LockInv, TargetInv,
           Runs, Moved, Absent, Tree, Busy, SweepCrashes, Sweeper, Fault, Gone, runVars,
           Trees, NoGood, Kinds
<1>7. GoodInv'
    BY DirConstants DEF DirInv, Types, TypeDisk, TypeRuns, TypeRest, LockInv, OrderInv,
           GoodInv, Runs, SweepCrashes, Sweeper, Fault, Gone, runVars, Trees, Absent, Busy,
           NoGood, Kinds
<1>8. ReportInv'
    BY DirConstants DEF DirInv, Types, TypeRuns, ReportInv, Runs, Busy, SweepCrashes,
           Sweeper, Fault, Gone, runVars
<1>9. LastGoodKept'
    BY DirConstants DEF DirInv, Types, TypeDisk, TypeRuns, TypeRest, LockInv, LastGoodKept,
           NoGood, Tree, Places, Runs, SweepCrashes, Sweeper, Fault, Gone, runVars, Trees,
           Absent, Busy, Kinds
<1>10. ReportTruthful'
    BY DirConstants DEF DirInv, Types, TypeDisk, TypeRuns, TypeRest, LockInv, ReportInv,
           ReportTruthful, Runs, Present, SweepCrashes, Sweeper, Fault, Gone, runVars, Trees,
           Absent, Busy, NoGood, Kinds
<1> QED BY <1>1, <1>2, <1>3, <1>4, <1>5, <1>6, <1>7, <1>8, <1>9, <1>10 DEF DirInv

(* A step that changes nothing keeps it.                                   *)
LEMMA StutterKeeps ==
    ASSUME DirInv, UNCHANGED vars
    PROVE  DirInv'
<1>1. (Types /\ LockInv /\ OrderInv /\ ReportInv)'
    BY DEF DirInv, Types, TypeDisk, TypeRuns, TypeRest, LockInv, OrderInv, ReportInv, vars
<1>2. (BirthInv /\ AsideInv /\ TargetInv /\ GoodInv)'
    BY DEF DirInv, BirthInv, Unborn, AsideInv, TargetInv, GoodInv, vars
<1>3. (LastGoodKept /\ ReportTruthful)'
    BY DEF DirInv, LastGoodKept, Places, ReportTruthful, vars
<1> QED BY <1>1, <1>2, <1>3 DEF DirInv

(* It holds at the start: at most one tree, of generation 0.               *)
LEMMA InitKeeps == Init => DirInv
<1> SUFFICES ASSUME Init PROVE DirInv
    OBVIOUS
<1> USE DirConstants
<1>1. 0 \in 0..MaxRuns /\ Runs \subseteq Nat \ {0} /\ 0 \notin Runs
    BY DEF Runs
<1>2. target \in {Absent, Tree(0, "whole")} /\ target \in Trees /\ target.gen = 0
    BY <1>1, AbsentIs, TreeIs, KindsAre DEF Init
<1>3. Types
  <2>1. TypeDisk
      BY <1>1, <1>2, AbsentIs, TreeIs, KindsAre DEF Init, TypeDisk
  <2>2. TypeRuns
      BY DEF Init, TypeRuns
  <2>3. TypeRest
      BY DEF Init, TypeRest, Sweeper, NoGood, Free
  <2> QED BY <2>1, <2>2, <2>3 DEF Types
<1>4. LockInv /\ OrderInv /\ ReportInv /\ AsideInv /\ TargetInv
    BY <1>1 DEF Init, LockInv, OrderInv, ReportInv, AsideInv, TargetInv, Free, Busy, Moved
<1>5. BirthInv
    BY <1>1, <1>2, AbsentIs DEF Init, BirthInv, Unborn
<1>6. GoodInv
    BY <1>1 DEF Init, GoodInv, NoGood, Runs
<1>7. LastGoodKept /\ ReportTruthful
    BY DEF Init, LastGoodKept, Places, ReportTruthful
<1> QED BY <1>3, <1>4, <1>5, <1>6, <1>7 DEF DirInv

(* Every step keeps the invariant.                                         *)
LEMMA NextKeeps ==
    ASSUME CalmRestore, DirInv, [Next]_vars
    PROVE  DirInv'
<1>1. ASSUME NEW r \in Runs, Enter(r) \/ Lose(r) \/ Crash(r)
      PROVE  DirInv'
    BY <1>1, EnterKeeps, LoseKeeps, CrashKeeps
<1>2. ASSUME NEW r \in Runs, CleanUp(r)
      PROVE  DirInv'
    BY <1>2, MoveAsideKeeps, UndoKeeps, ClearKeeps, PutBackKeeps, ValidateKeeps, RefillKeeps,
       DiscardKeeps, DiscardSealedKeeps, ReleaseKeeps DEF CleanUp
<1>3. ASSUME NEW r \in Runs, EndBody(r)
      PROVE  DirInv'
    BY <1>3, BodyRaisesKeeps, BodyReturnsKeeps, CommitKeeps DEF EndBody
<1>4. ASSUME NEW r \in Runs, NEW k \in Kinds \ {"absent"}, Write(r, k)
      PROVE  DirInv'
    BY <1>4, WriteKeeps
<1>5. CASE Expire \/ Sweep \/ SweepCrashes
    BY <1>5, ExpireKeeps, SweepBeginsKeeps, SweepOneKeeps, SweepEndsKeeps, SweepCrashesKeeps
       DEF Sweep
<1>6. CASE UNCHANGED vars
    BY <1>6, StutterKeeps
<1> QED BY <1>1, <1>2, <1>3, <1>4, <1>5, <1>6 DEF Next

(* The invariant holds in every state of a calm behaviour.                 *)
LEMMA Invariance ==
    ASSUME CalmRestore
    PROVE  Spec => []DirInv
<1>1. DirInv /\ [Next]_vars => DirInv'
    BY NextKeeps
<1> QED BY <1>1, InitKeeps, PTL DEF Spec

----------------------------------------------------------------------------
(* Every variable has its type; a listed backup belongs to a sweep.        *)
THEOREM TypeCorrect ==
    ASSUME CalmRestore
    PROVE  Spec => []TypeOK
<1>1. DirInv => TypeOK
    BY DEF DirInv, Types, TypeDisk, TypeRest, Trees, TypeOK
<1> QED BY <1>1, Invariance, PTL

(* No cleanup, commit, sweep or crash destroys the only copy of the last   *)
(* generation that a run finished with.                                    *)
THEOREM KeepsLastGood ==
    ASSUME CalmRestore
    PROVE  Spec => []LastGoodKept
<1>1. DirInv => LastGoodKept
    BY DEF DirInv
<1> QED BY <1>1, Invariance, PTL

(* A run that still has its lease reports a rollback or a finalization     *)
(* only when the disk says the same.                                       *)
THEOREM ReportIsTrue ==
    ASSUME CalmRestore
    PROVE  Spec => []ReportTruthful
<1>1. DirInv => ReportTruthful
    BY DEF DirInv
<1> QED BY <1>1, Invariance, PTL

\* The two halves of NeverClobbers, of one step.
TakesItsOwn ==
    target' # target /\ Present(target) =>
        /\ left' = left
        /\ \A r \in Runs : pc'[r] # pc[r] /\ pc[r] # "renaming" => target.gen = r
TakesNoOnesBackup ==
    \A r \in Runs : left' # left /\ Present(backup[r]) /\ ~Present(backup'[r])
        => pc[r] = "over" \/ lost[r]

(* What is taken from the target while something is there is moved aside   *)
(* by a run that enters, or is the own tree of the run that clears it.     *)
LEMMA StepTakesItsOwn ==
    ASSUME DirInv, Next
    PROVE  TakesItsOwn
<1> SUFFICES ASSUME target' # target, Present(target)
             PROVE  /\ left' = left
                    /\ \A q \in Runs : pc'[q] # pc[q] /\ pc[q] # "renaming" => target.gen = q
    BY DEF TakesItsOwn
<1>1. pc \in [Runs -> Busy \cup {"new", "releasing", "over"}] /\ Absent.kind = "absent"
    BY AbsentIs DEF DirInv, Types, TypeRuns
<1>2. ASSUME NEW r \in Runs, ~lost[r], pc[r] \in Moved
      PROVE  target.gen = r
    BY <1>1, <1>2 DEF DirInv, TargetInv, Present
<1>3. ASSUME NEW r \in Runs, MoveAside(r)
      PROVE  /\ left' = left
             /\ \A q \in Runs : pc'[q] # pc[q] /\ pc[q] # "renaming" => target.gen = q
    BY <1>1, <1>3 DEF MoveAside, Rename, At
<1>4. ASSUME NEW r \in Runs, NEW k \in Kinds \ {"absent"}, Write(r, k)
      PROVE  left' = left /\ pc' = pc
    BY <1>4 DEF Write, runVars
<1>5. ASSUME NEW r \in Runs, Clear(r) \/ Refill(r) \/ Crash(r)
      PROVE  /\ left' = left /\ ~lost[r] /\ pc[r] \in Moved
             /\ \A q \in Runs \ {r} : pc'[q] = pc[q]
  <2>1. CASE Clear(r)
      BY <1>1, <2>1 DEF Clear, ClearTarget, At, Moved, Busy, DirInv, LockInv
  <2>2. CASE Refill(r)
      BY <1>1, <2>2 DEF Refill, At, Moved, Busy
  <2>3. CASE Crash(r)
      BY <1>1, <2>3 DEF Crash, Moved, Busy, DirInv, LockInv
  <2> QED BY <1>5, <2>1, <2>2, <2>3
<1>6. ~ \E r \in Runs : \/ Enter(r) \/ Undo(r) \/ PutBack(r) \/ Validate(r) \/ Discard(r)
                        \/ DiscardSealed(r) \/ Release(r) \/ EndBody(r) \/ Lose(r)
    BY DEF Enter, Undo, PutBack, Validate, Discard, DiscardSealed, Release, EndBody,
           BodyRaises, BodyReturns, Commit, Lose
<1>7. ~(Expire \/ Sweep \/ SweepCrashes)
    BY SweptOne DEF Expire, Sweep, SweepBegins, SweepEnds, SweepCrashes
<1>8. ASSUME NEW r \in Runs, Clear(r) \/ Refill(r) \/ Crash(r)
      PROVE  /\ left' = left
             /\ \A q \in Runs : pc'[q] # pc[q] /\ pc[q] # "renaming" => target.gen = q
    BY <1>2, <1>5, <1>8
<1> QED BY <1>3, <1>4, <1>6, <1>7, <1>8 DEF Next, CleanUp

(* Only the sweep changes what is listed, and it holds the lock: the run   *)
(* whose backup it moves is over or has noticed that it lost its lease.    *)
LEMMA StepTakesNoOnesBackup ==
    ASSUME DirInv, Next
    PROVE  TakesNoOnesBackup
<1> SUFFICES ASSUME NEW q \in Runs, left' # left, Present(backup[q]), ~Present(backup'[q])
             PROVE  pc[q] = "over" \/ lost[q]
    BY DEF TakesNoOnesBackup
<1>1. ~ \E r \in Runs :
          \/ Enter(r) \/ CleanUp(r) \/ EndBody(r) \/ Lose(r) \/ Crash(r)
          \/ \E k \in Kinds \ {"absent"} : Write(r, k)
    BY DEF Enter, CleanUp, MoveAside, Undo, Clear, PutBack, Validate, Refill, Discard,
           DiscardSealed, Release, EndBody, BodyRaises, BodyReturns, Commit, Lose, Crash, Write
<1>2. ~(Expire \/ SweepBegins \/ SweepEnds \/ SweepCrashes)
    BY DEF Expire, SweepBegins, SweepEnds, SweepCrashes
<1>3. SweepOne
    BY <1>1, <1>2 DEF Next, Sweep
<1>4. lock # q
    BY <1>3, SweptOne, DirConstants DEF Runs, Sweeper
<1>5. pc[q] # "new"
    BY AbsentIs DEF DirInv, AsideInv, Present
<1> QED BY <1>4, <1>5 DEF DirInv, LockInv

(* No cleanup takes away what another run wrote or may need: a restore or  *)
(* a refill removes its own run's tree only, and the reconciler moves back *)
(* only the backup of a run that can no longer restore it.                 *)
THEOREM NothingClobbered ==
    ASSUME CalmRestore
    PROVE  Spec => NeverClobbers
<1>1. DirInv /\ [Next]_vars => [TakesItsOwn /\ TakesNoOnesBackup]_vars
    BY StepTakesItsOwn, StepTakesNoOnesBackup
<1>2. [TakesItsOwn /\ TakesNoOnesBackup]_vars =>
         [/\ target' # target /\ Present(target) =>
                /\ left' = left
                /\ \A r \in Runs : pc'[r] # pc[r] /\ pc[r] # "renaming" => target.gen = r
          /\ \A r \in Runs : left' # left /\ Present(backup[r]) /\ ~Present(backup'[r])
                => pc[r] = "over" \/ lost[r]]_vars
    BY DEF TakesItsOwn, TakesNoOnesBackup
<1> QED BY <1>1, <1>2, Invariance, PTL DEF Spec, NeverClobbers
=============================================================================
