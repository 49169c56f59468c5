----------------------- MODULE VaultProtectionProofs -----------------------
(***************************************************************************)
(* Proofs about VaultProtection, for every set of processes, every number  *)
(* of nodes and every number of archive retries.                           *)
(*                                                                         *)
(* The argument: a process between two labels that need the lock holds it, *)
(* and the lock file names it (LockInv), so there is one such process.  A  *)
(* process that appends has the only append handle (HandleInv) and a       *)
(* faithful copy of the journal, unless its own last write failed          *)
(* (CopyInv).  So the label of a process fixes the state of the journal    *)
(* (StateInv), the nodes it works on are recorded (RecordedInv), the       *)
(* others untouched (UntouchedInv), and the end of a transaction is only   *)
(* written when it is true (FinalInv, TruthInv).                           *)
(***************************************************************************)
EXTENDS VaultProtection, WellFoundedInduction, TLAPS

\* The labels, by what the process does between them.
Applying == {"apply", "permit", "verify", "applied"}
Undoing == {"required", "rolling", "undo", "failed"}
Recovering == {"rollback", "restore", "stop"}
Finalizing == {"gate", "unwind", "archive", "commit"}
Ending == {"close", "retain", "release"}
Appending == Applying \cup Undoing \cup Recovering \cup Finalizing
Holding == {"plan", "journal", "dispatch"} \cup Appending \cup Ending
Reading == {"fin_read", "fin_take"}

\* TypeOK, taken apart
TypePc == pc \in [Procs -> Labels]
TypeSets ==
    /\ lock \in [phase : {"none", "held", "released", "loose"}, owner : Procs \cup {Nobody}]
    /\ holders \subseteq Procs /\ writers \subseteq Procs
TypeDisk ==
    /\ plan \in {"none", "durable", "partial"}
    /\ jst \in States \cup {"absent"}
    /\ wal \in [Node -> {"none", "mutating", "mutated"}]
    /\ tail \in {"whole", "torn", "broken"}
    /\ backup \in {"absent", "durable", "partial"}
TypeTree == sd \in [Node -> {"pre", "target", "other"}] /\ content \in BOOLEAN
TypeMem ==
    mem \in [Procs -> [st : States \cup {"absent"},
                       wal : [Node -> {"none", "mutating", "mutated"}], bad : BOOLEAN]]
TypeLocal ==
    /\ work \in [Procs -> SUBSET Node]
    /\ tries \in [Procs -> 0..MaxArchive]
    /\ saw \in [Procs -> [plan : {"none", "durable", "partial"},
                          jrn : {"absent", "valid", "indeterminate"}]]
Types == TypePc /\ TypeSets /\ TypeDisk /\ TypeTree /\ TypeMem /\ TypeLocal

\* The lock: whoever holds it is named in the file, and every label of a run
\* under the lock is reached with it.
LockInv ==
    /\ \A p \in holders : lock = [phase |-> "held", owner |-> p]
    /\ \A p \in Procs : pc[p] \in Holding => p \in holders
    /\ \A p \in holders : pc[p] \in Holding \cup {"fin_read"}

\* The append handle: there is one.
HandleInv ==
    /\ \A p, q \in writers : p = q
    /\ \A p \in Procs : pc[p] \in Appending \cup Reading => p \in writers
    /\ \A p \in writers : pc[p] \in Appending \cup Ending \cup Reading

\* Its owner knows what is in the file, unless its own last write failed.
CopyInv ==
    /\ \A p \in Procs \ writers : mem[p] = Blank
    /\ \A p \in writers : ~mem[p].bad => mem[p].st = jst /\ mem[p].wal = wal
    /\ \A p \in Procs : mem[p].bad => pc[p] \in Undoing \cup {"close", "retain"}
    /\ tail # "broken"

\* Before the journal exists nobody has written anything.
AbsentInv ==
    jst = "absent" => writers = {} /\ wal = NoRecord /\ \A n \in Node : sd[n] = "pre"

\* The states of the journal that a label admits.
StateInv ==
    \A p \in Procs :
        /\ pc[p] \in Applying \cup {"required"} => jst = "applying"
        /\ pc[p] = "fin_read" /\ p \in holders => jst = "applying"
        /\ pc[p] = "rolling" => jst \in {"applying", "rollback_required"}
        /\ pc[p] \in {"undo", "failed", "rollback"} =>
              jst \in {"applying", "rollback_required", "rolling_back"}
        /\ pc[p] \in {"restore", "stop"} => jst = "rolling_back"
        /\ pc[p] \in {"gate", "unwind"} => jst \in Admissible
        /\ pc[p] = "fin_take" => jst \in Admissible \cup {"committed"}
        /\ pc[p] \in {"archive", "commit"} => jst = "archiving_backup"
        /\ pc[p] = "release" => jst \in Settled

\* The nodes a process works on are in the journal, ...
Unmutated(w) == {n \in Node : w[n] # "mutated"}

RecordedInv ==
    \A p \in Procs :
        /\ \A n \in work[p] : wal[n] # "none"
        /\ pc[p] \in {"permit", "verify"} =>
              ~AllMutated(wal) /\ wal[Min(Unmutated(wal))] = "mutating"
        /\ pc[p] = "applied" \/ (pc[p] = "fin_read" /\ p \in holders) => AllMutated(wal)

\* ... and while it applies or undoes them the others are as they were.
UntouchedInv ==
    \A p \in Procs :
        pc[p] \in {"apply", "permit", "verify", "restore"} \cup Undoing =>
            \A n \in Node \ work[p] : sd[n] = "pre"

\* What the finalization has established before it archives and commits.
FinalInv ==
    \A p \in Procs :
        /\ pc[p] \in {"archive", "commit"} => Hardened /\ content
        /\ pc[p] = "commit" => backup = "durable"
        /\ tries[p] # 0 => pc[p] \in {"archive", "unwind", "commit", "retain", "release"}
        /\ pc[p] = "archive" => tries[p] < MaxArchive

TruthInv == RolledBackIsClean /\ CommittedIsWhole /\ ReleasedIsSettled

IndInv ==
    /\ Types /\ LockInv /\ HandleInv /\ CopyInv /\ AbsentInv /\ StateInv
    /\ RecordedInv /\ UntouchedInv /\ FinalInv /\ TruthInv

----------------------------------------------------------------------------
(* The tables of the journal, spelled out                                  *)

\* The four phases of the finalization
LEMMA PhasesAre ==
    /\ {Phases[k] : k \in 1..4} = {"verifying_gp1", "verifying_rv2", "verifying_node_set", "archiving_backup"}
    /\ {Phases[k] : k \in 1..3} = {"verifying_gp1", "verifying_rv2", "verifying_node_set"}
<1> DEFINE P == Phases
<1>1. P[1] = "verifying_gp1" /\ P[2] = "verifying_rv2" /\ P[3] = "verifying_node_set"
      /\ P[4] = "archiving_backup"
  BY DEF Phases
<1>2. \A k \in 1..4 : k \in {1, 2, 3, 4}
  OBVIOUS
<1>3. \A k \in 1..3 : k \in {1, 2, 3}
  OBVIOUS
<1> HIDE DEF P
<1>4. {P[k] : k \in 1..4} = {"verifying_gp1", "verifying_rv2", "verifying_node_set", "archiving_backup"}
  BY <1>1, <1>2
<1>5. {P[k] : k \in 1..3} = {"verifying_gp1", "verifying_rv2", "verifying_node_set"}
  BY <1>1, <1>3
<1> QED
  BY <1>4, <1>5 DEF P

\* The states of a journal that exists
LEMMA StatesAre ==
    /\ States = {"applying", "rollback_required", "rolling_back", "verifying_gp1",
                 "verifying_rv2", "verifying_node_set", "archiving_backup", "committed",
                 "rolled_back", "rollback_failed", "indeterminate"}
    /\ Admissible = {"applying", "verifying_gp1", "verifying_rv2", "verifying_node_set",
                     "archiving_backup"}
  BY PhasesAre, Zenon DEF States, Admissible, Terminal

\* From which states a transition starts
LEMMA TransitionsAre ==
    ASSUME NEW s \in States
    PROVE  /\ Transitions[s] \subseteq States
           /\ "rollback_required" \in Transitions[s] => s \in Admissible
           /\ "rolling_back" \in Transitions[s] => s = "rollback_required"
           /\ "rolled_back" \in Transitions[s] => s = "rolling_back"
           /\ "rollback_failed" \in Transitions[s] => s = "rolling_back"
<1>1. CASE s \in {"applying", "verifying_gp1", "verifying_rv2", "verifying_node_set"}
  <2>1. Transitions[s] = {"rollback_required", "indeterminate"}
    BY <1>1, PhasesAre DEF Transitions
  <2> QED
    BY <1>1, <2>1, StatesAre
<1>2. CASE s = "archiving_backup"
  BY <1>2, PhasesAre, StatesAre DEF Transitions
<1>3. CASE s = "rollback_required"
  BY <1>3, PhasesAre, StatesAre DEF Transitions
<1>4. CASE s = "rolling_back"
  BY <1>4, PhasesAre, StatesAre DEF Transitions
<1>5. CASE s \in {"committed", "rolled_back", "rollback_failed", "indeterminate"}
  BY <1>5, PhasesAre, StatesAre DEF Transitions
<1> QED
  BY <1>1, <1>2, <1>3, <1>4, <1>5, StatesAre

\* The finalization goes from phase to phase
LEMMA NextPhaseIs ==
    ASSUME NEW s \in Admissible, s # "archiving_backup"
    PROVE  NextPhase(s) \in Admissible \ {"applying"}
<1>1. CASE s = "applying"
  BY <1>1, StatesAre DEF NextPhase, Phases
<1>2. CASE s # "applying"
  <2>1. \E k \in 1..3 : Phases[k] = s
    BY <1>2, StatesAre DEF Phases
  <2>2. PICK k \in 1..3 : NextPhase(s) = Phases[1 + k]
    BY <1>2, <2>1 DEF NextPhase
  <2>3. k = 1 \/ k = 2 \/ k = 3
    OBVIOUS
  <2> QED
    BY <2>2, <2>3, StatesAre DEF Phases
<1> QED
  BY <1>1, <1>2

\* A set of naturals that is not empty has a least member
LEMMA LeastNatural ==
    ASSUME NEW S \in SUBSET Nat, S # {}
    PROVE  \E x \in S : \A y \in S : x <= y
<1> DEFINE Less == {ss \in Nat \X Nat : ss[1] < ss[2]}
<1>1. IsWellFoundedOn(Less, Nat)
  BY NatLessThanWellFounded DEF OpToRel
<1> HIDE DEF Less
<1>2. \E x \in S : \A y \in S : <<y, x>> \notin Less
  BY <1>1, WFMin
<1>3. \A x, y \in Nat : y < x => <<y, x>> \in Less
  <2> SUFFICES ASSUME NEW x \in Nat, NEW y \in Nat, y < x PROVE <<y, x>> \in Less
    OBVIOUS
  <2>1. <<y, x>> \in Nat \X Nat /\ <<y, x>>[1] = y /\ <<y, x>>[2] = x
    OBVIOUS
  <2> QED
    BY <2>1 DEF Less
<1>4. \A x, y \in S : x <= y \/ y < x
  OBVIOUS
<1> QED
  BY <1>2, <1>3, <1>4

\* A set of nodes that is not empty has a least and a greatest member
LEMMA NodeBounds ==
    ASSUME NEW S \in SUBSET Node, S # {}
    PROVE  Min(S) \in S /\ Max(S) \in S
<1>1. \E x \in S : \A y \in S : x <= y
  BY LeastNatural DEF Node
<1>2. \E x \in S : \A y \in S : x >= y
  <2> DEFINE T == {N - n : n \in S}
  <2>1. T \in SUBSET Nat /\ T # {}
    <3>1. \A n \in S : N - n \in Nat
      BY VaultConstants DEF Node
    <3> QED
      BY <3>1
  <2>2. PICK z \in T : \A y \in T : z <= y
    BY <2>1, LeastNatural
  <2>3. PICK x \in S : z = N - x
    BY <2>2
  <2>4. \A y \in S : N - x <= N - y
    BY <2>2, <2>3
  <2> QED
    BY <2>4, VaultConstants DEF Node
<1> QED
  BY <1>1, <1>2 DEF Min, Max

\* The node an apply is at is the first one that is not recorded as mutated
LEMMA CurrentIs ==
    ASSUME TypeMem, NEW p \in Procs, ~AllMutated(mem[p].wal)
    PROVE  /\ Current(p) = Min(Unmutated(mem[p].wal))
           /\ Current(p) \in Node /\ mem[p].wal[Current(p)] # "mutated"
<1>1. Current(p) = Min(Unmutated(mem[p].wal))
  BY DEF Current, Unmutated
<1>2. Unmutated(mem[p].wal) # {}
  BY DEF AllMutated, Unmutated
<1>3. Min(Unmutated(mem[p].wal)) \in Unmutated(mem[p].wal)
  BY <1>2, NodeBounds DEF Unmutated
<1> QED
  BY <1>1, <1>3 DEF Unmutated

USE VaultConstants DEF Goto, Keep, Locks, disk, golden, Applying, Undoing, Recovering, Finalizing,
    Ending, Appending, Holding, Reading, Blank, Unseen, NoRecord

----------------------------------------------------------------------------
(* Appending, and the end of a call, for the copy of the journal           *)

\* Whatever comes of an append, file and copy have their types
LEMMA AppendTypes ==
    ASSUME TypeDisk, TypeMem, NEW p \in Procs, NEW s \in States,
           NEW w \in [Node -> {"none", "mutating", "mutated"}],
           AppendOk(p, s, w) \/ AppendFailed(p, s, w)
    PROVE  TypeDisk' /\ TypeMem'
<1>1. TypeDisk'
  BY DEF TypeDisk, AppendOk, AppendFailed, Land
<1>2. CASE AppendOk(p, s, w)
  <2> DEFINE Copies == [st : States \cup {"absent"},
                        wal : [Node -> {"none", "mutating", "mutated"}], bad : BOOLEAN]
  <2> DEFINE c == [mem[p] EXCEPT !.st = s, !.wal = w]
  <2>1. c \in Copies
    BY DEF TypeMem
  <2>2. mem \in [Procs -> Copies] /\ mem' = [mem EXCEPT ![p] = c]
    BY <1>2 DEF AppendOk, TypeMem
  <2> HIDE DEF Copies, c
  <2>3. mem' \in [Procs -> Copies]
    BY <2>1, <2>2
  <2> QED
    BY <1>1, <2>3 DEF TypeMem, Copies
<1>3. CASE AppendFailed(p, s, w)
  BY <1>1, <1>3, StatesAre DEF TypeMem, AppendFailed
<1> QED
  BY <1>1, <1>2, <1>3

\* A confirmed append: the file and the copy go on together
LEMMA AppendOkCopy ==
    ASSUME TypePc, TypeSets, TypeMem, HandleInv, CopyInv, NEW p \in writers, NEW s, NEW w, NEW l,
           AppendOk(p, s, w), Goto(p, l), UNCHANGED writers
    PROVE  CopyInv'
<1>1. mem[p].st = jst /\ mem[p].wal = wal
  BY DEF CopyInv, AppendOk
<1>2. jst' = s /\ wal' = w /\ tail' = tail
  BY <1>1 DEF AppendOk, Land
<1>3. mem'[p].st = s /\ mem'[p].wal = w /\ ~mem'[p].bad
  BY DEF AppendOk, TypeMem, TypeSets
<1>4. \A q \in Procs \ {p} : mem'[q] = mem[q] /\ pc'[q] = pc[q]
  BY DEF AppendOk, TypeMem, TypePc
<1>5. \A q \in writers' : q = p
  BY DEF HandleInv
<1>6. \A q \in Procs \ writers' : mem'[q] = Blank
  BY <1>4 DEF CopyInv
<1>7. \A q \in Procs : mem'[q].bad => pc'[q] \in Undoing \cup {"close", "retain"}
  BY <1>3, <1>4 DEF CopyInv
<1> QED
  BY <1>2, <1>3, <1>5, <1>6, <1>7 DEF CopyInv

\* An append that failed: the process knows that it does not know
LEMMA AppendFailedCopy ==
    ASSUME TypePc, TypeSets, TypeMem, HandleInv, CopyInv, NEW p \in writers, NEW s, NEW w,
           NEW l \in Undoing \cup {"close", "retain"},
           AppendFailed(p, s, w), Goto(p, l), UNCHANGED writers
    PROVE  CopyInv'
<1>1. mem[p].st = jst /\ mem[p].wal = wal
  BY DEF CopyInv, AppendFailed
<1>2. tail' # "broken"
  BY <1>1 DEF AppendFailed, Land, CopyInv
<1>3. mem'[p].bad
  BY DEF AppendFailed, TypeMem, TypeSets
<1>4. \A q \in Procs \ {p} : mem'[q] = mem[q] /\ pc'[q] = pc[q]
  BY DEF AppendFailed, TypeMem, TypePc
<1>5. \A q \in writers' : q = p
  BY DEF HandleInv
<1>6. \A q \in Procs \ writers' : mem'[q] = Blank
  BY <1>4 DEF CopyInv
<1>7. \A q \in Procs : mem'[q].bad => pc'[q] \in Undoing \cup {"close", "retain"}
  <2>1. pc'[p] = l
    BY DEF TypePc, TypeSets
  <2> QED
    BY <1>4, <2>1 DEF CopyInv
<1> QED
  BY <1>2, <1>3, <1>5, <1>6, <1>7 DEF CopyInv

\* A transition whose failure is reported, and one whose failure is not
LEMMA TransitionCopy ==
    ASSUME TypePc, TypeSets, TypeMem, HandleInv, CopyInv, NEW p \in writers, NEW s,
           NEW done, NEW failed \in Undoing \cup {"close", "retain"},
           Transition(p, s, done, failed), UNCHANGED writers
    PROVE  CopyInv'
  BY AppendOkCopy, AppendFailedCopy DEF Transition

LEMMA BestEffortCopy ==
    ASSUME TypePc, TypeSets, TypeMem, HandleInv, CopyInv, NEW p \in writers, NEW s,
           NEW next \in Undoing \cup {"close", "retain"},
           BestEffort(p, s, next), UNCHANGED writers
    PROVE  CopyInv'
<1>1. CASE Transition(p, s, next, next)
  BY <1>1, TransitionCopy
<1>2. CASE Goto(p, next) /\ UNCHANGED <<disk, mem>>
  BY <1>2 DEF CopyInv, TypePc, TypeSets
<1> QED
  BY <1>1, <1>2 DEF BestEffort

\* A call that returns forgets the journal
LEMMA ReturnCopy ==
    ASSUME TypePc, TypeSets, TypeMem, CopyInv, NEW p \in Procs, Return(p)
    PROVE  CopyInv'
<1>1. mem'[p] = Blank /\ ~mem'[p].bad
  BY DEF Return, TypeMem
<1>2. \A q \in Procs \ {p} : mem'[q] = mem[q] /\ pc'[q] = pc[q]
  BY DEF Return, TypeMem, TypePc
<1>3. UNCHANGED <<jst, wal, tail>> /\ writers' = writers \ {p}
  BY DEF Return
<1> QED
  BY <1>1, <1>2, <1>3 DEF CopyInv, TypeSets

\* A process at a label of a transaction under way has the journal open
LEMMA Writes ==
    ASSUME HandleInv, NEW p \in Procs, pc[p] \in Appending \cup Reading
    PROVE  p \in writers
  BY DEF HandleInv

\* The node whose permit a process has is recorded as being mutated
LEMMA PermitIs ==
    ASSUME TypeMem, HandleInv, CopyInv, RecordedInv, NEW p \in Procs, pc[p] \in {"permit", "verify"}
    PROVE  Current(p) \in Node /\ wal[Current(p)] = "mutating"
<1>1. p \in writers /\ mem[p].wal = wal
  BY Writes DEF CopyInv
<1>2. ~AllMutated(mem[p].wal) /\ wal[Min(Unmutated(mem[p].wal))] = "mutating"
  BY <1>1 DEF RecordedInv
<1> QED
  BY <1>2, CurrentIs

----------------------------------------------------------------------------
\* IndInv survives the promotion of the plan.
LEMMA PromotePlanStep ==
    ASSUME IndInv, NEW p \in Procs, PromotePlan(p)
    PROVE  IndInv'
<1>1. TypePc' /\ TypeSets'
  BY DEF IndInv, Types, TypePc, TypeSets, Labels, PromotePlan
<1>2. TypeDisk' /\ TypeTree'
  BY StatesAre DEF IndInv, Types, TypePc, TypeDisk, TypeTree, TypeMem, PromotePlan
<1>3. TypeMem'
  BY StatesAre DEF IndInv, Types, TypePc, TypeMem, TypeDisk, PromotePlan
<1>4. TypeLocal'
  BY DEF IndInv, Types, TypePc, TypeLocal, TypeDisk, FinalInv, Classified, PromotePlan
<1>5. LockInv' /\ HandleInv'
  BY DEF IndInv, Types, TypePc, TypeSets, LockInv, HandleInv, PromotePlan
<1>6. CopyInv'
  BY DEF IndInv, Types, TypePc, CopyInv, PromotePlan
<1>7. AbsentInv' /\ StateInv'
  BY DEF IndInv, Types, TypePc, LockInv, HandleInv, AbsentInv, StateInv, PromotePlan
<1>8. RecordedInv' /\ UntouchedInv' /\ FinalInv'
  BY DEF IndInv, Types, TypePc, TypeLocal, LockInv, RecordedInv, UntouchedInv, FinalInv,
      AllMutated, Hardened, PromotePlan
<1>9. TruthInv'
  BY DEF IndInv, Types, TypeSets, LockInv, TruthInv, RolledBackIsClean, CommittedIsWhole,
      ReleasedIsSettled, Hardened, PromotePlan
<1> QED
  BY <1>1, <1>2, <1>3, <1>4, <1>5, <1>6, <1>7, <1>8, <1>9 DEF IndInv, Types

\* IndInv survives the creation of the journal.
LEMMA CreateJournalStep ==
    ASSUME IndInv, NEW p \in Procs, CreateJournal(p)
    PROVE  IndInv'
<1>1. TypePc' /\ TypeSets'
  BY DEF IndInv, Types, TypePc, TypeSets, Labels, CreateJournal
<1>2. TypeDisk' /\ TypeTree'
  BY StatesAre DEF IndInv, Types, TypePc, TypeDisk, TypeTree, TypeMem, CreateJournal
<1>3. TypeMem'
  BY StatesAre DEF IndInv, Types, TypePc, TypeMem, TypeDisk, CreateJournal
<1>4. TypeLocal'
  BY DEF IndInv, Types, TypePc, TypeLocal, TypeDisk, FinalInv, Classified, CreateJournal
<1>5. LockInv'
  BY DEF IndInv, Types, TypePc, TypeSets, LockInv, CreateJournal
<1>6. HandleInv'
  BY DEF IndInv, Types, TypePc, TypeSets, LockInv, HandleInv, AbsentInv, CreateJournal
<1>7. CopyInv'
  <2>1. p \notin writers /\ mem[p] = Blank
    BY DEF IndInv, AbsentInv, CopyInv, CreateJournal
  <2>2. CASE writers' = writers
    BY <2>2, <2>1 DEF IndInv, Types, TypePc, TypeSets, AbsentInv, CopyInv, CreateJournal
  <2>3. CASE writers' = writers \cup {p} /\ mem' = [mem EXCEPT ![p].st = "applying"] /\ jst' = "applying"
    <3>1. mem'[p].st = jst' /\ mem'[p].wal = wal' /\ ~mem'[p].bad
      BY <2>1, <2>3 DEF IndInv, Types, TypeMem, AbsentInv, CreateJournal
    <3>2. \A q \in Procs \ {p} : mem'[q] = mem[q] /\ pc'[q] = pc[q]
      BY <2>3 DEF IndInv, Types, TypeMem, TypePc, CreateJournal
    <3> QED
      BY <2>1, <2>3, <3>1, <3>2 DEF IndInv, AbsentInv, CopyInv, CreateJournal
  <2> QED
    BY <2>2, <2>3 DEF CreateJournal
<1>8. AbsentInv' /\ StateInv'
  BY DEF IndInv, Types, TypePc, LockInv, HandleInv, AbsentInv, StateInv, CreateJournal
<1>9. RecordedInv'
  BY DEF IndInv, Types, TypePc, RecordedInv, CreateJournal
<1>10. UntouchedInv'
  BY DEF IndInv, Types, TypePc, TypeSets, TypeTree, TypeLocal, LockInv, AbsentInv,
      UntouchedInv, CreateJournal
<1>11. FinalInv'
  BY DEF IndInv, Types, TypePc, TypeLocal, LockInv, FinalInv, Hardened, CreateJournal
<1>12. TruthInv'
  BY DEF IndInv, Types, TypeSets, LockInv, TruthInv, RolledBackIsClean, CommittedIsWhole,
      ReleasedIsSettled, Hardened, CreateJournal
<1> QED
  BY <1>1, <1>2, <1>3, <1>4, <1>5, <1>6, <1>7, <1>8, <1>9, <1>10, <1>11, <1>12 DEF IndInv, Types

\* IndInv survives a node that is refused before its intent.
LEMMA PreCheckFailsStep ==
    ASSUME IndInv, NEW p \in Procs, PreCheckFails(p)
    PROVE  IndInv'
<1>1. Types'
  BY DEF IndInv, Types, TypePc, TypeSets, TypeDisk, TypeTree, TypeMem, TypeLocal, Labels,
      PreCheckFails
<1>2. LockInv' /\ HandleInv'
  BY DEF IndInv, Types, TypePc, TypeSets, LockInv, HandleInv, PreCheckFails
<1>3. CopyInv'
  BY DEF IndInv, Types, TypePc, CopyInv, PreCheckFails
<1>4. AbsentInv' /\ StateInv'
  BY DEF IndInv, Types, TypePc, LockInv, HandleInv, AbsentInv, StateInv, PreCheckFails
<1>5. RecordedInv' /\ UntouchedInv' /\ FinalInv'
  BY DEF IndInv, Types, TypePc, TypeLocal, LockInv, RecordedInv, UntouchedInv, FinalInv,
      AllMutated, Hardened, PreCheckFails
<1>6. TruthInv'
  BY DEF IndInv, Types, TypeSets, LockInv, TruthInv, RolledBackIsClean, CommittedIsWhole,
      ReleasedIsSettled, Hardened, PreCheckFails
<1> QED
  BY <1>1, <1>2, <1>3, <1>4, <1>5, <1>6 DEF IndInv

\* IndInv survives MUTATING(K).
LEMMA RecordIntentStep ==
    ASSUME IndInv, NEW p \in Procs, RecordIntent(p)
    PROVE  IndInv'
<1>1. TypePc' /\ TypeSets'
  BY DEF IndInv, Types, TypePc, TypeSets, Labels, RecordIntent, AppendOk, AppendFailed, Land
<1>2. TypeDisk' /\ TypeTree'
  <2>1. TypeTree'
    BY DEF IndInv, Types, TypeTree, RecordIntent
  <2> DEFINE w == [mem[p].wal EXCEPT ![Current(p)] = "mutating"]
  <2>2. w \in [Node -> {"none", "mutating", "mutated"}] /\ mem[p].st \in States \cup {"absent"}
    BY DEF IndInv, Types, TypeMem
  <2>3. AppendOk(p, mem[p].st, w) \/ AppendFailed(p, mem[p].st, w)
    BY DEF RecordIntent
  <2> HIDE DEF w
  <2>4. TypeDisk'
    BY <2>2, <2>3 DEF IndInv, Types, TypeDisk, AppendOk, AppendFailed, Land
  <2> QED
    BY <2>1, <2>4
<1>3. TypeMem'
  BY StatesAre DEF IndInv, Types, TypePc, TypeMem, TypeDisk, RecordIntent, AppendOk,
      AppendFailed, Land
<1>4. TypeLocal'
  BY DEF IndInv, Types, TypePc, TypeLocal, TypeDisk, FinalInv, Classified, RecordIntent,
      AppendOk, AppendFailed, Land
<1>5. LockInv' /\ HandleInv'
  BY DEF IndInv, Types, TypePc, TypeSets, LockInv, HandleInv, RecordIntent, AppendOk,
      AppendFailed, Land
<1>6. CopyInv'
  BY Writes, AppendOkCopy, AppendFailedCopy DEF IndInv, Types, RecordIntent
<1>7. AbsentInv' /\ StateInv'
  BY DEF IndInv, Types, TypePc, LockInv, HandleInv, AbsentInv, StateInv, RecordIntent,
      AppendOk, AppendFailed, Land
<1>8. RecordedInv'
  <2>1. ~AllMutated(wal) /\ mem[p].wal = wal
    BY Writes DEF IndInv, CopyInv, RecordIntent
  <2> DEFINE n == Current(p)
  <2> DEFINE w == [wal EXCEPT ![n] = "mutating"]
  <2>2. n \in Node /\ wal[n] # "mutated" /\ n = Min(Unmutated(wal))
    BY <2>1, CurrentIs DEF IndInv, Types
  <2> HIDE DEF n
  <2>3. w \in [Node -> {"none", "mutating", "mutated"}] /\ w[n] = "mutating"
        /\ \A m \in Node \ {n} : w[m] = wal[m]
    BY <2>2 DEF IndInv, Types, TypeDisk
  <2>4. Unmutated(w) = Unmutated(wal) /\ ~AllMutated(w)
    BY <2>2, <2>3 DEF Unmutated, AllMutated
  <2>5. w[Min(Unmutated(w))] = "mutating"
    BY <2>2, <2>3, <2>4
  <2>6. wal' = w \/ (wal' = wal /\ pc'[p] = "required")
    <3>1. w = [mem[p].wal EXCEPT ![Current(p)] = "mutating"]
      BY <2>1 DEF n
    <3>2. CASE AppendOk(p, mem[p].st, w)
      BY <2>1, <3>2, Writes DEF IndInv, CopyInv, AppendOk, Land, RecordIntent
    <3>3. CASE AppendFailed(p, mem[p].st, w) /\ Goto(p, "required")
      BY <2>1, <3>3 DEF IndInv, Types, TypePc, AppendFailed, Land
    <3> QED
      BY <3>1, <3>2, <3>3 DEF RecordIntent
  <2>7. \A q \in Procs \ {p} : pc'[q] = pc[q] /\ q \notin holders
    BY DEF IndInv, Types, TypePc, LockInv, RecordIntent
  <2>8. \A q \in Procs : \A m \in work'[q] : wal'[m] # "none"
    BY <2>3, <2>6 DEF IndInv, Types, TypeLocal, RecordedInv, RecordIntent
  <2>9. pc'[p] \in {"permit", "required"}
    BY DEF IndInv, Types, TypePc, RecordIntent
  <2> HIDE DEF w
  <2>10. pc'[p] = "permit" => ~AllMutated(wal') /\ wal'[Min(Unmutated(wal'))] = "mutating"
    BY <2>4, <2>5, <2>6
  <2>11. \A q \in Procs \ {p} : pc'[q] \notin {"permit", "verify", "applied"} /\ q \notin holders'
    BY <2>7 DEF IndInv, LockInv, RecordIntent
  <2> QED
    BY <2>8, <2>9, <2>10, <2>11 DEF RecordedInv
<1>9. UntouchedInv'
  BY DEF IndInv, Types, TypePc, UntouchedInv, RecordIntent, AppendOk, AppendFailed, Land
<1>10. FinalInv'
  BY DEF IndInv, Types, TypePc, TypeLocal, LockInv, FinalInv, Hardened, RecordIntent,
      AppendOk, AppendFailed, Land
<1>11. TruthInv'
  BY DEF IndInv, Types, TypeSets, LockInv, TruthInv, RolledBackIsClean, CommittedIsWhole,
      ReleasedIsSettled, Hardened, RecordIntent, AppendOk, AppendFailed, Land
<1> QED
  BY <1>1, <1>2, <1>3, <1>4, <1>5, <1>6, <1>7, <1>8, <1>9, <1>10, <1>11 DEF IndInv, Types

\* IndInv survives the change of a node.
LEMMA ApplyTargetDaclStep ==
    ASSUME IndInv, NEW p \in Procs, ApplyTargetDacl(p)
    PROVE  IndInv'
<1>1. TypePc' /\ TypeSets'
  BY DEF IndInv, Types, TypePc, TypeSets, Labels, ApplyTargetDacl
<1>2. TypeDisk' /\ TypeTree'
  BY StatesAre DEF IndInv, Types, TypePc, TypeDisk, TypeTree, TypeMem, ApplyTargetDacl
<1>3. TypeMem'
  BY StatesAre DEF IndInv, Types, TypePc, TypeMem, TypeDisk, ApplyTargetDacl
<1>4. TypeLocal'
  BY PermitIs DEF IndInv, Types, TypeLocal, ApplyTargetDacl
<1>5. LockInv' /\ HandleInv'
  BY DEF IndInv, Types, TypePc, TypeSets, LockInv, HandleInv, ApplyTargetDacl
<1>6. CopyInv'
  BY DEF IndInv, Types, TypePc, CopyInv, ApplyTargetDacl
<1>7. AbsentInv' /\ StateInv'
  BY DEF IndInv, Types, TypePc, LockInv, HandleInv, AbsentInv, StateInv, ApplyTargetDacl
<1>8. RecordedInv'
  BY PermitIs DEF IndInv, Types, TypePc, TypeLocal, RecordedInv, AllMutated, ApplyTargetDacl
<1>9. UntouchedInv'
  BY DEF IndInv, Types, TypePc, TypeSets, TypeTree, TypeLocal, LockInv, AbsentInv,
      UntouchedInv, ApplyTargetDacl
<1>10. FinalInv'
  BY DEF IndInv, Types, TypePc, TypeLocal, LockInv, FinalInv, Hardened, ApplyTargetDacl
<1>11. TruthInv'
  BY DEF IndInv, Types, TypeSets, LockInv, StateInv, UntouchedInv, FinalInv, TruthInv,
      RolledBackIsClean, CommittedIsWhole, ReleasedIsSettled, Hardened, Settled,
      ApplyTargetDacl
<1> QED
  BY <1>1, <1>2, <1>3, <1>4, <1>5, <1>6, <1>7, <1>8, <1>9, <1>10, <1>11 DEF IndInv, Types

\* IndInv survives MUTATED(K).
LEMMA RecordCompletedStep ==
    ASSUME IndInv, NEW p \in Procs, RecordCompleted(p)
    PROVE  IndInv'
<1>1. TypePc' /\ TypeSets'
  BY DEF IndInv, Types, TypePc, TypeSets, Labels, RecordCompleted, AppendOk, AppendFailed,
      Land
<1>2. TypeDisk' /\ TypeTree'
  BY StatesAre DEF IndInv, Types, TypePc, TypeDisk, TypeTree, TypeMem, RecordCompleted,
      AppendOk, AppendFailed, Land
<1>3. TypeMem'
  BY StatesAre DEF IndInv, Types, TypePc, TypeMem, TypeDisk, RecordCompleted, AppendOk,
      AppendFailed, Land
<1>4. TypeLocal'
  BY DEF IndInv, Types, TypePc, TypeLocal, TypeDisk, FinalInv, Classified, RecordCompleted,
      AppendOk, AppendFailed, Land
<1>5. LockInv' /\ HandleInv'
  BY DEF IndInv, Types, TypePc, TypeSets, LockInv, HandleInv, RecordCompleted, AppendOk,
      AppendFailed, Land
<1>6. CopyInv'
  <2>1. CASE Goto(p, "required") /\ UNCHANGED <<disk, mem>>
    BY <2>1 DEF IndInv, Types, TypePc, CopyInv, RecordCompleted
  <2> QED
    BY <2>1, Writes, AppendOkCopy, AppendFailedCopy DEF IndInv, Types, RecordCompleted
<1>7. AbsentInv' /\ StateInv'
  BY DEF IndInv, Types, TypePc, LockInv, HandleInv, AbsentInv, StateInv, RecordCompleted,
      AppendOk, AppendFailed, Land
<1>8. RecordedInv'
  <2>1. \A q \in Procs \ {p} : pc'[q] = pc[q] /\ pc[q] \notin Holding /\ q \notin holders'
    BY DEF IndInv, Types, TypePc, LockInv, RecordCompleted
  <2>2. pc'[p] \in {"apply", "required"}
    BY DEF IndInv, Types, TypePc, RecordCompleted
  <2>3. Current(p) \in Node /\ mem[p].wal = wal
    BY Writes, PermitIs DEF IndInv, Types, CopyInv, RecordCompleted
  <2>4. wal' = wal \/ wal' = [wal EXCEPT ![Current(p)] = "mutated"]
    BY <2>3 DEF RecordCompleted, AppendOk, AppendFailed, Land
  <2>5. \A n \in Node : wal[n] # "none" => wal'[n] # "none"
    BY <2>3, <2>4 DEF IndInv, Types, TypeDisk
  <2> QED
    BY <2>1, <2>2, <2>5 DEF IndInv, Types, TypeLocal, RecordedInv, RecordCompleted
<1>9. UntouchedInv'
  BY DEF IndInv, Types, TypePc, UntouchedInv, RecordCompleted, AppendOk, AppendFailed, Land
<1>10. FinalInv'
  BY DEF IndInv, Types, TypePc, TypeLocal, LockInv, FinalInv, Hardened, RecordCompleted,
      AppendOk, AppendFailed, Land
<1>11. TruthInv'
  BY DEF IndInv, Types, TypeSets, LockInv, TruthInv, RolledBackIsClean, CommittedIsWhole,
      ReleasedIsSettled, Hardened, RecordCompleted, AppendOk, AppendFailed, Land
<1> QED
  BY <1>1, <1>2, <1>3, <1>4, <1>5, <1>6, <1>7, <1>8, <1>9, <1>10, <1>11 DEF IndInv, Types

\* IndInv survives the end of the apply.
LEMMA AllAppliedStep ==
    ASSUME IndInv, NEW p \in Procs, AllApplied(p)
    PROVE  IndInv'
<1>1. Types'
  BY DEF IndInv, Types, TypePc, TypeSets, TypeDisk, TypeTree, TypeMem, TypeLocal, Labels,
      AllApplied
<1>2. LockInv' /\ HandleInv'
  BY DEF IndInv, Types, TypePc, TypeSets, LockInv, HandleInv, AllApplied
<1>3. CopyInv'
  BY DEF IndInv, Types, TypePc, CopyInv, AllApplied
<1>4. AbsentInv' /\ StateInv'
  BY DEF IndInv, Types, TypePc, LockInv, HandleInv, AbsentInv, StateInv, AllApplied
<1>5. RecordedInv'
  <2>1. AllMutated(wal)
    BY Writes DEF IndInv, CopyInv, AllApplied
  <2> QED
    BY <2>1 DEF IndInv, Types, TypePc, RecordedInv, AllMutated, AllApplied
<1>6. UntouchedInv'
  BY DEF IndInv, Types, TypePc, UntouchedInv, AllApplied
<1>7. FinalInv'
  BY DEF IndInv, Types, TypePc, TypeLocal, LockInv, FinalInv, Hardened, AllApplied
<1>8. TruthInv'
  BY DEF IndInv, Types, TypeSets, LockInv, TruthInv, RolledBackIsClean, CommittedIsWhole,
      ReleasedIsSettled, Hardened, AllApplied
<1> QED
  BY <1>1, <1>2, <1>3, <1>4, <1>5, <1>6, <1>7, <1>8 DEF IndInv

\* IndInv survives the first transition of the in-process rollback.
LEMMA RequireRollbackStep ==
    ASSUME IndInv, NEW p \in Procs, RequireRollback(p)
    PROVE  IndInv'
<1>1. TypePc' /\ TypeSets'
  BY DEF IndInv, Types, TypePc, TypeSets, Labels, RequireRollback, BestEffort, Transition,
      AppendOk, AppendFailed, Land
<1>2. TypeDisk' /\ TypeTree'
  BY StatesAre DEF IndInv, Types, TypePc, TypeDisk, TypeTree, TypeMem, RequireRollback,
      BestEffort, Transition, AppendOk, AppendFailed, Land
<1>3. TypeMem'
  BY StatesAre DEF IndInv, Types, TypePc, TypeMem, TypeDisk, RequireRollback, BestEffort,
      Transition, AppendOk, AppendFailed, Land
<1>4. TypeLocal'
  BY DEF IndInv, Types, TypePc, TypeLocal, TypeDisk, FinalInv, Classified, RequireRollback,
      BestEffort, Transition, AppendOk, AppendFailed, Land
<1>5. LockInv' /\ HandleInv'
  BY DEF IndInv, Types, TypePc, TypeSets, LockInv, HandleInv, RequireRollback, BestEffort,
      Transition, AppendOk, AppendFailed, Land
<1>6. CopyInv'
  BY Writes, BestEffortCopy DEF IndInv, Types, RequireRollback
<1>7. AbsentInv' /\ StateInv'
  BY DEF IndInv, Types, TypePc, LockInv, HandleInv, AbsentInv, StateInv, RequireRollback,
      BestEffort, Transition, AppendOk, AppendFailed, Land
<1>8. RecordedInv'
  BY DEF IndInv, Types, TypePc, RecordedInv, RequireRollback, BestEffort, Transition,
      AppendOk, AppendFailed, Land
<1>9. UntouchedInv'
  BY DEF IndInv, Types, TypePc, UntouchedInv, RequireRollback, BestEffort, Transition,
      AppendOk, AppendFailed, Land
<1>10. FinalInv'
  BY DEF IndInv, Types, TypePc, TypeLocal, LockInv, FinalInv, Hardened, RequireRollback,
      BestEffort, Transition, AppendOk, AppendFailed, Land
<1>11. TruthInv'
  BY DEF IndInv, Types, TypeSets, LockInv, TruthInv, RolledBackIsClean, CommittedIsWhole,
      ReleasedIsSettled, Hardened, RequireRollback, BestEffort, Transition, AppendOk,
      AppendFailed, Land
<1> QED
  BY <1>1, <1>2, <1>3, <1>4, <1>5, <1>6, <1>7, <1>8, <1>9, <1>10, <1>11 DEF IndInv, Types

\* IndInv survives its second transition.
LEMMA BeginRollbackStep ==
    ASSUME IndInv, NEW p \in Procs, BeginRollback(p)
    PROVE  IndInv'
<1>1. TypePc' /\ TypeSets'
  BY DEF IndInv, Types, TypePc, TypeSets, Labels, BeginRollback, BestEffort, Transition,
      AppendOk, AppendFailed, Land
<1>2. TypeDisk' /\ TypeTree'
  BY StatesAre DEF IndInv, Types, TypePc, TypeDisk, TypeTree, TypeMem, BeginRollback,
      BestEffort, Transition, AppendOk, AppendFailed, Land
<1>3. TypeMem'
  BY StatesAre DEF IndInv, Types, TypePc, TypeMem, TypeDisk, BeginRollback, BestEffort,
      Transition, AppendOk, AppendFailed, Land
<1>4. TypeLocal'
  BY DEF IndInv, Types, TypePc, TypeLocal, TypeDisk, FinalInv, Classified, BeginRollback,
      BestEffort, Transition, AppendOk, AppendFailed, Land
<1>5. LockInv' /\ HandleInv'
  BY DEF IndInv, Types, TypePc, TypeSets, LockInv, HandleInv, BeginRollback, BestEffort,
      Transition, AppendOk, AppendFailed, Land
<1>6. CopyInv'
  BY Writes, BestEffortCopy DEF IndInv, Types, BeginRollback
<1>7. AbsentInv' /\ StateInv'
  BY DEF IndInv, Types, TypePc, LockInv, HandleInv, AbsentInv, StateInv, BeginRollback,
      BestEffort, Transition, AppendOk, AppendFailed, Land
<1>8. RecordedInv' /\ UntouchedInv' /\ FinalInv'
  BY DEF IndInv, Types, TypePc, TypeLocal, LockInv, RecordedInv, UntouchedInv, FinalInv,
      AllMutated, Hardened, BeginRollback, BestEffort, Transition, AppendOk, AppendFailed,
      Land
<1>9. TruthInv'
  BY DEF IndInv, Types, TypeSets, LockInv, TruthInv, RolledBackIsClean, CommittedIsWhole,
      ReleasedIsSettled, Hardened, BeginRollback, BestEffort, Transition, AppendOk,
      AppendFailed, Land
<1> QED
  BY <1>1, <1>2, <1>3, <1>4, <1>5, <1>6, <1>7, <1>8, <1>9 DEF IndInv, Types

\* IndInv survives the restoration of a node by the executor.
LEMMA UndoStep ==
    ASSUME IndInv, NEW p \in Procs, Undo(p)
    PROVE  IndInv'
<1>1. TypePc' /\ TypeSets'
  BY DEF IndInv, Types, TypePc, TypeSets, Labels, Undo, RestoreNode
<1>2. TypeDisk' /\ TypeTree'
  BY StatesAre DEF IndInv, Types, TypePc, TypeDisk, TypeTree, TypeMem, Undo, RestoreNode
<1>3. TypeMem'
  BY StatesAre DEF IndInv, Types, TypePc, TypeMem, TypeDisk, Undo, RestoreNode
<1>4. TypeLocal'
  BY DEF IndInv, Types, TypePc, TypeLocal, TypeDisk, FinalInv, Classified, Undo, RestoreNode
<1>5. LockInv' /\ HandleInv'
  BY DEF IndInv, Types, TypePc, TypeSets, LockInv, HandleInv, Undo, RestoreNode
<1>6. CopyInv'
  BY DEF IndInv, Types, TypePc, CopyInv, Undo, RestoreNode
<1>7. AbsentInv' /\ StateInv'
  BY DEF IndInv, Types, TypePc, LockInv, HandleInv, AbsentInv, StateInv, Undo, RestoreNode
<1>8. RecordedInv'
  <2>1. \A q \in Procs : work'[q] \subseteq work[q]
    BY DEF IndInv, Types, TypeLocal, Undo, RestoreNode
  <2>2. UNCHANGED <<wal, holders>> /\ \A q \in Procs : pc'[q] = pc[q] \/ pc'[q] \in {"failed", "stop"}
    BY DEF IndInv, Types, TypePc, Undo, RestoreNode
  <2> QED
    BY <2>1, <2>2 DEF IndInv, RecordedInv
<1>9. UntouchedInv'
  BY DEF IndInv, Types, TypePc, TypeSets, TypeTree, TypeLocal, LockInv, AbsentInv,
      UntouchedInv, Undo, RestoreNode
<1>10. FinalInv'
  BY DEF IndInv, Types, TypePc, TypeLocal, LockInv, FinalInv, Hardened, Undo, RestoreNode
<1>11. TruthInv'
  BY DEF IndInv, Types, TypeSets, LockInv, StateInv, UntouchedInv, FinalInv, TruthInv,
      RolledBackIsClean, CommittedIsWhole, ReleasedIsSettled, Hardened, Settled, Undo,
      RestoreNode
<1> QED
  BY <1>1, <1>2, <1>3, <1>4, <1>5, <1>6, <1>7, <1>8, <1>9, <1>10, <1>11 DEF IndInv, Types

\* IndInv survives the end of the in-process rollback.
LEMMA RollbackDoneStep ==
    ASSUME IndInv, NEW p \in Procs, RollbackDone(p)
    PROVE  IndInv'
<1>1. TypePc' /\ TypeSets'
  BY DEF IndInv, Types, TypePc, TypeSets, Labels, RollbackDone, BestEffort, Transition,
      AppendOk, AppendFailed, Land
<1>2. TypeDisk' /\ TypeTree'
  BY StatesAre DEF IndInv, Types, TypePc, TypeDisk, TypeTree, TypeMem, RollbackDone,
      BestEffort, Transition, AppendOk, AppendFailed, Land
<1>3. TypeMem'
  BY StatesAre DEF IndInv, Types, TypePc, TypeMem, TypeDisk, RollbackDone, BestEffort,
      Transition, AppendOk, AppendFailed, Land
<1>4. TypeLocal'
  BY DEF IndInv, Types, TypePc, TypeLocal, TypeDisk, FinalInv, Classified, RollbackDone,
      BestEffort, Transition, AppendOk, AppendFailed, Land
<1>5. LockInv' /\ HandleInv'
  BY DEF IndInv, Types, TypePc, TypeSets, LockInv, HandleInv, RollbackDone, BestEffort,
      Transition, AppendOk, AppendFailed, Land
<1>6. CopyInv'
  BY Writes, BestEffortCopy DEF IndInv, Types, RollbackDone
<1>7. AbsentInv' /\ StateInv'
  BY DEF IndInv, Types, TypePc, LockInv, HandleInv, AbsentInv, StateInv, RollbackDone,
      BestEffort, Transition, AppendOk, AppendFailed, Land
<1>8. RecordedInv' /\ UntouchedInv' /\ FinalInv'
  BY DEF IndInv, Types, TypePc, TypeLocal, LockInv, RecordedInv, UntouchedInv, FinalInv,
      AllMutated, Hardened, RollbackDone, BestEffort, Transition, AppendOk, AppendFailed, Land
<1>9. TruthInv'
  BY DEF IndInv, Types, TypeSets, LockInv, StateInv, UntouchedInv, FinalInv, TruthInv,
      RolledBackIsClean, CommittedIsWhole, ReleasedIsSettled, Hardened, Settled, RollbackDone,
      BestEffort, Transition, AppendOk, AppendFailed, Land
<1> QED
  BY <1>1, <1>2, <1>3, <1>4, <1>5, <1>6, <1>7, <1>8, <1>9 DEF IndInv, Types

\* IndInv survives an in-process rollback that failed.
LEMMA RollbackFailedStep ==
    ASSUME IndInv, NEW p \in Procs, RollbackFailed(p)
    PROVE  IndInv'
<1>1. TypePc' /\ TypeSets'
  BY DEF IndInv, Types, TypePc, TypeSets, Labels, RollbackFailed, BestEffort, Transition,
      AppendOk, AppendFailed, Land
<1>2. TypeDisk' /\ TypeTree'
  BY StatesAre DEF IndInv, Types, TypePc, TypeDisk, TypeTree, TypeMem, RollbackFailed,
      BestEffort, Transition, AppendOk, AppendFailed, Land
<1>3. TypeMem'
  BY StatesAre DEF IndInv, Types, TypePc, TypeMem, TypeDisk, RollbackFailed, BestEffort,
      Transition, AppendOk, AppendFailed, Land
<1>4. TypeLocal'
  BY DEF IndInv, Types, TypePc, TypeLocal, TypeDisk, FinalInv, Classified, RollbackFailed,
      BestEffort, Transition, AppendOk, AppendFailed, Land
<1>5. LockInv' /\ HandleInv'
  BY DEF IndInv, Types, TypePc, TypeSets, LockInv, HandleInv, RollbackFailed, BestEffort,
      Transition, AppendOk, AppendFailed, Land
<1>6. CopyInv'
  BY Writes, BestEffortCopy DEF IndInv, Types, RollbackFailed
<1>7. AbsentInv' /\ StateInv'
  BY DEF IndInv, Types, TypePc, LockInv, HandleInv, AbsentInv, StateInv, RollbackFailed,
      BestEffort, Transition, AppendOk, AppendFailed, Land
<1>8. RecordedInv'
  BY DEF IndInv, Types, TypePc, RecordedInv, RollbackFailed, BestEffort, Transition, AppendOk,
      AppendFailed, Land
<1>9. UntouchedInv'
  BY DEF IndInv, Types, TypePc, UntouchedInv, RollbackFailed, BestEffort, Transition,
      AppendOk, AppendFailed, Land
<1>10. FinalInv'
  BY DEF IndInv, Types, TypePc, TypeLocal, LockInv, FinalInv, Hardened, RollbackFailed,
      BestEffort, Transition, AppendOk, AppendFailed, Land
<1>11. TruthInv'
  BY DEF IndInv, Types, TypeSets, LockInv, TruthInv, RolledBackIsClean, CommittedIsWhole,
      ReleasedIsSettled, Hardened, RollbackFailed, BestEffort, Transition, AppendOk,
      AppendFailed, Land
<1> QED
  BY <1>1, <1>2, <1>3, <1>4, <1>5, <1>6, <1>7, <1>8, <1>9, <1>10, <1>11 DEF IndInv, Types

\* IndInv survives the classification of the journal.
LEMMA ReadJournalStep ==
    ASSUME IndInv, NEW p \in Procs, ReadJournal(p)
    PROVE  IndInv'
<1>1. TypePc' /\ TypeSets'
  BY DEF IndInv, Types, TypePc, TypeSets, Labels, ReadJournal
<1>2. TypeDisk' /\ TypeTree'
  BY StatesAre DEF IndInv, Types, TypePc, TypeDisk, TypeTree, TypeMem, ReadJournal
<1>3. TypeMem'
  BY StatesAre DEF IndInv, Types, TypePc, TypeMem, TypeDisk, ReadJournal
<1>4. TypeLocal'
  BY DEF IndInv, Types, TypePc, TypeLocal, TypeDisk, FinalInv, Classified, ReadJournal
<1>5. LockInv' /\ HandleInv'
  BY DEF IndInv, Types, TypePc, TypeSets, LockInv, HandleInv, ReadJournal
<1>6. CopyInv'
  BY DEF IndInv, Types, TypePc, CopyInv, ReadJournal
<1>7. AbsentInv' /\ StateInv'
  BY DEF IndInv, Types, TypePc, LockInv, HandleInv, AbsentInv, StateInv, ReadJournal
<1>8. RecordedInv' /\ UntouchedInv' /\ FinalInv'
  BY DEF IndInv, Types, TypePc, TypeLocal, LockInv, RecordedInv, UntouchedInv, FinalInv,
      AllMutated, Hardened, ReadJournal
<1>9. TruthInv'
  BY DEF IndInv, Types, TypeSets, LockInv, TruthInv, RolledBackIsClean, CommittedIsWhole,
      ReleasedIsSettled, Hardened, ReadJournal
<1> QED
  BY <1>1, <1>2, <1>3, <1>4, <1>5, <1>6, <1>7, <1>8, <1>9 DEF IndInv, Types

\* IndInv survives a lock that is refused.
LEMMA RefusedLockStep ==
    ASSUME IndInv, NEW p \in Procs, RefusedLock(p)
    PROVE  IndInv'
<1>1. Types'
  BY DEF IndInv, Types, TypePc, TypeSets, TypeDisk, TypeTree, TypeMem, TypeLocal, Labels,
      RefusedLock, Acquirable, AcquireFailed, Return
<1>2. LockInv' /\ HandleInv'
  BY DEF IndInv, Types, TypePc, TypeSets, LockInv, HandleInv, RefusedLock, Acquirable,
      AcquireFailed, Return
<1>3. CopyInv'
  BY ReturnCopy DEF IndInv, Types, RefusedLock
<1>4. AbsentInv' /\ StateInv'
  BY DEF IndInv, Types, TypePc, LockInv, HandleInv, AbsentInv, StateInv, RefusedLock,
      Acquirable, AcquireFailed, Return
<1>5. RecordedInv' /\ UntouchedInv' /\ FinalInv'
  BY DEF IndInv, Types, TypePc, TypeLocal, LockInv, RecordedInv, UntouchedInv, FinalInv,
      AllMutated, Hardened, RefusedLock, Acquirable, AcquireFailed, Return
<1>6. TruthInv'
  BY DEF IndInv, Types, TypeSets, LockInv, TruthInv, RolledBackIsClean, CommittedIsWhole,
      ReleasedIsSettled, Hardened, RefusedLock, Acquirable, AcquireFailed, Return
<1> QED
  BY <1>1, <1>2, <1>3, <1>4, <1>5, <1>6 DEF IndInv

\* IndInv survives a recovery that takes the lock.
LEMMA TakeLockStep ==
    ASSUME IndInv, NEW p \in Procs, TakeLock(p)
    PROVE  IndInv'
<1>1. Types'
  BY DEF IndInv, Types, TypePc, TypeSets, TypeDisk, TypeTree, TypeMem, TypeLocal, Labels,
      TakeLock, Acquirable, Acquire
<1>2. LockInv' /\ HandleInv'
  BY DEF IndInv, Types, TypePc, TypeSets, LockInv, HandleInv, TakeLock, Acquirable, Acquire
<1>3. CopyInv'
  BY DEF IndInv, Types, TypePc, CopyInv, TakeLock, Acquirable, Acquire
<1>4. AbsentInv' /\ StateInv'
  BY DEF IndInv, Types, TypePc, LockInv, HandleInv, AbsentInv, StateInv, TakeLock, Acquirable,
      Acquire
<1>5. RecordedInv' /\ UntouchedInv' /\ FinalInv'
  BY DEF IndInv, Types, TypePc, TypeLocal, LockInv, RecordedInv, UntouchedInv, FinalInv,
      AllMutated, Hardened, TakeLock, Acquirable, Acquire
<1>6. TruthInv'
  BY DEF IndInv, Types, TypeSets, LockInv, TruthInv, RolledBackIsClean, CommittedIsWhole,
      ReleasedIsSettled, Hardened, TakeLock, Acquirable, Acquire
<1> QED
  BY <1>1, <1>2, <1>3, <1>4, <1>5, <1>6 DEF IndInv

\* IndInv survives a recovery that does not open the journal.
LEMMA DispatchBlindStep ==
    ASSUME IndInv, NEW p \in Procs, DispatchBlind(p)
    PROVE  IndInv'
<1>1. Types'
  BY DEF IndInv, Types, TypePc, TypeSets, TypeDisk, TypeTree, TypeMem, TypeLocal, Labels,
      DispatchBlind
<1>2. LockInv' /\ HandleInv'
  BY DEF IndInv, Types, TypePc, TypeSets, LockInv, HandleInv, DispatchBlind
<1>3. CopyInv'
  BY DEF IndInv, Types, TypePc, CopyInv, DispatchBlind
<1>4. AbsentInv'
  BY DEF IndInv, AbsentInv, DispatchBlind
<1>5. StateInv'
  BY DEF IndInv, Types, TypePc, LockInv, StateInv, Settled, DispatchBlind
<1>6. RecordedInv' /\ UntouchedInv' /\ FinalInv'
  BY DEF IndInv, Types, TypePc, TypeLocal, LockInv, RecordedInv, UntouchedInv, FinalInv,
      AllMutated, Hardened, DispatchBlind
<1>7. TruthInv'
  BY DEF IndInv, Types, TypeSets, LockInv, TruthInv, RolledBackIsClean, CommittedIsWhole,
      ReleasedIsSettled, Hardened, DispatchBlind
<1> QED
  BY <1>1, <1>2, <1>3, <1>4, <1>5, <1>6, <1>7 DEF IndInv

\* IndInv survives a recovery that cannot read plan or journal.
LEMMA DispatchUnreadableStep ==
    ASSUME IndInv, NEW p \in Procs, DispatchUnreadable(p)
    PROVE  IndInv'
<1>1. Types'
  BY DEF IndInv, Types, TypePc, TypeSets, TypeDisk, TypeTree, TypeMem, TypeLocal, Labels,
      DispatchUnreadable
<1>2. LockInv' /\ HandleInv'
  BY DEF IndInv, Types, TypePc, TypeSets, LockInv, HandleInv, DispatchUnreadable
<1>3. CopyInv'
  BY DEF IndInv, Types, TypePc, CopyInv, DispatchUnreadable
<1>4. AbsentInv' /\ StateInv'
  BY DEF IndInv, Types, TypePc, LockInv, HandleInv, AbsentInv, StateInv, DispatchUnreadable
<1>5. RecordedInv' /\ UntouchedInv' /\ FinalInv'
  BY DEF IndInv, Types, TypePc, TypeLocal, LockInv, RecordedInv, UntouchedInv, FinalInv,
      AllMutated, Hardened, DispatchUnreadable
<1>6. TruthInv'
  BY DEF IndInv, Types, TypeSets, LockInv, TruthInv, RolledBackIsClean, CommittedIsWhole,
      ReleasedIsSettled, Hardened, DispatchUnreadable
<1> QED
  BY <1>1, <1>2, <1>3, <1>4, <1>5, <1>6 DEF IndInv

\* IndInv survives the recovery's decision.
LEMMA DispatchFsmStep ==
    ASSUME IndInv, NEW p \in Procs, DispatchFsm(p)
    PROVE  IndInv'
<1>1. Types'
  BY DEF IndInv, Types, TypePc, TypeSets, TypeDisk, TypeTree, TypeMem, TypeLocal, Labels,
      DispatchFsm, OpenJournal, Verdict, Classified
<1>2. LockInv' /\ HandleInv'
  BY DEF IndInv, Types, TypePc, TypeSets, LockInv, HandleInv, DispatchFsm, OpenJournal,
      Verdict, Classified
<1>3. CopyInv'
  BY DEF IndInv, Types, TypePc, TypeSets, TypeMem, CopyInv, DispatchFsm, OpenJournal, Verdict,
      Classified
<1>4. AbsentInv'
  BY DEF IndInv, AbsentInv, DispatchFsm, OpenJournal, Verdict, Classified
<1>5. StateInv'
  BY StatesAre DEF IndInv, Types, TypePc, TypeSets, TypeMem, TypeDisk, LockInv, HandleInv,
      CopyInv, AbsentInv, StateInv, Settled, DispatchFsm, OpenJournal, Verdict, Classified
<1>6. RecordedInv' /\ UntouchedInv' /\ FinalInv'
  BY DEF IndInv, Types, TypePc, TypeLocal, LockInv, RecordedInv, UntouchedInv, FinalInv,
      AllMutated, Hardened, DispatchFsm, OpenJournal, Verdict, Classified
<1>7. TruthInv'
  BY DEF IndInv, Types, TypeSets, LockInv, TruthInv, RolledBackIsClean, CommittedIsWhole,
      ReleasedIsSettled, Hardened, DispatchFsm, OpenJournal, Verdict, Classified
<1> QED
  BY <1>1, <1>2, <1>3, <1>4, <1>5, <1>6, <1>7 DEF IndInv

\* IndInv survives a transition of the recovery.
LEMMA RollbackStep ==
    ASSUME IndInv, NEW p \in Procs, Rollback(p)
    PROVE  IndInv'
<1>1. TypePc' /\ TypeSets'
  BY DEF IndInv, Types, TypePc, TypeSets, Labels, Rollback, Transition, AppendOk,
      AppendFailed, Land
<1>2. TypeDisk' /\ TypeTree'
  BY StatesAre DEF IndInv, Types, TypePc, TypeDisk, TypeTree, TypeMem, Rollback, Transition,
      AppendOk, AppendFailed, Land
<1>3. TypeMem'
  BY StatesAre DEF IndInv, Types, TypePc, TypeMem, TypeDisk, Rollback, Transition, AppendOk,
      AppendFailed, Land
<1>4. TypeLocal'
  BY DEF IndInv, Types, TypePc, TypeLocal, TypeDisk, FinalInv, Classified, Rollback,
      Transition, AppendOk, AppendFailed, Land
<1>5. LockInv' /\ HandleInv'
  BY DEF IndInv, Types, TypePc, TypeSets, LockInv, HandleInv, Rollback, Transition, AppendOk,
      AppendFailed, Land
<1>6. CopyInv'
  BY Writes, TransitionCopy DEF IndInv, Types, Rollback
<1>7. AbsentInv' /\ StateInv'
  BY DEF IndInv, Types, TypePc, LockInv, HandleInv, AbsentInv, StateInv, Rollback, Transition,
      AppendOk, AppendFailed, Land
<1>8. RecordedInv' /\ UntouchedInv' /\ FinalInv'
  BY DEF IndInv, Types, TypePc, TypeLocal, LockInv, RecordedInv, UntouchedInv, FinalInv,
      AllMutated, Hardened, Rollback, Transition, AppendOk, AppendFailed, Land
<1>9. TruthInv'
  BY DEF IndInv, Types, TypeSets, LockInv, TruthInv, RolledBackIsClean, CommittedIsWhole,
      ReleasedIsSettled, Hardened, Rollback, Transition, AppendOk, AppendFailed, Land
<1> QED
  BY <1>1, <1>2, <1>3, <1>4, <1>5, <1>6, <1>7, <1>8, <1>9 DEF IndInv, Types

\* IndInv survives the scan before the restoration.
LEMMA ScanStep ==
    ASSUME IndInv, NEW p \in Procs, Scan(p)
    PROVE  IndInv'
<1>1. TypePc' /\ TypeSets'
  BY DEF IndInv, Types, TypePc, TypeSets, Labels, Scan, Stray, Candidates
<1>2. TypeDisk' /\ TypeTree'
  BY StatesAre DEF IndInv, Types, TypePc, TypeDisk, TypeTree, TypeMem, Scan, Stray, Candidates
<1>3. TypeMem'
  BY StatesAre DEF IndInv, Types, TypePc, TypeMem, TypeDisk, Scan, Stray, Candidates
<1>4. TypeLocal'
  BY DEF IndInv, Types, TypePc, TypeLocal, TypeDisk, FinalInv, Classified, Scan, Stray,
      Candidates
<1>5. LockInv' /\ HandleInv'
  BY DEF IndInv, Types, TypePc, TypeSets, LockInv, HandleInv, Scan, Stray, Candidates
<1>6. CopyInv'
  BY DEF IndInv, Types, TypePc, CopyInv, Scan, Stray, Candidates
<1>7. AbsentInv'
  BY DEF IndInv, AbsentInv, Scan, Stray, Candidates
<1>8. StateInv'
  BY StatesAre DEF IndInv, Types, TypePc, TypeSets, TypeMem, TypeDisk, LockInv, HandleInv,
      CopyInv, AbsentInv, StateInv, Settled, Scan, Stray, Candidates
<1>9. RecordedInv'
  BY DEF IndInv, Types, TypePc, TypeSets, TypeMem, TypeLocal, LockInv, HandleInv, CopyInv,
      AbsentInv, RecordedInv, AllMutated, Scan, Stray, Candidates
<1>10. UntouchedInv'
  BY DEF IndInv, Types, TypePc, TypeLocal, LockInv, UntouchedInv, Scan, Stray, Candidates
<1>11. FinalInv'
  BY DEF IndInv, Types, TypePc, TypeLocal, LockInv, FinalInv, Hardened, Scan, Stray,
      Candidates
<1>12. TruthInv'
  BY DEF IndInv, Types, TypeSets, LockInv, TruthInv, RolledBackIsClean, CommittedIsWhole,
      ReleasedIsSettled, Hardened, Scan, Stray, Candidates
<1> QED
  BY <1>1, <1>2, <1>3, <1>4, <1>5, <1>6, <1>7, <1>8, <1>9, <1>10, <1>11, <1>12 DEF IndInv, Types

\* IndInv survives the restoration of a node by a recovery.
LEMMA RestoreStep ==
    ASSUME IndInv, NEW p \in Procs, Restore(p)
    PROVE  IndInv'
<1>1. TypePc' /\ TypeSets'
  BY DEF IndInv, Types, TypePc, TypeSets, Labels, Restore, RestoreNode
<1>2. TypeDisk' /\ TypeTree'
  BY StatesAre DEF IndInv, Types, TypePc, TypeDisk, TypeTree, TypeMem, Restore, RestoreNode
<1>3. TypeMem'
  BY StatesAre DEF IndInv, Types, TypePc, TypeMem, TypeDisk, Restore, RestoreNode
<1>4. TypeLocal'
  BY DEF IndInv, Types, TypePc, TypeLocal, TypeDisk, FinalInv, Classified, Restore,
      RestoreNode
<1>5. LockInv' /\ HandleInv'
  BY DEF IndInv, Types, TypePc, TypeSets, LockInv, HandleInv, Restore, RestoreNode
<1>6. CopyInv'
  BY DEF IndInv, Types, TypePc, CopyInv, Restore, RestoreNode
<1>7. AbsentInv' /\ StateInv'
  BY DEF IndInv, Types, TypePc, LockInv, HandleInv, AbsentInv, StateInv, Restore, RestoreNode
<1>8. RecordedInv'
  <2>1. \A q \in Procs : work'[q] \subseteq work[q]
    BY DEF IndInv, Types, TypeLocal, Restore, RestoreNode
  <2>2. UNCHANGED <<wal, holders>> /\ \A q \in Procs : pc'[q] = pc[q] \/ pc'[q] \in {"failed", "stop"}
    BY DEF IndInv, Types, TypePc, Restore, RestoreNode
  <2> QED
    BY <2>1, <2>2 DEF IndInv, RecordedInv
<1>9. UntouchedInv'
  BY DEF IndInv, Types, TypePc, TypeSets, TypeTree, TypeLocal, LockInv, AbsentInv,
      UntouchedInv, Restore, RestoreNode
<1>10. FinalInv'
  BY DEF IndInv, Types, TypePc, TypeLocal, LockInv, FinalInv, Hardened, Restore, RestoreNode
<1>11. TruthInv'
  BY DEF IndInv, Types, TypeSets, LockInv, StateInv, UntouchedInv, FinalInv, TruthInv,
      RolledBackIsClean, CommittedIsWhole, ReleasedIsSettled, Hardened, Settled, Restore,
      RestoreNode
<1> QED
  BY <1>1, <1>2, <1>3, <1>4, <1>5, <1>6, <1>7, <1>8, <1>9, <1>10, <1>11 DEF IndInv, Types

\* IndInv survives a recovery that stops.
LEMMA StopStep ==
    ASSUME IndInv, NEW p \in Procs, Stop(p)
    PROVE  IndInv'
<1>1. TypePc' /\ TypeSets'
  BY DEF IndInv, Types, TypePc, TypeSets, Labels, Stop, BestEffort, Transition, AppendOk,
      AppendFailed, Land
<1>2. TypeDisk' /\ TypeTree'
  BY StatesAre DEF IndInv, Types, TypePc, TypeDisk, TypeTree, TypeMem, Stop, BestEffort,
      Transition, AppendOk, AppendFailed, Land
<1>3. TypeMem'
  BY StatesAre DEF IndInv, Types, TypePc, TypeMem, TypeDisk, Stop, BestEffort, Transition,
      AppendOk, AppendFailed, Land
<1>4. TypeLocal'
  BY DEF IndInv, Types, TypePc, TypeLocal, TypeDisk, FinalInv, Classified, Stop, BestEffort,
      Transition, AppendOk, AppendFailed, Land
<1>5. LockInv' /\ HandleInv'
  BY DEF IndInv, Types, TypePc, TypeSets, LockInv, HandleInv, Stop, BestEffort, Transition,
      AppendOk, AppendFailed, Land
<1>6. CopyInv'
  BY Writes, BestEffortCopy DEF IndInv, Types, Stop
<1>7. AbsentInv' /\ StateInv'
  BY DEF IndInv, Types, TypePc, LockInv, HandleInv, AbsentInv, StateInv, Stop, BestEffort,
      Transition, AppendOk, AppendFailed, Land
<1>8. RecordedInv' /\ UntouchedInv' /\ FinalInv'
  BY DEF IndInv, Types, TypePc, TypeLocal, LockInv, RecordedInv, UntouchedInv, FinalInv,
      AllMutated, Hardened, Stop, BestEffort, Transition, AppendOk, AppendFailed, Land
<1>9. TruthInv'
  BY DEF IndInv, Types, TypeSets, LockInv, TruthInv, RolledBackIsClean, CommittedIsWhole,
      ReleasedIsSettled, Hardened, Stop, BestEffort, Transition, AppendOk, AppendFailed, Land
<1> QED
  BY <1>1, <1>2, <1>3, <1>4, <1>5, <1>6, <1>7, <1>8, <1>9 DEF IndInv, Types

\* IndInv survives the end of a recovery's rollback.
LEMMA RestoredStep ==
    ASSUME IndInv, NEW p \in Procs, Restored(p)
    PROVE  IndInv'
<1>1. TypePc' /\ TypeSets'
  BY DEF IndInv, Types, TypePc, TypeSets, Labels, Restored, Transition, AppendOk,
      AppendFailed, Land
<1>2. TypeDisk' /\ TypeTree'
  BY StatesAre DEF IndInv, Types, TypePc, TypeDisk, TypeTree, TypeMem, Restored, Transition,
      AppendOk, AppendFailed, Land
<1>3. TypeMem'
  BY AppendTypes, StatesAre, Writes DEF IndInv, Types, TypeMem, Transition, Restored
<1>4. TypeLocal'
  BY DEF IndInv, Types, TypePc, TypeLocal, TypeDisk, FinalInv, Classified, Restored,
      Transition, AppendOk, AppendFailed, Land
<1>5. LockInv' /\ HandleInv'
  BY DEF IndInv, Types, TypePc, TypeSets, LockInv, HandleInv, Restored, Transition, AppendOk,
      AppendFailed, Land
<1>6. CopyInv'
  BY Writes, TransitionCopy DEF IndInv, Types, Restored
<1>7. AbsentInv'
  BY DEF IndInv, AbsentInv, Restored, Transition, AppendOk, AppendFailed, Land
<1>8. StateInv'
  BY StatesAre DEF IndInv, Types, TypePc, TypeSets, TypeMem, TypeDisk, LockInv, HandleInv,
      CopyInv, AbsentInv, StateInv, Settled, Restored, Transition, AppendOk, AppendFailed,
      Land
<1>9. RecordedInv' /\ UntouchedInv' /\ FinalInv'
  BY DEF IndInv, Types, TypePc, TypeLocal, LockInv, RecordedInv, UntouchedInv, FinalInv,
      AllMutated, Hardened, Restored, Transition, AppendOk, AppendFailed, Land
<1>10. TruthInv'
  BY DEF IndInv, Types, TypeSets, LockInv, StateInv, UntouchedInv, FinalInv, TruthInv,
      RolledBackIsClean, CommittedIsWhole, ReleasedIsSettled, Hardened, Settled, Restored,
      Transition, AppendOk, AppendFailed, Land
<1> QED
  BY <1>1, <1>2, <1>3, <1>4, <1>5, <1>6, <1>7, <1>8, <1>9, <1>10 DEF IndInv, Types

\* IndInv survives the finalizer's look at the journal.
LEMMA FinReadStep ==
    ASSUME IndInv, NEW p \in Procs, FinRead(p)
    PROVE  IndInv'
<1>1. TypePc' /\ TypeSets'
  BY DEF IndInv, Types, TypePc, TypeSets, Labels, FinRead
<1>2. TypeDisk' /\ TypeTree'
  BY StatesAre DEF IndInv, Types, TypePc, TypeDisk, TypeTree, TypeMem, FinRead
<1>3. TypeMem'
  BY StatesAre DEF IndInv, Types, TypePc, TypeMem, TypeDisk, FinRead
<1>4. TypeLocal'
  BY DEF IndInv, Types, TypePc, TypeLocal, TypeDisk, FinalInv, Classified, FinRead
<1>5. LockInv'
  BY DEF IndInv, Types, TypePc, TypeSets, LockInv, StateInv, FinRead
<1>6. HandleInv'
  BY DEF IndInv, Types, TypePc, TypeSets, HandleInv, FinRead
<1>7. CopyInv'
  BY DEF IndInv, Types, TypePc, CopyInv, FinRead
<1>8. AbsentInv' /\ StateInv'
  BY DEF IndInv, Types, TypePc, LockInv, HandleInv, AbsentInv, StateInv, FinRead
<1>9. RecordedInv'
  BY DEF IndInv, Types, TypePc, RecordedInv, FinRead
<1>10. UntouchedInv'
  BY DEF IndInv, Types, TypePc, UntouchedInv, FinRead
<1>11. FinalInv'
  BY DEF IndInv, Types, TypePc, TypeLocal, LockInv, FinalInv, Hardened, FinRead
<1>12. TruthInv'
  BY DEF IndInv, Types, TypeSets, LockInv, TruthInv, RolledBackIsClean, CommittedIsWhole,
      ReleasedIsSettled, Hardened, FinRead
<1> QED
  BY <1>1, <1>2, <1>3, <1>4, <1>5, <1>6, <1>7, <1>8, <1>9, <1>10, <1>11, <1>12 DEF IndInv, Types

\* IndInv survives a finalization that does not apply.
LEMMA NotApplicableStep ==
    ASSUME IndInv, NEW p \in Procs, NotApplicable(p)
    PROVE  IndInv'
<1>1. Types'
  BY DEF IndInv, Types, TypePc, TypeSets, TypeDisk, TypeTree, TypeMem, TypeLocal, Labels,
      NotApplicable, Return
<1>2. LockInv'
  <2>1. p \notin holders
    BY Writes, StatesAre DEF IndInv, CopyInv, StateInv, RecordedInv, NotApplicable
  <2> QED
    BY <2>1 DEF IndInv, Types, TypePc, TypeSets, LockInv, NotApplicable, Return
<1>3. HandleInv'
  BY DEF IndInv, Types, TypePc, TypeSets, HandleInv, NotApplicable, Return
<1>4. CopyInv'
  BY ReturnCopy DEF IndInv, Types, NotApplicable
<1>5. AbsentInv' /\ StateInv'
  BY DEF IndInv, Types, TypePc, LockInv, HandleInv, AbsentInv, StateInv, NotApplicable, Return
<1>6. RecordedInv' /\ UntouchedInv' /\ FinalInv'
  BY DEF IndInv, Types, TypePc, TypeLocal, LockInv, RecordedInv, UntouchedInv, FinalInv,
      AllMutated, Hardened, NotApplicable, Return
<1>7. TruthInv'
  BY DEF IndInv, TruthInv, RolledBackIsClean, CommittedIsWhole, ReleasedIsSettled,
      NotApplicable, Return
<1> QED
  BY <1>1, <1>2, <1>3, <1>4, <1>5, <1>6, <1>7 DEF IndInv

\* IndInv survives a finalizer that takes the lock.
LEMMA FinTakeStep ==
    ASSUME IndInv, NEW p \in Procs, FinTake(p)
    PROVE  IndInv'
<1>1. Types'
  BY DEF IndInv, Types, TypePc, TypeSets, TypeDisk, TypeTree, TypeMem, TypeLocal, Labels,
      FinTake, Acquirable, Acquire
<1>2. LockInv' /\ HandleInv'
  BY DEF IndInv, Types, TypePc, TypeSets, LockInv, HandleInv, FinTake, Acquirable, Acquire
<1>3. CopyInv'
  BY DEF IndInv, Types, TypePc, CopyInv, FinTake, Acquirable, Acquire
<1>4. AbsentInv'
  BY DEF IndInv, AbsentInv, FinTake, Acquirable, Acquire
<1>5. StateInv'
  BY StatesAre DEF IndInv, Types, TypePc, TypeSets, TypeMem, TypeDisk, LockInv, HandleInv,
      CopyInv, AbsentInv, StateInv, Settled, FinTake, Acquirable, Acquire
<1>6. RecordedInv' /\ UntouchedInv' /\ FinalInv'
  BY DEF IndInv, Types, TypePc, TypeLocal, LockInv, RecordedInv, UntouchedInv, FinalInv,
      AllMutated, Hardened, FinTake, Acquirable, Acquire
<1>7. TruthInv'
  BY DEF IndInv, Types, TypeSets, LockInv, TruthInv, RolledBackIsClean, CommittedIsWhole,
      ReleasedIsSettled, Hardened, FinTake, Acquirable, Acquire
<1> QED
  BY <1>1, <1>2, <1>3, <1>4, <1>5, <1>6, <1>7 DEF IndInv

\* IndInv survives the entry into a phase of the finalization.
LEMMA EnterPhaseStep ==
    ASSUME IndInv, NEW p \in Procs, EnterPhase(p)
    PROVE  IndInv'
<1>1. TypePc' /\ TypeSets'
  BY DEF IndInv, Types, TypePc, TypeSets, Labels, EnterPhase, AppendOk, AppendFailed, Land
<1>2. TypeDisk' /\ TypeTree'
  BY AppendTypes, StatesAre, NextPhaseIs, Writes DEF IndInv, Types, TypeMem, CopyInv, StateInv, TypeTree, EnterPhase
<1>3. TypeMem'
  BY AppendTypes, StatesAre, NextPhaseIs, Writes DEF IndInv, Types, TypeMem, CopyInv, StateInv, TypeTree, EnterPhase
<1>4. TypeLocal'
  BY DEF IndInv, Types, TypePc, TypeLocal, TypeDisk, FinalInv, Classified, EnterPhase,
      AppendOk, AppendFailed, Land
<1>5. LockInv' /\ HandleInv'
  BY DEF IndInv, Types, TypePc, TypeSets, LockInv, HandleInv, EnterPhase, AppendOk,
      AppendFailed, Land
<1>6. CopyInv'
  BY Writes, AppendOkCopy, AppendFailedCopy DEF IndInv, Types, EnterPhase
<1>7. AbsentInv'
  BY NextPhaseIs, StatesAre DEF IndInv, Types, TypePc, TypeSets, TypeMem, TypeDisk, LockInv,
      HandleInv, CopyInv, AbsentInv, StateInv, EnterPhase, AppendOk, AppendFailed, Land
<1>8. StateInv'
  BY NextPhaseIs, StatesAre DEF IndInv, Types, TypePc, TypeSets, TypeMem, TypeDisk, LockInv,
      HandleInv, CopyInv, AbsentInv, StateInv, Settled, EnterPhase, AppendOk, AppendFailed,
      Land
<1>9. RecordedInv' /\ UntouchedInv' /\ FinalInv'
  BY DEF IndInv, Types, TypePc, TypeLocal, LockInv, RecordedInv, UntouchedInv, FinalInv,
      AllMutated, Hardened, EnterPhase, AppendOk, AppendFailed, Land
<1>10. TruthInv'
  BY NextPhaseIs, StatesAre DEF IndInv, Types, TypePc, TypeSets, TypeMem, TypeDisk, LockInv,
      HandleInv, CopyInv, AbsentInv, StateInv, UntouchedInv, FinalInv, TruthInv,
      RolledBackIsClean, CommittedIsWhole, ReleasedIsSettled, Hardened, Settled, Terminal,
      EnterPhase, AppendOk, AppendFailed, Land
<1> QED
  BY <1>1, <1>2, <1>3, <1>4, <1>5, <1>6, <1>7, <1>8, <1>9, <1>10 DEF IndInv, Types

\* IndInv survives the last gates.
LEMMA GatesDoneStep ==
    ASSUME IndInv, NEW p \in Procs, GatesDone(p)
    PROVE  IndInv'
<1>1. Types'
  BY DEF IndInv, Types, TypePc, TypeSets, TypeDisk, TypeTree, TypeMem, TypeLocal, Labels,
      GatesDone, GatesPass
<1>2. LockInv' /\ HandleInv'
  BY DEF IndInv, Types, TypePc, TypeSets, LockInv, HandleInv, GatesDone, GatesPass
<1>3. CopyInv'
  BY DEF IndInv, Types, TypePc, CopyInv, GatesDone, GatesPass
<1>4. AbsentInv'
  BY DEF IndInv, AbsentInv, GatesDone, GatesPass
<1>5. StateInv'
  BY StatesAre DEF IndInv, Types, TypePc, TypeSets, TypeMem, TypeDisk, LockInv, HandleInv,
      CopyInv, AbsentInv, StateInv, Settled, GatesDone, GatesPass
<1>6. RecordedInv' /\ UntouchedInv' /\ FinalInv'
  BY DEF IndInv, Types, TypePc, TypeLocal, LockInv, RecordedInv, UntouchedInv, FinalInv,
      AllMutated, Hardened, GatesDone, GatesPass
<1>7. TruthInv'
  BY DEF IndInv, Types, TypeSets, LockInv, TruthInv, RolledBackIsClean, CommittedIsWhole,
      ReleasedIsSettled, Hardened, GatesDone, GatesPass
<1> QED
  BY <1>1, <1>2, <1>3, <1>4, <1>5, <1>6, <1>7 DEF IndInv

\* IndInv survives a gate that fails.
LEMMA GateFailsStep ==
    ASSUME IndInv, NEW p \in Procs, GateFails(p)
    PROVE  IndInv'
<1>1. Types'
  BY DEF IndInv, Types, TypePc, TypeSets, TypeDisk, TypeTree, TypeMem, TypeLocal, Labels,
      GateFails
<1>2. LockInv' /\ HandleInv'
  BY DEF IndInv, Types, TypePc, TypeSets, LockInv, HandleInv, GateFails
<1>3. CopyInv'
  BY DEF IndInv, Types, TypePc, CopyInv, GateFails
<1>4. AbsentInv' /\ StateInv'
  BY DEF IndInv, Types, TypePc, LockInv, HandleInv, AbsentInv, StateInv, GateFails
<1>5. RecordedInv' /\ UntouchedInv' /\ FinalInv'
  BY DEF IndInv, Types, TypePc, TypeLocal, LockInv, RecordedInv, UntouchedInv, FinalInv,
      AllMutated, Hardened, GateFails
<1>6. TruthInv'
  BY DEF IndInv, Types, TypeSets, LockInv, TruthInv, RolledBackIsClean, CommittedIsWhole,
      ReleasedIsSettled, Hardened, GateFails
<1> QED
  BY <1>1, <1>2, <1>3, <1>4, <1>5, <1>6 DEF IndInv

\* IndInv survives a finalization that is unwound.
LEMMA UnwindStep ==
    ASSUME IndInv, NEW p \in Procs, Unwind(p)
    PROVE  IndInv'
<1>1. TypePc' /\ TypeSets'
  BY DEF IndInv, Types, TypePc, TypeSets, Labels, Unwind, Transition, AppendOk, AppendFailed,
      Land
<1>2. TypeDisk' /\ TypeTree'
  BY StatesAre DEF IndInv, Types, TypePc, TypeDisk, TypeTree, TypeMem, Unwind, Transition,
      AppendOk, AppendFailed, Land
<1>3. TypeMem'
  BY StatesAre DEF IndInv, Types, TypePc, TypeMem, TypeDisk, Unwind, Transition, AppendOk,
      AppendFailed, Land
<1>4. TypeLocal'
  BY DEF IndInv, Types, TypePc, TypeLocal, TypeDisk, FinalInv, Classified, Unwind, Transition,
      AppendOk, AppendFailed, Land
<1>5. LockInv' /\ HandleInv'
  BY DEF IndInv, Types, TypePc, TypeSets, LockInv, HandleInv, Unwind, Transition, AppendOk,
      AppendFailed, Land
<1>6. CopyInv'
  BY Writes, TransitionCopy DEF IndInv, Types, Unwind
<1>7. AbsentInv' /\ StateInv'
  BY DEF IndInv, Types, TypePc, LockInv, HandleInv, AbsentInv, StateInv, Unwind, Transition,
      AppendOk, AppendFailed, Land
<1>8. RecordedInv'
  BY DEF IndInv, Types, TypePc, RecordedInv, Unwind, Transition, AppendOk, AppendFailed, Land
<1>9. UntouchedInv'
  BY DEF IndInv, Types, TypePc, UntouchedInv, Unwind, Transition, AppendOk, AppendFailed, Land
<1>10. FinalInv'
  BY DEF IndInv, Types, TypePc, TypeLocal, LockInv, FinalInv, Hardened, Unwind, Transition,
      AppendOk, AppendFailed, Land
<1>11. TruthInv'
  BY DEF IndInv, Types, TypeSets, LockInv, TruthInv, RolledBackIsClean, CommittedIsWhole,
      ReleasedIsSettled, Hardened, Unwind, Transition, AppendOk, AppendFailed, Land
<1> QED
  BY <1>1, <1>2, <1>3, <1>4, <1>5, <1>6, <1>7, <1>8, <1>9, <1>10, <1>11 DEF IndInv, Types

\* IndInv survives an attempt to archive the backup.
LEMMA ArchiveStep ==
    ASSUME IndInv, NEW p \in Procs, Archive(p)
    PROVE  IndInv'
<1>1. TypePc' /\ TypeSets'
  BY DEF IndInv, Types, TypePc, TypeSets, Labels, Archive
<1>2. TypeDisk' /\ TypeTree'
  BY StatesAre DEF IndInv, Types, TypePc, TypeDisk, TypeTree, TypeMem, Archive
<1>3. TypeMem'
  BY StatesAre DEF IndInv, Types, TypePc, TypeMem, TypeDisk, Archive
<1>4. TypeLocal'
  BY DEF IndInv, Types, TypePc, TypeLocal, TypeDisk, FinalInv, Classified, Archive
<1>5. LockInv' /\ HandleInv'
  BY DEF IndInv, Types, TypePc, TypeSets, LockInv, HandleInv, Archive
<1>6. CopyInv'
  BY DEF IndInv, Types, TypePc, CopyInv, Archive
<1>7. AbsentInv' /\ StateInv'
  BY StatesAre DEF IndInv, Types, TypePc, LockInv, HandleInv, AbsentInv, StateInv, Archive
<1>8. RecordedInv' /\ UntouchedInv' /\ FinalInv'
  BY DEF IndInv, Types, TypePc, TypeLocal, LockInv, RecordedInv, UntouchedInv, FinalInv,
      AllMutated, Hardened, Archive
<1>9. TruthInv'
  BY DEF IndInv, Types, TypeSets, LockInv, TruthInv, RolledBackIsClean, CommittedIsWhole,
      ReleasedIsSettled, Hardened, Archive
<1> QED
  BY <1>1, <1>2, <1>3, <1>4, <1>5, <1>6, <1>7, <1>8, <1>9 DEF IndInv, Types

\* IndInv survives the commit.
LEMMA CommitStep ==
    ASSUME IndInv, NEW p \in Procs, Commit(p)
    PROVE  IndInv'
<1>1. TypePc' /\ TypeSets'
  BY DEF IndInv, Types, TypePc, TypeSets, Labels, Commit, AppendOk, AppendFailed, Land
<1>2. TypeDisk' /\ TypeTree'
  BY StatesAre DEF IndInv, Types, TypePc, TypeDisk, TypeTree, TypeMem, Commit, AppendOk,
      AppendFailed, Land
<1>3. TypeMem'
  BY AppendTypes, StatesAre DEF IndInv, Types, TypeMem, Commit
<1>4. TypeLocal'
  BY DEF IndInv, Types, TypePc, TypeLocal, TypeDisk, FinalInv, Classified, Commit, AppendOk,
      AppendFailed, Land
<1>5. LockInv' /\ HandleInv'
  BY DEF IndInv, Types, TypePc, TypeSets, LockInv, HandleInv, Commit, AppendOk, AppendFailed,
      Land
<1>6. CopyInv'
  BY Writes, AppendOkCopy, AppendFailedCopy DEF IndInv, Types, Commit
<1>7. AbsentInv'
  BY DEF IndInv, AbsentInv, Commit, AppendOk, AppendFailed, Land
<1>8. StateInv'
  BY StatesAre DEF IndInv, Types, TypePc, TypeSets, TypeMem, TypeDisk, LockInv, HandleInv,
      CopyInv, AbsentInv, StateInv, Settled, Commit, AppendOk, AppendFailed, Land
<1>9. RecordedInv'
  BY DEF IndInv, Types, TypePc, RecordedInv, Commit, AppendOk, AppendFailed, Land
<1>10. UntouchedInv'
  BY DEF IndInv, Types, TypePc, UntouchedInv, Commit, AppendOk, AppendFailed, Land
<1>11. FinalInv'
  BY DEF IndInv, Types, TypePc, TypeLocal, LockInv, FinalInv, Hardened, Commit, AppendOk,
      AppendFailed, Land
<1>12. TruthInv'
  BY DEF IndInv, Types, TypeSets, LockInv, StateInv, UntouchedInv, FinalInv, TruthInv,
      RolledBackIsClean, CommittedIsWhole, ReleasedIsSettled, Hardened, Settled, Commit,
      AppendOk, AppendFailed, Land
<1> QED
  BY <1>1, <1>2, <1>3, <1>4, <1>5, <1>6, <1>7, <1>8, <1>9, <1>10, <1>11, <1>12 DEF IndInv, Types

\* IndInv survives the end of a call that keeps the lock for inspection.
LEMMA EndRetainedStep ==
    ASSUME IndInv, NEW p \in Procs, EndRetained(p)
    PROVE  IndInv'
<1>1. Types'
  BY DEF IndInv, Types, TypePc, TypeSets, TypeDisk, TypeTree, TypeMem, TypeLocal, Labels,
      EndRetained, Retain, Return
<1>2. LockInv' /\ HandleInv'
  BY DEF IndInv, Types, TypePc, TypeSets, LockInv, HandleInv, EndRetained, Retain, Return
<1>3. CopyInv'
  BY ReturnCopy DEF IndInv, Types, EndRetained
<1>4. AbsentInv' /\ StateInv'
  BY DEF IndInv, Types, TypePc, LockInv, HandleInv, AbsentInv, StateInv, EndRetained, Retain,
      Return
<1>5. RecordedInv' /\ UntouchedInv' /\ FinalInv'
  BY DEF IndInv, Types, TypePc, TypeLocal, LockInv, RecordedInv, UntouchedInv, FinalInv,
      AllMutated, Hardened, EndRetained, Retain, Return
<1>6. TruthInv'
  BY DEF IndInv, Types, TypeSets, LockInv, TruthInv, RolledBackIsClean, CommittedIsWhole,
      ReleasedIsSettled, Hardened, EndRetained, Retain, Return
<1> QED
  BY <1>1, <1>2, <1>3, <1>4, <1>5, <1>6 DEF IndInv

\* IndInv survives the end of a call that releases the lock.
LEMMA EndReleasedStep ==
    ASSUME IndInv, NEW p \in Procs, EndReleased(p)
    PROVE  IndInv'
<1>1. Types'
  BY DEF IndInv, Types, TypePc, TypeSets, TypeDisk, TypeTree, TypeMem, TypeLocal, Labels,
      EndReleased, Release, Return
<1>2. LockInv' /\ HandleInv'
  BY DEF IndInv, Types, TypePc, TypeSets, LockInv, HandleInv, EndReleased, Release, Return
<1>3. CopyInv'
  BY ReturnCopy DEF IndInv, Types, EndReleased
<1>4. AbsentInv' /\ StateInv'
  BY DEF IndInv, Types, TypePc, LockInv, HandleInv, AbsentInv, StateInv, EndReleased, Release,
      Return
<1>5. RecordedInv' /\ UntouchedInv' /\ FinalInv'
  BY DEF IndInv, Types, TypePc, TypeLocal, LockInv, RecordedInv, UntouchedInv, FinalInv,
      AllMutated, Hardened, EndReleased, Release, Return
<1>6. TruthInv'
  BY DEF IndInv, Types, TypeSets, LockInv, StateInv, UntouchedInv, FinalInv, TruthInv,
      RolledBackIsClean, CommittedIsWhole, ReleasedIsSettled, Hardened, Settled, EndReleased,
      Release, Return
<1> QED
  BY <1>1, <1>2, <1>3, <1>4, <1>5, <1>6 DEF IndInv

\* IndInv survives a privileged session taking the lock.
LEMMA EstablishStep ==
    ASSUME IndInv, NEW p \in Procs, Establish(p)
    PROVE  IndInv'
<1>1. Types'
  BY StatesAre DEF IndInv, Types, TypePc, TypeSets, TypeDisk, TypeTree, TypeMem, TypeLocal,
      Labels, Establish, Acquirable, Acquire, AcquireFailed
<1>2. LockInv' /\ HandleInv'
  BY DEF IndInv, Types, TypePc, TypeSets, LockInv, HandleInv, Establish, Acquirable, Acquire,
      AcquireFailed
<1>3. CopyInv'
  BY DEF IndInv, Types, TypePc, CopyInv, Establish, Acquirable, Acquire, AcquireFailed
<1>4. AbsentInv' /\ StateInv'
  BY DEF IndInv, Types, TypePc, LockInv, HandleInv, AbsentInv, StateInv, Establish,
      Acquirable, Acquire, AcquireFailed
<1>5. RecordedInv' /\ UntouchedInv' /\ FinalInv'
  BY DEF IndInv, Types, TypePc, TypeLocal, LockInv, RecordedInv, UntouchedInv, FinalInv,
      AllMutated, Hardened, Establish, Acquirable, Acquire, AcquireFailed
<1>6. TruthInv'
  BY DEF IndInv, Types, TypeSets, LockInv, TruthInv, RolledBackIsClean, CommittedIsWhole,
      ReleasedIsSettled, Hardened, Establish, Acquirable, Acquire, AcquireFailed
<1> QED
  BY <1>1, <1>2, <1>3, <1>4, <1>5, <1>6 DEF IndInv

\* IndInv survives the end of a session.
LEMMA CloseSessionStep ==
    ASSUME IndInv, NEW p \in Procs, CloseSession(p)
    PROVE  IndInv'
<1>1. Types'
  BY DEF IndInv, Types, TypePc, TypeSets, TypeDisk, TypeTree, TypeMem, TypeLocal, Labels,
      CloseSession, Release, Return
<1>2. LockInv' /\ HandleInv'
  BY DEF IndInv, Types, TypePc, TypeSets, LockInv, HandleInv, CloseSession, Release, Return
<1>3. CopyInv'
  BY ReturnCopy DEF IndInv, Types, CloseSession
<1>4. AbsentInv' /\ StateInv'
  BY DEF IndInv, Types, TypePc, LockInv, HandleInv, AbsentInv, StateInv, CloseSession,
      Release, Return
<1>5. RecordedInv' /\ UntouchedInv' /\ FinalInv'
  BY DEF IndInv, Types, TypePc, TypeLocal, LockInv, RecordedInv, UntouchedInv, FinalInv,
      AllMutated, Hardened, CloseSession, Release, Return
<1>6. TruthInv'
  BY DEF IndInv, Types, TypeSets, LockInv, TruthInv, RolledBackIsClean, CommittedIsWhole,
      ReleasedIsSettled, Hardened, CloseSession, Release, Return
<1> QED
  BY <1>1, <1>2, <1>3, <1>4, <1>5, <1>6 DEF IndInv

\* IndInv survives the classification of the plan.
LEMMA ReadPlanStep ==
    ASSUME IndInv, NEW p \in Procs, ReadPlan(p)
    PROVE  IndInv'
<1>1. TypePc' /\ TypeSets'
  BY DEF IndInv, Types, TypePc, TypeSets, Labels, ReadPlan
<1>2. TypeDisk' /\ TypeTree'
  BY StatesAre DEF IndInv, Types, TypePc, TypeDisk, TypeTree, TypeMem, ReadPlan
<1>3. TypeMem'
  BY StatesAre DEF IndInv, Types, TypePc, TypeMem, TypeDisk, ReadPlan
<1>4. TypeLocal'
  BY DEF IndInv, Types, TypePc, TypeLocal, TypeDisk, FinalInv, Classified, ReadPlan
<1>5. LockInv' /\ HandleInv'
  BY DEF IndInv, Types, TypePc, TypeSets, LockInv, HandleInv, ReadPlan
<1>6. CopyInv'
  BY DEF IndInv, Types, TypePc, CopyInv, ReadPlan
<1>7. AbsentInv' /\ StateInv'
  BY DEF IndInv, Types, TypePc, LockInv, HandleInv, AbsentInv, StateInv, ReadPlan
<1>8. RecordedInv' /\ UntouchedInv' /\ FinalInv'
  BY DEF IndInv, Types, TypePc, TypeLocal, LockInv, RecordedInv, UntouchedInv, FinalInv,
      AllMutated, Hardened, ReadPlan
<1>9. TruthInv'
  BY DEF IndInv, Types, TypeSets, LockInv, TruthInv, RolledBackIsClean, CommittedIsWhole,
      ReleasedIsSettled, Hardened, ReadPlan
<1> QED
  BY <1>1, <1>2, <1>3, <1>4, <1>5, <1>6, <1>7, <1>8, <1>9 DEF IndInv, Types

\* IndInv survives a finalizer opening the journal.
LEMMA StartFinalizeStep ==
    ASSUME IndInv, NEW p \in Procs, StartFinalize(p)
    PROVE  IndInv'
<1>1. Types'
  BY DEF IndInv, Types, TypePc, TypeSets, TypeDisk, TypeTree, TypeMem, TypeLocal, Labels,
      StartFinalize, OpenJournal, Classified
<1>2. LockInv' /\ HandleInv'
  BY DEF IndInv, Types, TypePc, TypeSets, LockInv, HandleInv, StartFinalize, OpenJournal,
      Classified
<1>3. CopyInv'
  BY DEF IndInv, Types, TypePc, TypeSets, TypeMem, CopyInv, StartFinalize, OpenJournal,
      Classified
<1>4. AbsentInv' /\ StateInv'
  BY DEF IndInv, Types, TypePc, LockInv, HandleInv, AbsentInv, StateInv, StartFinalize,
      OpenJournal, Classified
<1>5. RecordedInv'
  <2>1. p \notin holders
    BY DEF IndInv, LockInv, StartFinalize
  <2> QED
    BY <2>1 DEF IndInv, Types, TypePc, RecordedInv, AllMutated, StartFinalize
<1>6. UntouchedInv'
  BY DEF IndInv, Types, TypePc, UntouchedInv, StartFinalize, OpenJournal, Classified
<1>7. FinalInv'
  BY DEF IndInv, Types, TypePc, TypeLocal, LockInv, FinalInv, Hardened, StartFinalize,
      OpenJournal, Classified
<1>8. TruthInv'
  BY DEF IndInv, Types, TypeSets, LockInv, TruthInv, RolledBackIsClean, CommittedIsWhole,
      ReleasedIsSettled, Hardened, StartFinalize, OpenJournal, Classified
<1> QED
  BY <1>1, <1>2, <1>3, <1>4, <1>5, <1>6, <1>7, <1>8 DEF IndInv

\* IndInv survives a session that goes on to finalize.
LEMMA FinalizeInSessionStep ==
    ASSUME IndInv, NEW p \in Procs, FinalizeInSession(p)
    PROVE  IndInv'
<1>1. Types'
  BY DEF IndInv, Types, TypePc, TypeSets, TypeDisk, TypeTree, TypeMem, TypeLocal, Labels,
      FinalizeInSession
<1>2. LockInv' /\ HandleInv'
  BY DEF IndInv, Types, TypePc, TypeSets, LockInv, HandleInv, FinalizeInSession
<1>3. CopyInv'
  BY DEF IndInv, Types, TypePc, CopyInv, FinalizeInSession
<1>4. AbsentInv' /\ StateInv'
  BY DEF IndInv, Types, TypePc, LockInv, HandleInv, AbsentInv, StateInv, FinalizeInSession
<1>5. RecordedInv' /\ UntouchedInv' /\ FinalInv'
  BY DEF IndInv, Types, TypePc, TypeLocal, LockInv, RecordedInv, UntouchedInv, FinalInv,
      AllMutated, Hardened, FinalizeInSession
<1>6. TruthInv'
  BY DEF IndInv, Types, TypeSets, LockInv, TruthInv, RolledBackIsClean, CommittedIsWhole,
      ReleasedIsSettled, Hardened, FinalizeInSession
<1> QED
  BY <1>1, <1>2, <1>3, <1>4, <1>5, <1>6 DEF IndInv

\* IndInv survives a crash.
LEMMA CrashStep ==
    ASSUME IndInv, NEW p \in Procs, Crash(p)
    PROVE  IndInv'
<1>1. TypePc' /\ TypeSets'
  BY DEF IndInv, Types, TypePc, TypeSets, Labels, Crash, Return
<1>2. TypeDisk' /\ TypeTree'
  BY StatesAre DEF IndInv, Types, TypePc, TypeDisk, TypeTree, TypeMem, Crash, Return
<1>3. TypeMem'
  BY StatesAre DEF IndInv, Types, TypePc, TypeMem, TypeDisk, Crash, Return
<1>4. TypeLocal'
  BY DEF IndInv, Types, TypePc, TypeLocal, TypeDisk, FinalInv, Classified, Crash, Return
<1>5. LockInv' /\ HandleInv'
  BY DEF IndInv, Types, TypePc, TypeSets, LockInv, HandleInv, Crash, Return
<1>6. CopyInv'
  BY ReturnCopy DEF IndInv, Types, Crash
<1>7. AbsentInv' /\ StateInv'
  BY DEF IndInv, Types, TypePc, LockInv, HandleInv, AbsentInv, StateInv, Crash, Return
<1>8. RecordedInv' /\ UntouchedInv' /\ FinalInv'
  BY DEF IndInv, Types, TypePc, TypeLocal, LockInv, RecordedInv, UntouchedInv, FinalInv,
      AllMutated, Hardened, Crash, Return
<1>9. TruthInv'
  BY DEF IndInv, Types, TypeSets, LockInv, TruthInv, RolledBackIsClean, CommittedIsWhole,
      ReleasedIsSettled, Hardened, Crash, Return
<1> QED
  BY <1>1, <1>2, <1>3, <1>4, <1>5, <1>6, <1>7, <1>8, <1>9 DEF IndInv, Types

\* IndInv survives a change of the tree by somebody else: nobody has it.
LEMMA DriftStep ==
    ASSUME IndInv, Drift
    PROVE  IndInv'
<1>1. Types'
  BY DEF IndInv, Types, TypePc, TypeSets, TypeDisk, TypeTree, TypeMem, TypeLocal, Drift
<1>2. LockInv' /\ HandleInv' /\ CopyInv'
  BY DEF IndInv, LockInv, HandleInv, CopyInv, Drift
<1>3. AbsentInv' /\ StateInv'
  BY DEF IndInv, AbsentInv, StateInv, Drift
<1>4. RecordedInv'
  BY DEF IndInv, RecordedInv, Drift
<1>5. \A p \in Procs : pc[p] \notin Holding
  BY DEF IndInv, LockInv, Drift
<1>6. UntouchedInv' /\ FinalInv'
  BY <1>5 DEF IndInv, UntouchedInv, FinalInv, Drift
<1>7. TruthInv'
  BY DEF IndInv, TruthInv, RolledBackIsClean, CommittedIsWhole, ReleasedIsSettled, Terminal, Drift
<1> QED
  BY <1>1, <1>2, <1>3, <1>4, <1>6, <1>7 DEF IndInv

\* IndInv holds of a fresh operation.
LEMMA IndInvInit ==
    ASSUME Init
    PROVE  IndInv
<1>1. TypePc /\ TypeSets /\ TypeDisk /\ TypeTree
  BY DEF Init, TypePc, TypeSets, TypeDisk, TypeTree, Labels
<1>2. TypeMem /\ TypeLocal
  BY DEF Init, TypeMem, TypeLocal
<1>3. LockInv /\ HandleInv /\ CopyInv /\ AbsentInv
  BY DEF Init, LockInv, HandleInv, CopyInv, AbsentInv
<1>4. StateInv /\ RecordedInv /\ UntouchedInv /\ FinalInv
  BY DEF Init, StateInv, RecordedInv, UntouchedInv, FinalInv
<1>5. TruthInv
  BY DEF Init, TruthInv, RolledBackIsClean, CommittedIsWhole, ReleasedIsSettled
<1> QED
  BY <1>1, <1>2, <1>3, <1>4, <1>5 DEF IndInv, Types

\* Every step keeps the invariant.
LEMMA IndInvNext ==
    ASSUME IndInv, [Next]_vars
    PROVE  IndInv'
<1>1. ASSUME NEW p \in Procs, ApplyStep(p) PROVE IndInv'
  BY <1>1, PromotePlanStep, CreateJournalStep, PreCheckFailsStep, RecordIntentStep,
     ApplyTargetDaclStep, RecordCompletedStep, AllAppliedStep, RequireRollbackStep,
     BeginRollbackStep, UndoStep, RollbackDoneStep, RollbackFailedStep DEF ApplyStep
<1>2. ASSUME NEW p \in Procs, RecoverStep(p) PROVE IndInv'
  BY <1>2, ReadJournalStep, RefusedLockStep, TakeLockStep, DispatchBlindStep,
     DispatchUnreadableStep, DispatchFsmStep, RollbackStep, ScanStep, RestoreStep, StopStep,
     RestoredStep DEF RecoverStep
<1>3. ASSUME NEW p \in Procs, FinalizeStep(p) PROVE IndInv'
  BY <1>3, FinReadStep, NotApplicableStep, FinTakeStep, EnterPhaseStep, GatesDoneStep,
     GateFailsStep, UnwindStep, ArchiveStep, CommitStep DEF FinalizeStep
<1>4. ASSUME NEW p \in Procs, EndRetained(p) \/ EndReleased(p) \/ Establish(p) \/ CloseSession(p)
             \/ ReadPlan(p) \/ StartFinalize(p) \/ FinalizeInSession(p) \/ Crash(p)
      PROVE  IndInv'
  BY <1>4, EndRetainedStep, EndReleasedStep, EstablishStep, CloseSessionStep, ReadPlanStep,
     StartFinalizeStep, FinalizeInSessionStep, CrashStep
<1>5. CASE UNCHANGED vars
  <2>1. Types'
    BY <1>5 DEF IndInv, Types, TypePc, TypeSets, TypeDisk, TypeTree, TypeMem, TypeLocal, vars
  <2>2. LockInv' /\ HandleInv' /\ CopyInv' /\ AbsentInv' /\ StateInv'
    BY <1>5 DEF IndInv, LockInv, HandleInv, CopyInv, AbsentInv, StateInv, vars
  <2>3. RecordedInv' /\ UntouchedInv' /\ FinalInv'
    BY <1>5 DEF IndInv, RecordedInv, AllMutated, UntouchedInv, FinalInv, Hardened, vars
  <2>4. TruthInv'
    BY <1>5 DEF IndInv, TruthInv, RolledBackIsClean, CommittedIsWhole, ReleasedIsSettled,
        Hardened, vars
  <2> QED
    BY <2>1, <2>2, <2>3, <2>4 DEF IndInv
<1> QED
  BY <1>1, <1>2, <1>3, <1>4, <1>5, DriftStep DEF Next, CallStep

\* The inductive invariant holds in every reachable state.
LEMMA Invariant == Spec => []IndInv
  BY IndInvInit, IndInvNext, PTL DEF Spec

----------------------------------------------------------------------------
\* Every variable of the protection transaction has its type.
THEOREM TypeCorrect == Spec => []TypeOK
<1>1. IndInv => TypeOK
  BY DEF IndInv, Types, TypePc, TypeSets, TypeDisk, TypeTree, TypeMem, TypeLocal, TypeOK
<1> QED
  BY <1>1, Invariant, PTL

\* A journal that says rolled_back, written by mutation_executor or by
\* recovery_orchestrator, tells the truth about every node.
THEOREM RollbackIsTrue == Spec => []RolledBackIsClean
<1>1. IndInv => RolledBackIsClean
  BY DEF IndInv, TruthInv
<1> QED
  BY <1>1, Invariant, PTL

\* finalize_protection_transaction commits only what is hardened, unchanged
\* and backed up.
THEOREM CommitIsTrue == Spec => []CommittedIsWhole
<1>1. IndInv => CommittedIsWhole
  BY DEF IndInv, TruthInv
<1> QED
  BY <1>1, Invariant, PTL

\* A lock released by recovery or finalization leaves nothing unfinished.
THEOREM ReleaseIsSafe == Spec => []ReleasedIsSettled
<1>1. IndInv => ReleasedIsSettled
  BY DEF IndInv, TruthInv
<1> QED
  BY <1>1, Invariant, PTL

\* No process appends to a journal that has moved on since it read it.
THEOREM SingleWriter == Spec => []OneWriter
<1>1. IndInv => OneWriter
  BY DEF IndInv, CopyInv, OneWriter
<1> QED
  BY <1>1, Invariant, PTL

\* Every node that mutation_executor or a recovery changes has its intent in
\* the journal at that moment.
THEOREM RecordedNodes == Spec => OnlyRecordedNodes
<1> DEFINE Recorded == \A n \in Node : sd'[n] # sd[n] /\ wal[n] = "none" => sd'[n] = "other"
<1>1. ASSUME IndInv, [Next]_vars
      PROVE  [Recorded]_vars
  <2>1. CASE UNCHANGED sd
    BY <2>1
  <2>2. ASSUME NEW p \in Procs, ApplyTargetDacl(p) PROVE Recorded
    BY <1>1, <2>2, PermitIs DEF IndInv, Types, TypeTree, ApplyTargetDacl
  <2>3. ASSUME NEW p \in Procs, NEW l, RestoreNode(p, l) PROVE Recorded
    <3>1. Max(work[p]) \in work[p] /\ wal[Max(work[p])] # "none"
      BY <1>1, <2>3, NodeBounds DEF IndInv, Types, TypeLocal, RecordedInv, RestoreNode
    <3> QED
      BY <1>1, <2>3, <3>1 DEF IndInv, Types, TypeTree, RestoreNode
  <2>4. CASE Drift
    BY <1>1, <2>4 DEF IndInv, Types, TypeTree, Drift
  <2>5. ASSUME NEW p \in Procs, ApplyStep(p) PROVE [Recorded]_vars
    <3>1. CASE ApplyTargetDacl(p) \/ Undo(p)
      BY <3>1, <2>2, <2>3 DEF Undo
    <3>2. CASE ~(ApplyTargetDacl(p) \/ Undo(p))
      BY <2>1, <2>5, <3>2 DEF ApplyStep, PromotePlan, CreateJournal, PreCheckFails, RecordIntent,
         RecordCompleted, AllApplied, RequireRollback, BeginRollback, RollbackDone, RollbackFailed
    <3> QED
      BY <3>1, <3>2
  <2>6. ASSUME NEW p \in Procs, RecoverStep(p) PROVE [Recorded]_vars
    <3>1. CASE Restore(p)
      BY <3>1, <2>3 DEF Restore
    <3>2. CASE ~Restore(p)
      BY <2>1, <2>6, <3>2 DEF RecoverStep, ReadJournal, RefusedLock, Return, TakeLock,
         DispatchBlind, DispatchUnreadable, DispatchFsm, Rollback, Scan, Stop, Restored
    <3> QED
      BY <3>1, <3>2
  <2>7. ASSUME NEW p \in Procs, FinalizeStep(p) PROVE [Recorded]_vars
    BY <2>1, <2>7 DEF FinalizeStep, FinRead, NotApplicable, Return, FinTake, EnterPhase,
       GatesDone, GateFails, Unwind, Archive, Commit
  <2>8. ASSUME NEW p \in Procs, EndRetained(p) \/ EndReleased(p) \/ Establish(p) \/ CloseSession(p)
               \/ ReadPlan(p) \/ StartFinalize(p) \/ FinalizeInSession(p) \/ Crash(p)
        PROVE  [Recorded]_vars
    BY <2>1, <2>8 DEF EndRetained, EndReleased, Establish, CloseSession, ReadPlan, StartFinalize,
       FinalizeInSession, Crash, Return
  <2> QED
    BY <1>1, <2>4, <2>5, <2>6, <2>7, <2>8 DEF Next, CallStep
<1> QED
  BY <1>1, Invariant, PTL DEF Spec, OnlyRecordedNodes
=============================================================================
