---------------------- MODULE SandboxPromotionProofs ----------------------
(***************************************************************************)
(* Proofs about SandboxPromotion, for every finite set of files, every     *)
(* number of edits, faults and cancellations.                              *)
(*                                                                         *)
(* The argument: without a teardown the thread of promote() runs only      *)
(* while the flow waits for it, so the clone is there and nobody discards  *)
(* it (FlowInv, CloneInv).  The drift gate finds the real tree as it was   *)
(* cloned but for what was edited since (EditInv, GateInv); from there on  *)
(* a file that nobody edits is as the operator approved it when its change *)
(* is in the list of changes made, and untouched otherwise (ChangeInv),    *)
(* with a backup where it had a content to lose (BackupInv).  The list     *)
(* names a file once, so undoing its last change makes the file untouched. *)
(* How the thread ends follows (EndInv, HeldInv), and what the journal     *)
(* says of it from the result that the flow carries (RowInv).              *)
(***************************************************************************)
EXTENDS SandboxPromotion, FiniteSetTheorems, TLAPS

\* TypeOK, taken apart; a list of changes names a file once.
TypeTree ==
    /\ real \in [Files -> Content] /\ base \in [Files -> Content]
    /\ copy \in [Files -> Content]
TypeBox ==
    /\ backup \in [Files -> Content \cup {"none"}] /\ rbdir \in BOOLEAN
    /\ clone \in {"none", "live", "gone"}
    /\ rbdir => clone = "live"
TypeFlow == pc \in Pcs /\ thread \in Threads /\ result \in Results
TypeMarks ==
    /\ torn \in BOOLEAN /\ unclean \in BOOLEAN
    /\ early \in [Files -> Content \cup {"none"}] /\ late \subseteq Files
TypeBounds ==
    edits \in 0..MaxEdits /\ faults \in 0..MaxFaults /\ cancels \in 0..MaxCancels
TypeRow ==
    /\ tx \in {"none", "pending", "committed", "rolled_back"}
    /\ staged \in {"none", "open", "commit"} /\ swept \in BOOLEAN
TypeList ==
    /\ applied \in Seq(Files)
    /\ \A i, j \in 1..Len(applied) : applied[i] = applied[j] => i = j
Types ==
    /\ TypeTree /\ TypeBox /\ TypeFlow /\ TypeMarks /\ TypeBounds /\ TypeRow
    /\ TypeList

\* Where the flow is while the thread is where it is, and the result it carries.
Waiting == {"promoting", "watching", "orphaned"}
FlowInv ==
    /\ pc \in {"idle", "cloning", "uncloning", "ritual", "asking"} => thread = "none"
    /\ pc \in Waiting => thread # "none"
    /\ ThreadRuns => pc \in Waiting \/ torn
    /\ thread = "dead" => pc \in {"crashed", "ended"}
    /\ thread = "rbfailed" /\ pc = "discarding" => torn
    /\ torn => result = "cancelled" /\ thread # "none"
    /\ result = "promoted" => thread = "ok"
    /\ pc \in Waiting \ {"promoting"} => result = "cancelled"
    /\ pc \in {"idle", "cloning", "uncloning", "ritual", "asking", "promoting"} => result = "none"
    /\ pc \in {"discarding", "journal"} /\ thread = "ok" => result \in {"promoted", "cancelled"}

\* The clone: there is one from the ritual until the flow discards it.
CloneInv ==
    /\ pc \in {"idle", "cloning", "uncloning"} => clone = "none"
    /\ pc \in Waiting \cup {"ritual", "asking"} => clone = "live"
    /\ thread # "none" => clone # "none"

\* What was edited before the drift gate is as it was edited, and was what it
\* had been if the gate let the promotion pass.
EditInv ==
    /\ clone = "none" => Early = {}
    /\ thread \in {"none", "gate"} => late = {}
    /\ \A f \in Early \ late : early[f] # base[f] => real[f] = early[f]
    /\ thread \in {"backup", "apply", "undo"} => \A f \in Early : early[f] = base[f]

\* Up to the gate the real tree is as it was cloned.
GateInv ==
    /\ pc \in {"ritual", "asking"} \/ thread \in {"gate", "drift"} =>
           \A f \in Files \ (Early \cup late) : real[f] = base[f]
    /\ thread \in {"none", "gate", "backup"} => applied = <<>>
    /\ thread = "backup" => \A f \in Files \ late : real[f] = base[f]

\* The changes that were made, and those that were not.
ChangeInv ==
    thread \in {"apply", "undo"} =>
        /\ ToSet(applied) \subseteq Changes
        /\ \A f \in Files \ late :
               real[f] = IF f \in ToSet(applied) THEN copy[f] ELSE base[f]

\* What a file had to lose is in its backup; only a teardown takes that away.
BackupInv ==
    thread \in {"apply", "undo"} =>
        \A f \in Changes \ late :
            /\ backup[f] \in {base[f], "none"}
            /\ base[f] # "absent" /\ ~torn =>
                   clone = "live" /\ rbdir /\ backup[f] = base[f]

\* How the thread ended.
EndInv ==
    \A f \in Files \ (Early \cup late) :
        /\ thread = "ok" /\ ~torn => real[f] = copy[f]
        /\ thread \in {"drift", "failed"} /\ ~unclean => real[f] = base[f]

\* A promotion that was not finished can still be undone.
HeldInv ==
    ~torn /\ thread \in {"rbfailed", "dead"} =>
        \A f \in Files \ (Early \cup late) :
            \/ real[f] = base[f] \/ base[f] = "absent"
            \/ clone = "live" /\ rbdir /\ backup[f] = base[f]

\* The row of the journal.
RowInv ==
    /\ tx = "committed" => thread = "ok"
    /\ tx = "rolled_back" => pc \in {"discarding", "journal", "ended", "crashed"}
    /\ tx = "rolled_back" /\ ~swept /\ ~torn => thread # "ok"

PromotionInv ==
    /\ Types /\ FlowInv /\ CloneInv /\ EditInv /\ GateInv
    /\ ChangeInv /\ BackupInv /\ EndInv /\ HeldInv /\ RowInv

(* What the list of changes holds after one more, and after one less.      *)
LEMMA Appended ==
    ASSUME NEW s \in Seq(Files), NEW f \in Files
    PROVE  /\ Append(s, f) \in Seq(Files)
           /\ ToSet(Append(s, f)) = ToSet(s) \cup {f}
           /\ f \notin ToSet(s) /\ (\A i, j \in 1..Len(s) : s[i] = s[j] => i = j) =>
                  \A i, j \in 1..Len(Append(s, f)) :
                      Append(s, f)[i] = Append(s, f)[j] => i = j
<1>1. Append(s, f) \in Seq(Files) /\ Len(Append(s, f)) = Len(s) + 1
    OBVIOUS
<1>2. /\ DOMAIN s = 1..Len(s) /\ DOMAIN Append(s, f) = 1..(Len(s) + 1)
      /\ \A i \in 1..Len(s) : Append(s, f)[i] = s[i]
      /\ Append(s, f)[Len(s) + 1] = f
    OBVIOUS
<1>3. Len(s) \in Nat /\ 1..(Len(s) + 1) = 1..Len(s) \cup {Len(s) + 1}
    OBVIOUS
<1>4. ToSet(Append(s, f)) = ToSet(s) \cup {f}
    BY <1>2, <1>3 DEF ToSet
<1>5. ASSUME f \notin ToSet(s), \A i, j \in 1..Len(s) : s[i] = s[j] => i = j
      PROVE  \A i, j \in 1..Len(Append(s, f)) : Append(s, f)[i] = Append(s, f)[j] => i = j
    BY <1>1, <1>2, <1>3, <1>5 DEF ToSet
<1> QED BY <1>1, <1>4, <1>5

LEMMA Shortened ==
    ASSUME NEW s \in Seq(Files), s # <<>>,
           \A i, j \in 1..Len(s) : s[i] = s[j] => i = j
    PROVE  /\ Last(s) \in Files /\ Last(s) \in ToSet(s)
           /\ Front(s) \in Seq(Files)
           /\ ToSet(Front(s)) = ToSet(s) \ {Last(s)}
           /\ \A i, j \in 1..Len(Front(s)) : Front(s)[i] = Front(s)[j] => i = j
<1>1. Len(s) \in Nat \ {0} /\ DOMAIN s = 1..Len(s) /\ Len(s) \in 1..Len(s)
    OBVIOUS
<1>2. /\ Front(s) \in Seq(Files) /\ Len(Front(s)) = Len(s) - 1
      /\ \A i \in 1..(Len(s) - 1) : Front(s)[i] = s[i]
    BY <1>1 DEF Front
<1>3. DOMAIN Front(s) = 1..(Len(s) - 1)
    BY <1>2
<1>4. 1..Len(s) = 1..(Len(s) - 1) \cup {Len(s)} /\ Len(s) \notin 1..(Len(s) - 1)
    BY <1>1
<1>5. Last(s) \in Files /\ Last(s) \in ToSet(s)
    BY <1>1 DEF Last, ToSet
<1>6. ToSet(Front(s)) = ToSet(s) \ {Last(s)}
    BY <1>1, <1>2, <1>3, <1>4 DEF Last, ToSet
<1>7. \A i, j \in 1..Len(Front(s)) : Front(s)[i] = Front(s)[j] => i = j
    BY <1>1, <1>2, <1>3, <1>4
<1> QED BY <1>2, <1>5, <1>6, <1>7

(* Before the first change and after the last is undone the list is empty. *)
LEMMA NoChange == ToSet(<<>>) = {}
BY DEF ToSet

(* A clone that is discarded leaves no backup of any file.                 *)
LEMMA NoBackup == [f \in Files |-> "none"] \in [Files -> Content \cup {"none"}]
OBVIOUS

(* Without a guard the ritual is refused, before anything is made. *)
LEMMA RefuseKeeps ==
    ASSUME PromotionInv, Refuse
    PROVE  PromotionInv'
<1>1. Types'
    BY DEF PromotionInv, Types, TypeTree, TypeBox, TypeFlow, TypeMarks, TypeBounds, TypeRow,
           TypeList, Refuse, journal, tree, box, bounds, marks, Content, Pcs, Threads,
           Results
<1>2. FlowInv'
    BY DEF PromotionInv, Types, TypeFlow, FlowInv, Waiting, ThreadRuns, journal, Refuse,
           tree, box, bounds, marks
<1>3. CloneInv'
    BY DEF PromotionInv, Types, TypeFlow, FlowInv, CloneInv, Waiting, Refuse, journal, tree,
           box, bounds, marks, ThreadRuns
<1>4. EditInv'
    BY DEF PromotionInv, Types, TypeTree, TypeMarks, FlowInv, CloneInv, EditInv, Early,
           Refuse, journal, tree, box, bounds, marks, Waiting, ThreadRuns
<1>5. GateInv'
    BY DEF PromotionInv, Types, FlowInv, CloneInv, TypeFlow, GateInv, Early, Refuse, journal,
           tree, box, bounds, marks, Waiting, ThreadRuns
<1>6. ChangeInv'
    BY DEF PromotionInv, Types, TypeTree, TypeFlow, FlowInv, ChangeInv, Changes, Refuse,
           journal, tree, box, bounds, marks, Waiting, ThreadRuns
<1>7. BackupInv'
    BY DEF PromotionInv, Types, TypeTree, TypeFlow, TypeBox, FlowInv, BackupInv, Changes,
           Refuse, journal, tree, box, bounds, marks, Waiting, ThreadRuns
<1>8. EndInv'
    BY DEF PromotionInv, Types, TypeTree, FlowInv, TypeFlow, EndInv, Early, Refuse, journal,
           tree, box, bounds, marks, Waiting, ThreadRuns
<1>9. HeldInv'
    BY DEF PromotionInv, Types, TypeTree, TypeBox, FlowInv, TypeFlow, HeldInv, Early, Refuse,
           journal, tree, box, bounds, marks, Waiting, ThreadRuns
<1>10. RowInv'
    BY DEF PromotionInv, Types, FlowInv, TypeFlow, TypeRow, RowInv, journal, Refuse, tree,
           box, bounds, marks, Waiting, ThreadRuns
<1> QED BY <1>1, <1>2, <1>3, <1>4, <1>5, <1>6, <1>7, <1>8, <1>9, <1>10 DEF PromotionInv

(* The flow starts to clone. *)
LEMMA StartKeeps ==
    ASSUME PromotionInv, Start
    PROVE  PromotionInv'
<1>1. Types'
    BY DEF PromotionInv, Types, TypeTree, TypeBox, TypeFlow, TypeMarks, TypeBounds, TypeRow,
           TypeList, Start, tree, box, journal, bounds, marks, Content, Pcs, Threads,
           Results
<1>2. FlowInv'
    BY DEF PromotionInv, Types, TypeFlow, FlowInv, Waiting, ThreadRuns, journal, Start, tree,
           box, bounds, marks
<1>3. CloneInv'
    BY DEF PromotionInv, Types, TypeFlow, FlowInv, CloneInv, Waiting, Start, tree, box,
           journal, bounds, marks, ThreadRuns
<1>4. EditInv'
    BY DEF PromotionInv, Types, TypeTree, TypeMarks, FlowInv, CloneInv, EditInv, Early,
           Start, tree, box, journal, bounds, marks, Waiting, ThreadRuns
<1>5. GateInv'
    BY DEF PromotionInv, Types, FlowInv, CloneInv, TypeFlow, GateInv, Early, Start, tree,
           box, journal, bounds, marks, Waiting, ThreadRuns
<1>6. ChangeInv'
    BY DEF PromotionInv, Types, TypeTree, TypeFlow, FlowInv, ChangeInv, Changes, Start, tree,
           box, journal, bounds, marks, Waiting, ThreadRuns
<1>7. BackupInv'
    BY DEF PromotionInv, Types, TypeTree, TypeFlow, TypeBox, FlowInv, BackupInv, Changes,
           Start, tree, box, journal, bounds, marks, Waiting, ThreadRuns
<1>8. EndInv'
    BY DEF PromotionInv, Types, TypeTree, FlowInv, TypeFlow, EndInv, Early, Start, tree, box,
           journal, bounds, marks, Waiting, ThreadRuns
<1>9. HeldInv'
    BY DEF PromotionInv, Types, TypeTree, TypeBox, FlowInv, TypeFlow, HeldInv, Early, Start,
           tree, box, journal, bounds, marks, Waiting, ThreadRuns
<1>10. RowInv'
    BY DEF PromotionInv, Types, FlowInv, TypeFlow, TypeRow, RowInv, journal, Start, tree,
           box, bounds, marks, Waiting, ThreadRuns
<1> QED BY <1>1, <1>2, <1>3, <1>4, <1>5, <1>6, <1>7, <1>8, <1>9, <1>10 DEF PromotionInv

(* The clone is made, or not: from here the real tree counts as cloned. *)
LEMMA ClonedKeeps ==
    ASSUME PromotionInv, Cloned
    PROVE  PromotionInv'
<1>1. Types'
  <2>1. TypeTree'
      BY DEF PromotionInv, Types, TypeTree, Cloned, bounds, Fault, journal, marks, Content
  <2>2. TypeBox'
      BY DEF PromotionInv, Types, TypeBox, CloneInv, Cloned, bounds, Fault, journal, marks,
             Content, Waiting
  <2>3. TypeFlow'
      BY DEF PromotionInv, Types, TypeFlow, Cloned, bounds, Fault, journal, marks, Pcs,
             Threads, Results
  <2>4. TypeMarks'
      BY DEF PromotionInv, Types, TypeMarks, Cloned, bounds, Fault, journal, marks, Content
  <2>5. TypeBounds'
      BY PromotionConstants DEF PromotionInv, Types, TypeBounds, Cloned, bounds, Fault,
             journal, marks
  <2>6. TypeRow'
      BY DEF PromotionInv, Types, TypeRow, Cloned, bounds, Fault, journal, marks
  <2>7. TypeList'
      BY DEF PromotionInv, Types, TypeList, Cloned, bounds, Fault, journal, marks
  <2> QED BY <2>1, <2>2, <2>3, <2>4, <2>5, <2>6, <2>7 DEF Types
<1>2. FlowInv'
    BY DEF PromotionInv, Types, TypeFlow, FlowInv, Waiting, ThreadRuns, journal, Cloned,
           bounds, Fault, marks
<1>3. CloneInv'
    BY DEF PromotionInv, Types, TypeFlow, FlowInv, CloneInv, Waiting, Cloned, bounds, Fault,
           journal, marks, ThreadRuns
<1>4. EditInv'
    BY DEF PromotionInv, Types, TypeTree, TypeMarks, FlowInv, CloneInv, EditInv, Early,
           Cloned, bounds, Fault, journal, marks, Waiting, ThreadRuns
<1>5. GateInv'
    BY DEF PromotionInv, Types, FlowInv, CloneInv, TypeFlow, GateInv, Early, Cloned, bounds,
           Fault, journal, marks, Waiting, ThreadRuns
<1>6. ChangeInv'
    BY DEF PromotionInv, Types, TypeTree, TypeFlow, FlowInv, ChangeInv, Changes, Cloned,
           bounds, Fault, journal, marks, Waiting, ThreadRuns
<1>7. BackupInv'
    BY DEF PromotionInv, Types, TypeTree, TypeFlow, TypeBox, FlowInv, BackupInv, Changes,
           Cloned, bounds, Fault, journal, marks, Waiting, ThreadRuns
<1>8. EndInv'
    BY DEF PromotionInv, Types, TypeTree, FlowInv, TypeFlow, EndInv, Early, Cloned, bounds,
           Fault, journal, marks, Waiting, ThreadRuns
<1>9. HeldInv'
    BY DEF PromotionInv, Types, TypeTree, TypeBox, FlowInv, TypeFlow, HeldInv, Early, Cloned,
           bounds, Fault, journal, marks, Waiting, ThreadRuns
<1>10. RowInv'
    BY DEF PromotionInv, Types, FlowInv, TypeFlow, TypeRow, RowInv, journal, Cloned, bounds,
           Fault, marks, Waiting, ThreadRuns
<1> QED BY <1>1, <1>2, <1>3, <1>4, <1>5, <1>6, <1>7, <1>8, <1>9, <1>10 DEF PromotionInv

(* Cancelled while it clones. *)
LEMMA CancelCloningKeeps ==
    ASSUME PromotionInv, CancelCloning
    PROVE  PromotionInv'
<1>1. Types'
  <2>1. TypeTree'
      BY DEF PromotionInv, Types, TypeTree, CancelCloning, Cancelled, tree, box, journal,
             marks, Content
  <2>2. TypeBox'
      BY DEF PromotionInv, Types, TypeBox, CancelCloning, Cancelled, tree, box, journal,
             marks, Content
  <2>3. TypeFlow'
      BY DEF PromotionInv, Types, TypeFlow, CancelCloning, Cancelled, tree, box, journal,
             marks, Pcs, Threads, Results
  <2>4. TypeMarks'
      BY DEF PromotionInv, Types, TypeMarks, CancelCloning, Cancelled, tree, box, journal,
             marks, Content
  <2>5. TypeBounds'
      BY PromotionConstants DEF PromotionInv, Types, TypeBounds, CancelCloning, Cancelled,
             tree, box, journal, marks
  <2>6. TypeRow'
      BY DEF PromotionInv, Types, TypeRow, CancelCloning, Cancelled, tree, box, journal,
             marks
  <2>7. TypeList'
      BY DEF PromotionInv, Types, TypeList, CancelCloning, Cancelled, tree, box, journal,
             marks
  <2> QED BY <2>1, <2>2, <2>3, <2>4, <2>5, <2>6, <2>7 DEF Types
<1>2. FlowInv'
    BY DEF PromotionInv, Types, TypeFlow, FlowInv, Waiting, ThreadRuns, journal,
           CancelCloning, Cancelled, tree, box, marks
<1>3. CloneInv'
    BY DEF PromotionInv, Types, TypeFlow, FlowInv, CloneInv, Waiting, CancelCloning,
           Cancelled, tree, box, journal, marks, ThreadRuns
<1>4. EditInv'
    BY DEF PromotionInv, Types, TypeTree, TypeMarks, FlowInv, CloneInv, EditInv, Early,
           CancelCloning, Cancelled, tree, box, journal, marks, Waiting, ThreadRuns
<1>5. GateInv'
    BY DEF PromotionInv, Types, FlowInv, CloneInv, TypeFlow, GateInv, Early, CancelCloning,
           Cancelled, tree, box, journal, marks, Waiting, ThreadRuns
<1>6. ChangeInv'
    BY DEF PromotionInv, Types, TypeTree, TypeFlow, FlowInv, ChangeInv, Changes,
           CancelCloning, Cancelled, tree, box, journal, marks, Waiting, ThreadRuns
<1>7. BackupInv'
    BY DEF PromotionInv, Types, TypeTree, TypeFlow, TypeBox, FlowInv, BackupInv, Changes,
           CancelCloning, Cancelled, tree, box, journal, marks, Waiting, ThreadRuns
<1>8. EndInv'
    BY DEF PromotionInv, Types, TypeTree, FlowInv, TypeFlow, EndInv, Early, CancelCloning,
           Cancelled, tree, box, journal, marks, Waiting, ThreadRuns
<1>9. HeldInv'
    BY DEF PromotionInv, Types, TypeTree, TypeBox, FlowInv, TypeFlow, HeldInv, Early,
           CancelCloning, Cancelled, tree, box, journal, marks, Waiting, ThreadRuns
<1>10. RowInv'
    BY DEF PromotionInv, Types, FlowInv, TypeFlow, TypeRow, RowInv, journal, CancelCloning,
           Cancelled, tree, box, marks, Waiting, ThreadRuns
<1> QED BY <1>1, <1>2, <1>3, <1>4, <1>5, <1>6, <1>7, <1>8, <1>9, <1>10 DEF PromotionInv

(* The tool's transaction is opened; no row was there. *)
LEMMA BeginKeeps ==
    ASSUME PromotionInv, Begin
    PROVE  PromotionInv'
<1>1. Types'
    BY DEF PromotionInv, Types, TypeTree, TypeBox, TypeFlow, TypeMarks, TypeBounds, TypeRow,
           TypeList, Begin, tree, box, bounds, marks, Content, Pcs, Threads, Results
<1>2. FlowInv'
    BY DEF PromotionInv, Types, TypeFlow, FlowInv, Waiting, ThreadRuns, journal, Begin, tree,
           box, bounds, marks
<1>3. CloneInv'
    BY DEF PromotionInv, Types, TypeFlow, FlowInv, CloneInv, Waiting, Begin, tree, box,
           bounds, marks, ThreadRuns, journal
<1>4. EditInv'
    BY DEF PromotionInv, Types, TypeTree, TypeMarks, FlowInv, CloneInv, EditInv, Early,
           Begin, tree, box, bounds, marks, Waiting, ThreadRuns, journal
<1>5. GateInv'
    BY DEF PromotionInv, Types, FlowInv, CloneInv, TypeFlow, GateInv, Early, Begin, tree,
           box, bounds, marks, Waiting, ThreadRuns, journal
<1>6. ChangeInv'
    BY DEF PromotionInv, Types, TypeTree, TypeFlow, FlowInv, ChangeInv, Changes, Begin, tree,
           box, bounds, marks, Waiting, ThreadRuns, journal
<1>7. BackupInv'
    BY DEF PromotionInv, Types, TypeTree, TypeFlow, TypeBox, FlowInv, BackupInv, Changes,
           Begin, tree, box, bounds, marks, Waiting, ThreadRuns, journal
<1>8. EndInv'
    BY DEF PromotionInv, Types, TypeTree, FlowInv, TypeFlow, EndInv, Early, Begin, tree, box,
           bounds, marks, Waiting, ThreadRuns, journal
<1>9. HeldInv'
    BY DEF PromotionInv, Types, TypeTree, TypeBox, FlowInv, TypeFlow, HeldInv, Early, Begin,
           tree, box, bounds, marks, Waiting, ThreadRuns, journal
<1>10. RowInv'
    BY DEF PromotionInv, Types, FlowInv, TypeFlow, TypeRow, RowInv, journal, Begin, tree,
           box, bounds, marks, Waiting, ThreadRuns
<1> QED BY <1>1, <1>2, <1>3, <1>4, <1>5, <1>6, <1>7, <1>8, <1>9, <1>10 DEF PromotionInv

(* The tool has written to the clone; the real tree is as it was. *)
LEMMA RitualDoneKeeps ==
    ASSUME PromotionInv, RitualDone
    PROVE  PromotionInv'
<1>1. Types'
    BY DEF PromotionInv, Types, TypeTree, TypeBox, TypeFlow, TypeMarks, TypeBounds, TypeRow,
           TypeList, RitualDone, Discard, box, bounds, marks, Content, Pcs, Threads, Results
<1>2. FlowInv'
    BY DEF PromotionInv, Types, TypeFlow, FlowInv, Waiting, ThreadRuns, journal, RitualDone,
           Discard, box, bounds, marks
<1>3. CloneInv'
    BY DEF PromotionInv, Types, TypeFlow, FlowInv, CloneInv, Waiting, RitualDone, Discard,
           box, bounds, marks, ThreadRuns, journal
<1>4. EditInv'
    BY DEF PromotionInv, Types, TypeTree, TypeMarks, FlowInv, CloneInv, EditInv, Early,
           RitualDone, Discard, box, bounds, marks, Waiting, ThreadRuns, journal
<1>5. GateInv'
    BY DEF PromotionInv, Types, FlowInv, CloneInv, TypeFlow, GateInv, Early, RitualDone,
           Discard, box, bounds, marks, Waiting, ThreadRuns, journal
<1>6. ChangeInv'
    BY DEF PromotionInv, Types, TypeTree, TypeFlow, FlowInv, ChangeInv, Changes, RitualDone,
           Discard, box, bounds, marks, Waiting, ThreadRuns, journal
<1>7. BackupInv'
    BY DEF PromotionInv, Types, TypeTree, TypeFlow, TypeBox, FlowInv, BackupInv, Changes,
           RitualDone, Discard, box, bounds, marks, Waiting, ThreadRuns, journal
<1>8. EndInv'
    BY DEF PromotionInv, Types, TypeTree, FlowInv, TypeFlow, EndInv, Early, RitualDone,
           Discard, box, bounds, marks, Waiting, ThreadRuns, journal
<1>9. HeldInv'
    BY DEF PromotionInv, Types, TypeTree, TypeBox, FlowInv, TypeFlow, HeldInv, Early,
           RitualDone, Discard, box, bounds, marks, Waiting, ThreadRuns, journal
<1>10. RowInv'
    BY DEF PromotionInv, Types, FlowInv, TypeFlow, TypeRow, RowInv, journal, RitualDone,
           Discard, box, bounds, marks, Waiting, ThreadRuns
<1> QED BY <1>1, <1>2, <1>3, <1>4, <1>5, <1>6, <1>7, <1>8, <1>9, <1>10 DEF PromotionInv

(* The ritual fails, before there is a thread. *)
LEMMA RitualFailsKeeps ==
    ASSUME PromotionInv, RitualFails
    PROVE  PromotionInv'
<1>1. Types'
  <2>1. TypeTree'
      BY DEF PromotionInv, Types, TypeTree, RitualFails, Fault, Discard, tree, box, marks,
             Content
  <2>2. TypeBox'
      BY DEF PromotionInv, Types, TypeBox, RitualFails, Fault, Discard, tree, box, marks,
             Content
  <2>3. TypeFlow'
      BY DEF PromotionInv, Types, TypeFlow, RitualFails, Fault, Discard, tree, box, marks,
             Pcs, Threads, Results, journal
  <2>4. TypeMarks'
      BY DEF PromotionInv, Types, TypeMarks, RitualFails, Fault, Discard, tree, box, marks,
             Content
  <2>5. TypeBounds'
      BY PromotionConstants DEF PromotionInv, Types, TypeBounds, RitualFails, Fault, Discard,
             tree, box, marks
  <2>6. TypeRow'
      BY DEF PromotionInv, Types, TypeRow, RitualFails, Fault, Discard, tree, box, marks
  <2>7. TypeList'
      BY DEF PromotionInv, Types, TypeList, RitualFails, Fault, Discard, tree, box, marks
  <2> QED BY <2>1, <2>2, <2>3, <2>4, <2>5, <2>6, <2>7 DEF Types
<1>2. FlowInv'
    BY DEF PromotionInv, Types, TypeFlow, FlowInv, Waiting, ThreadRuns, journal, RitualFails,
           Fault, Discard, tree, box, marks
<1>3. CloneInv'
    BY DEF PromotionInv, Types, TypeFlow, FlowInv, CloneInv, Waiting, RitualFails, Fault,
           Discard, tree, box, marks, ThreadRuns, journal
<1>4. EditInv'
    BY DEF PromotionInv, Types, TypeTree, TypeMarks, FlowInv, CloneInv, EditInv, Early,
           RitualFails, Fault, Discard, tree, box, marks, Waiting, ThreadRuns, journal
<1>5. GateInv'
    BY DEF PromotionInv, Types, FlowInv, CloneInv, TypeFlow, GateInv, Early, RitualFails,
           Fault, Discard, tree, box, marks, Waiting, ThreadRuns, journal
<1>6. ChangeInv'
    BY DEF PromotionInv, Types, TypeTree, TypeFlow, FlowInv, ChangeInv, Changes, RitualFails,
           Fault, Discard, tree, box, marks, Waiting, ThreadRuns, journal
<1>7. BackupInv'
    BY DEF PromotionInv, Types, TypeTree, TypeFlow, TypeBox, FlowInv, BackupInv, Changes,
           RitualFails, Fault, Discard, tree, box, marks, Waiting, ThreadRuns, journal
<1>8. EndInv'
    BY DEF PromotionInv, Types, TypeTree, FlowInv, TypeFlow, EndInv, Early, RitualFails,
           Fault, Discard, tree, box, marks, Waiting, ThreadRuns, journal
<1>9. HeldInv'
    BY DEF PromotionInv, Types, TypeTree, TypeBox, FlowInv, TypeFlow, HeldInv, Early,
           RitualFails, Fault, Discard, tree, box, marks, Waiting, ThreadRuns, journal
<1>10. RowInv'
    BY DEF PromotionInv, Types, FlowInv, TypeFlow, TypeRow, RowInv, journal, RitualFails,
           Fault, Discard, tree, box, marks, Waiting, ThreadRuns
<1> QED BY <1>1, <1>2, <1>3, <1>4, <1>5, <1>6, <1>7, <1>8, <1>9, <1>10 DEF PromotionInv

(* The operator decides: the thread starts at the drift gate. *)
LEMMA DecideKeeps ==
    ASSUME PromotionInv, Decide
    PROVE  PromotionInv'
<1>1. Types'
  <2>1. TypeTree'
      BY DEF PromotionInv, Types, TypeTree, Decide, bounds, Discard, Fault, tree, box,
             journal, marks, Content
  <2>2. TypeBox'
      BY DEF PromotionInv, Types, TypeBox, Decide, bounds, Discard, Fault, tree, box,
             journal, marks, Content
  <2>3. TypeFlow'
      BY DEF PromotionInv, Types, TypeFlow, Decide, bounds, Discard, Fault, tree, box,
             journal, marks, Pcs, Threads, Results
  <2>4. TypeMarks'
      BY DEF PromotionInv, Types, TypeMarks, Decide, bounds, Discard, Fault, tree, box,
             journal, marks, Content
  <2>5. TypeBounds'
      BY PromotionConstants DEF PromotionInv, Types, TypeBounds, Decide, bounds, Discard,
             Fault, tree, box, journal, marks
  <2>6. TypeRow'
      BY DEF PromotionInv, Types, TypeRow, Decide, bounds, Discard, Fault, tree, box,
             journal, marks
  <2>7. TypeList'
      BY DEF PromotionInv, Types, TypeList, Decide, bounds, Discard, Fault, tree, box,
             journal, marks
  <2> QED BY <2>1, <2>2, <2>3, <2>4, <2>5, <2>6, <2>7 DEF Types
<1>2. FlowInv'
    BY DEF PromotionInv, Types, TypeFlow, FlowInv, Waiting, ThreadRuns, journal, Decide,
           bounds, Discard, Fault, tree, box, marks
<1>3. CloneInv'
    BY DEF PromotionInv, Types, TypeFlow, FlowInv, CloneInv, Waiting, Decide, bounds,
           Discard, Fault, tree, box, journal, marks, ThreadRuns
<1>4. EditInv'
    BY DEF PromotionInv, Types, TypeTree, TypeMarks, FlowInv, CloneInv, EditInv, Early,
           Decide, bounds, Discard, Fault, tree, box, journal, marks, Waiting, ThreadRuns
<1>5. GateInv'
    BY DEF PromotionInv, Types, FlowInv, CloneInv, TypeFlow, GateInv, Early, Decide, bounds,
           Discard, Fault, tree, box, journal, marks, Waiting, ThreadRuns
<1>6. ChangeInv'
    BY DEF PromotionInv, Types, TypeTree, TypeFlow, FlowInv, ChangeInv, Changes, Decide,
           bounds, Discard, Fault, tree, box, journal, marks, Waiting, ThreadRuns
<1>7. BackupInv'
    BY DEF PromotionInv, Types, TypeTree, TypeFlow, TypeBox, FlowInv, BackupInv, Changes,
           Decide, bounds, Discard, Fault, tree, box, journal, marks, Waiting, ThreadRuns
<1>8. EndInv'
    BY DEF PromotionInv, Types, TypeTree, FlowInv, TypeFlow, EndInv, Early, Decide, bounds,
           Discard, Fault, tree, box, journal, marks, Waiting, ThreadRuns
<1>9. HeldInv'
    BY DEF PromotionInv, Types, TypeTree, TypeBox, FlowInv, TypeFlow, HeldInv, Early, Decide,
           bounds, Discard, Fault, tree, box, journal, marks, Waiting, ThreadRuns
<1>10. RowInv'
    BY DEF PromotionInv, Types, FlowInv, TypeFlow, TypeRow, RowInv, journal, Decide, bounds,
           Discard, Fault, tree, box, marks, Waiting, ThreadRuns
<1> QED BY <1>1, <1>2, <1>3, <1>4, <1>5, <1>6, <1>7, <1>8, <1>9, <1>10 DEF PromotionInv

(* Cancelled before the promotion. *)
LEMMA CancelRunKeeps ==
    ASSUME PromotionInv, CancelRun
    PROVE  PromotionInv'
<1>1. Types'
  <2>1. TypeTree'
      BY DEF PromotionInv, Types, TypeTree, CancelRun, Cancelled, Discard, tree, box,
             journal, marks, Content
  <2>2. TypeBox'
      BY DEF PromotionInv, Types, TypeBox, CancelRun, Cancelled, Discard, tree, box, journal,
             marks, Content
  <2>3. TypeFlow'
      BY DEF PromotionInv, Types, TypeFlow, CancelRun, Cancelled, Discard, tree, box,
             journal, marks, Pcs, Threads, Results
  <2>4. TypeMarks'
      BY DEF PromotionInv, Types, TypeMarks, CancelRun, Cancelled, Discard, tree, box,
             journal, marks, Content
  <2>5. TypeBounds'
      BY PromotionConstants DEF PromotionInv, Types, TypeBounds, CancelRun, Cancelled,
             Discard, tree, box, journal, marks
  <2>6. TypeRow'
      BY DEF PromotionInv, Types, TypeRow, CancelRun, Cancelled, Discard, tree, box, journal,
             marks
  <2>7. TypeList'
      BY DEF PromotionInv, Types, TypeList, CancelRun, Cancelled, Discard, tree, box,
             journal, marks
  <2> QED BY <2>1, <2>2, <2>3, <2>4, <2>5, <2>6, <2>7 DEF Types
<1>2. FlowInv'
    BY DEF PromotionInv, Types, TypeFlow, FlowInv, Waiting, ThreadRuns, journal, CancelRun,
           Cancelled, Discard, tree, box, marks
<1>3. CloneInv'
    BY DEF PromotionInv, Types, TypeFlow, FlowInv, CloneInv, Waiting, CancelRun, Cancelled,
           Discard, tree, box, journal, marks, ThreadRuns
<1>4. EditInv'
    BY DEF PromotionInv, Types, TypeTree, TypeMarks, FlowInv, CloneInv, EditInv, Early,
           CancelRun, Cancelled, Discard, tree, box, journal, marks, Waiting, ThreadRuns
<1>5. GateInv'
    BY DEF PromotionInv, Types, FlowInv, CloneInv, TypeFlow, GateInv, Early, CancelRun,
           Cancelled, Discard, tree, box, journal, marks, Waiting, ThreadRuns
<1>6. ChangeInv'
    BY DEF PromotionInv, Types, TypeTree, TypeFlow, FlowInv, ChangeInv, Changes, CancelRun,
           Cancelled, Discard, tree, box, journal, marks, Waiting, ThreadRuns
<1>7. BackupInv'
    BY DEF PromotionInv, Types, TypeTree, TypeFlow, TypeBox, FlowInv, BackupInv, Changes,
           CancelRun, Cancelled, Discard, tree, box, journal, marks, Waiting, ThreadRuns
<1>8. EndInv'
    BY DEF PromotionInv, Types, TypeTree, FlowInv, TypeFlow, EndInv, Early, CancelRun,
           Cancelled, Discard, tree, box, journal, marks, Waiting, ThreadRuns
<1>9. HeldInv'
    BY DEF PromotionInv, Types, TypeTree, TypeBox, FlowInv, TypeFlow, HeldInv, Early,
           CancelRun, Cancelled, Discard, tree, box, journal, marks, Waiting, ThreadRuns
<1>10. RowInv'
    BY DEF PromotionInv, Types, FlowInv, TypeFlow, TypeRow, RowInv, journal, CancelRun,
           Cancelled, Discard, tree, box, marks, Waiting, ThreadRuns
<1> QED BY <1>1, <1>2, <1>3, <1>4, <1>5, <1>6, <1>7, <1>8, <1>9, <1>10 DEF PromotionInv

(* The drift gate compares the whole tree. *)
LEMMA GateKeeps ==
    ASSUME PromotionInv, Gate
    PROVE  PromotionInv'
<1>1. Types'
    BY DEF PromotionInv, Types, TypeTree, TypeBox, TypeFlow, TypeMarks, TypeBounds, TypeRow,
           TypeList, Gate, tree, box, journal, bounds, marks, Content, Pcs, Threads, Results
<1>2. FlowInv'
    BY DEF PromotionInv, Types, TypeFlow, FlowInv, Waiting, ThreadRuns, journal, Gate, tree,
           box, bounds, marks
<1>3. CloneInv'
    BY DEF PromotionInv, Types, TypeFlow, FlowInv, CloneInv, Waiting, Gate, tree, box,
           journal, bounds, marks, ThreadRuns
<1>4. EditInv'
    BY DEF PromotionInv, Types, TypeTree, TypeMarks, FlowInv, CloneInv, EditInv, Early, Gate,
           tree, box, journal, bounds, marks, Waiting, ThreadRuns
<1>5. GateInv'
    BY DEF PromotionInv, Types, FlowInv, CloneInv, TypeFlow, EditInv, GateInv, Early, Gate,
           tree, box, journal, bounds, marks, Waiting, ThreadRuns
<1>6. ChangeInv'
    BY DEF PromotionInv, Types, TypeTree, TypeFlow, FlowInv, ChangeInv, Changes, Gate, tree,
           box, journal, bounds, marks, Waiting, ThreadRuns
<1>7. BackupInv'
    BY DEF PromotionInv, Types, TypeTree, TypeFlow, TypeBox, FlowInv, BackupInv, Changes,
           Gate, tree, box, journal, bounds, marks, Waiting, ThreadRuns
<1>8. EndInv'
    BY DEF PromotionInv, Types, TypeTree, FlowInv, TypeFlow, CloneInv, GateInv, EditInv,
           EndInv, Early, Gate, tree, box, journal, bounds, marks, Waiting, ThreadRuns
<1>9. HeldInv'
    BY DEF PromotionInv, Types, TypeTree, TypeBox, FlowInv, TypeFlow, HeldInv, Early, Gate,
           tree, box, journal, bounds, marks, Waiting, ThreadRuns
<1>10. RowInv'
    BY DEF PromotionInv, Types, FlowInv, TypeFlow, TypeRow, RowInv, journal, Gate, tree, box,
           bounds, marks, Waiting, ThreadRuns
<1> QED BY <1>1, <1>2, <1>3, <1>4, <1>5, <1>6, <1>7, <1>8, <1>9, <1>10 DEF PromotionInv

(* The drift gate fails: nothing was changed. *)
LEMMA GateFailsKeeps ==
    ASSUME PromotionInv, GateFails
    PROVE  PromotionInv'
<1>1. Types'
  <2>1. TypeTree'
      BY DEF PromotionInv, Types, TypeTree, GateFails, Fault, tree, box, journal, marks,
             Content
  <2>2. TypeBox'
      BY DEF PromotionInv, Types, TypeBox, GateFails, Fault, tree, box, journal, marks,
             Content
  <2>3. TypeFlow'
      BY DEF PromotionInv, Types, TypeFlow, GateFails, Fault, tree, box, journal, marks, Pcs,
             Threads, Results
  <2>4. TypeMarks'
      BY DEF PromotionInv, Types, TypeMarks, GateFails, Fault, tree, box, journal, marks,
             Content
  <2>5. TypeBounds'
      BY PromotionConstants DEF PromotionInv, Types, TypeBounds, GateFails, Fault, tree, box,
             journal, marks
  <2>6. TypeRow'
      BY DEF PromotionInv, Types, TypeRow, GateFails, Fault, tree, box, journal, marks
  <2>7. TypeList'
      BY DEF PromotionInv, Types, TypeList, GateFails, Fault, tree, box, journal, marks
  <2> QED BY <2>1, <2>2, <2>3, <2>4, <2>5, <2>6, <2>7 DEF Types
<1>2. FlowInv'
    BY DEF PromotionInv, Types, TypeFlow, FlowInv, Waiting, ThreadRuns, journal, GateFails,
           Fault, tree, box, marks
<1>3. CloneInv'
    BY DEF PromotionInv, Types, TypeFlow, FlowInv, CloneInv, Waiting, GateFails, Fault, tree,
           box, journal, marks, ThreadRuns
<1>4. EditInv'
    BY DEF PromotionInv, Types, TypeTree, TypeMarks, FlowInv, CloneInv, EditInv, Early,
           GateFails, Fault, tree, box, journal, marks, Waiting, ThreadRuns
<1>5. GateInv'
    BY DEF PromotionInv, Types, FlowInv, CloneInv, TypeFlow, GateInv, Early, GateFails,
           Fault, tree, box, journal, marks, Waiting, ThreadRuns
<1>6. ChangeInv'
    BY DEF PromotionInv, Types, TypeTree, TypeFlow, FlowInv, ChangeInv, Changes, GateFails,
           Fault, tree, box, journal, marks, Waiting, ThreadRuns
<1>7. BackupInv'
    BY DEF PromotionInv, Types, TypeTree, TypeFlow, TypeBox, FlowInv, BackupInv, Changes,
           GateFails, Fault, tree, box, journal, marks, Waiting, ThreadRuns
<1>8. EndInv'
    BY DEF PromotionInv, Types, TypeTree, FlowInv, TypeFlow, GateInv, EndInv, Early,
           GateFails, Fault, tree, box, journal, marks, Waiting, ThreadRuns
<1>9. HeldInv'
    BY DEF PromotionInv, Types, TypeTree, TypeBox, FlowInv, TypeFlow, HeldInv, Early,
           GateFails, Fault, tree, box, journal, marks, Waiting, ThreadRuns
<1>10. RowInv'
    BY DEF PromotionInv, Types, FlowInv, TypeFlow, TypeRow, RowInv, journal, GateFails,
           Fault, tree, box, marks, Waiting, ThreadRuns
<1> QED BY <1>1, <1>2, <1>3, <1>4, <1>5, <1>6, <1>7, <1>8, <1>9, <1>10 DEF PromotionInv

(* The backups are made, of files as they were cloned. *)
LEMMA BackupKeeps ==
    ASSUME PromotionInv, Backup
    PROVE  PromotionInv'
<1>1. Types'
  <2>1. TypeTree'
      BY DEF PromotionInv, Types, TypeTree, Backup, Changes, bounds, Fault, tree, journal,
             marks, Content
  <2>2. TypeBox'
      <3> DEFINE saved == {f \in Changes : real[f] # "absent"}
                 copies == [f \in Files |-> IF f \in saved THEN real[f] ELSE "none"]
      <3>1. TypeBox /\ TypeTree
          BY DEF PromotionInv, Types
      <3>2. copies \in [Files -> Content \cup {"none"}]
          BY <3>1 DEF TypeTree
      <3>3. backup' = backup \/ backup' = copies
          BY DEF Backup
      <3>4. backup' \in [Files -> Content \cup {"none"}]
        <4> HIDE DEF copies
        <4> QED BY <3>1, <3>2, <3>3 DEF TypeBox
      <3>5. rbdir' \in BOOLEAN
          BY <3>1 DEF TypeBox, Backup
      <3>6. clone' \in {"none", "live", "gone"}
          BY <3>1 DEF TypeBox, Backup
      <3>7. rbdir' => clone' = "live"
          BY <3>1 DEF TypeBox, Backup
      <3> QED BY <3>4, <3>5, <3>6, <3>7 DEF TypeBox
  <2>3. TypeFlow'
      BY DEF PromotionInv, Types, TypeFlow, Backup, Changes, bounds, Fault, tree, journal,
             marks, Pcs, Threads, Results
  <2>4. TypeMarks'
      BY DEF PromotionInv, Types, TypeMarks, Backup, Changes, bounds, Fault, tree, journal,
             marks, Content
  <2>5. TypeBounds'
      BY PromotionConstants DEF PromotionInv, Types, TypeBounds, Backup, Changes, bounds,
             Fault, tree, journal, marks
  <2>6. TypeRow'
      BY DEF PromotionInv, Types, TypeRow, Backup, Changes, bounds, Fault, tree, journal,
             marks
  <2>7. TypeList'
      BY DEF PromotionInv, Types, TypeList, Backup, Changes, bounds, Fault, tree, journal,
             marks
  <2> QED BY <2>1, <2>2, <2>3, <2>4, <2>5, <2>6, <2>7 DEF Types
<1>2. FlowInv'
    BY DEF PromotionInv, Types, TypeFlow, FlowInv, Waiting, ThreadRuns, journal, Backup,
           Changes, bounds, Fault, tree, marks
<1>3. CloneInv'
    BY DEF PromotionInv, Types, TypeFlow, FlowInv, CloneInv, Waiting, Backup, Changes,
           bounds, Fault, tree, journal, marks, ThreadRuns
<1>4. EditInv'
    BY DEF PromotionInv, Types, TypeTree, TypeMarks, FlowInv, CloneInv, EditInv, Early,
           Backup, Changes, bounds, Fault, tree, journal, marks, Waiting, ThreadRuns
<1>5. GateInv'
    BY DEF PromotionInv, Types, FlowInv, CloneInv, TypeFlow, GateInv, Early, Backup, Changes,
           bounds, Fault, tree, journal, marks, Waiting, ThreadRuns
<1>6. ChangeInv'
    BY NoChange DEF PromotionInv, Types, TypeTree, TypeFlow, FlowInv, GateInv, TypeList,
           ChangeInv, Changes, Backup, bounds, Fault, tree, journal, marks, Waiting,
           ThreadRuns, Early
<1>7. BackupInv'
    BY DEF PromotionInv, Types, TypeTree, TypeFlow, TypeBox, FlowInv, GateInv, BackupInv,
           Changes, Backup, bounds, Fault, tree, journal, marks, Waiting, ThreadRuns, Early
<1>8. EndInv'
    BY DEF PromotionInv, Types, TypeTree, FlowInv, TypeFlow, GateInv, EndInv, Early, Backup,
           Changes, bounds, Fault, tree, journal, marks, Waiting, ThreadRuns
<1>9. HeldInv'
    BY DEF PromotionInv, Types, TypeTree, TypeBox, FlowInv, TypeFlow, HeldInv, Early, Backup,
           Changes, bounds, Fault, tree, journal, marks, Waiting, ThreadRuns
<1>10. RowInv'
    BY DEF PromotionInv, Types, FlowInv, TypeFlow, TypeRow, RowInv, journal, Backup, Changes,
           bounds, Fault, tree, marks, Waiting, ThreadRuns
<1> QED BY <1>1, <1>2, <1>3, <1>4, <1>5, <1>6, <1>7, <1>8, <1>9, <1>10 DEF PromotionInv

(* One change is made: the file joins the list of changes. *)
LEMMA ApplyOneKeeps ==
    ASSUME PromotionInv, NEW f \in Files, ApplyOne(f)
    PROVE  PromotionInv'
<1>1. Types'
  <2>1. TypeTree'
      BY DEF PromotionInv, Types, TypeTree, ApplyOne, Changes, bounds, Fault, box, journal,
             marks, Content
  <2>2. TypeBox'
      BY DEF PromotionInv, Types, TypeBox, ApplyOne, Changes, bounds, Fault, box, journal,
             marks, Content
  <2>3. TypeFlow'
      BY DEF PromotionInv, Types, TypeFlow, ApplyOne, Changes, bounds, Fault, box, journal,
             marks, Pcs, Threads, Results
  <2>4. TypeMarks'
      BY DEF PromotionInv, Types, TypeMarks, ApplyOne, Changes, bounds, Fault, box, journal,
             marks, Content
  <2>5. TypeBounds'
      BY PromotionConstants DEF PromotionInv, Types, TypeBounds, ApplyOne, Changes, bounds,
             Fault, box, journal, marks
  <2>6. TypeRow'
      BY DEF PromotionInv, Types, TypeRow, ApplyOne, Changes, bounds, Fault, box, journal,
             marks
  <2>7. TypeList'
      <3>1. \/ UNCHANGED applied
            \/ f \notin ToSet(applied) /\ applied' = Append(applied, f)
          BY DEF ApplyOne
      <3>2. TypeList
          BY DEF PromotionInv, Types
      <3> QED BY <3>1, <3>2, Appended, SMTT(40) DEF TypeList
  <2> QED BY <2>1, <2>2, <2>3, <2>4, <2>5, <2>6, <2>7 DEF Types
<1>2. FlowInv'
    BY DEF PromotionInv, Types, TypeFlow, FlowInv, Waiting, ThreadRuns, journal, ApplyOne,
           Changes, bounds, Fault, box, marks
<1>3. CloneInv'
    BY DEF PromotionInv, Types, TypeFlow, FlowInv, CloneInv, Waiting, ApplyOne, Changes,
           bounds, Fault, box, journal, marks, ThreadRuns
<1>4. EditInv'
    BY DEF PromotionInv, Types, TypeTree, TypeMarks, FlowInv, CloneInv, EditInv, Early,
           ApplyOne, Changes, bounds, Fault, box, journal, marks, Waiting, ThreadRuns
<1>5. GateInv'
    BY DEF PromotionInv, Types, FlowInv, CloneInv, TypeFlow, GateInv, Early, ApplyOne,
           Changes, bounds, Fault, box, journal, marks, Waiting, ThreadRuns
<1>6. ChangeInv'
  <2>1. CASE UNCHANGED <<real, applied>>
      BY <2>1 DEF PromotionInv, Types, TypeFlow, ChangeInv, Changes, ApplyOne, box, journal,
             marks
  <2>2. CASE real' = [real EXCEPT ![f] = copy[f]] /\ applied' = Append(applied, f)
      <3>1. ToSet(applied)' = ToSet(applied) \cup {f}
          BY <2>2, Appended DEF PromotionInv, Types, TypeList, ApplyOne
      <3>2. f \in Changes /\ ChangeInv /\ TypeTree /\ thread = "apply"
          BY DEF PromotionInv, Types, ApplyOne
      <3>3. UNCHANGED <<base, copy, late>>
          BY DEF ApplyOne, marks
      <3> QED BY <2>2, <3>1, <3>2, <3>3 DEF ChangeInv, Changes, TypeTree
  <2> QED BY <2>1, <2>2 DEF ApplyOne
<1>7. BackupInv'
    BY DEF PromotionInv, Types, TypeTree, TypeFlow, TypeBox, FlowInv, BackupInv, Changes,
           ApplyOne, bounds, Fault, box, journal, marks, Waiting, ThreadRuns
<1>8. EndInv'
    BY DEF PromotionInv, Types, TypeTree, FlowInv, TypeFlow, EndInv, Early, ApplyOne,
           Changes, bounds, Fault, box, journal, marks, Waiting, ThreadRuns
<1>9. HeldInv'
    BY DEF PromotionInv, Types, TypeTree, TypeBox, FlowInv, TypeFlow, HeldInv, Early,
           ApplyOne, Changes, bounds, Fault, box, journal, marks, Waiting, ThreadRuns
<1>10. RowInv'
    BY DEF PromotionInv, Types, FlowInv, TypeFlow, TypeRow, RowInv, journal, ApplyOne,
           Changes, bounds, Fault, box, marks, Waiting, ThreadRuns
<1> QED BY <1>1, <1>2, <1>3, <1>4, <1>5, <1>6, <1>7, <1>8, <1>9, <1>10 DEF PromotionInv

(* All changes are made. *)
LEMMA ApplyEndsKeeps ==
    ASSUME PromotionInv, ApplyEnds
    PROVE  PromotionInv'
<1>1. Types'
  <2>1. TypeTree'
      BY DEF PromotionInv, Types, TypeTree, ApplyEnds, Changes, bounds, Fault, tree, journal,
             Content
  <2>2. TypeBox'
      BY DEF PromotionInv, Types, TypeBox, ApplyEnds, Changes, bounds, Fault, tree, journal,
             Content
  <2>3. TypeFlow'
      BY DEF PromotionInv, Types, TypeFlow, ApplyEnds, Changes, bounds, Fault, tree, journal,
             Pcs, Threads, Results
  <2>4. TypeMarks'
      BY DEF PromotionInv, Types, TypeMarks, ApplyEnds, Changes, bounds, Fault, tree,
             journal, Content
  <2>5. TypeBounds'
      BY PromotionConstants DEF PromotionInv, Types, TypeBounds, ApplyEnds, Changes, bounds,
             Fault, tree, journal
  <2>6. TypeRow'
      BY DEF PromotionInv, Types, TypeRow, ApplyEnds, Changes, bounds, Fault, tree, journal
  <2>7. TypeList'
      BY DEF PromotionInv, Types, TypeList, ApplyEnds, Changes, bounds, Fault, tree, journal
  <2> QED BY <2>1, <2>2, <2>3, <2>4, <2>5, <2>6, <2>7 DEF Types
<1>2. FlowInv'
    BY DEF PromotionInv, Types, TypeFlow, FlowInv, Waiting, ThreadRuns, journal, ApplyEnds,
           Changes, bounds, Fault, tree
<1>3. CloneInv'
    BY DEF PromotionInv, Types, TypeFlow, FlowInv, CloneInv, Waiting, ApplyEnds, Changes,
           bounds, Fault, tree, journal, ThreadRuns
<1>4. EditInv'
    BY DEF PromotionInv, Types, TypeTree, TypeMarks, FlowInv, CloneInv, EditInv, Early,
           ApplyEnds, Changes, bounds, Fault, tree, journal, Waiting, ThreadRuns
<1>5. GateInv'
    BY DEF PromotionInv, Types, FlowInv, CloneInv, TypeFlow, GateInv, Early, ApplyEnds,
           Changes, bounds, Fault, tree, journal, Waiting, ThreadRuns
<1>6. ChangeInv'
    BY DEF PromotionInv, Types, TypeTree, TypeFlow, FlowInv, ChangeInv, Changes, ApplyEnds,
           bounds, Fault, tree, journal, Waiting, ThreadRuns
<1>7. BackupInv'
    BY DEF PromotionInv, Types, TypeTree, TypeFlow, TypeBox, FlowInv, BackupInv, Changes,
           ApplyEnds, bounds, Fault, tree, journal, Waiting, ThreadRuns
<1>8. EndInv'
    BY DEF PromotionInv, Types, TypeTree, FlowInv, TypeFlow, ChangeInv, EndInv, Early,
           ApplyEnds, Changes, bounds, Fault, tree, journal, Waiting, ThreadRuns
<1>9. HeldInv'
    BY DEF PromotionInv, Types, TypeTree, TypeBox, FlowInv, TypeFlow, HeldInv, Early,
           ApplyEnds, Changes, bounds, Fault, tree, journal, Waiting, ThreadRuns
<1>10. RowInv'
    BY DEF PromotionInv, Types, FlowInv, TypeFlow, TypeRow, RowInv, journal, ApplyEnds,
           Changes, bounds, Fault, tree, Waiting, ThreadRuns
<1> QED BY <1>1, <1>2, <1>3, <1>4, <1>5, <1>6, <1>7, <1>8, <1>9, <1>10 DEF PromotionInv

(* The last change is undone: the list names it no more. *)
LEMMA UndoOneKeeps ==
    ASSUME PromotionInv, UndoOne
    PROVE  PromotionInv'
<1>1. Types'
  <2>1. TypeTree'
      BY Shortened DEF PromotionInv, Types, TypeTree, TypeList, TypeBox, UndoOne, Restored,
             bounds, Fault, box, journal, marks, Content
  <2>2. TypeBox'
      BY DEF PromotionInv, Types, TypeBox, UndoOne, Restored, bounds, Fault, box, journal,
             marks, Content
  <2>3. TypeFlow'
      BY DEF PromotionInv, Types, TypeFlow, UndoOne, Restored, bounds, Fault, box, journal,
             marks, Pcs, Threads, Results
  <2>4. TypeMarks'
      BY DEF PromotionInv, Types, TypeMarks, UndoOne, Restored, bounds, Fault, box, journal,
             marks, Content
  <2>5. TypeBounds'
      BY PromotionConstants DEF PromotionInv, Types, TypeBounds, UndoOne, Restored, bounds,
             Fault, box, journal, marks
  <2>6. TypeRow'
      BY DEF PromotionInv, Types, TypeRow, UndoOne, Restored, bounds, Fault, box, journal,
             marks
  <2>7. TypeList'
      BY Shortened DEF PromotionInv, Types, TypeList, UndoOne, Restored, bounds, Fault, box,
             journal, marks
  <2> QED BY <2>1, <2>2, <2>3, <2>4, <2>5, <2>6, <2>7 DEF Types
<1>2. FlowInv'
    BY DEF PromotionInv, Types, TypeFlow, FlowInv, Waiting, ThreadRuns, journal, UndoOne,
           Restored, bounds, Fault, box, marks
<1>3. CloneInv'
    BY DEF PromotionInv, Types, TypeFlow, FlowInv, CloneInv, Waiting, UndoOne, Restored,
           bounds, Fault, box, journal, marks, ThreadRuns
<1>4. EditInv'
    BY DEF PromotionInv, Types, TypeTree, TypeMarks, FlowInv, CloneInv, EditInv, Early,
           UndoOne, Restored, bounds, Fault, box, journal, marks, Waiting, ThreadRuns
<1>5. GateInv'
    BY DEF PromotionInv, Types, FlowInv, CloneInv, TypeFlow, GateInv, Early, UndoOne,
           Restored, bounds, Fault, box, journal, marks, Waiting, ThreadRuns
<1>6. ChangeInv'
    BY Shortened DEF PromotionInv, Types, TypeTree, TypeFlow, FlowInv, TypeList, BackupInv,
           ChangeInv, Changes, UndoOne, Restored, bounds, Fault, box, journal, marks,
           Waiting, ThreadRuns
<1>7. BackupInv'
    BY DEF PromotionInv, Types, TypeTree, TypeFlow, TypeBox, FlowInv, BackupInv, Changes,
           UndoOne, Restored, bounds, Fault, box, journal, marks, Waiting, ThreadRuns
<1>8. EndInv'
    BY DEF PromotionInv, Types, TypeTree, FlowInv, TypeFlow, EndInv, Early, UndoOne,
           Restored, bounds, Fault, box, journal, marks, Waiting, ThreadRuns
<1>9. HeldInv'
    BY Shortened DEF PromotionInv, Types, TypeTree, TypeBox, FlowInv, TypeFlow, TypeList,
           ChangeInv, BackupInv, HeldInv, Early, UndoOne, Restored, bounds, Fault, box,
           journal, marks, Waiting, ThreadRuns, Changes
<1>10. RowInv'
    BY DEF PromotionInv, Types, FlowInv, TypeFlow, TypeRow, RowInv, journal, UndoOne,
           Restored, bounds, Fault, box, marks, Waiting, ThreadRuns
<1> QED BY <1>1, <1>2, <1>3, <1>4, <1>5, <1>6, <1>7, <1>8, <1>9, <1>10 DEF PromotionInv

(* Every change is undone. *)
LEMMA UndoneKeeps ==
    ASSUME PromotionInv, Undone
    PROVE  PromotionInv'
<1>1. Types'
    BY DEF PromotionInv, Types, TypeTree, TypeBox, TypeFlow, TypeMarks, TypeBounds, TypeRow,
           TypeList, Undone, tree, box, journal, bounds, marks, Content, Pcs, Threads,
           Results
<1>2. FlowInv'
    BY DEF PromotionInv, Types, TypeFlow, FlowInv, Waiting, ThreadRuns, journal, Undone,
           tree, box, bounds, marks
<1>3. CloneInv'
    BY DEF PromotionInv, Types, TypeFlow, FlowInv, CloneInv, Waiting, Undone, tree, box,
           journal, bounds, marks, ThreadRuns
<1>4. EditInv'
    BY DEF PromotionInv, Types, TypeTree, TypeMarks, FlowInv, CloneInv, EditInv, Early,
           Undone, tree, box, journal, bounds, marks, Waiting, ThreadRuns
<1>5. GateInv'
    BY DEF PromotionInv, Types, FlowInv, CloneInv, TypeFlow, GateInv, Early, Undone, tree,
           box, journal, bounds, marks, Waiting, ThreadRuns
<1>6. ChangeInv'
    BY DEF PromotionInv, Types, TypeTree, TypeFlow, FlowInv, ChangeInv, Changes, Undone,
           tree, box, journal, bounds, marks, Waiting, ThreadRuns
<1>7. BackupInv'
    BY DEF PromotionInv, Types, TypeTree, TypeFlow, TypeBox, FlowInv, BackupInv, Changes,
           Undone, tree, box, journal, bounds, marks, Waiting, ThreadRuns
<1>8. EndInv'
    BY NoChange DEF PromotionInv, Types, TypeTree, FlowInv, TypeFlow, ChangeInv, EndInv,
           Early, Undone, tree, box, journal, bounds, marks, Waiting, ThreadRuns, Changes
<1>9. HeldInv'
    BY DEF PromotionInv, Types, TypeTree, TypeBox, FlowInv, TypeFlow, HeldInv, Early, Undone,
           tree, box, journal, bounds, marks, Waiting, ThreadRuns
<1>10. RowInv'
    BY DEF PromotionInv, Types, FlowInv, TypeFlow, TypeRow, RowInv, journal, Undone, tree,
           box, bounds, marks, Waiting, ThreadRuns
<1> QED BY <1>1, <1>2, <1>3, <1>4, <1>5, <1>6, <1>7, <1>8, <1>9, <1>10 DEF PromotionInv

(* promote() returns; the result says how. *)
LEMMA PromoteReturnsKeeps ==
    ASSUME PromotionInv, PromoteReturns
    PROVE  PromotionInv'
<1>1. Types'
    BY DEF PromotionInv, Types, TypeTree, TypeBox, TypeFlow, TypeMarks, TypeBounds, TypeRow,
           TypeList, PromoteReturns, ThreadOver, Discard, journal, tree, box, bounds, marks,
           Content, Pcs, Threads, Results
<1>2. FlowInv'
    BY DEF PromotionInv, Types, TypeFlow, FlowInv, Waiting, ThreadRuns, journal,
           PromoteReturns, ThreadOver, Discard, tree, box, bounds, marks
<1>3. CloneInv'
    BY DEF PromotionInv, Types, TypeFlow, FlowInv, CloneInv, Waiting, PromoteReturns,
           ThreadOver, Discard, journal, tree, box, bounds, marks, ThreadRuns
<1>4. EditInv'
    BY DEF PromotionInv, Types, TypeTree, TypeMarks, FlowInv, CloneInv, EditInv, Early,
           PromoteReturns, ThreadOver, Discard, journal, tree, box, bounds, marks, Waiting,
           ThreadRuns
<1>5. GateInv'
    BY DEF PromotionInv, Types, FlowInv, CloneInv, TypeFlow, GateInv, Early, PromoteReturns,
           ThreadOver, Discard, journal, tree, box, bounds, marks, Waiting, ThreadRuns
<1>6. ChangeInv'
    BY DEF PromotionInv, Types, TypeTree, TypeFlow, FlowInv, ChangeInv, Changes,
           PromoteReturns, ThreadOver, Discard, journal, tree, box, bounds, marks, Waiting,
           ThreadRuns
<1>7. BackupInv'
    BY DEF PromotionInv, Types, TypeTree, TypeFlow, TypeBox, FlowInv, BackupInv, Changes,
           PromoteReturns, ThreadOver, Discard, journal, tree, box, bounds, marks, Waiting,
           ThreadRuns
<1>8. EndInv'
    BY DEF PromotionInv, Types, TypeTree, FlowInv, TypeFlow, EndInv, Early, PromoteReturns,
           ThreadOver, Discard, journal, tree, box, bounds, marks, Waiting, ThreadRuns
<1>9. HeldInv'
    BY DEF PromotionInv, Types, TypeTree, TypeBox, FlowInv, TypeFlow, HeldInv, Early,
           PromoteReturns, ThreadOver, Discard, journal, tree, box, bounds, marks, Waiting,
           ThreadRuns
<1>10. RowInv'
    BY DEF PromotionInv, Types, FlowInv, TypeFlow, TypeRow, RowInv, journal, PromoteReturns,
           ThreadOver, Discard, tree, box, bounds, marks, Waiting, ThreadRuns
<1> QED BY <1>1, <1>2, <1>3, <1>4, <1>5, <1>6, <1>7, <1>8, <1>9, <1>10 DEF PromotionInv

(* Cancelled while the thread runs: the flow watches it. *)
LEMMA CancelPromotingKeeps ==
    ASSUME PromotionInv, CancelPromoting
    PROVE  PromotionInv'
<1>1. Types'
  <2>1. TypeTree'
      BY DEF PromotionInv, Types, TypeTree, CancelPromoting, Cancelled, tree, box, journal,
             marks, Content
  <2>2. TypeBox'
      BY DEF PromotionInv, Types, TypeBox, CancelPromoting, Cancelled, tree, box, journal,
             marks, Content
  <2>3. TypeFlow'
      BY DEF PromotionInv, Types, TypeFlow, CancelPromoting, Cancelled, tree, box, journal,
             marks, Pcs, Threads, Results
  <2>4. TypeMarks'
      BY DEF PromotionInv, Types, TypeMarks, CancelPromoting, Cancelled, tree, box, journal,
             marks, Content
  <2>5. TypeBounds'
      BY PromotionConstants DEF PromotionInv, Types, TypeBounds, CancelPromoting, Cancelled,
             tree, box, journal, marks
  <2>6. TypeRow'
      BY DEF PromotionInv, Types, TypeRow, CancelPromoting, Cancelled, tree, box, journal,
             marks
  <2>7. TypeList'
      BY DEF PromotionInv, Types, TypeList, CancelPromoting, Cancelled, tree, box, journal,
             marks
  <2> QED BY <2>1, <2>2, <2>3, <2>4, <2>5, <2>6, <2>7 DEF Types
<1>2. FlowInv'
    BY DEF PromotionInv, Types, TypeFlow, FlowInv, Waiting, ThreadRuns, journal,
           CancelPromoting, Cancelled, tree, box, marks
<1>3. CloneInv'
    BY DEF PromotionInv, Types, TypeFlow, FlowInv, CloneInv, Waiting, CancelPromoting,
           Cancelled, tree, box, journal, marks, ThreadRuns
<1>4. EditInv'
    BY DEF PromotionInv, Types, TypeTree, TypeMarks, FlowInv, CloneInv, EditInv, Early,
           CancelPromoting, Cancelled, tree, box, journal, marks, Waiting, ThreadRuns
<1>5. GateInv'
    BY DEF PromotionInv, Types, FlowInv, CloneInv, TypeFlow, GateInv, Early, CancelPromoting,
           Cancelled, tree, box, journal, marks, Waiting, ThreadRuns
<1>6. ChangeInv'
    BY DEF PromotionInv, Types, TypeTree, TypeFlow, FlowInv, ChangeInv, Changes,
           CancelPromoting, Cancelled, tree, box, journal, marks, Waiting, ThreadRuns
<1>7. BackupInv'
    BY DEF PromotionInv, Types, TypeTree, TypeFlow, TypeBox, FlowInv, BackupInv, Changes,
           CancelPromoting, Cancelled, tree, box, journal, marks, Waiting, ThreadRuns
<1>8. EndInv'
    BY DEF PromotionInv, Types, TypeTree, FlowInv, TypeFlow, EndInv, Early, CancelPromoting,
           Cancelled, tree, box, journal, marks, Waiting, ThreadRuns
<1>9. HeldInv'
    BY DEF PromotionInv, Types, TypeTree, TypeBox, FlowInv, TypeFlow, HeldInv, Early,
           CancelPromoting, Cancelled, tree, box, journal, marks, Waiting, ThreadRuns
<1>10. RowInv'
    BY DEF PromotionInv, Types, FlowInv, TypeFlow, TypeRow, RowInv, journal, CancelPromoting,
           Cancelled, tree, box, marks, Waiting, ThreadRuns
<1> QED BY <1>1, <1>2, <1>3, <1>4, <1>5, <1>6, <1>7, <1>8, <1>9, <1>10 DEF PromotionInv

(* The cancelled flow has seen how the thread ended. *)
LEMMA WatchedKeeps ==
    ASSUME PromotionInv, Watched
    PROVE  PromotionInv'
<1>1. Types'
    BY DEF PromotionInv, Types, TypeTree, TypeBox, TypeFlow, TypeMarks, TypeBounds, TypeRow,
           TypeList, Watched, ThreadOver, journal, tree, box, bounds, marks, Content, Pcs,
           Threads, Results
<1>2. FlowInv'
    BY DEF PromotionInv, Types, TypeFlow, FlowInv, Waiting, ThreadRuns, journal, Watched,
           ThreadOver, tree, box, bounds, marks
<1>3. CloneInv'
    BY DEF PromotionInv, Types, TypeFlow, FlowInv, CloneInv, Waiting, Watched, ThreadOver,
           journal, tree, box, bounds, marks, ThreadRuns
<1>4. EditInv'
    BY DEF PromotionInv, Types, TypeTree, TypeMarks, FlowInv, CloneInv, EditInv, Early,
           Watched, ThreadOver, journal, tree, box, bounds, marks, Waiting, ThreadRuns
<1>5. GateInv'
    BY DEF PromotionInv, Types, FlowInv, CloneInv, TypeFlow, GateInv, Early, Watched,
           ThreadOver, journal, tree, box, bounds, marks, Waiting, ThreadRuns
<1>6. ChangeInv'
    BY DEF PromotionInv, Types, TypeTree, TypeFlow, FlowInv, ChangeInv, Changes, Watched,
           ThreadOver, journal, tree, box, bounds, marks, Waiting, ThreadRuns
<1>7. BackupInv'
    BY DEF PromotionInv, Types, TypeTree, TypeFlow, TypeBox, FlowInv, BackupInv, Changes,
           Watched, ThreadOver, journal, tree, box, bounds, marks, Waiting, ThreadRuns
<1>8. EndInv'
    BY DEF PromotionInv, Types, TypeTree, FlowInv, TypeFlow, EndInv, Early, Watched,
           ThreadOver, journal, tree, box, bounds, marks, Waiting, ThreadRuns
<1>9. HeldInv'
    BY DEF PromotionInv, Types, TypeTree, TypeBox, FlowInv, TypeFlow, HeldInv, Early,
           Watched, ThreadOver, journal, tree, box, bounds, marks, Waiting, ThreadRuns
<1>10. RowInv'
    BY DEF PromotionInv, Types, FlowInv, TypeFlow, TypeRow, RowInv, journal, Watched,
           ThreadOver, tree, box, bounds, marks, Waiting, ThreadRuns
<1> QED BY <1>1, <1>2, <1>3, <1>4, <1>5, <1>6, <1>7, <1>8, <1>9, <1>10 DEF PromotionInv

(* The clean-up is cancelled and leaves the clone alone. *)
LEMMA CancelWatchingKeeps ==
    ASSUME PromotionInv, CancelWatching
    PROVE  PromotionInv'
<1>1. Types'
  <2>1. TypeTree'
      BY DEF PromotionInv, Types, TypeTree, CancelWatching, Cancelled, tree, box, journal,
             marks, Content
  <2>2. TypeBox'
      BY DEF PromotionInv, Types, TypeBox, CancelWatching, Cancelled, tree, box, journal,
             marks, Content
  <2>3. TypeFlow'
      BY DEF PromotionInv, Types, TypeFlow, CancelWatching, Cancelled, tree, box, journal,
             marks, Pcs, Threads, Results
  <2>4. TypeMarks'
      BY DEF PromotionInv, Types, TypeMarks, CancelWatching, Cancelled, tree, box, journal,
             marks, Content
  <2>5. TypeBounds'
      BY PromotionConstants DEF PromotionInv, Types, TypeBounds, CancelWatching, Cancelled,
             tree, box, journal, marks
  <2>6. TypeRow'
      BY DEF PromotionInv, Types, TypeRow, CancelWatching, Cancelled, tree, box, journal,
             marks
  <2>7. TypeList'
      BY DEF PromotionInv, Types, TypeList, CancelWatching, Cancelled, tree, box, journal,
             marks
  <2> QED BY <2>1, <2>2, <2>3, <2>4, <2>5, <2>6, <2>7 DEF Types
<1>2. FlowInv'
    BY DEF PromotionInv, Types, TypeFlow, FlowInv, Waiting, ThreadRuns, journal,
           CancelWatching, Cancelled, tree, box, marks
<1>3. CloneInv'
    BY DEF PromotionInv, Types, TypeFlow, FlowInv, CloneInv, Waiting, CancelWatching,
           Cancelled, tree, box, journal, marks, ThreadRuns
<1>4. EditInv'
    BY DEF PromotionInv, Types, TypeTree, TypeMarks, FlowInv, CloneInv, EditInv, Early,
           CancelWatching, Cancelled, tree, box, journal, marks, Waiting, ThreadRuns
<1>5. GateInv'
    BY DEF PromotionInv, Types, FlowInv, CloneInv, TypeFlow, GateInv, Early, CancelWatching,
           Cancelled, tree, box, journal, marks, Waiting, ThreadRuns
<1>6. ChangeInv'
    BY DEF PromotionInv, Types, TypeTree, TypeFlow, FlowInv, ChangeInv, Changes,
           CancelWatching, Cancelled, tree, box, journal, marks, Waiting, ThreadRuns
<1>7. BackupInv'
    BY DEF PromotionInv, Types, TypeTree, TypeFlow, TypeBox, FlowInv, BackupInv, Changes,
           CancelWatching, Cancelled, tree, box, journal, marks, Waiting, ThreadRuns
<1>8. EndInv'
    BY DEF PromotionInv, Types, TypeTree, FlowInv, TypeFlow, EndInv, Early, CancelWatching,
           Cancelled, tree, box, journal, marks, Waiting, ThreadRuns
<1>9. HeldInv'
    BY DEF PromotionInv, Types, TypeTree, TypeBox, FlowInv, TypeFlow, HeldInv, Early,
           CancelWatching, Cancelled, tree, box, journal, marks, Waiting, ThreadRuns
<1>10. RowInv'
    BY DEF PromotionInv, Types, FlowInv, TypeFlow, TypeRow, RowInv, journal, CancelWatching,
           Cancelled, tree, box, marks, Waiting, ThreadRuns
<1> QED BY <1>1, <1>2, <1>3, <1>4, <1>5, <1>6, <1>7, <1>8, <1>9, <1>10 DEF PromotionInv

(* The loop is torn down. *)
LEMMA TeardownKeeps ==
    ASSUME PromotionInv, Teardown
    PROVE  PromotionInv'
<1>1. Types'
  <2>1. TypeTree'
      BY DEF PromotionInv, Types, TypeTree, Teardown, ThreadRuns, Cancelled, tree, box,
             journal, Content
  <2>2. TypeBox'
      BY DEF PromotionInv, Types, TypeBox, Teardown, ThreadRuns, Cancelled, tree, box,
             journal, Content
  <2>3. TypeFlow'
      BY DEF PromotionInv, Types, TypeFlow, Teardown, ThreadRuns, Cancelled, tree, box,
             journal, Pcs, Threads, Results
  <2>4. TypeMarks'
      BY DEF PromotionInv, Types, TypeMarks, Teardown, ThreadRuns, Cancelled, tree, box,
             journal, Content
  <2>5. TypeBounds'
      BY PromotionConstants DEF PromotionInv, Types, TypeBounds, Teardown, ThreadRuns,
             Cancelled, tree, box, journal
  <2>6. TypeRow'
      BY DEF PromotionInv, Types, TypeRow, Teardown, ThreadRuns, Cancelled, tree, box,
             journal
  <2>7. TypeList'
      BY DEF PromotionInv, Types, TypeList, Teardown, ThreadRuns, Cancelled, tree, box,
             journal
  <2> QED BY <2>1, <2>2, <2>3, <2>4, <2>5, <2>6, <2>7 DEF Types
<1>2. FlowInv'
    BY DEF PromotionInv, Types, TypeFlow, FlowInv, Waiting, ThreadRuns, journal, Teardown,
           Cancelled, tree, box
<1>3. CloneInv'
    BY DEF PromotionInv, Types, TypeFlow, FlowInv, CloneInv, Waiting, Teardown, ThreadRuns,
           Cancelled, tree, box, journal
<1>4. EditInv'
    BY DEF PromotionInv, Types, TypeTree, TypeMarks, FlowInv, CloneInv, EditInv, Early,
           Teardown, ThreadRuns, Cancelled, tree, box, journal, Waiting
<1>5. GateInv'
    BY DEF PromotionInv, Types, FlowInv, CloneInv, TypeFlow, GateInv, Early, Teardown,
           ThreadRuns, Cancelled, tree, box, journal, Waiting
<1>6. ChangeInv'
    BY DEF PromotionInv, Types, TypeTree, TypeFlow, FlowInv, ChangeInv, Changes, Teardown,
           ThreadRuns, Cancelled, tree, box, journal, Waiting
<1>7. BackupInv'
    BY DEF PromotionInv, Types, TypeTree, TypeFlow, TypeBox, FlowInv, BackupInv, Changes,
           Teardown, ThreadRuns, Cancelled, tree, box, journal, Waiting
<1>8. EndInv'
    BY DEF PromotionInv, Types, TypeTree, FlowInv, TypeFlow, EndInv, Early, Teardown,
           ThreadRuns, Cancelled, tree, box, journal, Waiting
<1>9. HeldInv'
    BY DEF PromotionInv, Types, TypeTree, TypeBox, FlowInv, TypeFlow, HeldInv, Early,
           Teardown, ThreadRuns, Cancelled, tree, box, journal, Waiting
<1>10. RowInv'
    BY DEF PromotionInv, Types, FlowInv, TypeFlow, TypeRow, RowInv, journal, Teardown,
           ThreadRuns, Cancelled, tree, box, Waiting
<1> QED BY <1>1, <1>2, <1>3, <1>4, <1>5, <1>6, <1>7, <1>8, <1>9, <1>10 DEF PromotionInv

(* The outcome of an orphaned thread is awaited. *)
LEMMA OrphanedKeeps ==
    ASSUME PromotionInv, Orphaned
    PROVE  PromotionInv'
<1>1. Types'
    BY DEF PromotionInv, Types, TypeTree, TypeBox, TypeFlow, TypeMarks, TypeBounds, TypeRow,
           TypeList, Orphaned, ThreadOver, journal, tree, box, bounds, marks, Content, Pcs,
           Threads, Results
<1>2. FlowInv'
    BY DEF PromotionInv, Types, TypeFlow, FlowInv, Waiting, ThreadRuns, journal, Orphaned,
           ThreadOver, tree, box, bounds, marks
<1>3. CloneInv'
    BY DEF PromotionInv, Types, TypeFlow, FlowInv, CloneInv, Waiting, Orphaned, ThreadOver,
           journal, tree, box, bounds, marks, ThreadRuns
<1>4. EditInv'
    BY DEF PromotionInv, Types, TypeTree, TypeMarks, FlowInv, CloneInv, EditInv, Early,
           Orphaned, ThreadOver, journal, tree, box, bounds, marks, Waiting, ThreadRuns
<1>5. GateInv'
    BY DEF PromotionInv, Types, FlowInv, CloneInv, TypeFlow, GateInv, Early, Orphaned,
           ThreadOver, journal, tree, box, bounds, marks, Waiting, ThreadRuns
<1>6. ChangeInv'
    BY DEF PromotionInv, Types, TypeTree, TypeFlow, FlowInv, ChangeInv, Changes, Orphaned,
           ThreadOver, journal, tree, box, bounds, marks, Waiting, ThreadRuns
<1>7. BackupInv'
    BY DEF PromotionInv, Types, TypeTree, TypeFlow, TypeBox, FlowInv, BackupInv, Changes,
           Orphaned, ThreadOver, journal, tree, box, bounds, marks, Waiting, ThreadRuns
<1>8. EndInv'
    BY DEF PromotionInv, Types, TypeTree, FlowInv, TypeFlow, EndInv, Early, Orphaned,
           ThreadOver, journal, tree, box, bounds, marks, Waiting, ThreadRuns
<1>9. HeldInv'
    BY DEF PromotionInv, Types, TypeTree, TypeBox, FlowInv, TypeFlow, HeldInv, Early,
           Orphaned, ThreadOver, journal, tree, box, bounds, marks, Waiting, ThreadRuns
<1>10. RowInv'
    BY DEF PromotionInv, Types, FlowInv, TypeFlow, TypeRow, RowInv, journal, Orphaned,
           ThreadOver, tree, box, bounds, marks, Waiting, ThreadRuns
<1> QED BY <1>1, <1>2, <1>3, <1>4, <1>5, <1>6, <1>7, <1>8, <1>9, <1>10 DEF PromotionInv

(* The clone is discarded; no thread that may need it is left. *)
LEMMA DiscardedKeeps ==
    ASSUME PromotionInv, Discarded
    PROVE  PromotionInv'
<1>1. Types'
  <2>1. TypeTree'
      BY DEF PromotionInv, Types, TypeTree, Discarded, journal, RemoveClone, bounds, Fault,
             Cancelled, tree, marks, Content
  <2>2. TypeBox'
      <3>1. TypeBox
          BY DEF PromotionInv, Types
      <3>2. backup' = backup \/ backup' = [f \in Files |-> "none"]
          BY DEF Discarded, RemoveClone
      <3>3. backup' \in [Files -> Content \cup {"none"}]
          BY <3>1, <3>2, NoBackup, Zenon DEF TypeBox
      <3>4. rbdir' \in BOOLEAN
          BY <3>1 DEF TypeBox, Discarded, RemoveClone, Fault
      <3>5. clone' \in {"none", "live", "gone"}
          BY <3>1 DEF TypeBox, Discarded, RemoveClone, Fault
      <3>6. rbdir' => clone' = "live"
          BY <3>1 DEF TypeBox, Discarded, RemoveClone, Fault
      <3> QED BY <3>3, <3>4, <3>5, <3>6 DEF TypeBox
  <2>3. TypeFlow'
      BY DEF PromotionInv, Types, TypeFlow, Discarded, journal, RemoveClone, bounds, Fault,
             Cancelled, tree, marks, Pcs, Threads, Results
  <2>4. TypeMarks'
      BY DEF PromotionInv, Types, TypeMarks, Discarded, journal, RemoveClone, bounds, Fault,
             Cancelled, tree, marks, Content
  <2>5. TypeBounds'
      BY PromotionConstants DEF PromotionInv, Types, TypeBounds, Discarded, journal,
             RemoveClone, bounds, Fault, Cancelled, tree, marks
  <2>6. TypeRow'
      BY DEF PromotionInv, Types, TypeRow, Discarded, journal, RemoveClone, bounds, Fault,
             Cancelled, tree, marks
  <2>7. TypeList'
      BY DEF PromotionInv, Types, TypeList, Discarded, journal, RemoveClone, bounds, Fault,
             Cancelled, tree, marks
  <2> QED BY <2>1, <2>2, <2>3, <2>4, <2>5, <2>6, <2>7 DEF Types
<1>2. FlowInv'
    BY DEF PromotionInv, Types, TypeFlow, FlowInv, Waiting, ThreadRuns, journal, Discarded,
           RemoveClone, bounds, Fault, Cancelled, tree, marks
<1>3. CloneInv'
    BY DEF PromotionInv, Types, TypeFlow, FlowInv, CloneInv, Waiting, Discarded, journal,
           RemoveClone, bounds, Fault, Cancelled, tree, marks, ThreadRuns
<1>4. EditInv'
    BY DEF PromotionInv, Types, TypeTree, TypeMarks, FlowInv, CloneInv, EditInv, Early,
           Discarded, journal, RemoveClone, bounds, Fault, Cancelled, tree, marks, Waiting,
           ThreadRuns
<1>5. GateInv'
    BY DEF PromotionInv, Types, FlowInv, CloneInv, TypeFlow, GateInv, Early, Discarded,
           journal, RemoveClone, bounds, Fault, Cancelled, tree, marks, Waiting, ThreadRuns
<1>6. ChangeInv'
    BY DEF PromotionInv, Types, TypeTree, TypeFlow, FlowInv, ChangeInv, Changes, Discarded,
           journal, RemoveClone, bounds, Fault, Cancelled, tree, marks, Waiting, ThreadRuns
<1>7. BackupInv'
    BY DEF PromotionInv, Types, TypeTree, TypeFlow, TypeBox, FlowInv, BackupInv, Changes,
           Discarded, journal, RemoveClone, bounds, Fault, Cancelled, tree, marks, Waiting,
           ThreadRuns
<1>8. EndInv'
    BY DEF PromotionInv, Types, TypeTree, FlowInv, TypeFlow, EndInv, Early, Discarded,
           journal, RemoveClone, bounds, Fault, Cancelled, tree, marks, Waiting, ThreadRuns
<1>9. HeldInv'
    BY DEF PromotionInv, Types, TypeTree, TypeBox, FlowInv, TypeFlow, HeldInv, Early,
           Discarded, journal, RemoveClone, bounds, Fault, Cancelled, tree, marks, Waiting,
           ThreadRuns
<1>10. RowInv'
    BY DEF PromotionInv, Types, FlowInv, TypeFlow, TypeRow, RowInv, journal, Discarded,
           RemoveClone, bounds, Fault, Cancelled, tree, marks, Waiting, ThreadRuns
<1> QED BY <1>1, <1>2, <1>3, <1>4, <1>5, <1>6, <1>7, <1>8, <1>9, <1>10 DEF PromotionInv

(* The journal is resolved from the result. *)
LEMMA ResolveKeeps ==
    ASSUME PromotionInv, Resolve
    PROVE  PromotionInv'
<1>1. Types'
  <2>1. TypeTree'
      BY DEF PromotionInv, Types, TypeTree, Resolve, journal, Resolved, bounds, Fault,
             Cancelled, tree, box, marks, Promoted, CommitStaged, RollbackStaged, Content
  <2>2. TypeBox'
      BY DEF PromotionInv, Types, TypeBox, Resolve, journal, Resolved, bounds, Fault,
             Cancelled, tree, box, marks, Promoted, CommitStaged, RollbackStaged, Content
  <2>3. TypeFlow'
      BY DEF PromotionInv, Types, TypeFlow, Resolve, journal, Resolved, bounds, Fault,
             Cancelled, tree, box, marks, Promoted, CommitStaged, RollbackStaged, Pcs,
             Threads, Results
  <2>4. TypeMarks'
      BY DEF PromotionInv, Types, TypeMarks, Resolve, journal, Resolved, bounds, Fault,
             Cancelled, tree, box, marks, Promoted, CommitStaged, RollbackStaged, Content
  <2>5. TypeBounds'
      BY PromotionConstants DEF PromotionInv, Types, TypeBounds, Resolve, journal, Resolved,
             bounds, Fault, Cancelled, tree, box, marks, Promoted, CommitStaged,
             RollbackStaged
  <2>6. TypeRow'
      BY DEF PromotionInv, Types, TypeRow, Resolve, journal, Resolved, bounds, Fault,
             Cancelled, tree, box, marks, Promoted, CommitStaged, RollbackStaged
  <2>7. TypeList'
      BY DEF PromotionInv, Types, TypeList, Resolve, journal, Resolved, bounds, Fault,
             Cancelled, tree, box, marks, Promoted, CommitStaged, RollbackStaged
  <2> QED BY <2>1, <2>2, <2>3, <2>4, <2>5, <2>6, <2>7 DEF Types
<1>2. FlowInv'
    BY DEF PromotionInv, Types, TypeFlow, FlowInv, Waiting, ThreadRuns, journal, Resolve,
           Resolved, bounds, Fault, Cancelled, tree, box, marks, Promoted, CommitStaged,
           RollbackStaged
<1>3. CloneInv'
    BY DEF PromotionInv, Types, TypeFlow, FlowInv, CloneInv, Waiting, Resolve, journal,
           Resolved, bounds, Fault, Cancelled, tree, box, marks, Promoted, CommitStaged,
           RollbackStaged, ThreadRuns
<1>4. EditInv'
    BY DEF PromotionInv, Types, TypeTree, TypeMarks, FlowInv, CloneInv, EditInv, Early,
           Resolve, journal, Resolved, bounds, Fault, Cancelled, tree, box, marks, Promoted,
           CommitStaged, RollbackStaged, Waiting, ThreadRuns
<1>5. GateInv'
    BY DEF PromotionInv, Types, FlowInv, CloneInv, TypeFlow, GateInv, Early, Resolve,
           journal, Resolved, bounds, Fault, Cancelled, tree, box, marks, Promoted,
           CommitStaged, RollbackStaged, Waiting, ThreadRuns
<1>6. ChangeInv'
    BY DEF PromotionInv, Types, TypeTree, TypeFlow, FlowInv, ChangeInv, Changes, Resolve,
           journal, Resolved, bounds, Fault, Cancelled, tree, box, marks, Promoted,
           CommitStaged, RollbackStaged, Waiting, ThreadRuns
<1>7. BackupInv'
    BY DEF PromotionInv, Types, TypeTree, TypeFlow, TypeBox, FlowInv, BackupInv, Changes,
           Resolve, journal, Resolved, bounds, Fault, Cancelled, tree, box, marks, Promoted,
           CommitStaged, RollbackStaged, Waiting, ThreadRuns
<1>8. EndInv'
    BY DEF PromotionInv, Types, TypeTree, FlowInv, TypeFlow, EndInv, Early, Resolve, journal,
           Resolved, bounds, Fault, Cancelled, tree, box, marks, Promoted, CommitStaged,
           RollbackStaged, Waiting, ThreadRuns
<1>9. HeldInv'
    BY DEF PromotionInv, Types, TypeTree, TypeBox, FlowInv, TypeFlow, HeldInv, Early,
           Resolve, journal, Resolved, bounds, Fault, Cancelled, tree, box, marks, Promoted,
           CommitStaged, RollbackStaged, Waiting, ThreadRuns
<1>10. RowInv'
    BY DEF PromotionInv, Types, FlowInv, TypeFlow, TypeRow, RowInv, journal, Resolve,
           Resolved, bounds, Fault, Cancelled, tree, box, marks, Promoted, CommitStaged,
           RollbackStaged, Waiting, ThreadRuns
<1> QED BY <1>1, <1>2, <1>3, <1>4, <1>5, <1>6, <1>7, <1>8, <1>9, <1>10 DEF PromotionInv

(* The journal is resolved from how the thread ended. *)
LEMMA ResolveCancelledKeeps ==
    ASSUME PromotionInv, ResolveCancelled
    PROVE  PromotionInv'
<1>1. Types'
  <2>1. TypeTree'
      BY DEF PromotionInv, Types, TypeTree, ResolveCancelled, journal, Resolved, bounds,
             Fault, tree, box, marks, Promoted, CommitStaged, RollbackStaged, Content
  <2>2. TypeBox'
      BY DEF PromotionInv, Types, TypeBox, ResolveCancelled, journal, Resolved, bounds,
             Fault, tree, box, marks, Promoted, CommitStaged, RollbackStaged, Content
  <2>3. TypeFlow'
      BY DEF PromotionInv, Types, TypeFlow, ResolveCancelled, journal, Resolved, bounds,
             Fault, tree, box, marks, Promoted, CommitStaged, RollbackStaged, Pcs, Threads,
             Results
  <2>4. TypeMarks'
      BY DEF PromotionInv, Types, TypeMarks, ResolveCancelled, journal, Resolved, bounds,
             Fault, tree, box, marks, Promoted, CommitStaged, RollbackStaged, Content
  <2>5. TypeBounds'
      BY PromotionConstants DEF PromotionInv, Types, TypeBounds, ResolveCancelled, journal,
             Resolved, bounds, Fault, tree, box, marks, Promoted, CommitStaged,
             RollbackStaged
  <2>6. TypeRow'
      BY DEF PromotionInv, Types, TypeRow, ResolveCancelled, journal, Resolved, bounds,
             Fault, tree, box, marks, Promoted, CommitStaged, RollbackStaged
  <2>7. TypeList'
      BY DEF PromotionInv, Types, TypeList, ResolveCancelled, journal, Resolved, bounds,
             Fault, tree, box, marks, Promoted, CommitStaged, RollbackStaged
  <2> QED BY <2>1, <2>2, <2>3, <2>4, <2>5, <2>6, <2>7 DEF Types
<1>2. FlowInv'
    BY DEF PromotionInv, Types, TypeFlow, FlowInv, Waiting, ThreadRuns, journal,
           ResolveCancelled, Resolved, bounds, Fault, tree, box, marks, Promoted,
           CommitStaged, RollbackStaged
<1>3. CloneInv'
    BY DEF PromotionInv, Types, TypeFlow, FlowInv, CloneInv, Waiting, ResolveCancelled,
           journal, Resolved, bounds, Fault, tree, box, marks, Promoted, CommitStaged,
           RollbackStaged, ThreadRuns
<1>4. EditInv'
    BY DEF PromotionInv, Types, TypeTree, TypeMarks, FlowInv, CloneInv, EditInv, Early,
           ResolveCancelled, journal, Resolved, bounds, Fault, tree, box, marks, Promoted,
           CommitStaged, RollbackStaged, Waiting, ThreadRuns
<1>5. GateInv'
    BY DEF PromotionInv, Types, FlowInv, CloneInv, TypeFlow, GateInv, Early,
           ResolveCancelled, journal, Resolved, bounds, Fault, tree, box, marks, Promoted,
           CommitStaged, RollbackStaged, Waiting, ThreadRuns
<1>6. ChangeInv'
    BY DEF PromotionInv, Types, TypeTree, TypeFlow, FlowInv, ChangeInv, Changes,
           ResolveCancelled, journal, Resolved, bounds, Fault, tree, box, marks, Promoted,
           CommitStaged, RollbackStaged, Waiting, ThreadRuns
<1>7. BackupInv'
    BY DEF PromotionInv, Types, TypeTree, TypeFlow, TypeBox, FlowInv, BackupInv, Changes,
           ResolveCancelled, journal, Resolved, bounds, Fault, tree, box, marks, Promoted,
           CommitStaged, RollbackStaged, Waiting, ThreadRuns
<1>8. EndInv'
    BY DEF PromotionInv, Types, TypeTree, FlowInv, TypeFlow, EndInv, Early, ResolveCancelled,
           journal, Resolved, bounds, Fault, tree, box, marks, Promoted, CommitStaged,
           RollbackStaged, Waiting, ThreadRuns
<1>9. HeldInv'
    BY DEF PromotionInv, Types, TypeTree, TypeBox, FlowInv, TypeFlow, HeldInv, Early,
           ResolveCancelled, journal, Resolved, bounds, Fault, tree, box, marks, Promoted,
           CommitStaged, RollbackStaged, Waiting, ThreadRuns
<1>10. RowInv'
    BY DEF PromotionInv, Types, FlowInv, TypeFlow, TypeRow, RowInv, journal,
           ResolveCancelled, Resolved, bounds, Fault, tree, box, marks, Promoted,
           CommitStaged, RollbackStaged, Waiting, ThreadRuns
<1> QED BY <1>1, <1>2, <1>3, <1>4, <1>5, <1>6, <1>7, <1>8, <1>9, <1>10 DEF PromotionInv

(* The process dies, and its thread with it. *)
LEMMA CrashKeeps ==
    ASSUME PromotionInv, Crash
    PROVE  PromotionInv'
<1>1. Types'
  <2>1. TypeTree'
      BY DEF PromotionInv, Types, TypeTree, Crash, Fault, ThreadRuns, tree, box, journal,
             marks, Content
  <2>2. TypeBox'
      BY DEF PromotionInv, Types, TypeBox, Crash, Fault, ThreadRuns, tree, box, journal,
             marks, Content
  <2>3. TypeFlow'
      BY DEF PromotionInv, Types, TypeFlow, Crash, Fault, ThreadRuns, tree, box, journal,
             marks, Pcs, Threads, Results
  <2>4. TypeMarks'
      BY DEF PromotionInv, Types, TypeMarks, Crash, Fault, ThreadRuns, tree, box, journal,
             marks, Content
  <2>5. TypeBounds'
      BY PromotionConstants DEF PromotionInv, Types, TypeBounds, Crash, Fault, ThreadRuns,
             tree, box, journal, marks
  <2>6. TypeRow'
      BY DEF PromotionInv, Types, TypeRow, Crash, Fault, ThreadRuns, tree, box, journal,
             marks
  <2>7. TypeList'
      BY DEF PromotionInv, Types, TypeList, Crash, Fault, ThreadRuns, tree, box, journal,
             marks
  <2> QED BY <2>1, <2>2, <2>3, <2>4, <2>5, <2>6, <2>7 DEF Types
<1>2. FlowInv'
    BY DEF PromotionInv, Types, TypeFlow, FlowInv, Waiting, ThreadRuns, journal, Crash,
           Fault, tree, box, marks
<1>3. CloneInv'
    BY DEF PromotionInv, Types, TypeFlow, FlowInv, CloneInv, Waiting, Crash, Fault,
           ThreadRuns, tree, box, journal, marks
<1>4. EditInv'
    BY DEF PromotionInv, Types, TypeTree, TypeMarks, FlowInv, CloneInv, EditInv, Early,
           Crash, Fault, ThreadRuns, tree, box, journal, marks, Waiting
<1>5. GateInv'
    BY DEF PromotionInv, Types, FlowInv, CloneInv, TypeFlow, GateInv, Early, Crash, Fault,
           ThreadRuns, tree, box, journal, marks, Waiting
<1>6. ChangeInv'
    BY DEF PromotionInv, Types, TypeTree, TypeFlow, FlowInv, ChangeInv, Changes, Crash,
           Fault, ThreadRuns, tree, box, journal, marks, Waiting
<1>7. BackupInv'
    BY DEF PromotionInv, Types, TypeTree, TypeFlow, TypeBox, FlowInv, BackupInv, Changes,
           Crash, Fault, ThreadRuns, tree, box, journal, marks, Waiting
<1>8. EndInv'
    BY DEF PromotionInv, Types, TypeTree, FlowInv, TypeFlow, EndInv, Early, Crash, Fault,
           ThreadRuns, tree, box, journal, marks, Waiting
<1>9. HeldInv'
    BY DEF PromotionInv, Types, TypeTree, TypeBox, FlowInv, TypeFlow, ChangeInv, BackupInv,
           GateInv, HeldInv, Early, Crash, Fault, ThreadRuns, tree, box, journal, marks,
           Waiting, Changes
<1>10. RowInv'
    BY DEF PromotionInv, Types, FlowInv, TypeFlow, TypeRow, RowInv, journal, Crash, Fault,
           ThreadRuns, tree, box, marks, Waiting
<1> QED BY <1>1, <1>2, <1>3, <1>4, <1>5, <1>6, <1>7, <1>8, <1>9, <1>10 DEF PromotionInv

(* A later start sweeps the row and collects the clone, unless it holds backups. *)
LEMMA RestartKeeps ==
    ASSUME PromotionInv, Restart
    PROVE  PromotionInv'
<1>1. Types'
  <2>1. TypeTree'
      BY DEF PromotionInv, Types, TypeTree, Restart, ThreadRuns, SweepStale, Collect, tree,
             marks, RemoveClone, bounds, Fault, box, Content
  <2>2. TypeBox'
      <3>1. TypeBox
          BY DEF PromotionInv, Types
      <3>2. backup' = backup \/ backup' = [f \in Files |-> "none"]
          BY DEF Restart, Collect, RemoveClone, box
      <3>3. backup' \in [Files -> Content \cup {"none"}]
          BY <3>1, <3>2, NoBackup, Zenon DEF TypeBox
      <3>4. rbdir' \in BOOLEAN
          BY <3>1 DEF TypeBox, Restart, Collect, RemoveClone, box, Fault
      <3>5. clone' \in {"none", "live", "gone"}
          BY <3>1 DEF TypeBox, Restart, Collect, RemoveClone, box, Fault
      <3>6. rbdir' => clone' = "live"
          BY <3>1 DEF TypeBox, Restart, Collect, RemoveClone, box, Fault
      <3> QED BY <3>3, <3>4, <3>5, <3>6 DEF TypeBox
  <2>3. TypeFlow'
      BY DEF PromotionInv, Types, TypeFlow, Restart, ThreadRuns, SweepStale, Collect, tree,
             marks, RemoveClone, bounds, Fault, box, Pcs, Threads, Results, journal
  <2>4. TypeMarks'
      BY DEF PromotionInv, Types, TypeMarks, Restart, ThreadRuns, SweepStale, Collect, tree,
             marks, RemoveClone, bounds, Fault, box, Content
  <2>5. TypeBounds'
      BY PromotionConstants DEF PromotionInv, Types, TypeBounds, Restart, ThreadRuns,
             SweepStale, Collect, tree, marks, RemoveClone, bounds, Fault, box
  <2>6. TypeRow'
      BY DEF PromotionInv, Types, TypeRow, Restart, ThreadRuns, SweepStale, Collect, tree,
             marks, RemoveClone, bounds, Fault, box
  <2>7. TypeList'
      BY DEF PromotionInv, Types, TypeList, Restart, ThreadRuns, SweepStale, Collect, tree,
             marks, RemoveClone, bounds, Fault, box
  <2> QED BY <2>1, <2>2, <2>3, <2>4, <2>5, <2>6, <2>7 DEF Types
<1>2. FlowInv'
    BY DEF PromotionInv, Types, TypeFlow, FlowInv, Waiting, ThreadRuns, journal, Restart,
           SweepStale, Collect, tree, marks, RemoveClone, bounds, Fault, box
<1>3. CloneInv'
    BY DEF PromotionInv, Types, TypeFlow, FlowInv, CloneInv, Waiting, Restart, ThreadRuns,
           SweepStale, Collect, tree, marks, RemoveClone, bounds, Fault, box, journal
<1>4. EditInv'
    BY DEF PromotionInv, Types, TypeTree, TypeMarks, FlowInv, CloneInv, EditInv, Early,
           Restart, ThreadRuns, SweepStale, Collect, tree, marks, RemoveClone, bounds, Fault,
           box, Waiting, journal
<1>5. GateInv'
    BY DEF PromotionInv, Types, FlowInv, CloneInv, TypeFlow, GateInv, Early, Restart,
           ThreadRuns, SweepStale, Collect, tree, marks, RemoveClone, bounds, Fault, box,
           Waiting, journal
<1>6. ChangeInv'
    BY DEF PromotionInv, Types, TypeTree, TypeFlow, FlowInv, ChangeInv, Changes, Restart,
           ThreadRuns, SweepStale, Collect, tree, marks, RemoveClone, bounds, Fault, box,
           Waiting, journal
<1>7. BackupInv'
    BY DEF PromotionInv, Types, TypeTree, TypeFlow, TypeBox, FlowInv, BackupInv, Changes,
           Restart, ThreadRuns, SweepStale, Collect, tree, marks, RemoveClone, bounds, Fault,
           box, Waiting, journal
<1>8. EndInv'
    BY DEF PromotionInv, Types, TypeTree, FlowInv, TypeFlow, EndInv, Early, Restart,
           ThreadRuns, SweepStale, Collect, tree, marks, RemoveClone, bounds, Fault, box,
           Waiting, journal
<1>9. HeldInv'
    BY DEF PromotionInv, Types, TypeTree, TypeBox, FlowInv, TypeFlow, HeldInv, Early,
           Restart, ThreadRuns, SweepStale, Collect, tree, marks, RemoveClone, bounds, Fault,
           box, Waiting, journal
<1>10. RowInv'
    BY DEF PromotionInv, Types, FlowInv, TypeFlow, TypeRow, RowInv, journal, Restart,
           ThreadRuns, SweepStale, Collect, tree, marks, RemoveClone, bounds, Fault, box,
           Waiting
<1> QED BY <1>1, <1>2, <1>3, <1>4, <1>5, <1>6, <1>7, <1>8, <1>9, <1>10 DEF PromotionInv

(* Somebody changes a file of the real tree; the history notes which, and when. *)
LEMMA EditKeeps ==
    ASSUME PromotionInv, NEW f \in Files, NEW c \in {"user", "absent"}, Edit(f, c)
    PROVE  PromotionInv'
<1>1. Types'
  <2>1. TypeTree'
      BY DEF PromotionInv, Types, TypeTree, Edit, box, journal, Content
  <2>2. TypeBox'
      BY DEF PromotionInv, Types, TypeBox, Edit, box, journal, Content
  <2>3. TypeFlow'
      BY DEF PromotionInv, Types, TypeFlow, Edit, box, journal, Pcs, Threads, Results
  <2>4. TypeMarks'
      BY DEF PromotionInv, Types, TypeMarks, Edit, box, journal, Content
  <2>5. TypeBounds'
      BY PromotionConstants DEF PromotionInv, Types, TypeBounds, Edit, box, journal
  <2>6. TypeRow'
      BY DEF PromotionInv, Types, TypeRow, Edit, box, journal
  <2>7. TypeList'
      BY DEF PromotionInv, Types, TypeList, Edit, box, journal
  <2> QED BY <2>1, <2>2, <2>3, <2>4, <2>5, <2>6, <2>7 DEF Types
<1>2. FlowInv'
    BY DEF PromotionInv, Types, TypeFlow, FlowInv, Waiting, ThreadRuns, journal, Edit, box
<1>3. CloneInv'
    BY DEF PromotionInv, Types, TypeFlow, FlowInv, CloneInv, Waiting, Edit, box, journal,
           ThreadRuns
<1>4. EditInv'
    BY DEF PromotionInv, Types, TypeTree, TypeMarks, FlowInv, CloneInv, EditInv, Early, Edit,
           box, journal, Waiting, ThreadRuns
<1>5. GateInv'
    BY DEF PromotionInv, Types, FlowInv, CloneInv, TypeFlow, EditInv, TypeMarks, TypeTree,
           GateInv, Early, Edit, box, journal, Waiting, ThreadRuns
<1>6. ChangeInv'
    BY DEF PromotionInv, Types, TypeTree, TypeFlow, FlowInv, ChangeInv, Changes, Edit, box,
           journal, Waiting, ThreadRuns
<1>7. BackupInv'
    BY DEF PromotionInv, Types, TypeTree, TypeFlow, TypeBox, FlowInv, BackupInv, Changes,
           Edit, box, journal, Waiting, ThreadRuns
<1>8. EndInv'
    BY DEF PromotionInv, Types, TypeTree, FlowInv, TypeFlow, EndInv, Early, Edit, box,
           journal, Waiting, ThreadRuns
<1>9. HeldInv'
    BY DEF PromotionInv, Types, TypeTree, TypeBox, FlowInv, TypeFlow, HeldInv, Early, Edit,
           box, journal, Waiting, ThreadRuns
<1>10. RowInv'
    BY DEF PromotionInv, Types, FlowInv, TypeFlow, TypeRow, RowInv, journal, Edit, box,
           Waiting, ThreadRuns
<1> QED BY <1>1, <1>2, <1>3, <1>4, <1>5, <1>6, <1>7, <1>8, <1>9, <1>10 DEF PromotionInv

(* A step that changes nothing keeps it.                                   *)
LEMMA StutterKeeps ==
    ASSUME PromotionInv, UNCHANGED vars
    PROVE  PromotionInv'
<1>1. Types'
    BY DEF PromotionInv, Types, TypeTree, TypeBox, TypeFlow, TypeMarks, TypeBounds, TypeRow,
           TypeList, vars, tree, box, journal, bounds, marks
<1>2. (FlowInv /\ CloneInv /\ EditInv /\ GateInv)'
    BY DEF PromotionInv, FlowInv, CloneInv, EditInv, GateInv, ThreadRuns, Early, vars, tree,
           box, journal, bounds, marks
<1>3. (ChangeInv /\ BackupInv /\ EndInv /\ HeldInv /\ RowInv)'
    BY DEF PromotionInv, ChangeInv, BackupInv, EndInv, HeldInv, RowInv, Changes, Early, vars,
           tree, box, journal, bounds, marks
<1> QED BY <1>1, <1>2, <1>3 DEF PromotionInv

(* It holds at the start, before anything is cloned.                       *)
LEMMA InitKeeps == Init => PromotionInv
<1> SUFFICES ASSUME Init PROVE PromotionInv
    OBVIOUS
<1>1. Types
  <2>1. TypeTree
      BY DEF Init, TypeTree, Content
  <2>2. TypeBox
      BY NoBackup DEF Init, TypeBox
  <2>3. TypeMarks
      BY NoBackup DEF Init, TypeMarks
  <2>4. TypeFlow /\ TypeRow
      BY DEF Init, TypeFlow, TypeRow, Pcs, Threads, Results
  <2>5. TypeBounds
      BY PromotionConstants DEF Init, TypeBounds
  <2>6. TypeList
      BY DEF Init, TypeList
  <2> QED BY <2>1, <2>2, <2>3, <2>4, <2>5, <2>6 DEF Types
<1>2. FlowInv /\ CloneInv /\ EditInv /\ GateInv
    BY DEF Init, FlowInv, CloneInv, EditInv, GateInv, ThreadRuns, Early, Waiting
<1>3. ChangeInv /\ BackupInv /\ EndInv /\ HeldInv /\ RowInv
    BY DEF Init, ChangeInv, BackupInv, EndInv, HeldInv, RowInv
<1> QED BY <1>1, <1>2, <1>3 DEF PromotionInv

(* Every step keeps the invariant.                                         *)
LEMMA NextKeeps ==
    ASSUME PromotionInv, [Next]_vars
    PROVE  PromotionInv'
<1>1. CASE FlowStep
    BY <1>1, ClonedKeeps, BeginKeeps, RitualDoneKeeps, DecideKeeps, PromoteReturnsKeeps,
       WatchedKeeps, OrphanedKeeps, DiscardedKeeps, ResolveKeeps, ResolveCancelledKeeps
       DEF FlowStep
<1>2. CASE ThreadStep
    BY <1>2, GateKeeps, GateFailsKeeps, BackupKeeps, ApplyEndsKeeps, UndoOneKeeps,
       UndoneKeeps, ApplyOneKeeps DEF ThreadStep
<1>3. CASE Refuse \/ Start \/ RitualFails
    BY <1>3, RefuseKeeps, StartKeeps, RitualFailsKeeps
<1>4. CASE CancelCloning \/ CancelRun \/ CancelPromoting \/ CancelWatching
    BY <1>4, CancelCloningKeeps, CancelRunKeeps, CancelPromotingKeeps, CancelWatchingKeeps
<1>5. CASE Teardown \/ Crash \/ Restart
    BY <1>5, TeardownKeeps, CrashKeeps, RestartKeeps
<1>6. CASE \E f \in Files, c \in {"user", "absent"} : Edit(f, c)
    BY <1>6, EditKeeps
<1>7. CASE UNCHANGED vars
    BY <1>7, StutterKeeps
<1> QED BY <1>1, <1>2, <1>3, <1>4, <1>5, <1>6, <1>7 DEF Next

LEMMA Invariance == Spec => []PromotionInv
BY InitKeeps, NextKeeps, PTL DEF Spec

----------------------------------------------------------------------------
(* A list that names a file once is no longer than there are files.        *)
LEMMA NoLongerThanFiles ==
    ASSUME TypeList
    PROVE  Len(applied) <= Cardinality(Files)
<1> DEFINE n == Len(applied)
<1>1. n \in Nat /\ applied \in [1..n -> Files]
    BY DEF TypeList
<1>2. applied \in Injection(1..n, Files)
    BY <1>1 DEF TypeList, Injection, IsInjective
<1>3. IsFiniteSet(Files)
    BY PromotionConstants
<1>4. Cardinality(1..n) <= Cardinality(Files)
    BY <1>2, <1>3, FS_Injection
<1>5. Cardinality(1..n) = n
    BY <1>1, FS_Interval
<1> QED BY <1>4, <1>5

(* Every variable has its type, the list of changes is no longer than the  *)
(* number of files, and a backup directory is part of a clone that exists. *)
THEOREM TypeCorrect == Spec => []TypeOK
<1>1. PromotionInv => TypeOK
    BY NoLongerThanFiles
       DEF PromotionInv, Types, TypeTree, TypeBox, TypeFlow, TypeMarks, TypeBounds, TypeRow,
           TypeList, TypeOK
<1> QED BY <1>1, Invariance, PTL

(* All or nothing: how promote() ends, every file that nobody else touched *)
(* is as the operator approved it, or as it was before; an edit made       *)
(* before the drift gate survives.                                         *)
THEOREM PromotesWhole == Spec => []AllOrNothing
<1>1. PromotionInv => AllOrNothing
    BY DEF PromotionInv, EndInv, EditInv, AllOrNothing
<1> QED BY <1>1, Invariance, PTL

(* A promotion that is neither complete nor undone can be undone: no       *)
(* discard after a cancellation, crash, failed rollback or collection at a *)
(* later start takes the only copy of a file.                              *)
THEOREM UndoStaysPossible == Spec => []BackupOutlives
<1>1. PromotionInv => BackupOutlives
    BY DEF PromotionInv, Types, TypeTree, ChangeInv, BackupInv, HeldInv, BackupOutlives, Changes
<1> QED BY <1>1, Invariance, PTL

(* The row of the journal says what became of the files, whoever was       *)
(* cancelled while the thread went on.                                     *)
THEOREM RowIsTrue == Spec => []JournalTruthful
<1>1. PromotionInv => JournalTruthful
    BY DEF PromotionInv, RowInv, JournalTruthful
<1> QED BY <1>1, Invariance, PTL
=============================================================================
