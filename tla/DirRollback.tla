---------------------------- MODULE DirRollback ----------------------------
(***************************************************************************)
(* Move-aside rollback of a directory that a tool regenerates whole        *)
(* (local/tools/_dir_rollback.py) and the start-up reconciler of what a    *)
(* dead process left (local/tools/rollback_reconciler.py), on one target   *)
(* directory under the lease of its ritual.                                *)
(*                                                                         *)
(* A run is one use of DirectoryRollback by some process; runs are         *)
(* numbered in the order in which they start, so a run's number stands for *)
(* its nonce and for the generation it writes.  File system calls run in   *)
(* threads that a cancellation does not stop and the context waits for     *)
(* them, so a step is one call; a call on a tree may fail half way.  The   *)
(* lease is external: it is held, lost (with the heartbeat's flag raised), *)
(* or left behind by a dead process until it expires.                      *)
(***************************************************************************)
EXTENDS Naturals, FiniteSets, FiniteSetsExt

CONSTANTS
    MaxRuns,        \* bound: runs of the ritual
    MaxFaults,      \* bound: file system errors, crashes, lost leases
    CalmRestore     \* TRUE: the lease is not lost during the move aside or a restore

ASSUME DirConstants ==
    MaxRuns \in Nat /\ MaxFaults \in Nat /\ CalmRestore \in BOOLEAN

Runs == 1..MaxRuns

VARIABLES
    target,     \* what is at the target path
    backup,     \* what is at <target>.rollback-<r>
    pc,         \* where run r's context is
    aside,      \* run r has published its _backup
    lost,       \* lock.lease_lost of run r
    exc,        \* how the body of run r ended
    rbDone,     \* rollback_completed
    finDone,    \* finalization_completed
    lock,       \* who has the ritual's lease
    left,       \* backups the reconciler has listed and not looked at
    faults,
    good,       \* history: the last generation a run finished with, or NoGood
    before      \* history: what was at the target when run r entered

runVars == <<pc, aside, lost, exc, rbDone, finDone>>
vars == <<target, backup, pc, aside, lost, exc, rbDone, finDone, lock, left, faults, good, before>>

Free == 0
Gone == MaxRuns + 1         \* a process that died holding it
Sweeper == MaxRuns + 2      \* the reconciler
NoGood == MaxRuns + 1

\* A directory tree: whose generation, and in which state it is.
Kinds == {"absent", "whole", "partial", "empty", "link"}
Absent == [gen |-> 0, kind |-> "absent"]
Tree(g, k) == [gen |-> g, kind |-> k]
Torn(t) == [t EXCEPT !.kind = "partial"]
Present(t) == t.kind # "absent"

Init ==
    /\ \/ target = Absent /\ good = NoGood
       \/ target = Tree(0, "whole") /\ good = 0
    /\ backup = [r \in Runs |-> Absent]
    /\ pc = [r \in Runs |-> "new"]
    /\ aside = [r \in Runs |-> FALSE]
    /\ lost = [r \in Runs |-> FALSE]
    /\ exc = [r \in Runs |-> "none"]
    /\ rbDone = [r \in Runs |-> TRUE]
    /\ finDone = [r \in Runs |-> TRUE]
    /\ lock = Free
    /\ left = {}
    /\ faults = 0
    /\ before = [r \in Runs |-> Absent]

At(r, from, to) == pc[r] = from /\ pc' = [pc EXCEPT ![r] = to]
Fault == faults < MaxFaults /\ faults' = faults + 1
Report(r, rb, fin) ==
    /\ rbDone' = [rbDone EXCEPT ![r] = rb]
    /\ finDone' = [finDone EXCEPT ![r] = fin]

----------------------------------------------------------------------------
(* __aenter__, under the lock of the ritual: a linked target is refused,   *)
(* a missing one is a first run, a directory is to be moved aside.         *)
Enter(r) ==
    /\ lock = Free /\ \A q \in 1..(r - 1) : pc[q] # "new"
    /\ lock' = r
    /\ before' = [before EXCEPT ![r] = target]
    /\ \/ /\ target.kind = "link" /\ At(r, "new", "releasing")
          /\ UNCHANGED <<aside, rbDone, finDone>>
       \/ /\ target.kind = "absent" /\ At(r, "new", "body")
          /\ Report(r, FALSE, FALSE) /\ UNCHANGED aside
       \/ /\ target.kind \notin {"link", "absent"} /\ At(r, "new", "renaming")
          /\ aside' = [aside EXCEPT ![r] = TRUE]
          /\ Report(r, FALSE, FALSE)
    /\ UNCHANGED <<target, backup, lost, exc, left, faults, good>>

(* The shielded rename ends: it moved the directory, it failed, or it      *)
(* moved it and reported an error.  After an error or a cancellation the   *)
(* caller looks at the disk and undoes it.                                 *)
Rename(r) ==
    \/ /\ Present(target) /\ At(r, "renaming", "body")
       /\ target' = Absent /\ backup' = [backup EXCEPT ![r] = target]
       /\ UNCHANGED faults
    \/ /\ Present(target) /\ At(r, "renaming", "undoing") /\ Fault
       /\ target' = Absent /\ backup' = [backup EXCEPT ![r] = target]
    \/ /\ At(r, "renaming", "undoing")
       /\ Present(target) => Fault
       /\ ~Present(target) => UNCHANGED faults
       /\ UNCHANGED <<target, backup>>

MoveAside(r) ==
    /\ Rename(r)
    /\ UNCHANGED <<aside, lost, exc, rbDone, finDone, lock, left, good, before>>

(* _deshacer_rename_cancelado: decided by what is on the disk, not by how  *)
(* the rename ended.                                                       *)
Undo(r) ==
    /\ At(r, "undoing", "releasing")
    /\ \/ /\ Present(target) /\ ~Present(backup[r])
          /\ Report(r, TRUE, TRUE) /\ UNCHANGED <<target, backup, faults>>
       \/ /\ ~Present(target) /\ Present(backup[r])
          /\ target' = backup[r] /\ backup' = [backup EXCEPT ![r] = Absent]
          /\ Report(r, TRUE, TRUE) /\ UNCHANGED faults
       \/ /\ ~Present(target) /\ Present(backup[r]) /\ Fault
          /\ Report(r, FALSE, FALSE) /\ UNCHANGED <<target, backup>>
       \/ /\ Present(target) <=> Present(backup[r])
          /\ Report(r, FALSE, FALSE) /\ UNCHANGED <<target, backup, faults>>
    /\ UNCHANGED <<aside, lost, exc, lock, left, good, before>>

(* The tool writes its output (external); a run that lost its lease is     *)
(* fenced by assert_owned and writes no more.                              *)
Write(r, k) ==
    /\ pc[r] = "body" /\ ~lost[r]
    /\ target # Tree(r, k)
    /\ target' = Tree(r, k)
    /\ UNCHANGED <<backup, runVars, lock, left, faults, good, before>>

----------------------------------------------------------------------------
(* The body raises: _cleanup_on_exit asks the veto, which forbids the      *)
(* restore when the lease was lost or the error leaves it unknown whether  *)
(* the tool still runs.                                                    *)
\* Mutant: only the error is asked, not the lease
MayRestoreUnfenced(r) == exc'[r] = "error"
MayRestore(r) == exc'[r] = "error" /\ ~lost[r]

BodyRaises(r) ==
    /\ pc[r] = "body"
    /\ \E e \in {"error", "unknown"} : exc' = [exc EXCEPT ![r] = e]
    /\ pc' = [pc EXCEPT ![r] = IF MayRestore(r) THEN "clearing" ELSE "releasing"]
    /\ UNCHANGED <<target, backup, aside, lost, rbDone, finDone, lock, left, faults, good, before>>

(* _restore_backup: the new partial tree goes first, then the backup       *)
(* returns.  An error ends it; __aexit__ keeps it to itself.               *)
ClearTarget(r) ==
    \/ /\ At(r, "clearing", "puttingBack")
       /\ target' = Absent /\ UNCHANGED faults
    \/ /\ Present(target) /\ At(r, "clearing", "releasing") /\ Fault
       /\ target' \in {target, Torn(target)}

Clear(r) ==
    /\ ClearTarget(r)
    /\ UNCHANGED <<backup, aside, lost, exc, rbDone, finDone, lock, left, good, before>>

\* Mutant: the failed rename of the backup is reported as a rollback
PutBackReported(r) ==
    /\ At(r, "puttingBack", "releasing")
    /\ \/ /\ Present(backup[r])
          /\ target' = backup[r] /\ backup' = [backup EXCEPT ![r] = Absent]
          /\ UNCHANGED faults
       \/ ~Present(backup[r]) /\ UNCHANGED <<target, backup, faults>>
       \/ Present(backup[r]) /\ Fault /\ UNCHANGED <<target, backup>>
    /\ Report(r, TRUE, TRUE)
    /\ UNCHANGED <<aside, lost, exc, lock, left, good, before>>
PutBack(r) ==
    /\ At(r, "puttingBack", "releasing")
    /\ \/ /\ Present(backup[r]) /\ ~Present(target)
          /\ target' = backup[r] /\ backup' = [backup EXCEPT ![r] = Absent]
          /\ Report(r, TRUE, TRUE) /\ UNCHANGED faults
       \/ /\ ~Present(backup[r])
          /\ Report(r, TRUE, TRUE) /\ UNCHANGED <<target, backup, faults>>
       \/ /\ Present(backup[r]) /\ (Present(target) \/ faults < MaxFaults)
          /\ faults' = IF Present(target) THEN faults ELSE faults + 1
          /\ UNCHANGED <<target, backup, rbDone, finDone>>
    /\ UNCHANGED <<aside, lost, exc, lock, left, good, before>>

----------------------------------------------------------------------------
(* The body returns: the final target is validated, and the backup is      *)
(* discarded unless nothing replaced it.                                   *)
Regenerated == target.kind \in {"whole", "partial"}

BodyReturns(r) ==
    /\ At(r, "body", "validating")
    /\ target.gen = r => target.kind # "partial"
    /\ UNCHANGED <<target, backup, aside, lost, exc, rbDone, finDone, lock, left, faults, good, before>>

Finished(r) == IF target = Tree(r, "whole") /\ ~lost[r] THEN r ELSE good

\* Mutant: a target that exists counts as regenerated
ValidateExists(r) ==
    /\ pc[r] = "validating"
    /\ \/ /\ Present(backup[r]) /\ Present(target) /\ At(r, "validating", "discarding")
          /\ good' = Finished(r) /\ UNCHANGED finDone
       \/ /\ Present(backup[r]) /\ ~Present(target) /\ At(r, "validating", "refilling")
          /\ UNCHANGED <<good, finDone>>
       \/ /\ ~Present(backup[r]) /\ At(r, "validating", "releasing")
          /\ good' = Finished(r) /\ finDone' = [finDone EXCEPT ![r] = TRUE]
    /\ UNCHANGED <<target, backup, aside, lost, exc, rbDone, lock, left, faults, before>>
Validate(r) ==
    /\ \/ \* _final_target_is_valid says no: nothing is touched
          At(r, "validating", "releasing") /\ UNCHANGED <<good, finDone>>
       \/ /\ ~Present(backup[r]) /\ At(r, "validating", "releasing")
          /\ good' = Finished(r) /\ finDone' = [finDone EXCEPT ![r] = TRUE]
       \/ /\ Present(backup[r]) /\ Regenerated /\ At(r, "validating", "discarding")
          /\ good' = Finished(r) /\ UNCHANGED finDone
       \/ /\ Present(backup[r]) /\ ~Regenerated /\ At(r, "validating", "refilling")
          /\ UNCHANGED <<good, finDone>>
    /\ UNCHANGED <<target, backup, aside, lost, exc, rbDone, lock, left, faults, before>>

(* _restaurar_target_vacio_sync: link, veto, rmdir and rename in one go.   *)
Refill(r) ==
    /\ At(r, "refilling", "releasing")
    /\ \/ /\ ~lost[r] /\ target.kind \in {"absent", "empty"}
          /\ target' = backup[r] /\ backup' = [backup EXCEPT ![r] = Absent]
          /\ finDone' = [finDone EXCEPT ![r] = TRUE] /\ UNCHANGED faults
       \/ /\ ~lost[r] /\ target.kind \in {"absent", "empty"} /\ Fault
          /\ target' \in {target, Absent} /\ UNCHANGED <<backup, finDone>>
       \/ /\ lost[r] \/ target.kind \notin {"absent", "empty"}
          /\ UNCHANGED <<target, backup, finDone, faults>>
    /\ UNCHANGED <<aside, lost, exc, rbDone, lock, left, good, before>>

(* _descartar_backup_sync: the veto and the removal in one go.             *)
Remove(r) ==
    \/ /\ backup' = [backup EXCEPT ![r] = Absent]
       /\ finDone' = [finDone EXCEPT ![r] = TRUE] /\ UNCHANGED faults
    \/ /\ Present(backup[r]) /\ Fault
       /\ backup' \in {backup, [backup EXCEPT ![r] = Torn(@)]}
       /\ UNCHANGED finDone

Discard(r) ==
    /\ At(r, "discarding", "releasing")
    /\ \/ ~lost[r] /\ Remove(r)
       \/ lost[r] /\ UNCHANGED <<backup, finDone, faults>>
    /\ UNCHANGED <<target, aside, lost, exc, rbDone, lock, left, good, before>>

(* commit(): the restore is switched off before anything is awaited; what  *)
(* is at the target is final, even when it is empty, and only the backup   *)
(* is discarded.                                                           *)
Commit(r) ==
    /\ ~lost[r] /\ target.kind \notin {"partial", "link"}
    /\ At(r, "body", "sealed")
    /\ finDone' = [finDone EXCEPT ![r] = FALSE]
    /\ good' = IF target.kind = "whole" THEN target.gen ELSE NoGood
    /\ UNCHANGED <<target, backup, aside, lost, exc, rbDone, lock, left, faults, before>>

DiscardSealed(r) ==
    /\ At(r, "sealed", "releasing")
    /\ Remove(r)
    /\ aside' = [aside EXCEPT ![r] = aside[r] /\ ~finDone'[r]]
    /\ UNCHANGED <<target, lost, exc, rbDone, lock, left, good, before>>

(* The context around it gives the lease back, if it still has it.         *)
Release(r) ==
    /\ At(r, "releasing", "over")
    /\ lock' = IF lock = r THEN Free ELSE lock
    /\ UNCHANGED <<target, backup, aside, lost, exc, rbDone, finDone, left, faults, good, before>>

----------------------------------------------------------------------------
(* The lease lapses under a run, and its heartbeat notices.                *)
Lose(r) ==
    /\ lock = r /\ Fault
    /\ CalmRestore => pc[r] \notin {"renaming", "undoing", "clearing", "puttingBack"}
    /\ lock' = Free
    /\ lost' = [lost EXCEPT ![r] = TRUE]
    /\ UNCHANGED <<target, backup, pc, aside, exc, rbDone, finDone, left, good, before>>

(* The process dies, perhaps in the middle of removing a tree.             *)
Crash(r) ==
    /\ pc[r] \notin {"new", "over"} /\ Fault
    /\ pc' = [pc EXCEPT ![r] = "over"]
    /\ lock' = IF lock = r THEN Gone ELSE lock
    /\ \/ UNCHANGED <<target, backup>>
       \/ /\ pc[r] = "clearing" /\ Present(target)
          /\ target' = Torn(target) /\ UNCHANGED backup
       \/ /\ pc[r] \in {"discarding", "sealed"} /\ ~lost[r] /\ Present(backup[r])
          /\ backup' = [backup EXCEPT ![r] = Torn(@)] /\ UNCHANGED target
    /\ UNCHANGED <<aside, lost, exc, rbDone, finDone, left, good, before>>

Expire ==
    /\ lock = Gone /\ lock' = Free
    /\ UNCHANGED <<target, backup, runVars, left, faults, good, before>>

----------------------------------------------------------------------------
(* reconcile_orphan_rollback_backups, at the start of an instance: skipped *)
(* when the ritual's lock is alive, else under that lock, over the backups *)
(* in the order of their names.                                            *)
SweepBegins ==
    /\ lock = Free
    /\ left' = {r \in Runs : Present(backup[r]) /\ backup[r].kind # "link"}
    /\ left' # {}
    /\ lock' = Sweeper
    /\ UNCHANGED <<target, backup, runVars, faults, good, before>>

\* Mutant: a missing target is left missing
SweepKeepsAside ==
    /\ left # {}
    /\ left' = left \ {Min(left)}
    /\ UNCHANGED <<target, backup, runVars, lock, faults, good, before>>
SweepOne ==
    /\ left # {}
    /\ LET r == Min(left)
       IN /\ left' = left \ {r}
          /\ \/ /\ Present(target) \/ ~Present(backup[r])
                /\ UNCHANGED <<target, backup, faults>>
             \/ /\ ~Present(target) /\ Present(backup[r])
                /\ target' = backup[r] /\ backup' = [backup EXCEPT ![r] = Absent]
                /\ UNCHANGED faults
             \/ /\ ~Present(target) /\ Present(backup[r]) /\ Fault
                /\ UNCHANGED <<target, backup>>
    /\ UNCHANGED <<runVars, lock, good, before>>

SweepEnds ==
    /\ lock = Sweeper /\ left = {}
    /\ lock' = Free
    /\ UNCHANGED <<target, backup, runVars, left, faults, good, before>>

SweepCrashes ==
    /\ lock = Sweeper /\ Fault
    /\ lock' = Gone /\ left' = {}
    /\ UNCHANGED <<target, backup, runVars, good, before>>

CleanUp(r) ==
    \/ MoveAside(r) \/ Undo(r) \/ Clear(r) \/ PutBack(r) \/ Validate(r)
    \/ Refill(r) \/ Discard(r) \/ DiscardSealed(r) \/ Release(r)
EndBody(r) == BodyRaises(r) \/ BodyReturns(r) \/ Commit(r)
Sweep == SweepBegins \/ SweepOne \/ SweepEnds

Next ==
    \/ \E r \in Runs :
         \/ Enter(r) \/ CleanUp(r) \/ EndBody(r) \/ Lose(r) \/ Crash(r)
         \/ \E k \in Kinds \ {"absent"} : Write(r, k)
    \/ Expire \/ Sweep \/ SweepCrashes

Spec == Init /\ [][Next]_vars

(* A run's cleanup and body go on and end, the lease of a dead process     *)
(* expires, and there is always a later start of some instance.            *)
FairSpec ==
    /\ Spec /\ WF_vars(Expire) /\ WF_vars(Sweep)
    /\ \A r \in Runs : WF_vars(CleanUp(r)) /\ WF_vars(EndBody(r))

----------------------------------------------------------------------------
Places == {target} \cup {backup[r] : r \in Runs}

(* Types, and who may be where: a listed backup belongs to a sweep.        *)
TypeOK ==
    /\ target \in [gen : 0..MaxRuns, kind : Kinds]
    /\ backup \in [Runs -> [gen : 0..MaxRuns, kind : Kinds]]
    /\ lock \in 0..Sweeper
    /\ left \subseteq Runs /\ (left # {} => lock = Sweeper)
    /\ good \in 0..NoGood

(* The last generation a run finished with is on the disk, whole, at the   *)
(* target or in a backup, whatever was cancelled, failed, crashed or lost  *)
(* its lease: no cleanup, commit or sweep destroys the only copy.          *)
LastGoodKept == good # NoGood => Tree(good, "whole") \in Places

(* What a run that still has its lease reports on its way out is so: with  *)
(* rollback_completed the target is what it was at the entry, and with     *)
(* finalization_completed no backup of the run is left.                    *)
ReportTruthful ==
    \A r \in Runs : pc[r] = "releasing" /\ ~lost[r] =>
        /\ rbDone[r] => target = before[r]
        /\ finDone[r] => ~Present(backup[r])

(* No cleanup takes away what another run wrote or may need: a restore or  *)
(* a refill removes its own run's tree only; the reconciler removes no     *)
(* tree at all, and moves back only the backup of a run that is over or    *)
(* has lost its lease, never one that its run may still restore.           *)
NeverClobbers ==
    [][/\ target' # target /\ Present(target) =>
            /\ left' = left
            /\ \A r \in Runs : pc'[r] # pc[r] /\ pc[r] # "renaming" => target.gen = r
       /\ \A r \in Runs : left' # left /\ Present(backup[r]) /\ ~Present(backup'[r])
            => pc[r] = "over" \/ lost[r]]_vars

(* The previous good generation does not stay aside for ever: after any    *)
(* crash or failed restore some later start puts a directory back, unless  *)
(* a commit made an empty target final.                                    *)
TargetComesBack == good # NoGood ~> Present(target) \/ good = NoGood
=============================================================================
