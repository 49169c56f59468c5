------------------------- MODULE SandboxPromotion -------------------------
(***************************************************************************)
(* A ritual in a sandbox: ProfileSandbox clones the MO2 profile, the tool  *)
(* writes to the clone, the operator approves the diff, and the changes    *)
(* are promoted to the real tree (local/mo2/profile_sandbox.py,            *)
(* sandbox_run.py, app/orchestrator/sandbox_promotion.py).  The journal    *)
(* transaction of the tool is staged and resolved afterwards               *)
(* (tool_strategies/execute_synthesis.py, StagingJournal), or swept at the *)
(* next start, which also collects clones (rollback_reconciler.py).        *)
(*                                                                         *)
(* promote() runs in a thread that a cancellation of its awaiter does not  *)
(* stop; each file it writes is a step (tmp + os.replace).  The user or    *)
(* MO2 may change a file of the real tree at any time.                     *)
(***************************************************************************)
EXTENDS Naturals, FiniteSets, Sequences, SequencesExt

CONSTANTS
    Files,      \* files of the profile and of overwrite, by area and path
    MaxEdits,   \* bound: changes made by the user or MO2
    MaxFaults,  \* bound: I/O errors, database errors, crashes
    MaxCancels  \* bound: cancellations of the run and of its clean-up

ASSUME PromotionConstants ==
    /\ IsFiniteSet(Files)
    /\ MaxEdits \in Nat /\ MaxFaults \in Nat /\ MaxCancels \in Nat

VARIABLES
    real, base, copy,   \* content of each file: real tree, baseline, clone
    backup, rbdir,      \* rollback-*: the copies, and whether it exists
    clone,              \* the clone's directory
    pc,                 \* where execute() and the flow's run() are
    thread, applied,    \* _promote_sync, and the changes it has made
    result,             \* how run() ends
    tx, staged,         \* the row of the journal; StagingJournal's promise
    edits, faults, cancels,
    torn,               \* promote_task.cancelled(): the loop was torn down
    early, late,        \* history: edits before the drift gate; files edited later
    unclean,            \* history: rollback-* could not be removed at the end
    swept               \* history: the row was marked by sweep_stale_pending

tree == <<real, base, copy>>
box == <<backup, rbdir, clone>>
journal == <<tx, staged, swept>>
bounds == <<edits, faults, cancels>>
marks == <<torn, early, late, unclean>>
vars == <<tree, box, pc, thread, applied, result, journal, bounds, marks>>

Content == {"absent", "old", "new", "user", "torn"}
Pcs == {"idle", "cloning", "uncloning", "ritual", "asking", "promoting", "watching",
        "orphaned", "discarding", "journal", "ended", "crashed"}
Threads == {"none", "gate", "backup", "apply", "undo", "ok", "drift", "failed",
            "rbfailed", "dead"}
Results == {"none", "unavailable", "ritual_failed", "empty", "denied", "promoted",
            "drift", "rollback_failed", "error", "cancelled"}

Changes == {f \in Files : base[f] # copy[f]}
ThreadOver == thread \in {"ok", "drift", "failed", "rbfailed", "dead"}
ThreadRuns == thread \in {"gate", "backup", "apply", "undo"}
Early == {f \in Files : early[f] # "none"}

Init ==
    /\ real \in [Files -> {"absent", "old"}]
    /\ base = real /\ copy = real
    /\ backup = [f \in Files |-> "none"] /\ rbdir = FALSE
    /\ clone = "none"
    /\ pc = "idle" /\ thread = "none" /\ torn = FALSE /\ applied = <<>> /\ result = "none"
    /\ tx = "none" /\ staged = "none" /\ swept = FALSE
    /\ edits = 0 /\ faults = 0 /\ cancels = 0
    /\ early = [f \in Files |-> "none"] /\ late = {} /\ unclean = FALSE

Fault == faults < MaxFaults /\ faults' = faults + 1 /\ UNCHANGED <<edits, cancels>>
Cancelled == cancels < MaxCancels /\ cancels' = cancels + 1 /\ UNCHANGED <<edits, faults>>

\* discard(): the whole clone goes, rollback-* with it.
RemoveClone ==
    /\ clone' = "gone"
    /\ backup' = [f \in Files |-> "none"] /\ rbdir' = FALSE

Discard(then) == result' = then /\ pc' = "discarding"

----------------------------------------------------------------------------
\* Without a guard nobody could approve: the ritual is not run.
Refuse ==
    /\ pc = "idle"
    /\ pc' = "journal" /\ result' = "unavailable"
    /\ UNCHANGED <<tree, box, thread, applied, journal, bounds, marks>>

Start ==
    /\ pc = "idle"
    /\ pc' = "cloning"
    /\ UNCHANGED <<tree, box, thread, applied, result, journal, bounds, marks>>

\* _materialize() ends.  It cleans up after itself; a clone that nobody waits
\* for any more is discarded, as far as that works.
Cloned ==
    /\ \/ /\ pc = "cloning"
          /\ base' = real /\ copy' = real /\ clone' = "live"
          /\ pc' = "ritual" /\ UNCHANGED <<result, bounds>>
       \/ /\ pc = "cloning" /\ Fault
          /\ pc' = "journal" /\ result' = "error"
          /\ UNCHANGED <<base, copy, clone>>
       \/ /\ pc = "uncloning"
          /\ \/ clone' = "gone" /\ UNCHANGED bounds
             \/ clone' = "live" /\ Fault
          /\ pc' = "journal" /\ result' = "cancelled"
          /\ UNCHANGED <<base, copy>>
    /\ UNCHANGED <<real, backup, rbdir, thread, applied, journal, marks>>

CancelCloning ==
    /\ pc = "cloning" /\ Cancelled
    /\ pc' = "uncloning"
    /\ UNCHANGED <<tree, box, thread, applied, result, journal, marks>>

\* The service opens its transaction through the StagingJournal.
Begin ==
    /\ pc = "ritual" /\ tx = "none"
    /\ tx' = "pending" /\ staged' = "open"
    /\ UNCHANGED <<tree, box, pc, thread, applied, result, swept, bounds, marks>>

\* The tool has written to the clone and its commit is deferred.
RitualDone ==
    /\ pc = "ritual" /\ tx = "pending"
    /\ copy' \in {[f \in Files |-> IF f \in out THEN "new" ELSE IF f \in gone THEN "absent" ELSE base[f]] :
                      out \in SUBSET Files, gone \in SUBSET Files}
    /\ staged' = "commit"
    /\ IF copy' = base
       THEN Discard("empty")
       ELSE pc' = "asking" /\ UNCHANGED result
    /\ UNCHANGED <<real, base, box, thread, applied, tx, swept, bounds, marks>>

\* success is falsy, and the service has marked its transaction; or the tool
\* or the diff raises, and it may not have.
RitualFails ==
    /\ pc = "ritual" /\ Fault
    /\ \/ /\ Discard("ritual_failed")
          /\ tx' = IF tx = "pending" THEN "rolled_back" ELSE tx
          /\ UNCHANGED staged
       \/ /\ Discard("error")
          /\ staged' \in {staged} \cup (IF tx = "pending" THEN {"commit"} ELSE {})
          /\ tx' \in {tx} \cup (IF tx = "pending" THEN {"rolled_back"} ELSE {})
    /\ UNCHANGED <<tree, box, thread, applied, swept, marks>>

\* The operator decides; no answer is a denial.
Decide ==
    /\ pc = "asking"
    /\ \/ pc' = "promoting" /\ thread' = "gate" /\ UNCHANGED <<result, bounds>>
       \/ Discard("denied") /\ UNCHANGED <<thread, bounds>>
       \/ Discard("error") /\ Fault /\ UNCHANGED thread
    /\ UNCHANGED <<tree, box, applied, journal, marks>>

CancelRun ==
    /\ pc \in {"ritual", "asking"} /\ Cancelled
    /\ Discard("cancelled")
    /\ UNCHANGED <<tree, box, thread, applied, journal, marks>>

----------------------------------------------------------------------------
(* The thread of promote().                                                *)

\* _check_drift(): the whole tree, not only the files to change.  Of a clone
\* that is gone the baseline and the diff are empty.
Gate ==
    /\ thread = "gate"
    /\ \/ clone = "live" /\ thread' = (IF real = base THEN "backup" ELSE "drift")
       \/ /\ clone # "live"
          /\ thread' = IF \A f \in Files : real[f] = "absent" THEN "ok" ELSE "drift"
    /\ UNCHANGED <<tree, box, pc, applied, result, journal, bounds, marks>>

GateFails ==
    /\ thread = "gate" /\ Fault
    /\ thread' = "failed"
    /\ UNCHANGED <<tree, box, pc, applied, result, journal, marks>>

\* Phase 0: every real file the changes concern is copied first; the first
\* copy makes rollback-* (and the clone's directory, were it gone).
Backup ==
    LET saved == {f \in Changes : real[f] # "absent"}
        made == rbdir' = TRUE /\ clone' = "live"
    IN  /\ thread = "backup"
        /\ \/ /\ backup' = [f \in Files |-> IF f \in saved THEN real[f] ELSE "none"]
              /\ IF saved # {} THEN made ELSE UNCHANGED <<rbdir, clone>>
              /\ thread' = "apply" /\ UNCHANGED bounds
           \/ /\ thread' = "failed" /\ Fault
              /\ (saved # {} /\ made) \/ UNCHANGED <<rbdir, clone>>
              /\ UNCHANGED backup
        /\ UNCHANGED <<tree, pc, applied, result, journal, marks>>

\* Phase 1: removals before everything else.  Any error leads to _rollback();
\* so does a copy that is no longer there.
ApplyOne(f) ==
    /\ thread = "apply" /\ f \in Changes \ ToSet(applied)
    /\ copy[f] # "absent" =>
           \A g \in Changes \ ToSet(applied) : copy[g] # "absent"
    /\ \/ /\ copy[f] = "absent" \/ clone = "live"
          /\ real' = [real EXCEPT ![f] = copy[f]]
          /\ applied' = Append(applied, f)
          /\ UNCHANGED <<thread, bounds>>
       \/ /\ copy[f] # "absent" /\ clone # "live"
          /\ thread' = "undo" /\ UNCHANGED <<real, applied, bounds>>
       \/ thread' = "undo" /\ Fault /\ UNCHANGED <<real, applied>>
    /\ UNCHANGED <<base, copy, box, pc, result, journal, marks>>

\* All changes are made; rollback-* is removed, and an error in that removal
\* leaves promote() as an exception although the changes stay.
ApplyEnds ==
    /\ thread = "apply" /\ Changes = ToSet(applied)
    /\ \/ /\ thread' = "ok"
          /\ backup' = [f \in Files |-> "none"] /\ rbdir' = FALSE
          /\ UNCHANGED <<bounds, unclean>>
       \/ /\ rbdir /\ thread' = "failed" /\ unclean' = TRUE
          /\ Fault /\ UNCHANGED <<backup, rbdir>>
    /\ UNCHANGED <<tree, clone, pc, applied, result, journal, torn, early, late>>

\* Mutant: a file the tool had added is not taken out again.
RestoredKeepsAdded(f) == IF base[f] = "absent" THEN real[f] ELSE backup[f]

\* What _rollback() makes of a file: one that was added goes, the others come
\* from their backup.
Restored(f) == IF base[f] = "absent" THEN "absent" ELSE backup[f]

\* _rollback(): the last change first; an error in it ends it, and so does a
\* backup that is missing.  A removed file is copied back in place.
UndoOne ==
    /\ thread = "undo" /\ applied # <<>>
    /\ LET f == Last(applied) IN
       \/ /\ Restored(f) # "none"
          /\ real' = [real EXCEPT ![f] = Restored(f)]
          /\ applied' = Front(applied)
          /\ UNCHANGED <<thread, bounds>>
       \/ /\ Restored(f) = "none"
          /\ thread' = "rbfailed" /\ UNCHANGED <<real, applied, bounds>>
       \/ /\ thread' = "rbfailed" /\ Fault /\ UNCHANGED applied
          /\ \/ UNCHANGED real
             \/ copy[f] = "absent" /\ real' = [real EXCEPT ![f] = "torn"]
    /\ UNCHANGED <<base, copy, box, pc, result, journal, marks>>

Undone ==
    /\ thread = "undo" /\ applied = <<>>
    /\ thread' = "failed"
    /\ UNCHANGED <<tree, box, pc, applied, result, journal, bounds, marks>>

ThreadStep ==
    \/ Gate \/ GateFails \/ Backup \/ ApplyEnds \/ UndoOne \/ Undone
    \/ \E f \in Files : ApplyOne(f)

----------------------------------------------------------------------------
(* What the flow makes of it.                                              *)
PromoteReturns ==
    /\ pc = "promoting" /\ ThreadOver
    /\ \/ thread = "ok" /\ Discard("promoted")
       \/ thread = "drift" /\ Discard("drift")
       \/ thread = "failed" /\ Discard("error")
       \/ thread = "rbfailed" /\ pc' = "journal" /\ result' = "rollback_failed"
    /\ UNCHANGED <<tree, box, thread, applied, journal, bounds, marks>>

CancelPromoting ==
    /\ pc = "promoting" /\ Cancelled
    /\ pc' = "watching" /\ result' = "cancelled"
    /\ UNCHANGED <<tree, box, thread, applied, journal, marks>>

\* _finalizar_promote_cancelado(): the outcome first, then the clone.
Watched ==
    /\ pc = "watching" /\ ThreadOver
    /\ pc' = IF thread = "rbfailed" THEN "journal" ELSE "discarding"
    /\ UNCHANGED <<tree, box, thread, applied, result, journal, bounds, marks>>

\* The clean-up itself is cancelled (or cancelled again while it discards):
\* the clone is left alone.  desenlace_promocion() waits for the thread.
CancelWatching ==
    /\ pc = "watching" /\ Cancelled
    /\ pc' = "orphaned"
    /\ UNCHANGED <<tree, box, thread, applied, result, journal, marks>>

\* The loop is torn down and cancels every task, that of promote() too; its
\* thread goes on.  The clean-up then takes promote() for ended and discards
\* the clone, unless it is itself cancelled first.
Teardown ==
    /\ pc \in {"promoting", "watching"} /\ ThreadRuns /\ Cancelled
    /\ torn' = TRUE /\ result' = "cancelled"
    /\ \/ pc' = "discarding"
       \/ pc = "watching" /\ pc' = "orphaned"
    /\ UNCHANGED <<tree, box, thread, applied, journal, early, late, unclean>>

Orphaned ==
    /\ pc = "orphaned" /\ (ThreadOver \/ torn)
    /\ pc' = "journal"
    /\ UNCHANGED <<tree, box, thread, applied, result, journal, bounds, marks>>

\* An error of discard() is logged or suppressed, whatever it has removed; a
\* cancellation ends the wait for its thread, not the thread.
Discarded ==
    /\ pc = "discarding" /\ pc' = "journal"
    /\ \/ RemoveClone /\ UNCHANGED <<bounds, result>>
       \/ /\ Fault /\ UNCHANGED <<clone, result>>
          /\ \/ UNCHANGED <<backup, rbdir>>
             \/ rbdir' = FALSE /\ backup' = [f \in Files |-> "none"]
       \/ RemoveClone /\ Cancelled /\ result' = "cancelled"
    /\ UNCHANGED <<tree, thread, applied, journal, marks>>

----------------------------------------------------------------------------
(* The journal.                                                            *)

\* Mutant: a cancelled run counts as not promoted.
PromotedByResult == result = "promoted"

\* desenlace_promocion() after a cancellation, result["sandbox"] otherwise.
Promoted == IF result = "cancelled" THEN thread = "ok" /\ ~torn ELSE result = "promoted"

\* commit_transaction(), for a row that is PENDING; the service's own commit
\* was deferred.
CommitStaged ==
    tx' = IF staged = "commit" /\ tx = "pending" THEN "committed" ELSE tx

\* mark_transaction_rolled_back(), whatever the row says.
RollbackStaged ==
    tx' = IF staged # "none" THEN "rolled_back" ELSE tx

Resolved == IF Promoted THEN CommitStaged ELSE RollbackStaged

\* execute(): an exception of run() goes past the journal; so may a database
\* error or a cancellation at this point.
Resolve ==
    /\ pc = "journal" /\ result # "cancelled" /\ pc' = "ended"
    /\ \/ result # "error" /\ Resolved /\ staged' = "none" /\ UNCHANGED bounds
       \/ result = "error" /\ UNCHANGED <<tx, staged, bounds>>
       \/ result # "error" /\ Fault /\ UNCHANGED <<tx, staged>>
       \/ /\ result # "error" /\ Cancelled /\ UNCHANGED staged
          /\ Resolved \/ UNCHANGED tx
    /\ UNCHANGED <<tree, box, thread, applied, result, swept, marks>>

\* _resolver_staged_tras_cancelacion(), shielded; an error is logged only.
ResolveCancelled ==
    /\ pc = "journal" /\ result = "cancelled" /\ pc' = "ended"
    /\ \/ Resolved /\ staged' = "none" /\ UNCHANGED bounds
       \/ Fault /\ UNCHANGED <<tx, staged>>
    /\ UNCHANGED <<tree, box, thread, applied, result, swept, marks>>

Crash ==
    /\ pc \notin {"idle", "ended", "crashed"} /\ Fault
    /\ pc' = "crashed"
    /\ thread' = IF ThreadRuns THEN "dead" ELSE thread
    /\ UNCHANGED <<tree, box, applied, result, journal, marks>>

\* Mutant: the collection takes no notice of rollback-*.
CollectAny ==
    \/ clone = "live" /\ RemoveClone /\ UNCHANGED bounds
    \/ clone # "live" /\ UNCHANGED <<box, bounds>>

\* _reconciliar_clones_sandbox(): a clone with rollback-* is kept for ever.
Collect ==
    \/ clone = "live" /\ ~rbdir /\ RemoveClone /\ UNCHANGED bounds
    \/ clone = "live" /\ ~rbdir /\ Fault /\ UNCHANGED box
    \/ (clone # "live" \/ rbdir) /\ UNCHANGED <<box, bounds>>

\* Mutant: rows of earlier sessions are left as they are.
SweepNothing == UNCHANGED <<tx, swept>>

\* sweep_stale_pending(): an orphaned row counts as rolled back.
SweepStale ==
    /\ tx' = IF tx = "pending" THEN "rolled_back" ELSE tx
    /\ swept' = (swept \/ tx = "pending")

\* A later start of the program, when row and clone are more than a day old.
Restart ==
    /\ pc \in {"ended", "crashed"} /\ ~ThreadRuns
    /\ tx = "pending" \/ clone = "live" \/ pc = "crashed"
    /\ pc' = "ended"
    /\ SweepStale
    /\ Collect
    /\ UNCHANGED <<tree, thread, applied, result, staged, marks>>

\* The user, or MO2, changes or removes a file of the real tree.
Edit(f, c) ==
    /\ edits < MaxEdits /\ edits' = edits + 1
    /\ c # real[f] /\ real' = [real EXCEPT ![f] = c]
    /\ IF thread \in {"none", "gate"}
       THEN /\ early' = IF clone = "none" THEN early ELSE [early EXCEPT ![f] = c]
            /\ UNCHANGED late
       ELSE late' = late \cup {f} /\ UNCHANGED early
    /\ UNCHANGED <<base, copy, box, pc, thread, applied, result, journal, faults, cancels,
                   torn, unclean>>

FlowStep ==
    \/ Cloned \/ Begin \/ RitualDone \/ Decide \/ PromoteReturns \/ Watched
    \/ Orphaned \/ Discarded \/ Resolve \/ ResolveCancelled

Next ==
    \/ Refuse \/ Start \/ FlowStep \/ RitualFails \/ ThreadStep
    \/ CancelCloning \/ CancelRun \/ CancelPromoting \/ CancelWatching
    \/ Teardown \/ Crash \/ Restart
    \/ \E f \in Files, c \in {"user", "absent"} : Edit(f, c)

Spec == Init /\ [][Next]_vars

(* The flow and the thread go on (the operator's silence is a denial after *)
(* the guard's timeout), and the program is started again some day.        *)
FairSpec == Spec /\ WF_vars(FlowStep) /\ WF_vars(ThreadStep) /\ WF_vars(Restart)

----------------------------------------------------------------------------
(* Types; a backup directory is part of a clone that exists.               *)
TypeOK ==
    /\ real \in [Files -> Content] /\ base \in [Files -> Content]
    /\ copy \in [Files -> Content]
    /\ backup \in [Files -> Content \cup {"none"}] /\ rbdir \in BOOLEAN
    /\ clone \in {"none", "live", "gone"}
    /\ pc \in Pcs /\ thread \in Threads /\ result \in Results
    /\ torn \in BOOLEAN /\ unclean \in BOOLEAN /\ swept \in BOOLEAN
    /\ early \in [Files -> Content \cup {"none"}] /\ late \subseteq Files
    /\ edits \in 0..MaxEdits /\ faults \in 0..MaxFaults /\ cancels \in 0..MaxCancels
    /\ applied \in Seq(Files) /\ Len(applied) <= Cardinality(Files)
    /\ tx \in {"none", "pending", "committed", "rolled_back"}
    /\ staged \in {"none", "open", "commit"}
    /\ rbdir => clone = "live"

(* All or nothing: promote() leaves every file as the operator approved    *)
(* it, or, when it stops at the drift gate or fails and rolls back, as it  *)
(* was before; of files that nobody else changed meanwhile.  A change made *)
(* to the real tree after the clone and before the drift gate survives     *)
(* both.  The exceptions are an error in removing rollback-* after the     *)
(* last change and a clone discarded at teardown before the diff was       *)
(* computed.                                                               *)
AllOrNothing ==
    /\ \A f \in Files \ (Early \cup late) :
        /\ thread = "ok" /\ ~torn => real[f] = copy[f]
        /\ thread \in {"drift", "failed"} /\ ~unclean => real[f] = base[f]
    /\ \A f \in Early \ late : early[f] # base[f] => real[f] = early[f]

(* As long as a promotion is neither complete nor undone, each file it has *)
(* changed can be restored from the clone: no discard after a              *)
(* cancellation, crash, failed rollback or clean-up at a later start takes *)
(* the only copy.  Teardown is the exception.                              *)
BackupOutlives ==
    ~torn /\ thread \in {"apply", "undo", "rbfailed", "dead"} =>
        \A f \in Files \ (Early \cup late) :
            \/ real[f] = base[f] \/ base[f] = "absent"
            \/ clone = "live" /\ rbdir /\ backup[f] = base[f]

(* The journal says what became of the files: a committed row means that   *)
(* the promotion is complete, and a row that was rolled back that it is    *)
(* not, also for runs that were cancelled while the thread finished.  The  *)
(* exceptions are the sweep, which marks whatever was left pending, and    *)
(* the teardown, which does not wait for the thread.                       *)
JournalTruthful ==
    /\ tx = "committed" => thread = "ok"
    /\ tx = "rolled_back" /\ ~swept /\ ~torn => thread # "ok"

(* In the end no transaction is pending and no clone is left, except one   *)
(* that holds the backup of a promotion that was not finished.             *)
NothingLeftBehind ==
    pc # "idle" ~> tx # "pending" /\ (clone # "live" \/ rbdir)
=============================================================================
