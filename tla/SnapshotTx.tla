----------------------------- MODULE SnapshotTx -----------------------------
(***************************************************************************)
(* SnapshotTransactionLock of sky_claw/app/db/locks.py: a lease of module  *)
(* LeaseLocks, snapshots of the target files, a heartbeat while the body   *)
(* runs, and on the way out a rollback from the snapshots and the release. *)
(* FileSnapshotManager appears through create_snapshot and                 *)
(* restore_snapshot.                                                       *)
(*                                                                         *)
(* A file's content is the session that wrote it last, Nobody for the      *)
(* content it had at the start.  A session is one context object; target   *)
(* files exist when the context is entered.                                *)
(***************************************************************************)
EXTENDS LeaseLocks

CONSTANTS
    Files,             \* target_files
    MayForce,          \* the sessions that may have force_rollback
    MayCancelRestore,  \* whether a rollback may be cancelled half way
    Pace               \* what is assumed of time; see TxTick

ASSUME TxAssumption ==
    /\ IsFiniteSet(Files)
    /\ MayForce \subseteq Sessions
    /\ MayCancelRestore \in BOOLEAN
    /\ Pace \in {"free", "prompt", "entered", "timely"}

VARIABLES
    force,      \* the sessions with force_rollback (previews)
    stage,      \* where __aenter__, the body or __aexit__ is
    exc,        \* the exception the body ended with
    snap,       \* self.snapshots: the content kept for each file
    restored,   \* files put back by _rollback_snapshots
    failed,     \* rollback_failures
    stray,      \* files a copy thread of a cancelled restore still writes
    file        \* the files' content

txVars == <<force, stage, exc, snap, restored, failed, stray, file>>
vars == <<leaseVars, txVars>>

NoSnap == "none"
Torn == "torn"             \* the content a copy leaves that broke off

Kept(s) == {f \in Files : snap[s][f] # NoSnap}
Pending(s) == Kept(s) \ (restored[s] \cup failed[s])

TypeOK ==
    /\ LeaseTypeOK
    /\ stage \in [Sessions -> {"enter", "body", "exit", "rollback", "release",
                               "done", "refused"}]
    /\ force \subseteq MayForce
    /\ exc \in [Sessions -> {"none", "error", "lease", "veto", "cancel",
                             "rollback"}]
    /\ \A s \in Sessions, f \in Files :
          snap[s][f] \in Sessions \cup {Nobody, Torn, NoSnap}
    /\ restored \in [Sessions -> SUBSET Files]
    /\ failed \in [Sessions -> SUBSET Files]
    /\ stray \in [Sessions -> SUBSET Files]
    /\ file \in [Files -> Sessions \cup {Nobody, Torn}]

Init ==
    /\ LeaseInit
    /\ force \in SUBSET MayForce
    /\ stage = [s \in Sessions |-> "enter"]
    /\ exc = [s \in Sessions |-> "none"]
    /\ snap = [s \in Sessions |-> [f \in Files |-> NoSnap]]
    /\ restored = [s \in Sessions |-> {}]
    /\ failed = [s \in Sessions |-> {}]
    /\ stray = [s \in Sessions |-> {}]
    /\ file = [f \in Files |-> Nobody]

Goes(s, st) == stage' = [stage EXCEPT ![s] = st]
Raises(s, e) == exc' = [exc EXCEPT ![s] = e]

-----------------------------------------------------------------------------
(***************************************************************************)
(* __aenter__: the lease first (module LeaseLocks), then the snapshots,    *)
(* and the heartbeat only after the last of them.                          *)
(***************************************************************************)

TakeSnapshot(s, f) ==
    /\ pc[s] = "held" /\ stage[s] = "enter"
    /\ snap[s][f] = NoSnap
    /\ snap' = [snap EXCEPT ![s][f] = file[f]]
    /\ UNCHANGED <<leaseVars, force, stage, exc, restored, failed, stray, file>>

(* create_snapshot raises or is cancelled: _safe_release, then re-raise.   *)
EnterFails(s) ==
    /\ pc[s] = "held" /\ stage[s] = "enter"
    /\ Kept(s) # Files
    /\ StartRelease(s)
    /\ Goes(s, "refused")
    /\ \E e \in {"error", "cancel"} : Raises(s, e)
    /\ UNCHANGED <<force, snap, restored, failed, stray, file>>

Entered(s) ==
    /\ stage[s] = "enter"
    /\ Kept(s) = Files
    /\ StartHeartbeat(s)
    /\ Goes(s, "body")
    /\ UNCHANGED <<force, exc, snap, restored, failed, stray, file>>

-----------------------------------------------------------------------------
(* The body. *)

Write(s, f) ==
    /\ stage[s] = "body"
    /\ file[f] # s
    /\ file' = [file EXCEPT ![f] = s]
    /\ UNCHANGED <<leaseVars, force, stage, exc, snap, restored, failed, stray>>

BodyEnds(s) ==
    /\ stage[s] = "body"
    /\ Goes(s, "exit")
    /\ \E e \in {"none", "error", "veto", "cancel"} : Raises(s, e)
    /\ UNCHANGED <<leaseVars, force, snap, restored, failed, stray, file>>

(* assert_owned raises LockLeaseLostError: the flag is up, or the row read *)
(* inside the boundary is not this context's running lease.                *)
AssertOwnedFails(s) ==
    /\ stage[s] = "body"
    /\ \/ lost[s]
       \/ tx = NoTx /\ (~ReleaseHits(s) \/ now >= row.exp)
    /\ lost' = [lost EXCEPT ![s] = TRUE]
    /\ Goes(s, "exit")
    /\ Raises(s, "lease")
    /\ UNCHANGED <<dbVars, mgr, callerVars, job, token, hb, until, spent, force,
                   snap, restored, failed, stray, file>>

-----------------------------------------------------------------------------
(***************************************************************************)
(* __aexit__                                                               *)
(***************************************************************************)

(* A lost lease or unknown terminality keeps the exception path from       *)
(* rolling back; force_rollback restores in spite of a lost lease.         *)
ShouldRollBack(s) ==
    LET leaseLoss == lost[s] \/ exc[s] = "lease"
    IN  /\ exc[s] # "veto"
        /\ s \in force \/ (exc[s] # "none" /\ ~leaseLoss)

(* _stop_heartbeat, and the decision on the rollback. *)
ExitStopsReleased(s) ==                                             \* mutant
    /\ stage[s] = "exit"
    /\ IF hb[s].st # "off" THEN StopHeartbeat(s) ELSE StartRelease(s)
    /\ IF hb[s].st # "off" THEN UNCHANGED stage
       ELSE Goes(s, IF ShouldRollBack(s) THEN "rollback" ELSE "done")
    /\ UNCHANGED <<force, exc, snap, restored, failed, stray, file>>
ExitStops(s) ==
    /\ stage[s] = "exit"
    /\ IF hb[s].st # "off" THEN StopHeartbeat(s) ELSE UNCHANGED leaseVars
    /\ Goes(s, IF ShouldRollBack(s) THEN "rollback" ELSE "release")
    /\ UNCHANGED <<force, exc, snap, restored, failed, stray, file>>

Restore(s, f) ==
    /\ stage[s] = "rollback"
    /\ f \in Pending(s)
    /\ file' = [file EXCEPT ![f] = snap[s][f]]
    /\ restored' = [restored EXCEPT ![s] = @ \cup {f}]
    /\ UNCHANGED <<leaseVars, force, stage, exc, snap, failed, stray>>

(* restore_snapshot raises: the snapshot is gone, or the checksum does not *)
(* match and the file is put back as it was, or the copy breaks off.       *)
RestoreFails(s, f) ==
    /\ stage[s] = "rollback"
    /\ f \in Pending(s)
    /\ failed' = [failed EXCEPT ![s] = @ \cup {f}]
    /\ file' \in {file, [file EXCEPT ![f] = Torn]}
    /\ UNCHANGED <<leaseVars, force, stage, exc, snap, restored, stray>>

(* CancelledError inside restore_snapshot ends the loop; the finally block *)
(* books every file not reached as a failure.  asyncio.to_thread cannot    *)
(* stop its thread: the copy being waited for may still run.               *)
RollbackCancelledUnbooked(s) ==                                     \* mutant
    /\ MayCancelRestore
    /\ stage[s] = "rollback"
    /\ Pending(s) # {}
    /\ Goes(s, "release")
    /\ Raises(s, "cancel")
    /\ UNCHANGED <<leaseVars, force, snap, restored, failed, stray, file>>
RollbackCancelled(s) ==
    /\ MayCancelRestore
    /\ stage[s] = "rollback"
    /\ \E f \in Pending(s) :
          stray' = [stray EXCEPT ![s] = {f}] \/ UNCHANGED stray
    /\ failed' = [failed EXCEPT ![s] = @ \cup Pending(s)]
    /\ Goes(s, "release")
    /\ Raises(s, "cancel")
    /\ UNCHANGED <<leaseVars, force, snap, restored, file>>

StrayCopy(s, f) ==
    /\ f \in stray[s]
    /\ stray' = [stray EXCEPT ![s] = @ \ {f}]
    /\ file' = [file EXCEPT ![f] = snap[s][f]]
    /\ UNCHANGED <<leaseVars, force, stage, exc, snap, restored, failed>>

(* A forced rollback that left a file mutated raises on a clean exit.       *)
RollbackEnds(s) ==
    /\ stage[s] = "rollback"
    /\ Pending(s) = {}
    /\ Goes(s, "release")
    /\ IF exc[s] = "none" /\ failed[s] # {}
       THEN Raises(s, "rollback") ELSE UNCHANGED exc
    /\ UNCHANGED <<leaseVars, force, snap, restored, failed, stray, file>>

(* The finally block: _safe_release, always; a clean exit whose lease was  *)
(* lost then raises LockLeaseLostError.                                    *)
ExitReleases(s) ==
    /\ stage[s] = "release"
    /\ StartRelease(s)
    /\ Goes(s, "done")
    /\ IF exc[s] = "none" /\ lost[s] THEN Raises(s, "lease") ELSE UNCHANGED exc
    /\ UNCHANGED <<force, snap, restored, failed, stray, file>>

-----------------------------------------------------------------------------
TxStep(s) ==
    \/ EnterFails(s) \/ Entered(s)
    \/ BodyEnds(s) \/ AssertOwnedFails(s)
    \/ ExitStops(s) \/ RollbackCancelled(s) \/ RollbackEnds(s)
    \/ ExitReleases(s)
    \/ \E f \in Files :
          \/ TakeSnapshot(s, f) \/ Write(s, f)
          \/ Restore(s, f) \/ RestoreFails(s, f) \/ StrayCopy(s, f)

(***************************************************************************)
(* Time.  "free" assumes nothing.  "prompt": a heartbeat renews before the *)
(* term it guards runs out, which TTL/renew_divisor is chosen for, and a   *)
(* lease just acquired is handed over within its term.  "entered": the     *)
(* snapshots, which no heartbeat covers, also end within the term.         *)
(* "timely": and so does the rollback, which none covers either.           *)
(***************************************************************************)
TermGuarded(s) ==
    \/ Pace = "timely"
    \/ Pace \in {"prompt", "entered"} /\ hb[s].st # "off"
    \/ Pace = "entered" /\ stage[s] = "enter"

TxTick ==
    /\ Tick
    /\ \A s \in Sessions :
          /\ pc[s] = "held" /\ TermGuarded(s) /\ now < until[s] =>
                now' < until[s]
          /\ Pace # "free" /\ pc[s] = "acquiring" /\ job[s].st = "got" =>
                now' < job[s].exp
    /\ UNCHANGED txVars

Next ==
    \/ LeaseStep /\ UNCHANGED txVars
    \/ TxTick
    \/ \E s \in Sessions : TxStep(s)

Spec == Init /\ [][Next]_vars

-----------------------------------------------------------------------------
(* After __aexit__ decided, rollback_attempted is ShouldRollBack. *)
rollback_completed(s) ==
    /\ stage[s] \in {"release", "done"}
    /\ ShouldRollBack(s)
    /\ Kept(s) # {}
    /\ failed[s] = {}

(* rollback_completed never claims a rollback that did not put every file  *)
(* back (_rollback_snapshots, its finally block): while no other context   *)
(* has been let in and no copy thread is left, the files are what they     *)
(* were when this one was entered.                                         *)
RollbackReportTruthful ==
    \A s \in Sessions :
        /\ rollback_completed(s)
        /\ \A t \in Sessions \ {s} : pc[t] = "idle"
        => \A f \in Files : file[f] = snap[s][f]

PutsBack(s, f) ==
    \/ f \in restored'[s] \ restored[s]
    \/ f \in stray[s] \ stray'[s]

(* __aexit__: "we never clobber a concurrent owner's mutations": a restore *)
(* never overwrites what a context whose lease is running has written.     *)
RestoreNeverClobbers ==
    [][\A s \in Sessions, f \in Files, t \in Sessions :
          PutsBack(s, f) /\ t # s /\ file[f] = t =>
              ~(pc[t] = "held" /\ now < until[t])]_vars

(* "Rollback happens BEFORE lock release" (the module's header), with one  *)
(* exception: the copy thread of a restore that was cancelled, and that    *)
(* file was reported as not restored.                                      *)
RestoreBeforeRelease ==
    [][\A s \in Sessions, f \in Files :
          PutsBack(s, f) => pc[s] = "held" \/ f \in failed[s]]_vars

(* The class's usage note on the body, "Safe zone -- lock held": as long   *)
(* as the heartbeat is beating, the row is this context's.                 *)
SafeZoneHeld ==
    \A s \in Sessions :
        stage[s] = "body" /\ hb[s].st # "off" => owner = s /\ ReleaseHits(s)
=============================================================================
