-------------------------- MODULE VaultProtection --------------------------
(***************************************************************************)
(* The protection transaction of the runtime vault: the access lists of    *)
(* every node of a Golden tree are replaced, under a write-ahead journal   *)
(* and a lock file, by processes that may die between any two steps.       *)
(*                                                                         *)
(*   apply    authorization_context, mutation_executor: take the lock,     *)
(*            publish the plan, create the journal, mutate every node      *)
(*            bottom-up, or undo in process;                               *)
(*   recover  recovery_orchestrator: a fresh process decides from the disk *)
(*            alone, and rolls back, hands over, or refuses;               *)
(*   finalize finalization_orchestrator: verify, archive the backup,       *)
(*            commit, release the lock.                                    *)
(*                                                                         *)
(* One operation on one Golden.  Nodes are numbered in apply order.  The   *)
(* lock binding of the operation is published before the lock is first     *)
(* taken, so it is there from the start.  Every input-output call may fail. *)
(***************************************************************************)
EXTENDS Naturals, FiniteSets, FiniteSetsExt

CONSTANTS Procs,        \* processes that may work on the operation
          N,            \* nodes of the plan
          MaxArchive,   \* MAX_ARCHIVE_RETRIES
          Nobody        \* no process

ASSUME VaultConstants ==
    /\ N \in Nat \ {0}
    /\ MaxArchive \in Nat \ {0}
    /\ Nobody \notin Procs

VARIABLES
    plan,      \* authorized_plan.json: none, durable, or present and unusable
    jst,       \* transaction state derived from the journal file, or absent
    wal,       \* last record of every node in the journal file
    tail,      \* the file ends whole, in a torn write, or breaks the schema
    backup,    \* manifest in golden_backups
    sd,        \* security descriptor of every node
    content,   \* the tree still has the digest and the node set of the plan
    lock,      \* metadata in the lock file
    holders,   \* processes with the lock file open
    writers,   \* processes with the journal open for append
    mem,       \* DurableProtectionJournal of a process
    pc, work, tries, saw

disk == <<plan, jst, wal, tail, backup>>
golden == <<sd, content>>
vars == <<plan, jst, wal, tail, backup, sd, content, lock, holders, writers,
          mem, pc, work, tries, saw>>

-----------------------------------------------------------------------------
(* The transaction states and the tables of the journal                    *)

Node == 1..N

Phases == <<"verifying_gp1", "verifying_rv2", "verifying_node_set", "archiving_backup">>

Terminal == {"committed", "rolled_back", "rollback_failed", "indeterminate"}

\* Settled: a terminal state that nobody has to look at
Settled == {"absent", "committed", "rolled_back"}

States == {"applying", "rollback_required", "rolling_back"}
            \cup {Phases[k] : k \in 1..4} \cup Terminal

Transitions ==
    [s \in States |->
        CASE s \in {"applying"} \cup {Phases[k] : k \in 1..3} ->
                {"rollback_required", "indeterminate"}
          [] s = "archiving_backup" -> {"rollback_required"}
          [] s = "rollback_required" -> {"rolling_back", "indeterminate"}
          [] s = "rolling_back" -> {"rolled_back", "rollback_failed", "indeterminate"}
          [] OTHER -> {}]

NextPhase(s) == IF s = "applying" THEN Phases[1]
                ELSE Phases[1 + CHOOSE k \in 1..3 : Phases[k] = s]

AllMutated(w) == \A n \in Node : w[n] = "mutated"

Candidates(w) == {n \in Node : w[n] # "none"}

NoRecord == [n \in Node |-> "none"]

Blank == [st |-> "absent", wal |-> NoRecord, bad |-> FALSE]

Unseen == [plan |-> "none", jrn |-> "absent"]

Classified == IF jst = "absent" THEN "absent" ELSE IF tail = "whole" THEN "valid" ELSE "indeterminate"

Goto(p, l) == pc' = [pc EXCEPT ![p] = l]

Keep == UNCHANGED <<work, tries, saw>>

-----------------------------------------------------------------------------
(* Appending to the journal.  The record carries the sequence number the   *)
(* process counts with: on a file that moved on it breaks the schema.      *)

Land(p, s, w) ==
    IF mem[p].st = jst /\ mem[p].wal = wal
    THEN jst' = s /\ wal' = w /\ tail' = tail
    ELSE tail' = "broken" /\ UNCHANGED <<jst, wal>>

AppendOk(p, s, w) ==
    /\ ~mem[p].bad
    /\ Land(p, s, w)
    /\ mem' = [mem EXCEPT ![p].st = s, ![p].wal = w]
    /\ UNCHANGED <<plan, backup>>

\* The write or the flush failed: the record may be there, in part, or not
AppendFailed(p, s, w) ==
    /\ ~mem[p].bad
    /\ \/ Land(p, s, w)
       \/ tail' = "torn" /\ UNCHANGED <<jst, wal>>
       \/ UNCHANGED <<jst, wal, tail>>
    /\ mem' = [mem EXCEPT ![p].st = "indeterminate", ![p].bad = TRUE]
    /\ UNCHANGED <<plan, backup>>

\* transition_to whose failure is reported
Transition(p, s, done, failed) ==
    \/ /\ s \in Transitions[mem[p].st]
       /\ AppendOk(p, s, mem[p].wal)
       /\ Goto(p, done)
    \/ /\ s \in Transitions[mem[p].st]
       /\ AppendFailed(p, s, mem[p].wal)
       /\ Goto(p, failed)

\* transition_to whose failure is suppressed
BestEffort(p, s, next) ==
    \/ Transition(p, s, next, next)
    \/ /\ mem[p].bad \/ s \notin Transitions[mem[p].st]
       /\ Goto(p, next)
       /\ UNCHANGED <<disk, mem>>

\* Mutant: the append handle is opened with write sharing
OpenShared(p) ==
    /\ writers' = writers \cup {p}
    /\ mem' = [mem EXCEPT ![p] = [st |-> jst, wal |-> wal, bad |-> FALSE]]

OpenJournal(p) ==
    /\ writers = {}
    /\ writers' = {p}
    /\ mem' = [mem EXCEPT ![p] = [st |-> jst, wal |-> wal, bad |-> FALSE]]

-----------------------------------------------------------------------------
(* GoldenMutationLock.  "loose" is the RELEASED metadata that was not      *)
(* written at the end of a transaction; the code cannot tell it apart.     *)

OwnerAlive == lock.phase = "held" /\ lock.owner # Nobody

Orphaned == lock.phase = "held" /\ lock.owner = Nobody

\* _acquire_lock_core: the file opens with share mode 0
Acquirable(takeover) == holders = {} /\ ~OwnerAlive /\ (Orphaned => takeover)

Acquire(p) ==
    /\ holders' = holders \cup {p}
    /\ lock' = [phase |-> "held", owner |-> p]

\* Writing the fresh metadata failed: it is cleaned up to RELEASED, or not even that
AcquireFailed(p) ==
    /\ lock' \in {[phase |-> "loose", owner |-> Nobody], [phase |-> "held", owner |-> p]}
    /\ UNCHANGED holders

\* release: RELEASED is written and flushed, or that fails; closed either way
Release(p, phase) ==
    /\ lock' \in {[phase |-> phase, owner |-> Nobody], lock}
    /\ holders' = holders \ {p}

\* retain_for_inspection: closed without writing RELEASED
Retain(p) == holders' = holders \ {p} /\ UNCHANGED lock

\* The call returns: the journal is closed and the process may do something else
Return(p) ==
    /\ Goto(p, "idle")
    /\ writers' = writers \ {p}
    /\ mem' = [mem EXCEPT ![p] = Blank]
    /\ work' = [work EXCEPT ![p] = {}]
    /\ tries' = [tries EXCEPT ![p] = 0]
    /\ saw' = [saw EXCEPT ![p] = Unseen]
    /\ UNCHANGED <<disk, golden>>

EndRetained(p) == pc[p] = "retain" /\ Retain(p) /\ Return(p)

EndReleased(p) == pc[p] = "release" /\ Release(p, "released") /\ Return(p)

-----------------------------------------------------------------------------
(* apply: establish_privileged_authorization, promote_durable_authorized_  *)
(* plan, create_protection_journal, apply_authorized_plan                  *)

Locks == <<lock, holders>>

Establish(p) ==
    /\ pc[p] = "idle"
    /\ Acquirable(FALSE)
    /\ \/ Acquire(p) /\ Goto(p, "plan")
       \/ AcquireFailed(p) /\ Goto(p, "idle")
    /\ UNCHANGED <<disk, golden, writers, mem>> /\ Keep

\* Create-once: an operation that has a plan file is not planned again
PromotePlan(p) ==
    /\ pc[p] = "plan"
    /\ \/ plan = "none" /\ plan' = "durable" /\ Goto(p, "journal")
       \/ plan = "none" /\ plan' \in {"none", "partial", "durable"} /\ Goto(p, "close")
       \/ plan # "none" /\ UNCHANGED plan /\ Goto(p, "close")
    /\ UNCHANGED <<jst, wal, tail, backup, golden, Locks, writers, mem>> /\ Keep

\* Published only once flushed; a failure after that removes it if it can
CreateJournal(p) ==
    /\ pc[p] = "journal" /\ jst = "absent"
    /\ \/ /\ jst' = "applying"
          /\ writers' = writers \cup {p}
          /\ mem' = [mem EXCEPT ![p].st = "applying"]
          /\ Goto(p, "apply")
       \/ /\ jst' \in {"absent", "applying"}
          /\ Goto(p, "close")
          /\ UNCHANGED <<writers, mem>>
    /\ UNCHANGED <<plan, wal, tail, backup, golden, Locks>> /\ Keep

Current(p) == Min({n \in Node : mem[p].wal[n] # "mutated"})

\* Probe, identity, links and the live PRE descriptor are checked before the
\* intent; a node that is not in PRE is refused
PreCheckFails(p) ==
    /\ pc[p] = "apply" /\ ~AllMutated(mem[p].wal)
    /\ Goto(p, "required")
    /\ UNCHANGED <<disk, golden, Locks, writers, mem>> /\ Keep

\* MUTATING(K) durable is the permit to mutate
RecordIntent(p) ==
    /\ pc[p] = "apply" /\ ~AllMutated(mem[p].wal)
    /\ sd[Current(p)] = "pre"
    /\ LET w == [mem[p].wal EXCEPT ![Current(p)] = "mutating"] IN
        \/ AppendOk(p, mem[p].st, w) /\ Goto(p, "permit")
        \/ AppendFailed(p, mem[p].st, w) /\ Goto(p, "required")
    /\ UNCHANGED <<golden, Locks, writers>> /\ Keep

\* SetSecurityInfo on the node, or one of the checks right before it fails
ApplyTargetDacl(p) ==
    /\ pc[p] = "permit"
    /\ \/ /\ sd' = [sd EXCEPT ![Current(p)] = "target"]
          /\ work' = [work EXCEPT ![p] = @ \cup {Current(p)}]
          /\ Goto(p, "verify")
       \/ UNCHANGED <<sd, work>> /\ Goto(p, "required")
    /\ UNCHANGED <<disk, content, Locks, writers, mem, tries, saw>>

\* The POST descriptor is verified, then MUTATED(K) is made durable
RecordCompleted(p) ==
    /\ pc[p] = "verify"
    /\ LET w == [mem[p].wal EXCEPT ![Current(p)] = "mutated"] IN
        \/ AppendOk(p, mem[p].st, w) /\ Goto(p, "apply")
        \/ AppendFailed(p, mem[p].st, w) /\ Goto(p, "required")
        \/ Goto(p, "required") /\ UNCHANGED <<disk, mem>>
    /\ UNCHANGED <<golden, Locks, writers>> /\ Keep

AllApplied(p) ==
    /\ pc[p] = "apply" /\ AllMutated(mem[p].wal)
    /\ Goto(p, "applied")
    /\ UNCHANGED <<disk, golden, Locks, writers, mem>> /\ Keep

\* The in-process rollback: the journal is best effort, the restoration is not
RequireRollback(p) ==
    /\ pc[p] = "required"
    /\ BestEffort(p, "rollback_required", "rolling")
    /\ UNCHANGED <<golden, Locks, writers>> /\ Keep

BeginRollback(p) ==
    /\ pc[p] = "rolling"
    /\ BestEffort(p, "rolling_back", "undo")
    /\ UNCHANGED <<golden, Locks, writers>> /\ Keep

\* Top-down over the nodes SetSecurityInfo ran on
RestoreNode(p, failed) ==
    LET n == Max(work[p]) IN
    /\ work[p] # {}
    /\ \/ /\ sd' = [sd EXCEPT ![n] = "pre"]
          /\ work' = [work EXCEPT ![p] = @ \ {n}]
          /\ UNCHANGED pc
       \/ /\ sd' \in {sd, [sd EXCEPT ![n] = "pre"]}
          /\ Goto(p, failed)
          /\ UNCHANGED work
    /\ UNCHANGED <<disk, content, Locks, writers, mem, tries, saw>>

Undo(p) == pc[p] = "undo" /\ RestoreNode(p, "failed")

RollbackDone(p) ==
    /\ pc[p] = "undo" /\ work[p] = {}
    /\ BestEffort(p, "rolled_back", "close")
    /\ UNCHANGED <<golden, Locks, writers>> /\ Keep

RollbackFailed(p) ==
    /\ pc[p] = "failed"
    /\ BestEffort(p, "rollback_failed", "close")
    /\ UNCHANGED <<golden, Locks, writers>> /\ Keep

\* PrivilegedBoundarySession.close, after the apply or instead of finalizing
CloseSession(p) ==
    /\ pc[p] \in {"applied", "close"}
    /\ Release(p, "loose")
    /\ Return(p)

-----------------------------------------------------------------------------
(* recover_interrupted_protection                                          *)

\* The evidence is classified before the lock is asked for
ReadPlan(p) ==
    /\ pc[p] = "idle"
    /\ saw' = [saw EXCEPT ![p].plan = plan]
    /\ Goto(p, "classify")
    /\ UNCHANGED <<disk, golden, Locks, writers, mem, work, tries>>

ReadJournal(p) ==
    /\ pc[p] = "classify"
    /\ saw' = [saw EXCEPT ![p].jrn = Classified]
    /\ Goto(p, "take")
    /\ UNCHANGED <<disk, golden, Locks, writers, mem, work, tries>>

\* A live owner, or one whose life cannot be told, is never robbed
RefusedLock(p) ==
    /\ pc[p] \in {"take", "fin_take"}
    /\ \/ UNCHANGED Locks
       \/ Acquirable(TRUE) /\ AcquireFailed(p)
    /\ Return(p)

TakeLock(p) ==
    /\ pc[p] = "take"
    /\ Acquirable(TRUE)
    /\ Acquire(p)
    /\ Goto(p, "dispatch")
    /\ UNCHANGED <<disk, golden, writers, mem>> /\ Keep

\* _dispatch_bajo_lock up to the opening of the journal: what was read before
\* the lock only ever makes the decision more cautious
DispatchBlind(p) ==
    /\ pc[p] = "dispatch"
    /\ ~(saw[p].plan = "durable" /\ Classified = "valid")
    /\ Goto(p, IF /\ jst = "absent"
                  /\ \/ saw[p].plan = "none" /\ saw[p].jrn # "valid"
                     \/ saw[p].plan = "durable" /\ saw[p].jrn = "absent"
               THEN "release" ELSE "retain")
    /\ UNCHANGED <<disk, golden, Locks, writers, mem>> /\ Keep

\* The plan or the journal does not load, or another process has it open
DispatchUnreadable(p) ==
    /\ pc[p] = "dispatch" /\ saw[p].plan = "durable"
    /\ Goto(p, "retain")
    /\ UNCHANGED <<disk, golden, Locks, writers, mem>> /\ Keep

\* Mutant: the lock is released when the apply is handed over to the finalization
VerdictReleases(m) ==
    IF m.st = "applying" /\ AllMutated(m.wal) THEN "release"
    ELSE CASE m.st \in {"applying", "rollback_required", "rolling_back"} -> "rollback"
           [] m.st \in Settled -> "release"
           [] OTHER -> "retain"

Verdict(m) ==
    IF m.st = "applying" /\ AllMutated(m.wal) THEN "retain"
    ELSE CASE m.st \in {"applying", "rollback_required", "rolling_back"} -> "rollback"
           [] m.st \in Settled -> "release"
           [] OTHER -> "retain"

DispatchFsm(p) ==
    /\ pc[p] = "dispatch" /\ saw[p].plan = "durable" /\ Classified = "valid"
    /\ OpenJournal(p)
    /\ Goto(p, Verdict(mem'[p]))
    /\ UNCHANGED <<disk, golden, Locks>> /\ Keep

\* _flujo_rollback: the transitions are confirmed before a node is touched
Rollback(p) ==
    /\ pc[p] = "rollback"
    /\ \/ mem[p].st = "applying" /\ Transition(p, "rollback_required", "rollback", "retain")
       \/ mem[p].st = "rollback_required" /\ Transition(p, "rolling_back", "rollback", "retain")
    /\ UNCHANGED <<golden, Locks, writers>> /\ Keep

\* Mutant: a change to a node without a record is taken for ours
StrayIgnored(p) == {}

\* The read-only scan: a node without a record must be in PRE
Stray(p) == {n \in Node : sd[n] # "pre"} \ Candidates(mem[p].wal)

\* Mutant: only nodes whose mutation was recorded as complete are restored
ScanCompletedOnly(p) ==
    /\ pc[p] = "rollback" /\ mem[p].st = "rolling_back"
    /\ work' = [work EXCEPT ![p] = {n \in Node : sd[n] # "pre" /\ mem[p].wal[n] = "mutated"}]
    /\ Goto(p, "restore")
    /\ UNCHANGED <<disk, golden, Locks, writers, mem, tries, saw>>

Scan(p) ==
    /\ pc[p] = "rollback" /\ mem[p].st = "rolling_back"
    /\ \/ /\ Stray(p) = {}
          /\ work' = [work EXCEPT ![p] = {n \in Node : sd[n] # "pre"}]
          /\ Goto(p, "restore")
       \/ UNCHANGED work /\ Goto(p, "stop")
    /\ UNCHANGED <<disk, golden, Locks, writers, mem, tries, saw>>

Restore(p) == pc[p] = "restore" /\ RestoreNode(p, "stop")

Stop(p) ==
    /\ pc[p] = "stop"
    /\ BestEffort(p, "indeterminate", "retain")
    /\ UNCHANGED <<golden, Locks, writers>> /\ Keep

Restored(p) ==
    /\ pc[p] = "restore" /\ work[p] = {}
    /\ Transition(p, "rolled_back", "release", "retain")
    /\ UNCHANGED <<golden, Locks, writers>> /\ Keep

-----------------------------------------------------------------------------
(* finalize_protection_transaction                                         *)

\* The caller opens the journal, without a session ...
StartFinalize(p) ==
    /\ pc[p] = "idle"
    /\ plan = "durable" /\ Classified = "valid"
    /\ OpenJournal(p)
    /\ Goto(p, "fin_read")
    /\ UNCHANGED <<disk, golden, Locks>> /\ Keep

\* ... or goes on with the session that applied
FinalizeInSession(p) ==
    /\ pc[p] = "applied"
    /\ Goto(p, "fin_read")
    /\ UNCHANGED <<disk, golden, Locks, writers, mem>> /\ Keep

Admissible == {"applying"} \cup {Phases[k] : k \in 1..4}

\* The durable state is read before the lock; the append handle that the
\* caller holds is what keeps it true until the lock is taken
FinRead(p) ==
    /\ pc[p] = "fin_read"
    /\ \/ /\ jst = "committed" /\ backup = "durable"
          /\ Goto(p, "fin_take")
       \/ /\ jst \in Admissible /\ AllMutated(mem[p].wal)
          /\ Goto(p, IF p \in holders THEN "gate" ELSE "fin_take")
    /\ UNCHANGED <<disk, golden, Locks, writers, mem>> /\ Keep

NotApplicable(p) ==
    /\ pc[p] = "fin_read"
    /\ ~(jst = "committed" /\ backup = "durable")
    /\ ~(jst \in Admissible /\ AllMutated(mem[p].wal))
    /\ UNCHANGED Locks
    /\ Return(p)

FinTake(p) ==
    /\ pc[p] = "fin_take"
    /\ Acquirable(TRUE)
    /\ Acquire(p)
    /\ Goto(p, IF mem[p].st = "committed" THEN "release" ELSE "gate")
    /\ UNCHANGED <<disk, golden, writers, mem>> /\ Keep

Hardened == \A n \in Node : sd[n] = "target"

\* Mutant: a finalization that resumes at the archiving trusts the gates of the
\* process that died
GatesPassOnce(s) ==
    /\ s = "verifying_gp1" => Hardened
    /\ s \in {"verifying_rv2", "verifying_node_set"} => content

\* What the gates of a phase observe: GP1, RV-2, NodeSet and quiescence; all of
\* them again before archiving
GatesPass(s) ==
    /\ s \in {"verifying_gp1", "archiving_backup"} => Hardened
    /\ s \in {"verifying_rv2", "verifying_node_set", "archiving_backup"} => content

EnterPhase(p) ==
    /\ pc[p] = "gate" /\ mem[p].st # "archiving_backup"
    /\ GatesPass(mem[p].st)
    /\ LET s == NextPhase(mem[p].st) IN
        \/ AppendOk(p, s, mem[p].wal) /\ Goto(p, "gate")
        \/ AppendFailed(p, s, mem[p].wal) /\ Goto(p, "retain")
    /\ UNCHANGED <<golden, Locks, writers>> /\ Keep

GatesDone(p) ==
    /\ pc[p] = "gate" /\ mem[p].st = "archiving_backup"
    /\ GatesPass(mem[p].st)
    /\ Goto(p, "archive")
    /\ UNCHANGED <<disk, golden, Locks, writers, mem>> /\ Keep

\* A gate says no, or raises: any gate may, for a reason of its own
GateFails(p) ==
    /\ pc[p] = "gate" /\ mem[p].st # "applying"
    /\ \E l \in {"unwind", "retain"} : Goto(p, l)
    /\ UNCHANGED <<disk, golden, Locks, writers, mem>> /\ Keep

\* ROLLBACK_REQUIRED is made durable and the lock stays for the recovery
Unwind(p) ==
    /\ pc[p] = "unwind"
    /\ Transition(p, "rollback_required", "retain", "retain")
    /\ UNCHANGED <<golden, Locks, writers>> /\ Keep

\* archive_golden_backup: create-once, what is there is accepted or refused
Archive(p) ==
    /\ pc[p] = "archive"
    /\ \/ backup = "durable" /\ Goto(p, "commit") /\ UNCHANGED <<backup, tries>>
       \/ backup = "partial" /\ Goto(p, "retain") /\ UNCHANGED <<backup, tries>>
       \/ /\ backup = "absent"
          /\ \/ backup' = "durable" /\ Goto(p, "commit") /\ UNCHANGED tries
             \/ UNCHANGED <<backup, tries>> /\ Goto(p, "retain")
             \/ /\ backup' \in {"absent", "durable", "partial"}
                /\ tries' = [tries EXCEPT ![p] = @ + 1]
                /\ Goto(p, IF tries'[p] >= MaxArchive THEN "unwind" ELSE "archive")
    /\ UNCHANGED <<plan, jst, wal, tail, golden, Locks, writers, mem, work, saw>>

Commit(p) ==
    /\ pc[p] = "commit"
    /\ \/ AppendOk(p, "committed", mem[p].wal) /\ Goto(p, "release")
       \/ AppendFailed(p, "committed", mem[p].wal) /\ Goto(p, "retain")
    /\ UNCHANGED <<golden, Locks, writers>> /\ Keep

-----------------------------------------------------------------------------
(* The world                                                               *)

\* The process dies: its handles are closed, its memory is gone
Crash(p) ==
    /\ pc[p] # "idle" \/ lock.owner = p
    /\ holders' = holders \ {p}
    /\ lock' = [lock EXCEPT !.owner = IF @ = p THEN Nobody ELSE @]
    /\ Return(p)

\* The Golden changes while no run has it
Drift ==
    /\ holders = {}
    /\ jst \notin Terminal \cup {"absent"}
    /\ \/ \E n \in Node : sd' = [sd EXCEPT ![n] = "other"] /\ UNCHANGED content
       \/ content' = FALSE /\ UNCHANGED sd
    /\ UNCHANGED <<disk, Locks, writers, mem, pc, work, tries, saw>>

-----------------------------------------------------------------------------

Init ==
    /\ plan = "none" /\ jst = "absent" /\ wal = NoRecord /\ tail = "whole"
    /\ backup = "absent"
    /\ sd = [n \in Node |-> "pre"] /\ content = TRUE
    /\ lock = [phase |-> "none", owner |-> Nobody]
    /\ holders = {} /\ writers = {}
    /\ mem = [p \in Procs |-> Blank]
    /\ pc = [p \in Procs |-> "idle"]
    /\ work = [p \in Procs |-> {}]
    /\ tries = [p \in Procs |-> 0]
    /\ saw = [p \in Procs |-> Unseen]

ApplyStep(p) ==
    \/ PromotePlan(p) \/ CreateJournal(p) \/ PreCheckFails(p) \/ RecordIntent(p)
    \/ ApplyTargetDacl(p) \/ RecordCompleted(p) \/ AllApplied(p)
    \/ RequireRollback(p) \/ BeginRollback(p) \/ Undo(p) \/ RollbackDone(p)
    \/ RollbackFailed(p)

RecoverStep(p) ==
    \/ ReadJournal(p) \/ RefusedLock(p) \/ TakeLock(p)
    \/ DispatchBlind(p) \/ DispatchUnreadable(p) \/ DispatchFsm(p)
    \/ Rollback(p) \/ Scan(p) \/ Restore(p) \/ Stop(p) \/ Restored(p)

FinalizeStep(p) ==
    \/ FinRead(p) \/ NotApplicable(p) \/ FinTake(p) \/ EnterPhase(p) \/ GatesDone(p)
    \/ GateFails(p) \/ Unwind(p) \/ Archive(p) \/ Commit(p)

\* A step inside a call that a process has begun
CallStep(p) ==
    ApplyStep(p) \/ RecoverStep(p) \/ FinalizeStep(p) \/ EndRetained(p) \/ EndReleased(p)

Next ==
    \/ \E p \in Procs :
        \/ CallStep(p)
        \/ Establish(p) \/ CloseSession(p) \/ ReadPlan(p) \/ StartFinalize(p)
        \/ FinalizeInSession(p) \/ Crash(p)
    \/ Drift

Spec == Init /\ [][Next]_vars

-----------------------------------------------------------------------------
(* Properties                                                              *)

Labels == {"idle", "plan", "journal", "apply", "permit", "verify", "applied",
           "required", "rolling", "undo", "failed", "close", "classify", "take",
           "dispatch", "rollback", "restore", "stop", "fin_read", "fin_take", "gate",
           "unwind", "archive", "commit", "retain", "release"}

\* Every variable has its type
TypeOK ==
    /\ plan \in {"none", "durable", "partial"}
    /\ jst \in States \cup {"absent"}
    /\ wal \in [Node -> {"none", "mutating", "mutated"}]
    /\ tail \in {"whole", "torn", "broken"}
    /\ backup \in {"absent", "durable", "partial"}
    /\ sd \in [Node -> {"pre", "target", "other"}]
    /\ content \in BOOLEAN
    /\ lock \in [phase : {"none", "held", "released", "loose"}, owner : Procs \cup {Nobody}]
    /\ holders \subseteq Procs /\ writers \subseteq Procs
    /\ mem \in [Procs -> [st : States \cup {"absent"},
                          wal : [Node -> {"none", "mutating", "mutated"}], bad : BOOLEAN]]
    /\ pc \in [Procs -> Labels]
    /\ work \in [Procs -> SUBSET Node]
    /\ tries \in [Procs -> 0..MaxArchive]
    /\ saw \in [Procs -> [plan : {"none", "durable", "partial"},
                          jrn : {"absent", "valid", "indeterminate"}]]

\* A journal that says rolled_back tells the truth about every node, whether the
\* executor undid its own work or a later process did it from the disk
RolledBackIsClean == jst = "rolled_back" => \A n \in Node : sd[n] = "pre"

\* A journal that says committed has a durable backup and a tree that is hardened
\* and unchanged, although a full set of MUTATED records does not imply that: the
\* executor may have undone the nodes of a record it could not confirm, and the
\* tree may have changed while the process that verified it was dead
CommittedIsWhole == jst = "committed" => backup = "durable" /\ Hardened /\ content

\* A lock that a recovery or a finalization releases leaves nothing unfinished
\* behind for the next operation on the Golden
ReleasedIsSettled == lock.phase = "released" => jst \in Settled

\* A journal becomes unreadable by a write that was cut, never because two
\* processes appended to it: a finalizer that read it before it had the lock
\* appends to the journal it read
OneWriter == tail # "broken"

\* Whatever write failed and whoever died, a run changes only nodes whose intent is
\* in the journal: recovery can find every node that carries the target list, and a
\* foreign change to any other node stops the recovery and is left as it is
OnlyRecordedNodes ==
    [][\A n \in Node : sd'[n] # sd[n] /\ wal[n] = "none" => sd'[n] = "other"]_vars

=============================================================================
