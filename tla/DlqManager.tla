---------------------------- MODULE DlqManager ----------------------------
(***************************************************************************)
(* The dead letter queue of the event bus (app/core/dlq_manager.py): rows  *)
(* of the table dead_letter_events, and one retry worker for each process  *)
(* that opened the file.  A worker fetches the rows that are due, claims   *)
(* one, runs its handler and deletes, reschedules or buries the row.       *)
(*                                                                         *)
(* Every transaction is one step: _write_transaction finishes its commit   *)
(* or its rollback whatever cancels it, so a cancellation falls before or  *)
(* after it.  Handlers run between steps.  Time is kept relative: age is   *)
(* the time since updated_at, wait the time until next_retry_at.           *)
(***************************************************************************)
EXTENDS Naturals, FiniteSets, FiniteSetsExt

CONSTANTS
    Rows,           \* ids of the rows that may be enqueued
    Workers,        \* DLQManager instances over the same file
    NoRow,
    MaxAttempts,    \* max_attempts
    Base,           \* base_backoff_s
    Stale,          \* the 60000 ms of _recover_stale_rows
    RetryWait,      \* the 60_000 ms of a handler that is not registered
    MaxMissing,     \* bound: how often a row's handler is not registered yet
    MaxFaults,      \* bound: stops, crashes and database errors
    Prompt,         \* TRUE: a claimed row is settled within Stale
    LateStart       \* TRUE: a worker starts only after a crash's rows are stale

ASSUME DlqConstants ==
    /\ NoRow \notin Rows /\ IsFiniteSet(Workers)
    /\ MaxAttempts \in Nat \ {0} /\ Base \in Nat /\ Stale \in Nat
    /\ RetryWait \in Nat /\ MaxMissing \in Nat /\ MaxFaults \in Nat
    /\ Prompt \in BOOLEAN /\ LateStart \in BOOLEAN

\* A power of naturals is one; stated because the provers know nothing of ^.
ASSUME PowersAreNatural == \A n \in 1..MaxAttempts : Base ^ n \in Nat

VARIABLES
    row,        \* the table: status, attempts, age, wait of each id
    pc,         \* where each worker's _retry_loop is
    cur,        \* the row a worker has claimed and not settled
    batch,      \* rows fetched and not yet looked at
    missing,    \* how often the resolver found no handler for the row
    faults,     \* how many stops, crashes and errors there were
    good, bad,  \* history: handler runs of a row that returned, that raised
    undeleted,  \* history: returned runs whose DELETE was not done
    erred       \* history: rows a failed transaction left claimed

loop == <<pc, cur, batch>>
history == <<good, bad, undeleted, erred>>
vars == <<row, pc, cur, batch, missing, faults, good, bad, undeleted, erred>>

Status == {"none", "pending", "in_progress", "dead", "deleted"}
Pcs == {"stopped", "recovering", "polling", "working", "unresolved",
        "handling", "deleting", "failing", "died"}

\* Workers that have claimed a row and not yet written how it ended.
Active == {w \in Workers : cur[w] # NoRow}

----------------------------------------------------------------------------
Backoff(n) == Base ^ n

DlqInit ==
    /\ row = [r \in Rows |-> [status |-> "none", attempts |-> 0, age |-> 0, wait |-> 0]]
    /\ pc = [w \in Workers |-> "stopped"]
    /\ cur = [w \in Workers |-> NoRow]
    /\ batch = [w \in Workers |-> {}]
    /\ missing = [r \in Rows |-> 0]
    /\ faults = 0
    /\ good = [r \in Rows |-> 0]
    /\ bad = [r \in Rows |-> 0]
    /\ undeleted = [r \in Rows |-> 0]
    /\ erred = {}

\* The row leaves the worker's hands: the loop goes to the next of the batch,
\* or polls again.
Done(w) ==
    /\ cur' = [cur EXCEPT ![w] = NoRow]
    /\ pc' = [pc EXCEPT ![w] = IF batch[w] = {} THEN "polling" ELSE "working"]
    /\ UNCHANGED batch

\* The loop's iteration is given up.
Abandon(w, to) ==
    /\ cur' = [cur EXCEPT ![w] = NoRow]
    /\ batch' = [batch EXCEPT ![w] = {}]
    /\ pc' = [pc EXCEPT ![w] = to]

----------------------------------------------------------------------------
(* The bus gives a failed event to enqueue().                              *)
Enqueue(r) ==
    /\ row[r].status = "none"
    /\ row' = [row EXCEPT ![r] =
         [status |-> "pending", attempts |-> 0, age |-> 0, wait |-> Backoff(1)]]
    /\ UNCHANGED <<loop, missing, faults, history>>

(* start(): refused while _retry_task is set, whether it runs or has died. *)
Orphan(r) == row[r].status = "in_progress" /\ r \notin {cur[w] : w \in Workers}

Start(w) ==
    /\ pc[w] = "stopped"
    /\ LateStart => \A r \in Rows : Orphan(r) => row[r].age > Stale
    /\ pc' = [pc EXCEPT ![w] = "recovering"]
    /\ UNCHANGED <<row, cur, batch, missing, faults, history>>

(* _recover_stale_rows: once in the life of a worker.                      *)
IsStale(r) == row[r].status = "in_progress" /\ row[r].age > Stale

Recover(w) ==
    /\ pc[w] = "recovering"
    /\ row' = [r \in Rows |->
         IF IsStale(r) THEN [row[r] EXCEPT !.status = "pending", !.age = 0] ELSE row[r]]
    /\ pc' = [pc EXCEPT ![w] = "polling"]
    /\ UNCHANGED <<cur, batch, missing, faults, history>>

(* An error in it ends the task, outside the loop's handlers.  stop() then *)
(* raises that error before it clears _retry_task, so neither start() nor  *)
(* stop() of this manager does anything any more.                          *)
RecoverFails(w) ==
    /\ pc[w] = "recovering" /\ faults < MaxFaults
    /\ pc' = [pc EXCEPT ![w] = "died"]
    /\ faults' = faults + 1
    /\ UNCHANGED <<row, cur, batch, missing, history>>

(* _fetch_due_batch; with nothing due the worker sleeps and polls again.   *)
Due == {r \in Rows : row[r].status = "pending" /\ row[r].wait = 0}

Fetch(w) ==
    /\ pc[w] = "polling" /\ Due # {}
    /\ batch' = [batch EXCEPT ![w] = Due]
    /\ pc' = [pc EXCEPT ![w] = "working"]
    /\ UNCHANGED <<row, cur, missing, faults, history>>

(* _process_row, the claim: guarded by the status alone, on a row fetched  *)
(* some time ago.  What the resolver finds is decided right after it.      *)
Claimable(r) == row[r].status = "pending"

Claim(w, r) ==
    /\ pc[w] = "working" /\ r \in batch[w] /\ Claimable(r)
    /\ row' = [row EXCEPT ![r].status = "in_progress", ![r].age = 0]
    /\ batch' = [batch EXCEPT ![w] = @ \ {r}]
    /\ cur' = [cur EXCEPT ![w] = r]
    /\ \/ pc' = [pc EXCEPT ![w] = "handling"] /\ UNCHANGED missing
       \/ /\ missing[r] < MaxMissing
          /\ missing' = [missing EXCEPT ![r] = @ + 1]
          /\ pc' = [pc EXCEPT ![w] = "unresolved"]
    /\ UNCHANGED <<faults, history>>

Skip(w, r) ==
    /\ pc[w] = "working" /\ r \in batch[w] /\ ~Claimable(r)
    /\ batch' = [batch EXCEPT ![w] = @ \ {r}]
    /\ pc' = [pc EXCEPT ![w] = IF batch[w] = {r} THEN "polling" ELSE "working"]
    /\ UNCHANGED <<row, cur, missing, faults, history>>

(* No handler registered yet: back to pending, without counting it.  The   *)
(* UPDATE names the id only.                                               *)
\* Mutant: the claim is not given back
UnregisteredStillClaimed(s) == [s EXCEPT !.age = 0, !.wait = RetryWait]
Unregistered(s) == [s EXCEPT !.status = "pending", !.age = 0, !.wait = RetryWait]

Postpone(w) ==
    /\ pc[w] = "unresolved"
    /\ row' = [row EXCEPT ![cur[w]] =
         IF @.status = "deleted" THEN @ ELSE Unregistered(@)]
    /\ Done(w)
    /\ UNCHANGED <<missing, faults, history>>

(* The handler returns, or raises.                                         *)
HandlerReturns(w) ==
    /\ pc[w] = "handling"
    /\ good' = [good EXCEPT ![cur[w]] = @ + 1]
    /\ pc' = [pc EXCEPT ![w] = "deleting"]
    /\ UNCHANGED <<row, cur, batch, missing, faults, bad, undeleted, erred>>

HandlerRaises(w) ==
    /\ pc[w] = "handling"
    /\ bad' = [bad EXCEPT ![cur[w]] = @ + 1]
    /\ pc' = [pc EXCEPT ![w] = "failing"]
    /\ UNCHANGED <<row, cur, batch, missing, faults, good, undeleted, erred>>

\* Mutant: the DELETE asks for status 'pending', which a claimed row has not
DeleteUnmatched(w) ==
    /\ pc[w] = "deleting"
    /\ row' = [row EXCEPT ![cur[w]] = IF @.status = "pending" THEN [@ EXCEPT !.status = "deleted"] ELSE @]
    /\ Done(w)
    /\ UNCHANGED <<missing, faults, history>>
Delete(w) ==
    /\ pc[w] = "deleting"
    /\ row' = [row EXCEPT ![cur[w]] = [@ EXCEPT !.status = "deleted", !.age = 0, !.wait = 0]]
    /\ Done(w)
    /\ UNCHANGED <<missing, faults, history>>

(* The failed run, counted in the table itself (RETURNING attempts).       *)
Failed(s) ==
    LET n == s.attempts + 1
    IN IF n >= MaxAttempts
       THEN [s EXCEPT !.status = "dead", !.attempts = n, !.age = 0, !.wait = 0]
       ELSE [s EXCEPT !.status = "pending", !.attempts = n, !.age = 0, !.wait = Backoff(n)]

\* Mutant: an exhausted row is dropped, not kept as dead
RecordFailureDeletes(w) ==
    /\ pc[w] = "failing"
    /\ row' = [row EXCEPT ![cur[w]] =
         IF Failed(@).status = "dead" THEN [@ EXCEPT !.status = "deleted"] ELSE Failed(@)]
    /\ Done(w)
    /\ UNCHANGED <<missing, faults, history>>
RecordFailure(w) ==
    /\ pc[w] = "failing"
    /\ row' = [row EXCEPT ![cur[w]] =
         IF @.status = "in_progress" THEN Failed(@) ELSE @]
    /\ Done(w)
    /\ UNCHANGED <<missing, faults, history>>

(* A transaction fails: the loop logs it, sleeps and polls again.  A row   *)
(* that was claimed stays in_progress, and this worker never frees it.     *)
Unfinished(w) ==
    undeleted' = IF pc[w] = "deleting"
                 THEN [undeleted EXCEPT ![cur[w]] = @ + 1] ELSE undeleted

DbError(w) ==
    /\ pc[w] \in {"working", "unresolved", "deleting", "failing"}
    /\ faults < MaxFaults /\ faults' = faults + 1
    /\ Unfinished(w)
    /\ erred' = erred \cup ({cur[w]} \ {NoRow})
    /\ Abandon(w, "polling")
    /\ UNCHANGED <<row, missing, good, bad>>

(* stop() cancels the task wherever it is; the end of the process does the *)
(* same to it, and is the only way out for a worker that died.             *)
Interrupt(w) ==
    /\ pc[w] # "stopped"
    /\ faults < MaxFaults /\ faults' = faults + 1
    /\ Unfinished(w)
    /\ Abandon(w, "stopped")
    /\ UNCHANGED <<row, missing, good, bad, erred>>

(* Time passes; with Prompt not so far that a claimed row is taken for     *)
(* stale while its worker still has it.                                    *)
Aged(s) ==
    [s EXCEPT !.age = IF s.status = "in_progress" THEN Min({@ + 1, Stale + 1}) ELSE 0,
              !.wait = IF @ = 0 THEN 0 ELSE @ - 1]

Tick ==
    /\ \E r \in Rows : Aged(row[r]) # row[r]
    /\ Prompt => \A w \in Active : row[cur[w]].age < Stale
    /\ row' = [r \in Rows |-> Aged(row[r])]
    /\ UNCHANGED <<loop, missing, faults, history>>

Work(w) ==
    \/ Recover(w) \/ Fetch(w)
    \/ \E r \in Rows : Claim(w, r) \/ Skip(w, r)
    \/ Postpone(w) \/ HandlerReturns(w) \/ HandlerRaises(w)
    \/ Delete(w) \/ RecordFailure(w)

Next ==
    \/ \E r \in Rows : Enqueue(r)
    \/ \E w \in Workers : Start(w) \/ Work(w) \/ RecoverFails(w) \/ DbError(w) \/ Interrupt(w)
    \/ Tick

Spec == DlqInit /\ [][Next]_vars

(* A started worker that can go on does, a process that stopped its worker *)
(* starts it again with the bus, and time passes.                          *)
FairSpec == Spec /\ WF_vars(Tick) /\ \A w \in Workers : WF_vars(Work(w)) /\ WF_vars(Start(w))

----------------------------------------------------------------------------
(* Types; a row's counter never passes max_attempts, a claimed row is in   *)
(* one of the states in which its worker has it.                           *)
TypeOK ==
    /\ row \in [Rows -> [status : Status, attempts : 0..MaxAttempts,
                         age : 0..(Stale + 1), wait : Nat]]
    /\ pc \in [Workers -> Pcs]
    /\ cur \in [Workers -> Rows \cup {NoRow}]
    /\ batch \in [Workers -> SUBSET Rows]
    /\ \A w \in Workers :
         cur[w] # NoRow <=> pc[w] \in {"unresolved", "handling", "deleting", "failing"}

(* A row ends as it deserves, whatever was stopped, crashed or failed in   *)
(* between: it leaves the table only after a run of its handler returned   *)
(* (_process_row deletes in the else branch only), and it is buried only   *)
(* after max_attempts runs that really raised: waits for a handler,        *)
(* interrupted runs and lost writes are not counted against it (the        *)
(* counter is read back with RETURNING, not from the fetched row).         *)
RowEndEarned ==
    \A r \in Rows :
        /\ row[r].status = "deleted" => good[r] > 0
        /\ row[r].status = "dead" => bad[r] >= MaxAttempts

(* Every repeated delivery is paid for: a handler that returned runs again *)
(* only if the DELETE after it was prevented by a stop, a crash or an      *)
(* error of the database.  In particular two workers do not deliver a row  *)
(* both, as long as a run ends within the minute after which               *)
(* _recover_stale_rows takes its row for abandoned (H-05).                 *)
RepeatsAccounted ==
    \A r \in Rows : good[r] <= 1 + undeleted[r]

(* Every row is delivered or buried in the end, with workers that are      *)
(* interrupted and started again once its claim is stale; only a failed    *)
(* transaction, or a worker that died in its start, leaves one behind.     *)
RowSettles ==
    \A r \in Rows : row[r].status # "none" ~>
        \/ row[r].status \in {"deleted", "dead"}
        \/ r \in erred
        \/ \E w \in Workers : pc[w] = "died"
=============================================================================
