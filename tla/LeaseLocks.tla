----------------------------- MODULE LeaseLocks -----------------------------
(***************************************************************************)
(* The TTL leases of sky_claw/app/db/locks.py: the resource_locks row of   *)
(* one resource, the transactions of DistributedLockManager on it, and the *)
(* cancellation-durable primitives adquirir_lease_definitiva and           *)
(* liberar_lease_definitiva through which every service takes a lease.     *)
(*                                                                         *)
(* A session is one caller: one adquirir_lease_definitiva, the time it     *)
(* holds the lease, and one liberar_lease_definitiva.  Its work is split   *)
(* over up to three asyncio tasks, and the split is what the module is     *)
(* about: the caller itself (pc), the shielded task that runs              *)
(* acquire_lock or release_lock and may outlive the caller (job), and the  *)
(* renewing heartbeat (hb).  Every SQL statement runs in                   *)
(* lifecycle.transaction(), which serialises them (tx); the clock is read  *)
(* inside the boundary and the commit comes later.                         *)
(*                                                                         *)
(* The branch of each method that runs without a lifecycle is the legacy   *)
(* one and is not modelled.                                                *)
(***************************************************************************)
EXTENDS Naturals, FiniteSets

CONSTANTS
    Sessions,     \* callers
    Nobody,       \* the owner of no row
    AgentOf,      \* the agent_id each caller passes; services share theirs
    TTL,          \* default_ttl, in clock units
    MaxRetries,   \* max_retries of the manager
    MaxNow,       \* bound: the clock stops here
    MaxBack,      \* bound: how often the wall clock is stepped back
    MaxForced,    \* bound: force_release calls
    MaxCrashes,   \* bound: process crashes
    MayClose      \* whether DistributedLockManager.close() is called

ASSUME LeaseAssumption ==
    /\ IsFiniteSet(Sessions) /\ Nobody \notin Sessions
    /\ DOMAIN AgentOf = Sessions
    /\ TTL \in Nat \ {0}
    /\ MaxRetries \in Nat \ {0}
    /\ {MaxNow, MaxBack, MaxForced, MaxCrashes} \subseteq Nat
    /\ MayClose \in BOOLEAN

VARIABLES
    now,        \* time.time()
    row,        \* the committed row of resource_locks, or NoRow
    lastToken,  \* _ULTIMO_TOKEN_POR_BASE of this database
    tx,         \* the transaction inside the lifecycle boundary, or NoTx
    mgr,        \* the manager: "open", "closing" (drain running), "closed"
    pc,         \* where the caller is
    canc,       \* cancelacion of the primitive the caller is waiting in
    job,        \* the shielded acquire_lock / release_lock task
    token,      \* acquired_at of the last attempt; the LockInfo once held
    sup,        \* the supervising task: "no", "yes", "seen" by the drain
    estado,     \* EstadoDeCleanupDeLease reported through on_estado
    hb,         \* the heartbeat task
    lost,       \* _lease_lost
    owner,      \* history: the session whose commit wrote the row
    until,      \* history: the last expiry the manager reported to a session
    spent       \* bounds: [back, forced, crashes] used so far

leaseVars == <<now, row, lastToken, tx, mgr, pc, canc, job, token, sup,
               estado, hb, lost, owner, until, spent>>

-----------------------------------------------------------------------------
NoRow == [agent |-> Nobody, tok |-> 0, exp |-> 0]

NoTx == [s |-> Nobody, op |-> "none", at |-> 0, hit |-> FALSE]

NoJob == [op |-> "none", st |-> "off", tries |-> 0, hit |-> FALSE, exp |-> 0]

Job(op) == [NoJob EXCEPT !.op = op, !.st = "ready"]

(* A job in one of these states has finished; got / gone / fail / stop are *)
(* a result, no match, an exception and the cooperative CancelledError.    *)
Finished == {"got", "gone", "fail", "stop"}

Beat(st) == [st |-> st, hit |-> FALSE, exp |-> 0]

Running(s) == job[s].op # "none" /\ job[s].st \notin Finished

LeaseTypeOK ==
    /\ now \in Nat /\ lastToken \in Nat
    /\ row \in [agent : {AgentOf[s] : s \in Sessions} \cup {Nobody},
                tok : Nat, exp : Nat]
    /\ tx \in [s : Sessions \cup {Nobody},
               op : {"none", "acquire", "release", "renew"},
               at : Nat, hit : BOOLEAN]
    /\ mgr \in {"open", "closing", "closed"}
    /\ pc \in [Sessions -> {"idle", "acquiring", "compensating", "held",
                            "releasing", "over", "dead"}]
    /\ canc \in [Sessions -> BOOLEAN]
    /\ job \in [Sessions ->
                  [op : {"none", "acquire", "release"},
                   st : {"off", "ready", "wait", "tx", "back"} \cup Finished,
                   tries : 0 .. MaxRetries, hit : BOOLEAN, exp : Nat]]
    /\ token \in [Sessions -> Nat]
    /\ sup \in [Sessions -> {"no", "yes", "seen"}]
    /\ estado \in [Sessions -> {"NO_REQUERIDO", "SIN_LEASE", "LIBERADA",
                                "YA_EXPIRADA_O_RECLAMADA",
                                "FALLO_DE_LIBERACION", "INDETERMINADO"}]
    /\ hb \in [Sessions -> [st : {"off", "sleep", "wait", "tx", "back"},
                           hit : BOOLEAN, exp : Nat]]
    /\ lost \in [Sessions -> BOOLEAN]
    /\ owner \in Sessions \cup {Nobody}
    /\ until \in [Sessions -> Nat]
    /\ spent \in [back : 0 .. MaxBack, forced : 0 .. MaxForced,
                  crashes : 0 .. MaxCrashes]

LeaseInit ==
    /\ now = 1
    /\ row = NoRow
    /\ lastToken = 0
    /\ tx = NoTx
    /\ mgr = "open"
    /\ pc = [s \in Sessions |-> "idle"]
    /\ canc = [s \in Sessions |-> FALSE]
    /\ job = [s \in Sessions |-> NoJob]
    /\ token = [s \in Sessions |-> 0]
    /\ sup = [s \in Sessions |-> "no"]
    /\ estado = [s \in Sessions |-> "NO_REQUERIDO"]
    /\ hb = [s \in Sessions |-> Beat("off")]
    /\ lost = [s \in Sessions |-> FALSE]
    /\ owner = Nobody
    /\ until = [s \in Sessions |-> 0]
    /\ spent = [back |-> 0, forced |-> 0, crashes |-> 0]

callerVars == <<pc, canc, sup, estado>>
dbVars == <<now, row, lastToken, tx, owner>>
heartVars == <<hb, lost>>

-----------------------------------------------------------------------------
(***************************************************************************)
(* The lock table: what each SQL statement matches, and what it writes.    *)
(***************************************************************************)

(* _acuniar_token: the clock when it moved on, else the next float after   *)
(* the last token.                                                         *)
MintClock(at) == at                                                 \* mutant
Mint(at) == IF at > lastToken THEN at ELSE lastToken + 1

(* _ACQUIRE_SQL inserts, or takes over a row whose lease is past its end.  *)
AcquireHitsEarly(at) == row = NoRow \/ row.exp <= at + 1            \* mutant
AcquireHits(at) == row = NoRow \/ row.exp < at

(* _RELEASE_SQL and _RENEW_SQL match agent and acquisition token; the      *)
(* renewal also asks that the lease has not ended.                         *)
ReleaseHits(s) == row # NoRow /\ row.agent = AgentOf[s] /\ row.tok = token[s]

RenewHits(s, at) == ReleaseHits(s) /\ row.exp > at

Apply(t) ==
    IF ~t.hit THEN UNCHANGED <<row, owner>>
    ELSE CASE t.op = "acquire" ->
                /\ row' = [agent |-> AgentOf[t.s], tok |-> token[t.s],
                           exp |-> t.at + TTL]
                /\ owner' = t.s
           [] t.op = "renew" ->
                row' = [row EXCEPT !.exp = t.at + TTL] /\ UNCHANGED owner
           [] t.op = "release" ->
                row' = NoRow /\ owner' = Nobody

-----------------------------------------------------------------------------
(***************************************************************************)
(* The shielded task: acquire_lock's attempts, or release_lock's one.      *)
(***************************************************************************)

SetJob(s, f) == job' = [job EXCEPT ![s] = f]

(* The top of acquire_lock's loop and of release_lock.  For an acquisition *)
(* it is also the end of a backoff wait: the caller's cancel_event aborts  *)
(* it, otherwise the attempt queues for the boundary.  _ensure_conn ran    *)
(* once, before the first attempt.                                         *)
JobStart(s) ==
    /\ job[s].st = "ready"
    /\ SetJob(s, [job[s] EXCEPT !.st =
          IF mgr = "closed" /\ job[s].tries = 0 THEN "fail"
          ELSE IF job[s].op = "acquire" /\ canc[s] THEN "stop"
          ELSE "wait"])
    /\ UNCHANGED <<dbVars, mgr, callerVars, token, heartVars, until, spent>>

(* lifecycle.transaction(): the boundary is ours, the clock is read, a     *)
(* token is minted and the statement runs; nothing is visible yet.         *)
JobBegin(s) ==
    /\ job[s].st = "wait"
    /\ tx = NoTx
    /\ IF job[s].op = "acquire"
       THEN /\ token' = [token EXCEPT ![s] = Mint(now)]
            /\ lastToken' = Mint(now)
            /\ tx' = [s |-> s, op |-> "acquire", at |-> now,
                      hit |-> AcquireHits(now)]
       ELSE /\ tx' = [s |-> s, op |-> "release", at |-> now,
                      hit |-> ReleaseHits(s)]
            /\ UNCHANGED <<token, lastToken>>
    /\ SetJob(s, [job[s] EXCEPT !.st = "tx"])
    /\ UNCHANGED <<now, row, owner, mgr, callerVars, heartVars, until, spent>>

(* The commit returns and the boundary is left; the task has not run yet.  *)
JobCommit(s) ==
    /\ job[s].st = "tx"
    /\ Apply(tx)
    /\ tx' = NoTx
    /\ SetJob(s, [job[s] EXCEPT !.st = "back", !.hit = tx.hit,
                                !.exp = tx.at + TTL])
    /\ UNCHANGED <<now, lastToken, mgr, callerVars, token, heartVars, until,
                   spent>>

(* What goes with the locals of a primitive when it and its task end. *)
Forget(s) ==
    /\ canc' = [canc EXCEPT ![s] = FALSE]
    /\ token' = [token EXCEPT ![s] = 0]

(* The next attempt, if any is left: acquire_lock looks at cancel_event,   *)
(* then sleeps; after the last one it raises LockAcquisitionError.         *)
NextAttempt(s) ==
    [job[s] EXCEPT
       !.tries = @ + 1, !.hit = FALSE,
       !.st = IF canc[s] THEN "stop"
              ELSE IF job[s].tries + 1 < MaxRetries THEN "ready"
              ELSE "fail"]

(* After the commit.  C6: an acquisition whose commit returned at or after *)
(* its own expiry is not a success; the stale row is left to be reclaimed. *)
JobReturnStale(s) ==                                                \* mutant
    /\ job[s].st = "back"
    /\ SetJob(s, IF job[s].hit THEN [job[s] EXCEPT !.st = "got"]
                 ELSE IF job[s].op = "release" THEN [job[s] EXCEPT !.st = "gone"]
                 ELSE NextAttempt(s))
    /\ UNCHANGED <<dbVars, mgr, callerVars, token, heartVars, until, spent>>
JobReturn(s) ==
    /\ job[s].st = "back"
    /\ SetJob(s, IF job[s].op = "release"
                 THEN [job[s] EXCEPT !.st = IF job[s].hit THEN "got" ELSE "gone"]
                 ELSE IF job[s].hit /\ now < job[s].exp
                      THEN [job[s] EXCEPT !.st = "got"]
                      ELSE NextAttempt(s))
    /\ UNCHANGED <<dbVars, mgr, callerVars, token, heartVars, until, spent>>

(* A database error rolls the transaction back: acquire_lock consumes the  *)
(* attempt, release_lock raises LockReleaseError.  With the lifecycle      *)
(* shutting down the boundary itself refuses and both calls raise.         *)
JobFails(s) ==
    /\ job[s].st \in {"wait", "tx"}
    /\ tx' = IF job[s].st = "tx" THEN NoTx ELSE tx
    /\ SetJob(s, IF job[s].st = "tx" /\ job[s].op = "acquire"
                 THEN NextAttempt(s)
                 ELSE [job[s] EXCEPT !.st = "fail"])
    /\ UNCHANGED <<now, row, lastToken, owner, mgr, callerVars, token,
                   heartVars, until, spent>>

-----------------------------------------------------------------------------
(***************************************************************************)
(* adquirir_lease_definitiva: the caller waits for the shielded task.      *)
(***************************************************************************)

Enter(s) ==
    /\ pc[s] = "idle"
    /\ pc' = [pc EXCEPT ![s] = "acquiring"]
    /\ SetJob(s, Job("acquire"))
    /\ UNCHANGED <<dbVars, mgr, canc, token, sup, estado, heartVars, until,
                   spent>>

(* CancelledError is delivered to the caller, not to the shielded task:    *)
(* the first one starts the cleanup deadline and sets cancel_event.        *)
CancelWaiter(s) ==
    /\ pc[s] \in {"acquiring", "compensating", "releasing"}
    /\ ~canc[s]
    /\ canc' = [canc EXCEPT ![s] = TRUE]
    /\ UNCHANGED <<dbVars, mgr, pc, job, token, sup, estado, heartVars, until,
                   spent>>

(* The acquisition ended and its caller was not cancelled: the LockInfo is *)
(* returned, or the failure is raised.                                     *)
AcquireEnds(s) ==
    /\ pc[s] = "acquiring"
    /\ ~canc[s]
    /\ \/ /\ job[s].st = "got"
          /\ pc' = [pc EXCEPT ![s] = "held"]
          /\ until' = [until EXCEPT ![s] = job[s].exp]
          /\ UNCHANGED <<canc, token>>
       \/ /\ job[s].st = "fail"
          /\ pc' = [pc EXCEPT ![s] = "over"]
          /\ Forget(s)
          /\ UNCHANGED until
    /\ SetJob(s, NoJob)
    /\ UNCHANGED <<dbVars, mgr, sup, estado, heartVars, spent>>

(* It ended and the caller was cancelled.  A lease that was obtained is    *)
(* given back by its token before CancelledError goes on: the compensating *)
(* liberar_lease_definitiva starts with no cancellation of its own.        *)
AcquireCompensatesDrop(s) ==                                        \* mutant
    /\ pc[s] = "acquiring"
    /\ canc[s]
    /\ job[s].st \in Finished
    /\ pc' = [pc EXCEPT ![s] = "over"]
    /\ SetJob(s, NoJob)
    /\ Forget(s)
    /\ UNCHANGED <<dbVars, mgr, sup, estado, heartVars, until, spent>>
AcquireCompensates(s) ==
    /\ pc[s] = "acquiring"
    /\ canc[s]
    /\ \/ /\ job[s].st = "got"
          /\ pc' = [pc EXCEPT ![s] = "compensating"]
          /\ canc' = [canc EXCEPT ![s] = FALSE]
          /\ SetJob(s, Job("release"))
          /\ UNCHANGED <<token, estado>>
       \/ /\ job[s].st \in {"fail", "stop"}
          /\ pc' = [pc EXCEPT ![s] = "over"]
          /\ SetJob(s, NoJob)
          /\ Forget(s)
          /\ estado' = [estado EXCEPT ![s] = "SIN_LEASE"]
    /\ UNCHANGED <<dbVars, mgr, sup, heartVars, until, spent>>

(* cleanup_timeout after the cancellation, in either primitive, with the   *)
(* operation still in flight: INDETERMINADO, a supervising task takes the  *)
(* operation over, and the caller is let go.                               *)
CleanupTimeout(s) ==
    /\ pc[s] \in {"acquiring", "compensating", "releasing"}
    /\ canc[s]
    /\ Running(s)
    /\ pc' = [pc EXCEPT ![s] = "over"]
    /\ estado' = [estado EXCEPT ![s] = "INDETERMINADO"]
    /\ sup' = [sup EXCEPT ![s] = "yes"]
    /\ UNCHANGED <<dbVars, mgr, canc, job, token, heartVars, until, spent>>

-----------------------------------------------------------------------------
(***************************************************************************)
(* liberar_lease_definitiva, and the supervisors of late operations.       *)
(***************************************************************************)

ReleaseState(st) ==
    CASE st = "got" -> "LIBERADA"
      [] st = "gone" -> "YA_EXPIRADA_O_RECLAMADA"
      [] OTHER -> "FALLO_DE_LIBERACION"

(* The holder gives the lease back.  The heartbeat is gone by then: see    *)
(* StopHeartbeat.                                                          *)
StartRelease(s) ==
    /\ pc[s] = "held"
    /\ hb[s].st = "off"
    /\ pc' = [pc EXCEPT ![s] = "releasing"]
    /\ canc' = [canc EXCEPT ![s] = FALSE]
    /\ SetJob(s, Job("release"))
    /\ until' = [until EXCEPT ![s] = 0]
    /\ UNCHANGED <<dbVars, mgr, token, sup, estado, heartVars, spent>>

ReleaseEnds(s) ==
    /\ pc[s] \in {"compensating", "releasing"}
    /\ job[s].st \in Finished
    /\ pc' = [pc EXCEPT ![s] = "over"]
    /\ estado' = [estado EXCEPT ![s] = ReleaseState(job[s].st)]
    /\ SetJob(s, NoJob)
    /\ Forget(s)
    /\ UNCHANGED <<dbVars, mgr, sup, heartVars, until, spent>>

(* _supervisar_adquisicion_tardia: a late acquisition that did get the     *)
(* lease releases it by its token, inside the same supervisor.             *)
SuperviseAcquire(s) ==
    /\ sup[s] # "no"
    /\ job[s].op = "acquire"
    /\ \/ /\ job[s].st = "got"
          /\ SetJob(s, Job("release"))
          /\ UNCHANGED <<canc, token, sup, estado>>
       \/ /\ job[s].st \in {"fail", "stop"}
          /\ SetJob(s, NoJob)
          /\ Forget(s)
          /\ sup' = [sup EXCEPT ![s] = "no"]
          /\ estado' = [estado EXCEPT ![s] = "SIN_LEASE"]
    /\ UNCHANGED <<dbVars, mgr, pc, heartVars, until, spent>>

(* _supervisar_liberacion_tardia *)
SuperviseRelease(s) ==
    /\ sup[s] # "no"
    /\ job[s].op = "release"
    /\ job[s].st \in Finished
    /\ SetJob(s, NoJob)
    /\ Forget(s)
    /\ sup' = [sup EXCEPT ![s] = "no"]
    /\ estado' = [estado EXCEPT ![s] = ReleaseState(job[s].st)]
    /\ UNCHANGED <<dbVars, mgr, pc, heartVars, until, spent>>

-----------------------------------------------------------------------------
(***************************************************************************)
(* The heartbeat: _heartbeat_loop and renew_lock.                          *)
(***************************************************************************)

StartHeartbeat(s) ==
    /\ pc[s] = "held"
    /\ hb[s].st = "off"
    /\ hb' = [hb EXCEPT ![s] = Beat("sleep")]
    /\ UNCHANGED <<dbVars, mgr, callerVars, job, token, lost, until, spent>>

HeartbeatWakes(s) ==
    /\ hb[s].st = "sleep"
    /\ IF mgr = "closed"
       THEN /\ hb' = [hb EXCEPT ![s] = Beat("off")]
            /\ lost' = [lost EXCEPT ![s] = TRUE]
       ELSE hb' = [hb EXCEPT ![s] = Beat("wait")] /\ UNCHANGED lost
    /\ UNCHANGED <<dbVars, mgr, callerVars, job, token, until, spent>>

RenewBegin(s) ==
    /\ hb[s].st = "wait"
    /\ tx = NoTx
    /\ tx' = [s |-> s, op |-> "renew", at |-> now, hit |-> RenewHits(s, now)]
    /\ hb' = [hb EXCEPT ![s] = Beat("tx")]
    /\ UNCHANGED <<now, row, lastToken, owner, mgr, callerVars, job, token,
                   lost, until, spent>>

(* The commit returned.  C7: at or after the new expiry it is no success.  *)
RenewCommit(s) ==
    /\ hb[s].st = "tx"
    /\ tx.s = s /\ tx.op = "renew"
    /\ Apply(tx)
    /\ tx' = NoTx
    /\ hb' = [hb EXCEPT ![s] = [st |-> "back", hit |-> tx.hit,
                                exp |-> tx.at + TTL]]
    /\ UNCHANGED <<now, lastToken, mgr, callerVars, job, token, lost, until,
                   spent>>

RenewReturn(s) ==
    /\ hb[s].st = "back"
    /\ LET renewed == hb[s].hit /\ now < hb[s].exp
       IN  IF renewed
           THEN /\ hb' = [hb EXCEPT ![s] = Beat("sleep")]
                /\ until' = [until EXCEPT ![s] = hb[s].exp]
                /\ UNCHANGED lost
           ELSE /\ hb' = [hb EXCEPT ![s] = Beat("off")]
                /\ lost' = [lost EXCEPT ![s] = TRUE]
                /\ UNCHANGED until
    /\ UNCHANGED <<dbVars, mgr, callerVars, job, token, spent>>

(* Any database error, or the lifecycle shutting down: the lease is taken  *)
(* as lost.                                                                *)
RenewFails(s) ==
    /\ hb[s].st \in {"wait", "tx"}
    /\ tx' = IF hb[s].st = "tx" THEN NoTx ELSE tx
    /\ hb' = [hb EXCEPT ![s] = Beat("off")]
    /\ lost' = [lost EXCEPT ![s] = TRUE]
    /\ UNCHANGED <<now, row, lastToken, owner, mgr, callerVars, job, token,
                   until, spent>>

(* _stop_heartbeat: cancel it and wait.  A renewal in its transaction      *)
(* commits or rolls back; either way its verdict is not looked at.         *)
StopHeartbeat(s) ==
    /\ pc[s] = "held"
    /\ hb[s].st # "off"
    /\ IF hb[s].st = "tx"
       THEN /\ tx' = NoTx
            /\ Apply(tx) \/ UNCHANGED <<row, owner>>
       ELSE UNCHANGED <<tx, row, owner>>
    /\ hb' = [hb EXCEPT ![s] = Beat("off")]
    /\ UNCHANGED <<now, lastToken, mgr, callerVars, job, token, lost, until,
                   spent>>

-----------------------------------------------------------------------------
(***************************************************************************)
(* The manager and its environment.                                        *)
(***************************************************************************)

(* close() first drains the supervisors: each one is cancelled once, with  *)
(* the operation it watches.  A transaction then commits or rolls back and *)
(* nobody learns which; an acquisition that had already ended goes on to   *)
(* its release.                                                            *)
BeginClose ==
    /\ MayClose
    /\ mgr = "open"
    /\ mgr' = "closing"
    /\ UNCHANGED <<dbVars, callerVars, job, token, heartVars, until, spent>>

DrainCancel(s) ==
    /\ mgr = "closing"
    /\ sup[s] = "yes"
    /\ IF Running(s)
       THEN /\ IF job[s].st = "tx"
               THEN /\ tx' = NoTx
                    /\ Apply(tx) \/ UNCHANGED <<row, owner>>
               ELSE UNCHANGED <<tx, row, owner>>
            /\ SetJob(s, NoJob)
            /\ Forget(s)
            /\ sup' = [sup EXCEPT ![s] = "no"]
       ELSE /\ sup' = [sup EXCEPT ![s] = "seen"]
            /\ UNCHANGED <<tx, row, owner, job, canc, token>>
    /\ UNCHANGED <<now, lastToken, mgr, pc, estado, heartVars, until, spent>>

EndClose ==
    /\ mgr = "closing"
    /\ \A s \in Sessions : sup[s] = "no"
    /\ mgr' = "closed"
    /\ UNCHANGED <<dbVars, callerVars, job, token, heartVars, until, spent>>

(* force_release and cleanup_expired, one transaction each. *)
ForceRelease ==
    /\ spent.forced < MaxForced
    /\ tx = NoTx /\ row # NoRow /\ mgr # "closed"
    /\ row' = NoRow /\ owner' = Nobody
    /\ spent' = [spent EXCEPT !.forced = @ + 1]
    /\ UNCHANGED <<now, lastToken, tx, mgr, callerVars, job, token, heartVars,
                   until>>

CleanupExpired ==
    /\ tx = NoTx /\ row # NoRow /\ row.exp < now /\ mgr # "closed"
    /\ row' = NoRow /\ owner' = Nobody
    /\ UNCHANGED <<now, lastToken, tx, mgr, callerVars, job, token, heartVars,
                   until, spent>>

Tick ==
    /\ now < MaxNow
    /\ now' = now + 1
    /\ UNCHANGED <<row, lastToken, tx, owner, mgr, callerVars, job, token,
                   heartVars, until, spent>>

(* NTP steps the wall clock back. *)
ClockBack ==
    /\ spent.back < MaxBack
    /\ now > 1
    /\ now' = now - 1
    /\ spent' = [spent EXCEPT !.back = @ + 1]
    /\ UNCHANGED <<row, lastToken, tx, owner, mgr, callerVars, job, token,
                   heartVars, until>>

(* The process dies and a new one starts: the table stays, every task and  *)
(* the memory of the last token are gone.                                  *)
Crash ==
    /\ spent.crashes < MaxCrashes
    /\ \E s \in Sessions : pc[s] # "idle"
    /\ tx' = NoTx
    /\ lastToken' = 0
    /\ mgr' = "open"
    /\ pc' = [s \in Sessions |-> IF pc[s] = "idle" THEN "idle" ELSE "dead"]
    /\ canc' = [s \in Sessions |-> FALSE]
    /\ job' = [s \in Sessions |-> NoJob]
    /\ token' = [s \in Sessions |-> 0]
    /\ sup' = [s \in Sessions |-> "no"]
    /\ hb' = [s \in Sessions |-> Beat("off")]
    /\ until' = [s \in Sessions |-> 0]
    /\ spent' = [spent EXCEPT !.crashes = @ + 1]
    /\ UNCHANGED <<now, row, owner, estado, lost>>

-----------------------------------------------------------------------------
JobStep(s) ==
    JobStart(s) \/ JobBegin(s) \/ JobCommit(s) \/ JobReturn(s) \/ JobFails(s)

HeartStep(s) ==
    \/ HeartbeatWakes(s) \/ RenewBegin(s) \/ RenewCommit(s)
    \/ RenewReturn(s) \/ RenewFails(s)

WaiterStep(s) ==
    \/ AcquireEnds(s) \/ AcquireCompensates(s) \/ CleanupTimeout(s)
    \/ ReleaseEnds(s)

SupervisorStep(s) == SuperviseAcquire(s) \/ SuperviseRelease(s)

ManagerStep ==
    \/ BeginClose \/ EndClose \/ ForceRelease \/ CleanupExpired
    \/ \E s \in Sessions : DrainCancel(s)

(* The caller's own moves; a component that says what is done while the    *)
(* lease is held refines these.                                            *)
HolderStep(s) == StartHeartbeat(s) \/ StopHeartbeat(s) \/ StartRelease(s)

LeaseStep ==
    \/ \E s \in Sessions :
          \/ Enter(s) \/ CancelWaiter(s) \/ WaiterStep(s)
          \/ JobStep(s) \/ HeartStep(s) \/ SupervisorStep(s)
    \/ ManagerStep
    \/ ClockBack

LeaseNext == LeaseStep \/ Tick \/ Crash \/ \E s \in Sessions : HolderStep(s)

LeaseSpec == LeaseInit /\ [][LeaseNext]_leaseVars

-----------------------------------------------------------------------------
(***************************************************************************)
(* Properties.                                                             *)
(***************************************************************************)

(* Exclusion (acquire_lock, renew_lock with their checks C6 and C7): while *)
(* the expiry a holder was last told lies ahead, the row of the table is   *)
(* its own.  No other session can have taken it over, released it or       *)
(* cleaned it up, whatever order the transactions came in; only an         *)
(* operator's force_release can.                                           *)
HolderHolds ==
    \A s \in Sessions :
        pc[s] = "held" /\ now < until[s] /\ spent.forced = 0 =>
            row # NoRow /\ owner = s /\ row.tok = token[s]

(* Fencing (_RELEASE_SQL, _RENEW_SQL, _acuniar_token): a lease that has    *)
(* not ended is renewed or deleted by a transaction of the session that    *)
(* took it, never by another one, even when both use the same agent_id,    *)
(* the clock stands still or is stepped back.                              *)
ForeignLeaseUntouched ==
    [][row # NoRow /\ row' # row =>
          \/ owner = tx.s
          \/ row.exp < tx.at \/ row.exp < now
          \/ spent'.forced # spent.forced]_leaseVars

(* No leak (#741, adquirir_lease_definitiva): when everything a caller     *)
(* started has ended and the reported state claims neither a failed        *)
(* release nor an unknown outcome, no running lease of that caller is left *)
(* in the table, wherever the cancellation fell; a report of LIBERADA or   *)
(* SIN_LEASE excludes one at once, not only when its tasks are done.  (A   *)
(* clock stepped back can bring a lease that had ended back to life.)      *)
NoLeakedLease ==
    \A s \in Sessions :
        /\ spent.back = 0
        /\ \/ estado[s] \in {"LIBERADA", "SIN_LEASE"}
           \/ /\ pc[s] = "over" /\ sup[s] = "no"
              /\ estado[s] \notin {"FALLO_DE_LIBERACION", "INDETERMINADO"}
        => ~(row # NoRow /\ owner = s /\ now < row.exp)

-----------------------------------------------------------------------------
(* The promise of the lock table alone; see module Lease. *)
ClientOf(s) ==
    CASE pc[s] = "idle" -> "out"
      [] pc[s] = "held" \/ (pc[s] = "acquiring" /\ job[s].st = "got") -> "in"
      [] pc[s] = "acquiring" /\ job[s].st # "got" -> "asking"
      [] OTHER -> "leaving"

Promise == INSTANCE Lease WITH
    Clients <- Sessions, Term <- TTL, None <- Nobody,
    clock <- now, holder <- owner, ends <- row.exp,
    client <- [s \in Sessions |-> ClientOf(s)]

(* The table keeps the promise of an abstract lease: one holder at a time, *)
(* entry only with the term running, an end only by the holder's leaving   *)
(* or by the term's end.                                                   *)
KeepsPromise == Promise!Spec
=============================================================================
