---------------------------- MODULE LeaseProofs ----------------------------
(***************************************************************************)
(* Proofs about LeaseLocks, and SnapshotTx, which is built on it: for      *)
(* every finite set of sessions and of files, every assignment of agents   *)
(* and all bounds.                                                         *)
(*                                                                         *)
(* The lock table.  The boundary of the lifecycle keeps the row as the     *)
(* statement found it until its commit (TxInv), and the tokens of the      *)
(* sessions are distinct (TokenInv), so a statement that matches the token *)
(* of the row is its owner's.  Where the clock was never stepped back the  *)
(* commit comes no earlier than its clock reading (TimeInv), so a session  *)
(* that was told an expiry which lies ahead has the row (TermInv), and a   *)
(* running lease is always somebody's business (OwnInv).                   *)
(*                                                                         *)
(* The snapshot transaction.  A context past its entry holds the lease and *)
(* has every file's snapshot (Stages); a file is booked as restored,       *)
(* failed or neither, and the exit decides on nothing that a later step    *)
(* changes (Books); so the report of a complete rollback means that every  *)
(* file was put back (PutBack).  Where the entry and the heartbeat keep    *)
(* ahead of the term (Handed, Covered) the exclusion of the lock table     *)
(* applies to a context in its body and, where the rollback is timely too, *)
(* in its rollback.                                                        *)
(***************************************************************************)
EXTENDS SnapshotTx, TLAPS

(* ------------------------------ LeaseLocks ----------------------------- *)

JobStates == {"off", "ready", "wait", "tx", "back"} \cup Finished

JobRec ==
    [op : {"none", "acquire", "release"}, st : JobStates,
     tries : 0 .. MaxRetries, hit : BOOLEAN, exp : Nat]

BeatRec == [st : {"off", "sleep", "wait", "tx", "back"}, hit : BOOLEAN, exp : Nat]

\* LeaseTypeOK, taken apart; an attempt that runs is not beyond the last one.
TypeDb ==
    /\ now \in Nat /\ lastToken \in Nat
    /\ owner \in Sessions \cup {Nobody}
    /\ mgr \in {"open", "closing", "closed"}
    /\ spent \in [back : 0 .. MaxBack, forced : 0 .. MaxForced, crashes : 0 .. MaxCrashes]

TypeRow ==
    row \in [agent : {AgentOf[s] : s \in Sessions} \cup {Nobody}, tok : Nat, exp : Nat]

TypeTx ==
    tx \in [s : Sessions \cup {Nobody}, op : {"none", "acquire", "release", "renew"},
            at : Nat, hit : BOOLEAN]

TypeCaller ==
    /\ pc \in [Sessions -> {"idle", "acquiring", "compensating", "held", "releasing",
                            "over", "dead"}]
    /\ canc \in [Sessions -> BOOLEAN]
    /\ sup \in [Sessions -> {"no", "yes", "seen"}]
    /\ estado \in [Sessions -> {"NO_REQUERIDO", "SIN_LEASE", "LIBERADA",
                                "YA_EXPIRADA_O_RECLAMADA",
                                "FALLO_DE_LIBERACION", "INDETERMINADO"}]

TypeJob ==
    /\ job \in [Sessions -> JobRec]
    /\ \A s \in Sessions :
          job[s].st \in {"ready", "wait", "tx", "back"} => job[s].tries < MaxRetries

TypeMem == token \in [Sessions -> Nat] /\ until \in [Sessions -> Nat]

TypeBeat == hb \in [Sessions -> BeatRec] /\ lost \in [Sessions -> BOOLEAN]

Types == TypeDb /\ TypeRow /\ TypeTx /\ TypeCaller /\ TypeJob /\ TypeMem /\ TypeBeat

\* A session whose attempt took the lease, before the caller knows
Won(s) == job[s].op = "acquire" /\ job[s].st \in {"back", "got"} /\ job[s].hit

\* A session whose token was written into the table
Entitled(s) == pc[s] = "held" \/ job[s].op = "release" \/ Won(s)

\* The three tasks of a session, and what its caller was told
Structure ==
    \A s \in Sessions :
        /\ job[s].op = "none" <=> job[s].st = "off"
        /\ job[s].op = "acquire" => job[s].st # "gone" /\ (job[s].st = "got" => job[s].hit)
        /\ job[s].op = "release" => job[s].st # "stop"
        /\ pc[s] \in {"idle", "held", "dead"} => job[s].op = "none" /\ sup[s] = "no"
        /\ pc[s] = "acquiring" => job[s].op = "acquire" /\ sup[s] = "no"
        /\ pc[s] \in {"compensating", "releasing"} => job[s].op = "release" /\ sup[s] = "no"
        /\ pc[s] = "over" /\ sup[s] = "no" => job[s].op = "none"
        /\ sup[s] # "no" => pc[s] = "over" /\ job[s].op # "none" /\ estado[s] = "INDETERMINADO"
        /\ pc[s] \notin {"over", "dead"} => estado[s] = "NO_REQUERIDO"
        /\ hb[s].st # "off" => pc[s] = "held"

\* The transaction inside the boundary is somebody's, and while it is there
\* nobody else changes what its statement matched.
TxInv ==
    /\ \A s \in Sessions : job[s].st = "tx" => tx.s = s /\ tx.op = job[s].op
    /\ \A s \in Sessions : hb[s].st = "tx" => tx.s = s /\ tx.op = "renew"
    /\ tx # NoTx => tx.s \in Sessions /\ tx.op # "none"
    /\ tx # NoTx /\ tx.op # "renew" => job[tx.s].st = "tx"
    /\ tx.op = "renew" => hb[tx.s].st = "tx"
    /\ tx.op = "acquire" /\ tx.hit => AcquireHits(tx.at)
    /\ tx.op = "release" => (tx.hit <=> ReleaseHits(tx.s))
    /\ tx.op = "renew" /\ tx.hit => ReleaseHits(tx.s)

\* Tokens are distinct, ...
TokenInv ==
    /\ now # 0
    /\ \A s \in Sessions : token[s] <= lastToken
    /\ \A s, t \in Sessions : token[s] = token[t] /\ token[s] # 0 => s = t
    /\ \A s \in Sessions : Entitled(s) \/ job[s].st = "tx" => token[s] # 0

\* ... so the token in the row is its owner's.
FenceInv ==
    /\ \A s \in Sessions : Entitled(s) /\ row # NoRow /\ row.tok = token[s] => owner = s
    /\ row = NoRow <=> owner = Nobody
    /\ row # NoRow => row.tok # 0

\* Terms do not reach further than a TTL ahead, unless the clock goes back.
TimeInv ==
    spent.back = 0 =>
        /\ row.exp <= now + TTL
        /\ tx # NoTx => tx.at <= now /\ row.exp <= tx.at + TTL

\* Who was told an expiry that lies ahead has the row.
Lease(s, e) ==
    now < e => row # NoRow /\ owner = s /\ row.tok = token[s] /\ e <= row.exp

TermInv ==
    spent.back = 0 /\ spent.forced = 0 =>
        \A s \in Sessions :
            /\ pc[s] = "held" => Lease(s, until[s])
            /\ Won(s) => Lease(s, job[s].exp)
            /\ hb[s].st = "back" /\ hb[s].hit => Lease(s, hb[s].exp)

\* Whoever has a running lease holds it, is about to give it back, or has
\* reported that it may be left.
Minding(s) ==
    \/ Won(s) /\ row.exp = job[s].exp
    \/ pc[s] = "held"
    \/ job[s].op = "release" /\ job[s].st \in {"ready", "wait", "tx", "fail"}

Excused(s) ==
    /\ job[s].op = "none"
    /\ \/ estado[s] \in {"FALLO_DE_LIBERACION", "INDETERMINADO"}
       \/ pc[s] = "dead" /\ estado[s] \notin {"LIBERADA", "SIN_LEASE"}

OwnInv ==
    spent.back = 0 =>
        \A s \in Sessions :
            row # NoRow /\ owner = s /\ now < row.exp =>
                \/ Minding(s) /\ ReleaseHits(s)
                \/ Excused(s)

LeaseInv ==
    /\ Types /\ Structure /\ TxInv /\ TokenInv /\ FenceInv
    /\ TimeInv /\ TermInv /\ OwnInv

USE LeaseAssumption

-----------------------------------------------------------------------------
(* The records of the model                                                *)

\* No row, no transaction, and the jobs as they begin
LEMMA Constants ==
    /\ NoRow \in [agent : {AgentOf[s] : s \in Sessions} \cup {Nobody}, tok : Nat, exp : Nat]
    /\ NoRow.tok = 0 /\ NoRow.exp = 0
    /\ NoTx \in [s : Sessions \cup {Nobody}, op : {"none", "acquire", "release", "renew"},
                 at : Nat, hit : BOOLEAN]
    /\ NoTx.s = Nobody /\ NoTx.op = "none"
    /\ NoJob \in JobRec /\ NoJob.op = "none" /\ NoJob.st = "off" /\ NoJob.tries = 0
  BY DEF NoRow, NoTx, NoJob, JobRec, JobStates

\* A job that starts
LEMMA NewJob ==
    ASSUME NEW op \in {"acquire", "release"}
    PROVE  /\ Job(op) \in JobRec
           /\ Job(op).op = op /\ Job(op).st = "ready" /\ Job(op).tries = 0
<1> DEFINE t == [NoJob EXCEPT !.op = op]
<1>1. Job(op) = [t EXCEPT !.st = "ready"]
  BY DEF Job
<1>2. t \in JobRec /\ t.op = op /\ t.tries = 0
  BY Constants DEF JobRec
<1> HIDE DEF t
<1> QED
  BY <1>1, <1>2 DEF JobRec, JobStates

\* A job that comes into another state
LEMMA MovedJob ==
    ASSUME NEW j \in JobRec, NEW x \in JobStates
    PROVE  LET k == [j EXCEPT !.st = x]
           IN  /\ k \in JobRec
               /\ k.op = j.op /\ k.st = x /\ k.tries = j.tries /\ k.hit = j.hit /\ k.exp = j.exp
  BY DEF JobRec

\* A job whose transaction was committed
LEMMA CommittedJob ==
    ASSUME NEW s \in Sessions, job[s] \in JobRec, tx.hit \in BOOLEAN, tx.at + TTL \in Nat
    PROVE  LET k == [job[s] EXCEPT !.st = "back", !.hit = tx.hit, !.exp = tx.at + TTL]
           IN  /\ k \in JobRec
               /\ k.op = job[s].op /\ k.st = "back" /\ k.tries = job[s].tries
               /\ k.hit = tx.hit /\ k.exp = tx.at + TTL
<1> DEFINE h == tx.hit
<1> DEFINE e == tx.at + TTL
<1> DEFINE t == [job[s] EXCEPT !.st = "back"]
<1> DEFINE u == [t EXCEPT !.hit = h]
<1>1. [job[s] EXCEPT !.st = "back", !.hit = h, !.exp = e] = [u EXCEPT !.exp = e]
  OBVIOUS
<1>2. t \in JobRec /\ t.op = job[s].op /\ t.st = "back" /\ t.tries = job[s].tries
  BY DEF JobRec, JobStates
<1>3. h \in BOOLEAN /\ e \in Nat
  OBVIOUS
<1> HIDE DEF t, h, e
<1>4. u \in JobRec /\ u.op = job[s].op /\ u.st = "back" /\ u.tries = job[s].tries /\ u.hit = h
  BY <1>2, <1>3 DEF JobRec
<1> HIDE DEF u
<1>5. LET k == [u EXCEPT !.exp = e]
      IN  /\ k \in JobRec
          /\ k.op = job[s].op /\ k.st = "back" /\ k.tries = job[s].tries /\ k.hit = h /\ k.exp = e
  BY <1>3, <1>4 DEF JobRec
<1> QED
  BY <1>1, <1>5 DEF h, e

\* The record of a heartbeat
LEMMA BeatIs ==
    ASSUME NEW x \in {"off", "sleep", "wait", "tx", "back"}
    PROVE  Beat(x) \in BeatRec /\ Beat(x).st = x /\ Beat(x).hit = FALSE
  BY DEF Beat, BeatRec

\* A job at its next attempt, or at its end
LEMMA AttemptedJob ==
    ASSUME NEW s \in Sessions, job[s] \in JobRec, job[s].tries < MaxRetries
    PROVE  /\ NextAttempt(s) \in JobRec
           /\ NextAttempt(s).op = job[s].op /\ NextAttempt(s).exp = job[s].exp
           /\ NextAttempt(s).hit = FALSE
           /\ NextAttempt(s).st \in {"stop", "ready", "fail"}
           /\ NextAttempt(s).st = "ready" => NextAttempt(s).tries < MaxRetries
<1> DEFINE n == job[s].tries + 1
<1> DEFINE x == IF canc[s] THEN "stop" ELSE IF n < MaxRetries THEN "ready" ELSE "fail"
<1>1. n \in 0 .. MaxRetries
  BY DEF JobRec
<1>2. x \in {"stop", "ready", "fail"} /\ (x = "ready" => n < MaxRetries)
  OBVIOUS
<1>3. NextAttempt(s) = [job[s] EXCEPT !.tries = n, !.hit = FALSE, !.st = x]
  BY DEF NextAttempt, JobRec
<1> HIDE DEF n, x
<1> DEFINE t == [job[s] EXCEPT !.tries = n]
<1> DEFINE u == [t EXCEPT !.hit = FALSE]
<1>4. NextAttempt(s) = [u EXCEPT !.st = x]
  BY <1>3
<1>5. t \in JobRec /\ t.op = job[s].op /\ t.exp = job[s].exp /\ t.tries = n
  BY <1>1 DEF JobRec
<1> HIDE DEF t
<1>6. u \in JobRec /\ u.op = job[s].op /\ u.exp = job[s].exp /\ u.tries = n /\ u.hit = FALSE
  BY <1>5 DEF JobRec
<1> HIDE DEF u
<1>7. /\ NextAttempt(s) \in JobRec
      /\ NextAttempt(s).op = job[s].op /\ NextAttempt(s).exp = job[s].exp
      /\ NextAttempt(s).tries = n /\ NextAttempt(s).hit = FALSE /\ NextAttempt(s).st = x
  BY <1>2, <1>4, <1>6 DEF JobRec, JobStates, Finished
<1> QED
  BY <1>2, <1>7

\* The fields of a job
LEMMA JobFields ==
    ASSUME Types
    PROVE  \A s \in Sessions :
               /\ job[s] \in JobRec /\ job[s].op \in {"none", "acquire", "release"}
               /\ job[s].st \in JobStates /\ job[s].hit \in BOOLEAN /\ job[s].exp \in Nat
  BY DEF Types, TypeJob, JobRec

\* The fields of row, transaction and heartbeat
LEMMA Fields ==
    ASSUME Types
    PROVE  /\ row.tok \in Nat /\ row.exp \in Nat /\ tx.at \in Nat /\ tx.hit \in BOOLEAN
           /\ tx.s \in Sessions \cup {Nobody} /\ tx.op \in {"none", "acquire", "release", "renew"}
           /\ \A s \in Sessions : hb[s].exp \in Nat /\ hb[s].hit \in BOOLEAN
           /\ spent.back \in Nat /\ spent.forced \in Nat
  BY DEF Types, TypeRow, TypeTx, TypeBeat, BeatRec, TypeDb

\* The effect of a commit on the table
LEMMA Applied ==
    ASSUME LeaseInv, tx # NoTx, Apply(tx)
    PROVE  /\ TypeRow' /\ owner' \in Sessions \cup {Nobody}
           /\ tx.s \in Sessions
           /\ ~tx.hit => row' = row /\ owner' = owner
           /\ tx.hit /\ tx.op = "acquire" =>
                 /\ row' # NoRow /\ owner' = tx.s
                 /\ row'.agent = AgentOf[tx.s] /\ row'.tok = token[tx.s] /\ row'.exp = tx.at + TTL
           /\ tx.hit /\ tx.op = "renew" =>
                 /\ row' # NoRow /\ owner' = owner
                 /\ row'.agent = row.agent /\ row'.tok = row.tok /\ row'.exp = tx.at + TTL
           /\ tx.hit /\ tx.op = "release" => row' = NoRow /\ owner' = Nobody
<1>1. tx.s \in Sessions /\ tx.op \in {"acquire", "release", "renew"} /\ tx.at \in Nat
      /\ tx.hit \in BOOLEAN /\ token[tx.s] \in Nat
  BY Fields DEF LeaseInv, Types, TypeMem, TxInv
<1>2. CASE ~tx.hit
  BY <1>1, <1>2 DEF Apply, LeaseInv, Types, TypeRow, TypeDb
<1>3. CASE tx.hit /\ tx.op = "acquire"
  <2>1. row' = [agent |-> AgentOf[tx.s], tok |-> token[tx.s], exp |-> tx.at + TTL] /\ owner' = tx.s
    BY <1>3 DEF Apply
  <2>2. token[tx.s] # 0
    BY <1>1, <1>3 DEF LeaseInv, TxInv, TokenInv
  <2> QED
    BY <1>1, <1>3, <2>1, <2>2, Constants DEF TypeRow
<1>4. CASE tx.hit /\ tx.op = "renew"
  <2>1. row' = [row EXCEPT !.exp = tx.at + TTL] /\ owner' = owner
    BY <1>4 DEF Apply
  <2>2. row.tok # 0
    BY <1>4 DEF LeaseInv, TxInv, FenceInv, ReleaseHits
  <2> QED
    BY <1>1, <1>4, <2>1, <2>2, Constants DEF LeaseInv, Types, TypeRow, TypeDb
<1>5. CASE tx.hit /\ tx.op = "release"
  BY <1>1, <1>5, Constants DEF Apply, TypeRow
<1> QED
  BY <1>1, <1>2, <1>3, <1>4, <1>5

\* What a commit does to the session that made it
LEMMA CommitOwn ==
    ASSUME LeaseInv, tx # NoTx, Apply(tx)
    PROVE  /\ tx.op # "acquire" /\ tx.hit =>
                 row # NoRow /\ owner = tx.s /\ row.tok = token[tx.s] /\ row.agent = AgentOf[tx.s]
           /\ (tx.op # "acquire" \/ tx.hit) /\ row' # NoRow /\ row'.tok = token[tx.s] => owner' = tx.s
           /\ row' = NoRow <=> owner' = Nobody
           /\ row' # NoRow => row'.tok # 0
<1>1. tx.s \in Sessions /\ tx.op \in {"acquire", "release", "renew"} /\ token[tx.s] \in Nat
  BY Fields DEF LeaseInv, Types, TypeMem, TxInv
<1>2. tx.op # "acquire" => Entitled(tx.s)
  BY <1>1 DEF LeaseInv, TxInv, Structure, Entitled
<1>3. token[tx.s] # 0
  BY <1>1, <1>2 DEF LeaseInv, TxInv, TokenInv
<1>4. tx.op # "acquire" /\ tx.hit =>
         row # NoRow /\ owner = tx.s /\ row.tok = token[tx.s] /\ row.agent = AgentOf[tx.s]
  BY <1>1, <1>2 DEF LeaseInv, TxInv, FenceInv, ReleaseHits
<1>5. CASE ~tx.hit
  BY <1>1, <1>2, <1>5, Applied DEF LeaseInv, FenceInv
<1>6. CASE tx.hit
  BY <1>1, <1>3, <1>4, <1>6, Applied
<1> QED
  BY <1>4, <1>5, <1>6

\* What a commit does to the others: the row of a lease that runs is theirs
\* before and after it, untouched.
LEMMA CommitOthers ==
    ASSUME LeaseInv, tx # NoTx, Apply(tx), NEW t \in Sessions, t # tx.s
    PROVE  /\ Entitled(t) /\ row' # NoRow /\ row'.tok = token[t] => owner' = t
           /\ owner' = t => row' = row /\ owner = t
           /\ spent.back = 0 /\ owner = t /\ now < row.exp => row' = row /\ owner' = t
<1>1. tx.s \in Sessions /\ tx.op \in {"acquire", "release", "renew"}
      /\ token[tx.s] \in Nat /\ token[t] \in Nat
  BY Fields DEF LeaseInv, Types, TypeMem, TxInv
<1>2. CASE ~tx.hit
  BY <1>1, <1>2, Applied DEF LeaseInv, FenceInv
<1>3. token[tx.s] # token[t]
  BY <1>1 DEF LeaseInv, TxInv, TokenInv, Structure, Entitled
<1>4. CASE tx.hit /\ tx.op = "acquire"
  <2>1. owner' = tx.s /\ row'.tok = token[tx.s]
    BY <1>4, Applied
  <2>2. spent.back = 0 /\ owner = t => ~(now < row.exp)
    <3>1. owner = t => row # NoRow
      BY DEF LeaseInv, FenceInv
    <3>2. row # NoRow => row.exp < tx.at
      BY <1>4 DEF LeaseInv, TxInv, AcquireHits
    <3>3. spent.back = 0 => tx.at <= now
      BY DEF LeaseInv, TimeInv
    <3>4. row.exp \in Nat /\ tx.at \in Nat /\ now \in Nat
      BY Fields DEF LeaseInv, Types, TypeDb
    <3> QED
      BY <3>1, <3>2, <3>3, <3>4
  <2> QED
    BY <1>3, <2>1, <2>2
<1>5. CASE tx.hit /\ tx.op # "acquire"
  <2>1. owner = tx.s /\ row.tok = token[tx.s]
    BY <1>5, CommitOwn
  <2> QED
    BY <1>1, <1>3, <1>5, <2>1, Applied
<1> QED
  BY <1>2, <1>4, <1>5

-----------------------------------------------------------------------------
(* One lemma for each action                                               *)

\* LeaseInv survives the start of an attempt.
LEMMA JobStartStep ==
    ASSUME LeaseInv, NEW s \in Sessions, JobStart(s)
    PROVE  LeaseInv'
<1>1. /\ job' \in [Sessions -> JobRec] /\ \A t \in Sessions \ {s} : job'[t] = job[t]
      /\ job'[s].op = job[s].op /\ job'[s].tries = job[s].tries
      /\ job'[s].hit = job[s].hit /\ job'[s].exp = job[s].exp
      /\ job'[s].st \in {"fail", "stop", "wait"} /\ (job'[s].st = "stop" => job[s].op = "acquire")
  <2> DEFINE x == IF mgr = "closed" /\ job[s].tries = 0 THEN "fail"
                 ELSE IF job[s].op = "acquire" /\ canc[s] THEN "stop"
                 ELSE "wait"
  <2> DEFINE k == [job[s] EXCEPT !.st = x]
  <2>1. job' = [job EXCEPT ![s] = k]
    BY DEF JobStart, SetJob
  <2>2. x \in {"fail", "stop", "wait"} /\ (x = "stop" => job[s].op = "acquire") /\ x \in JobStates
    BY DEF JobStates, Finished
  <2> HIDE DEF x
  <2>3. k \in JobRec /\ k.op = job[s].op /\ k.tries = job[s].tries /\ k.hit = job[s].hit
        /\ k.exp = job[s].exp /\ k.st = x
    BY <2>2, MovedJob, JobFields DEF LeaseInv
  <2> HIDE DEF k
  <2> QED
    BY <2>1, <2>2, <2>3 DEF LeaseInv, Types, TypeJob
<1>2. TypeDb' /\ TypeRow'
  BY <1>1, Constants, Fields DEF LeaseInv, Types, TypeDb, TypeRow, TypeTx, JobStart, dbVars,
     callerVars, heartVars
<1>3. TypeTx'
  BY <1>1, Constants, Fields DEF LeaseInv, Types, TypeTx, TypeDb, JobStart, dbVars,
     callerVars, heartVars
<1>4. TypeCaller'
  BY <1>1 DEF LeaseInv, Types, TypeCaller, JobStart, dbVars, callerVars, heartVars
<1>5. TypeJob'
  BY <1>1, Constants DEF LeaseInv, Types, TypeJob, JobStart, dbVars, callerVars, heartVars
<1>6. TypeMem' /\ TypeBeat'
  BY <1>1, BeatIs, Fields, JobFields DEF LeaseInv, Types, TypeMem, TypeBeat, TypeDb, TypeTx,
     JobStart, dbVars, callerVars, heartVars
<1>7. Structure'
  BY <1>1, Constants DEF LeaseInv, Types, TypeCaller, TypeBeat, Structure, JobStart, dbVars,
     callerVars, heartVars
<1>8. TxInv'
  BY <1>1, Constants DEF LeaseInv, Types, TypeBeat, TypeTx, Structure, TxInv, AcquireHits,
     ReleaseHits, JobStart, dbVars, callerVars, heartVars
<1>9. TokenInv'
  BY <1>1, Constants DEF LeaseInv, Types, TypeDb, TypeCaller, TypeMem, Structure, TokenInv,
     Entitled, Won, JobStart, dbVars, callerVars, heartVars
<1>10. FenceInv'
  BY <1>1, Constants DEF LeaseInv, Types, TypeCaller, TypeMem, Structure, FenceInv,
     Entitled, Won, JobStart, dbVars, callerVars, heartVars
<1>11. TimeInv'
  BY <1>1, Constants, Fields DEF LeaseInv, Types, TypeDb, TxInv, TimeInv, JobStart, dbVars,
     callerVars, heartVars
<1>12. TermInv'
  BY <1>1, Constants, Fields, JobFields DEF LeaseInv, Types, TypeDb, TypeCaller, TypeMem,
     TypeBeat, Structure, TxInv, FenceInv, TimeInv, TermInv, Lease, Won, Entitled, JobStart,
     dbVars, callerVars, heartVars
<1>13. OwnInv'
  BY <1>1, Constants, Fields DEF LeaseInv, Types, TypeDb, TypeCaller, TypeMem, Structure,
     TxInv, FenceInv, TimeInv, OwnInv, Minding, Excused, Won, ReleaseHits, JobStart, dbVars,
     callerVars, heartVars
<1> QED
  BY <1>2, <1>3, <1>4, <1>5, <1>6, <1>7, <1>8, <1>9, <1>10, <1>11, <1>12, <1>13 DEF
     LeaseInv, Types

\* LeaseInv survives the statement of an acquisition or a release.
LEMMA JobBeginStep ==
    ASSUME LeaseInv, NEW s \in Sessions, JobBegin(s)
    PROVE  LeaseInv'
<1>1. /\ job' \in [Sessions -> JobRec] /\ \A t \in Sessions \ {s} : job'[t] = job[t]
      /\ job'[s].op = job[s].op /\ job'[s].tries = job[s].tries
      /\ job'[s].hit = job[s].hit /\ job'[s].exp = job[s].exp /\ job'[s].st = "tx"
  <2> DEFINE k == [job[s] EXCEPT !.st = "tx"]
  <2>1. job' = [job EXCEPT ![s] = k]
    BY DEF JobBegin, SetJob
  <2>2. k \in JobRec /\ k.op = job[s].op /\ k.tries = job[s].tries /\ k.hit = job[s].hit
        /\ k.exp = job[s].exp /\ k.st = "tx"
    BY MovedJob, JobFields DEF LeaseInv, JobStates
  <2> HIDE DEF k
  <2> QED
    BY <2>1, <2>2 DEF LeaseInv, Types, TypeJob
<1>2. /\ Mint(now) \in Nat /\ Mint(now) > lastToken
      /\ job[s].op \in {"acquire", "release"}
      /\ tx'.s = s /\ tx'.op = job[s].op /\ tx'.at = now /\ TypeTx'
      /\ job[s].op = "acquire" => (tx'.hit => AcquireHits(now))
      /\ job[s].op = "release" => (tx'.hit <=> ReleaseHits(s))
      /\ token' = IF job[s].op = "acquire" THEN [token EXCEPT ![s] = Mint(now)] ELSE token
      /\ lastToken' = IF job[s].op = "acquire" THEN Mint(now) ELSE lastToken
  <2>1. Mint(now) \in Nat /\ Mint(now) > lastToken
    BY DEF Mint, LeaseInv, Types, TypeDb
  <2>2. job[s].op \in {"acquire", "release"}
    BY JobFields DEF LeaseInv, Structure, JobBegin
  <2>3. CASE job[s].op = "acquire"
    <3>1. AcquireHits(now) \in BOOLEAN
      BY DEF AcquireHits
    <3> QED
      BY <2>1, <2>3, <3>1 DEF JobBegin, LeaseInv, Types, TypeDb, TypeTx
  <2>4. CASE job[s].op = "release"
    <3>1. ReleaseHits(s) \in BOOLEAN
      BY DEF ReleaseHits
    <3> QED
      BY <2>1, <2>4, <3>1 DEF JobBegin, LeaseInv, Types, TypeDb, TypeTx
  <2> QED
    BY <2>2, <2>3, <2>4
<1>3. TypeDb' /\ TypeRow'
  BY <1>1, <1>2, Constants, Fields DEF LeaseInv, Types, TypeDb, TypeRow, TypeTx, JobBegin,
     dbVars, callerVars, heartVars
<1>4. TypeTx'
  BY <1>1, <1>2
<1>5. TypeCaller'
  BY <1>1, <1>2 DEF LeaseInv, Types, TypeCaller, JobBegin, dbVars, callerVars, heartVars
<1>6. TypeJob'
  BY <1>1, <1>2, Constants DEF LeaseInv, Types, TypeJob, JobBegin, dbVars, callerVars,
     heartVars
<1>7. TypeMem' /\ TypeBeat'
  BY <1>1, <1>2, BeatIs, Fields, JobFields DEF LeaseInv, Types, TypeMem, TypeBeat, TypeDb,
     TypeTx, JobBegin, dbVars, callerVars, heartVars
<1>8. Structure'
  BY <1>1, <1>2, Constants DEF LeaseInv, Types, TypeCaller, TypeBeat, Structure, JobBegin,
     dbVars, callerVars, heartVars
<1>9. TxInv'
  BY <1>1, <1>2, Constants DEF LeaseInv, Types, TypeBeat, TypeTx, Structure, TxInv,
     AcquireHits, ReleaseHits, JobBegin, dbVars, callerVars, heartVars
<1>10. TokenInv'
  BY <1>1, <1>2, Constants DEF LeaseInv, Types, TypeDb, TypeCaller, TypeMem, Structure,
     TokenInv, Entitled, Won, JobBegin, dbVars, callerVars, heartVars
<1>11. FenceInv'
  BY <1>1, <1>2, Constants DEF LeaseInv, Types, TypeCaller, TypeMem, Structure, FenceInv,
     Entitled, Won, JobBegin, dbVars, callerVars, heartVars
<1>12. TimeInv'
  BY <1>1, <1>2, Constants, Fields DEF LeaseInv, Types, TypeDb, TxInv, TimeInv, JobBegin,
     dbVars, callerVars, heartVars
<1>13. TermInv'
  BY <1>1, <1>2, Constants, Fields, JobFields DEF LeaseInv, Types, TypeDb, TypeCaller,
     TypeMem, TypeBeat, Structure, TxInv, FenceInv, TimeInv, TermInv, Lease, Won, Entitled,
     JobBegin, dbVars, callerVars, heartVars
<1>14. OwnInv'
  BY <1>1, <1>2, Constants, Fields DEF LeaseInv, Types, TypeDb, TypeCaller, TypeMem,
     Structure, TxInv, FenceInv, TimeInv, OwnInv, Minding, Excused, Won, ReleaseHits,
     JobBegin, dbVars, callerVars, heartVars
<1> QED
  BY <1>3, <1>4, <1>5, <1>6, <1>7, <1>8, <1>9, <1>10, <1>11, <1>12, <1>13, <1>14 DEF
     LeaseInv, Types

\* LeaseInv survives its commit.
LEMMA JobCommitStep ==
    ASSUME LeaseInv, NEW s \in Sessions, JobCommit(s)
    PROVE  LeaseInv'
<1>1. /\ job' \in [Sessions -> JobRec] /\ \A t \in Sessions \ {s} : job'[t] = job[t]
      /\ job'[s].op = job[s].op /\ job'[s].tries = job[s].tries
      /\ job'[s].hit = tx.hit /\ job'[s].exp = tx.at + TTL /\ job'[s].st = "back"
  <2> DEFINE k == [job[s] EXCEPT !.st = "back", !.hit = tx.hit, !.exp = tx.at + TTL]
  <2>1. job' = [job EXCEPT ![s] = k]
    BY DEF JobCommit, SetJob
  <2>2. tx.hit \in BOOLEAN /\ tx.at + TTL \in Nat
    BY Fields DEF LeaseInv
  <2>3. k \in JobRec /\ k.op = job[s].op /\ k.tries = job[s].tries /\ k.hit = tx.hit
        /\ k.exp = tx.at + TTL /\ k.st = "back"
    BY <2>2, CommittedJob, JobFields DEF LeaseInv
  <2> HIDE DEF k
  <2> QED
    BY <2>1, <2>3 DEF LeaseInv, Types, TypeJob
<1>2. tx # NoTx /\ Apply(tx) /\ tx.s = s
  BY Constants DEF LeaseInv, TxInv, JobCommit
<1>3. TypeDb' /\ TypeRow'
  BY <1>1, <1>2, Constants, Fields, Applied, CommitOwn, CommitOthers DEF LeaseInv, Types,
     TypeDb, TypeRow, TypeTx, JobCommit, dbVars, callerVars, heartVars
<1>4. TypeTx'
  BY <1>1, <1>2, Constants, Fields, Applied, CommitOwn, CommitOthers DEF LeaseInv, Types,
     TypeTx, TypeDb, JobCommit, dbVars, callerVars, heartVars
<1>5. TypeCaller'
  BY <1>1, <1>2, Applied, CommitOwn, CommitOthers DEF LeaseInv, Types, TypeCaller,
     JobCommit, dbVars, callerVars, heartVars
<1>6. TypeJob'
  BY <1>1, <1>2, Constants, Applied, CommitOwn, CommitOthers DEF LeaseInv, Types, TypeJob,
     JobCommit, dbVars, callerVars, heartVars
<1>7. TypeMem' /\ TypeBeat'
  BY <1>1, <1>2, BeatIs, Fields, JobFields, Applied, CommitOwn, CommitOthers DEF LeaseInv,
     Types, TypeMem, TypeBeat, TypeDb, TypeTx, JobCommit, dbVars, callerVars, heartVars
<1>8. Structure'
  BY <1>1, <1>2, Constants, Applied, CommitOwn, CommitOthers DEF LeaseInv, Types,
     TypeCaller, TypeBeat, Structure, JobCommit, dbVars, callerVars, heartVars
<1>9. TxInv'
  BY <1>1, <1>2, Constants, Applied, CommitOwn, CommitOthers DEF LeaseInv, Types, TypeBeat,
     TypeTx, Structure, TxInv, AcquireHits, ReleaseHits, JobCommit, dbVars, callerVars,
     heartVars
<1>10. TokenInv'
  BY <1>1, <1>2, Constants, Applied, CommitOwn, CommitOthers DEF LeaseInv, Types, TypeDb,
     TypeCaller, TypeMem, Structure, TokenInv, Entitled, Won, JobCommit, dbVars, callerVars,
     heartVars
<1>11. FenceInv'
  BY <1>1, <1>2, Constants, Applied, CommitOwn, CommitOthers DEF LeaseInv, Types,
     TypeCaller, TypeMem, Structure, FenceInv, Entitled, Won, JobCommit, dbVars, callerVars,
     heartVars
<1>12. TimeInv'
  BY <1>1, <1>2, Constants, Fields, Applied, CommitOwn, CommitOthers DEF LeaseInv, Types,
     TypeDb, TxInv, TimeInv, JobCommit, dbVars, callerVars, heartVars
<1>13. TermInv'
  BY <1>1, <1>2, Constants, Fields, JobFields, Applied, CommitOwn, CommitOthers, SMTT(40) DEF
     LeaseInv, Types, TypeDb, TypeCaller, TypeMem, TypeBeat, Structure, TxInv, FenceInv,
     TimeInv, TermInv, Lease, Won, Entitled, JobCommit, dbVars, callerVars, heartVars
<1>14. OwnInv'
  BY <1>1, <1>2, Constants, Fields, Applied, CommitOwn, CommitOthers DEF LeaseInv, Types,
     TypeDb, TypeCaller, TypeMem, Structure, TxInv, FenceInv, TimeInv, OwnInv, Minding,
     Excused, Won, ReleaseHits, JobCommit, dbVars, callerVars, heartVars
<1> QED
  BY <1>3, <1>4, <1>5, <1>6, <1>7, <1>8, <1>9, <1>10, <1>11, <1>12, <1>13, <1>14 DEF
     LeaseInv, Types

\* LeaseInv survives the return of its task.
LEMMA JobReturnStep ==
    ASSUME LeaseInv, NEW s \in Sessions, JobReturn(s)
    PROVE  LeaseInv'
<1>1. /\ job' \in [Sessions -> JobRec] /\ \A t \in Sessions \ {s} : job'[t] = job[t]
      /\ job'[s].op = job[s].op /\ job'[s].exp = job[s].exp
      /\ job'[s].st = "ready" => job'[s].tries < MaxRetries
      /\ job[s].op = "release" => job'[s].hit = job[s].hit /\ job'[s].st \in {"got", "gone"}
      /\ job[s].op = "release" /\ job'[s].st = "gone" => ~job[s].hit
      /\ job[s].op # "release" /\ job[s].hit /\ now < job[s].exp => job'[s].hit /\ job'[s].st = "got"
      /\ job[s].op # "release" /\ ~(job[s].hit /\ now < job[s].exp) => ~job'[s].hit /\ job'[s].st \in {"stop", "ready", "fail"}
  <2> DEFINE y == IF job[s].op = "release" /\ ~job[s].hit THEN "gone" ELSE "got"
  <2> DEFINE again == job[s].op # "release" /\ ~(job[s].hit /\ now < job[s].exp)
  <2> DEFINE k == [job[s] EXCEPT !.st = y]
  <2>1. job' = [job EXCEPT ![s] = IF again THEN NextAttempt(s) ELSE k]
    BY DEF JobReturn, SetJob
  <2>2. y \in JobStates
    BY DEF JobStates, Finished
  <2> HIDE DEF y
  <2>3. k \in JobRec /\ k.op = job[s].op /\ k.tries = job[s].tries /\ k.hit = job[s].hit
        /\ k.exp = job[s].exp /\ k.st = y
    BY <2>2, MovedJob, JobFields DEF LeaseInv
  <2> HIDE DEF k
  <2>4. job[s].tries < MaxRetries /\ job[s] \in JobRec
    BY DEF LeaseInv, Types, TypeJob, JobReturn
  <2>5. CASE again
    BY <2>1, <2>4, <2>5, AttemptedJob DEF LeaseInv, Types, TypeJob
  <2>6. CASE ~again
    BY <2>1, <2>3, <2>6 DEF LeaseInv, Types, TypeJob, y
  <2> QED
    BY <2>5, <2>6
<1>2. TypeDb' /\ TypeRow'
  BY <1>1, Constants, Fields DEF LeaseInv, Types, TypeDb, TypeRow, TypeTx, JobReturn,
     dbVars, callerVars, heartVars
<1>3. TypeTx'
  BY <1>1, Constants, Fields DEF LeaseInv, Types, TypeTx, TypeDb, JobReturn, dbVars,
     callerVars, heartVars
<1>4. TypeCaller'
  BY <1>1 DEF LeaseInv, Types, TypeCaller, JobReturn, dbVars, callerVars, heartVars
<1>5. TypeJob'
  BY <1>1, Constants DEF LeaseInv, Types, TypeJob, JobReturn, dbVars, callerVars, heartVars
<1>6. TypeMem' /\ TypeBeat'
  BY <1>1, BeatIs, Fields, JobFields DEF LeaseInv, Types, TypeMem, TypeBeat, TypeDb, TypeTx,
     JobReturn, dbVars, callerVars, heartVars
<1>7. Structure'
  BY <1>1, Constants DEF LeaseInv, Types, TypeCaller, TypeBeat, Structure, JobReturn,
     dbVars, callerVars, heartVars
<1>8. TxInv'
  BY <1>1, Constants DEF LeaseInv, Types, TypeBeat, TypeTx, Structure, TxInv, AcquireHits,
     ReleaseHits, JobReturn, dbVars, callerVars, heartVars
<1>9. TokenInv'
  BY <1>1, Constants DEF LeaseInv, Types, TypeDb, TypeCaller, TypeMem, Structure, TokenInv,
     Entitled, Won, JobReturn, dbVars, callerVars, heartVars
<1>10. FenceInv'
  BY <1>1, Constants DEF LeaseInv, Types, TypeCaller, TypeMem, Structure, FenceInv,
     Entitled, Won, JobReturn, dbVars, callerVars, heartVars
<1>11. TimeInv'
  BY <1>1, Constants, Fields DEF LeaseInv, Types, TypeDb, TxInv, TimeInv, JobReturn, dbVars,
     callerVars, heartVars
<1>12. TermInv'
  BY <1>1, Constants, Fields, JobFields DEF LeaseInv, Types, TypeDb, TypeCaller, TypeMem,
     TypeBeat, Structure, TxInv, FenceInv, TimeInv, TermInv, Lease, Won, Entitled,
     JobReturn, dbVars, callerVars, heartVars
<1>13. OwnInv'
  BY <1>1, Constants, Fields DEF LeaseInv, Types, TypeDb, TypeCaller, TypeMem, Structure,
     TxInv, FenceInv, TimeInv, OwnInv, Minding, Excused, Won, ReleaseHits, JobReturn,
     dbVars, callerVars, heartVars
<1> QED
  BY <1>2, <1>3, <1>4, <1>5, <1>6, <1>7, <1>8, <1>9, <1>10, <1>11, <1>12, <1>13 DEF
     LeaseInv, Types

\* LeaseInv survives an error of the database in it.
LEMMA JobFailsStep ==
    ASSUME LeaseInv, NEW s \in Sessions, JobFails(s)
    PROVE  LeaseInv'
<1>1. /\ job' \in [Sessions -> JobRec] /\ \A t \in Sessions \ {s} : job'[t] = job[t]
      /\ job'[s].op = job[s].op
      /\ job'[s].st = "ready" => job'[s].tries < MaxRetries
      /\ job'[s].st \in {"stop", "ready", "fail"} /\ (job[s].op # "acquire" => job'[s].st = "fail")
  <2> DEFINE again == job[s].st = "tx" /\ job[s].op = "acquire"
  <2> DEFINE k == [job[s] EXCEPT !.st = "fail"]
  <2>1. job' = [job EXCEPT ![s] = IF again THEN NextAttempt(s) ELSE k]
    BY DEF JobFails, SetJob
  <2>2. k \in JobRec /\ k.op = job[s].op /\ k.st = "fail"
    <3>1. "fail" \in JobStates
      BY DEF JobStates, Finished
    <3> QED
      BY <3>1, MovedJob, JobFields DEF LeaseInv
  <2> HIDE DEF k
  <2>3. job[s].tries < MaxRetries /\ job[s] \in JobRec
    BY DEF LeaseInv, Types, TypeJob, JobFails
  <2>4. CASE again
    BY <2>1, <2>3, <2>4, AttemptedJob DEF LeaseInv, Types, TypeJob
  <2>5. CASE ~again
    BY <2>1, <2>2, <2>5 DEF LeaseInv, Types, TypeJob
  <2> QED
    BY <2>4, <2>5
<1>2. TypeDb' /\ TypeRow'
  BY <1>1, Constants, Fields DEF LeaseInv, Types, TypeDb, TypeRow, TypeTx, JobFails, dbVars,
     callerVars, heartVars
<1>3. TypeTx'
  BY <1>1, Constants, Fields DEF LeaseInv, Types, TypeTx, TypeDb, JobFails, dbVars,
     callerVars, heartVars
<1>4. TypeCaller'
  BY <1>1 DEF LeaseInv, Types, TypeCaller, JobFails, dbVars, callerVars, heartVars
<1>5. TypeJob'
  BY <1>1, Constants DEF LeaseInv, Types, TypeJob, JobFails, dbVars, callerVars, heartVars
<1>6. TypeMem' /\ TypeBeat'
  BY <1>1, BeatIs, Fields, JobFields DEF LeaseInv, Types, TypeMem, TypeBeat, TypeDb, TypeTx,
     JobFails, dbVars, callerVars, heartVars
<1>7. Structure'
  BY <1>1, Constants DEF LeaseInv, Types, TypeCaller, TypeBeat, Structure, JobFails, dbVars,
     callerVars, heartVars
<1>8. TxInv'
  BY <1>1, Constants DEF LeaseInv, Types, TypeBeat, TypeTx, Structure, TxInv, AcquireHits,
     ReleaseHits, JobFails, dbVars, callerVars, heartVars
<1>9. TokenInv'
  BY <1>1, Constants DEF LeaseInv, Types, TypeDb, TypeCaller, TypeMem, Structure, TokenInv,
     Entitled, Won, JobFails, dbVars, callerVars, heartVars
<1>10. FenceInv'
  BY <1>1, Constants DEF LeaseInv, Types, TypeCaller, TypeMem, Structure, FenceInv,
     Entitled, Won, JobFails, dbVars, callerVars, heartVars
<1>11. TimeInv'
  BY <1>1, Constants, Fields DEF LeaseInv, Types, TypeDb, TxInv, TimeInv, JobFails, dbVars,
     callerVars, heartVars
<1>12. TermInv'
  BY <1>1, Constants, Fields, JobFields DEF LeaseInv, Types, TypeDb, TypeCaller, TypeMem,
     TypeBeat, Structure, TxInv, FenceInv, TimeInv, TermInv, Lease, Won, Entitled, JobFails,
     dbVars, callerVars, heartVars
<1>13. OwnInv'
  BY <1>1, Constants, Fields DEF LeaseInv, Types, TypeDb, TypeCaller, TypeMem, Structure,
     TxInv, FenceInv, TimeInv, OwnInv, Minding, Excused, Won, ReleaseHits, JobFails, dbVars,
     callerVars, heartVars
<1> QED
  BY <1>2, <1>3, <1>4, <1>5, <1>6, <1>7, <1>8, <1>9, <1>10, <1>11, <1>12, <1>13 DEF
     LeaseInv, Types

\* LeaseInv survives the call of adquirir_lease_definitiva.
LEMMA EnterStep ==
    ASSUME LeaseInv, NEW s \in Sessions, Enter(s)
    PROVE  LeaseInv'
<1>1. /\ job' \in [Sessions -> JobRec] /\ \A t \in Sessions \ {s} : job'[t] = job[t]
      /\ job'[s].op = "acquire" /\ job'[s].st = "ready" /\ job'[s].tries < MaxRetries
  BY NewJob, JobFields DEF LeaseInv, Types, TypeJob, SetJob, Enter
<1>2. TypeDb' /\ TypeRow'
  BY <1>1, Constants, Fields DEF LeaseInv, Types, TypeDb, TypeRow, TypeTx, Enter, dbVars,
     callerVars, heartVars
<1>3. TypeTx'
  BY <1>1, Constants, Fields DEF LeaseInv, Types, TypeTx, TypeDb, Enter, dbVars, callerVars,
     heartVars
<1>4. TypeCaller'
  BY <1>1 DEF LeaseInv, Types, TypeCaller, Enter, dbVars, callerVars, heartVars
<1>5. TypeJob'
  BY <1>1, Constants DEF LeaseInv, Types, TypeJob, Enter, dbVars, callerVars, heartVars
<1>6. TypeMem' /\ TypeBeat'
  BY <1>1, BeatIs, Fields, JobFields DEF LeaseInv, Types, TypeMem, TypeBeat, TypeDb, TypeTx,
     Enter, dbVars, callerVars, heartVars
<1>7. Structure'
  BY <1>1, Constants DEF LeaseInv, Types, TypeCaller, TypeBeat, Structure, Enter, dbVars,
     callerVars, heartVars
<1>8. TxInv'
  BY <1>1, Constants DEF LeaseInv, Types, TypeBeat, TypeTx, Structure, TxInv, AcquireHits,
     ReleaseHits, Enter, dbVars, callerVars, heartVars
<1>9. TokenInv'
  BY <1>1, Constants DEF LeaseInv, Types, TypeDb, TypeCaller, TypeMem, Structure, TokenInv,
     Entitled, Won, Enter, dbVars, callerVars, heartVars
<1>10. FenceInv'
  BY <1>1, Constants DEF LeaseInv, Types, TypeCaller, TypeMem, Structure, FenceInv,
     Entitled, Won, Enter, dbVars, callerVars, heartVars
<1>11. TimeInv'
  BY <1>1, Constants, Fields DEF LeaseInv, Types, TypeDb, TxInv, TimeInv, Enter, dbVars,
     callerVars, heartVars
<1>12. TermInv'
  BY <1>1, Constants, Fields, JobFields DEF LeaseInv, Types, TypeDb, TypeCaller, TypeMem,
     TypeBeat, Structure, TxInv, FenceInv, TimeInv, TermInv, Lease, Won, Entitled, Enter,
     dbVars, callerVars, heartVars
<1>13. OwnInv'
  BY <1>1, Constants, Fields DEF LeaseInv, Types, TypeDb, TypeCaller, TypeMem, Structure,
     TxInv, FenceInv, TimeInv, OwnInv, Minding, Excused, Won, ReleaseHits, Enter, dbVars,
     callerVars, heartVars
<1> QED
  BY <1>2, <1>3, <1>4, <1>5, <1>6, <1>7, <1>8, <1>9, <1>10, <1>11, <1>12, <1>13 DEF
     LeaseInv, Types

\* LeaseInv survives the cancellation of a caller.
LEMMA CancelWaiterStep ==
    ASSUME LeaseInv, NEW s \in Sessions, CancelWaiter(s)
    PROVE  LeaseInv'
<1>1. TypeDb' /\ TypeRow'
  BY Constants, Fields DEF LeaseInv, Types, TypeDb, TypeRow, TypeTx, CancelWaiter, dbVars,
     callerVars, heartVars
<1>2. TypeTx'
  BY Constants, Fields DEF LeaseInv, Types, TypeTx, TypeDb, CancelWaiter, dbVars,
     callerVars, heartVars
<1>3. TypeCaller'
  BY DEF LeaseInv, Types, TypeCaller, CancelWaiter, dbVars, callerVars, heartVars
<1>4. TypeJob'
  BY Constants DEF LeaseInv, Types, TypeJob, CancelWaiter, dbVars, callerVars, heartVars
<1>5. TypeMem' /\ TypeBeat'
  BY BeatIs, Fields, JobFields DEF LeaseInv, Types, TypeMem, TypeBeat, TypeDb, TypeTx,
     CancelWaiter, dbVars, callerVars, heartVars
<1>6. Structure'
  BY Constants DEF LeaseInv, Types, TypeCaller, TypeBeat, Structure, CancelWaiter, dbVars,
     callerVars, heartVars
<1>7. TxInv'
  BY Constants DEF LeaseInv, Types, TypeBeat, TypeTx, Structure, TxInv, AcquireHits,
     ReleaseHits, CancelWaiter, dbVars, callerVars, heartVars
<1>8. TokenInv'
  BY Constants DEF LeaseInv, Types, TypeDb, TypeCaller, TypeMem, Structure, TokenInv,
     Entitled, Won, CancelWaiter, dbVars, callerVars, heartVars
<1>9. FenceInv'
  BY Constants DEF LeaseInv, Types, TypeCaller, TypeMem, Structure, FenceInv, Entitled, Won,
     CancelWaiter, dbVars, callerVars, heartVars
<1>10. TimeInv'
  BY Constants, Fields DEF LeaseInv, Types, TypeDb, TxInv, TimeInv, CancelWaiter, dbVars,
     callerVars, heartVars
<1>11. TermInv'
  BY Constants, Fields, JobFields DEF LeaseInv, Types, TypeDb, TypeCaller, TypeMem,
     TypeBeat, Structure, TxInv, FenceInv, TimeInv, TermInv, Lease, Won, Entitled,
     CancelWaiter, dbVars, callerVars, heartVars
<1>12. OwnInv'
  BY Constants, Fields DEF LeaseInv, Types, TypeDb, TypeCaller, TypeMem, Structure, TxInv,
     FenceInv, TimeInv, OwnInv, Minding, Excused, Won, ReleaseHits, CancelWaiter, dbVars,
     callerVars, heartVars
<1> QED
  BY <1>1, <1>2, <1>3, <1>4, <1>5, <1>6, <1>7, <1>8, <1>9, <1>10, <1>11, <1>12 DEF LeaseInv,
     Types

\* LeaseInv survives the end of an acquisition.
LEMMA AcquireEndsStep ==
    ASSUME LeaseInv, NEW s \in Sessions, AcquireEnds(s)
    PROVE  LeaseInv'
<1>1. /\ job' \in [Sessions -> JobRec] /\ \A t \in Sessions \ {s} : job'[t] = job[t]
      /\ job'[s] = NoJob
  BY Constants, JobFields DEF LeaseInv, Types, TypeJob, SetJob, AcquireEnds
<1>2. tx # NoTx => tx.s # s /\ token'[tx.s] = token[tx.s]
  BY Constants DEF LeaseInv, Types, TypeMem, Structure, TxInv, Finished, Forget, AcquireEnds
<1>3. TypeDb' /\ TypeRow'
  BY <1>1, <1>2, Constants, Fields DEF LeaseInv, Types, TypeDb, TypeRow, TypeTx,
     AcquireEnds, Forget, dbVars, callerVars, heartVars
<1>4. TypeTx'
  BY <1>1, <1>2, Constants, Fields DEF LeaseInv, Types, TypeTx, TypeDb, AcquireEnds, Forget,
     dbVars, callerVars, heartVars
<1>5. TypeCaller'
  BY <1>1, <1>2 DEF LeaseInv, Types, TypeCaller, AcquireEnds, Forget, dbVars, callerVars,
     heartVars
<1>6. TypeJob'
  BY <1>1, <1>2, Constants DEF LeaseInv, Types, TypeJob, AcquireEnds, Forget, dbVars,
     callerVars, heartVars
<1>7. TypeMem' /\ TypeBeat'
  <2>1. TypeMem'
    BY JobFields DEF LeaseInv, Types, TypeMem, AcquireEnds, Forget
  <2>2. TypeBeat'
    BY DEF LeaseInv, Types, TypeBeat, AcquireEnds, heartVars
  <2> QED
    BY <2>1, <2>2
<1>8. Structure'
  BY <1>1, <1>2, Constants DEF LeaseInv, Types, TypeCaller, TypeBeat, Structure,
     AcquireEnds, Forget, dbVars, callerVars, heartVars
<1>9. TxInv'
  BY <1>1, <1>2, Constants DEF LeaseInv, Types, TypeBeat, TypeTx, Structure, TxInv,
     AcquireHits, ReleaseHits, AcquireEnds, Forget, dbVars, callerVars, heartVars
<1>10. TokenInv'
  BY <1>1, <1>2, Constants, SMTT(40) DEF LeaseInv, Types, TypeDb, TypeCaller, TypeMem,
     Structure, TokenInv, Entitled, Won, AcquireEnds, Forget, dbVars, callerVars, heartVars
<1>11. FenceInv'
  BY <1>1, <1>2, Constants DEF LeaseInv, Types, TypeCaller, TypeMem, Structure, FenceInv,
     Entitled, Won, AcquireEnds, Forget, dbVars, callerVars, heartVars
<1>12. TimeInv'
  BY <1>1, <1>2, Constants, Fields DEF LeaseInv, Types, TypeDb, TxInv, TimeInv, AcquireEnds,
     Forget, dbVars, callerVars, heartVars
<1>13. TermInv'
  BY <1>1, <1>2, Constants, Fields, JobFields DEF LeaseInv, Types, TypeDb, TypeCaller,
     TypeMem, TypeBeat, Structure, TxInv, FenceInv, TimeInv, TermInv, Lease, Won, Entitled,
     AcquireEnds, Forget, dbVars, callerVars, heartVars
<1>14. OwnInv'
  BY <1>1, <1>2, Constants, Fields DEF LeaseInv, Types, TypeDb, TypeCaller, TypeMem,
     Structure, TxInv, FenceInv, TimeInv, OwnInv, Minding, Excused, Won, ReleaseHits,
     AcquireEnds, Forget, dbVars, callerVars, heartVars
<1> QED
  BY <1>3, <1>4, <1>5, <1>6, <1>7, <1>8, <1>9, <1>10, <1>11, <1>12, <1>13, <1>14 DEF
     LeaseInv, Types

\* LeaseInv survives the end of an acquisition whose caller was cancelled.
LEMMA AcquireCompensatesStep ==
    ASSUME LeaseInv, NEW s \in Sessions, AcquireCompensates(s)
    PROVE  LeaseInv'
<1>1. /\ job' \in [Sessions -> JobRec] /\ \A t \in Sessions \ {s} : job'[t] = job[t]
      /\ \/ job[s].st = "got" /\ job'[s].op = "release" /\ job'[s].st = "ready" /\ job'[s].tries < MaxRetries
         \/ job[s].st \in {"fail", "stop"} /\ job'[s] = NoJob
  BY Constants, NewJob, JobFields DEF LeaseInv, Types, TypeJob, SetJob, AcquireCompensates
<1>2. tx # NoTx => tx.s # s /\ token'[tx.s] = token[tx.s]
  BY Constants DEF LeaseInv, Types, TypeMem, Structure, TxInv, Finished, Forget,
     AcquireCompensates
<1>3. TypeDb' /\ TypeRow'
  BY <1>1, <1>2, Constants, Fields DEF LeaseInv, Types, TypeDb, TypeRow, TypeTx,
     AcquireCompensates, Forget, dbVars, callerVars, heartVars
<1>4. TypeTx'
  BY <1>1, <1>2, Constants, Fields DEF LeaseInv, Types, TypeTx, TypeDb, AcquireCompensates,
     Forget, dbVars, callerVars, heartVars
<1>5. TypeCaller'
  <2>1. CASE job[s].st = "got"
    BY <2>1, ZenonT(40) DEF LeaseInv, Types, TypeCaller, AcquireCompensates
  <2>2. CASE job[s].st # "got"
    <3>1. /\ pc' = [pc EXCEPT ![s] = "over"] /\ canc' = [canc EXCEPT ![s] = FALSE]
          /\ estado' = [estado EXCEPT ![s] = "SIN_LEASE"] /\ sup' = sup
      BY <2>2 DEF AcquireCompensates, Forget
    <3> QED
      BY <3>1 DEF LeaseInv, Types, TypeCaller
  <2> QED
    BY <2>1, <2>2
<1>6. TypeJob'
  BY <1>1, <1>2, Constants DEF LeaseInv, Types, TypeJob, AcquireCompensates, Forget, dbVars,
     callerVars, heartVars
<1>7. TypeMem' /\ TypeBeat'
  BY <1>1, <1>2, BeatIs, Fields, JobFields DEF LeaseInv, Types, TypeMem, TypeBeat, TypeDb,
     TypeTx, AcquireCompensates, Forget, dbVars, callerVars, heartVars
<1>8. Structure'
  BY <1>1, <1>2, Constants DEF LeaseInv, Types, TypeCaller, TypeBeat, Structure,
     AcquireCompensates, Forget, dbVars, callerVars, heartVars
<1>9. TxInv'
  BY <1>1, <1>2, Constants DEF LeaseInv, Types, TypeBeat, TypeTx, Structure, TxInv,
     AcquireHits, ReleaseHits, AcquireCompensates, Forget, dbVars, callerVars, heartVars
<1>10. TokenInv'
  <2>1. CASE job[s].st = "got"
    BY <1>1, <1>2, <2>1 DEF LeaseInv, Types, TypeCaller, Structure, TokenInv, Entitled, Won,
       AcquireCompensates, dbVars
  <2>2. CASE job[s].st # "got"
    <3>1. /\ job'[s] = NoJob /\ token' = [token EXCEPT ![s] = 0]
          /\ UNCHANGED <<row, lastToken, owner>>
      BY <1>1, <2>2 DEF AcquireCompensates, Forget, dbVars
    <3>2. /\ \A t \in Sessions : Entitled(t)' => t # s /\ Entitled(t)
          /\ job'[s].st # "tx" /\ now' = now
      BY <1>1, <2>2, <3>1 DEF LeaseInv, Types, TypeCaller, Structure, Entitled, Won,
         AcquireCompensates, NoJob, dbVars
    <3> QED
      BY <1>1, <3>1, <3>2 DEF LeaseInv, Types, TypeMem, TypeDb, TokenInv
  <2> QED
    BY <2>1, <2>2
<1>11. FenceInv'
  BY <1>1, <1>2, Constants DEF LeaseInv, Types, TypeCaller, TypeMem, Structure, FenceInv,
     Entitled, Won, AcquireCompensates, Forget, dbVars, callerVars, heartVars
<1>12. TimeInv'
  BY <1>1, <1>2, Constants, Fields DEF LeaseInv, Types, TypeDb, TxInv, TimeInv,
     AcquireCompensates, Forget, dbVars, callerVars, heartVars
<1>13. TermInv'
  BY <1>1, <1>2, Constants, Fields, JobFields DEF LeaseInv, Types, TypeDb, TypeCaller,
     TypeMem, TypeBeat, Structure, TxInv, FenceInv, TimeInv, TermInv, Lease, Won, Entitled,
     AcquireCompensates, Forget, dbVars, callerVars, heartVars
<1>14. OwnInv'
  BY <1>1, <1>2, Constants, Fields DEF LeaseInv, Types, TypeDb, TypeCaller, TypeMem,
     Structure, TxInv, FenceInv, TimeInv, OwnInv, Minding, Excused, Won, ReleaseHits,
     AcquireCompensates, Forget, dbVars, callerVars, heartVars
<1> QED
  BY <1>3, <1>4, <1>5, <1>6, <1>7, <1>8, <1>9, <1>10, <1>11, <1>12, <1>13, <1>14 DEF
     LeaseInv, Types

\* LeaseInv survives the end of the cleanup timeout.
LEMMA CleanupTimeoutStep ==
    ASSUME LeaseInv, NEW s \in Sessions, CleanupTimeout(s)
    PROVE  LeaseInv'
<1>1. TypeDb' /\ TypeRow'
  BY Constants, Fields DEF LeaseInv, Types, TypeDb, TypeRow, TypeTx, CleanupTimeout,
     Running, dbVars, callerVars, heartVars
<1>2. TypeTx'
  BY Constants, Fields DEF LeaseInv, Types, TypeTx, TypeDb, CleanupTimeout, Running, dbVars,
     callerVars, heartVars
<1>3. TypeCaller'
  BY DEF LeaseInv, Types, TypeCaller, CleanupTimeout, Running, dbVars, callerVars,
     heartVars
<1>4. TypeJob'
  BY Constants DEF LeaseInv, Types, TypeJob, CleanupTimeout, Running, dbVars, callerVars,
     heartVars
<1>5. TypeMem' /\ TypeBeat'
  BY BeatIs, Fields, JobFields DEF LeaseInv, Types, TypeMem, TypeBeat, TypeDb, TypeTx,
     CleanupTimeout, Running, dbVars, callerVars, heartVars
<1>6. Structure'
  BY Constants DEF LeaseInv, Types, TypeCaller, TypeBeat, Structure, CleanupTimeout,
     Running, dbVars, callerVars, heartVars
<1>7. TxInv'
  BY Constants DEF LeaseInv, Types, TypeBeat, TypeTx, Structure, TxInv, AcquireHits,
     ReleaseHits, CleanupTimeout, Running, dbVars, callerVars, heartVars
<1>8. TokenInv'
  BY Constants DEF LeaseInv, Types, TypeDb, TypeCaller, TypeMem, Structure, TokenInv,
     Entitled, Won, CleanupTimeout, Running, dbVars, callerVars, heartVars
<1>9. FenceInv'
  BY Constants DEF LeaseInv, Types, TypeCaller, TypeMem, Structure, FenceInv, Entitled, Won,
     CleanupTimeout, Running, dbVars, callerVars, heartVars
<1>10. TimeInv'
  BY Constants, Fields DEF LeaseInv, Types, TypeDb, TxInv, TimeInv, CleanupTimeout, Running,
     dbVars, callerVars, heartVars
<1>11. TermInv'
  BY Constants, Fields, JobFields DEF LeaseInv, Types, TypeDb, TypeCaller, TypeMem,
     TypeBeat, Structure, TxInv, FenceInv, TimeInv, TermInv, Lease, Won, Entitled,
     CleanupTimeout, Running, dbVars, callerVars, heartVars
<1>12. OwnInv'
  BY Constants, Fields DEF LeaseInv, Types, TypeDb, TypeCaller, TypeMem, Structure, TxInv,
     FenceInv, TimeInv, OwnInv, Minding, Excused, Won, ReleaseHits, CleanupTimeout, Running,
     dbVars, callerVars, heartVars
<1> QED
  BY <1>1, <1>2, <1>3, <1>4, <1>5, <1>6, <1>7, <1>8, <1>9, <1>10, <1>11, <1>12 DEF LeaseInv,
     Types

\* LeaseInv survives the call of liberar_lease_definitiva.
LEMMA StartReleaseStep ==
    ASSUME LeaseInv, NEW s \in Sessions, StartRelease(s)
    PROVE  LeaseInv'
<1>1. /\ job' \in [Sessions -> JobRec] /\ \A t \in Sessions \ {s} : job'[t] = job[t]
      /\ job'[s].op = "release" /\ job'[s].st = "ready" /\ job'[s].tries < MaxRetries
  BY NewJob, JobFields DEF LeaseInv, Types, TypeJob, SetJob, StartRelease
<1>2. TypeDb' /\ TypeRow'
  BY <1>1, Constants, Fields DEF LeaseInv, Types, TypeDb, TypeRow, TypeTx, StartRelease,
     dbVars, callerVars, heartVars
<1>3. TypeTx'
  BY <1>1, Constants, Fields DEF LeaseInv, Types, TypeTx, TypeDb, StartRelease, dbVars,
     callerVars, heartVars
<1>4. TypeCaller'
  BY <1>1 DEF LeaseInv, Types, TypeCaller, StartRelease, dbVars, callerVars, heartVars
<1>5. TypeJob'
  BY <1>1, Constants DEF LeaseInv, Types, TypeJob, StartRelease, dbVars, callerVars,
     heartVars
<1>6. TypeMem' /\ TypeBeat'
  BY <1>1, BeatIs, Fields, JobFields DEF LeaseInv, Types, TypeMem, TypeBeat, TypeDb, TypeTx,
     StartRelease, dbVars, callerVars, heartVars
<1>7. Structure'
  BY <1>1, Constants DEF LeaseInv, Types, TypeCaller, TypeBeat, Structure, StartRelease,
     dbVars, callerVars, heartVars
<1>8. TxInv'
  BY <1>1, Constants DEF LeaseInv, Types, TypeBeat, TypeTx, Structure, TxInv, AcquireHits,
     ReleaseHits, StartRelease, dbVars, callerVars, heartVars
<1>9. TokenInv'
  BY <1>1, Constants DEF LeaseInv, Types, TypeDb, TypeCaller, TypeMem, Structure, TokenInv,
     Entitled, Won, StartRelease, dbVars, callerVars, heartVars
<1>10. FenceInv'
  BY <1>1, Constants DEF LeaseInv, Types, TypeCaller, TypeMem, Structure, FenceInv,
     Entitled, Won, StartRelease, dbVars, callerVars, heartVars
<1>11. TimeInv'
  BY <1>1, Constants, Fields DEF LeaseInv, Types, TypeDb, TxInv, TimeInv, StartRelease,
     dbVars, callerVars, heartVars
<1>12. TermInv'
  BY <1>1, Constants, Fields, JobFields DEF LeaseInv, Types, TypeDb, TypeCaller, TypeMem,
     TypeBeat, Structure, TxInv, FenceInv, TimeInv, TermInv, Lease, Won, Entitled,
     StartRelease, dbVars, callerVars, heartVars
<1>13. OwnInv'
  BY <1>1, Constants, Fields DEF LeaseInv, Types, TypeDb, TypeCaller, TypeMem, Structure,
     TxInv, FenceInv, TimeInv, OwnInv, Minding, Excused, Won, ReleaseHits, StartRelease,
     dbVars, callerVars, heartVars
<1> QED
  BY <1>2, <1>3, <1>4, <1>5, <1>6, <1>7, <1>8, <1>9, <1>10, <1>11, <1>12, <1>13 DEF
     LeaseInv, Types

\* LeaseInv survives its end.
LEMMA ReleaseEndsStep ==
    ASSUME LeaseInv, NEW s \in Sessions, ReleaseEnds(s)
    PROVE  LeaseInv'
<1>1. /\ job' \in [Sessions -> JobRec] /\ \A t \in Sessions \ {s} : job'[t] = job[t]
      /\ job'[s] = NoJob
  BY Constants, JobFields DEF LeaseInv, Types, TypeJob, SetJob, ReleaseEnds
<1>2. tx # NoTx => tx.s # s /\ token'[tx.s] = token[tx.s]
  BY Constants DEF LeaseInv, Types, TypeMem, Structure, TxInv, Finished, Forget, ReleaseEnds
<1>3. TypeDb' /\ TypeRow'
  BY <1>1, <1>2, Constants, Fields DEF LeaseInv, Types, TypeDb, TypeRow, TypeTx,
     ReleaseEnds, Forget, ReleaseState, dbVars, callerVars, heartVars
<1>4. TypeTx'
  BY <1>1, <1>2, Constants, Fields DEF LeaseInv, Types, TypeTx, TypeDb, ReleaseEnds, Forget,
     ReleaseState, dbVars, callerVars, heartVars
<1>5. TypeCaller'
  BY <1>1, <1>2 DEF LeaseInv, Types, TypeCaller, ReleaseEnds, Forget, ReleaseState, dbVars,
     callerVars, heartVars
<1>6. TypeJob'
  BY <1>1, <1>2, Constants DEF LeaseInv, Types, TypeJob, ReleaseEnds, Forget, ReleaseState,
     dbVars, callerVars, heartVars
<1>7. TypeMem' /\ TypeBeat'
  BY <1>1, <1>2, BeatIs, Fields, JobFields DEF LeaseInv, Types, TypeMem, TypeBeat, TypeDb,
     TypeTx, ReleaseEnds, Forget, ReleaseState, dbVars, callerVars, heartVars
<1>8. Structure'
  BY <1>1, <1>2, Constants DEF LeaseInv, Types, TypeCaller, TypeBeat, Structure,
     ReleaseEnds, Forget, ReleaseState, dbVars, callerVars, heartVars
<1>9. TxInv'
  BY <1>1, <1>2, Constants DEF LeaseInv, Types, TypeBeat, TypeTx, Structure, TxInv,
     AcquireHits, ReleaseHits, ReleaseEnds, Forget, ReleaseState, dbVars, callerVars,
     heartVars
<1>10. TokenInv'
  BY <1>1, <1>2, Constants DEF LeaseInv, Types, TypeDb, TypeCaller, TypeMem, Structure,
     TokenInv, Entitled, Won, ReleaseEnds, Forget, ReleaseState, dbVars, callerVars,
     heartVars
<1>11. FenceInv'
  BY <1>1, <1>2, Constants DEF LeaseInv, Types, TypeCaller, TypeMem, Structure, FenceInv,
     Entitled, Won, ReleaseEnds, Forget, ReleaseState, dbVars, callerVars, heartVars
<1>12. TimeInv'
  BY <1>1, <1>2, Constants, Fields DEF LeaseInv, Types, TypeDb, TxInv, TimeInv, ReleaseEnds,
     Forget, ReleaseState, dbVars, callerVars, heartVars
<1>13. TermInv'
  BY <1>1, <1>2, Constants, Fields, JobFields DEF LeaseInv, Types, TypeDb, TypeCaller,
     TypeMem, TypeBeat, Structure, TxInv, FenceInv, TimeInv, TermInv, Lease, Won, Entitled,
     ReleaseEnds, Forget, ReleaseState, dbVars, callerVars, heartVars
<1>14. OwnInv'
  BY <1>1, <1>2, Constants, Fields DEF LeaseInv, Types, TypeDb, TypeCaller, TypeMem,
     Structure, TxInv, FenceInv, TimeInv, OwnInv, Minding, Excused, Won, ReleaseHits,
     ReleaseEnds, Forget, ReleaseState, dbVars, callerVars, heartVars
<1> QED
  BY <1>3, <1>4, <1>5, <1>6, <1>7, <1>8, <1>9, <1>10, <1>11, <1>12, <1>13, <1>14 DEF
     LeaseInv, Types

\* LeaseInv survives the late end of an acquisition.
LEMMA SuperviseAcquireStep ==
    ASSUME LeaseInv, NEW s \in Sessions, SuperviseAcquire(s)
    PROVE  LeaseInv'
<1>1. /\ job' \in [Sessions -> JobRec] /\ \A t \in Sessions \ {s} : job'[t] = job[t]
      /\ \/ job[s].st = "got" /\ job'[s].op = "release" /\ job'[s].st = "ready" /\ job'[s].tries < MaxRetries
         \/ job[s].st \in {"fail", "stop"} /\ job'[s] = NoJob
  BY Constants, NewJob, JobFields DEF LeaseInv, Types, TypeJob, SetJob, SuperviseAcquire
<1>2. tx # NoTx => tx.s # s /\ token'[tx.s] = token[tx.s]
  BY Constants DEF LeaseInv, Types, TypeMem, Structure, TxInv, Finished, Forget,
     SuperviseAcquire
<1>3. TypeDb' /\ TypeRow'
  BY <1>1, <1>2, Constants, Fields DEF LeaseInv, Types, TypeDb, TypeRow, TypeTx,
     SuperviseAcquire, Forget, dbVars, callerVars, heartVars
<1>4. TypeTx'
  BY <1>1, <1>2, Constants, Fields DEF LeaseInv, Types, TypeTx, TypeDb, SuperviseAcquire,
     Forget, dbVars, callerVars, heartVars
<1>5. TypeCaller'
  <2>1. CASE job[s].st = "got"
    BY <2>1 DEF LeaseInv, Types, TypeCaller, SuperviseAcquire
  <2>2. CASE job[s].st # "got"
    BY <2>2, ZenonT(40) DEF LeaseInv, Types, TypeCaller, SuperviseAcquire, Forget
  <2> QED
    BY <2>1, <2>2
<1>6. TypeJob'
  BY <1>1, <1>2, Constants DEF LeaseInv, Types, TypeJob, SuperviseAcquire, Forget, dbVars,
     callerVars, heartVars
<1>7. TypeMem' /\ TypeBeat'
  BY <1>1, <1>2, BeatIs, Fields, JobFields DEF LeaseInv, Types, TypeMem, TypeBeat, TypeDb,
     TypeTx, SuperviseAcquire, Forget, dbVars, callerVars, heartVars
<1>8. Structure'
  BY <1>1, <1>2, Constants DEF LeaseInv, Types, TypeCaller, TypeBeat, Structure,
     SuperviseAcquire, Forget, dbVars, callerVars, heartVars
<1>9. TxInv'
  BY <1>1, <1>2, Constants DEF LeaseInv, Types, TypeBeat, TypeTx, Structure, TxInv,
     AcquireHits, ReleaseHits, SuperviseAcquire, Forget, dbVars, callerVars, heartVars
<1>10. TokenInv'
  <2>1. CASE job[s].st = "got"
    BY <1>1, <1>2, <2>1 DEF LeaseInv, Types, TypeCaller, Structure, TokenInv, Entitled, Won,
       SuperviseAcquire, dbVars
  <2>2. CASE job[s].st # "got"
    <3>1. /\ job'[s] = NoJob /\ token' = [token EXCEPT ![s] = 0]
          /\ UNCHANGED <<row, lastToken, owner>>
      BY <1>1, <2>2 DEF SuperviseAcquire, Forget, dbVars
    <3>2. /\ \A t \in Sessions : Entitled(t)' => t # s /\ Entitled(t)
          /\ job'[s].st # "tx" /\ now' = now
      BY <1>1, <2>2, <3>1 DEF LeaseInv, Types, TypeCaller, Structure, Entitled, Won,
         SuperviseAcquire, NoJob, dbVars
    <3> QED
      BY <1>1, <3>1, <3>2 DEF LeaseInv, Types, TypeMem, TypeDb, TokenInv
  <2> QED
    BY <2>1, <2>2
<1>11. FenceInv'
  BY <1>1, <1>2, Constants DEF LeaseInv, Types, TypeCaller, TypeMem, Structure, FenceInv,
     Entitled, Won, SuperviseAcquire, Forget, dbVars, callerVars, heartVars
<1>12. TimeInv'
  BY <1>1, <1>2, Constants, Fields DEF LeaseInv, Types, TypeDb, TxInv, TimeInv,
     SuperviseAcquire, Forget, dbVars, callerVars, heartVars
<1>13. TermInv'
  BY <1>1, <1>2, Constants, Fields, JobFields DEF LeaseInv, Types, TypeDb, TypeCaller,
     TypeMem, TypeBeat, Structure, TxInv, FenceInv, TimeInv, TermInv, Lease, Won, Entitled,
     SuperviseAcquire, Forget, dbVars, callerVars, heartVars
<1>14. OwnInv'
  BY <1>1, <1>2, Constants, Fields DEF LeaseInv, Types, TypeDb, TypeCaller, TypeMem,
     Structure, TxInv, FenceInv, TimeInv, OwnInv, Minding, Excused, Won, ReleaseHits,
     SuperviseAcquire, Forget, dbVars, callerVars, heartVars
<1> QED
  BY <1>3, <1>4, <1>5, <1>6, <1>7, <1>8, <1>9, <1>10, <1>11, <1>12, <1>13, <1>14 DEF
     LeaseInv, Types

\* LeaseInv survives the late end of a release.
LEMMA SuperviseReleaseStep ==
    ASSUME LeaseInv, NEW s \in Sessions, SuperviseRelease(s)
    PROVE  LeaseInv'
<1>1. /\ job' \in [Sessions -> JobRec] /\ \A t \in Sessions \ {s} : job'[t] = job[t]
      /\ job'[s] = NoJob
  BY Constants, JobFields DEF LeaseInv, Types, TypeJob, SetJob, SuperviseRelease
<1>2. tx # NoTx => tx.s # s /\ token'[tx.s] = token[tx.s]
  BY Constants DEF LeaseInv, Types, TypeMem, Structure, TxInv, Finished, Forget,
     SuperviseRelease
<1>3. TypeDb' /\ TypeRow'
  BY <1>1, <1>2, Constants, Fields DEF LeaseInv, Types, TypeDb, TypeRow, TypeTx,
     SuperviseRelease, Forget, ReleaseState, dbVars, callerVars, heartVars
<1>4. TypeTx'
  BY <1>1, <1>2, Constants, Fields DEF LeaseInv, Types, TypeTx, TypeDb, SuperviseRelease,
     Forget, ReleaseState, dbVars, callerVars, heartVars
<1>5. TypeCaller'
  BY <1>1, <1>2 DEF LeaseInv, Types, TypeCaller, SuperviseRelease, Forget, ReleaseState,
     dbVars, callerVars, heartVars
<1>6. TypeJob'
  BY <1>1, <1>2, Constants DEF LeaseInv, Types, TypeJob, SuperviseRelease, Forget,
     ReleaseState, dbVars, callerVars, heartVars
<1>7. TypeMem' /\ TypeBeat'
  BY <1>1, <1>2, BeatIs, Fields, JobFields DEF LeaseInv, Types, TypeMem, TypeBeat, TypeDb,
     TypeTx, SuperviseRelease, Forget, ReleaseState, dbVars, callerVars, heartVars
<1>8. Structure'
  BY <1>1, <1>2, Constants DEF LeaseInv, Types, TypeCaller, TypeBeat, Structure,
     SuperviseRelease, Forget, ReleaseState, dbVars, callerVars, heartVars
<1>9. TxInv'
  BY <1>1, <1>2, Constants DEF LeaseInv, Types, TypeBeat, TypeTx, Structure, TxInv,
     AcquireHits, ReleaseHits, SuperviseRelease, Forget, ReleaseState, dbVars, callerVars,
     heartVars
<1>10. TokenInv'
  BY <1>1, <1>2, Constants DEF LeaseInv, Types, TypeDb, TypeCaller, TypeMem, Structure,
     TokenInv, Entitled, Won, SuperviseRelease, Forget, ReleaseState, dbVars, callerVars,
     heartVars
<1>11. FenceInv'
  BY <1>1, <1>2, Constants DEF LeaseInv, Types, TypeCaller, TypeMem, Structure, FenceInv,
     Entitled, Won, SuperviseRelease, Forget, ReleaseState, dbVars, callerVars, heartVars
<1>12. TimeInv'
  BY <1>1, <1>2, Constants, Fields DEF LeaseInv, Types, TypeDb, TxInv, TimeInv,
     SuperviseRelease, Forget, ReleaseState, dbVars, callerVars, heartVars
<1>13. TermInv'
  BY <1>1, <1>2, Constants, Fields, JobFields DEF LeaseInv, Types, TypeDb, TypeCaller,
     TypeMem, TypeBeat, Structure, TxInv, FenceInv, TimeInv, TermInv, Lease, Won, Entitled,
     SuperviseRelease, Forget, ReleaseState, dbVars, callerVars, heartVars
<1>14. OwnInv'
  BY <1>1, <1>2, Constants, Fields DEF LeaseInv, Types, TypeDb, TypeCaller, TypeMem,
     Structure, TxInv, FenceInv, TimeInv, OwnInv, Minding, Excused, Won, ReleaseHits,
     SuperviseRelease, Forget, ReleaseState, dbVars, callerVars, heartVars
<1> QED
  BY <1>3, <1>4, <1>5, <1>6, <1>7, <1>8, <1>9, <1>10, <1>11, <1>12, <1>13, <1>14 DEF
     LeaseInv, Types

\* LeaseInv survives the start of the heartbeat.
LEMMA StartHeartbeatStep ==
    ASSUME LeaseInv, NEW s \in Sessions, StartHeartbeat(s)
    PROVE  LeaseInv'
<1>1. TypeDb' /\ TypeRow'
  BY Constants, Fields DEF LeaseInv, Types, TypeDb, TypeRow, TypeTx, StartHeartbeat, Beat,
     dbVars, callerVars, heartVars
<1>2. TypeTx'
  BY Constants, Fields DEF LeaseInv, Types, TypeTx, TypeDb, StartHeartbeat, Beat, dbVars,
     callerVars, heartVars
<1>3. TypeCaller'
  BY DEF LeaseInv, Types, TypeCaller, StartHeartbeat, Beat, dbVars, callerVars, heartVars
<1>4. TypeJob'
  BY Constants DEF LeaseInv, Types, TypeJob, StartHeartbeat, Beat, dbVars, callerVars,
     heartVars
<1>5. TypeMem' /\ TypeBeat'
  BY BeatIs, Fields, JobFields DEF LeaseInv, Types, TypeMem, TypeBeat, TypeDb, TypeTx,
     StartHeartbeat, Beat, dbVars, callerVars, heartVars
<1>6. Structure'
  BY Constants DEF LeaseInv, Types, TypeCaller, TypeBeat, Structure, StartHeartbeat, Beat,
     dbVars, callerVars, heartVars
<1>7. TxInv'
  BY Constants DEF LeaseInv, Types, TypeBeat, TypeTx, Structure, TxInv, AcquireHits,
     ReleaseHits, StartHeartbeat, Beat, dbVars, callerVars, heartVars
<1>8. TokenInv'
  BY Constants DEF LeaseInv, Types, TypeDb, TypeCaller, TypeMem, Structure, TokenInv,
     Entitled, Won, StartHeartbeat, Beat, dbVars, callerVars, heartVars
<1>9. FenceInv'
  BY Constants DEF LeaseInv, Types, TypeCaller, TypeMem, Structure, FenceInv, Entitled, Won,
     StartHeartbeat, Beat, dbVars, callerVars, heartVars
<1>10. TimeInv'
  BY Constants, Fields DEF LeaseInv, Types, TypeDb, TxInv, TimeInv, StartHeartbeat, Beat,
     dbVars, callerVars, heartVars
<1>11. TermInv'
  BY Constants, Fields, JobFields DEF LeaseInv, Types, TypeDb, TypeCaller, TypeMem,
     TypeBeat, Structure, TxInv, FenceInv, TimeInv, TermInv, Lease, Won, Entitled,
     StartHeartbeat, Beat, dbVars, callerVars, heartVars
<1>12. OwnInv'
  BY Constants, Fields DEF LeaseInv, Types, TypeDb, TypeCaller, TypeMem, Structure, TxInv,
     FenceInv, TimeInv, OwnInv, Minding, Excused, Won, ReleaseHits, StartHeartbeat, Beat,
     dbVars, callerVars, heartVars
<1> QED
  BY <1>1, <1>2, <1>3, <1>4, <1>5, <1>6, <1>7, <1>8, <1>9, <1>10, <1>11, <1>12 DEF LeaseInv,
     Types

\* LeaseInv survives its waking.
LEMMA HeartbeatWakesStep ==
    ASSUME LeaseInv, NEW s \in Sessions, HeartbeatWakes(s)
    PROVE  LeaseInv'
<1>1. TypeDb' /\ TypeRow'
  BY Constants, Fields DEF LeaseInv, Types, TypeDb, TypeRow, TypeTx, HeartbeatWakes, Beat,
     dbVars, callerVars, heartVars
<1>2. TypeTx'
  BY Constants, Fields DEF LeaseInv, Types, TypeTx, TypeDb, HeartbeatWakes, Beat, dbVars,
     callerVars, heartVars
<1>3. TypeCaller'
  BY DEF LeaseInv, Types, TypeCaller, HeartbeatWakes, Beat, dbVars, callerVars, heartVars
<1>4. TypeJob'
  BY Constants DEF LeaseInv, Types, TypeJob, HeartbeatWakes, Beat, dbVars, callerVars,
     heartVars
<1>5. TypeMem' /\ TypeBeat'
  BY BeatIs, Fields DEF LeaseInv, Types, TypeMem, TypeBeat, HeartbeatWakes, dbVars,
     callerVars
<1>6. Structure'
  BY Constants DEF LeaseInv, Types, TypeCaller, TypeBeat, Structure, HeartbeatWakes, Beat,
     dbVars, callerVars, heartVars
<1>7. TxInv'
  BY Constants DEF LeaseInv, Types, TypeBeat, TypeTx, Structure, TxInv, AcquireHits,
     ReleaseHits, HeartbeatWakes, Beat, dbVars, callerVars, heartVars
<1>8. TokenInv'
  BY Constants DEF LeaseInv, Types, TypeDb, TypeCaller, TypeMem, Structure, TokenInv,
     Entitled, Won, HeartbeatWakes, Beat, dbVars, callerVars, heartVars
<1>9. FenceInv'
  BY Constants DEF LeaseInv, Types, TypeCaller, TypeMem, Structure, FenceInv, Entitled, Won,
     HeartbeatWakes, Beat, dbVars, callerVars, heartVars
<1>10. TimeInv'
  BY Constants, Fields DEF LeaseInv, Types, TypeDb, TxInv, TimeInv, HeartbeatWakes, Beat,
     dbVars, callerVars, heartVars
<1>11. TermInv'
  BY Constants, Fields, JobFields, SMTT(40) DEF LeaseInv, Types, TypeDb, TypeCaller, TypeMem,
     TypeBeat, Structure, TxInv, FenceInv, TimeInv, TermInv, Lease, Won, Entitled,
     HeartbeatWakes, Beat, dbVars, callerVars, heartVars
<1>12. OwnInv'
  BY Constants, Fields DEF LeaseInv, Types, TypeDb, TypeCaller, TypeMem, Structure, TxInv,
     FenceInv, TimeInv, OwnInv, Minding, Excused, Won, ReleaseHits, HeartbeatWakes, Beat,
     dbVars, callerVars, heartVars
<1> QED
  BY <1>1, <1>2, <1>3, <1>4, <1>5, <1>6, <1>7, <1>8, <1>9, <1>10, <1>11, <1>12 DEF LeaseInv,
     Types

\* LeaseInv survives the statement of a renewal.
LEMMA RenewBeginStep ==
    ASSUME LeaseInv, NEW s \in Sessions, RenewBegin(s)
    PROVE  LeaseInv'
<1>1. /\ tx'.s = s /\ tx'.op = "renew" /\ tx'.at = now /\ TypeTx'
      /\ tx'.hit => ReleaseHits(s)
  <2>1. RenewHits(s, now) \in BOOLEAN /\ (RenewHits(s, now) => ReleaseHits(s))
    BY DEF RenewHits
  <2> QED
    BY <2>1 DEF RenewBegin, LeaseInv, Types, TypeDb, TypeTx
<1>2. TypeDb' /\ TypeRow'
  BY <1>1, Constants, Fields DEF LeaseInv, Types, TypeDb, TypeRow, TypeTx, RenewBegin, Beat,
     dbVars, callerVars, heartVars
<1>3. TypeTx'
  BY <1>1
<1>4. TypeCaller'
  BY <1>1 DEF LeaseInv, Types, TypeCaller, RenewBegin, Beat, dbVars, callerVars, heartVars
<1>5. TypeJob'
  BY <1>1, Constants DEF LeaseInv, Types, TypeJob, RenewBegin, Beat, dbVars, callerVars,
     heartVars
<1>6. TypeMem' /\ TypeBeat'
  BY <1>1, BeatIs, Fields, JobFields DEF LeaseInv, Types, TypeMem, TypeBeat, TypeDb, TypeTx,
     RenewBegin, Beat, dbVars, callerVars, heartVars
<1>7. Structure'
  BY <1>1, Constants DEF LeaseInv, Types, TypeCaller, TypeBeat, Structure, RenewBegin, Beat,
     dbVars, callerVars, heartVars
<1>8. TxInv'
  BY <1>1, Constants DEF LeaseInv, Types, TypeBeat, TypeTx, Structure, TxInv, AcquireHits,
     ReleaseHits, RenewBegin, Beat, dbVars, callerVars, heartVars
<1>9. TokenInv'
  BY <1>1, Constants DEF LeaseInv, Types, TypeDb, TypeCaller, TypeMem, Structure, TokenInv,
     Entitled, Won, RenewBegin, Beat, dbVars, callerVars, heartVars
<1>10. FenceInv'
  BY <1>1, Constants DEF LeaseInv, Types, TypeCaller, TypeMem, Structure, FenceInv,
     Entitled, Won, RenewBegin, Beat, dbVars, callerVars, heartVars
<1>11. TimeInv'
  BY <1>1, Constants, Fields DEF LeaseInv, Types, TypeDb, TxInv, TimeInv, RenewBegin, Beat,
     dbVars, callerVars, heartVars
<1>12. TermInv'
  BY <1>1, Constants, Fields, JobFields DEF LeaseInv, Types, TypeDb, TypeCaller, TypeMem,
     TypeBeat, Structure, TxInv, FenceInv, TimeInv, TermInv, Lease, Won, Entitled,
     RenewBegin, Beat, dbVars, callerVars, heartVars
<1>13. OwnInv'
  BY <1>1, Constants, Fields DEF LeaseInv, Types, TypeDb, TypeCaller, TypeMem, Structure,
     TxInv, FenceInv, TimeInv, OwnInv, Minding, Excused, Won, ReleaseHits, RenewBegin, Beat,
     dbVars, callerVars, heartVars
<1> QED
  BY <1>2, <1>3, <1>4, <1>5, <1>6, <1>7, <1>8, <1>9, <1>10, <1>11, <1>12, <1>13 DEF
     LeaseInv, Types

\* LeaseInv survives its commit.
LEMMA RenewCommitStep ==
    ASSUME LeaseInv, NEW s \in Sessions, RenewCommit(s)
    PROVE  LeaseInv'
<1>1. tx # NoTx /\ Apply(tx) /\ tx.s = s
  BY Constants DEF LeaseInv, TxInv, RenewCommit
<1>2. TypeDb' /\ TypeRow'
  BY <1>1, Constants, Fields, Applied, CommitOwn, CommitOthers DEF LeaseInv, Types, TypeDb,
     TypeRow, TypeTx, RenewCommit, dbVars, callerVars, heartVars
<1>3. TypeTx'
  BY <1>1, Constants, Fields, Applied, CommitOwn, CommitOthers DEF LeaseInv, Types, TypeTx,
     TypeDb, RenewCommit, dbVars, callerVars, heartVars
<1>4. TypeCaller'
  BY <1>1, Applied, CommitOwn, CommitOthers DEF LeaseInv, Types, TypeCaller, RenewCommit,
     dbVars, callerVars, heartVars
<1>5. TypeJob'
  BY <1>1, Constants, Applied, CommitOwn, CommitOthers DEF LeaseInv, Types, TypeJob,
     RenewCommit, dbVars, callerVars, heartVars
<1>6. TypeMem' /\ TypeBeat'
  BY Fields DEF LeaseInv, Types, TypeMem, TypeBeat, BeatRec, RenewCommit
<1>7. Structure'
  BY <1>1, Constants, Applied, CommitOwn, CommitOthers DEF LeaseInv, Types, TypeCaller,
     TypeBeat, Structure, RenewCommit, dbVars, callerVars, heartVars
<1>8. TxInv'
  BY <1>1, Constants, Applied, CommitOwn, CommitOthers DEF LeaseInv, Types, TypeBeat,
     TypeTx, Structure, TxInv, AcquireHits, ReleaseHits, RenewCommit, dbVars, callerVars,
     heartVars
<1>9. TokenInv'
  BY <1>1, Constants, Applied, CommitOwn, CommitOthers DEF LeaseInv, Types, TypeDb,
     TypeCaller, TypeMem, Structure, TokenInv, Entitled, Won, RenewCommit, dbVars,
     callerVars, heartVars
<1>10. FenceInv'
  BY <1>1, Constants, Applied, CommitOwn, CommitOthers DEF LeaseInv, Types, TypeCaller,
     TypeMem, Structure, FenceInv, Entitled, Won, RenewCommit, dbVars, callerVars, heartVars
<1>11. TimeInv'
  BY <1>1, Constants, Fields, Applied, CommitOwn, CommitOthers DEF LeaseInv, Types, TypeDb,
     TxInv, TimeInv, RenewCommit, dbVars, callerVars, heartVars
<1>12. TermInv'
  BY <1>1, Constants, Fields, JobFields, Applied, CommitOwn, CommitOthers DEF LeaseInv,
     Types, TypeDb, TypeCaller, TypeMem, TypeBeat, Structure, TxInv, FenceInv, TimeInv,
     TermInv, Lease, Won, Entitled, RenewCommit, dbVars, callerVars, heartVars
<1>13. OwnInv'
  BY <1>1, Constants, Fields, Applied, CommitOwn, CommitOthers DEF LeaseInv, Types, TypeDb,
     TypeCaller, TypeMem, Structure, TxInv, FenceInv, TimeInv, OwnInv, Minding, Excused,
     Won, ReleaseHits, RenewCommit, dbVars, callerVars, heartVars
<1> QED
  BY <1>2, <1>3, <1>4, <1>5, <1>6, <1>7, <1>8, <1>9, <1>10, <1>11, <1>12, <1>13 DEF
     LeaseInv, Types

\* LeaseInv survives the return of renew_lock.
LEMMA RenewReturnStep ==
    ASSUME LeaseInv, NEW s \in Sessions, RenewReturn(s)
    PROVE  LeaseInv'
<1>1. TypeDb' /\ TypeRow'
  BY Constants, Fields DEF LeaseInv, Types, TypeDb, TypeRow, TypeTx, RenewReturn, Beat,
     dbVars, callerVars, heartVars
<1>2. TypeTx'
  BY Constants, Fields DEF LeaseInv, Types, TypeTx, TypeDb, RenewReturn, Beat, dbVars,
     callerVars, heartVars
<1>3. TypeCaller'
  BY DEF LeaseInv, Types, TypeCaller, RenewReturn, Beat, dbVars, callerVars, heartVars
<1>4. TypeJob'
  BY Constants DEF LeaseInv, Types, TypeJob, RenewReturn, Beat, dbVars, callerVars,
     heartVars
<1>5. TypeMem' /\ TypeBeat'
  BY BeatIs, Fields DEF LeaseInv, Types, TypeMem, TypeBeat, RenewReturn, dbVars, callerVars
<1>6. Structure'
  BY Constants DEF LeaseInv, Types, TypeCaller, TypeBeat, Structure, RenewReturn, Beat,
     dbVars, callerVars, heartVars
<1>7. TxInv'
  BY Constants DEF LeaseInv, Types, TypeBeat, TypeTx, Structure, TxInv, AcquireHits,
     ReleaseHits, RenewReturn, Beat, dbVars, callerVars, heartVars
<1>8. TokenInv'
  BY Constants DEF LeaseInv, Types, TypeDb, TypeCaller, TypeMem, Structure, TokenInv,
     Entitled, Won, RenewReturn, Beat, dbVars, callerVars, heartVars
<1>9. FenceInv'
  BY Constants DEF LeaseInv, Types, TypeCaller, TypeMem, Structure, FenceInv, Entitled, Won,
     RenewReturn, Beat, dbVars, callerVars, heartVars
<1>10. TimeInv'
  BY Constants, Fields DEF LeaseInv, Types, TypeDb, TxInv, TimeInv, RenewReturn, Beat,
     dbVars, callerVars, heartVars
<1>11. TermInv'
  BY Constants, Fields, JobFields DEF LeaseInv, Types, TypeDb, TypeCaller, TypeMem,
     TypeBeat, Structure, TxInv, FenceInv, TimeInv, TermInv, Lease, Won, Entitled,
     RenewReturn, Beat, dbVars, callerVars, heartVars
<1>12. OwnInv'
  BY Constants, Fields DEF LeaseInv, Types, TypeDb, TypeCaller, TypeMem, Structure, TxInv,
     FenceInv, TimeInv, OwnInv, Minding, Excused, Won, ReleaseHits, RenewReturn, Beat,
     dbVars, callerVars, heartVars
<1> QED
  BY <1>1, <1>2, <1>3, <1>4, <1>5, <1>6, <1>7, <1>8, <1>9, <1>10, <1>11, <1>12 DEF LeaseInv,
     Types

\* LeaseInv survives an error of the database in it.
LEMMA RenewFailsStep ==
    ASSUME LeaseInv, NEW s \in Sessions, RenewFails(s)
    PROVE  LeaseInv'
<1>1. TypeDb' /\ TypeRow'
  BY Constants, Fields DEF LeaseInv, Types, TypeDb, TypeRow, TypeTx, RenewFails, Beat,
     dbVars, callerVars, heartVars
<1>2. TypeTx'
  BY Constants, Fields DEF LeaseInv, Types, TypeTx, TypeDb, RenewFails, Beat, dbVars,
     callerVars, heartVars
<1>3. TypeCaller'
  BY DEF LeaseInv, Types, TypeCaller, RenewFails, Beat, dbVars, callerVars, heartVars
<1>4. TypeJob'
  BY Constants DEF LeaseInv, Types, TypeJob, RenewFails, Beat, dbVars, callerVars, heartVars
<1>5. TypeMem' /\ TypeBeat'
  BY BeatIs, Fields, JobFields DEF LeaseInv, Types, TypeMem, TypeBeat, TypeDb, TypeTx,
     RenewFails, Beat, dbVars, callerVars, heartVars
<1>6. Structure'
  BY Constants DEF LeaseInv, Types, TypeCaller, TypeBeat, Structure, RenewFails, Beat,
     dbVars, callerVars, heartVars
<1>7. TxInv'
  BY Constants DEF LeaseInv, Types, TypeBeat, TypeTx, Structure, TxInv, AcquireHits,
     ReleaseHits, RenewFails, Beat, dbVars, callerVars, heartVars
<1>8. TokenInv'
  BY Constants DEF LeaseInv, Types, TypeDb, TypeCaller, TypeMem, Structure, TokenInv,
     Entitled, Won, RenewFails, Beat, dbVars, callerVars, heartVars
<1>9. FenceInv'
  BY Constants DEF LeaseInv, Types, TypeCaller, TypeMem, Structure, FenceInv, Entitled, Won,
     RenewFails, Beat, dbVars, callerVars, heartVars
<1>10. TimeInv'
  BY Constants, Fields DEF LeaseInv, Types, TypeDb, TxInv, TimeInv, RenewFails, Beat,
     dbVars, callerVars, heartVars
<1>11. TermInv'
  BY Constants, Fields, JobFields DEF LeaseInv, Types, TypeDb, TypeCaller, TypeMem,
     TypeBeat, Structure, TxInv, FenceInv, TimeInv, TermInv, Lease, Won, Entitled,
     RenewFails, Beat, dbVars, callerVars, heartVars
<1>12. OwnInv'
  BY Constants, Fields DEF LeaseInv, Types, TypeDb, TypeCaller, TypeMem, Structure, TxInv,
     FenceInv, TimeInv, OwnInv, Minding, Excused, Won, ReleaseHits, RenewFails, Beat,
     dbVars, callerVars, heartVars
<1> QED
  BY <1>1, <1>2, <1>3, <1>4, <1>5, <1>6, <1>7, <1>8, <1>9, <1>10, <1>11, <1>12 DEF LeaseInv,
     Types

\* LeaseInv survives the end of the heartbeat.
LEMMA StopHeartbeatStep ==
    ASSUME LeaseInv, NEW s \in Sessions, StopHeartbeat(s)
    PROVE  LeaseInv'
<1>1. hb[s].st = "tx" => tx # NoTx /\ tx.s = s /\ tx.op = "renew"
  BY Constants DEF LeaseInv, TxInv
<1>2. TypeDb' /\ TypeRow'
  BY <1>1, Constants, Fields, Applied, CommitOwn, CommitOthers DEF LeaseInv, Types, TypeDb,
     TypeRow, TypeTx, StopHeartbeat, Beat, dbVars, callerVars, heartVars
<1>3. TypeTx'
  BY <1>1, Constants, Fields, Applied, CommitOwn, CommitOthers DEF LeaseInv, Types, TypeTx,
     TypeDb, StopHeartbeat, Beat, dbVars, callerVars, heartVars
<1>4. TypeCaller'
  BY <1>1, Applied, CommitOwn, CommitOthers DEF LeaseInv, Types, TypeCaller, StopHeartbeat,
     Beat, dbVars, callerVars, heartVars
<1>5. TypeJob'
  BY <1>1, Constants, Applied, CommitOwn, CommitOthers DEF LeaseInv, Types, TypeJob,
     StopHeartbeat, Beat, dbVars, callerVars, heartVars
<1>6. TypeMem' /\ TypeBeat'
  BY <1>1, BeatIs, Fields, JobFields, Applied, CommitOwn, CommitOthers DEF LeaseInv, Types,
     TypeMem, TypeBeat, TypeDb, TypeTx, StopHeartbeat, Beat, dbVars, callerVars, heartVars
<1>7. Structure'
  BY <1>1, Constants, Applied, CommitOwn, CommitOthers DEF LeaseInv, Types, TypeCaller,
     TypeBeat, Structure, StopHeartbeat, Beat, dbVars, callerVars, heartVars
<1>8. TxInv'
  BY <1>1, Constants, Applied, CommitOwn, CommitOthers DEF LeaseInv, Types, TypeBeat,
     TypeTx, Structure, TxInv, AcquireHits, ReleaseHits, StopHeartbeat, Beat, dbVars,
     callerVars, heartVars
<1>9. TokenInv'
  BY <1>1, Constants, Applied, CommitOwn, CommitOthers DEF LeaseInv, Types, TypeDb,
     TypeCaller, TypeMem, Structure, TokenInv, Entitled, Won, StopHeartbeat, Beat, dbVars,
     callerVars, heartVars
<1>10. FenceInv'
  BY <1>1, Constants, Applied, CommitOwn, CommitOthers DEF LeaseInv, Types, TypeCaller,
     TypeMem, Structure, FenceInv, Entitled, Won, StopHeartbeat, Beat, dbVars, callerVars,
     heartVars
<1>11. TimeInv'
  BY <1>1, Constants, Fields, Applied, CommitOwn, CommitOthers DEF LeaseInv, Types, TypeDb,
     TxInv, TimeInv, StopHeartbeat, Beat, dbVars, callerVars, heartVars
<1>12. TermInv'
  BY <1>1, Constants, Fields, JobFields, Applied, CommitOwn, CommitOthers DEF LeaseInv,
     Types, TypeDb, TypeCaller, TypeMem, TypeBeat, Structure, TxInv, FenceInv, TimeInv,
     TermInv, Lease, Won, Entitled, StopHeartbeat, Beat, dbVars, callerVars, heartVars
<1>13. OwnInv'
  BY <1>1, Constants, Fields, Applied, CommitOwn, CommitOthers DEF LeaseInv, Types, TypeDb,
     TypeCaller, TypeMem, Structure, TxInv, FenceInv, TimeInv, OwnInv, Minding, Excused,
     Won, ReleaseHits, StopHeartbeat, Beat, dbVars, callerVars, heartVars
<1> QED
  BY <1>2, <1>3, <1>4, <1>5, <1>6, <1>7, <1>8, <1>9, <1>10, <1>11, <1>12, <1>13 DEF
     LeaseInv, Types

\* LeaseInv survives the call of close().
LEMMA BeginCloseStep ==
    ASSUME LeaseInv, BeginClose
    PROVE  LeaseInv'
<1>1. TypeDb' /\ TypeRow'
  BY Constants, Fields DEF LeaseInv, Types, TypeDb, TypeRow, TypeTx, BeginClose, dbVars,
     callerVars, heartVars
<1>2. TypeTx'
  BY Constants, Fields DEF LeaseInv, Types, TypeTx, TypeDb, BeginClose, dbVars, callerVars,
     heartVars
<1>3. TypeCaller'
  BY DEF LeaseInv, Types, TypeCaller, BeginClose, dbVars, callerVars, heartVars
<1>4. TypeJob'
  BY Constants DEF LeaseInv, Types, TypeJob, BeginClose, dbVars, callerVars, heartVars
<1>5. TypeMem' /\ TypeBeat'
  BY BeatIs, Fields, JobFields DEF LeaseInv, Types, TypeMem, TypeBeat, TypeDb, TypeTx,
     BeginClose, dbVars, callerVars, heartVars
<1>6. Structure'
  BY Constants DEF LeaseInv, Types, TypeCaller, TypeBeat, Structure, BeginClose, dbVars,
     callerVars, heartVars
<1>7. TxInv'
  BY Constants DEF LeaseInv, Types, TypeBeat, TypeTx, Structure, TxInv, AcquireHits,
     ReleaseHits, BeginClose, dbVars, callerVars, heartVars
<1>8. TokenInv'
  BY Constants DEF LeaseInv, Types, TypeDb, TypeCaller, TypeMem, Structure, TokenInv,
     Entitled, Won, BeginClose, dbVars, callerVars, heartVars
<1>9. FenceInv'
  BY Constants DEF LeaseInv, Types, TypeCaller, TypeMem, Structure, FenceInv, Entitled, Won,
     BeginClose, dbVars, callerVars, heartVars
<1>10. TimeInv'
  BY Constants, Fields DEF LeaseInv, Types, TypeDb, TxInv, TimeInv, BeginClose, dbVars,
     callerVars, heartVars
<1>11. TermInv'
  BY Constants, Fields, JobFields DEF LeaseInv, Types, TypeDb, TypeCaller, TypeMem,
     TypeBeat, Structure, TxInv, FenceInv, TimeInv, TermInv, Lease, Won, Entitled,
     BeginClose, dbVars, callerVars, heartVars
<1>12. OwnInv'
  BY Constants, Fields DEF LeaseInv, Types, TypeDb, TypeCaller, TypeMem, Structure, TxInv,
     FenceInv, TimeInv, OwnInv, Minding, Excused, Won, ReleaseHits, BeginClose, dbVars,
     callerVars, heartVars
<1> QED
  BY <1>1, <1>2, <1>3, <1>4, <1>5, <1>6, <1>7, <1>8, <1>9, <1>10, <1>11, <1>12 DEF LeaseInv,
     Types

\* LeaseInv survives the cancellation of a supervisor.
LEMMA DrainCancelStep ==
    ASSUME LeaseInv, NEW s \in Sessions, DrainCancel(s)
    PROVE  LeaseInv'
<1>1. /\ job' \in [Sessions -> JobRec] /\ \A t \in Sessions \ {s} : job'[t] = job[t]
      /\ IF Running(s) THEN job'[s] = NoJob ELSE job'[s] = job[s]
  BY Constants, JobFields DEF LeaseInv, Types, TypeJob, SetJob, DrainCancel
<1>2. job[s].st = "tx" => tx # NoTx /\ tx.s = s /\ tx.op = job[s].op
  BY Constants DEF LeaseInv, TxInv
<1>3. TypeDb' /\ TypeRow'
  BY <1>1, <1>2, Constants, Fields, Applied, CommitOwn, CommitOthers DEF LeaseInv, Types,
     TypeDb, TypeRow, TypeTx, DrainCancel, Running, Forget, dbVars, callerVars, heartVars
<1>4. TypeTx'
  BY <1>1, <1>2, Constants, Fields, Applied, CommitOwn, CommitOthers DEF LeaseInv, Types,
     TypeTx, TypeDb, DrainCancel, Running, Forget, dbVars, callerVars, heartVars
<1>5. TypeCaller'
  BY <1>1, <1>2, Applied, CommitOwn, CommitOthers DEF LeaseInv, Types, TypeCaller,
     DrainCancel, Running, Forget, dbVars, callerVars, heartVars
<1>6. TypeJob'
  BY <1>1, <1>2, Constants, Applied, CommitOwn, CommitOthers DEF LeaseInv, Types, TypeJob,
     DrainCancel, Running, Forget, dbVars, callerVars, heartVars
<1>7. TypeMem' /\ TypeBeat'
  BY <1>1, <1>2, BeatIs, Fields, JobFields, Applied, CommitOwn, CommitOthers DEF LeaseInv,
     Types, TypeMem, TypeBeat, TypeDb, TypeTx, DrainCancel, Running, Forget, dbVars,
     callerVars, heartVars
<1>8. Structure'
  BY <1>1, <1>2, Constants, Applied, CommitOwn, CommitOthers DEF LeaseInv, Types,
     TypeCaller, TypeBeat, Structure, DrainCancel, Running, Forget, dbVars, callerVars,
     heartVars
<1>9. TxInv'
  <2>1. CASE Running(s) /\ job[s].st = "tx"
    BY <1>1, <1>2, <2>1, Constants DEF LeaseInv, Structure, TxInv, DrainCancel, heartVars
  <2>2. CASE Running(s) /\ job[s].st # "tx"
    <3>1. tx # NoTx => tx.s # s /\ token'[tx.s] = token[tx.s]
      BY <2>2 DEF LeaseInv, Types, TypeMem, Structure, TxInv, DrainCancel, Forget
    <3> QED
      BY <1>1, <1>2, <2>2, <3>1, Constants DEF LeaseInv, Structure, TxInv, AcquireHits,
         ReleaseHits, DrainCancel, heartVars
  <2>3. CASE ~Running(s)
    BY <1>1, <1>2, <2>3 DEF LeaseInv, Structure, TxInv, AcquireHits, ReleaseHits, DrainCancel,
       heartVars
  <2> QED
    BY <2>1, <2>2, <2>3
<1>10. TokenInv'
  <2>1. CASE Running(s)
    BY <1>1, <1>2, <2>1, Constants, SMTT(40) DEF LeaseInv, Types, TypeDb, TypeMem, Structure,
       TokenInv, Entitled, Won, DrainCancel, Forget
  <2>2. CASE ~Running(s)
    BY <1>1, <1>2, <2>2 DEF LeaseInv, TokenInv, Entitled, Won, DrainCancel
  <2> QED
    BY <2>1, <2>2
<1>11. FenceInv'
  BY <1>1, <1>2, Constants, Applied, CommitOwn, CommitOthers DEF LeaseInv, Types,
     TypeCaller, TypeMem, Structure, FenceInv, Entitled, Won, DrainCancel, Running, Forget,
     dbVars, callerVars, heartVars
<1>12. TimeInv'
  BY <1>1, <1>2, Constants, Fields, Applied, CommitOwn, CommitOthers DEF LeaseInv, Types,
     TypeDb, TxInv, TimeInv, DrainCancel, Running, Forget, dbVars, callerVars, heartVars
<1>13. TermInv'
  BY <1>1, <1>2, Constants, Fields, JobFields, Applied, CommitOwn, CommitOthers, SMTT(40) DEF
     LeaseInv, Types, TypeDb, TypeCaller, TypeMem, TypeBeat, Structure, TxInv, FenceInv,
     TimeInv, TermInv, Lease, Won, Entitled, DrainCancel, Running, Forget, dbVars,
     callerVars, heartVars
<1>14. OwnInv'
  BY <1>1, <1>2, Constants, Fields, Applied, CommitOwn, CommitOthers, SMTT(40) DEF LeaseInv,
     Types, TypeDb, TypeCaller, TypeMem, Structure, TxInv, FenceInv, TimeInv, OwnInv, Minding,
     Excused, Won, ReleaseHits, DrainCancel, Running, Forget, dbVars, callerVars, heartVars
<1> QED
  BY <1>3, <1>4, <1>5, <1>6, <1>7, <1>8, <1>9, <1>10, <1>11, <1>12, <1>13, <1>14 DEF
     LeaseInv, Types

\* LeaseInv survives the end of close().
LEMMA EndCloseStep ==
    ASSUME LeaseInv, EndClose
    PROVE  LeaseInv'
<1>1. TypeDb' /\ TypeRow'
  BY Constants, Fields DEF LeaseInv, Types, TypeDb, TypeRow, TypeTx, EndClose, dbVars,
     callerVars, heartVars
<1>2. TypeTx'
  BY Constants, Fields DEF LeaseInv, Types, TypeTx, TypeDb, EndClose, dbVars, callerVars,
     heartVars
<1>3. TypeCaller'
  BY DEF LeaseInv, Types, TypeCaller, EndClose, dbVars, callerVars, heartVars
<1>4. TypeJob'
  BY Constants DEF LeaseInv, Types, TypeJob, EndClose, dbVars, callerVars, heartVars
<1>5. TypeMem' /\ TypeBeat'
  BY BeatIs, Fields, JobFields DEF LeaseInv, Types, TypeMem, TypeBeat, TypeDb, TypeTx,
     EndClose, dbVars, callerVars, heartVars
<1>6. Structure'
  BY Constants DEF LeaseInv, Types, TypeCaller, TypeBeat, Structure, EndClose, dbVars,
     callerVars, heartVars
<1>7. TxInv'
  BY Constants DEF LeaseInv, Types, TypeBeat, TypeTx, Structure, TxInv, AcquireHits,
     ReleaseHits, EndClose, dbVars, callerVars, heartVars
<1>8. TokenInv'
  BY Constants DEF LeaseInv, Types, TypeDb, TypeCaller, TypeMem, Structure, TokenInv,
     Entitled, Won, EndClose, dbVars, callerVars, heartVars
<1>9. FenceInv'
  BY Constants DEF LeaseInv, Types, TypeCaller, TypeMem, Structure, FenceInv, Entitled, Won,
     EndClose, dbVars, callerVars, heartVars
<1>10. TimeInv'
  BY Constants, Fields DEF LeaseInv, Types, TypeDb, TxInv, TimeInv, EndClose, dbVars,
     callerVars, heartVars
<1>11. TermInv'
  BY Constants, Fields, JobFields DEF LeaseInv, Types, TypeDb, TypeCaller, TypeMem,
     TypeBeat, Structure, TxInv, FenceInv, TimeInv, TermInv, Lease, Won, Entitled, EndClose,
     dbVars, callerVars, heartVars
<1>12. OwnInv'
  BY Constants, Fields DEF LeaseInv, Types, TypeDb, TypeCaller, TypeMem, Structure, TxInv,
     FenceInv, TimeInv, OwnInv, Minding, Excused, Won, ReleaseHits, EndClose, dbVars,
     callerVars, heartVars
<1> QED
  BY <1>1, <1>2, <1>3, <1>4, <1>5, <1>6, <1>7, <1>8, <1>9, <1>10, <1>11, <1>12 DEF LeaseInv,
     Types

\* LeaseInv survives force_release.
LEMMA ForceReleaseStep ==
    ASSUME LeaseInv, ForceRelease
    PROVE  LeaseInv'
<1>1. TypeDb' /\ TypeRow'
  BY Constants, Fields DEF LeaseInv, Types, TypeDb, TypeRow, TypeTx, ForceRelease, dbVars,
     callerVars, heartVars
<1>2. TypeTx'
  BY Constants, Fields DEF LeaseInv, Types, TypeTx, TypeDb, ForceRelease, dbVars,
     callerVars, heartVars
<1>3. TypeCaller'
  BY DEF LeaseInv, Types, TypeCaller, ForceRelease, dbVars, callerVars, heartVars
<1>4. TypeJob'
  BY Constants DEF LeaseInv, Types, TypeJob, ForceRelease, dbVars, callerVars, heartVars
<1>5. TypeMem' /\ TypeBeat'
  BY BeatIs, Fields, JobFields DEF LeaseInv, Types, TypeMem, TypeBeat, TypeDb, TypeTx,
     ForceRelease, dbVars, callerVars, heartVars
<1>6. Structure'
  BY Constants DEF LeaseInv, Types, TypeCaller, TypeBeat, Structure, ForceRelease, dbVars,
     callerVars, heartVars
<1>7. TxInv'
  BY Constants DEF LeaseInv, Types, TypeBeat, TypeTx, Structure, TxInv, AcquireHits,
     ReleaseHits, ForceRelease, dbVars, callerVars, heartVars
<1>8. TokenInv'
  BY Constants DEF LeaseInv, Types, TypeDb, TypeCaller, TypeMem, Structure, TokenInv,
     Entitled, Won, ForceRelease, dbVars, callerVars, heartVars
<1>9. FenceInv'
  BY Constants DEF LeaseInv, Types, TypeCaller, TypeMem, Structure, FenceInv, Entitled, Won,
     ForceRelease, dbVars, callerVars, heartVars
<1>10. TimeInv'
  BY Constants, Fields DEF LeaseInv, Types, TypeDb, TxInv, TimeInv, ForceRelease, dbVars,
     callerVars, heartVars
<1>11. TermInv'
  BY Constants, Fields, JobFields DEF LeaseInv, Types, TypeDb, TypeCaller, TypeMem,
     TypeBeat, Structure, TxInv, FenceInv, TimeInv, TermInv, Lease, Won, Entitled,
     ForceRelease, dbVars, callerVars, heartVars
<1>12. OwnInv'
  BY Constants, Fields DEF LeaseInv, Types, TypeDb, TypeCaller, TypeMem, Structure, TxInv,
     FenceInv, TimeInv, OwnInv, Minding, Excused, Won, ReleaseHits, ForceRelease, dbVars,
     callerVars, heartVars
<1> QED
  BY <1>1, <1>2, <1>3, <1>4, <1>5, <1>6, <1>7, <1>8, <1>9, <1>10, <1>11, <1>12 DEF LeaseInv,
     Types

\* LeaseInv survives cleanup_expired.
LEMMA CleanupExpiredStep ==
    ASSUME LeaseInv, CleanupExpired
    PROVE  LeaseInv'
<1>1. TypeDb' /\ TypeRow'
  BY Constants, Fields DEF LeaseInv, Types, TypeDb, TypeRow, TypeTx, CleanupExpired, dbVars,
     callerVars, heartVars
<1>2. TypeTx'
  BY Constants, Fields DEF LeaseInv, Types, TypeTx, TypeDb, CleanupExpired, dbVars,
     callerVars, heartVars
<1>3. TypeCaller'
  BY DEF LeaseInv, Types, TypeCaller, CleanupExpired, dbVars, callerVars, heartVars
<1>4. TypeJob'
  BY Constants DEF LeaseInv, Types, TypeJob, CleanupExpired, dbVars, callerVars, heartVars
<1>5. TypeMem' /\ TypeBeat'
  BY BeatIs, Fields, JobFields DEF LeaseInv, Types, TypeMem, TypeBeat, TypeDb, TypeTx,
     CleanupExpired, dbVars, callerVars, heartVars
<1>6. Structure'
  BY Constants DEF LeaseInv, Types, TypeCaller, TypeBeat, Structure, CleanupExpired, dbVars,
     callerVars, heartVars
<1>7. TxInv'
  BY Constants DEF LeaseInv, Types, TypeBeat, TypeTx, Structure, TxInv, AcquireHits,
     ReleaseHits, CleanupExpired, dbVars, callerVars, heartVars
<1>8. TokenInv'
  BY Constants DEF LeaseInv, Types, TypeDb, TypeCaller, TypeMem, Structure, TokenInv,
     Entitled, Won, CleanupExpired, dbVars, callerVars, heartVars
<1>9. FenceInv'
  BY Constants DEF LeaseInv, Types, TypeCaller, TypeMem, Structure, FenceInv, Entitled, Won,
     CleanupExpired, dbVars, callerVars, heartVars
<1>10. TimeInv'
  BY Constants, Fields DEF LeaseInv, Types, TypeDb, TxInv, TimeInv, CleanupExpired, dbVars,
     callerVars, heartVars
<1>11. TermInv'
  BY Constants, Fields, JobFields DEF LeaseInv, Types, TypeDb, TypeCaller, TypeMem,
     TypeBeat, Structure, TxInv, FenceInv, TimeInv, TermInv, Lease, Won, Entitled,
     CleanupExpired, dbVars, callerVars, heartVars
<1>12. OwnInv'
  BY Constants, Fields DEF LeaseInv, Types, TypeDb, TypeCaller, TypeMem, Structure, TxInv,
     FenceInv, TimeInv, OwnInv, Minding, Excused, Won, ReleaseHits, CleanupExpired, dbVars,
     callerVars, heartVars
<1> QED
  BY <1>1, <1>2, <1>3, <1>4, <1>5, <1>6, <1>7, <1>8, <1>9, <1>10, <1>11, <1>12 DEF LeaseInv,
     Types

\* LeaseInv survives the passing of time.
LEMMA TickStep ==
    ASSUME LeaseInv, Tick
    PROVE  LeaseInv'
<1>1. TypeDb' /\ TypeRow'
  BY Constants, Fields DEF LeaseInv, Types, TypeDb, TypeRow, TypeTx, Tick, dbVars,
     callerVars, heartVars
<1>2. TypeTx'
  BY Constants, Fields DEF LeaseInv, Types, TypeTx, TypeDb, Tick, dbVars, callerVars,
     heartVars
<1>3. TypeCaller'
  BY DEF LeaseInv, Types, TypeCaller, Tick, dbVars, callerVars, heartVars
<1>4. TypeJob'
  BY Constants DEF LeaseInv, Types, TypeJob, Tick, dbVars, callerVars, heartVars
<1>5. TypeMem' /\ TypeBeat'
  BY BeatIs, Fields, JobFields DEF LeaseInv, Types, TypeMem, TypeBeat, TypeDb, TypeTx, Tick,
     dbVars, callerVars, heartVars
<1>6. Structure'
  BY Constants DEF LeaseInv, Types, TypeCaller, TypeBeat, Structure, Tick, dbVars,
     callerVars, heartVars
<1>7. TxInv'
  BY Constants DEF LeaseInv, Types, TypeBeat, TypeTx, Structure, TxInv, AcquireHits,
     ReleaseHits, Tick, dbVars, callerVars, heartVars
<1>8. TokenInv'
  BY Constants DEF LeaseInv, Types, TypeDb, TypeCaller, TypeMem, Structure, TokenInv,
     Entitled, Won, Tick, dbVars, callerVars, heartVars
<1>9. FenceInv'
  BY Constants DEF LeaseInv, Types, TypeCaller, TypeMem, Structure, FenceInv, Entitled, Won,
     Tick, dbVars, callerVars, heartVars
<1>10. TimeInv'
  BY Constants, Fields DEF LeaseInv, Types, TypeDb, TxInv, TimeInv, Tick, dbVars,
     callerVars, heartVars
<1>11. TermInv'
  BY Constants, Fields, JobFields DEF LeaseInv, Types, TypeDb, TypeCaller, TypeMem,
     TypeBeat, Structure, TxInv, FenceInv, TimeInv, TermInv, Lease, Won, Entitled, Tick,
     dbVars, callerVars, heartVars
<1>12. OwnInv'
  BY Constants, Fields DEF LeaseInv, Types, TypeDb, TypeCaller, TypeMem, Structure, TxInv,
     FenceInv, TimeInv, OwnInv, Minding, Excused, Won, ReleaseHits, Tick, dbVars,
     callerVars, heartVars
<1> QED
  BY <1>1, <1>2, <1>3, <1>4, <1>5, <1>6, <1>7, <1>8, <1>9, <1>10, <1>11, <1>12 DEF LeaseInv,
     Types

\* LeaseInv survives a clock that is stepped back.
LEMMA ClockBackStep ==
    ASSUME LeaseInv, ClockBack
    PROVE  LeaseInv'
<1>1. TypeDb' /\ TypeRow'
  BY Constants, Fields DEF LeaseInv, Types, TypeDb, TypeRow, TypeTx, ClockBack, dbVars,
     callerVars, heartVars
<1>2. TypeTx'
  BY Constants, Fields DEF LeaseInv, Types, TypeTx, TypeDb, ClockBack, dbVars, callerVars,
     heartVars
<1>3. TypeCaller'
  BY DEF LeaseInv, Types, TypeCaller, ClockBack, dbVars, callerVars, heartVars
<1>4. TypeJob'
  BY Constants DEF LeaseInv, Types, TypeJob, ClockBack, dbVars, callerVars, heartVars
<1>5. TypeMem' /\ TypeBeat'
  BY BeatIs, Fields, JobFields DEF LeaseInv, Types, TypeMem, TypeBeat, TypeDb, TypeTx,
     ClockBack, dbVars, callerVars, heartVars
<1>6. Structure'
  BY Constants DEF LeaseInv, Types, TypeCaller, TypeBeat, Structure, ClockBack, dbVars,
     callerVars, heartVars
<1>7. TxInv'
  BY Constants DEF LeaseInv, Types, TypeBeat, TypeTx, Structure, TxInv, AcquireHits,
     ReleaseHits, ClockBack, dbVars, callerVars, heartVars
<1>8. TokenInv'
  BY Constants DEF LeaseInv, Types, TypeDb, TypeCaller, TypeMem, Structure, TokenInv,
     Entitled, Won, ClockBack, dbVars, callerVars, heartVars
<1>9. FenceInv'
  BY Constants DEF LeaseInv, Types, TypeCaller, TypeMem, Structure, FenceInv, Entitled, Won,
     ClockBack, dbVars, callerVars, heartVars
<1>10. TimeInv'
  BY Constants, Fields DEF LeaseInv, Types, TypeDb, TxInv, TimeInv, ClockBack, dbVars,
     callerVars, heartVars
<1>11. TermInv'
  BY Constants, Fields, JobFields DEF LeaseInv, Types, TypeDb, TypeCaller, TypeMem,
     TypeBeat, Structure, TxInv, FenceInv, TimeInv, TermInv, Lease, Won, Entitled,
     ClockBack, dbVars, callerVars, heartVars
<1>12. OwnInv'
  BY Constants, Fields DEF LeaseInv, Types, TypeDb, TypeCaller, TypeMem, Structure, TxInv,
     FenceInv, TimeInv, OwnInv, Minding, Excused, Won, ReleaseHits, ClockBack, dbVars,
     callerVars, heartVars
<1> QED
  BY <1>1, <1>2, <1>3, <1>4, <1>5, <1>6, <1>7, <1>8, <1>9, <1>10, <1>11, <1>12 DEF LeaseInv,
     Types

\* LeaseInv survives a crash.
LEMMA CrashStep ==
    ASSUME LeaseInv, Crash
    PROVE  LeaseInv'
<1>1. TypeDb' /\ TypeRow'
  BY Constants, Fields DEF LeaseInv, Types, TypeDb, TypeRow, TypeTx, Crash, Beat, dbVars,
     callerVars, heartVars
<1>2. TypeTx'
  BY Constants, Fields DEF LeaseInv, Types, TypeTx, TypeDb, Crash, Beat, dbVars, callerVars,
     heartVars
<1>3. TypeCaller'
  BY DEF LeaseInv, Types, TypeCaller, Crash, Beat, dbVars, callerVars, heartVars
<1>4. TypeJob'
  BY Constants DEF LeaseInv, Types, TypeJob, Crash, Beat, dbVars, callerVars, heartVars
<1>5. TypeMem' /\ TypeBeat'
  BY BeatIs, Fields, JobFields DEF LeaseInv, Types, TypeMem, TypeBeat, TypeDb, TypeTx,
     Crash, Beat, dbVars, callerVars, heartVars
<1>6. Structure'
  BY Constants DEF LeaseInv, Types, TypeCaller, TypeBeat, Structure, Crash, Beat, dbVars,
     callerVars, heartVars
<1>7. TxInv'
  BY Constants DEF LeaseInv, Types, TypeBeat, TypeTx, Structure, TxInv, AcquireHits,
     ReleaseHits, Crash, Beat, dbVars, callerVars, heartVars
<1>8. TokenInv'
  BY Constants DEF LeaseInv, Types, TypeDb, TypeCaller, TypeMem, Structure, TokenInv,
     Entitled, Won, Crash, Beat, dbVars, callerVars, heartVars
<1>9. FenceInv'
  BY Constants DEF LeaseInv, Types, TypeCaller, TypeMem, Structure, FenceInv, Entitled, Won,
     Crash, Beat, dbVars, callerVars, heartVars
<1>10. TimeInv'
  BY Constants, Fields DEF LeaseInv, Types, TypeDb, TxInv, TimeInv, Crash, Beat, dbVars,
     callerVars, heartVars
<1>11. TermInv'
  BY Constants, Fields, JobFields DEF LeaseInv, Types, TypeDb, TypeCaller, TypeMem,
     TypeBeat, Structure, TxInv, FenceInv, TimeInv, TermInv, Lease, Won, Entitled, Crash,
     Beat, dbVars, callerVars, heartVars
<1>12. OwnInv'
  BY Constants, Fields DEF LeaseInv, Types, TypeDb, TypeCaller, TypeMem, Structure, TxInv,
     FenceInv, TimeInv, OwnInv, Minding, Excused, Won, ReleaseHits, Crash, Beat, dbVars,
     callerVars, heartVars
<1> QED
  BY <1>1, <1>2, <1>3, <1>4, <1>5, <1>6, <1>7, <1>8, <1>9, <1>10, <1>11, <1>12 DEF LeaseInv,
     Types

-----------------------------------------------------------------------------
(* The invariant                                                           *)

\* LeaseInv holds before anything is done.
LEMMA LeaseBegins ==
    ASSUME LeaseInit
    PROVE  LeaseInv
<1>1. Types
  BY Constants, BeatIs
     DEF LeaseInit, Types, TypeDb, TypeRow, TypeTx, TypeCaller, TypeJob, TypeMem, TypeBeat
<1>2. Structure /\ TxInv
  BY Constants, BeatIs DEF LeaseInit, Structure, TxInv
<1>3. TokenInv /\ FenceInv
  BY Constants DEF LeaseInit, TokenInv, FenceInv, Entitled, Won
<1>4. TimeInv /\ TermInv /\ OwnInv
  BY Constants, BeatIs DEF LeaseInit, TimeInv, TermInv, OwnInv, Won
<1> QED
  BY <1>1, <1>2, <1>3, <1>4 DEF LeaseInv

\* LeaseInv says nothing of the flag of a lost lease.
LEMMA LeaseStutters ==
    ASSUME LeaseInv, lost' \in [Sessions -> BOOLEAN],
           UNCHANGED <<now, row, lastToken, tx, mgr, pc, canc, job, token, sup, estado, hb,
                       owner, until, spent>>
    PROVE  LeaseInv'
<1>1. Types'
  BY DEF LeaseInv, Types, TypeDb, TypeRow, TypeTx, TypeCaller, TypeJob, TypeMem, TypeBeat
<1>2. Structure' /\ TxInv'
  BY DEF LeaseInv, Structure, TxInv, AcquireHits, ReleaseHits
<1>3. TokenInv' /\ FenceInv'
  BY DEF LeaseInv, TokenInv, FenceInv, Entitled, Won
<1>4. TimeInv' /\ TermInv'
  BY DEF LeaseInv, TimeInv, TermInv, Lease, Won
<1>5. OwnInv'
  BY DEF LeaseInv, OwnInv, Minding, Excused, Won, ReleaseHits
<1> QED
  BY <1>1, <1>2, <1>3, <1>4, <1>5 DEF LeaseInv

\* LeaseInv survives every step that a component over the lock table leaves
\* to it.
LEMMA LeaseStepKeeps ==
    ASSUME LeaseInv, LeaseStep
    PROVE  LeaseInv'
<1>1. ASSUME NEW s \in Sessions, JobStep(s) \/ HeartStep(s)
      PROVE  LeaseInv'
  BY <1>1, JobStartStep, JobBeginStep, JobCommitStep, JobReturnStep, JobFailsStep,
     HeartbeatWakesStep, RenewBeginStep, RenewCommitStep, RenewReturnStep, RenewFailsStep
     DEF JobStep, HeartStep
<1>2. ASSUME NEW s \in Sessions,
             Enter(s) \/ CancelWaiter(s) \/ WaiterStep(s) \/ SupervisorStep(s)
      PROVE  LeaseInv'
  BY <1>2, EnterStep, CancelWaiterStep, AcquireEndsStep, AcquireCompensatesStep,
     CleanupTimeoutStep, ReleaseEndsStep, SuperviseAcquireStep, SuperviseReleaseStep
     DEF WaiterStep, SupervisorStep
<1>3. CASE ManagerStep
  BY <1>3, BeginCloseStep, EndCloseStep, ForceReleaseStep, CleanupExpiredStep, DrainCancelStep
     DEF ManagerStep
<1> QED
  BY <1>1, <1>2, <1>3, ClockBackStep DEF LeaseStep

\* LeaseInv survives every step.
LEMMA LeaseNextKeeps ==
    ASSUME LeaseInv, [LeaseNext]_leaseVars
    PROVE  LeaseInv'
<1>1. CASE UNCHANGED leaseVars
  BY <1>1, LeaseStutters DEF leaseVars, LeaseInv, Types, TypeBeat
<1>2. ASSUME NEW s \in Sessions, HolderStep(s)
      PROVE  LeaseInv'
  BY <1>2, StartHeartbeatStep, StopHeartbeatStep, StartReleaseStep DEF HolderStep
<1> QED
  BY <1>1, <1>2, LeaseStepKeeps, TickStep, CrashStep DEF LeaseNext

\* LeaseInv holds in every reachable state.
LEMMA LeaseInvariant == LeaseSpec => []LeaseInv
  BY LeaseBegins, LeaseNextKeeps, PTL DEF LeaseSpec

-----------------------------------------------------------------------------
(* What follows from it                                                    *)

\* The state of the lock table and of the tasks around it has its type; no
\* acquisition makes more attempts than max_retries.
THEOREM TypeCorrect == LeaseSpec => []LeaseTypeOK
<1>1. ASSUME LeaseInv PROVE LeaseTypeOK
  BY <1>1 DEF LeaseInv, Types, TypeDb, TypeRow, TypeTx, TypeCaller, TypeJob, TypeMem, TypeBeat,
              JobRec, JobStates, BeatRec, LeaseTypeOK
<1> QED
  BY <1>1, LeaseInvariant, PTL

\* LeaseInv and exclusion
LEMMA InvHolds ==
    ASSUME LeaseInv, spent.back = 0
    PROVE  HolderHolds
  BY DEF LeaseInv, TermInv, Lease, HolderHolds

\* Exclusion: as long as the wall clock has not been stepped back, the row is
\* the holder's until the expiry acquire_lock or renew_lock last told it, for
\* any number of sessions, crashes and retries, and whether or not they share
\* an agent_id.  A clock that is stepped back can revive an expiry of which
\* another session has already profited: the hypothesis is needed.
THEOREM Exclusion == LeaseSpec => [](spent.back = 0 => HolderHolds)
  BY InvHolds, LeaseInvariant, PTL

\* LeaseInv and leaks
LEMMA InvNoLeak ==
    ASSUME LeaseInv
    PROVE  NoLeakedLease
<1> SUFFICES ASSUME NEW s \in Sessions, spent.back = 0, row # NoRow, owner = s, now < row.exp,
                    \/ estado[s] \in {"LIBERADA", "SIN_LEASE"}
                    \/ /\ pc[s] = "over" /\ sup[s] = "no"
                       /\ estado[s] \notin {"FALLO_DE_LIBERACION", "INDETERMINADO"}
             PROVE  FALSE
  BY DEF NoLeakedLease
<1>1. Minding(s) \/ Excused(s)
  BY DEF LeaseInv, OwnInv
<1>2. job[s].op = "none" /\ pc[s] # "held"
  BY JobFields DEF LeaseInv, Types, TypeCaller, Structure
<1>3. Excused(s)
  BY <1>1, <1>2 DEF Minding, Won
<1> QED
  BY <1>3 DEF Excused

\* No leak: wherever cancellations, timeouts, errors of the database, a close()
\* or a crash fall, a caller whose tasks have ended and who reports neither a
\* failed release nor an unknown outcome has left no running lease behind.
THEOREM NothingLeaks == LeaseSpec => []NoLeakedLease
  BY InvNoLeak, LeaseInvariant, PTL

\* The transition that ForeignLeaseUntouched allows
Untouched ==
    row # NoRow /\ row' # row =>
        \/ owner = tx.s
        \/ row.exp < tx.at \/ row.exp < now
        \/ spent'.forced # spent.forced

\* A commit takes a row over from its owner only when the lease has ended.
LEMMA CommitUntouched ==
    ASSUME LeaseInv, tx # NoTx, Apply(tx)
    PROVE  row # NoRow /\ row' # row => owner = tx.s \/ row.exp < tx.at
<1>1. tx.op \in {"acquire", "release", "renew"}
  BY Fields DEF LeaseInv, TxInv
<1>2. CASE tx.op = "acquire" /\ tx.hit
  BY <1>2 DEF LeaseInv, TxInv, AcquireHits
<1>3. CASE tx.op # "acquire" /\ tx.hit
  BY <1>3, CommitOwn
<1>4. CASE ~tx.hit
  BY <1>4, Applied
<1> QED
  BY <1>2, <1>3, <1>4

\* Every step leaves foreign leases alone.
LEMMA StepUntouched ==
    ASSUME LeaseInv, [LeaseNext]_leaseVars
    PROVE  Untouched
<1>1. ASSUME NEW s \in Sessions,
             \/ JobCommit(s) \/ RenewCommit(s)
             \/ (StopHeartbeat(s) /\ hb[s].st = "tx") \/ (DrainCancel(s) /\ job[s].st = "tx")
      PROVE  Untouched
  <2>1. tx # NoTx
    BY <1>1, Constants DEF LeaseInv, TxInv, JobCommit, RenewCommit
  <2>2. row' # row => Apply(tx)
    BY <1>1 DEF JobCommit, RenewCommit, StopHeartbeat, DrainCancel
  <2> QED
    BY <2>1, <2>2, CommitUntouched DEF Untouched
<1>2. CASE ForceRelease
  BY <1>2, Fields DEF LeaseInv, Types, TypeDb, ForceRelease, Untouched
<1>3. CASE CleanupExpired
  BY <1>3 DEF CleanupExpired, Untouched
<1>4. ASSUME NEW s \in Sessions,
             \/ JobStart(s) \/ JobBegin(s) \/ JobReturn(s) \/ JobFails(s)
             \/ HeartbeatWakes(s) \/ RenewBegin(s) \/ RenewReturn(s) \/ RenewFails(s)
      PROVE  Untouched
  BY <1>4 DEF JobStart, JobBegin, JobReturn, JobFails, HeartbeatWakes, RenewBegin, RenewReturn,
              RenewFails, dbVars, Untouched
<1>5. ASSUME NEW s \in Sessions,
             Enter(s) \/ CancelWaiter(s) \/ WaiterStep(s) \/ SupervisorStep(s)
      PROVE  Untouched
  BY <1>5 DEF WaiterStep, SupervisorStep, Enter, CancelWaiter, AcquireEnds, AcquireCompensates,
              CleanupTimeout, ReleaseEnds, SuperviseAcquire, SuperviseRelease, dbVars, Untouched
<1>6. ASSUME NEW s \in Sessions,
             \/ StartHeartbeat(s) \/ StartRelease(s)
             \/ (StopHeartbeat(s) /\ hb[s].st # "tx") \/ (DrainCancel(s) /\ job[s].st # "tx")
      PROVE  Untouched
  BY <1>6 DEF StartHeartbeat, StartRelease, StopHeartbeat, DrainCancel, dbVars, Untouched
<1>7. CASE BeginClose \/ EndClose \/ Tick \/ ClockBack \/ Crash \/ UNCHANGED leaseVars
  BY <1>7 DEF BeginClose, EndClose, Tick, ClockBack, Crash, dbVars, leaseVars, Untouched
<1> QED
  BY <1>1, <1>2, <1>3, <1>4, <1>5, <1>6, <1>7
     DEF LeaseNext, LeaseStep, JobStep, HeartStep, ManagerStep, HolderStep

\* Fencing: no statement of one session changes the lease of another before it
\* has ended, whatever the clock does, in particular with a shared agent_id:
\* the token alone tells them apart.
THEOREM Fencing == LeaseSpec => ForeignLeaseUntouched
<1>1. LeaseInv /\ [LeaseNext]_leaseVars => [Untouched]_leaseVars
  BY StepUntouched
<1> QED
  BY <1>1, LeaseInvariant, PTL DEF LeaseSpec, ForeignLeaseUntouched, Untouched

-----------------------------------------------------------------------------
(* The promise of module Lease                                             *)

\* The clients of the abstract lease, ...
LEMMA ClientNow ==
    ASSUME NEW s
    PROVE  ClientOf(s) = IF pc[s] = "idle" THEN "out"
                         ELSE IF pc[s] = "held" THEN "in"
                         ELSE IF pc[s] = "acquiring"
                              THEN IF job[s].st = "got" THEN "in" ELSE "asking"
                         ELSE "leaving"
<1>1. CASE pc[s] = "idle"
  BY <1>1 DEF ClientOf
<1>2. CASE pc[s] = "held"
  BY <1>2 DEF ClientOf
<1>3. CASE pc[s] = "acquiring" /\ job[s].st = "got"
  BY <1>3 DEF ClientOf
<1>4. CASE pc[s] = "acquiring" /\ job[s].st # "got"
  BY <1>4 DEF ClientOf
<1>5. CASE pc[s] \notin {"idle", "held", "acquiring"}
  BY <1>5 DEF ClientOf
<1> QED
  BY <1>1, <1>2, <1>3, <1>4, <1>5

\* ... after the step too
LEMMA ClientNext ==
    ASSUME NEW s
    PROVE  ClientOf(s)' = IF pc'[s] = "idle" THEN "out"
                         ELSE IF pc'[s] = "held" THEN "in"
                         ELSE IF pc'[s] = "acquiring"
                              THEN IF job'[s].st = "got" THEN "in" ELSE "asking"
                         ELSE "leaving"
<1>1. CASE pc'[s] = "idle"
  BY <1>1 DEF ClientOf
<1>2. CASE pc'[s] = "held"
  BY <1>2 DEF ClientOf
<1>3. CASE pc'[s] = "acquiring" /\ job'[s].st = "got"
  BY <1>3 DEF ClientOf
<1>4. CASE pc'[s] = "acquiring" /\ job'[s].st # "got"
  BY <1>4 DEF ClientOf
<1>5. CASE pc'[s] \notin {"idle", "held", "acquiring"}
  BY <1>5 DEF ClientOf
<1> QED
  BY <1>1, <1>2, <1>3, <1>4, <1>5

\* A step that is nothing to the clients
LEMMA Stutter ==
    ASSUME UNCHANGED <<now, owner, row>>, \A t \in Sessions : ClientOf(t)' = ClientOf(t)
    PROVE  UNCHANGED Promise!vars
  BY DEF Promise!vars

\* A client that leaves
LEMMA Leaves ==
    ASSUME UNCHANGED <<now, owner, row>>, NEW s \in Sessions,
           \A t \in Sessions \ {s} : ClientOf(t)' = ClientOf(t),
           ClientOf(s) \in {"asking", "in"}, ClientOf(s)' = "leaving"
    PROVE  Promise!Next
<1>1. Promise!Leave(s)
  BY DEF Promise!Leave, Promise!Move
<1> QED
  BY <1>1 DEF Promise!Next

\* A commit grants, extends or gives back, or matched nothing.
LEMMA Commits ==
    ASSUME LeaseInv, tx # NoTx, Apply(tx), spent.back = 0, UNCHANGED now,
           \A t \in Sessions : ClientOf(t)' = ClientOf(t)
    PROVE  [Promise!Next]_(Promise!vars)
<1>1. tx.s \in Sessions /\ tx.op \in {"acquire", "release", "renew"} /\ tx.at \in Nat
      /\ now \in Nat /\ row.exp \in Nat
  BY Fields DEF LeaseInv, Types, TypeDb, TxInv
<1>2. tx.at <= now /\ row.exp <= tx.at + TTL
  BY DEF LeaseInv, TimeInv
<1>3. CASE ~tx.hit
  BY <1>3, Applied, Stutter
<1>4. CASE tx.hit /\ tx.op = "acquire"
  <2>1. ClientOf(tx.s) \in {"asking", "leaving"}
    BY <1>1, <1>4, ClientNow, ClientNext DEF LeaseInv, TxInv, Structure
  <2>2. owner = Nobody \/ row.exp < now
    BY <1>1, <1>2, <1>4 DEF LeaseInv, TxInv, FenceInv, AcquireHits
  <2>3. owner' = tx.s /\ row'.exp \in 1 .. now + TTL
    BY <1>1, <1>2, <1>4, Applied
  <2>4. Promise!Grant(tx.s)
    BY <1>1, <2>1, <2>2, <2>3 DEF Promise!Grant
  <2> QED
    BY <1>1, <2>4 DEF Promise!Next
<1>5. CASE tx.hit /\ tx.op = "renew"
  <2>1. ClientOf(tx.s) = "in"
    BY <1>1, <1>5, ClientNow, ClientNext DEF LeaseInv, TxInv, Structure
  <2>2. owner = tx.s /\ owner' = owner /\ row'.exp \in row.exp .. now + TTL
    BY <1>1, <1>2, <1>5, Applied, CommitOwn
  <2>3. Promise!Extend(tx.s)
    BY <1>1, <2>1, <2>2 DEF Promise!Extend
  <2> QED
    BY <1>1, <2>3 DEF Promise!Next
<1>6. CASE tx.hit /\ tx.op = "release"
  <2>1. ClientOf(tx.s) = "leaving"
    BY <1>1, <1>6, ClientNow, ClientNext DEF LeaseInv, TxInv, Structure
  <2>2. owner = tx.s /\ owner' = Nobody /\ row'.exp = 0
    BY <1>1, <1>6, Applied, CommitOwn, Constants
  <2>3. Promise!GiveBack(tx.s)
    BY <1>1, <2>1, <2>2 DEF Promise!GiveBack
  <2> QED
    BY <1>1, <2>3 DEF Promise!Next
<1> QED
  BY <1>1, <1>3, <1>4, <1>5, <1>6

\* A shielded task comes to its result when an acquisition that committed
\* returns before its expiry, and in no other way.
LEMMA JobGets ==
    ASSUME LeaseInv, NEW s \in Sessions, JobStep(s)
    PROVE  /\ job[s].st # "got" /\ \A t \in Sessions \ {s} : job'[t] = job[t]
           /\ job'[s].st = "got" => UNCHANGED <<row, owner>>
           /\ job'[s].st = "got" /\ job[s].op = "acquire" => Won(s) /\ now < job[s].exp
<1>1. job[s] \in JobRec /\ job[s].op \in {"none", "acquire", "release"}
  BY JobFields DEF LeaseInv
<1>2. CASE JobStart(s) \/ JobBegin(s)
  <2>1. PICK x \in {"fail", "stop", "wait", "tx"} : job' = [job EXCEPT ![s] = [job[s] EXCEPT !.st = x]]
    BY <1>2 DEF JobStart, JobBegin, SetJob
  <2>2. job'[s].st = x
    BY <1>1, <2>1 DEF LeaseInv, Types, TypeJob, JobRec
  <2> QED
    BY <1>2, <2>1, <2>2 DEF LeaseInv, Types, TypeJob, JobStart, JobBegin
<1>6. CASE JobCommit(s)
  <2> DEFINE k == [job[s] EXCEPT !.st = "back", !.hit = tx.hit, !.exp = tx.at + TTL]
  <2>1. job' = [job EXCEPT ![s] = k] /\ job[s].st = "tx"
    BY <1>6 DEF JobCommit, SetJob
  <2>2. tx.hit \in BOOLEAN /\ tx.at + TTL \in Nat
    BY Fields DEF LeaseInv
  <2>3. /\ k \in JobRec
        /\ k.op = job[s].op /\ k.st = "back" /\ k.tries = job[s].tries
        /\ k.hit = tx.hit /\ k.exp = tx.at + TTL
    BY <1>1, <2>2, CommittedJob
  <2> HIDE DEF k
  <2> QED
    BY <2>1, <2>3 DEF LeaseInv, Types, TypeJob
<1>3. job[s].st \in {"wait", "tx", "back"} => NextAttempt(s).st # "got"
  BY <1>1, AttemptedJob DEF LeaseInv, Types, TypeJob
<1>4. CASE JobReturn(s)
  <2>1. job'[s].st = "got" /\ job[s].op = "acquire" => job[s].hit /\ now < job[s].exp
    BY <1>1, <1>3, <1>4 DEF LeaseInv, Types, TypeJob, JobReturn, SetJob
  <2> QED
    BY <1>4, <2>1 DEF LeaseInv, Types, TypeJob, JobReturn, SetJob, Won, dbVars
<1>5. CASE JobFails(s)
  <2>1. job'[s].st # "got"
    BY <1>1, <1>3, <1>5 DEF LeaseInv, Types, TypeJob, JobRec, JobFails, SetJob
  <2> QED
    BY <1>5, <2>1 DEF LeaseInv, Types, TypeJob, JobFails, SetJob
<1> QED
  BY <1>2, <1>4, <1>5, <1>6 DEF JobStep

\* The steps of the shielded task
LEMMA JobPromise ==
    ASSUME LeaseInv, spent.back = 0, spent.forced = 0, NEW s \in Sessions, JobStep(s)
    PROVE  [Promise!Next]_(Promise!vars)
<1>1. UNCHANGED <<pc, now>> /\ \A t \in Sessions \ {s} : ClientOf(t)' = ClientOf(t)
  <2>1. UNCHANGED <<pc, now>>
    BY DEF JobStep, JobStart, JobBegin, JobCommit, JobReturn, JobFails, dbVars, callerVars
  <2> QED
    BY <2>1, JobGets, ClientNow, ClientNext
<1>2. CASE job'[s].st = "got" /\ pc[s] = "acquiring"
  <2>1. UNCHANGED <<row, owner>> /\ Won(s) /\ now < job[s].exp
    BY <1>2, JobGets DEF LeaseInv, Structure
  <2>2. owner = s /\ now < row.exp
    <3>1. owner = s /\ job[s].exp <= row.exp
      BY <2>1 DEF LeaseInv, TermInv, Lease
    <3>2. now \in Nat /\ row.exp \in Nat /\ job[s].exp \in Nat
      BY Fields, JobFields DEF LeaseInv, Types, TypeDb
    <3> QED
      BY <2>1, <3>1, <3>2
  <2>3. ClientOf(s) = "asking" /\ ClientOf(s)' = "in"
    BY <1>1, <1>2, JobGets, ClientNow, ClientNext
  <2>4. Promise!GoIn(s)
    BY <1>1, <2>1, <2>2, <2>3 DEF Promise!GoIn, Promise!Move
  <2> QED
    BY <2>4 DEF Promise!Next
<1>3. CASE ~(job'[s].st = "got" /\ pc[s] = "acquiring")
  <2>1. \A t \in Sessions : ClientOf(t)' = ClientOf(t)
    BY <1>1, <1>3, JobGets, ClientNow, ClientNext
  <2>2. CASE JobCommit(s)
    <3>1. tx # NoTx /\ Apply(tx)
      BY <2>2, Constants DEF LeaseInv, TxInv, JobCommit
    <3> QED
      BY <1>1, <2>1, <3>1, Commits
  <2>3. CASE ~JobCommit(s)
    BY <1>1, <2>1, <2>3, Stutter
       DEF JobStep, JobStart, JobBegin, JobReturn, JobFails, dbVars
  <2> QED
    BY <2>2, <2>3
<1> QED
  BY <1>2, <1>3

\* The steps of the heartbeat
LEMMA HeartPromise ==
    ASSUME LeaseInv, spent.back = 0, NEW s \in Sessions,
           HeartStep(s) \/ StartHeartbeat(s) \/ StopHeartbeat(s)
    PROVE  [Promise!Next]_(Promise!vars)
<1>1. UNCHANGED <<pc, job, now>>
  BY DEF HeartStep, HeartbeatWakes, RenewBegin, RenewCommit, RenewReturn, RenewFails,
         StartHeartbeat, StopHeartbeat, dbVars, callerVars
<1>2. \A t \in Sessions : ClientOf(t)' = ClientOf(t)
  BY <1>1, ClientNow, ClientNext
<1>3. CASE UNCHANGED <<row, owner>>
  BY <1>1, <1>2, <1>3, Stutter
<1>4. CASE ~UNCHANGED <<row, owner>>
  <2>1. hb[s].st = "tx" /\ Apply(tx)
    BY <1>4 DEF HeartStep, HeartbeatWakes, RenewBegin, RenewCommit, RenewReturn, RenewFails,
                StartHeartbeat, StopHeartbeat, dbVars
  <2>2. tx # NoTx
    BY <2>1, Constants DEF LeaseInv, TxInv
  <2> QED
    BY <1>1, <1>2, <2>1, <2>2, Commits
<1> QED
  BY <1>3, <1>4

\* The steps of a caller and of its supervisor
LEMMA CallerPromise ==
    ASSUME LeaseInv, NEW s \in Sessions,
           Enter(s) \/ CancelWaiter(s) \/ WaiterStep(s) \/ SupervisorStep(s) \/ StartRelease(s)
    PROVE  [Promise!Next]_(Promise!vars)
<1>1. /\ UNCHANGED <<now, row, owner>>
      /\ \A t \in Sessions \ {s} : pc'[t] = pc[t] /\ job'[t] = job[t]
  BY DEF LeaseInv, Types, TypeJob, TypeCaller, WaiterStep, SupervisorStep, Enter, CancelWaiter,
         AcquireEnds, AcquireCompensates, CleanupTimeout, ReleaseEnds, SuperviseAcquire,
         SuperviseRelease, StartRelease, SetJob, dbVars
<1>2. \A t \in Sessions \ {s} : ClientOf(t)' = ClientOf(t)
  BY <1>1, ClientNow, ClientNext
<1>3. CASE Enter(s)
  <2>1. ClientOf(s) = "out" /\ ClientOf(s)' = "asking"
    <3>1. job'[s].st = "ready"
      BY <1>3, NewJob DEF Enter, SetJob, LeaseInv, Types, TypeJob
    <3>2. pc[s] = "idle" /\ pc'[s] = "acquiring"
      BY <1>3 DEF Enter, LeaseInv, Types, TypeCaller
    <3> QED
      BY <3>1, <3>2, ClientNow, ClientNext
  <2>2. Promise!Ask(s)
    BY <1>1, <1>2, <2>1 DEF Promise!Ask, Promise!Move
  <2> QED
    BY <2>2 DEF Promise!Next
<1>4. CASE AcquireEnds(s)
  <2>1. CASE job[s].st = "got"
    <3>1. ClientOf(s) = "in" /\ ClientOf(s)' = "in"
      BY <1>4, <2>1, ClientNow, ClientNext DEF AcquireEnds, LeaseInv, Types, TypeCaller
    <3> QED
      BY <1>1, <1>2, <3>1, Stutter
  <2>2. CASE job[s].st # "got"
    <3>1. ClientOf(s) = "asking" /\ ClientOf(s)' = "leaving"
      BY <1>4, <2>2, ClientNow, ClientNext DEF AcquireEnds, LeaseInv, Types, TypeCaller
    <3> QED
      BY <1>1, <1>2, <3>1, Leaves
  <2> QED
    BY <2>1, <2>2
<1>5. CASE AcquireCompensates(s) \/ CleanupTimeout(s) \/ ReleaseEnds(s) \/ StartRelease(s)
  <2>1. ClientOf(s)' = "leaving"
    BY <1>5, ClientNow, ClientNext DEF AcquireCompensates, CleanupTimeout, ReleaseEnds,
       StartRelease, LeaseInv, Types, TypeCaller
  <2>2. ClientOf(s) \in {"asking", "in", "leaving"}
    BY <1>5, ClientNow, ClientNext DEF AcquireCompensates, CleanupTimeout, ReleaseEnds,
       StartRelease
  <2>3. CASE ClientOf(s) = "leaving"
    BY <1>1, <1>2, <2>1, <2>3, Stutter
  <2>4. CASE ClientOf(s) # "leaving"
    BY <1>1, <1>2, <2>1, <2>2, <2>4, Leaves
  <2> QED
    BY <2>3, <2>4
<1>6. CASE CancelWaiter(s)
  <2>1. ClientOf(s)' = ClientOf(s)
    BY <1>6, ClientNow, ClientNext DEF CancelWaiter
  <2> QED
    BY <1>1, <1>2, <2>1, Stutter
<1>7. CASE SupervisorStep(s)
  <2>1. pc[s] = "over" /\ pc'[s] = "over"
    BY <1>7 DEF SupervisorStep, SuperviseAcquire, SuperviseRelease, LeaseInv, Structure
  <2>2. ClientOf(s)' = ClientOf(s)
    BY <2>1, ClientNow, ClientNext
  <2> QED
    BY <1>1, <1>2, <2>2, Stutter
<1> QED
  BY <1>3, <1>4, <1>5, <1>6, <1>7 DEF WaiterStep

\* The steps of the manager, the clock and a crash; the operator's
\* force_release and a clock that goes back are no part of the promise.
LEMMA ManagerPromise ==
    ASSUME LeaseInv, MaxForced = 0, MaxBack = 0, ManagerStep \/ ClockBack \/ Tick \/ Crash
    PROVE  [Promise!Next]_(Promise!vars)
<1>0. spent.back = 0 /\ spent.forced = 0
  BY DEF LeaseInv, Types, TypeDb
<1>1. CASE BeginClose \/ EndClose
  <2>1. UNCHANGED <<now, row, owner, pc, job>>
    BY <1>1 DEF BeginClose, EndClose, dbVars, callerVars
  <2> QED
    BY <2>1, ClientNow, ClientNext, Stutter
<1>2. CASE ForceRelease \/ ClockBack
  BY <1>0, <1>2 DEF ForceRelease, ClockBack
<1>3. CASE CleanupExpired
  <2>1. owner # Nobody /\ row.exp < now /\ owner' = Nobody /\ row'.exp = 0 /\ UNCHANGED <<now, pc, job>>
    BY <1>3, Constants DEF CleanupExpired, LeaseInv, FenceInv, callerVars
  <2>2. \A t \in Sessions : ClientOf(t)' = ClientOf(t)
    BY <2>1, ClientNow, ClientNext
  <2>3. Promise!Lapse
    BY <2>1, <2>2 DEF Promise!Lapse
  <2> QED
    BY <2>3 DEF Promise!Next
<1>4. ASSUME NEW s \in Sessions, DrainCancel(s) PROVE [Promise!Next]_(Promise!vars)
  <2>1. UNCHANGED <<pc, now>> /\ pc[s] = "over" /\ \A t \in Sessions \ {s} : job'[t] = job[t]
    BY <1>4 DEF DrainCancel, SetJob, LeaseInv, Structure, Types, TypeJob
  <2>2. \A t \in Sessions : ClientOf(t)' = ClientOf(t)
    BY <2>1, ClientNow, ClientNext
  <2>3. CASE UNCHANGED <<row, owner>>
    BY <2>1, <2>2, <2>3, Stutter
  <2>4. CASE ~UNCHANGED <<row, owner>>
    <3>1. job[s].st = "tx" /\ Apply(tx)
      BY <1>4, <2>4 DEF DrainCancel
    <3>2. tx # NoTx
      BY <3>1, Constants DEF LeaseInv, TxInv
    <3> QED
      BY <1>0, <2>1, <2>2, <3>1, <3>2, Commits
  <2> QED
    BY <2>3, <2>4
<1>5. CASE Tick
  <2>1. now' = now + 1 /\ UNCHANGED <<row, owner, pc, job>>
    BY <1>5 DEF Tick, callerVars
  <2>2. \A t \in Sessions : ClientOf(t)' = ClientOf(t)
    BY <2>1, ClientNow, ClientNext
  <2>3. Promise!Tick
    BY <2>1, <2>2 DEF Promise!Tick
  <2> QED
    BY <2>3 DEF Promise!Next
<1>6. CASE Crash
  <2>1. /\ UNCHANGED <<now, row, owner>>
        /\ \A t \in Sessions : pc'[t] = IF pc[t] = "idle" THEN "idle" ELSE "dead"
    BY <1>6 DEF Crash
  <2>2. \A t \in Sessions : ClientOf(t)' = IF ClientOf(t) = "out" THEN "out" ELSE "leaving"
    BY <2>1, ClientNow, ClientNext
  <2>3. Promise!Crash
    BY <2>1, <2>2 DEF Promise!Crash
  <2> QED
    BY <2>3 DEF Promise!Next
<1> QED
  BY <1>1, <1>2, <1>3, <1>4, <1>5, <1>6 DEF ManagerStep

\* Every step of the lock table is a step of the abstract lease, or none.
LEMMA StepPromise ==
    ASSUME LeaseInv, MaxForced = 0, MaxBack = 0, [LeaseNext]_leaseVars
    PROVE  [Promise!Next]_(Promise!vars)
<1>1. spent.back = 0 /\ spent.forced = 0
  BY DEF LeaseInv, Types, TypeDb
<1>2. CASE UNCHANGED leaseVars
  BY <1>2, ClientNow, ClientNext, Stutter DEF leaseVars
<1>3. ASSUME NEW s \in Sessions, HolderStep(s)
      PROVE  [Promise!Next]_(Promise!vars)
  BY <1>1, <1>3, HeartPromise, CallerPromise DEF HolderStep
<1>4. CASE LeaseStep
  BY <1>1, <1>4, JobPromise, HeartPromise, CallerPromise, ManagerPromise DEF LeaseStep
<1> QED
  BY <1>2, <1>3, <1>4, ManagerPromise DEF LeaseNext

\* The locks of db/locks.py implement the abstract lease: with acquisitions,
\* renewals, compensations, supervisors, a close() and crashes, their table
\* grants to one client at a time, lets a client in only while its term runs
\* and takes the lease away only at the term's end.  An operator's
\* force_release and a clock that is stepped back are what the promise
\* excludes.
THEOREM Refinement ==
    ASSUME MaxForced = 0, MaxBack = 0
    PROVE  LeaseSpec => KeepsPromise
<1>1. LeaseInit => Promise!Init
  <2>1. LeaseInit => [s \in Sessions |-> ClientOf(s)] = [s \in Sessions |-> "out"]
    BY ClientNow, ClientNext DEF LeaseInit
  <2> QED
    BY <2>1, Constants DEF LeaseInit, Promise!Init
<1>2. LeaseInv /\ [LeaseNext]_leaseVars => [Promise!Next]_(Promise!vars)
  BY StepPromise
<1> QED
  BY <1>1, <1>2, LeaseInvariant, PTL DEF LeaseSpec, KeepsPromise, Promise!Spec

-----------------------------------------------------------------------------
(* ------------------------------ SnapshotTx ----------------------------- *)

\* TypeOK, taken apart
Contents == Sessions \cup {Nobody, Torn}

TxTypes ==
    /\ stage \in [Sessions -> {"enter", "body", "exit", "rollback", "release", "done", "refused"}]
    /\ force \subseteq MayForce
    /\ exc \in [Sessions -> {"none", "error", "lease", "veto", "cancel", "rollback"}]
    /\ snap \in [Sessions -> [Files -> Contents \cup {NoSnap}]]
    /\ restored \in [Sessions -> SUBSET Files]
    /\ failed \in [Sessions -> SUBSET Files]
    /\ stray \in [Sessions -> SUBSET Files]
    /\ file \in [Files -> Contents]

\* Where a context is, and what it has of the lease, the heartbeat and the
\* snapshots
Stages ==
    \A s \in Sessions :
        /\ stage[s] \in {"body", "exit", "rollback", "release"} => pc[s] = "held"
        /\ stage[s] # "enter" => pc[s] # "idle"
        /\ hb[s].st # "off" => stage[s] \in {"body", "exit"}
        /\ stage[s] \notin {"enter", "refused"} => Kept(s) = Files

\* The books of a rollback
Books ==
    \A s \in Sessions :
        /\ stage[s] \notin {"rollback", "release", "done"} => restored[s] = {} /\ failed[s] = {}
        /\ restored[s] \subseteq Kept(s)
        /\ stray[s] \subseteq failed[s] /\ stray[s] \subseteq Kept(s)
        /\ ~MayCancelRestore => stray[s] = {}
        /\ stage[s] \in {"release", "done"} /\ ShouldRollBack(s) /\ failed[s] = {} =>
              Kept(s) \subseteq restored[s]

\* What a context alone has put back is as it was.
PutBack ==
    \A s \in Sessions : \A f \in restored[s] :
        (\A t \in Sessions \ {s} : pc[t] = "idle") => file[f] = snap[s][f]

\* Where time does not run out on the entry or on the heartbeat, the term of
\* a lease just acquired lies ahead, and so does the one a guard covers.
Handed ==
    Pace # "free" =>
        \A s \in Sessions : pc[s] = "acquiring" /\ job[s].st = "got" => now < job[s].exp

Covered ==
    Pace \in {"entered", "timely"} =>
        \A s \in Sessions : pc[s] = "held" /\ TermGuarded(s) => now < until[s]

SnapInv == LeaseInv /\ TxTypes /\ Stages /\ Books /\ PutBack /\ Handed /\ Covered

USE LeaseAssumption, TxAssumption

-----------------------------------------------------------------------------
(* What a step of the lock table does to one session                       *)

\* The shielded task
LEMMA JobMoves ==
    ASSUME LeaseInv, NEW t \in Sessions, JobStep(t), NEW s \in Sessions
    PROVE  /\ UNCHANGED <<now, pc, hb, lost, until>>
           /\ job'[s].st = "got" /\ pc[s] = "acquiring" =>
                 \/ job'[s] = job[s]
                 \/ now < job'[s].exp
<1>1. UNCHANGED <<now, pc, hb, lost, until>>
  BY DEF JobStep, JobStart, JobBegin, JobCommit, JobReturn, JobFails, dbVars, callerVars,
         heartVars
<1>2. CASE s # t
  BY <1>1, <1>2, JobGets
<1>3. CASE s = t
  <2> SUFFICES ASSUME job'[s].st = "got", pc[s] = "acquiring"
               PROVE  now < job'[s].exp
    BY <1>1
  <2>1. job[s].op = "acquire" /\ Won(s) /\ now < job[s].exp
    BY <1>3, JobGets DEF LeaseInv, Structure
  <2>2. JobReturn(s)
    BY <1>3, <2>1 DEF Won, JobStep, JobStart, JobBegin, JobCommit, JobFails
  <2>3. job' = [job EXCEPT ![s] = [job[s] EXCEPT !.st = "got"]]
    BY <2>1, <2>2 DEF JobReturn, SetJob, Won
  <2>4. job'[s].exp = job[s].exp
    BY <2>3 DEF LeaseInv, Types, TypeJob, JobRec
  <2> QED
    BY <2>1, <2>4
<1> QED
  BY <1>1, <1>2, <1>3

\* The heartbeat
LEMMA HeartMoves ==
    ASSUME LeaseInv, NEW t \in Sessions, HeartStep(t), NEW s \in Sessions
    PROVE  /\ UNCHANGED <<now, pc, job>>
           /\ hb[s].st = "off" => hb'[s].st = "off" /\ lost'[s] = lost[s]
           /\ until'[s] = until[s] \/ now < until'[s]
<1>1. UNCHANGED <<now, pc, job>>
  BY DEF HeartStep, HeartbeatWakes, RenewBegin, RenewCommit, RenewReturn, RenewFails, dbVars,
         callerVars
<1>2. hb[t].st # "off"
  BY DEF HeartStep, HeartbeatWakes, RenewBegin, RenewCommit, RenewReturn, RenewFails
<1>3. s # t => hb'[s] = hb[s] /\ lost'[s] = lost[s] /\ until'[s] = until[s]
  BY DEF HeartStep, HeartbeatWakes, RenewBegin, RenewCommit, RenewReturn, RenewFails,
         LeaseInv, Types, TypeBeat, TypeMem
<1>4. until'[t] = until[t] \/ now < until'[t]
  BY DEF HeartStep, HeartbeatWakes, RenewBegin, RenewCommit, RenewReturn, RenewFails,
         LeaseInv, Types, TypeMem
<1> QED
  BY <1>1, <1>2, <1>3, <1>4

\* The caller and its supervisor
LEMMA CallerMoves ==
    ASSUME LeaseInv, NEW t \in Sessions, NEW s \in Sessions,
           Enter(t) \/ CancelWaiter(t) \/ WaiterStep(t) \/ SupervisorStep(t)
    PROVE  /\ UNCHANGED <<now, hb, lost>>
           /\ pc[s] = "held" => pc'[s] = "held" /\ until'[s] = until[s]
           /\ pc[s] # "idle" => pc'[s] # "idle"
           /\ pc'[s] = "held" /\ pc[s] # "held" =>
                 pc[s] = "acquiring" /\ job[s].st = "got" /\ until'[s] = job[s].exp
           /\ pc'[s] = "acquiring" /\ job'[s].st = "got" =>
                 pc[s] = "acquiring" /\ job'[s] = job[s]
<1>1. UNCHANGED <<now, hb, lost>>
  BY DEF Enter, CancelWaiter, WaiterStep, AcquireEnds, AcquireCompensates, CleanupTimeout,
         ReleaseEnds, SupervisorStep, SuperviseAcquire, SuperviseRelease, dbVars, heartVars
<1>2. CASE s # t
  BY <1>1, <1>2 DEF Enter, CancelWaiter, WaiterStep, AcquireEnds, AcquireCompensates,
     CleanupTimeout, ReleaseEnds, SupervisorStep, SuperviseAcquire, SuperviseRelease, SetJob,
     LeaseInv, Types, TypeCaller, TypeJob, TypeMem
<1>3. CASE s = t /\ Enter(s)
  <2>1. job'[s].st = "ready"
    BY <1>3, NewJob DEF Enter, SetJob, LeaseInv, Types, TypeJob
  <2> QED
    BY <1>1, <1>3, <2>1 DEF Enter, LeaseInv, Types, TypeCaller
<1>4. CASE s = t /\ CancelWaiter(s)
  BY <1>1, <1>4 DEF CancelWaiter
<1>5. CASE s = t /\ AcquireEnds(s)
  BY <1>1, <1>5 DEF AcquireEnds, LeaseInv, Types, TypeCaller, TypeMem
<1>6. CASE s = t /\ (AcquireCompensates(s) \/ CleanupTimeout(s) \/ ReleaseEnds(s))
  BY <1>1, <1>6 DEF AcquireCompensates, CleanupTimeout, ReleaseEnds, LeaseInv, Types, TypeCaller
<1>7. CASE s = t /\ SupervisorStep(s)
  BY <1>1, <1>7 DEF SupervisorStep, SuperviseAcquire, SuperviseRelease, LeaseInv, Structure
<1> QED
  BY <1>2, <1>3, <1>4, <1>5, <1>6, <1>7 DEF WaiterStep

\* The manager
LEMMA ManagerMoves ==
    ASSUME LeaseInv, ManagerStep, NEW s \in Sessions
    PROVE  /\ UNCHANGED <<now, pc, hb, lost, until>>
           /\ pc[s] = "acquiring" => job'[s] = job[s]
<1>1. ASSUME NEW t \in Sessions, DrainCancel(t)
      PROVE  /\ UNCHANGED <<now, pc, hb, lost, until>>
             /\ pc[s] = "acquiring" => job'[s] = job[s]
  BY <1>1 DEF DrainCancel, SetJob, heartVars, LeaseInv, Types, TypeJob, Structure
<1> QED
  BY <1>1 DEF ManagerStep, BeginClose, EndClose, ForceRelease, CleanupExpired, dbVars,
              callerVars, heartVars

\* Together: what the contexts built on the lease need to know of its steps
LEMMA SessionMoves ==
    ASSUME LeaseInv, LeaseStep, NEW s \in Sessions
    PROVE  /\ pc[s] = "held" => pc'[s] = "held"
           /\ pc[s] # "idle" => pc'[s] # "idle"
           /\ hb[s].st = "off" => hb'[s].st = "off" /\ lost'[s] = lost[s]
           /\ pc[s] = "held" /\ now < until[s] => now' < until'[s]
           /\ pc'[s] = "held" /\ pc[s] # "held" =>
                 /\ pc[s] = "acquiring" /\ job[s].st = "got"
                 /\ now' = now /\ until'[s] = job[s].exp
           /\ pc'[s] = "acquiring" /\ job'[s].st = "got" =>
                 \/ now' < job'[s].exp
                 \/ now' <= now /\ pc[s] = "acquiring" /\ job'[s] = job[s]
<1>1. now \in Nat /\ until[s] \in Nat
  BY DEF LeaseInv, Types, TypeDb, TypeMem
<1>2. ASSUME NEW t \in Sessions, JobStep(t)
      PROVE  UNCHANGED <<now, pc, hb, lost, until>> /\
             (job'[s].st = "got" /\ pc[s] = "acquiring" => job'[s] = job[s] \/ now < job'[s].exp)
  BY <1>2, JobMoves
<1>3. CASE ClockBack
  BY <1>1, <1>3 DEF ClockBack, callerVars, heartVars
<1> QED
  BY <1>1, <1>2, <1>3, HeartMoves, CallerMoves, ManagerMoves DEF LeaseStep

-----------------------------------------------------------------------------
(* The invariant of the contexts                                           *)

\* Initially
LEMMA SnapBegins ==
    ASSUME Init
    PROVE  SnapInv
<1>1. LeaseInv
  BY LeaseBegins DEF Init
<1>2. TxTypes
  BY DEF Init, TxTypes, Contents
<1>3. Stages /\ Books
  BY BeatIs DEF Init, LeaseInit, Stages, Books
<1>4. PutBack /\ Handed /\ Covered
  BY DEF Init, LeaseInit, PutBack, Handed, Covered
<1> QED
  BY <1>1, <1>2, <1>3, <1>4 DEF SnapInv

\* Where nothing of the lease changes
LEMMA LeaseSame ==
    ASSUME LeaseInv, UNCHANGED leaseVars
    PROVE  LeaseInv'
  BY LeaseStutters DEF leaseVars, LeaseInv, Types, TypeBeat

\* A step of the lock table, its tasks and its manager
LEMMA LeaseStepSnap ==
    ASSUME SnapInv, LeaseStep, UNCHANGED txVars
    PROVE  SnapInv'
<1>1. LeaseInv'
  BY LeaseStepKeeps DEF SnapInv
<1>2. /\ UNCHANGED <<force, stage, exc, snap, restored, failed, stray, file>>
      /\ \A s \in Sessions : Kept(s)' = Kept(s)
  BY DEF txVars, Kept
<1>3. TxTypes'
  BY <1>2 DEF SnapInv, TxTypes
<1>4. Stages'
  BY <1>2, SessionMoves DEF SnapInv, Stages
<1>5. Books'
  <2> SUFFICES ASSUME NEW s \in Sessions, stage[s] \in {"release", "done"}
               PROVE  ShouldRollBack(s)' = ShouldRollBack(s)
    BY <1>2 DEF SnapInv, Books
  <2>1. hb[s].st = "off"
    BY DEF SnapInv, Stages
  <2> QED
    BY <1>2, <2>1, SessionMoves DEF SnapInv, ShouldRollBack
<1>6. PutBack'
  BY <1>2, SessionMoves DEF SnapInv, PutBack
<1>7. Handed'
  <2> SUFFICES ASSUME Pace # "free", NEW s \in Sessions, pc'[s] = "acquiring", job'[s].st = "got"
               PROVE  now' < job'[s].exp
    BY DEF Handed
  <2>1. now \in Nat /\ now' \in Nat /\ job'[s].exp \in Nat
    BY <1>1, JobFields DEF SnapInv, LeaseInv, Types, TypeDb, TypeJob, JobRec
  <2> QED
    BY <2>1, SessionMoves DEF SnapInv, Handed
<1>8. Covered'
  <2> SUFFICES ASSUME Pace \in {"entered", "timely"}, NEW s \in Sessions, pc'[s] = "held",
                      TermGuarded(s)'
               PROVE  now' < until'[s]
    BY DEF Covered
  <2>1. CASE pc[s] = "held"
    BY <1>2, <2>1, SessionMoves DEF SnapInv, Covered, TermGuarded
  <2>2. CASE pc[s] # "held"
    BY <2>2, SessionMoves DEF SnapInv, Handed
  <2> QED
    BY <2>1, <2>2
<1> QED
  BY <1>1, <1>3, <1>4, <1>5, <1>6, <1>7, <1>8 DEF SnapInv

\* The passing of time
LEMMA TxTickSnap ==
    ASSUME SnapInv, TxTick
    PROVE  SnapInv'
<1>1. LeaseInv'
  BY TickStep DEF SnapInv, TxTick
<1>2. UNCHANGED <<force, stage, exc, snap, restored, failed, stray, file>>
  BY DEF TxTick, txVars
<1>3. UNCHANGED <<pc, job, hb, lost, until>>
  BY DEF TxTick, Tick, callerVars, heartVars
<1>4. TxTypes'
  BY <1>2 DEF SnapInv, TxTypes
<1>5. Stages' /\ Books'
  BY <1>2, <1>3 DEF SnapInv, Stages, Books, Kept, ShouldRollBack
<1>6. PutBack'
  BY <1>2, <1>3 DEF SnapInv, PutBack
<1>7. Handed'
  BY <1>3 DEF SnapInv, Handed, TxTick
<1>8. Covered'
  BY <1>2, <1>3 DEF SnapInv, Covered, TermGuarded, TxTick
<1> QED
  BY <1>1, <1>4, <1>5, <1>6, <1>7, <1>8 DEF SnapInv

\* SnapInv is kept when a snapshot is taken.
LEMMA TakeSnapshotSnap ==
    ASSUME SnapInv, NEW s \in Sessions, NEW f \in Files, TakeSnapshot(s, f)
    PROVE  SnapInv'
<1>1. LeaseInv'
  BY LeaseSame DEF SnapInv, TakeSnapshot
<1>2. UNCHANGED <<now, pc, job, hb, lost, until>>
  BY DEF TakeSnapshot, leaseVars
<1>3. TxTypes'
  BY <1>2 DEF SnapInv, TxTypes, Contents, Kept, Pending, Goes, Raises, TakeSnapshot
<1>4. Stages'
  BY <1>2 DEF SnapInv, TxTypes, Stages, Kept, Goes, Raises, TakeSnapshot
<1>5. Books'
  BY <1>2 DEF SnapInv, TxTypes, Stages, Books, Kept, Pending, ShouldRollBack, Goes,
     Raises, TakeSnapshot
<1>6. PutBack'
  BY <1>2 DEF SnapInv, LeaseInv, Types, TypeCaller, TxTypes, Stages, Books, PutBack, Kept,
     Pending, Goes, Raises, TakeSnapshot
<1>7. Handed'
  BY <1>2 DEF SnapInv, LeaseInv, Types, TypeCaller, Handed, Goes, Raises, TakeSnapshot
<1>8. Covered'
  BY <1>2 DEF SnapInv, LeaseInv, Types, TypeCaller, TxTypes, Stages, Covered, TermGuarded,
     Goes, Raises, TakeSnapshot
<1> QED
  BY <1>1, <1>3, <1>4, <1>5, <1>6, <1>7, <1>8 DEF SnapInv

\* SnapInv is kept when a snapshot fails.
LEMMA EnterFailsSnap ==
    ASSUME SnapInv, NEW s \in Sessions, EnterFails(s)
    PROVE  SnapInv'
<1>1. LeaseInv'
  BY StartReleaseStep DEF SnapInv, EnterFails
<1>2. /\ UNCHANGED <<now, hb, lost>> /\ pc' = [pc EXCEPT ![s] = "releasing"]
      /\ \A t \in Sessions \ {s} : job'[t] = job[t] /\ until'[t] = until[t]
  BY DEF EnterFails, StartRelease, SetJob, dbVars, heartVars, SnapInv, LeaseInv, Types,
     TypeJob, TypeMem
<1>3. TxTypes'
  BY <1>2 DEF SnapInv, TxTypes, Contents, Kept, Pending, Goes, Raises, EnterFails
<1>4. Stages'
  BY <1>2 DEF SnapInv, TxTypes, Stages, Kept, Goes, Raises, EnterFails
<1>5. Books'
  <2>1. /\ UNCHANGED <<force, snap, restored, failed, stray>>
        /\ stage'[s] = "refused" /\ \A t \in Sessions \ {s} : stage'[t] = stage[t]
        /\ \A t \in Sessions \ {s} : exc'[t] = exc[t]
    BY DEF SnapInv, TxTypes, EnterFails, Goes, Raises
  <2>2. restored[s] = {} /\ failed[s] = {} /\ \A t \in Sessions : Kept(t)' = Kept(t)
    BY <2>1 DEF SnapInv, Books, EnterFails, Kept
  <2>3. \A t \in Sessions \ {s} : ShouldRollBack(t)' = ShouldRollBack(t)
    BY <1>2, <2>1 DEF ShouldRollBack
  <2> QED
    BY <2>1, <2>2, <2>3 DEF SnapInv, Books
<1>6. PutBack'
  BY <1>2 DEF SnapInv, LeaseInv, Types, TypeCaller, TxTypes, Stages, Books, PutBack, Kept,
     Pending, Goes, Raises, EnterFails
<1>7. Handed'
  BY <1>2 DEF SnapInv, LeaseInv, Types, TypeCaller, Handed, Goes, Raises, EnterFails
<1>8. Covered'
  BY <1>2 DEF SnapInv, LeaseInv, Types, TypeCaller, TxTypes, Stages, Covered, TermGuarded,
     Goes, Raises, EnterFails
<1> QED
  BY <1>1, <1>3, <1>4, <1>5, <1>6, <1>7, <1>8 DEF SnapInv

\* SnapInv is kept when the body is entered.
LEMMA EnteredSnap ==
    ASSUME SnapInv, NEW s \in Sessions, Entered(s)
    PROVE  SnapInv'
<1>1. LeaseInv'
  BY StartHeartbeatStep DEF SnapInv, Entered
<1>2. /\ UNCHANGED <<now, pc, job, until, lost>> /\ pc[s] = "held"
      /\ \A t \in Sessions \ {s} : hb'[t] = hb[t]
  BY BeatIs DEF Entered, StartHeartbeat, dbVars, callerVars, SnapInv, LeaseInv, Types,
     TypeBeat
<1>3. TxTypes'
  BY <1>2 DEF SnapInv, TxTypes, Contents, Kept, Pending, Goes, Raises, Entered
<1>4. Stages'
  BY <1>2 DEF SnapInv, TxTypes, Stages, Kept, Goes, Raises, Entered
<1>5. Books'
  <2>1. /\ UNCHANGED <<force, snap, restored, failed, stray>>
        /\ stage'[s] = "body" /\ \A t \in Sessions \ {s} : stage'[t] = stage[t]
        /\ \A t \in Sessions \ {s} : exc'[t] = exc[t]
    BY DEF SnapInv, TxTypes, Entered, Goes, Raises
  <2>2. restored[s] = {} /\ failed[s] = {} /\ \A t \in Sessions : Kept(t)' = Kept(t)
    BY <2>1 DEF SnapInv, Books, Entered, Kept
  <2>3. \A t \in Sessions \ {s} : ShouldRollBack(t)' = ShouldRollBack(t)
    BY <1>2, <2>1 DEF ShouldRollBack
  <2> QED
    BY <2>1, <2>2, <2>3 DEF SnapInv, Books
<1>6. PutBack'
  BY <1>2 DEF SnapInv, LeaseInv, Types, TypeCaller, TxTypes, Stages, Books, PutBack, Kept,
     Pending, Goes, Raises, Entered
<1>7. Handed'
  BY <1>2 DEF SnapInv, LeaseInv, Types, TypeCaller, Handed, Goes, Raises, Entered
<1>8. Covered'
  BY <1>2 DEF SnapInv, LeaseInv, Types, TypeCaller, TxTypes, Stages, Covered, TermGuarded,
     Goes, Raises, Entered
<1> QED
  BY <1>1, <1>3, <1>4, <1>5, <1>6, <1>7, <1>8 DEF SnapInv

\* SnapInv is kept when the body writes a file.
LEMMA WriteSnap ==
    ASSUME SnapInv, NEW s \in Sessions, NEW f \in Files, Write(s, f)
    PROVE  SnapInv'
<1>1. LeaseInv'
  BY LeaseSame DEF SnapInv, Write
<1>2. UNCHANGED <<now, pc, job, hb, lost, until>>
  BY DEF Write, leaseVars
<1>3. TxTypes'
  BY <1>2 DEF SnapInv, TxTypes, Contents, Kept, Pending, Goes, Raises, Write
<1>4. Stages'
  BY <1>2 DEF SnapInv, TxTypes, Stages, Kept, Goes, Raises, Write
<1>5. Books'
  BY <1>2 DEF SnapInv, TxTypes, Stages, Books, Kept, Pending, ShouldRollBack, Goes,
     Raises, Write
<1>6. PutBack'
  BY <1>2 DEF SnapInv, LeaseInv, Types, TypeCaller, TxTypes, Stages, Books, PutBack, Kept,
     Pending, Goes, Raises, Write
<1>7. Handed'
  BY <1>2 DEF SnapInv, LeaseInv, Types, TypeCaller, Handed, Goes, Raises, Write
<1>8. Covered'
  BY <1>2 DEF SnapInv, LeaseInv, Types, TypeCaller, TxTypes, Stages, Covered, TermGuarded,
     Goes, Raises, Write
<1> QED
  BY <1>1, <1>3, <1>4, <1>5, <1>6, <1>7, <1>8 DEF SnapInv

\* SnapInv is kept when the body ends.
LEMMA BodyEndsSnap ==
    ASSUME SnapInv, NEW s \in Sessions, BodyEnds(s)
    PROVE  SnapInv'
<1>1. LeaseInv'
  BY LeaseSame DEF SnapInv, BodyEnds
<1>2. UNCHANGED <<now, pc, job, hb, lost, until>>
  BY DEF BodyEnds, leaseVars
<1>3. TxTypes'
  BY <1>2 DEF SnapInv, TxTypes, Contents, Kept, Pending, Goes, Raises, BodyEnds
<1>4. Stages'
  BY <1>2 DEF SnapInv, TxTypes, Stages, Kept, Goes, Raises, BodyEnds
<1>5. Books'
  <2>1. /\ UNCHANGED <<force, snap, restored, failed, stray>>
        /\ stage'[s] = "exit" /\ \A t \in Sessions \ {s} : stage'[t] = stage[t]
        /\ \A t \in Sessions \ {s} : exc'[t] = exc[t]
    BY DEF SnapInv, TxTypes, BodyEnds, Goes, Raises
  <2>2. restored[s] = {} /\ failed[s] = {} /\ \A t \in Sessions : Kept(t)' = Kept(t)
    BY <2>1 DEF SnapInv, Books, BodyEnds, Kept
  <2>3. \A t \in Sessions \ {s} : ShouldRollBack(t)' = ShouldRollBack(t)
    BY <1>2, <2>1 DEF ShouldRollBack
  <2> QED
    BY <2>1, <2>2, <2>3 DEF SnapInv, Books
<1>6. PutBack'
  BY <1>2 DEF SnapInv, LeaseInv, Types, TypeCaller, TxTypes, Stages, Books, PutBack, Kept,
     Pending, Goes, Raises, BodyEnds
<1>7. Handed'
  BY <1>2 DEF SnapInv, LeaseInv, Types, TypeCaller, Handed, Goes, Raises, BodyEnds
<1>8. Covered'
  BY <1>2 DEF SnapInv, LeaseInv, Types, TypeCaller, TxTypes, Stages, Covered, TermGuarded,
     Goes, Raises, BodyEnds
<1> QED
  BY <1>1, <1>3, <1>4, <1>5, <1>6, <1>7, <1>8 DEF SnapInv

\* SnapInv is kept when assert_owned raises.
LEMMA AssertOwnedFailsSnap ==
    ASSUME SnapInv, NEW s \in Sessions, AssertOwnedFails(s)
    PROVE  SnapInv'
<1>1. LeaseInv'
  BY LeaseStutters DEF SnapInv, LeaseInv, Types, TypeBeat, AssertOwnedFails, dbVars,
     callerVars
<1>2. /\ UNCHANGED <<now, pc, job, until, hb>>
      /\ \A t \in Sessions \ {s} : lost'[t] = lost[t]
  BY DEF AssertOwnedFails, dbVars, callerVars, SnapInv, LeaseInv, Types, TypeBeat
<1>3. TxTypes'
  BY <1>2 DEF SnapInv, TxTypes, Contents, Kept, Pending, Goes, Raises, AssertOwnedFails
<1>4. Stages'
  BY <1>2 DEF SnapInv, TxTypes, Stages, Kept, Goes, Raises, AssertOwnedFails
<1>5. Books'
  BY <1>2, SMTT(40) DEF SnapInv, TxTypes, Stages, Books, Kept, Pending, ShouldRollBack, Goes,
     Raises, AssertOwnedFails
<1>6. PutBack'
  BY <1>2 DEF SnapInv, LeaseInv, Types, TypeCaller, TxTypes, Stages, Books, PutBack, Kept,
     Pending, Goes, Raises, AssertOwnedFails
<1>7. Handed'
  BY <1>2 DEF SnapInv, LeaseInv, Types, TypeCaller, Handed, Goes, Raises, AssertOwnedFails
<1>8. Covered'
  BY <1>2 DEF SnapInv, LeaseInv, Types, TypeCaller, TxTypes, Stages, Covered, TermGuarded,
     Goes, Raises, AssertOwnedFails
<1> QED
  BY <1>1, <1>3, <1>4, <1>5, <1>6, <1>7, <1>8 DEF SnapInv

\* SnapInv is kept when the exit stops the heartbeat and decides.
LEMMA ExitStopsSnap ==
    ASSUME SnapInv, NEW s \in Sessions, ExitStops(s)
    PROVE  SnapInv'
<1>1. LeaseInv'
  BY LeaseSame, StopHeartbeatStep DEF SnapInv, ExitStops
<1>2. /\ UNCHANGED <<now, pc, job, until, lost>> /\ hb'[s].st = "off"
      /\ \A t \in Sessions \ {s} : hb'[t] = hb[t]
  BY BeatIs DEF ExitStops, StopHeartbeat, leaseVars, callerVars, SnapInv, LeaseInv, Types,
     TypeBeat
<1>3. TxTypes'
  BY <1>2 DEF SnapInv, TxTypes, Contents, Kept, Pending, Goes, Raises, ExitStops
<1>4. Stages'
  BY <1>2 DEF SnapInv, TxTypes, Stages, Kept, Goes, Raises, ExitStops
<1>5. Books'
  BY <1>2 DEF SnapInv, TxTypes, Stages, Books, Kept, Pending, ShouldRollBack, Goes,
     Raises, ExitStops
<1>6. PutBack'
  BY <1>2 DEF SnapInv, LeaseInv, Types, TypeCaller, TxTypes, Stages, Books, PutBack, Kept,
     Pending, Goes, Raises, ExitStops
<1>7. Handed'
  BY <1>2 DEF SnapInv, LeaseInv, Types, TypeCaller, Handed, Goes, Raises, ExitStops
<1>8. Covered'
  BY <1>2 DEF SnapInv, LeaseInv, Types, TypeCaller, TxTypes, Stages, Covered, TermGuarded,
     Goes, Raises, ExitStops
<1> QED
  BY <1>1, <1>3, <1>4, <1>5, <1>6, <1>7, <1>8 DEF SnapInv

\* SnapInv is kept when a file is put back.
LEMMA RestoreSnap ==
    ASSUME SnapInv, NEW s \in Sessions, NEW f \in Files, Restore(s, f)
    PROVE  SnapInv'
<1>1. LeaseInv'
  BY LeaseSame DEF SnapInv, Restore
<1>2. UNCHANGED <<now, pc, job, hb, lost, until>>
  BY DEF Restore, leaseVars
<1>3. TxTypes'
  BY <1>2 DEF SnapInv, TxTypes, Contents, Kept, Pending, Goes, Raises, Restore
<1>4. Stages'
  BY <1>2 DEF SnapInv, TxTypes, Stages, Kept, Goes, Raises, Restore
<1>5. Books'
  BY <1>2 DEF SnapInv, TxTypes, Stages, Books, Kept, Pending, ShouldRollBack, Goes,
     Raises, Restore
<1>6. PutBack'
  BY <1>2, SMTT(40) DEF SnapInv, LeaseInv, Types, TypeCaller, TxTypes, Stages, Books, PutBack,
     Kept, Pending, Goes, Raises, Restore
<1>7. Handed'
  BY <1>2 DEF SnapInv, LeaseInv, Types, TypeCaller, Handed, Goes, Raises, Restore
<1>8. Covered'
  BY <1>2 DEF SnapInv, LeaseInv, Types, TypeCaller, TxTypes, Stages, Covered, TermGuarded,
     Goes, Raises, Restore
<1> QED
  BY <1>1, <1>3, <1>4, <1>5, <1>6, <1>7, <1>8 DEF SnapInv

\* SnapInv is kept when a file is not put back.
LEMMA RestoreFailsSnap ==
    ASSUME SnapInv, NEW s \in Sessions, NEW f \in Files, RestoreFails(s, f)
    PROVE  SnapInv'
<1>1. LeaseInv'
  BY LeaseSame DEF SnapInv, RestoreFails
<1>2. UNCHANGED <<now, pc, job, hb, lost, until>>
  BY DEF RestoreFails, leaseVars
<1>3. TxTypes'
  BY <1>2 DEF SnapInv, TxTypes, Contents, Kept, Pending, Goes, Raises, RestoreFails
<1>4. Stages'
  BY <1>2 DEF SnapInv, TxTypes, Stages, Kept, Goes, Raises, RestoreFails
<1>5. Books'
  BY <1>2, SMTT(40) DEF SnapInv, TxTypes, Stages, Books, Kept, Pending, ShouldRollBack, Goes,
     Raises, RestoreFails
<1>6. PutBack'
  <2>1. f \notin restored[s] /\ pc[s] = "held" /\ restored' = restored /\ snap' = snap
    BY DEF SnapInv, Stages, RestoreFails, Pending
  <2>2. \A g \in Files \ {f} : file'[g] = file[g]
    BY DEF SnapInv, TxTypes, RestoreFails
  <2> QED
    BY <1>2, <2>1, <2>2 DEF SnapInv, TxTypes, PutBack
<1>7. Handed'
  BY <1>2 DEF SnapInv, LeaseInv, Types, TypeCaller, Handed, Goes, Raises, RestoreFails
<1>8. Covered'
  BY <1>2 DEF SnapInv, LeaseInv, Types, TypeCaller, TxTypes, Stages, Covered, TermGuarded,
     Goes, Raises, RestoreFails
<1> QED
  BY <1>1, <1>3, <1>4, <1>5, <1>6, <1>7, <1>8 DEF SnapInv

\* SnapInv is kept when a rollback is cancelled.
LEMMA RollbackCancelledSnap ==
    ASSUME SnapInv, NEW s \in Sessions, RollbackCancelled(s)
    PROVE  SnapInv'
<1>1. LeaseInv'
  BY LeaseSame DEF SnapInv, RollbackCancelled
<1>2. UNCHANGED <<now, pc, job, hb, lost, until>>
  BY DEF RollbackCancelled, leaseVars
<1>3. TxTypes'
  BY <1>2 DEF SnapInv, TxTypes, Contents, Kept, Pending, Goes, Raises, RollbackCancelled
<1>4. Stages'
  BY <1>2 DEF SnapInv, TxTypes, Stages, Kept, Goes, Raises, RollbackCancelled
<1>5. Books'
  BY <1>2, SMTT(40) DEF SnapInv, TxTypes, Stages, Books, Kept, Pending, ShouldRollBack, Goes,
     Raises, RollbackCancelled
<1>6. PutBack'
  BY <1>2 DEF SnapInv, LeaseInv, Types, TypeCaller, TxTypes, Stages, Books, PutBack, Kept,
     Pending, Goes, Raises, RollbackCancelled
<1>7. Handed'
  BY <1>2 DEF SnapInv, LeaseInv, Types, TypeCaller, Handed, Goes, Raises,
     RollbackCancelled
<1>8. Covered'
  BY <1>2 DEF SnapInv, LeaseInv, Types, TypeCaller, TxTypes, Stages, Covered, TermGuarded,
     Goes, Raises, RollbackCancelled
<1> QED
  BY <1>1, <1>3, <1>4, <1>5, <1>6, <1>7, <1>8 DEF SnapInv

\* SnapInv is kept when the copy thread of a cancelled restore ends.
LEMMA StrayCopySnap ==
    ASSUME SnapInv, NEW s \in Sessions, NEW f \in Files, StrayCopy(s, f)
    PROVE  SnapInv'
<1>1. LeaseInv'
  BY LeaseSame DEF SnapInv, StrayCopy
<1>2. UNCHANGED <<now, pc, job, hb, lost, until>>
  BY DEF StrayCopy, leaseVars
<1>3. TxTypes'
  <2>1. snap[s][f] \in Contents
    BY DEF SnapInv, TxTypes, Books, Kept, StrayCopy
  <2> QED
    BY <2>1 DEF SnapInv, TxTypes, StrayCopy
<1>4. Stages'
  BY <1>2 DEF SnapInv, TxTypes, Stages, Kept, Goes, Raises, StrayCopy
<1>5. Books'
  BY <1>2, SMTT(40) DEF SnapInv, TxTypes, Stages, Books, Kept, Pending, ShouldRollBack, Goes,
     Raises, StrayCopy
<1>6. PutBack'
  <2>1. pc[s] # "idle" /\ restored' = restored /\ snap' = snap
    BY DEF SnapInv, Stages, Books, StrayCopy
  <2>2. file'[f] = snap[s][f] /\ \A g \in Files \ {f} : file'[g] = file[g]
    BY DEF SnapInv, TxTypes, StrayCopy
  <2> QED
    BY <1>2, <2>1, <2>2 DEF SnapInv, TxTypes, PutBack
<1>7. Handed'
  BY <1>2 DEF SnapInv, LeaseInv, Types, TypeCaller, Handed, Goes, Raises, StrayCopy
<1>8. Covered'
  BY <1>2 DEF SnapInv, LeaseInv, Types, TypeCaller, TxTypes, Stages, Covered, TermGuarded,
     Goes, Raises, StrayCopy
<1> QED
  BY <1>1, <1>3, <1>4, <1>5, <1>6, <1>7, <1>8 DEF SnapInv

\* SnapInv is kept when a rollback ends.
LEMMA RollbackEndsSnap ==
    ASSUME SnapInv, NEW s \in Sessions, RollbackEnds(s)
    PROVE  SnapInv'
<1>1. LeaseInv'
  BY LeaseSame DEF SnapInv, RollbackEnds
<1>2. UNCHANGED <<now, pc, job, hb, lost, until>>
  BY DEF RollbackEnds, leaseVars
<1>3. TxTypes'
  BY <1>2 DEF SnapInv, TxTypes, Contents, Kept, Pending, Goes, Raises, RollbackEnds
<1>4. Stages'
  BY <1>2 DEF SnapInv, TxTypes, Stages, Kept, Goes, Raises, RollbackEnds
<1>5. Books'
  BY <1>2 DEF SnapInv, TxTypes, Stages, Books, Kept, Pending, ShouldRollBack, Goes,
     Raises, RollbackEnds
<1>6. PutBack'
  BY <1>2 DEF SnapInv, LeaseInv, Types, TypeCaller, TxTypes, Stages, Books, PutBack, Kept,
     Pending, Goes, Raises, RollbackEnds
<1>7. Handed'
  BY <1>2 DEF SnapInv, LeaseInv, Types, TypeCaller, Handed, Goes, Raises, RollbackEnds
<1>8. Covered'
  BY <1>2 DEF SnapInv, LeaseInv, Types, TypeCaller, TxTypes, Stages, Covered, TermGuarded,
     Goes, Raises, RollbackEnds
<1> QED
  BY <1>1, <1>3, <1>4, <1>5, <1>6, <1>7, <1>8 DEF SnapInv

\* SnapInv is kept when the exit releases the lease.
LEMMA ExitReleasesSnap ==
    ASSUME SnapInv, NEW s \in Sessions, ExitReleases(s)
    PROVE  SnapInv'
<1>1. LeaseInv'
  BY StartReleaseStep DEF SnapInv, ExitReleases
<1>2. /\ UNCHANGED <<now, hb, lost>> /\ pc' = [pc EXCEPT ![s] = "releasing"]
      /\ \A t \in Sessions \ {s} : job'[t] = job[t] /\ until'[t] = until[t]
  BY DEF ExitReleases, StartRelease, SetJob, dbVars, heartVars, SnapInv, LeaseInv, Types,
     TypeJob, TypeMem
<1>3. TxTypes'
  BY <1>2 DEF SnapInv, TxTypes, Contents, Kept, Pending, Goes, Raises, ExitReleases
<1>4. Stages'
  BY <1>2 DEF SnapInv, TxTypes, Stages, Kept, Goes, Raises, ExitReleases
<1>5. Books'
  BY <1>2 DEF SnapInv, TxTypes, Stages, Books, Kept, Pending, ShouldRollBack, Goes,
     Raises, ExitReleases
<1>6. PutBack'
  BY <1>2 DEF SnapInv, LeaseInv, Types, TypeCaller, TxTypes, Stages, Books, PutBack, Kept,
     Pending, Goes, Raises, ExitReleases
<1>7. Handed'
  BY <1>2 DEF SnapInv, LeaseInv, Types, TypeCaller, Handed, Goes, Raises, ExitReleases
<1>8. Covered'
  BY <1>2 DEF SnapInv, LeaseInv, Types, TypeCaller, TxTypes, Stages, Covered, TermGuarded,
     Goes, Raises, ExitReleases
<1> QED
  BY <1>1, <1>3, <1>4, <1>5, <1>6, <1>7, <1>8 DEF SnapInv

\* SnapInv survives every step.
LEMMA SnapNext ==
    ASSUME SnapInv, [Next]_vars
    PROVE  SnapInv'
<1>1. CASE UNCHANGED vars
  <2>1. LeaseInv' /\ TxTypes'
    BY <1>1, LeaseSame DEF SnapInv, TxTypes, vars, txVars
  <2>2. Stages' /\ Books' /\ PutBack'
    BY <1>1 DEF SnapInv, Stages, Books, PutBack, Kept, ShouldRollBack, vars, leaseVars, txVars
  <2>3. Handed' /\ Covered'
    BY <1>1 DEF SnapInv, Handed, Covered, TermGuarded, vars, leaseVars, txVars
  <2> QED
    BY <2>1, <2>2, <2>3 DEF SnapInv
<1>2. ASSUME NEW s \in Sessions, TxStep(s)
      PROVE  SnapInv'
  BY <1>2, EnterFailsSnap, EnteredSnap, BodyEndsSnap, AssertOwnedFailsSnap, ExitStopsSnap,
     RollbackCancelledSnap, RollbackEndsSnap, ExitReleasesSnap, TakeSnapshotSnap, WriteSnap,
     RestoreSnap, RestoreFailsSnap, StrayCopySnap DEF TxStep
<1> QED
  BY <1>1, <1>2, LeaseStepSnap, TxTickSnap DEF Next

\* SnapInv holds in every reachable state.
LEMMA SnapInvariant == Spec => []SnapInv
  BY SnapBegins, SnapNext, PTL DEF Spec

-----------------------------------------------------------------------------
(* What follows from it                                                    *)

\* The state of the contexts has its type, the lock table's included.
THEOREM ContextTypes == Spec => []TypeOK
<1>1. ASSUME SnapInv PROVE TypeOK
  <2>1. LeaseTypeOK
    BY <1>1 DEF SnapInv, LeaseInv, Types, TypeDb, TypeRow, TypeTx, TypeCaller, TypeJob, TypeMem,
                TypeBeat, JobRec, JobStates, BeatRec, LeaseTypeOK
  <2> QED
    BY <1>1, <2>1 DEF SnapInv, TxTypes, Contents, TypeOK
<1> QED
  BY <1>1, SnapInvariant, PTL

\* A rollback that __aexit__ reports as complete put every file back: whatever
\* was cancelled, broke off or failed, and whatever became of the lease, the
\* files are as the snapshots recorded them as long as no other context has
\* been let in.
THEOREM ReportsAreTrue == Spec => []RollbackReportTruthful
<1>1. ASSUME SnapInv PROVE RollbackReportTruthful
  <2> SUFFICES ASSUME NEW s \in Sessions, rollback_completed(s),
                      \A t \in Sessions \ {s} : pc[t] = "idle", NEW f \in Files
               PROVE  file[f] = snap[s][f]
    BY DEF RollbackReportTruthful
  <2>1. f \in restored[s]
    BY <1>1 DEF SnapInv, Stages, Books, rollback_completed
  <2> QED
    BY <1>1, <2>1 DEF SnapInv, PutBack
<1> QED
  BY <1>1, SnapInvariant, PTL

\* Only a restore and the copy thread a cancelled one leaves behind put a file
\* back.
LEMMA PutsBackWhen ==
    ASSUME SnapInv, [Next]_vars, NEW s \in Sessions, NEW f \in Files, PutsBack(s, f)
    PROVE  stage[s] = "rollback" \/ f \in stray[s]
<1> SUFFICES ASSUME f \in restored'[s] \ restored[s]
             PROVE  stage[s] = "rollback"
  BY DEF PutsBack
<1>1. restored' # restored
  OBVIOUS
<1>2. PICK t \in Sessions, g \in Files : Restore(t, g)
  BY <1>1 DEF Next, vars, txVars, TxTick, TxStep, EnterFails, Entered, BodyEnds,
     AssertOwnedFails, ExitStops, RollbackCancelled, RollbackEnds, ExitReleases, TakeSnapshot,
     Write, RestoreFails, StrayCopy
<1>3. s = t
  BY <1>2 DEF SnapInv, TxTypes, Restore
<1> QED
  BY <1>2, <1>3 DEF Restore

\* The rollback comes before the release: a file is put back by a context that
\* holds its lease, or by the copy thread of a restore that was cancelled, and
\* then the file was reported as not restored.
THEOREM RestoredUnderLease == Spec => RestoreBeforeRelease
<1>1. ASSUME SnapInv, [Next]_vars, NEW s \in Sessions, NEW f \in Files, PutsBack(s, f)
      PROVE  pc[s] = "held" \/ f \in failed[s]
  BY <1>1, PutsBackWhen DEF SnapInv, Stages, Books
<1>2. SnapInv /\ [Next]_vars =>
         [\A s \in Sessions, f \in Files : PutsBack(s, f) => pc[s] = "held" \/ f \in failed[s]]_vars
  BY <1>1
<1> QED
  BY <1>2, SnapInvariant, PTL DEF Spec, RestoreBeforeRelease

\* Where the clock is not stepped back and nobody forces a release, a context
\* whose guarded term lies ahead has the row.
LEMMA TermIsHeld ==
    ASSUME MaxBack = 0, MaxForced = 0, SnapInv, NEW s \in Sessions, pc[s] = "held",
           now < until[s]
    PROVE  owner = s /\ ReleaseHits(s)
<1>1. spent.back = 0 /\ spent.forced = 0
  BY DEF SnapInv, LeaseInv, Types, TypeDb
<1>2. row # NoRow /\ owner = s /\ until[s] <= row.exp
  BY <1>1 DEF SnapInv, LeaseInv, TermInv, Lease
<1>3. now < row.exp
  BY <1>2, Fields DEF SnapInv, LeaseInv, Types, TypeDb, TypeMem
<1> QED
  BY <1>1, <1>2, <1>3 DEF SnapInv, LeaseInv, OwnInv, Excused, Structure

\* "Safe zone -- lock held": where the snapshots are taken within the term and
\* every renewal comes before it ends, the clock is not stepped back and nobody
\* forces a release, the row is the context's as long as its heartbeat beats.
THEOREM BodyIsSafe ==
    ASSUME Pace \in {"entered", "timely"}, MaxBack = 0, MaxForced = 0
    PROVE  Spec => []SafeZoneHeld
<1>1. ASSUME SnapInv PROVE SafeZoneHeld
  <2> SUFFICES ASSUME NEW s \in Sessions, stage[s] = "body", hb[s].st # "off"
               PROVE  owner = s /\ ReleaseHits(s)
    BY DEF SafeZoneHeld
  <2>1. pc[s] = "held" /\ now < until[s]
    BY <1>1 DEF SnapInv, Stages, Covered, TermGuarded
  <2> QED
    BY <1>1, <2>1, TermIsHeld
<1> QED
  BY <1>1, SnapInvariant, PTL

\* "We never clobber a concurrent owner's mutations": where, besides, the
\* rollback ends within the term and is not cancelled half way, no restore
\* overwrites what a context with a running lease has written; a rollback is
\* forced or not.
THEOREM NothingClobbered ==
    ASSUME Pace = "timely", ~MayCancelRestore, MaxBack = 0, MaxForced = 0
    PROVE  Spec => RestoreNeverClobbers
<1>1. ASSUME SnapInv, [Next]_vars, NEW s \in Sessions, NEW f \in Files, NEW t \in Sessions,
             PutsBack(s, f), t # s, pc[t] = "held", now < until[t]
      PROVE  FALSE
  <2>1. stage[s] = "rollback"
    BY <1>1, PutsBackWhen DEF SnapInv, Books
  <2>2. pc[s] = "held" /\ now < until[s]
    BY <1>1, <2>1 DEF SnapInv, Stages, Covered, TermGuarded
  <2> QED
    BY <1>1, <2>2, TermIsHeld
<1>2. SnapInv /\ [Next]_vars =>
         [\A s \in Sessions, f \in Files, t \in Sessions :
             PutsBack(s, f) /\ t # s /\ file[f] = t => ~(pc[t] = "held" /\ now < until[t])]_vars
  BY <1>1
<1> QED
  BY <1>2, SnapInvariant, PTL DEF Spec, RestoreNeverClobbers
=============================================================================
