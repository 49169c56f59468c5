----------------------------- MODULE DbLifecycle -----------------------------
(***************************************************************************)
(* DatabaseLifecycleManager (sky_claw/app/core/db_lifecycle.py): the one   *)
(* object that owns the SQLite connections of a process.  Several asyncio  *)
(* tasks ask it for work at once; every await is a point where another     *)
(* task may run or where the task may be cancelled.                        *)
(*                                                                         *)
(* The manager's own state is the registry (one connection per path), the  *)
(* quarantine, the admission counter with its drained event and the three  *)
(* kinds of lock.  A connection is a number handed out by aiosqlite; the   *)
(* file behind a path is a generation number that a forensic rename bumps. *)
(***************************************************************************)
EXTENDS Integers, FiniteSets

CONSTANTS
    Tasks,      \* asyncio tasks that call the manager
    Paths,      \* database files (resolved paths)
    Ops,        \* the public operations those tasks call
    MaxConns,   \* bound: how many connections are ever opened
    NoTask      \* "the lock is free"

AllOps == {"operation", "transaction", "get_connection", "checkpoint_all",
           "recover_connection", "init_all", "shutdown_all"}

ASSUME ConstantsAssumption ==
    /\ Ops \subseteq AllOps
    /\ MaxConns \in Nat
    /\ IsFiniteSet(Tasks)
    /\ NoTask \notin Tasks

NoConn == 0
Conns  == 1..MaxConns

VARIABLES
    shuttingDown,   \* _shutting_down
    closed,         \* _closed
    admitted,       \* _admitted
    drained,        \* _drained, the asyncio.Event
    transitionLock, \* _transition_lock: its holder
    initLock,       \* _init_lock: its holder
    pathLock,       \* _write_locks[path]: its holder
    connections,    \* _connections
    quarantined,    \* _quarantined_paths
    dbPaths,        \* _db_paths
    pc,             \* the await each task is suspended at
    op,             \* the public operation it runs ("reopen" inside reabrir())
    path,           \* the path it works on
    conn,           \* the connection it last obtained
    todo,           \* what its loop over paths still has to visit
    connOpen,       \* connections whose file descriptor is open
    dirty,          \* connections with an uncommitted transaction
    nextConn,       \* next connection number
    inodeOf,        \* file generation a connection was opened on
    inode,          \* file generation now at each path
    lost,           \* connections _init_single could not close nor register
    condemned       \* paths whose declared-corrupt file is still in place

flags    == <<shuttingDown, closed>>
registry == <<connections, quarantined, dbPaths>>
locks    == <<transitionLock, initLock, pathLock>>
work     == <<admitted, drained>>
local    == <<op, path, conn, todo>>
disk     == <<connOpen, dirty, nextConn, inodeOf, inode, lost>>
ghost    == <<condemned>>
vars     == <<flags, registry, locks, work, local, pc, disk, ghost>>

Init ==
    /\ shuttingDown = FALSE /\ closed = FALSE
    /\ admitted = 0 /\ drained = TRUE
    /\ transitionLock = NoTask /\ initLock = NoTask
    /\ pathLock = [p \in Paths |-> NoTask]
    /\ connections = [p \in Paths |-> NoConn]
    /\ quarantined = {} /\ dbPaths = {}
    /\ pc = [t \in Tasks |-> "idle"]
    /\ op \in [Tasks -> {"operation"}]
    /\ path \in [Tasks -> Paths]
    /\ conn = [t \in Tasks |-> NoConn]
    /\ todo = [t \in Tasks |-> {}]
    /\ connOpen = {} /\ dirty = {} /\ nextConn = 1
    /\ inodeOf = [c \in Conns |-> 0]
    /\ inode = [p \in Paths |-> 0]
    /\ lost = {} /\ condemned = {}

-----------------------------------------------------------------------------
(* Leaving a public operation, normally or by an exception: every lock and *)
(* the admission are given back by the finally blocks on the way out.      *)

Free(holder, t) == IF holder = t THEN NoTask ELSE holder

\* The task holds an admission: every operation but shutdown_all, from
\* _admit() to _release().
Admitted(t) == pc[t] \notin {"idle", "transition"} /\ op[t] # "shutdown_all"

Admit ==
    /\ ~shuttingDown
    /\ admitted' = admitted + 1
    /\ drained' = FALSE

\* Mutant: off by one in the test for the last admission
ReleaseOffByOne ==
    /\ admitted' = admitted - 1
    /\ drained' = (admitted = 0)

Release ==
    /\ admitted' = admitted - 1
    /\ drained' = (admitted = 1)

GiveBack(t) ==
    /\ transitionLock' = Free(transitionLock, t)
    /\ initLock' = Free(initLock, t)
    /\ pathLock' = [p \in Paths |-> Free(pathLock[p], t)]

Leave(t) ==
    /\ pc' = [pc EXCEPT ![t] = "idle"]
    /\ GiveBack(t)
    /\ IF Admitted(t) THEN Release ELSE UNCHANGED work

Goto(t, label) == pc' = [pc EXCEPT ![t] = label]

-----------------------------------------------------------------------------
(* Entering.  A call that _admit() rejects changes nothing and is no step. *)

Call(t, o, p) ==
    /\ pc[t] = "idle" /\ o \in Ops
    /\ op' = [op EXCEPT ![t] = o]
    /\ path' = [path EXCEPT ![t] = p]
    /\ conn' = IF o = "recover_connection" THEN conn ELSE [conn EXCEPT ![t] = NoConn]

\* operation(path) and transaction(path): admitted before waiting for the lock
EnterBoundary(t, p) ==
    /\ \E o \in {"operation", "transaction"} : Call(t, o, p)
    /\ Admit
    /\ Goto(t, "path")
    /\ UNCHANGED <<flags, registry, locks, todo, disk, ghost>>

\* get_connection(path): resolves without the path lock.  Only a call that
\* has to open the connection reaches an await.
EnterGetConnection(t, p) ==
    /\ Call(t, "get_connection", p)
    /\ Admit
    /\ p \notin quarantined /\ connections[p] = NoConn
    /\ Goto(t, "init")
    /\ UNCHANGED <<flags, registry, locks, todo, disk, ghost>>

\* recover_connection(path, expected): the consumer passes the connection an
\* earlier operation() on that path gave it
EnterRecover(t) ==
    /\ conn[t] # NoConn
    /\ Call(t, "recover_connection", path[t])
    /\ Admit
    /\ Goto(t, "path")
    /\ UNCHANGED <<flags, registry, locks, todo, disk, ghost>>

\* The (path, connection) pairs a loop over _connections.items() will visit
Registered == {<<p, connections[p]>> : p \in {q \in Paths : connections[q] # NoConn}}

EnterCheckpoint(t, p) ==
    /\ Call(t, "checkpoint_all", p)
    /\ Admit
    /\ todo' = [todo EXCEPT ![t] = Registered]
    /\ Goto(t, "scan")
    /\ UNCHANGED <<flags, registry, locks, disk, ghost>>

\* init_all() and shutdown_all() first wait for _transition_lock
EnterTransition(t, p) ==
    /\ \E o \in {"init_all", "shutdown_all"} : Call(t, o, p)
    /\ Goto(t, "transition")
    /\ UNCHANGED <<flags, registry, locks, work, todo, disk, ghost>>

BeginInitAll(t) ==
    /\ pc[t] = "transition" /\ op[t] = "init_all" /\ transitionLock = NoTask
    /\ IF shuttingDown /\ ~closed
       THEN /\ Leave(t)
            /\ UNCHANGED <<flags, todo>>
       ELSE /\ shuttingDown' = FALSE /\ closed' = FALSE
            /\ admitted' = admitted + 1 /\ drained' = FALSE
            /\ transitionLock' = t
            /\ todo' = [todo EXCEPT ![t] = {<<p, NoConn>> : p \in dbPaths}]
            /\ Goto(t, "scan")
            /\ UNCHANGED <<initLock, pathLock>>
    /\ UNCHANGED <<registry, op, path, conn, disk, ghost>>

BeginShutdown(t) ==
    /\ pc[t] = "transition" /\ op[t] = "shutdown_all" /\ transitionLock = NoTask
    /\ transitionLock' = t
    /\ shuttingDown' = TRUE
    /\ Goto(t, "drain")
    /\ UNCHANGED <<closed, registry, initLock, pathLock, work, local, disk, ghost>>

-----------------------------------------------------------------------------
(* Resolving a connection: _resolve_connection and _init_single.           *)

\* The resolved connection reaches its caller.  init_all drops the path lock
\* and goes on with its loop; get_connection is over.
Deliver(t, c) ==
    \/ /\ op[t] \in {"operation", "transaction", "reopen"}
       /\ Goto(t, "body")
       /\ conn' = [conn EXCEPT ![t] = c]
       /\ pathLock' = [pathLock EXCEPT ![path[t]] = t]
       /\ initLock' = Free(initLock, t)
       /\ UNCHANGED <<transitionLock, work>>
    \/ /\ op[t] = "init_all"
       /\ Goto(t, "scan")
       /\ pathLock' = [pathLock EXCEPT ![path[t]] = NoTask]
       /\ initLock' = Free(initLock, t)
       /\ UNCHANGED <<conn, transitionLock, work>>
    \/ /\ op[t] = "get_connection"
       /\ Leave(t)
       /\ UNCHANGED conn

\* The path lock is granted and _resolve_connection runs up to its first
\* await: quarantine first (only reabrir() passes), then the registry.
Resolve(t) ==
    LET p == path[t] IN
    /\ pc[t] = "path" /\ op[t] \in {"operation", "transaction", "reopen", "init_all"}
    /\ pathLock[p] = NoTask
    /\ \/ /\ p \in quarantined /\ op[t] # "reopen"
          /\ Leave(t)
          /\ UNCHANGED conn
       \/ /\ p \notin quarantined \/ op[t] = "reopen"
          /\ connections[p] # NoConn
          /\ Deliver(t, connections[p])
       \/ /\ p \notin quarantined \/ op[t] = "reopen"
          /\ connections[p] = NoConn
          /\ Goto(t, "init")
          /\ pathLock' = [pathLock EXCEPT ![p] = t]
          /\ UNCHANGED <<transitionLock, initLock, work, conn>>
    /\ UNCHANGED <<flags, registry, op, path, todo, disk, ghost>>

\* Mutant: the registry is not looked up again under _init_lock
AcquireInitNoRecheck(t) ==
    /\ pc[t] = "init" /\ initLock = NoTask
    /\ initLock' = t
    /\ dbPaths' = dbPaths \cup {path[t]}
    /\ Goto(t, "opening")
    /\ UNCHANGED <<flags, connections, quarantined, transitionLock, pathLock, work,
                   local, disk, ghost>>

\* _init_lock is granted: the registry is looked up again, and only then is
\* a connection opened
AcquireInit(t) ==
    LET p == path[t] IN
    /\ pc[t] = "init" /\ initLock = NoTask
    /\ \/ /\ connections[p] # NoConn
          /\ Deliver(t, connections[p])
          /\ UNCHANGED dbPaths
       \/ /\ connections[p] = NoConn
          /\ initLock' = t
          /\ dbPaths' = dbPaths \cup {p}
          /\ Goto(t, "opening")
          /\ UNCHANGED <<transitionLock, pathLock, work, conn>>
    /\ UNCHANGED <<flags, connections, quarantined, op, path, todo, disk, ghost>>

\* _init_single opened the file, applied the pragmas and registers
OpenOk(t) ==
    LET p == path[t] IN
    /\ pc[t] = "opening" /\ nextConn <= MaxConns
    /\ nextConn' = nextConn + 1
    /\ connOpen' = connOpen \cup {nextConn}
    /\ inodeOf' = [inodeOf EXCEPT ![nextConn] = inode[p]]
    /\ connections' = [connections EXCEPT ![p] = nextConn]
    /\ Deliver(t, nextConn)
    /\ UNCHANGED <<flags, quarantined, dbPaths, op, path, todo, dirty, inode, lost, ghost>>

\* Opening raises or is cancelled: the connection never opened or was closed
OpenFail(t) ==
    /\ pc[t] = "opening"
    /\ Leave(t)
    /\ UNCHANGED <<flags, registry, local, disk, condemned>>

\* ... or its close failed too: it stays open with no owner (only logged)
OpenFailUnclosed(t) ==
    /\ pc[t] = "opening" /\ nextConn <= MaxConns
    /\ nextConn' = nextConn + 1
    /\ connOpen' = connOpen \cup {nextConn}
    /\ inodeOf' = [inodeOf EXCEPT ![nextConn] = inode[path[t]]]
    /\ lost' = lost \cup {nextConn}
    /\ Leave(t)
    /\ UNCHANGED <<flags, registry, local, dirty, inode, condemned>>

\* _recover_orphaned_wal could not confirm the close of its temporary
\* connection: it is retained in the registry and the path is quarantined
OpenRetained(t) ==
    LET p == path[t] IN
    /\ pc[t] = "opening" /\ nextConn <= MaxConns
    /\ nextConn' = nextConn + 1
    /\ connOpen' = connOpen \cup {nextConn}
    /\ inodeOf' = [inodeOf EXCEPT ![nextConn] = inode[p]]
    /\ connections' = [connections EXCEPT ![p] = nextConn]
    /\ quarantined' = quarantined \cup {p}
    /\ Leave(t)
    /\ UNCHANGED <<flags, dbPaths, local, dirty, inode, lost, condemned>>

-----------------------------------------------------------------------------
(* Using a connection inside the boundary.                                 *)

\* The body of a transaction() writes
BodyWrite(t) ==
    /\ pc[t] = "body" /\ op[t] = "transaction"
    /\ dirty' = dirty \cup {conn[t]}
    /\ UNCHANGED <<flags, registry, locks, work, local, pc, connOpen, nextConn,
                   inodeOf, inode, lost, ghost>>

\* The body returns.  A transaction commits; an operation is over; the body
\* of reabrir() completes the recovery, which lifts the window's quarantine.
BodyReturn(t) ==
    /\ pc[t] = "body"
    /\ \/ /\ op[t] = "transaction"
          /\ Goto(t, "commit")
          /\ UNCHANGED <<locks, work, quarantined>>
       \/ /\ op[t] = "operation"
          /\ Leave(t)
          /\ UNCHANGED quarantined
       \/ /\ op[t] = "reopen"
          /\ Leave(t)
          /\ quarantined' = quarantined \ {path[t]}
    /\ UNCHANGED <<flags, connections, dbPaths, local, disk, condemned>>

\* The body raises or is cancelled
BodyRaise(t) ==
    /\ pc[t] = "body"
    /\ IF op[t] = "transaction"
       THEN Goto(t, "rollback") /\ UNCHANGED <<locks, work>>
       ELSE Leave(t)
   
    /\ UNCHANGED <<flags, registry, local, disk, condemned>>

\* _await_db_operation(conn.commit()) runs to its end despite cancellation
Commit(t) ==
    /\ pc[t] = "commit"
    /\ \/ /\ dirty' = dirty \ {conn[t]}
          /\ Leave(t)
       \/ /\ Goto(t, "rollback")
          /\ UNCHANGED <<dirty, locks, work>>
    /\ UNCHANGED <<flags, registry, local, connOpen, nextConn, inodeOf, inode, lost, ghost>>

\* Mutant: a failed rollback is only reported
RollbackReported(t) ==
    /\ pc[t] = "rollback"
    /\ dirty' \in {dirty, dirty \ {conn[t]}}
    /\ Leave(t)
    /\ UNCHANGED <<flags, registry, local, connOpen, nextConn, inodeOf, inode, lost, ghost>>

\* _rollback_after_failure: a failed rollback invalidates the connection
Rollback(t) ==
    /\ pc[t] = "rollback"
    /\ \/ /\ dirty' = dirty \ {conn[t]}
          /\ Leave(t)
       \/ /\ Goto(t, "invalidate")
          /\ UNCHANGED <<dirty, locks, work>>
    /\ UNCHANGED <<flags, registry, local, connOpen, nextConn, inodeOf, inode, lost, ghost>>

-----------------------------------------------------------------------------
(* _invalidate_under_boundary, from a failed rollback or a recovery window. *)

\* recover_connection has the path lock and starts closing the old connection
BeginInvalidate(t) ==
    /\ pc[t] = "path" /\ op[t] = "recover_connection"
    /\ pathLock[path[t]] = NoTask
    /\ pathLock' = [pathLock EXCEPT ![path[t]] = t]
    /\ Goto(t, "invalidate")
    /\ UNCHANGED <<flags, registry, transitionLock, initLock, work, local, disk, ghost>>

\* Mutant: the recovery window does not quarantine its path
InvalidateClosedOpenDoor(t) ==
    LET p == path[t]
        mine == connections[p] = conn[t] IN
    /\ pc[t] = "invalidate"
    /\ connOpen' = connOpen \ {conn[t]}
    /\ dirty' = dirty \ {conn[t]}
    /\ connections' = IF mine THEN [connections EXCEPT ![p] = NoConn] ELSE connections
    /\ IF mine /\ op[t] = "recover_connection"
       THEN /\ condemned' = condemned \cup {p}
            /\ Goto(t, "window")
            /\ pathLock' = [pathLock EXCEPT ![p] = NoTask]
            /\ UNCHANGED <<transitionLock, initLock, work>>
       ELSE /\ Leave(t)
            /\ UNCHANGED condemned
    /\ UNCHANGED <<flags, quarantined, dbPaths, local, nextConn, inodeOf, inode, lost>>

\* The close is confirmed.  Only the caller's own entry is withdrawn from the
\* registry; the window then quarantines the path and drops the lock, while a
\* replaced connection makes it raise.
InvalidateClosed(t) ==
    LET p == path[t]
        mine == connections[p] = conn[t] IN
    /\ pc[t] = "invalidate"
    /\ connOpen' = connOpen \ {conn[t]}
    /\ dirty' = dirty \ {conn[t]}
    /\ connections' = IF mine THEN [connections EXCEPT ![p] = NoConn] ELSE connections
    /\ IF mine /\ op[t] = "recover_connection"
       THEN /\ quarantined' = quarantined \cup {p}
            /\ condemned' = condemned \cup {p}
            /\ Goto(t, "window")
            /\ pathLock' = [pathLock EXCEPT ![p] = NoTask]
            /\ UNCHANGED <<transitionLock, initLock, work>>
       ELSE /\ Leave(t)
            /\ UNCHANGED <<quarantined, condemned>>
    /\ UNCHANGED <<flags, dbPaths, local, nextConn, inodeOf, inode, lost>>

\* Mutant: the retained entry stays in service
InvalidateUnconfirmedServed(t) ==
    /\ pc[t] = "invalidate"
    /\ connOpen' \in {connOpen, connOpen \ {conn[t]}}
    /\ Leave(t)
    /\ UNCHANGED <<flags, registry, local, dirty, nextConn, inodeOf, inode, lost, ghost>>

\* The close is not confirmed: the entry is kept, the path is quarantined and
\* the descriptor may or may not have been closed underneath
InvalidateUnconfirmed(t) ==
    LET p == path[t] IN
    /\ pc[t] = "invalidate"
    /\ connOpen' \in {connOpen, connOpen \ {conn[t]}}
    /\ quarantined' = IF connections[p] = conn[t] THEN quarantined \cup {p} ELSE quarantined
    /\ Leave(t)
    /\ UNCHANGED <<flags, connections, dbPaths, local, dirty, nextConn, inodeOf,
                   inode, lost, ghost>>

\* The consumer moves the corrupt file away (async_registry), without the lock
Rename(t) ==
    LET p == path[t] IN
    /\ pc[t] = "window"
    /\ inode' = [inode EXCEPT ![p] = @ + 1]
    /\ condemned' = condemned \ {p}
    /\ Goto(t, "renamed")
    /\ UNCHANGED <<flags, registry, locks, work, local, connOpen, dirty, nextConn,
                   inodeOf, lost>>

\* ... and calls reabrir(), which waits for the path lock again
Reopen(t) ==
    /\ pc[t] = "renamed"
    /\ op' = [op EXCEPT ![t] = "reopen"]
    /\ Goto(t, "path")
    /\ UNCHANGED <<flags, registry, locks, work, path, conn, todo, disk, ghost>>

-----------------------------------------------------------------------------
(* Loops over paths: init_all, checkpoint_all and shutdown_all.            *)

\* Mutant: shutdown_all declares CLOSED whatever stayed registered
ScanAlwaysClosed(t) ==
    /\ pc[t] = "scan"
    /\ \/ \E item \in todo[t] :
             /\ todo' = [todo EXCEPT ![t] = @ \ {item}]
             /\ path' = [path EXCEPT ![t] = item[1]]
             /\ conn' = [conn EXCEPT ![t] = item[2]]
             /\ Goto(t, "path")
             /\ UNCHANGED <<locks, work, closed>>
       \/ /\ todo[t] = {}
          /\ Leave(t)
          /\ closed' = (op[t] = "shutdown_all" \/ closed)
          /\ conn' = [conn EXCEPT ![t] = NoConn]
          /\ UNCHANGED <<todo, path>>
    /\ UNCHANGED <<shuttingDown, registry, op, disk, ghost>>

\* The loop takes its next item, or ends.  init_all and checkpoint_all return;
\* shutdown_all declares CLOSED only when nothing stayed registered.
Scan(t) ==
    /\ pc[t] = "scan"
    /\ \/ \E item \in todo[t] :
             /\ todo' = [todo EXCEPT ![t] = @ \ {item}]
             /\ path' = [path EXCEPT ![t] = item[1]]
             /\ conn' = [conn EXCEPT ![t] = item[2]]
             /\ Goto(t, "path")
             /\ UNCHANGED <<locks, work, closed>>
       \/ /\ todo[t] = {}
          /\ Leave(t)
          /\ closed' = IF op[t] = "shutdown_all" THEN closed \/ Registered = {} ELSE closed
          /\ conn' = [conn EXCEPT ![t] = NoConn]
          /\ UNCHANGED <<todo, path>>
    /\ UNCHANGED <<shuttingDown, registry, op, disk, ghost>>

\* Mutant: the periodic checkpoint does not wait for the path lock
BeginCheckpointUnlocked(t) ==
    /\ pc[t] = "path" /\ op[t] = "checkpoint_all"
    /\ IF connections[path[t]] = conn[t] /\ path[t] \notin quarantined
       THEN Goto(t, "checkpoint") ELSE Goto(t, "scan")
    /\ UNCHANGED <<flags, registry, locks, work, local, disk, ghost>>

\* checkpoint_all has the path lock: skip a replaced or quarantined entry
BeginCheckpoint(t) ==
    LET p == path[t] IN
    /\ pc[t] = "path" /\ op[t] = "checkpoint_all" /\ pathLock[p] = NoTask
    /\ IF connections[p] = conn[t] /\ p \notin quarantined
       THEN Goto(t, "checkpoint") /\ pathLock' = [pathLock EXCEPT ![p] = t]
       ELSE Goto(t, "scan") /\ UNCHANGED pathLock
    /\ UNCHANGED <<flags, registry, transitionLock, initLock, work, local, disk, ghost>>

Checkpoint(t) ==
    /\ pc[t] = "checkpoint"
    /\ Goto(t, "scan")
    /\ pathLock' = [pathLock EXCEPT ![path[t]] = NoTask]
    /\ UNCHANGED <<flags, registry, transitionLock, initLock, work, local, disk, ghost>>

\* shutdown_all saw the drained event
Drained(t) ==
    /\ pc[t] = "drain" /\ drained
    /\ IF Registered = {}
       THEN closed' = TRUE /\ Leave(t)
       ELSE Goto(t, "truncate") /\ UNCHANGED <<closed, locks, work>>
    /\ UNCHANGED <<shuttingDown, registry, local, disk, ghost>>

\* The TRUNCATE checkpoint of every registered connection, without locks
Truncate(t) ==
    /\ pc[t] = "truncate"
    /\ todo' = [todo EXCEPT ![t] = Registered]
    /\ Goto(t, "scan")
    /\ UNCHANGED <<flags, registry, locks, work, op, path, conn, disk, ghost>>

BeginClose(t) ==
    LET p == path[t] IN
    /\ pc[t] = "path" /\ op[t] = "shutdown_all" /\ pathLock[p] = NoTask
    /\ IF connections[p] = conn[t]
       THEN Goto(t, "close") /\ pathLock' = [pathLock EXCEPT ![p] = t]
       ELSE Goto(t, "scan") /\ UNCHANGED pathLock
    /\ UNCHANGED <<flags, registry, transitionLock, initLock, work, local, disk, ghost>>

\* A close that succeeds withdraws the entry and its quarantine; one that
\* fails keeps both for the next shutdown_all()
CloseOk(t) ==
    LET p == path[t] IN
    /\ pc[t] = "close"
    /\ connOpen' = connOpen \ {conn[t]}
    /\ dirty' = dirty \ {conn[t]}
    /\ connections' = [connections EXCEPT ![p] = NoConn]
    /\ quarantined' = quarantined \ {p}
    /\ pathLock' = [pathLock EXCEPT ![p] = NoTask]
    /\ Goto(t, "scan")
    /\ UNCHANGED <<flags, dbPaths, transitionLock, initLock, work, local, nextConn,
                   inodeOf, inode, lost, ghost>>

CloseFail(t) ==
    /\ pc[t] = "close"
    /\ connOpen' \in {connOpen, connOpen \ {conn[t]}}
    /\ pathLock' = [pathLock EXCEPT ![path[t]] = NoTask]
    /\ Goto(t, "scan")
    /\ UNCHANGED <<flags, registry, transitionLock, initLock, work, local, dirty,
                   nextConn, inodeOf, inode, lost, ghost>>

\* The task is cancelled at an await outside the SQL of a body, or the file
\* move of a recovery window raises, which leaves its quarantine behind
Cancel(t) ==
    /\ pc[t] \in {"transition", "path", "init", "drain", "truncate", "checkpoint",
                  "close", "window", "renamed"}
    /\ connOpen' \in {connOpen} \cup
          (IF pc[t] = "close" THEN {connOpen \ {conn[t]}} ELSE {})
    /\ Leave(t)
    /\ conn' = [conn EXCEPT ![t] = NoConn]
    /\ UNCHANGED <<flags, registry, op, path, todo, dirty, nextConn, inodeOf, inode,
                   lost, condemned>>

-----------------------------------------------------------------------------

Enter(t) ==
    \/ \E p \in Paths : EnterBoundary(t, p)
    \/ \E p \in Paths : EnterGetConnection(t, p)
    \/ EnterRecover(t)
    \/ EnterCheckpoint(t, path[t])
    \/ EnterTransition(t, path[t])

\* What a task that entered does next on its own
Progress(t) ==
    \/ BeginInitAll(t) \/ BeginShutdown(t)
    \/ Resolve(t) \/ AcquireInit(t)
    \/ OpenOk(t) \/ OpenFail(t) \/ OpenFailUnclosed(t) \/ OpenRetained(t)
    \/ BodyReturn(t) \/ BodyRaise(t) \/ Commit(t) \/ Rollback(t)
    \/ BeginInvalidate(t) \/ InvalidateClosed(t) \/ InvalidateUnconfirmed(t)
    \/ Rename(t) \/ Reopen(t)
    \/ Scan(t) \/ BeginCheckpoint(t) \/ Checkpoint(t)
    \/ Drained(t) \/ Truncate(t) \/ BeginClose(t) \/ CloseOk(t) \/ CloseFail(t)

Next == \E t \in Tasks : Enter(t) \/ Progress(t) \/ BodyWrite(t) \/ Cancel(t)

Spec == Init /\ [][Next]_vars

\* The event loop always runs a ready task and a body does not wait for ever
FairSpec == Spec /\ \A t \in Tasks : WF_vars(Progress(t))

-----------------------------------------------------------------------------
(* Properties.                                                             *)

Labels == {"idle", "transition", "path", "init", "opening", "body", "commit",
           "rollback", "invalidate", "window", "renamed", "scan", "checkpoint",
           "drain", "truncate", "close"}

TypeFlags ==
    shuttingDown \in BOOLEAN /\ closed \in BOOLEAN /\ drained \in BOOLEAN

TypeShared ==
    /\ admitted \in Nat
    /\ transitionLock \in Tasks \cup {NoTask} /\ initLock \in Tasks \cup {NoTask}
    /\ pathLock \in [Paths -> Tasks \cup {NoTask}]
    /\ connections \in [Paths -> Conns \cup {NoConn}]
    /\ quarantined \subseteq Paths /\ dbPaths \subseteq Paths
    /\ condemned \subseteq Paths

TypeLocal ==
    /\ pc \in [Tasks -> Labels]
    /\ op \in [Tasks -> AllOps \cup {"reopen"}]
    /\ path \in [Tasks -> Paths]
    /\ conn \in [Tasks -> Conns \cup {NoConn}]

TypeTodo == todo \in [Tasks -> SUBSET (Paths \X (Conns \cup {NoConn}))]

TypeDisk ==
    /\ connOpen \subseteq Conns /\ dirty \subseteq Conns /\ lost \subseteq Conns
    /\ nextConn \in 1..(MaxConns + 1)
    /\ inodeOf \in [Conns -> Nat] /\ inode \in [Paths -> Nat]

\* Every variable keeps its type; the admission counter never goes negative
\* (_release would otherwise be called twice for one _admit).
TypeOK == TypeFlags /\ TypeShared /\ TypeLocal /\ TypeTodo /\ TypeDisk

\* SQL runs on the task's connection
Using(t) == pc[t] \in {"body", "commit", "rollback", "checkpoint"}

\* No operation, transaction, reopening or periodic checkpoint ever issues SQL
\* on a connection whose descriptor may already be closed, although shutdowns,
\* failed rollbacks and recoveries close connections other tasks know of.
NoUseAfterClose == \A t \in Tasks : Using(t) => conn[t] \in connOpen

\* Two tasks never have SQL in flight on the same connection: the connection
\* each of them resolved is the one guarded by the path lock it holds.
ExclusiveUse ==
    \A t, u \in Tasks : t # u /\ Using(t) /\ Using(u) => conn[t] # conn[u]

\* While shutdown_all() truncates and closes (partly without the path locks),
\* no other work is admitted: what was queued before the gate closed has been
\* waited for, what came later was rejected.
DrainedBeforeClose ==
    \A s \in Tasks :
        op[s] = "shutdown_all" /\ pc[s] \in {"truncate", "scan", "path", "close"} =>
            \A t \in Tasks : ~Admitted(t)

\* A connection that is handed over between tasks carries no transaction of
\* the previous one: after a failed commit it was rolled back, and after a
\* failed rollback the path is closed or quarantined.
NoDirtyHandover ==
    \A p \in Paths :
        pathLock[p] = NoTask /\ p \notin quarantined => connections[p] \notin dirty

\* A body always works on the file that is at its path now, never on the one
\* a forensic rename has moved away under an open descriptor; and a file that
\* was declared corrupt and could not be moved away is never served again, by
\* any operation, after any shutdown and reopening.
ServedFromCurrentFile ==
    \A t \in Tasks : Using(t) =>
        inodeOf[conn[t]] = inode[path[t]] /\ path[t] \notin condemned

\* When shutdown_all() declares CLOSED nothing the manager opened is still
\* open, except what _init_single logged as impossible to close.
ClosedMeansClosed == closed => connOpen \subseteq lost

\* A registered connection is never overwritten by another one, and leaves the
\* registry only in the step that has confirmed its close (close first, mutate
\* the registry after).
EntryLeavesClosed ==
    [][\A p \in Paths :
          connections[p] # NoConn /\ connections'[p] # connections[p] =>
              connections'[p] = NoConn /\ connections[p] \notin connOpen']_vars

\* A shutdown that has closed the gate always ends: the work it waits for is
\* finite and none of it waits for the shutdown.
ShutdownEnds ==
    \A t \in Tasks : pc[t] = "drain" ~> pc[t] = "idle"

-----------------------------------------------------------------------------
(* The inductive invariant behind the proofs of DbLifecycleProofs.         *)

AdmittedTasks == {t \in Tasks : Admitted(t)}

\* The counter counts the tasks between _admit() and _release()
Accounting ==
    /\ admitted = Cardinality(AdmittedTasks)
    /\ drained <=> admitted = 0

\* Which operation can be suspended at which await
PcOp ==
    \A t \in Tasks :
        /\ pc[t] = "transition" => op[t] \in {"init_all", "shutdown_all"}
        /\ pc[t] \in {"drain", "truncate", "close"} => op[t] = "shutdown_all"
        /\ pc[t] = "scan" => op[t] \in {"init_all", "checkpoint_all", "shutdown_all"}
        /\ pc[t] \in {"init", "opening"} =>
              op[t] \in {"operation", "transaction", "reopen", "init_all", "get_connection"}
        /\ pc[t] = "body" => op[t] \in {"operation", "transaction", "reopen"}
        /\ pc[t] \in {"commit", "rollback"} => op[t] = "transaction"
        /\ pc[t] = "invalidate" => op[t] \in {"transaction", "recover_connection"}
        /\ pc[t] \in {"window", "renamed"} => op[t] = "recover_connection"
        /\ pc[t] = "checkpoint" => op[t] = "checkpoint_all"

\* Transitions exclude each other, and a shutdown past its drain is alone
InTransition(t) ==
    op[t] \in {"init_all", "shutdown_all"} /\ pc[t] \notin {"idle", "transition"}

Transition ==
    /\ \A t \in Tasks : InTransition(t) =>
          /\ transitionLock = t
          /\ shuttingDown <=> op[t] = "shutdown_all"
          /\ op[t] = "shutdown_all" /\ pc[t] # "drain" => admitted = 0
    /\ closed => shuttingDown /\ admitted = 0 /\ \A p \in Paths : connections[p] = NoConn

\* Who holds the locks, and that a connection in use is the registered one
LockHeld ==
    \A t \in Tasks :
        /\ Using(t) \/ pc[t] \in {"invalidate", "close"} => pathLock[path[t]] = t
        /\ pc[t] \in {"init", "opening"} /\ op[t] # "get_connection" => pathLock[path[t]] = t
        /\ pc[t] = "opening" => initLock = t /\ connections[path[t]] = NoConn
        /\ Using(t) \/ pc[t] = "close" => conn[t] # NoConn /\ connections[path[t]] = conn[t]
        /\ pc[t] = "invalidate" /\ op[t] = "transaction" =>
              conn[t] # NoConn /\ connections[path[t]] = conn[t]

\* A connection number is registered under one path only, the one its holders
\* know it by
Fresh ==
    /\ \A p \in Paths : connections[p] < nextConn
    /\ \A t \in Tasks : conn[t] < nextConn
    /\ \A t \in Tasks : \A item \in todo[t] : item[2] < nextConn

OneOwner ==
    /\ \A p, q \in Paths : connections[p] # NoConn /\ connections[p] = connections[q] => p = q
    /\ \A t \in Tasks, q \in Paths : conn[t] # NoConn /\ connections[q] = conn[t] => q = path[t]
    /\ \A t \in Tasks, q \in Paths : \A item \in todo[t] :
          item[2] # NoConn /\ connections[q] = item[2] => q = item[1]

\* The loops that checkpoint or close visit registered connections only
LoopItems ==
    \A t \in Tasks : op[t] \in {"checkpoint_all", "shutdown_all"} =>
        /\ pc[t] \in {"scan", "path", "checkpoint", "close"} =>
              \A item \in todo[t] : item[2] # NoConn
        /\ pc[t] = "path" => conn[t] # NoConn

BaseInv ==
    /\ TypeOK /\ Accounting /\ PcOp /\ Transition
    /\ LockHeld /\ Fresh /\ OneOwner /\ LoopItems

\* The task owns a recovery window whose connection is not reopened yet
WindowOpen(t) ==
    \/ pc[t] \in {"window", "renamed"}
    \/ op[t] = "reopen" /\ pc[t] \in {"path", "init", "opening"}

\* What holds while nobody calls get_connection()
WindowInv ==
    /\ \A t \in Tasks :
          /\ pc[t] # "idle" => op[t] # "get_connection"
          /\ pc[t] # "idle" /\ op[t] = "recover_connection" => conn[t] # NoConn
          /\ pc[t] \in {"init", "opening"} => connections[path[t]] = NoConn
          /\ pc[t] \in {"init", "opening"} /\ op[t] # "reopen" => path[t] \notin quarantined
          /\ WindowOpen(t) => path[t] \in quarantined /\ connections[path[t]] = NoConn
    /\ \A t, u \in Tasks : WindowOpen(t) /\ WindowOpen(u) /\ path[t] = path[u] => t = u

\* A registered connection in service is open until the shutdown has drained
InService ==
    \A p \in Paths :
        connections[p] # NoConn /\ p \notin quarantined /\ (~shuttingDown \/ admitted # 0) =>
            connections[p] \in connOpen

OpenInv == InService /\ NoUseAfterClose

\* The strengthening that makes NoUseAfterClose inductive: admission counting,
\* lock ownership, one owner per connection number and closed recovery windows.
IndInv == BaseInv /\ WindowInv /\ OpenInv

\* Every open connection is registered, or was logged as impossible to close.
\* Together with Transition it makes ClosedMeansClosed inductive.
Traced == connOpen \subseteq lost \cup {connections[p] : p \in Paths}

\* A connection in service that is dirty is in the hands of the transaction
\* that holds the lock of its path and has not undone or invalidated it yet.
DirtyHeld ==
    \A p \in Paths \ quarantined : connections[p] \in dirty =>
        /\ pathLock[p] \in Tasks /\ path[pathLock[p]] = p
        /\ op[pathLock[p]] = "transaction"
        /\ pc[pathLock[p]] \in {"body", "commit", "rollback", "invalidate"}

\* No connection is born dirty, and a recovery reopens with a clean one.
CleanBirth ==
    /\ \A c \in dirty : c < nextConn
    /\ \A t \in Tasks : op[t] = "reopen" /\ pc[t] = "body" => conn[t] \notin dirty

\* What is registered was opened on the file that is at its path now.
CurrentFile ==
    \A p \in Paths : connections[p] # NoConn => inodeOf[connections[p]] = inode[p]

\* A path whose file was declared corrupt and is still there is quarantined
\* and empty, and the recovery that reopens it has moved the file away.
CondemnedInv ==
    \A p \in condemned :
        /\ p \in quarantined /\ connections[p] = NoConn
        /\ \A t \in Tasks : WindowOpen(t) /\ path[t] = p => pc[t] = "window"

\* The strengthening behind NoDirtyHandover and ServedFromCurrentFile, on top
\* of IndInv.
ServeInv == DirtyHeld /\ CleanBirth /\ CurrentFile /\ CondemnedInv

=============================================================================
