------------------------------ MODULE EventBus ------------------------------
(***************************************************************************)
(* CoreEventBus of sky_claw/app/core/event_bus.py: a bounded queue between *)
(* publishers and one dispatcher task, which spawns a task per subscriber  *)
(* and reroutes what it cannot run, or what fails, to the dead letter      *)
(* queue.  The DLQManager appears as enqueue (which works or fails), start *)
(* and stop.                                                               *)
(*                                                                         *)
(* The dispatcher handles one event without awaiting, so Dispatch is one   *)
(* step, and the ready queue of the event loop is first in, first out, so  *)
(* the handler tasks it created start before a stop() waiting for it goes  *)
(* on: a handler task is running from the step that creates it.  start()   *)
(* and stop() run under _state_lock; stop()'s work is a task of its own    *)
(* that the caller's cancellation does not reach, and is the sequence of   *)
(* phases held in stopping.                                                *)
(***************************************************************************)
EXTENDS Naturals, Sequences, FiniteSets

CONSTANTS
    Publishers,    \* tasks that call publish()
    Handlers,      \* subscriber callbacks, 1 .. n in order of subscription
    MaxEvents,     \* bound: events published
    QueueMax,      \* max_queue_size
    MaxPending,    \* _MAX_PENDING_TASKS
    MaxDlq,        \* _MAX_DLQ_TASKS
    HasDlq,        \* whether a DLQManager was injected
    MaxStarts      \* bound: calls of start()

ASSUME BusAssumption ==
    /\ IsFiniteSet(Publishers)
    /\ IsFiniteSet(Handlers) /\ Handlers = 1 .. Cardinality(Handlers)
    /\ {MaxEvents, MaxPending, MaxDlq, MaxStarts} \subseteq Nat
    /\ QueueMax \in Nat \ {0}
    /\ HasDlq \in BOOLEAN

VARIABLES
    state,      \* _LifecycleState
    disp,       \* the dispatch task: "none", "live", "ended", "dead"
    queue,      \* _queue
    unfinished, \* its count of items without task_done()
    pub,        \* each publisher: "idle", "putting", "put"
    item,       \* the event a publisher is publishing
    next,       \* the next event
    pending,    \* _pending_tasks: the handler tasks, running or saving
    dlq,        \* _dlq_tasks: enqueues in flight
    stopping,   \* the phase of _stop_started_bus
    lost,       \* _events_lost
    drops,      \* _backpressure_drops
    starts,     \* calls of start() so far
    accepted,   \* history: events put into the queue
    done,       \* history: (event, handler) pairs handled
    saved,      \* history: pairs persisted in the DLQ
    counted     \* history: what _events_lost was incremented for

vars == <<state, disp, queue, unfinished, pub, item, next, pending, dlq,
          stopping, lost, drops, starts, accepted, done, saved, counted>>

Sentinel == 0
Events == 1 .. MaxEvents
Pairs == Events \X Handlers
Whole(es) == es \X {0}     \* events lost before any handler had them

TypeOK ==
    /\ state \in {"STOPPED", "STARTING", "RUNNING", "STOPPING"}
    /\ disp \in {"none", "live", "ended", "dead"}
    /\ queue \in Seq(Events \cup {Sentinel}) /\ Len(queue) <= QueueMax
    /\ unfinished \in 0 .. QueueMax
    /\ pub \in [Publishers -> {"idle", "putting", "put"}]
    /\ item \in [Publishers -> Events \cup {0}]
    /\ next \in 1 .. MaxEvents + 1
    /\ pending \subseteq [pair : Pairs, st : {"run", "saving"}]
    /\ Cardinality(pending) <= MaxPending
    /\ dlq \subseteq Pairs /\ Cardinality(dlq) <= MaxDlq
    /\ stopping \in {"no", "finish", "publishers", "abort", "sentinel",
                     "await", "cancel", "dlq"}
    /\ lost \in Nat /\ drops \in Nat
    /\ starts \in 0 .. MaxStarts
    /\ accepted \subseteq Events
    /\ done \subseteq Pairs /\ saved \subseteq Pairs
    /\ counted \subseteq Whole(Events) \cup Pairs

Init ==
    /\ state = "STOPPED" /\ disp = "none" /\ stopping = "no"
    /\ queue = <<>> /\ unfinished = 0
    /\ pub = [p \in Publishers |-> "idle"]
    /\ item = [p \in Publishers |-> 0]
    /\ next = 1
    /\ pending = {} /\ dlq = {}
    /\ lost = 0 /\ drops = 0 /\ starts = 0
    /\ accepted = {} /\ done = {} /\ saved = {} /\ counted = {}

lifeVars == <<state, disp, stopping, starts>>
queueVars == <<queue, unfinished>>
pubVars == <<pub, item, next, accepted>>
taskVars == <<pending, dlq>>
fateVars == <<lost, drops, done, saved, counted>>

Dead == disp \in {"ended", "dead"}

Lose(xs) == lost' = lost + Cardinality(xs) /\ counted' = counted \cup xs

(* _drain_abandoned_queue: every item is taken out and marked done, and    *)
(* the events among them are counted.                                      *)
Drained ==
    /\ queue' = <<>>
    /\ unfinished' = unfinished - Len(queue)
    /\ Lose(Whole({queue[i] : i \in DOMAIN queue} \ {Sentinel}))

(* stop() cancels the handler tasks: one that waits for its enqueue leaves *)
(* it to end alone, one whose callback runs sees CancelledError.           *)
CancelPending == pending' = {t \in pending : t.st = "run"}

-----------------------------------------------------------------------------
(***************************************************************************)
(* start() and stop()                                                      *)
(***************************************************************************)

(* On a bus whose state is RUNNING, dispatcher dead or not, start() only   *)
(* logs: no step.                                                          *)
BeginStart ==
    /\ state = "STOPPED"
    /\ starts < MaxStarts
    /\ state' = "STARTING"
    /\ starts' = starts + 1
    /\ UNCHANGED <<disp, stopping, queueVars, pubVars, taskVars, fateVars>>

StartWorks ==
    /\ state = "STARTING"
    /\ state' = "RUNNING" /\ disp' = "live"
    /\ UNCHANGED <<stopping, starts, queueVars, pubVars, taskVars, fateVars>>

(* dlq.start() raises or is cancelled: _rollback_failed_start. *)
StartFails ==
    /\ state = "STARTING" /\ HasDlq
    /\ state' = "STOPPED" /\ disp' = "none"
    /\ UNCHANGED <<stopping, starts, queueVars, pubVars, taskVars, fateVars>>

BeginStop ==
    /\ state = "RUNNING"
    /\ state' = "STOPPING"
    /\ stopping' = "finish"
    /\ UNCHANGED <<disp, starts, queueVars, pubVars, taskVars, fateVars>>

Phase(from, to) == stopping = from /\ stopping' = to

Admitted == \E p \in Publishers : pub[p] # "idle"

(* _finish_dispatch up to the sentinel: publishers already admitted are    *)
(* let through unless the dispatcher is dead.                              *)
StopLooks ==
    /\ \/ Phase("finish", "abort") /\ Dead
       \/ Phase("finish", "publishers") /\ ~Dead /\ Admitted
       \/ Phase("finish", "sentinel") /\ ~Dead /\ ~Admitted
       \/ Phase("publishers", "abort") /\ Dead
       \/ Phase("publishers", "sentinel") /\ ~Dead /\ ~Admitted
    /\ UNCHANGED <<state, disp, starts, queueVars, pubVars, taskVars,
                   fateVars>>

(* With the dispatcher dead: _abort_admitted_publishers cancels the puts   *)
(* and waits for every publish() to leave, then the queue is drained.      *)
StopAborts ==
    /\ Phase("abort", "cancel")
    /\ ~Admitted
    /\ Drained
    /\ CancelPending
    /\ UNCHANGED <<state, disp, starts, pubVars, dlq, drops, done, saved>>

PutSentinel ==
    /\ Phase("sentinel", "await")
    /\ ~Dead
    /\ Len(queue) < QueueMax
    /\ queue' = Append(queue, Sentinel)
    /\ unfinished' = unfinished + 1
    /\ UNCHANGED <<state, disp, starts, pubVars, taskVars, fateVars>>

DispatcherOverAwaited ==                                            \* mutant
    /\ Phase("await", "cancel")
    /\ Dead
    /\ Drained
    /\ CancelPending
    /\ UNCHANGED <<state, disp, starts, pubVars, dlq, drops, done, saved>>
(* The dispatcher is over: dead, before or after the sentinel was put, or  *)
(* ended by it.  The queue is drained, except when the sentinel's put was  *)
(* seen first and the dispatcher then ended as it should.                  *)
DispatcherOver ==
    /\ Phase("sentinel", "cancel") \/ Phase("await", "cancel")
    /\ Dead
    /\ \/ Drained
       \/ /\ stopping = "await" /\ disp = "ended"
          /\ UNCHANGED <<queueVars, lost, counted>>
    /\ CancelPending
    /\ UNCHANGED <<state, disp, starts, pubVars, dlq, drops, done, saved>>

(* The handler tasks that were cancelled are all gone.                     *)
StopGathers ==
    /\ Phase("cancel", "dlq")
    /\ pending = {}
    /\ UNCHANGED <<state, disp, starts, queueVars, pubVars, taskVars,
                   fateVars>>

(* The enqueues in flight are gathered and the DLQ is stopped. *)
StopEnds ==
    /\ Phase("dlq", "no")
    /\ dlq = {}
    /\ state' = "STOPPED" /\ disp' = "none"
    /\ UNCHANGED <<starts, queueVars, pubVars, taskVars, fateVars>>

-----------------------------------------------------------------------------
(***************************************************************************)
(* publish()                                                               *)
(***************************************************************************)

PublishWhileStopping(p) ==                                          \* mutant
    /\ state \in {"RUNNING", "STOPPING"} /\ disp = "live"
    /\ pub[p] = "idle" /\ next <= MaxEvents
    /\ pub' = [pub EXCEPT ![p] = "putting"]
    /\ item' = [item EXCEPT ![p] = next]
    /\ next' = next + 1
    /\ UNCHANGED <<lifeVars, queueVars, accepted, taskVars, fateVars>>
Publish(p) ==
    /\ state = "RUNNING" /\ disp = "live"
    /\ pub[p] = "idle" /\ next <= MaxEvents
    /\ pub' = [pub EXCEPT ![p] = "putting"]
    /\ item' = [item EXCEPT ![p] = next]
    /\ next' = next + 1
    /\ UNCHANGED <<lifeVars, queueVars, accepted, taskVars, fateVars>>

(* The put task finds room. *)
Put(p) ==
    /\ pub[p] = "putting"
    /\ Len(queue) < QueueMax
    /\ queue' = Append(queue, item[p])
    /\ unfinished' = unfinished + 1
    /\ accepted' = accepted \cup {item[p]}
    /\ pub' = [pub EXCEPT ![p] = "put"]
    /\ UNCHANGED <<lifeVars, item, next, taskVars, fateVars>>

Leave(p) ==
    /\ pub' = [pub EXCEPT ![p] = "idle"]
    /\ item' = [item EXCEPT ![p] = 0]

PublishReturns(p) ==
    /\ pub[p] = "put" /\ ~Dead
    /\ Leave(p)
    /\ UNCHANGED <<lifeVars, queueVars, next, accepted, taskVars, fateVars>>

(* The wait wakes with the dispatcher over: the put is cancelled if it is  *)
(* not done, the queue is drained, and RuntimeError is raised.             *)
PublishFailsOncePut(p) ==                                           \* mutant
    /\ pub[p] = "put" /\ Dead
    /\ Leave(p)
    /\ Drained
    /\ UNCHANGED <<lifeVars, next, accepted, taskVars, drops, done, saved>>
PublishFails(p) ==
    /\ pub[p] # "idle" /\ Dead
    /\ Leave(p)
    /\ Drained
    /\ UNCHANGED <<lifeVars, next, accepted, taskVars, drops, done, saved>>

(* The caller is cancelled: a put that is not done is cancelled with it.   *)
PublishCancelled(p) ==
    /\ pub[p] # "idle"
    /\ Leave(p)
    /\ UNCHANGED <<lifeVars, queueVars, next, accepted, taskVars, fateVars>>

-----------------------------------------------------------------------------
(***************************************************************************)
(* The dispatcher, the handlers and the way to the DLQ                     *)
(***************************************************************************)

Running(e, hs) == {[pair |-> <<e, h>>, st |-> "run"] : h \in hs}

(* The first n handlers of those in hs, in order of subscription. *)
First(n, hs) == {h \in hs : Cardinality({g \in hs : g < h}) < n}

(* _schedule_failure for a set of pairs at once: those the DLQ route has   *)
(* room for are enqueued, the others are counted as lost.                  *)
Room == IF HasDlq THEN MaxDlq - Cardinality(dlq) ELSE 0

(* One event through the subscriptions, the first k of them if the         *)
(* dispatcher aborts: up to _MAX_PENDING_TASKS tasks, the rest dropped.    *)
Route(e, hs, extra) ==
    LET spawned == First(MaxPending - Cardinality(pending), hs)
        dropped == hs \ spawned
        rerouted == First(Room, dropped)
    IN  /\ pending' = pending \cup Running(e, spawned)
        /\ drops' = drops + Cardinality(dropped)
        /\ dlq' = dlq \cup {<<e, h>> : h \in rerouted}
        /\ Lose({<<e, h>> : h \in dropped \ rerouted} \cup extra)

Take ==
    /\ disp = "live" /\ queue # <<>>
    /\ queue' = Tail(queue)
    /\ unfinished' = unfinished - 1

Dispatch ==
    /\ Take /\ Head(queue) # Sentinel
    /\ Route(Head(queue), Handlers, {})
    /\ UNCHANGED <<lifeVars, pubVars, done, saved>>

DispatchSentinel ==
    /\ Take /\ Head(queue) = Sentinel
    /\ disp' = "ended"
    /\ UNCHANGED <<state, stopping, starts, pubVars, taskVars, fateVars>>

(* An exception while routing: the event is counted as lost and the        *)
(* dispatcher dies, some handlers perhaps already started.                 *)
DispatchAbortsUncounted ==                                          \* mutant
    /\ Take /\ Head(queue) # Sentinel
    /\ \E k \in Handlers : Route(Head(queue), 1 .. (k - 1), {})
    /\ disp' = "dead"
    /\ UNCHANGED <<state, stopping, starts, pubVars, done, saved>>
DispatchAborts ==
    /\ Take /\ Head(queue) # Sentinel
    /\ \E k \in Handlers : Route(Head(queue), 1 .. (k - 1), Whole({Head(queue)}))
    /\ disp' = "dead"
    /\ UNCHANGED <<state, stopping, starts, pubVars, done, saved>>

(* The dispatcher is cancelled in queue.get(). *)
DispatcherCancelled ==
    /\ disp = "live"
    /\ disp' = "dead"
    /\ UNCHANGED <<state, stopping, starts, queueVars, pubVars, taskVars,
                   fateVars>>

HandlerDone(t) ==
    /\ t.st = "run"
    /\ pending' = pending \ {t}
    /\ done' = done \cup {t.pair}
    /\ UNCHANGED <<lifeVars, queueVars, pubVars, dlq, lost, drops, saved,
                   counted>>

(* The callback raises, or stop() cancelled it: the failure is scheduled   *)
(* for the DLQ and the handler task waits for the enqueue.                 *)
HandlerFails(t) ==
    /\ t.st = "run"
    /\ IF Room > 0
       THEN /\ dlq' = dlq \cup {t.pair}
            /\ pending' = (pending \ {t}) \cup {[t EXCEPT !.st = "saving"]}
            /\ UNCHANGED <<lost, counted>>
       ELSE /\ pending' = pending \ {t}
            /\ Lose({t.pair})
            /\ UNCHANGED dlq
    /\ UNCHANGED <<lifeVars, queueVars, pubVars, drops, done, saved>>

(* The enqueue it waited for is over. *)
HandlerLeaves(t) ==
    /\ t.st = "saving"
    /\ t.pair \notin dlq
    /\ pending' = pending \ {t}
    /\ UNCHANGED <<lifeVars, queueVars, pubVars, dlq, fateVars>>

EnqueueWorks(d) ==
    /\ dlq' = dlq \ {d}
    /\ saved' = saved \cup {d}
    /\ UNCHANGED <<lifeVars, queueVars, pubVars, pending, lost, drops, done,
                   counted>>

EnqueueFails(d) ==
    /\ dlq' = dlq \ {d}
    /\ Lose({d})
    /\ UNCHANGED <<lifeVars, queueVars, pubVars, pending, drops, done, saved>>

-----------------------------------------------------------------------------
StopStep ==
    \/ StopLooks \/ StopAborts \/ PutSentinel \/ DispatcherOver
    \/ StopGathers \/ StopEnds

PublishStep(p) == Put(p) \/ PublishReturns(p) \/ PublishFails(p)

TaskStep(t) == HandlerFails(t) \/ HandlerLeaves(t)

EnqueueStep(d) == EnqueueWorks(d) \/ EnqueueFails(d)

Next ==
    \/ BeginStart \/ StartWorks \/ StartFails \/ BeginStop \/ StopStep
    \/ \E p \in Publishers :
          Publish(p) \/ PublishStep(p) \/ PublishCancelled(p)
    \/ Dispatch \/ DispatchSentinel \/ DispatchAborts \/ DispatcherCancelled
    \/ \E t \in pending : HandlerDone(t) \/ TaskStep(t)
    \/ \E d \in dlq : EnqueueStep(d)

Spec == Init /\ [][Next]_vars

(* The event loop runs what is ready; a handler that stop() cancelled lets *)
(* go, and an enqueue ends one way or the other.  A handler that is not    *)
(* cancelled need never end.                                               *)
Fairness ==
    /\ WF_vars(StopStep)
    /\ WF_vars(Dispatch \/ DispatchSentinel)
    /\ \A p \in Publishers : WF_vars(PublishStep(p))
    /\ WF_vars(stopping = "cancel" /\ \E t \in pending : TaskStep(t))
    /\ WF_vars(\E d \in dlq : EnqueueStep(d))

FairSpec == Spec /\ Fairness

-----------------------------------------------------------------------------
(***************************************************************************)
(* Properties.                                                             *)
(***************************************************************************)

(* No event vanishes (_dispatch_loop, _drain_abandoned_queue,              *)
(* _schedule_failure): once the bus is stopped, every event that entered   *)
(* the queue was, for each subscriber, handled, saved in the DLQ or        *)
(* counted in events_lost, whatever died or was cancelled on the way; and  *)
(* events_lost counts each loss once, and only losses.                     *)
EventsAccounted ==
    /\ state = "STOPPED" =>
        \A e \in accepted : <<e, 0>> \in counted
            \/ \A h \in Handlers : <<e, h>> \in done \cup saved \cup counted
    /\ lost = Cardinality(counted)
    /\ counted \cap (done \cup saved) = {}

(* stop() leaves nothing behind (_stop_started_bus, _finish_dispatch): no  *)
(* item in the queue, no publisher inside publish(), no handler, no        *)
(* enqueue, and Queue.join() would return.                                 *)
StoppedMeansQuiet ==
    state = "STOPPED" =>
        /\ queue = <<>> /\ unfinished = 0
        /\ pending = {} /\ dlq = {}
        /\ ~Admitted

(* A stop() that has begun ends, also with the queue full, publishers      *)
(* blocked, the DLQ route at its cap or the dispatcher dying meanwhile.    *)
StopReachesStopped == state = "STOPPING" ~> state = "STOPPED"

(* No publisher is left waiting for room in a queue nobody empties.        *)
PublishEnds == \A p \in Publishers : pub[p] # "idle" ~> pub[p] = "idle"
=============================================================================
