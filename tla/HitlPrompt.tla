---------------------------- MODULE HitlPrompt ----------------------------
(***************************************************************************)
(* One question to the operator: HITLGuard.request_approval and respond    *)
(* (app/security/hitl.py), the notify closure of AppContext that sends the *)
(* prompt to Telegram, and the registry of tokens and messages that makes  *)
(* its buttons work (app/comms/telegram.py).                               *)
(*                                                                         *)
(* The guard's lock and the registry's are never held across an await and  *)
(* taking a free asyncio.Lock does not suspend, so what happens between    *)
(* two suspensions is one step: network calls, tasks that are created but  *)
(* have not started (the registration, and every observer wait_for runs),  *)
(* and the wait for the answer.  A call can be cancelled at each of them.  *)
(* A cancellation that wait_for swallows because the answer was already in *)
(* changes nothing and is no step.                                         *)
(***************************************************************************)
EXTENDS Naturals, FiniteSets

CONSTANTS
    Calls,          \* the requests that may be made (their ids are unique)
    MaxEntries      \* max_entries of the registry

VARIABLES
    channel,    \* whether a sender and an operator chat are configured
    pc,         \* where request_approval is
    answer,     \* the committed decision ("none": not _resolved)
    outcome,    \* what request_approval returned
    reg,        \* the registry's view of the request's token
    regTask,    \* the task of register_hitl_message_cancellation_safe
    resp,       \* on_terminal of the respond() that committed
    msg,        \* what the operator's chat shows
    cleared,    \* registry.clear() was called (shutdown)
    unshown,    \* history: an edit that failed, was cut off or had no mapping
    cutOff      \* history: a cancellation came before the observer started

guard == <<pc, answer, outcome>>
registry == <<reg, regTask, cleared>>
chat == <<resp, msg, unshown, cutOff>>
hitlVars == <<channel, guard, registry, chat>>

Decisions == {"approved", "denied", "timeout"}
HitlPcs == {"idle", "sending", "registering", "draining", "discarding", "terminalizing",
            "invalidating", "presenting", "waiting", "timedOut", "expiring",
            "leaving", "retracting", "out"}

\* Requests in _pending: from the insertion until the finally block.
Pending == {c \in Calls : pc[c] \notin {"idle", "leaving", "retracting", "out"}}

HitlInit ==
    /\ channel \in BOOLEAN
    /\ pc = [c \in Calls |-> "idle"]
    /\ answer = [c \in Calls |-> "none"]
    /\ outcome = [c \in Calls |-> "none"]
    /\ reg = [c \in Calls |-> "none"]
    /\ regTask = [c \in Calls |-> "none"]
    /\ resp = [c \in Calls |-> "none"]
    /\ msg = [c \in Calls |-> "none"]
    /\ cleared = FALSE
    /\ unshown = {} /\ cutOff = {}

Goto(c, at) == pc' = [pc EXCEPT ![c] = at]
Out(c, o) == Goto(c, "out") /\ outcome' = [outcome EXCEPT ![c] = o]

\* release_token(): only a reservation, never a registered message.
ReleaseToken(c) == reg' = [reg EXCEPT ![c] = IF @ = "reserved" THEN "none" ELSE @]

\* The registration task is over and its result has been looked at.
Join(c) == regTask' = [regTask EXCEPT ![c] = "none"]

\* pop(): the token goes, reserved or registered; there is a message to edit
\* when it was registered.
Pop(c) == reg' = [reg EXCEPT ![c] = "none"]
HasMapping(c) == reg[c] = "registered"

\* The finally block of a cancelled request: on_cancel is run for a request
\* nobody resolved.
Leave(c) ==
    IF answer[c] = "none"
    THEN Goto(c, "leaving") /\ UNCHANGED outcome
    ELSE Out(c, "cancelled")

\* An edit of the prompt ends: done, or failed, or timed out.
Edit(c, text) ==
    \/ msg' = [msg EXCEPT ![c] = text] /\ UNCHANGED unshown
    \/ unshown' = unshown \cup {c} /\ UNCHANGED msg

----------------------------------------------------------------------------
(* The request is inserted and _hitl_notify runs up to sendMessage.        *)
(* Without a channel it denies by itself; a full registry makes it raise.  *)
Ask(c) ==
    /\ pc[c] = "idle"
    /\ \/ /\ ~channel
          /\ answer' = [answer EXCEPT ![c] = "denied"]
          /\ Goto(c, "waiting")
          /\ UNCHANGED <<outcome, reg>>
       \/ /\ channel
          /\ Cardinality({d \in Calls : reg[d] # "none"}) >= MaxEntries
          /\ Out(c, "timeout")
          /\ UNCHANGED <<answer, reg>>
       \/ /\ channel
          /\ Cardinality({d \in Calls : reg[d] # "none"}) < MaxEntries
          /\ reg' = [reg EXCEPT ![c] = "reserved"]
          /\ Goto(c, "sending")
          /\ UNCHANGED <<answer, outcome>>
    /\ UNCHANGED <<channel, regTask, cleared, chat>>

Sent(c) ==
    /\ pc[c] = "sending"
    /\ msg' = [msg EXCEPT ![c] = "live"]
    /\ regTask' = [regTask EXCEPT ![c] = "ready"]
    /\ Goto(c, "registering")
    /\ UNCHANGED <<channel, answer, outcome, reg, cleared, resp, unshown, cutOff>>

\* A message that was not acknowledged may have been delivered all the same.
MaybeDelivered(c) ==
    \/ UNCHANGED <<msg, unshown>>
    \/ msg' = [msg EXCEPT ![c] = "live"] /\ unshown' = unshown \cup {c}

\* Mutant: the failed prompt outweighs an answer that was committed.
NotifyFailsAnyway(c) == Out(c, "timeout")

\* _hitl_notify raises, unless a decision was committed meanwhile.
NotifyFails(c) ==
    IF answer[c] = "none"
    THEN Out(c, "timeout")
    ELSE Goto(c, "waiting") /\ UNCHANGED outcome

\* Mutant: a prompt that could not be sent keeps its reservation.
SendFailsKeepsToken(c) ==
    /\ pc[c] = "sending"
    /\ MaybeDelivered(c)
    /\ NotifyFails(c)
    /\ UNCHANGED <<channel, answer, registry, resp, cutOff>>

SendFails(c) ==
    /\ pc[c] = "sending"
    /\ MaybeDelivered(c)
    /\ ReleaseToken(c)
    /\ NotifyFails(c)
    /\ UNCHANGED <<channel, answer, regTask, cleared, resp, cutOff>>

CancelSending(c) ==
    /\ pc[c] = "sending"
    /\ MaybeDelivered(c)
    /\ ReleaseToken(c)
    /\ Leave(c)
    /\ UNCHANGED <<channel, answer, regTask, cleared, resp, cutOff>>

----------------------------------------------------------------------------
(* The registration is a task of its own, shielded from the request's      *)
(* cancellation.  It fails when the reservation is gone.                   *)
Register(c) ==
    /\ regTask[c] = "ready"
    /\ IF reg[c] = "reserved"
       THEN /\ reg' = [reg EXCEPT ![c] = "registered"]
            /\ regTask' = [regTask EXCEPT ![c] = "ok"]
       ELSE /\ regTask' = [regTask EXCEPT ![c] = "failed"]
            /\ UNCHANGED reg
    /\ UNCHANGED <<channel, guard, cleared, chat>>

\* Registered: a decision that came before the mapping is presented here.
Registered(c) ==
    /\ pc[c] = "registering" /\ regTask[c] = "ok"
    /\ IF answer[c] = "none"
       THEN Goto(c, "waiting") /\ UNCHANGED reg
       ELSE /\ Pop(c)
            /\ Goto(c, IF HasMapping(c) THEN "presenting" ELSE "waiting")
    /\ Join(c)
    /\ UNCHANGED <<channel, answer, outcome, cleared, chat>>

\* Not registered: the new message is given its decision, or invalidated.
NotRegistered(c) ==
    /\ pc[c] = "registering" /\ regTask[c] = "failed"
    /\ ReleaseToken(c)
    /\ Goto(c, IF answer[c] = "none" THEN "invalidating" ELSE "terminalizing")
    /\ Join(c)
    /\ UNCHANGED <<channel, answer, outcome, cleared, chat>>

Presented(c) ==
    /\ \/ pc[c] \in {"presenting", "terminalizing"}
          /\ Edit(c, answer[c]) /\ Goto(c, "waiting") /\ UNCHANGED outcome
       \/ pc[c] = "invalidating"
          /\ Edit(c, "void") /\ NotifyFails(c)
    /\ UNCHANGED <<channel, answer, registry, resp, cutOff>>

CancelPresenting(c) ==
    /\ pc[c] \in {"presenting", "terminalizing", "invalidating"}
    /\ unshown' = unshown \cup {c}
    /\ Leave(c)
    /\ UNCHANGED <<channel, answer, registry, resp, msg, cutOff>>

CancelRegistering(c) ==
    /\ pc[c] = "registering"
    /\ Goto(c, "draining")
    /\ UNCHANGED <<channel, answer, outcome, registry, chat>>

\* The cancelled request waits for its registration before it goes on.
Drained(c) ==
    /\ pc[c] = "draining"
    /\ \/ regTask[c] = "ok" /\ Leave(c) /\ UNCHANGED reg
       \/ regTask[c] = "failed" /\ ReleaseToken(c) /\ Goto(c, "discarding") /\ UNCHANGED outcome
    /\ Join(c)
    /\ UNCHANGED <<channel, answer, cleared, chat>>

\* A second cancellation cancels the registration itself.
CancelDraining(c) ==
    /\ pc[c] = "draining" /\ regTask[c] = "ready"
    /\ Join(c)
    /\ ReleaseToken(c)
    /\ unshown' = unshown \cup {c}
    /\ Leave(c)
    /\ UNCHANGED <<channel, answer, cleared, resp, msg, cutOff>>

Discarded(c) ==
    /\ pc[c] = "discarding"
    /\ Edit(c, "void")
    /\ Leave(c)
    /\ UNCHANGED <<channel, answer, registry, resp, cutOff>>

----------------------------------------------------------------------------
Answered(c) ==
    /\ pc[c] = "waiting" /\ answer[c] # "none"
    /\ Out(c, answer[c])
    /\ UNCHANGED <<channel, answer, registry, chat>>

\* Mutant: the wait has no deadline of its own.
TimeoutNever(c) ==
    /\ pc[c] = "waiting" /\ answer[c] # "none"
    /\ Out(c, answer[c])
    /\ UNCHANGED <<channel, answer, registry, chat>>

\* The wait ends without the event.  _commit() is a no-op when an answer was
\* committed before the waiter got to run: the answer counts.
Timeout(c) ==
    /\ pc[c] = "waiting"
    /\ IF answer[c] = "none"
       THEN /\ answer' = [answer EXCEPT ![c] = "timeout"]
            /\ Goto(c, "timedOut")
            /\ UNCHANGED outcome
       ELSE Out(c, answer[c]) /\ UNCHANGED answer
    /\ UNCHANGED <<channel, registry, chat>>

\* on_terminal of the timeout: the mapping is consumed, then the edit.
ObserveTimeout(c) ==
    /\ pc[c] = "timedOut"
    /\ Pop(c)
    /\ IF HasMapping(c)
       THEN Goto(c, "expiring") /\ UNCHANGED outcome
       ELSE Out(c, answer[c])
    /\ UNCHANGED <<channel, answer, regTask, cleared, chat>>

Expired(c) ==
    /\ pc[c] = "expiring"
    /\ Edit(c, "timeout")
    /\ Out(c, answer[c])
    /\ UNCHANGED <<channel, answer, registry, resp, cutOff>>

CancelWaiting(c) ==
    /\ pc[c] = "waiting"
    /\ Leave(c)
    /\ UNCHANGED <<channel, answer, registry, chat>>

ObserveCancel(c) ==
    /\ pc[c] = "leaving"
    /\ Pop(c)
    /\ IF HasMapping(c)
       THEN Goto(c, "retracting") /\ UNCHANGED outcome
       ELSE Out(c, "cancelled")
    /\ UNCHANGED <<channel, answer, regTask, cleared, chat>>

Retracted(c) ==
    /\ pc[c] = "retracting"
    /\ Edit(c, "void")
    /\ Out(c, "cancelled")
    /\ UNCHANGED <<channel, answer, registry, resp, cutOff>>

\* A cancellation while an observer of the request itself is under way: one
\* that has not started never runs.
CancelObserver(c) ==
    /\ pc[c] \in {"timedOut", "expiring", "leaving", "retracting"}
    /\ unshown' = unshown \cup {c}
    /\ cutOff' = IF pc[c] \in {"timedOut", "leaving"} THEN cutOff \cup {c} ELSE cutOff
    /\ Out(c, "cancelled")
    /\ UNCHANGED <<channel, answer, registry, resp, msg>>

----------------------------------------------------------------------------
(* A button, a /approve command or another interface: the first answer to  *)
(* a pending request is committed.  Later ones are told it is too late and *)
(* change nothing.                                                         *)
Respond(c, d) ==
    /\ c \in Pending /\ answer[c] = "none"
    /\ answer' = [answer EXCEPT ![c] = d]
    /\ resp' = [resp EXCEPT ![c] = "observing"]
    /\ UNCHANGED <<channel, pc, outcome, registry, msg, unshown, cutOff>>

\* on_terminal of the answer.  terminalize_hitl() of the callback, after it,
\* finds no mapping left.
ObserveAnswer(c) ==
    /\ resp[c] = "observing"
    /\ Pop(c)
    /\ resp' = [resp EXCEPT ![c] = IF HasMapping(c) THEN "editing" ELSE "none"]
    /\ UNCHANGED <<channel, guard, regTask, cleared, msg, unshown, cutOff>>

Shown(c) ==
    /\ resp[c] = "editing"
    /\ Edit(c, answer[c])
    /\ resp' = [resp EXCEPT ![c] = "none"]
    /\ UNCHANGED <<channel, guard, registry, cutOff>>

\* Shutdown forgets every token; messages already sent keep their buttons.
Clear ==
    /\ channel /\ ~cleared /\ cleared' = TRUE
    /\ unshown' = unshown \cup {c \in Calls : HasMapping(c)}
    /\ reg' = [c \in Calls |-> "none"]
    /\ UNCHANGED <<channel, guard, regTask, resp, msg, cutOff>>

----------------------------------------------------------------------------
\* What the event loop, the network's deadlines and the timers bring about.
Proceed(c) ==
    \/ Sent(c) \/ SendFails(c) \/ Register(c) \/ Registered(c) \/ NotRegistered(c)
    \/ Presented(c) \/ Drained(c) \/ Discarded(c) \/ Answered(c) \/ Timeout(c)
    \/ ObserveTimeout(c) \/ Expired(c) \/ ObserveCancel(c) \/ Retracted(c)

Observe(c) == ObserveAnswer(c) \/ Shown(c)

Cancel(c) ==
    \/ CancelSending(c) \/ CancelRegistering(c) \/ CancelDraining(c)
    \/ CancelPresenting(c) \/ CancelWaiting(c) \/ CancelObserver(c)

HitlStep ==
    \/ \E c \in Calls : Proceed(c) \/ Observe(c) \/ Cancel(c)
    \/ \E c \in Calls, d \in {"approved", "denied"} : Respond(c, d)
    \/ Clear

HitlTypeOK ==
    /\ channel \in BOOLEAN /\ cleared \in BOOLEAN
    /\ pc \in [Calls -> HitlPcs]
    /\ answer \in [Calls -> Decisions \cup {"none"}]
    /\ outcome \in [Calls -> Decisions \cup {"none", "cancelled"}]
    /\ reg \in [Calls -> {"none", "reserved", "registered"}]
    /\ regTask \in [Calls -> {"none", "ready", "ok", "failed"}]
    /\ resp \in [Calls -> {"none", "observing", "editing"}]
    /\ msg \in [Calls -> Decisions \cup {"none", "live", "void"}]
    /\ unshown \in SUBSET Calls /\ cutOff \in SUBSET Calls
=============================================================================
