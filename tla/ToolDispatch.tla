--------------------------- MODULE ToolDispatch ---------------------------
(***************************************************************************)
(* A tool call through OrchestrationToolDispatcher: IdempotencyMiddleware  *)
(* with its IdempotencyGuard, HitlGateMiddleware, and the strategy         *)
(* (app/orchestrator/tool_strategies/middleware.py, tool_state_machine.py),*)
(* over the operator's prompt of HitlPrompt.                               *)
(*                                                                         *)
(* A middleware runs without suspension from the return of the inner call, *)
(* so dispatch up to prepare_for_approval is one step, and so is the end.  *)
(***************************************************************************)
EXTENDS HitlPrompt

CONSTANTS
    Keys,       \* idempotency keys: a tool with its payload
    KeyOf,      \* the key of each call
    TTL,        \* key_ttl_seconds
    NoCall

ASSUME DispatchConstants ==
    /\ KeyOf \in [Calls -> Keys] /\ NoCall \notin Calls
    /\ MaxEntries \in Nat \ {0} /\ TTL \in Nat

VARIABLES
    gated,      \* keys whose tool is in DESTRUCTIVE_TOOL_PATTERNS
    stage,      \* how far the call has come in the middleware chain
    owner,      \* IdempotencyGuard._active: the task that acquired the key
    held        \* time since the call acquired its key, at most TTL + 1

dispatchVars == <<gated, stage, owner, held>>
vars == <<hitlVars, dispatchVars>>

Stages == {"new", "preparing", "asking", "running", "refused", "done"}
InFlight == {c \in Calls : stage[c] \in {"preparing", "asking", "running"}}

DispatchInit ==
    /\ HitlInit
    /\ gated \in SUBSET Keys
    /\ stage = [c \in Calls |-> "new"]
    /\ owner = [k \in Keys |-> NoCall]
    /\ held = [c \in Calls |-> 0]

----------------------------------------------------------------------------
\* _is_expired(): strictly older than the TTL; a TTL of 0 never expires.
IsExpired(c) == TTL > 0 /\ held[c] > TTL
IsActive(k) == owner[k] # NoCall /\ ~IsExpired(owner[k])

\* acquire() of a key that is free or whose owner's time has run out.
Acquire(c) ==
    /\ owner' = [owner EXCEPT ![KeyOf[c]] = c]
    /\ held' = [held EXCEPT ![c] = 0]

\* Mutant: the legacy release, without the owner check.
ReleaseAny(c) == owner' = [owner EXCEPT ![KeyOf[c]] = NoCall]

\* release() of transition() to a terminal state: only by the owner.
Release(c) ==
    owner' = [owner EXCEPT ![KeyOf[c]] = IF @ = c THEN NoCall ELSE @]

Stage(c, to) == stage' = [stage EXCEPT ![c] = to]
End(c) == Stage(c, "done") /\ Release(c)

(* A duplicate is refused before a task is created; otherwise the key is   *)
(* acquired, an expired one reclaimed.                                     *)
Dispatch(c) ==
    /\ stage[c] = "new"
    /\ IF IsActive(KeyOf[c])
       THEN Stage(c, "refused") /\ UNCHANGED <<owner, held>>
       ELSE /\ Acquire(c)
            /\ Stage(c, IF KeyOf[c] \in gated THEN "preparing" ELSE "running")
    /\ UNCHANGED <<hitlVars, gated>>

\* prepare_for_approval() returns and the gate asks.
Gate(c) ==
    /\ stage[c] = "preparing"
    /\ Stage(c, "asking")
    /\ Ask(c)
    /\ UNCHANGED <<gated, owner, held>>

\* validate_for_approval() or prepare_for_approval() raises, the call is
\* cancelled there, or there is no guard to ask (HITLGateUnavailable).
PrepareFails(c) ==
    /\ stage[c] = "preparing"
    /\ End(c)
    /\ UNCHANGED <<hitlVars, gated, held>>

\* Mutant: whatever is not a denial goes on (a timeout auto-approves).
ResumeUnlessDenied(c) ==
    /\ stage[c] = "asking" /\ pc[c] = "out"
    /\ IF outcome[c] \notin {"denied", "cancelled"}
       THEN Stage(c, "running") /\ UNCHANGED owner
       ELSE End(c)
    /\ UNCHANGED <<hitlVars, gated, held>>

\* The gate has its decision, or the cancellation.
Resume(c) ==
    /\ stage[c] = "asking" /\ pc[c] = "out"
    /\ IF outcome[c] = "approved"
       THEN Stage(c, "running") /\ UNCHANGED owner
       ELSE End(c)
    /\ UNCHANGED <<hitlVars, gated, held>>

\* execute() returns a result, an error or a stage for the operator, raises,
\* or is cancelled: COMPLETED, FAILED or AWAITING_OPERATOR, all terminal.
Finish(c) ==
    /\ stage[c] = "running"
    /\ End(c)
    /\ UNCHANGED <<hitlVars, gated, held>>

Tick ==
    /\ \E c \in InFlight : held[c] <= TTL
    /\ held' = [c \in Calls |-> IF c \in InFlight /\ held[c] <= TTL THEN held[c] + 1 ELSE held[c]]
    /\ UNCHANGED <<hitlVars, gated, stage, owner>>

\* The gate goes on in the very step in which request_approval returned.
Returned == {c \in Calls : stage[c] = "asking" /\ pc[c] = "out"}

Next ==
    \/ \E c \in Returned : Resume(c)
    \/ /\ Returned = {}
       /\ \/ HitlStep /\ UNCHANGED dispatchVars
          \/ \E c \in Calls : Dispatch(c) \/ Gate(c) \/ PrepareFails(c) \/ Finish(c)
          \/ Tick

Spec == DispatchInit /\ [][Next]_vars

\* The call's own next step while the gate is asking.
Advance(c) == Resume(c) \/ (Returned = {} /\ Proceed(c) /\ UNCHANGED dispatchVars)

(* Every suspension of the request has a deadline: sendMessage and the     *)
(* edits have the sender's or the observer's, the answer has the guard's.  *)
FairSpec == Spec /\ \A c \in Calls : WF_vars(Advance(c))

----------------------------------------------------------------------------
(* Types; a call is in the guard only from the gate on, and comes out of   *)
(* it with a decision or as cancelled.                                     *)
TypeOK ==
    /\ HitlTypeOK
    /\ gated \in SUBSET Keys
    /\ stage \in [Calls -> Stages]
    /\ owner \in [Keys -> Calls \cup {NoCall}]
    /\ held \in [Calls -> 0..(TTL + 1)]
    /\ \A c \in Calls : pc[c] # "idle" => stage[c] \in {"asking", "running", "done"}
    /\ \A c \in Calls : pc[c] = "out" <=> outcome[c] # "none"

(* A destructive tool runs only after an APPROVED that the operator really *)
(* committed on this very request; no timeout, failed prompt, full         *)
(* registry, missing channel or cancellation stands in for it.             *)
NoUnapprovedRun ==
    \A c \in Calls : stage[c] = "running" /\ KeyOf[c] \in gated => answer[c] = "approved"

(* The first decision counts: what request_approval returns is the         *)
(* committed one (and TIMEOUT if there is none), so an operator who was    *)
(* told "approved" or "denied" sees just that happen, even when the prompt *)
(* failed or timed out meanwhile; only a cancelled call returns nothing.   *)
FirstAnswerCounts ==
    \A c \in Calls : outcome[c] \in Decisions =>
        outcome[c] = IF answer[c] = "none" THEN "timeout" ELSE answer[c]

(* Nothing of the request under way any more.                              *)
Settled(c) == pc[c] = "out" /\ resp[c] = "none" /\ regTask[c] = "none"

(* A request that is over leaves nothing behind.  Its token is gone, so    *)
(* the registry cannot fill up and deny everything; the exception is a     *)
(* cancellation in the instant between the decision and the start of its   *)
(* observer.  The prompt has no live buttons and shows the decision that   *)
(* was committed, or "not actionable" for a call that was cancelled or     *)
(* lost its token in a shutdown; excepted are messages whose edit Telegram *)
(* refused, a cancellation cut off, or a shutdown made impossible.         *)
PromptSettled ==
    \A c \in Calls : Settled(c) =>
        /\ c \notin cutOff => reg[c] = "none"
        /\ c \notin unshown /\ msg[c] # "none" =>
            \/ msg[c] = answer[c]
            \/ msg[c] = "void" /\ (outcome[c] = "cancelled" \/ cleared)

(* The key follows its call: a call within its TTL still owns its key,     *)
(* whatever a slower call that lost it does at its end, and a key never    *)
(* stays with a call that is over, failed and cancelled ones included (F4).*)
(* So of two calls in flight with one tool and payload one has outlived    *)
(* the TTL.                                                                *)
KeyFollowsCall ==
    /\ \A c \in InFlight : ~IsExpired(c) => owner[KeyOf[c]] = c
    /\ \A k \in Keys : owner[k] # NoCall => owner[k] \in InFlight

(* A gate always comes back: with an operator who never answers, a         *)
(* Telegram that fails and calls that are cancelled.                       *)
GateReturns ==
    \A c \in Calls : stage[c] = "asking" ~> stage[c] \in {"running", "done"}
=============================================================================
