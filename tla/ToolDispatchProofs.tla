------------------------ MODULE ToolDispatchProofs ------------------------
(***************************************************************************)
(* Proofs about ToolDispatch and the prompt it composes, for every set of  *)
(* calls and keys, every registry size and every time to live.             *)
(*                                                                         *)
(* PromptInv is the inductive invariant of the prompt.  It says, for each  *)
(* place request_approval can be suspended at, which decision may be       *)
(* committed there (AnswerInv), who is going to give the token back        *)
(* (TokenInv) and who is going to take the buttons off the message         *)
(* (MsgInv).  KeyInv is the one of the idempotency guard.                  *)
(***************************************************************************)
EXTENDS ToolDispatch, TLAPS

\* The suspensions at which the registration task exists, and those at which
\* the request itself is about to edit its message.
Registering == {"registering", "draining"}
OwnEdit == {"discarding", "terminalizing", "invalidating", "presenting", "expiring", "retracting"}

\* What is known of the decision; a call returns the committed one.
AnswerInv(c) ==
    /\ pc[c] = "idle" => answer[c] = "none"
    /\ pc[c] \in {"timedOut", "expiring"} => answer[c] = "timeout"
    /\ pc[c] \in {"leaving", "retracting"} => answer[c] = "none"
    /\ pc[c] \in {"presenting", "terminalizing"} => answer[c] # "none"
    /\ resp[c] # "none" => answer[c] \in {"approved", "denied"}
    /\ pc[c] = "out" <=> outcome[c] # "none"
    /\ outcome[c] \in Decisions => outcome[c] = IF answer[c] = "none" THEN "timeout" ELSE answer[c]

\* A token that is left has somebody who will pop or release it, and one that
\* is gone before its message was registered was taken by an answer or by the
\* shutdown.
TokenInv(c) ==
    /\ regTask[c] # "none" <=> pc[c] \in Registering
    /\ reg[c] = "reserved" => pc[c] = "sending" \/ regTask[c] = "ready"
    /\ reg[c] = "registered" =>
          regTask[c] = "ok" \/ pc[c] \in {"waiting", "timedOut", "leaving", "out"}
    /\ reg[c] # "none" /\ answer[c] # "none" =>
          resp[c] = "observing" \/ pc[c] = "timedOut" \/ c \in cutOff
    /\ reg[c] # "none" /\ pc[c] = "out" => answer[c] # "none" \/ c \in cutOff
    /\ reg[c] = "none" /\ (pc[c] = "sending" \/ regTask[c] \in {"ready", "failed"}) =>
          answer[c] # "none" \/ cleared
    /\ pc[c] = "invalidating" => cleared

\* A live message has somebody who will edit it, unless that is known to have
\* failed, and what it shows otherwise is the truth.
MsgInv(c) ==
    /\ pc[c] \in {"idle", "sending"} => msg[c] = "none"
    /\ c \in cutOff => c \in unshown /\ pc[c] = "out"
    /\ resp[c] = "editing" => regTask[c] = "ok" \/ pc[c] \in {"waiting", "out"}
    /\ c \notin unshown /\ msg[c] = "live" =>
          \/ resp[c] = "editing" \/ reg[c] = "registered"
          \/ regTask[c] \in {"ready", "failed"} \/ pc[c] \in OwnEdit
    /\ c \notin unshown /\ msg[c] = "void" =>
          cleared \/ outcome[c] = "cancelled" \/ pc[c] \in {"leaving", "retracting"}
    /\ c \notin unshown /\ msg[c] \in Decisions => msg[c] = answer[c]

Answers == \A c \in Calls : AnswerInv(c)
Tokens == \A c \in Calls : TokenInv(c)
Messages == \A c \in Calls : MsgInv(c)
PromptInv == HitlTypeOK /\ Answers /\ Tokens /\ Messages

USE DispatchConstants DEF guard, registry, chat, Goto, Out, ReleaseToken, Join, Pop, HasMapping,
    Decisions, HitlPcs, Registering, OwnEdit, HitlTypeOK

----------------------------------------------------------------------------
\* The prompt's invariant holds before any call is made.
LEMMA PromptInit ==
    ASSUME HitlInit
    PROVE  PromptInv
<1>1. HitlTypeOK
  BY DEF HitlInit
<1>2. Answers
  BY DEF HitlInit, Answers, AnswerInv
<1>3. Tokens /\ Messages
  BY DEF HitlInit, Tokens, TokenInv, Messages, MsgInv
<1> QED
  BY <1>1, <1>2, <1>3 DEF PromptInv

\* PromptInv survives request_approval's first step, through each of its three ways.
LEMMA AskStep ==
    ASSUME PromptInv, NEW c \in Calls, Ask(c)
    PROVE  PromptInv'
<1>1. HitlTypeOK'
  BY DEF PromptInv, Ask
<1>2. Answers'
  BY DEF PromptInv, Answers, AnswerInv, Ask
<1>3. Tokens'
  BY DEF PromptInv, Answers, AnswerInv, Tokens, TokenInv, Ask
<1>4. Messages'
  BY DEF PromptInv, Messages, MsgInv, Ask
<1> QED
  BY <1>1, <1>2, <1>3, <1>4 DEF PromptInv

\* PromptInv survives the message going out.
LEMMA SentStep ==
    ASSUME PromptInv, NEW c \in Calls, Sent(c)
    PROVE  PromptInv'
<1>1. HitlTypeOK'
  BY DEF PromptInv, Sent
<1>2. Answers'
  BY DEF PromptInv, Answers, AnswerInv, Sent
<1>3. Tokens'
  BY DEF PromptInv, Tokens, TokenInv, Sent
<1>4. Messages'
  BY DEF PromptInv, Tokens, TokenInv, Messages, MsgInv, Sent
<1> QED
  BY <1>1, <1>2, <1>3, <1>4 DEF PromptInv

\* PromptInv survives a prompt that could not be sent.
LEMMA SendFailsStep ==
    ASSUME PromptInv, NEW c \in Calls, SendFails(c)
    PROVE  PromptInv'
<1>1. HitlTypeOK'
  BY DEF PromptInv, SendFails, MaybeDelivered, NotifyFails
<1>2. Answers'
  BY DEF PromptInv, Answers, AnswerInv, SendFails, MaybeDelivered, NotifyFails
<1>3. Tokens'
  BY DEF PromptInv, Tokens, TokenInv, SendFails, MaybeDelivered, NotifyFails
<1>4. Messages'
  BY DEF PromptInv, Messages, MsgInv, SendFails, MaybeDelivered, NotifyFails
<1> QED
  BY <1>1, <1>2, <1>3, <1>4 DEF PromptInv

\* PromptInv survives a cancellation while the prompt is sent.
LEMMA CancelSendingStep ==
    ASSUME PromptInv, NEW c \in Calls, CancelSending(c)
    PROVE  PromptInv'
<1>1. HitlTypeOK'
  BY DEF PromptInv, CancelSending, MaybeDelivered, Leave
<1>2. Answers'
  BY DEF PromptInv, Answers, AnswerInv, CancelSending, MaybeDelivered, Leave
<1>3. Tokens'
  BY DEF PromptInv, Tokens, TokenInv, CancelSending, MaybeDelivered, Leave
<1>4. Messages'
  BY DEF PromptInv, Messages, MsgInv, CancelSending, MaybeDelivered, Leave
<1> QED
  BY <1>1, <1>2, <1>3, <1>4 DEF PromptInv

\* PromptInv survives the registration task.
LEMMA RegisterStep ==
    ASSUME PromptInv, NEW c \in Calls, Register(c)
    PROVE  PromptInv'
<1>1. HitlTypeOK'
  BY DEF PromptInv, Register
<1>2. Answers'
  BY DEF PromptInv, Answers, AnswerInv, Register
<1>3. Tokens'
  BY DEF PromptInv, Tokens, TokenInv, Register
<1>4. Messages'
  BY DEF PromptInv, Messages, MsgInv, Register
<1> QED
  BY <1>1, <1>2, <1>3, <1>4 DEF PromptInv

\* PromptInv survives the end of a registration that worked.
LEMMA RegisteredStep ==
    ASSUME PromptInv, NEW c \in Calls, Registered(c)
    PROVE  PromptInv'
<1>1. HitlTypeOK'
  BY DEF PromptInv, Registered
<1>2. Answers'
  BY DEF PromptInv, Answers, AnswerInv, Registered
<1>3. Tokens'
  BY DEF PromptInv, Tokens, TokenInv, Registered
<1>4. Messages'
  <2>1. CASE answer[c] = "none"
    BY <2>1 DEF PromptInv, Answers, AnswerInv, Tokens, TokenInv, Messages, MsgInv, Registered
  <2>2. CASE answer[c] # "none" /\ reg[c] = "registered"
    BY <2>2 DEF PromptInv, Answers, AnswerInv, Tokens, TokenInv, Messages, MsgInv, Registered
  <2>3. CASE answer[c] # "none" /\ reg[c] # "registered"
    BY <2>3 DEF PromptInv, Answers, AnswerInv, Tokens, TokenInv, Messages, MsgInv, Registered
  <2> QED
    BY <2>1, <2>2, <2>3
<1> QED
  BY <1>1, <1>2, <1>3, <1>4 DEF PromptInv

\* PromptInv survives the end of one that did not.
LEMMA NotRegisteredStep ==
    ASSUME PromptInv, NEW c \in Calls, NotRegistered(c)
    PROVE  PromptInv'
<1>1. HitlTypeOK'
  BY DEF PromptInv, NotRegistered
<1>2. Answers'
  BY DEF PromptInv, Answers, AnswerInv, NotRegistered
<1>3. Tokens'
  BY DEF PromptInv, Tokens, TokenInv, NotRegistered
<1>4. Messages'
  BY DEF PromptInv, Messages, MsgInv, NotRegistered
<1> QED
  BY <1>1, <1>2, <1>3, <1>4 DEF PromptInv

\* PromptInv survives the request's own edit of the message.
LEMMA PresentedStep ==
    ASSUME PromptInv, NEW c \in Calls, Presented(c)
    PROVE  PromptInv'
<1>1. HitlTypeOK'
  BY DEF PromptInv, Presented, Edit, NotifyFails
<1>2. Answers'
  BY DEF PromptInv, Answers, AnswerInv, Presented, Edit, NotifyFails
<1>3. Tokens'
  BY DEF PromptInv, Tokens, TokenInv, Presented, Edit, NotifyFails
<1>4. Messages'
  BY DEF PromptInv, Tokens, TokenInv, Messages, MsgInv, Presented, Edit, NotifyFails
<1> QED
  BY <1>1, <1>2, <1>3, <1>4 DEF PromptInv

\* PromptInv survives a cancellation during that edit.
LEMMA CancelPresentingStep ==
    ASSUME PromptInv, NEW c \in Calls, CancelPresenting(c)
    PROVE  PromptInv'
<1>1. HitlTypeOK'
  BY DEF PromptInv, CancelPresenting, Leave
<1>2. Answers'
  BY DEF PromptInv, Answers, AnswerInv, CancelPresenting, Leave
<1>3. Tokens'
  BY DEF PromptInv, Tokens, TokenInv, CancelPresenting, Leave
<1>4. Messages'
  BY DEF PromptInv, Messages, MsgInv, CancelPresenting, Leave
<1> QED
  BY <1>1, <1>2, <1>3, <1>4 DEF PromptInv

\* PromptInv survives a cancellation during the registration.
LEMMA CancelRegisteringStep ==
    ASSUME PromptInv, NEW c \in Calls, CancelRegistering(c)
    PROVE  PromptInv'
<1>1. HitlTypeOK'
  BY DEF PromptInv, CancelRegistering
<1>2. Answers'
  BY DEF PromptInv, Answers, AnswerInv, CancelRegistering
<1>3. Tokens'
  BY DEF PromptInv, Tokens, TokenInv, CancelRegistering
<1>4. Messages'
  BY DEF PromptInv, Messages, MsgInv, CancelRegistering
<1> QED
  BY <1>1, <1>2, <1>3, <1>4 DEF PromptInv

\* PromptInv survives the drained registration of a cancelled request.
LEMMA DrainedStep ==
    ASSUME PromptInv, NEW c \in Calls, Drained(c)
    PROVE  PromptInv'
<1>1. HitlTypeOK'
  BY DEF PromptInv, Drained, Leave
<1>2. Answers'
  BY DEF PromptInv, Answers, AnswerInv, Drained, Leave
<1>3. Tokens'
  BY DEF PromptInv, Tokens, TokenInv, Drained, Leave
<1>4. Messages'
  BY DEF PromptInv, Answers, AnswerInv, Messages, MsgInv, Drained, Leave
<1> QED
  BY <1>1, <1>2, <1>3, <1>4 DEF PromptInv

\* PromptInv survives a second cancellation.
LEMMA CancelDrainingStep ==
    ASSUME PromptInv, NEW c \in Calls, CancelDraining(c)
    PROVE  PromptInv'
<1>1. HitlTypeOK'
  BY DEF PromptInv, CancelDraining, Leave
<1>2. Answers'
  BY DEF PromptInv, Answers, AnswerInv, CancelDraining, Leave
<1>3. Tokens'
  BY DEF PromptInv, Tokens, TokenInv, CancelDraining, Leave
<1>4. Messages'
  BY DEF PromptInv, Messages, MsgInv, CancelDraining, Leave
<1> QED
  BY <1>1, <1>2, <1>3, <1>4 DEF PromptInv

\* PromptInv survives the edit of an unregistered message.
LEMMA DiscardedStep ==
    ASSUME PromptInv, NEW c \in Calls, Discarded(c)
    PROVE  PromptInv'
<1>1. HitlTypeOK'
  BY DEF PromptInv, Discarded, Edit, Leave
<1>2. Answers'
  BY DEF PromptInv, Answers, AnswerInv, Discarded, Edit, Leave
<1>3. Tokens'
  BY DEF PromptInv, Tokens, TokenInv, Discarded, Edit, Leave
<1>4. Messages'
  BY DEF PromptInv, Messages, MsgInv, Discarded, Edit, Leave
<1> QED
  BY <1>1, <1>2, <1>3, <1>4 DEF PromptInv

\* PromptInv survives the return of the committed decision.
LEMMA AnsweredStep ==
    ASSUME PromptInv, NEW c \in Calls, Answered(c)
    PROVE  PromptInv'
<1>1. HitlTypeOK'
  BY DEF PromptInv, Answered
<1>2. Answers'
  BY DEF PromptInv, Answers, AnswerInv, Answered
<1>3. Tokens'
  BY DEF PromptInv, Tokens, TokenInv, Answered
<1>4. Messages'
  BY DEF PromptInv, Answers, AnswerInv, Messages, MsgInv, Answered
<1> QED
  BY <1>1, <1>2, <1>3, <1>4 DEF PromptInv

\* PromptInv survives the end of the wait.
LEMMA TimeoutStep ==
    ASSUME PromptInv, NEW c \in Calls, Timeout(c)
    PROVE  PromptInv'
<1>1. HitlTypeOK'
  BY DEF PromptInv, Timeout
<1>2. Answers'
  BY DEF PromptInv, Answers, AnswerInv, Timeout
<1>3. Tokens'
  BY DEF PromptInv, Tokens, TokenInv, Timeout
<1>4. Messages'
  BY DEF PromptInv, Answers, AnswerInv, Messages, MsgInv, Timeout
<1> QED
  BY <1>1, <1>2, <1>3, <1>4 DEF PromptInv

\* PromptInv survives the observer of a timeout.
LEMMA ObserveTimeoutStep ==
    ASSUME PromptInv, NEW c \in Calls, ObserveTimeout(c)
    PROVE  PromptInv'
<1>1. HitlTypeOK'
  BY DEF PromptInv, ObserveTimeout
<1>2. Answers'
  BY DEF PromptInv, Answers, AnswerInv, ObserveTimeout
<1>3. Tokens'
  BY DEF PromptInv, Tokens, TokenInv, ObserveTimeout
<1>4. Messages'
  BY DEF PromptInv, Answers, AnswerInv, Messages, MsgInv, ObserveTimeout
<1> QED
  BY <1>1, <1>2, <1>3, <1>4 DEF PromptInv

\* PromptInv survives the edit after a timeout.
LEMMA ExpiredStep ==
    ASSUME PromptInv, NEW c \in Calls, Expired(c)
    PROVE  PromptInv'
<1>1. HitlTypeOK'
  BY DEF PromptInv, Expired, Edit
<1>2. Answers'
  BY DEF PromptInv, Answers, AnswerInv, Expired, Edit
<1>3. Tokens'
  BY DEF PromptInv, Tokens, TokenInv, Expired, Edit
<1>4. Messages'
  BY DEF PromptInv, Answers, AnswerInv, Messages, MsgInv, Expired, Edit
<1> QED
  BY <1>1, <1>2, <1>3, <1>4 DEF PromptInv

\* PromptInv survives a cancellation during the wait.
LEMMA CancelWaitingStep ==
    ASSUME PromptInv, NEW c \in Calls, CancelWaiting(c)
    PROVE  PromptInv'
<1>1. HitlTypeOK'
  BY DEF PromptInv, CancelWaiting, Leave
<1>2. Answers'
  BY DEF PromptInv, Answers, AnswerInv, CancelWaiting, Leave
<1>3. Tokens'
  BY DEF PromptInv, Tokens, TokenInv, CancelWaiting, Leave
<1>4. Messages'
  BY DEF PromptInv, Answers, AnswerInv, Messages, MsgInv, CancelWaiting, Leave
<1> QED
  BY <1>1, <1>2, <1>3, <1>4 DEF PromptInv

\* PromptInv survives the observer of a cancellation.
LEMMA ObserveCancelStep ==
    ASSUME PromptInv, NEW c \in Calls, ObserveCancel(c)
    PROVE  PromptInv'
<1>1. HitlTypeOK'
  BY DEF PromptInv, ObserveCancel
<1>2. Answers'
  BY DEF PromptInv, Answers, AnswerInv, ObserveCancel
<1>3. Tokens'
  BY DEF PromptInv, Tokens, TokenInv, ObserveCancel
<1>4. Messages'
  BY DEF PromptInv, Messages, MsgInv, ObserveCancel
<1> QED
  BY <1>1, <1>2, <1>3, <1>4 DEF PromptInv

\* PromptInv survives the edit after a cancellation.
LEMMA RetractedStep ==
    ASSUME PromptInv, NEW c \in Calls, Retracted(c)
    PROVE  PromptInv'
<1>1. HitlTypeOK'
  BY DEF PromptInv, Retracted, Edit
<1>2. Answers'
  BY DEF PromptInv, Answers, AnswerInv, Retracted, Edit
<1>3. Tokens'
  BY DEF PromptInv, Tokens, TokenInv, Retracted, Edit
<1>4. Messages'
  BY DEF PromptInv, Messages, MsgInv, Retracted, Edit
<1> QED
  BY <1>1, <1>2, <1>3, <1>4 DEF PromptInv

\* PromptInv survives a cancellation of an observer.
LEMMA CancelObserverStep ==
    ASSUME PromptInv, NEW c \in Calls, CancelObserver(c)
    PROVE  PromptInv'
<1>1. HitlTypeOK'
  BY DEF PromptInv, CancelObserver
<1>2. Answers'
  BY DEF PromptInv, Answers, AnswerInv, CancelObserver
<1>3. Tokens'
  BY DEF PromptInv, Tokens, TokenInv, CancelObserver
<1>4. Messages'
  BY DEF PromptInv, Messages, MsgInv, CancelObserver
<1> QED
  BY <1>1, <1>2, <1>3, <1>4 DEF PromptInv

\* PromptInv survives the observer of an answer.
LEMMA ObserveAnswerStep ==
    ASSUME PromptInv, NEW c \in Calls, ObserveAnswer(c)
    PROVE  PromptInv'
<1>1. HitlTypeOK'
  BY DEF PromptInv, ObserveAnswer
<1>2. Answers'
  BY DEF PromptInv, Answers, AnswerInv, ObserveAnswer
<1>3. Tokens'
  BY DEF PromptInv, Answers, AnswerInv, Tokens, TokenInv, ObserveAnswer
<1>4. Messages'
  BY DEF PromptInv, Answers, AnswerInv, Tokens, TokenInv, Messages, MsgInv, ObserveAnswer
<1> QED
  BY <1>1, <1>2, <1>3, <1>4 DEF PromptInv

\* PromptInv survives the edit after an answer.
LEMMA ShownStep ==
    ASSUME PromptInv, NEW c \in Calls, Shown(c)
    PROVE  PromptInv'
<1>1. HitlTypeOK'
  BY DEF PromptInv, Shown, Edit
<1>2. Answers'
  BY DEF PromptInv, Answers, AnswerInv, Shown, Edit
<1>3. Tokens'
  BY DEF PromptInv, Tokens, TokenInv, Shown, Edit
<1>4. Messages'
  BY DEF PromptInv, Tokens, TokenInv, Messages, MsgInv, Shown, Edit
<1> QED
  BY <1>1, <1>2, <1>3, <1>4 DEF PromptInv

\* PromptInv survives an answer.
LEMMA RespondStep ==
    ASSUME PromptInv, NEW c \in Calls, NEW d \in {"approved", "denied"}, Respond(c, d)
    PROVE  PromptInv'
<1>1. HitlTypeOK'
  BY DEF PromptInv, Respond
<1>2. Answers'
  BY DEF PromptInv, Answers, AnswerInv, Respond, Pending
<1>3. Tokens'
  BY DEF PromptInv, Tokens, TokenInv, Respond, Pending
<1>4. Messages'
  BY DEF PromptInv, Answers, AnswerInv, Messages, MsgInv, Respond, Pending
<1> QED
  BY <1>1, <1>2, <1>3, <1>4 DEF PromptInv

\* PromptInv survives the shutdown of the registry.
LEMMA ClearStep ==
    ASSUME PromptInv, Clear
    PROVE  PromptInv'
<1>1. HitlTypeOK'
  BY DEF PromptInv, Clear
<1>2. Answers'
  BY DEF PromptInv, Answers, AnswerInv, Clear
<1>3. Tokens' /\ Messages'
  BY DEF PromptInv, Tokens, TokenInv, Messages, MsgInv, Clear
<1> QED
  BY <1>1, <1>2, <1>3 DEF PromptInv

\* Every step of the prompt keeps its invariant.
LEMMA PromptStep ==
    ASSUME PromptInv, HitlStep
    PROVE  PromptInv'
<1>1. ASSUME NEW c \in Calls, Proceed(c) PROVE PromptInv'
  BY <1>1, SentStep, SendFailsStep, RegisterStep, RegisteredStep, NotRegisteredStep,
     PresentedStep, DrainedStep, DiscardedStep, AnsweredStep, TimeoutStep,
     ObserveTimeoutStep, ExpiredStep, ObserveCancelStep, RetractedStep DEF Proceed
<1>2. ASSUME NEW c \in Calls, Observe(c) PROVE PromptInv'
  BY <1>2, ObserveAnswerStep, ShownStep DEF Observe
<1>3. ASSUME NEW c \in Calls, Cancel(c) PROVE PromptInv'
  BY <1>3, CancelSendingStep, CancelRegisteringStep, CancelDrainingStep,
     CancelPresentingStep, CancelWaitingStep, CancelObserverStep DEF Cancel
<1> QED
  BY <1>1, <1>2, <1>3, RespondStep, ClearStep DEF HitlStep

\* The prompt is only asked by Ask, and a committed decision is final.
PromptKeeps ==
    \A c \in Calls :
        /\ answer[c] # "none" => answer'[c] = answer[c]
        /\ pc[c] = "idle" => pc'[c] = "idle"

\* Every step of the prompt leaves committed decisions and unasked calls alone.
LEMMA PromptStepKeeps ==
    ASSUME PromptInv, HitlStep
    PROVE  PromptKeeps
<1> USE DEF PromptKeeps, PromptInv
<1>1. ASSUME NEW c \in Calls, Proceed(c) PROVE PromptKeeps
  <2>1. CASE Sent(c) \/ SendFails(c) \/ Register(c) \/ Registered(c) \/ NotRegistered(c)
    BY <2>1 DEF Sent, SendFails, NotifyFails, Register, Registered, NotRegistered,
         Answers, AnswerInv
  <2>2. CASE Presented(c) \/ Drained(c) \/ Discarded(c) \/ Answered(c) \/ Timeout(c)
    BY <2>2 DEF Presented, NotifyFails, Drained, Leave, Discarded, Answered, Timeout
  <2>3. CASE ObserveTimeout(c) \/ Expired(c) \/ ObserveCancel(c) \/ Retracted(c)
    BY <2>3 DEF ObserveTimeout, Expired, ObserveCancel, Retracted
  <2> QED
    BY <1>1, <2>1, <2>2, <2>3 DEF Proceed
<1>2. ASSUME NEW c \in Calls, Observe(c) PROVE PromptKeeps
  BY <1>2 DEF Observe, ObserveAnswer, Shown
<1>3. ASSUME NEW c \in Calls, Cancel(c) PROVE PromptKeeps
  BY <1>3 DEF Cancel, CancelSending, CancelRegistering, CancelDraining, CancelPresenting,
     CancelWaiting, CancelObserver, Leave
<1>4. ASSUME NEW c \in Calls, NEW d \in {"approved", "denied"}, Respond(c, d)
      PROVE  PromptKeeps
  BY <1>4 DEF Respond
<1>5. CASE Clear
  BY <1>5 DEF Clear
<1> QED
  BY <1>1, <1>2, <1>3, <1>4, <1>5 DEF HitlStep

----------------------------------------------------------------------------
\* How far a call has come: it is in the guard only from the gate on, and it
\* runs a destructive tool only with the operator's approval.
DispatchTypes ==
    /\ gated \in SUBSET Keys
    /\ stage \in [Calls -> Stages]
    /\ owner \in [Keys -> Calls \cup {NoCall}]
    /\ held \in [Calls -> 0..(TTL + 1)]

Staging ==
    \A c \in Calls :
        /\ pc[c] # "idle" => stage[c] \in {"asking", "running", "done"}
        /\ stage[c] = "running" /\ KeyOf[c] \in gated => answer[c] = "approved"

\* The owner of a key is a call in flight with that key, and a call within its
\* time owns its key.
KeyInv ==
    /\ \A k \in Keys : owner[k] # NoCall => owner[k] \in InFlight /\ KeyOf[owner[k]] = k
    /\ \A c \in InFlight : ~IsExpired(c) => owner[KeyOf[c]] = c

DispatchInv == PromptInv /\ DispatchTypes /\ Staging /\ KeyInv

\* Initially no call has been dispatched.
LEMMA DispatchInvInit ==
    ASSUME DispatchInit
    PROVE  DispatchInv
<1>1. PromptInv
  BY PromptInit DEF DispatchInit
<1>2. DispatchTypes /\ Staging
  BY DEF DispatchInit, HitlInit, DispatchTypes, Staging, Stages
<1>3. KeyInv
  BY DEF DispatchInit, KeyInv, InFlight
<1> QED
  BY <1>1, <1>2, <1>3 DEF DispatchInv

\* A step that leaves the prompt alone keeps its invariant.
LEMMA PromptUnchanged ==
    ASSUME PromptInv, UNCHANGED hitlVars
    PROVE  PromptInv'
  BY DEF hitlVars, PromptInv, Answers, AnswerInv, Tokens, TokenInv, Messages, MsgInv

\* A call ends and gives its key back if it is still its own.
LEMMA EndStep ==
    ASSUME DispatchInv, NEW c \in Calls, stage[c] \in {"preparing", "asking", "running"},
           End(c), UNCHANGED <<hitlVars, gated, held>>
    PROVE  DispatchInv'
<1>1. PromptInv'
  BY PromptUnchanged DEF DispatchInv
<1>2. DispatchTypes' /\ Staging'
  BY DEF DispatchInv, DispatchTypes, Staging, Stages, End, Stage, Release, hitlVars
<1>3. KeyInv'
  BY DEF DispatchInv, DispatchTypes, KeyInv, InFlight, IsExpired, Stages, End, Stage, Release
<1> QED
  BY <1>1, <1>2, <1>3 DEF DispatchInv

\* DispatchInv survives a dispatch, refused or admitted.
LEMMA DispatchStep ==
    ASSUME DispatchInv, NEW c \in Calls, Dispatch(c)
    PROVE  DispatchInv'
<1>1. PromptInv'
  BY PromptUnchanged DEF DispatchInv, Dispatch
<1>2. DispatchTypes' /\ Staging'
  BY DEF DispatchInv, DispatchTypes, Staging, Stages, Dispatch, Stage, Acquire, hitlVars
<1>3. KeyInv'
  <2>1. CASE IsActive(KeyOf[c])
    BY <2>1 DEF DispatchInv, DispatchTypes, KeyInv, InFlight, IsExpired, Stages, Dispatch, Stage
  <2>2. CASE ~IsActive(KeyOf[c])
    BY <2>2 DEF DispatchInv, DispatchTypes, KeyInv, InFlight, IsExpired, IsActive, Stages,
        Dispatch, Stage, Acquire
  <2> QED
    BY <2>1, <2>2
<1> QED
  BY <1>1, <1>2, <1>3 DEF DispatchInv

\* DispatchInv survives the gate asking the operator.
LEMMA GateStep ==
    ASSUME DispatchInv, NEW c \in Calls, Gate(c)
    PROVE  DispatchInv'
<1>1. PromptInv'
  BY AskStep DEF DispatchInv, Gate
<1>2. DispatchTypes'
  BY DEF DispatchInv, DispatchTypes, Stages, Gate, Stage
<1>3. Staging'
  BY DEF DispatchInv, DispatchTypes, PromptInv, Staging, Stages, Gate, Stage, Ask
<1>4. KeyInv'
  BY DEF DispatchInv, DispatchTypes, KeyInv, InFlight, IsExpired, Stages, Gate, Stage
<1> QED
  BY <1>1, <1>2, <1>3, <1>4 DEF DispatchInv

\* DispatchInv survives the gate's decision: an approval was committed.
LEMMA ResumeStep ==
    ASSUME DispatchInv, NEW c \in Calls, Resume(c)
    PROVE  DispatchInv'
<1>1. CASE outcome[c] = "approved"
  <2>1. answer[c] = "approved"
    BY <1>1 DEF DispatchInv, PromptInv, Answers, AnswerInv
  <2>2. PromptInv'
    BY PromptUnchanged DEF DispatchInv, Resume
  <2>3. DispatchTypes' /\ Staging'
    BY <1>1, <2>1 DEF DispatchInv, DispatchTypes, Staging, Stages, Resume, Stage, hitlVars
  <2>4. KeyInv'
    BY <1>1 DEF DispatchInv, DispatchTypes, KeyInv, InFlight, IsExpired, Stages, Resume, Stage
  <2> QED
    BY <2>2, <2>3, <2>4 DEF DispatchInv
<1>2. CASE outcome[c] # "approved"
  BY <1>2, EndStep DEF Resume
<1> QED
  BY <1>1, <1>2

\* DispatchInv survives the passing of time.
LEMMA TickStep ==
    ASSUME DispatchInv, Tick
    PROVE  DispatchInv'
<1>1. PromptInv'
  BY PromptUnchanged DEF DispatchInv, Tick
<1>2. DispatchTypes' /\ Staging'
  BY DEF DispatchInv, DispatchTypes, Staging, Tick, hitlVars
<1>3. \A c \in Calls : IsExpired(c) => IsExpired(c)'
  BY DEF DispatchInv, DispatchTypes, Tick, IsExpired
<1>4. KeyInv'
  BY <1>3 DEF DispatchInv, DispatchTypes, KeyInv, InFlight, Tick
<1> QED
  BY <1>1, <1>2, <1>4 DEF DispatchInv

\* DispatchInv survives a step of the prompt: no decision is taken back, and
\* no call that has not been through the gate is asked about.
LEMMA HitlDispatchStep ==
    ASSUME DispatchInv, HitlStep, UNCHANGED dispatchVars
    PROVE  DispatchInv'
<1>1. PromptInv' /\ PromptKeeps
  BY PromptStep, PromptStepKeeps DEF DispatchInv
<1>2. DispatchTypes' /\ KeyInv'
  BY DEF DispatchInv, DispatchTypes, KeyInv, InFlight, IsExpired, dispatchVars
<1>3. Staging'
  BY <1>1 DEF DispatchInv, Staging, PromptKeeps, dispatchVars
<1> QED
  BY <1>1, <1>2, <1>3 DEF DispatchInv

\* Every step keeps the invariant.
LEMMA DispatchInvNext ==
    ASSUME DispatchInv, [Next]_vars
    PROVE  DispatchInv'
<1>1. CASE \E c \in Returned : Resume(c)
  BY <1>1, ResumeStep DEF Returned
<1>2. CASE HitlStep /\ UNCHANGED dispatchVars
  BY <1>2, HitlDispatchStep
<1>3. ASSUME NEW c \in Calls, Dispatch(c) \/ Gate(c) PROVE DispatchInv'
  BY <1>3, DispatchStep, GateStep
<1>4. ASSUME NEW c \in Calls, PrepareFails(c) \/ Finish(c) PROVE DispatchInv'
  BY <1>4, EndStep DEF PrepareFails, Finish
<1>5. CASE Tick
  BY <1>5, TickStep
<1>6. CASE UNCHANGED vars
  <2>1. PromptInv'
    BY <1>6, PromptUnchanged DEF DispatchInv, vars
  <2>2. DispatchTypes' /\ Staging' /\ KeyInv'
    BY <1>6 DEF DispatchInv, DispatchTypes, Staging, KeyInv, InFlight, IsExpired, vars,
        hitlVars, dispatchVars
  <2> QED
    BY <2>1, <2>2 DEF DispatchInv
<1> QED
  BY <1>1, <1>2, <1>3, <1>4, <1>5, <1>6 DEF Next

\* The inductive invariant holds in every reachable state.
LEMMA DispatchInvariant == Spec => []DispatchInv
  BY DispatchInvInit, DispatchInvNext, PTL DEF Spec

----------------------------------------------------------------------------
\* The state of the prompt and of the middleware chain is always one the code
\* can be in: a call is in the guard only from the gate on, and it is out of
\* it exactly when request_approval has returned.
THEOREM TypeCorrect == Spec => []TypeOK
<1>1. DispatchInv => TypeOK
  BY DEF DispatchInv, PromptInv, Answers, AnswerInv, DispatchTypes, Staging, TypeOK
<1> QED
  BY <1>1, DispatchInvariant, PTL

\* HitlGateMiddleware never lets a destructive tool run without an approval
\* that was committed on this very request.
THEOREM ApprovalNeeded == Spec => []NoUnapprovedRun
<1>1. DispatchInv => NoUnapprovedRun
  BY DEF DispatchInv, Staging, NoUnapprovedRun
<1> QED
  BY <1>1, DispatchInvariant, PTL

\* request_approval returns the decision that was committed first.
THEOREM FirstAnswer == Spec => []FirstAnswerCounts
<1>1. DispatchInv => FirstAnswerCounts
  BY DEF DispatchInv, PromptInv, Answers, AnswerInv, FirstAnswerCounts
<1> QED
  BY <1>1, DispatchInvariant, PTL

\* A request that is over has given its token back and its message has no
\* live buttons, but for the edits that are known to have failed.
THEOREM PromptLeavesNothing == Spec => []PromptSettled
<1>1. ASSUME DispatchInv, NEW c \in Calls, Settled(c)
      PROVE  c \notin cutOff => reg[c] = "none"
  BY <1>1 DEF DispatchInv, PromptInv, Answers, AnswerInv, Tokens, TokenInv, Settled
<1>2. ASSUME DispatchInv, NEW c \in Calls, Settled(c), c \notin unshown, msg[c] # "none"
      PROVE  \/ msg[c] = answer[c]
             \/ msg[c] = "void" /\ (outcome[c] = "cancelled" \/ cleared)
  <2>1. c \notin cutOff /\ reg[c] = "none" /\ msg[c] # "live"
    BY <1>1, <1>2 DEF DispatchInv, PromptInv, Messages, MsgInv, Settled
  <2>2. CASE msg[c] = "void"
    BY <1>2, <2>2 DEF DispatchInv, PromptInv, Messages, MsgInv, Settled
  <2>3. CASE msg[c] \in Decisions
    BY <1>2, <2>3 DEF DispatchInv, PromptInv, Messages, MsgInv
  <2> QED
    BY <1>2, <2>1, <2>2, <2>3 DEF DispatchInv, PromptInv
<1>3. DispatchInv => PromptSettled
  BY <1>1, <1>2 DEF PromptSettled
<1> QED
  BY <1>3, DispatchInvariant, PTL

\* IdempotencyGuard: a call within its time owns its key, and no key stays
\* with a call that is over.
THEOREM KeysFollow == Spec => []KeyFollowsCall
<1>1. DispatchInv => KeyFollowsCall
  BY DEF DispatchInv, KeyInv, KeyFollowsCall
<1> QED
  BY <1>1, DispatchInvariant, PTL

\* HITLRequest._commit() is final: no later answer, timeout or failure of the
\* prompt replaces a decision.
THEOREM DecisionIsFinal ==
    Spec => [][\A c \in Calls : answer[c] # "none" => answer'[c] = answer[c]]_vars
<1> DEFINE Final == \A c \in Calls : answer[c] # "none" => answer'[c] = answer[c]
<1>1. ASSUME DispatchInv, [Next]_vars
      PROVE  [Final]_vars
  <2>1. CASE HitlStep
    BY <1>1, <2>1, PromptStepKeeps DEF DispatchInv, PromptKeeps
  <2>2. ASSUME NEW c \in Calls, Gate(c) PROVE Final
    BY <1>1, <2>2 DEF DispatchInv, PromptInv, Answers, AnswerInv, Gate, Ask
  <2>3. ASSUME NEW c \in Calls, Dispatch(c) \/ PrepareFails(c) \/ Finish(c) \/ Resume(c) PROVE Final
    BY <2>3 DEF Dispatch, PrepareFails, Finish, Resume, hitlVars
  <2>4. CASE Tick
    BY <2>4 DEF Tick, hitlVars
  <2> QED
    BY <1>1, <2>1, <2>2, <2>3, <2>4 DEF Next, Returned
<1> QED
  BY <1>1, DispatchInvariant, PTL DEF Spec
=============================================================================
