----------------------------- MODULE AgentLoop -----------------------------
(***************************************************************************)
(* The agent loop of a turn (runtime/agent.py, _agent_loop): rounds of a   *)
(* call of the model and the tools it asks for, the thread that makes the  *)
(* call and streams its text, retries, and the ways a turn ends.           *)
(*                                                                         *)
(* The loop polls for the result of the thread; when the user interrupts,  *)
(* it leaves the thread behind. What the history of a session, undo and    *)
(* the context janitor do with the messages is in SessionHistory and       *)
(* ContextJanitor: here they stay as they are.                             *)
(***************************************************************************)
EXTENDS Integers, SequencesExt

CONSTANTS MaxLoopTurns,  \* bound: turns
          MaxAgentRounds,\* max_agent_rounds
          MaxToolCalls,  \* max_tool_calls_per_turn
          MaxReply,      \* bound: tool calls in one reply of the model
          MaxThreads,    \* bound: provider threads
          MaxChunks      \* bound: texts a provider thread streams before it is left behind

VARIABLES
  messages,     \* session.messages
  saved,        \* the messages of the session file
  loop,         \* where the turn is, and its local variables
  shouldInterrupt,  \* should_interrupt()
  threads,      \* the provider threads
  used,         \* provider threads started so far
  turns         \* turns so far

loopVars == <<messages, saved, loop, shouldInterrupt, threads, used, turns>>

Attempts == 3

Kinds == {"tool", "todo", "boundary", "invalid", "spent"}

Message(kind, calls) == [kind |-> kind, calls |-> calls]

Idle(outcome) ==
  [phase |-> "idle", outcome |-> outcome, round |-> 0, attempt |-> 0, call |-> 0, reply |-> <<>>,
   at |-> 0, done |-> <<>>, open |-> FALSE, stale |-> FALSE, reconcile |-> FALSE, ready |-> FALSE]

NoThread == [state |-> "over", cancelled |-> TRUE, chunks |-> 0, late |-> 0, result |-> "none"]

Threads == 1..MaxThreads

LoopInit ==
  /\ messages = <<>> /\ saved = <<>> /\ loop = Idle("none") /\ shouldInterrupt = FALSE
  /\ threads = [c \in Threads |-> NoThread] /\ used = 0 /\ turns = 0

In(stage) == loop.phase = stage

\* TurnInterrupted reaches _agent_loop: the session is saved as it is.
Raise ==
  /\ loop' = [Idle("interrupted") EXCEPT !.open = loop.open, !.stale = loop.stale]
  /\ saved' = messages
  /\ UNCHANGED messages

\* Any other exception: nothing is saved.
Abort ==
  /\ loop' = [Idle("failed") EXCEPT !.open = loop.open, !.stale = loop.stale]
  /\ UNCHANGED <<messages, saved>>

\* A way out that returns a result.
Return(msgs, open, stale) ==
  /\ loop' = [Idle("completed") EXCEPT !.open = open, !.stale = stale]
  /\ messages' = msgs
  /\ saved' = msgs
-----------------------------------------------------------------------------
(* The thread that calls the provider.                                     *)

\* A mutant of StopRequested: the call is not marked as cancelled.
StopUnlessReset(c) == shouldInterrupt

\* provider_stop_checker
StopRequested(c) == threads[c].cancelled \/ shouldInterrupt

\* The thread is over; its result is for the loop that waits for it.
Ends(c, result) ==
  threads' = [threads EXCEPT ![c] =
    [NoThread EXCEPT !.late = threads[c].late, !.result = IF In("call") /\ loop.call = c THEN result ELSE "none"]]

\* The provider between two pieces of its stream, and interruptible_callback before the text.
CheckBefore(c) ==
  /\ threads[c].state = "stream"
  /\ IF StopRequested(c)
     THEN Ends(c, "stopped")
     ELSE (threads[c].chunks < MaxChunks \/ threads[c].cancelled) /\ threads' = [threads EXCEPT ![c].state = "deliver"]
  /\ UNCHANGED <<messages, saved, loop, shouldInterrupt, used, turns>>

\* The text is shown.
Deliver(c) ==
  /\ threads[c].state = "deliver"
  /\ LET late == threads[c].cancelled \/ shouldInterrupt
     IN threads' = [threads EXCEPT ![c].state = "delivered", ![c].chunks = @ + 1,
                                   ![c].late = IF late THEN @ + 1 ELSE @]
  /\ UNCHANGED <<messages, saved, loop, shouldInterrupt, used, turns>>

\* interruptible_callback after the text.
CheckAfter(c) ==
  /\ threads[c].state = "delivered"
  /\ IF StopRequested(c)
     THEN Ends(c, "stopped")
     ELSE threads' = [threads EXCEPT ![c].state = "stream"]
  /\ UNCHANGED <<messages, saved, loop, shouldInterrupt, used, turns>>

\* The provider returns or fails. The stop raised in a stream of an OpenAI provider comes
\* out as an error that may be retried, that of an Anthropic provider as it is.
Answer(c) ==
  /\ threads[c].state = "stream"
  /\ \E result \in {"turn", "retryable", "fatal"} : Ends(c, result)
  /\ UNCHANGED <<messages, saved, loop, shouldInterrupt, used, turns>>

ProviderThread(c) == CheckBefore(c) \/ Deliver(c) \/ CheckAfter(c) \/ Answer(c)
-----------------------------------------------------------------------------
(* A turn and the call of the model.                                       *)

\* run_turn
StartTurn ==
  /\ In("idle") /\ turns < MaxLoopTurns
  /\ turns' = turns + 1
  /\ messages' = Append(messages, Message("user", <<>>))
  /\ shouldInterrupt' = FALSE
  /\ loop' = [loop EXCEPT !.phase = "round", !.outcome = "none"]
  /\ UNCHANGED <<saved, threads, used>>

\* The top of a round: a prompt that waits for it, notifications and the inbox.
StartRound ==
  /\ In("round") /\ loop.round < MaxAgentRounds
  /\ IF shouldInterrupt
     THEN Raise
     ELSE /\ \E notes \in {<<>>, <<Message("user", <<>>)>>} :
               messages' = messages \o (IF loop.ready THEN <<Message("user", <<>>)>> ELSE <<>>) \o notes
          /\ loop' = [loop EXCEPT !.phase = "attempt", !.round = @ + 1, !.attempt = 1, !.ready = FALSE]
          /\ UNCHANGED saved
  /\ UNCHANGED <<shouldInterrupt, threads, used, turns>>

StopAfterMaxRounds ==
  /\ In("round") /\ loop.round = MaxAgentRounds
  /\ Return(messages, loop.open, loop.stale)
  /\ UNCHANGED <<shouldInterrupt, threads, used, turns>>

\* complete, at the begin of an attempt.
StartCall ==
  /\ In("attempt")
  /\ IF shouldInterrupt
     THEN Raise /\ UNCHANGED <<threads, used>>
     ELSE /\ used < MaxThreads /\ used' = used + 1
          /\ threads' = [threads EXCEPT ![used'] = [NoThread EXCEPT !.state = "stream", !.cancelled = FALSE]]
          /\ loop' = [loop EXCEPT !.phase = "call", !.call = used']
          /\ UNCHANGED <<messages, saved>>
  /\ UNCHANGED <<shouldInterrupt, turns>>

\* The bound MaxThreads is reached: the turn ends as with an error.
NoMoreCalls ==
  /\ In("attempt") /\ used = MaxThreads /\ ~shouldInterrupt
  /\ Abort
  /\ UNCHANGED <<shouldInterrupt, threads, used, turns>>

\* A mutant of PollInterrupt: the loop waits for the thread.
WaitForResult == FALSE /\ UNCHANGED loopVars

\* _complete_with_interrupt_polling: no result yet.
PollInterrupt ==
  /\ In("call") /\ threads[loop.call].result = "none"
  /\ StopRequested(loop.call)
  /\ threads' = [threads EXCEPT ![loop.call].cancelled = TRUE]
  /\ Raise
  /\ UNCHANGED <<shouldInterrupt, used, turns>>

\* An error that may be retried, and is not the third.
Retry ==
  IF loop.attempt < Attempts
  THEN loop' = [loop EXCEPT !.phase = "backoff", !.call = 0, !.attempt = @ + 1] /\ UNCHANGED <<messages, saved>>
  ELSE Abort

Calls == UNION {[1..n -> Kinds] : n \in 1..MaxReply}

\* The result of the thread.
Receive ==
  /\ In("call")
  /\ LET result == threads[loop.call].result
     IN \/ result = "stopped" /\ (Raise \/ Retry)
        \/ result = "retryable" /\ Retry
        \/ result = "fatal" /\ Abort
        \/ result = "turn" /\ shouldInterrupt /\ Raise
        \/ /\ result = "turn" /\ ~shouldInterrupt
           /\ \/ loop' = [loop EXCEPT !.phase = "text", !.call = 0, !.attempt = 0]
              \/ \E reply \in Calls : loop' = [loop EXCEPT !.phase = "tools", !.call = 0, !.attempt = 0,
                                                       !.reply = reply, !.at = 1]
           /\ UNCHANGED <<messages, saved>>
  /\ threads' = [threads EXCEPT ![loop.call].result = "none"]
  /\ UNCHANGED <<shouldInterrupt, used, turns>>

\* _wait_before_provider_retry
Backoff ==
  /\ In("backoff")
  /\ IF shouldInterrupt THEN Raise
     ELSE loop' = [loop EXCEPT !.phase = "attempt"] /\ UNCHANGED <<messages, saved>>
  /\ UNCHANGED <<shouldInterrupt, threads, used, turns>>
-----------------------------------------------------------------------------
(* The reply.                                                              *)

\* A reply without tool calls.
TextReply ==
  /\ In("text")
  /\ \E empty \in BOOLEAN, inbox \in BOOLEAN :
       LET msgs == Append(messages, Message("text", <<>>))
           again == [loop EXCEPT !.phase = "round"]
           remind == ~empty /\ loop.open /\ loop.stale /\ ~loop.reconcile
       IN IF empty \/ remind \/ inbox
          THEN loop' = [again EXCEPT !.reconcile = @ \/ remind] /\ messages' = msgs /\ saved' = msgs
          ELSE Return(msgs, loop.open, loop.stale)
  /\ UNCHANGED <<shouldInterrupt, threads, used, turns>>

\* A malformed or unknown name that has been reported in this reply.
Reported == loop.reply[loop.at] = "invalid" /\ \E i \in ToSet(loop.done) : loop.reply[i] = "invalid"

Flood == Len(loop.done) >= MaxToolCalls

\* A mutant of Recorded: the reply as the model gave it.
WholeReply == [i \in DOMAIN loop.reply |-> i]

\* turn.as_message(executed_tool_calls)
Recorded == loop.done

\* One tool call of the reply: skipped, answered with an error, or executed. A tool may
\* notice the interrupt and raise it.
ToolCall ==
  /\ In("tools") /\ loop.at <= Len(loop.reply)
  /\ \/ shouldInterrupt /\ Raise
     \/ /\ ~shouldInterrupt /\ ~Flood /\ Reported
        /\ loop' = [loop EXCEPT !.at = @ + 1]
        /\ UNCHANGED <<messages, saved>>
     \/ /\ ~shouldInterrupt /\ (Flood \/ ~Reported)
        /\ LET kind == loop.reply[loop.at]
           IN \E prepared \in IF kind = "boundary" THEN {FALSE} ELSE BOOLEAN,
                 open \in IF kind = "todo" /\ ~Flood THEN BOOLEAN ELSE {loop.open} :
                loop' = [loop EXCEPT
                  !.at = @ + 1, !.done = Append(@, loop.at), !.open = open, !.ready = @ \/ prepared,
                  !.phase = IF Flood \/ prepared \/ kind \in {"boundary", "spent"} THEN "record" ELSE @]
        /\ UNCHANGED <<messages, saved>>
  /\ UNCHANGED <<shouldInterrupt, threads, used, turns>>

\* All calls of the reply are over, or the round has ended before.
FinishRound ==
  /\ In("record") \/ (In("tools") /\ loop.at > Len(loop.reply))
  /\ LET msgs == messages \o <<Message("calls", Recorded), Message("results", loop.done)>>
         todos == {i \in ToSet(loop.done) : loop.reply[i] = "todo"}
         usedTodo == todos # {}
     IN IF loop.reconcile /\ usedTodo /\ todos = ToSet(loop.done) /\ ~loop.open
        THEN Return(msgs, loop.open, FALSE)
        ELSE /\ loop' = [loop EXCEPT !.phase = "round", !.stale = ~usedTodo, !.reply = <<>>, !.done = <<>>,
                                     !.at = 0, !.reconcile = @ /\ ~usedTodo]
             /\ messages' = msgs
             /\ saved' = msgs
  /\ UNCHANGED <<shouldInterrupt, threads, used, turns>>

\* The user, at any time of a turn.
Interrupt ==
  /\ ~In("idle") /\ ~shouldInterrupt
  /\ shouldInterrupt' = TRUE
  /\ UNCHANGED <<messages, saved, loop, threads, used, turns>>

Loop ==
  \/ StartRound \/ StopAfterMaxRounds \/ StartCall \/ NoMoreCalls \/ PollInterrupt \/ Receive \/ Backoff
  \/ TextReply \/ ToolCall \/ FinishRound

LoopNext == StartTurn \/ Loop \/ Interrupt \/ \E c \in Threads : ProviderThread(c)

LoopSpec == LoopInit /\ [][LoopNext]_loopVars

\* The loop goes on, whatever the provider and its threads do: it polls them, and tools
\* come back.
FairLoopSpec == LoopSpec /\ WF_loopVars(Loop)
-----------------------------------------------------------------------------
\* In the history and in the session file every message with tool calls is followed by one
\* with the results of exactly these calls, whichever calls were skipped, cut off by the
\* flood guard or by a prompt of the user, and whenever the turn was interrupted.
CallsAnswered ==
  \A msgs \in {messages, saved} : \A i \in DOMAIN msgs :
    /\ msgs[i].kind = "calls" => i < Len(msgs) /\ msgs[i + 1] = Message("results", msgs[i].calls)
    /\ msgs[i].kind = "results" => i > 1 /\ msgs[i - 1] = Message("calls", msgs[i].calls)

\* Once the user has interrupted a turn, a provider thread that is left behind shows at most
\* the one text it was about to show, even when the next turn has begun.
LateTextAtMostOnce == \A c \in Threads : threads[c].late <= 1

\* An interrupted turn ends, even if the provider never answers (poll interval, stop
\* checks between tools).
InterruptEndsTurn == shouldInterrupt ~> In("idle")
=============================================================================
