--------------------------- MODULE ContextJanitor ---------------------------
(***************************************************************************)
(* What the model gets to see of a session: the semantic janitor, the      *)
(* compaction of old history and the cached payload (runtime/agent.py,     *)
(* runtime/compact.py).                                                    *)
(*                                                                         *)
(* The janitor replaces old tool results by a summary, in the history and  *)
(* in a payload it leaves in the cache for the next call of the model.     *)
(* Compaction replaces everything before the active task by two messages.  *)
(* How full the context window is decides which of them runs; here either  *)
(* may run whenever nothing but the number of tokens speaks against it.    *)
(***************************************************************************)
EXTENDS Integers, SequencesExt

CONSTANTS MaxTurns,     \* bound: prompts of the user
          MaxCalls,     \* bound: tool calls of the model
          MaxEmpty,     \* bound: replies without content
          MaxReviews,   \* bound: runs of the janitor
          MaxCompacts   \* bound: compactions

VARIABLES
  messages,   \* session.messages
  list,       \* identity of that list
  latest,     \* latest_turn_id, new with every call of the model
  cache,      \* _payload_message_cache: a key and a payload
  disabled,   \* the janitor has saved too little and is switched off
  anchor,     \* position of task_anchor_message, 0 between turns
  repair,     \* pending_empty_response_repair
  phase,      \* where the turn is
  sent,       \* history variable: the payload of the last call of the model
  count       \* turns, calls, empty replies, reviews, compactions; first call of the turn

vars == <<messages, list, latest, cache, disabled, anchor, repair, phase, sent, count>>

States == {"original", "condensed", "evicted"}

Message(kind, id) == [kind |-> kind, id |-> id, state |-> "original", of |-> id]

NoCache == [key |-> <<>>, payload |-> <<>>]

Init ==
  /\ messages = <<>> /\ list = 0 /\ latest = 0 /\ cache = NoCache
  /\ disabled = FALSE /\ anchor = 0 /\ repair = FALSE /\ phase = "idle" /\ sent = <<>>
  /\ count = [turns |-> 0, calls |-> 0, empty |-> 0, reviews |-> 0, compacts |-> 0, first |-> 1]
-----------------------------------------------------------------------------
(* Which results may be reviewed, and what becomes of them.                *)

\* _tool_result_rounds: one result a round is enough here.
Rounds(msgs) == {i \in DOMAIN msgs : msgs[i].kind = "result"}

Recent(msgs) == {i \in Rounds(msgs) : Cardinality({j \in Rounds(msgs) : j > i}) < 2}

Candidates(msgs) == {i \in Rounds(msgs) \ Recent(msgs) : msgs[i].state = "original"}

NotEmpty(msg) == msg.kind # "empty"

\* A mutant of Decisions: the results are numbered from 0 by one and from 1 by the other.
DecisionsOneOff(msgs) ==
  UNION {{[i \in reviewed |-> [state |-> s[i], of |-> msgs[Min({j \in Rounds(msgs) : j > i})].of]] :
             s \in [reviewed -> States]} : reviewed \in (SUBSET Candidates(msgs)) \ {{}}}

\* _analyze_context_relevance: the model, or the fallback, decides about some of them, at
\* their positions; a summary is made of the result that is there.
Decisions(msgs) ==
  UNION {{[i \in reviewed |-> [state |-> s[i], of |-> msgs[i].of]] : s \in [reviewed -> States]} :
           reviewed \in (SUBSET Candidates(msgs)) \ {{}}}

NoDecisions == <<>>

\* A message with the decision about its position applied.
Decided(msg, i, d) ==
  IF i \in DOMAIN d /\ msg.kind = "result" /\ d[i].state # "original"
  THEN [msg EXCEPT !.state = d[i].state, !.of = d[i].of]
  ELSE msg

\* persist_semantic_compression
Persist(msgs, d) == [i \in DOMAIN msgs |-> Decided(msgs[i], i, d)]

\* build_payload_messages: empty messages are left out, and then the decisions are
\* applied at the positions they had in the history.
Payload(msgs, d) == Persist(SelectSeq(msgs, NotEmpty), d)

\* _payload_message_cache_key
Key(msgs) == <<list, Len(msgs), latest, IF msgs = <<>> THEN <<>> ELSE <<msgs[Len(msgs)]>> >>

\* _messages_for_model
Cached(msgs) ==
  IF cache.key = Key(msgs) THEN cache ELSE [key |-> Key(msgs), payload |-> Payload(msgs, NoDecisions)]

\* _apply_context_janitor_decisions; the last part of run_semantic_janitor
Review(d) ==
  LET reduced == Persist(messages, d)
  IN /\ count.reviews < MaxReviews
     /\ count' = [count EXCEPT !.reviews = @ + 1]
     /\ messages' = reduced
     /\ cache' = [key |-> Key(messages), payload |-> Payload(reduced, d)]

\* Nothing is reviewed: the payload as it is goes to the cache.
NoReview ==
  /\ cache' = [key |-> Key(messages), payload |-> Payload(messages, NoDecisions)]
  /\ UNCHANGED <<messages, count, disabled>>
-----------------------------------------------------------------------------
(* Compaction.                                                             *)

\* A mutant of Visible: whatever has the role of the user or the assistant.
AnyRole(msg) == TRUE

\* _is_visible_conversation_message; tool results are lists and not visible
Visible(msg) == msg.kind # "result"

FromUser(msg) == msg.kind \in {"user", "digest"}

\* _active_task_preserve_index
PreserveIndex(msgs) ==
  LET before(i) == {j \in 1..(i - 1) : Visible(msgs[j])}
      previous == Max(before(anchor))
  IN IF before(anchor) = {} THEN anchor
     ELSE IF ~FromUser(msgs[previous]) /\ before(previous) # {} /\ FromUser(msgs[Max(before(previous))])
          THEN Max(before(previous))
          ELSE previous

Digest == <<Message("digest", 0), Message("reply", 0)>>

\* auto_compact with a window to preserve; nothing changes if there is nothing before it.
CompactBefore(msgs, index) ==
  IF index = 1
  THEN messages' = msgs /\ UNCHANGED <<list, anchor>>
  ELSE /\ messages' = Digest \o SubSeq(msgs, index, Len(msgs))
       /\ anchor' = Len(Digest) + anchor - (index - 1)
       /\ list' = list + 1

Compacting == count.compacts < MaxCompacts /\ count' = [count EXCEPT !.compacts = @ + 1]
-----------------------------------------------------------------------------
(* A turn.                                                                 *)

\* run_turn, up to the topic shift assist.
RunTurn ==
  /\ phase = "idle" /\ count.turns < MaxTurns
  /\ count' = [count EXCEPT !.turns = @ + 1, !.first = count.calls + 1]
  /\ messages' = Append(messages, Message("user", count.turns + 1))
  /\ anchor' = Len(messages) + 1
  /\ repair' = FALSE
  /\ phase' = "topic"
  /\ UNCHANGED <<list, latest, cache, disabled, sent>>

\* An automatic run that saves too little is the last one.
AutomaticReview(d) == Review(d) /\ disabled' \in BOOLEAN

\* _run_topic_shift_assist; the automatic janitor that follows finds the window less full.
TopicShiftAssist ==
  /\ phase = "topic"
  /\ \/ phase' = "janitor" /\ NoReview
     \/ phase' = "settled" /\ ~disabled /\ \E d \in Decisions(messages) : AutomaticReview(d)
  /\ UNCHANGED <<list, latest, anchor, repair, sent>>

\* _run_automatic_context_janitor
RunContextJanitor ==
  /\ phase \in {"janitor", "settled"} /\ phase' = "round"
  /\ \/ NoReview
     \/ phase = "janitor" /\ ~disabled /\ \E d \in Decisions(messages) : AutomaticReview(d)
  /\ UNCHANGED <<list, latest, anchor, repair, sent>>

\* The window is full when a round begins: auto_compact. Its usage is that of the payload
\* of _messages_for_model, which is then in the cache.
AutoCompact ==
  /\ phase = "round" /\ phase' = "send"
  /\ Compacting
  /\ CompactBefore(messages, PreserveIndex(messages))
  /\ cache' = Cached(messages)
  /\ UNCHANGED <<latest, disabled, repair, sent>>

\* There is room.
Round ==
  /\ phase = "round" /\ phase' = "send"
  /\ cache' = Cached(messages)
  /\ UNCHANGED <<messages, list, latest, disabled, anchor, repair, sent, count>>

\* The payload goes to the model; a repair notice has it built without the cache.
Send ==
  /\ phase = "send" /\ phase' = "reply"
  /\ IF repair
     THEN sent' = Payload(messages, NoDecisions) /\ UNCHANGED cache
     ELSE sent' = Cached(messages).payload /\ cache' = Cached(messages)
  /\ repair' = FALSE
  /\ latest' = latest + 1
  /\ UNCHANGED <<messages, list, disabled, anchor, count>>

ReplyText ==
  /\ phase = "reply" /\ phase' = "idle"
  /\ messages' = Append(messages, Message("reply", 0))
  /\ anchor' = 0
  /\ UNCHANGED <<list, latest, cache, disabled, repair, sent, count>>

ReplyEmpty ==
  /\ phase = "reply" /\ phase' = "round"
  /\ count.empty < MaxEmpty /\ count' = [count EXCEPT !.empty = @ + 1]
  /\ messages' = Append(messages, Message("empty", 0))
  /\ repair' = TRUE
  /\ UNCHANGED <<list, latest, cache, disabled, anchor, sent>>

WithRound(id) == messages \o <<Message("calls", id), Message("result", id)>>

ReplyCalls ==
  /\ phase = "reply" /\ phase' = "round"
  /\ count.calls < MaxCalls /\ count' = [count EXCEPT !.calls = @ + 1]
  /\ messages' = WithRound(count.calls + 1)
  /\ UNCHANGED <<list, latest, cache, disabled, anchor, repair, sent>>

\* The model called the tool compress.
ReplyCompress ==
  /\ phase = "reply" /\ phase' = "round"
  /\ count.calls < MaxCalls /\ count.compacts < MaxCompacts
  /\ count' = [count EXCEPT !.calls = @ + 1, !.compacts = @ + 1]
  /\ LET msgs == WithRound(count.calls + 1) IN CompactBefore(msgs, PreserveIndex(msgs))
  /\ UNCHANGED <<latest, cache, disabled, repair, sent>>

\* An interruption, an error or the last round: no message is added.
StopTurn ==
  /\ phase \in {"round", "reply"} /\ phase' = "idle"
  /\ anchor' = 0
  /\ UNCHANGED <<messages, list, latest, cache, disabled, repair, sent, count>>
-----------------------------------------------------------------------------
(* Commands between turns.                                                 *)

\* run_semantic_janitor
ManualJanitor ==
  /\ phase = "idle" /\ messages # <<>>
  /\ \E d \in Decisions(messages) : Review(d)
  /\ UNCHANGED <<list, latest, disabled, anchor, repair, phase, sent>>

\* compact_session
CompactSession ==
  /\ phase = "idle" /\ messages # <<>>
  /\ Compacting
  /\ messages' = Digest
  /\ list' = list + 1
  /\ UNCHANGED <<latest, cache, disabled, anchor, repair, phase, sent>>

Next ==
  \/ RunTurn \/ TopicShiftAssist \/ RunContextJanitor
  \/ AutoCompact \/ Round \/ Send
  \/ ReplyText \/ ReplyEmpty \/ ReplyCalls \/ ReplyCompress \/ StopTurn
  \/ ManualJanitor \/ CompactSession

Spec == Init /\ [][Next]_vars
-----------------------------------------------------------------------------
\* In the history a result is its own, or a summary of its own: reviews by position never
\* hit another result, whatever compaction and empty replies did to the positions.
HistoryExact ==
  \A i \in Rounds(messages) : messages[i].of = messages[i].id

\* In every payload a call is followed by its result and a result follows its call, so no
\* compaction has cut between the two.
PayloadPaired ==
  /\ \A i \in Rounds(sent) : i > 1 /\ sent[i - 1] = Message("calls", sent[i].id)
  /\ \A i \in DOMAIN sent :
       sent[i].kind = "calls" => i < Len(sent) /\ sent[i + 1].kind = "result" /\ sent[i + 1].id = sent[i].id

\* Docs/Core/06 (third point of the janitor's timing): the two latest rounds of tool results
\* are protected. The code breaks it in the payload it leaves in the cache.
RecentRoundsSent ==
  \A i \in Recent(sent) : sent[i].of = sent[i].id /\ sent[i].state = "original"
=============================================================================
