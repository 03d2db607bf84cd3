---------------------------- MODULE ModelImages ----------------------------
(***************************************************************************)
(* Images on their way to the model (runtime/messages.py, compact.py,      *)
(* agent.py, the conversions in providers/).  The data of an image is sent *)
(* with one call and then replaced by a reference in the history.          *)
(*                                                                         *)
(* The janitor, compaction and the cached payload are in ContextJanitor:   *)
(* here the window is never full.                                          *)
(***************************************************************************)
EXTENDS Integers, SequencesExt

CONSTANTS MaxPrompts,   \* bound: prompts, at the beginning of a turn or queued for it
          MaxRounds,    \* bound: rounds of calls of tools
          MaxNotices,   \* bound: background results, inbox messages and empty replies
          MaxImages     \* bound: images

VARIABLES
  messages,   \* session.messages
  notice,     \* a runtime notice is pending for the next call
  phase,      \* where the turn is
  request,    \* the payload of the call under way
  sent,       \* history variable: the images with data in the payload of each call
  arrived,    \* history variable: the calls made before an image arrived
  count       \* prompts, rounds, notices

imagesVars == <<messages, notice, phase, request, sent, arrived, count>>

\* A prompt, a note in the role of the user, a round of tool results or a reply, with the
\* images in it: their data is a file or a data URL, or there is only a reference.
Message(kind, images, form) ==
  [kind |-> kind, images |-> images, form |-> IF images = {} THEN "none" ELSE form]

HasData(msg) == msg.form \in {"input_image", "image_url"}

\* The image that arrives next.
NextImage == Len(arrived) + 1

Arrives == Len(arrived) < MaxImages /\ arrived' = Append(arrived, Len(sent))

ImagesInit ==
  /\ messages = <<>> /\ notice = FALSE /\ phase = "idle" /\ request = <<>>
  /\ sent = <<>> /\ arrived = <<>>
  /\ count = [prompts |-> 0, rounds |-> 0, notices |-> 0]
-----------------------------------------------------------------------------
(* References, and the payload of a call.                                  *)

\* image_source_block_to_reference: the path is kept, a data URL is not.
Reference(msg) == IF HasData(msg) THEN [msg EXCEPT !.form = "reference"] ELSE msg

\* A mutant of Consumed: only images in messages of the user.
ConsumedPrompts(msgs) ==
  [i \in DOMAIN msgs |-> IF msgs[i].kind = "prompt" THEN Reference(msgs[i]) ELSE msgs[i]]

\* consume_ephemeral_image_blocks
Consumed(msgs) == [i \in DOMAIN msgs |-> Reference(msgs[i])]

Latest(msgs, kinds) ==
  LET is == {i \in DOMAIN msgs : msgs[i].kind \in kinds} IN IF is = {} THEN 0 ELSE Max(is)

\* _strip_stale_user_image_blocks: the latest message of the user may have images.
WithoutStalePrompts(msgs) ==
  [i \in DOMAIN msgs |->
     IF msgs[i].kind = "prompt" /\ i # Latest(msgs, {"prompt", "note"}) THEN Reference(msgs[i]) ELSE msgs[i]]

\* _strip_stale_tool_result_content_blocks: so may the latest round of results.
WithoutStaleResults(msgs) ==
  [i \in DOMAIN msgs |->
     IF msgs[i].kind = "results" /\ i # Latest(msgs, {"results"}) THEN Reference(msgs[i]) ELSE msgs[i]]

\* build_payload_messages
Payload(msgs) == WithoutStaleResults(WithoutStalePrompts(msgs))

\* _clone_messages_for_payload: what is done to the history later leaves the payload alone.
Cloned(msgs) == msgs

\* What _to_openai_messages and _to_anthropic_messages make image parts of.
ImageParts(msgs) == UNION {msgs[i].images : i \in {j \in DOMAIN msgs : HasData(msgs[j])}}
-----------------------------------------------------------------------------
\* A prompt, with an image or without (_build_image_query, the composers of the user
\* interfaces; run_turn and the top of _agent_loop append it). Its entry in the transcript
\* is a copy with references.
Prompt ==
  /\ count.prompts < MaxPrompts
  /\ count' = [count EXCEPT !.prompts = @ + 1]
  /\ \/ messages' = Append(messages, Message("prompt", {}, "none")) /\ UNCHANGED arrived
     \/ messages' = Append(messages, Message("prompt", {NextImage}, "input_image")) /\ Arrives

RunTurn ==
  /\ phase = "idle" /\ phase' = "round"
  /\ Prompt
  /\ notice' \in BOOLEAN   \* the todo list is stale
  /\ UNCHANGED <<request, sent>>

\* take_next_loop_user_message
LoopPrompt ==
  /\ phase = "round" /\ phase' = "queued"
  /\ Prompt
  /\ UNCHANGED <<notice, request, sent>>

\* Background results or the inbox: a message with the role of the user.
Injected ==
  /\ phase \in {"round", "queued"} /\ phase' = "round_full"
  /\ count.notices < MaxNotices /\ count' = [count EXCEPT !.notices = @ + 1]
  /\ messages' = Append(messages, Message("note", {}, "none"))
  /\ UNCHANGED <<notice, request, sent, arrived>>

Notices == IF notice THEN <<Message("note", {}, "none")>> ELSE <<>>

\* The payload is built, then the images of the history are consumed.
Send ==
  /\ phase \in {"round", "queued", "round_full"} /\ phase' = "call"
  /\ request' = Cloned(Payload(messages \o Notices))
  /\ messages' = Consumed(messages)
  /\ sent' = Append(sent, ImageParts(request'))
  /\ notice' = FALSE
  /\ UNCHANGED <<arrived, count>>

\* _openai_image_part, _anthropic_image_block: a file that is gone or too large to send
\* (prepare_image_bytes_for_model) is an error that is not retried.
NotConverted ==
  /\ phase = "call" /\ phase' = "idle"
  /\ \E i \in DOMAIN request : request[i].form = "input_image"
  /\ request' = <<>>
  /\ UNCHANGED <<messages, notice, sent, arrived, count>>

ReplyText ==
  /\ phase = "call" /\ phase' = "idle"
  /\ messages' = Append(messages, Message("reply", {}, "none"))
  /\ request' = <<>>
  /\ UNCHANGED <<notice, sent, arrived, count>>

\* An empty reply, or open items of the todo list: the loop goes on with a notice.
ReplyRepaired ==
  /\ phase = "call" /\ phase' = "round"
  /\ count.notices < MaxNotices /\ count' = [count EXCEPT !.notices = @ + 1]
  /\ messages' = Append(messages, Message("reply", {}, "none"))
  /\ notice' = TRUE
  /\ request' = <<>>
  /\ UNCHANGED <<sent, arrived>>

\* A round of tools: read_image reads a file, a server of tools answers with a data URL
\* (_render_mcp_result), the rest has no image. A failed call may leave a repair notice.
ReplyCalls ==
  /\ phase = "call" /\ phase' = "round"
  /\ count.rounds < MaxRounds /\ count' = [count EXCEPT !.rounds = @ + 1]
  /\ \/ messages' = messages \o <<Message("reply", {}, "none"), Message("results", {}, "none")>>
        /\ UNCHANGED arrived
     \/ \E form \in {"input_image", "image_url"} :
          messages' = messages \o <<Message("reply", {}, "none"), Message("results", {NextImage}, form)>>
        /\ Arrives
  /\ notice' \in BOOLEAN
  /\ request' = <<>>
  /\ UNCHANGED sent

\* An interruption, an error of the provider, or the last round: nothing is added.
StopTurn ==
  /\ phase # "idle" /\ phase' = "idle"
  /\ request' = <<>>
  /\ notice' = FALSE
  /\ UNCHANGED <<messages, sent, arrived, count>>

ImagesNext ==
  \/ RunTurn \/ LoopPrompt \/ Injected \/ Send
  \/ NotConverted \/ ReplyText \/ ReplyRepaired \/ ReplyCalls \/ StopTurn

ImagesSpec == ImagesInit /\ [][ImagesNext]_imagesVars
-----------------------------------------------------------------------------
\* Images that have come with results of tools.
OfTools == UNION {messages[i].images : i \in {j \in DOMAIN messages : messages[j].kind = "results"}}

\* The data of an image goes out with at most one call, and that of a result with the very
\* next one, whatever prompts, notices, interruptions and errors come between.
ImagesSentOnce ==
  \A n \in DOMAIN arrived :
    LET calls == {c \in DOMAIN sent : n \in sent[c]}
    IN /\ Cardinality(calls) <= 1
       /\ n \in OfTools /\ Len(sent) > arrived[n] => calls = {arrived[n] + 1}

\* Docs/Core/01-AgentLoop.md:102 and the test named
\* test_build_payload_messages_keeps_current_turn_user_image_blocks_after_tool_results: what
\* is left out is stale, so the image of the current prompt goes out with the first call. The
\* code breaks it: a notice, background results or an inbox message is then the latest
\* message of the user, so the image is left out of the payload and consumed in the history.
PromptImagesSent ==
  LET prompt == Latest(messages, {"prompt"})
  IN phase = "call" /\ prompt # 0 =>
       \A n \in messages[prompt].images : \E c \in DOMAIN sent : n \in sent[c]
=============================================================================
