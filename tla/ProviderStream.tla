---------------------------- MODULE ProviderStream ----------------------------
(* A reply of the model as the OpenAI provider puts it together from the    *)
(* events of a stream (providers/openai_provider).  The text comes in       *)
(* pieces cut anywhere, also in the middle of a tag; what stands between    *)
(* <think> and </think> is thinking and must not be shown as text.  Calls   *)
(* of tools come in pieces too, those of different calls mixed.             *)
(* A character is a string of one letter; the tags are <t> and </t>.        *)
EXTENDS Naturals, Sequences, SequencesExt, FiniteSets, FiniteSetsExt

CONSTANTS MaxText,      \* bound on the characters of a reply
          MaxPiece,     \* bound on the characters of an event
          MaxCalls,     \* bound on the calls of a reply
          MaxArguments  \* the pieces the arguments of a call come in

VARIABLES raw,          \* the text the server has sent
          split,        \* the splitter: its buffer and whether it is in a tag
          shown,        \* kind -> what the callbacks were given
          sent,         \* call -> how many pieces of it the server has sent
          calls,        \* tool_calls_by_index
          turn          \* what complete returns, NoTurn before

vars == <<raw, split, shown, sent, calls, turn>>

Kinds == {"text", "thinking"}
Characters == {"<", "/", "t", ">"}
OpenTag == <<"<", "t", ">">>
CloseTag == <<"<", "/", "t", ">">>
NoTurn == [stop |-> "none"]
-----------------------------------------------------------------------------
(* _ThinkTagSplitter.                                                       *)

IsAt(s, tag, i) == i + Len(tag) - 1 <= Len(s) /\ SubSeq(s, i, i + Len(tag) - 1) = tag
Found(s, tag) == {i \in 1..(Len(s) - Len(tag) + 1) : IsAt(s, tag, i)}
After(s, i) == SubSeq(s, i + 1, Len(s))

TagFor(thinking) == IF thinking THEN CloseTag ELSE OpenTag
KindFor(thinking) == IF thinking THEN "thinking" ELSE "text"

HeldTooFew(tag, s) == Min({Len(tag) - 2, Len(s)})                     \* a mutant
\* What may be the start of the tag stays behind.
Held(tag, s) == Min({Len(tag) - 1, Len(s)})
Ready(tag, s) == Len(s) - Held(tag, s)

Part(thinking, s) == [kind |-> KindFor(thinking), s |-> s]
Parted(buffer, thinking) == [buffer |-> buffer, thinking |-> thinking]

\* The parts given out for a buffer and the splitter after it.
Feed(splitter, piece) ==
  LET whole == splitter.buffer \o piece
      step[s \in Seq(Characters), thinking \in BOOLEAN] ==
        LET tag == TagFor(thinking)
            at == Found(s, tag)
        IN IF at # {}
           THEN LET rest == step[After(s, Min(at) + Len(tag) - 1), ~thinking]
                IN [rest EXCEPT !.parts = <<Part(thinking, SubSeq(s, 1, Min(at) - 1))>> \o @]
           ELSE [parts    |-> <<Part(thinking, SubSeq(s, 1, Ready(tag, s)))>>,
                 splitter |-> Parted(After(s, Ready(tag, s)), thinking)]
  IN step[whole, splitter.thinking]

Flush(splitter) == <<Part(splitter.thinking, splitter.buffer)>>

Emitted(parts, kind) ==
  FlattenSeq([i \in DOMAIN parts |-> IF parts[i].kind = kind THEN parts[i].s ELSE <<>>])
Shown(parts) == [kind \in Kinds |-> shown[kind] \o Emitted(parts, kind)]
-----------------------------------------------------------------------------
(* _read_streaming_response and the turn complete makes of it.              *)

Open == turn = NoTurn

Content(piece) ==
  /\ Open
  /\ Len(raw) + Len(piece) <= MaxText
  /\ LET fed == Feed(split, piece)
     IN shown' = Shown(fed.parts) /\ split' = fed.splitter
  /\ raw' = raw \o piece
  /\ UNCHANGED <<sent, calls, turn>>

\* The pieces of a call carry its index; its name comes with the first.
Appended(i, n) == [calls EXCEPT ![i] = Append(@, n)]
ToolDelta(i) ==
  /\ Open
  /\ sent[i] < MaxArguments
  /\ sent' = [sent EXCEPT ![i] = @ + 1]
  /\ calls' = Appended(i, sent[i] + 1)
  /\ UNCHANGED <<raw, split, shown, turn>>

\* Arguments that do not parse are replaced by none, with a warning.
Parses(arguments) == arguments = [n \in 1..MaxArguments |-> n]
ToolCalls ==
  LET begun == {i \in DOMAIN calls : calls[i] # <<>>}
  IN [i \in begun |-> IF Parses(calls[i]) THEN "input" ELSE "none"]
Turn(final, finish) ==
  [stop  |-> IF finish = "tool_calls" THEN "tool_use" ELSE "end_turn",
   text  |-> final["text"], thinking |-> final["thinking"], calls |-> ToolCalls]

\* The stream ends, also where it was cut short: finish is what its last
\* event said, "stop" if none said anything.
End(finish) ==
  /\ Open
  /\ shown' = Shown(Flush(split))
  /\ split' = [split EXCEPT !.buffer = <<>>]
  /\ turn' = Turn(shown', finish)
  /\ UNCHANGED <<raw, sent, calls>>

Interrupted ==
  /\ Open
  /\ turn' = [stop |-> "interrupted"]
  /\ UNCHANGED <<raw, split, shown, sent, calls>>

Init ==
  /\ raw = <<>>
  /\ split = [buffer |-> <<>>, thinking |-> FALSE]
  /\ shown = [kind \in Kinds |-> <<>>]
  /\ sent = [i \in 1..MaxCalls |-> 0]
  /\ calls = [i \in 1..MaxCalls |-> <<>>]
  /\ turn = NoTurn

Next ==
  \/ \E n \in 1..MaxPiece : \E piece \in [1..n -> Characters] : Content(piece)
  \/ \E i \in 1..MaxCalls : ToolDelta(i)
  \/ \E finish \in {"stop", "tool_calls"} : End(finish)
  \/ Interrupted

Spec == Init /\ [][Next]_vars
-----------------------------------------------------------------------------
(* Properties.                                                              *)

\* The split of a whole text: every tag that opens or closes is dropped, and
\* every other character is of the kind it stands in.
Split(s) ==
  LET of[i \in 1..(Len(s) + 1), thinking \in BOOLEAN] ==
        IF i > Len(s) THEN <<>>
        ELSE IF IsAt(s, TagFor(thinking), i) THEN of[i + Len(TagFor(thinking)), ~thinking]
        ELSE <<Part(thinking, <<s[i]>>)>> \o of[i + 1, thinking]
  IN of[1, FALSE]
SplitText(s) == [kind \in Kinds |-> Emitted(Split(s), kind)]

\* However the reply is cut into events, the user is shown nothing but the
\* text outside the tags, in order, and at the end all of it; a call is made
\* with the arguments the server sent for it, or with none if not all came.
StreamedIsReply ==
  /\ turn.stop \in {"tool_use", "end_turn"} =>
       /\ shown = SplitText(raw)
       /\ turn.text = shown["text"] /\ turn.thinking = shown["thinking"]
       /\ turn.calls = [i \in {j \in DOMAIN sent : sent[j] > 0} |->
                          IF sent[i] = MaxArguments THEN "input" ELSE "none"]
  /\ \A kind \in Kinds : IsPrefix(shown[kind], SplitText(raw)[kind])
=============================================================================
