---------------------------- MODULE Conversation ----------------------------
(***************************************************************************)
(* What an LLM agent tells a model: events kept in a session are turned    *)
(* into messages (runner/event-history.ts), messages into the blocks of a  *)
(* vendor's request and a vendor's reply into parts and tool calls         *)
(* (provider/{anthropic,google,openai}/converter.ts).  Texts, arguments    *)
(* and results are left out; a text is kept when it is not empty.          *)
(***************************************************************************)
EXTENDS Integers, Sequences, SequencesExt

Providers == {"anthropic", "google", "openai"}

\* For the events without a call; no tool matters under this name.
NoCall == [id |-> 0, tool |-> "none"]

\* An AgentEvent.  "piece" numbers the content a turn produces, "name" is the
\* descriptor's name of a text artifact.
Event(type) ==
  [type |-> type, role |-> "agent", piece |-> 0, name |-> "", call |-> NoCall]

UserText == [Event("text") EXCEPT !.role = "user"]
TextEvent(name) == [Event("text") EXCEPT !.name = name]
ToolEvent(type, call) == [Event(type) EXCEPT !.call = call]

\* A Message of the contents handed to a provider.
Said(role, text) == [role |-> role, text |-> text, calls |-> <<>>, results |-> <<>>]
Asks(text, calls) == [Said("agent", text) EXCEPT !.calls = calls]
Tells(results) == [Said("user", FALSE) EXCEPT !.results = results]

-----------------------------------------------------------------------------
(* From a session's events to messages. *)

Replay(messages, event) ==
  CASE event.type = "text" -> Append(messages, Said(event.role, TRUE))
    [] event.type = "toolResult" -> Append(messages, Tells(<<event.call>>))
    [] event.type = "toolCall" /\ messages # <<>> /\ Last(messages).role = "agent" ->
         [messages EXCEPT ![Len(messages)].calls = Append(@, event.call)]
    [] OTHER -> messages

History(events) ==
  LET messages[n \in 0..Len(events)] ==
        IF n = 0 THEN <<>> ELSE Replay(messages[n - 1], events[n])
  IN messages[Len(events)]

-----------------------------------------------------------------------------
(* From messages to a request.  A block is a text, the use of a tool or its *)
(* result; Anthropic and OpenAI match a result to its use by the call's id, *)
(* Google by the tool's name and the order.                                 *)

Block(kind, key) == [kind |-> kind, key |-> key]
TextBlocks(m) == IF m.text THEN <<Block("text", NoCall)>> ELSE <<>>
Tagged(kind, keys) == [i \in DOMAIN keys |-> Block(kind, keys[i])]

ById(calls) == [i \in DOMAIN calls |-> [NoCall EXCEPT !.id = calls[i].id]]
ByName(calls) == [i \in DOMAIN calls |-> [NoCall EXCEPT !.tool = calls[i].tool]]

\* Not in the code: the assistant's text after its tool uses.
AnthropicBlocksTextLast(m) ==
  IF m.results # <<>> THEN Tagged("result", ById(m.results))
  ELSE Tagged("use", ById(m.calls)) \o TextBlocks(m)

AnthropicBlocks(m) ==
  IF m.results # <<>> THEN Tagged("result", ById(m.results))
  ELSE TextBlocks(m) \o Tagged("use", ById(m.calls))

GoogleBlocks(m) ==
  IF m.results # <<>> THEN Tagged("result", ByName(m.results))
  ELSE TextBlocks(m) \o Tagged("use", ByName(m.calls))

\* An OpenAI message has its content and its tool calls in two fields, and a
\* user's message is sent when its content is empty, too.
OpenAIBlocks(m) ==
  IF m.results # <<>> THEN Tagged("result", ById(m.results))
  ELSE IF m.role = "agent" THEN TextBlocks(m) \o Tagged("use", ById(m.calls))
  ELSE <<Block("text", NoCall)>>

Blocks(provider, m) ==
  CASE provider = "anthropic" -> AnthropicBlocks(m)
    [] provider = "google" -> GoogleBlocks(m)
    [] provider = "openai" -> OpenAIBlocks(m)

Request(provider, contents) ==
  LET blocks[n \in 0..Len(contents)] ==
        IF n = 0 THEN <<>> ELSE blocks[n - 1] \o Blocks(provider, contents[n])
  IN blocks[Len(contents)]

\* The elements of a sequence that are in a set, of each of its prefixes.
Chosen(seq, wanted) ==
  LET chosen[n \in 0..Len(seq)] ==
        IF n = 0 THEN <<>>
        ELSE IF seq[n] \in wanted THEN Append(chosen[n - 1], seq[n])
        ELSE chosen[n - 1]
  IN chosen

Keys(kind, blocks, n) ==
  LET chosen == Chosen(blocks, {b \in ToSet(blocks) : b.kind = kind})[n]
  IN [i \in DOMAIN chosen |-> chosen[i].key]

\* What every vendor requires of a request: the uses of tools in one answer
\* are followed at once by their results, one each and in their order.
Paired(blocks) ==
  LET Answered(n) == Keys("use", blocks, n) = Keys("result", blocks, n)
  IN /\ Answered(Len(blocks))
     /\ \A i \in DOMAIN blocks :
          \/ Answered(i - 1) /\ blocks[i].kind \in {"text", "use"}
          \/ blocks[i].kind = "use" /\ blocks[i - 1].kind = "use"
          \/ /\ blocks[i].kind = "result"
             /\ IsPrefix(Keys("result", blocks, i), Keys("use", blocks, i))

-----------------------------------------------------------------------------
(* From a reply, a sequence of "text" and of names of tools to call, to the *)
(* agent's response.  "next" numbers the calls.                              *)

Response(content, calls) == [content |-> content, calls |-> calls]

TextsOf(reply) == Chosen(reply, {"text"})[Len(reply)]
UsesOf(reply) == Chosen(reply, ToSet(reply) \ {"text"})[Len(reply)]

FromAnthropic(reply, next) ==
  Response(TextsOf(reply),
           [i \in DOMAIN UsesOf(reply) |-> [id |-> next + i, tool |-> UsesOf(reply)[i]]])

\* Google sends no ids: the converter makes one of the tool's name and the
\* time, so calls of one reply to one tool share it.
FromGoogle(reply, next) ==
  Response(TextsOf(reply),
           [i \in DOMAIN UsesOf(reply) |-> [id |-> next + 1, tool |-> UsesOf(reply)[i]]])

\* OpenAI has one text at most.
FromOpenAI(reply, next) ==
  Response(IF TextsOf(reply) = <<>> THEN <<>> ELSE <<"text">>,
           [i \in DOMAIN UsesOf(reply) |-> [id |-> next + i, tool |-> UsesOf(reply)[i]]])

FromReply(provider, reply, next) ==
  CASE provider = "anthropic" -> FromAnthropic(reply, next)
    [] provider = "google" -> FromGoogle(reply, next)
    [] provider = "openai" -> FromOpenAI(reply, next)
=============================================================================
