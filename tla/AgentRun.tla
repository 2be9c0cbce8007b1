------------------------------ MODULE AgentRun ------------------------------
(***************************************************************************)
(* Turns of an agent: the model and tool loop of agent/llm-agent.ts, a     *)
(* custom or a remote agent in its place, the runner that records what the *)
(* agent yields (runner/runner.ts), and the executor that makes artifacts  *)
(* of it (a2x/agent-executor.ts).  The executor has one path for           *)
(* message/send and one for message/stream; the model feeds the same       *)
(* events to both, so that what they make of one turn can be compared.  On *)
(* a stream the request handler stores and publishes each update before    *)
(* the agent goes on.  A cancel may abort the turn between any two awaits. *)
(***************************************************************************)
EXTENDS Conversation, ArtifactFold

CONSTANTS
  Agents,         \* the kinds of agent, out of "llm", "custom", "remote"
  Vendors,        \* the model providers an LLM agent may have
  Replies,        \* what a model may reply: sequences of "text" and tool names
  Interceptions,  \* what a beforeModel callback may answer in its place
  Names,          \* the names a custom agent gives its text, "" for none
  MaxLlmCalls,    \* maxLlmCalls of the agent
  MaxTurns,       \* bound: turns of a behaviour
  MaxPieces,      \* bound: pieces of content of a task a custom agent yields
  MaxIntercepted  \* bound: answers of callbacks in one turn

ASSUME AgentAssumption ==
  /\ Agents \subseteq {"llm", "custom", "remote"}
  /\ Vendors \subseteq Providers
  /\ {MaxLlmCalls, MaxTurns, MaxPieces, MaxIntercepted} \subseteq Nat

ASSUME AnswerAssumption ==
  /\ Replies \subseteq Seq(STRING)
  /\ Interceptions \subseteq [content : Seq({"text", "file", "data"}),
                               calls : Seq([id : Nat, tool : STRING])]

VARIABLES
  host,      \* the agent and the provider this program has, and its turns so far
  session,   \* the events of the current session
  agent,     \* where the agent is, and what its loop holds
  out,       \* the event the agent yields, <<>> or <<event>>
  aborted,   \* whether the turn's signal is aborted
  given,     \* how many pieces of content the executor got for the task
  send,      \* the turn on the path of message/send
  stream,    \* the turn on the path of message/stream
  pump       \* what the executor has yielded and is still to be written

vars == <<host, session, agent, out, aborted, given, send, stream, pump>>

Endings == {"done", "error", "request-input"}

\* The update to be stored, the one to be published (each <<>> or <<update>>), and
\* the status to end the turn with.
Resting == [writing |-> <<>>, telling |-> <<>>, ending |-> "none"]

Idle == [at |-> "idle", calls |-> 0, intercepted |-> 0, used |-> 0, contents |-> <<>>,
         content |-> <<>>, text |-> FALSE, asked |-> <<>>, due |-> <<>>, results |-> <<>>,
         history |-> 0]

Init ==
  /\ host \in [agent : Agents, provider : Vendors \cup {"none"}, turns : {0}]
  /\ host.agent = "llm" <=> host.provider # "none"
  /\ session = <<>> /\ out = <<>> /\ aborted = FALSE /\ given = 0
  /\ agent = Idle
  /\ send = BeginPath(<<>>) /\ stream = BeginPath(<<>>) /\ pump = Resting

-----------------------------------------------------------------------------
(* Helpers *)

Running == agent.at \notin {"idle", "ended"}

\* The agent goes on when the executor asks for its next event.
At(place) == agent.at = place /\ out = <<>> /\ pump = Resting
Go(place) == agent' = [agent EXCEPT !.at = place]
Yield(event) == out' = <<event>>
Quietly == UNCHANGED <<host, session, out, aborted, given, send, stream, pump>>

Over == agent' = [agent EXCEPT !.at = "ended"]
Cancelled(p) == [p EXCEPT !.status = "canceled"]

\* The executor finds the signal aborted: the turn ends without a status of its own.
Leave ==
  /\ Over
  /\ send' = Cancelled(send) /\ stream' = Cancelled(stream) /\ pump' = Resting

\* It ends the turn, and looks at the signal no more.
Conclude(status, update) ==
  /\ Over
  /\ pump' = [Resting EXCEPT !.writing = update, !.ending = status]
  /\ UNCHANGED <<send, stream>>

\* The generator returns, or is returned from, without another event.
Returned == IF aborted THEN Leave ELSE Conclude("completed", WholeText(stream))

\* Something throws through the generator or the executor.
Thrown == IF aborted THEN Leave ELSE Conclude("failed", <<>>)

-----------------------------------------------------------------------------
(* The runner *)

\* A turn of a new task, or the next one of a task that asked for input.  An
\* executor creates a session for each turn; a program that calls the runner
\* itself may go on with the one it has, which only an LLM agent reads.
StartTurn(kept) ==
  /\ agent.at \in {"idle", "ended"} /\ pump = Resting /\ host.turns < MaxTurns
  /\ kept => host.agent = "llm"
  /\ host' = [host EXCEPT !.turns = @ + 1]
  /\ session' = IF kept THEN session ELSE <<>>
  /\ agent' = [Idle EXCEPT !.at = "created", !.used = IF kept THEN agent.used ELSE 0]
  /\ aborted' = FALSE
  /\ LET resumed == send.status = "input-required" /\ stream.status = "input-required"
         Stored(p) == IF resumed THEN p.stored ELSE <<>>
     IN /\ send' = BeginPath(Stored(send))
        /\ stream' = BeginPath(Stored(stream))
        /\ given' = IF resumed THEN given ELSE 0
  /\ UNCHANGED <<out, pump>>

\* The executor has a session, and on a stream yields that the task is working.
Begin ==
  /\ At("created")
  /\ IF aborted THEN Returned ELSE Go("started") /\ UNCHANGED <<send, stream, pump>>
  /\ UNCHANGED <<host, session, out, aborted, given>>

\* That is written: the user's text is recorded, and the agent's generator is
\* started, whatever the signal says by now.
RunAsync ==
  /\ At("started")
  /\ session' = Append(session, UserText)
  /\ Go(IF host.agent = "llm" THEN "setup" ELSE host.agent)
  /\ UNCHANGED <<host, out, aborted, given, send, stream, pump>>

\* Content is collected, and on a stream an update is yielded; a chunk that
\* renames the text artifact fails the turn.
TakeContent(event) ==
  IF Conflicts(send, event)
  THEN Thrown /\ UNCHANGED given
  ELSE /\ given' = given + 1
       /\ send' = Collect(send, event)
       /\ stream' = Stream(stream, event)
       /\ pump' = [Resting EXCEPT !.writing = <<UpdateOf(stream', event)>>]
       /\ UNCHANGED agent

TakeEnding(event) ==
  /\ CASE event.type = "done" -> Conclude("completed", WholeText(stream))
       [] event.type = "error" -> Conclude("failed", <<>>)
       [] event.type = "request-input" -> Conclude("input-required", <<>>)
  /\ UNCHANGED given

Take ==
  LET content == out[1].type \in {"text", "file", "data"}
      event == [out[1] EXCEPT !.piece = IF content THEN given + 1 ELSE 0]
  IN /\ session' = Append(session, event)
     /\ IF content THEN TakeContent(event)
        ELSE IF event.type \in Endings THEN TakeEnding(event)
        ELSE UNCHANGED <<agent, given, send, stream, pump>>

Drop == Returned /\ UNCHANGED <<session, given>>

\* Not in the code: an event that is taken whatever the signal says.
RelayAlways ==
  /\ Running /\ out # <<>> /\ out' = <<>> /\ pump = Resting
  /\ Take
  /\ UNCHANGED <<host, aborted>>

\* The event reaches the runner, which drops it when the turn is aborted and
\* else records it, and without another await the executor, which has no case
\* for tool calls and results.
Relay ==
  /\ Running /\ out # <<>> /\ out' = <<>> /\ pump = Resting
  /\ IF aborted THEN Drop ELSE Take
  /\ UNCHANGED <<host, aborted>>

-----------------------------------------------------------------------------
(* The request handler: what the executor has yielded is stored, and then it is *)
(* published, whether or not the turn is aborted meanwhile.                     *)

StoreNext ==
  /\ pump.writing # <<>>
  /\ stream' = StoreUpdate(stream, pump.writing[1])
  /\ pump' = [pump EXCEPT !.writing = <<>>, !.telling = pump.writing]
  /\ UNCHANGED <<host, session, agent, out, aborted, given, send>>

PublishNext ==
  /\ pump.telling # <<>>
  /\ stream' = PublishUpdate(stream, pump.telling[1])
  /\ pump' = [pump EXCEPT !.telling = <<>>]
  /\ UNCHANGED <<host, session, agent, out, aborted, given, send>>

\* A write that meets the status of a cancel changes nothing: the record keeps it.
LastWrite(p, ended) == {ended} \cup (IF aborted THEN {Cancelled(p)} ELSE {})

\* The status of the turn is written on both paths.
End ==
  /\ pump.ending # "none" /\ pump.writing = <<>> /\ pump.telling = <<>>
  /\ send' \in LastWrite(send, EndSend(send, pump.ending))
  /\ stream' \in LastWrite(stream, EndStream(stream, pump.ending))
  /\ pump' = Resting
  /\ UNCHANGED <<host, session, agent, out, aborted, given>>

\* An earlier write of a stream meets the status of a cancel and stops the
\* executor; on the other path nothing was to be written but the end.
Overtaken ==
  /\ aborted /\ (At("started") \/ pump.writing # <<>>)
  /\ Over
  /\ stream' = Cancelled(stream)
  /\ send' \in IF pump.ending = "none" THEN {Cancelled(send)}
               ELSE LastWrite(send, EndSend(send, pump.ending))
  /\ pump' = Resting
  /\ UNCHANGED <<host, session, out, aborted, given>>

\* A cancel aborts the controllers of the task, and then writes its own status.
Abort ==
  /\ Running \/ pump.ending # "none"
  /\ ~aborted /\ aborted' = TRUE
  /\ UNCHANGED <<host, session, agent, out, given, send, stream, pump>>

-----------------------------------------------------------------------------
(* The LLM agent *)

\* Skills load, the instruction resolves, and the history becomes the contents.
SetUp ==
  /\ At("setup")
  /\ agent' = [agent EXCEPT !.at = "loop", !.contents = History(session),
                            !.history = Len(session)]
  /\ Quietly

Fail ==
  /\ At("setup") \/ At("asking") \/ At("model")
  /\ Yield(Event("error"))
  /\ UNCHANGED <<host, session, agent, aborted, given, send, stream, pump>>

AtLimit == agent.calls >= MaxLlmCalls

ReachLimit ==
  /\ At("loop") /\ AtLimit
  /\ Yield(Event("done"))
  /\ UNCHANGED <<host, session, agent, aborted, given, send, stream, pump>>

\* The loop leaves when it is aborted, before a model call and before a tool.
LeaveLoop ==
  /\ \/ At("loop") /\ ~AtLimit
     \/ At("tools") /\ agent.due # <<>>
  /\ aborted /\ Returned
  /\ UNCHANGED <<host, session, out, aborted, given>>

Ask == At("loop") /\ ~AtLimit /\ ~aborted /\ Go("asking") /\ Quietly

CallModel == At("asking") /\ Go("model") /\ Quietly

\* A response, after the afterModel callbacks: its content is yielded part by
\* part, without texts that are empty.
Answered(response) ==
  [agent EXCEPT !.at = "emit", !.content = response.content,
                !.text = \E i \in DOMAIN response.content : response.content[i] = "text",
                !.asked = response.calls, !.used = @ + Len(response.calls)]

\* A callback's answer is no model call, and is not counted as one.
Intercept(response) ==
  /\ At("asking") /\ agent.intercepted < MaxIntercepted
  /\ agent' = [Answered(response) EXCEPT !.intercepted = @ + 1]
  /\ Quietly

ModelReplies(reply) ==
  /\ At("model")
  /\ agent' = [Answered(FromReply(host.provider, reply, agent.used)) EXCEPT !.calls = @ + 1]
  /\ Quietly

Emit ==
  /\ At("emit") /\ agent.content # <<>>
  /\ Yield(Event(Head(agent.content)))
  /\ agent' = [agent EXCEPT !.content = Tail(@)]
  /\ UNCHANGED <<host, session, aborted, given, send, stream, pump>>

\* Without tool calls the response ends the turn; the calls of another one join
\* the contents.
Respond ==
  /\ At("emit") /\ agent.content = <<>> /\ host.agent = "llm"
  /\ IF agent.asked = <<>>
     THEN Yield(Event("done")) /\ UNCHANGED agent
     ELSE /\ agent' = [agent EXCEPT !.at = "tools", !.due = agent.asked, !.results = <<>>,
                                    !.contents = Append(@, Asks(agent.text, agent.asked))]
          /\ UNCHANGED out
  /\ UNCHANGED <<host, session, aborted, given, send, stream, pump>>

BeginTool ==
  /\ At("tools") /\ agent.due # <<>> /\ ~aborted
  /\ Yield(ToolEvent("toolCall", Head(agent.due)))
  /\ Go("tool")
  /\ UNCHANGED <<host, session, aborted, given, send, stream, pump>>

\* A tool that is unknown, that a callback answers for, that answers or that
\* throws: each gives the call a result.
EndTool ==
  /\ At("tool")
  /\ Yield(ToolEvent("toolResult", Head(agent.due)))
  /\ agent' = [agent EXCEPT !.at = "tools", !.due = Tail(@),
                            !.results = Append(@, Head(agent.due))]
  /\ UNCHANGED <<host, session, aborted, given, send, stream, pump>>

TellResults ==
  /\ At("tools") /\ agent.due = <<>>
  /\ agent' = [agent EXCEPT !.at = "loop", !.contents = Append(@, Tells(agent.results))]
  /\ Quietly

-----------------------------------------------------------------------------
(* Other agents *)

CustomYields(event) ==
  /\ At("custom")
  /\ event.type \in {"text", "file", "data"} => given < MaxPieces
  /\ Yield(event)
  /\ UNCHANGED <<host, session, agent, aborted, given, send, stream, pump>>

\* The generator ends without "done".
CustomReturns ==
  /\ At("custom") /\ Returned
  /\ UNCHANGED <<host, session, out, aborted, given>>

\* createSession throws, or the agent does.
RunThrows ==
  /\ At("created") \/ At("custom") \/ At("remote")
  /\ Thrown
  /\ UNCHANGED <<host, session, out, aborted, given>>

\* A remote agent relays the texts of every artifact update of its stream ...
RemoteUpdate(texts) ==
  /\ At("remote") /\ given + texts <= MaxPieces
  /\ agent' = [agent EXCEPT !.at = "emit", !.content = [i \in 1..texts |-> "text"]]
  /\ Quietly

RemoteListens ==
  /\ At("emit") /\ agent.content = <<>> /\ host.agent = "remote"
  /\ Go("remote")
  /\ Quietly

\* ... and ends with an error when the remote task failed, as done when it
\* completed or the stream ended with anything else.
RemoteEnds(failed) ==
  /\ At("remote")
  /\ Yield(Event(IF failed THEN "error" ELSE "done"))
  /\ UNCHANGED <<host, session, agent, aborted, given, send, stream, pump>>

CustomEvents ==
  {TextEvent(n) : n \in Names} \cup
  {Event(t) : t \in {"file", "data", "done", "error", "request-input"}}

RunnerNext ==
  \/ \E kept \in BOOLEAN : StartTurn(kept)
  \/ Begin \/ RunAsync \/ Relay \/ StoreNext \/ PublishNext \/ End
  \/ Abort \/ Overtaken

LlmNext ==
  \/ SetUp \/ Fail \/ ReachLimit \/ LeaveLoop \/ Ask \/ CallModel
  \/ \E r \in Interceptions : Intercept(r)
  \/ \E r \in Replies : ModelReplies(r)
  \/ Emit \/ Respond \/ BeginTool \/ EndTool \/ TellResults

OtherNext ==
  \/ \E e \in CustomEvents : CustomYields(e)
  \/ CustomReturns \/ RunThrows
  \/ \E n \in 1..2 : RemoteUpdate(n)
  \/ RemoteListens
  \/ \E failed \in BOOLEAN : RemoteEnds(failed)

Next == RunnerNext \/ LlmNext \/ OtherNext

Spec == Init /\ [][Next]_vars

-----------------------------------------------------------------------------
(* Properties *)

Finished == {"completed", "failed", "input-required"}

\* message/send and message/stream make the same of a turn: the same status, and
\* the same artifacts in the same order in the store; and a subscriber that folds
\* the updates it heard has what the store has.  Only a cancel can tell the paths
\* apart, when its status overtakes the last write of one of them.
PathsAgree ==
  send.status \in Finished \/ stream.status \in Finished =>
    \/ aborted /\ "canceled" \in {send.status, stream.status}
    \/ /\ send.status = stream.status
       /\ send.stored = stream.stored
       /\ ToSet(stream.told) = ToSet(stream.stored)

\* No two artifacts share an id or a piece, each has its pieces in order, and
\* together they have the first n.
HoldsAll(artifacts, n) ==
  /\ UNION {ToSet(artifacts[i].pieces) : i \in DOMAIN artifacts} = 1..n
  /\ \A i, j \in DOMAIN artifacts : i # j =>
       /\ artifacts[i].id # artifacts[j].id
       /\ ToSet(artifacts[i].pieces) \cap ToSet(artifacts[j].pieces) = {}
  /\ \A i \in DOMAIN artifacts : \A j, k \in DOMAIN artifacts[i].pieces :
       j < k => artifacts[i].pieces[j] < artifacts[i].pieces[k]

\* Every piece of content the executor got, in this turn and in those before it,
\* is in the task exactly once and in order: for a send when its turn is over, and
\* for a stream at any moment, but for the last piece, which the store may lack
\* while it is being written or when a cancel refused it, and which a subscriber
\* hears after the store has it.
ContentOnce ==
  /\ \E stored, told \in {given - 1, given} :
       /\ HoldsAll(stream.stored, stored) /\ HoldsAll(stream.told, told)
       /\ told <= stored
       /\ pump.writing = <<>> /\ stream.status # "canceled" => stored = given
       /\ pump.telling = <<>> => told = stored
  /\ send.status \in Finished => HoldsAll(send.stored, given)

\* The history a session can be replayed from: each call follows a text of the
\* agent, and has its result.
Replayable(events) ==
  \A i \in DOMAIN events : events[i].type = "toolCall" =>
    /\ i < Len(events) /\ events[i + 1].type = "toolResult"
    /\ \E j \in 1..(i - 1) :
         /\ events[j].type = "text" /\ events[j].role = "agent"
         /\ \A k \in (j + 1)..(i - 1) : events[k].type \in {"file", "data"}

\* Whatever tools were called, missing or failed, and whoever answered for the
\* model, the next request is one its vendor takes: each use of a tool is
\* followed at once by its result.
ToolsPaired ==
  agent.at = "model" /\ Replayable(SubSeq(session, 1, agent.history)) =>
    Paired(Request(host.provider, agent.contents))

\* Once its turn is aborted nothing an agent still yields, returns or throws is
\* recorded or taken, on either path.  The session may still get the user's text,
\* and the store and a subscriber what the executor had yielded by then: no new
\* update and no other status follows.
AbortTakesNoMore ==
  [][aborted /\ aborted' =>
       /\ session' \in {session, Append(session, UserText)} /\ given' = given
       /\ pump'.writing \in {pump.writing, <<>>} /\ pump'.ending \in {pump.ending, "none"}
       /\ stream'.stored # stream.stored => pump.writing # <<>> \/ pump.ending # "none"
       /\ stream'.told # stream.told => pump.telling # <<>>
       /\ send'.stored # send.stored => pump.ending # "none"
       /\ send'.status \in {send.status, "canceled", pump.ending}
       /\ stream'.status \in {stream.status, "canceled", pump.ending}]_vars
=============================================================================
