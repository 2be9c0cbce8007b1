-------------------------------- MODULE Exchange --------------------------------
(***************************************************************************)
(* A2XClients that call an A2XServer: a client resolves a card, writes a       *)
(* request for the version and the binding it selected, and reads the answer     *)
(* of a server that may have been set up anew since.  The listener finds the    *)
(* operation, the request handler checks and serves it, against a store of      *)
(* tasks and a store of push notification configurations that outlive it.      *)
(*                                                                         *)
(* Executions are one step here: TaskExecution has their interleavings.        *)
(***************************************************************************)
EXTENDS WireReplies, SequencesExt

CONSTANTS
  Clients,
  TaskNames,   \* a sequence: the ids of the tasks, in the order they are made (a bound)
  Assigned,    \* a sequence: the ids that the server makes up for webhooks (a bound)
  Worlds,      \* a sequence: servers, one after the other, and each client's habits
  MaxCalls, MaxLosses

Listed(s) == s \in Seq({s[i] : i \in DOMAIN s})
ASSUME NamesAssumption == Listed(TaskNames)

(* A server speaks one version, over interfaces of either binding; no tenant has  *)
(* the name of a route.  A client prefers bindings in an order.                *)
ASSUME WorldsAssumption ==
  \A w \in DOMAIN Worlds : LET servers == Worlds[w].servers IN
    /\ Listed(servers) /\ servers # <<>>
    /\ \A i \in DOMAIN servers :
         /\ servers[i].version \in {"0.3", "1.0"}
         /\ Listed(servers[i].interfaces)
         /\ \A j \in DOMAIN servers[i].interfaces : LET interface == servers[i].interfaces[j] IN
              /\ DOMAIN interface = {"binding", "tenant"}
              /\ interface.binding \in {"JSONRPC", "HTTP+JSON"}
              /\ interface.tenant \notin RouteHeads
    /\ \A c \in Clients : Listed(Worlds[w].habits[c].prefers)

VARIABLES
  world,       \* one of them
  deployed,    \* the server of the world that runs
  cached,      \* the card that it rendered, if any
  client,      \* per client, what it made of the card
  call,        \* per client, its call under way or its last one
  tasks,       \* a sequence of tasks
  configs,     \* per task id, its webhooks in the order of their ids' first use
  notified,    \* the webhooks told of a task's end: <<task, url>>
  replaced,    \* the webhooks of a task that a later call deleted or replaced
  made, losses \* calls made, and answers or requests lost

vars == <<world, deployed, cached, client, call, tasks, configs, notified, replaced, made, losses>>
stores == <<tasks, configs, notified, replaced>>
setting == <<world, deployed, cached, client>>
budgets == <<made, losses>>

Cards == INSTANCE AgentCards
Server == world.servers[deployed]
Serves(binding) == \E i \in DOMAIN Server.interfaces : Server.interfaces[i].binding = binding
-----------------------------------------------------------------------------
(* Outcomes of a handler, and results of a client's call.                    *)
Value(v) == [kind |-> "value", value |-> v]
Fails(class) == [kind |-> "error", class |-> class]
Stream(events, error) == [kind |-> "stream", events |-> events, error |-> error]
Lost == [kind |-> "lost"]
Nonsense == [kind |-> "nonsense"]   \* a JSON-RPC error that an HTTP+JSON client takes for a result

NoCall ==
  [pc |-> "idle", asked |-> Absent, by |-> Absent, sent |-> Absent, served |-> Absent,
   task |-> 0, noted |-> Absent, outcome |-> Absent, spoke |-> Absent, reply |-> Absent,
   result |-> Absent, current |-> FALSE]

Unresolved == [version |-> "none"]

Init ==
  /\ \E i \in DOMAIN Worlds : world = Worlds[i]
  /\ deployed = 1 /\ cached = Absent
  /\ client = [c \in Clients |-> Unresolved]
  /\ call = [c \in Clients |-> NoCall]
  /\ tasks = <<>>
  /\ configs = [name \in {TaskNames[i] : i \in DOMAIN TaskNames} |-> <<>>]
  /\ notified = {} /\ replaced = {}
  /\ made = 0 /\ losses = 0

Number(name) ==
  IF \E n \in DOMAIN tasks : TaskNames[n] = name
  THEN CHOOSE n \in DOMAIN tasks : TaskNames[n] = name ELSE 0

TaskOf(n) == Task(TaskNames[n], tasks[n].state, tasks[n].artifacts)
-----------------------------------------------------------------------------
(* The client.                                                             *)

(* The card is rendered once, until the server is set up differently.        *)
GetAgentCard == IF cached = Absent THEN Cards!AgentCard(Server) ELSE cached

Resolve(c) ==
  LET habit == world.habits[c]
      selected == Cards!SelectAgentInterface(GetAgentCard, habit.prefers)
  IN /\ client[c] = Unresolved /\ selected # Cards!NoInterface
     /\ cached' = GetAgentCard
     /\ client' = [client EXCEPT ![c] =
          selected ++
          [presents |-> Cards!Credentials(GetAgentCard, habit.holds),
           activates |-> Cards!ActivateX402Extension(GetAgentCard, habit.activates, habit.seeded),
           of |-> deployed]]
     /\ UNCHANGED <<world, deployed, call, stores, budgets>>

Request(k, q) ==
  LET p == WithServiceParams(k.version, k.tenant, ClientParams(k.version, q))
  IN [binding |-> k.binding, version |-> k.version, presents |-> k.presents,
      activates |-> k.activates,
      pin |-> IF k.version = "1.0" THEN "1.0" ELSE Absent,
      body |-> IF k.binding = "HTTP+JSON" THEN BuildRestRequest(q.op, p)
               ELSE [method |-> [op |-> q.op, spelling |-> k.version], params |-> p]]

Ask(c) ==
  \E q \in world.habits[c].asks :
    LET k == client[c]
        unwilling == ClientRefuses(k.version, q)
        refused == IF k.presents = Cards!Unusable /\ unwilling # "VersionNotSupported"
                   THEN "UnsupportedOperation" ELSE unwilling
        new == [NoCall EXCEPT !.asked = q, !.by = [version |-> k.version, of |-> k.of]]
    IN /\ k # Unresolved /\ call[c].pc = "idle" /\ made < MaxCalls
       /\ made' = made + 1
       /\ call' = [call EXCEPT ![c] =
            IF refused = Absent THEN [new EXCEPT !.pc = "sent", !.sent = Request(k, q)]
            ELSE [new EXCEPT !.result = Fails(refused),
                             !.current = refused = "UnsupportedOperation" /\ k.of = deployed]]
       /\ UNCHANGED <<setting, stores, losses>>

(* A request or an answer gets lost, and the client gives up.                *)
Lose(c) ==
  /\ call[c].pc \in {"sent", "waiting", "answered"} /\ losses < MaxLosses
  /\ losses' = losses + 1
  /\ call' = [call EXCEPT ![c].pc = "idle", ![c].result = Lost]
  /\ UNCHANGED <<setting, stores, made>>
-----------------------------------------------------------------------------
(* The answer of a handler, in the server's version and the request's binding. *)
Written(binding, op, o) ==
  LET version == Server.version
      body == CASE op = "LIST_TASKS" -> [i \in DOMAIN o.value |-> MapTask(version, o.value[i])]
                [] op \in {"SET_PUSH_CONFIG", "GET_PUSH_CONFIG"} ->
                     MapPushNotificationConfig(version, o.value.task, o.value.config)
                [] op = "LIST_PUSH_CONFIGS" ->
                     MapPushNotificationConfigList(version, o.value.task, o.value.configs)
                [] op = "DELETE_PUSH_CONFIG" -> None
                [] op = "GET_EXTENDED_CARD" -> o.value
                [] OTHER -> MapTask(version, o.value)
  IN CASE o.kind = "error" ->
            "error" :> (IF binding = "JSONRPC" THEN RpcError(o.class) ELSE RestError(o.class))
       [] o.kind = "stream" ->
            "frames" :> (Frames(binding, [i \in DOMAIN o.events |->
                            IF Has(o.events[i], "artifacts") THEN MapTask(version, o.events[i])
                                                             ELSE MapEvent(version, o.events[i])])
                         \o IF o.error = Absent THEN <<>>
                            ELSE <<Envelope(StreamCode(binding, o.error))>>)
       [] OTHER -> "body" :> (IF binding = "HTTP+JSON" /\ op = "SEND_MESSAGE"
                              THEN "task" :> body ELSE body)

Answered(k, o) ==
  [k EXCEPT !.pc = "answered", !.outcome = o, !.spoke = Server.version,
            !.reply = Written(k.sent.binding, k.asked.op, o)]

(* What the listener makes of a request: an operation and its parameters. One  *)
(* that no route takes falls to JSON-RPC if it is a POST, which is no JSON-RPC. *)
Heard(sent) ==
  IF sent.binding = "JSONRPC"
  THEN IF Serves("JSONRPC")
       THEN [op |-> Canonical(Server.version, sent.body.method), params |-> sent.body.params]
       ELSE NoRoute
  ELSE IF Serves("HTTP+JSON") THEN ResolveRoute(sent.body) ELSE NoRoute

Unheard(sent) ==
  IF sent.binding = "HTTP+JSON" /\ sent.body.method = "POST" /\ Serves("JSONRPC")
  THEN "rpcError" :> "InvalidRequest" ELSE "error" :> [status |-> 404, code |-> 404, reason |-> Bare]

(* Why an operation is refused before it is served, in the handler's order.    *)
Refusal(sent, heard) ==
  IF sent.pin \notin {Absent, Server.version} THEN "VersionNotSupported"
  ELSE IF heard.op = "LIST_TASKS" /\ Server.version # "1.0" THEN "MethodNotFound"
  ELSE IF ~Cards!Authenticate(Server, sent.presents)
       THEN IF heard.op \in SendOps THEN "AuthRequired" ELSE "InvalidRequest"
  ELSE IF Cards!ExtensionsMissing(Server, sent.activates) # {} THEN "InvalidRequest"
  ELSE IF heard.op = "GET_EXTENDED_CARD" /\ ~Server.provider
       THEN "AuthenticatedExtendedCardNotConfigured"
  ELSE IF heard.op = "GET_EXTENDED_CARD" /\ Server.requirements = <<>> THEN "InvalidRequest"
  ELSE IF Validate(Server.version, heard.op, heard.params) = Invalid THEN "InvalidParams"
  ELSE Absent

(* A task that only exists in the answer asks for credentials.               *)
AuthRequired(sent, op) ==
  LET task == Task("unauthenticated", "auth-required", <<>>)
  IN IF op = "SEND_MESSAGE" THEN Value(task)
     ELSE Stream(<<IF sent.binding = "HTTP+JSON" THEN task
                   ELSE StatusEvent(task.id, task.state, TRUE)>>, Absent)

Arrive(c) ==
  LET k == [call[c] EXCEPT !.current = call[c].by.of = deployed]
      heard == Heard(k.sent)
      refusal == Refusal(k.sent, heard)
  IN /\ call[c].pc = "sent"
     /\ call' = [call EXCEPT ![c] =
          CASE heard = NoRoute ->
                 [k EXCEPT !.pc = "answered", !.spoke = Server.version, !.reply = Unheard(k.sent)]
            [] heard # NoRoute /\ refusal = "AuthRequired" ->
                 Answered(k, AuthRequired(k.sent, heard.op))
            [] heard # NoRoute /\ refusal \notin {"AuthRequired", Absent} ->
                 Answered(k, Fails(refusal))
            [] OTHER ->
                 [k EXCEPT !.pc = "serving",
                           !.served = Validate(Server.version, heard.op, heard.params)]]
     /\ UNCHANGED <<setting, stores, budgets>>
-----------------------------------------------------------------------------
(* Handlers that answer at once.                                           *)
Serving(c, op) == call[c].pc = "serving" /\ call[c].served.op = op

Answer(c, o) ==
  /\ call' = [call EXCEPT ![c] = Answered(@, o)]
  /\ UNCHANGED <<setting, budgets>>

GetTask(c) ==
  LET n == Number(call[c].served.task)
  IN /\ Serving(c, "GET_TASK")
     /\ Answer(c, IF n = 0 THEN Fails("TaskNotFound") ELSE Value(TaskOf(n)))
     /\ UNCHANGED stores

(* A list leaves the artifacts out.                                         *)
ListTasks(c) ==
  /\ Serving(c, "LIST_TASKS")
  /\ Answer(c, Value([n \in DOMAIN tasks |-> [TaskOf(n) EXCEPT !.artifacts = <<>>]]))
  /\ UNCHANGED stores

CancelTask(c) ==
  LET n == Number(call[c].served.task)
      refusal == IF n = 0 THEN "TaskNotFound" ELSE "TaskNotCancelable"
  IN /\ Serving(c, "CANCEL_TASK")
     /\ IF n # 0 /\ tasks[n].state \notin Terminal
        THEN /\ tasks' = [tasks EXCEPT ![n].state = "canceled"]
             /\ Answer(c, Value([TaskOf(n) EXCEPT !.state = "canceled"]))
        ELSE Answer(c, Fails(refusal)) /\ UNCHANGED tasks
     /\ UNCHANGED <<configs, notified, replaced>>

(* The provider lays what it likes over the setup: here, nothing.           *)
GetExtendedCard(c) ==
  /\ Serving(c, "GET_EXTENDED_CARD")
  /\ Answer(c, Value(Cards!AgentCard(Server)))
  /\ UNCHANGED stores
-----------------------------------------------------------------------------
(* The push notification methods.  Nobody asks whether the task exists.        *)
Indices(name, id) == {i \in DOMAIN configs[name] : configs[name][i].id = id}
Webhooks(name) == {configs[name][i].url : i \in DOMAIN configs[name]}

(* A map keeps the place of an id that it holds.                            *)
(* Mutants: a task keeps one webhook; a webhook is added, whatever its id.      *)
PutAlone(name, config) ==
  /\ configs' = [configs EXCEPT ![name] = <<config>>]
  /\ replaced' = replaced \cup {<<name, configs[name][i].url>> : i \in Indices(name, config.id)}
PutAgain(name, config) ==
  configs' = [configs EXCEPT ![name] = Append(@, config)] /\ UNCHANGED replaced
Put(name, config) ==
  LET held == Indices(name, config.id)
  IN /\ configs' = [configs EXCEPT ![name] =
          IF held = {} THEN Append(@, config)
          ELSE [i \in DOMAIN @ |-> IF i \in held THEN config ELSE @[i]]]
     /\ replaced' = replaced \cup
          ({<<name, configs[name][i].url>> : i \in held} \ {<<name, config.url>>})

(* randomUUID: an id that nothing has.                                      *)
Unused(id) == \A name \in DOMAIN configs : Indices(name, id) = {}
Fresh == Assigned[CHOOSE i \in DOMAIN Assigned : Unused(Assigned[i])]
IdFor(q) == IF q.config = Absent THEN Fresh ELSE q.config
IdToSpare(q) == q.config = Absent => \E i \in DOMAIN Assigned : Unused(Assigned[i])

Found(webhooks) == [kind |-> "found", webhooks |-> webhooks]
Failed(kind) == [kind |-> kind, webhooks |-> {}]
Webhook(name, config) == [task |-> name, id |-> config.id, url |-> config.url]

AnswerPush(c, o, noted) ==
  /\ call' = [call EXCEPT ![c] = [Answered(@, o) EXCEPT !.noted = noted]]
  /\ UNCHANGED <<setting, budgets, tasks, notified>>

NoStore(c) ==
  /\ call[c].pc = "serving" /\ call[c].served.op \in PushOps /\ ~Server.store
  /\ AnswerPush(c, Fails("PushNotificationNotSupported"), Failed("refused"))
  /\ UNCHANGED <<configs, replaced>>

SetPushConfig(c) ==
  LET q == call[c].served
      config == Config(IdFor(q), q.url, q.schemes)
  IN /\ Serving(c, "SET_PUSH_CONFIG") /\ Server.store /\ IdToSpare(q)
     /\ Put(q.task, config)
     /\ AnswerPush(c, Value([task |-> q.task, config |-> config]),
                   Found({Webhook(q.task, config)}))

(* Without an id, the first one.                                            *)
GetPushConfig(c) ==
  LET q == call[c].served
      meant == IF q.config # Absent THEN Indices(q.task, q.config)
               ELSE IF configs[q.task] = <<>> THEN {} ELSE {1}
  IN /\ Serving(c, "GET_PUSH_CONFIG") /\ Server.store
     /\ IF meant = {} THEN AnswerPush(c, Fails("TaskNotFound"), Failed("missing"))
        ELSE \E i \in meant :
               AnswerPush(c, Value([task |-> q.task, config |-> configs[q.task][i]]),
                          Found({Webhook(q.task, configs[q.task][i])}))
     /\ UNCHANGED <<configs, replaced>>

ListPushConfigs(c) ==
  LET name == call[c].served.task
  IN /\ Serving(c, "LIST_PUSH_CONFIGS") /\ Server.store
     /\ AnswerPush(c, Value([task |-> name, configs |-> configs[name]]),
                   Found({Webhook(name, configs[name][i]) : i \in DOMAIN configs[name]}))
     /\ UNCHANGED <<configs, replaced>>

DeletePushConfig(c) ==
  LET q == call[c].served
      held == Indices(q.task, q.config)
  IN /\ Serving(c, "DELETE_PUSH_CONFIG") /\ Server.store
     /\ configs' = [configs EXCEPT ![q.task] =
          IF held = {} THEN @ ELSE RemoveAt(@, CHOOSE i \in held : TRUE)]
     /\ replaced' = replaced \cup {<<q.task, configs[q.task][i].url>> : i \in held}
     /\ IF held = {} THEN AnswerPush(c, Fails("TaskNotFound"), Failed("missing"))
        ELSE AnswerPush(c, Value("null"), Found({}))
-----------------------------------------------------------------------------
(* A send makes a task, registers its webhook, and then starts the execution. *)
CreateTask(c) ==
  /\ call[c].pc = "serving" /\ call[c].served.op \in SendOps
  /\ IF call[c].served.op = "STREAM_MESSAGE" /\ ~Server.streams
     THEN Answer(c, Stream(<<>>, "UnsupportedOperation")) /\ UNCHANGED tasks
     ELSE /\ Len(tasks) < Len(TaskNames)
          /\ tasks' = Append(tasks, [state |-> "submitted", running |-> FALSE, shared |-> "no",
                                     artifacts |-> <<>>, webhook |-> Absent, ended |-> FALSE])
          /\ call' = [call EXCEPT ![c].pc = "created", ![c].task = Len(tasks) + 1]
          /\ UNCHANGED <<setting, budgets>>
  /\ UNCHANGED <<configs, notified, replaced>>

FailsSend(k, class) ==
  IF k.served.op = "STREAM_MESSAGE" THEN Stream(<<>>, class) ELSE Fails(class)

(* An id that is empty is taken as it is, and the store refuses it.           *)
RegisterInlinePushConfig(c) ==
  LET k == call[c]
      q == k.served
      name == TaskNames[k.task]
      config == Config(IdFor(q), q.url, q.schemes)
      Refuse(class) ==
        /\ call' = [call EXCEPT ![c] =
             [Answered(@, FailsSend(@, class)) EXCEPT !.noted = Failed("refused")]]
        /\ UNCHANGED <<stores, setting, budgets>>
  IN /\ k.pc = "created"
     /\ CASE q.url = Absent ->
               /\ call' = [call EXCEPT ![c].pc = "registered"]
               /\ UNCHANGED <<stores, setting, budgets>>
          [] q.url # Absent /\ ~Server.store -> Refuse("PushNotificationNotSupported")
          [] q.url # Absent /\ Server.store /\ q.config = Blank -> Refuse("Internal")
          [] OTHER ->
               /\ IdToSpare(q)
               /\ Put(name, config)
               /\ tasks' = [tasks EXCEPT ![k.task].webhook = q.url]
               /\ call' = [call EXCEPT ![c].pc = "registered",
                                       ![c].noted = Found({Webhook(name, config)})]
               /\ UNCHANGED <<setting, budgets, notified>>

(* A task that was canceled meanwhile is not executed; one sent without        *)
(* blocking is answered before.                                             *)
StartExecution(c) ==
  LET k == call[c]
      n == k.task
      streams == k.served.op = "STREAM_MESSAGE"
  IN /\ k.pc = "registered"
     /\ IF tasks[n].state \in Terminal /\ ~streams
        THEN Answer(c, Value(TaskOf(n))) /\ UNCHANGED tasks
        ELSE /\ tasks' = [tasks EXCEPT ![n].running = TRUE,
                  ![n].state = IF @ \in Terminal THEN @ ELSE "working",
                  ![n].shared = CASE streams -> "stream" [] k.served.blocking -> "no"
                                  [] OTHER -> "detached"]
             /\ IF streams \/ k.served.blocking
                THEN /\ call' = [call EXCEPT ![c].pc = "waiting"]
                     /\ UNCHANGED <<setting, budgets>>
                ELSE Answer(c, Value(Task(TaskNames[n], "working", <<>>)))
     /\ UNCHANGED <<configs, notified, replaced>>

(* A task that is not followed here is shown as it ended, or not at all.      *)
Resubscribe(c) ==
  LET n == Number(call[c].served.task)
  IN /\ Serving(c, "RESUBSCRIBE")
     /\ CASE n = 0 -> Answer(c, Stream(<<>>, "TaskNotFound"))
          [] n # 0 /\ tasks[n].state \in Terminal ->
               Answer(c, Stream(<<StatusEvent(TaskNames[n], tasks[n].state, TRUE)>>, Absent))
          [] n # 0 /\ tasks[n].state \notin Terminal
               /\ ~(tasks[n].running /\ tasks[n].shared # "no") ->
               Answer(c, Stream(<<>>, "Internal"))
          [] OTHER -> /\ call' = [call EXCEPT ![c].pc = "waiting", ![c].task = n]
                      /\ UNCHANGED <<setting, budgets>>
     /\ UNCHANGED stores

(* What a call that waited for a task is told when it ends.                  *)
Ending(k, task) ==
  LET name == TaskNames[k.task]
      done == StatusEvent(name, task.state, TRUE)
      news == IF task.shared = "detached" \/ task.artifacts = <<>> THEN <<done>>
              ELSE <<ArtifactEvent(name, task.artifacts[1]), done>>
  IN CASE k.served.op = "SEND_MESSAGE" -> Value(Task(name, task.state, task.artifacts))
       [] k.served.op = "RESUBSCRIBE" -> Stream(news, Absent)
       [] OTHER ->
            Stream((IF k.sent.binding = "HTTP+JSON"
                    THEN <<Task(name, "submitted", <<>>)>> ELSE <<>>)
                   \o (IF task.artifacts = <<>> THEN <<>>
                       ELSE <<StatusEvent(name, "working", FALSE)>>) \o news, Absent)

(* The execution ends, the webhooks that the task has now are told, and so are *)
(* the calls that wait.                                                     *)
Finish(n) ==
  LET canceled == tasks[n].state = "canceled"
      task == [tasks[n] EXCEPT !.running = FALSE, !.ended = TRUE,
                 !.state = IF canceled THEN "canceled" ELSE "completed",
                 !.artifacts = IF canceled THEN <<>> ELSE Server.produces]
  IN /\ tasks[n].running
     /\ tasks' = [tasks EXCEPT ![n] = task]
     /\ notified' = notified \cup {<<TaskNames[n], url>> : url \in Webhooks(TaskNames[n])}
     /\ call' = [c \in Clients |->
          IF call[c].pc = "waiting" /\ call[c].task = n
          THEN Answered(call[c], Ending(call[c], task)) ELSE call[c]]
     /\ UNCHANGED <<setting, configs, replaced, budgets>>
-----------------------------------------------------------------------------
(* What the client reads.                                                  *)
Read(k) ==
  LET version == k.by.version
      op == k.asked.op
      body == k.reply["body"]
      task == IF op = "SEND_MESSAGE" /\ Has(body, "task") THEN body["task"] ELSE body
  IN CASE Has(k.reply, "error") ->
            Fails(IF k.sent.binding = "JSONRPC" THEN RpcClass(k.reply["error"])
                                                ELSE RestClass(k.reply["error"]))
       [] Has(k.reply, "frames") ->
            LET read == ParseSSEStream(version, k.reply["frames"])
            IN Stream(read.events, read.error)
       [] Has(k.reply, "rpcError") -> Nonsense
       [] OTHER ->
            Value(CASE op \in {"SEND_MESSAGE", "GET_TASK", "CANCEL_TASK"} -> ParseTask(version, task)
                    [] op = "LIST_TASKS" -> [i \in DOMAIN body |-> ParseTask(version, body[i])]
                    [] op \in {"SET_PUSH_CONFIG", "GET_PUSH_CONFIG"} ->
                         [task |-> body["taskId"], config |-> ParsePushConfig(body)]
                    [] op = "LIST_PUSH_CONFIGS" ->
                         [task |-> k.asked.task, configs |-> ParsePushConfigList(body)]
                    [] op = "DELETE_PUSH_CONFIG" -> "null"
                    [] OTHER -> body)

Receive(c) ==
  /\ call[c].pc = "answered"
  /\ call' = [call EXCEPT ![c].pc = "idle", ![c].result = Read(call[c])]
  /\ UNCHANGED <<setting, stores, budgets>>
-----------------------------------------------------------------------------
(* The server is set up differently: by its builder, or as a new process, which *)
(* ends what the old one was serving and executing.                          *)
Reconfigure ==
  /\ deployed < Len(world.servers) /\ world.servers[deployed + 1].version = Server.version
  /\ deployed' = deployed + 1
  /\ cached' = Absent
  /\ UNCHANGED <<world, client, call, stores, budgets>>

Redeploy ==
  /\ deployed < Len(world.servers) /\ world.servers[deployed + 1].version # Server.version
  /\ deployed' = deployed + 1
  /\ cached' = Absent
  /\ tasks' = [n \in DOMAIN tasks |-> [tasks[n] EXCEPT !.running = FALSE]]
  /\ call' = [c \in Clients |->
       IF call[c].pc \in {"idle", "sent", "answered"} THEN call[c]
       ELSE [call[c] EXCEPT !.pc = "idle", !.result = Lost]]
  /\ UNCHANGED <<world, client, configs, notified, replaced, budgets>>

Serve(c) ==
  \/ GetTask(c) \/ ListTasks(c) \/ CancelTask(c) \/ GetExtendedCard(c)
  \/ NoStore(c) \/ SetPushConfig(c) \/ GetPushConfig(c) \/ ListPushConfigs(c)
  \/ DeletePushConfig(c) \/ Resubscribe(c)
  \/ CreateTask(c) \/ RegisterInlinePushConfig(c) \/ StartExecution(c)

Next ==
  \/ \E c \in Clients :
       Resolve(c) \/ Ask(c) \/ Arrive(c) \/ Serve(c) \/ Lose(c) \/ Receive(c)
  \/ \E n \in DOMAIN tasks : Finish(n)
  \/ Reconfigure \/ Redeploy

Spec == Init /\ [][Next]_vars
-----------------------------------------------------------------------------
(* A request that the server executes is the one that the client asked for,    *)
(* whatever version and binding it travelled in, also when the server has been  *)
(* set up in another version since the client read its card: v1.0 keeps the first *)
(* scheme of a webhook, and an empty id is none, except of one to delete.       *)
ServedAsAsked ==
  \A c \in Clients :
    LET k == call[c]
        schemes == IF k.by.version = "1.0" /\ k.asked.schemes # None
                   THEN <<k.asked.schemes[1]>> ELSE k.asked.schemes
    IN k.pc \in {"serving", "created", "registered", "waiting"} =>
         /\ k.served = [k.asked EXCEPT !.config = k.served.config, !.schemes = schemes]
         /\ \/ k.served.config = k.asked.config
            \/ /\ {k.served.config, k.asked.config} = {Blank, Absent}
               /\ k.asked.op # "DELETE_PUSH_CONFIG"

(* What a v0.3 card cannot say, and what a v1.0 one leaves out.               *)
ShownArtifact(version, a) ==
  [a EXCEPT !.name = IF version = "0.3" /\ @ = Absent THEN "response" ELSE @]
ShownTask(version, t) ==
  [t EXCEPT !.artifacts = [i \in DOMAIN @ |-> ShownArtifact(version, @[i])]]
ShownConfig(version, w) ==
  [w EXCEPT !.schemes = IF version = "1.0" /\ @ # None THEN <<@[1]>> ELSE @]
ShownEvent(version, e) ==
  CASE Has(e, "artifacts") -> StatusEvent(e.id, e.state, Absent)
    [] Has(e, "artifact") -> [e EXCEPT !.artifact = ShownArtifact(version, @)]
    [] OTHER -> [e EXCEPT !.final = IF version = "1.0" THEN Absent ELSE @]

Shown(version, op, v) ==
  CASE op \in {"SEND_MESSAGE", "GET_TASK", "CANCEL_TASK"} -> ShownTask(version, v)
    [] op = "LIST_TASKS" -> [i \in DOMAIN v |-> ShownTask(version, v[i])]
    [] op \in {"SET_PUSH_CONFIG", "GET_PUSH_CONFIG"} ->
         [v EXCEPT !.config = ShownConfig(version, @)]
    [] op = "LIST_PUSH_CONFIGS" ->
         [v EXCEPT !.configs = [i \in DOMAIN @ |-> ShownConfig(version, @[i])]]
    [] OTHER -> v

(* A client reads what the handler answered, value, error or stream, through    *)
(* either binding, unless the server has changed its version in between: a v0.3  *)
(* client names no version, so a v1.0 server answers it in v1.0.               *)
AnswersUnderstood ==
  \A c \in Clients :
    LET k == call[c]
        o == k.outcome
        r == k.result
        version == k.by.version
    IN (k.pc = "idle" /\ r # Absent /\ r # Lost /\ o # Absent /\ version = k.spoke) =>
         /\ r.kind = o.kind
         /\ o.kind = "error" => r.class = o.class
         /\ o.kind = "value" => r.value = Shown(version, k.asked.op, o.value)
         /\ o.kind = "stream" =>
              /\ r.events = [i \in DOMAIN o.events |-> ShownEvent(version, o.events[i])]
              /\ (r.error = Absent) = (o.error = Absent)

(* The holder of the credentials and the extensions that a server asks for.    *)
Entitled(c) ==
  LET server == world.servers[call[c].by.of]
  IN /\ Cards!Holds(server, world.habits[c].holds)
     /\ Cards!ExtensionsMissing(server, world.habits[c].activates) = {}

(* A client that acts on the server's present card, holds its credentials and   *)
(* speaks its extensions is never told that its request makes no sense, lacks    *)
(* credentials, or goes to the wrong place, and never refuses to make it: what   *)
(* it normalises the card's schemes to are credentials that the server takes.    *)
NoneMisunderstood ==
  \A c \in Clients :
    LET k == call[c]
        r == k.result
        about == IF k.asked.op = "GET_EXTENDED_CARD" THEN {} ELSE {"InvalidRequest"}
    IN (k.pc = "idle" /\ k.current /\ Entitled(c)) =>
         /\ r # Nonsense
         /\ r.kind = "error" =>
              r.class \notin about \cup {"InvalidParams", "MethodNotFound", "JSONParse",
                                        "VersionNotSupported", "UnsupportedOperation"}
         /\ r.kind = "value" /\ k.asked.op = "SEND_MESSAGE" => r.value.state # "auth-required"

(* A webhook given along with a message hears of the end of the execution,      *)
(* unless a later call deleted or replaced it.                               *)
InlineConfigHears ==
  \A n \in DOMAIN tasks :
    (tasks[n].ended /\ tasks[n].webhook # Absent) =>
      <<TaskNames[n], tasks[n].webhook>> \in notified \cup replaced

(* A webhook given along with a message is accepted: its id is optional, the    *)
(* server makes one up.                                                     *)
InlineConfigAccepted ==
  \A c \in Clients :
    LET k == call[c]
    IN (k.outcome # Absent /\ k.asked.op = "SEND_MESSAGE" /\ k.asked.url # Absent
          /\ k.served # Absent /\ k.outcome.kind = "error") =>
         k.outcome.class = "PushNotificationNotSupported"
-----------------------------------------------------------------------------
PushOpOf(op) ==
  CASE op = "GET_PUSH_CONFIG" -> "get"
    [] op = "LIST_PUSH_CONFIGS" -> "list"
    [] op = "DELETE_PUSH_CONFIG" -> "delete"
    [] op \in SendOps \cup {"SET_PUSH_CONFIG"} -> "set"

IsPush(q) == q.op \in PushOps \/ (q.op \in SendOps /\ q.url # Absent)

PushRequest(q) ==
  [op |-> PushOpOf(q.op), task |-> q.task, url |-> q.url,
   config |-> IF q.config = Blank THEN Absent ELSE q.config]

Pending(c) ==
  IF call[c].pc = "idle" THEN Absent
  ELSE IF IsPush(call[c].asked) THEN PushRequest(call[c].asked) ELSE Absent

AllAsks == UNION {Worlds[w].habits[c].asks : w \in DOMAIN Worlds, c \in Clients}

(* What a method of the client takes: the rest of AskFor is not there.        *)
Given(q) ==
  CASE q.op \in SendOps -> AskFor(q.op, Absent, q.config, q.url, q.schemes, Absent, q.blocking)
    [] q.op = "SET_PUSH_CONFIG" ->
         AskFor(q.op, q.task, q.config, q.url, q.schemes, Absent, TRUE)
    [] q.op \in ConfigOps -> AskFor(q.op, q.task, q.config, Absent, None, Absent, TRUE)
    [] q.op = "GET_TASK" -> AskFor(q.op, q.task, Absent, Absent, None, q.limit, TRUE)
    [] q.op = "LIST_TASKS" -> AskFor(q.op, Absent, Absent, Absent, None, q.limit, TRUE)
    [] q.op = "GET_EXTENDED_CARD" -> AskFor(q.op, Absent, Absent, Absent, None, Absent, TRUE)
    [] OTHER -> AskFor(q.op, q.task, Absent, Absent, None, Absent, TRUE)

(* What is not there is none of the texts.                                   *)
ASSUME AsksAssumption ==
  /\ Absent \notin Classes \cup {"AuthRequired", "1.0", Blank}
  /\ \A q \in AllAsks :
       /\ q.op \in Ops /\ q = Given(q)
       /\ q.limit \in {Absent} \cup 0..100 /\ q.blocking \in BOOLEAN
       /\ q.op \in SendOps /\ q.url = Absent => q.config = Absent /\ q.schemes = None
       /\ q.op = "DELETE_PUSH_CONFIG" => q.config # Absent
       /\ q.op \in PushOps => q.task \in {TaskNames[i] : i \in DOMAIN TaskNames}
       /\ IsPush(q) => PushRequest(q) # Absent

Registry == INSTANCE PushRegistry WITH
  registry <- UNION {{Webhook(name, configs[name][i]) : i \in DOMAIN configs[name]} :
                       name \in DOMAIN configs},
  pending <- [c \in Clients |-> Pending(c)],
  answer <- [c \in Clients |-> IF call[c].pc = "idle" THEN Absent ELSE call[c].noted],
  TaskIds <- {TaskNames[i] : i \in DOMAIN TaskNames},
  ConfigIds <- {Assigned[i] : i \in DOMAIN Assigned} \cup {q.config : q \in AllAsks},
  Requests <- {PushRequest(q) : q \in {q \in AllAsks : IsPush(q)}},
  None <- Absent

(* The push notification methods are one registry: each call reads or changes it *)
(* at one instant, whatever versions and bindings its callers speak, a webhook   *)
(* without an id gets one that no other has, and a lost call happened or did not. *)
RegistryKept == Registry!Spec
=============================================================================
