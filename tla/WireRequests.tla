------------------------------ MODULE WireRequests ------------------------------
(***************************************************************************)
(* A request of A2XClient on its way to a handler: the parameters the client   *)
(* writes for a protocol version, the HTTP request or the JSON-RPC call they   *)
(* become, and what the server reads.                                        *)
(*                                                                         *)
(* Parameters are functions from field names: records, where the fields are     *)
(* known.  A path is a sequence of segments and of the verbs of the route; an     *)
(* identifier is percent-encoded, so that no identifier contains a separator.   *)
(***************************************************************************)
EXTENDS Naturals, Sequences, FiniteSets, TLC

CONSTANT Absent   \* undefined: a field that is not there

SendOps == {"SEND_MESSAGE", "STREAM_MESSAGE"}
ConfigOps == {"GET_PUSH_CONFIG", "DELETE_PUSH_CONFIG"}
PushOps == ConfigOps \cup {"SET_PUSH_CONFIG", "LIST_PUSH_CONFIGS"}
StreamOps == {"STREAM_MESSAGE", "RESUBSCRIBE"}
Ops == SendOps \cup PushOps \cup
       {"GET_TASK", "LIST_TASKS", "CANCEL_TASK", "RESUBSCRIBE", "GET_EXTENDED_CARD"}

(* What a caller asks for.  A send registers a webhook if it gives a url.     *)
AskFor(op, task, config, url, schemes, limit, blocking) ==
  [op |-> op, task |-> task, config |-> config, url |-> url, schemes |-> schemes,
   limit |-> limit, blocking |-> blocking]

Blank == ""
None == <<>>
Has(p, f) == f \in DOMAIN p
Opt(f, v) == IF v = Absent THEN None ELSE [name \in {f} |-> v]
(* Two objects as one; the first gives the fields that both have.             *)
p ++ q == [f \in DOMAIN p \cup DOMAIN q |-> IF Has(p, f) THEN p[f] ELSE q[f]]
Without(p, fields) == [f \in DOMAIN p \ fields |-> p[f]]
Field(p, f) == IF Has(p, f) THEN p[f] ELSE Absent
Filled(p, f) == Has(p, f) /\ p[f] # Blank
-----------------------------------------------------------------------------
(* The client's parameters.                                                *)
Nested(q) ==
  [url |-> q.url] ++ Opt("id", q.config)
    ++ (IF q.schemes = None THEN None ELSE [authentication |-> [schemes |-> q.schemes]])

Flat(q) ==
  [url |-> q.url] ++ Opt("id", q.config)
    ++ (IF q.schemes = None THEN None ELSE [authentication |-> [scheme |-> q.schemes[1]]])

FormatParams(version, q) ==
  IF version = "1.0"
  THEN [message |-> [role |-> "ROLE_USER"],
        configuration |-> [returnImmediately |-> ~q.blocking]
          ++ (IF q.url = Absent THEN None
              ELSE [taskPushNotificationConfig |-> Flat(q) ++ [taskId |-> Blank]])]
  ELSE [message |-> [role |-> "user", kind |-> "message"],
        configuration |-> [blocking |-> q.blocking]
          ++ (IF q.url = Absent THEN None ELSE [pushNotificationConfig |-> Nested(q)])]

FormatPushConfig(version, q) ==
  [taskId |-> q.task]
    ++ (IF version = "0.3" THEN [pushNotificationConfig |-> Nested(q)] ELSE Flat(q))

ConfigParams(version, q) ==
  IF version # "0.3" THEN [taskId |-> q.task, id |-> q.config]
  ELSE [id |-> q.task]
         ++ (IF q.op = "GET_PUSH_CONFIG" /\ q.config = Blank THEN None
             ELSE Opt("pushNotificationConfigId", q.config))

ClientParams(version, q) ==
  CASE q.op \in SendOps -> FormatParams(version, q)
    [] q.op = "SET_PUSH_CONFIG" -> FormatPushConfig(version, q)
    [] q.op \in ConfigOps -> ConfigParams(version, q)
    [] q.op = "LIST_PUSH_CONFIGS" ->
         IF version = "0.3" THEN [id |-> q.task] ELSE [taskId |-> q.task]
    [] q.op \in {"CANCEL_TASK", "RESUBSCRIBE"} -> [id |-> q.task]
    [] q.op = "GET_TASK" -> [id |-> q.task] ++ Opt("historyLength", q.limit)
    [] q.op = "LIST_TASKS" -> Opt("historyLength", q.limit)
    [] OTHER -> None

WithServiceParams(version, tenant, p) ==
  IF version = "1.0" THEN Opt("tenant", tenant) ++ p ELSE p

(* Calls that the client refuses to make.                                  *)
ClientRefuses(version, q) ==
  CASE q.op = "LIST_TASKS" /\ version # "1.0" -> "VersionNotSupported"
    [] q.op = "GET_PUSH_CONFIG" /\ version = "1.0" /\ q.config \in {Absent, Blank} -> "InvalidParams"
    [] OTHER -> Absent
-----------------------------------------------------------------------------
(* HTTP+JSON: numbers and booleans are text in a query.                     *)
NumberFields == {"pageSize", "historyLength"}
BooleanFields == {"includeArtifacts"}
ASSUME TextAssumption == \A m, n \in 0..100 : ToString(m) = ToString(n) => m = n
TextOf(f, v) == IF f \in NumberFields \cup BooleanFields THEN ToString(v) ELSE v
NumberOf(text) == CHOOSE n \in 0..100 : ToString(n) = text
ValueOf(f, text) ==
  CASE f \in NumberFields -> NumberOf(text)
    [] f \in BooleanFields -> text = "TRUE"
    [] OTHER -> text
Query(p) == [f \in DOMAIN p |-> TextOf(f, p[f])]
QueryParams(query) == [f \in DOMAIN query |-> ValueOf(f, query[f])]

Http(method, path, query, body) ==
  [method |-> method, path |-> path, query |-> query, body |-> body]

(* Mutant: the id of the webhook, if it has one, for that of the task.        *)
PushPathById(p) ==
  <<"tasks", IF Has(p, "id") THEN p["id"] ELSE Field(p, "taskId"), "pushNotificationConfigs">>
PushPath(p) == <<"tasks", Field(p, "taskId"), "pushNotificationConfigs">>

BuildRestRequest(op, p) ==
  LET at == IF Filled(p, "tenant") THEN <<p["tenant"]>> ELSE <<>>
      r == Without(p, {"tenant"})
      Post(path) == Http("POST", at \o path, None, r)
      Get(path, named) == Http("GET", at \o path, Query(Without(r, named)), None)
  IN CASE op = "SEND_MESSAGE" -> Post(<<"message:send">>)
       [] op = "STREAM_MESSAGE" -> Post(<<"message:stream">>)
       [] op = "GET_TASK" -> Get(<<"tasks", p["id"]>>, {"id"})
       [] op = "LIST_TASKS" -> Get(<<"tasks">>, {})
       [] op = "CANCEL_TASK" -> Post(<<"tasks", p["id"], ":cancel">>)
       [] op = "RESUBSCRIBE" -> Post(<<"tasks", p["id"], ":subscribe">>)
       [] op = "SET_PUSH_CONFIG" -> Post(PushPath(p))
       [] op = "LIST_PUSH_CONFIGS" -> Get(PushPath(p), {"taskId"})
       [] op = "GET_PUSH_CONFIG" -> Get(Append(PushPath(p), p["id"]), {"taskId", "id"})
       [] op = "DELETE_PUSH_CONFIG" ->
            Http("DELETE", at \o Append(PushPath(p), p["id"]),
                 Query(Without(r, {"taskId", "id"})), None)
       [] OTHER -> Get(<<"extendedAgentCard">>, {})
-----------------------------------------------------------------------------
(* The server's routes.  Whatever is in the path wins over the body, and over  *)
(* the query except where the query is spread last.                           *)
RouteHeads == {"message:send", "message:stream", "tasks", "extendedAgentCard"}

SplitTenantPath(path) ==
  IF path[1] \in RouteHeads \/ Len(path) = 1 \/ path[2] \notin RouteHeads
  THEN [tenant |-> Absent, path |-> path]
  ELSE [tenant |-> path[1], path |-> Tail(path)]

NoRoute == [op |-> "none", params |-> None]

(* A star stands for an identifier, which is not empty.                      *)
Matches(path, segments) ==
  /\ Len(path) = Len(segments)
  /\ \A i \in 1..Len(path) : IF segments[i] = "*" THEN path[i] # Blank ELSE path[i] = segments[i]

(* The operation of a path, with the fields that its segments name.  The route  *)
(* of a task comes first, so that a GET takes a verb for a part of the id.      *)
Routed(method, path, query, body) ==
  LET In(segments) == Matches(path, segments)
      To(op, params) == [op |-> op, params |-> params]
      config == [taskId |-> path[2], id |-> path[4]] ++ query
  IN CASE method = "POST" /\ In(<<"message:send">>) -> To("SEND_MESSAGE", body)
       [] method = "POST" /\ In(<<"message:stream">>) -> To("STREAM_MESSAGE", body)
       [] method = "GET" /\ In(<<"tasks">>) -> To("LIST_TASKS", query)
       [] method = "GET" /\ In(<<"extendedAgentCard">>) -> To("GET_EXTENDED_CARD", query)
       [] method = "GET" /\ In(<<"tasks", "*">>) -> To("GET_TASK", query ++ [id |-> path[2]])
       [] method = "GET" /\ (In(<<"tasks", "*", ":cancel">>) \/ In(<<"tasks", "*", ":subscribe">>)) ->
            To("GET_TASK", query ++ [id |-> <<path[2], path[3]>>])
       [] method = "POST" /\ In(<<"tasks", "*", ":cancel">>) ->
            To("CANCEL_TASK", [id |-> path[2]] ++ body)
       [] method = "POST" /\ In(<<"tasks", "*", ":subscribe">>) ->
            To("RESUBSCRIBE", [id |-> path[2]] ++ body)
       [] method = "POST" /\ In(<<"tasks", "*", "pushNotificationConfigs">>) ->
            To("SET_PUSH_CONFIG", [taskId |-> path[2]] ++ body)
       [] method = "GET" /\ In(<<"tasks", "*", "pushNotificationConfigs">>) ->
            To("LIST_PUSH_CONFIGS", query ++ [taskId |-> path[2]])
       [] method = "GET" /\ In(<<"tasks", "*", "pushNotificationConfigs", "*">>) ->
            To("GET_PUSH_CONFIG", config)
       [] method = "DELETE" /\ In(<<"tasks", "*", "pushNotificationConfigs", "*">>) ->
            To("DELETE_PUSH_CONFIG", config)
       [] OTHER -> NoRoute

ResolveRoute(http) ==
  LET split == SplitTenantPath(http.path)
      route == Routed(http.method, split.path, QueryParams(http.query), http.body)
  IN IF route = NoRoute THEN NoRoute
     ELSE [route EXCEPT !.params = Opt("tenant", split.tenant) ++ @]

(* JSON-RPC: v1.0 renamed every method; a v1.0 server takes both spellings.   *)
Canonical(version, method) ==
  IF method.spelling = "1.0" /\ version # "1.0" THEN "none" ELSE method.op
-----------------------------------------------------------------------------
(* What the server's validation makes of the parameters.                     *)
Invalid == AskFor("invalid", Absent, Absent, Absent, None, Absent, Absent)

Schemes(version, source) ==
  IF ~Has(source, "authentication") THEN None
  ELSE IF version = "1.0" THEN <<source["authentication"]["scheme"]>>
       ELSE source["authentication"]["schemes"]

(* The other version's spelling of the authentication block is refused.       *)
Authenticated(version, source) ==
  Has(source, "authentication") =>
    Has(source["authentication"], IF version = "1.0" THEN "scheme" ELSE "schemes")

(* A send's inline configuration is normalised, and its fields not examined. *)
Inline(version, configuration) ==
  IF version = "1.0" /\ Has(configuration, "taskPushNotificationConfig")
  THEN LET flat == configuration["taskPushNotificationConfig"]
       IN [id |-> IF Has(flat, "id") THEN flat["id"] ELSE Blank, url |-> flat["url"],
           schemes |-> Schemes("1.0", flat)]
  ELSE IF Has(configuration, "pushNotificationConfig")
       THEN LET nested == configuration["pushNotificationConfig"]
            IN [id |-> Field(nested, "id"), url |-> nested["url"],
                schemes |-> Schemes("0.3", nested)]
       ELSE [id |-> Absent, url |-> Absent, schemes |-> None]

ValidateSend(version, op, p) ==
  LET c == p["configuration"]
      push == Inline(version, c)
  IN IF ~Has(p, "message") THEN Invalid
     ELSE AskFor(op, Absent, push.id, push.url, push.schemes, Absent,
              IF version = "1.0" /\ Has(c, "returnImmediately")
              THEN ~c["returnImmediately"] ELSE Field(c, "blocking") # FALSE)

ValidateTask(op, p) ==
  IF Filled(p, "id") THEN AskFor(op, p["id"], Absent, Absent, None, Field(p, "historyLength"), TRUE)
                     ELSE Invalid

ValidateSetPush(version, p) ==
  LET flat == version = "1.0" /\ Has(p, "url")
      source == IF flat THEN p ELSE p["pushNotificationConfig"]
  IN IF \/ ~Filled(p, "taskId")
        \/ ~flat /\ ~Has(p, "pushNotificationConfig")
        \/ ~Authenticated(version, source)
     THEN Invalid
     ELSE AskFor("SET_PUSH_CONFIG", p["taskId"],
              IF Filled(source, "id") THEN source["id"] ELSE Absent,
              source["url"], Schemes(version, source), Absent, TRUE)

ValidatePush(version, op, p) ==
  LET task == IF version = "0.3" THEN "id" ELSE "taskId"
      config == IF version = "0.3" THEN "pushNotificationConfigId" ELSE "id"
      optional == \/ op = "LIST_PUSH_CONFIGS"
                  \/ op = "GET_PUSH_CONFIG" /\ version = "0.3" /\ ~Has(p, config)
  IN IF ~Filled(p, task) \/ (~optional /\ ~Filled(p, config)) THEN Invalid
     ELSE AskFor(op, p[task], IF optional THEN Absent ELSE p[config], Absent, None, Absent, TRUE)

Validate(version, op, p) ==
  CASE op \in SendOps -> ValidateSend(version, op, p)
    [] op \in {"GET_TASK", "CANCEL_TASK", "RESUBSCRIBE"} -> ValidateTask(op, p)
    [] op = "SET_PUSH_CONFIG" -> ValidateSetPush(version, p)
    [] op \in ConfigOps \cup {"LIST_PUSH_CONFIGS"} -> ValidatePush(version, op, p)
    [] OTHER -> AskFor(op, Absent, Absent, Absent, None, Field(p, "historyLength"), TRUE)
=============================================================================
