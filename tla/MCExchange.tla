------------------------------ MODULE MCExchange ------------------------------
(* Instances of Exchange for TLC. *)
EXTENDS Exchange

CONSTANTS c1, c2

MCTaskNames == <<"t1", "t2", "t3">>
MCAssigned == <<"id1", "id2", "id3">>

Send(op, config, url, schemes, blocking) ==
  AskFor(op, Absent, config, url, schemes, Absent, blocking)
OfTask(op, limit) == AskFor(op, "t1", Absent, Absent, None, limit, TRUE)
OfConfig(op, config) == AskFor(op, "t1", config, Absent, None, Absent, TRUE)

Plain == Send("SEND_MESSAGE", Absent, Absent, None, TRUE)
Named == Send("SEND_MESSAGE", "k1", "w1", <<"Bearer", "Basic">>, FALSE)
Unnamed == Send("SEND_MESSAGE", Absent, "w2", None, TRUE)
Followed == Send("STREAM_MESSAGE", "t1", "w1", None, TRUE)
SetNamed == AskFor("SET_PUSH_CONFIG", "t1", "k1", "w3", <<"Basic">>, Absent, TRUE)
SetUnnamed == AskFor("SET_PUSH_CONFIG", "t1", Absent, "w4", None, Absent, TRUE)
ListOfTasks == AskFor("LIST_TASKS", Absent, Absent, Absent, None, 1, TRUE)
Card == AskFor("GET_EXTENDED_CARD", Absent, Absent, Absent, None, Absent, TRUE)

TaskAsks == { OfTask("GET_TASK", 2), OfTask("CANCEL_TASK", Absent), OfTask("RESUBSCRIBE", Absent) }
PushAsks == { SetNamed, SetUnnamed, OfConfig("GET_PUSH_CONFIG", "k1"),
              OfConfig("GET_PUSH_CONFIG", Absent), OfConfig("LIST_PUSH_CONFIGS", Absent),
              OfConfig("DELETE_PUSH_CONFIG", "k1") }

Interface(binding, tenant) == [binding |-> binding, tenant |-> tenant]
Setup(version, interfaces, schemes, requirements, extensions, full, part) ==
  [version |-> version, interfaces |-> interfaces,
   schemes |-> schemes, requirements |-> requirements,
   extensions |-> extensions, store |-> full, streams |-> full, provider |-> full,
   produces |-> <<[id |-> "a1", name |-> Absent, part |-> part]>>]

Rpc == Interface("JSONRPC", Absent)
Rest(tenant) == Interface("HTTP+JSON", tenant)
File == "url" :> "file"
Text == "text" :> "words"

Needs(name, scopes) == [scheme |-> name, scopes |-> scopes]
QueryKey == Cards!ApiKey("query", "key")
HeaderKey == Cards!ApiKey("header", "x-key")
KeyFor(d) == Cards!Token("apiKey", Cards!SlotOf(d), {})
TokenFor(class, scopes) == Cards!Token(class, Cards!Authorization, scopes)
Login == TokenFor("clientCredentials", {"read"})

\* A token and a login cannot be sent together; a login has two flows.
ManySchemes ==
  ("key" :> HeaderKey) @@ ("token" :> Cards!Http("bearer")) @@
  ("login" :> Cards!OAuth2({"deviceCode", "clientCredentials"}))
ManyRequirements ==
  << <<Needs("login", {"read"}), Needs("token", {})>>,
     <<Needs("key", {}), Needs("login", {"read"})>>,
     <<Needs("login", {"read"})>> >>
KeySchemes == ("cert" :> Cards!MutualTls) @@ ("key" :> QueryKey)
KeyRequirements == << <<Needs("cert", {})>>, <<Needs("key", {})>> >>
OidcSchemes == "oidc" :> Cards!OpenIdConnect
OidcRequirements == << <<Needs("oidc", {"read"})>> >>
CertSchemes == ("cert" :> Cards!MutualTls) @@ ("user" :> Cards!Http("basic"))
CertRequirements == << <<Needs("cert", {})>> >>
UserRequirements == Append(CertRequirements, <<Needs("user", {})>>)

Habit(prefers, holds, activates, asks) ==
  [asks |-> asks, prefers |-> prefers, holds |-> holds, activates |-> activates, seeded |-> TRUE]
Both == <<"JSONRPC", "HTTP+JSON">>
RestFirst == <<"HTTP+JSON", "JSONRPC">>

History(servers, habit1, habit2) ==
  [servers |-> servers, habits |-> (c1 :> habit1) @@ (c2 :> habit2)]

MCWorlds ==
  << \* both bindings, then the builder adds requirements and an extension
     History(<<Setup("1.0", <<Rpc, Rest("acme")>>, <<>>, <<>>, <<>>, TRUE, File),
               Setup("1.0", <<Rpc, Rest("acme")>>, ManySchemes, ManyRequirements,
                     ("x402-foundation" :> TRUE), TRUE, File)>>,
             Habit(Both, {Login}, {"x402-v0.2"}, {Named, Followed, ListOfTasks}),
             Habit(RestFirst, {KeyFor(HeaderKey), TokenFor("bearer", {}), Login}, {"x402-v0.2"},
                   TaskAsks \cup PushAsks \cup {Card, ListOfTasks})),
     \* v0.3, then v1.0 at the same address
     History(<<Setup("0.3", <<Rpc>>, KeySchemes, KeyRequirements, <<>>, TRUE, File),
               Setup("1.0", <<Rpc>>, KeySchemes, KeyRequirements, <<>>, TRUE, Text)>>,
             Habit(Both, {KeyFor(QueryKey)}, {}, {Named, Unnamed, Followed, ListOfTasks}),
             Habit(RestFirst, {KeyFor(QueryKey)}, {}, PushAsks \cup TaskAsks)),
     \* v1.0, then v0.3, which has no HTTP+JSON
     History(<<Setup("1.0", <<Rest(Absent), Rpc>>, <<>>, <<>>, <<>>, TRUE, Text),
               Setup("0.3", <<Rpc>>, OidcSchemes, OidcRequirements, <<>>, TRUE, Text)>>,
             Habit(Both, {}, {}, {Plain, Unnamed, Card}),
             Habit(RestFirst, {TokenFor("openIdConnect", {"read"})}, {},
                   {Named, Followed, Card} \cup TaskAsks)),
     \* neither store nor streams, a client without credentials, and a requirement
     \* that no client can meet until another is added
     History(<<Setup("1.0", <<Rpc, Rest(Absent)>>, CertSchemes, CertRequirements, <<>>, FALSE, Text),
               Setup("1.0", <<Rpc, Rest(Absent)>>, CertSchemes, UserRequirements, <<>>, FALSE,
                     Text)>>,
             Habit(Both, {}, {}, {Plain, Followed} \cup TaskAsks),
             Habit(RestFirst, {TokenFor("basic", {})}, {},
                   {Plain, Named, Followed, Card, SetNamed})) >>
=============================================================================
