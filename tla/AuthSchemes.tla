------------------------------ MODULE AuthSchemes ------------------------------
(***************************************************************************)
(* Security schemes: how a server declares them on its card in either         *)
(* protocol version, the groups of credentials that a client normalises them   *)
(* to, where those credentials go in a request, and what the server makes of   *)
(* them there.  What a host's validators accept is external: a token for the    *)
(* scheme, with the scopes they report.                                      *)
(*                                                                         *)
(* A requirement is a sequence of its schemes with the scopes they need.  A     *)
(* slot is a place of a request with a name; header names are lower case.      *)
(***************************************************************************)
EXTENDS Naturals, SequencesExt

ApiKey(place, name) == [kind |-> "apiKey", place |-> place, name |-> name]
Http(word) == [kind |-> "http", word |-> word]
\* The classes of the code have one flow each; a host's own class may have several.
OAuth2(flows) == [kind |-> "oauth2", flows |-> flows]
OpenIdConnect == [kind |-> "openIdConnect"]
MutualTls == [kind |-> "mutualTls"]

(* Two objects as one; the first gives the fields that both have.             *)
p ++ q == [f \in DOMAIN p \cup DOMAIN q |-> IF f \in DOMAIN p THEN p[f] ELSE q[f]]

Authorization == <<"header", "authorization">>
CookieHeader == <<"header", "cookie">>
-----------------------------------------------------------------------------
(* On the card.                                                            *)
ToV03Schema(d) ==
  CASE d.kind = "apiKey" -> ("type" :> "apiKey") @@ ("in" :> d.place) @@ ("name" :> d.name)
    [] d.kind = "http" -> ("type" :> "http") @@ ("scheme" :> d.word)
    [] d.kind = "oauth2" -> ("type" :> "oauth2") @@ ("flows" :> d.flows)
    [] d.kind = "openIdConnect" -> "type" :> "openIdConnect"
    [] d.kind = "mutualTls" -> "type" :> "mutualTLS"

ToV10Schema(d) ==
  CASE d.kind = "apiKey" ->
         "apiKeySecurityScheme" :> (("location" :> d.place) @@ ("name" :> d.name))
    [] d.kind = "http" -> "httpAuthSecurityScheme" :> ("scheme" :> d.word)
    [] d.kind = "oauth2" -> "oauth2SecurityScheme" :> ("flows" :> d.flows)
    [] d.kind = "openIdConnect" -> "openIdConnectSecurityScheme" :> <<>>
    [] d.kind = "mutualTls" -> "mtlsSecurityScheme" :> <<>>

(* v1.0 wraps a requirement, and the scopes of each of its schemes.           *)
MapSecurityRequirement(version, requirement) ==
  IF version = "0.3" THEN requirement
  ELSE "schemes" :> [i \in DOMAIN requirement |->
                       [scheme |-> requirement[i].scheme, list |-> requirement[i].scopes]]

SecurityFields(version, schemes, requirements) ==
  LET mapped == [i \in DOMAIN requirements |->
                   MapSecurityRequirement(version, requirements[i])]
      shown == IF version = "0.3" THEN [name \in DOMAIN schemes |-> ToV03Schema(schemes[name])]
               ELSE [name \in DOMAIN schemes |-> ToV10Schema(schemes[name])]
  IN [securitySchemes |-> shown]
       ++ IF requirements = <<>> THEN <<>>
          ELSE IF version = "0.3" THEN [security |-> mapped] ELSE [securityRequirements |-> mapped]
-----------------------------------------------------------------------------
(* What a client makes of it: alternatives, each a group of schemes that are   *)
(* needed together.                                                         *)
AuthScheme(class, slot, scopes) == [class |-> class, slot |-> slot, scopes |-> scopes]
ApiKeyAuthScheme(place, name) == <<AuthScheme("apiKey", <<place, name>>, {})>>
HttpAuthScheme(word) ==
  IF word \in {"bearer", "basic"} THEN <<AuthScheme(word, Authorization, {})>> ELSE <<>>

FlowOrder == <<"deviceCode", "authorizationCode", "clientCredentials", "implicit", "password">>
NormalizeOAuth2Flows(flows, scopes) ==
  LET offered == SelectSeq(FlowOrder, LAMBDA flow : flow \in flows)
  IN [i \in DOMAIN offered |-> AuthScheme(offered[i], Authorization, scopes)]

NormalizeV03Scheme(raw, scopes) ==
  CASE raw["type"] = "apiKey" -> ApiKeyAuthScheme(raw["in"], raw["name"])
    [] raw["type"] = "http" -> HttpAuthScheme(raw["scheme"])
    [] raw["type"] = "oauth2" -> NormalizeOAuth2Flows(raw["flows"], scopes)
    [] raw["type"] = "openIdConnect" -> <<AuthScheme("openIdConnect", Authorization, scopes)>>
    [] OTHER -> <<>>

NormalizeV10Scheme(raw, scopes) ==
  LET member == CHOOSE name \in DOMAIN raw : TRUE
  IN CASE member = "apiKeySecurityScheme" ->
            ApiKeyAuthScheme(raw[member]["location"], raw[member]["name"])
       [] member = "httpAuthSecurityScheme" -> HttpAuthScheme(raw[member]["scheme"])
       [] member = "oauth2SecurityScheme" -> NormalizeOAuth2Flows(raw[member]["flows"], scopes)
       [] member = "openIdConnectSecurityScheme" ->
            <<AuthScheme("openIdConnect", Authorization, scopes)>>
       [] OTHER -> <<>>

NormalizeScheme(raw, scopes) ==
  IF "type" \in DOMAIN raw THEN NormalizeV03Scheme(raw, scopes)
                           ELSE NormalizeV10Scheme(raw, scopes)

(* Two credentials for one slot cannot travel together.                      *)
\* Mutant: they can.
NeverConflicting(group) == FALSE
HasConflictingDestinations(group) ==
  \E i, j \in DOMAIN group :
    /\ i # j
    /\ \/ group[i].slot = group[j].slot
       \/ group[i].slot = CookieHeader /\ group[j].slot[1] = "cookie"

(* Every choice of one flow for each scheme; none if a scheme is not supported. *)
NormalizeRequirement(requirement, schemes) ==
  LET FlowsFor(entry) == IF entry.scheme \notin DOMAIN schemes THEN <<>>
                        ELSE NormalizeScheme(schemes[entry.scheme], entry.scopes)
      Extend(groups, entry) ==
        FlattenSeq([i \in DOMAIN groups |->
          [k \in DOMAIN FlowsFor(entry) |-> Append(groups[i], FlowsFor(entry)[k])]])
  IN SelectSeq(FoldLeft(Extend, <<<<>>>>, requirement),
               LAMBDA group : ~HasConflictingDestinations(group))

NormalizeRequirements(requirements, schemes) ==
  FlattenSeq([i \in DOMAIN requirements |-> NormalizeRequirement(requirements[i], schemes)])

RawRequirements(version, card) ==
  LET raw == IF "security" \in DOMAIN card THEN card["security"]
             ELSE IF "securityRequirements" \in DOMAIN card THEN card["securityRequirements"]
             ELSE <<>>
      Flat(wrapped) == [j \in DOMAIN wrapped |->
                          [scheme |-> wrapped[j].scheme, scopes |-> wrapped[j].list]]
  IN IF version = "0.3" THEN raw ELSE [i \in DOMAIN raw |-> Flat(raw[i]["schemes"])]
-----------------------------------------------------------------------------
(* Credentials: a token is for a class of schemes, and an API key for a slot.  *)
Token(class, slot, scopes) == AuthScheme(class, slot, scopes)
Satisfies(token, scheme) ==
  token.class = scheme.class /\ token.slot = scheme.slot /\ scheme.scopes \subseteq token.scopes

ApplyToRequest(slots, scheme, token) ==
  (scheme.slot :> [word |-> CASE scheme.class = "apiKey" -> "" [] scheme.class = "basic" -> "basic"
                              [] OTHER -> "bearer",
                   class |-> token.class, scopes |-> token.scopes]) @@ slots

(* An AuthProvider of an application returns the first group that it can meet.  *)
Provide(groups, holds) ==
  LET Met(group) == \A j \in DOMAIN group : \E token \in holds : Satisfies(token, group[j])
      met == {i \in DOMAIN groups : Met(groups[i])}
  IN IF met = {} THEN <<>> ELSE groups[CHOOSE i \in met : \A j \in met : i <= j]

ApplyAuth(group, holds) ==
  FoldLeft(LAMBDA slots, scheme :
             ApplyToRequest(slots, scheme, CHOOSE token \in holds : Satisfies(token, scheme)),
           <<>>, group)
-----------------------------------------------------------------------------
(* What the server finds.  Its listener reads headers and the query; a caller   *)
(* of the handler that reads cookies, too, is not modelled.                   *)
RequestContext(slots) ==
  [slot \in {slot \in DOMAIN slots : slot[1] \in {"header", "query"}} |-> slots[slot]]

SlotOf(d) == IF d.kind = "apiKey" THEN <<d.place, d.name>> ELSE Authorization
WordOf(d) == CASE d.kind = "apiKey" -> "" [] d.kind = "http" -> d.word [] OTHER -> "bearer"
Valid(d, class) ==
  CASE d.kind = "http" -> class = d.word
    [] d.kind = "oauth2" -> class \in d.flows
    [] d.kind \in {"apiKey", "openIdConnect"} -> class = d.kind
    [] OTHER -> FALSE

(* Scopes are compared when a validator reports any.                         *)
ReportsScopes(d) == d.kind \in {"oauth2", "openIdConnect"}

AuthenticateScheme(d, scopes, context) ==
  /\ SlotOf(d) \in DOMAIN context
  /\ context[SlotOf(d)].word = WordOf(d)
  /\ Valid(d, context[SlotOf(d)].class)
  /\ ReportsScopes(d) => scopes \subseteq context[SlotOf(d)].scopes
=============================================================================
