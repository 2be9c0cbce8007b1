------------------------------- MODULE AgentCards -------------------------------
(***************************************************************************)
(* What an A2XServer publishes about itself, what a client makes of it, and    *)
(* what the server then demands of a request.                                *)
(*                                                                         *)
(* A server is set up with a protocol version, its interfaces in order, the    *)
(* default one first, its security schemes by name and its requirements in       *)
(* order, and its extensions, a function that tells which of them it requires.   *)
(***************************************************************************)
EXTENDS AuthSchemes

CONSTANT Absent

Endpoint == "url"
X402Family == {"x402-v0.2", "x402-foundation"}

(* The card is rendered in the version that the server speaks; v0.3 has one    *)
(* endpoint, and the tenant is a field of the additional interfaces of v1.0.  *)
AgentCard(s) ==
  [extensions |-> s.extensions] ++ SecurityFields(s.version, s.schemes, s.requirements)
    ++ IF s.version = "0.3"
       THEN [url |-> Endpoint, protocolVersion |-> "0.3.0", preferredTransport |-> "JSONRPC",
             additionalInterfaces |-> Tail(s.interfaces)]
       ELSE [supportedInterfaces |->
              [i \in DOMAIN s.interfaces |->
                 IF i = 1 THEN [s.interfaces[1] EXCEPT !.tenant = Absent] ELSE s.interfaces[i]]]

(* The declared version first, then the shape.                               *)
DetectProtocolVersion(card) ==
  CASE "protocolVersion" \in DOMAIN card -> "0.3"
    [] "supportedInterfaces" \in DOMAIN card -> "1.0"
    [] OTHER -> IF "url" \in DOMAIN card THEN "0.3" ELSE "1.0"

NoInterface == [version |-> "none", binding |-> "none", tenant |-> Absent]

(* The first binding of the client's preference that the card offers.         *)
SelectAgentInterface(card, prefers) ==
  IF DetectProtocolVersion(card) = "0.3"
  THEN [version |-> "0.3", binding |-> card["preferredTransport"], tenant |-> Absent]
  ELSE LET offered == card["supportedInterfaces"]
           Of(binding) == {i \in DOMAIN offered : offered[i].binding = binding}
           usable == {k \in DOMAIN prefers : Of(prefers[k]) # {}}
       IN IF usable = {} THEN NoInterface
          ELSE LET k == CHOOSE k \in usable : \A j \in usable : k <= j
                   i == CHOOSE i \in Of(prefers[k]) : \A j \in Of(prefers[k]) : i <= j
               IN [version |-> "1.0", binding |-> prefers[k], tenant |-> offered[i].tenant]

(* A client of x402 that chose no version upgrades to what the card offers.   *)
ActivateX402Extension(card, activates, seeded) ==
  IF seeded /\ "x402-foundation" \in DOMAIN card["extensions"]
  THEN (activates \cup {"x402-foundation"}) \ {"x402-v0.2"} ELSE activates

(* What a client presents: nothing without a provider, without requirements, or  *)
(* if one of them is empty.  A client that supports none of them refuses to call. *)
Unusable == Absent
Credentials(card, holds) ==
  LET requirements == RawRequirements(DetectProtocolVersion(card), card)
      groups == NormalizeRequirements(requirements, card["securitySchemes"])
  IN CASE holds = {} \/ requirements = <<>> -> <<>>
       [] holds # {} /\ requirements # <<>> /\ groups = <<>> -> Unusable
       [] OTHER -> IF \E i \in DOMAIN groups : groups[i] = <<>> THEN <<>>
                   ELSE ApplyAuth(Provide(groups, holds), holds)
-----------------------------------------------------------------------------
(* One requirement must be met, with all its schemes and their scopes.       *)
Authenticate(s, presented) ==
  \/ s.requirements = <<>>
  \/ \E i \in DOMAIN s.requirements :
       \A j \in DOMAIN s.requirements[i] :
         LET entry == s.requirements[i][j]
         IN AuthenticateScheme(s.schemes[entry.scheme], entry.scopes, RequestContext(presented))

(* A holder of the credentials for a requirement whose schemes a client knows    *)
(* and can send together.                                                   *)
Holds(s, holds) ==
  \/ s.requirements = <<>>
  \/ \E i \in DOMAIN s.requirements :
       LET group == s.requirements[i]
           Of(j) == s.schemes[group[j].scheme]
       IN /\ \A j \in DOMAIN group : \E token \in holds :
               /\ Valid(Of(j), token.class) /\ token.slot = SlotOf(Of(j))
               /\ ReportsScopes(Of(j)) => group[j].scopes \subseteq token.scopes
          /\ \A j, k \in DOMAIN group : j # k => SlotOf(Of(j)) # SlotOf(Of(k))

(* Any extension of the x402 family stands for the others.                   *)
ExtensionsMissing(s, activated) ==
  {uri \in DOMAIN s.extensions :
     /\ s.extensions[uri] /\ uri \notin activated
     /\ ~(uri \in X402Family /\ activated \cap X402Family # {})}
=============================================================================
