------------------------------- MODULE ClientAuth -------------------------------
(***************************************************************************)
(* One A2XClient: requests that share the resolution of the agent card, the   *)
(* acquisition of credentials and their refresh.                              *)
(*                                                                         *)
(* A request is sent with the generation of credentials that is published     *)
(* when it is built.  When the agent answers auth-required it waits for newer  *)
(* credentials and is sent once more.  Acquisition and refresh run in a        *)
(* callback of the application's AuthProvider, which may itself call the       *)
(* client.                                                                   *)
(***************************************************************************)
EXTENDS Naturals, FiniteSets

CONSTANTS
  Requests,        \* calls of the client's public methods
  MaxGeneration,   \* bound: generations of credentials
  MaxCallbacks     \* bound: callbacks of the provider

ASSUME AuthAssumption == {MaxGeneration, MaxCallbacks} \subseteq Nat

VARIABLES
  request,     \* per request: where it is, and the generation it was sent with
  card,        \* _resolved and _resolutionPromise: "none", "pending", "resolved"
  generation,  \* _authGeneration; 0 until credentials were provided
  callback,    \* the provider's callback in flight, and the request it waits for
  tracked,     \* the runtime follows which call a callback causes
  revoked,     \* external: the agent refuses generations up to this one
  rejected,    \* history: generations for which a request asked for newer ones
  renewed,     \* history: generations for which a refresh was started
  callbacks    \* history: callbacks so far

vars == <<request, card, generation, callback, tracked, revoked, rejected, renewed, callbacks>>

PCs == {"idle", "resolve", "authenticate", "send", "sent", "refresh", "resend", "resent",
        "done", "failed"}
Request == [pc : PCs, nested : BOOLEAN,
            generation : 0..MaxGeneration,   \* sent with
            refused : 0..MaxGeneration]      \* history: refused with
New == [pc |-> "idle", nested |-> FALSE, generation |-> 0, refused |-> 0]

Quiet == [kind |-> "none", awaits |-> {}]
Callback == [kind : {"none", "provide", "refresh"}, awaits : SUBSET Requests]

Init ==
  /\ request = [r \in Requests |-> New]
  /\ card = "none" /\ generation = 0 /\ callback = Quiet
  /\ tracked \in BOOLEAN
  /\ revoked = 0 /\ rejected = {} /\ renewed = {} /\ callbacks = 0
-----------------------------------------------------------------------------
At(r, pc) == request[r].pc = pc
Goto(r, pc) == request' = [request EXCEPT ![r].pc = pc]
Active == callback.kind # "none"
Ended(r) == request[r].pc \in {"done", "failed"}
Rest == UNCHANGED <<tracked, revoked, rejected, renewed, callbacks>>

(* Everybody who awaits a shared promise goes on when it settles. *)
Settle(pc, next) ==
  request' = [r \in Requests |-> IF At(r, pc) THEN [request[r] EXCEPT !.pc = next]
                                              ELSE request[r]]

(* Mutant: a callback may call the client it provides for. *)
AdmitsEverybody(nested) == TRUE

(* _assertNotAuthProviderReentry.  A runtime without async context takes every *)
(* call during a callback for one of the callback's.                          *)
Admits(nested) == Active => tracked /\ ~nested

Call(r) ==
  /\ At(r, "idle")
  /\ Goto(r, IF Admits(FALSE) THEN "resolve" ELSE "failed")
  /\ UNCHANGED <<card, generation, callback>> /\ Rest

(* The provider's callback calls the client and waits for the answer. *)
CallBack(r) ==
  /\ At(r, "idle") /\ Active /\ callback.awaits = {}
  /\ callback' = [callback EXCEPT !.awaits = {r}]
  /\ request' = [request EXCEPT ![r] =
       [New EXCEPT !.nested = TRUE, !.pc = IF Admits(TRUE) THEN "resolve" ELSE "failed"]]
  /\ UNCHANGED <<card, generation>> /\ Rest

(* _ensureResolved: one resolution is shared; after a failed one the next call *)
(* tries again.                                                               *)
StartResolution(r) ==
  /\ At(r, "resolve") /\ card = "none"
  /\ card' = "pending"
  /\ UNCHANGED <<request, generation, callback>> /\ Rest

Resolution ==
  /\ card = "pending"
  /\ \/ card' = "resolved" /\ UNCHANGED request
     \/ card' = "none" /\ Settle("resolve", "failed")
  /\ UNCHANGED <<generation, callback>> /\ Rest

Resolved(r) ==
  /\ At(r, "resolve") /\ card = "resolved"
  /\ Goto(r, IF Admits(request[r].nested) THEN "authenticate" ELSE "failed")
  /\ UNCHANGED <<card, generation, callback>> /\ Rest

Starts(kind) ==
  /\ ~Active /\ callbacks < MaxCallbacks
  /\ callback' = [Quiet EXCEPT !.kind = kind]
  /\ callbacks' = callbacks + 1

(* _ensureAuthenticated: credentials that are there are used, others are       *)
(* asked for once.                                                            *)
StartProvide(r) ==
  /\ At(r, "authenticate") /\ generation = 0
  /\ Starts("provide")
  /\ UNCHANGED <<request, card, generation, tracked, revoked, rejected, renewed>>

Authenticated(r) ==
  /\ At(r, "authenticate") /\ generation > 0
  /\ Goto(r, "send")
  /\ UNCHANGED <<card, generation, callback>> /\ Rest

(* Credentials are applied when the request is built. *)
Send(r) ==
  /\ request[r].pc \in {"send", "resend"}
  /\ request' = [request EXCEPT ![r].generation = generation,
                                ![r].pc = IF @ = "send" THEN "sent" ELSE "resent"]
  /\ UNCHANGED <<card, generation, callback>> /\ Rest

Refused(r) == request[r].generation <= revoked

Answered(r) ==
  /\ request[r].pc \in {"sent", "resent"}
  /\ At(r, "resent") \/ ~Refused(r)
  /\ Goto(r, "done")
  /\ UNCHANGED <<card, generation, callback>> /\ Rest

Asks(r, pc) ==
  /\ request' = [request EXCEPT ![r].pc = pc, ![r].refused = request[r].generation]
  /\ rejected' = rejected \cup {request[r].generation}
  /\ UNCHANGED <<card, generation, callback, tracked, revoked, renewed, callbacks>>

(* Mutant: every refusal starts a refresh, of whatever is published. *)
AuthRequiredAlways(r) ==
  At(r, "sent") /\ Refused(r) /\ Asks(r, "refresh")

(* Mutant: a refresh in flight is taken for a finished one. *)
AuthRequiredAtOnce(r) ==
  /\ At(r, "sent") /\ Refused(r)
  /\ Asks(r, IF request[r].generation = generation /\ callback.kind # "refresh"
             THEN "refresh" ELSE "resend")

(* auth-required, and _refreshAuth: a request that was refused with an older   *)
(* generation waits for a refresh in flight, if any, and goes out again.       *)
AuthRequired(r) ==
  /\ At(r, "sent") /\ Refused(r)
  /\ Asks(r, IF request[r].generation = generation \/ callback.kind = "refresh"
             THEN "refresh" ELSE "resend")

StartRefresh(r) ==
  /\ At(r, "refresh") /\ Starts("refresh")
  /\ renewed' = renewed \cup {generation}
  /\ UNCHANGED <<request, card, generation, tracked, revoked, rejected>>

(* The provider has no refresh, or no more of them. *)
NoRefresh(r) ==
  /\ At(r, "refresh") /\ ~Active
  /\ Goto(r, "done")
  /\ UNCHANGED <<card, generation, callback>> /\ Rest

Waiting == IF callback.kind = "provide" THEN "authenticate" ELSE "refresh"
Answers == \A r \in callback.awaits : Ended(r)

(* The callback throws: everybody who waits for it fails, and the credentials  *)
(* stay what they were.                                                       *)
CallbackFails ==
  /\ Active /\ Answers
  /\ Settle(Waiting, "failed")
  /\ callback' = Quiet
  /\ UNCHANGED <<card, generation>> /\ Rest

CallbackSucceeds ==
  /\ Active /\ Answers /\ generation < MaxGeneration
  /\ Settle(Waiting, IF callback.kind = "provide" THEN "send" ELSE "resend")
  /\ generation' = generation + 1
  /\ callback' = Quiet
  /\ UNCHANGED <<card, tracked, revoked, rejected, renewed, callbacks>>

Revoke ==
  /\ revoked < generation
  /\ revoked' = generation
  /\ UNCHANGED <<request, card, generation, callback, tracked, rejected, renewed,
                 callbacks>>
-----------------------------------------------------------------------------
Proceed(r) ==
  \/ StartResolution(r) \/ Resolved(r) \/ StartProvide(r) \/ Authenticated(r)
  \/ Send(r) \/ Answered(r) \/ AuthRequired(r) \/ StartRefresh(r) \/ NoRefresh(r)

Returns == Resolution \/ CallbackFails \/ CallbackSucceeds

Next ==
  \/ \E r \in Requests : Call(r) \/ CallBack(r) \/ Proceed(r)
  \/ Returns \/ Revoke

(* Fetch and the provider's callbacks answer or fail. *)
Spec == Init /\ [][Next]_vars /\ WF_vars(Returns) /\ \A r \in Requests : WF_vars(Proceed(r))
-----------------------------------------------------------------------------
TypeOK ==
  /\ request \in [Requests -> Request]
  /\ card \in {"none", "pending", "resolved"}
  /\ generation \in 0..MaxGeneration /\ revoked \in 0..MaxGeneration
  /\ callback \in Callback
  /\ tracked \in BOOLEAN
  /\ rejected \cup renewed \subseteq 0..MaxGeneration
  /\ callbacks \in 0..MaxCallbacks

(* Credentials are refreshed only when the agent refused them: a request that  *)
(* was refused with an older generation never replaces the newer one.          *)
RenewedWhenRefused == renewed \subseteq rejected

(* The one retry of a request is never sent with the credentials it was        *)
(* refused with.                                                              *)
RetryIsNewer == \A r \in Requests : At(r, "resent") => request[r].generation > request[r].refused

(* Every request ends: no callback of the provider waits for a call that waits *)
(* for the callback, and no shared promise is left behind.                     *)
RequestsEnd == \A r \in Requests : ~At(r, "idle") ~> Ended(r)
=============================================================================
