--------------------------- MODULE ClientAuth_proofs ---------------------------
(* Theorems about ClientAuth, for every value of its constants. *)
EXTENDS ClientAuth, TLAPS

USE AuthAssumption DEF AuthAssumption
-----------------------------------------------------------------------------
(* What RenewedWhenRefused and RetryIsNewer need to be inductive.             *)

(* The first credentials are asked for before there are any, refreshed ones    *)
(* only after.                                                                *)
CallbackFits ==
  /\ callback.kind = "provide" => generation = 0
  /\ callback.kind = "refresh" => generation > 0

(* A request never carries credentials that were not published yet; one that   *)
(* waits for a refresh was refused, with what is still published unless the     *)
(* refresh runs already; and one that goes out again finds newer ones.         *)
RequestFits(r) ==
  LET f == request[r] IN
  /\ f.pc \in {"send", "sent", "refresh", "resend", "resent"} => generation > 0
  /\ f.generation <= generation
  /\ f.pc = "refresh" => /\ f.refused = f.generation /\ f.generation \in rejected
                         /\ f.generation = generation \/ callback.kind = "refresh"
  /\ f.pc = "resend" => f.refused < generation
  /\ f.pc = "resent" => f.refused < f.generation

(* A call of the provider's own is refused at once, so that no callback waits  *)
(* for a call that waits for it.                                              *)
NoCycle == \A r \in callback.awaits : Ended(r)

IInv ==
  /\ TypeOK /\ CallbackFits /\ (\A r \in Requests : RequestFits(r)) /\ NoCycle
  /\ RenewedWhenRefused
-----------------------------------------------------------------------------
(* The steps that change one request, and those that settle a shared promise.  *)

LEMMA NewType == New \in Request /\ New.generation = 0
BY DEF New, Request, PCs

LEMMA GotoType == ASSUME TypeOK, NEW r \in Requests, NEW pc \in PCs, Goto(r, pc)
                  PROVE  request' \in [Requests -> Request]
BY DEF TypeOK, Goto, Request

LEMMA SettleType == ASSUME TypeOK, NEW pc \in PCs, NEW next \in PCs, Settle(pc, next)
                    PROVE  /\ request' \in [Requests -> Request]
                           /\ \A r \in Requests :
                                request'[r] = IF At(r, pc) THEN [request[r] EXCEPT !.pc = next]
                                                           ELSE request[r]
BY DEF TypeOK, Settle, Request

(* A request that moves without new credentials keeps what is known of it.     *)
LEMMA GotoFits == ASSUME IInv, NEW r \in Requests,
                         NEW pc \in {"resolve", "authenticate", "send", "done", "failed"},
                         pc = "send" => generation > 0,
                         ~Ended(r),
                         Goto(r, pc), UNCHANGED <<card, generation, callback>>, Rest
                  PROVE  IInv'
<1>1. request' \in [Requests -> Request]
  BY GotoType DEF IInv, PCs
<1>2. TypeOK'
  BY <1>1 DEF IInv, TypeOK, Rest
<1>3. \A q \in Requests : RequestFits(q)'
  BY DEF IInv, TypeOK, Request, RequestFits, Goto, Rest
<1>4. NoCycle'
  <2>1. ASSUME NEW q \in callback.awaits PROVE Ended(q)'
    <3>1. Ended(q) /\ q \in Requests
      BY DEF IInv, NoCycle, TypeOK, Callback
    <3>2. q # r
      BY <3>1
    <3>3. QED BY <3>1, <3>2 DEF Goto, Ended, IInv, TypeOK
  <2>2. QED BY <2>1 DEF NoCycle
<1>5. QED
  BY <1>2, <1>3, <1>4 DEF IInv, CallbackFits, RenewedWhenRefused, Rest

(* The shared promise rejects, or resolves with newer credentials. *)
LEMMA SettleFits == ASSUME IInv, NEW pc \in {"resolve", "authenticate", "refresh"},
                           NEW next \in {"failed", "send", "resend"},
                           Settle(pc, next),
                           pc = "resolve" => UNCHANGED <<generation, callback>>,
                           pc # "resolve" => pc = Waiting /\ Active /\ callback' = Quiet,
                           generation' >= generation, rejected' = rejected,
                           next = "send" => pc = "authenticate",
                           next = "resend" => pc = "refresh",
                           next # "failed" => generation' > generation,
                           generation' \in 0..MaxGeneration
                    PROVE  \A r \in Requests : RequestFits(r)'
<1> SUFFICES ASSUME NEW r \in Requests PROVE RequestFits(r)'
  OBVIOUS
<1>1. request[r] \in Request /\ RequestFits(r) /\ generation \in 0..MaxGeneration
  BY DEF IInv, TypeOK
<1>2. request'[r] = IF At(r, pc) THEN [request[r] EXCEPT !.pc = next] ELSE request[r]
  BY SettleType DEF PCs, IInv
<1>3. CASE At(r, pc)
  <2>1. /\ request'[r].pc = next /\ request'[r].refused = request[r].refused
        /\ request'[r].generation = request[r].generation
    BY <1>1, <1>2, <1>3 DEF Request
  <2>2. request[r].generation \in Nat /\ request[r].refused \in Nat /\ generation' \in Nat
    BY <1>1 DEF Request
  <2>3. request[r].pc = "refresh" => request[r].refused <= generation
    BY <1>1 DEF RequestFits
  <2>4. QED BY <1>1, <1>3, <2>1, <2>2, <2>3 DEF RequestFits, At
<1>4. CASE ~At(r, pc)
  <2>1. request'[r] = request[r]
    BY <1>2, <1>4
  <2>2. CASE pc = "resolve"
    BY <1>1, <2>1, <2>2 DEF RequestFits, Request
  <2>3. CASE pc # "resolve"
    <3>1. request[r].pc = "refresh" => callback.kind = "provide"
      BY <1>4, <2>3 DEF At, Waiting
    <3>2. request[r].pc # "refresh"
      BY <1>1, <3>1 DEF CallbackFits, RequestFits, IInv
    <3>3. QED BY <1>1, <2>1, <3>2 DEF RequestFits, Request
  <2>4. QED BY <2>2, <2>3
<1>5. QED BY <1>3, <1>4

(* What has ended stays ended when a shared promise settles. *)
LEMMA SettleKeeps == ASSUME IInv, NEW pc \in {"resolve", "authenticate", "refresh"},
                            NEW next \in PCs, Settle(pc, next),
                            callback' \in {callback, Quiet}
                     PROVE  NoCycle'
<1>1. \A r \in Requests : Ended(r) => Ended(r)'
  <2>1. \A r \in Requests :
          request'[r] = IF At(r, pc) THEN [request[r] EXCEPT !.pc = next] ELSE request[r]
    BY SettleType DEF PCs, IInv
  <2>2. \A r \in Requests : Ended(r) => ~At(r, pc)
    BY DEF Ended, At
  <2>3. QED BY <2>1, <2>2 DEF Ended
<1>2. callback'.awaits \subseteq callback.awaits /\ callback.awaits \subseteq Requests
  BY DEF IInv, TypeOK, Callback, Quiet
<1>3. QED BY <1>1, <1>2 DEF IInv, NoCycle
-----------------------------------------------------------------------------
(* The initial states, and every step.                                       *)

LEMMA InitIInv == Init => IInv
BY DEF Init, IInv, TypeOK, CallbackFits, RequestFits, NoCycle, RenewedWhenRefused, New, Request,
       PCs, Quiet, Callback, Ended

LEMMA CallKeeps == ASSUME IInv, NEW r \in Requests, Call(r) PROVE IInv'
BY GotoFits DEF Call, At, Ended

(* The call fails before it waits for anything: a callback is in flight. *)
LEMMA CallBackKeeps == ASSUME IInv, NEW r \in Requests, CallBack(r) PROVE IInv'
<1> DEFINE f == [New EXCEPT !.nested = TRUE, !.pc = "failed"]
<1>1. ~Admits(TRUE)
  BY DEF CallBack, Admits
<1>2. request' = [request EXCEPT ![r] = f] /\ callback' = [callback EXCEPT !.awaits = {r}]
  BY <1>1 DEF CallBack
<1>3. f \in Request /\ f.pc = "failed" /\ f.generation = 0
  BY NewType DEF Request, PCs
<1> HIDE DEF f
<1>4. request'[r] = f /\ \A q \in Requests \ {r} : request'[q] = request[q]
  BY <1>2 DEF IInv, TypeOK
<1>5. callback' \in Callback /\ callback'.kind = callback.kind /\ callback'.awaits = {r}
  BY <1>2 DEF IInv, TypeOK, Callback
<1>6. TypeOK'
  BY <1>2, <1>3, <1>5 DEF IInv, TypeOK, CallBack, Rest
<1>7. \A q \in Requests : RequestFits(q)'
  <2>1. RequestFits(r)'
    <3>1. generation' = generation /\ generation \in Nat
      BY DEF CallBack, IInv, TypeOK
    <3>2. QED BY <1>3, <1>4, <3>1 DEF RequestFits
  <2>2. \A q \in Requests \ {r} : RequestFits(q)'
    BY <1>4, <1>5 DEF IInv, RequestFits, CallBack, Rest
  <2>3. QED BY <2>1, <2>2
<1>8. NoCycle'
  BY <1>3, <1>4, <1>5 DEF NoCycle, Ended
<1>9. QED
  BY <1>5, <1>6, <1>7, <1>8 DEF IInv, CallbackFits, RenewedWhenRefused, CallBack, Rest

LEMMA StartResolutionKeeps == ASSUME IInv, NEW r \in Requests, StartResolution(r) PROVE IInv'
BY DEF IInv, TypeOK, CallbackFits, RequestFits, NoCycle, Ended, RenewedWhenRefused,
       StartResolution, Rest

LEMMA ResolutionKeeps == ASSUME IInv, Resolution PROVE IInv'
<1>1. CASE UNCHANGED request
  BY <1>1 DEF IInv, TypeOK, CallbackFits, RequestFits, NoCycle, Ended, RenewedWhenRefused,
              Resolution, Rest
<1>2. CASE Settle("resolve", "failed")
  <2>1. TypeOK'
    BY <1>2, SettleType DEF IInv, TypeOK, Resolution, Rest, PCs
  <2>2. \A r \in Requests : RequestFits(r)'
    BY <1>2, SettleFits DEF Resolution, Rest, IInv, TypeOK
  <2>3. NoCycle'
    BY <1>2, SettleKeeps DEF Resolution, PCs
  <2>4. QED
    BY <2>1, <2>2, <2>3 DEF IInv, CallbackFits, RenewedWhenRefused, Resolution, Rest
<1>3. QED BY <1>1, <1>2 DEF Resolution

LEMMA ResolvedKeeps == ASSUME IInv, NEW r \in Requests, Resolved(r) PROVE IInv'
BY GotoFits DEF Resolved, At, Ended

LEMMA StartProvideKeeps == ASSUME IInv, NEW r \in Requests, StartProvide(r) PROVE IInv'
<1>1. callback' = [kind |-> "provide", awaits |-> {}] /\ callback' \in Callback
  BY DEF StartProvide, Starts, Quiet, Callback
<1>2. TypeOK'
  BY <1>1 DEF IInv, TypeOK, StartProvide, Starts
<1>3. \A q \in Requests : RequestFits(q)'
  BY <1>1 DEF IInv, TypeOK, RequestFits, StartProvide, Starts, Active
<1>4. QED
  BY <1>1, <1>2, <1>3 DEF IInv, CallbackFits, NoCycle, RenewedWhenRefused, StartProvide

LEMMA AuthenticatedKeeps == ASSUME IInv, NEW r \in Requests, Authenticated(r) PROVE IInv'
BY GotoFits DEF Authenticated, At, Ended

LEMMA SendKeeps == ASSUME IInv, NEW r \in Requests, Send(r) PROVE IInv'
<1>1. request[r].pc \in {"send", "resend"} /\ request[r] \in Request /\ RequestFits(r)
  BY DEF Send, IInv, TypeOK
<1>2. /\ request'[r] = [request[r] EXCEPT !.generation = generation,
                          !.pc = IF request[r].pc = "send" THEN "sent" ELSE "resent"]
      /\ \A q \in Requests \ {r} : request'[q] = request[q]
      /\ request' \in [Requests -> Request]
  BY DEF Send, IInv, TypeOK, Request, PCs
<1>3. RequestFits(r)'
  BY <1>1, <1>2 DEF RequestFits, Request, Send, Rest, IInv, TypeOK
<1>4. \A q \in Requests \ {r} : RequestFits(q)'
  BY <1>2 DEF RequestFits, Send, Rest, IInv
<1>5. TypeOK'
  BY <1>2 DEF IInv, TypeOK, Send, Rest
<1>6. NoCycle'
  BY <1>1, <1>2 DEF IInv, TypeOK, Callback, NoCycle, Ended, Send
<1>7. QED
  BY <1>3, <1>4, <1>5, <1>6 DEF IInv, CallbackFits, RenewedWhenRefused, Send, Rest

LEMMA AnsweredKeeps == ASSUME IInv, NEW r \in Requests, Answered(r) PROVE IInv'
BY GotoFits DEF Answered, Ended

(* A request that does not wait was refused with what is no longer published. *)
LEMMA AuthRequiredKeeps == ASSUME IInv, NEW r \in Requests, AuthRequired(r) PROVE IInv'
<1> DEFINE pc == IF request[r].generation = generation \/ callback.kind = "refresh"
                 THEN "refresh" ELSE "resend"
           f == [request[r] EXCEPT !.pc = pc, !.refused = request[r].generation]
<1>1. request[r] \in Request /\ RequestFits(r) /\ request[r].pc = "sent"
  BY DEF AuthRequired, At, IInv, TypeOK
<1>2. /\ request' = [request EXCEPT ![r] = f]
      /\ rejected' = rejected \cup {request[r].generation}
      /\ UNCHANGED <<card, generation, callback, tracked, revoked, renewed, callbacks>>
  BY DEF AuthRequired, Asks
<1>3. /\ f \in Request /\ f.pc = pc /\ f.refused = request[r].generation
      /\ f.generation = request[r].generation
  BY <1>1 DEF Request, PCs
<1> HIDE DEF f
<1>4. request'[r] = f /\ \A q \in Requests \ {r} : request'[q] = request[q]
  BY <1>2 DEF IInv, TypeOK
<1>5. RequestFits(r)'
  <2>1. request'[r].generation \in 0..MaxGeneration /\ generation \in 0..MaxGeneration
    BY <1>1, <1>3, <1>4 DEF Request, IInv, TypeOK
  <2>2. QED BY <1>1, <1>2, <1>3, <1>4, <2>1 DEF RequestFits
<1>6. \A q \in Requests \ {r} : RequestFits(q)'
  BY <1>2, <1>4 DEF RequestFits, IInv
<1>7. TypeOK'
  BY <1>1, <1>2, <1>3 DEF IInv, TypeOK, Request
<1>8. NoCycle'
  BY <1>1, <1>2, <1>4 DEF IInv, TypeOK, Callback, NoCycle, Ended
<1>9. QED
  BY <1>2, <1>5, <1>6, <1>7, <1>8 DEF IInv, CallbackFits, RenewedWhenRefused

(* Nothing is in flight, so that the request waits with what is published. *)
LEMMA StartRefreshKeeps == ASSUME IInv, NEW r \in Requests, StartRefresh(r) PROVE IInv'
<1>1. callback' = [kind |-> "refresh", awaits |-> {}] /\ callback' \in Callback
  BY DEF StartRefresh, Starts, Quiet, Callback
<1>2. TypeOK'
  BY <1>1 DEF IInv, TypeOK, StartRefresh, Starts
<1>3. \A q \in Requests : RequestFits(q)'
  BY <1>1 DEF IInv, TypeOK, RequestFits, StartRefresh, Starts, Active
<1>4. generation \in rejected /\ generation > 0
  BY DEF IInv, RequestFits, StartRefresh, Starts, Active, At
<1>5. QED
  BY <1>1, <1>2, <1>3, <1>4 DEF IInv, CallbackFits, NoCycle, RenewedWhenRefused, StartRefresh

LEMMA NoRefreshKeeps == ASSUME IInv, NEW r \in Requests, NoRefresh(r) PROVE IInv'
BY GotoFits DEF NoRefresh, At, Ended

LEMMA CallbackFailsKeeps == ASSUME IInv, CallbackFails PROVE IInv'
<1>1. Waiting \in {"authenticate", "refresh"}
  BY DEF Waiting
<1>2. Settle(Waiting, "failed") /\ callback' = Quiet
  BY DEF CallbackFails
<1>3. TypeOK'
  BY <1>1, <1>2, SettleType DEF IInv, TypeOK, CallbackFails, Rest, PCs, Quiet, Callback
<1>4. \A r \in Requests : RequestFits(r)'
  BY <1>1, <1>2, SettleFits DEF CallbackFails, Rest, IInv, TypeOK
<1>5. NoCycle'
  BY <1>1, <1>2, SettleKeeps DEF PCs
<1>6. QED
  BY <1>2, <1>3, <1>4, <1>5 DEF IInv, CallbackFits, RenewedWhenRefused, CallbackFails, Rest, Quiet

LEMMA CallbackSucceedsKeeps == ASSUME IInv, CallbackSucceeds PROVE IInv'
<1> DEFINE next == IF callback.kind = "provide" THEN "send" ELSE "resend"
<1>1. Waiting \in {"authenticate", "refresh"} /\ next \in {"send", "resend"}
  BY DEF Waiting
<1>2. Settle(Waiting, next) /\ callback' = Quiet
  BY DEF CallbackSucceeds
<1> HIDE DEF next
<1>3. generation' = generation + 1 /\ generation' \in 0..MaxGeneration
  BY DEF CallbackSucceeds, IInv, TypeOK
<1>4. TypeOK'
  BY <1>1, <1>2, <1>3, SettleType DEF IInv, TypeOK, CallbackSucceeds, PCs, Quiet, Callback
<1>5. \A r \in Requests : RequestFits(r)'
  <2>1. generation' > generation /\ UNCHANGED rejected /\ Active
    BY <1>3 DEF CallbackSucceeds, IInv, TypeOK
  <2>2. next = "send" => Waiting = "authenticate"
    BY DEF next, Waiting
  <2>3. next = "resend" => Waiting = "refresh"
    BY DEF next, Waiting
  <2>4. generation' >= generation
    BY <2>1, <1>3 DEF IInv, TypeOK
  <2>5. QED BY <1>1, <1>2, <1>3, <2>1, <2>2, <2>3, <2>4, SettleFits
<1>6. NoCycle'
  BY <1>1, <1>2, SettleKeeps DEF PCs
<1>7. QED
  BY <1>2, <1>4, <1>5, <1>6 DEF IInv, CallbackFits, RenewedWhenRefused, CallbackSucceeds, Quiet

LEMMA RevokeKeeps == ASSUME IInv, Revoke PROVE IInv'
BY DEF IInv, TypeOK, CallbackFits, RequestFits, NoCycle, Ended, RenewedWhenRefused, Revoke

LEMMA StepIInv == IInv /\ [Next]_vars => IInv'
<1> SUFFICES ASSUME IInv, [Next]_vars PROVE IInv'
  OBVIOUS
<1>1. ASSUME NEW r \in Requests, Call(r) \/ CallBack(r) \/ Proceed(r) PROVE IInv'
  BY <1>1, CallKeeps, CallBackKeeps, StartResolutionKeeps, ResolvedKeeps, StartProvideKeeps,
     AuthenticatedKeeps, SendKeeps, AnsweredKeeps, AuthRequiredKeeps, StartRefreshKeeps,
     NoRefreshKeeps DEF Proceed
<1>2. CASE Returns
  BY <1>2, ResolutionKeeps, CallbackFailsKeeps, CallbackSucceedsKeeps DEF Returns
<1>3. CASE UNCHANGED vars
  BY <1>3 DEF IInv, TypeOK, CallbackFits, RequestFits, NoCycle, Ended, RenewedWhenRefused, vars
<1>4. QED BY <1>1, <1>2, <1>3, RevokeKeeps DEF Next
-----------------------------------------------------------------------------
(* Every reachable state of the client satisfies the inductive invariant. *)
THEOREM CredentialsInv == Spec => []IInv
BY InitIInv, StepIInv, PTL DEF Spec

(* _authGeneration, the shared promises and the requests are well typed. *)
THEOREM TypeCorrect == Spec => []TypeOK
<1>1. IInv => TypeOK
  BY DEF IInv
<1>2. QED BY <1>1, CredentialsInv, PTL

(* Credentials are replaced only if the agent refused them, however late and in *)
(* whatever order refusals are reported (a2x-client.ts, _refreshAuth).          *)
THEOREM OnlyRefusedAreRenewed == Spec => []RenewedWhenRefused
<1>1. IInv => RenewedWhenRefused
  BY DEF IInv
<1>2. QED BY <1>1, CredentialsInv, PTL

(* The one retry of a request always carries newer credentials. *)
THEOREM RetriesAreNewer == Spec => []RetryIsNewer
<1>1. IInv => RetryIsNewer
  BY DEF IInv, RequestFits, RetryIsNewer, At, TypeOK, Request
<1>2. QED BY <1>1, CredentialsInv, PTL

(* A provider's callback never waits for a call that waits for the callback:    *)
(* its own calls have ended by the time it awaits them                         *)
(* (auth-provider-context.ts).                                                *)
THEOREM NoCallbackWaitsForItself == Spec => []NoCycle
<1>1. IInv => NoCycle
  BY DEF IInv
<1>2. QED BY <1>1, CredentialsInv, PTL
=============================================================================
