# a2x in TLA+

a2x is a TypeScript SDK for A2A agents: a server (request handlers, an executor,
a task store, an event bus), a client, and an implementation of x402 payments
with a merchant side that meters conversations and a client side that signs.
This directory models the parts of it that keep state across awaits and can be
raced, restarted or left half done.

All source paths below are under `src/packages/a2x/src/` unless they start with
`src/`.

## Inventory

| Part | State it keeps | Operations | What is hard |
|---|---|---|---|
| upto sessions, `x402/merchant/session.ts` | one durable record per context; process-local idle and deadline timers | reserveOpen, open, commitOpen, cancelOpen, beginTurn, finishTurn, cancelTurn, recordTurn, close, closeAll, recover, stop, authorizeDelivery, forgetClosed | compare-and-set loops raced by calls, timers, replicas and crashes; money must move once |
| merchant gate, `x402/merchant/gate.ts` | offers and lifecycle entries in two stores | open, settle, lapse, authorizeDelivery, publicationStarted, handshakes | a hold is claimed, published on, charged or given up, by racing callers |
| merchant pricing, `x402/merchant/pricing.ts` | none | meterMerchantUsage | rounding, floors, missing readings |
| offer store, `x402/merchant/offer-store.ts` | offers with claims and expiry | put, claim, release, consume | capacity, expiry against a claim |
| payment context, `x402/context.ts` with `x402/store.ts` | one lifecycle entry per task | requestPayment, classify, verify, settle, publication | concurrent verifications; conditional updates after facilitator calls |
| batch attempts, `x402/batch-attempt.ts` | a queue of leases per storage | acquire, submit, accept, observe, quarantine | an unknown outcome must stop every waiter |
| request handler, `transport/request-handler.ts` | active executions | send, stream, resubscribe, get, cancel, push configuration | cancel against execute, terminal states, detached work |
| executor, `a2x/agent-executor.ts` | abort controllers per task | execute, executeStream, cancel | registration against abort |
| task store, `a2x/task-store.ts` | tasks | create, update, delete, list | terminal states are sticky; eviction |
| event bus, `a2x/task-event-bus.ts` | subscribers per task | publish, subscribe, close | no replay; close against subscribe |
| push notifications, `a2x/push-notification-*.ts` | configurations | set, get, list, delete, send | concurrent clients, lost answers, registration against the end of an execution |
| A2X client, `client/` | a resolved card, credentials and their generation | every method of either binding and version | one retry per failure kind; shared resolution, acquisition and refresh; a card that is out of date |
| bindings and mappers, `transport/to-a2x.ts`, `http-json-handler.ts`, `jsonrpc-router.ts`, `a2x/v*-*.ts` | a cached card | translation of requests, replies, streams and errors | two versions and two bindings must mean the same |
| x402 client, `x402/client.ts`, `payment.ts` | a durable record per payment channel | sign, mark, fold, retract, repair | a voucher whose outcome is unknown; a receipt that comes twice |
| LLM agent and runner, `agent/`, `runner/`, `provider/` | session histories | the loop of model and tool calls | aborts anywhere; conversations a vendor accepts; blocking and streaming turns that agree |
| CLI, `src/packages/cli/src/` | wallet, token and configuration files | commands | files replaced atomically |
| security schemes, `security/`, `client/auth-*.ts` | none that changes after start-up | declaration on a card, normalisation, application, checks | what a client makes of a card must be what the server takes |
| wire formats, skills | none that changes after start-up | tables, parsing | none of the above |

`PROJECT.json` lists each part with what is modelled and why the others are not.

How they interact: a host calls `MerchantGate.open` when a payment arrives,
`UptoSessionManager.reserveOpen` to claim the context for it, works, calls
`authorizeDelivery` before it publishes, `commitOpen` with the usage of the
first turn, `beginTurn` and `finishTurn` for later ones; timers, the budget or
the host close the session, and closing calls the gate's `settle` or `lapse`.
Only the store is shared between replicas.

On the agent's side the request handler owns no task: `message/send` and
`message/stream` run the executor on a snapshot, write every transition to the
task store themselves and publish on the event bus; `tasks/cancel` aborts the
executor's controllers and writes too; `tasks/resubscribe` reads the store and then
listens to the bus. The store and the map of active executions are what they share.

A merchant agent calls `MerchantGate.open` for every message. The gate and the payment
context work on two stores: the frozen offer, whose claim says which submission works, and
the lifecycle entry, which says how far the payment got. A client that is asked to pay
signs, submits and reads the receipt under a lease on its channel's storage; credentials
and the card are shared by all requests of a client. Both sides meet over two bindings
(JSON-RPC, HTTP+JSON) and two protocol versions (0.3, 1.0).

## Modules

- `UptoRecord` - the durable record and what is computed from it: metering
  (`MergeUsage`, `MeterUsage`), the projected charge, the usage given to the gate
  (`SettlementUsage`), the gate's own pricing (`ResolveMeteredCharge`), the timers a
  record calls for (`TimersFor`), and which record may be replaced (`Creatable`).
- `UptoSession` - `UptoSessionManager` and `InMemoryUptoSessionStore` for one
  context, with any number of replicas and calls. Each slot of `call` is a call in
  flight. A call is read (`get`), decide, write (`cas`, `create`, `delete`), and then
  what it asks of the gate; every await is a boundary between two steps. The
  operations of the class are the actions of the same name with a capital
  (`ReserveOpen`, `CommitOpen`, ...); `ReadX` is what the call decides when the store
  has answered, `WriteX` what its accepted write does, `LoseWrite` its refused write.
  `FireTimer`, `Recover`, `PurgeClosed`, `Tick` and `Crash` are the rest of the world.
  The gate's part (`GateLapse`, `GateLapsePublished`, `GateSettle`, `GateSettleDone`,
  `GateAuthorizeDelivery`, `ReadPublication`, `GateThrows`) follows
  `MerchantGate.lapse`, `settle` and `authorizeDelivery`, whose updates of the
  lifecycle entry are atomic.
- `UptoHold` - the promise without records, revisions or timers: one owner per
  context, at most one charge per authorization, void only if nothing was
  delivered, failed charges stay owned until released. `UptoSession` implements it
  (`KeepsPromise`, by the mapping `HoldOwner`, `HoldPhase`, `published`).
- `TaskRecord` - the stored task: what `updateTask` accepts (`Accepts`: no status after
  a terminal one) and does (`Apply`: artifacts are replaced).
- `TaskExecution` - the life of one task under any number of runs (`message/send`
  blocking or detached, `message/stream`), watchers (`tasks/resubscribe`) and cancels.
  A run goes through resolving (`Start`), accepting (`AcceptSend`, `BeginSend`,
  `BeginStream`), the executor and its agent (`CreateSession`, `AgentYields`,
  `TakeEvent`), and then either a stream's pump (`WriteEvent`, `PublishEvent`, and its
  endings `Exhausted`, `CancelOutcome`, `RetryWrite`, `FailOutcome`, `CloseBus`) or a
  send's outcome (`WriteOutcome` with its retries, `PublishOutcome`), and `Clear`.
  `Persist` is `_persistTaskState`. A cancel is `CancelRead`, `Abort`, `CancelWrite`; a
  watcher is `Resubscribe`, `Attach`, `ReadAgain`; `EndOfEvents` and `LastRead` end every stream.
- `PaymentEntry` - the lifecycle entry of one task and its conditional updates.
- `MerchantPayment` - `MerchantGate` and `X402Context` on one task: calls of `open` that
  offer, check for a replay, classify, verify, claim, audit and settle before work, what the
  host then does with its obligation (settle, abort, lapse), and publishers that ask
  `authorizeDelivery`. Each `pc` of a call is an await of the code; the facilitator's
  reservations and charges are external. `shown`, `unsaid` and `faults` are history.
- `ChannelRecord` - the client's record of a payment channel: what a signature, a receipt,
  a rejection, a quarantine and a repair make of it.
- `BatchChannel` - calls of `A2XClient` that pay over one channel storage: the queue of
  leases (`batch-attempt.ts`), signing, the durable mark before the request leaves, and
  every way an answer may come, or not. The merchant's figures are external.
- `ClientAuth` - requests of one client that share card resolution, acquisition and
  refresh of credentials, with a provider whose callbacks may call the client.
- `WireErrors`, `WireRequests`, `WireReplies` - the translations: errors by code, status
  and reason, requests of each operation by version and binding, replies and streams, each
  as the sender writes it and as the receiver reads it.
- `AuthSchemes` - security schemes as a card of either version declares them, the groups of
  credentials a client normalises them to (every choice of an OAuth flow, without those that
  need one header or cookie twice), where they go in a request, and what the server finds there.
- `AgentCards` - what a card says and what a client selects from it, and whether a
  request satisfies the card's security requirements and extensions.
- `PushRegistry` - the promise of the push notification methods: one registry, every call
  at one instant. `Exchange` implements it (`RegistryKept`).
- `Exchange` - clients, bindings, request handler and stores: a client resolves a card,
  writes a request, the listener finds the operation, the handler serves it, the client
  reads the reply; the server may be set up anew in between, and requests or answers be lost.
- `Conversation` - a session's history as messages, messages as each vendor's request, and
  each vendor's reply as a response.
- `ArtifactFold` - artifact ids, descriptors, and what the blocking and the streaming path
  collect, publish and store.
- `AgentRun` - turns of an LLM, custom or remote agent, the runner (`RunAsync`, `Relay`), both paths
  of the executor, which take the same events (`Take`, `Conclude`), and the request handler's loop:
  `pump` is what the executor has yielded, stored by `StoreNext`, published by `PublishNext`, and
  ended by `End`. A cancel's `Abort` comes between any two of these.
- `MCUptoSession`, `MCTaskExecution`, `MCMerchantPayment`, `MCBatchChannel`, `MCClientAuth`,
  `MCExchange`, `MCAgentRun` - values of the constants for the runs.
- `UptoSession_proofs` and `UptoMetering_proofs`, which extends it, `TaskExecution_proofs`,
  `MerchantPayment_proofs`, `BatchChannel_proofs`, `ClientAuth_proofs`, `Exchange_proofs`,
  `AgentRun_proofs` - the theorems.

Two variables of `UptoSession` are history: `ledger` (what the host was told was
metered or leased) and `bill` (how often, and for how much, `settle` was called).

### What the model leaves out, and why that is sound

- An accepted compare-and-set and the code after it up to the next await (arming
  timers, returning) are one step. With the in-memory store nothing else runs in
  between. A store whose answers are delivered out of order could interleave the
  `arm` of two calls; that is listed as an uncovered hazard.
- A read and the decision on it are one step, because the code awaits nothing
  between them. The read is therefore the moment the decision is taken; the time
  the store takes to deliver it is part of the window before the write.
- Amounts are atomic units and the rate is one unit per token, so detailed and
  total usage cannot be mixed here; the counter `turns`, the end reason kept on a
  closed record and the settlement's metadata are data no property tells apart.
- 100 lost writes in a row make the code give up; the model retries without end.
- One context is modelled. Contexts share nothing but the store's capacity.
- `stop` and the end of a process are both `Crash`: calls in flight and timers are gone.
- The reason `shutdown` of `closeAll` behaves as `manual`.
- One idle and one deadline timer per replica: the manager keeps one pair per context.
- Turn ids differ from task ids. The host chooses them; the code gives no meaning to a clash.

In `TaskExecution`:

- One task. A message that finds it terminal works on a new task, which is another instance.
- `input` stands for input-required and auth-required; an agent produces no `rejected`.
- An artifact is the run that made it and a number, so two runs never use the same
  artifact id; the text chunks of one artifact are one.
- A queue of undelivered events is reduced to the first status that ends a stream
  (`told`); an artifact counts as delivered when it is published to somebody who hears it.
- In the clean-up of a stream a status is written and published in one step (`LastStatus`),
  and `Exhausted` reads and publishes in one; nothing but the bus is touched in between.
- A refused or failed write and the read that follows it in `_persistTaskState` are one
  step, at the moment of the read.
- The last branch of the clean-up (request-handler.ts:1216, a CANCELED status without a
  failure) is unreachable: the pump leaves its loop ended, failed, or through `CancelOutcome`.
- Clients that disconnect, push notifications and their configuration are left out.
- Only writes fail. The plain reads of the store (request-handler.ts:970, :1108, :1254) answer, and a
  write that throws was not applied; one that is applied and throws all the same, which a remote store
  may do, is left out.
- The text that a streaming turn yields once more as a whole when it is done or returns
  (agent-executor.ts:393, :475) is one more write of the artifacts the last chunk left, and is folded into
  the write of the status behind it; `AgentRun` has it as a write of its own.

In `MerchantPayment`:

- One task and one offering. The terms a merchant changes meanwhile, `notAfter` and the
  content of offers and payments are data; a payment that fits no requirement is one message.
- Expiry of an offer or an entry happens only when no call is between its awaits: an offer
  lives for minutes.
- Markers of the work a batch payment covers, and metadata of a delivery, are left out.
- One fault, and not of every call: the claim, the cancellation, the release, the audit, the record of a
  settlement, the clean-up and the stored offering may fail. The reads, the conditional writes of
  `verify` (context.ts:623, :637) and the closing marker of a batch do not.
- Two refusals of `open` that need a facilitator or a configuration of their own are left out: a
  verification that asks to skip the handler of an exact or upto payment (gate.ts:216), and a batch
  payment without a resource server to cancel it (gate.ts:331). Both release the claim and refuse.
- `LateAsks` = FALSE keeps a message without payment from overlapping with a submission (the
  run `payment`); with TRUE `CompletedKept` fails, see below.

In `BatchChannel`:

- One channel and one storage object, in one process that may restart. Repairs of a record
  do not overlap with attempts: the code's documentation asks that of the operator.
- The lock around reconciliation makes a fold of the record one step.
- The merchant is honest: a prompt after a voucher means that it was rejected, unless the
  receipt comes along with it. Amounts are 0, 1 and 2 of a price of 2.
- That a waiting call gets its turn is checked as `LeaseInHand`: whoever holds the lease is
  a call that still runs.

In `ClientAuth`: a card always asks for credentials, normalised as in `AuthSchemes`, and a
send and a stream differ only in data. A provider that changes the objects it returned
before they are copied (a2x-client.ts:1546) is left out.

In `Exchange`:

- An execution is one step, and so are a cancel and its dispatch; `TaskExecution` has their
  interleavings. A canceled task has no artifacts.
- The stores outlive a new set-up of the server. A stream arrives whole or is lost.
- A message, an artifact and a webhook are a few fields each: those that a version or a
  binding treats differently. The overlay of an extended card is empty.
- `TaskNames` and `Assigned` bound how many tasks are made and how many ids the server makes up.
- A list has a limit and no pages; a body is never too large.
- A server with a webhook store has a sender too; without one request-handler.ts:877 dispatches nothing.
- What an application's provider holds does not change (`ClientAuth` has its refreshes); it
  returns the first alternative it can meet. Validators report the scopes of an OAuth or OpenID
  token. The limit of 256 alternatives is left out, no API key takes the name of a header the
  transport owns or of a query parameter, and no server asks for a cookie (see below).

In `AgentRun`:

- Both paths of the executor take the same events at once, and their last statuses are written
  in one step. A program runs one of them. What a stream writes and publishes before that, the other
  path does not have, and waits.
- Texts, arguments and results are left out; what a callback or a tool does, it does in one
  step, and any answer of it may be an exception.
- A turn that is aborted was canceled: a later write of the turn may find the status of the cancel and
  change nothing (`LastWrite`, `Overtaken`). The artifacts that the cancel's own write carries are in
  `TaskExecution`, where they are what `cancelloss` is about.
- No write fails here; `TaskExecution` has failing writes.
- The runner's push and the executor's reaction are one step: nothing is awaited between them
  (runner.ts:77, agent-executor.ts:285). The executor's yield, the awaited write and the
  publication are steps of their own.
- A session is kept from turn to turn only for an LLM agent; no other reads it.
- Only text artifacts have a name; descriptions, extensions and metadata merge like it.

`SlowStore` chooses between two worlds. When FALSE, a session is never closed,
forgotten or expired and opened again while another call is between its read and
its write: in one process that window is a few microtasks. When TRUE the store
may be slow enough for it, and since a new record starts at revision zero the
older call may then find "its" revision on another session's record. The
configuration `forget` shows what that does to `forgetClosed`.

## Runs

| Run | Instance | Shows |
|---|---|---|
| `turns` | 1 task, 1 turn, 2 host calls, 1 timer, readings missing, 0, 1; minimum 1, ceiling 2 | a session's record meters exactly what was acknowledged (`MeteredExactly`), the charge is the price of it (`ChargeCoversWork`), nothing owed lapses (`LapseOwesNothing`) |
| `contention` | 2 tasks compete, 2 host calls, 1 timer; gate calls and terminal writes may fail | ownership, funded sessions, truthful records, failed evidence kept, only closed records removed, refinement of `UptoHold` |
| `crash` | 2 replicas, each with a host call and a timer, crashes anywhere | no second settlement after restarts (`SettledAtMostOnce`) |
| `ends` | 1 host call, 2 turns, fair | no session stays settling, or overdue without a turn in flight, for ever |
| `handover` | 2 overlapping runs of any kind, 1 watcher, 1 cancel | whoever learns an ending learns the stored one (`OneOutcome`) |
| `followers` | 2 successive runs of any kind, 1 watcher, 1 artifact each, 1 failing write, eviction; fair | artifacts carry over (`TurnsKeepArtifacts`), failed writes are recovered or reported (`NotStranded`), every stream ends (`SubscribersEnd`) |
| `cancelloss` | 1 stream, 1 watcher, 1 cancel, 2 artifacts | violation, below |
| `payment` | 2 submissions of 2 payments or refusals, 1 publisher, every scheme and timing, restarts, expiry, 1 failure | money moves once (`PaidOnce`), one submission works (`OneWorker`), refusals leave no reservation, nothing is shown unpaid or let go once shown |
| `channel` | 2 calls, 3 attempts, 1 retry, charges 0 to 2, crashes, repairs, 1 storage failure | one voucher at risk (`OneAtRisk`), a record that lets sign is the merchant's (`RecordAgrees`), nobody signs behind an unknown outcome, a call pays once, leases are released |
| `credentials` | 3 requests, 4 callbacks, 3 generations, with and without async context; fair | only refused credentials are renewed, a retry carries newer ones, every request ends |
| `exchange` | 2 clients, 3 calls, 1 loss, four histories of a server (two bindings with a tenant, then requirements of several schemes and an extension; 0.3 then 1.0 with a key or a certificate; 1.0 then 0.3 with OpenID; neither store nor streams, then a requirement a client can meet) | the handler serves what was asked, clients read what it answered, nobody up to date is turned away, inline webhooks hear the end, refinement of `PushRegistry` |
| `agent` | 2 turns of an LLM agent of three vendors, a custom or a remote agent; 2 model calls, 1 interception, 3 pieces of custom content, aborts between any two steps | both paths make the same task (`PathsAgree`), nothing is lost, doubled or out of order, also while updates are in flight (`ContentOnce`), requests a vendor takes (`ToolsPaired`), after an abort only what was yielded is still written (`AbortTakesNoMore`) |

Bounds. `MaxRevision` stops the host from starting calls on a record written more
often than that (calls in flight go on): two suffice for a reservation, a lease or
commit, and a close, three for a postponed close with two turns. `MaxTime` stops the clock one tick
after the idle timer, and at or after the deadline, are due; time matters to the code only through comparisons with these
instants. Two host calls and a timer are enough for any pair of racing read-write
windows with a third that comes between. The clock and the host stop at their
bounds, so the runs do not check deadlock. Calls (and in `contention` tasks) are
symmetric in the runs that say so; the liveness runs use no symmetry.

Fairness (`Fairness`): an awaited call completes, an armed timer fires, time
passes. That is the event loop. Nothing is assumed of the host, which may lease a
turn and never finish it. In `TaskExecution` awaited work completes and agents come to
an end; nobody has to send, resubscribe or cancel.

Two runs are every pair of racing or successive executions; `MaxArtifacts` 1 or 2 is
an artifact of an earlier turn and one of this turn; one failing write reaches each
recovery path once (a fourth consecutive failure of a detached outcome does strand
the task, which the code logs). Runs may stop when nobody calls any more, so these
runs do not check deadlock either. `followers` uses no symmetry, since it checks liveness.

`payment`: two submissions are every race for a claim, and one failure or restart
reaches each recovery path once. `channel`: three attempts let two calls overlap while one
retries; a fourth would only lengthen the queue. `credentials`: three requests are one
that refreshes, one that waits for it and one that is late; three generations are
an acquisition and two refreshes. `exchange`: three calls are a message, a change by somebody
else and a look at the result. `agent`: two model calls are a round of tools and what the
model says to it, two turns are one that asks for input, or is kept, and its successor.
Model calls, callbacks and turns stop at these bounds, so none of the runs checks deadlock.
`ClientAuth` assumes that awaited work completes and the provider's callbacks return or throw.

### What disagrees with the documentation

`cancelloss` is a run. The others were met while modelling; each is a property of its module
(in parentheses) that a `.cfg` of the name given violates, and none of the runs relies on it.

- `deadline` (`DeadlineEnforced`): `arm` (session.ts:1033) drops a deadline timer that is due when a
  close is already requested. If the close request is written at or after
  `settleBy` and the turn it waits for hangs, the session stays open; the guide and two
  tests say the manager settles at the guard even if a turn is in flight.
- `forget` (`OnlyClosedRemoved` with `SlowStore`): `forgetClosed` (session.ts:572) identifies the record only by a revision
  that restarts with every session, so with a slow store it can delete a newer, live one.
- `cancelloss` (`CancelKeepsArtifacts`): `tasks/cancel` (request-handler.ts:1415) writes the artifacts it read
  before the abort over what the stream persisted and delivered since; the guide to
  task stores rules that out.
- `unaborted` (`NoWorkAfterCancel`): a cancel between a send's WORKING write (request-handler.ts:666) and the
  registration of the executor's controller is acknowledged, and the agent still
  runs without an abort, which the comment beside the write means to exclude.
- `finalworking` (`EndIsTold`): an aborted detached execution publishes `working` as a final status
  (request-handler.ts:784) before the cancel's own write, and a resubscriber ends on it.
- `lateask` (`CompletedKept`): a message without payment that passed the replay check stores
  a fresh offering (context.ts:408) over an entry that a submission completed meanwhile; two
  tests of the gate (x402-merchant-gate.test.ts:969 and :1229) expect a completed payment to stay.
- `inlineid` (`InlineConfigAccepted`): a v1.0 message whose inline webhook has no id fails with an
  internal error after its task was made (request-handler.ts:862 and :1597), while
  types/jsonrpc.ts:151 says that handlers assign an id when clients omit it.

Without a configuration of their own:

- `PaidOnce` excepts a settlement of unknown outcome whose marker another submission's
  failure replaces (context.ts:623 and :1001), which store.ts:86 means to stay.
- `ToolsPaired` excepts kept sessions whose tool calls did not follow a text one by one:
  event-history.ts:41 drops such a call, though its comment says "or create one".
- A remote agent relays the chunks of a streamed text and then the whole text, which an a2x server
  publishes at the end (remote-a2a-agent.ts:87), and ends as done when the remote task
  was canceled or asks for input.
- The listener of `toA2x` gives the schemes headers and the query, no cookies (to-a2x.ts:211), so a key
  that the card puts in a cookie (src/skills/a2x-agent-integration/wiki/security.md:13 lists that place)
  is never found there.
- Line 62 of that page gives a `tokenValidator` the required scopes. request-handler.ts:430 passes them to an `authenticate` of two or more declared parameters; the OAuth2 classes give theirs a default
  (oauth2-device-code.ts:99), which `length` does not count, so scopes are compared only if they are returned.
- A GET of `/tasks/{id}:subscribe` is served as a GET of the task named `{id}:subscribe`
  (http-json-handler.ts:160 matches first), although the comment at line 177 means to accept it as a
  subscription. No client here sends one.
- Answers of beforeModel callbacks do not count towards `maxLlmCalls` (llm-agent.ts:257).

## Proofs

Every theorem is about the specification that the runs check, for every value of its constants
that the named assumptions of its modules (`IdAssumption`, `CallAssumption`, ...) and
the hypotheses below admit. Each step of a system has a lemma; where many steps do
the same to an invariant, a lemma says what such a step leaves alone, and the steps cite it.

| Module | Theorem | Property | Hypothesis |
|---|---|---|---|
| `UptoSession_proofs` | `TypeCorrect` | `TypeOK` | |
| | `Ownership` | `OwnershipInv` | `~SlowStore` |
| | `NoDuplicateSettlement`, `ActiveSessionsAreFunded`, `RecordsAreTruthful` | `SettledAtMostOnce`, `ActiveHoldsUnspent`, `RecordTellsOutcome` | `~SlowStore` |
| | `EvidenceStays` | `EvidenceKept` (steps) | `~SlowStore` |
| | `OnlyClosedAreRemoved` | only closed records are removed, except by one delete of a slow store (steps) | |
| `UptoMetering_proofs` | `Metering` | `MeteringInv` | `~SlowStore` |
| | `ReadingsAreKept`, `ChargesAreDue`, `LapsesAreFree` | `MeteredExactly`, `ChargeCoversWork`, `LapseOwesNothing` | `~SlowStore` |
| | `ManagerKeepsPromise` | `KeepsPromise` (refinement of `UptoHold`) | `~SlowStore`, missing usage is priced |
| `TaskExecution_proofs` | `TypeCorrect`, `OneOutcomeForAll` | `TypeOK`, `OneOutcome` | |
| | `TurnsKeepWhatWasGiven` | `TurnsKeepArtifacts` | `~Overlap` |
| | `NobodyIsStranded` | `NotStranded` | at most one failed write |
| `MerchantPayment_proofs` | `TypeCorrect`, `ShownOnceSettled` | `TypeOK`, `SettledBeforeShown` | |
| | `OneWorks`, `MoneyMovesOnce`, `RefusalsHoldNothing` | `OneWorker`, `PaidOnce`, `RefusedHoldsNothing` | `~LateAsks` |
| | `ShownIsPaidFor` | `ShownIsNotVoid` | `~LateAsks` |
| | `OnlyOffersTakeBack` | a completed entry stays, except for a message without payment (steps) | |
| `BatchChannel_proofs` | `NeverTwoAtRisk`, `RecordMatches`, `SignsInTurn`, `PaysAtMostOnce`, `LeaseNeverLost` | `OneAtRisk`, `RecordAgrees`, `NoneSignsBehindRisk`, `CallPaysOnce`, `LeaseInHand` | |
| `ClientAuth_proofs` | `OnlyRefusedAreRenewed`, `RetriesAreNewer`, `NoCallbackWaitsForItself` | `RenewedWhenRefused`, `RetryIsNewer`, `NoCycle` | |
| `Exchange_proofs` | `InlineWebhooksHear`, `RequestsServedAsAsked` | `InlineConfigHears`, `ServedAsAsked` | |
| | `OneRegistry` | `RegistryKept` (refinement of `PushRegistry`) | |
| `AgentRun_proofs` | `BothPathsAgree`, `EachPieceOnce` | `PathsAgree`, `ContentOnce` | |
| | `AbortedTurnsStop` | `AbortTakesNoMore` (steps) | |
| | `ToolsAnswered` | `ToolsPaired` | |

None of these properties is inductive. What each proof adds, and why:

**Sessions.** `OwnershipInv` says who may still act: a call that is opening (`OpeningOK`)
has an unspent authorization that owns nothing; a write that would still match was decided
on the record it replaces (`WindowOK`); the call that moved a record to settling (`EndingOK`)
knows that record, and how far its authorization got; and no two calls end the same session
or open for the same task (`OneOwner`). Only a write changes the record; a write that matches
falls under `WindowOK`, which makes the writer the only ending call, and every other window's
revision is then too old. `~SlowStore` is needed exactly for the step that creates a
record: it makes every open window stale. `RecordMoves` sums up what a step may do to
the record (rewrite it under its task, open a new one over a replaceable one, remove
a closed one); `EvidenceKept` follows from it and from `HostForgets`: only the host deletes.
`OnlyClosedAreRemoved` covers the slow store as well, and says what is lost there: a step that removes an
open record is the delete of a `forgetClosed` that read a closed record (`Forgotten`), at a revision
that another session has reached since. Nothing else removes one, retention and recovery included; and
with `~SlowStore` not even that does.

**Metering.** The properties compare a record with `ledger` in its active state only,
while the charge is decided later, from what a call read. `MeteringInv` therefore relates the
ledger to the record in every state (`RecordTells`), to what every open window is about to
write, and to what an ending call carries to the gate. It stands on `OwnershipInv`: a window that
matches is the record it was opened on. The run `turns` checks the three properties
even with `SlowStore`, for one task; the proof does not cover a slow store.

**The promise.** `ManagerKeepsPromise` maps each step: one of the record is a step of the
owner, one of the gate a step of the phase, and never both. `Promised` adds what the mapping
hides: a hold that is charged was billed once (`ChargedIsBilled`), and a call about to publish
knows the session that holds its authorization (`DeliveryKnows`). With the policy that
refuses to price missing usage a session can end without its charge being asked for, for which
`UptoHold` has no step; the theorem is about the other two policies.

**Tasks.** A run may hold an ending it has written and not yet published, and a watcher
one it has read and not yet told. `Inv` adds that every terminal state held by a run (`seen`) or a
subscriber (`seen`, `told`) is the stored one: `_persistTaskState` returns what the
store then says or throws, and no step changes a stored ending (`PersistSound`, `Sticky`).
`TurnsInv` adds, for turns that follow each other (`OneTurn`), that what a run is going to write
holds all that was delivered (`Carries`): its own artifacts come on top of the record it
found, and a chunk is published after it was stored. `WorkInv` says of every
record that says "working" who still owes it a status, or who was given an error instead, and
what each run knows of failures so far (`RunSays`). It holds while the store fails at most once: with
two failures in a row the write of FAILED that follows a failed write fails as well, the
pump gives up, and the record stays "working" with nobody at work. The run
`followers` has that bound for the same reason.

**The gate.** `Local` is what a call, the entry, the queue and a publisher may be at each step
whatever the others do; `SettledBeforeShown` follows from it, with messages without payment at any
time. Who owns the entry is a second invariant, `Held`: a submission owns it from its claim to the
release or the clean-up (`Owns`, `OwnerFits`, `OneOwner`), everybody else's step leaves it
alone, and what was spent agrees with the marker the owner left (`Spent`). Steps fall into those of
the owner, of a call that asks, and of a bystander; the lemmas are by class. `ShownFits` and
`ReservedFits` add delivery and the payer's reservation. `~LateAsks` is the point where `lateask`
(above) disagrees with the documentation: a message without payment that passed the replay check
stores a fresh offering over another submission's entry, and then the owner is not
alone. `OnlyOffersTakeBack` needs no such assumption: it says of every behaviour that this write is
the only thing that takes a completed entry back, whatever else was on its way when it completed.

**The channel.** `InOrder`: attempts close in the order in which they queued, one that was closed
safely had every earlier one closed safely, the tail is the last open one, and an open node
belongs to a call that is at work or waits. `Accounted`: the record is blocked while a voucher is
at risk (`Guarded`), holds the merchant's figures when none is (`Figured`), and a holder that
signed or submitted finds it as it left it. At most one at risk follows, for any number of
calls and attempts.

**Credentials.** `IInv` fits every request to the generation (`RequestFits`): nobody carries
credentials not published yet, whoever waits for a refresh was refused with what is still
published unless the refresh runs already, and whoever goes out again finds newer ones.
`NoCycle`: a callback never waits for a call of its own that waits for it.

**Webhooks.** `HearInv`: between making a task and starting its execution, one call holds it
(`TasksHeld`), so that it neither runs nor ends before its webhook is registered; and until a
task ends its webhook is registered under its name, or marked as replaced (`Listening`). No
mapper and no parser is expanded: the result does not depend on what the requests say.

**Requests.** `AskInv` says what a call holds (`Fits`): a request on its way is what its client
writes for what was asked, with a card that one of the servers rendered, and a request that the server
has taken is `Understood`. So what has to be shown is about one request, and has three parts. A card of
either version tells a client a version, a binding and a tenant of an interface (`SelectedBound`); that
no tenant has the name of a route (`WorldsAssumption`) is what keeps a path readable. The route that a
server finds for a path is that of the operation, and what it collects from the path, the query
and the body are the parameters that the client had, but for a tenant (`RestCarries`); texts of different
numbers differ (`TextAssumption`). And each validator, of the version that the server speaks now, reads
from the parameters that a client of either version wrote what was asked for (`SendRead`, `TaskRead`,
`SetPushRead`, `PushRead`, `OtherRead`), or refuses. A v1.0 client names its version, so a v0.3 server
refuses it before its validators see anything (`RefusedNot`). `AsksAssumption` is what the methods of
`A2XClient` take: which fields an operation has, and that what is left out is none of the texts.

**The registry.** `PushRegistry` looks at what the clients asked, the server at what it read; with
`RequestsServedAsAsked` they are the same. Each step of `Exchange` then is one of the registry or
changes none of its state (`RegistryStep`). What the mapping needs besides is that no two webhooks of a
task have the same id (`UniqueIds`): replacing one then is replacing the one (`PutRegisters`), and
deleting the first one found deletes all (`RemoveUnregisters`). An id that the server makes up is no
webhook's (`FreshIsUnused`); a redeployment is the loss of all calls that were being served.

**Turns of an agent.** While a turn is at work both paths have collected the same. The store is at most one
update behind, and the subscriber one behind the store, so the invariant speaks of the stream as
it will be when the update in flight is stored and published (`Flow`; `Inv`: `Settled`, `Lagging`, `Pumping`):
storing or publishing it leaves that alone, and the next content adds to it. What is left of a turn keeps
both paths from ending differently, unless a cancel's status overtakes a write (`Finishing`). The id
that a path claims is the least
that is free, which exists because more ids were tried than are taken. Ids claimed in a turn are new, so
that merging the artifacts of the turn into the record appends them, and the whole text that a completed
stream sends once more replaces what its chunks made by the same; that a fold does so is shown from a
least counterexample, since the library's induction theorems are out of the provers' reach. `HoldsAll`
follows from what was appended, as a set of pieces and their order. `AbortedTurnsStop` follows
from the same invariant: the runner looks at the signal before it records an event, and the executor
before it ends a turn whose agent returned or threw, so that after an abort only `pump` can still reach
the store and the subscriber.

**Tools.** `Talk` relates the session, the contents and the tool loop. A result is recorded right
after its call (`Answers`), because the runner takes each event before the agent goes on (`Calls`,
`Answering`); so a session that can be replayed becomes a conversation in which a message of calls is
followed by one of their results and nothing else has results (`Balanced`, `HistoryBalanced`). The loop
keeps that of its contents together with the results it has and those still due (`Conv`), and asks the
model only when none is. `BalancedIsPaired` is about the three converters: whichever writes the blocks, the
keys of uses and of results agree at each boundary between messages (`KeysJoin`, `GoodUses`,
`GoodResults`). History and request are recursive functions over the prefixes of a sequence; that each
exists is shown once (`FoldExists`). `AnswerAssumption` types what a model or a callback may answer.

Model-checked only:

- liveness (`NoStuckSession`, `SubscribersEnd`, `RequestsEnd`): the prover handles
  neither fairness nor ENABLED;
- `AnswersUnderstood`, `NoneMisunderstood`: they are about what the translations of replies and of
  security schemes write, records built with `:>` and `@@`, which the prover has no encoding of.

## Not modelled

- The rules by which a client selects an offer (`x402/payment.ts`) and the pricing of tokens
  (`x402/merchant/pricing.ts`): arithmetic and choice without state. `auth/device-flow-client.ts`: a sequential loop of requests.
- Sequential, parallel and loop agents, `AgentTool` and `exit-loop` are placeholders at this commit.
- Skills are loaded once at start-up.
- The CLI is one process at a time; its files are read, changed and written back without a
  lock (token-store.ts:49), so two processes may lose one another's credentials.
- Capacity of the stores, 100 lost writes in a row, four failed writes of a detached outcome,
  mixing detailed and total usage of one session: out of reach of small instances.
- Two overlapping executions of one task merge into the artifacts they read at their start;
  the code promises nothing about them.

## Plan

1. Proofs: `AnswersUnderstood`, by the argument for requests;
   `NotStranded` for two failed writes that do not follow each other.
2. The gate steps of `UptoSession` shown to be what `MerchantPayment` does.
3. Rates and rounding of the pricing, and the client's choice of an offer, as operators against
   reference definitions.
