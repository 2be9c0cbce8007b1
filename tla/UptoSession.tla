----------------------------- MODULE UptoSession -----------------------------
(***************************************************************************)
(* UptoSessionManager over a shared UptoSessionStore: one A2A context, the  *)
(* payment holds that compete for it, and any number of manager calls in    *)
(* flight on several replicas.                                             *)
(*                                                                         *)
(* Every call reads the record, decides, and writes it back with a         *)
(* compare-and-set on the revision it read.  The read (with the decision,   *)
(* which awaits nothing) and the write are separate steps, so other calls,  *)
(* timers, the clock and crashes come between them.  A call that loses its  *)
(* write reads again.  What the MerchantGate does for a call (lapse,        *)
(* publicationStarted, settle, authorizeDelivery) is a step of its own.     *)
(***************************************************************************)
EXTENDS UptoRecord

CONSTANTS
  Replicas,        \* processes running a manager
  Calls,           \* slots for calls made by the host
  TimerCalls,      \* slots for calls made by timers and by recover()
  Home,            \* the replica each slot runs on
  Readings,        \* usage readings the host may report
  HostOps,         \* the operations the host calls
  SlowStore,       \* a session may be replaced within a read-write window
  FlakyStore,      \* a terminal write may be refused although nobody raced it
  GateMayFail,     \* gate calls may throw on lifecycle-store failures
  MayCrash,        \* replicas may stop
  MaxRevision,     \* bound: the host starts no call beyond this revision
  MaxTime          \* bound on the clock

Ops == {"none", "reserveOpen", "open", "commitOpen", "cancelOpen", "beginTurn",
        "finishTurn", "cancelTurn", "recordTurn", "close", "authorizeDelivery",
        "forgetClosed"}

ASSUME CallAssumption ==
  /\ Calls \cap TimerCalls = {}
  /\ Home \in [Calls \cup TimerCalls -> Replicas]
  /\ Readings \subseteq Nat \cup {Unreported}
  /\ {SlowStore, FlakyStore, GateMayFail, MayCrash} \subseteq BOOLEAN
  /\ HostOps \subseteq Ops \ {"none"}
  /\ MaxRevision \in Nat /\ MaxTime \in Nat

VARIABLES
  now,        \* the clock, in ticks
  store,      \* the durable record of the context
  timers,     \* per replica: the process-local timers
  call,       \* per slot: the call in flight
  hold,       \* per task: what the gate has done with the authorization
  published,  \* tasks whose delivery crossed the write-ahead boundary
  ledger,     \* history: what the host was told is metered or leased
  bill        \* history: gate.settle calls per task, and the amount asked

vars == <<now, store, timers, call, hold, published, ledger, bill>>
gateVars == <<hold, published, bill>>

Slots == Calls \cup TimerCalls

PCs == {"idle", "get", "create", "cas", "delete", "publication", "lapse", "settle",
        "settling", "terminal", "evidence", "evidenceCas", "restore", "restoreCas",
        "authorize"}

(* A call: the operation, where it is, its arguments, why it will close the *)
(* session, and the record it is about to write.                            *)
Frame ==
  {f \in [op : Ops, pc : PCs, task : Tasks \cup {None}, turn : Turns \cup {None},
          use : Nat \cup {Unreported}, reason : EndReasons \cup {None}, next : Record] :
     /\ f.op = "beginTurn" => f.turn \in Turns
     /\ f.pc = "authorize" => f.task \in Tasks}

Idle == [op |-> "none", pc |-> "idle", task |-> None, turn |-> None,
         use |-> Unreported, reason |-> None, next |-> NoRecord]

HoldStates == {"held", "void", "lapsed", "submitted", "settled", "failed"}

Entry == [total : Nat, missing : BOOLEAN, open : SUBSET TurnIds]
Invoice == [calls : Nat, amount : Nat \cup {Unreported}]

TypeOK ==
  /\ now \in Nat
  /\ store \in Record
  /\ timers \in [Replicas -> Timers]
  /\ call \in [Slots -> Frame]
  /\ hold \in [Tasks -> HoldStates]
  /\ published \in SUBSET Tasks
  /\ ledger \in [Tasks -> Entry]
  /\ bill \in [Tasks -> Invoice]

(* Every task starts with an authorization the gate has verified. *)
Init ==
  /\ now = 0
  /\ store = NoRecord
  /\ timers = [r \in Replicas |-> NoTimers]
  /\ call = [c \in Slots |-> Idle]
  /\ hold = [t \in Tasks |-> "held"]
  /\ published = {}
  /\ ledger = [t \in Tasks |-> [total |-> 0, missing |-> FALSE, open |-> {}]]
  /\ bill = [t \in Tasks |-> [calls |-> 0, amount |-> Unreported]]
-----------------------------------------------------------------------------
(* Where a call goes next. *)
Become(c, f) == call' = [call EXCEPT ![c] = f]
Return(c) == Become(c, Idle)
Starts(c, op) ==
  call[c].pc = "idle" /\ op \in HostOps /\ store.revision <= MaxRevision
At(c, pc) == call[c].pc = pc
CloseCall(reason) == [Idle EXCEPT !.op = "close", !.pc = "get", !.reason = reason]
Writing(f, r) ==
  [f EXCEPT !.pc = "cas", !.next = [r EXCEPT !.revision = store.revision + 1]]

Arm(c, r) == timers' = [timers EXCEPT ![Home[c]] = TimersFor(r, now)]
Disarm(c) == timers' = [timers EXCEPT ![Home[c]] = NoTimers]

(* Mutant: the write does not compare revisions. *)
MatchesAny(f) == store.state # "absent"

(* compareAndSet and delete succeed only at the revision the caller read. *)
Matches(f) == store.state # "absent" /\ store.revision = f.next.revision - 1

(* Other calls' windows when c creates a record.  In one process a window is *)
(* a few microtasks, shorter than a session, so a write that spans a          *)
(* replacement finds another revision; a slow store lets it find the same.   *)
CreatedBy(c, f) ==
  call' = [d \in Slots |->
             CASE d = c -> f
               [] d # c /\ ~SlowStore /\ call[d].pc \in {"cas", "delete"} ->
                    [call[d] EXCEPT !.next = NoRecord]
               [] OTHER -> call[d]]
-----------------------------------------------------------------------------
(* Reads: the store answers, and the call decides without awaiting anything. *)

(* Mutant: a repeated reservation is refused like a foreign one. *)
ReadReserveOpenOnce(c, f) ==
  /\ \/ /\ store.state # "absent" /\ ~Reconciled(store)
        /\ Become(c, [f EXCEPT !.pc = "lapse"])
     \/ /\ store.state = "absent" \/ Reconciled(store)
        /\ Become(c, [f EXCEPT !.pc = "create"])
  /\ UNCHANGED timers

ReadReserveOpen(c, f) ==
  LET other == store.state # "absent" /\ store.taskId # f.task
      duplicate == store.state # "absent" /\ store.taskId = f.task
      refused == other /\ ~Reconciled(store)
  IN
  /\ \/ /\ duplicate
        /\ Return(c)
     \/ /\ ~duplicate
        /\ refused \/ PastSettleBy(f.next, now)
        /\ Become(c, [f EXCEPT !.pc = "lapse"])
     \/ /\ ~duplicate
        /\ ~refused /\ ~PastSettleBy(f.next, now)
        /\ Become(c, [f EXCEPT !.pc = "create"])
  /\ UNCHANGED timers

ReadBeginTurn(c, f) ==
  LET overdue == store.state = "active" /\ PastSettleBy(store, now)
      open == /\ store.state = "active" /\ ~overdue
              /\ ~HasPendingOpen(store) /\ store.closeRequested = None
      fresh == f.turn \notin store.completed \cup store.pending
  IN
  /\ \/ /\ overdue
        /\ Become(c, CloseCall("deadline"))
     \/ /\ ~overdue /\ ~(open /\ fresh)
        /\ Return(c)
     \/ /\ open /\ fresh
        /\ Become(c, Writing(f, [store EXCEPT !.pending = @ \cup {f.turn},
                                              !.lastTurnAt = now]))
  /\ UNCHANGED timers

(* applyUsage: commitOpen, finishTurn and recordTurn. *)
LeaseOf(f) == CASE f.op = "commitOpen" -> {f.task}
                [] f.op = "finishTurn" -> {f.turn}
                [] OTHER -> {}

AcceptsUsage(f) ==
  /\ store.state = "active"
  /\ f.op = "commitOpen" => store.taskId = f.task
  /\ HasPendingOpen(store) => f.op = "commitOpen"
  /\ LeaseOf(f) \cap store.completed = {}
  /\ LeaseOf(f) \subseteq store.pending

UsageTrigger(r) ==
  CASE r.incomplete -> "usage-unreported"
    [] ~r.incomplete /\ ProjectedCharge(r) >= MaxAmount -> "budget-exhausted"
    [] ~r.incomplete /\ ProjectedCharge(r) < MaxAmount /\ PastSettleBy(r, now) -> "deadline"
    [] OTHER -> r.closeRequested

ReadApplyUsage(c, f) ==
  LET draft == [MergeUsage(store, f.use) EXCEPT
                  !.pending = @ \ LeaseOf(f),
                  !.completed = @ \cup LeaseOf(f),
                  !.lastTurnAt = now]
      trigger == UsageTrigger(draft)
      next == IF trigger # None /\ draft.pending # {} /\ draft.closeRequested = None
                THEN [draft EXCEPT !.closeRequested = trigger] ELSE draft
  IN
  /\ \/ /\ ~AcceptsUsage(f)
        /\ Return(c)
     \/ /\ AcceptsUsage(f)
        /\ Become(c, Writing([f EXCEPT !.reason = trigger], next))
  /\ UNCHANGED timers

ReadCancelTurn(c, f) ==
  /\ \/ /\ store.state # "active" \/ f.turn \notin store.pending
        /\ Return(c)
     \/ /\ store.state = "active" /\ f.turn \in store.pending
        /\ Become(c, Writing(f, [store EXCEPT !.pending = @ \ {f.turn}]))
  /\ UNCHANGED timers

(* The close request in force is kept aside: a restored opener gets it back. *)
ReadCancelOpen(c, f) ==
  LET mine == store.state # "absent" /\ store.taskId = f.task /\ HasPendingOpen(store) IN
  /\ \/ /\ ~mine
        /\ Return(c)
     \/ /\ mine
        /\ Become(c, Writing([f EXCEPT !.reason = store.closeRequested],
                             [store EXCEPT !.state = "settling",
                                           !.closeRequested = None]))
  /\ UNCHANGED timers

(* Mutants: close() takes up a record somebody is already settling; or it     *)
(* closes over turns in flight without marking their usage as missing.        *)
Settling(f, r) ==
  Writing([f EXCEPT !.task = r.taskId],
          [r EXCEPT !.state = "settling", !.closeRequested = None])
ReadCloseResumes(c, f) ==
  /\ \/ store.state \in {"absent", "closed"} /\ Return(c)
     \/ store.state \in {"active", "settling"} /\ Become(c, Settling(f, store))
  /\ UNCHANGED timers
(* close(): a trigger that is not due re-arms; an in-flight turn postpones   *)
(* every close but the deadline's; otherwise the session starts settling.    *)
ReadClose(c, f) ==
  LET early == /\ store.closeRequested = None
               /\ \/ f.reason = "idle" /\ ~IdleDue(store, now)
                  \/ f.reason = "deadline" /\ ~PastSettleBy(store, now)
      deadline == f.reason = "deadline" \/ PastSettleBy(store, now)
      waits == store.pending # {} /\ ~deadline
  IN
  \/ /\ store.state # "active"
     /\ Return(c)
     /\ UNCHANGED timers
  \/ /\ store.state = "active" /\ early
     /\ Return(c)
     /\ Arm(c, store)
  \/ /\ store.state = "active" /\ ~early /\ waits
     /\ Become(c, Writing(f, [store EXCEPT !.closeRequested =
                                IF @ = None THEN f.reason ELSE @]))
     /\ UNCHANGED timers
  \/ /\ store.state = "active" /\ ~early /\ ~waits
     /\ Become(c, Writing([f EXCEPT !.task = store.taskId],
                          [store EXCEPT !.state = "settling",
                                        !.incomplete = @ \/ store.pending # {},
                                        !.closeRequested = None]))
     /\ UNCHANGED timers

ReadAuthorizeDelivery(c, f) ==
  LET live == /\ store.taskId # None /\ store.state = "active"
              /\ store.closeRequested = None /\ ~PastSettleBy(store, now)
  IN
  /\ \/ ~live /\ Return(c)
     \/ /\ live
        /\ Become(c, [f EXCEPT !.pc = "authorize", !.task = store.taskId, !.next = store])
  /\ UNCHANGED timers

(* Mutant: the record's state is not looked at. *)
ReadForgetAny(c, f) ==
  /\ \/ store.state = "absent" /\ Return(c)
     \/ store.state # "absent" /\ Become(c, [Writing(f, store) EXCEPT !.pc = "delete"])
  /\ UNCHANGED timers

ReadForgetClosed(c, f) ==
  /\ \/ store.state # "closed" /\ Return(c)
     \/ /\ store.state = "closed"
        /\ Become(c, [Writing(f, store) EXCEPT !.pc = "delete"])
  /\ UNCHANGED timers

(* A call that lost its write reads and decides again. *)
Retry(c) ==
  /\ At(c, "get")
  /\ \/ call[c].op = "reserveOpen" /\ ReadReserveOpen(c, call[c])
     \/ call[c].op = "beginTurn" /\ ReadBeginTurn(c, call[c])
     \/ call[c].op \in {"commitOpen", "finishTurn", "recordTurn"} /\ ReadApplyUsage(c, call[c])
     \/ call[c].op = "cancelTurn" /\ ReadCancelTurn(c, call[c])
     \/ call[c].op = "cancelOpen" /\ ReadCancelOpen(c, call[c])
     \/ call[c].op = "close" /\ ReadClose(c, call[c])
  /\ UNCHANGED <<now, store, gateVars, ledger>>
-----------------------------------------------------------------------------
(* The host's calls: each starts with its first read. *)

NewCall(op) == [Idle EXCEPT !.op = op, !.pc = "get"]

(* The gate hands an obligation to one caller: while a task opens a session, *)
(* or after its hold is resolved, no second opening call is made for it.     *)
MayOpen(t) ==
  /\ hold[t] = "held"
  /\ \A d \in Slots : call[d].op \in {"reserveOpen", "open"} => call[d].task # t

ReserveOpen(c, t) ==
  /\ Starts(c, "reserveOpen") /\ MayOpen(t)
  /\ ReadReserveOpen(c, [NewCall("reserveOpen") EXCEPT
                           !.task = t, !.next = DraftOpenRecord(t, now, TRUE)])
  /\ UNCHANGED <<now, store, gateVars, ledger>>

(* open(): the record carries its first reading, and a trigger at once. *)
Open(c, t, u) ==
  LET draft == MergeUsage(DraftOpenRecord(t, now, FALSE), u) IN
  /\ Starts(c, "open") /\ MayOpen(t) /\ store.taskId # t
  /\ Become(c, [NewCall("open") EXCEPT
                  !.pc = "create", !.task = t, !.use = u,
                  !.reason = UsageTrigger(draft),
                  !.next = [draft EXCEPT !.closeRequested = UsageTrigger(draft)]])
  /\ UNCHANGED <<now, store, timers, gateVars, ledger>>

CommitOpen(c, t, u) ==
  /\ Starts(c, "commitOpen")
  /\ ReadApplyUsage(c, [NewCall("commitOpen") EXCEPT !.task = t, !.use = u])
  /\ UNCHANGED <<now, store, gateVars, ledger>>

CancelOpen(c, t) ==
  /\ Starts(c, "cancelOpen")
  /\ ReadCancelOpen(c, [NewCall("cancelOpen") EXCEPT !.task = t])
  /\ UNCHANGED <<now, store, gateVars, ledger>>

BeginTurn(c, m) ==
  /\ Starts(c, "beginTurn")
  /\ ReadBeginTurn(c, [NewCall("beginTurn") EXCEPT !.turn = m])
  /\ UNCHANGED <<now, store, gateVars, ledger>>

FinishTurn(c, m, u) ==
  /\ Starts(c, "finishTurn")
  /\ ReadApplyUsage(c, [NewCall("finishTurn") EXCEPT !.turn = m, !.use = u])
  /\ UNCHANGED <<now, store, gateVars, ledger>>

CancelTurn(c, m) ==
  /\ Starts(c, "cancelTurn")
  /\ ReadCancelTurn(c, [NewCall("cancelTurn") EXCEPT !.turn = m])
  /\ UNCHANGED <<now, store, gateVars, ledger>>

RecordTurn(c, u) ==
  /\ Starts(c, "recordTurn")
  /\ ReadApplyUsage(c, [NewCall("recordTurn") EXCEPT !.use = u])
  /\ UNCHANGED <<now, store, gateVars, ledger>>

(* close() by the host; closeAll() makes the same call for a listed record. *)
Close(c) ==
  /\ Starts(c, "close")
  /\ ReadClose(c, CloseCall("manual"))
  /\ UNCHANGED <<now, store, gateVars, ledger>>

AuthorizeDelivery(c) ==
  /\ Starts(c, "authorizeDelivery")
  /\ ReadAuthorizeDelivery(c, NewCall("authorizeDelivery"))
  /\ UNCHANGED <<now, store, gateVars, ledger>>

ForgetClosed(c) ==
  /\ Starts(c, "forgetClosed")
  /\ ReadForgetClosed(c, NewCall("forgetClosed"))
  /\ UNCHANGED <<now, store, gateVars, ledger>>
-----------------------------------------------------------------------------
(* Writes. *)

(* What the host knows once its reading is acknowledged. *)
Metered(l, u, lease) ==
  [total |-> l.total + Larger(u, 0), missing |-> l.missing \/ u = Unreported,
   open |-> l.open \ lease]

Create(c) ==
  LET f == call[c] IN
  /\ At(c, "create") /\ f.op \in {"reserveOpen", "open"}
  /\ \/ /\ Creatable(store)
        /\ store' = f.next
        /\ \/ /\ f.op = "reserveOpen"
              /\ CreatedBy(c, Idle)
              /\ ledger' = [ledger EXCEPT ![f.task].open = @ \cup {f.task}]
              /\ UNCHANGED timers
           \/ /\ f.op = "open"
              /\ ledger' = [ledger EXCEPT ![f.task] = Metered(@, f.use, {})]
              /\ \/ /\ f.reason # None
                    /\ CreatedBy(c, CloseCall(f.reason))
                    /\ UNCHANGED timers
                 \/ /\ f.reason = None
                    /\ CreatedBy(c, Idle)
                    /\ Arm(c, f.next)
     \/ /\ ~Creatable(store)
        /\ Become(c, [f EXCEPT !.pc = IF f.op = "open" THEN "lapse" ELSE "get"])
        /\ UNCHANGED <<store, timers, ledger>>
  /\ UNCHANGED <<now, gateVars>>

LoseWrite(c) ==
  /\ At(c, "cas") /\ ~Matches(call[c])
  /\ Become(c, [call[c] EXCEPT !.pc = "get", !.next = NoRecord])
  /\ UNCHANGED <<now, store, timers, gateVars, ledger>>

WriteBeginTurn(c) ==
  LET f == call[c] IN
  /\ At(c, "cas") /\ f.op = "beginTurn" /\ Matches(f)
  /\ store' = f.next
  /\ ledger' = [ledger EXCEPT ![store.taskId].open = @ \cup {f.turn}]
  /\ Arm(c, f.next)
  /\ Return(c)
  /\ UNCHANGED <<now, gateVars>>

WriteApplyUsage(c) ==
  LET f == call[c]
      triggered == f.reason # None /\ (f.next.pending = {} \/ f.reason = "deadline")
  IN
  /\ At(c, "cas") /\ f.op \in {"commitOpen", "finishTurn", "recordTurn"} /\ Matches(f)
  /\ store' = f.next
  /\ ledger' = [ledger EXCEPT ![store.taskId] = Metered(@, f.use, LeaseOf(f))]
  /\ \/ /\ triggered
        /\ Become(c, CloseCall(f.reason))
        /\ UNCHANGED timers
     \/ /\ ~triggered
        /\ Return(c)
        /\ Arm(c, f.next)
  /\ UNCHANGED <<now, gateVars>>

(* Mutant: the close that waited for the last turn is not started. *)
WriteCancelTurnOnly(c) ==
  LET f == call[c] IN
  /\ At(c, "cas") /\ f.op = "cancelTurn" /\ Matches(f)
  /\ store' = f.next
  /\ ledger' = [ledger EXCEPT ![store.taskId].open = @ \ {f.turn}]
  /\ Return(c)
  /\ Arm(c, f.next)
  /\ UNCHANGED <<now, gateVars>>

WriteCancelTurn(c) ==
  LET f == call[c]
      last == f.next.pending = {} /\ f.next.closeRequested # None
  IN
  /\ At(c, "cas") /\ f.op = "cancelTurn" /\ Matches(f)
  /\ store' = f.next
  /\ ledger' = [ledger EXCEPT ![store.taskId].open = @ \ {f.turn}]
  /\ \/ /\ last
        /\ Become(c, CloseCall(f.next.closeRequested))
        /\ UNCHANGED timers
     \/ /\ ~last
        /\ Return(c)
        /\ Arm(c, f.next)
  /\ UNCHANGED <<now, gateVars>>

WriteCancelOpen(c) ==
  LET f == call[c] IN
  /\ At(c, "cas") /\ f.op = "cancelOpen" /\ Matches(f)
  /\ store' = f.next
  /\ Disarm(c)
  /\ Become(c, [f EXCEPT !.pc = "lapse"])
  /\ UNCHANGED <<now, gateVars, ledger>>

WriteClose(c) ==
  LET f == call[c] IN
  /\ At(c, "cas") /\ f.op = "close" /\ Matches(f)
  /\ store' = f.next
  /\ \/ /\ f.next.state = "active"
        /\ Return(c)
        /\ Arm(c, f.next)
     \/ /\ f.next.state = "settling"
        /\ Become(c, [f EXCEPT !.pc = "publication"])
        /\ Disarm(c)
  /\ UNCHANGED <<now, gateVars, ledger>>

DeleteClosed(c) ==
  /\ At(c, "delete")
  /\ store' = IF Matches(call[c]) THEN NoRecord ELSE store
  /\ Return(c)
  /\ UNCHANGED <<now, timers, gateVars, ledger>>
-----------------------------------------------------------------------------
(* The gate. *)

Closed(r, how) == [r EXCEPT !.state = "closed", !.revision = @ + 1, !.settlement = how]

(* Mutant: only the known total is looked at before an authorization lapses. *)
ReadPublicationByTotal(c) ==
  LET f == call[c] IN
  /\ At(c, "publication")
  /\ Become(c, [f EXCEPT !.pc = IF f.next.usage = 0 /\ f.task \notin published
                                   THEN "lapse" ELSE "settle"])
  /\ UNCHANGED <<now, store, timers, gateVars, ledger>>

(* close() lapses only a session that owes nothing and delivered nothing. *)
ReadPublication(c) ==
  LET f == call[c]
      owesNothing == /\ ProjectedCharge(f.next) = 0 /\ f.next.pending = {}
                     /\ ~f.next.incomplete /\ f.task \notin published
  IN
  /\ At(c, "publication")
  /\ Become(c, [f EXCEPT !.pc = IF owesNothing THEN "lapse" ELSE "settle"])
  /\ UNCHANGED <<now, store, timers, gateVars, ledger>>

(* A charge refused before anything was submitted leaves the lifecycle entry  *)
(* verified; any other outcome ends it.                                      *)
Refused(t) == hold[t] = "failed" /\ bill[t].amount = Unreported
Ended(t) == hold[t] \in {"settled", "failed"} /\ ~Refused(t)

(* Either call may throw and change nothing: the lifecycle store failed, or  *)
(* delivery cannot be closed because the payment has its outcome already.    *)
GateThrows(c) ==
  /\ \/ GateMayFail /\ call[c].pc \in {"publication", "lapse"}
     \/ /\ At(c, "lapse") /\ call[c].task \notin published
        /\ Ended(call[c].task)
  /\ Return(c)
  /\ UNCHANGED <<now, store, timers, gateVars, ledger>>

GateLapse(c) ==
  LET f == call[c] IN
  /\ At(c, "lapse") /\ f.task \notin published
  /\ ~Ended(f.task)
  /\ \/ /\ hold' = [hold EXCEPT ![f.task] = "lapsed"]
        /\ Become(c, IF f.op \in {"close", "cancelOpen"}
                       THEN [f EXCEPT !.pc = "terminal",
                                      !.next = Closed([f.next EXCEPT !.pending =
                                                 IF f.op = "cancelOpen" THEN {} ELSE @],
                                                      "lapsed")]
                       ELSE Idle)
     \/ /\ GateMayFail                       \* closed, but cleanup did not complete
        /\ hold' = [hold EXCEPT ![f.task] = "void"]
        /\ Return(c)
  /\ UNCHANGED <<now, store, timers, published, bill, ledger>>

(* MerchantDeliveryPublishedError. *)
GateLapsePublished(c) ==
  LET f == call[c] IN
  /\ At(c, "lapse") /\ f.task \in published
  /\ Become(c, CASE f.op = "close" -> [f EXCEPT !.pc = "settle"]
                 [] f.op = "cancelOpen" -> [f EXCEPT !.pc = "restore"]
                 [] OTHER -> Idle)
  /\ UNCHANGED <<now, store, timers, gateVars, ledger>>

GateSettle(c) ==
  LET f == call[c]
      amount == ResolveMeteredCharge(SettlementUsage(f.next))
  IN
  /\ At(c, "settle")
  /\ bill' = [bill EXCEPT ![f.task] = [calls |-> @.calls + 1, amount |-> amount]]
  /\ hold' = [hold EXCEPT ![f.task] = "submitted"]
  /\ Become(c, [f EXCEPT !.pc = "settling"])
  /\ UNCHANGED <<now, store, timers, published, ledger>>

(* Mutant: the record calls every outcome settled. *)
GateSettleDoneHopeful(c) ==
  LET f == call[c] IN
  /\ At(c, "settling")
  /\ \E how \in {"settled", "failed"} :
       /\ bill[f.task].amount = Unreported => how = "failed"
       /\ hold' = [hold EXCEPT ![f.task] = how]
       /\ Become(c, [f EXCEPT !.pc = "terminal", !.next = Closed(f.next, "settled")])
  /\ UNCHANGED <<now, store, timers, published, bill, ledger>>

GateSettleDone(c) ==
  LET f == call[c] IN
  /\ At(c, "settling")
  /\ \E how \in {"settled", "failed"} :
       /\ bill[f.task].amount = Unreported => how = "failed"
       /\ hold' = [hold EXCEPT ![f.task] = how]
       /\ Become(c, [f EXCEPT !.pc = "terminal", !.next = Closed(f.next, how)])
  /\ UNCHANGED <<now, store, timers, published, bill, ledger>>

(* Mutant: the boundary is crossed on an authorization already given up. *)
GateAuthorizeAnyDelivery(c) ==
  LET f == call[c] IN
  /\ At(c, "authorize")
  /\ published' = published \cup {f.task}
  /\ Return(c)
  /\ UNCHANGED <<now, store, timers, hold, bill, ledger>>

(* The publication boundary: atomic against lapse, and bounded by settleBy. *)
GateAuthorizeDelivery(c) ==
  LET f == call[c]
      authorized == /\ hold[f.task] \in {"held", "submitted", "settled"} \/ Refused(f.task)
                    /\ ~PastSettleBy(f.next, now)
  IN
  /\ At(c, "authorize")
  /\ published' = IF authorized THEN published \cup {f.task} ELSE published
  /\ Return(c)
  /\ UNCHANGED <<now, store, timers, hold, bill, ledger>>
-----------------------------------------------------------------------------
(* The terminal record, and what is done when it cannot be written. *)

WriteTerminal(c) ==
  /\ At(c, "terminal") /\ Matches(call[c])
  /\ store' = call[c].next
  /\ Return(c)
  /\ UNCHANGED <<now, timers, gateVars, ledger>>

LoseTerminal(c) ==
  LET f == call[c] IN
  /\ At(c, "terminal") /\ (~Matches(f) \/ FlakyStore)
  /\ Become(c, IF f.op = "close" THEN [f EXCEPT !.pc = "evidence"] ELSE Idle)
  /\ UNCHANGED <<now, store, timers, gateVars, ledger>>

Unresolved(t) == store.state = "settling" /\ store.taskId = t /\ store.settlement = "none"

ReadEvidence(c) ==
  LET f == call[c] IN
  /\ At(c, "evidence")
  /\ Become(c, IF Unresolved(f.task)
                 THEN [Writing(f, [store EXCEPT !.settlement = f.next.settlement])
                         EXCEPT !.pc = "evidenceCas"]
                 ELSE Idle)
  /\ UNCHANGED <<now, store, timers, gateVars, ledger>>

WriteEvidence(c) ==
  /\ At(c, "evidenceCas")
  /\ store' = IF Matches(call[c]) THEN call[c].next ELSE store
  /\ Return(c)
  /\ UNCHANGED <<now, timers, gateVars, ledger>>

ReadRestore(c) ==
  LET f == call[c] IN
  /\ At(c, "restore")
  /\ Become(c, IF Unresolved(f.task)
                 THEN [Writing(f, [store EXCEPT !.state = "active",
                                                !.closeRequested = f.reason])
                         EXCEPT !.pc = "restoreCas"]
                 ELSE Idle)
  /\ UNCHANGED <<now, store, timers, gateVars, ledger>>

WriteRestore(c) ==
  LET f == call[c] IN
  /\ At(c, "restoreCas")
  /\ store' = IF Matches(f) THEN f.next ELSE store
  /\ timers' = IF Matches(f)
                 THEN [timers EXCEPT ![Home[c]] = TimersFor(f.next, now)] ELSE timers
  /\ Return(c)
  /\ UNCHANGED <<now, gateVars, ledger>>
-----------------------------------------------------------------------------
(* Timers, recovery, retention, the clock and crashes. *)

FireTimer(c) ==
  LET r == Home[c] IN
  /\ call[c].pc = "idle"
  /\ \E which \in {"idle", "deadline"} :
       /\ timers[r][which] # Never /\ now >= timers[r][which]
       /\ timers' = [timers EXCEPT ![r][which] = Never]
       /\ Become(c, CloseCall(which))
  /\ UNCHANGED <<now, store, gateVars, ledger>>

(* recover() lists the record; anything in flight is left to the host. *)
Recover(c) ==
  LET reason == CASE store.closeRequested # None -> store.closeRequested
                  [] store.closeRequested = None /\ PastSettleBy(store, now) -> "deadline"
                  [] store.closeRequested = None /\ ~PastSettleBy(store, now)
                       /\ IdleDue(store, now) -> "idle"
                  [] OTHER -> None
  IN
  /\ call[c].pc = "idle"
  /\ store.state = "active" /\ store.pending = {}
  /\ \/ /\ reason # None
        /\ Become(c, CloseCall(reason))
        /\ UNCHANGED timers
     \/ /\ reason = None
        /\ Arm(c, store)
        /\ UNCHANGED call
  /\ UNCHANGED <<now, store, gateVars, ledger>>

(* Retention: a reconciled record expires, a failed one stays. *)
PurgeClosed ==
  /\ Reconciled(store)
  /\ store' = NoRecord
  /\ UNCHANGED <<now, timers, call, gateVars, ledger>>

Tick ==
  /\ now < MaxTime
  /\ now' = now + 1
  /\ UNCHANGED <<store, timers, call, gateVars, ledger>>

Crash(r) ==
  /\ MayCrash
  /\ call' = [c \in Slots |-> IF Home[c] = r THEN Idle ELSE call[c]]
  /\ timers' = [timers EXCEPT ![r] = NoTimers]
  /\ UNCHANGED <<now, store, gateVars, ledger>>
-----------------------------------------------------------------------------
HostStep(c) ==
  \/ \E t \in Tasks : ReserveOpen(c, t) \/ CancelOpen(c, t)
  \/ \E t \in Tasks, u \in Readings : Open(c, t, u) \/ CommitOpen(c, t, u)
  \/ \E m \in Turns : BeginTurn(c, m) \/ CancelTurn(c, m)
  \/ \E m \in Turns, u \in Readings : FinishTurn(c, m, u)
  \/ \E u \in Readings : RecordTurn(c, u)
  \/ Close(c) \/ AuthorizeDelivery(c) \/ ForgetClosed(c)

(* What a call in flight does next. *)
CallStep(c) ==
  \/ Retry(c) \/ Create(c) \/ LoseWrite(c)
  \/ WriteBeginTurn(c) \/ WriteApplyUsage(c) \/ WriteCancelTurn(c)
  \/ WriteCancelOpen(c) \/ WriteClose(c) \/ DeleteClosed(c)
  \/ ReadPublication(c) \/ GateThrows(c) \/ GateLapse(c) \/ GateLapsePublished(c)
  \/ GateSettle(c) \/ GateSettleDone(c) \/ GateAuthorizeDelivery(c)
  \/ WriteTerminal(c) \/ LoseTerminal(c) \/ ReadEvidence(c) \/ WriteEvidence(c)
  \/ ReadRestore(c) \/ WriteRestore(c)

Next ==
  \/ \E c \in Calls : HostStep(c)
  \/ \E c \in Slots : CallStep(c)
  \/ \E c \in TimerCalls : FireTimer(c) \/ Recover(c)
  \/ PurgeClosed \/ Tick
  \/ \E r \in Replicas : Crash(r)

Spec == Init /\ [][Next]_vars

(* Awaited work completes, armed timers fire and time passes.  Nothing is   *)
(* assumed of the host: it may never finish a turn it leased.               *)
Fairness ==
  /\ \A c \in Slots : WF_vars(CallStep(c))
  /\ \A c \in TimerCalls : WF_vars(FireTimer(c))
  /\ WF_vars(Tick)

FairSpec == Spec /\ Fairness
-----------------------------------------------------------------------------
(* Metering survives every interleaving: while a session is active, its      *)
(* record holds exactly the readings whose calls were acknowledged, whether  *)
(* one of them was missing, and the leases that were granted and not given   *)
(* back.  Guards the read-modify-write of applyUsage, beginTurn, cancelTurn. *)
MeteredExactly ==
  store.state = "active" =>
    LET l == ledger[store.taskId] IN
    /\ Larger(store.usage, 0) = l.total
    /\ store.incomplete = l.missing
    /\ store.pending = l.open

(* What the acknowledged work of a task costs under its frozen pricing. *)
AmountDue(l) ==
  LET priced == Larger(MeterUsage(l.total), 0)
      known == ~l.missing /\ l.open = {}
  IN
  CASE known -> Smaller(priced, MaxAmount)
    [] ~known /\ UnreportedUsage = "ceiling" -> MaxAmount
    [] ~known /\ UnreportedUsage = "floor" -> Smaller(Larger(priced, MinAmount), MaxAmount)
    [] OTHER -> Unreported

(* The amount asked of the facilitator is the price of the acknowledged work, *)
(* whatever calls raced the close; leased turns nobody reported count as      *)
(* missing usage.  Relates settlementUsage and the gate's own repricing to    *)
(* what the host was told.                                                    *)
ChargeCoversWork ==
  \A t \in Tasks : bill[t].calls > 0 => bill[t].amount = AmountDue(ledger[t])

(* Duplicate settlement is impossible: however many closers, timers, replicas *)
(* and restarts there are, gate.settle is called at most once per hold.       *)
SettledAtMostOnce == \A t \in Tasks : bill[t].calls <= 1

(* An active record always holds an authorization the gate has not spent: no *)
(* race brings a session back to life after its hold was charged or lapsed.  *)
ActiveHoldsUnspent == store.state = "active" => hold[store.taskId] = "held"

(* Nothing is given away: an authorization lapses only if no delivery was    *)
(* published on it and no reported work of its session costs anything.       *)
LapseOwesNothing ==
  \A t \in Tasks : hold[t] \in {"void", "lapsed"} =>
    /\ t \notin published
    /\ bill[t].calls = 0
    /\ ledger[t].total = 0 /\ ~ledger[t].missing

(* The durable record tells the truth: a settlement it shows is the outcome  *)
(* the gate reached for that hold.                                           *)
RecordTellsOutcome ==
  store.settlement # "none" => hold[store.taskId] = store.settlement

(* Evidence of a failed settlement leaves the store only by forgetClosed.    *)
EvidenceKept ==
  [][store.settlement = "failed" /\ store' # store =>
       \/ store'.taskId = store.taskId
       \/ store' = NoRecord /\ \E c \in Calls : call[c].pc = "delete"]_vars

(* A record is only ever removed once it is closed: forgetClosed promises to *)
(* remove a reconciled record "without racing a newer session".              *)
OnlyClosedRemoved == [][store' = NoRecord => store.state \in {"absent", "closed"}]_vars

(* No session is stuck: one that is settling, or past settleBy with no turn  *)
(* in flight, does not stay so for ever, whatever order its timers, calls     *)
(* and close requests ran in.                                                *)
NoStuckSession ==
  []<>~(\/ store.state = "settling"
        \/ store.state = "active" /\ store.pending = {} /\ PastSettleBy(store, now))

(* A session whose opener is committed stops at settleBy even if one of its  *)
(* turns never ends: at the guard the manager settles what it has.           *)
DeadlineEnforced ==
  \A t \in Tasks :
    (store.taskId = t /\ store.state = "active" /\ ~HasPendingOpen(store)
       /\ PastSettleBy(store, now))
      ~> (store.state # "active" \/ store.taskId # t)

(* The inductive invariant behind the two properties above it: which call   *)
(* owns what.                                                               *)

(* A call that may still claim the context for its task. *)
Opening(f) == f.op \in {"reserveOpen", "open"} /\ f.pc \in {"get", "create", "lapse"}

(* A call that moved the record to settling and has not finished with it. *)
Ending(f) ==
  \/ f.pc \in {"publication", "settle", "settling", "terminal", "evidence",
               "evidenceCas", "restore", "restoreCas"}
  \/ f.pc = "lapse" /\ f.op \notin {"reserveOpen", "open"}

(* A live record holds an unspent authorization; a closed one its outcome. *)
RecordOK ==
  /\ store.state = "absent" => store = NoRecord
  /\ store.state # "absent" => store.taskId \in Tasks
  /\ store.state = "active" => store.settlement = "none" /\ hold[store.taskId] = "held"
  /\ store.state = "closed" => store.settlement # "none"
  /\ store.settlement # "none" => hold[store.taskId] = store.settlement

BillOK ==
  \A t \in Tasks : /\ bill[t].calls <= 1
                   /\ hold[t] \in {"held", "void", "lapsed"} => bill[t].calls = 0

(* An opening call's authorization is unspent and owns nothing yet. *)
OpeningOK(f) ==
  Opening(f) =>
    /\ f.task \in Tasks /\ hold[f.task] = "held" /\ store.taskId # f.task
    /\ f.pc # "lapse" => /\ f.next.taskId = f.task /\ f.next.state = "active"
                         /\ f.next.settlement = "none"

(* A write that still matches was decided on the record it will replace. *)
WindowOK(f) ==
  /\ f.pc = "cas" => f.op \notin {"reserveOpen", "open"}
  /\ f.pc \in {"cas", "delete"} /\ store.state # "absent" =>
       f.next.revision <= store.revision + 1
  /\ f.pc = "delete" /\ Matches(f) => store.state = "closed"
  /\ f.pc = "cas" /\ Matches(f) =>
       /\ store.state = "active"
       /\ f.next.taskId = store.taskId /\ f.next.settlement = "none"
       /\ \/ f.next.state = "active" /\ f.op # "cancelOpen"
          \/ /\ f.next.state = "settling" /\ f.op \in {"close", "cancelOpen"}
             /\ f.task = store.taskId

(* The ending call knows the record, and how far its authorization got. *)
EndingOK(f) ==
  Ending(f) =>
    /\ f.op \notin {"reserveOpen", "open"}
    /\ store.state = "settling" /\ store.settlement = "none"
    /\ f.task = store.taskId /\ f.next.taskId = f.task
    /\ f.pc \in {"publication", "lapse", "settle", "restore", "restoreCas"} =>
         hold[f.task] = "held"
    /\ f.pc = "settling" => hold[f.task] = "submitted"
    /\ f.pc \in {"terminal", "evidence", "evidenceCas"} =>
         hold[f.task] = f.next.settlement /\ f.next.settlement # "none"
    /\ f.pc \in {"publication", "lapse", "settle", "settling", "restore"} =>
         f.next.revision = store.revision
    /\ f.pc \in {"terminal", "evidenceCas", "restoreCas"} =>
         f.next.revision = store.revision + 1
    /\ f.pc = "terminal" => f.next.state = "closed"
    /\ f.pc = "evidenceCas" => f.next.state = "settling"
    /\ f.pc = "restoreCas" => f.next.state = "active" /\ f.next.settlement = "none"

(* One owner at a time: of the ending session, and of each opening task. *)
OneOwner ==
  \A c, d \in Slots : c # d =>
    /\ ~(Ending(call[c]) /\ Ending(call[d]))
    /\ Opening(call[c]) /\ Opening(call[d]) => call[c].task # call[d].task

OwnershipInv ==
  /\ RecordOK
  /\ BillOK
  /\ \A c \in Slots : OpeningOK(call[c]) /\ WindowOK(call[c]) /\ EndingOK(call[c])
  /\ OneOwner

(* Refinement: the manager, its store and its gate keep the promise of       *)
(* UptoHold.  A context is owned while its record is live or failed.  (Under   *)
(* unreportedUsage "refuse" a session can end without its charge being asked  *)
(* for; UptoHold has no step for that, so the claim is for the other two.)    *)
HoldOwner ==
  IF store.state \in {"active", "settling"} \/ store.settlement = "failed"
    THEN store.taskId ELSE None
HoldPhase ==
  [t \in Tasks |-> CASE hold[t] = "held" -> "unspent"
                     [] hold[t] = "submitted" -> "charged"
                     [] hold[t] \in {"void", "lapsed"} -> "void"
                     [] OTHER -> hold[t]]

Promise == INSTANCE UptoHold WITH owner <- HoldOwner, phase <- HoldPhase,
                                  delivered <- published

KeepsPromise == Promise!Spec
=============================================================================
