----------------------------- MODULE UptoRecord -----------------------------
(***************************************************************************)
(* The durable record of a conversation-scoped `upto` session and the pure *)
(* functions UptoSessionManager computes from it: metering, the projected  *)
(* charge, the usage handed to the gate at settlement, the timers a record *)
(* calls for, and the store's own rules about which record may be replaced.*)
(*                                                                         *)
(* Amounts are atomic token units.  The rate is one unit per token, so a   *)
(* usage reading is the number of units it prices to; a reading the        *)
(* merchant cannot trust, or that cannot be priced, is Unreported.         *)
(***************************************************************************)
EXTENDS Integers, FiniteSets

CONSTANTS
  Tasks,            \* A2A task ids; each carries one verified authorization
  Turns,            \* ids of the turns that follow the opening one
  None,             \* "undefined" in an optional id or reason
  MaxAmount,        \* authorizedMaxAtomic: min(offer ceiling, signed cap)
  MinAmount,        \* pricing.minAmount
  UnreportedUsage,  \* pricing.unreportedUsage
  IdleTime,         \* idleSeconds, in ticks
  MaxDuration,      \* maxDurationSeconds, in ticks
  SignedBy          \* per task: signed deadline minus deadlineGuardSeconds

ASSUME IdAssumption == Tasks \cap Turns = {} /\ None \notin Tasks \cup Turns
ASSUME PricingAssumption ==
  /\ MaxAmount \in Nat \ {0}
  /\ MinAmount \in Nat
  /\ UnreportedUsage \in {"ceiling", "floor", "refuse"}
ASSUME TimeAssumption ==
  /\ IdleTime \in Nat \ {0}
  /\ MaxDuration \in Nat \ {0}
  /\ SignedBy \in [Tasks -> Nat]

Unreported == -1
Never == -1

Smaller(a, b) == IF a < b THEN a ELSE b
Larger(a, b) == IF a < b THEN b ELSE a

TurnIds == Tasks \cup Turns

EndReasons == {"idle", "deadline", "manual", "budget-exhausted", "usage-unreported"}

(***************************************************************************)
(* UptoSessionRecord.  "absent" stands for a context with no record.       *)
(* `turns` is not kept: it is zero exactly while the opener is pending, and *)
(* completedTurnIds then lacks the task id.                                *)
(***************************************************************************)
Record == [taskId         : Tasks \cup {None},
           revision       : Nat,
           state          : {"absent", "active", "settling", "closed"},
           usage          : Nat \cup {Unreported},
           incomplete     : BOOLEAN,
           pending        : SUBSET TurnIds,
           completed      : SUBSET TurnIds,
           lastTurnAt     : Nat,
           settleBy       : Nat,
           closeRequested : EndReasons \cup {None},
           settlement     : {"none", "settled", "lapsed", "failed"}]

NoRecord == [taskId |-> None, revision |-> 0, state |-> "absent",
             usage |-> Unreported, incomplete |-> FALSE, pending |-> {},
             completed |-> {}, lastTurnAt |-> 0, settleBy |-> 0,
             closeRequested |-> None, settlement |-> "none"]

(* The record a session opens with at time n: the opener is pending when the *)
(* context is reserved before its work, and absent from the record when the  *)
(* one-shot open() already knows the usage.                                  *)
DraftOpenRecord(t, n, pendingOpen) ==
  [NoRecord EXCEPT !.taskId = t,
                   !.state = "active",
                   !.pending = IF pendingOpen THEN {t} ELSE {},
                   !.lastTurnAt = n,
                   !.settleBy = Smaller(n + MaxDuration, SignedBy[t])]

HasPendingOpen(r) ==
  /\ r.state = "active"
  /\ r.taskId \in r.pending
  /\ r.taskId \notin r.completed

(***************************************************************************)
(* Metering.                                                               *)
(***************************************************************************)
MeterUsage(u) == IF u \in {Unreported, 0} THEN u ELSE Larger(u, MinAmount)

(* Mutant: a reading that is not a number is added like any other. *)
MergeUsageBlindly(r, next) == [r EXCEPT !.usage = r.usage + next]

MergeUsage(r, next) ==
  CASE next = Unreported -> [r EXCEPT !.incomplete = TRUE]
    [] next # Unreported /\ r.usage = Unreported -> [r EXCEPT !.usage = next]
    [] OTHER -> [r EXCEPT !.usage = r.usage + next]

(* What the snapshot shows as chargeAtomic; Unreported means null.  Nothing  *)
(* is owed while nothing was reported; a gap is priced by the merchant's     *)
(* policy.                                                                   *)
ProjectedCharge(r) ==
  LET metered == MeterUsage(r.usage) IN
  CASE ~r.incomplete -> Smaller(Larger(metered, 0), MaxAmount)
    [] r.incomplete /\ UnreportedUsage = "ceiling" -> MaxAmount
    [] r.incomplete /\ UnreportedUsage = "floor" ->
         Smaller(Larger(metered, MinAmount), MaxAmount)
    [] OTHER -> Unreported

(* Mutant: a total known to be incomplete is passed on as it is. *)
SettlementUsageAsRead(r) == r.usage

(* The usage close() passes to MerchantGate.settle. *)
SettlementUsage(r) ==
  IF \/ ~r.incomplete
     \/ UnreportedUsage = "floor" /\ MeterUsage(r.usage) >= MinAmount
  THEN r.usage ELSE Unreported

(* MerchantGate prices that usage again from the frozen offer. *)
ResolveMeteredCharge(u) ==
  CASE MeterUsage(u) # Unreported -> Smaller(MeterUsage(u), MaxAmount)
    [] MeterUsage(u) = Unreported /\ UnreportedUsage = "ceiling" -> MaxAmount
    [] MeterUsage(u) = Unreported /\ UnreportedUsage = "floor" ->
         Smaller(MinAmount, MaxAmount)
    [] OTHER -> Unreported

(***************************************************************************)
(* Time.                                                                   *)
(***************************************************************************)
PastSettleBy(r, n) == n >= r.settleBy
IdleDue(r, n) == n >= r.lastTurnAt + IdleTime

Timers == [idle : Nat \cup {Never}, deadline : Nat \cup {Never}]
NoTimers == [idle |-> Never, deadline |-> Never]

(* arm(): which timers a manager sets for a record at time n.  A pending     *)
(* opener gets none; a requested close keeps only a deadline still ahead.    *)
TimersFor(r, n) ==
  CASE HasPendingOpen(r) -> NoTimers
    [] ~HasPendingOpen(r) /\ r.closeRequested = None ->
         [idle |-> r.lastTurnAt + IdleTime, deadline |-> r.settleBy]
    [] OTHER -> [NoTimers EXCEPT !.deadline = IF r.settleBy > n THEN r.settleBy ELSE Never]

(***************************************************************************)
(* UptoSessionStore: which records may make room for a new one.            *)
(***************************************************************************)
Reconciled(r) == r.state = "closed" /\ r.settlement # "failed"
(* Mutants: a settling record, or failed evidence, makes room for a new one. *)
CreatableUnlessActive(r) == r.state # "active"
CreatableIfClosed(r) == r.state \in {"absent", "closed"}

Creatable(r) == r.state = "absent" \/ Reconciled(r)
=============================================================================
