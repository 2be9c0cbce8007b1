------------------------- MODULE UptoSession_proofs -------------------------
(* Theorems about UptoSession, for every value of its constants. *)
EXTENDS UptoSession, TLAPS

USE IdAssumption, PricingAssumption, TimeAssumption, CallAssumption
DEF IdAssumption, PricingAssumption, TimeAssumption, CallAssumption
-----------------------------------------------------------------------------
(* What the pure functions of UptoRecord return. *)

LEMMA SmallerType == ASSUME NEW a \in Int, NEW b \in Int
                     PROVE  Smaller(a, b) \in Int /\ (a \in Nat /\ b \in Nat => Smaller(a, b) \in Nat)
BY DEF Smaller

LEMMA LargerType == ASSUME NEW a \in Int, NEW b \in Int
                    PROVE  Larger(a, b) \in Int /\ (a \in Nat \/ b \in Nat => Larger(a, b) \in Nat)
BY DEF Larger

LEMMA MeterType == ASSUME NEW u \in Nat \cup {Unreported}
                   PROVE  MeterUsage(u) \in Nat \cup {Unreported}
BY DEF MeterUsage, Larger, Unreported

LEMMA ChargeType == ASSUME NEW r \in Record
                    PROVE  ProjectedCharge(r) \in Nat \cup {Unreported}
<1>1. MeterUsage(r.usage) \in Nat \cup {Unreported}
  BY MeterType DEF Record
<1>2. QED BY <1>1 DEF ProjectedCharge, Smaller, Larger, Unreported, Record

LEMMA ResolveType == ASSUME NEW u \in Nat \cup {Unreported}
                     PROVE  ResolveMeteredCharge(u) \in Nat \cup {Unreported}
BY MeterType DEF ResolveMeteredCharge, Smaller, Unreported

LEMMA SettlementUsageType == ASSUME NEW r \in Record
                             PROVE  SettlementUsage(r) \in Nat \cup {Unreported}
BY DEF SettlementUsage, Record

LEMMA DraftType == ASSUME NEW t \in Tasks, NEW n \in Nat, NEW p \in BOOLEAN
                   PROVE  /\ DraftOpenRecord(t, n, p) \in Record
                          /\ DraftOpenRecord(t, n, p).taskId = t
                          /\ DraftOpenRecord(t, n, p).state = "active"
                          /\ DraftOpenRecord(t, n, p).settlement = "none"
<1>1. Smaller(n + MaxDuration, SignedBy[t]) \in Nat
  BY DEF Smaller
<1>2. (IF p THEN {t} ELSE {}) \in SUBSET TurnIds
  BY DEF TurnIds
<1>3. NoRecord \in Record
  BY DEF NoRecord, Record, TurnIds, Unreported
<1>4. QED BY <1>1, <1>2, <1>3 DEF DraftOpenRecord, NoRecord, Record

LEMMA MergeType == ASSUME NEW r \in Record, NEW u \in Nat \cup {Unreported}
                   PROVE  /\ MergeUsage(r, u) \in Record
                          /\ MergeUsage(r, u).taskId = r.taskId
                          /\ MergeUsage(r, u).revision = r.revision
                          /\ MergeUsage(r, u).state = r.state
                          /\ MergeUsage(r, u).settlement = r.settlement
<1>1. CASE u = Unreported
  BY <1>1 DEF MergeUsage, Record
<1>2. CASE u # Unreported /\ r.usage = Unreported
  BY <1>2 DEF MergeUsage, Record
<1>3. CASE u # Unreported /\ r.usage # Unreported
  <2>1. r.usage \in Nat /\ u \in Nat /\ r.usage + u \in Nat
    BY <1>3 DEF Record
  <2>2. QED BY <1>3, <2>1 DEF MergeUsage, Record
<1>4. QED BY <1>1, <1>2, <1>3

LEMMA TriggerType == ASSUME NEW r \in Record
                     PROVE  UsageTrigger(r) \in EndReasons \cup {None}
BY DEF UsageTrigger, EndReasons, Record, PastSettleBy

LEMMA TimersType == ASSUME NEW r \in Record, NEW n \in Nat
                    PROVE  TimersFor(r, n) \in Timers
BY DEF TimersFor, Timers, NoTimers, Never, Record

LEMMA NoRecordType == NoRecord \in Record
BY DEF NoRecord, Record, TurnIds, Unreported

LEMMA IdleType == Idle \in Frame
BY NoRecordType DEF Idle, Frame, Ops, PCs, Unreported
-----------------------------------------------------------------------------
(* The steps every action is made of keep the types. *)

LEMMA HomeType == ASSUME NEW c \in Slots PROVE Home[c] \in Replicas
BY DEF Slots

LEMMA BecomeType == ASSUME TypeOK, NEW c \in Slots, NEW f \in Frame, Become(c, f)
                    PROVE  call' \in [Slots -> Frame]
BY DEF TypeOK, Become

LEMMA ReturnType == ASSUME TypeOK, NEW c \in Slots, Return(c)
                    PROVE  call' \in [Slots -> Frame]
BY BecomeType, IdleType DEF Return

LEMMA CreatedByType == ASSUME TypeOK, NEW c \in Slots, NEW f \in Frame, CreatedBy(c, f)
                       PROVE  call' \in [Slots -> Frame]
<1>1. \A d \in Slots : [call[d] EXCEPT !.next = NoRecord] \in Frame
  BY NoRecordType DEF TypeOK, Frame
<1>2. QED BY <1>1 DEF CreatedBy, TypeOK

LEMMA ArmType == ASSUME TypeOK, NEW c \in Slots, NEW r \in Record, Arm(c, r)
                 PROVE  timers' \in [Replicas -> Timers]
BY TimersType, HomeType DEF TypeOK, Arm

LEMMA DisarmType == ASSUME TypeOK, NEW c \in Slots, Disarm(c)
                    PROVE  timers' \in [Replicas -> Timers]
BY HomeType DEF TypeOK, Disarm, Timers, NoTimers, Never

LEMMA CloseCallType == ASSUME NEW reason \in EndReasons \cup {None}
                       PROVE  /\ CloseCall(reason) \in Frame
                              /\ CloseCall(reason).op = "close"
                              /\ CloseCall(reason).pc = "get"
BY IdleType DEF CloseCall, Frame, Ops, PCs, Idle

LEMMA NewCallType == ASSUME NEW op \in Ops \ {"beginTurn"}
                     PROVE  /\ NewCall(op) \in Frame
                            /\ NewCall(op).op = op
                            /\ NewCall(op).pc = "get"
BY IdleType DEF NewCall, Frame, PCs, Idle

LEMMA WritingType == ASSUME TypeOK, NEW f \in Frame, NEW r \in Record
                     PROVE  /\ Writing(f, r) \in Frame
                            /\ Writing(f, r).pc = "cas"
                            /\ Writing(f, r).op = f.op
                            /\ Writing(f, r).task = f.task
                            /\ Writing(f, r).next.revision = store.revision + 1
                            /\ Writing(f, r).next.taskId = r.taskId
                            /\ Writing(f, r).next.state = r.state
                            /\ Writing(f, r).next.settlement = r.settlement
<1>1. store.revision + 1 \in Nat
  BY DEF TypeOK, Record
<1>2. [r EXCEPT !.revision = store.revision + 1] \in Record
  BY <1>1 DEF Record
<1>3. Writing(f, r) = [f EXCEPT !.pc = "cas", !.next = [r EXCEPT !.revision = store.revision + 1]]
  BY DEF Writing
<1>4. [f EXCEPT !.pc = "cas", !.next = [r EXCEPT !.revision = store.revision + 1]] \in Frame
  BY <1>2 DEF Frame, PCs
<1>5. QED BY <1>1, <1>2, <1>3, <1>4 DEF Frame, Record

LEMMA PcType == ASSUME NEW f \in Frame, NEW pc \in PCs \ {"authorize"}
                PROVE  [f EXCEPT !.pc = pc] \in Frame
BY DEF Frame
LEMMA NextType == ASSUME NEW f \in Frame, NEW r \in Record
                  PROVE  [f EXCEPT !.next = r] \in Frame
BY DEF Frame
-----------------------------------------------------------------------------
(* Reads keep the types. *)

LEMMA ReadReserveOpenType ==
  ASSUME TypeOK, NEW c \in Slots, NEW f \in Frame, ReadReserveOpen(c, f)
  PROVE  call' \in [Slots -> Frame]
BY BecomeType, ReturnType, PcType DEF ReadReserveOpen, PCs

LEMMA ReadBeginTurnType ==
  ASSUME TypeOK, NEW c \in Slots, NEW f \in Frame, f.turn \in Turns, ReadBeginTurn(c, f)
  PROVE  call' \in [Slots -> Frame]
<1>1. [store EXCEPT !.pending = @ \cup {f.turn}, !.lastTurnAt = now] \in Record
  BY DEF TypeOK, Record, TurnIds
<1>2. CloseCall("deadline") \in Frame
  BY CloseCallType DEF EndReasons
<1>3. Writing(f, [store EXCEPT !.pending = @ \cup {f.turn}, !.lastTurnAt = now]) \in Frame
  BY <1>1, WritingType
<1>4. QED BY <1>2, <1>3, BecomeType, ReturnType DEF ReadBeginTurn

LEMMA ApplyDraftType ==
  ASSUME TypeOK, NEW f \in Frame, AcceptsUsage(f), NEW lease \in SUBSET TurnIds
  PROVE  LET draft == [MergeUsage(store, f.use) EXCEPT !.pending = @ \ lease,
                                                       !.completed = @ \cup lease,
                                                       !.lastTurnAt = now]
         IN  /\ draft \in Record
             /\ draft.taskId = store.taskId /\ draft.state = store.state
             /\ draft.settlement = store.settlement
<1>1. f.use \in Nat \cup {Unreported} /\ store \in Record /\ now \in Nat
  BY DEF Frame, TypeOK
<1> DEFINE merged == MergeUsage(store, f.use)
<1>2. merged \in Record /\ merged.taskId = store.taskId /\ merged.state = store.state
      /\ merged.settlement = store.settlement
  BY <1>1, MergeType
<1> HIDE DEF merged
<1>3. [merged EXCEPT !.pending = @ \ lease, !.completed = @ \cup lease,
                     !.lastTurnAt = now] \in Record
  BY <1>1, <1>2 DEF Record
<1>4. QED BY <1>2, <1>3 DEF merged, Record

LEMMA LeaseType == ASSUME NEW f \in Frame, AcceptsUsage(f), TypeOK
                   PROVE  LeaseOf(f) \in SUBSET TurnIds
BY DEF AcceptsUsage, LeaseOf, TypeOK, Record

LEMMA ReadApplyUsageType ==
  ASSUME TypeOK, NEW c \in Slots, NEW f \in Frame, ReadApplyUsage(c, f)
  PROVE  call' \in [Slots -> Frame]
<1> DEFINE draft == [MergeUsage(store, f.use) EXCEPT !.pending = @ \ LeaseOf(f),
                                                     !.completed = @ \cup LeaseOf(f),
                                                     !.lastTurnAt = now]
           trigger == UsageTrigger(draft)
           next == IF trigger # None /\ draft.pending # {} /\ draft.closeRequested = None
                     THEN [draft EXCEPT !.closeRequested = trigger] ELSE draft
<1>1. CASE ~AcceptsUsage(f)
  BY <1>1, ReturnType DEF ReadApplyUsage
<1>2. CASE AcceptsUsage(f)
  <2>1. draft \in Record
    BY <1>2, ApplyDraftType, LeaseType
  <2>2. trigger \in EndReasons \cup {None}
    BY <2>1, TriggerType
  <2>3. next \in Record
    BY <2>1, <2>2 DEF Record
  <2>4. [f EXCEPT !.reason = trigger] \in Frame
    BY <2>2 DEF Frame
  <2>5. Writing([f EXCEPT !.reason = trigger], next) \in Frame
    BY <2>3, <2>4, WritingType
  <2>6. Become(c, Writing([f EXCEPT !.reason = trigger], next))
    BY <1>2 DEF ReadApplyUsage
  <2>7. QED BY <2>5, <2>6, BecomeType
<1>3. QED BY <1>1, <1>2

LEMMA ReadCancelTurnType ==
  ASSUME TypeOK, NEW c \in Slots, NEW f \in Frame, ReadCancelTurn(c, f)
  PROVE  call' \in [Slots -> Frame]
<1>1. [store EXCEPT !.pending = @ \ {f.turn}] \in Record
  BY DEF TypeOK, Record
<1>2. Writing(f, [store EXCEPT !.pending = @ \ {f.turn}]) \in Frame
  BY <1>1, WritingType
<1>3. QED BY <1>2, BecomeType, ReturnType DEF ReadCancelTurn

LEMMA ReadCancelOpenType ==
  ASSUME TypeOK, NEW c \in Slots, NEW f \in Frame, ReadCancelOpen(c, f)
  PROVE  call' \in [Slots -> Frame]
<1>1. [store EXCEPT !.state = "settling", !.closeRequested = None] \in Record
  BY DEF TypeOK, Record
<1>2. [f EXCEPT !.reason = store.closeRequested] \in Frame
  BY DEF TypeOK, Record, Frame
<1>3. Writing([f EXCEPT !.reason = store.closeRequested],
              [store EXCEPT !.state = "settling", !.closeRequested = None]) \in Frame
  BY <1>1, <1>2, WritingType
<1>4. QED BY <1>3, BecomeType, ReturnType DEF ReadCancelOpen

LEMMA ReadCloseType ==
  ASSUME TypeOK, NEW c \in Slots, NEW f \in Frame, f.pc = "get", ReadClose(c, f)
  PROVE  call' \in [Slots -> Frame] /\ timers' \in [Replicas -> Timers]
<1> DEFINE waiting == [store EXCEPT !.closeRequested = IF @ = None THEN f.reason ELSE @]
           settling == [store EXCEPT !.state = "settling",
                                     !.incomplete = @ \/ store.pending # {},
                                     !.closeRequested = None]
<1>1. store \in Record /\ timers \in [Replicas -> Timers]
  BY DEF TypeOK
<1>2. waiting \in Record
  BY <1>1 DEF Record, Frame
<1>3. settling \in Record
  <2>1. (store.incomplete \/ store.pending # {}) \in BOOLEAN
    BY <1>1 DEF Record
  <2>2. QED BY <1>1, <2>1 DEF Record
<1>4. Writing(f, waiting) \in Frame
  BY <1>2, WritingType
<1>5. store.state # "absent" => [f EXCEPT !.task = store.taskId] \in Frame
  BY <1>1 DEF Record, Frame
<1>6. store.state # "absent" => Writing([f EXCEPT !.task = store.taskId], settling) \in Frame
  BY <1>3, <1>5, WritingType
<1>7. QED BY <1>1, <1>4, <1>6, BecomeType, ReturnType, ArmType DEF ReadClose

LEMMA ReadAuthorizeDeliveryType ==
  ASSUME TypeOK, NEW c \in Slots, NEW f \in Frame, f.op = "authorizeDelivery",
         ReadAuthorizeDelivery(c, f)
  PROVE  call' \in [Slots -> Frame]
<1>1. store.taskId # None =>
        [f EXCEPT !.pc = "authorize", !.task = store.taskId, !.next = store] \in Frame
  BY DEF TypeOK, Record, Frame, PCs
<1>2. QED BY <1>1, BecomeType, ReturnType DEF ReadAuthorizeDelivery

LEMMA ReadForgetClosedType ==
  ASSUME TypeOK, NEW c \in Slots, NEW f \in Frame, ReadForgetClosed(c, f)
  PROVE  call' \in [Slots -> Frame]
<1>1. Writing(f, store) \in Frame
  BY WritingType DEF TypeOK
<1>2. [Writing(f, store) EXCEPT !.pc = "delete"] \in Frame
  BY <1>1, PcType DEF PCs
<1>3. QED BY <1>2, BecomeType, ReturnType DEF ReadForgetClosed
-----------------------------------------------------------------------------
(* Every step of a call keeps the types. *)

LEMMA AtFrame == ASSUME TypeOK, NEW c \in Slots
                 PROVE  /\ call[c] \in Frame
                        /\ call[c].next \in Record
                        /\ call[c].task \in Tasks \cup {None}
                        /\ call[c].turn \in Turns \cup {None}
                        /\ call[c].use \in Nat \cup {Unreported}
                        /\ call[c].reason \in EndReasons \cup {None}
BY DEF TypeOK, Frame

LEMMA MeteredType ==
  ASSUME NEW l \in Entry, NEW u \in Nat \cup {Unreported}, NEW lease
  PROVE  Metered(l, u, lease) \in Entry
<1>1. u \in Int /\ Larger(u, 0) \in Nat
  BY DEF Larger, Unreported
<1>2. l.total + Larger(u, 0) \in Nat
  BY <1>1 DEF Entry
<1>3. (l.missing \/ u = Unreported) \in BOOLEAN /\ l.open \ lease \in SUBSET TurnIds
  BY DEF Entry
<1>4. QED BY <1>2, <1>3 DEF Metered, Entry

LEMMA UsageType ==
  ASSUME NEW L \in [Tasks -> Entry], NEW t, NEW u \in Nat \cup {Unreported}, NEW lease
  PROVE  [L EXCEPT ![t] = Metered(@, u, lease)] \in [Tasks -> Entry]
BY MeteredType

LEMMA GrantType ==
  ASSUME NEW L \in [Tasks -> Entry], NEW t, NEW lease \in SUBSET TurnIds
  PROVE  [L EXCEPT ![t].open = @ \cup lease] \in [Tasks -> Entry]
BY DEF Entry

LEMMA ReleaseType ==
  ASSUME NEW L \in [Tasks -> Entry], NEW t, NEW lease
  PROVE  [L EXCEPT ![t].open = @ \ lease] \in [Tasks -> Entry]
BY DEF Entry

LEMMA RetryType == ASSUME TypeOK, NEW c \in Slots, Retry(c) PROVE TypeOK'
<1>1. call[c] \in Frame /\ call[c].pc = "get"
      /\ (call[c].op = "beginTurn" => call[c].turn \in Turns)
  BY DEF TypeOK, Retry, At, Frame
<1>2. call' \in [Slots -> Frame] /\ timers' \in [Replicas -> Timers]
  <2>1. timers \in [Replicas -> Timers]
    BY DEF TypeOK
  <2>2. CASE call[c].op = "reserveOpen" /\ ReadReserveOpen(c, call[c])
    BY <1>1, <2>1, <2>2, ReadReserveOpenType DEF ReadReserveOpen
  <2>3. CASE call[c].op = "beginTurn" /\ ReadBeginTurn(c, call[c])
    BY <1>1, <2>1, <2>3, ReadBeginTurnType DEF ReadBeginTurn
  <2>4. CASE ReadApplyUsage(c, call[c])
    BY <1>1, <2>1, <2>4, ReadApplyUsageType DEF ReadApplyUsage
  <2>5. CASE ReadCancelTurn(c, call[c])
    BY <1>1, <2>1, <2>5, ReadCancelTurnType DEF ReadCancelTurn
  <2>6. CASE ReadCancelOpen(c, call[c])
    BY <1>1, <2>1, <2>6, ReadCancelOpenType DEF ReadCancelOpen
  <2>7. CASE ReadClose(c, call[c])
    BY <1>1, <2>7, ReadCloseType
  <2>8. QED BY <2>2, <2>3, <2>4, <2>5, <2>6, <2>7 DEF Retry
<1>3. QED BY <1>2 DEF Retry, TypeOK, gateVars

LEMMA HostStepType == ASSUME TypeOK, NEW c \in Slots, HostStep(c) PROVE TypeOK'
<1>1. timers \in [Replicas -> Timers] /\ now \in Nat
  BY DEF TypeOK
<1>2. \A u \in Readings : u \in Nat \cup {Unreported}
  BY CallAssumption DEF CallAssumption
<1>3. call' \in [Slots -> Frame] /\ timers' \in [Replicas -> Timers]
  <2>1. ASSUME NEW t \in Tasks, ReserveOpen(c, t)
        PROVE  call' \in [Slots -> Frame] /\ timers' \in [Replicas -> Timers]
    <3> DEFINE f == [NewCall("reserveOpen") EXCEPT
                       !.task = t, !.next = DraftOpenRecord(t, now, TRUE)]
    <3> DEFINE n == NewCall("reserveOpen")
    <3>a. n \in Frame /\ n.op = "reserveOpen" /\ n.pc = "get"
      BY NewCallType DEF Ops
    <3>b. DraftOpenRecord(t, now, TRUE) \in Record
      BY <1>1, DraftType
    <3>1. f \in Frame
      BY <3>a, <3>b DEF Frame
    <3>2. ReadReserveOpen(c, f)
      BY <2>1 DEF ReserveOpen
    <3>3. QED BY <1>1, <3>1, <3>2, ReadReserveOpenType DEF ReadReserveOpen
  <2>2. ASSUME NEW t \in Tasks, CancelOpen(c, t)
        PROVE  call' \in [Slots -> Frame] /\ timers' \in [Replicas -> Timers]
    <3> DEFINE f == [NewCall("cancelOpen") EXCEPT !.task = t]
    <3>1. f \in Frame
      BY NewCallType DEF Frame, Ops
    <3>2. ReadCancelOpen(c, f)
      BY <2>2 DEF CancelOpen
    <3>3. QED BY <1>1, <3>1, <3>2, ReadCancelOpenType DEF ReadCancelOpen
  <2>3. ASSUME NEW t \in Tasks, NEW u \in Readings, Open(c, t, u)
        PROVE  call' \in [Slots -> Frame] /\ timers' \in [Replicas -> Timers]
    <3> DEFINE draft == MergeUsage(DraftOpenRecord(t, now, FALSE), u)
               trigger == UsageTrigger(draft)
    <3>1. draft \in Record
      BY <1>1, <1>2, DraftType, MergeType
    <3>2. trigger \in EndReasons \cup {None}
      BY <3>1, TriggerType
    <3> HIDE DEF draft, trigger
    <3>3. [draft EXCEPT !.closeRequested = trigger] \in Record
      BY <3>1, <3>2 DEF Record
    <3>4. [NewCall("open") EXCEPT !.pc = "create", !.task = t, !.use = u, !.reason = trigger,
             !.next = [draft EXCEPT !.closeRequested = trigger]] \in Frame
      <4>1. NewCall("open") \in Frame /\ NewCall("open").op = "open"
        BY NewCallType DEF Ops
      <4>2. u \in Nat \cup {Unreported} /\ "create" \in PCs
        BY <1>2 DEF PCs
      <4>3. QED BY <3>2, <3>3, <4>1, <4>2 DEF Frame
    <3>5. QED BY <1>1, <2>3, <3>4, BecomeType DEF Open, draft, trigger
  <2>4. ASSUME NEW t \in Tasks, NEW u \in Readings, CommitOpen(c, t, u)
        PROVE  call' \in [Slots -> Frame] /\ timers' \in [Replicas -> Timers]
    <3> DEFINE f == [NewCall("commitOpen") EXCEPT !.task = t, !.use = u]
    <3>a. NewCall("commitOpen") \in Frame /\ NewCall("commitOpen").op = "commitOpen" /\ NewCall("commitOpen").pc = "get"
      BY NewCallType DEF Ops
    <3>b. u \in Nat \cup {Unreported}
      BY <1>2
    <3>1. f \in Frame
      BY <3>a, <3>b DEF Frame
    <3>2. ReadApplyUsage(c, f)
      BY <2>4 DEF CommitOpen
    <3>3. QED BY <1>1, <3>1, <3>2, ReadApplyUsageType DEF ReadApplyUsage
  <2>5. ASSUME NEW m \in Turns, BeginTurn(c, m)
        PROVE  call' \in [Slots -> Frame] /\ timers' \in [Replicas -> Timers]
    <3> DEFINE f == [NewCall("beginTurn") EXCEPT !.turn = m]
    <3>1. f \in Frame /\ f.turn \in Turns
      BY IdleType DEF NewCall, Frame, Ops, PCs, Idle
    <3>2. ReadBeginTurn(c, f)
      BY <2>5 DEF BeginTurn
    <3>3. QED BY <1>1, <3>1, <3>2, ReadBeginTurnType DEF ReadBeginTurn
  <2>6. ASSUME NEW m \in Turns, CancelTurn(c, m)
        PROVE  call' \in [Slots -> Frame] /\ timers' \in [Replicas -> Timers]
    <3> DEFINE f == [NewCall("cancelTurn") EXCEPT !.turn = m]
    <3>1. f \in Frame
      BY NewCallType DEF Frame, Ops
    <3>2. ReadCancelTurn(c, f)
      BY <2>6 DEF CancelTurn
    <3>3. QED BY <1>1, <3>1, <3>2, ReadCancelTurnType DEF ReadCancelTurn
  <2>7. ASSUME NEW m \in Turns, NEW u \in Readings, FinishTurn(c, m, u)
        PROVE  call' \in [Slots -> Frame] /\ timers' \in [Replicas -> Timers]
    <3> DEFINE f == [NewCall("finishTurn") EXCEPT !.turn = m, !.use = u]
    <3>a. NewCall("finishTurn") \in Frame /\ NewCall("finishTurn").op = "finishTurn" /\ NewCall("finishTurn").pc = "get"
      BY NewCallType DEF Ops
    <3>b. u \in Nat \cup {Unreported}
      BY <1>2
    <3>1. f \in Frame
      BY <3>a, <3>b DEF Frame
    <3>2. ReadApplyUsage(c, f)
      BY <2>7 DEF FinishTurn
    <3>3. QED BY <1>1, <3>1, <3>2, ReadApplyUsageType DEF ReadApplyUsage
  <2>8. ASSUME NEW u \in Readings, RecordTurn(c, u)
        PROVE  call' \in [Slots -> Frame] /\ timers' \in [Replicas -> Timers]
    <3> DEFINE f == [NewCall("recordTurn") EXCEPT !.use = u]
    <3>1. f \in Frame
      BY <1>2, NewCallType DEF Frame, Ops
    <3>2. ReadApplyUsage(c, f)
      BY <2>8 DEF RecordTurn
    <3>3. QED BY <1>1, <3>1, <3>2, ReadApplyUsageType DEF ReadApplyUsage
  <2>9. CASE Close(c)
    <3>1. CloseCall("manual") \in Frame /\ CloseCall("manual").pc = "get"
      BY CloseCallType DEF EndReasons
    <3>2. QED BY <2>9, <3>1, ReadCloseType DEF Close
  <2>10. CASE AuthorizeDelivery(c)
    <3>1. NewCall("authorizeDelivery") \in Frame
          /\ NewCall("authorizeDelivery").op = "authorizeDelivery"
      BY NewCallType DEF Ops
    <3>2. QED BY <1>1, <2>10, <3>1, ReadAuthorizeDeliveryType
              DEF AuthorizeDelivery, ReadAuthorizeDelivery
  <2>11. CASE ForgetClosed(c)
    <3>1. NewCall("forgetClosed") \in Frame
      BY NewCallType DEF Ops
    <3>2. QED BY <1>1, <2>11, <3>1, ReadForgetClosedType DEF ForgetClosed, ReadForgetClosed
  <2>12. QED BY <2>1, <2>2, <2>3, <2>4, <2>5, <2>6, <2>7, <2>8, <2>9, <2>10, <2>11
             DEF HostStep
<1>4. UNCHANGED <<now, store, gateVars, ledger>>
  BY DEF HostStep, ReserveOpen, CancelOpen, Open, CommitOpen, BeginTurn, CancelTurn,
         FinishTurn, RecordTurn, Close, AuthorizeDelivery, ForgetClosed
<1>5. QED BY <1>3, <1>4 DEF TypeOK, gateVars

LEMMA CreateType == ASSUME TypeOK, NEW c \in Slots, Create(c) PROVE TypeOK'
<1> DEFINE f == call[c]
<1>1. /\ f \in Frame /\ f.next \in Record /\ f.use \in Nat \cup {Unreported}
      /\ f.reason \in EndReasons \cup {None} /\ f.task \in Tasks \cup {None}
  BY AtFrame
<1>2. UNCHANGED <<now, gateVars>> /\ timers \in [Replicas -> Timers]
  BY DEF Create, TypeOK
<1>3. store' \in Record
  BY <1>1 DEF Create, TypeOK
<1>4. call' \in [Slots -> Frame]
  <2>1. Idle \in Frame /\ CloseCall(f.reason) \in Frame
    BY <1>1, IdleType, CloseCallType
  <2>2. [f EXCEPT !.pc = IF f.op = "open" THEN "lapse" ELSE "get"] \in Frame
    BY <1>1, PcType DEF PCs
  <2>3. QED BY <2>1, <2>2, CreatedByType, BecomeType DEF Create
<1>5. timers' \in [Replicas -> Timers]
  BY <1>1, <1>2, ArmType DEF Create
<1>6. ledger' \in [Tasks -> Entry]
  <2>1. ledger \in [Tasks -> Entry]
    BY DEF TypeOK
  <2>2. [ledger EXCEPT ![f.task].open = @ \cup {f.task}] \in [Tasks -> Entry]
    <3>1. CASE f.task \in Tasks
      <4>1. {f.task} \in SUBSET TurnIds
        BY <3>1 DEF TurnIds
      <4>2. QED BY <2>1, <4>1, GrantType
    <3>2. CASE f.task \notin Tasks
      BY <2>1, <3>2
    <3>3. QED BY <3>1, <3>2
  <2>3. [ledger EXCEPT ![f.task] = Metered(@, f.use, {})] \in [Tasks -> Entry]
    BY <1>1, <2>1, UsageType
  <2>4. QED BY <2>1, <2>2, <2>3 DEF Create
<1>7. QED BY <1>2, <1>3, <1>4, <1>5, <1>6 DEF TypeOK, gateVars

LEMMA WriteBeginTurnType == ASSUME TypeOK, NEW c \in Slots, WriteBeginTurn(c) PROVE TypeOK'
<1>1. call[c].next \in Record /\ call[c].turn \in Turns /\ call[c].use \in Nat \cup {Unreported}
  BY DEF TypeOK, Frame, WriteBeginTurn
<1>2. call' \in [Slots -> Frame] /\ timers' \in [Replicas -> Timers]
  BY <1>1, ReturnType, ArmType DEF WriteBeginTurn
<1>3. {call[c].turn} \in SUBSET TurnIds
  BY <1>1 DEF TurnIds
<1>4. [ledger EXCEPT ![store.taskId].open = @ \cup {call[c].turn}] \in [Tasks -> Entry]
  BY <1>3, GrantType DEF TypeOK
<1>5. QED BY <1>1, <1>2, <1>4 DEF TypeOK, WriteBeginTurn, gateVars

LEMMA WriteApplyUsageType == ASSUME TypeOK, NEW c \in Slots, WriteApplyUsage(c) PROVE TypeOK'
<1> DEFINE f == call[c]
<1>1. f \in Frame /\ f.next \in Record /\ f.use \in Nat \cup {Unreported}
      /\ f.reason \in EndReasons \cup {None} /\ timers \in [Replicas -> Timers]
      /\ ledger \in [Tasks -> Entry]
  BY AtFrame DEF TypeOK
<1>2. CloseCall(f.reason) \in Frame
  BY <1>1, CloseCallType
<1>3. call' \in [Slots -> Frame] /\ timers' \in [Replicas -> Timers]
  BY <1>1, <1>2, BecomeType, ReturnType, ArmType DEF WriteApplyUsage
<1>4. [ledger EXCEPT ![store.taskId] = Metered(@, f.use, LeaseOf(f))] \in [Tasks -> Entry]
  BY <1>1, UsageType
<1>5. ledger' \in [Tasks -> Entry]
  BY <1>4 DEF WriteApplyUsage
<1>6. QED BY <1>1, <1>3, <1>5 DEF TypeOK, WriteApplyUsage, gateVars

LEMMA WriteCancelTurnType == ASSUME TypeOK, NEW c \in Slots, WriteCancelTurn(c) PROVE TypeOK'
<1> DEFINE f == call[c]
<1>1. f.next \in Record /\ f.use \in Nat \cup {Unreported} /\ timers \in [Replicas -> Timers]
      /\ f.next.closeRequested \in EndReasons \cup {None}
  BY AtFrame DEF TypeOK, Record
<1>2. CloseCall(f.next.closeRequested) \in Frame
  BY <1>1, CloseCallType
<1>3. call' \in [Slots -> Frame] /\ timers' \in [Replicas -> Timers]
  BY <1>1, <1>2, BecomeType, ReturnType, ArmType DEF WriteCancelTurn
<1>4. [ledger EXCEPT ![store.taskId].open = @ \ {f.turn}] \in [Tasks -> Entry]
  BY ReleaseType DEF TypeOK
<1>5. QED BY <1>1, <1>3, <1>4 DEF TypeOK, WriteCancelTurn, gateVars

LEMMA WriteCloseType ==
  ASSUME TypeOK, NEW c \in Slots, WriteClose(c) \/ WriteCancelOpen(c)
  PROVE  TypeOK'
<1>1. call[c] \in Frame /\ call[c].next \in Record
  BY AtFrame
<1>2. [call[c] EXCEPT !.pc = "publication"] \in Frame /\ [call[c] EXCEPT !.pc = "lapse"] \in Frame
  BY <1>1, PcType DEF PCs
<1>3. call' \in [Slots -> Frame] /\ timers' \in [Replicas -> Timers]
  BY <1>1, <1>2, BecomeType, ReturnType, ArmType, DisarmType DEF WriteClose, WriteCancelOpen
<1>4. QED BY <1>1, <1>3 DEF TypeOK, WriteClose, WriteCancelOpen, gateVars

LEMMA LoseOrDeleteType ==
  ASSUME TypeOK, NEW c \in Slots, LoseWrite(c) \/ DeleteClosed(c)
  PROVE  TypeOK'
<1>1. [call[c] EXCEPT !.pc = "get", !.next = NoRecord] \in Frame
  BY AtFrame, NoRecordType, PcType, NextType DEF PCs
<1>2. call' \in [Slots -> Frame]
  BY <1>1, BecomeType, ReturnType DEF LoseWrite, DeleteClosed
<1>3. store' \in Record
  BY NoRecordType DEF LoseWrite, DeleteClosed, TypeOK
<1>4. QED BY <1>2, <1>3 DEF TypeOK, LoseWrite, DeleteClosed, gateVars

LEMMA GateType ==
  ASSUME TypeOK, NEW c \in Slots,
         ReadPublication(c) \/ GateThrows(c) \/ GateLapsePublished(c)
  PROVE  TypeOK'
<1>1. \A pc \in PCs \ {"authorize"} : [call[c] EXCEPT !.pc = pc] \in Frame
  BY AtFrame, PcType
<1>2. call' \in [Slots -> Frame]
  BY <1>1, IdleType, BecomeType, ReturnType
     DEF ReadPublication, GateThrows, GateLapsePublished, PCs
<1>3. QED BY <1>2 DEF TypeOK, ReadPublication, GateThrows, GateLapsePublished, gateVars

LEMMA ClosedType ==
  ASSUME NEW r \in Record, NEW how \in {"lapsed", "settled", "failed"}
  PROVE  /\ Closed(r, how) \in Record
         /\ Closed(r, how).taskId = r.taskId
         /\ Closed(r, how).state = "closed"
         /\ Closed(r, how).settlement = how
         /\ Closed(r, how).revision = r.revision + 1
<1>1. r.revision + 1 \in Nat
  BY DEF Record
<1>2. QED BY <1>1 DEF Closed, Record

LEMMA GateLapseType == ASSUME TypeOK, NEW c \in Slots, GateLapse(c) PROVE TypeOK'
<1> DEFINE f == call[c]
           r == [f.next EXCEPT !.pending = IF f.op = "cancelOpen" THEN {} ELSE @]
<1>1. f \in Frame /\ f.next \in Record
  BY AtFrame
<1>2. r \in Record
  BY <1>1 DEF Record
<1>3. Closed(r, "lapsed") \in Record
  BY <1>2, ClosedType
<1> HIDE DEF r
<1>4. [f EXCEPT !.pc = "terminal", !.next = Closed(r, "lapsed")] \in Frame
  BY <1>1, <1>3, PcType, NextType DEF PCs
<1>5. call' \in [Slots -> Frame]
  BY <1>4, IdleType, BecomeType, ReturnType DEF GateLapse, r
<1>6. hold' \in [Tasks -> HoldStates]
  BY DEF GateLapse, TypeOK, HoldStates
<1>7. QED BY <1>5, <1>6 DEF TypeOK, GateLapse

LEMMA GateSettleType == ASSUME TypeOK, NEW c \in Slots, GateSettle(c) PROVE TypeOK'
<1> DEFINE f == call[c]
           amount == ResolveMeteredCharge(SettlementUsage(f.next))
<1>1. f \in Frame /\ f.next \in Record
  BY AtFrame
<1>2. amount \in Nat \cup {Unreported}
  BY <1>1, SettlementUsageType, ResolveType
<1> HIDE DEF amount
<1>3. [f EXCEPT !.pc = "settling"] \in Frame
  BY <1>1, PcType DEF PCs
<1>4. call' \in [Slots -> Frame]
  BY <1>3, BecomeType DEF GateSettle
<1>5. hold' \in [Tasks -> HoldStates]
  BY DEF GateSettle, TypeOK, HoldStates
<1>6. bill' \in [Tasks -> Invoice]
  <2>1. bill' = [bill EXCEPT ![f.task] = [calls |-> @.calls + 1, amount |-> amount]]
    BY DEF GateSettle, amount
  <2>2. bill \in [Tasks -> Invoice]
    BY DEF TypeOK
  <2>3. f.task \in Tasks => [calls |-> bill[f.task].calls + 1, amount |-> amount] \in Invoice
    BY <1>2, <2>2 DEF Invoice
  <2>4. QED BY <2>1, <2>2, <2>3
<1>7. QED BY <1>4, <1>5, <1>6 DEF TypeOK, GateSettle

LEMMA GateSettleDoneType == ASSUME TypeOK, NEW c \in Slots, GateSettleDone(c) PROVE TypeOK'
<1> DEFINE f == call[c]
<1>1. f \in Frame /\ f.next \in Record
  BY AtFrame
<1>2. PICK how \in {"settled", "failed"} :
        /\ hold' = [hold EXCEPT ![f.task] = how]
        /\ Become(c, [f EXCEPT !.pc = "terminal", !.next = Closed(f.next, how)])
  BY DEF GateSettleDone
<1>3. Closed(f.next, how) \in Record
  BY <1>1, ClosedType
<1>4. [f EXCEPT !.pc = "terminal", !.next = Closed(f.next, how)] \in Frame
  BY <1>1, <1>3, PcType, NextType DEF PCs
<1>5. call' \in [Slots -> Frame]
  BY <1>2, <1>4, BecomeType
<1>6. hold' \in [Tasks -> HoldStates]
  BY <1>2 DEF TypeOK, HoldStates
<1>7. QED BY <1>5, <1>6 DEF TypeOK, GateSettleDone

LEMMA GateAuthorizeDeliveryType ==
  ASSUME TypeOK, NEW c \in Slots, GateAuthorizeDelivery(c)
  PROVE  TypeOK'
<1>1. call[c].task \in Tasks
  BY AtFrame DEF GateAuthorizeDelivery, At, Frame
<1>2. call' \in [Slots -> Frame] /\ published' \in SUBSET Tasks
  BY <1>1, ReturnType DEF GateAuthorizeDelivery, TypeOK
<1>3. QED BY <1>2 DEF TypeOK, GateAuthorizeDelivery

LEMMA TerminalType ==
  ASSUME TypeOK, NEW c \in Slots, WriteTerminal(c) \/ LoseTerminal(c) \/ WriteEvidence(c)
  PROVE  TypeOK'
<1>1. call[c].next \in Record /\ [call[c] EXCEPT !.pc = "evidence"] \in Frame
  BY AtFrame, PcType DEF PCs
<1>2. call' \in [Slots -> Frame]
  BY <1>1, IdleType, BecomeType, ReturnType DEF WriteTerminal, LoseTerminal, WriteEvidence
<1>3. store' \in Record
  BY <1>1 DEF WriteTerminal, LoseTerminal, WriteEvidence, TypeOK
<1>4. QED BY <1>2, <1>3 DEF TypeOK, WriteTerminal, LoseTerminal, WriteEvidence, gateVars

LEMMA ReadEvidenceType == ASSUME TypeOK, NEW c \in Slots, ReadEvidence(c) PROVE TypeOK'
<1> DEFINE f == call[c]
           w == Writing(f, [store EXCEPT !.settlement = f.next.settlement])
<1>1. f \in Frame /\ [store EXCEPT !.settlement = f.next.settlement] \in Record
  BY AtFrame DEF TypeOK, Record
<1>2. w \in Frame
  BY <1>1, WritingType
<1>3. [w EXCEPT !.pc = "evidenceCas"] \in Frame
  BY <1>2, PcType DEF PCs
<1>4. call' \in [Slots -> Frame]
  BY <1>3, IdleType, BecomeType DEF ReadEvidence
<1>5. QED BY <1>4 DEF TypeOK, ReadEvidence, gateVars

LEMMA ReadRestoreType == ASSUME TypeOK, NEW c \in Slots, ReadRestore(c) PROVE TypeOK'
<1> DEFINE f == call[c]
           w == Writing(f, [store EXCEPT !.state = "active", !.closeRequested = f.reason])
<1>1. f \in Frame /\ [store EXCEPT !.state = "active", !.closeRequested = f.reason] \in Record
  BY AtFrame DEF TypeOK, Record
<1>2. w \in Frame
  BY <1>1, WritingType
<1>3. [w EXCEPT !.pc = "restoreCas"] \in Frame
  BY <1>2, PcType DEF PCs
<1>4. call' \in [Slots -> Frame]
  BY <1>3, IdleType, BecomeType DEF ReadRestore
<1>5. QED BY <1>4 DEF TypeOK, ReadRestore, gateVars

LEMMA WriteRestoreType == ASSUME TypeOK, NEW c \in Slots, WriteRestore(c) PROVE TypeOK'
<1>1. call[c].next \in Record /\ now \in Nat /\ timers \in [Replicas -> Timers]
  BY AtFrame DEF TypeOK
<1>2. TimersFor(call[c].next, now) \in Timers
  BY <1>1, TimersType
<1>3. timers' \in [Replicas -> Timers]
  BY <1>1, <1>2, HomeType DEF WriteRestore
<1>4. call' \in [Slots -> Frame]
  BY ReturnType DEF WriteRestore
<1>5. QED BY <1>1, <1>3, <1>4 DEF TypeOK, WriteRestore, gateVars

LEMMA CallStepType == ASSUME TypeOK, NEW c \in Slots, CallStep(c) PROVE TypeOK'
BY RetryType, CreateType, WriteBeginTurnType, WriteApplyUsageType, WriteCancelTurnType,
   WriteCloseType, LoseOrDeleteType, GateType, GateLapseType, GateSettleType,
   GateSettleDoneType, GateAuthorizeDeliveryType, TerminalType, ReadEvidenceType,
   ReadRestoreType, WriteRestoreType DEF CallStep
-----------------------------------------------------------------------------
LEMMA FireTimerType == ASSUME TypeOK, NEW c \in TimerCalls, FireTimer(c) PROVE TypeOK'
<1>1. c \in Slots
  BY DEF Slots
<1>2. PICK which \in {"idle", "deadline"} :
        /\ timers' = [timers EXCEPT ![Home[c]][which] = Never]
        /\ Become(c, CloseCall(which))
  BY DEF FireTimer
<1>3. CloseCall(which) \in Frame
  BY CloseCallType DEF EndReasons
<1>4. call' \in [Slots -> Frame]
  BY <1>1, <1>2, <1>3, BecomeType
<1>5. timers' \in [Replicas -> Timers]
  <2>1. timers \in [Replicas -> Timers] /\ Home[c] \in Replicas
    BY <1>1, HomeType DEF TypeOK
  <2>2. [timers[Home[c]] EXCEPT ![which] = Never] \in Timers
    BY <2>1 DEF Timers, Never
  <2>3. QED BY <1>2, <2>1, <2>2
<1>6. QED BY <1>4, <1>5 DEF TypeOK, FireTimer, gateVars

LEMMA RecoverType == ASSUME TypeOK, NEW c \in TimerCalls, Recover(c) PROVE TypeOK'
<1> DEFINE reason == CASE store.closeRequested # None -> store.closeRequested
                       [] store.closeRequested = None /\ PastSettleBy(store, now) -> "deadline"
                       [] store.closeRequested = None /\ ~PastSettleBy(store, now)
                            /\ IdleDue(store, now) -> "idle"
                       [] OTHER -> None
<1>1. c \in Slots
  BY DEF Slots
<1>2. reason \in EndReasons \cup {None}
  BY DEF TypeOK, Record, EndReasons
<1>3. CloseCall(reason) \in Frame
  BY <1>2, CloseCallType
<1>4. call' \in [Slots -> Frame]
  BY <1>1, <1>3, BecomeType DEF Recover, TypeOK
<1>5. timers' \in [Replicas -> Timers]
  BY <1>1, ArmType DEF Recover, TypeOK
<1>6. QED BY <1>4, <1>5 DEF TypeOK, Recover, gateVars

LEMMA InitType == Init => TypeOK
<1>1. NoTimers \in Timers
  BY DEF NoTimers, Timers, Never
<1>2. QED BY <1>1, NoRecordType, IdleType
      DEF Init, TypeOK, HoldStates, Entry, Invoice, Unreported

LEMMA StepType == TypeOK /\ [Next]_vars => TypeOK'
<1> SUFFICES ASSUME TypeOK, [Next]_vars PROVE TypeOK'
  OBVIOUS
<1>1. ASSUME NEW c \in Calls, HostStep(c) PROVE TypeOK'
  BY <1>1, HostStepType DEF Slots
<1>2. ASSUME NEW c \in Slots, CallStep(c) PROVE TypeOK'
  BY <1>2, CallStepType
<1>3. ASSUME NEW c \in TimerCalls, FireTimer(c) \/ Recover(c) PROVE TypeOK'
  BY <1>3, FireTimerType, RecoverType
<1>4. CASE PurgeClosed
  BY <1>4, NoRecordType DEF PurgeClosed, TypeOK, gateVars
<1>5. CASE Tick
  BY <1>5 DEF Tick, TypeOK, gateVars
<1>6. ASSUME NEW r \in Replicas, Crash(r) PROVE TypeOK'
  <2>1. NoTimers \in Timers
    BY DEF NoTimers, Timers, Never
  <2>2. QED BY <1>6, <2>1, IdleType DEF Crash, TypeOK, gateVars
<1>7. CASE UNCHANGED vars
  BY <1>7 DEF TypeOK, vars, gateVars
<1>8. QED BY <1>1, <1>2, <1>3, <1>4, <1>5, <1>6, <1>7 DEF Next

(* Every variable keeps its type, whatever the constants are. *)
THEOREM TypeCorrect == Spec => []TypeOK
<1>1. QED BY InitType, StepType, PTL DEF Spec
-----------------------------------------------------------------------------
(***************************************************************************)
(* Ownership.  From here on a store is assumed not to replace a session    *)
(* inside another call's read-write window (~SlowStore).                   *)
(*                                                                         *)
(* FrameOK collects what OwnershipInv asks of one call; the lemmas say what *)
(* each kind of step does to it: a step that only decides, a step that     *)
(* installs a decided record, a step that removes a closed one, a step of  *)
(* the gate.                                                               *)
(***************************************************************************)
FrameOK(f) == OpeningOK(f) /\ WindowOK(f) /\ EndingOK(f)

(* A call that owns nothing and is not about to write. *)
Quiet(f) == ~Opening(f) /\ ~Ending(f) /\ f.pc \notin {"cas", "delete"}

LEMMA QuietOK == ASSUME NEW f, Quiet(f) PROVE FrameOK(f) /\ FrameOK(f)'
BY DEF Quiet, FrameOK, OpeningOK, WindowOK, EndingOK

LEMMA QuietFrames ==
  /\ Quiet(Idle)
  /\ \A reason : Quiet(CloseCall(reason))
BY DEF Quiet, Idle, CloseCall, Opening, Ending

LEMMA OwnershipFrames == OwnershipInv => \A c \in Slots : FrameOK(call[c])
BY DEF OwnershipInv, FrameOK

(* A step that leaves the record, the holds and the bills alone. *)
LEMMA DecideOK ==
  ASSUME TypeOK, OwnershipInv, NEW c \in Slots, NEW g \in Frame, Become(c, g),
         UNCHANGED <<store, hold, bill>>, FrameOK(g),
         Ending(g) => Ending(call[c]),
         Opening(g) => \A d \in Slots \ {c} : Opening(call[d]) => call[d].task # g.task
  PROVE  OwnershipInv'
<1>1. \A d \in Slots : call'[d] = IF d = c THEN g ELSE call[d]
  BY DEF Become, TypeOK
<1>2. RecordOK' /\ BillOK'
  BY DEF OwnershipInv, RecordOK, BillOK
<1>3. ASSUME NEW d \in Slots PROVE (OpeningOK(call[d]) /\ WindowOK(call[d]) /\ EndingOK(call[d]))'
  <2>1. FrameOK(call[d]) /\ FrameOK(g)
    BY OwnershipFrames
  <2>2. CASE d = c
    BY <1>1, <2>1, <2>2 DEF FrameOK, OpeningOK, WindowOK, EndingOK, Opening, Ending, Matches
  <2>3. CASE d # c
    BY <1>1, <2>1, <2>3 DEF FrameOK, OpeningOK, WindowOK, EndingOK, Opening, Ending, Matches
  <2>4. QED BY <2>2, <2>3
<1>4. OneOwner'
  BY <1>1 DEF OwnershipInv, OneOwner, Opening, Ending
<1>5. QED BY <1>2, <1>3, <1>4 DEF OwnershipInv

LEMMA DecideQuietOK ==
  ASSUME TypeOK, OwnershipInv, NEW c \in Slots, NEW g \in Frame, Become(c, g),
         UNCHANGED <<store, hold, bill>>, Quiet(g)
  PROVE  OwnershipInv'
BY DecideOK, QuietOK DEF Quiet

LEMMA ReturnOK ==
  ASSUME TypeOK, OwnershipInv, NEW c \in Slots, Return(c), UNCHANGED <<store, hold, bill>>
  PROVE  OwnershipInv'
BY DecideQuietOK, QuietFrames, IdleType DEF Return

(* A write decided on the live record. *)
LEMMA WritingOK ==
  ASSUME TypeOK, NEW f \in Frame, NEW r \in Record, store.state = "active",
         r.taskId = store.taskId, r.settlement = "none", f.op \notin {"reserveOpen", "open"},
         \/ r.state = "active" /\ f.op # "cancelOpen"
         \/ r.state = "settling" /\ f.op \in {"close", "cancelOpen"} /\ f.task = store.taskId
  PROVE  /\ Writing(f, r) \in Frame /\ FrameOK(Writing(f, r))
         /\ ~Opening(Writing(f, r)) /\ ~Ending(Writing(f, r))
<1> DEFINE w == Writing(f, r)
<1>1. /\ w \in Frame /\ w.pc = "cas" /\ w.op = f.op /\ w.task = f.task
      /\ w.next.revision = store.revision + 1 /\ w.next.taskId = r.taskId
      /\ w.next.state = r.state /\ w.next.settlement = r.settlement
  BY WritingType
<1> HIDE DEF w
<1>2. ~Opening(w) /\ ~Ending(w)
  BY <1>1 DEF Opening, Ending
<1>3. WindowOK(w)
  BY <1>1 DEF WindowOK, TypeOK, Record
<1>4. QED BY <1>1, <1>2, <1>3 DEF FrameOK, OpeningOK, EndingOK, w
-----------------------------------------------------------------------------
(* Reads keep ownership. *)

LEMMA ReserveOpenOwns ==
  ASSUME TypeOK, OwnershipInv, NEW c \in Slots, NEW f \in Frame,
         UNCHANGED <<store, hold, bill>>, ReadReserveOpen(c, f),
         f.op = "reserveOpen", f.task \in Tasks, hold[f.task] = "held",
         f.next.taskId = f.task, f.next.state = "active", f.next.settlement = "none",
         \A d \in Slots \ {c} : Opening(call[d]) => call[d].task # f.task
  PROVE  OwnershipInv'
<1>1. CASE Return(c)
  BY <1>1, ReturnOK
<1>2. ASSUME NEW pc \in {"lapse", "create"}, Become(c, [f EXCEPT !.pc = pc]),
             ~(store.state # "absent" /\ store.taskId = f.task)
      PROVE  OwnershipInv'
  <2> DEFINE g == [f EXCEPT !.pc = pc]
  <2>1. g \in Frame
    BY PcType DEF PCs
  <2>2. g.op = "reserveOpen" /\ g.pc = pc /\ g.task = f.task /\ g.next = f.next
    BY DEF Frame
  <2>3. store.taskId # f.task
    BY <1>2, IdAssumption DEF OwnershipInv, RecordOK, NoRecord, IdAssumption
  <2> HIDE DEF g
  <2>4. ~Ending(g) /\ FrameOK(g)
    BY <2>2, <2>3 DEF Ending, FrameOK, OpeningOK, WindowOK, EndingOK
  <2>5. QED BY <1>2, <2>1, <2>2, <2>4, DecideOK DEF g
<1>3. QED BY <1>1, <1>2 DEF ReadReserveOpen

LEMMA BeginTurnOwns ==
  ASSUME TypeOK, OwnershipInv, NEW c \in Slots, NEW f \in Frame,
         UNCHANGED <<store, hold, bill>>, ReadBeginTurn(c, f),
         f.op = "beginTurn", f.turn \in Turns
  PROVE  OwnershipInv'
<1> DEFINE r == [store EXCEPT !.pending = @ \cup {f.turn}, !.lastTurnAt = now]
<1>1. CASE Return(c)
  BY <1>1, ReturnOK
<1>2. CASE Become(c, CloseCall("deadline"))
  <2>1. CloseCall("deadline") \in Frame
    BY CloseCallType DEF EndReasons
  <2>2. QED BY <1>2, <2>1, DecideQuietOK, QuietFrames
<1>3. CASE Become(c, Writing(f, r)) /\ store.state = "active"
  <2>1. r \in Record /\ r.taskId = store.taskId /\ r.state = store.state
        /\ r.settlement = store.settlement
    BY DEF TypeOK, Record, TurnIds
  <2>2. store.settlement = "none"
    BY <1>3 DEF OwnershipInv, RecordOK
  <2> HIDE DEF r
  <2>3. Writing(f, r) \in Frame /\ FrameOK(Writing(f, r))
        /\ ~Opening(Writing(f, r)) /\ ~Ending(Writing(f, r))
    BY <1>3, <2>1, <2>2, WritingOK
  <2>4. QED BY <1>3, <2>3, DecideOK
<1>4. QED BY <1>1, <1>2, <1>3 DEF ReadBeginTurn

LEMMA ApplyUsageOwns ==
  ASSUME TypeOK, OwnershipInv, NEW c \in Slots, NEW f \in Frame,
         UNCHANGED <<store, hold, bill>>, ReadApplyUsage(c, f),
         f.op \in {"commitOpen", "finishTurn", "recordTurn"}
  PROVE  OwnershipInv'
<1> DEFINE draft == [MergeUsage(store, f.use) EXCEPT !.pending = @ \ LeaseOf(f),
                                                     !.completed = @ \cup LeaseOf(f),
                                                     !.lastTurnAt = now]
           trigger == UsageTrigger(draft)
           next == IF trigger # None /\ draft.pending # {} /\ draft.closeRequested = None
                     THEN [draft EXCEPT !.closeRequested = trigger] ELSE draft
           g == [f EXCEPT !.reason = trigger]
<1>1. CASE ~AcceptsUsage(f)
  BY <1>1, ReturnOK DEF ReadApplyUsage
<1>2. CASE AcceptsUsage(f)
  <2>1. /\ draft \in Record /\ draft.taskId = store.taskId
        /\ draft.state = store.state /\ draft.settlement = store.settlement
    BY <1>2, ApplyDraftType, LeaseType
  <2>2. trigger \in EndReasons \cup {None}
    BY <2>1, TriggerType
  <2>3. Become(c, Writing(g, next))
    BY <1>2 DEF ReadApplyUsage
  <2> HIDE DEF draft, trigger
  <2>4. /\ next \in Record /\ next.taskId = store.taskId
        /\ next.state = store.state /\ next.settlement = store.settlement
    BY <2>1, <2>2 DEF Record
  <2>5. g \in Frame /\ g.op = f.op
    BY <2>2 DEF Frame
  <2>6. store.state = "active" /\ store.settlement = "none"
    BY <1>2 DEF AcceptsUsage, OwnershipInv, RecordOK
  <2> HIDE DEF next, g
  <2>7. Writing(g, next) \in Frame /\ FrameOK(Writing(g, next))
        /\ ~Opening(Writing(g, next)) /\ ~Ending(Writing(g, next))
    BY <2>4, <2>5, <2>6, WritingOK
  <2>8. QED BY <2>3, <2>7, DecideOK
<1>3. QED BY <1>1, <1>2

LEMMA CancelTurnOwns ==
  ASSUME TypeOK, OwnershipInv, NEW c \in Slots, NEW f \in Frame,
         UNCHANGED <<store, hold, bill>>, ReadCancelTurn(c, f), f.op = "cancelTurn"
  PROVE  OwnershipInv'
<1> DEFINE r == [store EXCEPT !.pending = @ \ {f.turn}]
<1>1. CASE Return(c)
  BY <1>1, ReturnOK
<1>2. CASE Become(c, Writing(f, r)) /\ store.state = "active"
  <2>1. r \in Record /\ r.taskId = store.taskId /\ r.state = store.state
        /\ r.settlement = store.settlement
    BY DEF TypeOK, Record
  <2>2. store.settlement = "none"
    BY <1>2 DEF OwnershipInv, RecordOK
  <2> HIDE DEF r
  <2>3. Writing(f, r) \in Frame /\ FrameOK(Writing(f, r))
        /\ ~Opening(Writing(f, r)) /\ ~Ending(Writing(f, r))
    BY <1>2, <2>1, <2>2, WritingOK
  <2>4. QED BY <1>2, <2>3, DecideOK
<1>3. QED BY <1>1, <1>2 DEF ReadCancelTurn

LEMMA CancelOpenOwns ==
  ASSUME TypeOK, OwnershipInv, NEW c \in Slots, NEW f \in Frame,
         UNCHANGED <<store, hold, bill>>, ReadCancelOpen(c, f), f.op = "cancelOpen"
  PROVE  OwnershipInv'
<1> DEFINE r == [store EXCEPT !.state = "settling", !.closeRequested = None]
           g == [f EXCEPT !.reason = store.closeRequested]
<1>1. CASE Return(c)
  BY <1>1, ReturnOK
<1>2. CASE Become(c, Writing(g, r)) /\ store.taskId = f.task /\ HasPendingOpen(store)
  <2>1. r \in Record /\ r.taskId = store.taskId /\ r.state = "settling"
        /\ r.settlement = store.settlement
    BY DEF TypeOK, Record
  <2>2. g \in Frame /\ g.op = f.op /\ g.task = f.task
    BY DEF TypeOK, Record, Frame
  <2>3. store.state = "active" /\ store.settlement = "none"
    BY <1>2 DEF OwnershipInv, RecordOK, HasPendingOpen
  <2> HIDE DEF r, g
  <2>4. Writing(g, r) \in Frame /\ FrameOK(Writing(g, r))
        /\ ~Opening(Writing(g, r)) /\ ~Ending(Writing(g, r))
    BY <1>2, <2>1, <2>2, <2>3, WritingOK
  <2>5. QED BY <1>2, <2>4, DecideOK
<1>3. QED BY <1>1, <1>2 DEF ReadCancelOpen

LEMMA CloseOwns ==
  ASSUME TypeOK, OwnershipInv, NEW c \in Slots, NEW f \in Frame, f.pc = "get",
         UNCHANGED <<store, hold, bill>>, ReadClose(c, f), f.op = "close"
  PROVE  OwnershipInv'
<1> DEFINE waiting == [store EXCEPT !.closeRequested = IF @ = None THEN f.reason ELSE @]
           settling == [store EXCEPT !.state = "settling",
                                     !.incomplete = @ \/ store.pending # {},
                                     !.closeRequested = None]
           g == [f EXCEPT !.task = store.taskId]
<1>1. CASE Return(c)
  BY <1>1, ReturnOK
<1>2. CASE Become(c, Writing(f, waiting)) /\ store.state = "active"
  <2>1. waiting \in Record /\ waiting.taskId = store.taskId /\ waiting.state = store.state
        /\ waiting.settlement = store.settlement
    BY DEF TypeOK, Record, Frame
  <2>2. store.settlement = "none"
    BY <1>2 DEF OwnershipInv, RecordOK
  <2> HIDE DEF waiting
  <2>3. Writing(f, waiting) \in Frame /\ FrameOK(Writing(f, waiting))
        /\ ~Opening(Writing(f, waiting)) /\ ~Ending(Writing(f, waiting))
    BY <1>2, <2>1, <2>2, WritingOK
  <2>4. QED BY <1>2, <2>3, DecideOK
<1>3. CASE Become(c, Writing(g, settling)) /\ store.state = "active"
  <2>1. (store.incomplete \/ store.pending # {}) \in BOOLEAN
    BY DEF TypeOK, Record
  <2>2. settling \in Record /\ settling.taskId = store.taskId /\ settling.state = "settling"
        /\ settling.settlement = store.settlement
    BY <2>1 DEF TypeOK, Record
  <2>3. store.settlement = "none" /\ store.taskId \in Tasks
    BY <1>3 DEF OwnershipInv, RecordOK
  <2>4. g \in Frame /\ g.op = f.op /\ g.task = store.taskId
    BY <2>3 DEF Frame
  <2> HIDE DEF settling, g
  <2>5. Writing(g, settling) \in Frame /\ FrameOK(Writing(g, settling))
        /\ ~Opening(Writing(g, settling)) /\ ~Ending(Writing(g, settling))
    BY <1>3, <2>2, <2>3, <2>4, WritingOK
  <2>6. QED BY <1>3, <2>5, DecideOK
<1>4. QED BY <1>1, <1>2, <1>3 DEF ReadClose

LEMMA AuthorizeDeliveryOwns ==
  ASSUME TypeOK, OwnershipInv, NEW c \in Slots, NEW f \in Frame,
         UNCHANGED <<store, hold, bill>>, ReadAuthorizeDelivery(c, f),
         f.op = "authorizeDelivery"
  PROVE  OwnershipInv'
<1> DEFINE g == [f EXCEPT !.pc = "authorize", !.task = store.taskId, !.next = store]
<1>1. CASE Return(c)
  BY <1>1, ReturnOK
<1>2. CASE Become(c, g) /\ store.taskId # None
  <2>1. store \in Record /\ store.taskId \in Tasks
    BY <1>2 DEF TypeOK, Record
  <2>2. g \in Frame /\ g.pc = "authorize"
    BY <2>1 DEF Frame, PCs
  <2> HIDE DEF g
  <2>3. Quiet(g)
    BY <2>2 DEF Quiet, Opening, Ending
  <2>4. QED BY <1>2, <2>2, <2>3, DecideQuietOK
<1>3. QED BY <1>1, <1>2 DEF ReadAuthorizeDelivery

LEMMA ForgetClosedOwns ==
  ASSUME TypeOK, OwnershipInv, NEW c \in Slots, NEW f \in Frame,
         UNCHANGED <<store, hold, bill>>, ReadForgetClosed(c, f), f.op = "forgetClosed"
  PROVE  OwnershipInv'
<1> DEFINE w == Writing(f, store)
           g == [w EXCEPT !.pc = "delete"]
<1>1. CASE Return(c)
  BY <1>1, ReturnOK
<1>2. CASE Become(c, g) /\ store.state = "closed"
  <2>1. /\ w \in Frame /\ w.op = f.op /\ w.next.revision = store.revision + 1
    BY WritingType DEF TypeOK
  <2> HIDE DEF w
  <2>2. g \in Frame /\ g.op = f.op /\ g.pc = "delete" /\ g.next.revision = store.revision + 1
    BY <2>1, PcType DEF PCs, Frame
  <2> HIDE DEF g
  <2>3. ~Opening(g) /\ ~Ending(g)
    BY <2>2 DEF Opening, Ending
  <2>4. WindowOK(g)
    BY <1>2, <2>2 DEF WindowOK, TypeOK, Record
  <2>5. FrameOK(g)
    BY <2>3, <2>4 DEF FrameOK, OpeningOK, EndingOK
  <2>6. QED BY <1>2, <2>2, <2>3, <2>5, DecideOK
<1>3. QED BY <1>1, <1>2 DEF ReadForgetClosed

LEMMA RetryOwns ==
  ASSUME TypeOK, OwnershipInv, NEW c \in Slots, Retry(c)
  PROVE  OwnershipInv'
<1> DEFINE f == call[c]
<1>1. f \in Frame /\ f.pc = "get" /\ (f.op = "beginTurn" => f.turn \in Turns)
  BY DEF TypeOK, Frame, Retry, At
<1>2. UNCHANGED <<store, hold, bill>>
  BY DEF Retry, gateVars
<1>3. CASE f.op = "reserveOpen" /\ ReadReserveOpen(c, f)
  <2>1. Opening(f) /\ OpeningOK(f)
    BY <1>1, <1>3 DEF Opening, OwnershipInv
  <2>2. \A d \in Slots \ {c} : Opening(call[d]) => call[d].task # f.task
    BY <2>1 DEF OwnershipInv, OneOwner
  <2>3. QED BY <1>1, <1>2, <1>3, <2>1, <2>2, ReserveOpenOwns DEF OpeningOK
<1>4. CASE f.op = "beginTurn" /\ ReadBeginTurn(c, f)
  BY <1>1, <1>2, <1>4, BeginTurnOwns
<1>5. CASE f.op \in {"commitOpen", "finishTurn", "recordTurn"} /\ ReadApplyUsage(c, f)
  BY <1>1, <1>2, <1>5, ApplyUsageOwns
<1>6. CASE f.op = "cancelTurn" /\ ReadCancelTurn(c, f)
  BY <1>1, <1>2, <1>6, CancelTurnOwns
<1>7. CASE f.op = "cancelOpen" /\ ReadCancelOpen(c, f)
  BY <1>1, <1>2, <1>7, CancelOpenOwns
<1>8. CASE f.op = "close" /\ ReadClose(c, f)
  BY <1>1, <1>2, <1>8, CloseOwns
<1>9. QED BY <1>3, <1>4, <1>5, <1>6, <1>7, <1>8 DEF Retry

LEMMA HostStepOwns ==
  ASSUME TypeOK, OwnershipInv, NEW c \in Slots, HostStep(c)
  PROVE  OwnershipInv'
<1>1. UNCHANGED <<store, hold, bill>> /\ now \in Nat
  BY DEF HostStep, ReserveOpen, CancelOpen, Open, CommitOpen, BeginTurn, CancelTurn,
         FinishTurn, RecordTurn, Close, AuthorizeDelivery, ForgetClosed, gateVars, TypeOK
<1>2. \A u \in Readings : u \in Nat \cup {Unreported}
  BY CallAssumption DEF CallAssumption
<1>3. ASSUME NEW t \in Tasks, MayOpen(t)
      PROVE  hold[t] = "held" /\ \A d \in Slots \ {c} : Opening(call[d]) => call[d].task # t
  BY <1>3 DEF MayOpen, Opening
<1>4. ASSUME NEW t \in Tasks, ReserveOpen(c, t) PROVE OwnershipInv'
  <2> DEFINE n == NewCall("reserveOpen")
             r == DraftOpenRecord(t, now, TRUE)
             f == [n EXCEPT !.task = t, !.next = r]
  <2>1. n \in Frame /\ n.op = "reserveOpen" /\ n.pc = "get"
    BY NewCallType DEF Ops
  <2>2. r \in Record /\ r.taskId = t /\ r.state = "active" /\ r.settlement = "none"
    <3>1. r \in Record
      BY <1>1, DraftType
    <3>2. r.taskId = t /\ r.state = "active" /\ r.settlement = "none"
      BY DEF DraftOpenRecord, NoRecord
    <3>3. QED BY <3>1, <3>2
  <2>3. ReadReserveOpen(c, f) /\ MayOpen(t)
    BY <1>4 DEF ReserveOpen
  <2> HIDE DEF n, r
  <2>4. f \in Frame /\ f.op = "reserveOpen" /\ f.task = t /\ f.next = r
    BY <2>1, <2>2 DEF Frame
  <2> HIDE DEF f
  <2>5. QED BY <1>1, <1>3, <2>2, <2>3, <2>4, ReserveOpenOwns
<1>5. ASSUME NEW t \in Tasks, CancelOpen(c, t) PROVE OwnershipInv'
  <2> DEFINE f == [NewCall("cancelOpen") EXCEPT !.task = t]
  <2>1. f \in Frame /\ f.op = "cancelOpen"
    BY NewCallType DEF Frame, Ops
  <2>2. ReadCancelOpen(c, f)
    BY <1>5 DEF CancelOpen
  <2>3. QED BY <1>1, <2>1, <2>2, CancelOpenOwns
<1>6. ASSUME NEW t \in Tasks, NEW u \in Readings, Open(c, t, u) PROVE OwnershipInv'
  <2> DEFINE draft == MergeUsage(DraftOpenRecord(t, now, FALSE), u)
             trigger == UsageTrigger(draft)
             r == [draft EXCEPT !.closeRequested = trigger]
             n == NewCall("open")
             g == [n EXCEPT !.pc = "create", !.task = t, !.use = u, !.reason = trigger,
                            !.next = r]
  <2>1. draft \in Record /\ draft.taskId = t /\ draft.state = "active"
        /\ draft.settlement = "none"
    <3> DEFINE first == DraftOpenRecord(t, now, FALSE)
    <3>1. first \in Record /\ first.taskId = t /\ first.state = "active"
          /\ first.settlement = "none"
      BY <1>1, DraftType, ZenonT(20)
    <3> HIDE DEF first
    <3>2. QED BY <1>2, <3>1, MergeType DEF first
  <2>2. trigger \in EndReasons \cup {None}
    BY <2>1, TriggerType
  <2>3. Become(c, g) /\ MayOpen(t) /\ store.taskId # t
    BY <1>6 DEF Open
  <2> HIDE DEF draft, trigger
  <2>4. r \in Record /\ r.taskId = t /\ r.state = "active" /\ r.settlement = "none"
    BY <2>1, <2>2 DEF Record
  <2>5. n \in Frame /\ n.op = "open"
    BY NewCallType DEF Ops
  <2>6. u \in Nat \cup {Unreported} /\ "create" \in PCs
    BY <1>2 DEF PCs
  <2> HIDE DEF r, n
  <2>7. g \in Frame /\ g.op = "open" /\ g.pc = "create" /\ g.task = t /\ g.next = r
    BY <2>2, <2>4, <2>5, <2>6 DEF Frame
  <2> HIDE DEF g
  <2>8. ~Ending(g) /\ FrameOK(g)
    BY <1>3, <2>3, <2>4, <2>7 DEF Ending, FrameOK, OpeningOK, WindowOK, EndingOK
  <2>9. QED BY <1>1, <1>3, <2>3, <2>7, <2>8, DecideOK
<1>7. ASSUME NEW t \in Tasks, NEW u \in Readings, CommitOpen(c, t, u) PROVE OwnershipInv'
  <2> DEFINE f == [NewCall("commitOpen") EXCEPT !.task = t, !.use = u]
  <2>1. NewCall("commitOpen") \in Frame /\ NewCall("commitOpen").op = "commitOpen"
        /\ NewCall("commitOpen").pc = "get"
    BY NewCallType DEF Ops
  <2>2. u \in Nat \cup {Unreported}
    BY <1>2
  <2>3. f \in Frame /\ f.op = "commitOpen"
    BY <2>1, <2>2 DEF Frame
  <2>4. ReadApplyUsage(c, f)
    BY <1>7 DEF CommitOpen
  <2>5. QED BY <1>1, <2>3, <2>4, ApplyUsageOwns
<1>8. ASSUME NEW m \in Turns, BeginTurn(c, m) PROVE OwnershipInv'
  <2> DEFINE f == [NewCall("beginTurn") EXCEPT !.turn = m]
  <2>1. f \in Frame /\ f.turn \in Turns /\ f.op = "beginTurn"
    BY IdleType DEF NewCall, Frame, Ops, PCs, Idle
  <2>2. ReadBeginTurn(c, f)
    BY <1>8 DEF BeginTurn
  <2>3. QED BY <1>1, <2>1, <2>2, BeginTurnOwns
<1>9. ASSUME NEW m \in Turns, CancelTurn(c, m) PROVE OwnershipInv'
  <2> DEFINE f == [NewCall("cancelTurn") EXCEPT !.turn = m]
  <2>1. f \in Frame /\ f.op = "cancelTurn"
    BY NewCallType DEF Frame, Ops
  <2>2. ReadCancelTurn(c, f)
    BY <1>9 DEF CancelTurn
  <2>3. QED BY <1>1, <2>1, <2>2, CancelTurnOwns
<1>10. ASSUME NEW m \in Turns, NEW u \in Readings, FinishTurn(c, m, u) PROVE OwnershipInv'
  <2> DEFINE f == [NewCall("finishTurn") EXCEPT !.turn = m, !.use = u]
  <2>1. NewCall("finishTurn") \in Frame /\ NewCall("finishTurn").op = "finishTurn"
        /\ NewCall("finishTurn").pc = "get"
    BY NewCallType DEF Ops
  <2>2. u \in Nat \cup {Unreported}
    BY <1>2
  <2>3. f \in Frame /\ f.op = "finishTurn"
    BY <2>1, <2>2 DEF Frame
  <2>4. ReadApplyUsage(c, f)
    BY <1>10 DEF FinishTurn
  <2>5. QED BY <1>1, <2>3, <2>4, ApplyUsageOwns
<1>11. ASSUME NEW u \in Readings, RecordTurn(c, u) PROVE OwnershipInv'
  <2> DEFINE f == [NewCall("recordTurn") EXCEPT !.use = u]
  <2>1. NewCall("recordTurn") \in Frame /\ NewCall("recordTurn").op = "recordTurn"
        /\ NewCall("recordTurn").pc = "get"
    BY NewCallType DEF Ops
  <2>2. u \in Nat \cup {Unreported}
    BY <1>2
  <2>3. f \in Frame /\ f.op = "recordTurn"
    BY <2>1, <2>2 DEF Frame
  <2>4. ReadApplyUsage(c, f)
    BY <1>11 DEF RecordTurn
  <2>5. QED BY <1>1, <2>3, <2>4, ApplyUsageOwns
<1>12. CASE Close(c)
  <2>1. CloseCall("manual") \in Frame /\ CloseCall("manual").pc = "get"
        /\ CloseCall("manual").op = "close"
    BY CloseCallType DEF EndReasons
  <2>2. QED BY <1>1, <1>12, <2>1, CloseOwns DEF Close
<1>13. CASE AuthorizeDelivery(c)
  <2>1. NewCall("authorizeDelivery") \in Frame
        /\ NewCall("authorizeDelivery").op = "authorizeDelivery"
    BY NewCallType DEF Ops
  <2>2. QED BY <1>1, <1>13, <2>1, AuthorizeDeliveryOwns DEF AuthorizeDelivery
<1>14. CASE ForgetClosed(c)
  <2>1. NewCall("forgetClosed") \in Frame /\ NewCall("forgetClosed").op = "forgetClosed"
    BY NewCallType DEF Ops
  <2>2. QED BY <1>1, <1>14, <2>1, ForgetClosedOwns DEF ForgetClosed
<1>15. QED BY <1>4, <1>5, <1>6, <1>7, <1>8, <1>9, <1>10, <1>11, <1>12, <1>13, <1>14
           DEF HostStep
-----------------------------------------------------------------------------
(* Writes keep ownership. *)

(* The record a call decided on is still there, so nobody is ending it, and *)
(* its successor spoils every other open window.                            *)
LEMMA InstallOK ==
  ASSUME TypeOK, OwnershipInv, NEW c \in Slots, NEW g \in Frame, At(c, "cas"), Matches(call[c]),
         store' = call[c].next, UNCHANGED <<hold, bill>>, Become(c, g),
         \/ call[c].next.state = "active" /\ Quiet(g)
         \/ /\ call[c].next.state = "settling"
            /\ \E pc \in {"publication", "lapse"} : g = [call[c] EXCEPT !.pc = pc]
  PROVE  OwnershipInv'
<1> DEFINE f == call[c]
<1>1. f \in Frame /\ f.next \in Record /\ store \in Record
  BY AtFrame DEF TypeOK
<1>2. /\ store.state = "active" /\ f.next.taskId = store.taskId /\ f.next.settlement = "none"
      /\ f.next.state = "settling" => f.op \in {"close", "cancelOpen"} /\ f.task = store.taskId
      /\ f.next.revision = store.revision + 1
  BY <1>1 DEF OwnershipInv, WindowOK, At, Matches, Record
<1>3. \A d \in Slots : call'[d] = IF d = c THEN g ELSE call[d]
  BY DEF Become, TypeOK
<1>4. \A d \in Slots : ~Ending(call[d])
  BY <1>2 DEF OwnershipInv, EndingOK
<1>5. hold[store.taskId] = "held" /\ store.taskId \in Tasks
  BY <1>2 DEF OwnershipInv, RecordOK
<1>6. RecordOK' /\ BillOK'
  BY <1>2, <1>5 DEF OwnershipInv, RecordOK, BillOK
<1>7. ~Opening(g) /\ WindowOK(g)' /\ EndingOK(g)'
  <2>1. CASE Quiet(g)
    BY <2>1, QuietOK DEF Quiet, FrameOK
  <2>2. CASE f.next.state = "settling" /\ \E pc \in {"publication", "lapse"} : g = [f EXCEPT !.pc = pc]
    <3>1. PICK pc \in {"publication", "lapse"} : g = [f EXCEPT !.pc = pc]
      BY <2>2
    <3>2. g.op = f.op /\ g.pc = pc /\ g.task = f.task /\ g.next = f.next
      BY <1>1, <3>1 DEF Frame
    <3>3. QED BY <1>2, <1>5, <2>2, <3>2 DEF Opening, Ending, WindowOK, EndingOK
  <2>3. QED BY <2>1, <2>2
<1>8. ASSUME NEW d \in Slots PROVE (OpeningOK(call[d]) /\ WindowOK(call[d]) /\ EndingOK(call[d]))'
  <2>1. CASE d = c
    BY <1>3, <1>7, <2>1 DEF OpeningOK, WindowOK, EndingOK, Opening, Ending, Matches
  <2>2. CASE d # c
    <3>1. call'[d] = call[d] /\ call[d].next.revision \in Nat /\ store.revision \in Nat
      BY <1>1, <1>3, <2>2 DEF TypeOK, Frame, Record
    <3>2. OpeningOK(call[d]) /\ WindowOK(call[d])
      BY DEF OwnershipInv
    <3>3. OpeningOK(call[d])'
      BY <1>2, <3>1, <3>2 DEF OpeningOK, Opening
    <3>4. WindowOK(call[d])'
      BY <1>2, <3>1, <3>2 DEF WindowOK, Matches
    <3>5. EndingOK(call[d])'
      BY <1>4, <3>1 DEF EndingOK, Ending
    <3>6. QED BY <3>3, <3>4, <3>5
  <2>3. QED BY <2>1, <2>2
<1>9. OneOwner'
  BY <1>3, <1>4, <1>7 DEF OwnershipInv, OneOwner, Opening, Ending
<1>10. QED BY <1>6, <1>8, <1>9 DEF OwnershipInv

LEMMA WriteOwns ==
  ASSUME TypeOK, OwnershipInv, NEW c \in Slots,
         WriteBeginTurn(c) \/ WriteApplyUsage(c) \/ WriteCancelTurn(c)
  PROVE  OwnershipInv'
<1> DEFINE f == call[c]
<1>1. f \in Frame /\ f.next \in Record /\ f.reason \in EndReasons \cup {None}
      /\ f.next.closeRequested \in EndReasons \cup {None}
  BY AtFrame DEF Record
<1>2. /\ At(c, "cas") /\ Matches(f) /\ store' = f.next /\ UNCHANGED <<hold, bill>>
      /\ f.op \in {"beginTurn", "commitOpen", "finishTurn", "recordTurn", "cancelTurn"}
  BY DEF WriteBeginTurn, WriteApplyUsage, WriteCancelTurn, gateVars
<1>3. f.next.state = "active"
  BY <1>2 DEF OwnershipInv, WindowOK, At
<1>4. \E g \in Frame : Quiet(g) /\ Become(c, g)
  <2>1. Idle \in Frame /\ CloseCall(f.reason) \in Frame /\ CloseCall(f.next.closeRequested) \in Frame
    BY <1>1, IdleType, CloseCallType
  <2>2. QED BY <2>1, QuietFrames DEF WriteBeginTurn, WriteApplyUsage, WriteCancelTurn, Return
<1>5. QED BY <1>2, <1>3, <1>4, InstallOK

LEMMA WriteEndingOwns ==
  ASSUME TypeOK, OwnershipInv, NEW c \in Slots, WriteClose(c) \/ WriteCancelOpen(c)
  PROVE  OwnershipInv'
<1> DEFINE f == call[c]
<1>1. /\ At(c, "cas") /\ Matches(f) /\ store' = f.next /\ UNCHANGED <<hold, bill>>
      /\ f \in Frame
  BY AtFrame DEF WriteClose, WriteCancelOpen, gateVars
<1>2. CASE f.next.state = "active" /\ Return(c)
  BY <1>1, <1>2, IdleType, QuietFrames, InstallOK DEF Return
<1>3. ASSUME f.next.state = "settling", NEW pc \in {"publication", "lapse"},
             Become(c, [f EXCEPT !.pc = pc])
      PROVE  OwnershipInv'
  <2>1. [f EXCEPT !.pc = pc] \in Frame
    BY <1>1, PcType DEF PCs
  <2>2. QED BY <1>1, <1>3, <2>1, InstallOK
<1>4. WriteCancelOpen(c) => f.next.state = "settling"
  BY <1>1 DEF WriteCancelOpen, OwnershipInv, WindowOK, At
<1>5. QED BY <1>2, <1>3, <1>4 DEF WriteClose, WriteCancelOpen

LEMMA LoseWriteOwns ==
  ASSUME TypeOK, OwnershipInv, NEW c \in Slots, LoseWrite(c)
  PROVE  OwnershipInv'
<1> DEFINE f == call[c]
           g == [f EXCEPT !.pc = "get", !.next = NoRecord]
<1>1. f \in Frame /\ f.pc = "cas"
  BY AtFrame DEF LoseWrite, At
<1>2. g \in Frame /\ g.op = f.op /\ g.pc = "get"
  BY <1>1, NoRecordType, PcType, NextType DEF PCs, Frame
<1>3. f.op \notin {"reserveOpen", "open"}
  BY <1>1 DEF OwnershipInv, WindowOK
<1>4. QED BY <1>2, <1>3, DecideQuietOK DEF LoseWrite, Quiet, Opening, Ending, gateVars

(* Nobody is ending a session that is closed or absent. *)
LEMMA NobodyEnding ==
  ASSUME OwnershipInv, store.state # "settling"
  PROVE  \A d \in Slots : ~Ending(call[d])
BY DEF OwnershipInv, EndingOK

(* A closed record is removed: no window matches an absent record. *)
LEMMA RemoveOK ==
  ASSUME TypeOK, OwnershipInv, NEW c \in Slots, store.state = "closed", store' = NoRecord,
         UNCHANGED <<hold, bill>>, UNCHANGED call \/ Return(c)
  PROVE  OwnershipInv'
<1>1. \A d \in Slots : ~Ending(call[d])
  BY NobodyEnding
<1>2. \A d \in Slots : call'[d] = call[d] \/ call'[d] = Idle
  BY DEF Return, Become, TypeOK
<1>3. store'.state = "absent" /\ store'.taskId = None /\ store'.settlement = "none"
  BY DEF NoRecord
<1>4. RecordOK' /\ BillOK'
  BY <1>3 DEF OwnershipInv, RecordOK, BillOK
<1>5. ASSUME NEW d \in Slots PROVE (OpeningOK(call[d]) /\ WindowOK(call[d]) /\ EndingOK(call[d]))'
  <2>1. CASE call'[d] = Idle
    BY <2>1, QuietFrames DEF Quiet, OpeningOK, WindowOK, EndingOK, Opening, Ending, Matches
  <2>2. CASE call'[d] = call[d]
    <3>1. OpeningOK(call[d]) /\ WindowOK(call[d])
      BY DEF OwnershipInv
    <3>2. QED BY <1>1, <1>3, <2>2, <3>1, IdAssumption
              DEF OpeningOK, WindowOK, EndingOK, Opening, Ending, Matches, IdAssumption
  <2>3. QED BY <1>2, <2>1, <2>2
<1>6. OneOwner'
  BY <1>1, <1>2 DEF OwnershipInv, OneOwner, Opening, Ending, Idle
<1>7. QED BY <1>4, <1>5, <1>6 DEF OwnershipInv

LEMMA DeleteOwns ==
  ASSUME TypeOK, OwnershipInv, NEW c \in Slots, DeleteClosed(c)
  PROVE  OwnershipInv'
<1>1. Return(c) /\ UNCHANGED <<hold, bill>> /\ call[c].pc = "delete"
  BY DEF DeleteClosed, gateVars, At
<1>2. CASE Matches(call[c])
  <2>1. store.state = "closed" /\ store' = NoRecord
    BY <1>1, <1>2 DEF OwnershipInv, WindowOK, DeleteClosed
  <2>2. QED BY <1>1, <2>1, RemoveOK
<1>3. CASE ~Matches(call[c])
  BY <1>1, <1>3, ReturnOK DEF DeleteClosed
<1>4. QED BY <1>2, <1>3

(* A new record: every window onto the old one is lost (~SlowStore). *)
LEMMA CreateOwns ==
  ASSUME ~SlowStore, TypeOK, OwnershipInv, NEW c \in Slots, Create(c)
  PROVE  OwnershipInv'
<1> DEFINE f == call[c]
<1>1. f \in Frame /\ f.next \in Record /\ f.pc = "create" /\ f.reason \in EndReasons \cup {None}
      /\ UNCHANGED <<hold, bill>> /\ f.op \in {"reserveOpen", "open"}
  BY AtFrame DEF Create, At, gateVars
<1>2. /\ Opening(f) /\ f.task \in Tasks /\ hold[f.task] = "held" /\ store.taskId # f.task
      /\ f.next.taskId = f.task /\ f.next.state = "active" /\ f.next.settlement = "none"
  BY <1>1 DEF OwnershipInv, OpeningOK, Opening
<1>3. ASSUME Creatable(store), store' = f.next, NEW g \in Frame, Quiet(g), CreatedBy(c, g)
      PROVE  OwnershipInv'
  <2>1. \A d \in Slots : ~Ending(call[d])
    BY <1>3, NobodyEnding DEF Creatable, Reconciled
  <2>2. call'[c] = g
    BY <1>3 DEF CreatedBy
  <2>3. ASSUME NEW d \in Slots, d # c
        PROVE  \/ call'[d] = call[d] /\ call[d].pc \notin {"cas", "delete"}
               \/ /\ call[d].pc \in {"cas", "delete"} /\ call'[d].pc = call[d].pc
                  /\ call'[d].op = call[d].op /\ call'[d].next = NoRecord
    <3>1. CASE call[d].pc \notin {"cas", "delete"}
      BY <1>3, <2>3, <3>1 DEF CreatedBy
    <3>2. CASE call[d].pc \in {"cas", "delete"}
      <4>1. call'[d] = [call[d] EXCEPT !.next = NoRecord]
        BY <1>3, <2>3, <3>2 DEF CreatedBy
      <4>2. call[d] \in Frame
        BY AtFrame
      <4>3. QED BY <3>2, <4>1, <4>2 DEF Frame
    <3>3. QED BY <3>1, <3>2
  <2>4. RecordOK' /\ BillOK'
    BY <1>1, <1>2, <1>3 DEF OwnershipInv, RecordOK, BillOK
  <2>5. ASSUME NEW d \in Slots
        PROVE  (OpeningOK(call[d]) /\ WindowOK(call[d]) /\ EndingOK(call[d]))'
    <3>1. CASE d = c
      BY <1>3, <2>2, <3>1, QuietOK DEF Quiet, OpeningOK, WindowOK, EndingOK, Opening, Ending
    <3>2. CASE d # c /\ call'[d] = call[d] /\ call[d].pc \notin {"cas", "delete"}
      <4>1. OpeningOK(call[d])
        BY DEF OwnershipInv
      <4>2. Opening(call[d]) => call[d].task # f.task
        BY <1>2, <3>2 DEF OwnershipInv, OneOwner
      <4>3. OpeningOK(call[d])'
        BY <1>1, <1>2, <1>3, <3>2, <4>1, <4>2 DEF OpeningOK, Opening
      <4>4. QED BY <2>1, <3>2, <4>3 DEF WindowOK, EndingOK, Ending
    <3>3. CASE /\ d # c /\ call[d].pc \in {"cas", "delete"} /\ call'[d].pc = call[d].pc
               /\ call'[d].op = call[d].op /\ call'[d].next = NoRecord
      <4>1. store'.revision \in Nat /\ NoRecord.revision = 0
        BY <1>1, <1>3 DEF Record, NoRecord
      <4>2. ~Matches(call[d])'
        BY <3>3, <4>1 DEF Matches
      <4>3. WindowOK(call[d])'
        <5>1. call[d].pc = "cas" => call[d].op \notin {"reserveOpen", "open"}
          BY DEF OwnershipInv, WindowOK
        <5>2. QED BY <3>3, <4>1, <4>2, <5>1 DEF WindowOK
      <4>4. QED BY <3>3, <4>3 DEF OpeningOK, EndingOK, Opening, Ending
    <3>4. QED BY <2>3, <3>1, <3>2, <3>3
  <2>6. OneOwner'
    <3>1. \A d \in Slots : ~Ending(call[d])'
      BY <1>3, <2>1, <2>2, <2>3 DEF Ending, Quiet
    <3>2. \A d \in Slots : Opening(call[d])' => call'[d] = call[d]
      BY <1>3, <2>2, <2>3 DEF Opening, Quiet
    <3>3. QED BY <3>1, <3>2 DEF OwnershipInv, OneOwner, Opening
  <2>7. QED BY <2>4, <2>5, <2>6 DEF OwnershipInv
<1>4. CASE Creatable(store)
  <2>1. Idle \in Frame /\ CloseCall(f.reason) \in Frame
    BY <1>1, IdleType, CloseCallType
  <2>2. \E g \in Frame : Quiet(g) /\ CreatedBy(c, g)
    BY <1>4, <2>1, QuietFrames DEF Create
  <2>3. QED BY <1>3, <1>4, <2>2 DEF Create
<1>5. CASE ~Creatable(store)
  <2> DEFINE g == [f EXCEPT !.pc = IF f.op = "open" THEN "lapse" ELSE "get"]
  <2>1. g \in Frame
    BY <1>1, PcType DEF PCs
  <2>2. g.op = f.op /\ g.pc \in {"lapse", "get"} /\ g.task = f.task /\ g.next = f.next
    BY <1>1 DEF Frame
  <2>3. Become(c, g) /\ UNCHANGED <<store, hold, bill>>
    BY <1>1, <1>5 DEF Create
  <2> HIDE DEF g
  <2>4. ~Ending(g) /\ FrameOK(g)
    BY <1>1, <1>2, <2>2 DEF Ending, FrameOK, OpeningOK, WindowOK, EndingOK
  <2>5. \A d \in Slots \ {c} : Opening(call[d]) => call[d].task # g.task
    BY <1>2, <2>2 DEF OwnershipInv, OneOwner
  <2>6. QED BY <2>1, <2>3, <2>4, <2>5, DecideOK
<1>6. QED BY <1>4, <1>5
-----------------------------------------------------------------------------
(* The gate acts for the one call that ends the session, or for a call that *)
(* never got one.                                                           *)

LEMMA EndingStepOK ==
  ASSUME TypeOK, OwnershipInv, NEW c \in Slots, NEW g \in Frame,
         Ending(call[c]), Become(c, g), UNCHANGED store,
         \A t \in Tasks \ {call[c].task} : hold'[t] = hold[t] /\ bill'[t] = bill[t],
         BillOK', Quiet(g) \/ (Ending(g) /\ EndingOK(g)')
  PROVE  OwnershipInv'
<1> DEFINE f == call[c]
<1>1. /\ store.state = "settling" /\ store.settlement = "none" /\ f.task = store.taskId
      /\ store.taskId \in Tasks
  BY DEF OwnershipInv, EndingOK, RecordOK
<1>2. \A d \in Slots : call'[d] = IF d = c THEN g ELSE call[d]
  BY DEF Become, TypeOK
<1>3. \A d \in Slots \ {c} : ~Ending(call[d])
  BY DEF OwnershipInv, OneOwner
<1>4. RecordOK'
  BY <1>1 DEF OwnershipInv, RecordOK
<1>5. ~Opening(g) /\ WindowOK(g)' /\ EndingOK(g)'
  <2>1. CASE Quiet(g)
    BY <2>1, QuietOK DEF Quiet, FrameOK
  <2>2. CASE Ending(g) /\ EndingOK(g)'
    BY <2>2 DEF Ending, Opening, WindowOK
  <2>3. QED BY <2>1, <2>2
<1>6. ASSUME NEW d \in Slots PROVE (OpeningOK(call[d]) /\ WindowOK(call[d]) /\ EndingOK(call[d]))'
  <2>1. CASE d = c
    BY <1>2, <1>5, <2>1 DEF OpeningOK, WindowOK, EndingOK, Opening, Ending, Matches
  <2>2. CASE d # c
    <3>1. OpeningOK(call[d]) /\ WindowOK(call[d]) /\ call'[d] = call[d]
      BY <1>2, <2>2 DEF OwnershipInv
    <3>2. OpeningOK(call[d])'
      BY <1>1, <3>1 DEF OpeningOK, Opening
    <3>3. WindowOK(call[d])'
      BY <3>1 DEF WindowOK, Matches
    <3>4. EndingOK(call[d])'
      BY <1>3, <2>2, <3>1 DEF EndingOK, Ending
    <3>5. QED BY <3>2, <3>3, <3>4
  <2>3. QED BY <2>1, <2>2
<1>7. OneOwner'
  BY <1>2, <1>3, <1>5 DEF OwnershipInv, OneOwner, Opening, Ending
<1>8. QED BY <1>4, <1>6, <1>7 DEF OwnershipInv

LEMMA EndingFacts ==
  ASSUME TypeOK, OwnershipInv, NEW c \in Slots, Ending(call[c])
  PROVE  /\ EndingOK(call[c]) /\ store.state = "settling" /\ store.settlement = "none"
         /\ call[c].task = store.taskId /\ store.taskId \in Tasks
         /\ call[c].next.taskId = call[c].task
BY DEF OwnershipInv, EndingOK, RecordOK

LEMMA ReadPublicationOwns ==
  ASSUME TypeOK, OwnershipInv, NEW c \in Slots, ReadPublication(c)
  PROVE  OwnershipInv'
<1> DEFINE f == call[c]
<1>1. f \in Frame /\ f.pc = "publication" /\ UNCHANGED <<store, hold, bill>>
  BY AtFrame DEF ReadPublication, At, gateVars
<1>2. PICK pc \in {"lapse", "settle"} : Become(c, [f EXCEPT !.pc = pc])
  BY DEF ReadPublication
<1>3. PICK g \in Frame : g = [f EXCEPT !.pc = pc]
  BY <1>1, PcType DEF PCs
<1>4. /\ g.op = f.op /\ g.pc = pc /\ g.task = f.task /\ g.next = f.next
      /\ Ending(f) /\ Become(c, g)
  BY <1>1, <1>2, <1>3 DEF Ending, Frame
<1>5. EndingOK(f)
  BY <1>4, EndingFacts
<1>6. Ending(g)
  BY <1>3, <1>4, <1>5 DEF Ending, EndingOK
<1>7. EndingOK(g)'
  BY <1>1, <1>3, <1>4, <1>5 DEF EndingOK
<1>8. BillOK'
  BY <1>1 DEF OwnershipInv, BillOK
<1>9. QED BY <1>1, <1>3, <1>4, <1>6, <1>7, <1>8, EndingStepOK

LEMMA GateThrowsOwns ==
  ASSUME TypeOK, OwnershipInv, NEW c \in Slots, GateThrows(c)
  PROVE  OwnershipInv'
BY ReturnOK DEF GateThrows, gateVars

(* An opening call gives its own authorization up. *)
LEMMA DeclineOwns ==
  ASSUME TypeOK, OwnershipInv, NEW c \in Slots, Opening(call[c]), call[c].pc = "lapse",
         Return(c), UNCHANGED <<store, bill>>, NEW how \in {"lapsed", "void"},
         hold' = [hold EXCEPT ![call[c].task] = how]
  PROVE  OwnershipInv'
<1> DEFINE f == call[c]
<1>1. f.task \in Tasks /\ hold[f.task] = "held" /\ store.taskId # f.task
  BY DEF OwnershipInv, OpeningOK
<1>2. \A d \in Slots : call'[d] = IF d = c THEN Idle ELSE call[d]
  BY DEF Return, Become, TypeOK
<1>3. \A t \in Tasks : hold'[t] = IF t = f.task THEN how ELSE hold[t]
  BY DEF TypeOK
<1>4. \A d \in Slots \ {c} : Opening(call[d]) => call[d].task # f.task
  BY DEF OwnershipInv, OneOwner
<1>5. RecordOK'
  BY <1>1, <1>3 DEF OwnershipInv, RecordOK
<1>6. BillOK'
  BY <1>1, <1>3 DEF OwnershipInv, BillOK
<1>7. ASSUME NEW d \in Slots PROVE (OpeningOK(call[d]) /\ WindowOK(call[d]) /\ EndingOK(call[d]))'
  <2>1. CASE d = c
    BY <1>2, <2>1, QuietFrames DEF Quiet, OpeningOK, WindowOK, EndingOK, Opening, Ending
  <2>2. CASE d # c
    <3>1. /\ OpeningOK(call[d]) /\ WindowOK(call[d]) /\ EndingOK(call[d])
          /\ call'[d] = call[d]
      BY <1>2, <2>2 DEF OwnershipInv
    <3>2. OpeningOK(call[d])'
      BY <1>3, <1>4, <2>2, <3>1 DEF OpeningOK, Opening
    <3>3. WindowOK(call[d])'
      BY <3>1 DEF WindowOK, Matches
    <3>4. EndingOK(call[d])'
      <4>1. Ending(call[d]) => store.taskId \in Tasks
        BY DEF OwnershipInv, EndingOK, RecordOK
      <4>2. QED BY <1>1, <1>3, <3>1, <4>1 DEF EndingOK, Ending
    <3>5. QED BY <3>2, <3>3, <3>4
  <2>3. QED BY <2>1, <2>2
<1>8. OneOwner'
  BY <1>2, QuietFrames DEF OwnershipInv, OneOwner, Opening, Ending, Quiet
<1>9. QED BY <1>5, <1>6, <1>7, <1>8 DEF OwnershipInv

LEMMA GateLapseOwns ==
  ASSUME TypeOK, OwnershipInv, NEW c \in Slots, GateLapse(c)
  PROVE  OwnershipInv'
<1> DEFINE f == call[c]
           r == [f.next EXCEPT !.pending = IF f.op = "cancelOpen" THEN {} ELSE @]
<1>1. /\ f \in Frame /\ f.next \in Record /\ f.pc = "lapse"
      /\ UNCHANGED <<store, bill>>
  BY AtFrame DEF GateLapse, At
<1>2. PICK how \in {"lapsed", "void"} : hold' = [hold EXCEPT ![f.task] = how]
  BY DEF GateLapse
<1>3. CASE f.op \in {"reserveOpen", "open"}
  <2>1. Opening(f)
    BY <1>1, <1>3 DEF Opening
  <2>2. Return(c)
    BY <1>3 DEF GateLapse, Return
  <2>3. QED BY <1>1, <1>2, <2>1, <2>2, DeclineOwns
<1>4. CASE f.op \notin {"reserveOpen", "open"}
  <2>1. Ending(f)
    BY <1>1, <1>4 DEF Ending
  <2>2. /\ EndingOK(f) /\ store.state = "settling" /\ store.settlement = "none"
        /\ f.task = store.taskId /\ f.task \in Tasks /\ f.next.taskId = f.task
    BY <2>1, EndingFacts
  <2>3. hold[f.task] = "held" /\ f.next.revision = store.revision
    BY <1>1, <2>1, <2>2 DEF EndingOK
  <2>4. /\ hold'[f.task] = how
        /\ \A t \in Tasks \ {f.task} : hold'[t] = hold[t] /\ bill'[t] = bill[t]
    BY <1>1, <1>2, <2>2 DEF TypeOK
  <2>5. BillOK'
    BY <1>1, <2>2, <2>3, <2>4 DEF OwnershipInv, BillOK
  <2>6. CASE Return(c)
    <3>1. PICK g \in Frame : g = Idle
      BY IdleType
    <3>2. Become(c, g) /\ Quiet(g)
      BY <2>6, <3>1 DEF Return, Quiet, Idle, Opening, Ending
    <3>3. ~Ending(g)
      BY <3>1 DEF Idle, Ending
    <3>4. EndingOK(g)'
      BY <3>3, <3>1 DEF EndingOK, Ending, Idle
    <3>5. QED BY <1>1, <2>1, <2>4, <2>5, <3>2, <3>3, <3>4, EndingStepOK
  <2>7. CASE /\ Become(c, [f EXCEPT !.pc = "terminal", !.next = Closed(r, "lapsed")])
             /\ hold' = [hold EXCEPT ![f.task] = "lapsed"]
    <3>1. r \in Record /\ r.taskId = f.task /\ r.revision = store.revision
      BY <1>1, <2>2, <2>3 DEF Record
    <3> HIDE DEF r
    <3>2. /\ Closed(r, "lapsed") \in Record /\ Closed(r, "lapsed").taskId = f.task
          /\ Closed(r, "lapsed").state = "closed" /\ Closed(r, "lapsed").settlement = "lapsed"
          /\ Closed(r, "lapsed").revision = store.revision + 1
      BY <3>1, ClosedType
    <3>3. PICK g \in Frame : g = [f EXCEPT !.pc = "terminal", !.next = Closed(r, "lapsed")]
      BY <1>1, <3>2, PcType, NextType DEF PCs
    <3>4. g.pc = "terminal" /\ g.op = f.op /\ g.task = f.task /\ g.next = Closed(r, "lapsed")
      BY <1>1, <3>3 DEF Frame
    <3>5. Ending(g) /\ EndingOK(g)'
      <4>1. Ending(g)
        BY <3>4 DEF Ending
      <4>2. hold'[f.task] = "lapsed"
        BY <2>2, <2>7 DEF TypeOK
      <4>3. QED BY <1>1, <1>4, <2>2, <3>2, <3>4, <4>1, <4>2 DEF EndingOK
    <3>6. QED BY <1>1, <2>1, <2>4, <2>5, <2>7, <3>3, <3>5, EndingStepOK
  <2>8. QED BY <2>6, <2>7 DEF GateLapse, Return
<1>5. QED BY <1>3, <1>4

LEMMA GateLapsePublishedOwns ==
  ASSUME TypeOK, OwnershipInv, NEW c \in Slots, GateLapsePublished(c)
  PROVE  OwnershipInv'
<1> DEFINE f == call[c]
<1>1. f \in Frame /\ f.pc = "lapse" /\ UNCHANGED <<store, hold, bill>>
  BY AtFrame DEF GateLapsePublished, At, gateVars
<1>2. CASE Return(c)
  BY <1>1, <1>2, ReturnOK
<1>3. ASSUME NEW pc \in {"settle", "restore"}, Become(c, [f EXCEPT !.pc = pc]),
             f.op \in {"close", "cancelOpen"}
      PROVE  OwnershipInv'
  <2>1. PICK g \in Frame : g = [f EXCEPT !.pc = pc]
    BY <1>1, PcType DEF PCs
  <2>2. /\ g.op = f.op /\ g.pc = pc /\ g.task = f.task /\ g.next = f.next
        /\ Ending(f) /\ Ending(g) /\ Become(c, g)
    BY <1>1, <1>3, <2>1 DEF Ending, Frame
  <2>3. EndingOK(f)
    BY <2>2, EndingFacts
  <2>4. EndingOK(g)'
    BY <1>1, <2>2, <2>3 DEF EndingOK
  <2>5. BillOK'
    BY <1>1 DEF OwnershipInv, BillOK
  <2>6. QED BY <1>1, <2>2, <2>4, <2>5, EndingStepOK
<1>4. QED BY <1>2, <1>3 DEF GateLapsePublished, Return

LEMMA GateSettleOwns ==
  ASSUME TypeOK, OwnershipInv, NEW c \in Slots, GateSettle(c)
  PROVE  OwnershipInv'
<1> DEFINE f == call[c]
           amount == ResolveMeteredCharge(SettlementUsage(f.next))
<1>1. /\ f \in Frame /\ f.pc = "settle" /\ UNCHANGED store
      /\ hold' = [hold EXCEPT ![f.task] = "submitted"]
      /\ bill' = [bill EXCEPT ![f.task] = [calls |-> @.calls + 1, amount |-> amount]]
  BY AtFrame DEF GateSettle, At
<1> HIDE DEF amount
<1>2. PICK g \in Frame : g = [f EXCEPT !.pc = "settling"]
  BY <1>1, PcType DEF PCs
<1>3. /\ g.op = f.op /\ g.pc = "settling" /\ g.task = f.task /\ g.next = f.next
      /\ Ending(f) /\ Ending(g) /\ Become(c, g)
  BY <1>1, <1>2 DEF Ending, Frame, GateSettle
<1>4. EndingOK(f) /\ f.task \in Tasks /\ hold[f.task] = "held"
  BY <1>1, <1>3, EndingFacts DEF EndingOK
<1>5. /\ hold'[f.task] = "submitted" /\ bill'[f.task].calls = bill[f.task].calls + 1
      /\ \A t \in Tasks \ {f.task} : hold'[t] = hold[t] /\ bill'[t] = bill[t]
  BY <1>1, <1>4 DEF TypeOK, Invoice
<1>6. EndingOK(g)'
  BY <1>1, <1>3, <1>4, <1>5 DEF EndingOK
<1>7. BillOK'
  BY <1>4, <1>5 DEF OwnershipInv, BillOK, TypeOK, Invoice
<1>8. QED BY <1>1, <1>3, <1>5, <1>6, <1>7, EndingStepOK

LEMMA GateSettleDoneOwns ==
  ASSUME TypeOK, OwnershipInv, NEW c \in Slots, GateSettleDone(c)
  PROVE  OwnershipInv'
<1> DEFINE f == call[c]
<1>1. f \in Frame /\ f.next \in Record /\ f.pc = "settling" /\ UNCHANGED <<store, bill>>
  BY AtFrame DEF GateSettleDone, At
<1>2. PICK how \in {"settled", "failed"} :
        /\ hold' = [hold EXCEPT ![f.task] = how]
        /\ Become(c, [f EXCEPT !.pc = "terminal", !.next = Closed(f.next, how)])
  BY DEF GateSettleDone
<1>3. Ending(f)
  BY <1>1 DEF Ending
<1>4. /\ EndingOK(f) /\ f.task = store.taskId /\ f.task \in Tasks /\ f.next.taskId = f.task
      /\ f.next.revision = store.revision
  BY <1>1, <1>3, EndingFacts DEF EndingOK
<1>5. /\ Closed(f.next, how) \in Record /\ Closed(f.next, how).taskId = f.task
      /\ Closed(f.next, how).state = "closed" /\ Closed(f.next, how).settlement = how
      /\ Closed(f.next, how).revision = store.revision + 1
  BY <1>1, <1>4, ClosedType
<1>6. PICK g \in Frame : g = [f EXCEPT !.pc = "terminal", !.next = Closed(f.next, how)]
  BY <1>1, <1>5, PcType, NextType DEF PCs
<1>7. /\ g.op = f.op /\ g.pc = "terminal" /\ g.task = f.task /\ g.next = Closed(f.next, how)
      /\ Ending(g) /\ Become(c, g)
  BY <1>1, <1>2, <1>6 DEF Ending, Frame
<1>8. /\ hold'[f.task] = how
      /\ \A t \in Tasks \ {f.task} : hold'[t] = hold[t] /\ bill'[t] = bill[t]
  <2> HIDE DEF f
  <2>1. hold \in [Tasks -> HoldStates]
    BY DEF TypeOK
  <2>2. hold'[f.task] = how
    BY <1>2, <1>4, <2>1
  <2>3. \A t \in Tasks \ {f.task} : hold'[t] = hold[t]
    BY <1>2, <1>4, <2>1
  <2>4. QED BY <1>1, <2>2, <2>3
<1>9. EndingOK(g)'
  <2>1. how # "none" /\ f.op \notin {"reserveOpen", "open"}
    BY <1>3, <1>4 DEF EndingOK
  <2>2. store.state = "settling" /\ store.settlement = "none"
    BY <1>3, <1>4 DEF EndingOK
  <2> HIDE DEF f
  <2>3. /\ g.op \notin {"reserveOpen", "open"} /\ g.pc = "terminal"
        /\ store'.state = "settling" /\ store'.settlement = "none"
        /\ g.task = store'.taskId /\ hold'[g.task] = how
    BY <1>1, <1>4, <1>7, <1>8, <2>1, <2>2
  <2>4. /\ g.next.taskId = g.task /\ g.next.settlement = how /\ g.next.state = "closed"
        /\ g.next.revision = store'.revision + 1
    BY <1>1, <1>4, <1>5, <1>7
  <2>5. QED BY <2>1, <2>3, <2>4 DEF EndingOK
<1>10. BillOK'
  BY <1>1, <1>4, <1>8 DEF OwnershipInv, BillOK
<1>11. QED BY <1>1, <1>3, <1>7, <1>8, <1>9, <1>10, EndingStepOK

(* The ending call writes its last record and returns. *)
LEMMA FinishOK ==
  ASSUME TypeOK, OwnershipInv, NEW c \in Slots, Ending(call[c]), Return(c),
         UNCHANGED <<hold, bill>>,
         store'.taskId = store.taskId, store'.revision = store.revision + 1,
         \/ /\ store'.state \in {"closed", "settling"} /\ store'.settlement # "none"
            /\ hold[store.taskId] = store'.settlement
         \/ /\ store'.state = "active" /\ store'.settlement = "none"
            /\ hold[store.taskId] = "held"
  PROVE  OwnershipInv'
<1>1. store.state = "settling" /\ store.taskId \in Tasks /\ store.revision \in Nat
  BY EndingFacts DEF TypeOK, Record
<1>2. \A d \in Slots : call'[d] = IF d = c THEN Idle ELSE call[d]
  BY DEF Return, Become, TypeOK
<1>3. \A d \in Slots \ {c} : ~Ending(call[d])
  BY DEF OwnershipInv, OneOwner
<1>4. RecordOK' /\ BillOK'
  BY <1>1 DEF OwnershipInv, RecordOK, BillOK
<1>5. ASSUME NEW d \in Slots PROVE (OpeningOK(call[d]) /\ WindowOK(call[d]) /\ EndingOK(call[d]))'
  <2>1. CASE d = c
    BY <1>2, <2>1, QuietFrames DEF Quiet, OpeningOK, WindowOK, EndingOK, Opening, Ending
  <2>2. CASE d # c
    <3>1. /\ OpeningOK(call[d]) /\ WindowOK(call[d]) /\ call'[d] = call[d]
          /\ call[d].next.revision \in Nat
      BY <1>2, <2>2 DEF OwnershipInv, TypeOK, Frame, Record
    <3>2. OpeningOK(call[d])'
      BY <3>1 DEF OpeningOK, Opening
    <3>3. WindowOK(call[d])'
      BY <1>1, <3>1 DEF WindowOK, Matches
    <3>4. EndingOK(call[d])'
      BY <1>3, <2>2, <3>1 DEF EndingOK, Ending
    <3>5. QED BY <3>2, <3>3, <3>4
  <2>3. QED BY <2>1, <2>2
<1>6. OneOwner'
  BY <1>2, QuietFrames DEF OwnershipInv, OneOwner, Opening, Ending, Quiet
<1>7. QED BY <1>4, <1>5, <1>6 DEF OwnershipInv

LEMMA WriteTerminalOwns ==
  ASSUME TypeOK, OwnershipInv, NEW c \in Slots, WriteTerminal(c)
  PROVE  OwnershipInv'
<1>1. call[c].pc = "terminal" /\ store' = call[c].next /\ Return(c) /\ UNCHANGED <<hold, bill>>
  BY DEF WriteTerminal, At, gateVars
<1>2. Ending(call[c])
  BY <1>1 DEF Ending
<1>3. QED BY <1>1, <1>2, EndingFacts, FinishOK DEF EndingOK

LEMMA LoseTerminalOwns ==
  ASSUME TypeOK, OwnershipInv, NEW c \in Slots, LoseTerminal(c)
  PROVE  OwnershipInv'
<1> DEFINE f == call[c]
<1>1. f \in Frame /\ f.pc = "terminal" /\ UNCHANGED <<store, hold, bill>>
  BY AtFrame DEF LoseTerminal, At, gateVars
<1>2. CASE Return(c)
  BY <1>1, <1>2, ReturnOK
<1>3. CASE Become(c, [f EXCEPT !.pc = "evidence"])
  <2>1. PICK g \in Frame : g = [f EXCEPT !.pc = "evidence"]
    BY <1>1, PcType DEF PCs
  <2>2. /\ g.op = f.op /\ g.pc = "evidence" /\ g.task = f.task /\ g.next = f.next
        /\ Ending(f) /\ Ending(g) /\ Become(c, g)
    BY <1>1, <1>3, <2>1 DEF Ending, Frame
  <2>3. EndingOK(f)
    BY <2>2, EndingFacts
  <2>4. EndingOK(g)'
    BY <1>1, <2>2, <2>3 DEF EndingOK
  <2>5. BillOK'
    BY <1>1 DEF OwnershipInv, BillOK
  <2>6. QED BY <1>1, <2>2, <2>4, <2>5, EndingStepOK
<1>4. QED BY <1>2, <1>3 DEF LoseTerminal, Return

LEMMA ReadEvidenceOwns ==
  ASSUME TypeOK, OwnershipInv, NEW c \in Slots, ReadEvidence(c)
  PROVE  OwnershipInv'
<1> DEFINE f == call[c]
           r == [store EXCEPT !.settlement = f.next.settlement]
           w == Writing(f, r)
<1>1. f \in Frame /\ f.next \in Record /\ f.pc = "evidence" /\ UNCHANGED <<store, hold, bill>>
  BY AtFrame DEF ReadEvidence, At, gateVars
<1>2. CASE Return(c)
  BY <1>1, <1>2, ReturnOK
<1>3. CASE Become(c, [w EXCEPT !.pc = "evidenceCas"])
  <2>1. r \in Record /\ r.taskId = store.taskId /\ r.state = store.state
        /\ r.settlement = f.next.settlement
    BY <1>1 DEF TypeOK, Record
  <2> HIDE DEF r
  <2>2. /\ w \in Frame /\ w.op = f.op /\ w.task = f.task
        /\ w.next.revision = store.revision + 1 /\ w.next.taskId = r.taskId
        /\ w.next.state = r.state /\ w.next.settlement = r.settlement
    BY <1>1, <2>1, WritingType
  <2> HIDE DEF w
  <2>3. PICK g \in Frame : g = [w EXCEPT !.pc = "evidenceCas"]
    BY <2>2, PcType DEF PCs
  <2>4. /\ g.op = f.op /\ g.pc = "evidenceCas" /\ g.task = f.task /\ g.next = w.next
        /\ Ending(f) /\ Ending(g) /\ Become(c, g)
    BY <1>1, <1>3, <2>2, <2>3 DEF Ending, Frame
  <2>5. EndingOK(f)
    BY <2>4, EndingFacts
  <2>6. EndingOK(g)'
    BY <1>1, <2>1, <2>2, <2>4, <2>5 DEF EndingOK
  <2>7. BillOK'
    BY <1>1 DEF OwnershipInv, BillOK
  <2>8. QED BY <1>1, <2>4, <2>6, <2>7, EndingStepOK
<1>4. QED BY <1>2, <1>3 DEF ReadEvidence, Return

LEMMA WriteEvidenceOwns ==
  ASSUME TypeOK, OwnershipInv, NEW c \in Slots, WriteEvidence(c)
  PROVE  OwnershipInv'
<1>1. call[c].pc = "evidenceCas" /\ Return(c) /\ UNCHANGED <<hold, bill>>
  BY DEF WriteEvidence, At, gateVars
<1>2. Ending(call[c])
  BY <1>1 DEF Ending
<1>3. CASE Matches(call[c])
  <2>1. store' = call[c].next
    BY <1>3 DEF WriteEvidence
  <2>2. QED BY <1>1, <1>2, <2>1, EndingFacts, FinishOK DEF EndingOK
<1>4. CASE ~Matches(call[c])
  BY <1>1, <1>4, ReturnOK DEF WriteEvidence
<1>5. QED BY <1>3, <1>4

LEMMA ReadRestoreOwns ==
  ASSUME TypeOK, OwnershipInv, NEW c \in Slots, ReadRestore(c)
  PROVE  OwnershipInv'
<1> DEFINE f == call[c]
           r == [store EXCEPT !.state = "active", !.closeRequested = f.reason]
           w == Writing(f, r)
<1>1. f \in Frame /\ f.pc = "restore" /\ UNCHANGED <<store, hold, bill>>
  BY AtFrame DEF ReadRestore, At, gateVars
<1>2. CASE Return(c)
  BY <1>1, <1>2, ReturnOK
<1>3. CASE Become(c, [w EXCEPT !.pc = "restoreCas"])
  <2>1. r \in Record /\ r.taskId = store.taskId /\ r.state = "active"
        /\ r.settlement = store.settlement
    BY AtFrame DEF TypeOK, Record
  <2> HIDE DEF r
  <2>2. /\ w \in Frame /\ w.op = f.op /\ w.task = f.task
        /\ w.next.revision = store.revision + 1 /\ w.next.taskId = r.taskId
        /\ w.next.state = r.state /\ w.next.settlement = r.settlement
    BY <1>1, <2>1, WritingType
  <2> HIDE DEF w
  <2>3. PICK g \in Frame : g = [w EXCEPT !.pc = "restoreCas"]
    BY <2>2, PcType DEF PCs
  <2>4. /\ g.op = f.op /\ g.pc = "restoreCas" /\ g.task = f.task /\ g.next = w.next
        /\ Ending(f) /\ Ending(g) /\ Become(c, g)
    BY <1>1, <1>3, <2>2, <2>3 DEF Ending, Frame
  <2>5. EndingOK(f)
    BY <2>4, EndingFacts
  <2>6. EndingOK(g)'
    BY <1>1, <2>1, <2>2, <2>4, <2>5 DEF EndingOK
  <2>7. BillOK'
    BY <1>1 DEF OwnershipInv, BillOK
  <2>8. QED BY <1>1, <2>4, <2>6, <2>7, EndingStepOK
<1>4. QED BY <1>2, <1>3 DEF ReadRestore, Return

LEMMA WriteRestoreOwns ==
  ASSUME TypeOK, OwnershipInv, NEW c \in Slots, WriteRestore(c)
  PROVE  OwnershipInv'
<1>1. call[c].pc = "restoreCas" /\ Return(c) /\ UNCHANGED <<hold, bill>>
  BY DEF WriteRestore, At, gateVars
<1>2. Ending(call[c])
  BY <1>1 DEF Ending
<1>3. CASE Matches(call[c])
  <2>1. store' = call[c].next
    BY <1>3 DEF WriteRestore
  <2>2. QED BY <1>1, <1>2, <2>1, EndingFacts, FinishOK DEF EndingOK
<1>4. CASE ~Matches(call[c])
  BY <1>1, <1>4, ReturnOK DEF WriteRestore
<1>5. QED BY <1>3, <1>4

LEMMA CallStepOwns ==
  ASSUME ~SlowStore, TypeOK, OwnershipInv, NEW c \in Slots, CallStep(c)
  PROVE  OwnershipInv'
<1>1. CASE GateAuthorizeDelivery(c)
  BY <1>1, ReturnOK DEF GateAuthorizeDelivery
<1>2. QED BY <1>1, RetryOwns, CreateOwns, LoseWriteOwns, WriteOwns, WriteEndingOwns, DeleteOwns,
       ReadPublicationOwns, GateThrowsOwns, GateLapseOwns, GateLapsePublishedOwns,
       GateSettleOwns, GateSettleDoneOwns, WriteTerminalOwns, LoseTerminalOwns,
       ReadEvidenceOwns, WriteEvidenceOwns, ReadRestoreOwns, WriteRestoreOwns DEF CallStep
-----------------------------------------------------------------------------
LEMMA TimerOwns ==
  ASSUME TypeOK, OwnershipInv, NEW c \in TimerCalls, FireTimer(c) \/ Recover(c)
  PROVE  OwnershipInv'
<1>1. c \in Slots /\ UNCHANGED <<store, hold, bill>>
  BY DEF Slots, FireTimer, Recover, gateVars
<1>2. CASE UNCHANGED call
  BY <1>1, <1>2 DEF OwnershipInv, RecordOK, BillOK, OneOwner, OpeningOK, WindowOK,
                    EndingOK, Opening, Ending, Matches
<1>3. ASSUME NEW reason \in EndReasons \cup {None}, Become(c, CloseCall(reason))
      PROVE  OwnershipInv'
  BY <1>1, <1>3, CloseCallType, DecideQuietOK, QuietFrames
<1>4. CASE FireTimer(c)
  BY <1>3, <1>4 DEF FireTimer, EndReasons
<1>5. CASE Recover(c)
  <2>1. store.closeRequested \in EndReasons \cup {None}
        /\ {"deadline", "idle"} \subseteq EndReasons
    BY DEF TypeOK, Record, EndReasons
  <2>2. UNCHANGED call \/ \E reason \in EndReasons \cup {None} : Become(c, CloseCall(reason))
    BY <1>5, <2>1 DEF Recover
  <2>3. QED BY <1>2, <1>3, <2>2
<1>6. QED BY <1>4, <1>5

LEMMA CrashOwns ==
  ASSUME TypeOK, OwnershipInv, NEW r \in Replicas, Crash(r)
  PROVE  OwnershipInv'
<1>1. UNCHANGED <<store, hold, bill>>
  BY DEF Crash, gateVars
<1>2. \A d \in Slots : call'[d] = call[d] \/ call'[d] = Idle
  BY DEF Crash
<1>3. RecordOK' /\ BillOK'
  BY <1>1 DEF OwnershipInv, RecordOK, BillOK
<1>4. ASSUME NEW d \in Slots PROVE (OpeningOK(call[d]) /\ WindowOK(call[d]) /\ EndingOK(call[d]))'
  <2>1. CASE call'[d] = Idle
    BY <2>1, QuietFrames DEF Quiet, OpeningOK, WindowOK, EndingOK, Opening, Ending
  <2>2. CASE call'[d] = call[d]
    BY <1>1, <2>2 DEF OwnershipInv, OpeningOK, WindowOK, EndingOK, Opening, Ending, Matches
  <2>3. QED BY <1>2, <2>1, <2>2
<1>5. OneOwner'
  BY <1>2, QuietFrames DEF OwnershipInv, OneOwner, Opening, Ending, Quiet
<1>6. QED BY <1>3, <1>4, <1>5 DEF OwnershipInv

LEMMA PurgeOwns ==
  ASSUME TypeOK, OwnershipInv, PurgeClosed
  PROVE  OwnershipInv'
<1>1. /\ store.state = "closed" /\ store' = NoRecord /\ UNCHANGED <<call, hold, bill>>
  BY DEF PurgeClosed, Reconciled, gateVars
<1>2. CASE \E c \in Slots : TRUE
  BY <1>1, <1>2, RemoveOK
<1>3. CASE Slots = {}
  BY <1>1, <1>3 DEF OwnershipInv, RecordOK, BillOK, OneOwner, NoRecord
<1>4. QED BY <1>2, <1>3

LEMMA InitOwns == Init => OwnershipInv
BY IdAssumption, QuietFrames
   DEF Init, OwnershipInv, RecordOK, BillOK, OneOwner, OpeningOK, WindowOK, EndingOK,
       Quiet, NoRecord, IdAssumption

LEMMA NextOwns ==
  ASSUME ~SlowStore, TypeOK, OwnershipInv, [Next]_vars
  PROVE  OwnershipInv'
<1>1. ASSUME NEW c \in Calls, HostStep(c) PROVE OwnershipInv'
  BY <1>1, HostStepOwns DEF Slots
<1>2. ASSUME NEW c \in Slots, CallStep(c) PROVE OwnershipInv'
  BY <1>2, CallStepOwns
<1>3. ASSUME NEW c \in TimerCalls, FireTimer(c) \/ Recover(c) PROVE OwnershipInv'
  BY <1>3, TimerOwns
<1>4. CASE Tick \/ UNCHANGED vars
  BY <1>4 DEF Tick, vars, gateVars, OwnershipInv, RecordOK, BillOK, OneOwner, OpeningOK,
              WindowOK, EndingOK, Opening, Ending, Matches
<1>5. QED BY <1>1, <1>2, <1>3, <1>4, CrashOwns, PurgeOwns DEF Next

(* Ownership is inductive: a context and the authorization behind it have one *)
(* owner at a time, through every interleaving of calls, timers and crashes.  *)
THEOREM Ownership == ASSUME ~SlowStore PROVE Spec => [](TypeOK /\ OwnershipInv)
<1>1. Init => TypeOK /\ OwnershipInv
  BY InitType, InitOwns
<1>2. TypeOK /\ OwnershipInv /\ [Next]_vars => (TypeOK /\ OwnershipInv)'
  BY StepType, NextOwns
<1>3. QED BY <1>1, <1>2, PTL DEF Spec

(* gate.settle is called at most once for an authorization. *)
THEOREM NoDuplicateSettlement == ASSUME ~SlowStore PROVE Spec => []SettledAtMostOnce
<1>1. OwnershipInv => SettledAtMostOnce
  BY DEF OwnershipInv, BillOK, SettledAtMostOnce
<1>2. QED BY <1>1, Ownership, PTL

(* An active session always holds an authorization the gate has not spent. *)
THEOREM ActiveSessionsAreFunded == ASSUME ~SlowStore PROVE Spec => []ActiveHoldsUnspent
<1>1. OwnershipInv => ActiveHoldsUnspent
  BY DEF OwnershipInv, RecordOK, ActiveHoldsUnspent
<1>2. QED BY <1>1, Ownership, PTL

(* The settlement a record shows is the outcome its authorization reached. *)
THEOREM RecordsAreTruthful == ASSUME ~SlowStore PROVE Spec => []RecordTellsOutcome
<1>1. OwnershipInv => RecordTellsOutcome
  BY DEF OwnershipInv, RecordOK, RecordTellsOutcome
<1>2. QED BY <1>1, Ownership, PTL
-----------------------------------------------------------------------------
(* What a step can do to the record. *)

(* A write of a call: the record it decided on is live, and stays the task's. *)
Rewrites ==
  /\ store.state \in {"active", "settling"} /\ store.settlement = "none"
  /\ store'.state # "absent" /\ store'.taskId = store.taskId
  /\ store'.state = "closed" \/ store'.state \in {"active", "settling"}

(* The context changes hands, to a call that opens it. *)
Opens(c) ==
  /\ Creatable(store) /\ store'.state = "active" /\ store'.settlement = "none"
  /\ Opening(call[c]) /\ store'.taskId = call[c].task

Removes(c) == store.state = "closed" /\ store' = NoRecord /\ call[c].pc = "delete"

LEMMA CallMoves ==
  ASSUME TypeOK, OwnershipInv, NEW c \in Slots, CallStep(c)
  PROVE  UNCHANGED store \/ Rewrites \/ Opens(c) \/ Removes(c)
<1>1. call[c] \in Frame /\ call[c].next \in Record
  BY AtFrame
<1>2. CASE /\ At(c, "cas") /\ Matches(call[c]) /\ store' = call[c].next
  <2>1. /\ store.state = "active" /\ store'.taskId = store.taskId
        /\ store'.state \in {"active", "settling"}
    BY <1>2 DEF OwnershipInv, WindowOK, At
  <2>2. store.settlement = "none"
    BY <2>1 DEF OwnershipInv, RecordOK
  <2> QED BY <2>1, <2>2 DEF Rewrites
<1>3. CASE /\ call[c].pc \in {"terminal", "evidenceCas", "restoreCas"} /\ store' = call[c].next
  <2>1. Ending(call[c])
    BY <1>3 DEF Ending
  <2>2. /\ store.state = "settling" /\ store.settlement = "none"
        /\ store'.taskId = store.taskId /\ store'.state \in {"closed", "settling", "active"}
    BY <1>3, <2>1 DEF OwnershipInv, EndingOK
  <2> QED BY <2>2 DEF Rewrites
<1>4. CASE DeleteClosed(c)
  BY <1>4 DEF DeleteClosed, At, OwnershipInv, WindowOK, Removes
<1>5. CASE Create(c)
  <2>1. Opening(call[c])
    BY <1>5 DEF Create, Opening, At
  <2>2. /\ call[c].next.taskId = call[c].task /\ call[c].next.state = "active"
        /\ call[c].next.settlement = "none"
    BY <1>5, <2>1 DEF OwnershipInv, OpeningOK, Create, At
  <2> QED BY <1>5, <2>1, <2>2 DEF Create, Opens
<1> QED BY <1>1, <1>2, <1>3, <1>4, <1>5
        DEF CallStep, Retry, LoseWrite, WriteBeginTurn, WriteApplyUsage, WriteCancelTurn,
            WriteCancelOpen, WriteClose, ReadPublication, GateThrows, GateLapse,
            GateLapsePublished, GateSettle, GateSettleDone, GateAuthorizeDelivery,
            WriteTerminal, LoseTerminal, ReadEvidence, WriteEvidence, ReadRestore,
            WriteRestore, At

LEMMA RecordMoves ==
  ASSUME TypeOK, OwnershipInv, [Next]_vars
  PROVE  \/ UNCHANGED store \/ Rewrites
         \/ \E c \in Slots : CallStep(c) /\ (Opens(c) \/ Removes(c))
         \/ PurgeClosed
<1>1. ASSUME NEW c \in Calls, HostStep(c) PROVE UNCHANGED store
  BY <1>1 DEF HostStep, ReserveOpen, CancelOpen, Open, CommitOpen, BeginTurn, CancelTurn,
              FinishTurn, RecordTurn, Close, AuthorizeDelivery, ForgetClosed
<1>2. ASSUME NEW c \in TimerCalls, FireTimer(c) \/ Recover(c) PROVE UNCHANGED store
  BY <1>2 DEF FireTimer, Recover
<1>3. ASSUME Tick \/ UNCHANGED vars \/ \E r \in Replicas : Crash(r) PROVE UNCHANGED store
  BY <1>3 DEF Tick, vars, Crash
<1> QED BY <1>1, <1>2, <1>3, CallMoves DEF Next

(* Only a call of the host forgets: no timer and no recovery removes a record. *)
HostForgets == \A c \in Slots : call[c].pc = "delete" => c \in Calls

LEMMA PlainPcs ==
  /\ Idle.pc = "idle"
  /\ \A reason : CloseCall(reason).pc = "get"
BY DEF Idle, CloseCall

LEMMA WritingPc == ASSUME NEW f \in Frame, NEW r PROVE Writing(f, r).pc = "cas"
BY DEF Writing, Frame

(* What the reads of the calls that may retry lead to. *)
LEMMA RetriesGoOn ==
  ASSUME TypeOK, NEW c \in Slots, NEW f \in Frame,
         \/ ReadReserveOpen(c, f) \/ ReadBeginTurn(c, f) \/ ReadApplyUsage(c, f)
         \/ ReadCancelTurn(c, f) \/ ReadCancelOpen(c, f) \/ ReadClose(c, f)
  PROVE  call'[c].pc \notin {"delete", "authorize"}
<1>1. /\ \A g : Become(c, g) => call'[c] = g
      /\ Return(c) => call'[c] = Idle
  BY DEF Become, Return, TypeOK
<1>2. CASE ReadReserveOpen(c, f)
  <2>1. \A pc : [f EXCEPT !.pc = pc].pc = pc
    BY DEF Frame
  <2> QED BY <1>1, <1>2, <2>1, PlainPcs DEF ReadReserveOpen
<1>3. CASE ReadBeginTurn(c, f)
  BY <1>1, <1>3, PlainPcs, WritingPc DEF ReadBeginTurn
<1>4. CASE ReadApplyUsage(c, f)
  <2>1. \A trigger, r : Writing([f EXCEPT !.reason = trigger], r).pc = "cas"
    BY DEF Writing, Frame
  <2> QED BY <1>1, <1>4, <2>1, PlainPcs DEF ReadApplyUsage
<1>5. CASE ReadCancelTurn(c, f)
  BY <1>1, <1>5, PlainPcs, WritingPc DEF ReadCancelTurn
<1>6. CASE ReadCancelOpen(c, f)
  <2>1. \A reason, r : Writing([f EXCEPT !.reason = reason], r).pc = "cas"
    BY DEF Writing, Frame
  <2> QED BY <1>1, <1>6, <2>1, PlainPcs DEF ReadCancelOpen
<1>7. CASE ReadClose(c, f)
  <2>1. \A t, r : Writing([f EXCEPT !.task = t], r).pc = "cas"
    BY DEF Writing, Frame
  <2> QED BY <1>1, <1>7, <2>1, PlainPcs, WritingPc DEF ReadClose
<1> QED BY <1>2, <1>3, <1>4, <1>5, <1>6, <1>7

(* Only a read of forgetClosed deletes, and only one of authorizeDelivery authorizes. *)
LEMMA CallsGoOn ==
  ASSUME TypeOK, NEW c \in Slots, CallStep(c)
  PROVE  call'[c].pc \notin {"delete", "authorize"}
<1>1. PICK f \in Frame : f = call[c]
  BY AtFrame
<1>2. /\ \A g : Become(c, g) => call'[c] = g
      /\ \A g : CreatedBy(c, g) => call'[c] = g
      /\ Return(c) => call'[c] = Idle
  BY DEF Become, CreatedBy, Return, TypeOK
<1>3. \A pc : [f EXCEPT !.pc = pc].pc = pc
  BY DEF Frame
<1>4. CASE Retry(c)
  BY <1>1, <1>4, RetriesGoOn DEF Retry
<1>5. CASE Create(c)
  BY <1>1, <1>2, <1>3, <1>5, PlainPcs DEF Create
<1>6. CASE LoseWrite(c) \/ WriteCancelOpen(c) \/ WriteClose(c) \/ DeleteClosed(c)
  <2>1. CASE LoseWrite(c)
    <3>1. [f EXCEPT !.pc = "get", !.next = NoRecord].pc = "get"
      BY DEF Frame
    <3> QED BY <1>1, <1>2, <2>1, <3>1 DEF LoseWrite
  <2>2. CASE WriteCancelOpen(c) \/ WriteClose(c) \/ DeleteClosed(c)
    BY <1>1, <1>2, <1>3, <2>2, PlainPcs DEF WriteCancelOpen, WriteClose, DeleteClosed
  <2> QED BY <1>6, <2>1, <2>2
<1>7. CASE WriteBeginTurn(c) \/ WriteApplyUsage(c) \/ WriteCancelTurn(c)
  BY <1>2, <1>7, PlainPcs DEF WriteBeginTurn, WriteApplyUsage, WriteCancelTurn
<1>8. CASE \/ ReadPublication(c) \/ GateThrows(c) \/ GateLapsePublished(c) \/ GateSettle(c)
           \/ GateAuthorizeDelivery(c) \/ WriteTerminal(c) \/ LoseTerminal(c)
           \/ WriteEvidence(c) \/ WriteRestore(c)
  BY <1>1, <1>2, <1>3, <1>8, PlainPcs
     DEF ReadPublication, GateThrows, GateLapsePublished, GateSettle, GateAuthorizeDelivery,
         WriteTerminal, LoseTerminal, WriteEvidence, WriteRestore
<1>9. CASE GateLapse(c) \/ GateSettleDone(c)
  <2>1. \A n : [f EXCEPT !.pc = "terminal", !.next = n].pc = "terminal"
    BY DEF Frame
  <2> QED BY <1>1, <1>2, <1>9, <2>1, PlainPcs DEF GateLapse, GateSettleDone
<1>10. CASE ReadEvidence(c) \/ ReadRestore(c)
  <2>1. \A r : /\ [Writing(f, r) EXCEPT !.pc = "evidenceCas"].pc = "evidenceCas"
               /\ [Writing(f, r) EXCEPT !.pc = "restoreCas"].pc = "restoreCas"
    BY DEF Writing, Frame
  <2> QED BY <1>1, <1>2, <1>10, <2>1, PlainPcs DEF ReadEvidence, ReadRestore
<1> QED BY <1>4, <1>5, <1>6, <1>7, <1>8, <1>9, <1>10 DEF CallStep

(* A read moves the frame of its own call and no other. *)
LEMMA ReadsAreOwn ==
  ASSUME NEW c, NEW f,
         \/ ReadReserveOpen(c, f) \/ ReadBeginTurn(c, f) \/ ReadApplyUsage(c, f)
         \/ ReadCancelTurn(c, f) \/ ReadCancelOpen(c, f) \/ ReadClose(c, f)
         \/ ReadAuthorizeDelivery(c, f) \/ ReadForgetClosed(c, f)
  PROVE  \E g : Become(c, g)
<1>1. Return(c) => Become(c, Idle)
  BY DEF Return
<1>2. CASE ReadReserveOpen(c, f)
  BY <1>1, <1>2 DEF ReadReserveOpen
<1>3. CASE ReadBeginTurn(c, f)
  BY <1>1, <1>3 DEF ReadBeginTurn
<1>4. CASE ReadApplyUsage(c, f)
  BY <1>1, <1>4 DEF ReadApplyUsage
<1>5. CASE ReadCancelTurn(c, f)
  BY <1>1, <1>5 DEF ReadCancelTurn
<1>6. CASE ReadCancelOpen(c, f)
  BY <1>1, <1>6 DEF ReadCancelOpen
<1>7. CASE ReadClose(c, f)
  BY <1>1, <1>7 DEF ReadClose
<1>8. CASE ReadAuthorizeDelivery(c, f)
  BY <1>1, <1>8 DEF ReadAuthorizeDelivery
<1>9. CASE ReadForgetClosed(c, f)
  BY <1>1, <1>9 DEF ReadForgetClosed
<1> QED BY <1>2, <1>3, <1>4, <1>5, <1>6, <1>7, <1>8, <1>9

LEMMA HostStepsAreOwn == ASSUME NEW c, HostStep(c) PROVE \E g : Become(c, g)
<1>1. ASSUME NEW t, NEW u, Open(c, t, u) PROVE \E g : Become(c, g)
  BY <1>1 DEF Open
<1>2. ASSUME NEW t, ReserveOpen(c, t) PROVE \E g : Become(c, g)
  BY <1>2, ReadsAreOwn DEF ReserveOpen
<1>3. ASSUME NEW t, CancelOpen(c, t) PROVE \E g : Become(c, g)
  BY <1>3, ReadsAreOwn DEF CancelOpen
<1>4. ASSUME NEW t, NEW u, CommitOpen(c, t, u) PROVE \E g : Become(c, g)
  BY <1>4, ReadsAreOwn DEF CommitOpen
<1>5. ASSUME NEW m, BeginTurn(c, m) \/ CancelTurn(c, m) PROVE \E g : Become(c, g)
  BY <1>5, ReadsAreOwn DEF BeginTurn, CancelTurn
<1>6. ASSUME NEW m, NEW u, FinishTurn(c, m, u) PROVE \E g : Become(c, g)
  BY <1>6, ReadsAreOwn DEF FinishTurn
<1>7. ASSUME NEW u, RecordTurn(c, u) PROVE \E g : Become(c, g)
  BY <1>7, ReadsAreOwn DEF RecordTurn
<1>8. CASE Close(c) \/ AuthorizeDelivery(c) \/ ForgetClosed(c)
  BY <1>8, ReadsAreOwn DEF Close, AuthorizeDelivery, ForgetClosed
<1> QED BY <1>1, <1>2, <1>3, <1>4, <1>5, <1>6, <1>7, <1>8 DEF HostStep

(* A call that reads and decides, at its start or after a lost write. *)
Decides(c, f) ==
  /\ f \in Frame
  /\ \/ f.op = "beginTurn" /\ f.turn \in Turns /\ ReadBeginTurn(c, f)
     \/ f.op \in {"commitOpen", "finishTurn", "recordTurn"} /\ ReadApplyUsage(c, f)
     \/ f.op = "cancelTurn" /\ ReadCancelTurn(c, f)
     \/ f.op = "cancelOpen" /\ ReadCancelOpen(c, f)
     \/ f.op = "close" /\ ReadClose(c, f)
     \/ f.op = "authorizeDelivery" /\ ReadAuthorizeDelivery(c, f)
     \/ f.op = "forgetClosed" /\ ReadForgetClosed(c, f)

LEMMA ReadingType == \A u \in Readings : u \in Nat \cup {Unreported}
BY CallAssumption DEF CallAssumption

LEMMA HostDecides ==
  ASSUME TypeOK, NEW c \in Slots, HostStep(c)
  PROVE  \/ \E t \in Tasks : ReserveOpen(c, t)
         \/ \E t \in Tasks, u \in Readings : Open(c, t, u)
         \/ \E f : Decides(c, f)
<1>1. ASSUME NEW op \in {"cancelOpen", "commitOpen"}, NEW t \in Tasks, NEW u \in Nat \cup {Unreported}
      PROVE  /\ [NewCall(op) EXCEPT !.task = t, !.use = u] \in Frame
             /\ [NewCall(op) EXCEPT !.task = t, !.use = u].op = op
             /\ [NewCall(op) EXCEPT !.task = t] \in Frame
             /\ [NewCall(op) EXCEPT !.task = t].op = op
  <2>1. NewCall(op) \in Frame /\ NewCall(op).op = op /\ NewCall(op).pc = "get"
    BY NewCallType DEF Ops
  <2>2. PICK n \in Frame : n = NewCall(op)
    BY <2>1
  <2> QED BY <2>1, <2>2 DEF Frame
<1>3. ASSUME NEW t \in Tasks, CancelOpen(c, t) PROVE \E f : Decides(c, f)
  <2>1. [NewCall("cancelOpen") EXCEPT !.task = t] \in Frame
        /\ [NewCall("cancelOpen") EXCEPT !.task = t].op = "cancelOpen"
    BY <1>1
  <2> QED BY <1>3, <2>1 DEF CancelOpen, Decides
<1>4. ASSUME NEW t \in Tasks, NEW u \in Readings, CommitOpen(c, t, u) PROVE \E f : Decides(c, f)
  <2>1. [NewCall("commitOpen") EXCEPT !.task = t, !.use = u] \in Frame
        /\ [NewCall("commitOpen") EXCEPT !.task = t, !.use = u].op = "commitOpen"
    BY <1>1, ReadingType
  <2> QED BY <1>4, <2>1 DEF CommitOpen, Decides
<1>5. ASSUME NEW m \in Turns, BeginTurn(c, m) PROVE \E f : Decides(c, f)
  <2> DEFINE f == [NewCall("beginTurn") EXCEPT !.turn = m]
  <2>1. f \in Frame /\ f.turn \in Turns /\ f.op = "beginTurn"
    BY IdleType DEF NewCall, Frame, Ops, PCs, Idle
  <2> QED BY <1>5, <2>1 DEF BeginTurn, Decides
<1>6. ASSUME NEW m \in Turns, CancelTurn(c, m) PROVE \E f : Decides(c, f)
  <2>1. [NewCall("cancelTurn") EXCEPT !.turn = m] \in Frame
        /\ [NewCall("cancelTurn") EXCEPT !.turn = m].op = "cancelTurn"
    BY NewCallType DEF Frame, Ops
  <2> QED BY <1>6, <2>1 DEF CancelTurn, Decides
<1>7. ASSUME NEW m \in Turns, NEW u \in Readings, FinishTurn(c, m, u) PROVE \E f : Decides(c, f)
  <2>1. [NewCall("finishTurn") EXCEPT !.turn = m, !.use = u] \in Frame
        /\ [NewCall("finishTurn") EXCEPT !.turn = m, !.use = u].op = "finishTurn"
    <3>1. NewCall("finishTurn") \in Frame /\ NewCall("finishTurn").op = "finishTurn"
          /\ NewCall("finishTurn").pc = "get" /\ u \in Nat \cup {Unreported}
      BY NewCallType, ReadingType DEF Ops
    <3> QED BY <3>1 DEF Frame
  <2> QED BY <1>7, <2>1 DEF FinishTurn, Decides
<1>8. ASSUME NEW u \in Readings, RecordTurn(c, u) PROVE \E f : Decides(c, f)
  <2>1. NewCall("recordTurn") \in Frame /\ NewCall("recordTurn").op = "recordTurn"
        /\ NewCall("recordTurn").pc = "get" /\ u \in Nat \cup {Unreported}
    BY NewCallType, ReadingType DEF Ops
  <2>2. [NewCall("recordTurn") EXCEPT !.use = u] \in Frame
        /\ [NewCall("recordTurn") EXCEPT !.use = u].op = "recordTurn"
    BY <2>1 DEF Frame
  <2> QED BY <1>8, <2>2 DEF RecordTurn, Decides
<1>9. CASE Close(c)
  <2>1. CloseCall("manual") \in Frame /\ CloseCall("manual").op = "close"
    BY CloseCallType DEF EndReasons
  <2> QED BY <1>9, <2>1 DEF Close, Decides
<1>10. CASE AuthorizeDelivery(c)
  <2>1. NewCall("authorizeDelivery") \in Frame
        /\ NewCall("authorizeDelivery").op = "authorizeDelivery"
    BY NewCallType DEF Ops
  <2> QED BY <1>10, <2>1 DEF AuthorizeDelivery, Decides
<1>11. CASE ForgetClosed(c)
  <2>1. NewCall("forgetClosed") \in Frame /\ NewCall("forgetClosed").op = "forgetClosed"
    BY NewCallType DEF Ops
  <2> QED BY <1>11, <2>1 DEF ForgetClosed, Decides
<1> QED BY <1>3, <1>4, <1>5, <1>6, <1>7, <1>8, <1>9, <1>10, <1>11 DEF HostStep

(* A call of the host that deletes has read a closed record. *)
LEMMA DeletionStarts ==
  ASSUME TypeOK, NEW c \in Slots, HostStep(c), call'[c].pc = "delete"
  PROVE  call'[c].next.state = "closed"
<1>1. \A g : Become(c, g) => call'[c] = g
  BY DEF Become, TypeOK
<1>2. ASSUME NEW t \in Tasks, ReserveOpen(c, t) PROVE FALSE
  <2>1. PICK r \in Record : r = DraftOpenRecord(t, now, TRUE)
    BY DraftType DEF TypeOK
  <2>2. PICK n \in Frame : n = NewCall("reserveOpen")
    BY NewCallType DEF Ops
  <2>3. [n EXCEPT !.task = t, !.next = r] \in Frame
    <3>1. n.op = "reserveOpen" /\ n.pc = "get"
      BY <2>2, NewCallType DEF Ops
    <3> QED BY <3>1 DEF Frame
  <2> QED BY <1>2, <2>1, <2>2, <2>3, RetriesGoOn DEF ReserveOpen
<1>3. ASSUME NEW t \in Tasks, NEW u \in Readings, Open(c, t, u) PROVE FALSE
  <2>1. PICK n \in Frame : n = NewCall("open")
    BY NewCallType DEF Ops
  <2>2. PICK x, y, z :
          Become(c, [n EXCEPT !.pc = "create", !.task = t, !.use = x, !.reason = y, !.next = z])
    BY <1>3, <2>1 DEF Open
  <2>3. call'[c] = [n EXCEPT !.pc = "create", !.task = t, !.use = x, !.reason = y, !.next = z]
    BY <1>1, <2>2
  <2>4. call'[c].pc = "create"
    BY <2>3 DEF Frame
  <2> QED BY <2>4
<1>4. ASSUME NEW f, Decides(c, f) PROVE call'[c].next.state = "closed"
  <2>1. f \in Frame
    BY <1>4 DEF Decides
  <2>2. CASE ReadAuthorizeDelivery(c, f)
    <3>1. [f EXCEPT !.pc = "authorize", !.task = store.taskId, !.next = store].pc = "authorize"
      BY <2>1 DEF Frame
    <3> QED BY <1>1, <2>2, <3>1, PlainPcs DEF ReadAuthorizeDelivery, Return
  <2>3. CASE ReadForgetClosed(c, f)
    <3>1. PICK w : w = Writing(f, store)
      OBVIOUS
    <3>2. w \in Frame /\ w.next.state = store.state
      BY <2>1, <3>1, WritingType DEF TypeOK
    <3>3. [w EXCEPT !.pc = "delete"].next = w.next
      BY <3>2 DEF Frame
    <3>4. store.state = "closed" /\ call'[c] = [w EXCEPT !.pc = "delete"]
      BY <1>1, <2>3, <3>1, PlainPcs DEF ReadForgetClosed, Return
    <3> QED BY <3>2, <3>3, <3>4
  <2> QED BY <1>4, <2>1, <2>2, <2>3, RetriesGoOn DEF Decides
<1> QED BY <1>2, <1>3, <1>4, HostDecides

LEMMA HostStarts ==
  ASSUME TypeOK, [Next]_vars, NEW d \in Slots, call'[d].pc \in {"delete", "authorize"}
  PROVE  \/ /\ call[d].pc = call'[d].pc /\ call[d].task = call'[d].task
            /\ call'[d].next \in {call[d].next, NoRecord}
         \/ d \in Calls /\ HostStep(d)
<1> DEFINE Kept == /\ call[d].pc = call'[d].pc /\ call[d].task = call'[d].task
                   /\ call'[d].next \in {call[d].next, NoRecord}
<1>1. \A c \in Slots \ {d} : \A g : Become(c, g) => Kept
  BY DEF Become, TypeOK
<1>2. ASSUME NEW c \in Slots, CallStep(c) PROVE Kept
  <2>1. c # d
    BY <1>2, CallsGoOn
  <2>2. CASE Create(c)
    <3>1. call'[d] = call[d] \/ call'[d] = [call[d] EXCEPT !.next = NoRecord]
      BY <1>1, <2>1, <2>2 DEF Create, CreatedBy, Become, TypeOK
    <3>2. [call[d] EXCEPT !.next = NoRecord].pc = call[d].pc
          /\ [call[d] EXCEPT !.next = NoRecord].task = call[d].task
          /\ [call[d] EXCEPT !.next = NoRecord].next = NoRecord
      BY AtFrame DEF Frame
    <3> QED BY <3>1, <3>2
  <2>3. CASE ~Create(c)
    <3>1. Return(c) => Become(c, Idle)
      BY DEF Return
    <3>2. Retry(c) => \E g : Become(c, g)
      BY ReadsAreOwn DEF Retry
    <3>3. \E g : Become(c, g)
      BY <1>2, <2>3, <3>1, <3>2
         DEF CallStep, LoseWrite, WriteBeginTurn, WriteApplyUsage, WriteCancelTurn,
             WriteCancelOpen, WriteClose, DeleteClosed, ReadPublication, GateThrows, GateLapse,
             GateLapsePublished, GateSettle, GateSettleDone, GateAuthorizeDelivery,
             WriteTerminal, LoseTerminal, ReadEvidence, WriteEvidence, ReadRestore,
             WriteRestore, Return
    <3> QED BY <1>1, <2>1, <3>3
  <2> QED BY <2>2, <2>3
<1>3. ASSUME NEW c \in Calls, HostStep(c), c # d PROVE Kept
  <2>1. \E g : Become(c, g)
    BY <1>3, HostStepsAreOwn
  <2> QED BY <1>1, <1>3, <2>1 DEF Slots
<1>4. ASSUME NEW c \in TimerCalls, FireTimer(c) \/ Recover(c) PROVE Kept
  <2>1. UNCHANGED call \/ \E reason : Become(c, CloseCall(reason))
    BY <1>4 DEF FireTimer, Recover
  <2>2. c \in Slots
    BY DEF Slots
  <2>3. c # d \/ UNCHANGED call
    BY <2>1, <2>2, PlainPcs DEF Become, TypeOK
  <2> QED BY <1>1, <2>1, <2>2, <2>3
<1>5. CASE PurgeClosed \/ Tick \/ UNCHANGED vars \/ \E r \in Replicas : Crash(r)
  BY <1>5, PlainPcs DEF PurgeClosed, Tick, vars, Crash
<1> QED BY <1>2, <1>3, <1>4, <1>5 DEF Next

LEMMA HostForgetsStep == TypeOK /\ HostForgets /\ [Next]_vars => HostForgets'
BY HostStarts DEF HostForgets

(* EvidenceKept: a failed settlement leaves the store only by the host's        *)
(* forgetClosed; no opening call, purge, late write or timer takes its place.   *)
THEOREM EvidenceStays == ASSUME ~SlowStore PROVE Spec => EvidenceKept
<1> DEFINE Kept == store.settlement = "failed" /\ store' # store =>
                     \/ store'.taskId = store.taskId
                     \/ store' = NoRecord /\ \E c \in Calls : call[c].pc = "delete"
<1>1. TypeOK /\ OwnershipInv /\ HostForgets /\ [Next]_vars => Kept
  <2> SUFFICES ASSUME TypeOK, OwnershipInv, HostForgets, [Next]_vars, store.settlement = "failed",
                      store' # store, store'.taskId # store.taskId
               PROVE  store' = NoRecord /\ \E c \in Calls : call[c].pc = "delete"
    OBVIOUS
  <2>1. ~Creatable(store)
    BY DEF Creatable, Reconciled, OwnershipInv, RecordOK, NoRecord
  <2>2. PICK c \in Slots : Removes(c)
    BY <2>1, RecordMoves DEF Rewrites, Opens, PurgeClosed, Creatable
  <2> QED BY <2>2 DEF Removes, HostForgets
<1>2. Init => HostForgets
  BY PlainPcs DEF Init, HostForgets
<1>3. Kept => [Kept]_vars
  OBVIOUS
<1> HIDE DEF Kept
<1>4. TypeOK /\ OwnershipInv /\ HostForgets /\ [Next]_vars => [Kept]_vars
  BY <1>1, <1>3
<1>5. Spec => [][Kept]_vars
  BY <1>2, <1>4, HostForgetsStep, Ownership, PTL DEF Spec
<1> QED BY <1>5 DEF EvidenceKept, Kept

(* What a call that deletes knows: the closed record it read, or nothing.      *)
HostForgetsClosed ==
  \A c \in Slots : call[c].pc = "delete" =>
    c \in Calls /\ (call[c].next = NoRecord \/ call[c].next.state = "closed")

LEMMA ForgetsClosedStep ==
  TypeOK /\ HostForgetsClosed /\ [Next]_vars => HostForgetsClosed'
BY HostStarts, DeletionStarts DEF HostForgetsClosed, Slots

(* A call of the host that read a closed record finds its revision.            *)
Forgotten == \E c \in Calls : At(c, "delete") /\ Matches(call[c]) /\ call[c].next.state = "closed"

LEMMA RemovingStep ==
  ASSUME TypeOK, HostForgetsClosed, [Next]_vars, store' = NoRecord
  PROVE  store.state \in {"absent", "closed"} \/ Forgotten
<1>1. store.revision \in Nat /\ NoRecord.revision = 0
  BY DEF TypeOK, Record, NoRecord
<1>2. ASSUME NEW c \in Slots, CallStep(c)
      PROVE  \/ store.state \in {"absent", "closed"}
             \/ /\ At(c, "delete") /\ Matches(call[c]) /\ c \in Calls
                /\ call[c].next.state = "closed"
  <2>1. call[c].next \in Record
    BY AtFrame
  <2>2. ASSUME Matches(call[c]) PROVE call[c].next # NoRecord
    <3>1. store.revision = call[c].next.revision - 1 /\ call[c].next.revision \in Nat
      BY <2>1, <2>2 DEF Matches, Record
    <3> QED BY <1>1, <3>1
  <2>3. CASE Create(c)
    BY <2>3 DEF Create, Creatable, Reconciled, NoRecord
  <2>4. CASE DeleteClosed(c)
    <3>1. At(c, "delete") /\ (Matches(call[c]) \/ store' = store)
      BY <2>4 DEF DeleteClosed
    <3>2. NoRecord.state = "absent"
      BY DEF NoRecord
    <3> QED BY <2>2, <3>1, <3>2 DEF HostForgetsClosed, At
  <2>5. CASE ~Create(c) /\ ~DeleteClosed(c)
    <3>1. store' = store \/ (Matches(call[c]) /\ store' = call[c].next)
      BY <1>2, <2>5
         DEF CallStep, Retry, LoseWrite, WriteBeginTurn, WriteApplyUsage, WriteCancelTurn,
             WriteCancelOpen, WriteClose, ReadPublication, GateThrows, GateLapse,
             GateLapsePublished, GateSettle, GateSettleDone, GateAuthorizeDelivery,
             WriteTerminal, LoseTerminal, ReadEvidence, WriteEvidence, ReadRestore,
             WriteRestore
    <3> QED BY <2>2, <3>1 DEF NoRecord
  <2> QED BY <2>3, <2>4, <2>5
<1>3. CASE \A c \in Slots : ~CallStep(c)
  <2>1. ASSUME NEW c \in Calls, HostStep(c) PROVE UNCHANGED store
    BY <2>1 DEF HostStep, ReserveOpen, CancelOpen, Open, CommitOpen, BeginTurn, CancelTurn,
                FinishTurn, RecordTurn, Close, AuthorizeDelivery, ForgetClosed
  <2>2. ASSUME NEW c \in TimerCalls, FireTimer(c) \/ Recover(c) PROVE UNCHANGED store
    BY <2>2 DEF FireTimer, Recover
  <2>3. CASE PurgeClosed
    BY <2>3 DEF PurgeClosed, Reconciled
  <2>4. ASSUME Tick \/ UNCHANGED vars \/ \E r \in Replicas : Crash(r) PROVE UNCHANGED store
    BY <2>4 DEF Tick, vars, Crash
  <2>5. UNCHANGED store \/ PurgeClosed
    BY <1>3, <2>1, <2>2, <2>4 DEF Next
  <2> QED BY <2>3, <2>5 DEF NoRecord
<1> QED BY <1>2, <1>3 DEF Forgotten

(* A live record is removed in one case only: the store is slow, and a          *)
(* forgetClosed had read a closed record whose revision the live one has now    *)
(* (session.ts:572, as the configuration forget shows).  Retention, timers, recoveries     *)
(* and late writes never remove one, and without such a store nothing does.     *)
THEOREM OnlyClosedAreRemoved ==
  Spec => [][store' = NoRecord =>
               store.state \in {"absent", "closed"} \/ (SlowStore /\ Forgotten)]_vars
<1> DEFINE Removing == store' = NoRecord =>
                         store.state \in {"absent", "closed"} \/ (SlowStore /\ Forgotten)
<1>1. CASE ~SlowStore
  <2>1. TypeOK /\ OwnershipInv /\ [Next]_vars => Removing
    <3>1. NoRecord.state = "absent"
      BY DEF NoRecord
    <3> QED BY <3>1, RecordMoves DEF Rewrites, Opens, Removes, PurgeClosed, Reconciled
  <2> HIDE DEF Removing
  <2>2. TypeOK /\ OwnershipInv /\ [Next]_vars => [Removing]_vars
    BY <2>1
  <2>3. Spec => [][Removing]_vars
    BY <1>1, <2>2, Ownership, PTL DEF Spec
  <2> QED BY <2>3 DEF Removing
<1>2. CASE SlowStore
  <2>1. TypeOK /\ HostForgetsClosed /\ [Next]_vars => Removing
    BY <1>2, RemovingStep
  <2>2. Init => HostForgetsClosed
    BY PlainPcs DEF Init, HostForgetsClosed
  <2> HIDE DEF Removing
  <2>3. TypeOK /\ HostForgetsClosed /\ [Next]_vars => [Removing]_vars
    BY <2>1
  <2>4. Spec => [][Removing]_vars
    BY <2>2, <2>3, ForgetsClosedStep, TypeCorrect, PTL DEF Spec
  <2> QED BY <2>4 DEF Removing
<1> QED BY <1>1, <1>2
=============================================================================
