-------------------------- MODULE UptoMetering_proofs --------------------------
(***************************************************************************)
(* What UptoSession meters and charges, proved for every value of its      *)
(* constants but SlowStore.  Ownership (UptoSession_proofs) says who may    *)
(* write a record; here the records are compared with the ledger: what the  *)
(* host was told is metered or leased.                                     *)
(***************************************************************************)
EXTENDS UptoSession_proofs

(* The entry of a task nobody has opened a session for. *)
Blank == [total |-> 0, missing |-> FALSE, open |-> {}]

(* A record that says what the host was told.  Until its opener is committed *)
(* a session has metered nothing, and afterwards something is known or known *)
(* to be missing.                                                           *)
Tells(r, l) ==
  /\ Larger(r.usage, 0) = l.total /\ r.incomplete = l.missing /\ r.pending = l.open
  /\ r.usage = Unreported => r.incomplete \/ r.taskId \in r.pending
  /\ r.taskId \in r.pending =>
       r.taskId \notin r.completed /\ r.usage = Unreported /\ ~r.incomplete

(* A record that is settling by close(): leased turns count as missing. *)
Closes(r, l) ==
  /\ Larger(r.usage, 0) = l.total /\ r.pending = l.open
  /\ r.incomplete = (l.missing \/ l.open # {})
  /\ r.usage = Unreported => r.incomplete

(* The entry once the call's write is acknowledged. *)
After(f, l) ==
  CASE f.op = "reserveOpen" -> [l EXCEPT !.open = @ \cup {f.task}]
    [] f.op = "beginTurn" -> [l EXCEPT !.open = @ \cup {f.turn}]
    [] f.op = "cancelTurn" -> [l EXCEPT !.open = @ \ {f.turn}]
    [] f.op = "open" -> Metered(l, f.use, {})
    [] f.op \in {"commitOpen", "finishTurn", "recordTurn"} -> Metered(l, f.use, LeaseOf(f))
    [] OTHER -> l

(* An opening call creates a record that tells its first reading. *)
OpeningTells(f) ==
  Opening(f) /\ f.pc # "lapse" => Tells(f.next, After(f, Blank))

(* A write that still matches tells what the host will be told with it. *)
WindowTells(f) ==
  f.pc = "cas" /\ Matches(f) =>
    IF f.op = "close" /\ f.next.state = "settling"
      THEN Closes(f.next, ledger[store.taskId])
      ELSE /\ Tells(f.next, After(f, ledger[store.taskId]))
           /\ f.op = "cancelOpen" => store.taskId \in f.next.pending

(* The ending call charges what was told, and lapses where nothing is owed. *)
EndingTells(f) ==
  Ending(f) =>
    /\ f.pc \in {"publication", "settle", "settling"} => f.op = "close"
    /\ f.pc \in {"restore", "restoreCas"} => f.op = "cancelOpen"
    /\ f.pc \in {"publication", "lapse", "settle"} /\ f.op = "close" =>
         Closes(f.next, ledger[f.task])
    /\ f.pc = "lapse" /\ f.op = "close" =>
         ProjectedCharge(f.next) = 0 /\ f.next.pending = {} /\ ~f.next.incomplete
    /\ f.pc \in {"lapse", "restore"} =>
         \/ f.op = "close"
         \/ Tells(store, ledger[f.task]) /\ f.task \in store.pending
    /\ f.pc = "restoreCas" => Tells(f.next, ledger[f.task])

FrameTells(f) == OpeningTells(f) /\ WindowTells(f) /\ EndingTells(f)

RecordTells == store.state = "active" => Tells(store, ledger[store.taskId])

(* Work is reported only to the session that holds the context. *)
UnusedBlank == \A t \in Tasks : hold[t] = "held" /\ store.taskId # t => ledger[t] = Blank

MeteringInv ==
  /\ RecordTells /\ UnusedBlank
  /\ \A c \in Slots : FrameTells(call[c])
  /\ ChargeCoversWork /\ LapseOwesNothing
-----------------------------------------------------------------------------
(* Prices. *)

(* The gate, given what close() passes on, asks the price of what was told. *)
LEMMA DueCharge ==
  ASSUME NEW r \in Record, NEW l \in Entry, Closes(r, l)
  PROVE  ResolveMeteredCharge(SettlementUsage(r)) = AmountDue(l)
<1>1. /\ r.usage \in Nat \cup {Unreported} /\ r.incomplete \in BOOLEAN
      /\ l.total \in Nat /\ l.missing \in BOOLEAN
  BY DEF Record, Entry
<1>2. MaxAmount \in Nat \ {0} /\ MinAmount \in Nat /\ UnreportedUsage \in {"ceiling", "floor", "refuse"}
  BY PricingAssumption
<1>3. /\ r.usage = Unreported => l.total = 0 /\ r.incomplete
      /\ r.usage # Unreported => l.total = r.usage
      /\ r.incomplete <=> ~(~l.missing /\ l.open = {})
  <2>1. r.usage = Unreported => l.total = 0 /\ r.incomplete
    BY <1>1 DEF Closes, Larger, Unreported
  <2>2. r.usage # Unreported => l.total = r.usage
    BY <1>1 DEF Closes, Larger, Unreported
  <2>3. r.incomplete <=> ~(~l.missing /\ l.open = {})
    BY <1>1, Zenon DEF Closes
  <2> QED BY <2>1, <2>2, <2>3
<1>4. /\ MeterUsage(l.total) \in Nat
      /\ r.usage # Unreported => MeterUsage(r.usage) = MeterUsage(l.total)
      /\ MeterUsage(l.total) >= MinAmount \/ (l.total = 0 /\ MeterUsage(l.total) = 0)
      /\ MeterUsage(Unreported) = Unreported
  BY <1>1, <1>2, <1>3 DEF MeterUsage, Larger, Unreported
<1>5. PICK m \in Nat : m = MeterUsage(l.total)
  BY <1>4
<1>6. CASE ~r.incomplete
  <2>1. AmountDue(l) = Smaller(Larger(m, 0), MaxAmount)
    BY <1>3, <1>5, <1>6 DEF AmountDue
  <2>2. SettlementUsage(r) = r.usage /\ MeterUsage(r.usage) = m
    BY <1>3, <1>4, <1>5, <1>6 DEF SettlementUsage
  <2>3. ResolveMeteredCharge(SettlementUsage(r)) = Smaller(m, MaxAmount)
    BY <1>2, <2>2, Z3 DEF ResolveMeteredCharge, Unreported
  <2> QED BY <2>1, <2>3 DEF Larger
<1>7. CASE r.incomplete /\ UnreportedUsage = "floor"
  <2>1. AmountDue(l) = Smaller(Larger(Larger(m, 0), MinAmount), MaxAmount)
    BY <1>3, <1>5, <1>7 DEF AmountDue
  <2>2. CASE r.usage # Unreported /\ m >= MinAmount
    <3>1. SettlementUsage(r) = r.usage /\ MeterUsage(r.usage) = m
      BY <1>4, <1>5, <1>7, <2>2 DEF SettlementUsage
    <3>2. ResolveMeteredCharge(SettlementUsage(r)) = Smaller(m, MaxAmount)
      BY <3>1 DEF ResolveMeteredCharge, Unreported
    <3> QED BY <1>2, <2>1, <2>2, <3>2 DEF Larger, Smaller
  <2>3. CASE r.usage = Unreported \/ ~(m >= MinAmount)
    <3>1. SettlementUsage(r) = Unreported
      BY <1>2, <1>4, <1>5, <1>7, <2>3 DEF SettlementUsage, Unreported
    <3>2. ResolveMeteredCharge(SettlementUsage(r)) = Smaller(MinAmount, MaxAmount)
      BY <1>4, <1>7, <3>1 DEF ResolveMeteredCharge
    <3>3. m = 0
      BY <1>3, <1>4, <1>5, <2>3 DEF MeterUsage, Unreported
    <3> QED BY <1>2, <2>1, <3>2, <3>3 DEF Larger, Smaller
  <2> QED BY <2>2, <2>3
<1>8. CASE r.incomplete /\ UnreportedUsage # "floor"
  <2>1. SettlementUsage(r) = Unreported
    BY <1>8 DEF SettlementUsage
  <2> QED BY <1>2, <1>3, <1>4, <1>8, <2>1 DEF AmountDue, ResolveMeteredCharge
<1> QED BY <1>6, <1>7, <1>8

(* A complete record whose charge is zero has metered nothing. *)
LEMMA FreeMeansUnused ==
  ASSUME NEW r \in Record, ProjectedCharge(r) = 0, ~r.incomplete
  PROVE  Larger(r.usage, 0) = 0
<1>1. r.usage \in Nat \cup {Unreported} /\ MaxAmount \in Nat \ {0} /\ MinAmount \in Nat
  BY PricingAssumption DEF Record
<1>2. Smaller(Larger(MeterUsage(r.usage), 0), MaxAmount) = 0
  BY DEF ProjectedCharge
<1> QED BY <1>1, <1>2 DEF Smaller, Larger, MeterUsage, Unreported

(* applyUsage: the merged record tells the acknowledged reading. *)
LEMMA MergeTells ==
  ASSUME NEW r \in Record, NEW l \in Entry, Tells(r, l), NEW u \in Nat \cup {Unreported},
         NEW n, NEW lease, n.taskId = r.taskId, n.usage = MergeUsage(r, u).usage,
         n.incomplete = MergeUsage(r, u).incomplete, n.pending = r.pending \ lease,
         r.taskId \in r.pending => r.taskId \in lease
  PROVE  Tells(n, Metered(l, u, lease))
<1>1. /\ r.usage \in Nat \cup {Unreported} /\ r.incomplete \in BOOLEAN
      /\ l.total \in Nat /\ l.missing \in BOOLEAN /\ r.taskId \notin n.pending
  BY DEF Record, Entry
<1>2. CASE u = Unreported
  <2>1. n.usage = r.usage /\ n.incomplete = TRUE
    BY <1>2 DEF MergeUsage, Record
  <2>2. PICK m : m = Metered(l, u, lease)
    OBVIOUS
  <2>3. m.total = l.total /\ m.open = l.open \ lease
    BY <1>1, <1>2, <2>2 DEF Metered, Larger, Unreported
  <2>4. m.missing = TRUE
    BY <1>2, <2>2, Zenon DEF Metered
  <2>5. Tells(n, m)
    BY <1>1, <2>1, <2>3, <2>4 DEF Tells
  <2> QED BY <2>2, <2>5
<1>3. CASE u # Unreported /\ r.usage = Unreported
  <2>1. n.usage = u /\ n.incomplete = r.incomplete
    BY <1>3 DEF MergeUsage, Record
  <2> QED BY <1>1, <1>3, <2>1 DEF Tells, Metered, Larger, Unreported
<1>4. CASE u # Unreported /\ r.usage # Unreported
  <2>1. n.usage = r.usage + u /\ n.incomplete = r.incomplete
    BY <1>4 DEF MergeUsage, Record
  <2> QED BY <1>1, <1>4, <2>1 DEF Tells, Metered, Larger, Unreported
<1> QED BY <1>2, <1>3, <1>4
-----------------------------------------------------------------------------
(* What each kind of step does to the invariant, whichever action takes it. *)

LEMMA QuietTells == ASSUME NEW f, Quiet(f) PROVE FrameTells(f) /\ FrameTells(f)'
BY DEF Quiet, FrameTells, OpeningTells, WindowTells, EndingTells

LEMMA LedgerType == ASSUME TypeOK, NEW t \in Tasks PROVE ledger[t] \in Entry
BY DEF TypeOK

LEMMA BlankType == Blank \in Entry
BY DEF Blank, Entry

(* A step that leaves record, holds, bills and ledger alone. *)
LEMMA DecideTells ==
  ASSUME TypeOK, MeteringInv, NEW c \in Slots, NEW g \in Frame, Become(c, g),
         UNCHANGED <<store, hold, bill, ledger, published>>, FrameTells(g)
  PROVE  MeteringInv'
<1>1. \A d \in Slots : call'[d] = IF d = c THEN g ELSE call[d]
  BY DEF Become, TypeOK
<1>2. RecordTells' /\ UnusedBlank' /\ ChargeCoversWork' /\ LapseOwesNothing'
  BY DEF MeteringInv, RecordTells, UnusedBlank, ChargeCoversWork, LapseOwesNothing
<1>3. ASSUME NEW d \in Slots PROVE FrameTells(call[d])'
  <2>1. FrameTells(call[d])
    BY DEF MeteringInv
  <2>2. CASE d = c
    BY <1>1, <2>2 DEF FrameTells, OpeningTells, WindowTells, EndingTells, Opening, Ending, Matches
  <2>3. CASE d # c
    BY <1>1, <2>1, <2>3
       DEF FrameTells, OpeningTells, WindowTells, EndingTells, Opening, Ending, Matches
  <2> QED BY <2>2, <2>3
<1> QED BY <1>2, <1>3 DEF MeteringInv

LEMMA DecideQuietTells ==
  ASSUME TypeOK, MeteringInv, NEW c \in Slots, NEW g \in Frame, Become(c, g),
         UNCHANGED <<store, hold, bill, ledger, published>>, Quiet(g)
  PROVE  MeteringInv'
BY DecideTells, QuietTells

LEMMA ReturnTells ==
  ASSUME TypeOK, MeteringInv, NEW c \in Slots, Return(c),
         UNCHANGED <<store, hold, bill, ledger, published>>
  PROVE  MeteringInv'
BY DecideQuietTells, QuietFrames, IdleType DEF Return

(* The writer replaces the record at the next revision: what it writes tells   *)
(* the ledger, and no other window matches any more.                          *)
LEMMA RewriteTells ==
  ASSUME TypeOK, OwnershipInv, MeteringInv, NEW c \in Slots, NEW g, Become(c, g),
         UNCHANGED <<hold, bill, published>>,
         \A d \in Slots \ {c} : ~Ending(call[d]),
         store.state # "absent", store'.taskId = store.taskId,
         store'.revision = store.revision + 1,
         NEW e \in Entry, ledger' = [ledger EXCEPT ![store.taskId] = e],
         e = ledger[store.taskId] \/ hold[store.taskId] = "held",
         store'.state = "active" => Tells(store', e),
         FrameTells(g)'
  PROVE  MeteringInv'
<1>1. \A d \in Slots : call'[d] = IF d = c THEN g ELSE call[d]
  BY DEF Become, TypeOK
<1>2. store.taskId \in Tasks
  BY DEF OwnershipInv, RecordOK
<1>3. \A t \in Tasks : ledger'[t] = IF t = store.taskId THEN e ELSE ledger[t]
  BY DEF TypeOK
<1>4. RecordTells'
  BY <1>2, <1>3 DEF RecordTells
<1>5. UnusedBlank'
  BY <1>3 DEF MeteringInv, UnusedBlank
<1>6. \A t \in Tasks : ledger'[t] # ledger[t] => hold[t] = "held" /\ bill[t].calls = 0
  BY <1>3 DEF OwnershipInv, BillOK
<1>7. ChargeCoversWork'
  BY <1>6 DEF MeteringInv, ChargeCoversWork
<1>8. LapseOwesNothing'
  BY <1>6 DEF MeteringInv, LapseOwesNothing
<1>9. ASSUME NEW d \in Slots PROVE FrameTells(call[d])'
  <2>1. CASE d = c
    BY <1>1, <2>1 DEF FrameTells, OpeningTells, WindowTells, EndingTells, Opening, Ending, Matches
  <2>2. CASE d # c
    <3>1. FrameTells(call[d]) /\ WindowOK(call[d]) /\ call'[d] = call[d]
      BY <1>1, <2>2 DEF MeteringInv, OwnershipInv
    <3>2. call[d].next.revision \in Nat /\ store.revision \in Nat
      BY AtFrame DEF TypeOK, Record
    <3>3. OpeningTells(call[d])'
      BY <3>1 DEF FrameTells, OpeningTells, Opening
    <3>4. WindowTells(call[d])'
      BY <3>1, <3>2 DEF WindowOK, WindowTells, Matches
    <3>5. EndingTells(call[d])'
      BY <2>2, <3>1 DEF EndingTells, Ending
    <3> QED BY <3>3, <3>4, <3>5 DEF FrameTells
  <2> QED BY <2>1, <2>2
<1> QED BY <1>4, <1>5, <1>7, <1>8, <1>9 DEF MeteringInv

(* The gate acts for a call that owns the authorization f.task. *)
LEMMA GateTells ==
  ASSUME TypeOK, OwnershipInv, MeteringInv, NEW c \in Slots, NEW g, Become(c, g),
         UNCHANGED <<store, ledger, published>>,
         \A t \in Tasks : hold'[t] = "held" => hold[t] = "held",
         FrameTells(g)', ChargeCoversWork', LapseOwesNothing'
  PROVE  MeteringInv'
<1>1. \A d \in Slots : call'[d] = IF d = c THEN g ELSE call[d]
  BY DEF Become, TypeOK
<1>2. RecordTells' /\ UnusedBlank'
  BY DEF MeteringInv, RecordTells, UnusedBlank
<1>3. ASSUME NEW d \in Slots PROVE FrameTells(call[d])'
  <2>1. FrameTells(call[d])
    BY DEF MeteringInv
  <2>2. CASE d = c
    BY <1>1, <2>2 DEF FrameTells, OpeningTells, WindowTells, EndingTells, Opening, Ending, Matches
  <2>3. CASE d # c
    BY <1>1, <2>1, <2>3
       DEF FrameTells, OpeningTells, WindowTells, EndingTells, Opening, Ending, Matches
  <2> QED BY <2>2, <2>3
<1> QED BY <1>2, <1>3 DEF MeteringInv

(* A closed record is removed: nothing is left to compare with the ledger. *)
LEMMA RemoveTells ==
  ASSUME TypeOK, OwnershipInv, MeteringInv, store.state = "closed", store' = NoRecord,
         UNCHANGED <<hold, bill, ledger, published>>,
         \A d \in Slots : call'[d] = call[d] \/ call'[d] = Idle
  PROVE  MeteringInv'
<1>1. store'.state = "absent"
  BY DEF NoRecord
<1>2. RecordTells' /\ ChargeCoversWork' /\ LapseOwesNothing'
  BY <1>1 DEF MeteringInv, RecordTells, ChargeCoversWork, LapseOwesNothing
<1>3. UnusedBlank'
  <2>1. hold[store.taskId] # "held"
    BY DEF OwnershipInv, RecordOK, TypeOK, Record
  <2> QED BY <2>1 DEF MeteringInv, UnusedBlank
<1>4. \A d \in Slots : ~Ending(call[d])
  BY DEF OwnershipInv, EndingOK
<1>5. ASSUME NEW d \in Slots PROVE FrameTells(call[d])'
  <2>1. CASE call'[d] = Idle
    BY <2>1, QuietFrames
       DEF Quiet, FrameTells, OpeningTells, WindowTells, EndingTells, Opening, Ending, Matches
  <2>2. CASE call'[d] = call[d]
    <3>1. FrameTells(call[d])
      BY DEF MeteringInv
    <3> QED BY <1>1, <1>4, <2>2, <3>1
            DEF FrameTells, OpeningTells, WindowTells, EndingTells, Opening, Ending, Matches
  <2> QED BY <2>1, <2>2
<1> QED BY <1>2, <1>3, <1>5 DEF MeteringInv
-----------------------------------------------------------------------------
(* Reads: what a call decides to write tells what its caller will be told. *)

LEMMA WritingTells ==
  ASSUME TypeOK, NEW f \in Frame, NEW r \in Record, store.state = "active",
         r.taskId = store.taskId, f.op \notin {"reserveOpen", "open"},
         IF f.op = "close" /\ r.state = "settling"
           THEN Closes(r, ledger[store.taskId])
           ELSE /\ Tells(r, After(f, ledger[store.taskId]))
                /\ f.op = "cancelOpen" => store.taskId \in r.pending
  PROVE  Writing(f, r) \in Frame /\ FrameTells(Writing(f, r))
<1>1. PICK n \in Record : n = [r EXCEPT !.revision = store.revision + 1]
  <2>1. store.revision + 1 \in Nat
    BY DEF TypeOK, Record
  <2> QED BY <2>1 DEF Record
<1>2. /\ n.taskId = r.taskId /\ n.usage = r.usage /\ n.incomplete = r.incomplete
      /\ n.pending = r.pending /\ n.completed = r.completed /\ n.state = r.state
  BY <1>1 DEF Record
<1>3. PICK w \in Frame : w = Writing(f, r)
  BY WritingType
<1>4. /\ w.op = f.op /\ w.pc = "cas" /\ w.task = f.task /\ w.turn = f.turn /\ w.use = f.use
      /\ w.next = n
  BY <1>1, <1>3 DEF Writing, Frame
<1>5. \A l : After(w, l) = After(f, l)
  BY <1>4 DEF After, LeaseOf
<1>6. /\ \A l : Tells(r, l) => Tells(n, l)
      /\ \A l : Closes(r, l) => Closes(n, l)
  BY <1>2 DEF Tells, Closes
<1>7. WindowTells(w)
  BY <1>2, <1>4, <1>5, <1>6 DEF WindowTells
<1> QED BY <1>3, <1>4, <1>7 DEF FrameTells, OpeningTells, EndingTells, Opening, Ending

(* What the record of an active session tells. *)
LEMMA ActiveTells ==
  ASSUME TypeOK, OwnershipInv, MeteringInv, store.state = "active"
  PROVE  /\ store \in Record /\ store.taskId \in Tasks /\ store.taskId \notin Turns \cup {None}
         /\ ledger[store.taskId] \in Entry /\ Tells(store, ledger[store.taskId])
         /\ store.taskId \in store.pending <=> HasPendingOpen(store)
<1>1. store \in Record /\ store.taskId \in Tasks
  BY DEF TypeOK, OwnershipInv, RecordOK
<1>2. Tells(store, ledger[store.taskId])
  BY DEF MeteringInv, RecordTells
<1> QED BY <1>1, <1>2, IdAssumption, LedgerType DEF Tells, HasPendingOpen, IdAssumption

LEMMA ReserveOpenTells ==
  ASSUME TypeOK, MeteringInv, NEW c \in Slots, NEW f \in Frame,
         UNCHANGED <<store, hold, bill, ledger, published>>, ReadReserveOpen(c, f),
         f.op = "reserveOpen", f.pc = "get", Tells(f.next, After(f, Blank))
  PROVE  MeteringInv'
<1>1. CASE Return(c)
  BY <1>1, ReturnTells
<1>2. ASSUME NEW pc \in {"lapse", "create"}, Become(c, [f EXCEPT !.pc = pc])
      PROVE  MeteringInv'
  <2>1. PICK g \in Frame : g = [f EXCEPT !.pc = pc]
    BY PcType DEF PCs
  <2>2. g.op = "reserveOpen" /\ g.pc = pc /\ g.task = f.task /\ g.next = f.next
    BY <2>1 DEF Frame
  <2>3. After(g, Blank) = After(f, Blank)
    BY <2>2 DEF After
  <2>4. FrameTells(g)
    BY <2>2, <2>3 DEF FrameTells, OpeningTells, WindowTells, EndingTells, Ending
  <2> QED BY <1>2, <2>1, <2>4, DecideTells
<1> QED BY <1>1, <1>2 DEF ReadReserveOpen

LEMMA BeginTurnTells ==
  ASSUME TypeOK, OwnershipInv, MeteringInv, NEW c \in Slots, NEW f \in Frame,
         UNCHANGED <<store, hold, bill, ledger, published>>, ReadBeginTurn(c, f),
         f.op = "beginTurn", f.turn \in Turns
  PROVE  MeteringInv'
<1>1. CASE Return(c)
  BY <1>1, ReturnTells
<1>2. CASE Become(c, CloseCall("deadline"))
  <2>1. CloseCall("deadline") \in Frame
    BY CloseCallType DEF EndReasons
  <2> QED BY <1>2, <2>1, DecideQuietTells, QuietFrames
<1>3. ASSUME Become(c, Writing(f, [store EXCEPT !.pending = @ \cup {f.turn}, !.lastTurnAt = now])),
             store.state = "active"
      PROVE  MeteringInv'
  <2>1. PICK r \in Record : r = [store EXCEPT !.pending = @ \cup {f.turn}, !.lastTurnAt = now]
    BY DEF TypeOK, Record, TurnIds
  <2>2. PICK l \in Entry : l = ledger[store.taskId]
    BY <1>3, ActiveTells
  <2>3. /\ r.taskId = store.taskId /\ r.usage = store.usage /\ r.incomplete = store.incomplete
        /\ r.pending = store.pending \cup {f.turn} /\ r.completed = store.completed
    BY <2>1 DEF TypeOK, Record
  <2>4. Tells(store, l) /\ store.taskId # f.turn
    BY <1>3, <2>2, ActiveTells
  <2>5. PICK e : e = After(f, l)
    OBVIOUS
  <2>6. e.total = l.total /\ e.missing = l.missing /\ e.open = l.open \cup {f.turn}
    BY <2>5 DEF After, Entry
  <2>7. Tells(r, e)
    BY <2>3, <2>4, <2>6 DEF Tells
  <2>8. Writing(f, r) \in Frame /\ FrameTells(Writing(f, r))
    BY <1>3, <2>2, <2>3, <2>5, <2>7, WritingTells
  <2> QED BY <1>3, <2>1, <2>8, DecideTells
<1> QED BY <1>1, <1>2, <1>3 DEF ReadBeginTurn

LEMMA ApplyUsageTells ==
  ASSUME TypeOK, OwnershipInv, MeteringInv, NEW c \in Slots, NEW f \in Frame,
         UNCHANGED <<store, hold, bill, ledger, published>>, ReadApplyUsage(c, f),
         f.op \in {"commitOpen", "finishTurn", "recordTurn"}
  PROVE  MeteringInv'
<1> DEFINE draft == [MergeUsage(store, f.use) EXCEPT !.pending = @ \ LeaseOf(f),
                                                     !.completed = @ \cup LeaseOf(f),
                                                     !.lastTurnAt = now]
           trigger == UsageTrigger(draft)
           next == IF trigger # None /\ draft.pending # {} /\ draft.closeRequested = None
                     THEN [draft EXCEPT !.closeRequested = trigger] ELSE draft
           g == [f EXCEPT !.reason = trigger]
<1>1. CASE ~AcceptsUsage(f)
  BY <1>1, ReturnTells DEF ReadApplyUsage
<1>2. CASE AcceptsUsage(f)
  <2>1. draft \in Record /\ draft.taskId = store.taskId
    BY <1>2, ApplyDraftType, LeaseType
  <2>2. trigger \in EndReasons \cup {None}
    BY <2>1, TriggerType
  <2>3. Become(c, Writing(g, next))
    BY <1>2 DEF ReadApplyUsage
  <2>4. /\ draft.usage = MergeUsage(store, f.use).usage
        /\ draft.incomplete = MergeUsage(store, f.use).incomplete
        /\ draft.pending = store.pending \ LeaseOf(f)
    <3>1. f.use \in Nat \cup {Unreported} /\ store \in Record
      BY DEF Frame, TypeOK
    <3>2. PICK m \in Record : m = MergeUsage(store, f.use)
      BY <3>1, MergeType
    <3>3. m.pending = store.pending
      BY <3>1, <3>2 DEF MergeUsage, Record
    <3> QED BY <3>2, <3>3 DEF Record
  <2> HIDE DEF draft, trigger
  <2>5. PICK n \in Record : n = next
    BY <2>1, <2>2 DEF Record
  <2>6. /\ n.taskId = store.taskId /\ n.usage = draft.usage /\ n.incomplete = draft.incomplete
        /\ n.pending = draft.pending
    BY <2>1, <2>5 DEF Record
  <2>7. g \in Frame /\ g.op = f.op /\ g.task = f.task /\ g.turn = f.turn /\ g.use = f.use
    BY <2>2 DEF Frame
  <2> HIDE DEF next, g
  <2>8. PICK h \in Frame : h = g
    BY <2>7
  <2>9. store.state = "active" /\ (HasPendingOpen(store) => store.taskId \in LeaseOf(f))
    BY <1>2 DEF AcceptsUsage, LeaseOf
  <2>10. PICK l \in Entry : l = ledger[store.taskId]
    BY <2>9, ActiveTells
  <2>11. After(h, l) = Metered(l, f.use, LeaseOf(f))
    BY <2>7, <2>8 DEF After, LeaseOf
  <2>12. Tells(n, Metered(l, f.use, LeaseOf(f)))
    <3>1. f.use \in Nat \cup {Unreported}
      BY DEF Frame
    <3>2. store \in Record /\ Tells(store, l) /\ (store.taskId \in store.pending => store.taskId \in LeaseOf(f))
      BY <2>9, <2>10, ActiveTells
    <3> QED BY <2>4, <2>6, <3>1, <3>2, MergeTells
  <2>13. Writing(h, n) \in Frame /\ FrameTells(Writing(h, n))
    BY <2>6, <2>7, <2>8, <2>9, <2>10, <2>11, <2>12, WritingTells
  <2> QED BY <2>3, <2>5, <2>8, <2>13, DecideTells
<1> QED BY <1>1, <1>2

LEMMA CancelTurnTells ==
  ASSUME TypeOK, OwnershipInv, MeteringInv, NEW c \in Slots, NEW f \in Frame,
         UNCHANGED <<store, hold, bill, ledger, published>>, ReadCancelTurn(c, f),
         f.op = "cancelTurn"
  PROVE  MeteringInv'
<1>1. CASE Return(c)
  BY <1>1, ReturnTells
<1>2. ASSUME Become(c, Writing(f, [store EXCEPT !.pending = @ \ {f.turn}])),
             store.state = "active"
      PROVE  MeteringInv'
  <2>1. PICK r \in Record : r = [store EXCEPT !.pending = @ \ {f.turn}]
    BY DEF TypeOK, Record
  <2>2. PICK l \in Entry : l = ledger[store.taskId]
    BY <1>2, ActiveTells
  <2>3. /\ r.taskId = store.taskId /\ r.usage = store.usage /\ r.incomplete = store.incomplete
        /\ r.pending = store.pending \ {f.turn} /\ r.completed = store.completed
    BY <2>1 DEF TypeOK, Record
  <2>4. Tells(store, l) /\ store.taskId # f.turn
    <3>1. f.turn \in Turns \cup {None}
      BY DEF Frame
    <3> QED BY <1>2, <2>2, <3>1, ActiveTells
  <2>5. PICK e : e = After(f, l)
    OBVIOUS
  <2>6. e.total = l.total /\ e.missing = l.missing /\ e.open = l.open \ {f.turn}
    BY <2>5 DEF After, Entry
  <2>7. Tells(r, e)
    BY <2>3, <2>4, <2>6 DEF Tells
  <2>8. Writing(f, r) \in Frame /\ FrameTells(Writing(f, r))
    BY <1>2, <2>2, <2>3, <2>5, <2>7, WritingTells
  <2> QED BY <1>2, <2>1, <2>8, DecideTells
<1> QED BY <1>1, <1>2 DEF ReadCancelTurn

LEMMA CancelOpenTells ==
  ASSUME TypeOK, OwnershipInv, MeteringInv, NEW c \in Slots, NEW f \in Frame,
         UNCHANGED <<store, hold, bill, ledger, published>>, ReadCancelOpen(c, f),
         f.op = "cancelOpen"
  PROVE  MeteringInv'
<1>1. CASE Return(c)
  BY <1>1, ReturnTells
<1>2. ASSUME Become(c, Writing([f EXCEPT !.reason = store.closeRequested],
                               [store EXCEPT !.state = "settling", !.closeRequested = None])),
             HasPendingOpen(store)
      PROVE  MeteringInv'
  <2>1. PICK r \in Record : r = [store EXCEPT !.state = "settling", !.closeRequested = None]
    BY DEF TypeOK, Record
  <2>2. PICK g \in Frame : g = [f EXCEPT !.reason = store.closeRequested]
    BY DEF TypeOK, Record, Frame
  <2>3. store.state = "active" /\ store.taskId \in store.pending
    BY <1>2 DEF HasPendingOpen
  <2>4. Tells(store, ledger[store.taskId])
    BY <2>3, ActiveTells
  <2>5. /\ r.taskId = store.taskId /\ r.usage = store.usage /\ r.incomplete = store.incomplete
        /\ r.pending = store.pending /\ r.completed = store.completed
    BY <2>1 DEF TypeOK, Record
  <2>6. g.op = "cancelOpen"
    BY <2>2 DEF Frame
  <2>7. Tells(r, After(g, ledger[store.taskId]))
    BY <2>4, <2>5, <2>6 DEF Tells, After
  <2>8. Writing(g, r) \in Frame /\ FrameTells(Writing(g, r))
    BY <2>3, <2>5, <2>6, <2>7, WritingTells
  <2> QED BY <1>2, <2>1, <2>2, <2>8, DecideTells
<1> QED BY <1>1, <1>2 DEF ReadCancelOpen

LEMMA CloseTells ==
  ASSUME TypeOK, OwnershipInv, MeteringInv, NEW c \in Slots, NEW f \in Frame,
         UNCHANGED <<store, hold, bill, ledger, published>>, ReadClose(c, f), f.op = "close"
  PROVE  MeteringInv'
<1>1. CASE Return(c)
  BY <1>1, ReturnTells
<1>2. ASSUME Become(c, Writing(f, [store EXCEPT !.closeRequested = IF @ = None THEN f.reason ELSE @])),
             store.state = "active"
      PROVE  MeteringInv'
  <2>1. PICK r \in Record : r = [store EXCEPT !.closeRequested = IF @ = None THEN f.reason ELSE @]
    BY DEF TypeOK, Record, Frame
  <2>2. /\ r.taskId = store.taskId /\ r.usage = store.usage /\ r.incomplete = store.incomplete
        /\ r.pending = store.pending /\ r.completed = store.completed /\ r.state = "active"
    BY <1>2, <2>1 DEF TypeOK, Record
  <2>3. Tells(store, ledger[store.taskId])
    BY <1>2, ActiveTells
  <2>4. Tells(r, After(f, ledger[store.taskId]))
    BY <2>2, <2>3 DEF Tells, After
  <2>5. Writing(f, r) \in Frame /\ FrameTells(Writing(f, r))
    BY <1>2, <2>2, <2>4, WritingTells
  <2> QED BY <1>2, <2>1, <2>5, DecideTells
<1>3. ASSUME Become(c, Writing([f EXCEPT !.task = store.taskId],
                               [store EXCEPT !.state = "settling",
                                             !.incomplete = @ \/ store.pending # {},
                                             !.closeRequested = None])),
             store.state = "active"
      PROVE  MeteringInv'
  <2>1. (store.incomplete \/ store.pending # {}) \in BOOLEAN
    BY DEF TypeOK, Record
  <2>2. PICK r \in Record : r = [store EXCEPT !.state = "settling",
                                              !.incomplete = @ \/ store.pending # {},
                                              !.closeRequested = None]
    BY <2>1 DEF TypeOK, Record
  <2>3. PICK l \in Entry : l = ledger[store.taskId]
    BY <1>3, ActiveTells
  <2>4. /\ r.taskId = store.taskId /\ r.usage = store.usage /\ r.pending = store.pending
        /\ r.state = "settling" /\ r.incomplete = (store.incomplete \/ store.pending # {})
    BY <2>2 DEF TypeOK, Record
  <2>5. Tells(store, l) /\ store.taskId \in Tasks
    BY <1>3, <2>3, ActiveTells
  <2>6. PICK g \in Frame : g = [f EXCEPT !.task = store.taskId]
    BY <2>5 DEF Frame
  <2>7. g.op = "close"
    BY <2>6 DEF Frame
  <2>8. Closes(r, l)
    <3>1. r.incomplete = (l.missing \/ l.open # {})
      BY <2>4, <2>5, Zenon DEF Tells
    <3>2. r.usage = Unreported => r.incomplete
      BY <2>4, <2>5 DEF Tells
    <3> QED BY <2>4, <2>5, <3>1, <3>2 DEF Closes, Tells
  <2>9. Writing(g, r) \in Frame /\ FrameTells(Writing(g, r))
    BY <1>3, <2>3, <2>4, <2>7, <2>8, WritingTells
  <2> QED BY <1>3, <2>2, <2>6, <2>9, DecideTells
<1> QED BY <1>1, <1>2, <1>3 DEF ReadClose
-----------------------------------------------------------------------------
LEMMA DecidesTells ==
  ASSUME TypeOK, OwnershipInv, MeteringInv, NEW c \in Slots, NEW f, Decides(c, f),
         UNCHANGED <<store, hold, bill, ledger, published>>
  PROVE  MeteringInv'
<1>1. CASE Return(c)
  BY <1>1, ReturnTells
<1>2. f \in Frame
  BY DEF Decides
<1>3. CASE f.op = "authorizeDelivery" /\ ReadAuthorizeDelivery(c, f) /\ ~Return(c)
  <2>1. store \in Record /\ store.taskId \in Tasks
    BY <1>3 DEF ReadAuthorizeDelivery, TypeOK, Record
  <2>2. PICK g : g = [f EXCEPT !.pc = "authorize", !.task = store.taskId, !.next = store]
    OBVIOUS
  <2>4. g \in Frame /\ g.pc = "authorize"
    BY <1>2, <2>1, <2>2 DEF Frame, PCs
  <2>3. Quiet(g)
    BY <2>4 DEF Quiet, Opening, Ending
  <2> QED BY <1>3, <2>2, <2>3, <2>4, DecideQuietTells DEF ReadAuthorizeDelivery
<1>4. CASE f.op = "forgetClosed" /\ ReadForgetClosed(c, f) /\ ~Return(c)
  <2>1. PICK w \in Frame : w = Writing(f, store)
    BY <1>2, WritingType DEF TypeOK
  <2>2. PICK g \in Frame : g = [w EXCEPT !.pc = "delete"]
    BY PcType DEF PCs
  <2>4. g.pc = "delete"
    BY <2>2 DEF Frame
  <2>3. FrameTells(g)
    BY <2>4 DEF FrameTells, OpeningTells, WindowTells, EndingTells, Opening, Ending
  <2> QED BY <1>4, <2>1, <2>2, <2>3, DecideTells DEF ReadForgetClosed
<1> QED BY <1>1, <1>2, <1>3, <1>4, BeginTurnTells, ApplyUsageTells, CancelTurnTells,
           CancelOpenTells, CloseTells DEF Decides

LEMMA HostTells ==
  ASSUME TypeOK, OwnershipInv, MeteringInv, NEW c \in Slots, HostStep(c)
  PROVE  MeteringInv'
<1>1. UNCHANGED <<store, hold, bill, ledger, published>> /\ now \in Nat
  BY DEF HostStep, ReserveOpen, CancelOpen, Open, CommitOpen, BeginTurn, CancelTurn,
         FinishTurn, RecordTurn, Close, AuthorizeDelivery, ForgetClosed, gateVars, TypeOK
<1>2. ASSUME NEW t \in Tasks, ReserveOpen(c, t) PROVE MeteringInv'
  <2>1. PICK r \in Record : r = DraftOpenRecord(t, now, TRUE)
    BY <1>1, DraftType
  <2>2. /\ r.taskId = t /\ r.usage = Unreported /\ r.incomplete = FALSE /\ r.pending = {t}
        /\ r.completed = {}
    BY <2>1 DEF DraftOpenRecord, NoRecord
  <2>3. PICK n \in Frame : n = NewCall("reserveOpen") /\ n.op = "reserveOpen" /\ n.pc = "get"
    BY NewCallType DEF Ops
  <2>4. PICK f \in Frame : f = [n EXCEPT !.task = t, !.next = r]
    BY <2>3 DEF Frame
  <2>5. f.op = "reserveOpen" /\ f.pc = "get" /\ f.task = t /\ f.next = r
    BY <2>3, <2>4 DEF Frame
  <2>6. PICK e : e = After(f, Blank)
    OBVIOUS
  <2>7. e.total = 0 /\ e.missing = FALSE /\ e.open = {t}
    BY <2>5, <2>6 DEF After, Blank
  <2>8. Tells(r, e)
    <3>1. Larger(r.usage, 0) = 0
      BY <2>2 DEF Larger, Unreported
    <3> QED BY <2>2, <2>7, <3>1 DEF Tells
  <2>9. ReadReserveOpen(c, f)
    BY <1>2, <2>1, <2>3, <2>4 DEF ReserveOpen
  <2> QED BY <1>1, <2>5, <2>6, <2>8, <2>9, ReserveOpenTells
<1>3. ASSUME NEW t \in Tasks, NEW u \in Readings, Open(c, t, u) PROVE MeteringInv'
  <2>1. PICK first \in Record : first = DraftOpenRecord(t, now, FALSE)
    BY <1>1, DraftType
  <2>2. /\ first.taskId = t /\ first.usage = Unreported /\ first.incomplete = FALSE
        /\ first.pending = {} /\ first.completed = {}
    BY <2>1 DEF DraftOpenRecord, NoRecord
  <2>3. u \in Nat \cup {Unreported}
    BY ReadingType
  <2>4. PICK draft \in Record : draft = MergeUsage(first, u)
    BY <2>3, MergeType
  <2>5. /\ draft.taskId = t /\ draft.pending = {} /\ draft.usage = u
        /\ draft.incomplete = (u = Unreported)
    BY <2>2, <2>3, <2>4 DEF MergeUsage, Record
  <2>6. PICK trigger \in EndReasons \cup {None} : trigger = UsageTrigger(draft)
    BY TriggerType
  <2>7. PICK r \in Record : r = [draft EXCEPT !.closeRequested = trigger]
    BY <2>6 DEF Record
  <2>8. r.taskId = t /\ r.usage = u /\ r.incomplete = (u = Unreported) /\ r.pending = {}
    BY <2>5, <2>7 DEF Record
  <2>9. PICK n \in Frame : n = NewCall("open") /\ n.op = "open"
    BY NewCallType DEF Ops
  <2>10. PICK g : g = [n EXCEPT !.pc = "create", !.task = t, !.use = u,
                                !.reason = trigger, !.next = r]
    OBVIOUS
  <2>11. /\ g \in Frame /\ g.op = "open" /\ g.pc = "create" /\ g.task = t /\ g.use = u
         /\ g.next = r
    <3>1. n \in Frame /\ n.op = "open"
      BY <2>9
    <3>2. "create" \in PCs
      BY DEF PCs
    <3> QED BY <2>3, <2>6, <2>10, <3>1, <3>2 DEF Frame
  <2>12. PICK e : e = Metered(Blank, u, {})
    OBVIOUS
  <2>13. e.total = Larger(u, 0) /\ e.missing = (u = Unreported) /\ e.open = {}
    BY <2>3, <2>12 DEF Metered, Blank, Larger, Unreported
  <2>14. Tells(r, e)
    BY <2>8, <2>13 DEF Tells
  <2>15. e = After(g, Blank)
    BY <2>11, <2>12 DEF After
  <2>16. FrameTells(g)
    BY <2>11, <2>14, <2>15 DEF FrameTells, OpeningTells, WindowTells, EndingTells, Ending
  <2>17. Become(c, g)
    BY <1>3, <2>1, <2>4, <2>6, <2>7, <2>9, <2>10 DEF Open
  <2> QED BY <1>1, <2>11, <2>16, <2>17, DecideTells
<1> QED BY <1>1, <1>2, <1>3, HostDecides, DecidesTells

LEMMA RetryTells ==
  ASSUME TypeOK, OwnershipInv, MeteringInv, NEW c \in Slots, Retry(c)
  PROVE  MeteringInv'
<1>1. /\ call[c] \in Frame /\ call[c].pc = "get"
      /\ call[c].op = "beginTurn" => call[c].turn \in Turns
      /\ UNCHANGED <<store, hold, bill, ledger, published>>
  BY DEF TypeOK, Frame, Retry, At, gateVars
<1>2. CASE call[c].op = "reserveOpen" /\ ReadReserveOpen(c, call[c])
  <2>1. Opening(call[c]) /\ OpeningTells(call[c])
    BY <1>1, <1>2 DEF Opening, MeteringInv, FrameTells
  <2> QED BY <1>1, <1>2, <2>1, ReserveOpenTells DEF OpeningTells
<1>3. CASE Decides(c, call[c])
  BY <1>1, <1>3, DecidesTells
<1> QED BY <1>1, <1>2, <1>3 DEF Retry, Decides
-----------------------------------------------------------------------------
(* Writes. *)

(* A matching write to an active session: the record it decided on is there. *)
LEMMA WindowFacts ==
  ASSUME TypeOK, OwnershipInv, MeteringInv, NEW c \in Slots, At(c, "cas"), Matches(call[c])
  PROVE  /\ store.state = "active" /\ store.taskId \in Tasks /\ hold[store.taskId] = "held"
         /\ call[c].next.taskId = store.taskId
         /\ call[c].next.revision = store.revision + 1
         /\ \A d \in Slots : ~Ending(call[d])
         /\ WindowTells(call[c])
<1>1. /\ store.state = "active" /\ call[c].next.taskId = store.taskId
      /\ WindowTells(call[c])
  BY DEF OwnershipInv, WindowOK, At, MeteringInv, FrameTells
<1>2. store.taskId \in Tasks /\ hold[store.taskId] = "held"
  BY <1>1 DEF OwnershipInv, RecordOK
<1>3. call[c].next.revision = store.revision + 1
  <2>1. call[c].next.revision \in Nat /\ store.revision \in Nat
    BY AtFrame DEF TypeOK, Record
  <2> QED BY <2>1 DEF Matches
<1> QED BY <1>1, <1>2, <1>3, NobodyEnding

LEMMA WriteTells ==
  ASSUME TypeOK, TypeOK', OwnershipInv, MeteringInv, NEW c \in Slots,
         WriteBeginTurn(c) \/ WriteApplyUsage(c) \/ WriteCancelTurn(c)
  PROVE  MeteringInv'
<1>1. /\ At(c, "cas") /\ Matches(call[c]) /\ store' = call[c].next
      /\ UNCHANGED <<hold, bill, published>>
      /\ call[c].op \in {"beginTurn", "commitOpen", "finishTurn", "recordTurn", "cancelTurn"}
  BY DEF WriteBeginTurn, WriteApplyUsage, WriteCancelTurn, gateVars
<1>2. PICK f \in Frame : f = call[c]
  BY AtFrame
<1>3. PICK t \in Tasks : t = store.taskId
  BY <1>1, WindowFacts
<1>4. PICK l \in Entry : l = ledger[t]
  BY LedgerType
<1>5. ledger' = [ledger EXCEPT ![t] = After(f, l)]
  <2>1. CASE WriteBeginTurn(c)
    BY <1>2, <1>3, <1>4, <2>1 DEF WriteBeginTurn, After
  <2>2. CASE WriteCancelTurn(c)
    BY <1>2, <1>3, <1>4, <2>2 DEF WriteCancelTurn, After
  <2>3. CASE WriteApplyUsage(c)
    BY <1>2, <1>3, <1>4, <2>3 DEF WriteApplyUsage, After
  <2> QED BY <2>1, <2>2, <2>3
<1>6. PICK e \in Entry : e = After(f, l)
  <2>1. ledger'[t] = After(f, l)
    BY <1>5 DEF TypeOK
  <2>2. ledger'[t] \in Entry
    BY DEF TypeOK
  <2> QED BY <2>1, <2>2
<1>7. Tells(f.next, e)
  BY <1>1, <1>2, <1>3, <1>4, <1>6, WindowFacts DEF WindowTells, At
<1>8. \E g : Quiet(g) /\ Become(c, g)
  BY QuietFrames DEF WriteBeginTurn, WriteApplyUsage, WriteCancelTurn, Return
<1>9. PICK g : Quiet(g) /\ Become(c, g)
  BY <1>8
<1>10. FrameTells(g)'
  BY <1>9, QuietTells
<1>11. /\ store.state # "absent" /\ store'.taskId = store.taskId
       /\ store'.revision = store.revision + 1 /\ hold[store.taskId] = "held"
       /\ \A d \in Slots \ {c} : ~Ending(call[d])
  BY <1>1, WindowFacts
<1>12. /\ ledger' = [ledger EXCEPT ![store.taskId] = e]
       /\ store'.state = "active" => Tells(store', e)
  BY <1>1, <1>2, <1>3, <1>5, <1>6, <1>7
<1> QED BY <1>1, <1>9, <1>10, <1>11, <1>12, RewriteTells

LEMMA WriteEndingTells ==
  ASSUME TypeOK, OwnershipInv, MeteringInv, NEW c \in Slots, WriteClose(c) \/ WriteCancelOpen(c)
  PROVE  MeteringInv'
<1>1. /\ At(c, "cas") /\ Matches(call[c]) /\ store' = call[c].next
      /\ UNCHANGED <<hold, bill, published, ledger>>
      /\ call[c].op \in {"close", "cancelOpen"}
  BY DEF WriteClose, WriteCancelOpen, gateVars
<1>2. PICK f \in Frame : f = call[c]
  BY AtFrame
<1>3. PICK t \in Tasks : t = store.taskId
  BY <1>1, WindowFacts
<1>4. PICK l \in Entry : l = ledger[t]
  BY LedgerType
<1>5. ledger' = [ledger EXCEPT ![store.taskId] = l]
  BY <1>1, <1>3, <1>4 DEF TypeOK
<1>6. After(f, l) = l
  BY <1>1, <1>2 DEF After
<1>7. IF f.op = "close" /\ f.next.state = "settling"
        THEN Closes(f.next, l)
        ELSE Tells(f.next, l) /\ (f.op = "cancelOpen" => t \in f.next.pending)
  BY <1>1, <1>2, <1>3, <1>4, <1>6, WindowFacts DEF WindowTells, At
<1>8. f.op = "cancelOpen" => f.next.state = "settling"
  BY <1>1, <1>2 DEF OwnershipInv, WindowOK, At
<1>9. f.next.state = "settling" => f.task = t
  BY <1>1, <1>2, <1>3 DEF OwnershipInv, WindowOK, At
<1>10. \E g : Become(c, g) /\ FrameTells(g)'
  <2>1. CASE Return(c)
    BY <2>1, QuietFrames, QuietTells DEF Return
  <2>2. ASSUME NEW pc \in {"publication", "lapse"}, Become(c, [f EXCEPT !.pc = pc]),
               f.next.state = "settling", pc = "publication" <=> f.op = "close"
        PROVE  FrameTells([f EXCEPT !.pc = pc])'
    <3>1. PICK g : g = [f EXCEPT !.pc = pc]
      OBVIOUS
    <3>2. g.op = f.op /\ g.pc = pc /\ g.task = t /\ g.next = f.next
      BY <1>9, <2>2, <3>1 DEF Frame
    <3>3. ledger'[t] = l /\ store' = f.next
      BY <1>1, <1>2, <1>4
    <3>4. EndingTells(g)'
      BY <1>1, <1>2, <1>7, <2>2, <3>2, <3>3 DEF EndingTells
    <3>5. FrameTells(g)'
      BY <1>1, <1>2, <3>2, <3>4 DEF FrameTells, OpeningTells, WindowTells, Opening
    <3> QED BY <3>1, <3>5
  <2>3. CASE WriteCancelOpen(c)
    BY <1>2, <1>8, <2>2, <2>3 DEF WriteCancelOpen
  <2>4. CASE WriteClose(c)
    BY <1>2, <2>1, <2>2, <2>4 DEF WriteClose
  <2> QED BY <2>3, <2>4
<1>11. PICK g : Become(c, g) /\ FrameTells(g)'
  BY <1>10
<1>12. /\ store.state # "absent" /\ store'.taskId = store.taskId
       /\ store'.revision = store.revision + 1 /\ hold[store.taskId] = "held"
       /\ \A d \in Slots \ {c} : ~Ending(call[d])
  BY <1>1, WindowFacts
<1>13. store'.state = "active" => Tells(store', l)
  BY <1>1, <1>2, <1>7
<1> QED BY <1>1, <1>5, <1>11, <1>12, <1>13, RewriteTells

LEMMA LoseWriteTells ==
  ASSUME TypeOK, OwnershipInv, MeteringInv, NEW c \in Slots, LoseWrite(c)
  PROVE  MeteringInv'
<1>1. PICK f \in Frame : f = call[c] /\ f.pc = "cas"
  BY AtFrame DEF LoseWrite, At
<1>2. PICK g \in Frame : g = [f EXCEPT !.pc = "get", !.next = NoRecord]
  BY NoRecordType, PcType, NextType DEF PCs
<1>3. g.op = f.op /\ g.pc = "get"
  BY <1>2 DEF Frame
<1>4. f.op \notin {"reserveOpen", "open"}
  BY <1>1 DEF OwnershipInv, WindowOK
<1> QED BY <1>1, <1>2, <1>3, <1>4, DecideQuietTells DEF LoseWrite, Quiet, Opening, Ending, gateVars

LEMMA DeleteTells ==
  ASSUME TypeOK, OwnershipInv, MeteringInv, NEW c \in Slots, DeleteClosed(c)
  PROVE  MeteringInv'
<1>1. Return(c) /\ UNCHANGED <<hold, bill, ledger, published>> /\ call[c].pc = "delete"
  BY DEF DeleteClosed, gateVars, At
<1>2. CASE Matches(call[c])
  <2>1. store.state = "closed" /\ store' = NoRecord
    BY <1>1, <1>2 DEF OwnershipInv, WindowOK, DeleteClosed
  <2>2. \A d \in Slots : call'[d] = call[d] \/ call'[d] = Idle
    BY <1>1 DEF Return, Become, TypeOK
  <2> QED BY <1>1, <2>1, <2>2, RemoveTells
<1>3. CASE ~Matches(call[c])
  BY <1>1, <1>3, ReturnTells DEF DeleteClosed
<1> QED BY <1>2, <1>3

(* A new session: what it tells is what its opener was told. *)
LEMMA CreateTells ==
  ASSUME ~SlowStore, TypeOK, TypeOK', OwnershipInv, MeteringInv, NEW c \in Slots, Create(c)
  PROVE  MeteringInv'
<1>1. PICK f \in Frame : f = call[c] /\ f.pc = "create"
  BY AtFrame DEF Create, At
<1>2. UNCHANGED <<hold, bill, published>> /\ f.op \in {"reserveOpen", "open"}
  BY <1>1 DEF Create, gateVars
<1>3. Opening(f)
  BY <1>1, <1>2 DEF Opening
<1>4. /\ f.task \in Tasks /\ hold[f.task] = "held" /\ store.taskId # f.task
      /\ f.next.taskId = f.task /\ f.next.state = "active"
  BY <1>1, <1>3 DEF OwnershipInv, OpeningOK
<1>5. ledger[f.task] = Blank /\ Tells(f.next, After(f, Blank))
  BY <1>1, <1>3, <1>4 DEF MeteringInv, UnusedBlank, FrameTells, OpeningTells
<1>6. PICK t \in Tasks : t = f.task
  BY <1>4
<1>7. CASE Creatable(store)
  <2>1. store' = f.next /\ \E g : Quiet(g) /\ CreatedBy(c, g)
    BY <1>1, <1>7, QuietFrames DEF Create
  <2>2. PICK g : Quiet(g) /\ CreatedBy(c, g)
    BY <2>1
  <2>3. ledger' = [ledger EXCEPT ![t] = After(f, Blank)]
    <3>1. CASE f.op = "reserveOpen"
      BY <1>1, <1>5, <1>6, <1>7, <3>1 DEF Create, After
    <3>2. CASE f.op = "open"
      BY <1>1, <1>5, <1>6, <1>7, <3>2 DEF Create, After
    <3> QED BY <1>2, <3>1, <3>2
  <2>4. \A s \in Tasks : ledger'[s] = IF s = t THEN After(f, Blank) ELSE ledger[s]
    BY <2>3 DEF TypeOK
  <2>5. \A d \in Slots : ~Ending(call[d])
    BY <1>7, NobodyEnding DEF Creatable, Reconciled
  <2>6. RecordTells'
    BY <1>4, <1>5, <1>6, <2>1, <2>4 DEF RecordTells
  <2>7. UnusedBlank'
    <3>1. store.taskId \in Tasks => hold[store.taskId] # "held"
      <4>1. CASE store.state = "absent"
        BY <4>1, IdAssumption DEF OwnershipInv, RecordOK, NoRecord, IdAssumption
      <4>2. CASE store.state = "closed"
        BY <4>2 DEF OwnershipInv, RecordOK, TypeOK, Record
      <4> QED BY <1>7, <4>1, <4>2 DEF Creatable, Reconciled
    <3> QED BY <1>2, <1>4, <1>6, <2>1, <2>4, <3>1 DEF MeteringInv, UnusedBlank
  <2>8. bill[t].calls = 0 /\ hold[t] = "held"
    BY <1>4, <1>6 DEF OwnershipInv, BillOK
  <2>9. ChargeCoversWork' /\ LapseOwesNothing'
    BY <1>2, <2>4, <2>8 DEF MeteringInv, ChargeCoversWork, LapseOwesNothing
  <2>10. ASSUME NEW d \in Slots PROVE FrameTells(call[d])'
    <3>1. CASE d = c
      <4>1. call'[d] = g
        BY <2>2, <3>1 DEF CreatedBy
      <4> QED BY <2>2, <4>1
              DEF Quiet, FrameTells, OpeningTells, WindowTells, EndingTells, Opening, Ending
    <3>2. CASE d # c /\ call[d].pc \notin {"cas", "delete"}
      <4>1. call'[d] = call[d]
        BY <2>2, <3>2 DEF CreatedBy
      <4>2. OpeningTells(call[d])
        BY DEF MeteringInv, FrameTells
      <4> QED BY <2>5, <3>2, <4>1, <4>2
              DEF FrameTells, OpeningTells, WindowTells, EndingTells, Opening, Ending
    <3>3. CASE d # c /\ call[d].pc \in {"cas", "delete"}
      <4>1. call'[d] = [call[d] EXCEPT !.next = NoRecord]
        BY <2>2, <3>3 DEF CreatedBy
      <4>2. call'[d].pc \in {"cas", "delete"} /\ call'[d].next.revision = 0
        BY <3>3, <4>1, AtFrame DEF Frame, NoRecord
      <4>3. store'.revision \in Nat
        BY DEF TypeOK, Record
      <4>4. ~Matches(call[d])'
        BY <4>2, <4>3 DEF Matches
      <4> QED BY <4>2, <4>4
              DEF FrameTells, OpeningTells, WindowTells, EndingTells, Opening, Ending
    <3> QED BY <3>1, <3>2, <3>3
  <2> QED BY <2>6, <2>7, <2>9, <2>10 DEF MeteringInv
<1>8. CASE ~Creatable(store)
  <2>1. PICK pc \in {"lapse", "get"} : Become(c, [f EXCEPT !.pc = pc])
    BY <1>1, <1>8 DEF Create
  <2>2. PICK g \in Frame : g = [f EXCEPT !.pc = pc]
    BY PcType DEF PCs
  <2>3. g.op = f.op /\ g.pc = pc /\ g.task = f.task /\ g.next = f.next /\ g.use = f.use
    BY <2>2 DEF Frame
  <2>4. After(g, Blank) = After(f, Blank)
    BY <1>2, <2>3 DEF After
  <2>5. FrameTells(g)
    BY <1>2, <1>5, <2>3, <2>4 DEF FrameTells, OpeningTells, WindowTells, EndingTells, Ending
  <2>6. UNCHANGED <<store, ledger>>
    BY <1>8 DEF Create
  <2> QED BY <1>2, <2>1, <2>2, <2>5, <2>6, DecideTells
<1> QED BY <1>7, <1>8
-----------------------------------------------------------------------------
(* The gate: what it charges and what it gives up. *)

LEMMA EndingKnows ==
  ASSUME TypeOK, OwnershipInv, MeteringInv, NEW c \in Slots, Ending(call[c])
  PROVE  /\ EndingTells(call[c]) /\ call[c].task = store.taskId /\ store.taskId \in Tasks
         /\ store.state = "settling" /\ call[c].op \notin {"reserveOpen", "open"}
BY EndingFacts DEF MeteringInv, FrameTells, EndingOK

LEMMA ReadPublicationTells ==
  ASSUME TypeOK, OwnershipInv, MeteringInv, NEW c \in Slots, ReadPublication(c)
  PROVE  MeteringInv'
<1>1. PICK f \in Frame : f = call[c] /\ f.pc = "publication"
  BY AtFrame DEF ReadPublication, At
<1>2. PICK pc \in {"lapse", "settle"} :
        /\ Become(c, [f EXCEPT !.pc = pc])
        /\ pc = "lapse" => ProjectedCharge(f.next) = 0 /\ f.next.pending = {} /\ ~f.next.incomplete
  BY <1>1 DEF ReadPublication
<1>3. PICK g \in Frame : g = [f EXCEPT !.pc = pc]
  BY PcType DEF PCs
<1>4. g.op = f.op /\ g.pc = pc /\ g.task = f.task /\ g.next = f.next
  BY <1>3 DEF Frame
<1>5. EndingTells(f) /\ Ending(f) /\ f.op \notin {"reserveOpen", "open"}
  BY <1>1, EndingKnows DEF Ending
<1>6. f.op = "close" /\ Closes(f.next, ledger[f.task])
  BY <1>1, <1>5 DEF EndingTells
<1>7. EndingTells(g)
  BY <1>2, <1>4, <1>6 DEF EndingTells
<1>8. FrameTells(g)
  BY <1>4, <1>6, <1>7 DEF FrameTells, OpeningTells, WindowTells, Opening
<1> QED BY <1>1, <1>2, <1>3, <1>8, DecideTells DEF ReadPublication, gateVars

(* What a lapse gives up was never used. *)
LEMMA LapseIsFree ==
  ASSUME TypeOK, OwnershipInv, MeteringInv, NEW c \in Slots, At(c, "lapse")
  PROVE  /\ call[c].task \in Tasks /\ hold[call[c].task] = "held" /\ bill[call[c].task].calls = 0
         /\ ledger[call[c].task].total = 0 /\ ~ledger[call[c].task].missing
<1>1. PICK f \in Frame : f = call[c] /\ f.pc = "lapse"
  BY AtFrame DEF At
<1>2. CASE Opening(f)
  <2>1. f.task \in Tasks /\ hold[f.task] = "held" /\ store.taskId # f.task
    BY <1>1, <1>2 DEF OwnershipInv, OpeningOK
  <2>2. ledger[f.task] = Blank /\ bill[f.task].calls = 0
    BY <2>1 DEF MeteringInv, UnusedBlank, OwnershipInv, BillOK
  <2> QED BY <1>1, <2>1, <2>2 DEF Blank
<1>3. CASE Ending(f)
  <2>1. EndingTells(f) /\ f.task \in Tasks /\ EndingOK(f)
    BY <1>1, <1>3, EndingKnows, EndingFacts
  <2>2. hold[f.task] = "held" /\ bill[f.task].calls = 0
    BY <1>1, <1>3, <2>1 DEF EndingOK, OwnershipInv, BillOK
  <2>3. PICK l \in Entry : l = ledger[f.task]
    BY <2>1, LedgerType
  <2>4. CASE f.op = "close"
    <3>1. /\ Closes(f.next, l) /\ ProjectedCharge(f.next) = 0 /\ f.next.pending = {}
          /\ ~f.next.incomplete /\ f.next \in Record
      BY <1>1, <1>3, <2>1, <2>3, <2>4 DEF EndingTells, Frame
    <3>2. Larger(f.next.usage, 0) = 0
      BY <3>1, FreeMeansUnused
    <3>3. l.total = 0 /\ ~l.missing
      BY <3>1, <3>2, Zenon DEF Closes
    <3> QED BY <1>1, <2>1, <2>2, <2>3, <3>3
  <2>5. CASE f.op # "close"
    <3>1. Tells(store, l) /\ store.taskId \in store.pending
      BY <1>1, <1>3, <2>1, <2>3, <2>5, EndingKnows DEF EndingTells
    <3>2. store.usage = Unreported /\ ~store.incomplete
      BY <3>1 DEF Tells
    <3>3. l.total = 0
      BY <3>1, <3>2 DEF Tells, Larger, Unreported
    <3>4. ~l.missing
      BY <3>1, <3>2, Zenon DEF Tells
    <3> QED BY <1>1, <2>1, <2>2, <2>3, <3>3, <3>4
  <2> QED BY <2>4, <2>5
<1> QED BY <1>1, <1>2, <1>3 DEF Opening, Ending

LEMMA GateLapseTells ==
  ASSUME TypeOK, OwnershipInv, MeteringInv, NEW c \in Slots, GateLapse(c)
  PROVE  MeteringInv'
<1>1. /\ At(c, "lapse") /\ call[c].task \notin published
      /\ UNCHANGED <<store, timers, published, bill, ledger>>
  BY DEF GateLapse
<1>2. PICK f \in Frame : f = call[c]
  BY AtFrame
<1>3. PICK t \in Tasks : t = f.task
  BY <1>1, <1>2, LapseIsFree
<1>4. PICK how \in {"lapsed", "void"} : hold' = [hold EXCEPT ![t] = how]
  BY <1>2, <1>3 DEF GateLapse
<1>5. \A s \in Tasks : hold'[s] = IF s = t THEN how ELSE hold[s]
  BY <1>4 DEF TypeOK
<1>6. LapseOwesNothing'
  BY <1>1, <1>2, <1>3, <1>5, LapseIsFree DEF MeteringInv, LapseOwesNothing
<1>7. ChargeCoversWork'
  BY <1>1 DEF MeteringInv, ChargeCoversWork
<1>8. \E g : Become(c, g) /\ FrameTells(g)'
  <2>1. CASE Return(c)
    BY <2>1, QuietFrames, QuietTells DEF Return
  <2>2. ASSUME NEW n, Become(c, [f EXCEPT !.pc = "terminal", !.next = n])
        PROVE  FrameTells([f EXCEPT !.pc = "terminal", !.next = n])'
    <3>1. PICK g : g = [f EXCEPT !.pc = "terminal", !.next = n]
      OBVIOUS
    <3>2. g.pc = "terminal"
      BY <3>1 DEF Frame
    <3>3. FrameTells(g)'
      BY <3>2 DEF FrameTells, OpeningTells, WindowTells, EndingTells, Opening
    <3> QED BY <3>1, <3>3
  <2>3. Return(c) \/ \E n : Become(c, [f EXCEPT !.pc = "terminal", !.next = n])
    BY <1>2, Zenon DEF GateLapse, Return
  <2> QED BY <2>1, <2>2, <2>3
<1>9. PICK g : Become(c, g) /\ FrameTells(g)'
  BY <1>8
<1>10. \A s \in Tasks : hold'[s] = "held" => hold[s] = "held"
  BY <1>5
<1> QED BY <1>1, <1>6, <1>7, <1>9, <1>10, GateTells

LEMMA GateLapsePublishedTells ==
  ASSUME TypeOK, OwnershipInv, MeteringInv, NEW c \in Slots, GateLapsePublished(c)
  PROVE  MeteringInv'
<1>1. PICK f \in Frame : f = call[c] /\ f.pc = "lapse"
  BY AtFrame DEF GateLapsePublished, At
<1>2. CASE Return(c)
  BY <1>2, ReturnTells DEF GateLapsePublished, gateVars
<1>3. ASSUME NEW pc \in {"settle", "restore"}, Become(c, [f EXCEPT !.pc = pc]),
             f.op = IF pc = "settle" THEN "close" ELSE "cancelOpen"
      PROVE  MeteringInv'
  <2>1. PICK g \in Frame : g = [f EXCEPT !.pc = pc]
    BY PcType DEF PCs
  <2>2. g.op = f.op /\ g.pc = pc /\ g.task = f.task /\ g.next = f.next
    BY <2>1 DEF Frame
  <2>3. Ending(f) /\ EndingTells(f)
    BY <1>1, <1>3, EndingKnows DEF Ending
  <2>4. EndingTells(g)
    BY <1>1, <1>3, <2>2, <2>3 DEF EndingTells
  <2>5. FrameTells(g)
    BY <1>3, <2>2, <2>4 DEF FrameTells, OpeningTells, WindowTells, Opening
  <2> QED BY <1>3, <2>1, <2>5, DecideTells DEF GateLapsePublished, gateVars
<1> QED BY <1>1, <1>2, <1>3 DEF GateLapsePublished, Return

LEMMA GateSettleTells ==
  ASSUME TypeOK, OwnershipInv, MeteringInv, NEW c \in Slots, GateSettle(c)
  PROVE  MeteringInv'
<1>1. PICK f \in Frame : f = call[c] /\ f.pc = "settle"
  BY AtFrame DEF GateSettle, At
<1>2. PICK t \in Tasks : t = f.task
  BY <1>1, EndingKnows DEF Ending
<1>3. PICK l \in Entry : l = ledger[t]
  BY LedgerType
<1>4. Ending(f) /\ EndingTells(f) /\ f.next \in Record
  BY <1>1, EndingKnows DEF Ending, Frame
<1>5. f.op = "close" /\ Closes(f.next, l)
  BY <1>1, <1>2, <1>3, <1>4 DEF EndingTells
<1>6. PICK amount : amount = ResolveMeteredCharge(SettlementUsage(f.next))
  OBVIOUS
<1>7. amount = AmountDue(l)
  BY <1>4, <1>5, <1>6, DueCharge
<1>8. /\ UNCHANGED <<store, published, ledger>> /\ Become(c, [f EXCEPT !.pc = "settling"])
      /\ hold' = [hold EXCEPT ![t] = "submitted"]
      /\ bill' = [bill EXCEPT ![t] = [calls |-> bill[t].calls + 1, amount |-> amount]]
  BY <1>1, <1>2, <1>6 DEF GateSettle
<1>9. /\ \A s \in Tasks : hold'[s] = IF s = t THEN "submitted" ELSE hold[s]
      /\ bill'[t].amount = amount
      /\ \A s \in Tasks \ {t} : bill'[s] = bill[s]
  BY <1>8 DEF TypeOK
<1>10. ChargeCoversWork'
  BY <1>3, <1>7, <1>8, <1>9 DEF MeteringInv, ChargeCoversWork, AmountDue
<1>11. LapseOwesNothing'
  BY <1>8, <1>9 DEF MeteringInv, LapseOwesNothing
<1>12. PICK g : g = [f EXCEPT !.pc = "settling"]
  OBVIOUS
<1>13. g.op = "close" /\ g.pc = "settling"
  BY <1>5, <1>12 DEF Frame
<1>14. FrameTells(g)'
  BY <1>13 DEF FrameTells, OpeningTells, WindowTells, EndingTells, Opening
<1>15. \A s \in Tasks : hold'[s] = "held" => hold[s] = "held"
  BY <1>9
<1> QED BY <1>8, <1>10, <1>11, <1>12, <1>14, <1>15, GateTells

LEMMA GateSettleDoneTells ==
  ASSUME TypeOK, OwnershipInv, MeteringInv, NEW c \in Slots, GateSettleDone(c)
  PROVE  MeteringInv'
<1>1. PICK f \in Frame : f = call[c] /\ f.pc = "settling"
  BY AtFrame DEF GateSettleDone, At
<1>2. PICK t \in Tasks : t = f.task
  BY <1>1, EndingKnows DEF Ending
<1>3. PICK how \in {"settled", "failed"} :
        /\ hold' = [hold EXCEPT ![t] = how]
        /\ Become(c, [f EXCEPT !.pc = "terminal", !.next = Closed(f.next, how)])
  BY <1>1, <1>2 DEF GateSettleDone
<1>4. UNCHANGED <<store, published, bill, ledger>>
  BY DEF GateSettleDone
<1>5. \A s \in Tasks : hold'[s] = IF s = t THEN how ELSE hold[s]
  BY <1>3 DEF TypeOK
<1>6. ChargeCoversWork' /\ LapseOwesNothing'
  BY <1>4, <1>5 DEF MeteringInv, ChargeCoversWork, LapseOwesNothing
<1>7. PICK g : g = [f EXCEPT !.pc = "terminal", !.next = Closed(f.next, how)]
  OBVIOUS
<1>8. g.pc = "terminal"
  BY <1>7 DEF Frame
<1>9. FrameTells(g)'
  BY <1>8 DEF FrameTells, OpeningTells, WindowTells, EndingTells, Opening
<1>10. \A s \in Tasks : hold'[s] = "held" => hold[s] = "held"
  BY <1>5
<1> QED BY <1>3, <1>4, <1>6, <1>7, <1>9, <1>10, GateTells

(* Nothing is published on an authorization that was given up. *)
LEMMA AuthorizeTells ==
  ASSUME TypeOK, OwnershipInv, MeteringInv, NEW c \in Slots, GateAuthorizeDelivery(c)
  PROVE  MeteringInv'
<1>1. UNCHANGED <<store, hold, bill, ledger>> /\ Return(c)
  BY DEF GateAuthorizeDelivery
<1>2. \A t \in Tasks : t \in published' => t \in published \/ hold[t] \notin {"void", "lapsed"}
  BY DEF GateAuthorizeDelivery, Refused
<1>3. ChargeCoversWork' /\ LapseOwesNothing'
  BY <1>1, <1>2 DEF MeteringInv, ChargeCoversWork, LapseOwesNothing
<1>4. RecordTells' /\ UnusedBlank'
  BY <1>1 DEF MeteringInv, RecordTells, UnusedBlank
<1>5. ASSUME NEW d \in Slots PROVE FrameTells(call[d])'
  <2>1. CASE call'[d] = Idle
    BY <2>1, QuietFrames
       DEF Quiet, FrameTells, OpeningTells, WindowTells, EndingTells, Opening, Ending, Matches
  <2>2. CASE call'[d] = call[d]
    <3>1. FrameTells(call[d])
      BY DEF MeteringInv
    <3> QED BY <1>1, <2>2, <3>1
            DEF FrameTells, OpeningTells, WindowTells, EndingTells, Opening, Ending, Matches
  <2>3. call'[d] = call[d] \/ call'[d] = Idle
    BY <1>1 DEF Return, Become, TypeOK
  <2> QED BY <2>1, <2>2, <2>3
<1> QED BY <1>3, <1>4, <1>5 DEF MeteringInv
-----------------------------------------------------------------------------
(* The last record, timers and crashes. *)

(* The ending call writes and returns. *)
LEMMA FinishTells ==
  ASSUME TypeOK, OwnershipInv, MeteringInv, NEW c \in Slots, Ending(call[c]), Return(c),
         Matches(call[c]), store' = call[c].next, UNCHANGED <<hold, bill, ledger, published>>,
         call[c].next.state = "active" => Tells(call[c].next, ledger[store.taskId])
  PROVE  MeteringInv'
<1>1. PICK l \in Entry : l = ledger[store.taskId]
  BY EndingKnows, LedgerType
<1>2. ledger' = [ledger EXCEPT ![store.taskId] = l]
  BY <1>1 DEF TypeOK
<1>3. \A d \in Slots \ {c} : ~Ending(call[d])
  BY DEF OwnershipInv, OneOwner
<1>4. store'.taskId = store.taskId /\ store.state # "absent"
  BY EndingFacts
<1>5. store'.revision = store.revision + 1
  <2>1. call[c].next.revision \in Nat /\ store.revision \in Nat
    BY AtFrame DEF TypeOK, Record
  <2> QED BY <2>1 DEF Matches
<1>6. Become(c, Idle) /\ FrameTells(Idle)'
  BY QuietFrames, QuietTells DEF Return
<1> QED BY <1>1, <1>2, <1>3, <1>4, <1>5, <1>6, RewriteTells

LEMMA WriteLastTells ==
  ASSUME TypeOK, OwnershipInv, MeteringInv, NEW c \in Slots,
         WriteTerminal(c) \/ WriteEvidence(c) \/ WriteRestore(c)
  PROVE  MeteringInv'
<1>1. /\ call[c].pc \in {"terminal", "evidenceCas", "restoreCas"} /\ Return(c)
      /\ UNCHANGED <<hold, bill, ledger, published>>
  BY DEF WriteTerminal, WriteEvidence, WriteRestore, At, gateVars
<1>2. Ending(call[c])
  BY <1>1 DEF Ending
<1>3. CASE ~Matches(call[c])
  BY <1>1, <1>3, ReturnTells DEF WriteTerminal, WriteEvidence, WriteRestore
<1>4. CASE Matches(call[c])
  <2>1. store' = call[c].next
    BY <1>4 DEF WriteTerminal, WriteEvidence, WriteRestore
  <2>2. call[c].next.state = "active" => call[c].pc = "restoreCas"
    BY <1>1, <1>2, EndingFacts DEF EndingOK
  <2>3. call[c].pc = "restoreCas" => Tells(call[c].next, ledger[store.taskId])
    BY <1>2, EndingKnows DEF EndingTells
  <2> QED BY <1>1, <1>2, <1>4, <2>1, <2>2, <2>3, FinishTells
<1> QED BY <1>3, <1>4

LEMMA ReadLastTells ==
  ASSUME TypeOK, OwnershipInv, MeteringInv, NEW c \in Slots, LoseTerminal(c) \/ ReadEvidence(c)
  PROVE  MeteringInv'
<1>1. PICK f \in Frame : f = call[c] /\ f.pc \in {"terminal", "evidence"}
  BY AtFrame DEF LoseTerminal, ReadEvidence, At
<1>2. UNCHANGED <<store, hold, bill, ledger, published>>
  BY DEF LoseTerminal, ReadEvidence, gateVars
<1>3. CASE Return(c)
  BY <1>2, <1>3, ReturnTells
<1>4. ASSUME NEW g \in Frame, Become(c, g), g.pc \in {"evidence", "evidenceCas"}
      PROVE  MeteringInv'
  <2>1. FrameTells(g)
    BY <1>4 DEF FrameTells, OpeningTells, WindowTells, EndingTells, Opening
  <2> QED BY <1>2, <1>4, <2>1, DecideTells
<1>5. CASE Become(c, [f EXCEPT !.pc = "evidence"])
  <2>1. PICK g \in Frame : g = [f EXCEPT !.pc = "evidence"]
    BY PcType DEF PCs
  <2>2. g.pc = "evidence"
    BY <2>1 DEF Frame
  <2> QED BY <1>4, <1>5, <2>1, <2>2
<1>6. CASE Become(c, [Writing(f, [store EXCEPT !.settlement = f.next.settlement])
                        EXCEPT !.pc = "evidenceCas"])
  <2>1. f.next \in Record
    BY DEF Frame
  <2>2. PICK r \in Record : r = [store EXCEPT !.settlement = f.next.settlement]
    BY <2>1 DEF TypeOK, Record
  <2>3. PICK w \in Frame : w = Writing(f, r)
    BY WritingType
  <2>4. PICK g \in Frame : g = [w EXCEPT !.pc = "evidenceCas"]
    BY PcType DEF PCs
  <2>5. g.pc = "evidenceCas"
    BY <2>4 DEF Frame
  <2> QED BY <1>4, <1>6, <2>2, <2>3, <2>4, <2>5
<1> QED BY <1>1, <1>3, <1>5, <1>6 DEF LoseTerminal, ReadEvidence, Return

(* A cancelled opening whose delivery was published goes on as it was. *)
LEMMA ReadRestoreTells ==
  ASSUME TypeOK, OwnershipInv, MeteringInv, NEW c \in Slots, ReadRestore(c)
  PROVE  MeteringInv'
<1>1. PICK f \in Frame : f = call[c] /\ f.pc = "restore"
  BY AtFrame DEF ReadRestore, At
<1>2. UNCHANGED <<store, hold, bill, ledger, published>>
  BY DEF ReadRestore, gateVars
<1>3. CASE Return(c)
  BY <1>2, <1>3, ReturnTells
<1>4. CASE Become(c, [Writing(f, [store EXCEPT !.state = "active", !.closeRequested = f.reason])
                        EXCEPT !.pc = "restoreCas"])
  <2>1. f.reason \in EndReasons \cup {None}
    BY DEF Frame
  <2>2. PICK r \in Record : r = [store EXCEPT !.state = "active", !.closeRequested = f.reason]
    BY <2>1 DEF TypeOK, Record
  <2>3. store.revision + 1 \in Nat
    BY DEF TypeOK, Record
  <2>4. PICK n \in Record : n = [r EXCEPT !.revision = store.revision + 1]
    BY <2>3 DEF Record
  <2>5. /\ n.taskId = store.taskId /\ n.usage = store.usage /\ n.incomplete = store.incomplete
        /\ n.pending = store.pending /\ n.completed = store.completed
    BY <2>2, <2>4 DEF TypeOK, Record
  <2>6. PICK w \in Frame : w = Writing(f, r)
    BY WritingType
  <2>7. PICK g \in Frame : g = [w EXCEPT !.pc = "restoreCas"]
    BY PcType DEF PCs
  <2>8. g.op = f.op /\ g.pc = "restoreCas" /\ g.task = f.task /\ g.next = n
    BY <2>4, <2>6, <2>7 DEF Writing, Frame
  <2>9. Ending(f) /\ EndingTells(f)
    BY <1>1, EndingKnows DEF Ending
  <2>10. f.op = "cancelOpen" /\ Tells(store, ledger[f.task])
    BY <1>1, <2>9 DEF EndingTells
  <2>11. Tells(n, ledger[f.task])
    BY <2>5, <2>10 DEF Tells
  <2>12. FrameTells(g)
    BY <2>8, <2>10, <2>11 DEF FrameTells, OpeningTells, WindowTells, EndingTells, Opening
  <2> QED BY <1>2, <1>4, <2>2, <2>6, <2>7, <2>12, DecideTells
<1> QED BY <1>1, <1>3, <1>4 DEF ReadRestore, Return

LEMMA CallStepTells ==
  ASSUME ~SlowStore, TypeOK, TypeOK', OwnershipInv, MeteringInv, NEW c \in Slots, CallStep(c)
  PROVE  MeteringInv'
<1>1. CASE GateThrows(c)
  BY <1>1, ReturnTells DEF GateThrows, gateVars
<1> QED BY <1>1, RetryTells, CreateTells, LoseWriteTells, WriteTells, WriteEndingTells, DeleteTells,
           ReadPublicationTells, GateLapseTells, GateLapsePublishedTells, GateSettleTells,
           GateSettleDoneTells, AuthorizeTells, WriteLastTells, ReadLastTells, ReadRestoreTells
        DEF CallStep

(* Calls that stop, and a clock that moves, change nothing the ledger knows. *)
LEMMA KeepTells ==
  ASSUME MeteringInv, UNCHANGED <<store, hold, bill, ledger, published>>,
         \A d \in Slots : call'[d] = call[d] \/ Quiet(call'[d])
  PROVE  MeteringInv'
<1>1. RecordTells' /\ UnusedBlank' /\ ChargeCoversWork' /\ LapseOwesNothing'
  BY DEF MeteringInv, RecordTells, UnusedBlank, ChargeCoversWork, LapseOwesNothing
<1>2. ASSUME NEW d \in Slots PROVE FrameTells(call[d])'
  <2>1. FrameTells(call[d])
    BY DEF MeteringInv
  <2>2. CASE call'[d] = call[d]
    BY <2>1, <2>2 DEF FrameTells, OpeningTells, WindowTells, EndingTells, Opening, Ending, Matches
  <2>3. CASE Quiet(call'[d])
    BY <2>3 DEF Quiet, FrameTells, OpeningTells, WindowTells, EndingTells, Opening, Ending
  <2> QED BY <2>2, <2>3
<1> QED BY <1>1, <1>2 DEF MeteringInv

LEMMA InitTells == Init => MeteringInv
<1> SUFFICES ASSUME Init PROVE MeteringInv
  OBVIOUS
<1>1. RecordTells /\ UnusedBlank
  BY DEF Init, RecordTells, UnusedBlank, NoRecord, Blank
<1>2. \A c \in Slots : FrameTells(call[c])
  BY QuietFrames, QuietTells DEF Init
<1>3. ChargeCoversWork /\ LapseOwesNothing
  BY DEF Init, ChargeCoversWork, LapseOwesNothing
<1> QED BY <1>1, <1>2, <1>3 DEF MeteringInv

LEMMA NextTells ==
  ASSUME ~SlowStore, TypeOK, OwnershipInv, MeteringInv, [Next]_vars
  PROVE  MeteringInv'
<1>1. TypeOK'
  BY StepType
<1>2. ASSUME NEW c \in Calls, HostStep(c) PROVE MeteringInv'
  BY <1>2, HostTells DEF Slots
<1>3. ASSUME NEW c \in Slots, CallStep(c) PROVE MeteringInv'
  BY <1>1, <1>3, CallStepTells
<1>4. ASSUME NEW c \in TimerCalls, FireTimer(c) \/ Recover(c) PROVE MeteringInv'
  <2>1. UNCHANGED <<store, hold, bill, ledger, published>> /\ c \in Slots
    BY <1>4 DEF FireTimer, Recover, gateVars, Slots
  <2>2. UNCHANGED call \/ \E reason : Become(c, CloseCall(reason))
    BY <1>4 DEF FireTimer, Recover
  <2>3. \A d \in Slots : call'[d] = call[d] \/ Quiet(call'[d])
    BY <2>1, <2>2, QuietFrames DEF Become, TypeOK
  <2> QED BY <2>1, <2>3, KeepTells
<1>5. CASE Tick \/ UNCHANGED vars
  BY <1>5, KeepTells DEF Tick, vars, gateVars
<1>6. ASSUME NEW r \in Replicas, Crash(r) PROVE MeteringInv'
  <2>1. \A d \in Slots : call'[d] = call[d] \/ Quiet(call'[d])
    BY <1>6, QuietFrames DEF Crash
  <2> QED BY <1>6, <2>1, KeepTells DEF Crash, gateVars
<1>7. CASE PurgeClosed
  BY <1>7, RemoveTells DEF PurgeClosed, Reconciled, gateVars
<1> QED BY <1>2, <1>3, <1>4, <1>5, <1>6, <1>7 DEF Next

(* Every record, open window and ending call agrees with what the host was told; *)
(* the inductive invariant behind the next three theorems.                      *)
THEOREM Metering == ASSUME ~SlowStore PROVE Spec => []MeteringInv
<1>1. TypeOK /\ OwnershipInv /\ MeteringInv /\ [Next]_vars => MeteringInv'
  BY NextTells
<1>2. QED BY <1>1, InitTells, Ownership, PTL DEF Spec

(* MeteredExactly: no interleaving of finishTurn, recordTurn, cancelTurn, commitOpen *)
(* and closes loses an acknowledged reading or a lease, or counts one twice.         *)
THEOREM ReadingsAreKept == ASSUME ~SlowStore PROVE Spec => []MeteredExactly
<1>1. MeteringInv => MeteredExactly
  BY DEF MeteringInv, RecordTells, Tells, MeteredExactly
<1>2. QED BY <1>1, Metering, PTL

(* ChargeCoversWork: gate.settle is asked for the price of the acknowledged work. *)
THEOREM ChargesAreDue == ASSUME ~SlowStore PROVE Spec => []ChargeCoversWork
<1>1. MeteringInv => ChargeCoversWork
  BY DEF MeteringInv
<1>2. QED BY <1>1, Metering, PTL

(* LapseOwesNothing: an authorization is given up only if its session delivered and *)
(* reported nothing that costs.                                                     *)
THEOREM LapsesAreFree == ASSUME ~SlowStore PROVE Spec => []LapseOwesNothing
<1>1. MeteringInv => LapseOwesNothing
  BY DEF MeteringInv
<1>2. QED BY <1>1, Metering, PTL
-----------------------------------------------------------------------------
(* The manager keeps the promise of UptoHold.  A delivery that is about to be  *)
(* authorized knows the session that holds its authorization, and a hold that  *)
(* left the facilitator was charged.                                          *)

DeliveryKnows(f) ==
  f.pc = "authorize" /\ hold[f.task] = "held" =>
    store.taskId = f.task /\ store.state \in {"active", "settling"}

ChargedIsBilled ==
  \A t \in Tasks : hold[t] \in {"submitted", "settled", "failed"} => bill[t].calls > 0

Promised == ChargedIsBilled /\ \A c \in Slots : DeliveryKnows(call[c])

LEMMA AuthorizedTask ==
  ASSUME NEW f \in Frame, f.pc = "authorize" PROVE f.task \in Tasks
BY DEF Frame

(* A step that the gate takes part in, and every other step. *)
GateStep(c) == GateLapse(c) \/ GateSettle(c) \/ GateSettleDone(c) \/ GateAuthorizeDelivery(c)

LEMMA GateOrNot ==
  ASSUME [Next]_vars
  PROVE  UNCHANGED gateVars \/ \E c \in Slots : GateStep(c)
<1>1. ASSUME NEW c \in Calls, HostStep(c) PROVE UNCHANGED gateVars
  BY <1>1 DEF HostStep, ReserveOpen, CancelOpen, Open, CommitOpen, BeginTurn, CancelTurn,
              FinishTurn, RecordTurn, Close, AuthorizeDelivery, ForgetClosed
<1>2. ASSUME NEW c \in Slots, CallStep(c), ~GateStep(c) PROVE UNCHANGED gateVars
  BY <1>2 DEF CallStep, Retry, Create, LoseWrite, WriteBeginTurn, WriteApplyUsage,
              WriteCancelTurn, WriteCancelOpen, WriteClose, DeleteClosed, ReadPublication,
              GateThrows, GateLapsePublished, WriteTerminal, LoseTerminal, ReadEvidence,
              WriteEvidence, ReadRestore, WriteRestore, GateStep
<1>3. ASSUME NEW c \in TimerCalls, FireTimer(c) \/ Recover(c) PROVE UNCHANGED gateVars
  BY <1>3 DEF FireTimer, Recover
<1>4. CASE PurgeClosed \/ Tick \/ UNCHANGED vars \/ \E r \in Replicas : Crash(r)
  BY <1>4 DEF PurgeClosed, Tick, vars, Crash, gateVars
<1> QED BY <1>1, <1>2, <1>3, <1>4 DEF Next

(* With a policy that always names a price no charge is refused unasked. *)
LEMMA NoneRefused ==
  ASSUME TypeOK, ChargeCoversWork, ChargedIsBilled, UnreportedUsage # "refuse", NEW t \in Tasks
  PROVE  ~Refused(t)
<1> SUFFICES ASSUME hold[t] = "failed" PROVE bill[t].amount # Unreported
  BY DEF Refused
<1>1. bill[t].amount = AmountDue(ledger[t])
  BY DEF ChargedIsBilled, ChargeCoversWork
<1>2. ledger[t].total \in Nat /\ MaxAmount \in Nat \ {0} /\ MinAmount \in Nat
      /\ UnreportedUsage \in {"ceiling", "floor"}
  BY PricingAssumption DEF TypeOK, Entry
<1>3. MeterUsage(ledger[t].total) \in Nat
  BY <1>2 DEF MeterUsage, Larger, Unreported
<1>4. PICK m \in Nat : m = MeterUsage(ledger[t].total)
  BY <1>3
<1>5. \/ AmountDue(ledger[t]) = Smaller(Larger(m, 0), MaxAmount)
      \/ AmountDue(ledger[t]) = MaxAmount
      \/ AmountDue(ledger[t]) = Smaller(Larger(Larger(m, 0), MinAmount), MaxAmount)
  BY <1>2, <1>4 DEF AmountDue
<1> QED BY <1>1, <1>2, <1>5 DEF Smaller, Larger, Unreported

(* Where the gate's steps start from. *)
LEMMA GateFacts ==
  ASSUME TypeOK, OwnershipInv, NEW c \in Slots
  PROVE  /\ UNCHANGED store => HoldOwner' = HoldOwner
         /\ Ending(call[c]) => /\ store.state = "settling" /\ store.taskId = call[c].task
                               /\ HoldOwner = call[c].task /\ call[c].task \in Tasks
         /\ Opening(call[c]) => /\ call[c].task \in Tasks /\ hold[call[c].task] = "held"
                                /\ store.taskId # call[c].task
         /\ call[c].pc \in {"lapse", "settle"} => hold[call[c].task] = "held"
         /\ call[c].pc = "settling" => hold[call[c].task] = "submitted"
<1>1. UNCHANGED store => HoldOwner' = HoldOwner
  BY DEF HoldOwner
<1>2. Ending(call[c]) => /\ store.state = "settling" /\ store.taskId = call[c].task
                         /\ HoldOwner = call[c].task /\ call[c].task \in Tasks
  BY DEF OwnershipInv, EndingOK, HoldOwner, RecordOK
<1>3. Opening(call[c]) => /\ call[c].task \in Tasks /\ hold[call[c].task] = "held"
                          /\ store.taskId # call[c].task
  BY DEF OwnershipInv, OpeningOK
<1>4. /\ call[c].pc \in {"settle", "settling"} => Ending(call[c])
      /\ call[c].pc = "lapse" => Ending(call[c]) \/ Opening(call[c])
  BY DEF Ending, Opening
<1>5. Ending(call[c]) => /\ call[c].pc \in {"lapse", "settle"} => hold[call[c].task] = "held"
                         /\ call[c].pc = "settling" => hold[call[c].task] = "submitted"
  BY DEF OwnershipInv, EndingOK
<1> QED BY <1>1, <1>2, <1>3, <1>4, <1>5

(* authorizeDelivery reads an active session, and waits for the gate with its task. *)
LEMMA DeliveryStarts ==
  ASSUME TypeOK, NEW c \in Slots, HostStep(c), call'[c].pc = "authorize"
  PROVE  /\ store.state = "active" /\ store.taskId = call'[c].task
         /\ UNCHANGED <<store, hold>>
<1>1. UNCHANGED <<store, hold>>
  BY DEF HostStep, ReserveOpen, CancelOpen, Open, CommitOpen, BeginTurn, CancelTurn,
         FinishTurn, RecordTurn, Close, AuthorizeDelivery, ForgetClosed, gateVars
<1>2. \A g : Become(c, g) => call'[c] = g
  BY DEF Become, TypeOK
<1>3. ASSUME NEW t \in Tasks, ReserveOpen(c, t) PROVE FALSE
  <2>1. PICK r \in Record : r = DraftOpenRecord(t, now, TRUE)
    BY DraftType DEF TypeOK
  <2>2. PICK n \in Frame : n = NewCall("reserveOpen") /\ n.op = "reserveOpen" /\ n.pc = "get"
    BY NewCallType DEF Ops
  <2>3. [n EXCEPT !.task = t, !.next = r] \in Frame
    BY <2>2 DEF Frame
  <2> QED BY <1>3, <2>1, <2>2, <2>3, RetriesGoOn DEF ReserveOpen
<1>4. ASSUME NEW t \in Tasks, NEW u \in Readings, Open(c, t, u) PROVE FALSE
  <2>1. PICK n \in Frame : n = NewCall("open")
    BY NewCallType DEF Ops
  <2>2. PICK x, y, z :
          Become(c, [n EXCEPT !.pc = "create", !.task = t, !.use = x, !.reason = y, !.next = z])
    BY <1>4, <2>1 DEF Open
  <2>3. call'[c] = [n EXCEPT !.pc = "create", !.task = t, !.use = x, !.reason = y, !.next = z]
    BY <1>2, <2>2
  <2>4. call'[c].pc = "create"
    BY <2>3 DEF Frame
  <2> QED BY <2>4
<1>5. ASSUME NEW f, Decides(c, f) PROVE store.state = "active" /\ store.taskId = call'[c].task
  <2>1. f \in Frame
    BY <1>5 DEF Decides
  <2>2. CASE ReadAuthorizeDelivery(c, f)
    <3>1. [f EXCEPT !.pc = "authorize", !.task = store.taskId, !.next = store].task = store.taskId
      BY <2>1 DEF Frame
    <3>2. call'[c] # Idle
      BY PlainPcs
    <3> QED BY <1>2, <2>2, <3>1, <3>2 DEF ReadAuthorizeDelivery, Return
  <2>3. CASE ReadForgetClosed(c, f)
    <3>1. [Writing(f, store) EXCEPT !.pc = "delete"].pc = "delete"
      BY <2>1 DEF Writing, Frame
    <3> QED BY <1>2, <2>3, <3>1, PlainPcs DEF ReadForgetClosed, Return
  <2> QED BY <1>5, <2>1, <2>2, <2>3, RetriesGoOn DEF Decides
<1> QED BY <1>1, <1>3, <1>4, <1>5, HostDecides

LEMMA PromisedStep ==
  ASSUME TypeOK, OwnershipInv, TypeOK', OwnershipInv', Promised, [Next]_vars
  PROVE  Promised'
<1>1. ASSUME NEW t \in Tasks, hold'[t] \in {"submitted", "settled", "failed"}
      PROVE  bill'[t].calls > 0
  <2>1. hold[t] \in {"submitted", "settled", "failed"} => bill[t].calls > 0
    BY DEF Promised, ChargedIsBilled
  <2>2. bill[t].calls \in Nat
    BY DEF TypeOK, Invoice
  <2>3. CASE UNCHANGED gateVars
    BY <1>1, <2>1, <2>3 DEF gateVars
  <2>4. ASSUME NEW c \in Slots, GateStep(c) PROVE bill'[t].calls > 0
    <3>1. CASE GateLapse(c) \/ GateAuthorizeDelivery(c)
      BY <1>1, <2>1, <3>1 DEF GateLapse, GateAuthorizeDelivery, TypeOK
    <3>2. CASE GateSettle(c)
      <4>1. PICK a : bill' = [bill EXCEPT ![call[c].task] = [calls |-> @.calls + 1, amount |-> a]]
        BY <3>2 DEF GateSettle
      <4>2. CASE t = call[c].task
        BY <2>2, <4>1, <4>2 DEF TypeOK
      <4>3. CASE t # call[c].task
        BY <1>1, <2>1, <3>2, <4>1, <4>3 DEF TypeOK, GateSettle
      <4> QED BY <4>2, <4>3
    <3>3. CASE GateSettleDone(c)
      <4>1. hold[call[c].task] = "submitted" /\ UNCHANGED bill
        BY <3>3, GateFacts DEF GateSettleDone, At
      <4> QED BY <1>1, <2>1, <3>3, <4>1 DEF GateSettleDone, TypeOK
    <3> QED BY <2>4, <3>1, <3>2, <3>3 DEF GateStep
  <2> QED BY <2>3, <2>4, GateOrNot
<1>2. ASSUME NEW t \in Tasks, hold'[t] = "held" PROVE hold[t] = "held"
  <2>1. CASE UNCHANGED gateVars
    BY <1>2, <2>1 DEF gateVars
  <2>2. ASSUME NEW c \in Slots, GateStep(c) PROVE hold[t] = "held"
    BY <1>2, <2>2 DEF GateStep, GateLapse, GateSettle, GateSettleDone, GateAuthorizeDelivery, TypeOK
  <2> QED BY <2>1, <2>2, GateOrNot
<1>3. ASSUME NEW d \in Slots, call'[d].pc = "authorize", hold'[call'[d].task] = "held"
      PROVE  store'.taskId = call'[d].task /\ store'.state \in {"active", "settling"}
  <2>1. call'[d].task \in Tasks
    BY <1>3, AuthorizedTask DEF TypeOK
  <2>2. hold[call'[d].task] = "held"
    BY <1>2, <1>3, <2>1
  <2>3. CASE d \in Calls /\ HostStep(d)
    BY <1>3, <2>3, DeliveryStarts
  <2>4. CASE call[d].pc = call'[d].pc /\ call[d].task = call'[d].task
    <3>1. store.taskId = call'[d].task /\ store.state \in {"active", "settling"}
      BY <1>3, <2>2, <2>4 DEF Promised, DeliveryKnows
    <3>2. CASE Rewrites
      <4>1. store'.state # "closed"
        BY <1>3, <3>1, <3>2 DEF OwnershipInv, RecordOK, Rewrites, TypeOK, Record
      <4> QED BY <3>1, <3>2, <4>1 DEF Rewrites
    <3>3. UNCHANGED store \/ Rewrites
      BY <3>1, RecordMoves DEF Opens, Removes, PurgeClosed, Creatable, Reconciled
    <3> QED BY <3>1, <3>2, <3>3
  <2> QED BY <1>3, <2>3, <2>4, HostStarts
<1> QED BY <1>1, <1>3 DEF Promised, ChargedIsBilled, DeliveryKnows

(* The owner, as the record's state shows it. *)
LEMMA Owners ==
  ASSUME TypeOK, OwnershipInv
  PROVE  /\ store.state \in {"active", "settling"} => HoldOwner = store.taskId
         /\ Creatable(store) => HoldOwner = None
         /\ store.state = "closed" =>
              /\ HoldOwner = IF store.settlement = "failed" THEN store.taskId ELSE None
              /\ store.taskId \in Tasks
              /\ HoldPhase[store.taskId] \in {"settled", "void", "failed"}
              /\ store.settlement = "failed" => HoldPhase[store.taskId] = "failed"
<1>1. store.state = "closed" =>
        /\ store.taskId \in Tasks /\ store.settlement \in {"settled", "lapsed", "failed"}
        /\ hold[store.taskId] = store.settlement
  BY DEF OwnershipInv, RecordOK, TypeOK, Record
<1>2. store.state = "closed" =>
        /\ HoldPhase[store.taskId] \in {"settled", "void", "failed"}
        /\ store.settlement = "failed" => HoldPhase[store.taskId] = "failed"
  BY <1>1 DEF HoldPhase
<1>3. store.state \in {"active", "settling"} => HoldOwner = store.taskId
  BY DEF HoldOwner
<1>4. store.state = "closed" => HoldOwner = IF store.settlement = "failed" THEN store.taskId ELSE None
  BY DEF HoldOwner
<1>5. Creatable(store) => HoldOwner = None
  BY DEF Creatable, Reconciled, HoldOwner, OwnershipInv, RecordOK, NoRecord
<1> QED BY <1>1, <1>2, <1>3, <1>4, <1>5

(* A step of the gate is a step of the promise. *)
LEMMA GateKeeps ==
  ASSUME TypeOK, OwnershipInv, Promised, ChargeCoversWork, UnreportedUsage # "refuse",
         NEW c \in Slots, GateStep(c)
  PROVE  Promise!Next \/ UNCHANGED Promise!vars
<1>1. UNCHANGED store
  BY DEF GateStep, GateLapse, GateSettle, GateSettleDone, GateAuthorizeDelivery
<1>2. HoldOwner' = HoldOwner
  BY <1>1, GateFacts
<1>3. \A t \in Tasks : HoldPhase[t] = CASE hold[t] = "held" -> "unspent"
                                       [] hold[t] = "submitted" -> "charged"
                                       [] hold[t] \in {"void", "lapsed"} -> "void"
                                       [] OTHER -> hold[t]
  BY DEF HoldPhase
<1>4. ASSUME NEW t \in Tasks, NEW was, hold' = [hold EXCEPT ![t] = was], NEW now_,
             now_ = CASE was = "held" -> "unspent"
                      [] was = "submitted" -> "charged"
                      [] was \in {"void", "lapsed"} -> "void"
                      [] OTHER -> was
      PROVE  HoldPhase' = [HoldPhase EXCEPT ![t] = now_]
  BY <1>4 DEF HoldPhase, TypeOK
<1>5. CASE GateLapse(c)
  <2>1. /\ call[c].task \in Tasks /\ hold[call[c].task] = "held"
        /\ HoldOwner = call[c].task \/ HoldOwner # call[c].task
    <3>1. Ending(call[c]) \/ Opening(call[c])
      BY <1>5 DEF GateLapse, At, Ending, Opening
    <3> QED BY <1>5, <3>1, GateFacts DEF GateLapse, At
  <2>2. HoldPhase[call[c].task] = "unspent"
    BY <1>3, <2>1
  <2>3. HoldPhase' = [HoldPhase EXCEPT ![call[c].task] = "void"]
    <3>1. PICK t \in Tasks : t = call[c].task
      BY <2>1
    <3>2. hold' = [hold EXCEPT ![t] = "lapsed"] \/ hold' = [hold EXCEPT ![t] = "void"]
      BY <1>5, <3>1 DEF GateLapse
    <3> QED BY <1>4, <3>1, <3>2
  <2>4. call[c].task \notin published /\ UNCHANGED published
    BY <1>5 DEF GateLapse
  <2>5. Promise!Lapse(call[c].task) \/ Promise!Decline(call[c].task)
    BY <1>2, <2>1, <2>2, <2>3, <2>4 DEF Promise!Lapse, Promise!Decline
  <2> QED BY <2>1, <2>5 DEF Promise!Next
<1>6. CASE GateSettle(c)
  <2>1. /\ call[c].task \in Tasks /\ hold[call[c].task] = "held" /\ HoldOwner = call[c].task
    BY <1>6, GateFacts DEF GateSettle, At, Ending
  <2>2. HoldPhase[call[c].task] = "unspent"
    BY <1>3, <2>1
  <2>3. HoldPhase' = [HoldPhase EXCEPT ![call[c].task] = "charged"]
    BY <1>4, <1>6, <2>1 DEF GateSettle
  <2>4. Promise!Charge(call[c].task)
    BY <1>2, <1>6, <2>1, <2>2, <2>3 DEF Promise!Charge, GateSettle
  <2> QED BY <2>1, <2>4 DEF Promise!Next
<1>7. CASE GateSettleDone(c)
  <2>1. /\ call[c].task \in Tasks /\ hold[call[c].task] = "submitted" /\ HoldOwner = call[c].task
    BY <1>7, GateFacts DEF GateSettleDone, At, Ending
  <2>2. HoldPhase[call[c].task] = "charged"
    BY <1>3, <2>1
  <2>3. PICK how \in {"settled", "failed"} : hold' = [hold EXCEPT ![call[c].task] = how]
    BY <1>7 DEF GateSettleDone
  <2>4. HoldPhase' = [HoldPhase EXCEPT ![call[c].task] = how]
    BY <1>4, <2>1, <2>3
  <2>5. Promise!Outcome(call[c].task)
    BY <1>2, <1>7, <2>1, <2>2, <2>4 DEF Promise!Outcome, GateSettleDone
  <2> QED BY <2>1, <2>5 DEF Promise!Next
<1>8. CASE GateAuthorizeDelivery(c)
  <2>1. UNCHANGED hold /\ HoldPhase' = HoldPhase
    BY <1>8 DEF GateAuthorizeDelivery, HoldPhase
  <2>2. call[c].task \in Tasks
    BY <1>8, AuthorizedTask DEF GateAuthorizeDelivery, At, TypeOK
  <2>3. CASE UNCHANGED published
    BY <1>2, <2>1, <2>3 DEF Promise!vars
  <2>4. CASE published' # published
    <3>1. published' = published \cup {call[c].task}
      BY <1>8, <2>4 DEF GateAuthorizeDelivery
    <3>2. hold[call[c].task] \in {"held", "submitted", "settled"}
      BY <1>8, <2>2, <2>4, NoneRefused DEF GateAuthorizeDelivery, Promised
    <3>3. hold[call[c].task] = "held" => HoldOwner = call[c].task
      BY <1>8, Owners DEF Promised, DeliveryKnows, GateAuthorizeDelivery, At
    <3>4. Promise!Deliver(call[c].task)
      BY <1>2, <1>3, <2>1, <2>2, <3>1, <3>2, <3>3 DEF Promise!Deliver
    <3> QED BY <2>2, <3>4 DEF Promise!Next
  <2> QED BY <2>3, <2>4
<1> QED BY <1>5, <1>6, <1>7, <1>8 DEF GateStep

(* A step of a record is a claim, a release, or nothing the promise speaks of. *)
LEMMA RecordKeeps ==
  ASSUME TypeOK, OwnershipInv, TypeOK', OwnershipInv', [Next]_vars, UNCHANGED gateVars
  PROVE  Promise!Next \/ UNCHANGED Promise!vars
<1>1. HoldPhase' = HoldPhase /\ UNCHANGED published
  BY DEF HoldPhase, gateVars
<1>2. CASE HoldOwner' = HoldOwner
  BY <1>1, <1>2 DEF Promise!vars
<1>3. CASE Rewrites /\ HoldOwner' # HoldOwner
  <2>1. store'.state = "closed" /\ HoldOwner = store.taskId
    BY <1>3, Owners DEF Rewrites, HoldOwner
  <2>2. /\ store'.taskId = store.taskId /\ store'.taskId \in Tasks
        /\ store'.settlement \in {"settled", "lapsed"} /\ hold[store'.taskId] = store'.settlement
    <3>1. store'.settlement # "failed"
      BY <1>3, <2>1 DEF Rewrites, HoldOwner
    <3> QED BY <1>3, <2>1, <3>1 DEF OwnershipInv, RecordOK, TypeOK, Record, Rewrites, gateVars
  <2>3. HoldOwner' = None
    BY <2>1, <2>2 DEF HoldOwner
  <2>4. HoldPhase[store.taskId] \in {"settled", "void"}
    BY <2>2 DEF HoldPhase
  <2>5. Promise!Release(store.taskId)
    BY <1>1, <2>1, <2>3, <2>4 DEF Promise!Release
  <2> QED BY <2>2, <2>5 DEF Promise!Next
<1>4. ASSUME NEW c \in Slots, Opens(c) PROVE Promise!Next
  <2>1. call[c].task \in Tasks /\ hold[call[c].task] = "held"
    BY <1>4, GateFacts DEF Opens
  <2>2. HoldOwner = None /\ HoldOwner' = call[c].task
    BY <1>4, Owners DEF Opens, HoldOwner
  <2>3. HoldPhase[call[c].task] = "unspent"
    BY <2>1 DEF HoldPhase
  <2>4. Promise!Claim(call[c].task)
    BY <1>1, <2>2, <2>3 DEF Promise!Claim
  <2> QED BY <2>1, <2>4 DEF Promise!Next
<1>5. CASE store.state = "closed" /\ store' = NoRecord /\ HoldOwner' # HoldOwner
  <2>1. HoldOwner' = None
    BY <1>5 DEF NoRecord, HoldOwner
  <2>2. HoldOwner = store.taskId /\ store.taskId \in Tasks /\ HoldPhase[store.taskId] = "failed"
    BY <1>5, <2>1, Owners
  <2>3. Promise!Release(store.taskId)
    BY <1>1, <2>1, <2>2 DEF Promise!Release
  <2> QED BY <2>2, <2>3 DEF Promise!Next
<1>6. UNCHANGED store => HoldOwner' = HoldOwner
  BY DEF HoldOwner
<1> QED BY <1>2, <1>3, <1>4, <1>5, <1>6, RecordMoves DEF Removes, PurgeClosed, Reconciled

(* KeepsPromise: the manager, its store and its gate implement UptoHold, under  *)
(* either policy that names a price for usage that was not reported.           *)
THEOREM ManagerKeepsPromise ==
  ASSUME ~SlowStore, UnreportedUsage # "refuse" PROVE Spec => KeepsPromise
<1>1. Init => Promise!Init
  BY DEF Init, Promise!Init, HoldOwner, HoldPhase, NoRecord
<1>2. Init => Promised
  BY PlainPcs DEF Init, Promised, ChargedIsBilled, DeliveryKnows
<1>3. TypeOK /\ OwnershipInv /\ TypeOK' /\ OwnershipInv' /\ Promised /\ [Next]_vars => Promised'
  BY PromisedStep
<1>4. /\ TypeOK /\ OwnershipInv /\ TypeOK' /\ OwnershipInv' /\ Promised /\ ChargeCoversWork
      /\ [Next]_vars
      => [Promise!Next]_(Promise!vars)
  BY GateOrNot, GateKeeps, RecordKeeps
<1> QED BY <1>1, <1>2, <1>3, <1>4, Ownership, ChargesAreDue, PTL DEF Spec, KeepsPromise, Promise!Spec
=============================================================================
