---------------------------- MODULE MerchantPayment ----------------------------
(***************************************************************************)
(* One task's payment as MerchantGate and X402Context take it: offered,      *)
(* submitted, verified, claimed, worked on, delivered, and settled, aborted   *)
(* or lapsed, over an X402Store, a MerchantOfferStore and a facilitator.      *)
(*                                                                         *)
(* A call is one MerchantGate.open and what the host does with the obligation *)
(* it was given.  A publisher is a host stream that asks authorizeDelivery    *)
(* before it shows content.  Any number of each work on the task, in one      *)
(* process or several: every await is a boundary between two steps.           *)
(***************************************************************************)
EXTENDS PaymentEntry, Sequences, FiniteSets

CONSTANTS
  Calls,        \* MerchantGate.open calls in flight
  Publishers,   \* authorizeDelivery calls in flight
  Payments,     \* payments a client may sign for the task
  Schemes,      \* schemes the merchant may offer: "exact", "upto", "batch"
  ExactTimings, \* "before-work", "after-work"
  LateAsks,     \* a message without payment may overlap with a submission
  MayExpire,    \* offers and entries may outlive their time to live
  MayCrash,     \* the process may stop between two awaits
  MaxFaults     \* bound: store calls and cancellations that throw

ASSUME PaymentAssumption ==
  /\ Schemes \subseteq {"exact", "upto", "batch"}
  /\ ExactTimings \subseteq {"before-work", "after-work"}
  /\ DeliveryTimings \subseteq {"after-settlement", "after-verification"}
  /\ {LateAsks, MayExpire, MayCrash} \subseteq BOOLEAN
  /\ MaxFaults \in Nat
  /\ Payments \cap {"ask", "legacyAsk", "decline", "malformed", "mismatch"} = {}

VARIABLES
  terms,      \* what the merchant is configured with
  entry,      \* the lifecycle entry
  offer,      \* the frozen offer: "absent", "available" or "claimed"
  queue,      \* calls queued for the task's publishing lock
  call,       \* per call: where it is and what it holds
  publisher,  \* per publisher: where it is
  reserved,   \* external: calls whose batch verification holds a reservation
  charges,    \* external: per payment, how often the facilitator moved money
  shown,      \* history: content was published on this task
  unsaid,     \* history: the entry no longer says that a settlement is unknown
  faults      \* history: spurious failures so far

vars == <<terms, entry, offer, queue, call, publisher, reserved, charges, shown, unsaid,
          faults>>

(* A message carries no payment, in a form this server's x402 version serves  *)
(* or not; or a refusal; or a payload that is missing, or fits no requirement *)
(* of the offering (version, network, scheme, shape); or a payment.           *)
Asks == {"ask", "legacyAsk"}
Messages == Asks \cup {"decline", "malformed", "mismatch"} \cup Payments

PCs == {"idle", "replay", "replayClaim", "getTerms", "locked", "put", "revoke",
        "classify", "recordClassify", "selectTerms", "verify", "recordVerify", "claim",
        "cancel", "release", "audit", "auditRead", "settle", "recordSettle", "settleRead",
        "working", "closeRead", "closeWrite", "cleanOffer", "cleanEntry"}

(* Why a call is where it is: `open` until it is granted or refused, then the *)
(* way the host ends the obligation.                                          *)
Modes == {"open", "skip", "settle", "abort", "lapse"}
Outcomes == {"none", "request-payment", "refused", "handled", "proceed", "settled",
             "failed", "aborted", "lapsed", "published"}

Call == [pc   : PCs,
         mode : Modes,
         msg  : Messages \cup {"none"},
         got  : {"none", "valid", "skip", "invalid", "paid", "declined", "unknown"},
         paid : BOOLEAN,                  \* the obligation is settled already
         free : BOOLEAN,                  \* the claim is released after the cancellation
         from : {"verified", "failed"},   \* expected by the closing write
         out  : Outcomes]

Idle == [pc |-> "idle", mode |-> "open", msg |-> "none", got |-> "none", paid |-> FALSE,
         free |-> FALSE, from |-> "verified", out |-> "none"]

Publisher == [pc : {"idle", "read", "write"}, seen : {"verified", "completed"}]

Terms == [scheme : Schemes, exact : ExactTimings, delivery : DeliveryTimings]
Resting == [pc |-> "idle", seen |-> "verified"]

Init ==
  /\ terms \in {t \in Terms : t.scheme = "exact" \/ t.exact = "after-work"}
  /\ entry = NoEntry /\ offer = "absent" /\ queue = <<>>
  /\ call = [c \in Calls |-> Idle]
  /\ publisher = [d \in Publishers |-> Resting]
  /\ reserved = {} /\ charges = [p \in Payments |-> 0]
  /\ shown = FALSE /\ unsaid = FALSE /\ faults = 0
-----------------------------------------------------------------------------
At(c, pc) == call[c].pc = pc
Become(c, f) == call' = [call EXCEPT ![c] = f]
Goto(c, pc) == Become(c, [call[c] EXCEPT !.pc = pc])
Answer(c, out) ==
  Become(c, [Idle EXCEPT !.out = out,
                         !.got = IF call[c].got = "unknown" THEN "unknown" ELSE "none"])
Refuse(c) == Answer(c, "refused")
Fault == faults < MaxFaults /\ faults' = faults + 1
Outside == UNCHANGED <<terms, publisher, charges, shown, unsaid>>
Stores == UNCHANGED <<entry, offer, queue>>
Live(c) == ~At(c, "idle")

(* Which answers a call may still get when something throws: open refuses,    *)
(* settle and abort report a failure, lapse throws.                           *)
Thrown(c) == Answer(c, IF call[c].mode \in {"open", "skip"} THEN "refused" ELSE "failed")
-----------------------------------------------------------------------------
(* MerchantGate.open.                                                       *)

Submits(c, m) ==
  /\ At(c, "idle")
  /\ LateAsks \/ /\ m \in Asks => \A d \in Calls : At(d, "idle")
                 /\ \A d \in Calls : call[d].msg \in Asks => At(d, "idle")
  /\ Become(c, [Idle EXCEPT !.pc = "replay", !.msg = m])
  /\ reserved' = reserved \ {c}
  /\ Outside /\ Stores /\ UNCHANGED faults

(* replayRefusal: a finished or closed attempt is refused from its entry. *)
ReadReplay(c) ==
  /\ At(c, "replay")
  /\ IF Is(entry, {"completed", "rejected"}) \/ entry.closed THEN Refuse(c)
                                                            ELSE Goto(c, "replayClaim")
  /\ Outside /\ Stores /\ UNCHANGED <<reserved, faults>>

(* ... and a claimed offer is a hint that the payment is in progress. *)
ReadClaimStatus(c) ==
  /\ At(c, "replayClaim")
  /\ IF offer = "claimed" THEN Refuse(c)
     ELSE Goto(c, CASE call[c].msg \in Asks -> "getTerms"
                    [] call[c].msg \in {"decline", "malformed"} -> "recordClassify"
                    [] OTHER -> "classify")
  /\ Outside /\ Stores /\ UNCHANGED <<reserved, faults>>

(* X402Context.classify of a payment, against the stored offering. *)
Classify(c) ==
  /\ At(c, "classify")
  /\ IF Is(entry, {"absent"}) THEN Refuse(c)
     ELSE Goto(c, IF call[c].msg = "mismatch" THEN "recordClassify" ELSE "selectTerms")
  /\ Outside /\ Stores /\ UNCHANGED <<reserved, faults>>

(* A failure that is written over an unknown settlement is remembered. *)
Overwrite(e) ==
  /\ entry' = e
  /\ unsaid' = (unsaid \/ (entry.unknown /\ ~e.unknown))
  /\ UNCHANGED <<terms, publisher, charges, shown, offer, queue, reserved, faults>>

RecordClassify(c) ==
  /\ At(c, "recordClassify")
  /\ Overwrite(ClassifiedAs(entry, IF call[c].msg = "decline" THEN "rejected" ELSE "failed"))
  /\ Refuse(c)

SelectTerms(c) ==
  /\ At(c, "selectTerms")
  /\ IF offer = "absent" THEN Refuse(c) ELSE Goto(c, "verify")
  /\ Outside /\ Stores /\ UNCHANGED <<reserved, faults>>

(* The facilitator, or the resource server, answers or fails.  A valid batch  *)
(* verification reserves the channel, and may ask to bypass the handler.      *)
Verify(c) ==
  /\ At(c, "verify")
  /\ \E got \in {"valid", "skip", "invalid"} :
       /\ got = "skip" => terms.scheme = "batch"
       /\ Become(c, [call[c] EXCEPT !.pc = "recordVerify", !.got = got])
       /\ reserved' = IF terms.scheme = "batch" /\ got # "invalid" THEN reserved \cup {c}
                                                                  ELSE reserved
  /\ Outside /\ Stores /\ UNCHANGED faults

RecordVerify(c) ==
  /\ At(c, "recordVerify")
  /\ IF call[c].got = "invalid" THEN Overwrite(Failed(entry, FALSE)) /\ Refuse(c)
                                ELSE Overwrite(Verified(entry)) /\ Goto(c, "claim")

CancelAnd(c, free) == Become(c, [call[c] EXCEPT !.pc = "cancel", !.free = free])

(* Mutant: an offer that is claimed already is granted again. *)
ClaimAnyway(c) ==
  /\ At(c, "claim") /\ offer # "absent"
  /\ offer' = "claimed" /\ Goto(c, "audit")
  /\ Outside /\ UNCHANGED <<entry, queue, reserved, faults>>

(* Mutant: a refused claim leaves its verification's reservation. *)
ClaimAndForget(c) ==
  /\ At(c, "claim")
  /\ IF offer = "available" THEN offer' = "claimed" /\ Goto(c, "audit")
                            ELSE Refuse(c) /\ UNCHANGED offer
  /\ Outside /\ UNCHANGED <<entry, queue, reserved, faults>>

(* claim is the arbiter: one caller gets an available offer. *)
Claim(c) ==
  /\ At(c, "claim")
  /\ \/ /\ offer = "available" /\ offer' = "claimed"
        /\ IF call[c].got = "skip"
           THEN Become(c, [call[c] EXCEPT !.pc = "settle", !.mode = "skip"])
           ELSE Goto(c, "audit")
        /\ UNCHANGED faults
     \/ offer # "available" /\ CancelAnd(c, FALSE) /\ UNCHANGED <<offer, faults>>
     \/ Fault /\ CancelAnd(c, FALSE) /\ UNCHANGED offer
  /\ Outside /\ UNCHANGED <<entry, queue, reserved>>

(* cancelVerification and the cancellation of abortBatch.  A cancellation     *)
(* that throws keeps the claim.                                               *)
Cancel(c) ==
  LET f == call[c]
      after == CASE f.mode \in {"open", "skip"} -> "refused"
                 [] f.mode = "abort" -> "aborted"
                 [] OTHER -> "failed"
  IN
  /\ At(c, "cancel")
  /\ \/ /\ reserved' = reserved \ {c}
        /\ IF f.free THEN Goto(c, "release") ELSE Answer(c, after)
        /\ UNCHANGED faults
     \/ /\ c \in reserved /\ Fault
        /\ Thrown(c) /\ UNCHANGED reserved
  /\ Outside /\ Stores

Release(c) ==
  LET f == call[c] IN
  /\ At(c, "release")
  /\ \/ /\ offer' = IF offer = "claimed" THEN "available" ELSE offer
        /\ Answer(c, CASE f.mode \in {"open", "skip"} -> "refused"
                       [] f.mode = "abort" -> "aborted"
                       [] OTHER -> "failed")
        /\ UNCHANGED faults
     \/ Fault /\ Thrown(c) /\ UNCHANGED offer
  /\ Outside /\ UNCHANGED <<entry, queue, reserved>>

(* initializeDeliveryAudit: the timing is written if the entry is verified,   *)
(* and read back.                                                             *)
Audit(c) ==
  /\ At(c, "audit")
  /\ \/ /\ Markable(entry, {"verified"}, WithTiming(entry, terms.delivery))
        /\ entry' = WithTiming(entry, terms.delivery)
        /\ Goto(c, "auditRead") /\ UNCHANGED faults
     \/ /\ ~Markable(entry, {"verified"}, WithTiming(entry, terms.delivery))
        /\ CancelAnd(c, TRUE) /\ UNCHANGED <<entry, faults>>
     \/ Fault /\ CancelAnd(c, TRUE) /\ UNCHANGED entry
  /\ Outside /\ UNCHANGED <<offer, queue, reserved>>

AuditRead(c) ==
  /\ At(c, "auditRead")
  /\ IF entry.timing = terms.delivery
     THEN IF terms.scheme = "exact" /\ terms.exact = "before-work"
          THEN Goto(c, "settle")
          ELSE Become(c, [call[c] EXCEPT !.pc = "working", !.got = "none", !.out = "proceed"])
     ELSE CancelAnd(c, TRUE)
  /\ Outside /\ Stores /\ UNCHANGED <<reserved, faults>>
-----------------------------------------------------------------------------
(* X402Context.settle.  The facilitator is external: an authorization moves    *)
(* money at most once, a batch voucher each time it is settled, and a call     *)
(* that throws may have moved it or not.                                       *)

Chargeable(p) == terms.scheme = "batch" \/ charges[p] = 0

Settle(c) ==
  LET p == call[c].msg IN
  /\ At(c, "settle")
  /\ \E got \in {"paid", "declined", "unknown"}, moved \in BOOLEAN :
       /\ got = "paid" => moved
       /\ got = "declined" => ~moved
       /\ moved => Chargeable(p) /\ charges[p] < 2
       /\ charges' = IF moved THEN [charges EXCEPT ![p] = @ + 1] ELSE charges
       /\ reserved' = IF moved THEN reserved \ {c} ELSE reserved
       /\ Become(c, [call[c] EXCEPT !.pc = "recordSettle", !.got = got])
  /\ UNCHANGED <<terms, publisher, shown, unsaid, faults>> /\ Stores

(* Mutant: a settlement that threw is recorded as an ordinary failure. *)
RecordKnown(c) ==
  /\ At(c, "recordSettle")
  /\ IF call[c].got = "paid"
     THEN entry' = Completed(entry) /\ Goto(c, "cleanOffer")
     ELSE entry' = Failed(entry, FALSE) /\ Goto(c, "settleRead")
  /\ Outside /\ UNCHANGED <<offer, queue, reserved, faults>>

(* When the write throws after a settlement, settle rejects: the gate keeps   *)
(* the claim, because nothing proves that no money moved.                     *)
RecordSettle(c) ==
  /\ At(c, "recordSettle")
  /\ \/ /\ IF call[c].got = "paid"
           THEN entry' = Completed(entry) /\ Goto(c, "cleanOffer")
           ELSE entry' = Failed(entry, call[c].got = "unknown") /\ Goto(c, "settleRead")
        /\ unsaid' = (unsaid \/ (call[c].got = "unknown" /\ ~entry'.unknown))
        /\ UNCHANGED faults
     \/ Fault /\ Thrown(c) /\ UNCHANGED <<entry, unsaid>>
  /\ UNCHANGED <<terms, publisher, charges, shown, offer, queue, reserved>>

(* After a settlement that did not succeed the entry is read again.  Inside    *)
(* open, an unknown outcome keeps everything; a known one frees the task.      *)
SettleReadOpen(c) ==
  /\ At(c, "settleRead") /\ call[c].mode \in {"open", "skip"}
  /\ CASE entry.unknown -> Refuse(c)
       [] ~entry.unknown /\ call[c].mode = "skip" -> CancelAnd(c, TRUE)
       [] OTHER -> Goto(c, "cleanOffer")
  /\ Outside /\ Stores /\ UNCHANGED <<reserved, faults>>

(* Inside finishSettlement, a batch that published nothing is closed before    *)
(* its reservation is cancelled; an unknown outcome is never cancelled.        *)
Closable(e) ==
  /\ terms.scheme = "batch" /\ ~e.started
  /\ \/ Is(e, {"verified"}) /\ e.timing # "none"
     \/ Is(e, {"failed"}) /\ ~e.unknown

SettleReadFinish(c) ==
  /\ At(c, "settleRead") /\ call[c].mode \in {"settle", "abort"}
  /\ IF Closable(entry)
     THEN Become(c, [call[c] EXCEPT !.pc = "closeRead", !.mode = "settle",
                                    !.from = entry.status, !.free = ~entry.unknown])
     ELSE Answer(c, "failed")
  /\ Outside /\ Stores /\ UNCHANGED <<reserved, faults>>
-----------------------------------------------------------------------------
(* What the host does with an obligation.                                    *)

(* settle: a settled obligation only cleans up; a metered one without usage    *)
(* that can be priced fails before the facilitator is asked.                   *)
FinishWork(c) ==
  /\ At(c, "working")
  /\ \/ call[c].paid /\ Become(c, [call[c] EXCEPT !.pc = "cleanOffer", !.mode = "settle"])
     \/ ~call[c].paid /\ Become(c, [call[c] EXCEPT !.pc = "settle", !.mode = "settle"])
     \/ /\ terms.scheme \in {"upto", "batch"}
        /\ Become(c, [call[c] EXCEPT !.pc = "settleRead", !.mode = "settle"])
  /\ Outside /\ Stores /\ UNCHANGED <<reserved, faults>>

AbortWork(c) ==
  /\ At(c, "working")
  /\ Become(c, IF call[c].paid THEN [call[c] EXCEPT !.pc = "cleanOffer", !.mode = "settle"]
               ELSE [call[c] EXCEPT !.pc = "closeRead", !.mode = "abort", !.from = "verified"])
  /\ Outside /\ Stores /\ UNCHANGED <<reserved, faults>>

LapseWork(c) ==
  /\ At(c, "working") /\ ~call[c].paid /\ terms.scheme # "batch"
  /\ Become(c, [call[c] EXCEPT !.pc = "closeRead", !.mode = "lapse", !.from = "verified"])
  /\ Outside /\ Stores /\ UNCHANGED <<reserved, faults>>

(* What closeUnpublishedDelivery's answer leads to. *)
Published(c) ==
  LET f == call[c] IN
  CASE f.mode = "abort" -> Goto(c, "settle")
    [] f.mode = "settle" -> Answer(c, "failed")
    [] OTHER -> Answer(c, "published")

Unpublished(c) ==
  LET f == call[c] IN
  CASE f.mode = "settle" /\ ~f.free -> Answer(c, "failed")
    [] f.mode = "settle" /\ f.free -> Goto(c, "cancel")
    [] f.mode = "abort" /\ terms.scheme = "batch" -> CancelAnd(c, TRUE)
    [] OTHER -> Goto(c, "cleanOffer")

CloseRead(c) ==
  /\ At(c, "closeRead")
  /\ CASE Is(entry, {"absent"}) -> Unpublished(c)
       [] entry.started -> Published(c)
       [] ~Is(entry, {"absent"}) /\ ~entry.started /\ entry.closed -> Unpublished(c)
       [] OTHER -> IF entry.timing = "none" \/ ~Is(entry, {call[c].from})
                   THEN Thrown(c) ELSE Goto(c, "closeWrite")
  /\ Outside /\ Stores /\ UNCHANGED <<reserved, faults>>

(* Mutant: the closing marker is written over a publication. *)
CloseAnyway(c) ==
  /\ At(c, "closeWrite")
  /\ entry' = IF Is(entry, {call[c].from}) THEN WithClosed(entry) ELSE entry
  /\ Unpublished(c)
  /\ Outside /\ UNCHANGED <<offer, queue, reserved, faults>>

(* The write expects that nothing was published since the read; when it is     *)
(* refused, the entry is read again.                                           *)
CloseWrite(c) ==
  /\ At(c, "closeWrite")
  /\ IF Markable(entry, {call[c].from}, WithClosed(entry))
     THEN entry' = WithClosed(entry) /\ Unpublished(c)
     ELSE UNCHANGED entry /\ Goto(c, "closeRead")
  /\ Outside /\ UNCHANGED <<offer, queue, reserved, faults>>

(* cleanup: the offer is deleted, and the entry too unless it is evidence of   *)
(* a settlement.  A failure is reported, and fails an abort or a lapse.        *)
CleanOffer(c) ==
  LET f == call[c]
      evidence == f.mode = "settle" \/ f.got = "paid" \/ f.paid
  IN
  /\ At(c, "cleanOffer")
  /\ \/ offer' = "absent" /\ UNCHANGED faults
     \/ Fault /\ UNCHANGED offer
  /\ CASE ~evidence ->
            Become(c, [f EXCEPT !.pc = "cleanEntry", !.free = faults' = faults])
       [] f.mode = "open" /\ evidence ->
            Become(c, [f EXCEPT !.pc = "working", !.paid = TRUE, !.out = "proceed"])
       [] f.mode = "skip" -> Answer(c, "handled")
       [] OTHER -> Answer(c, "settled")
  /\ Outside /\ UNCHANGED <<entry, queue, reserved>>

CleanEntry(c) ==
  LET f == call[c]
      done == CASE f.mode = "open" -> "refused"
                [] f.mode = "lapse" -> "lapsed"
                [] OTHER -> "aborted"
  IN
  /\ At(c, "cleanEntry")
  /\ \/ /\ entry' = NoEntry /\ UNCHANGED faults
        /\ IF f.free THEN Answer(c, done) ELSE Thrown(c)
     \/ Fault /\ UNCHANGED entry /\ Thrown(c)
  /\ Outside /\ UNCHANGED <<offer, queue, reserved>>
-----------------------------------------------------------------------------
(* requestPayment.                                                          *)

(* The frozen offer, or the resolver's; either way the lock is asked for. *)
GetTerms(c) ==
  /\ At(c, "getTerms")
  /\ queue' = Append(queue, c)
  /\ Goto(c, "locked")
  /\ Outside /\ UNCHANGED <<entry, offer, reserved, faults>>

(* withTaskLock: the first in the queue publishes.  The terms of a live offer *)
(* are kept.                                                                  *)
Publish(c) ==
  /\ At(c, "locked") /\ Head(queue) = c
  /\ offer' = IF offer = "absent" THEN "available" ELSE offer
  /\ Become(c, [call[c] EXCEPT !.free = offer = "absent",
                               !.pc = IF call[c].msg = "ask" THEN "put" ELSE "revoke"])
  /\ Outside /\ UNCHANGED <<entry, queue, reserved, faults>>

(* X402Context.requestPayment stores the offering, whatever was stored.  If    *)
(* it throws, the offer this call created is withdrawn.                        *)
PutEntry(c) ==
  /\ At(c, "put")
  /\ \/ /\ entry' = OfferedEntry /\ Answer(c, "request-payment")
        /\ UNCHANGED <<offer, faults>>
     \/ /\ Fault /\ Refuse(c) /\ UNCHANGED entry
        /\ offer' = IF call[c].free THEN "absent" ELSE offer
  /\ queue' = Tail(queue)
  /\ Outside /\ UNCHANGED reserved

(* A client of another x402 version is refused; the task is cleaned up. *)
Revoke(c) ==
  /\ At(c, "revoke")
  /\ queue' = Tail(queue)
  /\ Become(c, [call[c] EXCEPT !.pc = "cleanOffer"])
  /\ Outside /\ UNCHANGED <<entry, offer, reserved, faults>>
-----------------------------------------------------------------------------
(* authorizeDelivery.                                                       *)

PublisherStep(d, f) == publisher' = [publisher EXCEPT ![d] = f]
Elsewhere == UNCHANGED <<terms, offer, queue, call, reserved, charges, unsaid, faults>>

(* Mutant: the delivery policy is not asked. *)
DeliverableOnceVerified(e) ==
  e.timing # "none" /\ ~e.closed /\ Is(e, {"verified", "completed"})

Deliverable(e) ==
  /\ e.timing # "none" /\ ~e.closed
  /\ Is(e, IF e.timing = "after-settlement" THEN {"completed"} ELSE {"verified", "completed"})

AskDelivery(d) ==
  /\ publisher[d].pc = "idle"
  /\ PublisherStep(d, [publisher[d] EXCEPT !.pc = "read"])
  /\ Elsewhere /\ UNCHANGED <<entry, shown>>

ReadDelivery(d) ==
  /\ publisher[d].pc = "read"
  /\ PublisherStep(d, IF Deliverable(entry) THEN [pc |-> "write", seen |-> entry.status]
                                            ELSE Resting)
  /\ Elsewhere /\ UNCHANGED <<entry, shown>>

(* The marker is written if the entry still has the status that was read and  *)
(* was not closed; only then may the host show content.                       *)
WriteDelivery(d) ==
  LET f == publisher[d]
      ok == Markable(entry, {f.seen}, WithStarted(entry)) /\ ~entry.closed
  IN
  /\ f.pc = "write"
  /\ entry' = IF ok THEN WithStarted(entry) ELSE entry
  /\ shown' = (shown \/ ok)
  /\ PublisherStep(d, IF ok THEN Resting ELSE [Resting EXCEPT !.pc = "read"])
  /\ Elsewhere
-----------------------------------------------------------------------------
(* The rest of the world.                                                   *)

(* The offer expires, and the entry with it; what was charged and shown under *)
(* an offering that is gone is no longer this offering's.                      *)
Expire ==
  /\ MayExpire /\ (offer # "absent" \/ ~Is(entry, {"absent"}))
  /\ \A c \in Calls : At(c, "idle")
  /\ \A d \in Publishers : publisher[d] = Resting
  /\ offer' = "absent" /\ entry' = NoEntry
  /\ charges' = [p \in Payments |-> 0] /\ shown' = FALSE /\ unsaid' = FALSE
  /\ UNCHANGED <<terms, queue, call, publisher, reserved, faults>>

(* Both stores are durable; reservations last until the resource server's     *)
(* own timeout.                                                               *)
Crash ==
  /\ MayCrash
  /\ call' = [c \in Calls |-> Idle] /\ queue' = <<>>
  /\ publisher' = [d \in Publishers |-> Resting]
  /\ reserved' = {}
  /\ UNCHANGED <<terms, entry, offer, charges, shown, unsaid, faults>>

OpenStep(c) ==
  \/ \E m \in Messages : Submits(c, m)
  \/ ReadReplay(c) \/ ReadClaimStatus(c) \/ Classify(c) \/ RecordClassify(c)
  \/ SelectTerms(c) \/ Verify(c) \/ RecordVerify(c) \/ Claim(c) \/ Cancel(c) \/ Release(c)
  \/ Audit(c) \/ AuditRead(c) \/ GetTerms(c) \/ Publish(c) \/ PutEntry(c) \/ Revoke(c)
SettleStep(c) ==
  \/ Settle(c) \/ RecordSettle(c) \/ SettleReadOpen(c) \/ SettleReadFinish(c)
  \/ FinishWork(c) \/ AbortWork(c) \/ LapseWork(c) \/ CloseRead(c) \/ CloseWrite(c)
  \/ CleanOffer(c) \/ CleanEntry(c)
DeliveryStep(d) == AskDelivery(d) \/ ReadDelivery(d) \/ WriteDelivery(d)

Next ==
  \/ \E c \in Calls : OpenStep(c) \/ SettleStep(c)
  \/ \E d \in Publishers : DeliveryStep(d)
  \/ Expire \/ Crash

Spec == Init /\ [][Next]_vars
-----------------------------------------------------------------------------
TypeOK ==
  /\ terms \in Terms /\ entry \in Entry /\ ~(entry.started /\ entry.closed)
  /\ offer \in {"absent", "available", "claimed"}
  /\ queue \in Seq(Calls) /\ call \in [Calls -> Call]
  /\ publisher \in [Publishers -> Publisher]
  /\ reserved \subseteq Calls /\ charges \in [Payments -> 0..2]
  /\ {shown, unsaid} \subseteq BOOLEAN /\ faults \in 0..MaxFaults

Moved(p) == charges[p] > 0
Granted(c) == call[c].pc \in {"audit", "auditRead", "settle", "recordSettle", "settleRead",
                             "working", "closeRead", "closeWrite"}

(* However submissions, verifications and restarts interleave, money moves at *)
(* most once for the task's offering: a claim is freed only when nothing       *)
(* moved.  The exception is a record of an unknown settlement that another      *)
(* submission's failure replaces (`unsaid`): context.ts:623 and :1001 write it   *)
(* over the marker that gate.ts:285 and :520 read.                              *)
PaidOnce == ~unsaid => \A p, q \in Payments : Moved(p) /\ Moved(q) => p = q /\ charges[p] = 1

(* One submission at a time acts on a task's offer: no release, clean-up or    *)
(* retry frees a claim that another call works under.                           *)
OneWorker == \A c, d \in Calls : Granted(c) /\ Granted(d) => c = d

(* A submission that is refused, because it lost the claim or its audit failed, *)
(* leaves no reservation of the payer's channel behind, unless a store or the    *)
(* cancellation itself fails or its settlement is unknown.                       *)
RefusedHoldsNothing ==
  faults = 0 =>
    \A c \in reserved : Live(c) \/ call[c].out # "refused" \/ call[c].got = "unknown"

(* Under after-settlement delivery, content is shown only once money moved. *)
SettledBeforeShown ==
  shown /\ terms.delivery = "after-settlement" => \E p \in Payments : Moved(p)

(* Once content is shown, no attempt is let go without asking for its money:   *)
(* abort and lapse race authorizeDelivery, and one of them loses.               *)
ShownIsNotVoid ==
  [][\A c \in Calls : Live(c) /\ call'[c].pc = "idle" /\ call'[c].out \in {"aborted", "lapsed"}
       => ~shown]_vars

(* A completed entry is kept: no late submission, verification or offering     *)
(* takes the task back (x402-merchant-gate.test.ts:969 and :1229).              *)
CompletedKept ==
  [][Is(entry, {"completed"}) => Is(entry', {"completed", "absent"})]_vars
=============================================================================
