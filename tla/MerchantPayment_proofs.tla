------------------------ MODULE MerchantPayment_proofs ------------------------
(* Theorems about MerchantPayment, for every value of its constants. *)
EXTENDS MerchantPayment, SequenceTheorems, TLAPS

USE PaymentAssumption DEF PaymentAssumption
-----------------------------------------------------------------------------
(* What may be known of a call at each of its steps, of the entry, and of a     *)
(* publisher, whatever the other calls do.                                     *)

BeforeWork(t) == t.scheme = "exact" /\ t.exact = "before-work"
AnyMoved(m) == \E p \in Payments : m[p] > 0

Asking == {"getTerms", "locked", "put", "revoke"}
First == {"replay", "replayClaim", "classify", "recordClassify"}
Checked == {"selectTerms", "verify", "recordVerify", "claim"}
Cleaning == {"cleanOffer", "cleanEntry"}

(* What a call carries: asks are never granted, only payments are verified.     *)
Carries(f) ==
  /\ f.pc = "idle" => f.msg = "none"
  /\ f.pc # "idle" => f.msg \in Messages
  /\ f.pc \in Asking => f.msg \in Asks
  /\ f.pc = "classify" => f.msg \in Payments \cup {"mismatch"}
  /\ f.pc \in Cleaning => f.msg \in Payments \cup Asks
  /\ f.pc \notin First \cup Asking \cup Cleaning \cup {"idle"} => f.msg \in Payments
  /\ f.msg \in Asks => f.mode = "open" /\ f.got = "none" /\ ~f.paid

(* Which way of ending the obligation leads to which step. *)
Ends(f, t) ==
  /\ f.pc \in First \cup Asking \cup Checked \cup {"audit", "auditRead", "working"} =>
       f.mode = "open"
  /\ f.pc \in {"closeRead", "closeWrite"} => f.mode \in {"settle", "abort", "lapse"}
  /\ f.pc \in {"settle", "recordSettle", "settleRead", "cancel", "release"} => f.mode # "lapse"
  /\ f.pc = "cleanEntry" => f.mode \in {"open", "abort", "lapse"}
  /\ f.pc = "cancel" /\ f.mode = "abort" => f.free
  /\ f.mode = "open" /\ f.pc \in {"settle", "recordSettle", "settleRead"} => BeforeWork(t)
  /\ f.mode = "open" /\ f.pc \in Cleaning /\ f.msg \notin Asks => BeforeWork(t)
  /\ f.mode \in {"abort", "lapse"} => ~BeforeWork(t)

(* What its verification or settlement got. *)
Gets(f, t, m) ==
  /\ f.pc = "recordVerify" => f.got \in {"valid", "skip", "invalid"}
  /\ f.pc = "recordSettle" => f.got \in {"paid", "declined", "unknown"}
  /\ f.pc = "settleRead" /\ f.mode \in {"open", "skip"} => f.got \in {"declined", "unknown"}
  /\ f.got = "paid" /\ f.pc # "idle" =>
       f.pc \in {"recordSettle", "cleanOffer", "working"} /\ AnyMoved(m)
  /\ f.got = "paid" /\ f.pc = "working" => f.paid
  /\ f.paid => f.got = "paid" /\ f.pc \in {"working", "cleanOffer"} /\ BeforeWork(t)
  /\ f.pc = "working" => f.got \in {"none", "paid"}
  /\ f.pc = "working" /\ ~f.paid => ~BeforeWork(t)
  /\ f.pc = "cleanOffer" /\ f.mode \in {"settle", "skip"} => f.got = "paid"

Fits(f, t, m) == Carries(f) /\ Ends(f, t) /\ Gets(f, t, m)
CallFits(c) == Fits(call[c], terms, charges)

EntryFits(e, t, m) ==
  /\ e \in Entry /\ ~(e.started /\ e.closed)
  /\ e.timing \in {"none", t.delivery}
  /\ e.started \/ e.closed => e.timing # "none"
  /\ e.status = "absent" => e = NoEntry
  /\ e.unknown => e.status \in {"failed", "verified", "completed"}
  /\ e.status = "completed" => AnyMoved(m)

(* A call that holds the publishing lock is the first in its queue. *)
QueueFits(c) ==
  /\ call[c].pc \in {"locked", "put", "revoke"} => \E i \in 1..Len(queue) : queue[i] = c
  /\ call[c].pc \in {"put", "revoke"} => Head(queue) = c

(* Under after-settlement delivery, a publisher writes for completed entries.  *)
DeliveryFits ==
  \A d \in Publishers :
    publisher[d].pc = "write" /\ terms.delivery = "after-settlement" =>
      publisher[d].seen = "completed"

TermsFit == terms.scheme = "exact" \/ terms.exact = "after-work"

Local ==
  /\ TypeOK /\ TermsFit
  /\ \A c \in Calls : CallFits(c) /\ QueueFits(c)
  /\ EntryFits(entry, terms, charges)
  /\ DeliveryFits /\ SettledBeforeShown
-----------------------------------------------------------------------------
(* The updates of the store keep what is known of an entry. *)

LEMMA UpdateFits == ASSUME NEW t \in Terms, NEW m, NEW e, EntryFits(e, t, m),
                           NEW unknown \in BOOLEAN
                    PROVE  /\ EntryFits(Verified(e), t, m)
                           /\ AnyMoved(m) => EntryFits(Completed(e), t, m)
                           /\ EntryFits(Failed(e, unknown), t, m)
                           /\ \A s \in {"failed", "rejected"} : EntryFits(ClassifiedAs(e, s), t, m)
BY DEF EntryFits, Verified, Completed, Failed, ClassifiedAs, UpdateIfStatus, Is, Open, Unverified,
       Entry, Statuses, NoEntry

LEMMA MarkFits == ASSUME NEW t \in Terms, NEW m, NEW e, EntryFits(e, t, m),
                         e.status # "absent"
                  PROVE  /\ EntryFits(WithTiming(e, t.delivery), t, m)
                         /\ e.timing # "none" /\ ~e.closed => EntryFits(WithStarted(e), t, m)
                         /\ e.timing # "none" /\ ~e.started => EntryFits(WithClosed(e), t, m)
BY DEF EntryFits, WithTiming, WithStarted, WithClosed, Entry, Statuses, NoEntry, Terms

LEMMA NewFits == ASSUME NEW t, NEW m
                 PROVE  EntryFits(NoEntry, t, m) /\ EntryFits(OfferedEntry, t, m)
BY DEF EntryFits, NoEntry, OfferedEntry, Entry, Statuses

LEMMA NewEntry == NoEntry \in Entry /\ ~(NoEntry.started /\ NoEntry.closed)
BY DEF NoEntry, Entry, Statuses
-----------------------------------------------------------------------------
(* What one call becomes. *)

LEMMA NoPaymentAsks == \A p \in Payments : p \notin Asks
BY DEF Asks

LEMMA IdleType == /\ Idle \in Call
                  /\ Idle = [pc |-> "idle", mode |-> "open", msg |-> "none", got |-> "none",
                             paid |-> FALSE, free |-> FALSE, from |-> "verified", out |-> "none"]
BY DEF Idle, Call, PCs, Modes, Outcomes

LEMMA Becomes == ASSUME TypeOK, NEW c \in Calls, NEW f \in Call, Become(c, f)
                 PROVE  /\ call' \in [Calls -> Call] /\ call'[c] = f
                        /\ \A d \in Calls \ {c} : call'[d] = call[d]
BY DEF TypeOK, Become

LEMMA Answers == ASSUME TypeOK, NEW c \in Calls, NEW out \in Outcomes, Answer(c, out)
                 PROVE  \E f \in Call : /\ Become(c, f)
                                        /\ \A t, m : Fits(f, t, m)
                                        /\ f.pc = "idle" /\ f.msg = "none" /\ f.out = out
                                        /\ f.got = "unknown" <=> call[c].got = "unknown"
                                        /\ ~f.paid /\ f.mode = "open" /\ f.got # "paid"
<1> DEFINE f == [Idle EXCEPT !.out = out,
                             !.got = IF call[c].got = "unknown" THEN "unknown" ELSE "none"]
<1>1. f \in Call
  BY IdleType DEF Call
<1>2. /\ f.pc = "idle" /\ f.msg = "none" /\ f.out = out /\ ~f.paid /\ f.mode = "open"
      /\ f.got = IF call[c].got = "unknown" THEN "unknown" ELSE "none"
  BY IdleType
<1>3. Become(c, f)
  BY DEF Answer
<1> HIDE DEF f
<1>4. f.msg \notin Asks
  BY <1>2 DEF Asks
<1>5. \A t, m : Fits(f, t, m)
  BY <1>2, <1>4 DEF Fits, Carries, Ends, Gets, First, Asking, Checked, Cleaning
<1>6. QED BY <1>1, <1>2, <1>3, <1>5

(* A call that keeps what it carries and where it heads keeps fitting.  *)
LEMMA StillFits == ASSUME NEW t, NEW m, NEW n, NEW f, Fits(f, t, m), AnyMoved(m) => AnyMoved(n)
                   PROVE  Fits(f, t, n)
BY DEF Fits, Gets

(* A step of one call: the other calls, and the queue, stay as they were.      *)
LEMMA CallMoves == ASSUME Local, NEW c \in Calls, NEW f \in Call, Become(c, f),
                          UNCHANGED <<terms, queue>>, Fits(f, terms, charges'),
                          AnyMoved(charges) => AnyMoved(charges'),
                          f.pc \notin {"locked", "put", "revoke"}
                   PROVE  /\ call' \in [Calls -> Call] /\ TermsFit'
                          /\ \A d \in Calls : CallFits(d)' /\ QueueFits(d)'
<1>1. call' \in [Calls -> Call] /\ call'[c] = f /\ \A d \in Calls \ {c} : call'[d] = call[d]
  BY Becomes DEF Local
<1>2. CallFits(c)' /\ QueueFits(c)'
  BY <1>1 DEF CallFits, QueueFits
<1>3. \A d \in Calls \ {c} : CallFits(d)'
  BY <1>1, StillFits DEF CallFits, Local
<1>4. \A d \in Calls \ {c} : QueueFits(d)'
  BY <1>1 DEF QueueFits, Local
<1>5. TermsFit'
  BY DEF TermsFit, Local
<1>6. QED BY <1>1, <1>2, <1>3, <1>4, <1>5

(* ... that publishes nothing, whatever it does to the entry and the offer.    *)
LEMMA CallKeeps == ASSUME Local, NEW c \in Calls, NEW f \in Call, Become(c, f),
                          UNCHANGED <<terms, queue, publisher, shown>>, Fits(f, terms, charges'),
                          f.pc \notin {"locked", "put", "revoke"},
                          EntryFits(entry', terms, charges'),
                          AnyMoved(charges) => AnyMoved(charges'),
                          charges' \in [Payments -> 0..2], reserved' \subseteq Calls,
                          offer' \in {"absent", "available", "claimed"},
                          unsaid' \in BOOLEAN, faults' \in 0..MaxFaults
                   PROVE  Local'
<1>1. /\ call' \in [Calls -> Call] /\ TermsFit'
      /\ \A d \in Calls : CallFits(d)' /\ QueueFits(d)'
  BY CallMoves
<1>2. TypeOK'
  BY <1>1 DEF Local, TypeOK, EntryFits
<1>3. DeliveryFits'
  BY DEF Local, DeliveryFits
<1>4. SettledBeforeShown'
  BY DEF Local, SettledBeforeShown, Moved, AnyMoved
<1>5. QED BY <1>1, <1>2, <1>3, <1>4 DEF Local

(* ... that leaves the stores alone. *)
LEMMA CallSteps == ASSUME Local, NEW c \in Calls, NEW f \in Call, Become(c, f),
                          Fits(f, terms, charges), f.pc \notin {"locked", "put", "revoke"},
                          Outside, Stores, reserved' \subseteq reserved \cup {c},
                          UNCHANGED faults \/ Fault
                   PROVE  Local'
<1>1. charges' = charges /\ faults' \in 0..MaxFaults
  BY DEF Outside, Fault, Local, TypeOK
<1>2. Fits(f, terms, charges') /\ EntryFits(entry', terms, charges')
  BY <1>1 DEF Local, Stores
<1>3. QED BY <1>1, <1>2, CallKeeps DEF Local, TypeOK, Outside, Stores

LEMMA AnswerSteps == ASSUME Local, NEW c \in Calls, NEW out \in Outcomes, Answer(c, out),
                            Outside, Stores, reserved' \subseteq reserved \cup {c},
                            UNCHANGED faults \/ Fault
                     PROVE  Local'
<1>1. PICK f \in Call : /\ Become(c, f) /\ f.pc = "idle"
                        /\ \A t, m : Fits(f, t, m)
  BY Answers DEF Local
<1>2. QED BY <1>1, CallSteps

LEMMA GotoType == ASSUME Local, NEW c \in Calls, NEW pc \in PCs
                  PROVE  [call[c] EXCEPT !.pc = pc] \in Call
BY DEF Local, TypeOK, Call

LEMMA GotoSteps == ASSUME Local, NEW c \in Calls, NEW pc \in PCs \ {"locked", "put", "revoke"},
                          Goto(c, pc), Fits([call[c] EXCEPT !.pc = pc], terms, charges),
                          Outside, Stores, reserved' \subseteq reserved \cup {c},
                          UNCHANGED faults \/ Fault
                   PROVE  Local'
<1> DEFINE f == [call[c] EXCEPT !.pc = pc]
<1>1. f \in Call /\ Become(c, f) /\ f.pc = pc
  BY GotoType DEF Goto, Local, TypeOK, Call
<1>2. QED BY <1>1, CallSteps
-----------------------------------------------------------------------------
(* The steps of open. *)

LEMMA SubmitsLocal == ASSUME Local, NEW c \in Calls, NEW m \in Messages, Submits(c, m)
                      PROVE  Local'
<1> DEFINE f == [Idle EXCEPT !.pc = "replay", !.msg = m]
<1>1. f \in Call /\ f.pc = "replay" /\ f.mode = "open" /\ f.msg = m /\ f.got = "none" /\ ~f.paid
  BY IdleType DEF Call, PCs
<1>2. Become(c, f) /\ Outside /\ Stores /\ UNCHANGED faults /\ reserved' \subseteq reserved \cup {c}
  BY DEF Submits
<1> HIDE DEF f
<1>3. Fits(f, terms, charges)
  BY <1>1 DEF Fits, Carries, Ends, Gets, First, Asking, Checked, Cleaning
<1>4. QED BY <1>1, <1>2, <1>3, CallSteps

LEMMA ReadReplayLocal == ASSUME Local, NEW c \in Calls, ReadReplay(c) PROVE Local'
<1>1. CASE Refuse(c)
  BY <1>1, AnswerSteps DEF ReadReplay, Refuse, Outcomes
<1>2. CASE Goto(c, "replayClaim")
  <2>1. Fits([call[c] EXCEPT !.pc = "replayClaim"], terms, charges)
    BY DEF Local, CallFits, TypeOK, Call, Fits, Carries, Ends, Gets, First, Asking, Checked,
           Cleaning, ReadReplay, At
  <2>2. QED BY <1>2, <2>1, GotoSteps DEF ReadReplay, PCs
<1>3. QED BY <1>1, <1>2 DEF ReadReplay

LEMMA ReadClaimStatusLocal == ASSUME Local, NEW c \in Calls, ReadClaimStatus(c) PROVE Local'
<1>1. CASE Refuse(c)
  BY <1>1, AnswerSteps DEF ReadClaimStatus, Refuse, Outcomes
<1>2. CASE ~Refuse(c)
  <2> DEFINE pc == CASE call[c].msg \in Asks -> "getTerms"
                     [] call[c].msg \in {"decline", "malformed"} -> "recordClassify"
                     [] OTHER -> "classify"
  <2>1. Goto(c, pc)
    BY <1>2 DEF ReadClaimStatus
  <2>2. /\ pc \in {"getTerms", "recordClassify", "classify"}
        /\ pc = "getTerms" => call[c].msg \in Asks
        /\ call[c].msg \in Asks \cup {"decline", "malformed"} => pc # "classify"
    BY DEF Asks
  <2> HIDE DEF pc
  <2>3. Fits([call[c] EXCEPT !.pc = pc], terms, charges)
    BY <2>2 DEF Local, CallFits, TypeOK, Call, Fits, Carries, Ends, Gets, First, Asking, Checked,
           Cleaning, ReadClaimStatus, At, Messages
  <2>4. QED BY <2>1, <2>2, <2>3, GotoSteps DEF ReadClaimStatus, PCs
<1>3. QED BY <1>1, <1>2

LEMMA ClassifyLocal == ASSUME Local, NEW c \in Calls, Classify(c) PROVE Local'
<1>1. CASE Refuse(c)
  BY <1>1, AnswerSteps DEF Classify, Refuse, Outcomes
<1>2. ASSUME NEW pc \in {"recordClassify", "selectTerms"}, Goto(c, pc),
             pc = "selectTerms" => call[c].msg # "mismatch"
      PROVE  Local'
  <2>1. Fits([call[c] EXCEPT !.pc = pc], terms, charges)
    BY <1>2 DEF Local, CallFits, TypeOK, Call, Fits, Carries, Ends, Gets, First, Asking, Checked,
           Cleaning, Classify, At
  <2>2. QED BY <1>2, <2>1, GotoSteps DEF Classify, PCs
<1>3. QED BY <1>1, <1>2 DEF Classify

(* A call that records something and is refused, or goes on. *)
LEMMA OverwriteLocal == ASSUME Local, NEW c \in Calls, NEW f \in Call, Become(c, f),
                               Fits(f, terms, charges), f.pc \notin {"locked", "put", "revoke"},
                               NEW e, EntryFits(e, terms, charges), Overwrite(e)
                        PROVE  Local'
<1>1. UNCHANGED <<terms, publisher, charges, shown, offer, queue, reserved, faults>> /\ entry' = e
  BY DEF Overwrite
<1>2. unsaid' \in BOOLEAN
  BY DEF Overwrite
<1>3. QED BY <1>1, <1>2, CallKeeps DEF Local, TypeOK

LEMMA RecordClassifyLocal == ASSUME Local, NEW c \in Calls, RecordClassify(c) PROVE Local'
<1> DEFINE e == ClassifiedAs(entry, IF call[c].msg = "decline" THEN "rejected" ELSE "failed")
<1>1. EntryFits(e, terms, charges)
  BY UpdateFits DEF Local, TypeOK
<1>2. PICK f \in Call : Become(c, f) /\ f.pc = "idle" /\ \A t, m : Fits(f, t, m)
  BY Answers DEF Local, RecordClassify, Refuse, Outcomes
<1>3. QED BY <1>1, <1>2, OverwriteLocal DEF RecordClassify

LEMMA SelectTermsLocal == ASSUME Local, NEW c \in Calls, SelectTerms(c) PROVE Local'
<1>1. CASE Refuse(c)
  BY <1>1, AnswerSteps DEF SelectTerms, Refuse, Outcomes
<1>2. CASE Goto(c, "verify")
  <2>1. Fits([call[c] EXCEPT !.pc = "verify"], terms, charges)
    BY DEF Local, CallFits, TypeOK, Call, Fits, Carries, Ends, Gets, First, Asking, Checked,
           Cleaning, SelectTerms, At
  <2>2. QED BY <1>2, <2>1, GotoSteps DEF SelectTerms, PCs
<1>3. QED BY <1>1, <1>2 DEF SelectTerms

LEMMA VerifyLocal == ASSUME Local, NEW c \in Calls, Verify(c) PROVE Local'
<1>1. PICK got \in {"valid", "skip", "invalid"} :
        Become(c, [call[c] EXCEPT !.pc = "recordVerify", !.got = got])
  BY DEF Verify
<1> DEFINE f == [call[c] EXCEPT !.pc = "recordVerify", !.got = got]
<1>0. call[c] \in Call /\ call[c].pc = "verify" /\ Fits(call[c], terms, charges)
  BY DEF Local, TypeOK, CallFits, Verify, At
<1>2. /\ f \in Call /\ f.pc = "recordVerify" /\ f.got = got /\ f.mode = call[c].mode
      /\ f.msg = call[c].msg /\ f.paid = call[c].paid
  BY <1>0 DEF Call, PCs
<1> HIDE DEF f
<1>3. Fits(f, terms, charges)
  BY <1>0, <1>2, NoPaymentAsks DEF Fits, Carries, Ends, Gets, First, Asking, Checked, Cleaning
<1>4. reserved' \subseteq reserved \cup {c}
  BY DEF Verify
<1>5. Become(c, f)
  BY <1>1 DEF f
<1>6. QED BY <1>2, <1>3, <1>4, <1>5, CallSteps DEF Verify

LEMMA RecordVerifyLocal == ASSUME Local, NEW c \in Calls, RecordVerify(c) PROVE Local'
<1>1. CASE call[c].got = "invalid"
  <2>1. EntryFits(Failed(entry, FALSE), terms, charges)
    BY UpdateFits DEF Local, TypeOK
  <2>2. PICK f \in Call : Become(c, f) /\ f.pc = "idle" /\ \A t, m : Fits(f, t, m)
    BY <1>1, Answers DEF Local, RecordVerify, Refuse, Outcomes
  <2>3. QED BY <1>1, <2>1, <2>2, OverwriteLocal DEF RecordVerify
<1>2. CASE call[c].got # "invalid"
  <2>1. EntryFits(Verified(entry), terms, charges)
    BY UpdateFits DEF Local, TypeOK
  <2>0. call[c] \in Call /\ call[c].pc = "recordVerify" /\ Fits(call[c], terms, charges)
    BY DEF Local, TypeOK, CallFits, RecordVerify, At
  <2>2. Fits([call[c] EXCEPT !.pc = "claim"], terms, charges)
    BY <2>0 DEF Call, Fits, Carries, Ends, Gets, First, Asking, Checked, Cleaning
  <2>3. Become(c, [call[c] EXCEPT !.pc = "claim"]) /\ [call[c] EXCEPT !.pc = "claim"].pc = "claim"
    BY <1>2 DEF RecordVerify, Goto, Local, TypeOK, Call
  <2>4. [call[c] EXCEPT !.pc = "claim"] \in Call
    BY GotoType DEF PCs
  <2>5. QED BY <1>2, <2>1, <2>2, <2>3, <2>4, OverwriteLocal DEF RecordVerify
<1>3. QED BY <1>1, <1>2

(* A call as an action finds it. *)
LEMMA CallNow == ASSUME Local, NEW c \in Calls
                 PROVE  call[c] \in Call /\ Fits(call[c], terms, charges)
BY DEF Local, TypeOK, CallFits

LEMMA FaultType == ASSUME Local, UNCHANGED faults \/ Fault PROVE faults' \in 0..MaxFaults
BY DEF Local, TypeOK, Fault

LEMMA CancelAndType == ASSUME Local, NEW c \in Calls, NEW free \in BOOLEAN, CancelAnd(c, free),
                              call[c].pc \in {"claim", "audit", "auditRead", "settleRead",
                                              "closeRead", "closeWrite"},
                              call[c].mode # "lapse", call[c].got # "paid", ~call[c].paid,
                              call[c].mode = "abort" => free
                       PROVE  \E f \in Call : /\ Become(c, f) /\ f.pc = "cancel"
                                              /\ Fits(f, terms, charges)
<1> DEFINE f == [call[c] EXCEPT !.pc = "cancel", !.free = free]
<1>0. call[c] \in Call /\ Fits(call[c], terms, charges)
  BY CallNow
<1>1. Become(c, f) /\ f \in Call /\ f.pc = "cancel"
  BY <1>0 DEF CancelAnd, Call, PCs
<1>2. Fits(f, terms, charges)
  BY <1>0 DEF Call, Fits, Carries, Ends, Gets, First, Asking, Checked, Cleaning
<1>3. QED BY <1>1, <1>2

LEMMA ClaimLocal == ASSUME Local, NEW c \in Calls, Claim(c) PROVE Local'
<1> USE DEF Claim
<1>1. EntryFits(entry', terms, charges') /\ charges' = charges
  BY DEF Outside, Local
<1>2. ASSUME CancelAnd(c, FALSE) PROVE Local'
  <2>1. PICK f \in Call : Become(c, f) /\ f.pc = "cancel" /\ Fits(f, terms, charges)
    BY <1>2, CancelAndType, CallNow DEF At, Fits, Carries, Ends, Gets, First, Asking, Checked, Cleaning
  <2>2. faults' \in 0..MaxFaults
    BY FaultType
  <2>3. offer' \in {"absent", "available", "claimed"}
    BY DEF Local, TypeOK
  <2>4. QED BY <1>1, <2>1, <2>2, <2>3, CallKeeps DEF Outside, Local, TypeOK
<1>3. ASSUME offer' = "claimed", UNCHANGED faults,
             NEW f \in Call, Become(c, f), Fits(f, terms, charges), f.pc \in {"settle", "audit"}
      PROVE  Local'
  BY <1>1, <1>3, CallKeeps DEF Outside, Local, TypeOK
<1>4. CASE offer' = "claimed" /\ call[c].got = "skip" /\ UNCHANGED faults
           /\ Become(c, [call[c] EXCEPT !.pc = "settle", !.mode = "skip"])
  <2> DEFINE f == [call[c] EXCEPT !.pc = "settle", !.mode = "skip"]
  <2>0. call[c] \in Call /\ Fits(call[c], terms, charges)
    BY CallNow
  <2>1. f \in Call /\ f.pc = "settle"
    BY <2>0 DEF Call, PCs, Modes
  <2>2. Fits(f, terms, charges)
    BY <2>0, NoPaymentAsks DEF Call, At, Fits, Carries, Ends, Gets, First, Asking, Checked, Cleaning
  <2>3. QED BY <1>3, <1>4, <2>1, <2>2
<1>5. CASE offer' = "claimed" /\ Goto(c, "audit") /\ UNCHANGED faults
  <2> DEFINE f == [call[c] EXCEPT !.pc = "audit"]
  <2>1. f \in Call /\ f.pc = "audit" /\ Become(c, f)
    BY <1>5, CallNow DEF Call, PCs, Goto
  <2>2. Fits(f, terms, charges)
    BY CallNow DEF Call, At, Fits, Carries, Ends, Gets, First, Asking, Checked, Cleaning
  <2>3. QED BY <1>3, <1>5, <2>1, <2>2
<1>6. QED BY <1>2, <1>4, <1>5

LEMMA CancelLocal == ASSUME Local, NEW c \in Calls, Cancel(c) PROVE Local'
<1> DEFINE after == CASE call[c].mode \in {"open", "skip"} -> "refused"
                      [] call[c].mode = "abort" -> "aborted"
                      [] OTHER -> "failed"
<1>1. reserved' \subseteq reserved \cup {c} /\ (UNCHANGED faults \/ Fault)
  BY DEF Cancel
<1>2. CASE Goto(c, "release")
  <2>1. Fits([call[c] EXCEPT !.pc = "release"], terms, charges)
    BY CallNow DEF Cancel, At, Call, Fits, Carries, Ends, Gets, First, Asking, Checked, Cleaning
  <2>2. QED BY <1>1, <1>2, <2>1, GotoSteps DEF Cancel, PCs
<1>3. CASE \E out \in Outcomes : Answer(c, out)
  BY <1>1, <1>3, AnswerSteps DEF Cancel
<1>4. after \in Outcomes
  BY DEF Outcomes
<1>5. CASE Answer(c, after)
  BY <1>3, <1>4, <1>5
<1>6. CASE Thrown(c)
  BY <1>3, <1>6 DEF Thrown, Outcomes
<1> HIDE DEF after
<1>7. QED BY <1>2, <1>5, <1>6 DEF Cancel, after

LEMMA ReleaseLocal == ASSUME Local, NEW c \in Calls, Release(c) PROVE Local'
<1> DEFINE after == CASE call[c].mode \in {"open", "skip"} -> "refused"
                      [] call[c].mode = "abort" -> "aborted"
                      [] OTHER -> "failed"
<1>1. after \in Outcomes
  BY DEF Outcomes
<1>2. \E out \in Outcomes : Answer(c, out)
  <2>1. CASE Answer(c, after)
    BY <1>1, <2>1
  <2>2. CASE Thrown(c)
    BY <2>2 DEF Thrown, Outcomes
  <2> HIDE DEF after
  <2>3. QED BY <2>1, <2>2 DEF Release, after
<1>3. PICK f \in Call : Become(c, f) /\ f.pc = "idle" /\ \A t, m : Fits(f, t, m)
  BY <1>2, Answers DEF Local
<1>4. offer' \in {"absent", "available", "claimed"} /\ faults' \in 0..MaxFaults
  BY DEF Release, Fault, Local, TypeOK
<1>5. QED BY <1>3, <1>4, CallKeeps DEF Release, Outside, Local, TypeOK

LEMMA AuditLocal == ASSUME Local, NEW c \in Calls, Audit(c) PROVE Local'
<1>1. faults' \in 0..MaxFaults /\ charges' = charges
  BY FaultType DEF Audit, Outside
<1>2. ASSUME CancelAnd(c, TRUE), UNCHANGED entry PROVE Local'
  <2>1. PICK f \in Call : Become(c, f) /\ f.pc = "cancel" /\ Fits(f, terms, charges)
    BY <1>2, CancelAndType, CallNow DEF Audit, At, Fits, Carries, Ends, Gets, First, Asking, Checked, Cleaning
  <2>2. QED BY <1>1, <1>2, <2>1, CallKeeps DEF Audit, Outside, Local, TypeOK
<1>3. ASSUME Goto(c, "auditRead"), entry' = WithTiming(entry, terms.delivery),
             Is(entry, {"verified"})
      PROVE  Local'
  <2> DEFINE f == [call[c] EXCEPT !.pc = "auditRead"]
  <2>1. f \in Call /\ f.pc = "auditRead" /\ Become(c, f)
    BY <1>3, CallNow DEF Call, PCs, Goto
  <2>2. Fits(f, terms, charges)
    BY CallNow DEF Call, Audit, At, Fits, Carries, Ends, Gets, First, Asking, Checked, Cleaning
  <2>3. EntryFits(entry', terms, charges)
    BY <1>3, MarkFits DEF Is, Local, TypeOK
  <2>4. QED BY <1>1, <2>1, <2>2, <2>3, CallKeeps DEF Audit, Outside, Local, TypeOK
<1>4. QED BY <1>2, <1>3 DEF Audit, Markable

LEMMA AuditReadLocal == ASSUME Local, NEW c \in Calls, AuditRead(c) PROVE Local'
<1>0. call[c] \in Call /\ call[c].pc = "auditRead" /\ Fits(call[c], terms, charges)
  BY CallNow DEF AuditRead, At
<1>1. CASE Goto(c, "settle") /\ BeforeWork(terms)
  <2>1. Fits([call[c] EXCEPT !.pc = "settle"], terms, charges)
    BY <1>0, <1>1 DEF Call, Fits, Carries, Ends, Gets, First, Asking, Checked, Cleaning
  <2>2. QED BY <1>1, <2>1, GotoSteps DEF AuditRead, PCs
<1>2. CASE /\ Become(c, [call[c] EXCEPT !.pc = "working", !.got = "none", !.out = "proceed"])
           /\ ~BeforeWork(terms)
  <2> DEFINE f == [call[c] EXCEPT !.pc = "working", !.got = "none", !.out = "proceed"]
  <2>1. "working" \in PCs /\ "proceed" \in Outcomes
    BY DEF PCs, Outcomes
  <2>2. /\ f \in Call /\ f.pc = "working" /\ f.got = "none" /\ f.mode = call[c].mode
        /\ f.msg = call[c].msg /\ f.paid = call[c].paid /\ Become(c, f)
    BY <1>0, <1>2, <2>1 DEF Call
  <2> HIDE DEF f
  <2>3. Fits(f, terms, charges)
    BY <1>0, <1>2, <2>2, NoPaymentAsks DEF Fits, Carries, Ends, Gets, First, Asking, Checked, Cleaning
  <2>4. QED BY <2>2, <2>3, CallSteps DEF AuditRead
<1>3. CASE CancelAnd(c, TRUE)
  <2>1. PICK f \in Call : Become(c, f) /\ f.pc = "cancel" /\ Fits(f, terms, charges)
    BY <1>0, <1>3, CancelAndType DEF Fits, Carries, Ends, Gets, First, Asking, Checked, Cleaning
  <2>2. QED BY <2>1, CallSteps DEF AuditRead
<1>4. QED BY <1>1, <1>2, <1>3 DEF AuditRead, BeforeWork
-----------------------------------------------------------------------------
(* The settlement, and what the host does with an obligation. *)

LEMMA CallBecomes == ASSUME Local, NEW c \in Calls, NEW f \in Call, Become(c, f),
                            Fits(f, terms, charges), f.pc \notin {"locked", "put", "revoke"},
                            Outside, UNCHANGED <<queue, offer>>, reserved' \subseteq reserved \cup {c},
                            EntryFits(entry', terms, charges), UNCHANGED faults \/ Fault
                     PROVE  Local'
<1>1. charges' = charges /\ faults' \in 0..MaxFaults
  BY FaultType DEF Outside
<1>2. QED BY <1>1, CallKeeps DEF Local, TypeOK, Outside

LEMMA AnswerBecomes == ASSUME Local, NEW c \in Calls, NEW out \in Outcomes, Answer(c, out),
                              Outside, UNCHANGED <<queue, offer>>,
                              reserved' \subseteq reserved \cup {c},
                              EntryFits(entry', terms, charges), UNCHANGED faults \/ Fault
                       PROVE  Local'
<1>1. PICK f \in Call : Become(c, f) /\ f.pc = "idle" /\ \A t, m : Fits(f, t, m)
  BY Answers DEF Local
<1>2. QED BY <1>1, CallBecomes

LEMMA SettleLocal == ASSUME Local, NEW c \in Calls, Settle(c) PROVE Local'
<1>0. call[c] \in Call /\ call[c].pc = "settle" /\ Fits(call[c], terms, charges)
  BY CallNow DEF Settle, At
<1>1. PICK got \in {"paid", "declined", "unknown"}, moved \in BOOLEAN :
        /\ got = "paid" => moved
        /\ moved => Chargeable(call[c].msg) /\ charges[call[c].msg] < 2
        /\ charges' = IF moved THEN [charges EXCEPT ![call[c].msg] = @ + 1] ELSE charges
        /\ reserved' = IF moved THEN reserved \ {c} ELSE reserved
        /\ Become(c, [call[c] EXCEPT !.pc = "recordSettle", !.got = got])
  BY DEF Settle
<1>2. call[c].msg \in Payments
  BY <1>0 DEF Fits, Carries, First, Asking, Cleaning
<1>3. /\ charges' \in [Payments -> 0..2]
      /\ moved => charges'[call[c].msg] > 0
      /\ AnyMoved(charges) => AnyMoved(charges')
  <2>1. charges \in [Payments -> 0..2]
    BY DEF Local, TypeOK
  <2>2. CASE ~moved
    BY <1>1, <2>1, <2>2 DEF AnyMoved
  <2>3. CASE moved
    <3>1. charges' = [charges EXCEPT ![call[c].msg] = charges[call[c].msg] + 1]
      BY <1>1, <2>3
    <3>2. charges[call[c].msg] \in 0..1
      BY <1>1, <1>2, <2>1, <2>3
    <3>3. charges'[call[c].msg] = charges[call[c].msg] + 1
      BY <1>2, <2>1, <3>1
    <3>4. charges' \in [Payments -> 0..2] /\ charges'[call[c].msg] > 0
      BY <1>2, <2>1, <3>1, <3>2, <3>3
    <3>5. QED BY <1>2, <2>3, <3>4 DEF AnyMoved
  <2>4. QED BY <2>2, <2>3
<1> DEFINE f == [call[c] EXCEPT !.pc = "recordSettle", !.got = got]
<1>4. /\ f \in Call /\ f.pc = "recordSettle" /\ f.got = got /\ f.mode = call[c].mode
      /\ f.msg = call[c].msg /\ f.paid = call[c].paid
  BY <1>0 DEF Call, PCs
<1>5. Become(c, f)
  BY <1>1
<1> HIDE DEF f
<1>6. got = "paid" => AnyMoved(charges')
  BY <1>1, <1>2, <1>3 DEF AnyMoved
<1>7. Fits(f, terms, charges')
  BY <1>0, <1>2, <1>4, <1>6, NoPaymentAsks DEF Fits, Carries, Ends, Gets, First, Asking, Checked, Cleaning
<1>8. EntryFits(entry', terms, charges')
  BY <1>3 DEF Settle, Stores, Local, EntryFits
<1>9. UNCHANGED <<terms, queue, publisher, shown, offer, unsaid, faults>>
  BY DEF Settle, Stores
<1>10. reserved' \subseteq Calls
  BY <1>1 DEF Local, TypeOK
<1>11. QED
  BY <1>3, <1>4, <1>5, <1>7, <1>8, <1>9, <1>10, CallKeeps DEF Local, TypeOK

LEMMA RecordSettleLocal == ASSUME Local, NEW c \in Calls, RecordSettle(c) PROVE Local'
<1>0. call[c] \in Call /\ call[c].pc = "recordSettle" /\ Fits(call[c], terms, charges)
  BY CallNow DEF RecordSettle, At
<1>1. /\ UNCHANGED <<terms, publisher, charges, shown, offer, queue, reserved>>
      /\ faults' \in 0..MaxFaults /\ unsaid' \in BOOLEAN
  BY FaultType DEF RecordSettle, Local, TypeOK
<1>2. ASSUME NEW f \in Call, Become(c, f), Fits(f, terms, charges),
             f.pc \in {"idle", "cleanOffer", "settleRead"}, EntryFits(entry', terms, charges)
      PROVE  Local'
  BY <1>1, <1>2, CallKeeps DEF Local, TypeOK
<1>3. CASE Thrown(c) /\ UNCHANGED entry
  <2>1. PICK f \in Call : Become(c, f) /\ f.pc = "idle" /\ \A t, m : Fits(f, t, m)
    BY <1>3, Answers DEF Local, Thrown, Outcomes
  <2>2. QED BY <1>2, <1>3, <2>1 DEF Local
<1>4. ASSUME NEW pc \in {"cleanOffer", "settleRead"}, Goto(c, pc),
             pc = "cleanOffer" <=> call[c].got = "paid", EntryFits(entry', terms, charges)
      PROVE  Local'
  <2> DEFINE f == [call[c] EXCEPT !.pc = pc]
  <2>1. f \in Call /\ f.pc = pc /\ Become(c, f)
    BY <1>0, <1>4 DEF Call, PCs, Goto
  <2>2. Fits(f, terms, charges)
    BY <1>0, <1>4 DEF Call, Fits, Carries, Ends, Gets, First, Asking, Checked, Cleaning
  <2>3. QED BY <1>2, <1>4, <2>1, <2>2
<1>5. CASE call[c].got = "paid" /\ entry' = Completed(entry) /\ Goto(c, "cleanOffer")
  <2>1. AnyMoved(charges)
    BY <1>0, <1>5 DEF Fits, Gets
  <2>2. EntryFits(Completed(entry), terms, charges)
    BY <2>1, UpdateFits DEF Local, TypeOK
  <2>3. QED BY <1>4, <1>5, <2>2
<1>6. CASE /\ call[c].got # "paid" /\ entry' = Failed(entry, call[c].got = "unknown")
           /\ Goto(c, "settleRead")
  <2>1. \A unknown \in BOOLEAN : EntryFits(Failed(entry, unknown), terms, charges)
    BY UpdateFits DEF Local, TypeOK
  <2>2. (call[c].got = "unknown") \in BOOLEAN
    OBVIOUS
  <2>3. EntryFits(Failed(entry, call[c].got = "unknown"), terms, charges)
    BY <2>1, <2>2, Zenon
  <2>4. QED BY <1>4, <1>6, <2>3
<1>7. QED BY <1>3, <1>5, <1>6 DEF RecordSettle

LEMMA SettleReadOpenLocal == ASSUME Local, NEW c \in Calls, SettleReadOpen(c) PROVE Local'
<1>0. call[c] \in Call /\ call[c].pc = "settleRead" /\ Fits(call[c], terms, charges)
      /\ call[c].mode \in {"open", "skip"}
  BY CallNow DEF SettleReadOpen, At
<1>1. CASE Refuse(c)
  BY <1>1, AnswerSteps DEF SettleReadOpen, Refuse, Outcomes
<1>2. CASE CancelAnd(c, TRUE)
  <2>1. call[c].got # "paid" /\ ~call[c].paid
    BY <1>0 DEF Fits, Gets
  <2>2. PICK f \in Call : Become(c, f) /\ f.pc = "cancel" /\ Fits(f, terms, charges)
    BY <1>0, <1>2, <2>1, CancelAndType
  <2>3. QED BY <2>2, CallSteps DEF SettleReadOpen
<1>3. CASE Goto(c, "cleanOffer") /\ call[c].mode # "skip"
  <2>1. Fits([call[c] EXCEPT !.pc = "cleanOffer"], terms, charges)
    BY <1>0, <1>3 DEF Call, Fits, Carries, Ends, Gets, First, Asking, Checked, Cleaning
  <2>2. QED BY <1>3, <2>1, GotoSteps DEF SettleReadOpen, PCs
<1>4. QED BY <1>1, <1>2, <1>3 DEF SettleReadOpen

LEMMA SettleReadFinishLocal == ASSUME Local, NEW c \in Calls, SettleReadFinish(c) PROVE Local'
<1>0. call[c] \in Call /\ call[c].pc = "settleRead" /\ Fits(call[c], terms, charges)
      /\ call[c].mode \in {"settle", "abort"}
  BY CallNow DEF SettleReadFinish, At
<1>1. CASE Closable(entry)
  <2> DEFINE f == [call[c] EXCEPT !.pc = "closeRead", !.mode = "settle",
                                  !.from = entry.status, !.free = ~entry.unknown]
  <2>1. entry.status \in {"verified", "failed"} /\ (~entry.unknown) \in BOOLEAN
    BY <1>1 DEF Closable, Is, Local, TypeOK, Entry
  <2>2. f \in Call /\ f.pc = "closeRead"
    BY <1>0, <2>1 DEF Call, PCs, Modes
  <2>3. Become(c, f)
    BY <1>1 DEF SettleReadFinish
  <2>4. Fits(f, terms, charges)
    BY <1>0 DEF Call, Fits, Carries, Ends, Gets, First, Asking, Checked, Cleaning
  <2>5. QED BY <2>2, <2>3, <2>4, CallSteps DEF SettleReadFinish
<1>2. CASE ~Closable(entry)
  BY <1>2, AnswerSteps DEF SettleReadFinish, Outcomes
<1>3. QED BY <1>1, <1>2

(* The host ends an obligation: it settles, cleans up, or closes the delivery.  *)
LEMMA WorkEnds == ASSUME Local, NEW c \in Calls, At(c, "working"), Outside, Stores,
                         UNCHANGED <<reserved, faults>>, NEW f \in Call, Become(c, f),
                         f.msg = call[c].msg, f.got = call[c].got, f.paid = call[c].paid,
                         \/ f.mode = "settle" /\ f.pc = "cleanOffer" /\ f.paid
                         \/ f.mode = "settle" /\ f.pc \in {"settle", "settleRead"} /\ ~f.paid
                         \/ f.mode \in {"abort", "lapse"} /\ f.pc = "closeRead"
                            /\ ~f.paid /\ ~BeforeWork(terms)
                  PROVE  Local'
<1>0. call[c] \in Call /\ call[c].pc = "working" /\ Fits(call[c], terms, charges)
  BY CallNow DEF At
<1>1. Fits(f, terms, charges) /\ f.pc \notin {"locked", "put", "revoke"}
  BY <1>0, NoPaymentAsks DEF Fits, Carries, Ends, Gets, First, Asking, Checked, Cleaning
<1>2. QED BY <1>1, CallSteps

LEMMA FinishWorkLocal == ASSUME Local, NEW c \in Calls, FinishWork(c) PROVE Local'
<1>0. call[c] \in Call /\ call[c].pc = "working" /\ Fits(call[c], terms, charges)
  BY CallNow DEF FinishWork, At
<1>1. ASSUME NEW pc \in {"cleanOffer", "settle", "settleRead"},
             Become(c, [call[c] EXCEPT !.pc = pc, !.mode = "settle"]),
             pc = "cleanOffer" <=> call[c].paid
      PROVE  Local'
  <2> DEFINE f == [call[c] EXCEPT !.pc = pc, !.mode = "settle"]
  <2>1. /\ f \in Call /\ f.msg = call[c].msg /\ f.got = call[c].got /\ f.paid = call[c].paid
        /\ f.pc = pc /\ f.mode = "settle"
    BY <1>0 DEF Call, PCs, Modes
  <2> HIDE DEF f
  <2>2. Become(c, f)
    BY <1>1 DEF f
  <2>3. QED BY <1>1, <2>1, <2>2, WorkEnds DEF FinishWork
<1>2. terms.scheme \in {"upto", "batch"} => ~call[c].paid
  BY <1>0 DEF Fits, Gets, BeforeWork
<1>3. QED BY <1>1, <1>2 DEF FinishWork

LEMMA AbortWorkLocal == ASSUME Local, NEW c \in Calls, AbortWork(c) PROVE Local'
<1>0. call[c] \in Call /\ call[c].pc = "working" /\ Fits(call[c], terms, charges)
  BY CallNow DEF AbortWork, At
<1>1. CASE call[c].paid
  <2> DEFINE f == [call[c] EXCEPT !.pc = "cleanOffer", !.mode = "settle"]
  <2>1. /\ f \in Call /\ f.msg = call[c].msg /\ f.got = call[c].got /\ f.paid = call[c].paid
        /\ f.pc = "cleanOffer" /\ f.mode = "settle" /\ Become(c, f)
    BY <1>0, <1>1 DEF Call, PCs, Modes, AbortWork
  <2>2. QED BY <1>1, <2>1, WorkEnds DEF AbortWork
<1>2. CASE ~call[c].paid
  <2> DEFINE f == [call[c] EXCEPT !.pc = "closeRead", !.mode = "abort", !.from = "verified"]
  <2>1. /\ f \in Call /\ f.msg = call[c].msg /\ f.got = call[c].got /\ f.paid = call[c].paid
        /\ f.pc = "closeRead" /\ f.mode = "abort" /\ Become(c, f)
    BY <1>0, <1>2 DEF Call, PCs, Modes, AbortWork
  <2>2. ~BeforeWork(terms)
    BY <1>0, <1>2 DEF Fits, Gets
  <2>3. QED BY <1>2, <2>1, <2>2, WorkEnds DEF AbortWork
<1>3. QED BY <1>1, <1>2

LEMMA LapseWorkLocal == ASSUME Local, NEW c \in Calls, LapseWork(c) PROVE Local'
<1>0. call[c] \in Call /\ call[c].pc = "working" /\ Fits(call[c], terms, charges)
  BY CallNow DEF LapseWork, At
<1> DEFINE f == [call[c] EXCEPT !.pc = "closeRead", !.mode = "lapse", !.from = "verified"]
<1>1. /\ f \in Call /\ f.msg = call[c].msg /\ f.got = call[c].got /\ f.paid = call[c].paid
      /\ f.pc = "closeRead" /\ f.mode = "lapse" /\ Become(c, f)
  BY <1>0 DEF Call, PCs, Modes, LapseWork
<1>2. ~BeforeWork(terms) /\ ~f.paid
  BY <1>0, <1>1 DEF Fits, Gets, LapseWork
<1>3. QED BY <1>1, <1>2, WorkEnds DEF LapseWork

(* Both answers of closeUnpublishedDelivery lead to one of these. *)
LEMMA ClosedBy == ASSUME Local, NEW c \in Calls, call[c].pc \in {"closeRead", "closeWrite"},
                         \/ Published(c) \/ Unpublished(c) \/ Thrown(c)
                         \/ \E pc \in {"closeRead", "closeWrite"} : Goto(c, pc)
                  PROVE  \E f \in Call : /\ Become(c, f) /\ Fits(f, terms, charges)
                                         /\ f.pc \notin {"locked", "put", "revoke"}
<1>0. /\ call[c] \in Call /\ Fits(call[c], terms, charges) /\ call[c].got # "paid" /\ ~call[c].paid
      /\ call[c].mode \in {"settle", "abort", "lapse"}
  BY CallNow DEF Fits, Gets, Ends
<1>1. ASSUME NEW out \in Outcomes, Answer(c, out)
      PROVE  \E f \in Call : Become(c, f) /\ Fits(f, terms, charges) /\ f.pc = "idle"
  BY <1>1, Answers DEF Local
<1>2. ASSUME NEW pc \in {"settle", "cancel", "cleanOffer", "closeRead", "closeWrite"}, Goto(c, pc),
             pc = "settle" => call[c].mode = "abort",
             pc = "cancel" => call[c].mode # "lapse",
             pc = "cleanOffer" => call[c].mode # "settle",
             pc = "cancel" => call[c].mode # "abort"
      PROVE  \E f \in Call : Become(c, f) /\ Fits(f, terms, charges) /\ f.pc = pc
  <2> DEFINE f == [call[c] EXCEPT !.pc = pc]
  <2>1. f \in Call /\ f.pc = pc /\ Become(c, f)
    BY <1>0, <1>2 DEF Call, PCs, Goto
  <2>2. Fits(f, terms, charges)
    BY <1>0, <1>2, NoPaymentAsks DEF Call, Fits, Carries, Ends, Gets, First, Asking, Checked, Cleaning
  <2>3. QED BY <2>1, <2>2
<1>3. CASE Published(c)
  BY <1>0, <1>1, <1>2, <1>3 DEF Published, Outcomes
<1>4. CASE Unpublished(c)
  <2>1. CASE call[c].mode = "abort" /\ terms.scheme = "batch"
    BY <1>0, <1>4, <2>1, CancelAndType DEF Unpublished
  <2>2. CASE ~(call[c].mode = "abort" /\ terms.scheme = "batch")
    BY <1>0, <1>1, <1>2, <1>4, <2>2 DEF Unpublished, Outcomes
  <2>3. QED BY <2>1, <2>2
<1>5. CASE Thrown(c)
  BY <1>1, <1>5 DEF Thrown, Outcomes
<1>6. ASSUME NEW pc \in {"closeRead", "closeWrite"}, Goto(c, pc)
      PROVE  \E f \in Call : Become(c, f) /\ Fits(f, terms, charges) /\ f.pc = pc
  BY <1>2, <1>6
<1>7. QED BY <1>3, <1>4, <1>5, <1>6

LEMMA CloseReadLocal == ASSUME Local, NEW c \in Calls, CloseRead(c) PROVE Local'
<1>1. PICK f \in Call : /\ Become(c, f) /\ Fits(f, terms, charges)
                        /\ f.pc \notin {"locked", "put", "revoke"}
  BY ClosedBy DEF CloseRead, At
<1>2. QED BY <1>1, CallSteps DEF CloseRead

LEMMA CloseWriteLocal == ASSUME Local, NEW c \in Calls, CloseWrite(c) PROVE Local'
<1>1. PICK f \in Call : /\ Become(c, f) /\ Fits(f, terms, charges)
                        /\ f.pc \notin {"locked", "put", "revoke"}
  BY ClosedBy DEF CloseWrite, At
<1>2. EntryFits(entry', terms, charges)
  <2>1. CASE UNCHANGED entry
    BY <2>1 DEF Local
  <2>2. CASE Markable(entry, {call[c].from}, WithClosed(entry)) /\ entry' = WithClosed(entry)
    <3>1. entry.status # "absent" /\ entry.timing # "none" /\ ~entry.started
      BY <2>2, CallNow DEF Markable, Is, WithClosed, Local, TypeOK, Entry, Call
    <3>2. QED BY <2>2, <3>1, MarkFits DEF Local, TypeOK
  <2>3. QED BY <2>1, <2>2 DEF CloseWrite
<1>3. QED BY <1>1, <1>2, CallBecomes DEF CloseWrite
(* The publishing of an offer holds the task's lock; cleaning up frees the task. *)

LEMMA CleanOfferLocal == ASSUME Local, NEW c \in Calls, CleanOffer(c) PROVE Local'
<1>0. call[c] \in Call /\ call[c].pc = "cleanOffer" /\ Fits(call[c], terms, charges)
  BY CallNow DEF CleanOffer, At
<1>1. /\ charges' = charges /\ EntryFits(entry', terms, charges)
      /\ offer' \in {"absent", "available", "claimed"} /\ faults' \in 0..MaxFaults
  BY FaultType DEF CleanOffer, Outside, Local, TypeOK
<1>2. ASSUME NEW f \in Call, Become(c, f), Fits(f, terms, charges),
             f.pc \notin {"locked", "put", "revoke"}
      PROVE  Local'
  BY <1>1, <1>2, CallKeeps DEF CleanOffer, Outside, Local, TypeOK
<1>3. CASE \E free \in BOOLEAN :
             /\ Become(c, [call[c] EXCEPT !.pc = "cleanEntry", !.free = free])
             /\ call[c].mode # "settle" /\ call[c].got # "paid" /\ ~call[c].paid
  <2>1. PICK free \in BOOLEAN : /\ Become(c, [call[c] EXCEPT !.pc = "cleanEntry", !.free = free])
                                /\ call[c].mode # "settle" /\ call[c].got # "paid"
                                /\ ~call[c].paid
    BY <1>3
  <2> DEFINE f == [call[c] EXCEPT !.pc = "cleanEntry", !.free = free]
  <2>2. /\ f \in Call /\ f.pc = "cleanEntry" /\ f.got = call[c].got /\ f.mode = call[c].mode
        /\ f.msg = call[c].msg /\ f.paid = call[c].paid /\ Become(c, f)
    BY <1>0, <2>1 DEF Call, PCs
  <2> HIDE DEF f
  <2>3. Fits(f, terms, charges)
    BY <1>0, <2>1, <2>2 DEF Call, Modes, Fits, Carries, Ends, Gets, First, Asking, Checked, Cleaning
  <2>4. QED BY <1>2, <2>2, <2>3
<1>4. CASE /\ Become(c, [call[c] EXCEPT !.pc = "working", !.paid = TRUE, !.out = "proceed"])
           /\ call[c].mode = "open" /\ (call[c].got = "paid" \/ call[c].paid)
  <2> DEFINE f == [call[c] EXCEPT !.pc = "working", !.paid = TRUE, !.out = "proceed"]
  <2>1. "working" \in PCs /\ "proceed" \in Outcomes
    BY DEF PCs, Outcomes
  <2>2. /\ f \in Call /\ f.pc = "working" /\ f.got = call[c].got /\ f.mode = call[c].mode
        /\ f.msg = call[c].msg /\ f.paid /\ Become(c, f)
    BY <1>0, <1>4, <2>1 DEF Call
  <2> HIDE DEF f
  <2>3. Fits(f, terms, charges)
    BY <1>0, <1>4, <2>2, NoPaymentAsks DEF Fits, Carries, Ends, Gets, First, Asking, Checked, Cleaning
  <2>4. QED BY <1>2, <2>2, <2>3
<1>5. ASSUME NEW out \in {"handled", "settled"}, Answer(c, out) PROVE Local'
  <2>1. PICK f \in Call : Become(c, f) /\ f.pc = "idle" /\ \A t, m : Fits(f, t, m)
    BY <1>5, Answers DEF Local, Outcomes
  <2>2. QED BY <1>2, <2>1
<1>6. (faults' = faults) \in BOOLEAN
  OBVIOUS
<1>7. QED BY <1>3, <1>4, <1>5, <1>6 DEF CleanOffer

LEMMA CleanEntryLocal == ASSUME Local, NEW c \in Calls, CleanEntry(c) PROVE Local'
<1>1. \E out \in Outcomes : Answer(c, out)
  BY DEF CleanEntry, Thrown, Outcomes
<1>2. EntryFits(entry', terms, charges)
  BY NewFits DEF CleanEntry, Local
<1>3. QED BY <1>1, <1>2, AnswerBecomes DEF CleanEntry

(* The queue of the publishing lock. *)
LEMMA QueueSteps == ASSUME Local, NEW c \in Calls, NEW f \in Call, Become(c, f),
                           Fits(f, terms, charges), Outside, UNCHANGED reserved,
                           queue' \in Seq(Calls), \A d \in Calls : QueueFits(d)',
                           offer' \in {"absent", "available", "claimed"},
                           EntryFits(entry', terms, charges), UNCHANGED faults \/ Fault
                    PROVE  Local'
<1>1. call' \in [Calls -> Call] /\ call'[c] = f /\ \A d \in Calls \ {c} : call'[d] = call[d]
  BY Becomes DEF Local
<1>2. \A d \in Calls : CallFits(d)'
  BY <1>1 DEF CallFits, Local, Outside
<1>3. TypeOK'
  BY <1>1, FaultType DEF Local, TypeOK, Outside, EntryFits
<1>4. TermsFit' /\ DeliveryFits' /\ SettledBeforeShown' /\ EntryFits(entry', terms', charges')
  BY DEF Local, Outside, TermsFit, DeliveryFits, SettledBeforeShown, Moved
<1>5. QED BY <1>2, <1>3, <1>4 DEF Local

LEMMA GetTermsLocal == ASSUME Local, NEW c \in Calls, GetTerms(c) PROVE Local'
<1>0. call[c] \in Call /\ call[c].pc = "getTerms" /\ Fits(call[c], terms, charges)
  BY CallNow DEF GetTerms, At
<1> DEFINE f == [call[c] EXCEPT !.pc = "locked"]
<1>1. /\ f \in Call /\ f.pc = "locked" /\ f.got = call[c].got /\ f.mode = call[c].mode
      /\ f.msg = call[c].msg /\ f.paid = call[c].paid /\ Become(c, f)
  BY <1>0 DEF Call, PCs, GetTerms, Goto
<1> HIDE DEF f
<1>2. Fits(f, terms, charges)
  BY <1>0, <1>1 DEF Fits, Carries, Ends, Gets, First, Asking, Checked, Cleaning
<1>3. queue \in Seq(Calls) /\ queue' = Append(queue, c)
  BY DEF GetTerms, Local, TypeOK
<1>4. /\ queue' \in Seq(Calls) /\ Len(queue') = Len(queue) + 1 /\ queue'[Len(queue) + 1] = c
      /\ \A i \in 1..Len(queue) : queue'[i] = queue[i]
      /\ Len(queue) \in Nat
  BY <1>3, AppendProperties
<1>5. call'[c] = f /\ \A d \in Calls \ {c} : call'[d] = call[d]
  BY <1>1, Becomes DEF Local
<1>6. ASSUME NEW d \in Calls PROVE QueueFits(d)'
  <2>1. CASE d = c
    BY <1>1, <1>4, <1>5, <2>1 DEF QueueFits
  <2>2. CASE d # c
    <3>1. QueueFits(d) /\ call'[d] = call[d]
      BY <1>5, <2>2 DEF Local
    <3>2. Len(queue) > 0 => Head(queue') = Head(queue)
      BY <1>3, <1>4
    <3>3. QED BY <1>4, <3>1, <3>2 DEF QueueFits
  <2>3. QED BY <2>1, <2>2
<1>7. QED BY <1>1, <1>2, <1>4, <1>6, QueueSteps DEF GetTerms, Local, TypeOK

LEMMA PublishLocal == ASSUME Local, NEW c \in Calls, Publish(c) PROVE Local'
<1>0. call[c] \in Call /\ call[c].pc = "locked" /\ Fits(call[c], terms, charges)
  BY CallNow DEF Publish, At
<1> DEFINE f == [call[c] EXCEPT !.free = offer = "absent",
                                !.pc = IF call[c].msg = "ask" THEN "put" ELSE "revoke"]
<1>1. (offer = "absent") \in BOOLEAN
  OBVIOUS
<1>2. /\ f \in Call /\ f.pc \in {"put", "revoke"} /\ f.got = call[c].got
      /\ f.mode = call[c].mode /\ f.msg = call[c].msg /\ f.paid = call[c].paid /\ Become(c, f)
  BY <1>0, <1>1 DEF Call, PCs, Publish
<1> HIDE DEF f
<1>3. Fits(f, terms, charges)
  BY <1>0, <1>2 DEF Fits, Carries, Ends, Gets, First, Asking, Checked, Cleaning
<1>4. call'[c] = f /\ \A d \in Calls \ {c} : call'[d] = call[d]
  BY <1>2, Becomes DEF Local
<1>5. \A d \in Calls : QueueFits(d)'
  BY <1>0, <1>2, <1>4 DEF QueueFits, Local, Publish
<1>6. QED BY <1>2, <1>3, <1>5, QueueSteps DEF Publish, Local, TypeOK

(* The first in the queue leaves it; nobody else held the lock. *)
LEMMA Leaves == ASSUME Local, NEW c \in Calls, call[c].pc \in {"put", "revoke"},
                       NEW f \in Call, Become(c, f), queue' = Tail(queue),
                       f.pc \notin {"locked", "put", "revoke"}
                PROVE  queue' \in Seq(Calls) /\ \A d \in Calls : QueueFits(d)'
<1>1. queue \in Seq(Calls) /\ queue # <<>> /\ Head(queue) = c
  BY DEF Local, TypeOK, QueueFits
<1>2. /\ queue' \in Seq(Calls) /\ Len(queue') = Len(queue) - 1
      /\ \A i \in 1..Len(queue') : queue'[i] = queue[i + 1]
      /\ queue[1] = c /\ Len(queue) \in Nat
  BY <1>1, HeadTailProperties
<1>3. call'[c] = f /\ \A d \in Calls \ {c} : call'[d] = call[d]
  BY Becomes DEF Local
<1>4. ASSUME NEW d \in Calls \ {c} PROVE QueueFits(d)'
  <2>1. call'[d] = call[d] /\ call[d].pc \notin {"put", "revoke"}
    BY <1>1, <1>3 DEF Local, QueueFits
  <2>2. ASSUME call[d].pc = "locked" PROVE \E i \in 1..Len(queue') : queue'[i] = d
    <3>1. PICK i \in 1..Len(queue) : queue[i] = d
      BY <2>2 DEF Local, QueueFits
    <3>2. i # 1 /\ i - 1 \in 1..Len(queue')
      BY <1>2, <3>1
    <3>3. queue'[i - 1] = d
      BY <1>2, <3>1, <3>2
    <3>4. QED BY <3>2, <3>3
  <2>3. QED BY <2>1, <2>2 DEF QueueFits
<1>5. QueueFits(c)'
  BY <1>3 DEF QueueFits
<1>6. QED BY <1>2, <1>4, <1>5

LEMMA PutEntryLocal == ASSUME Local, NEW c \in Calls, PutEntry(c) PROVE Local'
<1>1. PICK f \in Call : Become(c, f) /\ f.pc = "idle" /\ \A t, m : Fits(f, t, m)
  BY Answers DEF Local, PutEntry, Refuse, Outcomes
<1>2. queue' \in Seq(Calls) /\ \A d \in Calls : QueueFits(d)'
  BY <1>1, Leaves DEF PutEntry, At
<1>3. EntryFits(entry', terms, charges) /\ offer' \in {"absent", "available", "claimed"}
  BY NewFits DEF PutEntry, Local, TypeOK
<1>4. QED BY <1>1, <1>2, <1>3, QueueSteps DEF PutEntry

LEMMA RevokeLocal == ASSUME Local, NEW c \in Calls, Revoke(c) PROVE Local'
<1>0. call[c] \in Call /\ call[c].pc = "revoke" /\ Fits(call[c], terms, charges)
  BY CallNow DEF Revoke, At
<1> DEFINE f == [call[c] EXCEPT !.pc = "cleanOffer"]
<1>1. /\ f \in Call /\ f.pc = "cleanOffer" /\ f.got = call[c].got /\ f.mode = call[c].mode
      /\ f.msg = call[c].msg /\ f.paid = call[c].paid /\ Become(c, f)
  BY <1>0 DEF Call, PCs, Revoke
<1> HIDE DEF f
<1>2. Fits(f, terms, charges)
  BY <1>0, <1>1 DEF Fits, Carries, Ends, Gets, First, Asking, Checked, Cleaning
<1>3. queue' \in Seq(Calls) /\ \A d \in Calls : QueueFits(d)'
  BY <1>0, <1>1, Leaves DEF Revoke
<1>4. QED BY <1>1, <1>2, <1>3, QueueSteps DEF Revoke, Local, TypeOK
-----------------------------------------------------------------------------
(* The publishers, and the rest of the world. *)

LEMMA PublisherLocal == ASSUME Local, NEW d \in Publishers, NEW f \in Publisher,
                               PublisherStep(d, f), Elsewhere,
                               f.pc = "write" /\ terms.delivery = "after-settlement" =>
                                 f.seen = "completed",
                               EntryFits(entry', terms, charges), shown' \in BOOLEAN,
                               SettledBeforeShown'
                        PROVE  Local'
<1>1. publisher' \in [Publishers -> Publisher] /\ publisher'[d] = f
      /\ \A e \in Publishers \ {d} : publisher'[e] = publisher[e]
  BY DEF Local, TypeOK, PublisherStep
<1>2. DeliveryFits'
  BY <1>1 DEF Local, DeliveryFits, Elsewhere
<1>3. TypeOK'
  BY <1>1 DEF Local, TypeOK, Elsewhere, EntryFits
<1>4. TermsFit' /\ (\A c \in Calls : CallFits(c)' /\ QueueFits(c)')
  BY DEF Local, TermsFit, CallFits, QueueFits, Elsewhere
<1>5. EntryFits(entry', terms', charges')
  BY DEF Elsewhere
<1>6. QED BY <1>2, <1>3, <1>4, <1>5 DEF Local

LEMMA AskDeliveryLocal == ASSUME Local, NEW d \in Publishers, AskDelivery(d) PROVE Local'
<1> DEFINE f == [publisher[d] EXCEPT !.pc = "read"]
<1>1. f \in Publisher /\ f.pc = "read" /\ PublisherStep(d, f)
  BY DEF Local, TypeOK, Publisher, AskDelivery
<1>2. EntryFits(entry', terms, charges) /\ shown' \in BOOLEAN /\ SettledBeforeShown'
  BY DEF AskDelivery, Elsewhere, Local, TypeOK, SettledBeforeShown, Moved
<1>3. QED BY <1>1, <1>2, PublisherLocal DEF AskDelivery

LEMMA ReadDeliveryLocal == ASSUME Local, NEW d \in Publishers, ReadDelivery(d) PROVE Local'
<1> DEFINE f == IF Deliverable(entry) THEN [pc |-> "write", seen |-> entry.status] ELSE Resting
<1>1. /\ f \in Publisher /\ PublisherStep(d, f)
      /\ f.pc = "write" /\ terms.delivery = "after-settlement" => f.seen = "completed"
  BY DEF Publisher, ReadDelivery, Deliverable, Is, Resting, Local, EntryFits
<1>2. EntryFits(entry', terms, charges) /\ shown' \in BOOLEAN /\ SettledBeforeShown'
  BY DEF ReadDelivery, Elsewhere, Local, TypeOK, SettledBeforeShown, Moved
<1>3. QED BY <1>1, <1>2, PublisherLocal DEF ReadDelivery

LEMMA WriteDeliveryLocal == ASSUME Local, NEW d \in Publishers, WriteDelivery(d) PROVE Local'
<1> DEFINE ok == Markable(entry, {publisher[d].seen}, WithStarted(entry)) /\ ~entry.closed
           f == IF ok THEN Resting ELSE [Resting EXCEPT !.pc = "read"]
<1>1. f \in Publisher /\ f.pc # "write" /\ PublisherStep(d, f)
  BY DEF Publisher, WriteDelivery, Resting
<1>2. ok => entry.status = publisher[d].seen /\ entry.status # "absent" /\ entry.timing # "none"
  BY DEF Markable, Is, WithStarted, Local, TypeOK, Entry, Publisher
<1>3. EntryFits(entry', terms, charges)
  <2>1. ok => EntryFits(WithStarted(entry), terms, charges)
    BY <1>2, MarkFits DEF Local, TypeOK
  <2>2. QED BY <2>1 DEF WriteDelivery, Local
<1>4. ok /\ terms.delivery = "after-settlement" => \E p \in Payments : Moved(p)
  BY <1>2 DEF WriteDelivery, Local, DeliveryFits, EntryFits, AnyMoved, Moved
<1>5. SettledBeforeShown' /\ shown' \in BOOLEAN
  BY <1>4 DEF WriteDelivery, Elsewhere, Local, TypeOK, SettledBeforeShown, Moved
<1>6. QED BY <1>1, <1>3, <1>5, PublisherLocal DEF WriteDelivery

LEMMA ExpireLocal == ASSUME Local, Expire PROVE Local'
<1>0. charges' \in [Payments -> 0..2]
  <2>1. charges' = [p \in Payments |-> 0] /\ 0 \in 0..2
    BY DEF Expire
  <2>2. QED BY <2>1
<1>1. TypeOK'
  BY <1>0, NewEntry DEF Expire, Local, TypeOK
<1>2. \A c \in Calls : CallFits(c)'
  BY DEF Expire, At, Local, CallFits, Fits, Carries, Ends, Gets
<1>3. TermsFit' /\ DeliveryFits' /\ SettledBeforeShown' /\ (\A c \in Calls : QueueFits(c)')
  BY DEF Expire, Local, TermsFit, DeliveryFits, SettledBeforeShown, QueueFits
<1>4. EntryFits(entry', terms', charges')
  BY NewFits DEF Expire
<1>5. QED BY <1>1, <1>2, <1>3, <1>4 DEF Local

LEMMA IdleFits == ASSUME NEW t, NEW m PROVE Fits(Idle, t, m)
BY IdleType DEF Fits, Carries, Ends, Gets, First, Asking, Checked, Cleaning, Asks

LEMMA CrashLocal == ASSUME Local, Crash PROVE Local'
<1>1. TypeOK'
  BY IdleType DEF Crash, Local, TypeOK, Publisher, Resting
<1>2. \A c \in Calls : CallFits(c)' /\ QueueFits(c)'
  BY IdleType, IdleFits DEF Crash, CallFits, QueueFits
<1>3. TermsFit' /\ DeliveryFits' /\ SettledBeforeShown' /\ EntryFits(entry', terms', charges')
  BY DEF Crash, Local, TermsFit, DeliveryFits, SettledBeforeShown, Moved, Resting
<1>4. QED BY <1>1, <1>2, <1>3 DEF Local

LEMMA InitLocal == Init => Local
<1> SUFFICES ASSUME Init PROVE Local
  OBVIOUS
<1>0. charges \in [Payments -> 0..2] /\ queue \in Seq(Calls)
  <2>1. charges = [p \in Payments |-> 0] /\ 0 \in 0..2 /\ queue = <<>>
    BY DEF Init
  <2>2. QED BY <2>1
<1>1. TypeOK
  <2>1. call \in [Calls -> Call] /\ publisher \in [Publishers -> Publisher]
    BY IdleType DEF Init, Publisher, Resting
  <2>2. terms \in Terms /\ {shown, unsaid} \subseteq BOOLEAN
    BY Zenon DEF Init
  <2>3. 0 \in 0..MaxFaults
    OBVIOUS
  <2>4. QED BY <1>0, <2>1, <2>2, <2>3, NewEntry DEF Init, TypeOK
<1>2. \A c \in Calls : CallFits(c) /\ QueueFits(c)
  BY IdleType, IdleFits DEF Init, CallFits, QueueFits
<1>3. TermsFit /\ DeliveryFits /\ SettledBeforeShown /\ EntryFits(entry, terms, charges)
  BY NewFits DEF Init, TermsFit, DeliveryFits, SettledBeforeShown, Resting
<1>4. QED BY <1>1, <1>2, <1>3 DEF Local

LEMMA NextLocal == Local /\ [Next]_vars => Local'
<1> SUFFICES ASSUME Local, [Next]_vars PROVE Local'
  OBVIOUS
<1>1. ASSUME NEW c \in Calls, OpenStep(c) PROVE Local'
  BY <1>1, SubmitsLocal, ReadReplayLocal, ReadClaimStatusLocal, ClassifyLocal,
     RecordClassifyLocal, SelectTermsLocal, VerifyLocal, RecordVerifyLocal, ClaimLocal,
     CancelLocal, ReleaseLocal, AuditLocal, AuditReadLocal, GetTermsLocal, PublishLocal,
     PutEntryLocal, RevokeLocal DEF OpenStep
<1>2. ASSUME NEW c \in Calls, SettleStep(c) PROVE Local'
  BY <1>2, SettleLocal, RecordSettleLocal, SettleReadOpenLocal, SettleReadFinishLocal,
     FinishWorkLocal, AbortWorkLocal, LapseWorkLocal, CloseReadLocal, CloseWriteLocal,
     CleanOfferLocal, CleanEntryLocal DEF SettleStep
<1>3. ASSUME NEW d \in Publishers, DeliveryStep(d) PROVE Local'
  BY <1>3, AskDeliveryLocal, ReadDeliveryLocal, WriteDeliveryLocal DEF DeliveryStep
<1>4. CASE UNCHANGED vars
  <2>1. TypeOK' /\ TermsFit' /\ EntryFits(entry', terms', charges')
    BY <1>4 DEF vars, Local, TypeOK, TermsFit
  <2>2. \A c \in Calls : CallFits(c)' /\ QueueFits(c)'
    BY <1>4 DEF vars, Local, CallFits, QueueFits
  <2>3. DeliveryFits' /\ SettledBeforeShown'
    BY <1>4 DEF vars, Local, DeliveryFits, SettledBeforeShown, Moved
  <2>4. QED BY <2>1, <2>2, <2>3 DEF Local
<1>5. QED BY <1>1, <1>2, <1>3, <1>4, ExpireLocal, CrashLocal DEF Next

(* What the gate knows of its own call, queue and delivery, whatever the other     *)
(* calls, faults and restarts of the store do (gate.ts, context.ts).             *)
THEOREM LocalInv == Spec => []Local
BY InitLocal, NextLocal, PTL DEF Spec

(* TypeOK: calls, entry, offer, queue and charges stay in their types; a         *)
(* publication is never started and closed (entry markers of context.ts).        *)
THEOREM TypeCorrect == Spec => []TypeOK
<1>1. Local => TypeOK
  BY DEF Local
<1>2. QED BY <1>1, LocalInv, PTL

(* SettledBeforeShown: under after-settlement delivery, content is shown only     *)
(* once money moved, whatever calls, publishers, faults and restarts interleave. *)
THEOREM ShownOnceSettled == Spec => []SettledBeforeShown
<1>1. Local => SettledBeforeShown
  BY DEF Local
<1>2. QED BY <1>1, LocalInv, PTL
-----------------------------------------------------------------------------
(* One submission at a time owns a task's offer, money moves at most once for   *)
(* it, and what was shown is not let go unpaid: without LateAsks (a message      *)
(* without payment that overlaps with a submission offers the task anew, and     *)
(* then they fail).                                                            *)

(* A call owns the offer from its claim until the claim is freed or cleaned up. *)
GrantedPCs == {"audit", "auditRead", "settle", "recordSettle", "settleRead", "working",
               "closeRead", "closeWrite"}
Owns(f) ==
  \/ f.pc \in GrantedPCs \cup {"release"}
  \/ f.pc = "cancel" /\ f.free
  \/ f.pc \in Cleaning /\ f.msg \notin Asks

Ending(e) == e.status \in {"completed", "rejected"}
Shut(e, o) == o = "claimed" \/ Ending(e)
Fresh(e) == e.timing = "none" \/ e.closed \/ Ending(e)

(* What its owner relies on: the claim, and an entry that is not completed but   *)
(* by itself; a cancelled or skipped handler published nothing; neither did an   *)
(* attempt that is aborted or lapses once it is closed.                          *)
OwnerFits(f, e, o, t) ==
  Owns(f) =>
    /\ IF f.pc = "cleanEntry" \/ f.paid THEN o # "available" ELSE o = "claimed"
    /\ e.status # "absent"
    /\ e.status = "completed" => f.got = "paid"
    /\ f.paid \/ (f.pc = "cleanOffer" /\ f.got = "paid") => Ending(e)
    /\ f.pc \in {"cancel", "release", "audit"} \/ f.mode = "skip" => BeforeWork(t) \/ Fresh(e)
    /\ f.pc \in Cleaning \cup {"cancel", "release"} /\ f.mode \in {"abort", "lapse"} =>
         f.got = "paid" \/ e.closed
    /\ f.pc = "settleRead" /\ f.got = "declined" => ~e.unknown

(* What a message without payment relies on, past its two replay checks.        *)
AskFits(f, e, o) ==
  f.msg \in Asks =>
    /\ f.pc \in Asking \cup Cleaning \cup {"replayClaim"} => ~Ending(e) /\ ~e.closed
    /\ f.pc \in Asking \cup Cleaning => o # "claimed"

(* A payment whose terms were selected finds an entry if it finds the offer.     *)
CheckedFits(f, e, o) == f.pc \in Checked /\ e.status = "absent" => o # "available"

(* An owner that knows that money moved, or may have. *)
Aware(f, e) ==
  \/ f.pc = "recordSettle" /\ f.got \in {"paid", "unknown"}
  \/ f.pc = "settleRead" /\ e.unknown
  \/ f.pc \in {"closeRead", "closeWrite"} /\ f.mode = "settle" /\ ~f.free
  \/ f.pc \in {"cleanOffer", "working"} /\ f.got = "paid"

AskAlone == \A c, d \in Calls : Live(c) /\ call[c].msg \in Asks /\ c # d => ~Live(d)
OneOwner == \A c, d \in Calls : Owns(call[c]) /\ Owns(call[d]) => c = d
CompletedShut == entry.status = "completed" => offer # "available"

(* Once money moved the offer stays shut, and its owner knows. *)
Spent ==
  ~unsaid /\ AnyMoved(charges) =>
    /\ Shut(entry, offer) /\ offer # "available"
    /\ \A c \in Calls : Owns(call[c]) => Aware(call[c], entry)

(* What was shown is marked; what may be published is closed or shut. *)
ShownFits ==
  ~BeforeWork(terms) =>
    /\ shown => entry.started
    /\ entry.timing # "none" => entry.closed \/ Shut(entry, offer)

CallsFit == \A c \in Calls : /\ OwnerFits(call[c], entry, offer, terms)
                             /\ AskFits(call[c], entry, offer)
                             /\ CheckedFits(call[c], entry, offer)

Held == AskAlone /\ OneOwner /\ CallsFit /\ CompletedShut /\ Spent /\ PaidOnce /\ ShownFits
-----------------------------------------------------------------------------
(* What a step of one call leaves of the others, and what becomes of it. *)

Alone(c) == \A d \in Calls \ {c} : call'[d] = call[d]
Same(c) == /\ call'[c].msg = call[c].msg /\ call'[c].mode = call[c].mode
           /\ call'[c].got = call[c].got /\ call'[c].paid = call[c].paid

LEMMA BecomesAlone == ASSUME Local, NEW c \in Calls, NEW f, Become(c, f)
                      PROVE  call'[c] = f /\ Alone(c)
BY DEF Local, TypeOK, Become, Alone

LEMMA Goes == ASSUME Local, NEW c \in Calls, NEW pc, Goto(c, pc)
              PROVE  Alone(c) /\ call'[c].pc = pc /\ Same(c) /\ call'[c].free = call[c].free
<1>1. call'[c] = [call[c] EXCEPT !.pc = pc] /\ Alone(c)
  BY BecomesAlone DEF Goto
<1>2. QED BY <1>1, CallNow DEF Same, Call

LEMMA Answered == ASSUME Local, NEW c \in Calls, NEW out \in Outcomes, Answer(c, out)
                  PROVE  /\ Alone(c) /\ call'[c].pc = "idle" /\ call'[c].msg = "none"
                         /\ call'[c].out = out
                         /\ call'[c].got = "unknown" <=> call[c].got = "unknown"
<1>1. PICK f \in Call : /\ Become(c, f) /\ f.pc = "idle" /\ f.msg = "none" /\ f.out = out
                        /\ f.got = "unknown" <=> call[c].got = "unknown"
  BY Answers DEF Local
<1>2. QED BY <1>1, BecomesAlone

LEMMA CancelsAnd == ASSUME Local, NEW c \in Calls, NEW free, CancelAnd(c, free)
                    PROVE  Alone(c) /\ call'[c].pc = "cancel" /\ Same(c) /\ call'[c].free = free
<1>1. call'[c] = [call[c] EXCEPT !.pc = "cancel", !.free = free] /\ Alone(c)
  BY BecomesAlone DEF CancelAnd
<1>2. QED BY <1>1, CallNow DEF Same, Call

LEMMA IdleOwnsNothing == ASSUME NEW f, f.pc = "idle"
                         PROVE  /\ ~Owns(f) /\ \A e, o : CheckedFits(f, e, o)
                                /\ f.msg = "none" => \A e, o : AskFits(f, e, o)
BY DEF Owns, GrantedPCs, Cleaning, CheckedFits, Checked, AskFits, Asks

(* Only payments are granted: a message without payment owns nothing. *)
LEMMA AsksOwnNothing == ASSUME NEW f, NEW t, NEW m, Fits(f, t, m)
                        PROVE  /\ f.msg \in Asks => ~Owns(f)
                               /\ f.pc = "idle" => f.msg \notin Asks
                               /\ Owns(f) => f.pc # "idle" /\ f.pc \notin Checked
BY NoPaymentAsks
   DEF Fits, Carries, Owns, GrantedPCs, Cleaning, First, Asking, Checked, Asks

(* A live message without payment is alone. *)
LEMMA NoOtherAsks == ASSUME Local, Held, NEW c \in Calls, Live(c), NEW d \in Calls \ {c}
                     PROVE  /\ call[d].msg \notin Asks
                            /\ call[c].msg \in Asks => call[d].pc = "idle" /\ ~Owns(call[d])
<1>1. CallFits(d)
  BY DEF Local
<1>2. QED BY <1>1, AsksOwnNothing, IdleOwnsNothing DEF Held, AskAlone, Live, At, CallFits

LEMMA StaysAlone == ASSUME Local, Held, NEW c \in Calls, Alone(c), Live(c),
                           call'[c].pc = "idle" \/ call'[c].msg = call[c].msg
                    PROVE  AskAlone'
<1> SUFFICES ASSUME NEW a \in Calls, NEW b \in Calls, a # b,
                    call'[a].pc # "idle", call'[a].msg \in Asks, call'[b].pc # "idle"
             PROVE  FALSE
  BY DEF AskAlone, Live, At
<1>1. CASE a = c
  BY <1>1, NoOtherAsks DEF Alone
<1>2. CASE a # c
  BY <1>2, NoOtherAsks DEF Alone
<1>3. QED BY <1>1, <1>2
-----------------------------------------------------------------------------
(* A call that owns nothing may only update the entry in these ways.            *)

Marked(e, e2) ==
  /\ e2.timing = e.timing /\ e2.started = e.started /\ e2.closed = e.closed
  /\ e2.status = "absent" <=> e.status = "absent"
  /\ e2.status = "completed" <=> e.status = "completed"
  /\ Ending(e) => Ending(e2)
  /\ e2.unknown => e.unknown

LEMMA UpdateMarks == ASSUME NEW e \in Entry
                     PROVE  /\ Marked(e, e) /\ Marked(e, Verified(e)) /\ Marked(e, Failed(e, FALSE))
                            /\ \A s \in {"failed", "rejected"} : Marked(e, ClassifiedAs(e, s))
BY DEF Marked, Ending, Verified, Failed, ClassifiedAs, UpdateIfStatus, Is, Open, Unverified, Entry,
       Statuses

LEMMA Bystands == ASSUME Local, Held, Local', NEW c \in Calls, Alone(c),
                         UNCHANGED <<terms, offer, charges, shown>>, Marked(entry, entry'),
                         unsaid \/ (entry.unknown /\ ~entry'.unknown) => unsaid',
                         ~Owns(call[c]), ~Owns(call'[c]), AskAlone',
                         AskFits(call'[c], entry', offer), CheckedFits(call'[c], entry', offer),
                         entry' # entry => Live(c)
                  PROVE  Held'
<1>1. \A d \in Calls : Owns(call'[d]) => d # c /\ Owns(call[d]) /\ call'[d] = call[d]
  BY DEF Alone
<1>2. OneOwner'
  BY <1>1 DEF Held, OneOwner
<1>3. ASSUME NEW d \in Calls
      PROVE  /\ OwnerFits(call'[d], entry', offer, terms) /\ AskFits(call'[d], entry', offer)
             /\ CheckedFits(call'[d], entry', offer)
  <2>1. CASE d = c
    BY <2>1 DEF OwnerFits
  <2>2. CASE d # c
    <3>1. call'[d] = call[d]
      BY <2>2 DEF Alone
    <3>2. OwnerFits(call[d], entry, offer, terms) /\ CheckedFits(call[d], entry, offer)
          /\ AskFits(call[d], entry, offer)
      BY DEF Held, CallsFit
    <3>3. AskFits(call[d], entry', offer)
      <4>1. CASE entry' = entry
        BY <3>2, <4>1
      <4>2. CASE Live(c)
        BY <2>2, <4>2, NoOtherAsks DEF AskFits
      <4>3. QED BY <4>1, <4>2
    <3>4. OwnerFits(call[d], entry', offer, terms)
      BY <3>2 DEF OwnerFits, Marked, Fresh, Ending
    <3>5. CheckedFits(call[d], entry', offer)
      BY <3>2 DEF CheckedFits, Marked
    <3>6. QED BY <3>1, <3>3, <3>4, <3>5
  <2>3. QED BY <2>1, <2>2
<1>4. CallsFit'
  BY <1>3 DEF CallsFit
<1>5. CompletedShut' /\ ShownFits'
  BY DEF Held, CompletedShut, ShownFits, Shut, Ending, Marked
<1>6. Spent'
  <2>1. ASSUME ~unsaid', AnyMoved(charges)
        PROVE  /\ Shut(entry', offer) /\ offer # "available"
               /\ \A d \in Calls : Owns(call'[d]) => Aware(call'[d], entry')
    <3>1. /\ ~unsaid /\ (entry.unknown => entry'.unknown)
          /\ Shut(entry, offer) /\ offer # "available"
          /\ \A d \in Calls : Owns(call[d]) => Aware(call[d], entry)
      BY <2>1 DEF Held, Spent
    <3>2. Shut(entry', offer)
      BY <3>1 DEF Shut, Marked
    <3>3. \A f : Aware(f, entry) => Aware(f, entry')
      BY <3>1 DEF Aware
    <3>4. QED BY <1>1, <3>1, <3>2, <3>3
  <2>2. QED BY <2>1 DEF Spent
<1>7. PaidOnce'
  BY DEF Held, PaidOnce, Moved
<1>8. QED BY <1>2, <1>4, <1>5, <1>6, <1>7 DEF Held

(* ... and one that leaves the entry alone, as most do. *)
LEMMA LooksOn == ASSUME Local, Held, Local', NEW c \in Calls, Alone(c), Outside,
                        UNCHANGED <<entry, offer>>, Live(c), ~Owns(call[c]), ~Owns(call'[c]),
                        call'[c].pc = "idle" \/ call'[c].msg = call[c].msg,
                        AskFits(call'[c], entry, offer), CheckedFits(call'[c], entry, offer)
                 PROVE  Held'
<1>1. Marked(entry, entry')
  BY DEF Marked
<1>2. AskAlone'
  BY StaysAlone
<1>3. QED BY <1>1, <1>2, Bystands DEF Outside
-----------------------------------------------------------------------------
(* A message without payment runs alone: nobody owns the offer.                  *)

LEMMA AskWrites == ASSUME Local, Held, Local', NEW c \in Calls, Alone(c),
                          call[c].msg \in Asks, call[c].pc \in Asking \cup Cleaning,
                          UNCHANGED <<terms, charges, shown, unsaid>>,
                          \/ call'[c].pc = "idle" /\ call'[c].msg = "none"
                          \/ /\ call'[c].pc \in Asking \cup Cleaning
                             /\ call'[c].msg = call[c].msg,
                          entry' \in {entry, NoEntry, OfferedEntry},
                          offer' \in {offer, "available", "absent"}
                   PROVE  Held'
<1>1. Live(c) /\ ~Ending(entry) /\ ~entry.closed /\ offer # "claimed"
  BY DEF Live, At, Asking, Cleaning, Held, CallsFit, AskFits
<1>2. \A d \in Calls \ {c} : call'[d].pc = "idle" /\ call'[d] = call[d] /\ call'[d].msg \notin Asks
  BY <1>1, NoOtherAsks DEF Alone
<1>3. \A d \in Calls : ~Owns(call'[d])
  <2>1. CallFits(c)'
    BY DEF Local
  <2>2. ~Owns(call'[c])
    BY <2>1, AsksOwnNothing, IdleOwnsNothing DEF CallFits
  <2>3. QED BY <1>2, <2>2, IdleOwnsNothing
<1>4. AskAlone'
  BY <1>1, StaysAlone
<1>5. ~Ending(entry') /\ ~entry'.closed /\ offer' # "claimed"
  BY <1>1 DEF Ending, NoEntry, OfferedEntry
<1>6. CallsFit'
  <2>1. \A d \in Calls : OwnerFits(call'[d], entry', offer', terms')
    BY <1>3 DEF OwnerFits
  <2>2. \A d \in Calls : AskFits(call'[d], entry', offer')
    BY <1>5 DEF AskFits
  <2>3. \A d \in Calls : CheckedFits(call'[d], entry', offer')
    <3>1. call'[c].pc \notin Checked
      BY DEF Checked, Asking, Cleaning
    <3>2. QED BY <1>2, <3>1 DEF CheckedFits, Checked
  <2>4. QED BY <2>1, <2>2, <2>3 DEF CallsFit
<1>7. ~BeforeWork(terms) => ~shown /\ entry'.timing = "none"
  <2>1. ~BeforeWork(terms) => entry.timing = "none" /\ (shown => entry.started)
    BY <1>1 DEF Held, ShownFits, Shut
  <2>2. entry.timing = "none" => ~entry.started
    BY DEF Local, EntryFits
  <2>3. QED BY <2>1, <2>2 DEF NoEntry, OfferedEntry
<1>8. unsaid \/ ~AnyMoved(charges)
  BY <1>1 DEF Held, Spent, Shut
<1>9. OneOwner' /\ CompletedShut' /\ Spent' /\ ShownFits'
  BY <1>3, <1>5, <1>7, <1>8 DEF OneOwner, CompletedShut, Spent, ShownFits, Ending
<1>10. PaidOnce'
  BY DEF Held, PaidOnce, Moved
<1>11. QED BY <1>4, <1>6, <1>9, <1>10 DEF Held
-----------------------------------------------------------------------------
(* An owner: the other calls own nothing, and none of them asks. *)

LEMMA OwnerSteps == ASSUME Local, Held, Local', NEW c \in Calls, Alone(c), Owns(call[c]),
                           call'[c].pc = "idle" \/ call'[c].msg = call[c].msg,
                           call'[c].pc \notin Checked,
                           Owns(call'[c]) => OwnerFits(call'[c], entry', offer', terms'),
                           entry'.status \in {"absent", "completed"} => offer' # "available",
                           ~unsaid' /\ AnyMoved(charges') =>
                             /\ Shut(entry', offer') /\ offer' # "available"
                             /\ Owns(call'[c]) => Aware(call'[c], entry'),
                           PaidOnce', ShownFits'
                    PROVE  Held'
<1>1. Live(c) /\ call[c].msg \notin Asks
  BY AsksOwnNothing DEF Live, At, Local, CallFits
<1>2. \A d \in Calls \ {c} : ~Owns(call'[d]) /\ call'[d].msg \notin Asks
  BY <1>1, NoOtherAsks DEF Held, OneOwner, Alone
<1>3. AskAlone'
  BY <1>1, StaysAlone
<1>4. call'[c].msg \notin Asks
  <2>1. CallFits(c)'
    BY DEF Local
  <2>2. QED BY <1>1, <2>1, AsksOwnNothing DEF CallFits
<1>5. CallsFit'
  BY <1>2, <1>4 DEF CallsFit, OwnerFits, AskFits, CheckedFits
<1>6. OneOwner' /\ CompletedShut' /\ Spent'
  BY <1>2 DEF OneOwner, CompletedShut, Spent
<1>7. QED BY <1>3, <1>5, <1>6 DEF Held

(* ... that neither moves money nor publishes. *)
LEMMA OwnerWrites == ASSUME Local, Held, Local', NEW c \in Calls, Alone(c), Owns(call[c]),
                            Outside,
                            call'[c].pc = "idle" \/ call'[c].msg = call[c].msg,
                            call'[c].pc \notin Checked,
                            Owns(call'[c]) => OwnerFits(call'[c], entry', offer', terms),
                            entry'.status \in {"absent", "completed"} => offer' # "available",
                            Aware(call[c], entry) =>
                              /\ Shut(entry', offer') /\ offer' # "available"
                              /\ Owns(call'[c]) => Aware(call'[c], entry'),
                            ShownFits'
                     PROVE  Held'
<1>1. PaidOnce'
  BY DEF Held, PaidOnce, Moved, Outside
<1>2. ~unsaid' /\ AnyMoved(charges') => Aware(call[c], entry)
  BY DEF Held, Spent, Outside
<1>3. terms' = terms
  BY DEF Outside
<1>4. QED BY <1>1, <1>2, <1>3, OwnerSteps

(* ... that leaves both stores alone. *)
LEMMA OwnerMoves == ASSUME Local, Held, Local', NEW c \in Calls, Alone(c), Owns(call[c]),
                           Outside, Stores,
                           call'[c].pc = "idle" \/ call'[c].msg = call[c].msg,
                           call'[c].pc \notin Checked,
                           Owns(call'[c]) => OwnerFits(call'[c], entry, offer, terms),
                           Aware(call[c], entry) /\ Owns(call'[c]) => Aware(call'[c], entry)
                    PROVE  Held'
<1>1. entry' = entry /\ offer' = offer
  BY DEF Stores
<1>2. OwnerFits(call[c], entry, offer, terms)
  BY DEF Held, CallsFit
<1>3. entry.status \in {"absent", "completed"} => offer # "available"
  BY <1>2 DEF Held, OwnerFits, CompletedShut
<1>4. Aware(call[c], entry) => Shut(entry, offer) /\ offer # "available"
  BY <1>2 DEF Aware, OwnerFits, Shut, Cleaning
<1>5. ShownFits'
  BY <1>1 DEF Outside, Held, ShownFits
<1>6. QED BY <1>1, <1>3, <1>4, <1>5, OwnerWrites
-----------------------------------------------------------------------------
(* The steps of open before the claim. *)

LEMMA Unowned == ASSUME NEW f, f.pc \in First \cup Asking \cup Checked \cup {"idle"}
                 PROVE  ~Owns(f)
BY DEF Owns, GrantedPCs, Cleaning, First, Asking, Checked

LEMMA RefuseLooksOn == ASSUME Local, Held, Local', NEW c \in Calls, Refuse(c), Live(c),
                              ~Owns(call[c]), Outside, UNCHANGED <<entry, offer>>
                       PROVE  Held'
<1>1. Alone(c) /\ call'[c].pc = "idle" /\ call'[c].msg = "none"
  BY Answered DEF Refuse, Outcomes
<1>2. QED BY <1>1, IdleOwnsNothing, LooksOn

LEMMA GotoLooksOn == ASSUME Local, Held, Local', NEW c \in Calls,
                            NEW pc \in First \cup Asking \cup Checked, Goto(c, pc), Live(c),
                            call[c].pc \in First \cup Asking \cup Checked,
                            Outside, UNCHANGED <<entry, offer>>,
                            call[c].msg \in Asks /\ pc \in Asking \cup {"replayClaim"} =>
                              ~Ending(entry) /\ ~entry.closed,
                            call[c].msg \in Asks /\ pc \in Asking => offer # "claimed",
                            pc \in Checked /\ entry.status = "absent" => offer # "available"
                     PROVE  Held'
<1>1. Alone(c) /\ call'[c].pc = pc /\ call'[c].msg = call[c].msg
  BY Goes DEF Same
<1>2. AskFits(call'[c], entry, offer) /\ CheckedFits(call'[c], entry, offer)
  BY <1>1 DEF AskFits, CheckedFits, First, Asking, Checked, Cleaning
<1>3. ~Owns(call[c]) /\ ~Owns(call'[c])
  BY <1>1, Unowned
<1>4. QED BY <1>1, <1>2, <1>3, LooksOn

LEMMA SubmitsHeld == ASSUME ~LateAsks, Local, Held, Local', NEW c \in Calls, NEW m \in Messages,
                            Submits(c, m)
                     PROVE  Held'
<1>0. Alone(c) /\ call'[c] = [Idle EXCEPT !.pc = "replay", !.msg = m]
  BY BecomesAlone DEF Submits
<1>1. Alone(c) /\ call'[c].pc = "replay" /\ call'[c].msg = m
  BY <1>0, IdleType
<1>2. ~Owns(call[c]) /\ ~Owns(call'[c])
  BY <1>1, Unowned DEF Submits, At, First
<1>3. AskAlone'
  <2> SUFFICES ASSUME NEW a \in Calls, NEW b \in Calls, a # b,
                      call'[a].pc # "idle", call'[a].msg \in Asks, call'[b].pc # "idle"
               PROVE  FALSE
    BY DEF AskAlone, Live, At
  <2>1. CASE a = c
    BY <1>1, <2>1 DEF Alone, Submits, At
  <2>2. CASE a # c
    BY <1>1, <2>2 DEF Alone, Submits, At
  <2>3. QED BY <2>1, <2>2
<1>4. AskFits(call'[c], entry, offer) /\ CheckedFits(call'[c], entry, offer)
  BY <1>1 DEF AskFits, CheckedFits, Asking, Checked, Cleaning
<1>5. Marked(entry, entry')
  BY DEF Marked, Submits, Stores
<1>6. QED BY <1>1, <1>2, <1>3, <1>4, <1>5, Bystands DEF Submits, Outside, Stores

LEMMA ReadReplayHeld == ASSUME Local, Held, Local', NEW c \in Calls, ReadReplay(c) PROVE Held'
<1>1. /\ Live(c) /\ call[c].pc = "replay" /\ ~Owns(call[c]) /\ Outside /\ UNCHANGED <<entry, offer>>
  BY Unowned DEF ReadReplay, Live, At, First, Stores
<1>2. CASE Refuse(c)
  BY <1>1, <1>2, RefuseLooksOn
<1>3. CASE Goto(c, "replayClaim") /\ ~Ending(entry) /\ ~entry.closed
  <2>1. "replayClaim" \in First /\ "replayClaim" \notin Asking \cup Checked /\ "replay" \in First
    BY DEF First, Asking, Checked
  <2>2. QED BY <1>1, <1>3, <2>1, GotoLooksOn
<1>4. QED BY <1>2, <1>3 DEF ReadReplay, Is, Ending

LEMMA ReadClaimStatusHeld == ASSUME Local, Held, Local', NEW c \in Calls, ReadClaimStatus(c)
                             PROVE  Held'
<1>1. /\ Live(c) /\ call[c].pc = "replayClaim" /\ ~Owns(call[c]) /\ Outside
      /\ UNCHANGED <<entry, offer>>
  BY Unowned DEF ReadClaimStatus, Live, At, First, Stores
<1>2. CASE Refuse(c)
  BY <1>1, <1>2, RefuseLooksOn
<1>3. CASE /\ offer # "claimed"
           /\ \E pc \in {"getTerms", "recordClassify", "classify"} : Goto(c, pc)
  <2>1. PICK pc \in {"getTerms", "recordClassify", "classify"} : Goto(c, pc)
    BY <1>3
  <2>2. pc \in First \cup Asking /\ pc \notin Checked /\ pc # "replayClaim" /\ call[c].pc \in First
    BY <1>1 DEF First, Asking, Checked
  <2>3. call[c].msg \in Asks => ~Ending(entry) /\ ~entry.closed
    BY <1>1 DEF Held, CallsFit, AskFits
  <2>4. QED BY <1>1, <1>3, <2>1, <2>2, <2>3, GotoLooksOn
<1>4. QED BY <1>2, <1>3 DEF ReadClaimStatus

LEMMA ClassifyHeld == ASSUME Local, Held, Local', NEW c \in Calls, Classify(c) PROVE Held'
<1>1. /\ Live(c) /\ call[c].pc = "classify" /\ ~Owns(call[c]) /\ Outside
      /\ UNCHANGED <<entry, offer>>
  BY Unowned DEF Classify, Live, At, First, Stores
<1>2. CASE Refuse(c)
  BY <1>1, <1>2, RefuseLooksOn
<1>3. CASE entry.status # "absent" /\ \E pc \in {"recordClassify", "selectTerms"} : Goto(c, pc)
  <2>1. PICK pc \in {"recordClassify", "selectTerms"} : Goto(c, pc)
    BY <1>3
  <2>2. pc \in First \cup Checked /\ pc \notin Asking \cup {"replayClaim"} /\ call[c].pc \in First
    BY <1>1 DEF First, Asking, Checked
  <2>3. QED BY <1>1, <1>3, <2>1, <2>2, GotoLooksOn
<1>4. QED BY <1>2, <1>3 DEF Classify, Is

LEMMA RecordClassifyHeld == ASSUME Local, Held, Local', NEW c \in Calls, RecordClassify(c)
                            PROVE  Held'
<1>1. Live(c) /\ ~Owns(call[c])
  BY Unowned DEF RecordClassify, Live, At, First
<1>2. Alone(c) /\ call'[c].pc = "idle" /\ call'[c].msg = "none"
  BY Answered DEF RecordClassify, Refuse, Outcomes
<1>3. Marked(entry, entry')
  BY UpdateMarks DEF RecordClassify, Overwrite, Local, TypeOK
<1>4. AskAlone'
  BY <1>1, <1>2, StaysAlone
<1>5. QED
  BY <1>1, <1>2, <1>3, <1>4, IdleOwnsNothing, Bystands DEF RecordClassify, Overwrite

LEMMA SelectTermsHeld == ASSUME Local, Held, Local', NEW c \in Calls, SelectTerms(c) PROVE Held'
<1>1. /\ Live(c) /\ call[c].pc = "selectTerms" /\ ~Owns(call[c]) /\ Outside
      /\ UNCHANGED <<entry, offer>>
  BY Unowned DEF SelectTerms, Live, At, Checked, Stores
<1>2. CASE Refuse(c)
  BY <1>1, <1>2, RefuseLooksOn
<1>3. CASE Goto(c, "verify")
  <2>1. {"selectTerms", "verify"} \subseteq Checked /\ "verify" \notin Asking
    BY DEF Checked, Asking
  <2>2. entry.status = "absent" => offer # "available"
    BY <1>1, <2>1 DEF Held, CallsFit, CheckedFits
  <2>3. QED BY <1>1, <1>3, <2>1, <2>2, GotoLooksOn
<1>4. QED BY <1>2, <1>3 DEF SelectTerms

LEMMA VerifyHeld == ASSUME Local, Held, Local', NEW c \in Calls, Verify(c) PROVE Held'
<1>1. /\ Live(c) /\ call[c].pc = "verify" /\ ~Owns(call[c]) /\ Outside
      /\ UNCHANGED <<entry, offer>>
  BY Unowned DEF Verify, Live, At, Checked, Stores
<1>2. PICK got : Become(c, [call[c] EXCEPT !.pc = "recordVerify", !.got = got])
  BY DEF Verify
<1>3. Alone(c) /\ call'[c].pc = "recordVerify" /\ call'[c].msg = call[c].msg
  <2>1. Alone(c) /\ call'[c] = [call[c] EXCEPT !.pc = "recordVerify", !.got = got]
    BY <1>2, BecomesAlone
  <2>2. QED BY <2>1, CallNow DEF Call
<1>4. AskFits(call'[c], entry, offer) /\ CheckedFits(call'[c], entry, offer)
  BY <1>1, <1>3 DEF Held, CallsFit, AskFits, CheckedFits, Checked, Asking, Cleaning
<1>5. ~Owns(call'[c])
  BY <1>3, Unowned DEF Checked
<1>6. QED BY <1>1, <1>3, <1>4, <1>5, LooksOn

LEMMA RecordVerifyHeld == ASSUME Local, Held, Local', NEW c \in Calls, RecordVerify(c) PROVE Held'
<1>1. Live(c) /\ ~Owns(call[c]) /\ call[c].pc = "recordVerify"
  BY Unowned DEF RecordVerify, Live, At, Checked
<1>2. Marked(entry, entry')
  BY UpdateMarks DEF RecordVerify, Overwrite, Local, TypeOK
<1>3. /\ UNCHANGED <<terms, offer, charges, shown>>
      /\ unsaid \/ (entry.unknown /\ ~entry'.unknown) => unsaid'
  BY DEF RecordVerify, Overwrite
<1>4. CASE Refuse(c)
  <2>1. Alone(c) /\ call'[c].pc = "idle" /\ call'[c].msg = "none"
    BY <1>4, Answered DEF Refuse, Outcomes
  <2>2. AskAlone'
    BY <1>1, <2>1, StaysAlone
  <2>3. QED BY <1>1, <1>2, <1>3, <2>1, <2>2, IdleOwnsNothing, Bystands
<1>5. CASE Goto(c, "claim")
  <2>1. Alone(c) /\ call'[c].pc = "claim" /\ call'[c].msg = call[c].msg
    BY <1>5, Goes DEF Same
  <2>2. AskAlone'
    BY <1>1, <2>1, StaysAlone
  <2>3. AskFits(call'[c], entry', offer) /\ CheckedFits(call'[c], entry', offer)
    BY <1>1, <1>2, <2>1
       DEF Held, CallsFit, AskFits, CheckedFits, Checked, Asking, Cleaning, Marked
  <2>4. ~Owns(call'[c])
    BY <2>1, Unowned DEF Checked
  <2>5. QED BY <1>1, <1>2, <1>3, <2>1, <2>2, <2>3, <2>4, Bystands
<1>6. QED BY <1>4, <1>5 DEF RecordVerify

(* An available offer has no owner; nothing is paid for it yet.                  *)
LEMMA Available == ASSUME Local, Held, offer = "available"
                   PROVE  /\ \A c \in Calls : ~Owns(call[c])
                          /\ entry.status # "completed"
                          /\ unsaid \/ ~AnyMoved(charges)
                          /\ BeforeWork(terms) \/ Fresh(entry)
BY DEF Held, CallsFit, OwnerFits, CompletedShut, Spent, ShownFits, Shut, Fresh
-----------------------------------------------------------------------------
(* The claim, and what frees it. *)

LEMMA Granting == ASSUME Local, Held, Local', NEW c \in Calls, Alone(c), Outside,
                         call[c].pc = "claim", offer = "available", offer' = "claimed",
                         UNCHANGED entry, call'[c].msg = call[c].msg,
                         call'[c].paid = call[c].paid,
                         call'[c].pc \in {"audit", "settle"},
                         call'[c].pc = "settle" => call'[c].mode = "skip",
                         call'[c].pc = "audit" => call'[c].mode = "open"
                  PROVE  Held'
<1>1. Live(c) /\ ~call[c].paid
  BY CallNow DEF Live, At, Fits, Gets
<1>2. /\ \A d \in Calls : ~Owns(call[d])
      /\ entry.status # "completed" /\ (unsaid \/ ~AnyMoved(charges))
      /\ BeforeWork(terms) \/ Fresh(entry)
  BY Available
<1>3. AskAlone'
  BY <1>1, StaysAlone
<1>4. \A d \in Calls \ {c} : call'[d] = call[d] /\ ~Owns(call'[d])
  BY <1>2 DEF Alone
<1>5. OneOwner'
  BY <1>4 DEF OneOwner
<1>6. call'[c].msg \notin Asks
  <2>1. call[c].msg \in Payments
    BY CallNow DEF Fits, Carries, First, Asking, Cleaning
  <2>2. QED BY <2>1, NoPaymentAsks
<1>7. OwnerFits(call'[c], entry, "claimed", terms)
  <2>1. entry.status # "absent"
    BY DEF Held, CallsFit, CheckedFits, Checked
  <2>2. QED BY <1>1, <1>2, <2>1 DEF OwnerFits, Cleaning
<1>8. ASSUME NEW d \in Calls
      PROVE  /\ OwnerFits(call'[d], entry, "claimed", terms) /\ AskFits(call'[d], entry, "claimed")
             /\ CheckedFits(call'[d], entry, "claimed")
  <2>1. CASE d = c
    BY <1>6, <1>7, <2>1 DEF AskFits, CheckedFits
  <2>2. CASE d # c
    <3>1. call[d].msg \notin Asks
      BY <1>1, <2>2, NoOtherAsks
    <3>2. QED BY <1>4, <2>2, <3>1 DEF OwnerFits, AskFits, CheckedFits
  <2>3. QED BY <2>1, <2>2
<1>9. CallsFit' /\ CompletedShut' /\ Spent'
  BY <1>2, <1>8 DEF CallsFit, CompletedShut, Spent, Outside
<1>10. PaidOnce' /\ ShownFits'
  BY DEF Held, PaidOnce, Moved, ShownFits, Shut, Outside
<1>11. QED BY <1>3, <1>5, <1>9, <1>10 DEF Held

LEMMA ClaimHeld == ASSUME Local, Held, Local', NEW c \in Calls, Claim(c) PROVE Held'
<1>1. /\ Live(c) /\ call[c].pc = "claim" /\ ~Owns(call[c]) /\ Outside /\ entry' = entry
      /\ call[c].mode = "open" /\ call[c] \in Call
  BY Unowned, CallNow DEF Claim, Live, At, Checked, Fits, Ends
<1>2. CASE CancelAnd(c, FALSE) /\ UNCHANGED offer
  <2>1. Alone(c) /\ call'[c].pc = "cancel" /\ call'[c].msg = call[c].msg /\ ~call'[c].free
    BY <1>2, CancelsAnd DEF Same
  <2>2. ~Owns(call'[c])
    BY <2>1 DEF Owns, GrantedPCs, Cleaning
  <2>3. AskFits(call'[c], entry, offer) /\ CheckedFits(call'[c], entry, offer)
    BY <2>1 DEF AskFits, CheckedFits, Asking, Cleaning, Checked
  <2>4. QED BY <1>1, <1>2, <2>1, <2>2, <2>3, LooksOn
<1>3. CASE /\ offer = "available" /\ offer' = "claimed" /\ call[c].got = "skip"
           /\ Become(c, [call[c] EXCEPT !.pc = "settle", !.mode = "skip"])
  <2>1. Alone(c) /\ call'[c] = [call[c] EXCEPT !.pc = "settle", !.mode = "skip"]
    BY <1>3, BecomesAlone
  <2>2. /\ call'[c].pc = "settle" /\ call'[c].mode = "skip" /\ call'[c].msg = call[c].msg
        /\ call'[c].paid = call[c].paid
    BY <1>1, <2>1 DEF Call
  <2>3. QED BY <1>1, <1>3, <2>1, <2>2, Granting
<1>4. CASE offer = "available" /\ offer' = "claimed" /\ Goto(c, "audit")
  <2>1. Alone(c) /\ call'[c].pc = "audit" /\ Same(c)
    BY <1>4, Goes
  <2>2. QED BY <1>1, <1>4, <2>1, Granting DEF Same
<1>5. QED BY <1>2, <1>3, <1>4 DEF Claim

(* An owner that lets the claim be, and is done. *)
LEMMA OwnerAnswers == ASSUME Local, Held, Local', NEW c \in Calls, Owns(call[c]), Outside, Stores,
                             \E out \in Outcomes : Answer(c, out)
                      PROVE  Held'
<1>1. Alone(c) /\ call'[c].pc = "idle"
  BY Answered
<1>2. ~Owns(call'[c]) /\ call'[c].pc \notin Checked
  BY <1>1, IdleOwnsNothing DEF Checked
<1>3. QED BY <1>1, <1>2, OwnerMoves

LEMMA CancelHeld == ASSUME Local, Held, Local', NEW c \in Calls, Cancel(c) PROVE Held'
<1>1. Live(c) /\ call[c].pc = "cancel" /\ Outside /\ Stores /\ Fits(call[c], terms, charges)
  BY CallNow DEF Cancel, Live, At
<1>2. CASE Goto(c, "release") /\ call[c].free
  <2>1. Alone(c) /\ call'[c].pc = "release" /\ Same(c) /\ Owns(call[c])
    BY <1>1, <1>2, Goes DEF Owns
  <2>2. OwnerFits(call[c], entry, offer, terms)
    BY DEF Held, CallsFit
  <2>3. OwnerFits(call'[c], entry, offer, terms)
    BY <1>1, <2>1, <2>2 DEF OwnerFits, Same, Owns, GrantedPCs, Cleaning
  <2>4. ~Aware(call[c], entry)
    BY <1>1 DEF Aware
  <2>5. QED BY <1>1, <2>1, <2>3, <2>4, OwnerMoves DEF Same, Checked
<1>3. CASE \E out \in Outcomes : Answer(c, out)
  <2>1. CASE Owns(call[c])
    BY <1>1, <1>3, <2>1, OwnerAnswers
  <2>2. CASE ~Owns(call[c])
    <3>1. Alone(c) /\ call'[c].pc = "idle" /\ call'[c].msg = "none"
      BY <1>3, Answered
    <3>2. QED BY <1>1, <2>2, <3>1, IdleOwnsNothing, LooksOn DEF Stores
  <2>3. QED BY <2>1, <2>2
<1>4. Thrown(c) => \E out \in Outcomes : Answer(c, out)
  BY DEF Thrown, Outcomes
<1>5. {"refused", "aborted", "failed"} \subseteq Outcomes
  BY DEF Outcomes
<1>6. QED BY <1>2, <1>3, <1>4, <1>5 DEF Cancel

LEMMA ReleaseHeld == ASSUME Local, Held, Local', NEW c \in Calls, Release(c) PROVE Held'
<1>1. call[c].pc = "release" /\ Outside /\ entry' = entry /\ Fits(call[c], terms, charges)
  BY CallNow DEF Release, At
<1>2. Owns(call[c]) /\ OwnerFits(call[c], entry, offer, terms) /\ ~Aware(call[c], entry)
  BY <1>1 DEF Owns, Held, CallsFit, Aware
<1>3. \E out \in Outcomes : Answer(c, out)
  <2>1. {"refused", "aborted", "failed"} \subseteq Outcomes
    BY DEF Outcomes
  <2>2. QED BY <2>1 DEF Release, Thrown
<1>4. Alone(c) /\ call'[c].pc = "idle" /\ ~Owns(call'[c]) /\ call'[c].pc \notin Checked
  BY <1>3, Answered, IdleOwnsNothing DEF Checked
<1>5. /\ entry.status \notin {"absent", "completed"} /\ (BeforeWork(terms) \/ Fresh(entry))
  BY <1>1, <1>2 DEF OwnerFits, Fits, Gets
<1>6. ShownFits'
  BY <1>1, <1>5 DEF Held, ShownFits, Fresh, Shut, Outside
<1>7. QED BY <1>1, <1>2, <1>4, <1>5, <1>6, OwnerWrites

LEMMA AuditHeld == ASSUME Local, Held, Local', NEW c \in Calls, Audit(c) PROVE Held'
<1>1. /\ call[c].pc = "audit" /\ Outside /\ offer' = offer /\ Fits(call[c], terms, charges)
      /\ call[c].mode = "open" /\ call[c].got # "paid" /\ ~call[c].paid
  BY CallNow DEF Audit, At, Fits, Ends, Gets
<1>2. Owns(call[c]) /\ OwnerFits(call[c], entry, offer, terms) /\ ~Aware(call[c], entry)
  BY <1>1 DEF Owns, GrantedPCs, Held, CallsFit, Aware
<1>3. offer = "claimed"
  BY <1>1, <1>2 DEF OwnerFits
<1>4. CASE entry' = WithTiming(entry, terms.delivery) /\ Is(entry, {"verified"}) /\ Goto(c, "auditRead")
  <2>1. Alone(c) /\ call'[c].pc = "auditRead" /\ Same(c)
    BY <1>4, Goes
  <2>2. /\ entry'.status = "verified" /\ entry'.started = entry.started
        /\ entry'.closed = entry.closed /\ entry'.unknown = entry.unknown
    BY <1>4 DEF WithTiming, Is, Local, TypeOK, Entry
  <2>3. OwnerFits(call'[c], entry', offer', terms)
    BY <1>1, <1>3, <2>1, <2>2 DEF OwnerFits, Same, Cleaning
  <2>4. ShownFits'
    BY <1>1, <1>3, <2>2 DEF Held, ShownFits, Shut, Outside
  <2>5. QED BY <1>1, <1>2, <1>3, <2>1, <2>2, <2>3, <2>4, OwnerWrites DEF Same, Checked
<1>5. CASE CancelAnd(c, TRUE) /\ UNCHANGED entry
  <2>1. Alone(c) /\ call'[c].pc = "cancel" /\ Same(c)
    BY <1>5, CancelsAnd
  <2>2. OwnerFits(call'[c], entry, offer, terms)
    BY <1>1, <1>2, <2>1 DEF OwnerFits, Same, Cleaning
  <2>3. QED BY <1>1, <1>2, <1>5, <2>1, <2>2, OwnerMoves DEF Same, Checked, Stores, Audit
<1>6. QED BY <1>4, <1>5 DEF Audit, Markable

LEMMA AuditReadHeld == ASSUME Local, Held, Local', NEW c \in Calls, AuditRead(c) PROVE Held'
<1>1. /\ call[c].pc = "auditRead" /\ Outside /\ Stores /\ call[c] \in Call
      /\ call[c].mode = "open" /\ call[c].got # "paid" /\ ~call[c].paid
  BY CallNow DEF AuditRead, At, Fits, Ends, Gets
<1>2. Owns(call[c]) /\ OwnerFits(call[c], entry, offer, terms) /\ ~Aware(call[c], entry)
  BY <1>1 DEF Owns, GrantedPCs, Held, CallsFit, Aware
<1>3. CASE Goto(c, "settle")
  <2>1. Alone(c) /\ call'[c].pc = "settle" /\ Same(c)
    BY <1>3, Goes
  <2>2. OwnerFits(call'[c], entry, offer, terms)
    BY <1>1, <1>2, <2>1 DEF OwnerFits, Same, Cleaning
  <2>3. QED BY <1>1, <1>2, <2>1, <2>2, OwnerMoves DEF Same, Checked
<1>4. CASE Become(c, [call[c] EXCEPT !.pc = "working", !.got = "none", !.out = "proceed"])
  <2>1. Alone(c) /\ call'[c] = [call[c] EXCEPT !.pc = "working", !.got = "none", !.out = "proceed"]
    BY <1>4, BecomesAlone
  <2>2. /\ call'[c].pc = "working" /\ call'[c].msg = call[c].msg /\ call'[c].mode = call[c].mode
        /\ call'[c].paid = call[c].paid /\ call'[c].got = "none"
    BY <1>1, <2>1 DEF Call
  <2>3. OwnerFits(call'[c], entry, offer, terms)
    BY <1>1, <1>2, <2>2 DEF OwnerFits, Cleaning
  <2>4. QED BY <1>1, <1>2, <2>1, <2>2, <2>3, OwnerMoves DEF Checked
<1>5. CASE CancelAnd(c, TRUE) /\ entry.timing # terms.delivery
  <2>1. Alone(c) /\ call'[c].pc = "cancel" /\ Same(c)
    BY <1>5, CancelsAnd
  <2>2. Fresh(entry)
    BY <1>5 DEF Local, EntryFits, Fresh
  <2>3. OwnerFits(call'[c], entry, offer, terms)
    BY <1>1, <1>2, <2>1, <2>2 DEF OwnerFits, Same, Cleaning
  <2>4. QED BY <1>1, <1>2, <2>1, <2>3, OwnerMoves DEF Same, Checked
<1>6. QED BY <1>3, <1>4, <1>5 DEF AuditRead
-----------------------------------------------------------------------------
(* The steps of a message without payment. *)

LEMMA AskingHeld == ASSUME Local, Held, Local', NEW c \in Calls,
                           GetTerms(c) \/ Publish(c) \/ PutEntry(c) \/ Revoke(c)
                    PROVE  Held'
<1>1. call[c].pc \in Asking /\ call[c].msg \in Asks /\ call[c] \in Call
  BY CallNow DEF GetTerms, Publish, PutEntry, Revoke, At, Fits, Carries, Asking
<1>2. /\ UNCHANGED <<terms, charges, shown, unsaid>>
      /\ entry' \in {entry, NoEntry, OfferedEntry} /\ offer' \in {offer, "available", "absent"}
  BY DEF GetTerms, Publish, PutEntry, Revoke, Outside
<1>3. ASSUME Alone(c),
             \/ call'[c].pc = "idle" /\ call'[c].msg = "none"
             \/ call'[c].pc \in Asking \cup Cleaning /\ call'[c].msg = call[c].msg
      PROVE  Held'
  BY <1>1, <1>2, <1>3, AskWrites
<1>4. ASSUME NEW pc \in Asking \cup Cleaning, Goto(c, pc)
      PROVE  Held'
  BY <1>3, <1>4, Goes DEF Same
<1>5. CASE GetTerms(c) \/ Revoke(c)
  BY <1>4, <1>5 DEF GetTerms, Revoke, Asking, Cleaning, Goto
<1>6. CASE PutEntry(c)
  BY <1>3, <1>6, Answered DEF PutEntry, Refuse, Outcomes
<1>7. CASE Publish(c)
  <2>1. /\ call'[c] = [call[c] EXCEPT !.free = offer = "absent",
                                     !.pc = IF call[c].msg = "ask" THEN "put" ELSE "revoke"]
        /\ Alone(c)
    BY <1>7, BecomesAlone DEF Publish
  <2>2. call'[c].pc \in Asking /\ call'[c].msg = call[c].msg
    BY <1>1, <2>1 DEF Call, Asking
  <2>3. QED BY <1>3, <2>1, <2>2
<1>8. QED BY <1>5, <1>6, <1>7
-----------------------------------------------------------------------------
(* The settlement. *)

LEMMA SettleHeld == ASSUME Local, Held, Local', NEW c \in Calls, Settle(c) PROVE Held'
<1>1. /\ call[c].pc = "settle" /\ call[c] \in Call /\ UNCHANGED <<terms, shown, unsaid, entry, offer>>
      /\ call[c].msg \in Payments /\ call[c].got # "paid" /\ ~call[c].paid
  BY CallNow DEF Settle, At, Stores, Fits, Carries, Gets, First, Asking, Cleaning
<1>2. Owns(call[c]) /\ OwnerFits(call[c], entry, offer, terms) /\ ~Aware(call[c], entry)
  BY <1>1 DEF Owns, GrantedPCs, Held, CallsFit, Aware
<1>3. PICK got \in {"paid", "declined", "unknown"}, moved \in BOOLEAN :
        /\ got = "paid" => moved
        /\ got = "declined" => ~moved
        /\ charges' = IF moved THEN [charges EXCEPT ![call[c].msg] = @ + 1] ELSE charges
        /\ Become(c, [call[c] EXCEPT !.pc = "recordSettle", !.got = got])
  BY DEF Settle
<1>4. Alone(c) /\ call'[c] = [call[c] EXCEPT !.pc = "recordSettle", !.got = got]
  BY <1>3, BecomesAlone
<1>5. /\ call'[c].pc = "recordSettle" /\ call'[c].msg = call[c].msg /\ call'[c].mode = call[c].mode
      /\ call'[c].paid = call[c].paid /\ call'[c].got = got
  BY <1>1, <1>4 DEF Call
<1>6. unsaid \/ ~AnyMoved(charges)
  BY <1>2 DEF Held, Spent
<1>7. OwnerFits(call'[c], entry, offer, terms)
  BY <1>1, <1>2, <1>5 DEF OwnerFits, Cleaning
<1>8. offer = "claimed"
  BY <1>1, <1>2 DEF OwnerFits
<1>9. ~unsaid' /\ AnyMoved(charges') => moved
  BY <1>1, <1>3, <1>6 DEF AnyMoved
<1>10. moved => Aware(call'[c], entry)
  BY <1>3, <1>5 DEF Aware
<1>11. PaidOnce'
  <2> SUFFICES ASSUME ~unsaid', NEW p \in Payments, NEW q \in Payments,
                      charges'[p] > 0, charges'[q] > 0
               PROVE  p = q /\ charges'[p] = 1
    BY DEF PaidOnce, Moved
  <2>1. charges \in [Payments -> 0..2] /\ \A r \in Payments : charges[r] = 0
    BY <1>1, <1>6 DEF Local, TypeOK, AnyMoved
  <2>2. moved
    BY <1>3, <2>1
  <2>3. charges' = [charges EXCEPT ![call[c].msg] = charges[call[c].msg] + 1]
    BY <1>3, <2>2
  <2>4. charges[call[c].msg] + 1 = 1
    BY <1>1, <2>1
  <2>5. QED BY <2>1, <2>3, <2>4
<1>12. ShownFits'
  BY <1>1 DEF Held, ShownFits
<1>13. entry'.status \in {"absent", "completed"} => offer' # "available"
  BY <1>1, <1>8
<1>14. QED
  BY <1>1, <1>2, <1>4, <1>5, <1>7, <1>8, <1>9, <1>10, <1>11, <1>12, <1>13, OwnerSteps
     DEF Shut, Checked

LEMMA RecordSettleHeld == ASSUME Local, Held, Local', NEW c \in Calls, RecordSettle(c) PROVE Held'
<1>1. /\ call[c].pc = "recordSettle" /\ ~call[c].paid
      /\ UNCHANGED <<terms, charges, shown, offer>>
      /\ call[c].got \in {"paid", "declined", "unknown"}
  BY CallNow DEF RecordSettle, At, Fits, Gets
<1>2. Owns(call[c]) /\ OwnerFits(call[c], entry, offer, terms)
  BY <1>1 DEF Owns, GrantedPCs, Held, CallsFit
<1>3. offer = "claimed" /\ entry.status # "absent" /\ entry \in Entry
  BY <1>1, <1>2 DEF OwnerFits, Local, TypeOK
<1>4. (unsaid => unsaid') /\ PaidOnce'
  <2>1. unsaid => unsaid'
    BY DEF RecordSettle
  <2>2. QED BY <1>1, <2>1 DEF Held, PaidOnce, Moved
<1>5. ASSUME Alone(c), entry'.timing = entry.timing, entry'.closed = entry.closed,
             entry'.started = entry.started, Ending(entry) => Ending(entry'),
             call'[c].pc = "idle" \/ call'[c].msg = call[c].msg,
             call'[c].pc \notin Checked,
             Owns(call'[c]) => OwnerFits(call'[c], entry', offer, terms),
             Owns(call'[c]) /\ ~unsaid' /\ Aware(call[c], entry) => Aware(call'[c], entry')
      PROVE  Held'
  <2>1. ShownFits'
    BY <1>1, <1>3, <1>5 DEF Held, ShownFits, Shut
  <2>2. ~unsaid' /\ AnyMoved(charges') => Aware(call[c], entry)
    BY <1>1, <1>2, <1>4 DEF Held, Spent
  <2>3. QED BY <1>1, <1>2, <1>3, <1>4, <1>5, <2>1, <2>2, OwnerSteps DEF Shut
<1>6. CASE Thrown(c) /\ UNCHANGED entry
  <2>1. Alone(c) /\ call'[c].pc = "idle"
    BY <1>6, Answered DEF Thrown, Outcomes
  <2>2. QED BY <1>5, <1>6, <2>1, IdleOwnsNothing DEF Checked
<1>7. CASE call[c].got = "paid" /\ entry' = Completed(entry) /\ Goto(c, "cleanOffer")
  <2>1. Alone(c) /\ call'[c].pc = "cleanOffer" /\ Same(c)
    BY <1>7, Goes
  <2>2. /\ entry'.timing = entry.timing /\ entry'.closed = entry.closed
        /\ entry'.started = entry.started /\ Ending(entry')
    BY <1>3, <1>7 DEF Completed, UpdateIfStatus, Is, Open, Entry, Statuses, Ending
  <2>3. OwnerFits(call'[c], entry', offer, terms)
    BY <1>1, <1>2, <1>3, <1>7, <2>1, <2>2 DEF OwnerFits, Same, Ending, Fresh, Cleaning
  <2>4. Aware(call'[c], entry')
    BY <1>7, <2>1 DEF Aware, Same
  <2>5. QED BY <1>5, <2>1, <2>2, <2>3, <2>4 DEF Same, Checked
<1>8. CASE /\ call[c].got # "paid" /\ entry' = Failed(entry, call[c].got = "unknown")
           /\ Goto(c, "settleRead")
           /\ unsaid' = (unsaid \/ (call[c].got = "unknown" /\ ~entry'.unknown))
  <2>1. Alone(c) /\ call'[c].pc = "settleRead" /\ Same(c)
    BY <1>8, Goes
  <2>2. entry.status # "completed"
    BY <1>2, <1>8 DEF OwnerFits
  <2>3. entry.unknown => entry.status \in {"failed", "verified"}
    BY <2>2 DEF Local, EntryFits
  <2>4. /\ entry'.timing = entry.timing /\ entry'.closed = entry.closed
        /\ entry'.started = entry.started /\ (Ending(entry) => Ending(entry'))
        /\ entry'.status \notin {"absent", "completed"}
        /\ call[c].got = "declined" => ~entry'.unknown
    BY <1>3, <1>8, <2>2, <2>3 DEF Failed, UpdateIfStatus, Is, Open, Entry, Statuses, Ending
  <2>5. OwnerFits(call'[c], entry', offer, terms)
    BY <1>1, <1>2, <1>3, <2>1, <2>4 DEF OwnerFits, Same, Fresh, Cleaning
  <2>6. ~unsaid' /\ Aware(call[c], entry) => Aware(call'[c], entry')
    BY <1>1, <1>8, <2>1 DEF Aware
  <2>7. QED BY <1>5, <2>1, <2>4, <2>5, <2>6 DEF Same, Checked
<1>9. QED BY <1>6, <1>7, <1>8 DEF RecordSettle

LEMMA SettleReadOpenHeld == ASSUME Local, Held, Local', NEW c \in Calls, SettleReadOpen(c)
                            PROVE  Held'
<1>1. /\ call[c].pc = "settleRead" /\ call[c].mode \in {"open", "skip"} /\ Outside /\ Stores
      /\ call[c].got # "paid" /\ ~call[c].paid
  BY CallNow DEF SettleReadOpen, At, Fits, Gets
<1>2. Owns(call[c]) /\ OwnerFits(call[c], entry, offer, terms)
  BY <1>1 DEF Owns, GrantedPCs, Held, CallsFit
<1>3. CASE Refuse(c)
  BY <1>1, <1>2, <1>3, OwnerAnswers DEF Refuse, Outcomes
<1>4. CASE ~entry.unknown /\ call[c].mode = "skip" /\ CancelAnd(c, TRUE)
  <2>1. Alone(c) /\ call'[c].pc = "cancel" /\ Same(c)
    BY <1>4, CancelsAnd
  <2>2. OwnerFits(call'[c], entry, offer, terms)
    BY <1>1, <1>2, <1>4, <2>1 DEF OwnerFits, Same, Cleaning
  <2>3. ~Aware(call[c], entry)
    BY <1>1, <1>4 DEF Aware
  <2>4. QED BY <1>1, <1>2, <2>1, <2>2, <2>3, OwnerMoves DEF Same, Checked
<1>5. CASE ~entry.unknown /\ call[c].mode = "open" /\ Goto(c, "cleanOffer")
  <2>1. Alone(c) /\ call'[c].pc = "cleanOffer" /\ Same(c)
    BY <1>5, Goes
  <2>2. OwnerFits(call'[c], entry, offer, terms)
    BY <1>1, <1>2, <1>5, <2>1 DEF OwnerFits, Same, Cleaning
  <2>3. ~Aware(call[c], entry)
    BY <1>1, <1>5 DEF Aware
  <2>4. QED BY <1>1, <1>2, <2>1, <2>2, <2>3, OwnerMoves DEF Same, Checked
<1>6. QED BY <1>1, <1>3, <1>4, <1>5 DEF SettleReadOpen

LEMMA SettleReadFinishHeld == ASSUME Local, Held, Local', NEW c \in Calls, SettleReadFinish(c)
                              PROVE  Held'
<1>1. /\ call[c].pc = "settleRead" /\ call[c].mode \in {"settle", "abort"} /\ Outside /\ Stores
      /\ call[c].got # "paid" /\ ~call[c].paid /\ call[c] \in Call
  BY CallNow DEF SettleReadFinish, At, Fits, Gets
<1>2. Owns(call[c]) /\ OwnerFits(call[c], entry, offer, terms)
  BY <1>1 DEF Owns, GrantedPCs, Held, CallsFit
<1>3. CASE Answer(c, "failed")
  BY <1>1, <1>2, <1>3, OwnerAnswers DEF Outcomes
<1>4. CASE Become(c, [call[c] EXCEPT !.pc = "closeRead", !.mode = "settle",
                                     !.from = entry.status, !.free = ~entry.unknown])
  <2>1. /\ Alone(c)
        /\ call'[c] = [call[c] EXCEPT !.pc = "closeRead", !.mode = "settle",
                                      !.from = entry.status, !.free = ~entry.unknown]
    BY <1>4, BecomesAlone
  <2>2. /\ call'[c].pc = "closeRead" /\ call'[c].msg = call[c].msg /\ call'[c].mode = "settle"
        /\ call'[c].paid = call[c].paid /\ call'[c].got = call[c].got
        /\ call'[c].free = ~entry.unknown
    BY <1>1, <2>1 DEF Call
  <2>3. OwnerFits(call'[c], entry, offer, terms)
    BY <1>1, <1>2, <2>2 DEF OwnerFits, Cleaning
  <2>4. Aware(call[c], entry) => Aware(call'[c], entry)
    BY <1>1, <2>2 DEF Aware
  <2>5. QED BY <1>1, <1>2, <2>1, <2>2, <2>3, <2>4, OwnerMoves DEF Checked
<1>5. QED BY <1>3, <1>4 DEF SettleReadFinish
-----------------------------------------------------------------------------
(* What the host does with an obligation. *)

LEMMA WorkingHeld == ASSUME Local, Held, Local', NEW c \in Calls,
                            FinishWork(c) \/ AbortWork(c) \/ LapseWork(c)
                     PROVE  Held'
<1>1. /\ call[c].pc = "working" /\ Outside /\ Stores /\ call[c] \in Call
      /\ call[c].mode = "open" /\ call[c].got \in {"none", "paid"}
      /\ call[c].paid <=> call[c].got = "paid"
  BY CallNow DEF FinishWork, AbortWork, LapseWork, At, Fits, Gets, Ends
<1>2. Owns(call[c]) /\ OwnerFits(call[c], entry, offer, terms)
  BY <1>1 DEF Owns, GrantedPCs, Held, CallsFit
<1>3. ASSUME Alone(c), call'[c].msg = call[c].msg, call'[c].got = call[c].got,
             call'[c].paid = call[c].paid, call'[c].mode # "skip",
             \/ call'[c].pc = "cleanOffer" /\ call[c].paid
             \/ call'[c].pc \in {"settle", "settleRead", "closeRead"} /\ ~call[c].paid
      PROVE  Held'
  <2>1. OwnerFits(call'[c], entry, offer, terms)
    BY <1>1, <1>2, <1>3 DEF OwnerFits, Cleaning
  <2>2. Aware(call[c], entry) => Aware(call'[c], entry)
    BY <1>1, <1>3 DEF Aware
  <2>3. QED BY <1>1, <1>2, <1>3, <2>1, <2>2, OwnerMoves DEF Checked
<1>4. ASSUME NEW pc \in {"cleanOffer", "settle", "settleRead"},
             Become(c, [call[c] EXCEPT !.pc = pc, !.mode = "settle"]),
             pc = "cleanOffer" <=> call[c].paid
      PROVE  Held'
  <2>1. Alone(c) /\ call'[c] = [call[c] EXCEPT !.pc = pc, !.mode = "settle"]
    BY <1>4, BecomesAlone
  <2>2. QED BY <1>1, <1>3, <1>4, <2>1 DEF Call
<1>5. ASSUME NEW mode \in {"abort", "lapse"}, ~call[c].paid,
             Become(c, [call[c] EXCEPT !.pc = "closeRead", !.mode = mode, !.from = "verified"])
      PROVE  Held'
  <2>1. /\ Alone(c)
        /\ call'[c] = [call[c] EXCEPT !.pc = "closeRead", !.mode = mode, !.from = "verified"]
    BY <1>5, BecomesAlone
  <2>2. QED BY <1>1, <1>3, <1>5, <2>1 DEF Call
<1>6. terms.scheme \in {"upto", "batch"} => ~call[c].paid
  BY CallNow DEF Fits, Gets, BeforeWork
<1>7. CASE FinishWork(c)
  BY <1>4, <1>6, <1>7 DEF FinishWork
<1>8. CASE AbortWork(c)
  BY <1>4, <1>5, <1>8 DEF AbortWork
<1>9. CASE LapseWork(c)
  BY <1>5, <1>9 DEF LapseWork
<1>10. QED BY <1>7, <1>8, <1>9

(* The closing of a delivery: what its answer leads to, once the entry is as it  *)
(* will be; an attempt that is let go is closed.                                 *)
LEMMA ClosingHeld == ASSUME Local, Held, Local', NEW c \in Calls, Outside, UNCHANGED offer,
                            call[c].pc \in {"closeRead", "closeWrite"},
                            entry'.status = entry.status, entry'.unknown = entry.unknown,
                            entry'.started = entry.started, entry'.timing = entry.timing,
                            entry.closed => entry'.closed,
                            \/ Published(c) \/ (Unpublished(c) /\ entry'.closed) \/ Thrown(c)
                            \/ \E pc \in {"closeRead", "closeWrite"} : Goto(c, pc)
                     PROVE  Held'
<1>1. /\ call[c].mode \in {"settle", "abort", "lapse"} /\ call[c].got # "paid" /\ ~call[c].paid
      /\ call[c] \in Call
  BY CallNow DEF Fits, Gets, Ends
<1>2. Owns(call[c]) /\ OwnerFits(call[c], entry, offer, terms)
  BY DEF Owns, GrantedPCs, Held, CallsFit
<1>3. offer = "claimed" /\ entry.status \notin {"absent", "completed"}
  BY <1>1, <1>2 DEF OwnerFits
<1>4. ASSUME Alone(c), call'[c].pc = "idle" \/ call'[c].msg = call[c].msg,
             call'[c].pc \notin Checked,
             Owns(call'[c]) => OwnerFits(call'[c], entry', offer, terms),
             Owns(call'[c]) /\ Aware(call[c], entry) => Aware(call'[c], entry')
      PROVE  Held'
  <2>1. ShownFits'
    BY <1>3 DEF Held, ShownFits, Shut, Outside
  <2>2. QED BY <1>2, <1>3, <1>4, <2>1, OwnerWrites DEF Shut
<1>5. ASSUME NEW out \in Outcomes, Answer(c, out) PROVE Held'
  <2>1. Alone(c) /\ call'[c].pc = "idle"
    BY <1>5, Answered
  <2>2. QED BY <1>4, <2>1, IdleOwnsNothing DEF Checked
<1>6. ASSUME NEW pc \in {"settle", "closeRead", "closeWrite", "cancel", "cleanOffer"}, Goto(c, pc),
             pc = "settle" => call[c].mode # "settle",
             pc \in {"cancel", "cleanOffer"} => entry'.closed,
             pc = "cancel" => call[c].mode = "settle" /\ call[c].free,
             pc = "cleanOffer" => call[c].mode # "settle"
      PROVE  Held'
  <2>1. Alone(c) /\ call'[c].pc = pc /\ Same(c) /\ call'[c].free = call[c].free
    BY <1>6, Goes
  <2>2. OwnerFits(call'[c], entry', offer, terms)
    BY <1>1, <1>2, <1>3, <1>6, <2>1 DEF OwnerFits, Same, Fresh, Cleaning
  <2>3. Aware(call[c], entry) => Aware(call'[c], entry')
    BY <1>1, <1>6, <2>1 DEF Aware, Same
  <2>4. QED BY <1>4, <1>6, <2>1, <2>2, <2>3 DEF Same, Checked
<1>7. CASE Published(c)
  BY <1>1, <1>5, <1>6, <1>7 DEF Published, Outcomes
<1>8. CASE Unpublished(c) /\ entry'.closed
  <2>1. CASE call[c].mode = "abort" /\ CancelAnd(c, TRUE)
    <3>1. Alone(c) /\ call'[c].pc = "cancel" /\ Same(c)
      BY <2>1, CancelsAnd
    <3>2. OwnerFits(call'[c], entry', offer, terms)
      BY <1>1, <1>2, <1>3, <1>8, <2>1, <3>1 DEF OwnerFits, Same, Fresh, Cleaning
    <3>3. ~Aware(call[c], entry)
      BY <2>1 DEF Aware
    <3>4. QED BY <1>4, <3>1, <3>2, <3>3 DEF Same, Checked
  <2>2. CASE call[c].mode = "settle" \/ Goto(c, "cleanOffer")
    BY <1>1, <1>5, <1>6, <1>8, <2>2 DEF Unpublished, Outcomes
  <2>3. QED BY <1>1, <1>8, <2>1, <2>2 DEF Unpublished
<1>9. CASE Thrown(c)
  BY <1>1, <1>5, <1>9 DEF Thrown, Outcomes
<1>10. QED BY <1>6, <1>7, <1>8, <1>9

LEMMA CloseReadHeld == ASSUME Local, Held, Local', NEW c \in Calls, CloseRead(c) PROVE Held'
<1>1. /\ call[c].pc = "closeRead" /\ Outside /\ entry' = entry /\ offer' = offer
  BY DEF CloseRead, At, Stores
<1>2. entry.status # "absent"
  BY <1>1 DEF Held, CallsFit, OwnerFits, Owns, GrantedPCs
<1>3. \/ Published(c) \/ (Unpublished(c) /\ entry.closed) \/ Thrown(c) \/ Goto(c, "closeWrite")
  BY <1>2 DEF CloseRead, Is
<1>4. QED BY <1>1, <1>3, ClosingHeld

LEMMA CloseWriteHeld == ASSUME Local, Held, Local', NEW c \in Calls, CloseWrite(c) PROVE Held'
<1>1. call[c].pc = "closeWrite" /\ Outside /\ offer' = offer
  BY DEF CloseWrite, At
<1>2. CASE entry' = WithClosed(entry) /\ Unpublished(c)
  <2>1. /\ entry'.status = entry.status /\ entry'.unknown = entry.unknown
        /\ entry'.started = entry.started /\ entry'.timing = entry.timing /\ entry'.closed
    BY <1>2 DEF WithClosed, Local, TypeOK, Entry
  <2>2. QED BY <1>1, <1>2, <2>1, ClosingHeld
<1>3. CASE UNCHANGED entry /\ Goto(c, "closeRead")
  BY <1>1, <1>3, ClosingHeld
<1>4. QED BY <1>2, <1>3 DEF CloseWrite
-----------------------------------------------------------------------------
(* Cleaning up: a message without payment does it alone, an owner when nothing   *)
(* is owed or when the entry keeps the evidence.                                 *)

LEMMA CleanOfferHeld == ASSUME Local, Held, Local', NEW c \in Calls, CleanOffer(c) PROVE Held'
<1>1. /\ call[c].pc = "cleanOffer" /\ Outside /\ entry' = entry /\ offer' \in {offer, "absent"}
      /\ call[c] \in Call /\ Fits(call[c], terms, charges)
  BY CallNow DEF CleanOffer, At
<1>2. CASE call[c].msg \in Asks
  <2>1. PICK free : Become(c, [call[c] EXCEPT !.pc = "cleanEntry", !.free = free])
    BY <1>1, <1>2 DEF CleanOffer, Fits, Carries
  <2>2. Alone(c) /\ call'[c] = [call[c] EXCEPT !.pc = "cleanEntry", !.free = free]
    BY <2>1, BecomesAlone
  <2>3. call'[c].pc = "cleanEntry" /\ call'[c].msg = call[c].msg
    BY <1>1, <2>2 DEF Call
  <2>4. QED BY <1>1, <1>2, <2>2, <2>3, AskWrites DEF Cleaning, Outside
<1>3. CASE call[c].msg \notin Asks
  <2>1. Owns(call[c]) /\ OwnerFits(call[c], entry, offer, terms)
    BY <1>1, <1>3 DEF Owns, Cleaning, Held, CallsFit
  <2>2. offer' # "available" /\ entry.status # "absent"
    BY <1>1, <2>1 DEF OwnerFits
  <2>3. call[c].mode = "open" => call[c].got = "paid" \/ BeforeWork(terms)
    BY <1>1, <1>3 DEF Fits, Ends, Cleaning
  <2>4. call[c].mode \in {"settle", "skip"} \/ call[c].paid => call[c].got = "paid"
    BY <1>1 DEF Fits, Gets
  <2>5. BeforeWork(terms) \/ Ending(entry) \/ entry.closed
    BY <1>1, <2>1, <2>3, <2>4 DEF OwnerFits, Call, Modes, Cleaning
  <2>6. ShownFits'
    BY <1>1, <2>5 DEF Held, ShownFits, Shut, Outside
  <2>7. ASSUME Alone(c), call'[c].pc = "idle" \/ call'[c].msg = call[c].msg,
               call'[c].pc \notin Checked,
               Owns(call'[c]) => OwnerFits(call'[c], entry', offer', terms),
               call[c].got = "paid" /\ Owns(call'[c]) => Aware(call'[c], entry')
        PROVE  Held'
    <3>1. Aware(call[c], entry) => call[c].got = "paid" /\ Ending(entry)
      BY <1>1, <2>1 DEF Aware, OwnerFits
    <3>2. QED BY <1>1, <2>1, <2>2, <2>6, <2>7, <3>1, OwnerWrites DEF Shut
  <2>8. CASE /\ call[c].got # "paid" /\ call[c].mode \notin {"settle", "skip"} /\ ~call[c].paid
             /\ \E free : Become(c, [call[c] EXCEPT !.pc = "cleanEntry", !.free = free])
    <3>1. PICK free : Become(c, [call[c] EXCEPT !.pc = "cleanEntry", !.free = free])
      BY <2>8
    <3>2. Alone(c) /\ call'[c] = [call[c] EXCEPT !.pc = "cleanEntry", !.free = free]
      BY <3>1, BecomesAlone
    <3>3. call'[c].pc = "cleanEntry" /\ Same(c)
      BY <1>1, <3>2 DEF Call, Same
    <3>4. OwnerFits(call'[c], entry', offer', terms)
      BY <1>1, <2>1, <2>2, <2>8, <3>3 DEF OwnerFits, Same, Cleaning
    <3>5. QED BY <2>7, <2>8, <3>2, <3>3, <3>4 DEF Same, Checked
  <2>9. CASE /\ call[c].got = "paid" /\ call[c].mode = "open"
             /\ Become(c, [call[c] EXCEPT !.pc = "working", !.paid = TRUE, !.out = "proceed"])
    <3>1. /\ Alone(c)
          /\ call'[c] = [call[c] EXCEPT !.pc = "working", !.paid = TRUE, !.out = "proceed"]
      BY <2>9, BecomesAlone
    <3>2. /\ call'[c].pc = "working" /\ call'[c].msg = call[c].msg /\ call'[c].paid
          /\ call'[c].mode = "open" /\ call'[c].got = "paid"
      BY <1>1, <2>9, <3>1 DEF Call
    <3>3. OwnerFits(call'[c], entry', offer', terms) /\ Aware(call'[c], entry')
      BY <1>1, <2>1, <2>2, <2>9, <3>2 DEF OwnerFits, Aware, Cleaning
    <3>4. QED BY <2>7, <3>1, <3>2, <3>3 DEF Checked
  <2>10. ASSUME NEW out \in {"handled", "settled"}, Answer(c, out) PROVE Held'
    <3>1. Alone(c) /\ call'[c].pc = "idle"
      BY <2>10, Answered DEF Outcomes
    <3>2. QED BY <2>7, <3>1, IdleOwnsNothing DEF Checked
  <2>11. QED BY <2>4, <2>8, <2>9, <2>10 DEF CleanOffer
<1>4. QED BY <1>2, <1>3

LEMMA CleanEntryHeld == ASSUME Local, Held, Local', NEW c \in Calls, CleanEntry(c) PROVE Held'
<1>1. /\ call[c].pc = "cleanEntry" /\ Outside /\ entry' \in {entry, NoEntry} /\ offer' = offer
      /\ call[c] \in Call /\ Fits(call[c], terms, charges)
  BY CallNow DEF CleanEntry, At
<1>2. \E out \in Outcomes : Answer(c, out)
  BY DEF CleanEntry, Thrown, Outcomes
<1>3. Alone(c) /\ call'[c].pc = "idle" /\ call'[c].msg = "none" /\ ~Owns(call'[c])
  BY <1>2, Answered, IdleOwnsNothing
<1>4. CASE call[c].msg \in Asks
  BY <1>1, <1>3, <1>4, AskWrites DEF Cleaning, Outside
<1>5. CASE call[c].msg \notin Asks
  <2>1. Owns(call[c]) /\ OwnerFits(call[c], entry, offer, terms)
    BY <1>1, <1>5 DEF Owns, Cleaning, Held, CallsFit
  <2>2. offer # "available" /\ ~Aware(call[c], entry) /\ call[c].got # "paid"
    BY <1>1, <2>1 DEF OwnerFits, Aware, Fits, Gets
  <2>3. BeforeWork(terms) \/ entry.closed
    BY <1>1, <1>5, <2>1, <2>2 DEF OwnerFits, Fits, Ends, Cleaning
  <2>4. ~BeforeWork(terms) => ~shown
    BY <2>3 DEF Held, ShownFits, Local, TypeOK
  <2>5. entry' = entry \/ entry'.timing = "none"
    BY <1>1 DEF NoEntry
  <2>6. ShownFits'
    BY <1>1, <2>3, <2>4, <2>5 DEF ShownFits, Outside
  <2>7. QED BY <1>1, <1>3, <2>1, <2>2, <2>6, OwnerWrites DEF Checked
<1>6. QED BY <1>4, <1>5
-----------------------------------------------------------------------------
(* The publishers, and the rest of the world. *)

LEMMA DeliveryHeld == ASSUME Local, Held, NEW d \in Publishers, DeliveryStep(d)
                      PROVE  Held'
<1>1. UNCHANGED <<terms, offer, call, charges, unsaid>>
  BY DEF DeliveryStep, AskDelivery, ReadDelivery, WriteDelivery, Elsewhere
<1>2. /\ entry'.status = entry.status /\ entry'.timing = entry.timing
      /\ entry'.closed = entry.closed /\ entry'.unknown = entry.unknown
      /\ entry.started => entry'.started
      /\ shown' => shown \/ entry'.started
  BY DEF DeliveryStep, AskDelivery, ReadDelivery, WriteDelivery, WithStarted, Local, TypeOK, Entry
<1>3. AskAlone' /\ OneOwner' /\ CompletedShut' /\ PaidOnce' /\ ShownFits'
  BY <1>1, <1>2 DEF Held, AskAlone, Live, At, OneOwner, CompletedShut, PaidOnce, Moved, ShownFits,
                    Shut, Ending
<1>4. CallsFit'
  BY <1>1, <1>2 DEF Held, CallsFit, OwnerFits, AskFits, CheckedFits, Ending, Fresh
<1>5. Spent'
  BY <1>1, <1>2 DEF Held, Spent, Aware, Shut, Ending
<1>6. QED BY <1>3, <1>4, <1>5 DEF Held

(* When no call is in flight, only what the stores keep matters. *)
LEMMA AllIdleHeld == ASSUME \A c \in Calls : call'[c].pc = "idle" /\ call'[c].msg = "none",
                            CompletedShut', PaidOnce', ShownFits',
                            ~unsaid' /\ AnyMoved(charges') => Shut(entry', offer') /\ offer' # "available"
                     PROVE  Held'
<1>1. \A c \in Calls : ~Owns(call'[c])
  BY IdleOwnsNothing
<1>2. CallsFit'
  BY <1>1, IdleOwnsNothing DEF CallsFit, OwnerFits
<1>3. AskAlone' /\ OneOwner' /\ Spent'
  BY <1>1 DEF AskAlone, Live, At, OneOwner, Spent
<1>4. QED BY <1>2, <1>3 DEF Held

LEMMA ExpireHeld == ASSUME Local, Held, Expire PROVE Held'
<1>1. \A c \in Calls : call'[c].pc = "idle" /\ call'[c].msg = "none"
  BY DEF Expire, At, Local, CallFits, Fits, Carries
<1>2. \A p \in Payments : ~(charges'[p] > 0)
  BY DEF Expire
<1>3. CompletedShut' /\ PaidOnce' /\ ShownFits' /\ ~AnyMoved(charges')
  BY <1>2 DEF Expire, CompletedShut, PaidOnce, Moved, ShownFits, AnyMoved, NoEntry
<1>4. QED BY <1>1, <1>3, AllIdleHeld

LEMMA CrashHeld == ASSUME Local, Held, Crash PROVE Held'
<1>1. \A c \in Calls : call'[c].pc = "idle" /\ call'[c].msg = "none"
  BY IdleType DEF Crash
<1>2. UNCHANGED <<terms, entry, offer, charges, shown, unsaid>>
  BY DEF Crash
<1>3. CompletedShut' /\ PaidOnce' /\ ShownFits'
  BY <1>2 DEF Held, CompletedShut, PaidOnce, Moved, ShownFits
<1>4. ~unsaid' /\ AnyMoved(charges') => Shut(entry', offer') /\ offer' # "available"
  BY <1>2 DEF Held, Spent
<1>5. QED BY <1>1, <1>3, <1>4, AllIdleHeld

LEMMA InitHeld == Init => Held
<1> SUFFICES ASSUME Init PROVE Held
  OBVIOUS
<1>1. \A c \in Calls : call[c].pc = "idle" /\ call[c].msg = "none"
  BY IdleType DEF Init
<1>2. \A c \in Calls : ~Owns(call[c])
  BY <1>1, IdleOwnsNothing
<1>3. CallsFit
  BY <1>1, <1>2, IdleOwnsNothing DEF CallsFit, OwnerFits
<1>4. AskAlone /\ OneOwner
  BY <1>1, <1>2 DEF AskAlone, Live, At, OneOwner
<1>5. \A p \in Payments : ~(charges[p] > 0)
  BY DEF Init
<1>6. CompletedShut /\ Spent /\ PaidOnce /\ ShownFits
  BY <1>5 DEF Init, CompletedShut, Spent, PaidOnce, Moved, ShownFits, AnyMoved, NoEntry
<1>7. QED BY <1>3, <1>4, <1>6 DEF Held

LEMMA NextHeld == ASSUME ~LateAsks, Local, Held, [Next]_vars PROVE Held'
<1>1. Local'
  BY NextLocal
<1>2. ASSUME NEW c \in Calls, OpenStep(c) PROVE Held'
  BY <1>1, <1>2, SubmitsHeld, ReadReplayHeld, ReadClaimStatusHeld, ClassifyHeld,
     RecordClassifyHeld, SelectTermsHeld, VerifyHeld, RecordVerifyHeld, ClaimHeld, CancelHeld,
     ReleaseHeld, AuditHeld, AuditReadHeld, AskingHeld DEF OpenStep
<1>3. ASSUME NEW c \in Calls, SettleStep(c) PROVE Held'
  BY <1>1, <1>3, SettleHeld, RecordSettleHeld, SettleReadOpenHeld, SettleReadFinishHeld,
     WorkingHeld, CloseReadHeld, CloseWriteHeld, CleanOfferHeld, CleanEntryHeld DEF SettleStep
<1>4. CASE UNCHANGED vars
  <2>1. AskAlone' /\ OneOwner' /\ CompletedShut' /\ PaidOnce' /\ ShownFits'
    BY <1>4 DEF vars, Held, AskAlone, Live, At, OneOwner, CompletedShut, PaidOnce, Moved, ShownFits
  <2>2. CallsFit' /\ Spent'
    BY <1>4 DEF vars, Held, CallsFit, Spent
  <2>3. QED BY <2>1, <2>2 DEF Held
<1>5. QED BY <1>2, <1>3, <1>4, DeliveryHeld, ExpireHeld, CrashHeld DEF Next

(* Who owns the entry: the one submission that verifies, works, settles or cleans *)
(* up, while no message without payment overlaps with one (context.ts).         *)
THEOREM HeldInv == ASSUME ~LateAsks PROVE Spec => []Held
<1>1. Local /\ Held /\ [Next]_vars => Held'
  BY NextHeld
<1>2. QED BY <1>1, InitHeld, LocalInv, PTL DEF Spec

(* OneWorker: no release, clean-up or retry of the gate frees a claim that another *)
(* submission works under, while no message without payment overlaps with one.     *)
THEOREM OneWorks == ASSUME ~LateAsks PROVE Spec => []OneWorker
<1>1. Held => OneWorker
  BY DEF Held, OneOwner, OneWorker, Granted, Owns, GrantedPCs
<1>2. QED BY <1>1, HeldInv, PTL

(* PaidOnce: however submissions, verifications, faults and restarts interleave,   *)
(* money moves at most once for the task's offering, unless a record of an unknown *)
(* settlement was overwritten; while no message without payment overlaps with one. *)
THEOREM MoneyMovesOnce == ASSUME ~LateAsks PROVE Spec => []PaidOnce
<1>1. Held => PaidOnce
  BY DEF Held
<1>2. QED BY <1>1, HeldInv, PTL
-----------------------------------------------------------------------------
(* A step of a call is its own. *)

LEMMA StepsAlone == ASSUME Local, NEW c \in Calls, OpenStep(c) \/ SettleStep(c)
                    PROVE  Alone(c)
<1> DEFINE Steps == \E f : Become(c, f)
<1>1. Steps => Alone(c)
  BY BecomesAlone
<1>2. /\ \A pc : Goto(c, pc) => Steps
      /\ \A out : Answer(c, out) => Steps
      /\ \A free : CancelAnd(c, free) => Steps
      /\ \A f : Become(c, f) => Steps
  BY DEF Goto, Answer, CancelAnd
<1> HIDE DEF Steps
<1>3. /\ Refuse(c) => Steps
      /\ Thrown(c) => Steps
      /\ Published(c) => Steps
      /\ Unpublished(c) => Steps
  BY <1>2 DEF Refuse, Thrown, Published, Unpublished
<1>4. ASSUME OpenStep(c) PROVE Steps
  BY <1>2, <1>3, <1>4
     DEF OpenStep, Submits, ReadReplay, ReadClaimStatus, Classify, RecordClassify, SelectTerms,
         Verify, RecordVerify, Claim, Cancel, Release, Audit, AuditRead, GetTerms, Publish,
         PutEntry, Revoke
<1>5. ASSUME SettleStep(c) PROVE Steps
  BY <1>2, <1>3, <1>5
     DEF SettleStep, Settle, RecordSettle, SettleReadOpen, SettleReadFinish, FinishWork, AbortWork,
         LapseWork, CloseRead, CloseWrite, CleanOffer, CleanEntry
<1>6. QED BY <1>1, <1>4, <1>5
-----------------------------------------------------------------------------
(* What was shown is not let go unpaid. *)

LetGo(c) == call'[c].pc = "idle" /\ call'[c].out \in {"aborted", "lapsed"}

LEMMA NotLetGo == ASSUME Local, NEW c \in Calls
                  PROVE  /\ \A out \in Outcomes \ {"aborted", "lapsed"} : Answer(c, out) => ~LetGo(c)
                         /\ \A pc : pc # "idle" /\ Goto(c, pc) => ~LetGo(c)
                         /\ \A free : CancelAnd(c, free) => ~LetGo(c)
                         /\ \A f \in Call : f.pc # "idle" /\ Become(c, f) => ~LetGo(c)
                         /\ Refuse(c) \/ Thrown(c) => ~LetGo(c)
<1>1. ASSUME NEW out \in Outcomes \ {"aborted", "lapsed"}, Answer(c, out) PROVE ~LetGo(c)
  BY <1>1, Answered DEF LetGo
<1>2. ASSUME NEW pc, pc # "idle", Goto(c, pc) PROVE ~LetGo(c)
  BY <1>2, Goes DEF LetGo
<1>3. ASSUME NEW free, CancelAnd(c, free) PROVE ~LetGo(c)
  BY <1>3, CancelsAnd DEF LetGo
<1>4. ASSUME NEW f \in Call, f.pc # "idle", Become(c, f) PROVE ~LetGo(c)
  BY <1>4, BecomesAlone DEF LetGo
<1>5. Refuse(c) \/ Thrown(c) => ~LetGo(c)
  <2>1. {"refused", "failed"} \subseteq Outcomes \ {"aborted", "lapsed"}
    BY DEF Outcomes
  <2>2. QED BY <1>1, <2>1 DEF Refuse, Thrown
<1>6. QED BY <1>1, <1>2, <1>3, <1>4, <1>5

(* A record update that moves a call on does not end it. *)
LEMMA MovesOn == ASSUME Local, NEW c \in Calls, NEW pc \in PCs \ {"idle"}
                 PROVE  /\ \A mode \in Modes : Become(c, [call[c] EXCEPT !.pc = pc, !.mode = mode])
                              => ~LetGo(c)
                        /\ \A got : Become(c, [call[c] EXCEPT !.pc = pc, !.got = got]) => ~LetGo(c)
                        /\ \A free : Become(c, [call[c] EXCEPT !.pc = pc, !.free = free]) => ~LetGo(c)
                        /\ \A free : Become(c, [call[c] EXCEPT !.free = free, !.pc = pc]) => ~LetGo(c)
                        /\ \A got, out : Become(c, [call[c] EXCEPT !.pc = pc, !.got = got, !.out = out])
                              => ~LetGo(c)
                        /\ \A paid, out : Become(c, [call[c] EXCEPT !.pc = pc, !.paid = paid, !.out = out])
                              => ~LetGo(c)
                        /\ \A mode, from : Become(c, [call[c] EXCEPT !.pc = pc, !.mode = mode,
                                                                    !.from = from]) => ~LetGo(c)
                        /\ \A mode, from, free :
                              Become(c, [call[c] EXCEPT !.pc = pc, !.mode = mode, !.from = from,
                                                        !.free = free]) => ~LetGo(c)
<1>1. call[c] \in Call
  BY CallNow
<1>2. ASSUME NEW f, f.pc = pc, Become(c, f) PROVE ~LetGo(c)
  BY <1>2, BecomesAlone DEF LetGo
<1>3. QED BY <1>1, <1>2 DEF Call

LEMMA LettingGo == ASSUME Local, NEW c \in Calls, OpenStep(c) \/ SettleStep(c), LetGo(c)
                   PROVE  Cancel(c) \/ Release(c) \/ CleanEntry(c)
<1>0. /\ {"replayClaim", "getTerms", "recordClassify", "classify", "selectTerms", "verify",
          "recordVerify", "claim", "cancel", "audit", "auditRead", "locked", "put", "revoke",
          "settle", "recordSettle", "settleRead", "cleanOffer", "cleanEntry", "closeRead",
          "closeWrite", "working", "replay"} \subseteq PCs \ {"idle"}
      /\ {"refused", "request-payment", "handled", "settled", "failed", "published"}
           \subseteq Outcomes \ {"aborted", "lapsed"}
      /\ {"settle", "skip", "abort", "lapse"} \subseteq Modes
  BY DEF PCs, Outcomes, Modes
<1>1. ~\E m \in Messages : Submits(c, m)
  <2> SUFFICES ASSUME NEW m \in Messages, Submits(c, m) PROVE FALSE
    OBVIOUS
  <2>1. call'[c] = [Idle EXCEPT !.pc = "replay", !.msg = m]
    BY BecomesAlone DEF Submits
  <2>2. QED BY <2>1, IdleType DEF LetGo
<1>2. ~(ReadReplay(c) \/ ReadClaimStatus(c) \/ Classify(c) \/ RecordClassify(c) \/ SelectTerms(c)
        \/ RecordVerify(c) \/ GetTerms(c) \/ PutEntry(c) \/ RecordSettle(c) \/ Audit(c))
  BY <1>0, NotLetGo
     DEF ReadReplay, ReadClaimStatus, Classify, RecordClassify, SelectTerms, RecordVerify, GetTerms,
         PutEntry, RecordSettle, Audit
<1>3. ~(Verify(c) \/ Claim(c) \/ AuditRead(c) \/ Revoke(c) \/ Settle(c))
  BY <1>0, NotLetGo, MovesOn DEF Verify, Claim, AuditRead, Revoke, Settle, Goto
<1>4. ~Publish(c)
  BY <1>0, MovesOn DEF Publish
<1>5. ~(SettleReadOpen(c) \/ SettleReadFinish(c) \/ FinishWork(c) \/ AbortWork(c) \/ LapseWork(c))
  BY <1>0, NotLetGo, MovesOn
     DEF SettleReadOpen, SettleReadFinish, FinishWork, AbortWork, LapseWork
<1>6. ~(CloseRead(c) \/ CloseWrite(c))
  BY <1>0, NotLetGo DEF CloseRead, CloseWrite, Published, Unpublished
<1>7. ~CleanOffer(c)
  BY <1>0, NotLetGo, MovesOn DEF CleanOffer
<1>8. QED BY <1>1, <1>2, <1>3, <1>4, <1>5, <1>6, <1>7 DEF OpenStep, SettleStep

(* What lets an attempt go finds its delivery closed. *)
LEMMA LetGoClosed == ASSUME Local, Held, NEW c \in Calls, LetGo(c),
                            Cancel(c) \/ Release(c) \/ CleanEntry(c)
                     PROVE  ~shown
<1>1. /\ call[c] \in Call /\ Fits(call[c], terms, charges)
      /\ OwnerFits(call[c], entry, offer, terms)
      /\ call[c].pc \in {"cancel", "release", "cleanEntry"}
  BY CallNow DEF Held, CallsFit, Cancel, Release, CleanEntry, At
<1>2. call[c].mode \in {"abort", "lapse"}
  <2>1. {"refused", "failed"} \subseteq Outcomes \ {"aborted", "lapsed"}
    BY DEF Outcomes
  <2>2. \A pc : pc # "idle" => ~Goto(c, pc)
    BY NotLetGo
  <2>3. ~Answer(c, "refused") /\ ~Answer(c, "failed") /\ ~Thrown(c)
    BY <2>1, NotLetGo
  <2>4. CASE Cancel(c)
    BY <1>1, <2>2, <2>3, <2>4 DEF Cancel
  <2>5. CASE Release(c)
    BY <1>1, <2>3, <2>5 DEF Release
  <2>6. CASE CleanEntry(c)
    BY <1>1, <2>3, <2>6 DEF CleanEntry, At, Fits, Ends
  <2>7. QED BY <2>4, <2>5, <2>6
<1>3. Owns(call[c])
  BY <1>1, <1>2 DEF Owns, Fits, Ends, Carries, Cleaning
<1>4. entry.closed /\ ~BeforeWork(terms)
  BY <1>1, <1>2, <1>3 DEF OwnerFits, Fits, Ends, Gets, Cleaning
<1>5. QED BY <1>4 DEF Held, ShownFits, Local, TypeOK

(* ShownIsNotVoid: abort and lapse of an obligation race authorizeDelivery; once     *)
(* content is shown, no attempt is let go without asking for its money.              *)
THEOREM ShownIsPaidFor == ASSUME ~LateAsks PROVE Spec => ShownIsNotVoid
<1>1. ASSUME Local, Held, [Next]_vars
      PROVE  [\A c \in Calls : Live(c) /\ call'[c].pc = "idle" /\ call'[c].out \in {"aborted", "lapsed"}
               => ~shown]_vars
  <2> SUFFICES ASSUME Next, NEW c \in Calls, Live(c), LetGo(c) PROVE ~shown
    BY <1>1 DEF LetGo
  <2>1. ASSUME NEW d \in Calls, OpenStep(d) \/ SettleStep(d) PROVE ~shown
    <3>1. d = c
      BY <1>1, <2>1, StepsAlone DEF Alone, LetGo, Live, At
    <3>2. QED BY <1>1, <2>1, <3>1, LettingGo, LetGoClosed
  <2>2. ASSUME NEW d \in Publishers, DeliveryStep(d) PROVE FALSE
    BY <2>2 DEF DeliveryStep, AskDelivery, ReadDelivery, WriteDelivery, Elsewhere, LetGo, Live, At
  <2>3. ~Expire
    BY DEF Expire, LetGo, Live, At
  <2>4. ~Crash
    BY IdleType DEF Crash, LetGo
  <2>5. QED BY <2>1, <2>2, <2>3, <2>4 DEF Next
<1>2. QED BY <1>1, LocalInv, HeldInv, PTL DEF Spec, ShownIsNotVoid
-----------------------------------------------------------------------------
(* A completed entry is kept. *)

LEMMA UpdatesKeep == ASSUME NEW e \in Entry, e.status = "completed", NEW unknown
                     PROVE  /\ Verified(e) = e /\ Completed(e) = e /\ Failed(e, unknown) = e
                            /\ \A s : ClassifiedAs(e, s) = e
                            /\ \A t : WithTiming(e, t).status = "completed"
                            /\ WithStarted(e).status = "completed" /\ WithClosed(e).status = "completed"
BY DEF Verified, Completed, Failed, ClassifiedAs, UpdateIfStatus, Is, Open, Unverified, Entry,
       WithTiming, WithStarted, WithClosed

(* A completed entry is taken back by one thing only, whatever overlaps: the       *)
(* offering that a message without payment stores over it (context.ts:408), see the  *)
(* file lateask.cfg.  No submission, verification, settlement, closing or delivery *)
(* that was on its way when it completed changes its status.                        *)
THEOREM OnlyOffersTakeBack ==
  Spec => [][Is(entry, {"completed"}) =>
               \/ Is(entry', {"completed", "absent"})
               \/ \E c \in Calls : call[c].msg \in Asks /\ PutEntry(c)]_vars
<1>1. ASSUME Local, [Next]_vars
      PROVE  [Is(entry, {"completed"}) =>
                \/ Is(entry', {"completed", "absent"})
                \/ \E c \in Calls : call[c].msg \in Asks /\ PutEntry(c)]_vars
  <2> SUFFICES ASSUME Next, entry.status = "completed",
                      ~\E c \in Calls : call[c].msg \in Asks /\ PutEntry(c)
               PROVE  entry'.status \in {"completed", "absent"}
    BY <1>1 DEF Is
  <2>0. entry \in Entry
    BY <1>1 DEF Local, TypeOK
  <2>1. ASSUME NEW c \in Calls, OpenStep(c) PROVE entry'.status \in {"completed", "absent"}
    <3>1. CASE PutEntry(c)
      <4>1. call[c].msg \in Asks
        BY <1>1, <3>1, CallNow DEF PutEntry, At, Fits, Carries, Asking
      <4>2. QED BY <3>1, <4>1
    <3>2. CASE RecordClassify(c) \/ RecordVerify(c) \/ Audit(c)
      <4>1. CASE RecordClassify(c)
        BY <2>0, <4>1, UpdatesKeep DEF RecordClassify, Overwrite
      <4>2. CASE RecordVerify(c)
        BY <2>0, <4>2, UpdatesKeep DEF RecordVerify, Overwrite
      <4>3. CASE Audit(c)
        <5>1. WithTiming(entry, terms.delivery).status = "completed"
          BY <2>0, UpdatesKeep
        <5>2. entry' = entry \/ entry' = WithTiming(entry, terms.delivery)
          BY <4>3 DEF Audit
        <5>3. QED BY <5>1, <5>2
      <4>4. QED BY <3>2, <4>1, <4>2, <4>3
    <3>3. CASE ~(PutEntry(c) \/ RecordClassify(c) \/ RecordVerify(c) \/ Audit(c))
      <4>1. entry' = entry
        BY <2>1, <3>3
           DEF OpenStep, Stores, Submits, ReadReplay, ReadClaimStatus, Classify, SelectTerms, Verify,
               Claim, Cancel, Release, AuditRead, GetTerms, Publish, Revoke
      <4>2. QED BY <4>1
    <3>4. QED BY <3>1, <3>2, <3>3
  <2>2. ASSUME NEW c \in Calls, SettleStep(c) PROVE entry'.status \in {"completed", "absent"}
    <3>1. CASE RecordSettle(c) \/ CloseWrite(c) \/ CleanEntry(c)
      BY <2>0, <3>1, UpdatesKeep DEF RecordSettle, CloseWrite, CleanEntry, NoEntry
    <3>2. CASE ~(RecordSettle(c) \/ CloseWrite(c) \/ CleanEntry(c))
      <4>1. entry' = entry
        BY <2>2, <3>2
           DEF SettleStep, Stores, Settle, SettleReadOpen, SettleReadFinish, FinishWork, AbortWork,
               LapseWork, CloseRead, CleanOffer
      <4>2. QED BY <4>1
    <3>3. QED BY <3>1, <3>2
  <2>3. ASSUME NEW d \in Publishers, DeliveryStep(d) PROVE entry'.status = "completed"
    BY <2>0, <2>3, UpdatesKeep DEF DeliveryStep, AskDelivery, ReadDelivery, WriteDelivery
  <2>4. QED BY <2>1, <2>2, <2>3 DEF Next, Expire, Crash, NoEntry
<1>2. QED BY <1>1, LocalInv, PTL DEF Spec
-----------------------------------------------------------------------------
(* Who may hold a reservation of the payer's channel: a batch verification from its *)
(* answer on; not who was refused.                                                  *)

Holds(f, n) ==
  /\ f.pc \notin First \cup Asking \cup {"selectTerms", "verify", "release"}
  /\ f.msg \notin Asks
  /\ f.pc = "recordVerify" => f.got # "invalid"
  /\ f.pc = "idle" /\ n = 0 => f.out # "refused" \/ f.got = "unknown"

ReservedFits == reserved # {} => /\ terms.scheme = "batch"
                                /\ \A c \in reserved : Holds(call[c], faults)

LEMMA Reserves == ASSUME Local, ReservedFits, NEW c \in Calls, Alone(c), terms' = terms,
                         reserved' \subseteq reserved \cup {c}, faults' = 0 => faults = 0,
                         c \in reserved' => terms.scheme = "batch" /\ Holds(call'[c], faults')
                  PROVE  ReservedFits'
<1>1. \A d \in reserved' : terms.scheme = "batch" /\ Holds(call'[d], faults')
  <2> SUFFICES ASSUME NEW d \in reserved'
               PROVE  terms.scheme = "batch" /\ Holds(call'[d], faults')
    OBVIOUS
  <2>1. CASE d = c
    BY <2>1
  <2>2. CASE d # c
    <3>1. d \in reserved /\ d \in Calls /\ call'[d] = call[d]
      BY <2>2 DEF Alone, Local, TypeOK
    <3>2. QED BY <3>1 DEF ReservedFits, Holds
  <2>3. QED BY <2>1, <2>2
<1>2. QED BY <1>1 DEF ReservedFits

(* What a call that holds a reservation may become. *)
LEMMA HoldsOn == ASSUME Local, ReservedFits, NEW c \in Calls, c \in reserved
                 PROVE  /\ \A pc, n : /\ Goto(c, pc)
                                      /\ pc \notin First \cup Asking \cup Checked \cup {"release", "idle"}
                                      => Holds(call'[c], n)
                        /\ \A free, n : CancelAnd(c, free) => Holds(call'[c], n)
                        /\ \A out \in Outcomes : \A n :
                              Answer(c, out) /\ (out # "refused" \/ n # 0 \/ call[c].got = "unknown")
                              => Holds(call'[c], n)
                        /\ \A n : Thrown(c) /\ (n # 0 \/ call[c].mode \notin {"open", "skip"})
                              => Holds(call'[c], n)
<1>1. Holds(call[c], faults)
  BY DEF ReservedFits
<1>2. ASSUME NEW pc, NEW n, Goto(c, pc),
             pc \notin First \cup Asking \cup Checked \cup {"release", "idle"}
      PROVE  Holds(call'[c], n)
  BY <1>1, <1>2, Goes DEF Holds, Same, Checked
<1>3. ASSUME NEW free, NEW n, CancelAnd(c, free) PROVE Holds(call'[c], n)
  BY <1>1, <1>3, CancelsAnd DEF Holds, Same, First, Asking
<1>4. ASSUME NEW out \in Outcomes, NEW n, Answer(c, out),
             out # "refused" \/ n # 0 \/ call[c].got = "unknown"
      PROVE  Holds(call'[c], n)
  BY <1>4, Answered DEF Holds, First, Asking, Asks
<1>5. ASSUME NEW n, Thrown(c), n # 0 \/ call[c].mode \notin {"open", "skip"}
      PROVE  Holds(call'[c], n)
  <2>1. {"refused", "failed"} \subseteq Outcomes
    BY DEF Outcomes
  <2>2. QED BY <1>4, <1>5, <2>1 DEF Thrown
<1>6. QED BY <1>2, <1>3, <1>4, <1>5

LEMMA OpenReserves == ASSUME Local, ReservedFits, NEW c \in Calls, OpenStep(c)
                      PROVE  ReservedFits'
<1>0. Alone(c) /\ call[c] \in Call /\ Fits(call[c], terms, charges)
  BY StepsAlone, CallNow
<1>1. c \in reserved => Holds(call[c], faults)
  BY DEF ReservedFits
<1>2. /\ terms' = terms
      /\ reserved' \subseteq reserved \cup {c}
      /\ c \in reserved' => terms.scheme = "batch"
      /\ faults' = 0 => faults = 0
  <2>1. terms' = terms /\ (UNCHANGED faults \/ Fault)
    BY DEF OpenStep, Submits, ReadReplay, ReadClaimStatus, Classify, RecordClassify, SelectTerms,
       Verify, RecordVerify, Claim, Cancel, Release, Audit, AuditRead, GetTerms, Publish, PutEntry,
       Revoke, Overwrite, Outside
  <2>2. \/ reserved' = reserved \/ reserved' = reserved \ {c}
        \/ reserved' = reserved \cup {c} /\ terms.scheme = "batch"
    BY DEF OpenStep, Submits, ReadReplay, ReadClaimStatus, Classify, RecordClassify, SelectTerms,
       Verify, RecordVerify, Claim, Cancel, Release, Audit, AuditRead, GetTerms, Publish, PutEntry,
       Revoke, Overwrite
  <2>3. QED BY <2>1, <2>2 DEF Fault, ReservedFits, Local, TypeOK
<1>3. ASSUME c \in reserved' => Holds(call'[c], faults') PROVE ReservedFits'
  BY <1>0, <1>2, <1>3, Reserves
<1>4. CASE \E m \in Messages : Submits(c, m)
  BY <1>3, <1>4 DEF Submits
<1>5. CASE \/ ReadReplay(c) \/ ReadClaimStatus(c) \/ Classify(c) \/ RecordClassify(c)
           \/ SelectTerms(c) \/ Release(c) \/ GetTerms(c) \/ Publish(c) \/ PutEntry(c) \/ Revoke(c)
  <2>1. call[c].pc \in First \cup Asking \cup {"selectTerms", "release"} /\ reserved' = reserved
    BY <1>5 DEF ReadReplay, ReadClaimStatus, Classify, RecordClassify, SelectTerms, Release,
       GetTerms, Publish, PutEntry, Revoke, At, First, Asking, Overwrite
  <2>2. QED BY <1>1, <1>3, <2>1 DEF Holds
<1>6. CASE Verify(c)
  <2>1. call[c].pc = "verify" /\ c \notin reserved /\ call[c].msg \in Payments
    BY <1>0, <1>1, <1>6 DEF Verify, At, Holds, Fits, Carries, First, Asking, Cleaning
  <2>2. PICK got \in {"valid", "skip", "invalid"} :
          /\ Become(c, [call[c] EXCEPT !.pc = "recordVerify", !.got = got])
          /\ reserved' = IF terms.scheme = "batch" /\ got # "invalid" THEN reserved \cup {c}
                                                                     ELSE reserved
    BY <1>6 DEF Verify
  <2>3. call'[c] = [call[c] EXCEPT !.pc = "recordVerify", !.got = got]
    BY <2>2, BecomesAlone
  <2>4. call'[c].pc = "recordVerify" /\ call'[c].got = got /\ call'[c].msg = call[c].msg
    BY <1>0, <2>3 DEF Call
  <2>5. c \in reserved' => got # "invalid"
    BY <2>1, <2>2
  <2>6. QED BY <1>3, <2>1, <2>4, <2>5, NoPaymentAsks DEF Holds, First, Asking
<1>7. CASE RecordVerify(c)
  <2>1. c \in reserved => call[c].got # "invalid"
    BY <1>1, <1>7 DEF RecordVerify, At, Holds
  <2>2. c \in reserved => Goto(c, "claim") /\ reserved' = reserved
    BY <1>7, <2>1 DEF RecordVerify, Overwrite
  <2>3. c \in reserved => Holds(call'[c], faults')
    BY <1>1, <2>2, Goes DEF Holds, Same, First, Asking
  <2>4. reserved' = reserved
    BY <1>7 DEF RecordVerify, Overwrite
  <2>5. QED BY <1>3, <2>3, <2>4
<1>8. CASE Claim(c)
  <2>1. reserved' = reserved
    BY <1>8 DEF Claim
  <2>2. CASE Become(c, [call[c] EXCEPT !.pc = "settle", !.mode = "skip"])
    <3>1. call'[c] = [call[c] EXCEPT !.pc = "settle", !.mode = "skip"]
      BY <2>2, BecomesAlone
    <3>2. call'[c].pc = "settle" /\ call'[c].msg = call[c].msg
      BY <1>0, <3>1 DEF Call
    <3>3. QED BY <1>1, <1>3, <2>1, <3>2 DEF Holds, First, Asking
  <2>3. CASE Goto(c, "audit") \/ CancelAnd(c, FALSE)
    <3>1. "audit" \notin First \cup Asking \cup Checked \cup {"release", "idle"}
      BY DEF First, Asking, Checked
    <3>2. c \in reserved => Holds(call'[c], faults')
      BY <2>3, <3>1, HoldsOn
    <3>3. QED BY <1>3, <2>1, <3>2
  <2>4. QED BY <1>8, <2>2, <2>3 DEF Claim
<1>9. CASE Cancel(c)
  <2>1. CASE reserved' = reserved \ {c}
    BY <1>3, <2>1
  <2>2. CASE c \in reserved /\ Fault /\ Thrown(c)
    <3>1. faults' # 0
      BY <2>2 DEF Fault, Local, TypeOK
    <3>2. QED BY <1>3, <2>2, <3>1, HoldsOn
  <2>3. QED BY <1>9, <2>1, <2>2 DEF Cancel
<1>10. CASE Audit(c)
  <2>1. "auditRead" \notin First \cup Asking \cup Checked \cup {"release", "idle"}
    BY DEF First, Asking, Checked
  <2>2. c \in reserved => Holds(call'[c], faults')
    BY <1>10, <2>1, HoldsOn DEF Audit
  <2>3. QED BY <1>3, <1>10, <2>2 DEF Audit
<1>11. CASE AuditRead(c)
  <2>1. {"settle", "working"} \cap (First \cup Asking \cup Checked \cup {"release", "idle"}) = {}
    BY DEF First, Asking, Checked
  <2>2. CASE Become(c, [call[c] EXCEPT !.pc = "working", !.got = "none", !.out = "proceed"])
    <3>1. call'[c] = [call[c] EXCEPT !.pc = "working", !.got = "none", !.out = "proceed"]
      BY <2>2, BecomesAlone
    <3>2. call'[c].pc = "working" /\ call'[c].msg = call[c].msg
      BY <1>0, <3>1 DEF Call
    <3>3. QED BY <1>1, <1>3, <1>11, <3>2 DEF AuditRead, Holds, First, Asking
  <2>3. CASE Goto(c, "settle") \/ CancelAnd(c, TRUE)
    <3>1. c \in reserved => Holds(call'[c], faults')
      BY <2>1, <2>3, HoldsOn
    <3>2. QED BY <1>3, <1>11, <3>1 DEF AuditRead
  <2>4. QED BY <1>11, <2>2, <2>3 DEF AuditRead
<1>12. QED BY <1>4, <1>5, <1>6, <1>7, <1>8, <1>9, <1>10, <1>11 DEF OpenStep

LEMMA SettleReserves == ASSUME Local, Held, ReservedFits, NEW c \in Calls, SettleStep(c)
                        PROVE  ReservedFits'
<1>0. /\ Alone(c) /\ call[c] \in Call /\ Fits(call[c], terms, charges)
      /\ OwnerFits(call[c], entry, offer, terms)
  BY StepsAlone, CallNow DEF Held, CallsFit
<1>1. c \in reserved => Holds(call[c], faults) /\ terms.scheme = "batch"
  BY DEF ReservedFits
<1>2. terms' = terms /\ reserved' \subseteq reserved /\ (faults' = 0 => faults = 0)
  <2>1. terms' = terms /\ (UNCHANGED faults \/ Fault)
    BY DEF SettleStep, Settle, RecordSettle, SettleReadOpen, SettleReadFinish, FinishWork, AbortWork,
       LapseWork, CloseRead, CloseWrite, CleanOffer, CleanEntry, Outside
  <2>2. reserved' = reserved \/ reserved' = reserved \ {c}
    BY DEF SettleStep, Settle, RecordSettle, SettleReadOpen, SettleReadFinish, FinishWork, AbortWork,
       LapseWork, CloseRead, CloseWrite, CleanOffer, CleanEntry
  <2>3. QED BY <2>1, <2>2 DEF Fault, Local, TypeOK
<1>3. ASSUME c \in reserved => Holds(call'[c], faults') PROVE ReservedFits'
  BY <1>0, <1>1, <1>2, <1>3, Reserves
<1>4. {"settle", "recordSettle", "settleRead", "cleanOffer", "cleanEntry", "working", "closeRead",
       "closeWrite", "cancel"} \cap (First \cup Asking \cup Checked \cup {"release", "idle"}) = {}
  BY DEF First, Asking, Checked
<1>5. {"refused", "failed", "handled", "settled", "published", "lapsed", "aborted"} \subseteq Outcomes
  BY DEF Outcomes
<1>6. ASSUME NEW f, Become(c, f), f.msg = call[c].msg,
             f.pc \in {"settle", "recordSettle", "settleRead", "cleanOffer", "cleanEntry", "working",
                       "closeRead"}
      PROVE  ReservedFits'
  <2>1. call'[c] = f
    BY <1>6, BecomesAlone
  <2>2. c \in reserved => Holds(call'[c], faults')
    BY <1>1, <1>4, <1>6, <2>1 DEF Holds
  <2>3. QED BY <1>3, <2>2
<1>7. CASE Settle(c)
  <2>1. PICK got : Become(c, [call[c] EXCEPT !.pc = "recordSettle", !.got = got])
    BY <1>7 DEF Settle
  <2>2. QED BY <1>0, <1>6, <2>1 DEF Call
<1>8. CASE RecordSettle(c)
  <2>1. CASE Fault /\ Thrown(c)
    <3>1. faults' # 0
      BY <2>1 DEF Fault, Local, TypeOK
    <3>2. QED BY <1>3, <2>1, <3>1, HoldsOn
  <2>2. CASE Goto(c, "cleanOffer") \/ Goto(c, "settleRead")
    <3>1. c \in reserved => Holds(call'[c], faults')
      BY <1>4, <2>2, HoldsOn
    <3>2. QED BY <1>3, <3>1
  <2>3. QED BY <1>8, <2>1, <2>2 DEF RecordSettle
<1>9. CASE SettleReadOpen(c)
  <2>1. call[c].pc = "settleRead" /\ (entry.unknown => call[c].got = "unknown")
    BY <1>0, <1>9 DEF SettleReadOpen, At, Fits, Gets, OwnerFits, Owns, GrantedPCs
  <2>2. CASE entry.unknown /\ Refuse(c)
    BY <1>3, <1>5, <2>1, <2>2, HoldsOn DEF Refuse
  <2>3. CASE CancelAnd(c, TRUE) \/ Goto(c, "cleanOffer")
    <3>1. c \in reserved => Holds(call'[c], faults')
      BY <1>4, <2>3, HoldsOn
    <3>2. QED BY <1>3, <3>1
  <2>4. QED BY <1>9, <2>2, <2>3 DEF SettleReadOpen
<1>10. CASE SettleReadFinish(c)
  <2>1. CASE Answer(c, "failed")
    BY <1>3, <1>5, <2>1, HoldsOn
  <2>2. CASE Become(c, [call[c] EXCEPT !.pc = "closeRead", !.mode = "settle",
                                       !.from = entry.status, !.free = ~entry.unknown])
    BY <1>0, <1>6, <2>2 DEF Call
  <2>3. QED BY <1>10, <2>1, <2>2 DEF SettleReadFinish
<1>11. CASE FinishWork(c) \/ AbortWork(c) \/ LapseWork(c)
  <2>1. ASSUME NEW pc \in {"cleanOffer", "settle", "settleRead"},
               Become(c, [call[c] EXCEPT !.pc = pc, !.mode = "settle"])
        PROVE  ReservedFits'
    BY <1>0, <1>6, <2>1 DEF Call
  <2>2. ASSUME NEW mode,
               Become(c, [call[c] EXCEPT !.pc = "closeRead", !.mode = mode, !.from = "verified"])
        PROVE  ReservedFits'
    BY <1>0, <1>6, <2>2 DEF Call
  <2>3. QED BY <1>11, <2>1, <2>2 DEF FinishWork, AbortWork, LapseWork
<1>12. CASE CloseRead(c) \/ CloseWrite(c)
  <2>1. call[c].mode \notin {"open", "skip"}
    BY <1>0, <1>12 DEF CloseRead, CloseWrite, At, Fits, Ends
  <2>2. ASSUME NEW pc \in {"settle", "cancel", "cleanOffer", "closeRead", "closeWrite"}, Goto(c, pc)
        PROVE  ReservedFits'
    <3>1. c \in reserved => Holds(call'[c], faults')
      BY <1>4, <2>2, HoldsOn
    <3>2. QED BY <1>3, <3>1
  <2>3. ASSUME NEW out \in {"failed", "published"}, Answer(c, out) PROVE ReservedFits'
    BY <1>3, <1>5, <2>3, HoldsOn
  <2>4. CancelAnd(c, TRUE) \/ Thrown(c) => ReservedFits'
    BY <1>3, <2>1, HoldsOn
  <2>5. QED BY <1>12, <2>2, <2>3, <2>4 DEF CloseRead, CloseWrite, Published, Unpublished
<1>13. CASE CleanOffer(c)
  <2>1. ASSUME NEW free, Become(c, [call[c] EXCEPT !.pc = "cleanEntry", !.free = free])
        PROVE  ReservedFits'
    BY <1>0, <1>6, <2>1 DEF Call
  <2>2. ASSUME Become(c, [call[c] EXCEPT !.pc = "working", !.paid = TRUE, !.out = "proceed"])
        PROVE  ReservedFits'
    BY <1>0, <1>6, <2>2 DEF Call
  <2>3. Answer(c, "handled") \/ Answer(c, "settled") => ReservedFits'
    BY <1>3, <1>5, HoldsOn
  <2>4. QED BY <1>13, <2>1, <2>2, <2>3 DEF CleanOffer
<1>14. CASE CleanEntry(c)
  <2>1. c \in reserved => call[c].mode \in {"abort", "lapse"}
    BY <1>0, <1>1, <1>14 DEF CleanEntry, At, Fits, Ends, Holds, BeforeWork, Cleaning
  <2>2. c \in reserved => Holds(call'[c], faults')
    BY <1>5, <1>14, <2>1, HoldsOn DEF CleanEntry
  <2>3. QED BY <1>3, <2>2
<1>15. QED
  BY <1>7, <1>8, <1>9, <1>10, <1>11, <1>12, <1>13, <1>14 DEF SettleStep

LEMMA NextReserves == ASSUME Local, Held, ReservedFits, [Next]_vars PROVE ReservedFits'
<1>1. CASE \E d \in Publishers : DeliveryStep(d)
  BY <1>1 DEF DeliveryStep, AskDelivery, ReadDelivery, WriteDelivery, Elsewhere, ReservedFits
<1>2. CASE Expire \/ Crash \/ UNCHANGED vars
  BY <1>2 DEF Expire, Crash, vars, ReservedFits
<1>3. QED BY <1>1, <1>2, OpenReserves, SettleReserves DEF Next

(* RefusedHoldsNothing: a submission that is refused leaves no reservation of the    *)
(* payer's channel behind, unless a store or the cancellation fails or its           *)
(* settlement is unknown.                                                            *)
THEOREM RefusalsHoldNothing == ASSUME ~LateAsks PROVE Spec => []RefusedHoldsNothing
<1>1. Init => ReservedFits
  BY DEF Init, ReservedFits
<1>2. Local /\ Held /\ ReservedFits /\ [Next]_vars => ReservedFits'
  BY NextReserves
<1>3. ReservedFits => RefusedHoldsNothing
  BY DEF ReservedFits, Holds, RefusedHoldsNothing, Live, At
<1>4. QED BY <1>1, <1>2, <1>3, LocalInv, HeldInv, PTL DEF Spec
=============================================================================
