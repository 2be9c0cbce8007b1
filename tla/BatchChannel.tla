------------------------------ MODULE BatchChannel ------------------------------
(***************************************************************************)
(* A2XClient paying by batch-settlement: calls that share one channel storage *)
(* prompt, sign, submit and reconcile, each attempt under the storage's lease, *)
(* with a merchant that holds the vouchers, storage that may fail, a process   *)
(* that may stop, and an operator who repairs the record.                     *)
(*                                                                         *)
(* A call is one sendMessage or sendMessageStream.  An attempt is one turn in  *)
(* the queue of the lease, and the voucher that is signed in it.              *)
(***************************************************************************)
EXTENDS ChannelRecord, FiniteSets

CONSTANTS
  Calls,        \* calls of the clients that share the storage object
  MaxAttempts,  \* bound: turns in the queue of the lease
  Retries,      \* maxRetries: signatures after the first one
  Price,        \* the amount of every offer
  Charges,      \* what the merchant may charge for a call of that price
  Deposit,      \* what an unfunded channel is funded with
  MayCrash,     \* the process may stop between two awaits
  MaxFaults     \* bound: storage calls that throw

ASSUME ChannelAssumption ==
  /\ {MaxAttempts, Price, Deposit} \subseteq Nat \ {0}
  /\ {Retries, MaxFaults} \subseteq Nat
  /\ Charges \subseteq 0..Price
  /\ Price <= Deposit
  /\ MayCrash \in BOOLEAN

Attempts == 1..MaxAttempts

VARIABLES
  call,     \* per call: where it is and what it holds
  attempt,  \* per attempt: its node in the queue and its binding
  tail,     \* _batchAttemptQueues: the last node, if any
  store,    \* the stored record
  voucher,  \* external: per attempt, what became of its voucher
  channel,  \* external: the merchant's figures of the channel
  faults    \* history: storage calls that threw

vars == <<call, attempt, tail, store, voucher, channel, faults>>

PCs == {"idle", "prompted", "queued", "signing", "signed", "fetch", "sent"}

Call == [pc : PCs, signs : 0..(Retries + 1),
         attempt : Attempts \cup {Nobody},  \* under way
         tries : SUBSET Attempts,           \* history: all of them
         again : BOOLEAN]                   \* credentials were refreshed

Idle == [pc |-> "idle", signs |-> 0, attempt |-> Nobody, tries |-> {},
         again |-> FALSE]

(* A node is open until its attempt releases the lease, with an error or not.  *)
Attempt == [node : {"unused", "open", "safe", "unsafe"},
            previous : Attempts \cup {Nobody},
            behind : SUBSET Attempts,       \* history: open when it was queued
            ceiling : Nat, deposit : {0, Deposit}, pre : ChannelState(Attempts)]

Unused == [node |-> "unused", previous |-> Nobody, behind |-> {},
           ceiling |-> 0, deposit |-> 0, pre |-> NoRecord]

(* A settled voucher has a receipt.  The charge is left out when it is full. *)
Voucher == [state : {"none", "sent", "rejected", "settled"},
            cumulative : Nat, charge : Figures, balance : Nat]

Unsent == [state |-> "none", cumulative |-> 0, charge |-> Absent, balance |-> 0]

Init ==
  /\ call = [c \in Calls |-> Idle]
  /\ attempt = [a \in Attempts |-> Unused]
  /\ tail = Nobody /\ store = NoRecord
  /\ voucher = [a \in Attempts |-> Unsent]
  /\ channel = [charged |-> 0, balance |-> 0]
  /\ faults = 0
-----------------------------------------------------------------------------
At(c, pc) == call[c].pc = pc
Goto(c, pc) == call' = [call EXCEPT ![c].pc = pc]
Ends(c) == call' = [call EXCEPT ![c] = Idle]
Fault == faults < MaxFaults /\ faults' = faults + 1
External == UNCHANGED <<voucher, channel>>
Lease == UNCHANGED <<attempt, tail>>

(* Mutant: an unknown outcome releases the lease like a known one. *)
UnlockQuietly(a, outcome) ==
  /\ attempt' = [attempt EXCEPT ![a].node = "safe"]
  /\ tail' = IF tail = a THEN Nobody ELSE tail

(* unlock: later waiters see the outcome; the map forgets the last node.      *)
Unlock(a, outcome) ==
  /\ attempt' = [attempt EXCEPT ![a].node = outcome]
  /\ tail' = IF tail = a THEN Nobody ELSE tail
-----------------------------------------------------------------------------
(* The request without a payment, answered by a prompt. *)
Prompted(c) ==
  /\ At(c, "idle")
  /\ call' = [call EXCEPT ![c] = [Idle EXCEPT !.pc = "prompted", !.signs = Retries + 1]]
  /\ External /\ Lease /\ UNCHANGED <<store, faults>>

(* The call is declined or aborted, finds no offer it can pay, or has no       *)
(* signature left.                                                            *)
Leave(c) ==
  /\ At(c, "prompted")
  /\ Ends(c)
  /\ External /\ Lease /\ UNCHANGED <<store, faults>>

(* An offer of another scheme is signed and submitted without the lease. *)
PayExact(c) ==
  /\ At(c, "prompted") /\ call[c].signs > 0
  /\ call' = [call EXCEPT ![c].pc = "sent", ![c].signs = @ - 1, ![c].attempt = Nobody]
  /\ External /\ Lease /\ UNCHANGED <<store, faults>>

(* acquireBatchAttemptLock: a node behind the last one. *)
Enqueue(c) ==
  /\ At(c, "prompted") /\ call[c].signs > 0
  /\ \E a \in Attempts :
       /\ attempt[a].node = "unused"
       /\ \A b \in Attempts : b < a => attempt[b].node # "unused"
       /\ attempt' = [attempt EXCEPT ![a] = [Unused EXCEPT !.node = "open",
                          !.previous = tail,
                          !.behind = {b \in Attempts : attempt[b].node = "open"}]]
       /\ tail' = a
       /\ call' = [call EXCEPT ![c].pc = "queued", ![c].signs = @ - 1, ![c].attempt = a,
                               ![c].tries = @ \cup {a}, ![c].again = FALSE]
  /\ External /\ UNCHANGED <<store, faults>>

Before(a, outcome) ==
  attempt[a].previous # Nobody => attempt[attempt[a].previous].node = outcome

(* Mutant: the lease is taken without waiting for it. *)
AcquireAtOnce(c) ==
  /\ At(c, "queued")
  /\ Goto(c, "signing")
  /\ External /\ Lease /\ UNCHANGED <<store, faults>>

Acquire(c) ==
  /\ At(c, "queued") /\ Before(call[c].attempt, "safe")
  /\ Goto(c, "signing")
  /\ External /\ Lease /\ UNCHANGED <<store, faults>>

(* The predecessor's error is thrown here and passed on. *)
Inherit(c) ==
  LET a == call[c].attempt IN
  /\ At(c, "queued") /\ attempt[a].previous # Nobody /\ Before(a, "unsafe")
  /\ Unlock(a, "unsafe") /\ Ends(c)
  /\ External /\ UNCHANGED <<store, faults>>
-----------------------------------------------------------------------------
(* signX402Payment.  The peer reads the record once: it signs the next         *)
(* cumulative, and a deposit when the balance does not reach it, unless the    *)
(* strategy skips it.  The same reading is the binding's snapshot.            *)
Sign(c) ==
  LET a == call[c].attempt
      ceiling == OrZero(store.charged) + Price
  IN
  /\ At(c, "signing") /\ ~Blocked(store)
  /\ \E deposit \in {0, Deposit} :
       /\ OrZero(store.balance) >= ceiling => deposit = 0
       /\ attempt' = [attempt EXCEPT ![a].ceiling = ceiling, ![a].deposit = deposit,
                                     ![a].pre = store]
  /\ Goto(c, "signed")
  /\ External /\ UNCHANGED <<tail, store, faults>>

(* Mutant: a signature that throws keeps the lease. *)
SignFailsAndKeeps(c) ==
  /\ At(c, "signing")
  /\ Ends(c)
  /\ External /\ Lease /\ UNCHANGED <<store, faults>>

(* A blocked channel, a reading that throws, a deposit over the cap. *)
SignFails(c) ==
  /\ At(c, "signing")
  /\ Unlock(call[c].attempt, "safe") /\ Ends(c)
  /\ External /\ UNCHANGED <<store, faults>>

(* dispose: the follow-up cannot be built, or is aborted before the transport. *)
Abandon(c) ==
  /\ At(c, "signed")
  /\ Unlock(call[c].attempt, "safe") /\ Ends(c)
  /\ External /\ UNCHANGED <<store, faults>>

(* markSubmitted, before the transport.  A write that throws, whether it took  *)
(* effect or not, abandons the attempt.                                       *)
MarkSubmitted(c) ==
  LET a == call[c].attempt IN
  /\ At(c, "signed")
  /\ \/ /\ store' = Submitted(a, store)
        /\ Goto(c, "fetch")
        /\ Lease /\ UNCHANGED faults
     \/ /\ Fault
        /\ store' \in {store, Submitted(a, store)}
        /\ Unlock(a, "safe") /\ Ends(c)
  /\ External

Submit(c) ==
  LET a == call[c].attempt IN
  /\ At(c, "fetch")
  /\ voucher' = [voucher EXCEPT ![a].state = IF @ = "none" THEN "sent" ELSE @]
  /\ Goto(c, "sent")
  /\ Lease /\ UNCHANGED <<store, channel, faults>>
-----------------------------------------------------------------------------
(* The merchant, external: it takes a voucher that continues its own figures   *)
(* and is funded, or rejects it; both may happen long after the call is gone.  *)

Reject(a) ==
  /\ voucher[a].state = "sent"
  /\ voucher' = [voucher EXCEPT ![a].state = "rejected"]
  /\ Lease /\ UNCHANGED <<call, store, channel, faults>>

Settle(a) ==
  LET funds == channel.balance + attempt[a].deposit IN
  /\ voucher[a].state = "sent"
  /\ attempt[a].ceiling = channel.charged + Price /\ attempt[a].ceiling <= funds
  /\ \E charge \in Charges :
       LET cumulative == channel.charged + charge IN
       /\ channel' = [charged |-> cumulative, balance |-> funds]
       /\ voucher' = [voucher EXCEPT ![a] =
            [state |-> "settled", cumulative |-> cumulative, balance |-> funds,
             charge |-> IF charge = Price THEN Absent ELSE charge]]
  /\ Lease /\ UNCHANGED <<call, store, faults>>
-----------------------------------------------------------------------------
(* What a response of the merchant leads to.                                  *)

Status(c) == IF call[c].attempt = Nobody THEN "none" ELSE voucher[call[c].attempt].state

(* _quarantine: the marker is written as far as the storage allows, over a     *)
(* record that a fold may have left torn, and the lease is released with the   *)
(* error.                                                                     *)
Quarantine(c, record) ==
  LET a == call[c].attempt IN
  /\ \/ store' = Quarantined(a, record) /\ UNCHANGED faults
     \/ Fault /\ store' \in {record, Quarantined(a, record)}
  /\ Unlock(a, "unsafe") /\ Ends(c)

(* The request or the response fails, the stream ends or is closed, the work   *)
(* is answered before it is settled, the task ends without a receipt: nothing  *)
(* proves what became of the voucher.                                         *)
Lost(c) ==
  /\ At(c, "sent")
  /\ IF call[c].attempt = Nobody THEN Ends(c) /\ Lease /\ UNCHANGED <<store, faults>>
                                 ELSE Quarantine(c, store)
  /\ External

(* auth-required: refreshed credentials submit the same voucher again, once. *)
Resubmit(c) ==
  /\ At(c, "sent") /\ Status(c) = "sent" /\ ~call[c].again
  /\ call' = [call EXCEPT ![c].pc = "fetch", ![c].again = TRUE]
  /\ External /\ Lease /\ UNCHANGED <<store, faults>>

(* Another prompt proves that the voucher was rejected: acceptRetry.  A        *)
(* submission that cannot be cleared stays on record.                         *)
PromptedAgain(c) ==
  LET a == call[c].attempt IN
  /\ At(c, "sent") /\ Status(c) \in {"none", "rejected"}
  /\ IF a = Nobody THEN Lease /\ UNCHANGED <<store, faults>>
     ELSE /\ Unlock(a, "safe")
          /\ \/ store' = Retracted(a, store) /\ UNCHANGED faults
             \/ Fault /\ store' \in {store, Retracted(a, store)}
  /\ Goto(c, "prompted")
  /\ External

(* What a write that throws may have left of the new record. *)
Torn(new, old) ==
  {old, new, [old EXCEPT !.charged = new.charged], [old EXCEPT !.balance = new.balance]}

(* Mutant: a prompt that comes with the receipt, or after it, is paid.         *)
ObserveAndRetry(c) ==
  LET a == call[c].attempt IN
  /\ At(c, "sent") /\ Status(c) = "settled"
  /\ store' = Folded(a, attempt[a], voucher[a], store)
  /\ Unlock(a, "safe") /\ Goto(c, "prompted")
  /\ External /\ UNCHANGED faults

(* observe, with the receipt: it is folded, and whatever else the response     *)
(* says, even a prompt, is not paid; or it is refused; or the write throws.    *)
Observe(c) ==
  LET a == call[c].attempt
      folded == Folded(a, attempt[a], voucher[a], store)
  IN
  /\ At(c, "sent") /\ Status(c) = "settled"
  /\ \/ /\ Folds(a, attempt[a], voucher[a], store)
        /\ store' = folded
        /\ Unlock(a, "safe") /\ Ends(c)
        /\ UNCHANGED faults
     \/ /\ ~Folds(a, attempt[a], voucher[a], store)
        /\ Quarantine(c, store)
     \/ /\ Folds(a, attempt[a], voucher[a], store) /\ Fault
        /\ \E record \in Torn(folded, store) : store' \in {record, Quarantined(a, record)}
        /\ Unlock(a, "unsafe") /\ Ends(c)
  /\ External
-----------------------------------------------------------------------------
(* The process stops: calls and the queue are gone, the record stays. *)
Crash ==
  /\ MayCrash
  /\ \E c \in Calls : ~At(c, "idle")
  /\ call' = [c \in Calls |-> Idle]
  /\ attempt' = [a \in Attempts |-> [attempt[a] EXCEPT
                   !.node = IF @ = "open" THEN "safe" ELSE @]]
  /\ tail' = Nobody
  /\ UNCHANGED <<store, voucher, channel, faults>>

(* The operator folds the receipt of any attempt it kept, late or again, when  *)
(* no attempt is in flight.                                                   *)
Repair(a) ==
  /\ \A b \in Attempts : attempt[b].node # "open"
  /\ voucher[a].state = "settled" /\ Folds(a, attempt[a], voucher[a], store)
  /\ store' = Folded(a, attempt[a], voucher[a], store)
  /\ UNCHANGED <<call, attempt, tail, voucher, channel, faults>>

(* ... or clears what the merchant is known to have rejected or never had. *)
ClearByHand(a) ==
  /\ \A b \in Attempts : attempt[b].node # "open"
  /\ voucher[a].state \in {"none", "rejected"} /\ a \in {store.pending, store.marker}
  /\ store' = [store EXCEPT !.pending = Kept(@, a), !.marker = Kept(@, a)]
  /\ UNCHANGED <<call, attempt, tail, voucher, channel, faults>>
-----------------------------------------------------------------------------
Proceed(c) ==
  \/ Leave(c) \/ PayExact(c) \/ Enqueue(c) \/ Acquire(c) \/ Inherit(c)
  \/ Sign(c) \/ SignFails(c) \/ Abandon(c) \/ MarkSubmitted(c) \/ Submit(c)
  \/ Lost(c) \/ Resubmit(c) \/ PromptedAgain(c) \/ Observe(c)

Next ==
  \/ \E c \in Calls : Prompted(c) \/ Proceed(c)
  \/ \E a \in Attempts : Reject(a) \/ Settle(a) \/ Repair(a) \/ ClearByHand(a)
  \/ Crash

Spec == Init /\ [][Next]_vars
-----------------------------------------------------------------------------
TypeOK ==
  /\ call \in [Calls -> Call]
  /\ attempt \in [Attempts -> Attempt]
  /\ tail \in Attempts \cup {Nobody}
  /\ store \in ChannelState(Attempts)
  /\ voucher \in [Attempts -> Voucher]
  /\ channel \in [charged : Nat, balance : Nat]
  /\ faults \in 0..MaxFaults

(* The merchant holds the voucher, and the record does not know the outcome. *)
AtRisk(a) ==
  \/ voucher[a].state = "sent"
  \/ voucher[a].state = "settled" /\ a > store.applied

(* Never two vouchers are at risk: whatever is lost, throws or stops, no       *)
(* attempt submits before the outcome of the last one is on record.           *)
OneAtRisk == Cardinality({a \in Attempts : AtRisk(a)}) <= 1

(* A record that lets the next attempt sign holds the merchant's figures, so   *)
(* that neither a charge nor a deposit is signed a second time; and one that    *)
(* does not was left by an attempt that reached the transport.                 *)
RecordAgrees ==
  /\ Blocked(store) \/ /\ OrZero(store.charged) = channel.charged
                       /\ OrZero(store.balance) = channel.balance
  /\ store.marker # Nobody => voucher[store.marker].state # "none"

(* Nobody signs who was queued behind a voucher that is now at risk. *)
NoneSignsBehindRisk ==
  \A c \in Calls :
    call[c].pc \in {"signing", "signed", "fetch"} =>
      \A a \in attempt[call[c].attempt].behind : ~AtRisk(a)

(* One call pays at most once, whatever the merchant prompts for. *)
CallPaysOnce ==
  \A c \in Calls : Cardinality({a \in call[c].tries : voucher[a].state = "settled"}) <= 1

(* The lease is never left behind: whatever way an attempt ends, its node is   *)
(* open only as long as a call still has it in hand, so that whoever waits for *)
(* it gets its turn or its predecessor's error.                               *)
LeaseInHand ==
  \A a \in Attempts :
    attempt[a].node = "open" =>
      \E c \in Calls : call[c].attempt = a /\ ~(call[c].pc \in {"idle", "prompted"})
=============================================================================
