----------------------------- MODULE ChannelRecord -----------------------------
(***************************************************************************)
(* The payer's stored record of one batch-settlement channel, what one signed *)
(* attempt may have folded into it (reconcileX402BatchSettlement), and the     *)
(* record after the fold.                                                     *)
(***************************************************************************)
EXTENDS Integers

Absent == -1      \* a figure the record, or the receipt, does not hold
Nobody == 0       \* no attempt
Figures == Nat \cup {Absent}
OrZero(figure) == IF figure = Absent THEN 0 ELSE figure

(* X402ChannelState: the cumulative charge and the balance as last reported,   *)
(* the attempt that was folded last, the attempt handed to the transport, and  *)
(* the attempt whose outcome is unknown.                                      *)
ChannelState(Attempts) ==
  [charged : Figures, balance : Figures,
   applied : Attempts \cup {Nobody},
   pending : Attempts \cup {Nobody},
   marker  : Attempts \cup {Nobody}]

NoRecord == [charged |-> Absent, balance |-> Absent,
             applied |-> Nobody, pending |-> Nobody, marker |-> Nobody]

Blocked(record) == record.pending # Nobody \/ record.marker # Nobody

(* A binding: the ceiling and the deposit that were signed, and the record the *)
(* signer read.  A receipt: the cumulative, the balance and the charge the     *)
(* merchant reports.                                                         *)
Base(binding) == OrZero(binding.pre.charged)
Floor(binding) == OrZero(binding.pre.balance) + binding.deposit

(* parseAcceptedCumulative: a metered receipt adds up, an unmetered one        *)
(* reports the ceiling.                                                       *)
Vouched(binding, receipt) ==
  /\ receipt.cumulative \in 0..binding.ceiling
  /\ receipt.cumulative = IF receipt.charge = Absent THEN binding.ceiling
                                                     ELSE Base(binding) + receipt.charge

(* What the record must still be for the receipt of attempt a to be folded. *)
Owns(a, record) == record.applied = a
Ahead(record, receipt) == record.charged > receipt.cumulative
Descends(binding, record) == record.applied \in {Nobody, binding.pre.applied}
Empty(binding, receipt, record) ==
  record.charged = Absent /\ receipt.cumulative = 0 /\ binding.deposit = 0

(* Mutant: the order of attempts is read off the cumulative alone. *)
FoldsByFigure(a, binding, receipt, record) ==
  /\ Vouched(binding, receipt)
  /\ Owns(a, record) \/ (~Ahead(record, receipt) /\ ~Empty(binding, receipt, record))

Folds(a, binding, receipt, record) ==
  /\ Vouched(binding, receipt)
  /\ \/ Owns(a, record)
     \/ /\ ~Ahead(record, receipt)
        /\ Descends(binding, record)
        /\ ~Empty(binding, receipt, record)

Kept(owner, a) == IF owner = a THEN Nobody ELSE owner

(* foldChannelState: computed from the snapshot, never from the stored figures; *)
(* another attempt's marker and submission stay.                              *)
Folded(a, binding, receipt, record) ==
  [charged |-> receipt.cumulative,
   balance |-> IF receipt.balance > Floor(binding) THEN receipt.balance ELSE Floor(binding),
   applied |-> a,
   pending |-> Kept(record.pending, a),
   marker  |-> Kept(record.marker, a)]

(* markSubmitted, the cleared submission of acceptRetry, and _quarantine.  An  *)
(* attempt that finds no record starts from its snapshot.                     *)
Submitted(a, record) == [record EXCEPT !.pending = a]
Retracted(a, record) == [record EXCEPT !.pending = Kept(@, a)]
Quarantined(a, record) == [record EXCEPT !.pending = Kept(@, a), !.marker = a]
=============================================================================
