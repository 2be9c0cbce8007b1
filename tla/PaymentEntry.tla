----------------------------- MODULE PaymentEntry -----------------------------
(***************************************************************************)
(* The lifecycle entry an X402Store keeps for one task, and what the        *)
(* conditional updates of the store do to it.  Every operator returns the    *)
(* entry after the call; an update whose condition fails returns it as it    *)
(* was.  Timestamps are reduced to whether they are set, a receipt and a     *)
(* failure to whether the settlement's outcome is known.                     *)
(***************************************************************************)
EXTENDS Naturals

CONSTANTS DeliveryTimings   \* policies the gate may be configured with

Statuses == {"absent", "offered", "verified", "completed", "failed", "rejected"}

Entry == [status  : Statuses,
          unknown : BOOLEAN,                          \* failure.indeterminate
          timing  : DeliveryTimings \cup {"none"},     \* merchantDelivery.timing
          started : BOOLEAN,                           \* publicationStartedAt
          closed  : BOOLEAN]                           \* publicationClosedAt

NoEntry == [status |-> "absent", unknown |-> FALSE, timing |-> "none",
            started |-> FALSE, closed |-> FALSE]

(* put: the offering replaces whatever was stored for the task. *)
OfferedEntry == [NoEntry EXCEPT !.status = "offered"]

Is(e, expected) == e.status \in expected

(* The states verify and settle may write from, and those classify may. *)
Open == {"offered", "failed", "verified"}
Unverified == {"offered", "failed"}

(* updateIfStatus: a patch replaces the status, and the failure when it has  *)
(* one; a patch without a failure keeps the one that is stored.              *)
UpdateIfStatus(e, expected, status, unknown) ==
  IF Is(e, expected) THEN [e EXCEPT !.status = status, !.unknown = unknown] ELSE e

Verified(e) == UpdateIfStatus(e, Open, "verified", e.unknown)
Completed(e) == UpdateIfStatus(e, Open, "completed", e.unknown)
Failed(e, unknown) == UpdateIfStatus(e, Open, "failed", unknown)
ClassifiedAs(e, status) == UpdateIfStatus(e, Unverified, status, FALSE)

(* Mutant: a marker may be set although the opposite one is. *)
MarkableAnyway(e, expected, e2) == Is(e, expected) /\ e2.timing # "none"

(* updateMerchantDeliveryIfStatus, where e2 is the entry with the patch merged: *)
(* it needs a timing, and the two publication markers exclude each other.        *)
Markable(e, expected, e2) ==
  Is(e, expected) /\ e2.timing # "none" /\ ~(e2.started /\ e2.closed)

WithTiming(e, t) == [e EXCEPT !.timing = t]
WithStarted(e) == [e EXCEPT !.started = TRUE]
WithClosed(e) == [e EXCEPT !.closed = TRUE]
=============================================================================
