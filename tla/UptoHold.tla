------------------------------ MODULE UptoHold ------------------------------
(***************************************************************************)
(* What conversation-scoped payment promises, without records, revisions,  *)
(* timers or calls.  One context is owned by at most one authorization at a *)
(* time.  An authorization is charged at most once and only by its owner;  *)
(* it becomes void without a charge only if nothing was delivered on it;   *)
(* and a context whose charge failed stays owned until somebody forgets it. *)
(***************************************************************************)
CONSTANTS Tasks, None

VARIABLES
  owner,      \* the task whose authorization holds the context, or None
  phase,      \* per task: what became of its authorization
  delivered   \* tasks with published content

vars == <<owner, phase, delivered>>

Phases == {"unspent", "charged", "settled", "failed", "void"}

Init ==
  /\ owner = None
  /\ phase = [t \in Tasks |-> "unspent"]
  /\ delivered = {}

Claim(t) ==
  /\ owner = None /\ phase[t] = "unspent"
  /\ owner' = t
  /\ UNCHANGED <<phase, delivered>>

(* A hold that lost the context is given up unused. *)
Decline(t) ==
  /\ owner # t /\ phase[t] = "unspent" /\ t \notin delivered
  /\ phase' = [phase EXCEPT ![t] = "void"]
  /\ UNCHANGED <<owner, delivered>>

Deliver(t) ==
  /\ owner = t \/ phase[t] \in {"charged", "settled"}
  /\ phase[t] \notin {"void", "failed"}
  /\ delivered' = delivered \cup {t}
  /\ UNCHANGED <<owner, phase>>

Charge(t) ==
  /\ owner = t /\ phase[t] = "unspent"
  /\ phase' = [phase EXCEPT ![t] = "charged"]
  /\ UNCHANGED <<owner, delivered>>

Outcome(t) ==
  /\ owner = t /\ phase[t] = "charged"
  /\ \E how \in {"settled", "failed"} : phase' = [phase EXCEPT ![t] = how]
  /\ UNCHANGED <<owner, delivered>>

Lapse(t) ==
  /\ owner = t /\ phase[t] = "unspent" /\ t \notin delivered
  /\ phase' = [phase EXCEPT ![t] = "void"]
  /\ UNCHANGED <<owner, delivered>>

(* Failed evidence is released by the operator, the rest by closing. *)
Release(t) ==
  /\ owner = t /\ phase[t] \in {"settled", "void", "failed"}
  /\ owner' = None
  /\ UNCHANGED <<phase, delivered>>

Next == \E t \in Tasks :
  Claim(t) \/ Decline(t) \/ Deliver(t) \/ Charge(t) \/ Outcome(t) \/ Lapse(t) \/ Release(t)

Spec == Init /\ [][Next]_vars
=============================================================================
