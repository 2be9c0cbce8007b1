------------------------------ MODULE TaskRecord ------------------------------
(***************************************************************************)
(* One A2A task as a TaskStore keeps it, and what updateTask does to it.    *)
(* "input" stands for input-required and auth-required, which every handler *)
(* treats alike; "rejected" is left out, the executor never produces it.     *)
(* An artifact is known by the execution that made it and its number.       *)
(***************************************************************************)
EXTENDS Naturals

CONSTANTS
  Runs,          \* executions of message/send and message/stream on the task
  MaxArtifacts,  \* bound: artifacts one execution produces
  None           \* "undefined"

ASSUME RunAssumption == None \notin Runs /\ MaxArtifacts \in Nat

Terminal == {"completed", "failed", "canceled"}
States == {"none", "submitted", "working", "input"} \cup Terminal
ASSUME NoneAssumption == None \notin States \cup {"error"}

Artifacts == Runs \X (1..MaxArtifacts)

(* `kept` is FALSE before the task is created and after it was evicted; the  *)
(* state of an evicted record is remembered, to compare answers with.        *)
Task == [state : States, arts : SUBSET Artifacts, kept : BOOLEAN]
NoTask == [state |-> "none", arts |-> {}, kept |-> FALSE]
NewTask == [state |-> "submitted", arts |-> {}, kept |-> TRUE]

(* TaskUpdate: a state or None, and a list of artifacts; an empty list is    *)
(* never passed, so {} leaves the stored one alone.                          *)
Update == [state : States \cup {None}, arts : SUBSET Artifacts]
Status(s, as) == [state |-> s, arts |-> as]
OnlyArtifacts(as) == [state |-> None, arts |-> as]

Ended(t) == t.state \in Terminal
Interrupted(t) == t.kept /\ t.state \in Terminal \cup {"input"}

(* Terminal states cannot be changed; artifacts alone still can. *)
Accepts(t, u) == t.kept /\ (u.state # None => ~Ended(t))

(* The artifact list is replaced, never merged. *)
Apply(t, u) ==
  [t EXCEPT !.state = IF u.state = None THEN @ ELSE u.state,
            !.arts = IF u.arts = {} THEN @ ELSE u.arts]
=============================================================================
