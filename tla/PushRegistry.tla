------------------------------ MODULE PushRegistry ------------------------------
(***************************************************************************)
(* What the push notification methods promise: one registry of webhooks, that   *)
(* every call reads or changes at one instant between its request and its       *)
(* answer, in what protocol version and over what binding the client speaks.   *)
(***************************************************************************)
CONSTANTS Clients, TaskIds, ConfigIds, Requests, None

VARIABLES
  registry,  \* the webhooks: [task, id, url]
  pending,   \* per client, the request under way
  answer     \* per client, the webhooks it read or wrote, once it did

vars == <<registry, pending, answer>>

Init ==
  /\ registry = {}
  /\ pending = [c \in Clients |-> None]
  /\ answer = [c \in Clients |-> None]

Call(c) ==
  /\ pending[c] = None
  /\ \E q \in Requests : pending' = [pending EXCEPT ![c] = q]
  /\ UNCHANGED <<registry, answer>>

Found(webhooks) == [kind |-> "found", webhooks |-> webhooks]
Missing == [kind |-> "missing", webhooks |-> {}]
Refused == [kind |-> "refused", webhooks |-> {}]

(* The webhooks a request may mean: those of the task, with the id if it has one. *)
Meant(q) == {w \in registry : w.task = q.task /\ q.config \in {None, w.id}}

(* A webhook without an id gets one of its own, and that of a send a task.     *)
Set(c) ==
  LET q == pending[c]
  IN \E task \in TaskIds, id \in ConfigIds :
       LET webhook == [task |-> task, id |-> id, url |-> q.url]
           before == {w \in registry : w.task = task /\ w.id = id}
       IN /\ q.task \in {None, task}
          /\ IF q.config = None THEN before = {} ELSE id = q.config
          /\ registry' = (registry \ before) \cup {webhook}
          /\ answer' = [answer EXCEPT ![c] = Found({webhook})]

Get(c) ==
  /\ \E w \in Meant(pending[c]) : answer' = [answer EXCEPT ![c] = Found({w})]
  /\ UNCHANGED registry

List(c) ==
  /\ answer' = [answer EXCEPT ![c] = Found(Meant([pending[c] EXCEPT !.config = None]))]
  /\ UNCHANGED registry

Delete(c) ==
  /\ Meant(pending[c]) # {}
  /\ registry' = registry \ Meant(pending[c])
  /\ answer' = [answer EXCEPT ![c] = Found({})]

(* A webhook is called missing only if it is; a call that fails did nothing.   *)
Miss(c) ==
  /\ Meant(pending[c]) = {}
  /\ answer' = [answer EXCEPT ![c] = Missing]
  /\ UNCHANGED registry

Refuse(c) == answer' = [answer EXCEPT ![c] = Refused] /\ UNCHANGED registry

Perform(c) ==
  /\ pending[c] # None /\ answer[c] = None
  /\ \/ pending[c].op = "set" /\ Set(c)
     \/ pending[c].op = "get" /\ (Get(c) \/ Miss(c))
     \/ pending[c].op = "list" /\ List(c)
     \/ pending[c].op = "delete" /\ (Delete(c) \/ Miss(c))
     \/ Refuse(c)
  /\ UNCHANGED pending

(* Answers arrive, or clients give calls up.                                 *)
Return(some) ==
  /\ \A c \in some : pending[c] # None
  /\ pending' = [c \in Clients |-> IF c \in some THEN None ELSE pending[c]]
  /\ answer' = [c \in Clients |-> IF c \in some THEN None ELSE answer[c]]
  /\ UNCHANGED registry

Next ==
  \/ \E c \in Clients : Call(c) \/ Perform(c)
  \/ \E some \in SUBSET Clients : Return(some)

Spec == Init /\ [][Next]_vars
=============================================================================
