---------------------------- MODULE TaskExecution ----------------------------
(***************************************************************************)
(* The life of one A2A task: DefaultRequestHandler over a shared TaskStore, *)
(* AgentExecutor and InMemoryTaskEventBus.                                   *)
(*                                                                         *)
(* A run is one message/send (blocking or detached) or message/stream on    *)
(* the task, from resolving it to the end of its execution.  Watchers are   *)
(* tasks/resubscribe calls, and cancels are tasks/cancel calls.  Every await *)
(* of the code ends a step; a store operation takes effect at one moment     *)
(* within its await.                                                       *)
(***************************************************************************)
EXTENDS TaskRecord

CONSTANTS
  Watchers,          \* tasks/resubscribe calls
  Cancels,           \* tasks/cancel calls
  Kinds,             \* the kinds of run clients start
  Overlap,           \* a run may start while another is in flight
  MayEvict,          \* the store may drop a terminal task (ttlMs, maxSize)
  MaxStoreFailures   \* bound: store writes that fail for no reason of ours

ASSUME CallAssumption ==
  /\ Runs \cap Watchers = {} /\ None \notin Watchers
  /\ Kinds \subseteq {"send", "detached", "stream"}
  /\ {Overlap, MayEvict} \subseteq BOOLEAN
  /\ MaxStoreFailures \in Nat

VARIABLES
  task,       \* the stored record
  run,        \* per run: where it is and what it holds
  active,     \* activeStreamExecutions.get(taskId)
  sub,        \* per stream run and watcher: its subscription
  cancel,     \* per cancel: where it is
  delivered,  \* history: artifacts a client has been given
  failures    \* history: spurious store failures so far

vars == <<task, run, active, sub, cancel, delivered, failures>>

Subs == Runs \cup Watchers

(* What the agent does next.  `return` and `throw` end its generator; the    *)
(* executor turns them into `done` and `error`, or drops them after an abort. *)
AgentEvents == {"chunk", "done", "error", "input", "return", "throw"}
Ending == {"done", "error", "input"}
StateOf(e) == CASE e = "done" -> "completed"
                [] e = "error" -> "failed"
                [] e = "input" -> "input"
                [] OTHER -> "working"

RunPCs == {"idle", "resolved", "accepted", "session", "agent", "taking", "write",
           "publish", "exhausted", "cancelWrite", "retry", "fail", "outcome",
           "close", "clear", "done"}
Answers == States \cup {None, "error", "nothing"}

Run == [kind    : {"send", "detached", "stream", None},
        pc      : RunPCs,
        snap    : SUBSET Artifacts,    \* of the Task it works on
        arts    : SUBSET Artifacts,    \* snap and what it produced
        made    : 0..MaxArtifacts,     \* how many it produced
        event   : AgentEvents \cup {"working", "stop"},
        tries   : 0..3,                \* failed writes of a detached outcome
        seen    : States,              \* what the last write returned
        aborted : BOOLEAN,             \* its AbortController
        listed  : BOOLEAN,             \* the controller is registered
        ended   : BOOLEAN,             \* interaction.ended
        reached : BOOLEAN,             \* reachedTerminal
        failed  : BOOLEAN,             \* streamFailure
        reply   : Answers]

Sub == [pc   : {"idle", "read", "again", "waiting", "last", "done"},
        on   : BOOLEAN,                \* attached to the bus
        run  : Runs \cup {None},       \* the execution whose end detaches it
        seen : States,
        told : Answers]                \* the status its stream ended with

Cancel == [pc : {"idle", "abort", "write", "done"}, snap : SUBSET Artifacts,
           reply : Answers]

TypeOK ==
  /\ task \in Task
  /\ run \in [Runs -> Run]
  /\ active \in Runs \cup {None}
  /\ sub \in [Subs -> Sub]
  /\ cancel \in [Cancels -> Cancel]
  /\ delivered \in SUBSET Artifacts
  /\ failures \in Nat

Init ==
  /\ task = NoTask
  /\ run = [r \in Runs |->
       [kind |-> None, pc |-> "idle", snap |-> {}, arts |-> {}, made |-> 0, event |-> "working",
        tries |-> 0, seen |-> "none", aborted |-> FALSE, listed |-> FALSE,
        ended |-> FALSE, reached |-> FALSE, failed |-> FALSE, reply |-> None]]
  /\ active = None
  /\ sub = [s \in Subs |-> [pc |-> "idle", on |-> FALSE, run |-> None,
                            seen |-> "none", told |-> None]]
  /\ cancel = [c \in Cancels |-> [pc |-> "idle", snap |-> {}, reply |-> None]]
  /\ delivered = {}
  /\ failures = 0
-----------------------------------------------------------------------------
Become(r, f) == run' = [run EXCEPT ![r] = f]
At(r, pc) == run[r].pc = pc
Unary(r) == run[r].kind \in {"send", "detached"}
InFlight(r) == run[r].pc \notin {"idle", "done"}

(* Mutant: a refused write is reported as done. *)
PersistHopeful(u, res) ==
  /\ task' = IF Accepts(task, u) THEN Apply(task, u) ELSE task
  /\ res = IF u.state = None THEN task.state ELSE u.state
  /\ UNCHANGED failures

(* _persistTaskState: the state of the record after the write; if the write  *)
(* was refused or failed, the stored terminal state; else "lost", a throw.   *)
Persist(u, res) ==
  \/ /\ Accepts(task, u)
     /\ task' = Apply(task, u)
     /\ res = task'.state
     /\ UNCHANGED failures
  \/ /\ \/ ~Accepts(task, u) /\ UNCHANGED failures
        \/ failures < MaxStoreFailures /\ failures' = failures + 1
     /\ UNCHANGED task
     /\ res = IF task.kept /\ Ended(task) THEN task.state ELSE "lost"

Results == States \cup {"lost"}

(* The bus.  A subscriber reads up to the first interaction-ending status.   *)
(* Events are not replayed; close() ends only the present subscribers.        *)
Hears(s) == sub[s].on /\ sub[s].told = None
Told(sb, state) ==
  [s \in Subs |-> IF sb[s].on /\ sb[s].told = None
                    THEN [sb[s] EXCEPT !.told = state] ELSE sb[s]]
Closed(sb) == [s \in Subs |-> [sb[s] EXCEPT !.on = FALSE]]
Completed(sb, r) ==
  [s \in Subs |-> IF sb[s].run = r THEN [sb[s] EXCEPT !.on = FALSE] ELSE sb[s]]
-----------------------------------------------------------------------------
(* Accepting a message.                                                     *)

(* A message without a live task creates one; a terminal task is left to a   *)
(* new task of its own, outside this model.                                  *)
Start(r) ==
  /\ At(r, "idle")
  /\ Overlap \/ \A q \in Runs : ~InFlight(q)
  /\ \/ task.state = "none" /\ task' = NewTask
     \/ task.kept /\ ~Ended(task) /\ UNCHANGED task
  /\ \E k \in Kinds :
       Become(r, [run[r] EXCEPT !.kind = k, !.pc = "resolved",
                                !.snap = task'.arts, !.arts = task'.arts])
  /\ UNCHANGED <<active, sub, cancel, delivered, failures>>

(* message/send writes WORKING before it executes, and works on the record   *)
(* that write returned.                                                      *)
AcceptSend(r) ==
  /\ At(r, "resolved") /\ Unary(r)
  /\ \E res \in Results :
       /\ Persist(Status("working", {}), res)
       /\ Become(r, CASE res = "lost" -> [run[r] EXCEPT !.pc = "done", !.reply = "error"]
                      [] res \in Terminal -> [run[r] EXCEPT !.pc = "done", !.reply = res]
                      [] OTHER -> [run[r] EXCEPT !.pc = "accepted", !.snap = task'.arts,
                                                 !.arts = task'.arts])
  /\ UNCHANGED <<active, sub, cancel, delivered>>

(* execute() registers its abort controller; a detached run is acknowledged. *)
BeginSend(r) ==
  /\ At(r, "accepted")
  /\ Become(r, [run[r] EXCEPT !.pc = "session", !.listed = TRUE,
                              !.reply = IF run[r].kind = "detached" THEN "working" ELSE @])
  /\ active' = IF run[r].kind = "detached" THEN r ELSE active
  /\ UNCHANGED <<task, sub, cancel, delivered, failures>>

(* message/stream subscribes before its pump starts. *)
BeginStream(r) ==
  /\ At(r, "resolved") /\ ~Unary(r)
  /\ Become(r, [run[r] EXCEPT !.pc = "session", !.listed = TRUE])
  /\ active' = r
  /\ sub' = [sub EXCEPT ![r] = [@ EXCEPT !.pc = "waiting", !.on = TRUE, !.run = r]]
  /\ UNCHANGED <<task, cancel, delivered, failures>>
-----------------------------------------------------------------------------
(* The executor and the agent.                                              *)

(* A run whose agent is over, with what it is to report. *)
Over(f, e) ==
  [f EXCEPT !.event = e, !.listed = FALSE,
            !.pc = CASE f.kind # "stream" -> "outcome"
                     [] f.kind = "stream" /\ e = "stop" -> "exhausted"
                     [] OTHER -> "write"]

(* createSession succeeds, throws, or comes back after an abort. *)
CreateSession(r) ==
  LET f == run[r] IN
  /\ At(r, "session")
  /\ \/ /\ f.aborted
        /\ Become(r, Over(f, "stop"))
     \/ /\ ~f.aborted
        /\ Become(r, IF Unary(r) THEN [f EXCEPT !.pc = "agent"]
                       ELSE [f EXCEPT !.pc = "write", !.event = "working"])
     \/ /\ ~f.aborted
        /\ Become(r, [f EXCEPT !.pc = "taking", !.event = "throw"])
  /\ UNCHANGED <<task, active, sub, cancel, delivered, failures>>

(* The runner lets no event of an aborted agent through. *)
AgentYields(r) ==
  LET f == run[r] IN
  /\ At(r, "agent")
  /\ \E e \in AgentEvents :
       /\ e = "chunk" => f.made < MaxArtifacts
       /\ f.aborted => e = "return"
       /\ Become(r, [f EXCEPT !.pc = "taking", !.event = e])
  /\ UNCHANGED <<task, active, sub, cancel, delivered, failures>>

LastArtifact(r) == <<r, run[r].made>>

(* The executor acts on an event; the abort may have come in between. *)
TakeEvent(r) ==
  LET f == run[r]
      event == CASE f.event \in {"return", "throw"} /\ f.aborted -> "stop"
                 [] f.event = "return" /\ ~f.aborted -> "done"
                 [] f.event = "throw" /\ ~f.aborted -> "error"
                 [] OTHER -> f.event
  IN
  /\ At(r, "taking")
  /\ \/ /\ event = "chunk"
        /\ Become(r, [f EXCEPT !.made = @ + 1, !.arts = @ \cup {<<r, f.made + 1>>},
                               !.pc = IF Unary(r) THEN "agent" ELSE "write"])
     \/ /\ event # "chunk"
        /\ Become(r, Over(f, event))
  /\ UNCHANGED <<task, active, sub, cancel, delivered, failures>>
-----------------------------------------------------------------------------
(* The pump of a stream: every event is persisted, then published.          *)

EventUpdate(f) ==
  IF f.event = "chunk" THEN OnlyArtifacts(f.arts) ELSE Status(StateOf(f.event), f.arts)

(* Mutant: the pump does not notice that its write failed. *)
WriteUnchecked(r) ==
  LET f == run[r] IN
  /\ At(r, "write")
  /\ \E res \in Results : /\ Persist(EventUpdate(f), res)
                        /\ Become(r, [f EXCEPT !.seen = res, !.pc = "publish"])
  /\ UNCHANGED <<active, sub, cancel, delivered>>

(* Mutant: after a failed write the stream is closed and nothing else. *)
WriteOnce(r) ==
  LET f == run[r] IN
  /\ At(r, "write")
  /\ \E res \in Results :
       /\ Persist(EventUpdate(f), res)
       /\ Become(r, IF res = "lost"
                      THEN [f EXCEPT !.failed = TRUE, !.listed = FALSE, !.pc = "close"]
                      ELSE [f EXCEPT !.seen = res, !.pc = "publish"])
  /\ UNCHANGED <<active, sub, cancel, delivered>>

(* A failed write ends the stream; an interaction-ending one is tried again. *)
WriteEvent(r) ==
  LET f == run[r] IN
  /\ At(r, "write")
  /\ \E res \in Results :
       /\ Persist(EventUpdate(f), res)
       /\ Become(r, IF res = "lost"
                      THEN [f EXCEPT !.failed = TRUE, !.listed = FALSE,
                                     !.pc = IF f.event \in Ending THEN "retry" ELSE "fail"]
                      ELSE [f EXCEPT !.seen = res, !.pc = "publish"])
  /\ UNCHANGED <<active, sub, cancel, delivered>>

(* The store's state is what is published; if it is terminal and not ours,   *)
(* the executor is stopped.                                                  *)
PublishEvent(r) ==
  LET f == run[r]
      overruled == f.seen \in Terminal /\ f.seen # StateOf(f.event)
      ending == overruled \/ f.event \in Ending
  IN
  /\ At(r, "publish") /\ ~Unary(r)
  /\ sub' = IF ending THEN Told(sub, f.seen) ELSE sub
  /\ delivered' = IF f.event = "chunk" /\ ~overruled /\ \E s \in Subs : Hears(s)
                    THEN delivered \cup {LastArtifact(r)} ELSE delivered
  /\ Become(r, [f EXCEPT !.ended = @ \/ ending,
                         !.reached = @ \/ f.seen \in Terminal,
                         !.listed = @ /\ ~ending,
                         !.pc = IF ending THEN "close" ELSE "agent"])
  /\ UNCHANGED <<task, active, cancel, failures>>

(* The stream is over without an ending status: it was aborted. *)
Exhausted(r) ==
  /\ At(r, "exhausted")
  /\ \/ /\ task.kept /\ task.state = "input"
        /\ sub' = Told(sub, "input")
        /\ Become(r, [run[r] EXCEPT !.ended = TRUE, !.pc = "close"])
     \/ /\ ~(task.kept /\ task.state = "input")
        /\ Become(r, [run[r] EXCEPT !.pc = "cancelWrite"])
        /\ UNCHANGED sub
  /\ UNCHANGED <<task, active, cancel, delivered, failures>>

(* A last status of the stream, persisted and published. *)
LastStatus(r, state, ok, lost) ==
  /\ \E res \in Results :
       /\ Persist(Status(state, run[r].arts), res)
       /\ IF res = "lost"
            THEN Become(r, lost) /\ UNCHANGED sub
            ELSE /\ Become(r, [ok EXCEPT !.ended = TRUE, !.pc = "close",
                                         !.reached = @ \/ res \in Terminal])
                 /\ sub' = Told(sub, res)
  /\ UNCHANGED <<active, cancel, delivered>>

CancelOutcome(r) ==
  LET f == run[r] IN
  At(r, "cancelWrite") /\ LastStatus(r, "canceled", f, [f EXCEPT !.failed = TRUE, !.pc = "fail"])

(* The caller still gets the first write's error. *)
RetryWrite(r) ==
  LET f == run[r] IN
  At(r, "retry") /\ LastStatus(r, StateOf(f.event), f, [f EXCEPT !.pc = "fail"])

FailOutcome(r) ==
  LET f == run[r] IN
  At(r, "fail") /\ LastStatus(r, "failed", [f EXCEPT !.failed = FALSE], [f EXCEPT !.pc = "close"])

CloseBus(r) ==
  /\ At(r, "close")
  /\ sub' = IF run[r].reached \/ run[r].failed THEN Closed(sub) ELSE sub
  /\ Become(r, [run[r] EXCEPT !.pc = "clear"])
  /\ UNCHANGED <<task, active, cancel, delivered, failures>>
-----------------------------------------------------------------------------
(* The outcome of a unary run.                                              *)

(* Mutant: the outcome carries this turn's artifacts only. *)
OwnArtifacts(f) ==
  IF f.event = "stop" THEN Status("working", f.snap)
                      ELSE Status(StateOf(f.event), f.arts \ f.snap)

(* A detached run tries its outcome twice, then FAILED twice. *)
OutcomeUpdate(f) ==
  CASE f.tries >= 2 -> Status("failed", {})
    [] f.tries < 2 /\ f.event = "stop" -> Status("working", f.snap)
    [] OTHER -> Status(StateOf(f.event), f.arts)

WriteOutcome(r) ==
  LET f == run[r] IN
  /\ At(r, "outcome")
  /\ \E res \in Results :
       /\ Persist(OutcomeUpdate(f), res)
       /\ \/ /\ f.kind = "send"
             /\ Become(r, [f EXCEPT !.pc = "done",
                                    !.reply = IF res = "lost" THEN "error" ELSE res])
             /\ delivered' = IF res = "lost" THEN delivered ELSE delivered \cup task'.arts
          \/ /\ f.kind = "detached" /\ res # "lost"
             /\ Become(r, [f EXCEPT !.seen = res, !.pc = "publish"])
             /\ UNCHANGED delivered
          \/ /\ f.kind = "detached" /\ res = "lost"
             /\ Become(r, IF f.tries < 3 THEN [f EXCEPT !.tries = @ + 1]
                            ELSE [f EXCEPT !.failed = TRUE, !.pc = "clear"])
             /\ UNCHANGED delivered
  /\ UNCHANGED <<active, sub, cancel>>

PublishOutcome(r) ==
  LET f == run[r] IN
  /\ At(r, "publish") /\ Unary(r)
  /\ sub' = IF f.seen \in Terminal THEN Closed(Told(sub, f.seen)) ELSE Told(sub, f.seen)
  /\ Become(r, [f EXCEPT !.ended = TRUE, !.pc = "clear"])
  /\ UNCHANGED <<task, active, cancel, delivered, failures>>

(* Mutant: the end of an execution does not reach its subscribers. *)
ClearSilently(r) ==
  /\ At(r, "clear")
  /\ Become(r, [run[r] EXCEPT !.pc = "done"])
  /\ active' = IF active = r THEN None ELSE active
  /\ UNCHANGED <<task, sub, cancel, delivered, failures>>

(* clearExecution: the end of the execution detaches who followed it. *)
Clear(r) ==
  /\ At(r, "clear")
  /\ Become(r, [run[r] EXCEPT !.pc = "done"])
  /\ active' = IF active = r THEN None ELSE active
  /\ sub' = Completed(sub, r)
  /\ UNCHANGED <<task, cancel, delivered, failures>>
-----------------------------------------------------------------------------
(* Subscribers.                                                             *)

Listen(s, f) == sub' = [sub EXCEPT ![s] = f]
Finish(f, told) == [f EXCEPT !.pc = "done", !.on = FALSE, !.told = told]
SubIdle == UNCHANGED <<task, run, active, cancel, delivered, failures>>

Resubscribe(w) ==
  LET f == sub[w] IN
  /\ f.pc = "idle" /\ task.state # "none"
  /\ Listen(w, IF task.kept THEN [f EXCEPT !.pc = "read", !.seen = task.state]
                            ELSE Finish(f, "error"))
  /\ SubIdle

(* The active execution is looked up after the record was read. *)
Attach(w) ==
  LET f == sub[w]
      live == active # None /\ ~run[active].ended
      over == f.seen \in (IF live THEN Terminal ELSE Terminal \cup {"input"})
  IN
  /\ f.pc = "read"
  /\ \/ over /\ Listen(w, Finish(f, f.seen))
     \/ ~over /\ active = None /\ Listen(w, [f EXCEPT !.pc = "again"])
     \/ /\ ~over /\ active # None
        /\ Listen(w, [f EXCEPT !.pc = "waiting", !.on = TRUE, !.run = active])
  /\ SubIdle

ReadAgain(w) ==
  /\ sub[w].pc = "again"
  /\ Listen(w, Finish(sub[w], IF Interrupted(task) THEN task.state ELSE "error"))
  /\ SubIdle

(* A stream's primary subscriber also waits for its execution, whose failure *)
(* it reports.                                                               *)
EndOfEvents(s) ==
  LET f == sub[s] IN
  /\ f.pc = "waiting"
  /\ f.told # None \/ ~f.on
  /\ s \in Runs => At(s, "done")
  /\ Listen(s, CASE s \in Runs /\ run[f.run].failed -> Finish(f, "error")
                 [] f.told # None /\ ~(s \in Runs /\ run[f.run].failed) -> Finish(f, f.told)
                 [] OTHER -> [f EXCEPT !.pc = "last"])
  /\ SubIdle

LastRead(s) ==
  LET f == sub[s]
      otherwise == IF s \in Watchers /\ At(f.run, "done") THEN "error" ELSE "nothing"
  IN
  /\ f.pc = "last"
  /\ Listen(s, Finish(f, IF Interrupted(task) THEN task.state ELSE otherwise))
  /\ SubIdle
-----------------------------------------------------------------------------
(* tasks/cancel.                                                            *)

CancelRead(c) ==
  /\ cancel[c].pc = "idle" /\ task.state # "none"
  /\ cancel' = [cancel EXCEPT ![c] =
       CASE ~task.kept -> [@ EXCEPT !.pc = "done", !.reply = "error"]
         [] task.kept /\ Ended(task) -> [@ EXCEPT !.pc = "done", !.reply = task.state]
         [] OTHER -> [@ EXCEPT !.pc = "abort", !.snap = task.arts]]
  /\ UNCHANGED <<task, run, active, sub, delivered, failures>>

(* AgentExecutor.cancel aborts every controller registered for the task. *)
Abort(c) ==
  /\ cancel[c].pc = "abort"
  /\ run' = [r \in Runs |-> IF run[r].listed
                              THEN [run[r] EXCEPT !.aborted = TRUE, !.listed = FALSE]
                              ELSE run[r]]
  /\ cancel' = [cancel EXCEPT ![c].pc = "write"]
  /\ UNCHANGED <<task, active, sub, delivered, failures>>

(* The snapshot read before is written back with the new status. *)
CancelWrite(c) ==
  /\ cancel[c].pc = "write"
  /\ \E res \in Results :
       /\ Persist(Status("canceled", cancel[c].snap), res)
       /\ cancel' = [cancel EXCEPT ![c] =
            [@ EXCEPT !.pc = "done", !.reply = IF res = "lost" THEN "error" ELSE res]]
  /\ UNCHANGED <<run, active, sub, delivered>>

(* Retention in the store. *)
Evict ==
  /\ MayEvict /\ task.kept /\ Ended(task)
  /\ task' = [task EXCEPT !.kept = FALSE]
  /\ UNCHANGED <<run, active, sub, cancel, delivered, failures>>
-----------------------------------------------------------------------------
RunStep(r) ==
  \/ AcceptSend(r) \/ BeginSend(r) \/ BeginStream(r) \/ CreateSession(r)
  \/ AgentYields(r) \/ TakeEvent(r) \/ WriteEvent(r) \/ PublishEvent(r)
  \/ Exhausted(r) \/ CancelOutcome(r) \/ RetryWrite(r) \/ FailOutcome(r)
  \/ CloseBus(r) \/ WriteOutcome(r) \/ PublishOutcome(r) \/ Clear(r)

WatchStep(w) == Attach(w) \/ ReadAgain(w)
SubStep(s) == EndOfEvents(s) \/ LastRead(s)
CancelStep(c) == Abort(c) \/ CancelWrite(c)

Next ==
  \/ \E r \in Runs : Start(r) \/ RunStep(r)
  \/ \E w \in Watchers : Resubscribe(w) \/ WatchStep(w)
  \/ \E s \in Subs : SubStep(s)
  \/ \E c \in Cancels : CancelRead(c) \/ CancelStep(c)
  \/ Evict

Spec == Init /\ [][Next]_vars

(* Awaited work completes and agents come to an end.  Clients owe nothing.   *)
Fairness ==
  /\ \A r \in Runs : WF_vars(RunStep(r))
  /\ \A w \in Watchers : WF_vars(WatchStep(w))
  /\ \A s \in Subs : WF_vars(SubStep(s))
  /\ \A c \in Cancels : WF_vars(CancelStep(c))

FairSpec == Spec /\ Fairness
-----------------------------------------------------------------------------
(* Everybody who is told how the task ended is told the same, and what the   *)
(* store says: replies of sends and cancels, and the streams of every         *)
(* subscriber, whatever executions and cancels raced for the last write.     *)
OneOutcome ==
  /\ \A r \in Runs : run[r].reply \in Terminal => run[r].reply = task.state
  /\ \A s \in Subs : sub[s].told \in Terminal => sub[s].told = task.state
  /\ \A c \in Cancels : cancel[c].reply \in Terminal => cancel[c].reply = task.state

(* Artifacts survive across turns: what a client was given is in the record, *)
(* as long as the turns follow each other and none is canceled.              *)
TurnsKeepArtifacts ==
  task.kept /\ task.state # "canceled" => delivered \subseteq task.arts

(* A cancellation never makes the record lag behind content that a client    *)
(* already received.                                                         *)
CancelKeepsArtifacts == task.kept => delivered \subseteq task.arts

Canceled == \E c \in Cancels : cancel[c].pc = "done" /\ cancel[c].reply = "canceled"

(* No agent is left running, without its abort signal, on a task whose       *)
(* cancellation was acknowledged.                                            *)
NoWorkAfterCancel == Canceled => \A r \in Runs : At(r, "agent") => run[r].aborted

Quiet == /\ \A r \in Runs : ~InFlight(r)
         /\ \A c \in Cancels : cancel[c].pc \in {"idle", "done"}

Refused == \/ \E r \in Runs : run[r].kind = "send" /\ run[r].reply = "error"
           \/ \E c \in Cancels : cancel[c].reply = "error"

(* Nothing is stranded: when no execution and no cancel is in flight, the    *)
(* task does not say it is being worked on, unless a caller was given an     *)
(* error and can act on it.                                                  *)
NotStranded ==
  Quiet /\ task.kept /\ task.state = "working" => Refused

(* Whoever's stream ended without an error knows where the interaction ended. *)
EndIsTold ==
  \A s \in Subs : sub[s].pc = "done" => sub[s].told \in Terminal \cup {"input", "error"}

(* No subscriber waits for ever for an execution that is over. *)
SubscribersEnd == \A s \in Subs : sub[s].pc = "waiting" ~> sub[s].pc = "done"
=============================================================================
