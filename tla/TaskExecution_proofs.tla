------------------------- MODULE TaskExecution_proofs -------------------------
(***************************************************************************)
(* Theorems about TaskExecution, for any runs, watchers, cancels and bounds. *)
(* TypeCorrect: every reachable state is well typed.                         *)
(* OneOutcomeForAll: whoever is told how the task ended is told what the     *)
(* store says.                                                             *)
(* TurnsKeepWhatWasGiven: turns that follow each other lose no artifact a     *)
(* client has, unless a cancel wrote its own snapshot back.                   *)
(* NobodyIsStranded: while the store fails at most once, a record that says   *)
(* "working" has somebody who owes it another status, or somebody who was    *)
(* given an error.                                                           *)
(***************************************************************************)
EXTENDS TaskExecution, TLAPS

(* What holds of one run, one subscription and one cancel, given the record  *)
(* t: every terminal state it holds is the record's.                         *)
RunInv(f, t) ==
  /\ f \in Run
  /\ f.event = "chunk" /\ f.pc = "taking" => f.made < MaxArtifacts
  /\ f.event = "chunk" /\ f.pc \in {"write", "publish", "outcome"} => f.made > 0
  /\ f.seen \in Terminal => f.seen = t.state
  /\ f.reply \in Terminal => f.reply = t.state

SubInv(f, t) ==
  /\ f \in Sub
  /\ f.seen \in Terminal => f.seen = t.state
  /\ f.told \in Terminal => f.told = t.state

CancelInv(f, t) ==
  /\ f \in Cancel
  /\ f.reply \in Terminal => f.reply = t.state

Inv ==
  /\ task \in Task
  /\ run \in [Runs -> Run]
  /\ \A r \in Runs : RunInv(run[r], task)
  /\ active \in Runs \cup {None}
  /\ sub \in [Subs -> Sub]
  /\ \A s \in Subs : SubInv(sub[s], task)
  /\ cancel \in [Cancels -> Cancel]
  /\ \A c \in Cancels : CancelInv(cancel[c], task)
  /\ delivered \in SUBSET Artifacts
  /\ failures \in Nat

(* A step keeps the record well typed, and an ending that was stored. *)
Sticky == task' \in Task /\ (task.state \in Terminal => task'.state = task.state)
-----------------------------------------------------------------------------
(* The invariant gives the two properties.                                  *)
LEMMA InvImplies == Inv => TypeOK /\ OneOutcome
  BY DEF Inv, TypeOK, OneOutcome, RunInv, SubInv, CancelInv

(* The initial state satisfies the invariant. *)
LEMMA InitInv == Init => Inv
<1> SUFFICES ASSUME Init PROVE Inv
  OBVIOUS
<1> USE RunAssumption, NoneAssumption, CallAssumption
<1>1. task \in Task
  BY DEF Init, NoTask, Task, States
<1>2. run \in [Runs -> Run] /\ \A r \in Runs : RunInv(run[r], task)
  BY DEF Init, Run, RunPCs, States, Answers, Terminal, RunInv
<1>3. sub \in [Subs -> Sub] /\ \A s \in Subs : SubInv(sub[s], task)
  BY DEF Init, Sub, States, Answers, Terminal, SubInv
<1>4. cancel \in [Cancels -> Cancel] /\ \A c \in Cancels : CancelInv(cancel[c], task)
  BY DEF Init, Cancel, States, Answers, Terminal, CancelInv
<1> QED BY <1>1, <1>2, <1>3, <1>4 DEF Inv, Init

(* _persistTaskState returns what the store then says, or is lost, and never *)
(* changes a stored ending.                                                  *)
LEMMA PersistSound ==
  ASSUME task \in Task, failures \in Nat, NEW u \in Update, NEW res \in Results, Persist(u, res)
  PROVE  /\ Sticky
         /\ failures' \in Nat
         /\ res # "lost" => res \in States /\ (res \in Terminal => res = task'.state)
<1> USE RunAssumption DEF Terminal, States
<1>1. CASE Accepts(task, u) /\ task' = Apply(task, u) /\ res = task'.state /\ UNCHANGED failures
  <2>1. task' \in Task
    BY <1>1 DEF Apply, Task, Update
  <2>2. task.state \in Terminal => task'.state = task.state
    BY <1>1 DEF Apply, Task, Update, Accepts, Ended
  <2> QED BY <1>1, <2>1, <2>2 DEF Task, Sticky
<1>2. CASE /\ \/ ~Accepts(task, u) /\ UNCHANGED failures
              \/ failures < MaxStoreFailures /\ failures' = failures + 1
           /\ UNCHANGED task
           /\ res = IF task.kept /\ Ended(task) THEN task.state ELSE "lost"
  BY <1>2 DEF Task, Sticky
<1> QED BY <1>1, <1>2 DEF Persist

(* What held of a record of a call still holds after a sticky step. *)
LEMMA StickyKeeps ==
  ASSUME Sticky
  PROVE  /\ \A f : RunInv(f, task) => RunInv(f, task')
         /\ \A f : SubInv(f, task) => SubInv(f, task')
         /\ \A f : CancelInv(f, task) => CancelInv(f, task')
  BY DEF Sticky, RunInv, SubInv, CancelInv

(* A step of run r that leaves the others, and the cancels, alone. *)
LEMMA RunMoves ==
  ASSUME Inv, NEW r \in Runs, NEW f, Become(r, f), RunInv(f, task'), Sticky,
         active' \in Runs \cup {None}, failures' \in Nat, delivered' \in SUBSET Artifacts,
         UNCHANGED cancel,
         sub' \in [Subs -> Sub], \A s \in Subs : SubInv(sub'[s], task')
  PROVE  Inv'
<1>1. run' \in [Runs -> Run] /\ \A q \in Runs : RunInv(run'[q], task')
  <2>1. f \in Run
    BY DEF RunInv
  <2>2. run' \in [Runs -> Run] /\ run'[r] = f /\ \A q \in Runs \ {r} : run'[q] = run[q]
    BY <2>1 DEF Become, Inv
  <2>3. \A q \in Runs \ {r} : RunInv(run'[q], task')
    BY <2>2, StickyKeeps DEF Inv
  <2> QED BY <2>2, <2>3
<1>2. \A c \in Cancels : CancelInv(cancel'[c], task')
  BY StickyKeeps DEF Inv
<1> QED BY <1>1, <1>2 DEF Inv, Sticky

(* Subscriptions that a sticky step does not touch. *)
LEMMA SubsKept ==
  ASSUME Inv, Sticky, UNCHANGED sub
  PROVE  sub' \in [Subs -> Sub] /\ \A s \in Subs : SubInv(sub'[s], task')
  BY StickyKeeps DEF Inv

(* Publishing an ending the record holds, closing the bus, and the end of an *)
(* execution leave subscribers with endings the record holds.                *)
LEMMA SubsTold ==
  ASSUME Inv, Sticky, NEW state \in States, state \in Terminal => state = task'.state,
         sub' = Told(sub, state)
  PROVE  sub' \in [Subs -> Sub] /\ \A s \in Subs : SubInv(sub'[s], task')
<1>1. \A s \in Subs : SubInv(sub[s], task')
  BY StickyKeeps DEF Inv
<1>2. \A s \in Subs : SubInv(sub'[s], task')
  BY <1>1 DEF Told, SubInv, Sub, Answers
<1> QED BY <1>2 DEF Told, SubInv

LEMMA SubsClosed ==
  ASSUME NEW sb \in [Subs -> Sub], NEW t, \A s \in Subs : SubInv(sb[s], t)
  PROVE  Closed(sb) \in [Subs -> Sub] /\ \A s \in Subs : SubInv(Closed(sb)[s], t)
  BY DEF Closed, SubInv, Sub

LEMMA SubsCompleted ==
  ASSUME NEW sb \in [Subs -> Sub], NEW t, \A s \in Subs : SubInv(sb[s], t), NEW r \in Runs
  PROVE  Completed(sb, r) \in [Subs -> Sub] /\ \A s \in Subs : SubInv(Completed(sb, r)[s], t)
  BY DEF Completed, SubInv, Sub
-----------------------------------------------------------------------------
(* What the steps of a run do to its record keeps RunInv.                    *)

(* A run is created or finds its task. *)
LEMMA RunResolved ==
  ASSUME NEW f, NEW t, RunInv(f, t), NEW k \in Kinds, NEW a \in SUBSET Artifacts
  PROVE  RunInv([f EXCEPT !.kind = k, !.pc = "resolved", !.snap = a, !.arts = a], t)
<1> DEFINE g == [f EXCEPT !.kind = k, !.pc = "resolved", !.snap = a, !.arts = a]
<1> SUFFICES RunInv(g, t)
  OBVIOUS
<1>0. f \in Run
  BY DEF RunInv
<1>1. g \in Run
  BY <1>0, CallAssumption DEF Run, RunPCs
<1>2. g.pc = "resolved" /\ g.seen = f.seen /\ g.reply = f.reply
  BY <1>0 DEF Run
<1> HIDE DEF g
<1> QED BY <1>1, <1>2 DEF RunInv, Terminal

(* A send works on the record its WORKING write returned. *)
LEMMA RunAccepted ==
  ASSUME NEW f, NEW t, RunInv(f, t), NEW a \in SUBSET Artifacts
  PROVE  RunInv([f EXCEPT !.pc = "accepted", !.snap = a, !.arts = a], t)
<1> DEFINE g == [f EXCEPT !.pc = "accepted", !.snap = a, !.arts = a]
<1> SUFFICES RunInv(g, t)
  OBVIOUS
<1>0. f \in Run
  BY DEF RunInv
<1>1. g \in Run
  BY <1>0 DEF Run, RunPCs
<1>2. g.pc = "accepted" /\ g.seen = f.seen /\ g.reply = f.reply
  BY <1>0 DEF Run
<1> HIDE DEF g
<1> QED BY <1>1, <1>2 DEF RunInv, Terminal

(* A call ends with a reply that agrees with the record. *)
LEMMA RunReplies ==
  ASSUME NEW f, NEW t, RunInv(f, t), NEW a \in Answers, a \in Terminal => a = t.state
  PROVE  RunInv([f EXCEPT !.pc = "done", !.reply = a], t)
<1> DEFINE g == [f EXCEPT !.pc = "done", !.reply = a]
<1> SUFFICES RunInv(g, t)
  OBVIOUS
<1>0. f \in Run
  BY DEF RunInv
<1>1. g \in Run
  BY <1>0 DEF Run, RunPCs
<1>2. g.pc = "done" /\ g.seen = f.seen /\ g.reply = a
  BY <1>0 DEF Run
<1> HIDE DEF g
<1> QED BY <1>1, <1>2 DEF RunInv, Terminal

(* An execution registers its controller; a detached send is acknowledged. *)
LEMMA RunBegins ==
  ASSUME NEW f, NEW t, RunInv(f, t), NEW a \in Answers, a = f.reply \/ a = "working"
  PROVE  RunInv([f EXCEPT !.pc = "session", !.listed = TRUE, !.reply = a], t)
<1> DEFINE g == [f EXCEPT !.pc = "session", !.listed = TRUE, !.reply = a]
<1> SUFFICES RunInv(g, t)
  OBVIOUS
<1>0. f \in Run
  BY DEF RunInv
<1>1. g \in Run
  BY <1>0 DEF Run, RunPCs
<1>2. g.pc = "session" /\ g.seen = f.seen /\ g.reply = a
  BY <1>0 DEF Run
<1> HIDE DEF g
<1> QED BY <1>1, <1>2 DEF RunInv, Terminal

(* A stream registers its controller. *)
LEMMA RunBeginsStream ==
  ASSUME NEW f, NEW t, RunInv(f, t)
  PROVE  RunInv([f EXCEPT !.pc = "session", !.listed = TRUE], t)
<1> DEFINE g == [f EXCEPT !.pc = "session", !.listed = TRUE]
<1> SUFFICES RunInv(g, t)
  OBVIOUS
<1>0. f \in Run
  BY DEF RunInv
<1>1. g \in Run
  BY <1>0 DEF Run, RunPCs
<1>2. g.pc = "session" /\ g.seen = f.seen /\ g.reply = f.reply
  BY <1>0 DEF Run
<1> HIDE DEF g
<1> QED BY <1>1, <1>2 DEF RunInv, Terminal

(* A run goes on to a place where it holds no event. *)
LEMMA RunGoesOn ==
  ASSUME NEW f, NEW t, RunInv(f, t), NEW p \in RunPCs \ {"taking", "write", "publish", "outcome"}
  PROVE  RunInv([f EXCEPT !.pc = p], t)
<1> DEFINE g == [f EXCEPT !.pc = p]
<1> SUFFICES RunInv(g, t)
  OBVIOUS
<1>0. f \in Run
  BY DEF RunInv
<1>1. g \in Run
  BY <1>0 DEF Run, RunPCs
<1>2. g.pc = p /\ g.seen = f.seen /\ g.reply = f.reply
  BY <1>0 DEF Run
<1> HIDE DEF g
<1> QED BY <1>1, <1>2 DEF RunInv, Terminal

(* The executor announces WORKING. *)
LEMMA RunWorks ==
  ASSUME NEW f, NEW t, RunInv(f, t)
  PROVE  RunInv([f EXCEPT !.pc = "write", !.event = "working"], t)
<1> DEFINE g == [f EXCEPT !.pc = "write", !.event = "working"]
<1> SUFFICES RunInv(g, t)
  OBVIOUS
<1>0. f \in Run
  BY DEF RunInv
<1>1. g \in Run
  BY <1>0 DEF Run, RunPCs
<1>2. g.event = "working" /\ g.seen = f.seen /\ g.reply = f.reply
  BY <1>0 DEF Run
<1> HIDE DEF g
<1> QED BY <1>1, <1>2 DEF RunInv, Terminal

(* The agent yields an event. *)
LEMMA RunYields ==
  ASSUME NEW f, NEW t, RunInv(f, t), NEW e \in AgentEvents, e = "chunk" => f.made < MaxArtifacts
  PROVE  RunInv([f EXCEPT !.pc = "taking", !.event = e], t)
<1> DEFINE g == [f EXCEPT !.pc = "taking", !.event = e]
<1> SUFFICES RunInv(g, t)
  OBVIOUS
<1>0. f \in Run
  BY DEF RunInv
<1>1. g \in Run
  BY <1>0 DEF Run, RunPCs
<1>2. g.pc = "taking" /\ g.event = e /\ g.made = f.made /\ g.seen = f.seen /\ g.reply = f.reply
  BY <1>0 DEF Run
<1> HIDE DEF g
<1> QED BY <1>1, <1>2 DEF RunInv, Terminal

(* An artifact is added. *)
LEMMA RunProduces ==
  ASSUME NEW f, NEW t, RunInv(f, t), NEW a \in Artifacts, NEW p \in {"agent", "write"},
         f.made < MaxArtifacts
  PROVE  RunInv([f EXCEPT !.made = @ + 1, !.arts = @ \cup {a}, !.pc = p], t)
<1> DEFINE g == [f EXCEPT !.made = @ + 1, !.arts = @ \cup {a}, !.pc = p]
<1> SUFFICES RunInv(g, t)
  OBVIOUS
<1>0. f \in Run
  BY DEF RunInv
<1>1. f.made + 1 \in 0..MaxArtifacts /\ f.made + 1 > 0
  BY <1>0, RunAssumption DEF Run
<1>2. f.arts \cup {a} \in SUBSET Artifacts
  BY <1>0 DEF Run
<1>3. g = [f EXCEPT !.made = f.made + 1, !.arts = f.arts \cup {a}, !.pc = p]
  BY <1>0 DEF Run
<1>4. /\ g \in Run
      /\ g.pc = p /\ g.made = f.made + 1 /\ g.seen = f.seen /\ g.reply = f.reply
  <2> DEFINE m == f.made + 1
             as == f.arts \cup {a}
  <2> HIDE DEF g, m, as
  <2>1. g = [f EXCEPT !.made = m, !.arts = as, !.pc = p]
    BY <1>3 DEF m, as
  <2>2. m \in 0..MaxArtifacts /\ as \in SUBSET Artifacts
    BY <1>1, <1>2 DEF m, as
  <2>3. g \in Run
    BY <2>1, <2>2, <1>0 DEF Run, RunPCs
  <2>4. g.pc = p /\ g.made = m /\ g.seen = f.seen /\ g.reply = f.reply
    BY <2>1, <1>0 DEF Run
  <2> QED BY <2>3, <2>4 DEF m
<1> HIDE DEF g
<1> QED BY <1>1, <1>4 DEF RunInv, Terminal

(* The executor is through with an event that is not an artifact. *)
LEMMA RunIsOver ==
  ASSUME NEW f, NEW t, RunInv(f, t), NEW e \in AgentEvents \cup {"working", "stop"}, e # "chunk", NEW p \in {"outcome", "exhausted", "write"}
  PROVE  RunInv([f EXCEPT !.event = e, !.listed = FALSE, !.pc = p], t)
<1> DEFINE g == [f EXCEPT !.event = e, !.listed = FALSE, !.pc = p]
<1> SUFFICES RunInv(g, t)
  OBVIOUS
<1>0. f \in Run
  BY DEF RunInv
<1>1. g \in Run
  BY <1>0 DEF Run, RunPCs, AgentEvents
<1>2. g.event = e /\ g.seen = f.seen /\ g.reply = f.reply
  BY <1>0 DEF Run
<1> HIDE DEF g
<1> QED BY <1>1, <1>2 DEF RunInv, Terminal

(* The write of an event failed. *)
LEMMA RunFails ==
  ASSUME NEW f, NEW t, RunInv(f, t), NEW p \in {"retry", "fail"}
  PROVE  RunInv([f EXCEPT !.failed = TRUE, !.listed = FALSE, !.pc = p], t)
<1> DEFINE g == [f EXCEPT !.failed = TRUE, !.listed = FALSE, !.pc = p]
<1> SUFFICES RunInv(g, t)
  OBVIOUS
<1>0. f \in Run
  BY DEF RunInv
<1>1. g \in Run
  BY <1>0 DEF Run, RunPCs
<1>2. g.pc = p /\ g.seen = f.seen /\ g.reply = f.reply
  BY <1>0 DEF Run
<1> HIDE DEF g
<1> QED BY <1>1, <1>2 DEF RunInv, Terminal

(* A write returned the stored state. *)
LEMMA RunWrote ==
  ASSUME NEW f, NEW t, RunInv(f, t), NEW s \in States, s \in Terminal => s = t.state, f.event = "chunk" => f.made > 0
  PROVE  RunInv([f EXCEPT !.seen = s, !.pc = "publish"], t)
<1> DEFINE g == [f EXCEPT !.seen = s, !.pc = "publish"]
<1> SUFFICES RunInv(g, t)
  OBVIOUS
<1>0. f \in Run
  BY DEF RunInv
<1>1. g \in Run
  BY <1>0 DEF Run, RunPCs
<1>2. g.pc = "publish" /\ g.event = f.event /\ g.made = f.made /\ g.seen = s /\ g.reply = f.reply
  BY <1>0 DEF Run
<1> HIDE DEF g
<1> QED BY <1>1, <1>2 DEF RunInv, Terminal

(* An event was published. *)
LEMMA RunPublished ==
  ASSUME NEW f, NEW t, RunInv(f, t), NEW e \in BOOLEAN, NEW h \in BOOLEAN, NEW l \in BOOLEAN, NEW p \in {"close", "agent"}
  PROVE  RunInv([f EXCEPT !.ended = e, !.reached = h, !.listed = l, !.pc = p], t)
<1> DEFINE g == [f EXCEPT !.ended = e, !.reached = h, !.listed = l, !.pc = p]
<1> SUFFICES RunInv(g, t)
  OBVIOUS
<1>0. f \in Run
  BY DEF RunInv
<1>1. g \in Run
  BY <1>0 DEF Run, RunPCs
<1>2. g.pc = p /\ g.seen = f.seen /\ g.reply = f.reply
  BY <1>0 DEF Run
<1> HIDE DEF g
<1> QED BY <1>1, <1>2 DEF RunInv, Terminal

(* The interaction ended. *)
LEMMA RunEnded ==
  ASSUME NEW f, NEW t, RunInv(f, t), NEW p \in {"close", "clear"}
  PROVE  RunInv([f EXCEPT !.ended = TRUE, !.pc = p], t)
<1> DEFINE g == [f EXCEPT !.ended = TRUE, !.pc = p]
<1> SUFFICES RunInv(g, t)
  OBVIOUS
<1>0. f \in Run
  BY DEF RunInv
<1>1. g \in Run
  BY <1>0 DEF Run, RunPCs
<1>2. g.pc = p /\ g.seen = f.seen /\ g.reply = f.reply
  BY <1>0 DEF Run
<1> HIDE DEF g
<1> QED BY <1>1, <1>2 DEF RunInv, Terminal

(* The last status of a stream was written and published. *)
LEMMA RunEndedWith ==
  ASSUME NEW f, NEW t, RunInv(f, t), NEW h \in BOOLEAN
  PROVE  RunInv([f EXCEPT !.ended = TRUE, !.pc = "close", !.reached = h], t)
<1> DEFINE g == [f EXCEPT !.ended = TRUE, !.pc = "close", !.reached = h]
<1> SUFFICES RunInv(g, t)
  OBVIOUS
<1>0. f \in Run
  BY DEF RunInv
<1>1. g \in Run
  BY <1>0 DEF Run, RunPCs
<1>2. g.pc = "close" /\ g.seen = f.seen /\ g.reply = f.reply
  BY <1>0 DEF Run
<1> HIDE DEF g
<1> QED BY <1>1, <1>2 DEF RunInv, Terminal

(* A write failed and the run goes on to its clean-up. *)
LEMMA RunGivesUp ==
  ASSUME NEW f, NEW t, RunInv(f, t), NEW p \in {"fail", "clear"}
  PROVE  RunInv([f EXCEPT !.failed = TRUE, !.pc = p], t)
<1> DEFINE g == [f EXCEPT !.failed = TRUE, !.pc = p]
<1> SUFFICES RunInv(g, t)
  OBVIOUS
<1>0. f \in Run
  BY DEF RunInv
<1>1. g \in Run
  BY <1>0 DEF Run, RunPCs
<1>2. g.pc = p /\ g.seen = f.seen /\ g.reply = f.reply
  BY <1>0 DEF Run
<1> HIDE DEF g
<1> QED BY <1>1, <1>2 DEF RunInv, Terminal

(* The failure became the task's. *)
LEMMA RunExcused ==
  ASSUME NEW f, NEW t, RunInv(f, t)
  PROVE  RunInv([f EXCEPT !.failed = FALSE], t)
<1> DEFINE g == [f EXCEPT !.failed = FALSE]
<1> SUFFICES RunInv(g, t)
  OBVIOUS
<1>0. f \in Run
  BY DEF RunInv
<1>1. g \in Run
  BY <1>0 DEF Run
<1>2. g.pc = f.pc /\ g.event = f.event /\ g.made = f.made /\ g.seen = f.seen /\ g.reply = f.reply
  BY <1>0 DEF Run
<1> HIDE DEF g
<1> QED BY <1>1, <1>2 DEF RunInv, Terminal

(* A detached outcome is tried again. *)
LEMMA RunTriesAgain ==
  ASSUME NEW f, NEW t, RunInv(f, t), f.tries < 3
  PROVE  RunInv([f EXCEPT !.tries = @ + 1], t)
<1> DEFINE g == [f EXCEPT !.tries = @ + 1]
<1> SUFFICES RunInv(g, t)
  OBVIOUS
<1>0. f \in Run
  BY DEF RunInv
<1>1. g \in Run
  BY <1>0 DEF Run
<1>2. g.pc = f.pc /\ g.event = f.event /\ g.made = f.made /\ g.seen = f.seen /\ g.reply = f.reply
  BY <1>0 DEF Run
<1> HIDE DEF g
<1> QED BY <1>1, <1>2 DEF RunInv, Terminal

(* A cancel aborts the run. *)
LEMMA RunAborted ==
  ASSUME NEW f, NEW t, RunInv(f, t)
  PROVE  RunInv([f EXCEPT !.aborted = TRUE, !.listed = FALSE], t)
<1> DEFINE g == [f EXCEPT !.aborted = TRUE, !.listed = FALSE]
<1> SUFFICES RunInv(g, t)
  OBVIOUS
<1>0. f \in Run
  BY DEF RunInv
<1>1. g \in Run
  BY <1>0 DEF Run
<1>2. g.pc = f.pc /\ g.event = f.event /\ g.made = f.made /\ g.seen = f.seen /\ g.reply = f.reply
  BY <1>0 DEF Run
<1> HIDE DEF g
<1> QED BY <1>1, <1>2 DEF RunInv, Terminal
-----------------------------------------------------------------------------
(* Steps that leave the record alone. *)
LEMMA StutterSticky == ASSUME Inv, UNCHANGED task PROVE Sticky
  BY DEF Inv, Sticky

(* A step of a run that touches nothing shared but `active`. *)
LEMMA LocalStep ==
  ASSUME Inv, NEW r \in Runs, NEW f, Become(r, f), RunInv(f, task),
         active' \in Runs \cup {None}, UNCHANGED <<task, sub, cancel, delivered, failures>>
  PROVE  Inv'
<1>1. Sticky
  BY StutterSticky
<1>2. RunInv(f, task')
  BY <1>1, StickyKeeps
<1>3. sub' \in [Subs -> Sub] /\ \A s \in Subs : SubInv(sub'[s], task')
  BY <1>1, SubsKept
<1>4. failures' \in Nat /\ delivered' \in SUBSET Artifacts
  BY DEF Inv
<1> QED BY <1>1, <1>2, <1>3, <1>4, RunMoves

(* Accepting a message. *)
LEMMA StartInv == ASSUME Inv, NEW r \in Runs, Start(r) PROVE Inv'
<1>1. PICK k \in Kinds :
        Become(r, [run[r] EXCEPT !.kind = k, !.pc = "resolved",
                                 !.snap = task'.arts, !.arts = task'.arts])
  BY DEF Start
<1>2. Sticky
  <2>1. CASE task.state = "none" /\ task' = NewTask
    <3>1. NewTask \in Task
      BY DEF NewTask, Task, States
    <3>2. "none" \notin Terminal
      BY DEF Terminal
    <3> QED BY <2>1, <3>1, <3>2 DEF Sticky
  <2>2. CASE UNCHANGED task
    BY <2>2, StutterSticky
  <2> QED BY <2>1, <2>2 DEF Start
<1>3. RunInv(run[r], task') /\ task'.arts \in SUBSET Artifacts
  BY <1>2, StickyKeeps DEF Inv, Sticky, Task
<1>4. RunInv([run[r] EXCEPT !.kind = k, !.pc = "resolved",
                            !.snap = task'.arts, !.arts = task'.arts], task')
  BY <1>3, RunResolved
<1>5. sub' \in [Subs -> Sub] /\ \A s \in Subs : SubInv(sub'[s], task')
  BY <1>2, SubsKept DEF Start
<1>6. /\ active' \in Runs \cup {None} /\ failures' \in Nat
      /\ delivered' \in SUBSET Artifacts /\ UNCHANGED cancel
  BY DEF Start, Inv
<1> QED BY <1>1, <1>2, <1>4, <1>5, <1>6, RunMoves

LEMMA AcceptSendInv == ASSUME Inv, NEW r \in Runs, AcceptSend(r) PROVE Inv'
<1>1. Status("working", {}) \in Update
  BY DEF Status, Update, States
<1>2. PICK res \in Results :
        /\ Persist(Status("working", {}), res)
        /\ Become(r, CASE res = "lost" -> [run[r] EXCEPT !.pc = "done", !.reply = "error"]
                       [] res \in Terminal -> [run[r] EXCEPT !.pc = "done", !.reply = res]
                       [] OTHER -> [run[r] EXCEPT !.pc = "accepted", !.snap = task'.arts,
                                                  !.arts = task'.arts])
  BY DEF AcceptSend
<1>3. /\ Sticky /\ failures' \in Nat
      /\ res # "lost" => res \in States /\ (res \in Terminal => res = task'.state)
  BY <1>1, <1>2, PersistSound DEF Inv
<1>4. RunInv(run[r], task') /\ task'.arts \in SUBSET Artifacts
  BY <1>3, StickyKeeps DEF Inv, Sticky, Task
<1>5. \E f : Become(r, f) /\ RunInv(f, task')
  <2>1. CASE res = "lost"
    <3>1. "error" \in Answers /\ "error" \notin Terminal /\ "lost" \notin Terminal
      BY DEF Answers, Terminal
    <3>2. RunInv([run[r] EXCEPT !.pc = "done", !.reply = "error"], task')
      BY <1>4, <3>1, RunReplies
    <3>3. Become(r, [run[r] EXCEPT !.pc = "done", !.reply = "error"])
      BY <1>2, <2>1, <3>1
    <3> QED BY <3>2, <3>3
  <2>2. CASE res # "lost" /\ res \in Terminal
    <3>1. res \in Answers /\ res = task'.state
      BY <2>2, <1>3 DEF Answers
    <3>2. RunInv([run[r] EXCEPT !.pc = "done", !.reply = res], task')
      BY <1>4, <3>1, RunReplies
    <3>3. Become(r, [run[r] EXCEPT !.pc = "done", !.reply = res])
      BY <1>2, <2>2
    <3> QED BY <3>2, <3>3
  <2>3. CASE res # "lost" /\ res \notin Terminal
    <3>1. RunInv([run[r] EXCEPT !.pc = "accepted", !.snap = task'.arts,
                                !.arts = task'.arts], task')
      BY <1>4, RunAccepted
    <3>2. Become(r, [run[r] EXCEPT !.pc = "accepted", !.snap = task'.arts,
                                   !.arts = task'.arts])
      BY <1>2, <2>3
    <3> QED BY <3>1, <3>2
  <2> QED BY <2>1, <2>2, <2>3
<1>6. sub' \in [Subs -> Sub] /\ \A s \in Subs : SubInv(sub'[s], task')
  BY <1>3, SubsKept DEF AcceptSend
<1>7. /\ active' \in Runs \cup {None} /\ delivered' \in SUBSET Artifacts
      /\ UNCHANGED cancel
  BY DEF AcceptSend, Inv
<1> QED BY <1>3, <1>5, <1>6, <1>7, RunMoves

LEMMA BeginSendInv == ASSUME Inv, NEW r \in Runs, BeginSend(r) PROVE Inv'
<1> DEFINE a == IF run[r].kind = "detached" THEN "working" ELSE run[r].reply
<1>1. RunInv(run[r], task) /\ run[r] \in Run
  BY DEF Inv
<1>2. a \in Answers /\ (a = run[r].reply \/ a = "working")
  BY <1>1 DEF Run, Answers, States
<1>3. Become(r, [run[r] EXCEPT !.pc = "session", !.listed = TRUE, !.reply = a])
  BY <1>1 DEF BeginSend, Run
<1> HIDE DEF a
<1>4. RunInv([run[r] EXCEPT !.pc = "session", !.listed = TRUE, !.reply = a], task)
  BY <1>1, <1>2, RunBegins
<1>5. active' \in Runs \cup {None} /\ UNCHANGED <<task, sub, cancel, delivered, failures>>
  BY DEF BeginSend, Inv
<1> QED BY <1>3, <1>4, <1>5, LocalStep

LEMMA BeginStreamInv == ASSUME Inv, NEW r \in Runs, BeginStream(r) PROVE Inv'
<1>1. Sticky
  BY StutterSticky DEF BeginStream
<1>2. RunInv([run[r] EXCEPT !.pc = "session", !.listed = TRUE], task')
  BY <1>1, StickyKeeps, RunBeginsStream DEF Inv
<1>3. sub' \in [Subs -> Sub] /\ \A s \in Subs : SubInv(sub'[s], task')
  <2>1. sub[r] \in Sub /\ SubInv(sub[r], task') /\ r \in Subs
    BY <1>1, StickyKeeps DEF Inv, Subs
  <2>2. SubInv([sub[r] EXCEPT !.pc = "waiting", !.on = TRUE, !.run = r], task')
    BY <2>1 DEF SubInv, Sub
  <2>3. sub' = [sub EXCEPT ![r] = [sub[r] EXCEPT !.pc = "waiting", !.on = TRUE, !.run = r]]
    BY DEF BeginStream
  <2>4. \A s \in Subs : SubInv(sub[s], task') /\ sub \in [Subs -> Sub]
    BY <1>1, StickyKeeps DEF Inv
  <2>5. [sub[r] EXCEPT !.pc = "waiting", !.on = TRUE, !.run = r] \in Sub
    BY <2>2 DEF SubInv
  <2> QED BY <2>1, <2>2, <2>3, <2>4, <2>5
<1>4. /\ Become(r, [run[r] EXCEPT !.pc = "session", !.listed = TRUE])
      /\ active' \in Runs \cup {None} /\ failures' \in Nat
      /\ delivered' \in SUBSET Artifacts /\ UNCHANGED cancel
  BY DEF BeginStream, Inv
<1> QED BY <1>1, <1>2, <1>3, <1>4, RunMoves
-----------------------------------------------------------------------------
(* The executor and the agent.                                              *)
LEMMA OverInv ==
  ASSUME NEW f, NEW t, RunInv(f, t), NEW e \in AgentEvents \cup {"working", "stop"}, e # "chunk"
  PROVE  RunInv(Over(f, e), t)
<1> DEFINE p == CASE f.kind # "stream" -> "outcome"
                  [] f.kind = "stream" /\ e = "stop" -> "exhausted"
                  [] OTHER -> "write"
<1>1. p \in {"outcome", "exhausted", "write"}
  OBVIOUS
<1>2. Over(f, e) = [f EXCEPT !.event = e, !.listed = FALSE, !.pc = p]
  BY DEF Over
<1> HIDE DEF p
<1>3. RunInv([f EXCEPT !.event = e, !.listed = FALSE, !.pc = p], t)
  BY <1>1, RunIsOver
<1> QED BY <1>2, <1>3

LEMMA CreateSessionInv == ASSUME Inv, NEW r \in Runs, CreateSession(r) PROVE Inv'
<1>1. RunInv(run[r], task)
  BY DEF Inv
<1>2. active' \in Runs \cup {None} /\ UNCHANGED <<task, sub, cancel, delivered, failures>>
  BY DEF CreateSession, Inv
<1>3. CASE Become(r, Over(run[r], "stop"))
  <2>1. RunInv(Over(run[r], "stop"), task)
    BY <1>1, OverInv
  <2> QED BY <1>2, <1>3, <2>1, LocalStep
<1>4. CASE Become(r, [run[r] EXCEPT !.pc = "agent"])
  <2>1. RunInv([run[r] EXCEPT !.pc = "agent"], task)
    BY <1>1, RunGoesOn DEF RunPCs
  <2> QED BY <1>2, <1>4, <2>1, LocalStep
<1>5. CASE Become(r, [run[r] EXCEPT !.pc = "write", !.event = "working"])
  <2>1. RunInv([run[r] EXCEPT !.pc = "write", !.event = "working"], task)
    BY <1>1, RunWorks
  <2> QED BY <1>2, <1>5, <2>1, LocalStep
<1>6. CASE Become(r, [run[r] EXCEPT !.pc = "taking", !.event = "throw"])
  <2>1. RunInv([run[r] EXCEPT !.pc = "taking", !.event = "throw"], task)
    BY <1>1, RunYields DEF AgentEvents
  <2> QED BY <1>2, <1>6, <2>1, LocalStep
<1> QED BY <1>3, <1>4, <1>5, <1>6 DEF CreateSession

LEMMA AgentYieldsInv == ASSUME Inv, NEW r \in Runs, AgentYields(r) PROVE Inv'
<1>1. PICK e \in AgentEvents :
        /\ e = "chunk" => run[r].made < MaxArtifacts
        /\ Become(r, [run[r] EXCEPT !.pc = "taking", !.event = e])
  BY DEF AgentYields
<1>2. RunInv([run[r] EXCEPT !.pc = "taking", !.event = e], task)
  BY <1>1, RunYields DEF Inv
<1>3. active' \in Runs \cup {None} /\ UNCHANGED <<task, sub, cancel, delivered, failures>>
  BY DEF AgentYields, Inv
<1> QED BY <1>1, <1>2, <1>3, LocalStep

LEMMA TakeEventInv == ASSUME Inv, NEW r \in Runs, TakeEvent(r) PROVE Inv'
<1> DEFINE f == run[r]
           event == CASE f.event \in {"return", "throw"} /\ f.aborted -> "stop"
                      [] f.event = "return" /\ ~f.aborted -> "done"
                      [] f.event = "throw" /\ ~f.aborted -> "error"
                      [] OTHER -> f.event
           p == IF Unary(r) THEN "agent" ELSE "write"
           a == <<r, f.made + 1>>
<1>1. RunInv(f, task) /\ f \in Run /\ f.pc = "taking"
  BY DEF Inv, TakeEvent, At
<1>2. active' \in Runs \cup {None} /\ UNCHANGED <<task, sub, cancel, delivered, failures>>
  BY DEF TakeEvent, Inv
<1>3. CASE event = "chunk" /\ Become(r, [f EXCEPT !.made = @ + 1, !.arts = @ \cup {a}, !.pc = p])
  <2>1. f.event = "chunk"
    BY <1>3
  <2>2. f.made < MaxArtifacts /\ f.made \in 0..MaxArtifacts
    BY <1>1, <2>1 DEF RunInv, Run
  <2>3. a \in Artifacts
    BY <2>2, RunAssumption DEF Artifacts
  <2>4. p \in {"agent", "write"}
    OBVIOUS
  <2> HIDE DEF a, p, event, f
  <2>5. RunInv([f EXCEPT !.made = @ + 1, !.arts = @ \cup {a}, !.pc = p], task)
    BY <1>1, <2>2, <2>3, <2>4, RunProduces
  <2> QED BY <1>2, <1>3, <2>5, LocalStep
<1>4. CASE event # "chunk" /\ Become(r, Over(f, event))
  <2>1. event \in AgentEvents \cup {"working", "stop"}
    BY <1>1 DEF Run, AgentEvents
  <2> HIDE DEF event
  <2>2. RunInv(Over(f, event), task)
    BY <1>1, <1>4, <2>1, OverInv
  <2> QED BY <1>2, <1>4, <2>2, LocalStep
<1> QED BY <1>3, <1>4 DEF TakeEvent
-----------------------------------------------------------------------------
(* The pump of a stream.                                                    *)
LEMMA EventUpdateTyped ==
  ASSUME NEW f \in Run
  PROVE  EventUpdate(f) \in Update
<1>1. f.arts \in SUBSET Artifacts
  BY DEF Run
<1>2. \A e : StateOf(e) \in States
  BY DEF StateOf, States, Terminal
<1> QED BY <1>1, <1>2 DEF EventUpdate, Status, OnlyArtifacts, Update

LEMMA WriteEventInv == ASSUME Inv, NEW r \in Runs, WriteEvent(r) PROVE Inv'
<1> DEFINE f == run[r]
           p == IF f.event \in Ending THEN "retry" ELSE "fail"
<1>1. PICK res \in Results :
        /\ Persist(EventUpdate(f), res)
        /\ Become(r, IF res = "lost"
                       THEN [f EXCEPT !.failed = TRUE, !.listed = FALSE, !.pc = p]
                       ELSE [f EXCEPT !.seen = res, !.pc = "publish"])
  BY DEF WriteEvent
<1>2. RunInv(f, task) /\ f \in Run /\ f.pc = "write"
  BY DEF Inv, WriteEvent, At
<1>3. EventUpdate(f) \in Update
  BY <1>2, EventUpdateTyped
<1>4. /\ Sticky /\ failures' \in Nat
      /\ res # "lost" => res \in States /\ (res \in Terminal => res = task'.state)
  BY <1>1, <1>3, PersistSound DEF Inv
<1>5. RunInv(f, task')
  BY <1>2, <1>4, StickyKeeps
<1>6. f.event = "chunk" => f.made > 0
  BY <1>2 DEF RunInv
<1>7. p \in {"retry", "fail"}
  OBVIOUS
<1>8. sub' \in [Subs -> Sub] /\ \A s \in Subs : SubInv(sub'[s], task')
  BY <1>4, SubsKept DEF WriteEvent
<1>9. /\ active' \in Runs \cup {None} /\ delivered' \in SUBSET Artifacts
      /\ UNCHANGED cancel
  BY DEF WriteEvent, Inv
<1> HIDE DEF f, p
<1>10. CASE res = "lost"
  <2>1. RunInv([f EXCEPT !.failed = TRUE, !.listed = FALSE, !.pc = p], task')
    BY <1>5, <1>7, RunFails
  <2> QED BY <1>1, <1>4, <1>8, <1>9, <1>10, <2>1, RunMoves
<1>11. CASE res # "lost"
  <2>1. RunInv([f EXCEPT !.seen = res, !.pc = "publish"], task')
    BY <1>4, <1>5, <1>6, <1>11, RunWrote
  <2> QED BY <1>1, <1>4, <1>8, <1>9, <1>11, <2>1, RunMoves
<1> QED BY <1>10, <1>11

LEMMA PublishEventInv == ASSUME Inv, NEW r \in Runs, PublishEvent(r) PROVE Inv'
<1> DEFINE f == run[r]
           overruled == f.seen \in Terminal /\ f.seen # StateOf(f.event)
           ending == overruled \/ f.event \in Ending
           e == f.ended \/ ending
           h == f.reached \/ f.seen \in Terminal
           l == f.listed /\ ~ending
           p == IF ending THEN "close" ELSE "agent"
<1>1. Sticky /\ active' \in Runs \cup {None} /\ failures' \in Nat /\ UNCHANGED cancel
  BY StutterSticky DEF PublishEvent, Inv
<1>2. RunInv(f, task') /\ f \in Run /\ f.pc = "publish" /\ RunInv(f, task)
  BY <1>1, StickyKeeps DEF Inv, PublishEvent, At
<1>3. f.seen \in States /\ (f.seen \in Terminal => f.seen = task'.state)
  BY <1>2 DEF RunInv, Run
<1>4. sub' \in [Subs -> Sub] /\ \A s \in Subs : SubInv(sub'[s], task')
  <2>1. CASE ending
    BY <1>1, <1>3, <2>1, SubsTold DEF PublishEvent
  <2>2. CASE ~ending
    BY <1>1, <2>2, SubsKept DEF PublishEvent
  <2> QED BY <2>1, <2>2
<1>5. delivered' \in SUBSET Artifacts
  <2>1. f.event = "chunk" => LastArtifact(r) \in Artifacts
    BY <1>2, RunAssumption DEF RunInv, Run, LastArtifact, Artifacts
  <2> QED BY <2>1 DEF PublishEvent, Inv
<1>6. Become(r, [f EXCEPT !.ended = e, !.reached = h, !.listed = l, !.pc = p])
  BY <1>2 DEF PublishEvent, Run
<1>7. e \in BOOLEAN /\ h \in BOOLEAN /\ l \in BOOLEAN /\ p \in {"close", "agent"}
  BY <1>2 DEF Run
<1> HIDE DEF f, e, h, l, p
<1>8. RunInv([f EXCEPT !.ended = e, !.reached = h, !.listed = l, !.pc = p], task')
  BY <1>2, <1>7, RunPublished
<1> QED BY <1>1, <1>4, <1>5, <1>6, <1>8, RunMoves

LEMMA ExhaustedInv == ASSUME Inv, NEW r \in Runs, Exhausted(r) PROVE Inv'
<1>1. /\ Sticky /\ active' \in Runs \cup {None} /\ failures' \in Nat
      /\ delivered' \in SUBSET Artifacts /\ UNCHANGED cancel
  BY StutterSticky DEF Exhausted, Inv
<1>2. RunInv(run[r], task')
  BY <1>1, StickyKeeps DEF Inv
<1>3. CASE sub' = Told(sub, "input") /\ Become(r, [run[r] EXCEPT !.ended = TRUE, !.pc = "close"])
  <2>1. "input" \in States /\ "input" \notin Terminal
    BY DEF States, Terminal
  <2>2. sub' \in [Subs -> Sub] /\ \A s \in Subs : SubInv(sub'[s], task')
    BY <1>1, <1>3, <2>1, SubsTold
  <2>3. RunInv([run[r] EXCEPT !.ended = TRUE, !.pc = "close"], task')
    BY <1>2, RunEnded
  <2> QED BY <1>1, <1>3, <2>2, <2>3, RunMoves
<1>4. CASE UNCHANGED sub /\ Become(r, [run[r] EXCEPT !.pc = "cancelWrite"])
  <2>1. sub' \in [Subs -> Sub] /\ \A s \in Subs : SubInv(sub'[s], task')
    BY <1>1, <1>4, SubsKept
  <2>2. RunInv([run[r] EXCEPT !.pc = "cancelWrite"], task')
    BY <1>2, RunGoesOn DEF RunPCs
  <2> QED BY <1>1, <1>4, <2>1, <2>2, RunMoves
<1> QED BY <1>3, <1>4 DEF Exhausted

(* A last status: written, then told to the subscribers as it was stored. *)
LEMMA LastStatusInv ==
  ASSUME Inv, NEW r \in Runs, NEW state \in States, NEW ok, NEW lost,
         LastStatus(r, state, ok, lost),
         RunInv(ok, task), RunInv(lost, task)
  PROVE  Inv'
<1>1. PICK res \in Results :
        /\ Persist(Status(state, run[r].arts), res)
        /\ IF res = "lost"
             THEN Become(r, lost) /\ UNCHANGED sub
             ELSE /\ Become(r, [ok EXCEPT !.ended = TRUE, !.pc = "close",
                                          !.reached = @ \/ res \in Terminal])
                  /\ sub' = Told(sub, res)
  BY DEF LastStatus
<1>2. run[r].arts \in SUBSET Artifacts
  BY DEF Inv, Run
<1>3. Status(state, run[r].arts) \in Update
  BY <1>2 DEF Status, Update
<1>4. /\ Sticky /\ failures' \in Nat
      /\ res # "lost" => res \in States /\ (res \in Terminal => res = task'.state)
  BY <1>1, <1>3, PersistSound DEF Inv
<1>5. RunInv(ok, task') /\ RunInv(lost, task')
  BY <1>4, StickyKeeps
<1>6. /\ active' \in Runs \cup {None} /\ delivered' \in SUBSET Artifacts
      /\ UNCHANGED cancel
  BY DEF LastStatus, Inv
<1>7. CASE res = "lost"
  <2>1. sub' \in [Subs -> Sub] /\ \A s \in Subs : SubInv(sub'[s], task')
    BY <1>1, <1>4, <1>7, SubsKept
  <2> QED BY <1>1, <1>4, <1>5, <1>6, <1>7, <2>1, RunMoves
<1>8. CASE res # "lost"
  <2> DEFINE h == ok.reached \/ res \in Terminal
  <2>1. sub' \in [Subs -> Sub] /\ \A s \in Subs : SubInv(sub'[s], task')
    BY <1>1, <1>4, <1>8, SubsTold
  <2>2. ok \in Run
    BY <1>5 DEF RunInv
  <2>3. h \in BOOLEAN
    BY <2>2 DEF Run
  <2>4. Become(r, [ok EXCEPT !.ended = TRUE, !.pc = "close", !.reached = h])
    BY <1>1, <1>8, <2>2 DEF Run
  <2> HIDE DEF h
  <2>5. RunInv([ok EXCEPT !.ended = TRUE, !.pc = "close", !.reached = h], task')
    BY <1>5, <2>3, RunEndedWith
  <2> QED BY <1>4, <1>6, <2>1, <2>4, <2>5, RunMoves
<1> QED BY <1>7, <1>8

LEMMA CancelOutcomeInv == ASSUME Inv, NEW r \in Runs, CancelOutcome(r) PROVE Inv'
<1>1. RunInv(run[r], task) /\ "canceled" \in States
  BY DEF Inv, States, Terminal
<1>2. RunInv([run[r] EXCEPT !.failed = TRUE, !.pc = "fail"], task)
  BY <1>1, RunGivesUp
<1> QED BY <1>1, <1>2, LastStatusInv DEF CancelOutcome

LEMMA RetryWriteInv == ASSUME Inv, NEW r \in Runs, RetryWrite(r) PROVE Inv'
<1>1. RunInv(run[r], task) /\ StateOf(run[r].event) \in States
  BY DEF Inv, States, Terminal, StateOf
<1>2. RunInv([run[r] EXCEPT !.pc = "fail"], task)
  BY <1>1, RunGoesOn DEF RunPCs
<1> QED BY <1>1, <1>2, LastStatusInv DEF RetryWrite

LEMMA FailOutcomeInv == ASSUME Inv, NEW r \in Runs, FailOutcome(r) PROVE Inv'
<1>1. RunInv(run[r], task) /\ "failed" \in States
  BY DEF Inv, States, Terminal
<1>2. RunInv([run[r] EXCEPT !.pc = "close"], task)
  BY <1>1, RunGoesOn DEF RunPCs
<1>3. RunInv([run[r] EXCEPT !.failed = FALSE], task)
  BY <1>1, RunExcused
<1> QED BY <1>1, <1>2, <1>3, LastStatusInv DEF FailOutcome

LEMMA CloseBusInv == ASSUME Inv, NEW r \in Runs, CloseBus(r) PROVE Inv'
<1>1. /\ Sticky /\ active' \in Runs \cup {None} /\ failures' \in Nat
      /\ delivered' \in SUBSET Artifacts /\ UNCHANGED cancel
  BY StutterSticky DEF CloseBus, Inv
<1>2. RunInv([run[r] EXCEPT !.pc = "clear"], task')
  BY <1>1, StickyKeeps, RunGoesOn DEF Inv, RunPCs
<1>3. sub' \in [Subs -> Sub] /\ \A s \in Subs : SubInv(sub'[s], task')
  <2>1. sub \in [Subs -> Sub] /\ \A s \in Subs : SubInv(sub[s], task')
    BY <1>1, StickyKeeps DEF Inv
  <2>2. CASE sub' = Closed(sub)
    BY <2>1, <2>2, SubsClosed
  <2>3. CASE UNCHANGED sub
    BY <2>1, <2>3
  <2> QED BY <2>2, <2>3 DEF CloseBus
<1>4. Become(r, [run[r] EXCEPT !.pc = "clear"])
  BY DEF CloseBus
<1> QED BY <1>1, <1>2, <1>3, <1>4, RunMoves
-----------------------------------------------------------------------------
(* The outcome of a unary run.                                              *)
LEMMA OutcomeUpdateTyped ==
  ASSUME NEW f \in Run
  PROVE  OutcomeUpdate(f) \in Update
<1>1. f.arts \in SUBSET Artifacts /\ f.snap \in SUBSET Artifacts
  BY DEF Run
<1>2. StateOf(f.event) \in States /\ "failed" \in States /\ "working" \in States
  BY DEF StateOf, States, Terminal
<1>3. \A s \in States, as \in SUBSET Artifacts : Status(s, as) \in Update
  BY DEF Status, Update
<1>4. CASE f.tries >= 2
  <2>1. Status("failed", {}) \in Update
    BY <1>2, <1>3
  <2>2. f.tries \in 0..3
    BY DEF Run
  <2>3. OutcomeUpdate(f) = Status("failed", {})
    BY <1>4, <2>2 DEF OutcomeUpdate
  <2> QED BY <2>1, <2>3
<1>5. CASE ~(f.tries >= 2)
  <2>1. f.tries \in 0..3
    BY DEF Run
  <2>2. f.tries < 2
    BY <1>5, <2>1
  <2>3. OutcomeUpdate(f) = IF f.event = "stop" THEN Status("working", f.snap)
                                               ELSE Status(StateOf(f.event), f.arts)
    BY <1>5, <2>2 DEF OutcomeUpdate
  <2> QED BY <1>1, <1>2, <1>3, <2>3
<1> QED BY <1>4, <1>5

LEMMA WriteOutcomeInv == ASSUME Inv, NEW r \in Runs, WriteOutcome(r) PROVE Inv'
<1> DEFINE f == run[r]
<1>1. PICK res \in Results :
        /\ Persist(OutcomeUpdate(f), res)
        /\ \/ /\ f.kind = "send"
              /\ Become(r, [f EXCEPT !.pc = "done",
                                     !.reply = IF res = "lost" THEN "error" ELSE res])
              /\ delivered' = IF res = "lost" THEN delivered ELSE delivered \cup task'.arts
           \/ /\ f.kind = "detached" /\ res # "lost"
              /\ Become(r, [f EXCEPT !.seen = res, !.pc = "publish"])
              /\ UNCHANGED delivered
           \/ /\ f.kind = "detached" /\ res = "lost"
              /\ Become(r, IF f.tries < 3 THEN [f EXCEPT !.tries = @ + 1]
                             ELSE [f EXCEPT !.failed = TRUE, !.pc = "clear"])
              /\ UNCHANGED delivered
  BY DEF WriteOutcome
<1>2. RunInv(f, task) /\ f \in Run /\ f.pc = "outcome"
  BY DEF Inv, WriteOutcome, At
<1>3. OutcomeUpdate(f) \in Update
  BY <1>2, OutcomeUpdateTyped
<1>4. /\ Sticky /\ failures' \in Nat
      /\ res # "lost" => res \in States /\ (res \in Terminal => res = task'.state)
  BY <1>1, <1>3, PersistSound DEF Inv
<1>5. RunInv(f, task')
  BY <1>2, <1>4, StickyKeeps
<1>6. sub' \in [Subs -> Sub] /\ \A s \in Subs : SubInv(sub'[s], task')
  BY <1>4, SubsKept DEF WriteOutcome
<1>7. active' \in Runs \cup {None} /\ UNCHANGED cancel
  BY DEF WriteOutcome, Inv
<1>8. delivered' \in SUBSET Artifacts
  <2>1. delivered \in SUBSET Artifacts /\ task'.arts \in SUBSET Artifacts
    BY <1>4 DEF Inv, Sticky, Task
  <2> QED BY <1>1, <2>1
<1> HIDE DEF f
<1>9. CASE Become(r, [f EXCEPT !.pc = "done", !.reply = IF res = "lost" THEN "error" ELSE res])
  <2> DEFINE a == IF res = "lost" THEN "error" ELSE res
  <2>1. a \in Answers /\ (a \in Terminal => a = task'.state)
    BY <1>4 DEF Answers, Terminal
  <2> HIDE DEF a
  <2>2. RunInv([f EXCEPT !.pc = "done", !.reply = a], task')
    BY <1>5, <2>1, RunReplies
  <2>3. Become(r, [f EXCEPT !.pc = "done", !.reply = a])
    BY <1>9 DEF a
  <2> QED BY <1>4, <1>6, <1>7, <1>8, <2>2, <2>3, RunMoves
<1>10. CASE res # "lost" /\ Become(r, [f EXCEPT !.seen = res, !.pc = "publish"])
  <2>1. f.event = "chunk" => f.made > 0
    BY <1>2 DEF RunInv
  <2>2. RunInv([f EXCEPT !.seen = res, !.pc = "publish"], task')
    BY <1>4, <1>5, <1>10, <2>1, RunWrote
  <2> QED BY <1>4, <1>6, <1>7, <1>8, <1>10, <2>2, RunMoves
<1>11. CASE f.tries < 3 /\ Become(r, [f EXCEPT !.tries = @ + 1])
  <2>1. RunInv([f EXCEPT !.tries = @ + 1], task')
    BY <1>5, <1>11, RunTriesAgain
  <2> QED BY <1>4, <1>6, <1>7, <1>8, <1>11, <2>1, RunMoves
<1>12. CASE Become(r, [f EXCEPT !.failed = TRUE, !.pc = "clear"])
  <2>1. RunInv([f EXCEPT !.failed = TRUE, !.pc = "clear"], task')
    BY <1>5, RunGivesUp
  <2> QED BY <1>4, <1>6, <1>7, <1>8, <1>12, <2>1, RunMoves
<1> QED BY <1>1, <1>9, <1>10, <1>11, <1>12

LEMMA PublishOutcomeInv == ASSUME Inv, NEW r \in Runs, PublishOutcome(r) PROVE Inv'
<1>1. /\ Sticky /\ active' \in Runs \cup {None} /\ failures' \in Nat
      /\ delivered' \in SUBSET Artifacts /\ UNCHANGED cancel
  BY StutterSticky DEF PublishOutcome, Inv
<1>2. RunInv(run[r], task') /\ RunInv(run[r], task)
  BY <1>1, StickyKeeps DEF Inv
<1>3. run[r].seen \in States /\ (run[r].seen \in Terminal => run[r].seen = task'.state)
  BY <1>2 DEF RunInv, Run
<1>4. sub' \in [Subs -> Sub] /\ \A s \in Subs : SubInv(sub'[s], task')
  <2> DEFINE told == Told(sub, run[r].seen)
  <2>1. told \in [Subs -> Sub] /\ \A s \in Subs : SubInv(told[s], task')
    <3>1. \A s \in Subs : SubInv(sub[s], task')
      BY <1>1, StickyKeeps DEF Inv
    <3>2. \A s \in Subs : SubInv(told[s], task')
      BY <1>3, <3>1 DEF Told, SubInv, Sub, Answers
    <3> QED BY <3>2 DEF Told, SubInv
  <2>2. sub' = Closed(told) \/ sub' = told
    BY DEF PublishOutcome
  <2> HIDE DEF told
  <2> QED BY <2>1, <2>2, SubsClosed
<1>5. RunInv([run[r] EXCEPT !.ended = TRUE, !.pc = "clear"], task')
  BY <1>2, RunEnded
<1>6. Become(r, [run[r] EXCEPT !.ended = TRUE, !.pc = "clear"])
  BY DEF PublishOutcome
<1> QED BY <1>1, <1>4, <1>5, <1>6, RunMoves

LEMMA ClearInv == ASSUME Inv, NEW r \in Runs, Clear(r) PROVE Inv'
<1>1. /\ Sticky /\ active' \in Runs \cup {None} /\ failures' \in Nat
      /\ delivered' \in SUBSET Artifacts /\ UNCHANGED cancel
  BY StutterSticky DEF Clear, Inv
<1>2. RunInv([run[r] EXCEPT !.pc = "done"], task')
  BY <1>1, StickyKeeps, RunGoesOn DEF Inv, RunPCs
<1>3. sub \in [Subs -> Sub] /\ \A s \in Subs : SubInv(sub[s], task')
  BY <1>1, StickyKeeps DEF Inv
<1>4. sub' \in [Subs -> Sub] /\ \A s \in Subs : SubInv(sub'[s], task')
  BY <1>3, SubsCompleted DEF Clear
<1>5. Become(r, [run[r] EXCEPT !.pc = "done"])
  BY DEF Clear
<1> QED BY <1>1, <1>2, <1>4, <1>5, RunMoves
-----------------------------------------------------------------------------
(* Subscribers.                                                             *)
LEMMA ListenInv ==
  ASSUME Inv, NEW s \in Subs, NEW f, Listen(s, f), SubIdle, SubInv(f, task)
  PROVE  Inv'
<1>1. f \in Sub
  BY DEF SubInv
<1>2. /\ sub' \in [Subs -> Sub]
      /\ \A q \in Subs : SubInv(sub'[q], task)
  BY <1>1 DEF Inv, Listen
<1> QED BY <1>2 DEF Inv, SubIdle

LEMMA FinishInv ==
  ASSUME NEW f, NEW t, SubInv(f, t), NEW a \in Answers, a \in Terminal => a = t.state
  PROVE  SubInv(Finish(f, a), t)
<1> DEFINE g == [f EXCEPT !.pc = "done", !.on = FALSE, !.told = a]
<1>1. f \in Sub
  BY DEF SubInv
<1>2. g \in Sub /\ g.seen = f.seen /\ g.told = a
  BY <1>1 DEF Sub
<1> HIDE DEF g
<1>3. SubInv(g, t)
  BY <1>2 DEF SubInv
<1> QED BY <1>3 DEF Finish, g

LEMMA SubMoves ==
  ASSUME NEW f, NEW t, SubInv(f, t)
  PROVE  /\ SubInv([f EXCEPT !.pc = "again"], t)
         /\ SubInv([f EXCEPT !.pc = "last"], t)
  BY DEF SubInv, Sub

(* The answers a subscriber takes from the record. *)
LEMMA Answerable ==
  ASSUME Inv
  PROVE  /\ task.state \in Answers
         /\ "error" \in Answers /\ "error" \notin Terminal
         /\ "nothing" \in Answers /\ "nothing" \notin Terminal
  BY DEF Inv, Task, Answers, Terminal

LEMMA ResubscribeInv == ASSUME Inv, NEW w \in Watchers, Resubscribe(w) PROVE Inv'
<1>1. SubInv(sub[w], task) /\ w \in Subs /\ task.state \in States
  BY DEF Inv, Subs, Task
<1>2. SubInv(Finish(sub[w], "error"), task)
  BY <1>1, Answerable, FinishInv
<1>3. SubInv([sub[w] EXCEPT !.pc = "read", !.seen = task.state], task)
  BY <1>1 DEF SubInv, Sub
<1> QED BY <1>1, <1>2, <1>3, ListenInv DEF Resubscribe

LEMMA AttachInv == ASSUME Inv, NEW w \in Watchers, Attach(w) PROVE Inv'
<1>1. SubInv(sub[w], task) /\ w \in Subs /\ SubIdle
  BY DEF Inv, Subs, Attach
<1>2. sub[w].seen \in Answers
  BY <1>1 DEF SubInv, Sub, Answers
<1>3. SubInv(Finish(sub[w], sub[w].seen), task)
  <2>1. sub[w].seen \in Terminal => sub[w].seen = task.state
    BY <1>1 DEF SubInv
  <2> QED BY <1>1, <1>2, <2>1, FinishInv
<1>4. SubInv([sub[w] EXCEPT !.pc = "again"], task)
  BY <1>1, SubMoves
<1>5. active # None => SubInv([sub[w] EXCEPT !.pc = "waiting", !.on = TRUE, !.run = active], task)
  BY <1>1 DEF SubInv, Sub, Inv
<1>6. \/ Listen(w, Finish(sub[w], sub[w].seen))
      \/ Listen(w, [sub[w] EXCEPT !.pc = "again"])
      \/ active # None /\ Listen(w, [sub[w] EXCEPT !.pc = "waiting", !.on = TRUE, !.run = active])
  BY DEF Attach
<1> QED BY <1>1, <1>3, <1>4, <1>5, <1>6, ListenInv

LEMMA ReadAgainInv == ASSUME Inv, NEW w \in Watchers, ReadAgain(w) PROVE Inv'
<1> DEFINE a == IF Interrupted(task) THEN task.state ELSE "error"
<1>1. SubInv(sub[w], task) /\ w \in Subs /\ SubIdle /\ Listen(w, Finish(sub[w], a))
  BY DEF Inv, Subs, ReadAgain
<1>2. a \in Answers /\ (a \in Terminal => a = task.state)
  BY Answerable
<1> HIDE DEF a
<1> QED BY <1>1, <1>2, FinishInv, ListenInv

LEMMA EndOfEventsInv == ASSUME Inv, NEW s \in Subs, EndOfEvents(s) PROVE Inv'
<1>1. SubInv(sub[s], task) /\ SubIdle
  BY DEF Inv, EndOfEvents
<1>2. SubInv(Finish(sub[s], "error"), task)
  BY <1>1, Answerable, FinishInv
<1>3. SubInv(Finish(sub[s], sub[s].told), task)
  <2>1. sub[s].told \in Answers /\ (sub[s].told \in Terminal => sub[s].told = task.state)
    BY <1>1 DEF SubInv, Sub
  <2> QED BY <1>1, <2>1, FinishInv
<1>4. SubInv([sub[s] EXCEPT !.pc = "last"], task)
  BY <1>1, SubMoves
<1>5. \/ Listen(s, Finish(sub[s], "error"))
      \/ Listen(s, Finish(sub[s], sub[s].told))
      \/ Listen(s, [sub[s] EXCEPT !.pc = "last"])
  BY DEF EndOfEvents
<1> QED BY <1>1, <1>2, <1>3, <1>4, <1>5, ListenInv

LEMMA LastReadInv == ASSUME Inv, NEW s \in Subs, LastRead(s) PROVE Inv'
<1> DEFINE otherwise == IF s \in Watchers /\ At(sub[s].run, "done") THEN "error" ELSE "nothing"
           a == IF Interrupted(task) THEN task.state ELSE otherwise
<1>1. SubInv(sub[s], task) /\ SubIdle /\ Listen(s, Finish(sub[s], a))
  BY DEF Inv, LastRead
<1>2. a \in Answers /\ (a \in Terminal => a = task.state)
  BY Answerable
<1> HIDE DEF a
<1> QED BY <1>1, <1>2, FinishInv, ListenInv
-----------------------------------------------------------------------------
(* tasks/cancel and retention.                                              *)
LEMMA CancelReadInv == ASSUME Inv, NEW c \in Cancels, CancelRead(c) PROVE Inv'
<1> DEFINE g == CASE ~task.kept -> [cancel[c] EXCEPT !.pc = "done", !.reply = "error"]
                  [] task.kept /\ Ended(task) ->
                       [cancel[c] EXCEPT !.pc = "done", !.reply = task.state]
                  [] OTHER -> [cancel[c] EXCEPT !.pc = "abort", !.snap = task.arts]
<1>1. CancelInv(cancel[c], task) /\ task \in Task
  BY DEF Inv
<1>2. cancel' = [cancel EXCEPT ![c] = g]
  BY DEF CancelRead
<1>3. CancelInv([cancel[c] EXCEPT !.pc = "done", !.reply = "error"], task)
  BY <1>1, Answerable DEF CancelInv, Cancel
<1>4. CancelInv([cancel[c] EXCEPT !.pc = "done", !.reply = task.state], task)
  BY <1>1, Answerable DEF CancelInv, Cancel
<1>5. CancelInv([cancel[c] EXCEPT !.pc = "abort", !.snap = task.arts], task)
  BY <1>1 DEF CancelInv, Cancel, Task
<1>6. CancelInv(g, task)
  BY <1>1, <1>3, <1>4, <1>5 DEF Task
<1> HIDE DEF g
<1>7. /\ cancel' \in [Cancels -> Cancel]
      /\ \A d \in Cancels : CancelInv(cancel'[d], task)
  <2>1. g \in Cancel
    BY <1>6 DEF CancelInv
  <2> QED BY <1>2, <1>6, <2>1 DEF Inv
<1> QED BY <1>7 DEF CancelRead, Inv

LEMMA AbortInv == ASSUME Inv, NEW c \in Cancels, Abort(c) PROVE Inv'
<1>1. /\ run' \in [Runs -> Run]
      /\ \A r \in Runs : RunInv(run'[r], task)
  <2>1. \A r \in Runs : RunInv([run[r] EXCEPT !.aborted = TRUE, !.listed = FALSE], task)
    BY RunAborted DEF Inv
  <2>2. \A r \in Runs : RunInv(run'[r], task)
    BY <2>1 DEF Abort, Inv
  <2>3. \A r \in Runs : run'[r] \in Run
    BY <2>2 DEF RunInv
  <2> QED BY <2>2, <2>3 DEF Abort
<1>2. /\ cancel' \in [Cancels -> Cancel]
      /\ \A d \in Cancels : CancelInv(cancel'[d], task)
  <2>1. CancelInv([cancel[c] EXCEPT !.pc = "write"], task)
    BY DEF Inv, CancelInv, Cancel
  <2>2. [cancel[c] EXCEPT !.pc = "write"] \in Cancel
    BY <2>1 DEF CancelInv
  <2>3. cancel' = [cancel EXCEPT ![c] = [cancel[c] EXCEPT !.pc = "write"]]
    BY DEF Abort, Inv
  <2> QED BY <2>1, <2>2, <2>3 DEF Inv
<1> QED BY <1>1, <1>2 DEF Abort, Inv

LEMMA CancelWriteInv == ASSUME Inv, NEW c \in Cancels, CancelWrite(c) PROVE Inv'
<1>1. PICK res \in Results :
        /\ Persist(Status("canceled", cancel[c].snap), res)
        /\ cancel' = [cancel EXCEPT ![c] =
             [cancel[c] EXCEPT !.pc = "done", !.reply = IF res = "lost" THEN "error" ELSE res]]
  BY DEF CancelWrite
<1> DEFINE a == IF res = "lost" THEN "error" ELSE res
           g == [cancel[c] EXCEPT !.pc = "done", !.reply = a]
<1>2. CancelInv(cancel[c], task) /\ cancel[c].snap \in SUBSET Artifacts
  BY DEF Inv, Cancel
<1>3. Status("canceled", cancel[c].snap) \in Update
  BY <1>2 DEF Status, Update, States, Terminal
<1>4. /\ Sticky /\ failures' \in Nat
      /\ res # "lost" => res \in States /\ (res \in Terminal => res = task'.state)
  BY <1>1, <1>3, PersistSound DEF Inv
<1>5. a \in Answers /\ (a \in Terminal => a = task'.state)
  BY <1>4 DEF Answers, Terminal
<1>6. cancel' = [cancel EXCEPT ![c] = g]
  BY <1>1
<1>7. CancelInv(g, task')
  <2> HIDE DEF a
  <2>1. CancelInv(cancel[c], task')
    BY <1>2, <1>4, StickyKeeps
  <2> QED BY <1>5, <2>1 DEF CancelInv, Cancel
<1> HIDE DEF g
<1>8. /\ cancel' \in [Cancels -> Cancel]
      /\ \A d \in Cancels : CancelInv(cancel'[d], task')
  <2>1. g \in Cancel /\ \A d \in Cancels : CancelInv(cancel[d], task')
    BY <1>4, <1>7, StickyKeeps DEF CancelInv, Inv
  <2> QED BY <1>6, <1>7, <2>1 DEF Inv
<1>9. sub' \in [Subs -> Sub] /\ \A s \in Subs : SubInv(sub'[s], task')
  BY <1>4, SubsKept DEF CancelWrite
<1>10. run' \in [Runs -> Run] /\ \A r \in Runs : RunInv(run'[r], task')
  BY <1>4, StickyKeeps DEF CancelWrite, Inv
<1> QED BY <1>4, <1>8, <1>9, <1>10 DEF CancelWrite, Inv, Sticky

LEMMA EvictInv == ASSUME Inv, Evict PROVE Inv'
<1>1. task' \in Task /\ task'.state = task.state
  BY DEF Evict, Inv, Task
<1>2. Sticky
  BY <1>1 DEF Sticky
<1>3. /\ \A r \in Runs : RunInv(run[r], task')
      /\ \A s \in Subs : SubInv(sub[s], task')
      /\ \A c \in Cancels : CancelInv(cancel[c], task')
  BY <1>2, StickyKeeps DEF Inv
<1> QED BY <1>1, <1>3 DEF Evict, Inv
-----------------------------------------------------------------------------
(* Every step keeps the invariant. *)
LEMMA NextInv == ASSUME Inv, [Next]_vars PROVE Inv'
<1>1. ASSUME NEW r \in Runs, Start(r) \/ RunStep(r) PROVE Inv'
  BY <1>1, StartInv, AcceptSendInv, BeginSendInv, BeginStreamInv, CreateSessionInv,
     AgentYieldsInv, TakeEventInv, WriteEventInv, PublishEventInv, ExhaustedInv,
     CancelOutcomeInv, RetryWriteInv, FailOutcomeInv, CloseBusInv, WriteOutcomeInv,
     PublishOutcomeInv, ClearInv DEF RunStep
<1>2. ASSUME NEW w \in Watchers, Resubscribe(w) \/ WatchStep(w) PROVE Inv'
  BY <1>2, ResubscribeInv, AttachInv, ReadAgainInv DEF WatchStep
<1>3. ASSUME NEW s \in Subs, SubStep(s) PROVE Inv'
  BY <1>3, EndOfEventsInv, LastReadInv DEF SubStep
<1>4. ASSUME NEW c \in Cancels, CancelRead(c) \/ CancelStep(c) PROVE Inv'
  BY <1>4, CancelReadInv, AbortInv, CancelWriteInv DEF CancelStep
<1>5. CASE UNCHANGED vars
  BY <1>5 DEF vars, Inv
<1> QED BY <1>1, <1>2, <1>3, <1>4, <1>5, EvictInv DEF Next

(* The invariant, in every reachable state. *)
THEOREM Invariance == Spec => []Inv
<1>1. Inv /\ [Next]_vars => Inv'
  BY NextInv
<1> QED BY <1>1, InitInv, PTL DEF Spec

(* Every reachable state of the task, its runs, subscribers and cancels is   *)
(* well typed, whatever the number of runs and calls.                        *)
THEOREM TypeCorrect == Spec => []TypeOK
<1>1. Inv => TypeOK
  BY InvImplies
<1> QED BY <1>1, Invariance, PTL

(* Replies to sends and cancels, and the ends of subscribers' streams, name  *)
(* no other ending of the task than the one the store keeps.                 *)
THEOREM OneOutcomeForAll == Spec => []OneOutcome
<1>1. Inv => OneOutcome
  BY InvImplies
<1> QED BY <1>1, Invariance, PTL
-----------------------------------------------------------------------------
(* Turns that follow each other keep what clients were given.  What a run    *)
(* writes holds all of it: what it produced comes on top of the record it    *)
(* found, and a chunk is published after it was stored.                      *)
Carries(r, f, t, d) ==
  f.pc \notin {"idle", "done"} =>
    /\ t.state # "none" /\ f.kind \in {"send", "detached", "stream"}
    /\ d \subseteq f.arts
    /\ f.kind # "stream" => d \subseteq f.snap
    /\ f.kind = "stream" /\ f.event = "chunk" /\ f.pc \in {"write", "publish"} =>
         /\ <<r, f.made>> \in f.arts
         /\ f.pc = "publish" /\ f.seen \notin Terminal /\ t.kept /\ t.state # "canceled"
              => f.arts \subseteq t.arts

OneTurn == \A q, r \in Runs : InFlight(q) /\ InFlight(r) => q = r

TurnsInv ==
  /\ OneTurn
  /\ \A r \in Runs : Carries(r, run[r], task, delivered)
  /\ task.state = "none" => delivered = {} /\ ~task.kept
  /\ TurnsKeepArtifacts

(* A frame that keeps what its run carries. *)
LEMMA CarriesOn ==
  ASSUME NEW r, NEW f, NEW t, NEW d, Carries(r, f, t, d), f.pc \notin {"idle", "done"},
         NEW g, g.kind = f.kind, g.snap = f.snap, f.arts \subseteq g.arts,
         g.kind = "stream" /\ g.event = "chunk" => g.pc \notin {"write", "publish"}
  PROVE  Carries(r, g, t, d)
BY DEF Carries

(* A step of the run whose turn it is. *)
LEMMA TurnMoves ==
  ASSUME Inv, TurnsInv, NEW r \in Runs, NEW g, Become(r, g),
         InFlight(r) \/ \A q \in Runs : ~InFlight(q),
         Carries(r, g, task', delivered'),
         task'.state = "none" => delivered' = {} /\ ~task'.kept, TurnsKeepArtifacts'
  PROVE  TurnsInv'
<1>1. \A q \in Runs : run'[q] = IF q = r THEN g ELSE run[q]
  BY DEF Become, Inv
<1>2. \A q \in Runs \ {r} : ~InFlight(q)
  BY DEF TurnsInv, OneTurn
<1>3. OneTurn'
  BY <1>1, <1>2 DEF OneTurn, InFlight
<1>4. \A q \in Runs : Carries(q, run'[q], task', delivered')
  BY <1>1, <1>2 DEF Carries, InFlight
<1> QED BY <1>3, <1>4 DEF TurnsInv

LEMMA TurnLocal ==
  ASSUME Inv, TurnsInv, NEW r \in Runs, NEW g, Become(r, g), InFlight(r),
         UNCHANGED <<task, delivered>>, Carries(r, g, task, delivered)
  PROVE  TurnsInv'
<1>1. Carries(r, g, task', delivered')
  OBVIOUS
<1>2. (task'.state = "none" => delivered' = {} /\ ~task'.kept) /\ TurnsKeepArtifacts'
  BY DEF TurnsInv, TurnsKeepArtifacts
<1> QED BY <1>1, <1>2, TurnMoves

(* A write whose list of artifacts holds what was given. *)
LEMMA PersistKeeps ==
  ASSUME Inv, TurnsInv, task.state # "none", NEW u \in Update, u.state # "none",
         u.arts = {} \/ delivered \subseteq u.arts, NEW res \in Results, Persist(u, res)
  PROVE  /\ task'.state # "none"
         /\ task'.kept /\ task'.state # "canceled" => delivered \subseteq task'.arts
         /\ res # "lost" /\ res \notin Terminal => task' = Apply(task, u) /\ task'.kept
<1>1. CASE Accepts(task, u) /\ task' = Apply(task, u) /\ res = task'.state
  <2>1. /\ task'.state = IF u.state = None THEN task.state ELSE u.state
        /\ task'.arts = IF u.arts = {} THEN task.arts ELSE u.arts
        /\ task'.kept = task.kept /\ task.kept
    BY <1>1 DEF Apply, Accepts, Inv, Task
  <2>2. task'.state # "canceled" => task.state # "canceled"
    BY <1>1, <2>1 DEF Accepts, Ended, Terminal
  <2> QED BY <1>1, <2>1, <2>2 DEF TurnsInv, TurnsKeepArtifacts
<1>2. CASE UNCHANGED task /\ res = IF task.kept /\ Ended(task) THEN task.state ELSE "lost"
  BY <1>2 DEF TurnsInv, TurnsKeepArtifacts, Ended
<1> QED BY <1>1, <1>2 DEF Persist

LEMMA CarriedBy == ASSUME Inv, TurnsInv, NEW r \in Runs, InFlight(r)
                   PROVE  /\ run[r] \in Run /\ RunInv(run[r], task)
                          /\ Carries(r, run[r], task, delivered)
                          /\ run[r].pc \notin {"idle", "done"}
                          /\ task.state # "none" /\ delivered \subseteq run[r].arts
                          /\ run[r].kind # "stream" => delivered \subseteq run[r].snap
BY DEF Inv, TurnsInv, InFlight, Carries

(* Accepting a message. *)
LEMMA StartTurns == ASSUME ~Overlap, Inv, TurnsInv, NEW r \in Runs, Start(r) PROVE TurnsInv'
<1>1. PICK k \in Kinds :
        Become(r, [run[r] EXCEPT !.kind = k, !.pc = "resolved",
                                 !.snap = task'.arts, !.arts = task'.arts])
  BY DEF Start
<1>2. \/ task.state = "none" /\ task' = NewTask
      \/ task.kept /\ ~Ended(task) /\ UNCHANGED task
  BY DEF Start
<1>3. UNCHANGED delivered /\ \A q \in Runs : ~InFlight(q)
  BY DEF Start
<1>4. task'.state # "none" /\ delivered' \subseteq task'.arts /\ TurnsKeepArtifacts'
  BY <1>2, <1>3 DEF NewTask, TurnsInv, TurnsKeepArtifacts, Ended, Terminal
<1>5. PICK f \in Run : f = run[r]
  BY DEF Inv
<1>6. PICK g : g = [f EXCEPT !.kind = k, !.pc = "resolved", !.snap = task'.arts, !.arts = task'.arts]
  OBVIOUS
<1>7. g.kind = k /\ g.pc = "resolved" /\ g.snap = task'.arts /\ g.arts = task'.arts
  BY <1>6 DEF Run
<1>8. Carries(r, g, task', delivered')
  BY <1>4, <1>7, CallAssumption DEF Carries
<1> QED BY <1>1, <1>3, <1>4, <1>5, <1>6, <1>8, TurnMoves

LEMMA AcceptSendTurns == ASSUME Inv, TurnsInv, NEW r \in Runs, AcceptSend(r) PROVE TurnsInv'
<1>1. Status("working", {}) \in Update /\ Status("working", {}).state = "working"
      /\ Status("working", {}).arts = {}
  BY DEF Status, Update, States
<1>2. PICK res \in Results :
        /\ Persist(Status("working", {}), res)
        /\ Become(r, CASE res = "lost" -> [run[r] EXCEPT !.pc = "done", !.reply = "error"]
                       [] res \in Terminal -> [run[r] EXCEPT !.pc = "done", !.reply = res]
                       [] OTHER -> [run[r] EXCEPT !.pc = "accepted", !.snap = task'.arts,
                                                  !.arts = task'.arts])
  BY DEF AcceptSend
<1>3. InFlight(r) /\ UNCHANGED delivered
  BY DEF AcceptSend, At, InFlight
<1>4. run[r] \in Run /\ task.state # "none"
  BY <1>3, CarriedBy
<1>5. /\ task'.state # "none"
      /\ task'.kept /\ task'.state # "canceled" => delivered \subseteq task'.arts
      /\ res # "lost" /\ res \notin Terminal =>
           task' = Apply(task, Status("working", {})) /\ task'.kept
  BY <1>1, <1>2, <1>4, PersistKeeps
<1>6. CASE res = "lost" \/ res \in Terminal
  <2>1. PICK g : Become(r, g) /\ g.pc = "done"
    <3>1. "lost" \notin Terminal /\ \A a : [run[r] EXCEPT !.pc = "done", !.reply = a].pc = "done"
      BY <1>4 DEF Run, Terminal
    <3>2. \E a : Become(r, [run[r] EXCEPT !.pc = "done", !.reply = a])
      BY <1>2, <1>6, <3>1
    <3> QED BY <3>1, <3>2
  <2>2. Carries(r, g, task', delivered')
    BY <2>1 DEF Carries
  <2> QED BY <1>3, <1>5, <2>1, <2>2, TurnMoves DEF TurnsKeepArtifacts
<1>7. CASE res # "lost" /\ res \notin Terminal
  <2>1. task'.state = "working"
    BY <1>1, <1>5, <1>7, NoneAssumption DEF Apply, Inv, Task, Status, States
  <2>2. delivered' \subseteq task'.arts
    BY <1>3, <1>5, <1>7, <2>1
  <2>3. PICK f \in Run : f = run[r]
    BY <1>4
  <2>4. PICK g : g = [f EXCEPT !.pc = "accepted", !.snap = task'.arts, !.arts = task'.arts]
    OBVIOUS
  <2>5. g.kind = f.kind /\ g.pc = "accepted" /\ g.snap = task'.arts /\ g.arts = task'.arts
    BY <2>4 DEF Run
  <2>6. Carries(r, g, task', delivered')
    BY <1>3, <1>5, <2>2, <2>3, <2>5, CarriedBy DEF Carries
  <2> QED BY <1>2, <1>3, <1>5, <1>7, <2>3, <2>4, <2>6, TurnMoves DEF TurnsKeepArtifacts
<1> QED BY <1>6, <1>7

(* Steps of a run that write nothing. *)
LEMMA QuietTurns ==
  ASSUME Inv, TurnsInv, NEW r \in Runs,
         \/ BeginSend(r) \/ BeginStream(r) \/ CreateSession(r) \/ AgentYields(r)
         \/ Exhausted(r) \/ CloseBus(r) \/ PublishOutcome(r) \/ Clear(r)
  PROVE  TurnsInv'
<1>1. InFlight(r) /\ UNCHANGED <<task, delivered>>
  BY DEF BeginSend, BeginStream, CreateSession, AgentYields, Exhausted, CloseBus,
         PublishOutcome, Clear, At, InFlight
<1>2. PICK f \in Run : f = run[r]
  BY <1>1, CarriedBy
<1>3. Carries(r, f, task, delivered) /\ f.pc \notin {"idle", "done"}
  BY <1>1, <1>2, CarriedBy
<1>4. ASSUME NEW g, Become(r, g), g.kind = f.kind, g.snap = f.snap, g.arts = f.arts,
             g.kind = "stream" /\ g.event = "chunk" => g.pc \notin {"write", "publish"}
      PROVE  TurnsInv'
  BY <1>1, <1>3, <1>4, CarriesOn, TurnLocal
<1>5. CASE BeginSend(r)
  <2>1. PICK a : Become(r, [f EXCEPT !.pc = "session", !.listed = TRUE, !.reply = a])
    BY <1>2, <1>5 DEF BeginSend
  <2>2. PICK g : g = [f EXCEPT !.pc = "session", !.listed = TRUE, !.reply = a]
    OBVIOUS
  <2>3. g.pc = "session" /\ g.kind = f.kind /\ g.snap = f.snap /\ g.arts = f.arts
    BY <2>2 DEF Run
  <2> QED BY <1>4, <2>1, <2>2, <2>3
<1>6. CASE BeginStream(r)
  <2>1. PICK g : g = [f EXCEPT !.pc = "session", !.listed = TRUE]
    OBVIOUS
  <2>2. g.pc = "session" /\ g.kind = f.kind /\ g.snap = f.snap /\ g.arts = f.arts
    BY <2>1 DEF Run
  <2> QED BY <1>2, <1>4, <1>6, <2>1, <2>2 DEF BeginStream
<1>7. CASE CreateSession(r)
  <2>1. PICK g : Become(r, g) /\ g \in {Over(f, "stop"), [f EXCEPT !.pc = "agent"],
                                        [f EXCEPT !.pc = "write", !.event = "working"],
                                        [f EXCEPT !.pc = "taking", !.event = "throw"]}
    BY <1>2, <1>7 DEF CreateSession
  <2>2. g.kind = f.kind /\ g.snap = f.snap /\ g.arts = f.arts
        /\ (g.pc \in {"write", "publish"} => g.event # "chunk")
    BY <2>1 DEF Over, Run
  <2> QED BY <1>4, <2>1, <2>2
<1>8. CASE AgentYields(r)
  <2>1. PICK e : Become(r, [f EXCEPT !.pc = "taking", !.event = e])
    BY <1>2, <1>8 DEF AgentYields
  <2>2. PICK g : g = [f EXCEPT !.pc = "taking", !.event = e]
    OBVIOUS
  <2>3. g.pc = "taking" /\ g.kind = f.kind /\ g.snap = f.snap /\ g.arts = f.arts
    BY <2>2 DEF Run
  <2> QED BY <1>4, <2>1, <2>2, <2>3
<1>9. CASE Exhausted(r) \/ CloseBus(r) \/ PublishOutcome(r) \/ Clear(r)
  <2>1. PICK g : Become(r, g) /\ g \in {[f EXCEPT !.ended = TRUE, !.pc = "close"],
                                        [f EXCEPT !.pc = "cancelWrite"],
                                        [f EXCEPT !.pc = "clear"],
                                        [f EXCEPT !.ended = TRUE, !.pc = "clear"],
                                        [f EXCEPT !.pc = "done"]}
    BY <1>2, <1>9 DEF Exhausted, CloseBus, PublishOutcome, Clear
  <2>2. g.kind = f.kind /\ g.snap = f.snap /\ g.arts = f.arts /\ g.pc \notin {"write", "publish"}
    BY <2>1 DEF Run
  <2> QED BY <1>4, <2>1, <2>2
<1> QED BY <1>5, <1>6, <1>7, <1>8, <1>9

LEMMA TakeEventTurns == ASSUME Inv, TurnsInv, NEW r \in Runs, TakeEvent(r) PROVE TurnsInv'
<1>1. InFlight(r) /\ UNCHANGED <<task, delivered>>
  BY DEF TakeEvent, At, InFlight
<1>2. PICK f \in Run : f = run[r]
  BY <1>1, CarriedBy
<1>3. Carries(r, f, task, delivered) /\ f.pc \notin {"idle", "done"}
  BY <1>1, <1>2, CarriedBy
<1>4. PICK pc \in {"agent", "write"} :
        \/ Become(r, [f EXCEPT !.made = f.made + 1, !.arts = f.arts \cup {<<r, f.made + 1>>}, !.pc = pc])
        \/ \E e : e # "chunk" /\ Become(r, Over(f, e))
  BY <1>2 DEF TakeEvent
<1>5. CASE Become(r, [f EXCEPT !.made = f.made + 1, !.arts = f.arts \cup {<<r, f.made + 1>>}, !.pc = pc])
  <2>1. PICK g : g = [f EXCEPT !.made = f.made + 1, !.arts = f.arts \cup {<<r, f.made + 1>>}, !.pc = pc]
    OBVIOUS
  <2>2. /\ g.kind = f.kind /\ g.snap = f.snap /\ g.made = f.made + 1
        /\ g.arts = f.arts \cup {<<r, g.made>>} /\ g.pc \in {"agent", "write"}
    BY <2>1 DEF Run
  <2>3. Carries(r, g, task, delivered)
    BY <1>3, <2>2 DEF Carries
  <2> QED BY <1>1, <1>5, <2>1, <2>3, TurnLocal
<1>6. ASSUME NEW e, e # "chunk", Become(r, Over(f, e)) PROVE TurnsInv'
  <2>1. PICK g : g = Over(f, e)
    OBVIOUS
  <2>2. g.kind = f.kind /\ g.snap = f.snap /\ g.arts = f.arts /\ g.event = e
    BY <2>1 DEF Over, Run
  <2>3. Carries(r, g, task, delivered)
    BY <1>3, <1>6, <2>2, CarriesOn
  <2> QED BY <1>1, <1>6, <2>1, <2>3, TurnLocal
<1> QED BY <1>4, <1>5, <1>6

(* The pump of a stream. *)
LEMMA WriteEventTurns == ASSUME Inv, TurnsInv, NEW r \in Runs, WriteEvent(r) PROVE TurnsInv'
<1>1. InFlight(r) /\ UNCHANGED delivered
  BY DEF WriteEvent, At, InFlight
<1>2. PICK f \in Run : f = run[r]
  BY <1>1, CarriedBy
<1>3. Carries(r, f, task, delivered) /\ f.pc = "write" /\ delivered \subseteq f.arts /\ task.state # "none"
  BY <1>1, <1>2, CarriedBy DEF WriteEvent, At
<1>4. PICK res \in Results :
        /\ Persist(EventUpdate(f), res)
        /\ Become(r, IF res = "lost"
                       THEN [f EXCEPT !.failed = TRUE, !.listed = FALSE,
                                      !.pc = IF f.event \in Ending THEN "retry" ELSE "fail"]
                       ELSE [f EXCEPT !.seen = res, !.pc = "publish"])
  BY <1>2 DEF WriteEvent
<1>5. /\ EventUpdate(f) \in Update /\ EventUpdate(f).state # "none"
      /\ EventUpdate(f).arts = f.arts
  BY <1>2, EventUpdateTyped, NoneAssumption DEF EventUpdate, OnlyArtifacts, Status, StateOf, States
<1>6. /\ task'.state # "none"
      /\ task'.kept /\ task'.state # "canceled" => delivered \subseteq task'.arts
      /\ res # "lost" /\ res \notin Terminal => task' = Apply(task, EventUpdate(f)) /\ task'.kept
  BY <1>3, <1>4, <1>5, PersistKeeps
<1>7. CASE res = "lost"
  <2>1. PICK p \in {"retry", "fail"} :
          Become(r, [f EXCEPT !.failed = TRUE, !.listed = FALSE, !.pc = p])
    BY <1>4, <1>7
  <2>2. PICK g : g = [f EXCEPT !.failed = TRUE, !.listed = FALSE, !.pc = p]
    OBVIOUS
  <2>3. g.pc = p /\ g.kind = f.kind /\ g.snap = f.snap /\ g.arts = f.arts
    BY <2>2 DEF Run
  <2>4. Carries(r, g, task', delivered')
    BY <1>1, <1>3, <1>6, <2>3 DEF Carries
  <2> QED BY <1>1, <1>6, <2>1, <2>2, <2>4, TurnMoves DEF TurnsKeepArtifacts
<1>8. CASE res # "lost"
  <2>1. PICK g : g = [f EXCEPT !.seen = res, !.pc = "publish"]
    OBVIOUS
  <2>2. /\ g.pc = "publish" /\ g.kind = f.kind /\ g.snap = f.snap /\ g.arts = f.arts
        /\ g.event = f.event /\ g.made = f.made /\ g.seen = res
    BY <2>1 DEF Run
  <2>3. res \notin Terminal /\ f.arts # {} => task'.arts = f.arts
    BY <1>5, <1>6, <1>8 DEF Apply, Inv, Task
  <2>4. Carries(r, g, task', delivered')
    BY <1>1, <1>3, <1>6, <2>2, <2>3 DEF Carries
  <2> QED BY <1>1, <1>4, <1>6, <1>8, <2>1, <2>4, TurnMoves DEF TurnsKeepArtifacts
<1> QED BY <1>7, <1>8

LEMMA PublishEventTurns == ASSUME Inv, TurnsInv, NEW r \in Runs, PublishEvent(r) PROVE TurnsInv'
<1>1. InFlight(r) /\ UNCHANGED task /\ run[r].pc = "publish" /\ ~Unary(r)
  BY DEF PublishEvent, At, InFlight
<1>2. PICK f \in Run : f = run[r]
  BY <1>1, CarriedBy
<1>3. Carries(r, f, task, delivered) /\ f.kind \notin {"send", "detached"} /\ task.state # "none"
  BY <1>1, <1>2, CarriedBy DEF Unary
<1>4. \/ UNCHANGED delivered
      \/ /\ delivered' = delivered \cup {<<r, f.made>>}
         /\ f.event = "chunk" /\ ~(f.seen \in Terminal /\ f.seen # StateOf(f.event))
  BY <1>2 DEF PublishEvent, LastArtifact
<1>5. delivered' \subseteq f.arts
  BY <1>1, <1>2, <1>3, <1>4 DEF Carries, StateOf, Terminal, Run
<1>6. task.kept /\ task.state # "canceled" => delivered' \subseteq task.arts
  <2>1. CASE UNCHANGED delivered
    BY <2>1 DEF TurnsInv, TurnsKeepArtifacts
  <2>2. CASE f.event = "chunk" /\ ~(f.seen \in Terminal /\ f.seen # StateOf(f.event))
    <3>1. f.seen \notin Terminal
      BY <2>2 DEF StateOf, Terminal
    <3>2. f.kind = "stream"
      BY <1>1, <1>2, <1>3 DEF Carries
    <3> QED BY <1>1, <1>2, <1>3, <1>5, <2>2, <3>1, <3>2 DEF Carries
  <2> QED BY <1>4, <2>1, <2>2
<1>7. PICK ended, reached, listed, pc :
        /\ pc \in {"close", "agent"}
        /\ Become(r, [f EXCEPT !.ended = ended, !.reached = reached, !.listed = listed, !.pc = pc])
  BY <1>2 DEF PublishEvent
<1>8. PICK g : g = [f EXCEPT !.ended = ended, !.reached = reached, !.listed = listed, !.pc = pc]
  OBVIOUS
<1>9. g.pc = pc /\ g.kind = f.kind /\ g.snap = f.snap /\ g.arts = f.arts
  BY <1>8 DEF Run
<1>10. Carries(r, g, task', delivered')
  BY <1>1, <1>2, <1>3, <1>5, <1>7, <1>9 DEF Carries
<1> QED BY <1>1, <1>3, <1>6, <1>7, <1>8, <1>10, TurnMoves DEF TurnsKeepArtifacts

LEMMA LastStatusTurns ==
  ASSUME Inv, TurnsInv, NEW r \in Runs, InFlight(r), NEW state \in States \ {"none"},
         NEW ok, NEW lost, LastStatus(r, state, ok, lost),
         ok \in Run, ok.kind = run[r].kind, ok.snap = run[r].snap, ok.arts = run[r].arts,
         lost.kind = run[r].kind, lost.snap = run[r].snap, lost.arts = run[r].arts,
         lost.pc \notin {"write", "publish"}
  PROVE  TurnsInv'
<1>1. /\ Carries(r, run[r], task, delivered) /\ run[r].pc \notin {"idle", "done"}
      /\ task.state # "none" /\ delivered \subseteq run[r].arts /\ run[r].arts \in SUBSET Artifacts
  BY CarriedBy DEF Run
<1>2. /\ Status(state, run[r].arts) \in Update /\ Status(state, run[r].arts).state # "none"
      /\ Status(state, run[r].arts).arts = run[r].arts
  BY <1>1 DEF Status, Update
<1>3. PICK res \in Results :
        /\ Persist(Status(state, run[r].arts), res)
        /\ IF res = "lost" THEN Become(r, lost)
           ELSE Become(r, [ok EXCEPT !.ended = TRUE, !.pc = "close",
                                     !.reached = @ \/ res \in Terminal])
  BY DEF LastStatus
<1>4. UNCHANGED delivered
  BY DEF LastStatus
<1>5. /\ task'.state # "none"
      /\ task'.kept /\ task'.state # "canceled" => delivered \subseteq task'.arts
  BY <1>1, <1>2, <1>3, PersistKeeps
<1>6. \E g : /\ Become(r, g) /\ g.kind = run[r].kind /\ g.snap = run[r].snap
             /\ g.arts = run[r].arts /\ g.pc \notin {"write", "publish"}
  <2>1. CASE res = "lost"
    BY <1>3, <2>1
  <2>2. CASE res # "lost"
    <3>1. PICK b : Become(r, [ok EXCEPT !.ended = TRUE, !.pc = "close", !.reached = b])
      BY <1>3, <2>2
    <3>2. PICK g : g = [ok EXCEPT !.ended = TRUE, !.pc = "close", !.reached = b]
      OBVIOUS
    <3>3. /\ g.pc = "close" /\ g.kind = run[r].kind /\ g.snap = run[r].snap
          /\ g.arts = run[r].arts
      BY <3>2 DEF Run
    <3> QED BY <3>1, <3>2, <3>3
  <2> QED BY <2>1, <2>2
<1>7. PICK g : /\ Become(r, g) /\ g.kind = run[r].kind /\ g.snap = run[r].snap
               /\ g.arts = run[r].arts /\ g.pc \notin {"write", "publish"}
  BY <1>6
<1>8. Carries(r, g, task', delivered')
  BY <1>1, <1>4, <1>5, <1>7 DEF Carries
<1> QED BY <1>4, <1>5, <1>7, <1>8, TurnMoves DEF TurnsKeepArtifacts

LEMMA LastWriteTurns ==
  ASSUME Inv, TurnsInv, NEW r \in Runs, CancelOutcome(r) \/ RetryWrite(r) \/ FailOutcome(r)
  PROVE  TurnsInv'
<1>1. InFlight(r)
  BY DEF CancelOutcome, RetryWrite, FailOutcome, At, InFlight
<1>2. PICK f \in Run : f = run[r]
  BY <1>1, CarriedBy
<1>3. /\ [f EXCEPT !.failed = TRUE, !.pc = "fail"].pc = "fail"
      /\ [f EXCEPT !.pc = "fail"].pc = "fail" /\ [f EXCEPT !.pc = "close"].pc = "close"
      /\ [f EXCEPT !.failed = FALSE] \in Run
  BY DEF Run
<1>4. \A g \in {[f EXCEPT !.failed = TRUE, !.pc = "fail"], [f EXCEPT !.pc = "fail"],
                [f EXCEPT !.pc = "close"], [f EXCEPT !.failed = FALSE]} :
        g.kind = f.kind /\ g.snap = f.snap /\ g.arts = f.arts
  BY DEF Run
<1>5. {"canceled", "failed"} \subseteq States \ {"none"} /\ StateOf(f.event) \in States \ {"none"}
  BY DEF States, Terminal, StateOf
<1>6. CASE CancelOutcome(r)
  BY <1>1, <1>2, <1>3, <1>4, <1>5, <1>6, LastStatusTurns DEF CancelOutcome
<1>7. CASE RetryWrite(r)
  BY <1>1, <1>2, <1>3, <1>4, <1>5, <1>7, LastStatusTurns DEF RetryWrite
<1>8. CASE FailOutcome(r)
  <2>1. LastStatus(r, "failed", [f EXCEPT !.failed = FALSE], [f EXCEPT !.pc = "close"])
    BY <1>2, <1>8 DEF FailOutcome
  <2>2. PICK ok \in Run : ok = [f EXCEPT !.failed = FALSE]
    BY <1>3
  <2>3. ok.kind = f.kind /\ ok.snap = f.snap /\ ok.arts = f.arts
    BY <1>4, <2>2
  <2>4. PICK lost : lost = [f EXCEPT !.pc = "close"]
    OBVIOUS
  <2>5. lost.kind = f.kind /\ lost.snap = f.snap /\ lost.arts = f.arts /\ lost.pc = "close"
    BY <1>3, <1>4, <2>4
  <2> QED BY <1>1, <1>2, <1>5, <2>1, <2>2, <2>3, <2>4, <2>5, LastStatusTurns
<1> QED BY <1>6, <1>7, <1>8

(* The outcome of a unary run: its artifacts, or the record it found. *)
LEMMA WriteOutcomeTurns == ASSUME Inv, TurnsInv, NEW r \in Runs, WriteOutcome(r) PROVE TurnsInv'
<1>1. InFlight(r)
  BY DEF WriteOutcome, At, InFlight
<1>2. PICK f \in Run : f = run[r]
  BY <1>1, CarriedBy
<1>3. /\ Carries(r, f, task, delivered) /\ f.pc = "outcome"
      /\ delivered \subseteq f.arts /\ task.state # "none"
  BY <1>1, <1>2, CarriedBy DEF WriteOutcome, At
<1>4. PICK res \in Results :
        /\ Persist(OutcomeUpdate(f), res)
        /\ \/ /\ f.kind = "send"
              /\ \E a : Become(r, [f EXCEPT !.pc = "done", !.reply = a])
              /\ delivered' = IF res = "lost" THEN delivered ELSE delivered \cup task'.arts
           \/ /\ f.kind = "detached"
              /\ \/ Become(r, [f EXCEPT !.seen = res, !.pc = "publish"])
                 \/ Become(r, [f EXCEPT !.tries = @ + 1])
                 \/ Become(r, [f EXCEPT !.failed = TRUE, !.pc = "clear"])
              /\ UNCHANGED delivered
  <2>1. PICK res \in Results :
          /\ Persist(OutcomeUpdate(f), res)
          /\ \/ /\ f.kind = "send"
                /\ \E a : Become(r, [f EXCEPT !.pc = "done", !.reply = a])
                /\ delivered' = IF res = "lost" THEN delivered ELSE delivered \cup task'.arts
             \/ /\ f.kind = "detached" /\ res # "lost"
                /\ Become(r, [f EXCEPT !.seen = res, !.pc = "publish"])
                /\ UNCHANGED delivered
             \/ /\ f.kind = "detached" /\ res = "lost"
                /\ Become(r, IF f.tries < 3 THEN [f EXCEPT !.tries = @ + 1]
                               ELSE [f EXCEPT !.failed = TRUE, !.pc = "clear"])
                /\ UNCHANGED delivered
    BY <1>2 DEF WriteOutcome
  <2> QED BY <2>1
<1>5. /\ OutcomeUpdate(f) \in Update /\ OutcomeUpdate(f).state # "none"
      /\ OutcomeUpdate(f).arts = {} \/ delivered \subseteq OutcomeUpdate(f).arts
  <2>1. f.kind # "stream"
    BY <1>4
  <2>2. delivered \subseteq f.snap /\ f.tries \in 0..3
    BY <1>3, <2>1 DEF Carries, Run
  <2>3. OutcomeUpdate(f) \in {Status("failed", {}), Status("working", f.snap),
                              Status(StateOf(f.event), f.arts)}
    BY <2>2 DEF OutcomeUpdate
  <2> QED BY <1>2, <1>3, <2>2, <2>3, OutcomeUpdateTyped DEF Status, StateOf
<1>6. /\ task'.state # "none"
      /\ task'.kept /\ task'.state # "canceled" => delivered \subseteq task'.arts
  BY <1>3, <1>4, <1>5, PersistKeeps
<1>7. TurnsKeepArtifacts'
  BY <1>4, <1>6 DEF TurnsKeepArtifacts
<1>8. CASE f.kind = "send" /\ \E a : Become(r, [f EXCEPT !.pc = "done", !.reply = a])
  <2>1. PICK a : Become(r, [f EXCEPT !.pc = "done", !.reply = a])
    BY <1>8
  <2>2. PICK g : g = [f EXCEPT !.pc = "done", !.reply = a]
    OBVIOUS
  <2>3. g.pc = "done"
    BY <2>2, <1>2 DEF Run
  <2>4. Carries(r, g, task', delivered')
    BY <2>3 DEF Carries
  <2> QED BY <1>1, <1>6, <1>7, <2>1, <2>2, <2>4, TurnMoves
<1>9. CASE f.kind = "detached" /\ UNCHANGED delivered
  <2>1. PICK g : Become(r, g) /\ g \in {[f EXCEPT !.seen = res, !.pc = "publish"],
                                        [f EXCEPT !.tries = @ + 1],
                                        [f EXCEPT !.failed = TRUE, !.pc = "clear"]}
    BY <1>4, <1>9
  <2>2. g.kind = f.kind /\ g.snap = f.snap /\ g.arts = f.arts
    BY <2>1 DEF Run
  <2>3. Carries(r, g, task', delivered')
    BY <1>3, <1>6, <1>9, <2>2 DEF Carries
  <2> QED BY <1>1, <1>6, <1>7, <2>1, <2>3, TurnMoves
<1> QED BY <1>4, <1>8, <1>9

(* What is not a step of a run. *)
LEMMA AsideTurns ==
  ASSUME Inv, TurnsInv, UNCHANGED <<run, delivered>>, task'.state = "none" <=> task.state = "none",
         task'.kept => task.kept,
         task'.state # "canceled" => task'.arts = task.arts /\ task.state # "canceled"
  PROVE  TurnsInv'
<1>1. OneTurn' /\ TurnsKeepArtifacts'
  BY DEF TurnsInv, OneTurn, InFlight, TurnsKeepArtifacts
<1>2. \A r \in Runs : Carries(r, run'[r], task', delivered')
  BY DEF TurnsInv, Carries
<1> QED BY <1>1, <1>2 DEF TurnsInv

LEMMA CancelTurns == ASSUME Inv, TurnsInv, NEW c \in Cancels, CancelRead(c) \/ CancelStep(c)
                     PROVE TurnsInv'
<1>1. CASE CancelRead(c)
  BY <1>1, AsideTurns DEF CancelRead
<1>2. CASE Abort(c)
  <2>1. UNCHANGED <<task, delivered>>
    BY <1>2 DEF Abort
  <2>2. \A r \in Runs : /\ run[r] \in Run
                        /\ run'[r] = run[r] \/ run'[r] = [run[r] EXCEPT !.aborted = TRUE, !.listed = FALSE]
    BY <1>2 DEF Abort, Inv
  <2>3. \A r \in Runs : /\ run'[r].pc = run[r].pc /\ run'[r].kind = run[r].kind
                        /\ run'[r].snap = run[r].snap /\ run'[r].arts = run[r].arts
                        /\ run'[r].event = run[r].event /\ run'[r].made = run[r].made
                        /\ run'[r].seen = run[r].seen
    <3> SUFFICES ASSUME NEW r \in Runs
                 PROVE  /\ run'[r].pc = run[r].pc /\ run'[r].kind = run[r].kind
                        /\ run'[r].snap = run[r].snap /\ run'[r].arts = run[r].arts
                        /\ run'[r].event = run[r].event /\ run'[r].made = run[r].made
                        /\ run'[r].seen = run[r].seen
      OBVIOUS
    <3>1. PICK f \in Run : f = run[r]
      BY <2>2
    <3>2. run'[r] = f \/ run'[r] = [f EXCEPT !.aborted = TRUE, !.listed = FALSE]
      BY <2>2, <3>1
    <3> QED BY <3>1, <3>2 DEF Run
  <2>4. \A r \in Runs : Carries(r, run'[r], task', delivered')
    BY <2>1, <2>3 DEF TurnsInv, Carries
  <2>5. OneTurn' /\ TurnsKeepArtifacts'
    BY <2>1, <2>3 DEF TurnsInv, OneTurn, InFlight, TurnsKeepArtifacts
  <2> QED BY <2>1, <2>4, <2>5 DEF TurnsInv
<1>3. CASE CancelWrite(c)
  <2>1. PICK res \in Results : Persist(Status("canceled", cancel[c].snap), res)
    BY <1>3 DEF CancelWrite
  <2>2. UNCHANGED task \/ (task'.state = "canceled" /\ task'.kept /\ task.kept)
    BY <2>1, NoneAssumption DEF Persist, Apply, Accepts, Status, Inv, Task, States, Terminal
  <2>3. UNCHANGED <<run, delivered>>
    BY <1>3 DEF CancelWrite
  <2>4. task.kept => task.state # "none"
    BY DEF TurnsInv
  <2> QED BY <2>2, <2>3, <2>4, AsideTurns
<1> QED BY <1>1, <1>2, <1>3 DEF CancelStep

LEMMA NextTurns == ASSUME ~Overlap, Inv, TurnsInv, [Next]_vars PROVE TurnsInv'
<1>1. ASSUME NEW r \in Runs, Start(r) \/ RunStep(r) PROVE TurnsInv'
  BY <1>1, StartTurns, AcceptSendTurns, QuietTurns, TakeEventTurns, WriteEventTurns,
     PublishEventTurns, LastWriteTurns, WriteOutcomeTurns DEF RunStep
<1>2. ASSUME NEW w \in Watchers, Resubscribe(w) \/ WatchStep(w) PROVE TurnsInv'
  BY <1>2, AsideTurns DEF WatchStep, Resubscribe, Attach, ReadAgain, SubIdle
<1>3. ASSUME NEW s \in Subs, SubStep(s) PROVE TurnsInv'
  BY <1>3, AsideTurns DEF SubStep, EndOfEvents, LastRead, SubIdle
<1>4. ASSUME NEW c \in Cancels, CancelRead(c) \/ CancelStep(c) PROVE TurnsInv'
  BY <1>4, CancelTurns
<1>5. CASE UNCHANGED vars
  BY <1>5, AsideTurns DEF vars
<1>6. CASE Evict
  BY <1>6, AsideTurns DEF Evict, Inv, Task
<1> QED BY <1>1, <1>2, <1>3, <1>4, <1>5, <1>6 DEF Next

(* TurnsKeepArtifacts: as long as turns follow each other and none is canceled, *)
(* the record holds every artifact a client was given, whatever the store       *)
(* refuses or loses, and however the agents end.                               *)
THEOREM TurnsKeepWhatWasGiven == ASSUME ~Overlap PROVE Spec => []TurnsKeepArtifacts
<1>1. Init => TurnsInv
  BY DEF Init, TurnsInv, OneTurn, InFlight, Carries, TurnsKeepArtifacts, NoTask
<1>2. Inv /\ TurnsInv /\ [Next]_vars => TurnsInv'
  BY NextTurns
<1>3. TurnsInv => TurnsKeepArtifacts
  BY DEF TurnsInv
<1> QED BY <1>1, <1>2, <1>3, Invariance, PTL DEF Spec
-----------------------------------------------------------------------------
(* No task is left saying it is worked on.  While its record says "working"  *)
(* a run owes it another status, or somebody was told of an error, or a       *)
(* cancel is about to write.                                                 *)
Overruled(f) == f.seen \in Terminal /\ f.seen # StateOf(f.event)

Owes(f) ==
  \/ f.pc \in {"accepted", "session", "agent", "taking", "write", "exhausted", "cancelWrite",
               "retry", "fail", "outcome"}
  \/ f.pc = "publish" /\ f.kind = "stream" /\ ~Overruled(f) /\ f.event \notin Ending

Stopping == \E c \in Cancels : cancel[c].pc = "write"
Excused == Ended(task) \/ Refused \/ Stopping

(* A run that was stopped was stopped by a cancel, and one that failed to     *)
(* write has used up the failures of the store, or finds an ended task: n is   *)
(* their number, x whether the record is excused.                            *)
RunSays(f, t, n, x) ==
  /\ f.pc = "idle" => f.tries = 0 /\ ~f.aborted /\ ~f.listed /\ f.event = "working"
  /\ f.pc # "idle" => t.state # "none" /\ f.kind \in {"send", "detached", "stream"}
  /\ f.pc = "taking" => f.event \in AgentEvents
  /\ f.pc = "write" => f.kind = "stream"
  /\ f.pc = "outcome" => f.event \in Ending \cup {"stop"} /\ f.kind # "stream"
  /\ f.pc = "retry" => f.event \in Ending
  /\ f.pc \in {"retry", "fail"} \/ f.tries > 0 => Ended(t) \/ n > 0
  /\ f.tries > 1 => Ended(t)
  /\ f.event = "stop" => f.aborted
  /\ f.aborted => x
  /\ f.reply = "error" => f.pc = "done"

WorkInv ==
  /\ failures <= MaxStoreFailures
  /\ IF task.state = "none" THEN ~task.kept ELSE task.kept \/ Ended(task)
  /\ \A r \in Runs : RunSays(run[r], task, failures, Excused)
  /\ \A c \in Cancels : /\ cancel[c].reply = "error" => cancel[c].pc = "done"
                        /\ cancel[c].pc # "idle" => task.state # "none"
  /\ task.kept /\ task.state = "working" => Excused \/ \E r \in Runs : Owes(run[r])

(* A step of a run. *)
LEMMA WorkMoves ==
  ASSUME Inv, WorkInv, NEW r \in Runs, NEW g, Become(r, g), UNCHANGED cancel,
         run[r].pc # "done", RunSays(g, task', failures', Excused'),
         Ended(task) => Ended(task'), task'.state # "none", task'.kept \/ Ended(task'),
         failures' \in Nat, failures <= failures', failures' <= MaxStoreFailures,
         task'.kept /\ task'.state = "working" =>
           Excused' \/ Owes(g) \/ (task.kept /\ task.state = "working" /\ ~Owes(run[r]))
  PROVE  WorkInv'
<1>1. \A q \in Runs : run'[q] = IF q = r THEN g ELSE run[q]
  BY DEF Become, Inv
<1>2. Refused => Refused'
  BY <1>1 DEF Refused, WorkInv, RunSays
<1>3. Excused => Excused'
  BY <1>2 DEF Excused, Stopping
<1>4. failures \in Nat
  BY DEF Inv
<1>5. ASSUME NEW q \in Runs PROVE RunSays(run'[q], task', failures', Excused')
  <2>1. CASE q = r
    BY <1>1, <2>1
  <2>2. CASE q # r
    <3>1. RunSays(run[q], task, failures, Excused) /\ run'[q] = run[q]
      BY <1>1, <2>2 DEF WorkInv
    <3> QED BY <1>3, <1>4, <3>1 DEF RunSays
  <2> QED BY <2>1, <2>2
<1>6. task'.kept /\ task'.state = "working" => Excused' \/ \E q \in Runs : Owes(run'[q])
  <2>1. CASE task.kept /\ task.state = "working" /\ ~Owes(run[r])
    BY <1>1, <1>3, <2>1 DEF WorkInv
  <2> QED BY <1>1, <2>1
<1> QED BY <1>5, <1>6 DEF WorkInv

LEMMA SaysOf == ASSUME Inv, WorkInv, NEW r \in Runs
                PROVE  /\ run[r] \in Run /\ RunSays(run[r], task, failures, Excused)
                       /\ failures \in Nat /\ failures <= MaxStoreFailures
BY DEF Inv, WorkInv

(* A step of a run that writes nothing. *)
LEMMA WorkLocal ==
  ASSUME Inv, WorkInv, NEW r \in Runs, NEW f, f = run[r], NEW g, Become(r, g),
         f.pc \notin {"idle", "done"}, UNCHANGED <<task, cancel, failures>>,
         g.kind = f.kind, g.tries = f.tries, g.aborted = f.aborted,
         g.pc \notin {"idle", "retry", "fail"},
         g.pc = "taking" => g.event \in AgentEvents,
         g.pc = "write" => g.kind = "stream",
         g.pc = "outcome" => g.event \in Ending \cup {"stop"} /\ g.kind # "stream",
         g.event = "stop" => g.aborted,
         g.reply = f.reply \/ g.reply # "error",
         Owes(f) => Owes(g) \/ task.state # "working"
  PROVE  WorkInv'
<1>1. RunSays(f, task, failures, Excused) /\ failures \in Nat /\ failures <= MaxStoreFailures
  BY SaysOf
<1>2. Excused => Excused'
  <2>1. \A q \in Runs : run'[q] = IF q = r THEN g ELSE run[q]
    BY DEF Become, Inv
  <2>2. Refused => Refused'
    BY <1>1, <2>1 DEF Refused, RunSays
  <2> QED BY <2>2 DEF Excused, Stopping
<1>3. RunSays(g, task', failures', Excused')
  BY <1>1, <1>2 DEF RunSays
<1>4. task.state # "none" /\ (task.kept \/ Ended(task))
  BY <1>1 DEF WorkInv, RunSays
<1> QED BY <1>1, <1>3, <1>4, WorkMoves

(* What a write may come to while the store fails at most once. *)
LEMMA PersistOnce ==
  ASSUME MaxStoreFailures \in {0, 1}, Inv, WorkInv, task.state # "none",
         NEW u \in Update, u.state # "none", NEW res \in Results, Persist(u, res)
  PROVE  /\ Ended(task) => Ended(task')
         /\ task'.state # "none" /\ (task'.kept \/ Ended(task'))
         /\ failures' \in Nat /\ failures <= failures' /\ failures' <= MaxStoreFailures
         /\ res = "lost" => UNCHANGED task /\ (Ended(task) \/ (failures = 0 /\ failures' = 1))
         /\ res # "lost" =>
              /\ res = task'.state
              /\ Ended(task') \/ (task'.state = IF u.state = None THEN task.state ELSE u.state)
<1>1. failures \in Nat /\ failures <= MaxStoreFailures /\ (task.kept \/ Ended(task))
  BY DEF Inv, WorkInv
<1>2. CASE Accepts(task, u) /\ task' = Apply(task, u) /\ res = task'.state /\ UNCHANGED failures
  <2>1. /\ task'.state = IF u.state = None THEN task.state ELSE u.state
        /\ task'.kept = task.kept
    BY <1>2 DEF Apply, Inv, Task
  <2>2. Ended(task) => Ended(task')
    BY <1>2, <2>1 DEF Accepts, Ended
  <2>3. res # "lost"
    BY <1>2, <2>1 DEF Inv, Task, Update, States, Terminal
  <2> QED BY <1>1, <1>2, <2>1, <2>2, <2>3
<1>3. CASE /\ \/ ~Accepts(task, u) /\ UNCHANGED failures
              \/ failures < MaxStoreFailures /\ failures' = failures + 1
           /\ UNCHANGED task
           /\ res = IF task.kept /\ Ended(task) THEN task.state ELSE "lost"
  <2>1. \/ UNCHANGED failures /\ Ended(task)
        \/ failures = 0 /\ failures' = 1 /\ MaxStoreFailures = 1
    <3>1. CASE ~Accepts(task, u) /\ UNCHANGED failures
      BY <1>1, <3>1 DEF Accepts
    <3>2. CASE failures < MaxStoreFailures /\ failures' = failures + 1
      BY <1>1, <3>2
    <3> QED BY <1>3, <3>1, <3>2
  <2>2. failures' \in Nat /\ failures <= failures' /\ failures' <= MaxStoreFailures
    BY <1>1, <2>1
  <2>3. res # "lost" => res = task'.state /\ Ended(task')
    BY <1>3 DEF Ended
  <2> QED BY <1>1, <1>3, <2>1, <2>2, <2>3 DEF Ended
<1> QED BY <1>2, <1>3 DEF Persist

(* What excuses the record does not go away. *)
LEMMA ExcuseStays ==
  ASSUME Inv, WorkInv, NEW r \in Runs, NEW g, Become(r, g), run[r].pc # "done",
         UNCHANGED cancel, Ended(task) => Ended(task'), Excused
  PROVE  Excused'
<1>1. \A q \in Runs : run'[q] = IF q = r THEN g ELSE run[q]
  BY DEF Become, Inv
<1>2. Refused => Refused'
  BY <1>1 DEF Refused, WorkInv, RunSays
<1> QED BY <1>2 DEF Excused, Stopping

LEMMA StartWork == ASSUME Inv, WorkInv, NEW r \in Runs, Start(r) PROVE WorkInv'
<1>1. PICK f \in Run : f = run[r]
  BY DEF Inv
<1>2. PICK k \in Kinds :
        Become(r, [f EXCEPT !.kind = k, !.pc = "resolved",
                            !.snap = task'.arts, !.arts = task'.arts])
  BY <1>1 DEF Start
<1>3. \/ task.state = "none" /\ task' = NewTask
      \/ task.kept /\ ~Ended(task) /\ UNCHANGED task
  BY DEF Start
<1>4. f.pc = "idle" /\ UNCHANGED <<cancel, failures>>
  BY <1>1 DEF Start, At
<1>5. PICK g : g = [f EXCEPT !.kind = k, !.pc = "resolved", !.snap = task'.arts, !.arts = task'.arts]
  OBVIOUS
<1>6. /\ g.pc = "resolved" /\ g.kind = k /\ g.tries = f.tries /\ g.aborted = f.aborted
      /\ g.event = f.event /\ g.reply = f.reply
  BY <1>5 DEF Run
<1>7. /\ RunSays(f, task, failures, Excused)
      /\ failures \in Nat /\ failures <= MaxStoreFailures
  BY <1>1, SaysOf
<1>8. task'.state # "none" /\ (task'.kept \/ Ended(task')) /\ (Ended(task) => Ended(task'))
  BY <1>3, <1>7 DEF NewTask, WorkInv, Ended, Terminal
<1>9. RunSays(g, task', failures', Excused')
  BY <1>4, <1>6, <1>7, <1>8, CallAssumption DEF RunSays
<1>10. task'.state = "working" => task.kept /\ task.state = "working" /\ ~Owes(f)
  BY <1>3, <1>4 DEF NewTask, Owes
<1> QED BY <1>1, <1>2, <1>4, <1>5, <1>7, <1>8, <1>9, <1>10, WorkMoves

LEMMA AcceptSendWork ==
  ASSUME MaxStoreFailures \in {0, 1}, Inv, WorkInv, NEW r \in Runs, AcceptSend(r)
  PROVE  WorkInv'
<1>1. PICK f \in Run : f = run[r]
  BY DEF Inv
<1>2. /\ RunSays(f, task, failures, Excused) /\ f.pc = "resolved" /\ task.state # "none"
      /\ UNCHANGED cancel
  BY <1>1, SaysOf DEF AcceptSend, At, RunSays
<1>3. Status("working", {}) \in Update /\ Status("working", {}).state = "working"
  BY DEF Status, Update, States
<1>4. PICK res \in Results :
        /\ Persist(Status("working", {}), res)
        /\ Become(r, CASE res = "lost" -> [f EXCEPT !.pc = "done", !.reply = "error"]
                       [] res \in Terminal -> [f EXCEPT !.pc = "done", !.reply = res]
                       [] OTHER -> [f EXCEPT !.pc = "accepted", !.snap = task'.arts,
                                             !.arts = task'.arts])
  BY <1>1 DEF AcceptSend
<1>5. /\ Ended(task) => Ended(task')
      /\ task'.state # "none" /\ (task'.kept \/ Ended(task'))
      /\ failures' \in Nat /\ failures <= failures' /\ failures' <= MaxStoreFailures
      /\ res = "lost" => UNCHANGED task
      /\ res # "lost" => res = task'.state
  BY <1>2, <1>3, <1>4, PersistOnce
<1>6. failures \in Nat
  BY DEF Inv
<1>7. PICK g : Become(r, g) /\ g \in {[f EXCEPT !.pc = "done", !.reply = "error"],
                                      [f EXCEPT !.pc = "done", !.reply = res],
                                      [f EXCEPT !.pc = "accepted", !.snap = task'.arts,
                                                !.arts = task'.arts]}
              /\ (g.pc = "accepted" \/ res = "lost" \/ res \in Terminal)
  <2>1. [f EXCEPT !.pc = "accepted", !.snap = task'.arts, !.arts = task'.arts].pc = "accepted"
    BY DEF Run
  <2> QED BY <1>4, <2>1
<1>8. /\ g.kind = f.kind /\ g.tries = f.tries /\ g.aborted = f.aborted /\ g.event = f.event
      /\ g.pc \in {"done", "accepted"} /\ (g.pc = "done" \/ g.reply = f.reply)
  BY <1>7 DEF Run
<1>9. Excused => Excused'
  BY <1>1, <1>2, <1>5, <1>7, ExcuseStays
<1>10. RunSays(g, task', failures', Excused')
  BY <1>2, <1>5, <1>6, <1>8, <1>9 DEF RunSays
<1>11. task'.kept /\ task'.state = "working" =>
         Owes(g) \/ (task.kept /\ task.state = "working" /\ ~Owes(f))
  BY <1>2, <1>5, <1>7 DEF Owes, Terminal
<1> QED BY <1>1, <1>2, <1>5, <1>7, <1>10, <1>11, WorkMoves

(* Steps of a run that write nothing. *)
LEMMA QuietWork ==
  ASSUME Inv, WorkInv, NEW r \in Runs,
         \/ BeginSend(r) \/ BeginStream(r) \/ CreateSession(r) \/ AgentYields(r)
         \/ PublishEvent(r) \/ Exhausted(r) \/ CloseBus(r) \/ PublishOutcome(r) \/ Clear(r)
  PROVE  WorkInv'
<1>1. PICK f \in Run : f = run[r]
  BY DEF Inv
<1>2. f.pc \notin {"idle", "done"} /\ UNCHANGED <<task, cancel, failures>>
  BY <1>1 DEF BeginSend, BeginStream, CreateSession, AgentYields, PublishEvent, Exhausted,
              CloseBus, PublishOutcome, Clear, At
<1>3. RunSays(f, task, failures, Excused)
  BY <1>1, SaysOf
<1>4. f.kind \in {"send", "detached", "stream"} /\ (f.event = "stop" => f.aborted)
  BY <1>2, <1>3 DEF RunSays
<1>5. ASSUME NEW g, Become(r, g), g.kind = f.kind, g.tries = f.tries, g.aborted = f.aborted,
             g.pc \in {"session", "agent"}, g.event = f.event, g.reply = f.reply \/ g.reply # "error"
      PROVE  WorkInv'
  <2>1. Owes(g)
    BY <1>5 DEF Owes
  <2> QED BY <1>1, <1>2, <1>4, <1>5, <2>1, WorkLocal
<1>6. CASE BeginSend(r)
  <2>1. PICK a \in {f.reply, "working"} :
          Become(r, [f EXCEPT !.pc = "session", !.listed = TRUE, !.reply = a])
    BY <1>1, <1>6 DEF BeginSend
  <2>2. PICK g : g = [f EXCEPT !.pc = "session", !.listed = TRUE, !.reply = a]
    OBVIOUS
  <2>3. /\ g.pc = "session" /\ g.kind = f.kind /\ g.tries = f.tries /\ g.aborted = f.aborted
        /\ g.event = f.event /\ g.reply = a
    BY <2>2 DEF Run
  <2> QED BY <1>5, <2>1, <2>2, <2>3
<1>7. CASE BeginStream(r)
  <2>1. PICK g : g = [f EXCEPT !.pc = "session", !.listed = TRUE]
    OBVIOUS
  <2>2. /\ g.pc = "session" /\ g.kind = f.kind /\ g.tries = f.tries /\ g.aborted = f.aborted
        /\ g.event = f.event /\ g.reply = f.reply
    BY <2>1 DEF Run
  <2> QED BY <1>1, <1>5, <1>7, <2>1, <2>2 DEF BeginStream
<1>8. CASE CreateSession(r)
  <2>1. \/ f.aborted /\ Become(r, Over(f, "stop"))
        \/ Become(r, [f EXCEPT !.pc = "agent"])
        \/ ~Unary(r) /\ Become(r, [f EXCEPT !.pc = "write", !.event = "working"])
        \/ Become(r, [f EXCEPT !.pc = "taking", !.event = "throw"])
    BY <1>1, <1>8 DEF CreateSession
  <2>2. CASE f.aborted /\ Become(r, Over(f, "stop"))
    <3>1. PICK g : g = Over(f, "stop")
      OBVIOUS
    <3>2. /\ g.kind = f.kind /\ g.tries = f.tries /\ g.aborted = f.aborted /\ g.event = "stop"
          /\ g.reply = f.reply /\ g.pc = IF f.kind = "stream" THEN "exhausted" ELSE "outcome"
      BY <3>1 DEF Over, Run
    <3>3. Owes(g)
      BY <3>2 DEF Owes
    <3> QED BY <1>1, <1>2, <2>2, <3>1, <3>2, <3>3, WorkLocal
  <2>3. CASE Become(r, [f EXCEPT !.pc = "agent"])
    <3>1. PICK g : g = [f EXCEPT !.pc = "agent"]
      OBVIOUS
    <3>2. /\ g.pc = "agent" /\ g.kind = f.kind /\ g.tries = f.tries /\ g.aborted = f.aborted
          /\ g.event = f.event /\ g.reply = f.reply
      BY <3>1 DEF Run
    <3> QED BY <1>5, <2>3, <3>1, <3>2
  <2>4. CASE ~Unary(r) /\ Become(r, [f EXCEPT !.pc = "write", !.event = "working"])
    <3>1. PICK g : g = [f EXCEPT !.pc = "write", !.event = "working"]
      OBVIOUS
    <3>2. /\ g.pc = "write" /\ g.kind = f.kind /\ g.tries = f.tries /\ g.aborted = f.aborted
          /\ g.event = "working" /\ g.reply = f.reply
      BY <3>1 DEF Run
    <3>3. Owes(g) /\ g.kind = "stream"
      BY <1>1, <1>4, <2>4, <3>2 DEF Owes, Unary
    <3> QED BY <1>1, <1>2, <2>4, <3>1, <3>2, <3>3, WorkLocal
  <2>5. CASE Become(r, [f EXCEPT !.pc = "taking", !.event = "throw"])
    <3>1. PICK g : g = [f EXCEPT !.pc = "taking", !.event = "throw"]
      OBVIOUS
    <3>2. /\ g.pc = "taking" /\ g.kind = f.kind /\ g.tries = f.tries /\ g.aborted = f.aborted
          /\ g.event = "throw" /\ g.reply = f.reply
      BY <3>1 DEF Run
    <3>3. Owes(g) /\ g.event \in AgentEvents
      BY <3>2 DEF Owes, AgentEvents
    <3> QED BY <1>1, <1>2, <2>5, <3>1, <3>2, <3>3, WorkLocal
  <2> QED BY <2>1, <2>2, <2>3, <2>4, <2>5
<1>9. CASE AgentYields(r)
  <2>1. PICK e \in AgentEvents : Become(r, [f EXCEPT !.pc = "taking", !.event = e])
    BY <1>1, <1>9 DEF AgentYields
  <2>2. PICK g : g = [f EXCEPT !.pc = "taking", !.event = e]
    OBVIOUS
  <2>3. /\ g.pc = "taking" /\ g.kind = f.kind /\ g.tries = f.tries /\ g.aborted = f.aborted
        /\ g.event = e /\ g.reply = f.reply
    BY <2>2 DEF Run
  <2>4. Owes(g) /\ e # "stop"
    BY <2>3 DEF Owes, AgentEvents
  <2> QED BY <1>1, <1>2, <2>1, <2>2, <2>3, <2>4, WorkLocal
<1>10. CASE PublishEvent(r)
  <2>1. PICK ended, reached, listed, pc :
          /\ Become(r, [f EXCEPT !.ended = ended, !.reached = reached, !.listed = listed, !.pc = pc])
          /\ pc = IF Overruled(f) \/ f.event \in Ending THEN "close" ELSE "agent"
    BY <1>1, <1>10 DEF PublishEvent, Overruled
  <2>2. PICK g : g = [f EXCEPT !.ended = ended, !.reached = reached, !.listed = listed, !.pc = pc]
    OBVIOUS
  <2>3. /\ g.pc = pc /\ g.kind = f.kind /\ g.tries = f.tries /\ g.aborted = f.aborted
        /\ g.event = f.event /\ g.reply = f.reply
    BY <2>2 DEF Run
  <2>4. (Owes(f) => Owes(g)) /\ g.pc \in {"close", "agent"}
    BY <1>1, <1>10, <2>1, <2>3 DEF Owes, PublishEvent, At
  <2> QED BY <1>1, <1>2, <1>4, <2>1, <2>2, <2>3, <2>4, WorkLocal
<1>11. CASE Exhausted(r) /\ Become(r, [f EXCEPT !.pc = "cancelWrite"])
  <2>1. PICK g : g = [f EXCEPT !.pc = "cancelWrite"]
    OBVIOUS
  <2>2. /\ g.pc = "cancelWrite" /\ g.kind = f.kind /\ g.tries = f.tries
        /\ g.aborted = f.aborted /\ g.event = f.event /\ g.reply = f.reply
    BY <2>1 DEF Run
  <2>3. Owes(g)
    BY <2>2 DEF Owes
  <2> QED BY <1>1, <1>2, <1>4, <1>11, <2>1, <2>2, <2>3, WorkLocal
<1>12. CASE \/ Exhausted(r) /\ task.state = "input" /\ Become(r, [f EXCEPT !.ended = TRUE, !.pc = "close"])
            \/ CloseBus(r) \/ PublishOutcome(r) \/ Clear(r)
  <2>1. PICK g : Become(r, g) /\ g \in {[f EXCEPT !.ended = TRUE, !.pc = "close"],
                                        [f EXCEPT !.pc = "clear"],
                                        [f EXCEPT !.ended = TRUE, !.pc = "clear"],
                                        [f EXCEPT !.pc = "done"]}
    BY <1>1, <1>12 DEF CloseBus, PublishOutcome, Clear
  <2>2. /\ g.pc \in {"close", "clear", "done"} /\ g.kind = f.kind /\ g.tries = f.tries
        /\ g.aborted = f.aborted /\ g.event = f.event /\ g.reply = f.reply
    BY <2>1 DEF Run
  <2>3. ~Owes(f) \/ task.state # "working"
    BY <1>1, <1>12 DEF CloseBus, PublishOutcome, Clear, At, Owes, Unary
  <2> QED BY <1>1, <1>2, <1>4, <2>1, <2>2, <2>3, WorkLocal
<1> QED BY <1>1, <1>6, <1>7, <1>8, <1>9, <1>10, <1>11, <1>12 DEF Exhausted

LEMMA TakeEventWork == ASSUME Inv, WorkInv, NEW r \in Runs, TakeEvent(r) PROVE WorkInv'
<1>1. PICK f \in Run : f = run[r]
  BY DEF Inv
<1>2. f.pc = "taking" /\ UNCHANGED <<task, cancel, failures>>
  BY <1>1 DEF TakeEvent, At
<1>3. RunSays(f, task, failures, Excused)
  BY <1>1, SaysOf
<1>4. /\ f.kind \in {"send", "detached", "stream"} /\ (f.event = "stop" => f.aborted)
      /\ f.event \in AgentEvents
  BY <1>2, <1>3 DEF RunSays
<1>5. \/ \E m, as, pc : /\ pc = "agent" \/ (pc = "write" /\ ~Unary(r))
                        /\ Become(r, [f EXCEPT !.made = m, !.arts = as, !.pc = pc])
      \/ \E e \in Ending \cup {"stop"} : (e = "stop" => f.aborted) /\ Become(r, Over(f, e))
  <2>1. PICK e \in AgentEvents \cup {"stop"} :
          /\ e = "stop" => f.aborted
          /\ e \notin {"return", "throw"}
          /\ \/ e = "chunk" /\ Become(r, [f EXCEPT !.made = f.made + 1,
                                                   !.arts = f.arts \cup {<<r, f.made + 1>>},
                                                   !.pc = IF Unary(r) THEN "agent" ELSE "write"])
             \/ e # "chunk" /\ Become(r, Over(f, e))
    <3>1. PICK e : /\ e = CASE f.event \in {"return", "throw"} /\ f.aborted -> "stop"
                            [] f.event = "return" /\ ~f.aborted -> "done"
                            [] f.event = "throw" /\ ~f.aborted -> "error"
                            [] OTHER -> f.event
                   /\ \/ e = "chunk" /\ Become(r, [f EXCEPT !.made = f.made + 1,
                                                   !.arts = f.arts \cup {<<r, f.made + 1>>},
                                                   !.pc = IF Unary(r) THEN "agent" ELSE "write"])
                      \/ e # "chunk" /\ Become(r, Over(f, e))
      BY <1>1 DEF TakeEvent
    <3>2. /\ e \in AgentEvents \cup {"stop"} /\ (e = "stop" => f.aborted)
          /\ e \notin {"return", "throw"}
      BY <1>1, <1>4, <3>1 DEF AgentEvents, Run
    <3> QED BY <3>1, <3>2
  <2>2. CASE e = "chunk"
    BY <2>1, <2>2
  <2>3. CASE e # "chunk"
    BY <2>1, <2>3 DEF AgentEvents, Ending
  <2> QED BY <2>2, <2>3
<1>6. ASSUME NEW m, NEW as, NEW pc, pc = "agent" \/ (pc = "write" /\ ~Unary(r)),
             Become(r, [f EXCEPT !.made = m, !.arts = as, !.pc = pc])
      PROVE  WorkInv'
  <2>1. PICK g : g = [f EXCEPT !.made = m, !.arts = as, !.pc = pc]
    OBVIOUS
  <2>2. /\ g.pc = pc /\ g.kind = f.kind /\ g.tries = f.tries
        /\ g.aborted = f.aborted /\ g.event = f.event /\ g.reply = f.reply
    BY <2>1 DEF Run
  <2>3. /\ Owes(g) /\ g.pc \in {"agent", "write"}
        /\ g.pc = "write" => g.kind = "stream"
    BY <1>1, <1>4, <1>6, <2>2 DEF Owes, Unary
  <2> QED BY <1>1, <1>2, <1>4, <1>6, <2>1, <2>2, <2>3, WorkLocal
<1>7. ASSUME NEW e \in Ending \cup {"stop"}, e = "stop" => f.aborted, Become(r, Over(f, e))
      PROVE  WorkInv'
  <2>1. PICK g : g = Over(f, e)
    OBVIOUS
  <2>2. /\ g.kind = f.kind /\ g.tries = f.tries /\ g.aborted = f.aborted /\ g.event = e
        /\ g.reply = f.reply /\ g.pc \in {"outcome", "exhausted", "write"}
        /\ g.pc = "write" => f.kind = "stream"
        /\ g.pc = "outcome" => f.kind # "stream"
    BY <2>1 DEF Over, Run
  <2>3. Owes(g)
    BY <2>2 DEF Owes
  <2> QED BY <1>1, <1>2, <1>7, <2>1, <2>2, <2>3, WorkLocal
<1> QED BY <1>5, <1>6, <1>7

(* A step of a run that writes the record. *)
LEMMA WorkWrites ==
  ASSUME MaxStoreFailures \in {0, 1}, Inv, WorkInv, NEW r \in Runs, NEW f \in Run, f = run[r],
         f.pc \notin {"idle", "done"}, UNCHANGED cancel,
         NEW u \in Update, u.state # "none", NEW res \in Results, Persist(u, res),
         NEW g, Become(r, g), g.kind = f.kind, g.event = f.event, g.aborted = f.aborted,
         g.pc \in {"publish", "retry", "fail", "close", "done", "clear", "outcome"},
         g.reply = f.reply \/ g.pc = "done",
         g.pc = "retry" => f.event \in Ending,
         g.pc = "outcome" => f.pc = "outcome",
         g.pc \in {"retry", "fail"} => res = "lost",
         g.tries = f.tries \/ (res = "lost" /\ g.tries = f.tries + 1),
         task'.state = "working" => Excused' \/ Owes(g)
  PROVE  WorkInv'
<1>1. /\ RunSays(f, task, failures, Excused) /\ failures \in Nat /\ f.tries \in 0..3
      /\ task.state # "none"
  BY SaysOf DEF Run, RunSays
<1>2. /\ Ended(task) => Ended(task')
      /\ task'.state # "none" /\ (task'.kept \/ Ended(task'))
      /\ failures' \in Nat /\ failures <= failures' /\ failures' <= MaxStoreFailures
      /\ res = "lost" => Ended(task') \/ (failures = 0 /\ failures' = 1)
  BY <1>1, PersistOnce
<1>3. Excused => Excused'
  BY <1>2, ExcuseStays
<1>4. g.pc \in {"retry", "fail"} \/ g.tries > 0 => Ended(task') \/ failures' > 0
  BY <1>1, <1>2 DEF RunSays
<1>5. g.tries > 1 => Ended(task')
  BY <1>1, <1>2 DEF RunSays
<1>6. RunSays(g, task', failures', Excused')
  BY <1>1, <1>2, <1>3, <1>4, <1>5 DEF RunSays
<1> QED BY <1>2, <1>6, WorkMoves

LEMMA WriteEventWork ==
  ASSUME MaxStoreFailures \in {0, 1}, Inv, WorkInv, NEW r \in Runs, WriteEvent(r)
  PROVE  WorkInv'
<1>1. PICK f \in Run : f = run[r]
  BY DEF Inv
<1>2. f.pc = "write" /\ UNCHANGED cancel
  BY <1>1 DEF WriteEvent, At
<1>3. f.kind = "stream" /\ task.state # "none"
  BY <1>1, <1>2, SaysOf DEF RunSays
<1>4. PICK res \in Results :
        /\ Persist(EventUpdate(f), res)
        /\ Become(r, IF res = "lost"
                       THEN [f EXCEPT !.failed = TRUE, !.listed = FALSE,
                                      !.pc = IF f.event \in Ending THEN "retry" ELSE "fail"]
                       ELSE [f EXCEPT !.seen = res, !.pc = "publish"])
  BY <1>1 DEF WriteEvent
<1>5. /\ EventUpdate(f) \in Update /\ EventUpdate(f).state # "none"
      /\ f.event \in Ending => EventUpdate(f).state \notin {None, "working"}
  BY <1>1, EventUpdateTyped, NoneAssumption
     DEF EventUpdate, OnlyArtifacts, Status, StateOf, States, Terminal, Ending
<1>6. CASE res = "lost"
  <2>1. PICK p : /\ (p = "retry" /\ f.event \in Ending) \/ p = "fail"
                 /\ Become(r, [f EXCEPT !.failed = TRUE, !.listed = FALSE, !.pc = p])
    BY <1>4, <1>6
  <2>2. PICK g : g = [f EXCEPT !.failed = TRUE, !.listed = FALSE, !.pc = p]
    OBVIOUS
  <2>3. /\ g.pc = p /\ g.kind = f.kind /\ g.event = f.event /\ g.aborted = f.aborted
        /\ g.reply = f.reply /\ g.tries = f.tries
    BY <2>2 DEF Run
  <2>4. Owes(g)
    BY <2>1, <2>3 DEF Owes
  <2> QED BY <1>1, <1>2, <1>4, <1>5, <1>6, <2>1, <2>2, <2>3, <2>4, WorkWrites
<1>7. CASE res # "lost"
  <2>1. PICK g : g = [f EXCEPT !.seen = res, !.pc = "publish"]
    OBVIOUS
  <2>2. /\ g.pc = "publish" /\ g.kind = f.kind /\ g.event = f.event /\ g.aborted = f.aborted
        /\ g.reply = f.reply /\ g.tries = f.tries /\ g.seen = res
    BY <2>1 DEF Run
  <2>3. /\ res = task'.state
        /\ Ended(task') \/ (task'.state = IF EventUpdate(f).state = None
                                            THEN task.state ELSE EventUpdate(f).state)
    BY <1>3, <1>4, <1>5, <1>7, PersistOnce
  <2>4. task'.state = "working" => Owes(g)
    BY <1>3, <1>5, <2>2, <2>3 DEF Owes, Overruled, Ended, Terminal
  <2> QED BY <1>1, <1>2, <1>4, <1>5, <1>7, <2>1, <2>2, <2>4, WorkWrites
<1> QED BY <1>6, <1>7

(* A last status of a stream; only FAILED is given up when its write fails. *)
LEMMA LastStatusWork ==
  ASSUME MaxStoreFailures \in {0, 1}, Inv, WorkInv, NEW r \in Runs, NEW f \in Run, f = run[r],
         f.pc \in {"cancelWrite", "retry", "fail"},
         NEW state \in States \ {"none", "working"},
         NEW ok \in Run, NEW lost \in Run, LastStatus(r, state, ok, lost),
         \A g \in {ok, lost} : /\ g.kind = f.kind /\ g.event = f.event /\ g.tries = f.tries
                               /\ g.aborted = f.aborted /\ g.reply = f.reply,
         lost.pc = "fail" \/ (lost.pc = "close" /\ f.pc = "fail")
  PROVE  WorkInv'
<1>1. /\ Status(state, run[r].arts) \in Update
      /\ Status(state, run[r].arts).state = state /\ state \notin {"none", None, "working"}
  BY NoneAssumption DEF Status, Update, Run
<1>2. PICK res \in Results :
        /\ Persist(Status(state, run[r].arts), res)
        /\ IF res = "lost" THEN Become(r, lost)
           ELSE Become(r, [ok EXCEPT !.ended = TRUE, !.pc = "close",
                                     !.reached = @ \/ res \in Terminal])
  BY DEF LastStatus
<1>3. UNCHANGED cancel
  BY DEF LastStatus
<1>4. RunSays(f, task, failures, Excused) /\ task.state # "none" /\ failures \in Nat
  BY SaysOf DEF RunSays
<1>5. /\ res = "lost" => UNCHANGED task /\ (Ended(task) \/ (failures = 0 /\ failures' = 1))
      /\ res # "lost" => Ended(task') \/ task'.state = state
  BY <1>1, <1>2, <1>4, PersistOnce
<1>6. CASE res = "lost"
  <2>1. lost.pc = "close" => Ended(task')
    BY <1>4, <1>5, <1>6 DEF RunSays
  <2>2. task'.state = "working" => Owes(lost)
    BY <2>1 DEF Owes, Ended, Terminal
  <2> QED BY <1>1, <1>2, <1>3, <1>6, <2>2, WorkWrites
<1>7. CASE res # "lost"
  <2>1. PICK b : Become(r, [ok EXCEPT !.ended = TRUE, !.pc = "close", !.reached = b])
    BY <1>2, <1>7
  <2>2. PICK g : g = [ok EXCEPT !.ended = TRUE, !.pc = "close", !.reached = b]
    OBVIOUS
  <2>3. /\ g.pc = "close" /\ g.kind = f.kind /\ g.event = f.event /\ g.tries = f.tries
        /\ g.aborted = f.aborted /\ g.reply = f.reply
    BY <2>2 DEF Run
  <2>4. task'.state # "working"
    BY <1>1, <1>5, <1>7 DEF Ended, Terminal
  <2> QED BY <1>1, <1>2, <1>3, <2>1, <2>2, <2>3, <2>4, WorkWrites
<1> QED BY <1>6, <1>7

LEMMA LastWriteWork ==
  ASSUME MaxStoreFailures \in {0, 1}, Inv, WorkInv, NEW r \in Runs,
         CancelOutcome(r) \/ RetryWrite(r) \/ FailOutcome(r)
  PROVE  WorkInv'
<1>1. PICK f \in Run : f = run[r]
  BY DEF Inv
<1>2. ASSUME NEW g, \/ g = f \/ g = [f EXCEPT !.failed = FALSE]
                    \/ g = [f EXCEPT !.failed = TRUE, !.pc = "fail"]
                    \/ g = [f EXCEPT !.pc = "fail"] \/ g = [f EXCEPT !.pc = "close"]
      PROVE  /\ g \in Run
             /\ g.kind = f.kind /\ g.event = f.event /\ g.tries = f.tries
             /\ g.aborted = f.aborted /\ g.reply = f.reply
  BY <1>2 DEF Run, RunPCs
<1>3. CASE CancelOutcome(r)
  <2>1. /\ LastStatus(r, "canceled", f, [f EXCEPT !.failed = TRUE, !.pc = "fail"])
        /\ f.pc = "cancelWrite" /\ "canceled" \in States \ {"none", "working"}
    BY <1>1, <1>3 DEF CancelOutcome, At, States, Terminal
  <2>2. PICK lost : lost = [f EXCEPT !.failed = TRUE, !.pc = "fail"]
    OBVIOUS
  <2>3. /\ lost.pc = "fail" /\ lost \in Run
        /\ lost.kind = f.kind /\ lost.event = f.event /\ lost.tries = f.tries
        /\ lost.aborted = f.aborted /\ lost.reply = f.reply
    BY <1>2, <2>2 DEF Run
  <2>4. LastStatus(r, "canceled", f, lost)
    BY <2>1, <2>2
  <2> QED BY <1>1, <2>1, <2>3, <2>4, LastStatusWork
<1>4. CASE RetryWrite(r)
  <2>1. LastStatus(r, StateOf(f.event), f, [f EXCEPT !.pc = "fail"]) /\ f.pc = "retry"
    BY <1>1, <1>4 DEF RetryWrite, At
  <2>2. StateOf(f.event) \in States \ {"none", "working"}
    BY <1>1, <2>1, SaysOf DEF RunSays, StateOf, States, Terminal, Ending
  <2>3. PICK lost : lost = [f EXCEPT !.pc = "fail"]
    OBVIOUS
  <2>4. /\ lost.pc = "fail" /\ lost \in Run
        /\ lost.kind = f.kind /\ lost.event = f.event /\ lost.tries = f.tries
        /\ lost.aborted = f.aborted /\ lost.reply = f.reply
    BY <1>2, <2>3 DEF Run
  <2>5. LastStatus(r, StateOf(f.event), f, lost)
    BY <2>1, <2>3
  <2> QED BY <1>1, <2>1, <2>2, <2>4, <2>5, LastStatusWork
<1>5. CASE FailOutcome(r)
  <2>1. /\ LastStatus(r, "failed", [f EXCEPT !.failed = FALSE], [f EXCEPT !.pc = "close"])
        /\ f.pc = "fail" /\ "failed" \in States \ {"none", "working"}
    BY <1>1, <1>5 DEF FailOutcome, At, States, Terminal
  <2>2. PICK ok : ok = [f EXCEPT !.failed = FALSE]
    OBVIOUS
  <2>3. PICK lost : lost = [f EXCEPT !.pc = "close"]
    OBVIOUS
  <2>4. /\ lost.pc = "close" /\ lost \in Run
        /\ lost.kind = f.kind /\ lost.event = f.event /\ lost.tries = f.tries
        /\ lost.aborted = f.aborted /\ lost.reply = f.reply
    BY <1>2, <2>3 DEF Run
  <2>5. /\ ok \in Run
        /\ ok.kind = f.kind /\ ok.event = f.event /\ ok.tries = f.tries
        /\ ok.aborted = f.aborted /\ ok.reply = f.reply
    BY <1>2, <2>2
  <2>6. LastStatus(r, "failed", ok, lost)
    BY <2>1, <2>2, <2>3
  <2> QED BY <1>1, <2>1, <2>4, <2>5, <2>6, LastStatusWork
<1> QED BY <1>1, <1>3, <1>4, <1>5

(* The outcome of a unary run.  An aborted one writes "working" back, and    *)
(* leaves the rest to the cancel that stopped it.                            *)
LEMMA WriteOutcomeWork ==
  ASSUME MaxStoreFailures \in {0, 1}, Inv, WorkInv, NEW r \in Runs, WriteOutcome(r)
  PROVE  WorkInv'
<1>1. PICK f \in Run : f = run[r]
  BY DEF Inv
<1>2. f.pc = "outcome" /\ UNCHANGED cancel
  BY <1>1 DEF WriteOutcome, At
<1>3. /\ RunSays(f, task, failures, Excused) /\ task.state # "none" /\ failures \in Nat
      /\ f.event \in Ending \cup {"stop"} /\ (f.event = "stop" => Excused)
      /\ f.tries \in 0..3
  BY <1>1, <1>2, SaysOf DEF RunSays, Run
<1>4. PICK res \in Results :
        /\ Persist(OutcomeUpdate(f), res)
        /\ \/ /\ f.kind = "send"
              /\ \E a : /\ Become(r, [f EXCEPT !.pc = "done", !.reply = a])
                        /\ res = "lost" => a = "error"
           \/ f.kind = "detached" /\ res # "lost" /\ Become(r, [f EXCEPT !.seen = res, !.pc = "publish"])
           \/ /\ f.kind = "detached" /\ res = "lost" /\ f.tries < 3
              /\ Become(r, [f EXCEPT !.tries = @ + 1])
           \/ /\ f.kind = "detached" /\ res = "lost" /\ ~(f.tries < 3)
              /\ Become(r, [f EXCEPT !.failed = TRUE, !.pc = "clear"])
  <2>1. PICK res \in Results :
          /\ Persist(OutcomeUpdate(f), res)
          /\ \/ /\ f.kind = "send"
                /\ Become(r, [f EXCEPT !.pc = "done",
                                       !.reply = IF res = "lost" THEN "error" ELSE res])
             \/ f.kind = "detached" /\ res # "lost" /\ Become(r, [f EXCEPT !.seen = res, !.pc = "publish"])
             \/ /\ f.kind = "detached" /\ res = "lost"
                /\ Become(r, IF f.tries < 3 THEN [f EXCEPT !.tries = @ + 1]
                               ELSE [f EXCEPT !.failed = TRUE, !.pc = "clear"])
    BY <1>1 DEF WriteOutcome
  <2> QED BY <2>1
<1>5. /\ OutcomeUpdate(f) \in Update /\ OutcomeUpdate(f).state \notin {"none", None}
      /\ OutcomeUpdate(f).state = "working" => Excused
  <2>1. \/ OutcomeUpdate(f) = Status("failed", {})
        \/ OutcomeUpdate(f) = Status("working", f.snap) /\ f.event = "stop"
        \/ OutcomeUpdate(f) = Status(StateOf(f.event), f.arts) /\ f.event \in Ending
    BY <1>3 DEF OutcomeUpdate
  <2> QED BY <1>1, <1>3, <2>1, OutcomeUpdateTyped, NoneAssumption
          DEF Status, StateOf, Ending, States, Terminal
<1>6. /\ Ended(task) => Ended(task')
      /\ res = "lost" => UNCHANGED task /\ (Ended(task) \/ (failures = 0 /\ failures' = 1))
      /\ res # "lost" => Ended(task') \/ task'.state = OutcomeUpdate(f).state
  BY <1>3, <1>4, <1>5, PersistOnce
<1>7. Excused => Excused'
  BY <1>1, <1>2, <1>4, <1>6, ExcuseStays
<1>8. res # "lost" /\ task'.state = "working" => Excused'
  BY <1>5, <1>6, <1>7 DEF Ended, Terminal
<1>9. ASSUME NEW a, f.kind = "send", res = "lost" => a = "error",
             Become(r, [f EXCEPT !.pc = "done", !.reply = a])
      PROVE  WorkInv'
  <2>1. PICK g : g = [f EXCEPT !.pc = "done", !.reply = a]
    OBVIOUS
  <2>2. /\ g.pc = "done" /\ g.kind = f.kind /\ g.event = f.event /\ g.tries = f.tries
        /\ g.aborted = f.aborted /\ g.reply = a
    BY <2>1 DEF Run
  <2>3. res = "lost" => Refused'
    <3>1. run'[r] = g
      BY <1>9, <2>1 DEF Become, Inv
    <3> QED BY <1>9, <2>2, <3>1 DEF Refused
  <2>4. task'.state = "working" => Excused'
    BY <1>8, <2>3 DEF Excused
  <2> QED BY <1>1, <1>2, <1>4, <1>5, <1>9, <2>1, <2>2, <2>4, WorkWrites
<1>10. CASE f.kind = "detached" /\ res # "lost" /\ Become(r, [f EXCEPT !.seen = res, !.pc = "publish"])
  <2>1. PICK g : g = [f EXCEPT !.seen = res, !.pc = "publish"]
    OBVIOUS
  <2>2. /\ g.pc = "publish" /\ g.kind = f.kind /\ g.event = f.event /\ g.tries = f.tries
        /\ g.aborted = f.aborted /\ g.reply = f.reply
    BY <2>1 DEF Run
  <2> QED BY <1>1, <1>2, <1>4, <1>5, <1>8, <1>10, <2>1, <2>2, WorkWrites
<1>11. CASE res = "lost" /\ f.tries < 3 /\ Become(r, [f EXCEPT !.tries = @ + 1])
  <2>1. PICK g : g = [f EXCEPT !.tries = @ + 1]
    OBVIOUS
  <2>2. /\ g.pc = "outcome" /\ g.kind = f.kind /\ g.event = f.event /\ g.tries = f.tries + 1
        /\ g.aborted = f.aborted /\ g.reply = f.reply
    BY <1>2, <2>1 DEF Run
  <2>3. Owes(g)
    BY <2>2 DEF Owes
  <2> QED BY <1>1, <1>2, <1>4, <1>5, <1>11, <2>1, <2>2, <2>3, WorkWrites
<1>12. CASE res = "lost" /\ ~(f.tries < 3) /\ Become(r, [f EXCEPT !.failed = TRUE, !.pc = "clear"])
  <2>1. PICK g : g = [f EXCEPT !.failed = TRUE, !.pc = "clear"]
    OBVIOUS
  <2>2. /\ g.pc = "clear" /\ g.kind = f.kind /\ g.event = f.event /\ g.tries = f.tries
        /\ g.aborted = f.aborted /\ g.reply = f.reply
    BY <2>1 DEF Run
  <2>3. task'.state # "working"
    BY <1>3, <1>6, <1>12 DEF RunSays, Ended, Terminal
  <2> QED BY <1>1, <1>2, <1>4, <1>5, <1>12, <2>1, <2>2, <2>3, WorkWrites
<1> QED BY <1>4, <1>9, <1>10, <1>11, <1>12

(* What is not a step of a run. *)
LEMMA AsideWork ==
  ASSUME Inv, WorkInv, UNCHANGED <<run, failures>>,
         task'.state = task.state, task'.kept => task.kept,
         task'.kept \/ Ended(task) \/ task.state = "none",
         Excused => Excused',
         \A c \in Cancels : /\ cancel'[c].reply = "error" => cancel'[c].pc = "done"
                            /\ cancel'[c].pc # "idle" => task'.state # "none"
  PROVE  WorkInv'
<1>1. \A r \in Runs : RunSays(run'[r], task', failures', Excused')
  BY DEF WorkInv, RunSays, Ended
<1>2. task'.kept /\ task'.state = "working" => Excused' \/ \E r \in Runs : Owes(run'[r])
  BY DEF WorkInv
<1> QED BY <1>1, <1>2 DEF WorkInv, Ended

LEMMA CancelWork ==
  ASSUME MaxStoreFailures \in {0, 1}, Inv, WorkInv, NEW c \in Cancels,
         CancelRead(c) \/ CancelStep(c)
  PROVE  WorkInv'
<1>1. cancel \in [Cancels -> Cancel] /\ cancel[c] \in Cancel
  BY DEF Inv
<1>2. CASE CancelRead(c)
  <2>1. PICK k : /\ cancel' = [cancel EXCEPT ![c] = k]
                 /\ k \in {[cancel[c] EXCEPT !.pc = "done", !.reply = "error"],
                           [cancel[c] EXCEPT !.pc = "done", !.reply = task.state],
                           [cancel[c] EXCEPT !.pc = "abort", !.snap = task.arts]}
    BY <1>2 DEF CancelRead
  <2>2. cancel[c].pc = "idle" /\ UNCHANGED <<task, run, failures>>
    BY <1>2 DEF CancelRead
  <2>3. k.pc = "done" \/ k.reply = cancel[c].reply
    BY <1>1, <2>1 DEF Cancel
  <2>4. \A d \in Cancels : cancel'[d] = IF d = c THEN k ELSE cancel[d]
    BY <1>1, <2>1
  <2>5. \A d \in Cancels : /\ cancel'[d].reply = "error" => cancel'[d].pc = "done"
                           /\ cancel'[d].pc # "idle" => task'.state # "none"
    BY <1>2, <2>2, <2>3, <2>4 DEF WorkInv, CancelRead
  <2>6. Excused => Excused'
    BY <2>2, <2>4 DEF Excused, Refused, Stopping, WorkInv
  <2> QED BY <2>2, <2>5, <2>6, AsideWork DEF WorkInv
<1>3. CASE Abort(c)
  <2>1. /\ UNCHANGED <<task, failures>> /\ cancel[c].pc = "abort"
        /\ cancel' = [cancel EXCEPT ![c].pc = "write"]
        /\ \A r \in Runs : run'[r] = IF run[r].listed
                                       THEN [run[r] EXCEPT !.aborted = TRUE, !.listed = FALSE]
                                       ELSE run[r]
    BY <1>3 DEF Abort
  <2>2. Excused'
    <3>1. cancel'[c].pc = "write"
      BY <1>1, <2>1 DEF Cancel
    <3> QED BY <3>1 DEF Excused, Stopping
  <2>3. \A d \in Cancels : /\ cancel'[d].reply = "error" => cancel'[d].pc = "done"
                           /\ cancel'[d].pc # "idle" => task'.state # "none"
    BY <1>1, <2>1 DEF WorkInv, Cancel
  <2>4. ASSUME NEW r \in Runs PROVE RunSays(run'[r], task', failures', Excused')
    <3>1. PICK f \in Run : f = run[r]
      BY DEF Inv
    <3>2. RunSays(f, task, failures, Excused)
      BY <3>1, SaysOf
    <3>3. CASE f.listed
      <4>1. PICK g : g = [f EXCEPT !.aborted = TRUE, !.listed = FALSE] /\ g = run'[r]
        BY <2>1, <3>1, <3>3
      <4>2. /\ g.pc = f.pc /\ g.kind = f.kind /\ g.event = f.event /\ g.tries = f.tries
            /\ g.reply = f.reply /\ g.aborted = TRUE
        BY <4>1 DEF Run
      <4> QED BY <2>1, <2>2, <3>2, <3>3, <4>1, <4>2 DEF RunSays
    <3>4. CASE ~f.listed
      BY <2>1, <2>2, <3>1, <3>2, <3>4 DEF RunSays
    <3> QED BY <3>3, <3>4
  <2> QED BY <2>1, <2>2, <2>3, <2>4 DEF WorkInv
<1>4. CASE CancelWrite(c)
  <2>1. PICK res \in Results :
          /\ Persist(Status("canceled", cancel[c].snap), res)
          /\ cancel' = [cancel EXCEPT ![c] =
               [@ EXCEPT !.pc = "done", !.reply = IF res = "lost" THEN "error" ELSE res]]
    BY <1>4 DEF CancelWrite
  <2>2. UNCHANGED run /\ cancel[c].pc = "write"
    BY <1>4 DEF CancelWrite
  <2>3. PICK k : k = [cancel[c] EXCEPT !.pc = "done", !.reply = IF res = "lost" THEN "error" ELSE res]
    OBVIOUS
  <2>4. k.pc = "done" /\ (res = "lost" => k.reply = "error")
    BY <1>1, <2>3 DEF Cancel
  <2>5. \A d \in Cancels : cancel'[d] = IF d = c THEN k ELSE cancel[d]
    BY <1>1, <2>1, <2>3
  <2>6. task.state # "none"
    BY <2>2 DEF WorkInv
  <2>7. /\ Status("canceled", cancel[c].snap) \in Update
        /\ Status("canceled", cancel[c].snap).state = "canceled" /\ "canceled" # None
    BY <1>1, NoneAssumption DEF Status, Update, Cancel, States, Terminal
  <2>8. /\ Ended(task) => Ended(task')
        /\ task'.state # "none" /\ (task'.kept \/ Ended(task'))
        /\ failures' \in Nat /\ failures <= failures' /\ failures' <= MaxStoreFailures
        /\ res = "lost" => UNCHANGED task
        /\ res # "lost" => Ended(task') \/ task'.state = "canceled"
    BY <2>1, <2>6, <2>7, PersistOnce
  <2>9. Excused'
    <3>1. CASE res = "lost"
      BY <2>4, <2>5, <3>1 DEF Excused, Refused
    <3>2. CASE res # "lost"
      BY <2>8, <3>2 DEF Excused, Ended, Terminal
    <3> QED BY <3>1, <3>2
  <2>10. ASSUME NEW r \in Runs PROVE RunSays(run'[r], task', failures', Excused')
    <3>1. RunSays(run[r], task, failures, Excused) /\ failures \in Nat
      BY SaysOf
    <3> QED BY <2>2, <2>8, <2>9, <3>1 DEF RunSays
  <2>11. \A d \in Cancels : /\ cancel'[d].reply = "error" => cancel'[d].pc = "done"
                            /\ cancel'[d].pc # "idle" => task'.state # "none"
    BY <2>4, <2>5, <2>8 DEF WorkInv
  <2> QED BY <2>8, <2>9, <2>10, <2>11 DEF WorkInv
<1> QED BY <1>2, <1>3, <1>4 DEF CancelStep

LEMMA NextWork ==
  ASSUME MaxStoreFailures \in {0, 1}, Inv, WorkInv, [Next]_vars PROVE WorkInv'
<1>1. ASSUME NEW r \in Runs, Start(r) \/ RunStep(r) PROVE WorkInv'
  BY <1>1, StartWork, AcceptSendWork, QuietWork, TakeEventWork, WriteEventWork,
     LastWriteWork, WriteOutcomeWork DEF RunStep
<1>2. CASE UNCHANGED <<task, run, cancel, failures>>
  <2>1. Excused => Excused'
    BY <1>2 DEF Excused, Refused, Stopping
  <2> QED BY <1>2, <2>1, AsideWork DEF WorkInv
<1>3. ASSUME NEW w \in Watchers, Resubscribe(w) \/ WatchStep(w) PROVE WorkInv'
  BY <1>2, <1>3 DEF WatchStep, Resubscribe, Attach, ReadAgain, SubIdle
<1>4. ASSUME NEW s \in Subs, SubStep(s) PROVE WorkInv'
  BY <1>2, <1>4 DEF SubStep, EndOfEvents, LastRead, SubIdle
<1>5. ASSUME NEW c \in Cancels, CancelRead(c) \/ CancelStep(c) PROVE WorkInv'
  BY <1>5, CancelWork
<1>6. CASE UNCHANGED vars
  BY <1>2, <1>6 DEF vars
<1>7. CASE Evict
  <2>1. task'.state = task.state /\ Ended(task) /\ task.kept /\ UNCHANGED <<run, cancel, failures>>
    BY <1>7 DEF Evict, Inv, Task
  <2>2. Excused => Excused'
    BY <2>1 DEF Excused, Refused, Stopping, Ended
  <2> QED BY <2>1, <2>2, AsideWork DEF WorkInv
<1> QED BY <1>1, <1>3, <1>4, <1>5, <1>6, <1>7 DEF Next

(* NotStranded: while the store fails at most once, a task nobody works on  *)
(* any more, and no cancel is about to end, does not say "working", unless   *)
(* a sender or a canceler was given an error; whatever runs, cancels and     *)
(* eviction race for the record.                                            *)
THEOREM NobodyIsStranded == ASSUME MaxStoreFailures \in {0, 1} PROVE Spec => []NotStranded
<1>1. ASSUME Init PROVE WorkInv
  <2>1. ASSUME NEW r \in Runs PROVE RunSays(run[r], task, failures, Excused)
    BY <1>1, NoneAssumption DEF Init, RunSays
  <2>2. \A c \in Cancels : cancel[c].reply # "error" /\ cancel[c].pc = "idle"
    BY <1>1, NoneAssumption DEF Init
  <2>3. failures = 0 /\ 0 <= MaxStoreFailures /\ task.state = "none" /\ ~task.kept
    BY <1>1, CallAssumption DEF Init, NoTask
  <2> QED BY <2>1, <2>2, <2>3 DEF WorkInv
<1>2. Inv /\ WorkInv /\ [Next]_vars => WorkInv'
  BY NextWork
<1>3. WorkInv => NotStranded
  BY DEF WorkInv, NotStranded, Quiet, InFlight, Owes, Excused, Stopping, Ended, Terminal
<1> QED BY <1>1, <1>2, <1>3, Invariance, PTL DEF Spec
=============================================================================
