---------------------------- MODULE Exchange_proofs ----------------------------
(***************************************************************************)
(* Three results about clients and a server, for any servers, clients, requests *)
(* and bounds.  An inline webhook is told of the end of the execution: the proof *)
(* follows who holds a task between making it and starting its execution, and    *)
(* where the task's webhook is until it ends.  What the server executes is what  *)
(* the client asked for: the routes give back the parameters that the client     *)
(* wrote, and the validators what the parameters were made of.  The push          *)
(* notification methods are one registry: step by step, with the ids of a task's  *)
(* webhooks distinct.                                                       *)
(***************************************************************************)
EXTENDS Exchange, TLAPS, SequenceTheorems, WellFoundedInduction

IsSeq(s) == \E S : s \in Seq(S)

CallFields == {"pc", "asked", "by", "sent", "served", "task", "noted", "outcome", "spoke",
               "reply", "result", "current"}
TaskFields == {"state", "running", "shared", "artifacts", "webhook", "ended"}

Shaped ==
  /\ DOMAIN call = Clients
  /\ \A c \in Clients : DOMAIN call[c] = CallFields
  /\ IsSeq(tasks) /\ Len(tasks) <= Len(TaskNames)
  /\ \A n \in DOMAIN tasks : DOMAIN tasks[n] = TaskFields
  /\ DOMAIN configs = {TaskNames[i] : i \in DOMAIN TaskNames}
  /\ \A name \in DOMAIN configs : IsSeq(configs[name])

(* A send that has made its task and not started the execution.              *)
Preparing(c) == call[c].pc \in {"created", "registered"}

(* It has a task of its own, which nobody executes and which has not ended.    *)
TasksHeld ==
  /\ \A c \in Clients : Preparing(c) =>
       /\ call[c].task \in DOMAIN tasks
       /\ tasks[call[c].task].running = FALSE /\ tasks[call[c].task].ended = FALSE
  /\ \A c, d \in Clients :
       Preparing(c) /\ Preparing(d) /\ call[c].task = call[d].task => c = d

(* Until the end, the webhook is registered or was taken away.               *)
Listening ==
  \A n \in DOMAIN tasks :
    (tasks[n].webhook # Absent /\ tasks[n].ended # TRUE) =>
      \/ tasks[n].webhook \in Webhooks(TaskNames[n])
      \/ <<TaskNames[n], tasks[n].webhook>> \in replaced

HearInv == Shaped /\ TasksHeld /\ Listening /\ InlineConfigHears

-----------------------------------------------------------------------------
(* What most steps leave as it is.                                           *)
CallsQuiet ==
  /\ DOMAIN call' = Clients
  /\ \A c \in Clients :
       /\ DOMAIN call'[c] = CallFields
       /\ Preparing(c)' => Preparing(c) /\ call'[c].task = call[c].task

TasksKept ==
  /\ IsSeq(tasks') /\ Len(tasks') = Len(tasks)
  /\ \A n \in DOMAIN tasks :
       /\ DOMAIN tasks'[n] = TaskFields
       /\ tasks'[n].webhook = tasks[n].webhook /\ tasks'[n].ended = tasks[n].ended
       /\ \/ tasks'[n].running = FALSE
          \/ tasks'[n].running = tasks[n].running
          \/ \A c \in Clients : Preparing(c)' => call'[c].task # n

WebhooksKept ==
  /\ DOMAIN configs' = DOMAIN configs
  /\ \A name \in DOMAIN configs :
       /\ IsSeq(configs'[name])
       /\ \A url \in Webhooks(name) : url \in Webhooks(name)' \/ <<name, url>> \in replaced'
  /\ replaced \subseteq replaced' /\ notified \subseteq notified'

(* The domain of a sequence, and the names of the tasks that exist.           *)
LEMMA SeqDomain ==
  ASSUME NEW s, IsSeq(s)
  PROVE  Len(s) \in Nat /\ DOMAIN s = 1..Len(s)
BY DEF IsSeq

LEMMA SeqExcept ==
  ASSUME NEW s, IsSeq(s), NEW n, NEW t
  PROVE  /\ IsSeq([s EXCEPT ![n] = t]) /\ Len([s EXCEPT ![n] = t]) = Len(s)
         /\ DOMAIN [s EXCEPT ![n] = t] = DOMAIN s
<1>1. PICK S : s \in Seq(S)
  BY DEF IsSeq
<1>2. PICK u : u = [i \in 1..Len(s) |-> IF i = n THEN t ELSE s[i]]
  OBVIOUS
<1>3. [s EXCEPT ![n] = t] = u
  BY <1>1, <1>2
<1>4. Len(s) \in Nat /\ \A i \in 1..Len(s) : s[i] \in S
  BY <1>1
<1>5. u \in [1..Len(s) -> S \cup {t}]
  BY <1>2, <1>4
<1>6. u \in Seq(S \cup {t}) /\ Len(u) = Len(s)
  BY <1>2, <1>4, <1>5
<1>7. DOMAIN s = DOMAIN u
  BY <1>1, <1>2
<1> QED
  BY <1>3, <1>6, <1>7 DEF IsSeq

LEMMA NamesOfTasks ==
  ASSUME Shaped
  PROVE  \A n \in DOMAIN tasks : TaskNames[n] \in DOMAIN configs
<1>1. Len(TaskNames) \in Nat /\ DOMAIN TaskNames = 1..Len(TaskNames)
  BY NamesAssumption DEF Listed
<1>2. DOMAIN tasks = 1..Len(tasks) /\ Len(tasks) \in Nat
  BY SeqDomain DEF Shaped
<1> QED
  BY <1>1, <1>2 DEF Shaped

(* A step that makes nobody a holder, ends no task and loses no webhook keeps   *)
(* the invariant.                                                          *)
LEMMA QuietStep ==
  ASSUME HearInv, CallsQuiet, TasksKept, WebhooksKept
  PROVE  HearInv'
<1>1. DOMAIN tasks' = DOMAIN tasks
  <2>1. IsSeq(tasks) /\ IsSeq(tasks')
    BY DEF HearInv, Shaped, TasksKept
  <2>2. DOMAIN tasks = 1..Len(tasks) /\ DOMAIN tasks' = 1..Len(tasks')
    BY <2>1, SeqDomain
  <2> QED
    BY <2>2 DEF TasksKept
<1>2. Shaped'
  BY <1>1 DEF HearInv, Shaped, CallsQuiet, TasksKept, WebhooksKept
<1>3. TasksHeld'
  <2>1. ASSUME NEW c \in Clients, Preparing(c)'
        PROVE  /\ call'[c].task \in DOMAIN tasks'
               /\ tasks'[call'[c].task].running = FALSE /\ tasks'[call'[c].task].ended = FALSE
    <3>1. Preparing(c) /\ call'[c].task = call[c].task
      BY <2>1 DEF CallsQuiet
    <3>2. PICK n : n = call[c].task
      OBVIOUS
    <3>3. n \in DOMAIN tasks /\ tasks[n].running = FALSE /\ tasks[n].ended = FALSE
      BY <3>1, <3>2 DEF HearInv, TasksHeld
    <3>4. tasks'[n].ended = FALSE
      BY <3>3 DEF TasksKept
    <3>5. tasks'[n].running = FALSE
      BY <2>1, <3>1, <3>2, <3>3 DEF TasksKept
    <3> QED
      BY <1>1, <3>1, <3>2, <3>3, <3>4, <3>5
  <2>2. ASSUME NEW c \in Clients, NEW d \in Clients, Preparing(c)', Preparing(d)',
               call'[c].task = call'[d].task
        PROVE  c = d
    BY <2>2 DEF CallsQuiet, HearInv, TasksHeld
  <2> QED
    BY <2>1, <2>2 DEF TasksHeld
<1>4. Listening'
  <2> SUFFICES ASSUME NEW n \in DOMAIN tasks, tasks[n].webhook # Absent, tasks[n].ended # TRUE
               PROVE  \/ tasks[n].webhook \in Webhooks(TaskNames[n])'
                      \/ <<TaskNames[n], tasks[n].webhook>> \in replaced'
    BY <1>1 DEF Listening, TasksKept
  <2>1. TaskNames[n] \in DOMAIN configs
    BY NamesOfTasks DEF HearInv
  <2> QED
    BY <2>1 DEF HearInv, Listening, WebhooksKept
<1>5. InlineConfigHears'
  BY <1>1 DEF HearInv, InlineConfigHears, TasksKept, WebhooksKept
<1> QED
  BY <1>2, <1>3, <1>4, <1>5 DEF HearInv

(* A step of one caller that leaves the stores alone and does not make it a     *)
(* holder.                                                                 *)
LEMMA StoresKept ==
  ASSUME HearInv, UNCHANGED stores
  PROVE  TasksKept /\ WebhooksKept
BY DEF HearInv, Shaped, stores, TasksKept, WebhooksKept, Webhooks

LEMMA OneCallMoves ==
  ASSUME HearInv, NEW c \in Clients, NEW k, DOMAIN k = CallFields,
         call' = [call EXCEPT ![c] = k],
         k.pc \notin {"created", "registered"}
           \/ (Preparing(c) /\ k.task = call[c].task)
  PROVE  CallsQuiet
<1>1. DOMAIN call = Clients /\ \A d \in Clients : DOMAIN call[d] = CallFields
  BY DEF HearInv, Shaped
<1>2. DOMAIN call' = Clients /\ call'[c] = k /\ \A d \in Clients : d # c => call'[d] = call[d]
  BY <1>1
<1>3. Preparing(c)' => Preparing(c) /\ call'[c].task = call[c].task
  BY <1>2 DEF Preparing
<1>4. ASSUME NEW d \in Clients, d # c
      PROVE  Preparing(d)' => Preparing(d) /\ call'[d].task = call[d].task
  BY <1>2, <1>4 DEF Preparing
<1> QED
  BY <1>1, <1>2, <1>3, <1>4 DEF CallsQuiet

(* An answer is no step to a holder.                                         *)
LEMMA AnsweredShape ==
  ASSUME NEW k, DOMAIN k = CallFields, NEW o
  PROVE  DOMAIN Answered(k, o) = CallFields /\ Answered(k, o).pc = "answered"
BY DEF Answered, CallFields

LEMMA AnswerQuiet ==
  ASSUME HearInv, NEW c \in Clients, NEW o, Answer(c, o)
  PROVE  CallsQuiet
<1>1. PICK k : k = Answered(call[c], o)
  OBVIOUS
<1>2. DOMAIN k = CallFields /\ k.pc = "answered"
  BY <1>1, AnsweredShape DEF HearInv, Shaped
<1>3. call' = [call EXCEPT ![c] = k]
  BY <1>1 DEF Answer
<1> QED
  BY <1>2, <1>3, OneCallMoves

LEMMA AnswerPushQuiet ==
  ASSUME HearInv, NEW c \in Clients, NEW o, NEW noted, AnswerPush(c, o, noted)
  PROVE  CallsQuiet /\ UNCHANGED <<tasks, notified>>
<1>1. PICK a : a = Answered(call[c], o)
  OBVIOUS
<1>2. DOMAIN a = CallFields /\ a.pc = "answered"
  BY <1>1, AnsweredShape DEF HearInv, Shaped
<1>3. PICK k : k = [a EXCEPT !.noted = noted]
  OBVIOUS
<1>4. DOMAIN k = CallFields /\ k.pc = "answered"
  BY <1>2, <1>3 DEF CallFields
<1>5. call' = [call EXCEPT ![c] = k]
  BY <1>1, <1>3 DEF AnswerPush
<1> QED
  BY <1>4, <1>5, OneCallMoves DEF AnswerPush
-----------------------------------------------------------------------------
(* A registration: a webhook that it takes the place of is marked as replaced.  *)
LEMMA PutKeeps ==
  ASSUME HearInv, NEW name, NEW config, Put(name, config), UNCHANGED notified
  PROVE  /\ WebhooksKept
         /\ name \in DOMAIN configs => config.url \in Webhooks(name)'
<1>1. PICK held : held = Indices(name, config.id)
  OBVIOUS
<1>2. PICK s : s = configs[name]
  OBVIOUS
<1>3. PICK t : t = IF held = {} THEN Append(s, config)
                   ELSE [i \in DOMAIN s |-> IF i \in held THEN config ELSE s[i]]
  OBVIOUS
<1>4. configs' = [configs EXCEPT ![name] = t]
  BY <1>1, <1>2, <1>3 DEF Put
<1>5. replaced' = replaced \cup ({<<name, s[i].url>> : i \in held} \ {<<name, config.url>>})
  BY <1>1, <1>2 DEF Put
<1>6. held \subseteq DOMAIN s
  BY <1>1, <1>2 DEF Indices
<1>7. ASSUME name \in DOMAIN configs
      PROVE  /\ IsSeq(t)
             /\ \E i \in DOMAIN t : t[i] = config
             /\ \A i \in DOMAIN s :
                  \/ i \in held
                  \/ \E j \in DOMAIN t : t[j] = s[i]
  <2>1. PICK S : s \in Seq(S)
    BY <1>2, <1>7 DEF HearInv, Shaped, IsSeq
  <2>2. CASE held = {}
    <3>1. t = Append(s, config)
      BY <1>3, <2>2
    <3>2. t \in Seq(S \cup {config}) /\ Len(t) = Len(s) + 1 /\ t[Len(t)] = config
      BY <2>1, <3>1
    <3>3. \A i \in 1..Len(s) : i \in 1..Len(t) /\ t[i] = s[i]
      BY <2>1, <3>1
    <3>4. DOMAIN s = 1..Len(s) /\ DOMAIN t = 1..Len(t) /\ Len(t) \in DOMAIN t
      BY <2>1, <3>2
    <3> QED
      BY <3>2, <3>3, <3>4 DEF IsSeq
  <2>3. CASE held # {}
    <3>1. t = [i \in DOMAIN s |-> IF i \in held THEN config ELSE s[i]]
      BY <1>3, <2>3
    <3>2. DOMAIN s = 1..Len(s) /\ Len(s) \in Nat /\ \A i \in DOMAIN s : s[i] \in S
      BY <2>1
    <3>3. t \in Seq(S \cup {config})
      BY <3>1, <3>2
    <3>4. PICK i \in held : TRUE
      BY <2>3
    <3>5. i \in DOMAIN t /\ t[i] = config
      BY <1>6, <3>1, <3>4
    <3>6. \A j \in DOMAIN s : j \in held \/ (j \in DOMAIN t /\ t[j] = s[j])
      BY <3>1
    <3> QED
      BY <3>3, <3>5, <3>6 DEF IsSeq
  <2> QED
    BY <2>2, <2>3
<1>8. DOMAIN configs' = DOMAIN configs
  BY <1>4
<1>9. ASSUME NEW other \in DOMAIN configs
      PROVE  /\ IsSeq(configs'[other])
             /\ \A url \in Webhooks(other) :
                  url \in Webhooks(other)' \/ <<other, url>> \in replaced'
  <2>1. CASE other # name
    BY <1>4, <2>1 DEF HearInv, Shaped, Webhooks
  <2>2. CASE other = name
    <3>1. configs'[other] = t
      BY <1>4, <1>9, <2>2
    <3>2. ASSUME NEW i \in DOMAIN s
          PROVE  s[i].url \in {t[j].url : j \in DOMAIN t} \/ <<other, s[i].url>> \in replaced'
      <4>1. CASE i \in held
        <5>1. CASE s[i].url = config.url
          BY <1>7, <1>9, <2>2, <5>1
        <5>2. CASE s[i].url # config.url
          BY <1>5, <2>2, <4>1, <5>2
        <5> QED
          BY <5>1, <5>2
      <4>2. CASE i \notin held
        BY <1>7, <1>9, <2>2, <4>2
      <4> QED
        BY <4>1, <4>2
    <3> QED
      BY <1>2, <1>7, <1>9, <2>2, <3>1, <3>2 DEF Webhooks
  <2> QED
    BY <2>1, <2>2
<1>10. ASSUME name \in DOMAIN configs PROVE config.url \in Webhooks(name)'
  <2>1. configs'[name] = t
    BY <1>4, <1>10
  <2> QED
    BY <1>7, <1>10, <2>1 DEF Webhooks
<1> QED
  BY <1>5, <1>8, <1>9, <1>10 DEF WebhooksKept

(* What stands in a sequence beside the element that is taken out stays there. *)
LEMMA RemoveAtKeeps ==
  ASSUME NEW s, IsSeq(s), NEW i \in DOMAIN s
  PROVE  /\ IsSeq(RemoveAt(s, i))
         /\ \A j \in DOMAIN s :
              j # i => \E k \in DOMAIN RemoveAt(s, i) : RemoveAt(s, i)[k] = s[j]
<1>1. PICK S : s \in Seq(S)
  BY DEF IsSeq
<1>2. DOMAIN s = 1..Len(s) /\ Len(s) \in Nat
  BY <1>1
<1>3. PICK a : a = SubSeq(s, 1, i - 1)
  OBVIOUS
<1>4. PICK b : b = SubSeq(s, i + 1, Len(s))
  OBVIOUS
<1>5. a \in Seq(S) /\ Len(a) = i - 1 /\ \A j \in 1..(i - 1) : a[j] = s[j]
  BY <1>1, <1>2, <1>3
<1>6. b \in Seq(S) /\ Len(b) = Len(s) - i /\ \A j \in 1..(Len(s) - i) : b[j] = s[i + j]
  BY <1>1, <1>2, <1>4
<1>7. PICK t : t = a \o b
  OBVIOUS
<1>8. /\ t \in Seq(S) /\ Len(t) = Len(s) - 1
      /\ \A j \in 1..(Len(s) - 1) : t[j] = IF j <= i - 1 THEN a[j] ELSE b[j - (i - 1)]
  <2>1. /\ t \in Seq(S) /\ Len(t) = Len(a) + Len(b)
        /\ \A j \in 1..(Len(a) + Len(b)) : t[j] = IF j <= Len(a) THEN a[j] ELSE b[j - Len(a)]
    BY <1>5, <1>6, <1>7, ConcatProperties
  <2>2. Len(a) + Len(b) = Len(s) - 1
    BY <1>2, <1>5, <1>6
  <2> QED
    BY <1>5, <2>1, <2>2
<1>9. ASSUME NEW j \in DOMAIN s, j # i
      PROVE  \E k \in DOMAIN t : t[k] = s[j]
  <2>1. CASE j < i
    <3>1. j \in 1..(Len(s) - 1) /\ j <= i - 1
      BY <1>2, <2>1
    <3> QED
      BY <1>2, <1>5, <1>8, <3>1
  <2>2. CASE j > i
    <3>1. PICK k : k = j - 1
      OBVIOUS
    <3>2. k \in 1..(Len(s) - 1) /\ ~(k <= i - 1) /\ k - (i - 1) = j - i
      BY <1>2, <2>2, <3>1
    <3>3. t[k] = b[j - i] /\ j - i \in 1..(Len(s) - i)
      BY <1>2, <1>8, <2>2, <3>2
    <3>4. b[j - i] = s[j]
      BY <1>2, <1>6, <2>2, <3>3
    <3> QED
      BY <1>8, <3>2, <3>3, <3>4
  <2> QED
    BY <1>2, <1>9, <2>1, <2>2
<1>10. RemoveAt(s, i) = t
  BY <1>3, <1>4, <1>7 DEF RemoveAt
<1> QED
  BY <1>8, <1>9, <1>10 DEF IsSeq
-----------------------------------------------------------------------------
(* The steps of a client and of the listener.                               *)
LEMMA SameCall ==
  ASSUME HearInv, UNCHANGED call
  PROVE  CallsQuiet
BY DEF HearInv, Shaped, CallsQuiet, Preparing

LEMMA ResolveHears ==
  ASSUME HearInv, NEW c \in Clients, Resolve(c)
  PROVE  HearInv'
<1>1. UNCHANGED call /\ UNCHANGED stores
  BY DEF Resolve
<1> QED
  BY <1>1, SameCall, StoresKept, QuietStep

LEMMA AskHears ==
  ASSUME HearInv, NEW c \in Clients, Ask(c)
  PROVE  HearInv'
<1>1. \E k : /\ DOMAIN k = CallFields /\ k.pc \in {"idle", "sent"}
             /\ call' = [call EXCEPT ![c] = k]
  <2> DEFINE New(q, by) == [NoCall EXCEPT !.asked = q, !.by = by]
  <2>1. \E q, by, refused, current :
          call' = [call EXCEPT ![c] =
            IF refused = Absent
            THEN [New(q, by) EXCEPT !.pc = "sent", !.sent = Request(client[c], q)]
            ELSE [New(q, by) EXCEPT !.result = Fails(refused), !.current = current]]
    <3>1. PICK q \in world.habits[c].asks :
            LET k == client[c]
                unwilling == ClientRefuses(k.version, q)
                refused == IF k.presents = Cards!Unusable /\ unwilling # "VersionNotSupported"
                           THEN "UnsupportedOperation" ELSE unwilling
                new == New(q, [version |-> k.version, of |-> k.of])
            IN call' = [call EXCEPT ![c] =
                 IF refused = Absent THEN [new EXCEPT !.pc = "sent", !.sent = Request(client[c], q)]
                 ELSE [new EXCEPT !.result = Fails(refused),
                         !.current = refused = "UnsupportedOperation" /\ k.of = deployed]]
      BY DEF Ask
    <3> HIDE DEF New
    <3> QED
      BY <3>1
  <2>2. PICK q, by, refused, current :
          call' = [call EXCEPT ![c] =
            IF refused = Absent
            THEN [New(q, by) EXCEPT !.pc = "sent", !.sent = Request(client[c], q)]
            ELSE [New(q, by) EXCEPT !.result = Fails(refused), !.current = current]]
    BY <2>1
  <2>6. PICK new : new = New(q, by)
    OBVIOUS
  <2>3. DOMAIN new = CallFields /\ new.pc = "idle"
    BY <2>6 DEF NoCall, CallFields
  <2>4. CASE refused = Absent
    <3>1. PICK k : k = [new EXCEPT !.pc = "sent", !.sent = Request(client[c], q)]
      OBVIOUS
    <3>2. DOMAIN k = CallFields /\ k.pc = "sent"
      BY <2>3, <3>1 DEF CallFields
    <3> QED
      BY <2>2, <2>6, <2>4, <3>1, <3>2
  <2>5. CASE refused # Absent
    <3>1. PICK k : k = [new EXCEPT !.result = Fails(refused), !.current = current]
      OBVIOUS
    <3>2. DOMAIN k = CallFields /\ k.pc = "idle"
      BY <2>3, <3>1 DEF CallFields
    <3> QED
      BY <2>2, <2>6, <2>5, <3>1, <3>2
  <2> QED
    BY <2>4, <2>5
<1>2. UNCHANGED stores
  BY DEF Ask
<1>3. CallsQuiet
  BY <1>1, OneCallMoves
<1> QED
  BY <1>2, <1>3, StoresKept, QuietStep

LEMMA EndsCall ==
  ASSUME HearInv, NEW c \in Clients, NEW r,
         call' = [call EXCEPT ![c].pc = "idle", ![c].result = r]
  PROVE  CallsQuiet
<1>1. PICK k : k = [call[c] EXCEPT !.pc = "idle", !.result = r]
  OBVIOUS
<1>2. DOMAIN k = CallFields /\ k.pc = "idle"
  BY <1>1 DEF HearInv, Shaped, CallFields
<1>3. call' = [call EXCEPT ![c] = k]
  BY <1>1 DEF HearInv, Shaped, CallFields
<1> QED
  BY <1>2, <1>3, OneCallMoves

LEMMA LoseHears ==
  ASSUME HearInv, NEW c \in Clients, Lose(c)
  PROVE  HearInv'
<1>1. call' = [call EXCEPT ![c].pc = "idle", ![c].result = Lost] /\ UNCHANGED stores
  BY DEF Lose
<1> QED
  BY <1>1, EndsCall, StoresKept, QuietStep

LEMMA ReceiveHears ==
  ASSUME HearInv, NEW c \in Clients, Receive(c)
  PROVE  HearInv'
<1>1. PICK r : call' = [call EXCEPT ![c].pc = "idle", ![c].result = r]
  BY DEF Receive
<1>2. UNCHANGED stores
  BY DEF Receive
<1> QED
  BY <1>1, <1>2, EndsCall, StoresKept, QuietStep

LEMMA ArriveHears ==
  ASSUME HearInv, NEW c \in Clients, Arrive(c)
  PROVE  HearInv'
<1>1. PICK heard : heard = Heard([call[c] EXCEPT !.current = call[c].by.of = deployed].sent)
  OBVIOUS
<1>2. PICK k : k = [call[c] EXCEPT !.current = call[c].by.of = deployed]
  OBVIOUS
<1>3. PICK refusal : refusal = Refusal(k.sent, heard)
  OBVIOUS
<1>4. DOMAIN k = CallFields
  BY <1>2 DEF HearInv, Shaped
<1>5. call' = [call EXCEPT ![c] =
          CASE heard = NoRoute ->
                 [k EXCEPT !.pc = "answered", !.spoke = Server.version, !.reply = Unheard(k.sent)]
            [] heard # NoRoute /\ refusal = "AuthRequired" ->
                 Answered(k, AuthRequired(k.sent, heard.op))
            [] heard # NoRoute /\ refusal \notin {"AuthRequired", Absent} ->
                 Answered(k, Fails(refusal))
            [] OTHER ->
                 [k EXCEPT !.pc = "serving",
                           !.served = Validate(Server.version, heard.op, heard.params)]]
  BY <1>1, <1>2, <1>3 DEF Arrive
<1>6. \E to : /\ DOMAIN to = CallFields /\ to.pc \in {"answered", "serving"}
              /\ call' = [call EXCEPT ![c] = to]
  <2>1. CASE heard = NoRoute
    <3>1. PICK to : to = [k EXCEPT !.pc = "answered", !.spoke = Server.version,
                                   !.reply = Unheard(k.sent)]
      OBVIOUS
    <3>2. DOMAIN to = CallFields /\ to.pc = "answered"
      BY <1>4, <3>1 DEF CallFields
    <3> QED
      BY <1>5, <2>1, <3>1, <3>2
  <2>2. CASE heard # NoRoute /\ refusal = "AuthRequired"
    BY <1>4, <1>5, <2>2, AnsweredShape
  <2>3. CASE heard # NoRoute /\ refusal \notin {"AuthRequired", Absent}
    BY <1>4, <1>5, <2>3, AnsweredShape
  <2>4. CASE heard # NoRoute /\ refusal = Absent /\ refusal # "AuthRequired"
    <3>1. PICK to : to = [k EXCEPT !.pc = "serving",
                                   !.served = Validate(Server.version, heard.op, heard.params)]
      OBVIOUS
    <3>2. DOMAIN to = CallFields /\ to.pc = "serving"
      BY <1>4, <3>1 DEF CallFields
    <3> QED
      BY <1>5, <2>4, <3>1, <3>2
  <2> QED
    BY <2>1, <2>2, <2>3, <2>4
<1>7. CallsQuiet
  BY <1>6, OneCallMoves
<1>8. UNCHANGED stores
  BY DEF Arrive
<1> QED
  BY <1>7, <1>8, StoresKept, QuietStep
-----------------------------------------------------------------------------
(* Handlers that answer at once.                                           *)
LEMMA AnswerHears ==
  ASSUME HearInv, NEW c \in Clients, NEW o, Answer(c, o), UNCHANGED stores
  PROVE  HearInv'
BY AnswerQuiet, StoresKept, QuietStep

LEMMA ReadingsHear ==
  ASSUME HearInv, NEW c \in Clients, GetTask(c) \/ ListTasks(c) \/ GetExtendedCard(c)
  PROVE  HearInv'
<1>1. \E o : Answer(c, o) /\ UNCHANGED stores
  BY DEF GetTask, ListTasks, GetExtendedCard
<1> QED
  BY <1>1, AnswerHears

LEMMA CancelTaskHears ==
  ASSUME HearInv, NEW c \in Clients, CancelTask(c)
  PROVE  HearInv'
<1>1. PICK n : n = Number(call[c].served.task)
  OBVIOUS
<1>2. PICK refusal : refusal = IF n = 0 THEN "TaskNotFound" ELSE "TaskNotCancelable"
  OBVIOUS
<1>3. CASE n # 0 /\ tasks[n].state \notin Terminal
  <2>1. tasks' = [tasks EXCEPT ![n].state = "canceled"] /\ UNCHANGED <<configs, notified, replaced>>
    BY <1>1, <1>3 DEF CancelTask
  <2>2. \E o : Answer(c, o)
    BY <1>1, <1>3 DEF CancelTask
  <2>3. CallsQuiet
    BY <2>2, AnswerQuiet
  <2>4. TasksKept
    <3>2. PICK t : t = [tasks[n] EXCEPT !.state = "canceled"]
      OBVIOUS
    <3>3. tasks' = [tasks EXCEPT ![n] = t]
      BY <2>1, <3>2
    <3>4. IsSeq(tasks') /\ Len(tasks') = Len(tasks)
      BY <3>3, SeqExcept DEF HearInv, Shaped
    <3>5. ASSUME NEW m \in DOMAIN tasks
          PROVE  /\ DOMAIN tasks'[m] = TaskFields /\ tasks'[m].webhook = tasks[m].webhook
                 /\ tasks'[m].ended = tasks[m].ended /\ tasks'[m].running = tasks[m].running
      BY <3>2, <3>3 DEF HearInv, Shaped, TaskFields
    <3> QED
      BY <3>4, <3>5 DEF TasksKept
  <2>5. WebhooksKept
    BY <2>1 DEF HearInv, Shaped, WebhooksKept, Webhooks
  <2> QED
    BY <2>3, <2>4, <2>5, QuietStep
<1>4. CASE ~(n # 0 /\ tasks[n].state \notin Terminal)
  <2>1. Answer(c, Fails(refusal)) /\ UNCHANGED stores
    BY <1>1, <1>2, <1>4 DEF CancelTask, stores
  <2> QED
    BY <2>1, AnswerHears
<1> QED
  BY <1>3, <1>4
-----------------------------------------------------------------------------
(* The push notification methods.                                           *)
LEMMA SameTasks ==
  ASSUME HearInv, UNCHANGED tasks
  PROVE  TasksKept
BY DEF HearInv, Shaped, TasksKept

LEMMA SameWebhooks ==
  ASSUME HearInv, UNCHANGED <<configs, notified, replaced>>
  PROVE  WebhooksKept
BY DEF HearInv, Shaped, WebhooksKept, Webhooks

LEMMA NotedHears ==
  ASSUME HearInv, NEW c \in Clients, NEW o, NEW noted, AnswerPush(c, o, noted),
         UNCHANGED <<configs, replaced>>
  PROVE  HearInv'
<1>1. CallsQuiet /\ UNCHANGED <<tasks, notified>>
  BY AnswerPushQuiet
<1>2. TasksKept /\ WebhooksKept
  BY <1>1, SameTasks, SameWebhooks
<1> QED
  BY <1>1, <1>2, QuietStep

LEMMA PushReadingsHear ==
  ASSUME HearInv, NEW c \in Clients, NoStore(c) \/ GetPushConfig(c) \/ ListPushConfigs(c)
  PROVE  HearInv'
<1>1. \E o, noted : AnswerPush(c, o, noted) /\ UNCHANGED <<configs, replaced>>
  <2>1. CASE NoStore(c)
    BY <2>1 DEF NoStore
  <2>2. CASE GetPushConfig(c)
    BY <2>2 DEF GetPushConfig
  <2>3. CASE ListPushConfigs(c)
    BY <2>3 DEF ListPushConfigs
  <2> QED
    BY <2>1, <2>2, <2>3
<1> QED
  BY <1>1, NotedHears

LEMMA SetPushConfigHears ==
  ASSUME HearInv, NEW c \in Clients, SetPushConfig(c)
  PROVE  HearInv'
<1>1. \E name, config, o, noted : Put(name, config) /\ AnswerPush(c, o, noted)
  BY DEF SetPushConfig
<1>2. PICK name, config : Put(name, config) /\ \E o, noted : AnswerPush(c, o, noted)
  BY <1>1
<1>3. CallsQuiet /\ UNCHANGED <<tasks, notified>>
  BY <1>2, AnswerPushQuiet
<1>4. TasksKept /\ WebhooksKept
  BY <1>2, <1>3, SameTasks, PutKeeps
<1> QED
  BY <1>3, <1>4, QuietStep

LEMMA DeletePushConfigHears ==
  ASSUME HearInv, NEW c \in Clients, DeletePushConfig(c)
  PROVE  HearInv'
<1>1. PICK q : q = call[c].served
  OBVIOUS
<1>2. PICK held : held = Indices(q.task, q.config)
  OBVIOUS
<1>3. PICK name : name = q.task
  OBVIOUS
<1>4. PICK s : s = configs[name]
  OBVIOUS
<1>5. PICK t : t = IF held = {} THEN s ELSE RemoveAt(s, CHOOSE i \in held : TRUE)
  OBVIOUS
<1>6. /\ configs' = [configs EXCEPT ![name] = t]
      /\ replaced' = replaced \cup {<<name, s[i].url>> : i \in held}
  BY <1>1, <1>2, <1>3, <1>4, <1>5 DEF DeletePushConfig
<1>7. \E o, noted : AnswerPush(c, o, noted)
  BY DEF DeletePushConfig
<1>8. CallsQuiet /\ UNCHANGED <<tasks, notified>>
  BY <1>7, AnswerPushQuiet
<1>9. held \subseteq DOMAIN s
  BY <1>2, <1>3, <1>4 DEF Indices
<1>10. ASSUME name \in DOMAIN configs
       PROVE  IsSeq(t) /\ \A j \in DOMAIN s : j \in held \/ \E k \in DOMAIN t : t[k] = s[j]
  <2>1. IsSeq(s)
    BY <1>4, <1>10 DEF HearInv, Shaped
  <2>2. CASE held = {}
    BY <1>5, <2>1, <2>2
  <2>3. CASE held # {}
    <3>1. PICK k : k = CHOOSE i \in held : TRUE
      OBVIOUS
    <3>2. k \in held /\ t = RemoveAt(s, k)
      BY <1>5, <2>3, <3>1
    <3> QED
      BY <1>9, <2>1, <3>2, RemoveAtKeeps
  <2> QED
    BY <2>2, <2>3
<1>11. WebhooksKept
  <2>1. ASSUME NEW other \in DOMAIN configs
        PROVE  /\ IsSeq(configs'[other])
               /\ \A url \in Webhooks(other) :
                    url \in Webhooks(other)' \/ <<other, url>> \in replaced'
    <3>1. CASE other # name
      BY <1>6, <3>1 DEF HearInv, Shaped, Webhooks
    <3>2. CASE other = name
      <4>1. configs'[other] = t /\ configs[other] = s
        BY <1>4, <1>6, <2>1, <3>2
      <4>2. ASSUME NEW j \in DOMAIN s
            PROVE  s[j].url \in {t[k].url : k \in DOMAIN t} \/ <<other, s[j].url>> \in replaced'
        <5>1. CASE j \in held
          BY <1>6, <3>2, <5>1
        <5>2. CASE j \notin held
          BY <1>10, <2>1, <3>2, <5>2
        <5> QED
          BY <5>1, <5>2
      <4> QED
        BY <1>10, <2>1, <3>2, <4>1, <4>2 DEF Webhooks
    <3> QED
      BY <3>1, <3>2
  <2>2. DOMAIN configs' = DOMAIN configs /\ replaced \subseteq replaced'
    BY <1>6
  <2> QED
    BY <1>8, <2>1, <2>2 DEF WebhooksKept
<1>12. TasksKept
  BY <1>8, SameTasks
<1> QED
  BY <1>8, <1>11, <1>12, QuietStep
-----------------------------------------------------------------------------
(* A send makes its task: nobody has it yet.                                 *)
LEMMA CreateTaskHears ==
  ASSUME HearInv, NEW c \in Clients, CreateTask(c)
  PROVE  HearInv'
<1>1. CASE call[c].served.op = "STREAM_MESSAGE" /\ ~Server.streams
  <2>1. Answer(c, Stream(<<>>, "UnsupportedOperation")) /\ UNCHANGED stores
    BY <1>1 DEF CreateTask, stores
  <2> QED
    BY <2>1, AnswerHears
<1>2. CASE ~(call[c].served.op = "STREAM_MESSAGE" /\ ~Server.streams)
  <2>1. PICK new : new = [state |-> "submitted", running |-> FALSE, shared |-> "no",
                          artifacts |-> <<>>, webhook |-> Absent, ended |-> FALSE]
    OBVIOUS
  <2>2. PICK last : last = Len(tasks) + 1
    OBVIOUS
  <2>3. /\ Len(tasks) < Len(TaskNames) /\ tasks' = Append(tasks, new)
        /\ call' = [call EXCEPT ![c].pc = "created", ![c].task = last]
        /\ UNCHANGED <<configs, notified, replaced>>
    BY <1>2, <2>1, <2>2 DEF CreateTask
  <2>4. PICK S : tasks \in Seq(S)
    BY DEF HearInv, Shaped, IsSeq
  <2>5. tasks' \in Seq(S \cup {new}) /\ Len(tasks') = last /\ tasks'[last] = new
    BY <2>2, <2>3, <2>4
  <2>6. /\ DOMAIN tasks = 1..Len(tasks) /\ Len(tasks) \in Nat /\ DOMAIN tasks' = 1..last
        /\ \A n \in DOMAIN tasks : tasks'[n] = tasks[n]
    BY <2>2, <2>3, <2>4, <2>5
  <2>7. /\ last \notin DOMAIN tasks /\ DOMAIN tasks' = DOMAIN tasks \cup {last}
    BY <2>2, <2>6
  <2>8. DOMAIN new = TaskFields /\ new.webhook = Absent /\ new.ended = FALSE /\ new.running = FALSE
    BY <2>1 DEF TaskFields
  <2>9. /\ DOMAIN call' = Clients /\ \A d \in Clients : d # c => call'[d] = call[d]
        /\ DOMAIN call'[c] = CallFields /\ call'[c].task = last
    BY <2>3 DEF HearInv, Shaped, CallFields
  <2>10. Shaped'
    <3>1. Len(TaskNames) \in Nat
      BY NamesAssumption DEF Listed
    <3>2. IsSeq(tasks') /\ Len(tasks') <= Len(TaskNames)
      BY <2>2, <2>3, <2>5, <2>6, <3>1 DEF IsSeq
    <3>3. \A n \in DOMAIN tasks' : DOMAIN tasks'[n] = TaskFields
      BY <2>5, <2>6, <2>7, <2>8 DEF HearInv, Shaped
    <3> QED
      BY <2>3, <2>9, <3>2, <3>3 DEF HearInv, Shaped
  <2>11. TasksHeld'
    <3>1. ASSUME NEW d \in Clients, Preparing(d)'
          PROVE  /\ call'[d].task \in DOMAIN tasks'
                 /\ tasks'[call'[d].task].running = FALSE /\ tasks'[call'[d].task].ended = FALSE
                 /\ d # c => call'[d].task # last
      <4>1. CASE d = c
        BY <2>5, <2>7, <2>8, <2>9, <4>1
      <4>2. CASE d # c
        <5>1. Preparing(d) /\ call'[d] = call[d]
          BY <2>9, <3>1, <4>2 DEF Preparing
        <5>2. PICK n : n = call[d].task
          OBVIOUS
        <5>3. n \in DOMAIN tasks /\ tasks[n].running = FALSE /\ tasks[n].ended = FALSE
          BY <5>1, <5>2 DEF HearInv, TasksHeld
        <5> QED
          BY <2>6, <2>7, <5>1, <5>2, <5>3
      <4> QED
        BY <4>1, <4>2
    <3>2. ASSUME NEW d \in Clients, NEW e \in Clients, Preparing(d)', Preparing(e)',
                 call'[d].task = call'[e].task
          PROVE  d = e
      <4>1. CASE d = c \/ e = c
        BY <2>9, <3>1, <3>2, <4>1
      <4>2. CASE d # c /\ e # c
        BY <2>9, <3>2, <4>2 DEF HearInv, TasksHeld, Preparing
      <4> QED
        BY <4>1, <4>2
    <3> QED
      BY <3>1, <3>2 DEF TasksHeld
  <2>12. Listening'
    <3> SUFFICES ASSUME NEW n \in DOMAIN tasks',
                        tasks'[n].webhook # Absent, tasks'[n].ended # TRUE
                 PROVE  \/ tasks'[n].webhook \in Webhooks(TaskNames[n])'
                        \/ <<TaskNames[n], tasks'[n].webhook>> \in replaced'
      BY DEF Listening
    <3>1. n \in DOMAIN tasks /\ tasks'[n] = tasks[n]
      BY <2>5, <2>6, <2>7, <2>8
    <3> QED
      BY <2>3, <3>1 DEF HearInv, Listening, Webhooks
  <2>13. InlineConfigHears'
    <3> SUFFICES ASSUME NEW n \in DOMAIN tasks', tasks'[n].ended, tasks'[n].webhook # Absent
                 PROVE  <<TaskNames[n], tasks'[n].webhook>> \in notified' \cup replaced'
      BY DEF InlineConfigHears
    <3>1. n \in DOMAIN tasks /\ tasks'[n] = tasks[n]
      BY <2>5, <2>6, <2>7, <2>8
    <3> QED
      BY <2>3, <3>1 DEF HearInv, InlineConfigHears
  <2> QED
    BY <2>10, <2>11, <2>12, <2>13 DEF HearInv
<1> QED
  BY <1>1, <1>2

(* Its webhook is registered under the task's name before the task runs.      *)
LEMMA WebhookRegistered ==
  ASSUME HearInv, NEW c \in Clients, Preparing(c), NEW n, n = call[c].task,
         NEW url, NEW config, config.url = url, NEW noted,
         Put(TaskNames[n], config), UNCHANGED notified,
         tasks' = [tasks EXCEPT ![n].webhook = url],
         call' = [call EXCEPT ![c].pc = "registered", ![c].noted = noted]
  PROVE  HearInv'
<1>1. n \in DOMAIN tasks /\ tasks[n].running = FALSE /\ tasks[n].ended = FALSE
  BY DEF HearInv, TasksHeld
<1>2. TaskNames[n] \in DOMAIN configs
  BY <1>1, NamesOfTasks DEF HearInv
<1>3. WebhooksKept /\ url \in Webhooks(TaskNames[n])'
  BY <1>2, PutKeeps
<1>4. PICK t : t = [tasks[n] EXCEPT !.webhook = url]
  OBVIOUS
<1>5. tasks' = [tasks EXCEPT ![n] = t]
  BY <1>4
<1>6. IsSeq(tasks') /\ Len(tasks') = Len(tasks) /\ DOMAIN tasks' = DOMAIN tasks
  <2>1. IsSeq(tasks)
    BY DEF HearInv, Shaped
  <2>2. PICK s : s = [tasks EXCEPT ![n] = t]
    OBVIOUS
  <2>3. IsSeq(s) /\ Len(s) = Len(tasks) /\ DOMAIN s = DOMAIN tasks
    BY <2>1, <2>2, SeqExcept, ZenonT(20)
  <2> QED
    BY <1>5, <2>2, <2>3
<1>7. /\ DOMAIN t = TaskFields /\ t.webhook = url /\ t.ended = FALSE /\ t.running = FALSE
      /\ tasks'[n] = t /\ \A m \in DOMAIN tasks : m # n => tasks'[m] = tasks[m]
  BY <1>1, <1>4, <1>5 DEF HearInv, Shaped, TaskFields
<1>8. CallsQuiet
  <2>1. PICK k : k = [call[c] EXCEPT !.pc = "registered", !.noted = noted]
    OBVIOUS
  <2>2. DOMAIN k = CallFields /\ k.task = call[c].task
    BY <2>1 DEF HearInv, Shaped, CallFields
  <2>3. call' = [call EXCEPT ![c] = k]
    BY <2>1 DEF HearInv, Shaped, CallFields
  <2> QED
    BY <2>2, <2>3, OneCallMoves
<1>9. Shaped'
  BY <1>3, <1>6, <1>7, <1>8 DEF HearInv, Shaped, CallsQuiet, WebhooksKept
<1>10. TasksHeld'
  <2>1. ASSUME NEW d \in Clients, Preparing(d)'
        PROVE  /\ call'[d].task \in DOMAIN tasks'
               /\ tasks'[call'[d].task].running = FALSE /\ tasks'[call'[d].task].ended = FALSE
    <3>1. Preparing(d) /\ call'[d].task = call[d].task
      BY <2>1, <1>8 DEF CallsQuiet
    <3>2. PICK m : m = call[d].task
      OBVIOUS
    <3>3. m \in DOMAIN tasks /\ tasks[m].running = FALSE /\ tasks[m].ended = FALSE
      BY <3>1, <3>2 DEF HearInv, TasksHeld
    <3> QED
      BY <1>6, <1>7, <3>1, <3>2, <3>3
  <2>2. ASSUME NEW d \in Clients, NEW e \in Clients, Preparing(d)', Preparing(e)',
               call'[d].task = call'[e].task
        PROVE  d = e
    BY <1>8, <2>2 DEF CallsQuiet, HearInv, TasksHeld
  <2> QED
    BY <2>1, <2>2 DEF TasksHeld
<1>11. Listening'
  <2> SUFFICES ASSUME NEW m \in DOMAIN tasks, tasks'[m].webhook # Absent, tasks'[m].ended # TRUE
               PROVE  \/ tasks'[m].webhook \in Webhooks(TaskNames[m])'
                      \/ <<TaskNames[m], tasks'[m].webhook>> \in replaced'
    BY <1>6 DEF Listening
  <2>1. CASE m = n
    BY <1>3, <1>7, <2>1
  <2>2. CASE m # n
    <3>1. tasks'[m] = tasks[m] /\ TaskNames[m] \in DOMAIN configs
      BY <1>7, <2>2, NamesOfTasks DEF HearInv
    <3> QED
      BY <1>3, <3>1 DEF HearInv, Listening, WebhooksKept
  <2> QED
    BY <2>1, <2>2
<1>12. InlineConfigHears'
  <2> SUFFICES ASSUME NEW m \in DOMAIN tasks, tasks'[m].ended, tasks'[m].webhook # Absent
               PROVE  <<TaskNames[m], tasks'[m].webhook>> \in notified' \cup replaced'
    BY <1>6 DEF InlineConfigHears
  <2>1. m # n /\ tasks'[m] = tasks[m]
    BY <1>7
  <2> QED
    BY <1>3, <2>1 DEF HearInv, InlineConfigHears, WebhooksKept
<1> QED
  BY <1>9, <1>10, <1>11, <1>12 DEF HearInv

LEMMA RegisterHears ==
  ASSUME HearInv, NEW c \in Clients, RegisterInlinePushConfig(c)
  PROVE  HearInv'
<1>1. PICK q : q = call[c].served
  OBVIOUS
<1>2. call[c].pc = "created" /\ Preparing(c)
  BY DEF RegisterInlinePushConfig, Preparing
<1>3. CASE q.url = Absent
  <2>1. call' = [call EXCEPT ![c].pc = "registered"] /\ UNCHANGED stores
    BY <1>1, <1>3 DEF RegisterInlinePushConfig
  <2>2. PICK k : k = [call[c] EXCEPT !.pc = "registered"]
    OBVIOUS
  <2>3. DOMAIN k = CallFields /\ k.task = call[c].task
    BY <2>2 DEF HearInv, Shaped, CallFields
  <2>4. call' = [call EXCEPT ![c] = k]
    BY <2>1, <2>2
  <2>5. CallsQuiet
    BY <1>2, <2>3, <2>4, OneCallMoves
  <2> QED
    BY <2>1, <2>5, StoresKept, QuietStep
<1>4. CASE q.url # Absent /\ (~Server.store \/ q.config = Blank)
  <2>1. PICK class :
          /\ call' = [call EXCEPT ![c] =
               [Answered(@, FailsSend(@, class)) EXCEPT !.noted = Failed("refused")]]
          /\ UNCHANGED stores
    BY <1>1, <1>4 DEF RegisterInlinePushConfig
  <2>2. PICK a : a = Answered(call[c], FailsSend(call[c], class))
    OBVIOUS
  <2>3. PICK k : k = [a EXCEPT !.noted = Failed("refused")]
    OBVIOUS
  <2>4. DOMAIN a = CallFields /\ a.pc = "answered"
    BY <2>2, AnsweredShape DEF HearInv, Shaped
  <2>5. DOMAIN k = CallFields /\ k.pc = "answered"
    BY <2>3, <2>4 DEF CallFields
  <2>6. call' = [call EXCEPT ![c] = k]
    BY <2>1, <2>2, <2>3
  <2>7. CallsQuiet
    BY <2>5, <2>6, OneCallMoves
  <2> QED
    BY <2>1, <2>7, StoresKept, QuietStep
<1>5. CASE q.url # Absent /\ Server.store /\ q.config # Blank
  <2>1. PICK n : n = call[c].task
    OBVIOUS
  <2>2. PICK config : config = Config(IdFor(q), q.url, q.schemes)
    OBVIOUS
  <2>3. PICK noted : noted = Found({Webhook(TaskNames[n], config)})
    OBVIOUS
  <2>4. /\ Put(TaskNames[n], config) /\ UNCHANGED notified
        /\ tasks' = [tasks EXCEPT ![n].webhook = q.url]
        /\ call' = [call EXCEPT ![c].pc = "registered", ![c].noted = noted]
    BY <1>1, <1>5, <2>1, <2>2, <2>3 DEF RegisterInlinePushConfig
  <2>5. config.url = q.url
    BY <2>2 DEF Config
  <2> QED
    BY <1>2, <2>1, <2>4, <2>5, WebhookRegistered
<1> QED
  BY <1>3, <1>4, <1>5
-----------------------------------------------------------------------------
(* The holder of a task starts its execution, and holds it no longer.         *)
LEMMA WaitsQuiet ==
  ASSUME HearInv, NEW c \in Clients, call' = [call EXCEPT ![c].pc = "waiting"]
  PROVE  CallsQuiet /\ ~Preparing(c)'
<1>1. PICK k : k = [call[c] EXCEPT !.pc = "waiting"]
  OBVIOUS
<1>2. DOMAIN k = CallFields /\ k.pc = "waiting"
  BY <1>1 DEF HearInv, Shaped, CallFields
<1>3. call' = [call EXCEPT ![c] = k] /\ call'[c] = k
  BY <1>1 DEF HearInv, Shaped
<1> QED
  BY <1>2, <1>3, OneCallMoves DEF Preparing

LEMMA AnsweredIsFree ==
  ASSUME HearInv, NEW c \in Clients, NEW o, Answer(c, o)
  PROVE  ~Preparing(c)'
<1>1. PICK k : k = Answered(call[c], o)
  OBVIOUS
<1>2. k.pc = "answered"
  BY <1>1, AnsweredShape DEF HearInv, Shaped
<1>3. call'[c] = k
  BY <1>1 DEF Answer, HearInv, Shaped
<1> QED
  BY <1>2, <1>3 DEF Preparing

LEMMA StartExecutionHears ==
  ASSUME HearInv, NEW c \in Clients, StartExecution(c)
  PROVE  HearInv'
<1>1. PICK n : n = call[c].task
  OBVIOUS
<1>2. PICK streams \in BOOLEAN : streams = (call[c].served.op = "STREAM_MESSAGE")
  OBVIOUS
<1>3. call[c].pc = "registered" /\ Preparing(c) /\ UNCHANGED <<configs, notified, replaced>>
  BY DEF StartExecution, Preparing
<1>4. CASE tasks[n].state \in Terminal /\ ~streams
  <2>1. Answer(c, Value(TaskOf(n))) /\ UNCHANGED stores
    BY <1>1, <1>2, <1>3, <1>4 DEF StartExecution, stores
  <2> QED
    BY <2>1, AnswerHears
<1>5. CASE ~(tasks[n].state \in Terminal /\ ~streams)
  <2>1. PICK state, shared :
          tasks' = [tasks EXCEPT ![n].running = TRUE, ![n].state = state, ![n].shared = shared]
    <3>1. tasks' = [tasks EXCEPT ![n].running = TRUE,
                      ![n].state = IF @ \in Terminal THEN @ ELSE "working",
                      ![n].shared = CASE streams -> "stream" [] call[c].served.blocking -> "no"
                                      [] OTHER -> "detached"]
      BY <1>1, <1>2, <1>5 DEF StartExecution
    <3>2. PICK state : state = IF tasks[n].state \in Terminal THEN tasks[n].state ELSE "working"
      OBVIOUS
    <3>3. PICK shared : shared = CASE streams -> "stream" [] call[c].served.blocking -> "no"
                                   [] OTHER -> "detached"
      OBVIOUS
    <3>4. n \in DOMAIN tasks /\ DOMAIN tasks[n] = TaskFields
      BY <1>1, <1>3 DEF HearInv, Shaped, TasksHeld
    <3>5. tasks' = [tasks EXCEPT ![n].running = TRUE, ![n].state = state, ![n].shared = shared]
      BY <3>1, <3>2, <3>3, <3>4 DEF TaskFields
    <3> QED
      BY <3>5
  <2>2. CallsQuiet /\ ~Preparing(c)'
    <3>1. \/ call' = [call EXCEPT ![c].pc = "waiting"]
          \/ \E o : Answer(c, o)
      BY <1>1, <1>2, <1>5 DEF StartExecution
    <3> QED
      BY <3>1, WaitsQuiet, AnswerQuiet, AnsweredIsFree
  <2>3. \A d \in Clients : Preparing(d)' => call'[d].task # n
    BY <1>1, <1>3, <2>2 DEF CallsQuiet, HearInv, TasksHeld
  <2>4. n \in DOMAIN tasks
    BY <1>1, <1>3 DEF HearInv, TasksHeld
  <2>5. PICK t : t = [tasks[n] EXCEPT !.running = TRUE, !.state = state, !.shared = shared]
    OBVIOUS
  <2>6. /\ DOMAIN t = TaskFields /\ t.webhook = tasks[n].webhook /\ t.ended = tasks[n].ended
    BY <2>4, <2>5 DEF HearInv, Shaped, TaskFields
  <2>7. tasks' = [tasks EXCEPT ![n] = t]
    BY <2>1, <2>4, <2>5 DEF HearInv, Shaped, TaskFields
  <2>8. TasksKept
    <3>1. IsSeq(tasks') /\ Len(tasks') = Len(tasks)
      BY <2>7, SeqExcept DEF HearInv, Shaped
    <3>2. tasks'[n] = t /\ \A m \in DOMAIN tasks : m # n => tasks'[m] = tasks[m]
      BY <2>4, <2>7
    <3> QED
      BY <2>3, <2>6, <3>1, <3>2 DEF HearInv, Shaped, TasksKept
  <2>9. WebhooksKept
    BY <1>3, SameWebhooks
  <2> QED
    BY <2>2, <2>8, <2>9, QuietStep
<1> QED
  BY <1>4, <1>5

LEMMA ResubscribeHears ==
  ASSUME HearInv, NEW c \in Clients, Resubscribe(c)
  PROVE  HearInv'
<1>1. UNCHANGED stores
  BY DEF Resubscribe
<1>2. \/ \E o : Answer(c, o)
      \/ \E n : call' = [call EXCEPT ![c].pc = "waiting", ![c].task = n]
  <2>1. PICK n : n = Number(call[c].served.task)
    OBVIOUS
  <2>2. CASE n = 0
    BY <2>1, <2>2 DEF Resubscribe
  <2>3. CASE n # 0 /\ tasks[n].state \in Terminal
    BY <2>1, <2>3 DEF Resubscribe
  <2>4. CASE n # 0 /\ tasks[n].state \notin Terminal /\ ~(tasks[n].running /\ tasks[n].shared # "no")
    BY <2>1, <2>4 DEF Resubscribe
  <2>5. CASE n # 0 /\ tasks[n].state \notin Terminal /\ tasks[n].running /\ tasks[n].shared # "no"
    BY <2>1, <2>5 DEF Resubscribe
  <2> QED
    BY <2>2, <2>3, <2>4, <2>5
<1>3. CASE \E o : Answer(c, o)
  BY <1>1, <1>3, AnswerHears
<1>4. CASE \E n : call' = [call EXCEPT ![c].pc = "waiting", ![c].task = n]
  <2>1. PICK n : call' = [call EXCEPT ![c].pc = "waiting", ![c].task = n]
    BY <1>4
  <2>2. PICK k : k = [call[c] EXCEPT !.pc = "waiting", !.task = n]
    OBVIOUS
  <2>3. DOMAIN k = CallFields /\ k.pc = "waiting"
    BY <2>2 DEF HearInv, Shaped, CallFields
  <2>4. call' = [call EXCEPT ![c] = k]
    BY <2>1, <2>2 DEF HearInv, Shaped, CallFields
  <2>5. CallsQuiet
    BY <2>3, <2>4, OneCallMoves
  <2> QED
    BY <1>1, <2>5, StoresKept, QuietStep
<1> QED
  BY <1>2, <1>3, <1>4

(* The execution ends: the webhooks that are registered hear of it.           *)
LEMMA FinishHears ==
  ASSUME HearInv, NEW n \in DOMAIN tasks, Finish(n)
  PROVE  HearInv'
<1>1. PICK canceled \in BOOLEAN : canceled = (tasks[n].state = "canceled")
  OBVIOUS
<1>2. PICK t : t = [tasks[n] EXCEPT !.running = FALSE, !.ended = TRUE,
                      !.state = IF canceled THEN "canceled" ELSE "completed",
                      !.artifacts = IF canceled THEN <<>> ELSE Server.produces]
  OBVIOUS
<1>3. /\ tasks[n].running /\ tasks' = [tasks EXCEPT ![n] = t]
      /\ notified' = notified \cup {<<TaskNames[n], url>> : url \in Webhooks(TaskNames[n])}
      /\ call' = [c \in Clients |->
           IF call[c].pc = "waiting" /\ call[c].task = n
           THEN Answered(call[c], Ending(call[c], t)) ELSE call[c]]
      /\ UNCHANGED <<configs, replaced>>
  BY <1>1, <1>2 DEF Finish
<1>4. DOMAIN t = TaskFields /\ t.webhook = tasks[n].webhook /\ t.ended = TRUE
  BY <1>2 DEF HearInv, Shaped, TaskFields
<1>5. IsSeq(tasks') /\ Len(tasks') = Len(tasks) /\ DOMAIN tasks' = DOMAIN tasks
  <2>1. IsSeq(tasks)
    BY DEF HearInv, Shaped
  <2>2. PICK s : s = [tasks EXCEPT ![n] = t]
    OBVIOUS
  <2>3. IsSeq(s) /\ Len(s) = Len(tasks) /\ DOMAIN s = DOMAIN tasks
    BY <2>1, <2>2, SeqExcept, ZenonT(20)
  <2> QED
    BY <1>3, <2>2, <2>3
<1>6. tasks'[n] = t /\ \A m \in DOMAIN tasks : m # n => tasks'[m] = tasks[m]
  BY <1>3
<1>7. CallsQuiet
  <2>1. ASSUME NEW c \in Clients
        PROVE  /\ DOMAIN call'[c] = CallFields
               /\ Preparing(c)' => Preparing(c) /\ call'[c].task = call[c].task
    <3>1. DOMAIN call[c] = CallFields
      BY DEF HearInv, Shaped
    <3>2. CASE call[c].pc = "waiting" /\ call[c].task = n
      <4>1. PICK k : k = Answered(call[c], Ending(call[c], t))
        OBVIOUS
      <4>2. call'[c] = k
        BY <1>3, <3>2, <4>1
      <4>3. DOMAIN k = CallFields /\ k.pc = "answered"
        BY <3>1, <4>1, AnsweredShape
      <4> QED
        BY <4>2, <4>3 DEF Preparing
    <3>3. CASE ~(call[c].pc = "waiting" /\ call[c].task = n)
      <4>1. call'[c] = call[c]
        BY <1>3, <3>3
      <4> QED
        BY <3>1, <4>1 DEF Preparing
    <3> QED
      BY <3>2, <3>3
  <2>2. DOMAIN call' = Clients
    BY <1>3
  <2> QED
    BY <2>1, <2>2 DEF CallsQuiet
<1>8. Shaped'
  BY <1>3, <1>4, <1>5, <1>6, <1>7 DEF HearInv, Shaped, CallsQuiet
<1>9. TasksHeld'
  <2>1. ASSUME NEW d \in Clients, Preparing(d)'
        PROVE  /\ call'[d].task \in DOMAIN tasks'
               /\ tasks'[call'[d].task].running = FALSE /\ tasks'[call'[d].task].ended = FALSE
    <3>1. Preparing(d) /\ call'[d].task = call[d].task
      BY <1>7, <2>1 DEF CallsQuiet
    <3>2. PICK m : m = call[d].task
      OBVIOUS
    <3>3. m \in DOMAIN tasks /\ tasks[m].running = FALSE /\ tasks[m].ended = FALSE
      BY <3>1, <3>2 DEF HearInv, TasksHeld
    <3>4. m # n
      BY <1>3, <3>3
    <3> QED
      BY <1>5, <1>6, <3>1, <3>2, <3>3, <3>4
  <2>2. ASSUME NEW d \in Clients, NEW e \in Clients, Preparing(d)', Preparing(e)',
               call'[d].task = call'[e].task
        PROVE  d = e
    BY <1>7, <2>2 DEF CallsQuiet, HearInv, TasksHeld
  <2> QED
    BY <2>1, <2>2 DEF TasksHeld
<1>10. Listening'
  <2> SUFFICES ASSUME NEW m \in DOMAIN tasks, tasks'[m].webhook # Absent, tasks'[m].ended # TRUE
               PROVE  \/ tasks'[m].webhook \in Webhooks(TaskNames[m])'
                      \/ <<TaskNames[m], tasks'[m].webhook>> \in replaced'
    BY <1>5 DEF Listening
  <2>1. tasks'[m] = tasks[m]
    BY <1>4, <1>6
  <2> QED
    BY <1>3, <2>1 DEF HearInv, Listening, Webhooks
<1>11. InlineConfigHears'
  <2> SUFFICES ASSUME NEW m \in DOMAIN tasks, tasks'[m].ended, tasks'[m].webhook # Absent
               PROVE  <<TaskNames[m], tasks'[m].webhook>> \in notified' \cup replaced'
    BY <1>5 DEF InlineConfigHears
  <2>1. CASE m # n
    BY <1>3, <1>6, <2>1 DEF HearInv, InlineConfigHears
  <2>2. CASE m = n /\ tasks[n].ended # TRUE
    <3>1. tasks'[m].webhook = tasks[n].webhook /\ tasks[n].webhook # Absent
      BY <1>4, <1>6, <2>2
    <3>2. \/ tasks[n].webhook \in Webhooks(TaskNames[n])
          \/ <<TaskNames[n], tasks[n].webhook>> \in replaced
      BY <2>2, <3>1 DEF HearInv, Listening
    <3> QED
      BY <1>3, <2>2, <3>1, <3>2
  <2>3. CASE m = n /\ tasks[n].ended = TRUE
    <3>1. tasks'[m].webhook = tasks[n].webhook /\ tasks[n].webhook # Absent
      BY <1>4, <1>6, <2>3
    <3> QED
      BY <1>3, <2>3, <3>1 DEF HearInv, InlineConfigHears
  <2> QED
    BY <2>1, <2>2, <2>3
<1> QED
  BY <1>8, <1>9, <1>10, <1>11 DEF HearInv

(* Another setup changes nothing that the webhooks depend on; a new process ends *)
(* executions without an end to tell of.                                     *)
LEMMA ReconfigureHears ==
  ASSUME HearInv, Reconfigure
  PROVE  HearInv'
<1>1. UNCHANGED call /\ UNCHANGED stores
  BY DEF Reconfigure
<1> QED
  BY <1>1, SameCall, StoresKept, QuietStep

LEMMA RedeployHears ==
  ASSUME HearInv, Redeploy
  PROVE  HearInv'
<1>1. /\ tasks' = [n \in DOMAIN tasks |-> [tasks[n] EXCEPT !.running = FALSE]]
      /\ call' = [c \in Clients |->
           IF call[c].pc \in {"idle", "sent", "answered"} THEN call[c]
           ELSE [call[c] EXCEPT !.pc = "idle", !.result = Lost]]
      /\ UNCHANGED <<configs, notified, replaced>>
  BY DEF Redeploy
<1>2. TasksKept
  <2>1. PICK S : tasks \in Seq(S)
    BY DEF HearInv, Shaped, IsSeq
  <2>2. DOMAIN tasks = 1..Len(tasks) /\ Len(tasks) \in Nat
    BY <2>1
  <2>3. PICK T : T = {[tasks[n] EXCEPT !.running = FALSE] : n \in DOMAIN tasks}
    OBVIOUS
  <2>4. tasks' \in [1..Len(tasks) -> T]
    BY <1>1, <2>2, <2>3
  <2>5. tasks' \in Seq(T) /\ Len(tasks') = Len(tasks)
    BY <2>2, <2>4
  <2>6. ASSUME NEW n \in DOMAIN tasks
        PROVE  /\ DOMAIN tasks'[n] = TaskFields /\ tasks'[n].running = FALSE
               /\ tasks'[n].webhook = tasks[n].webhook /\ tasks'[n].ended = tasks[n].ended
    BY <1>1 DEF HearInv, Shaped, TaskFields
  <2> QED
    BY <2>5, <2>6 DEF TasksKept, IsSeq
<1>3. CallsQuiet
  <2>1. ASSUME NEW c \in Clients
        PROVE  DOMAIN call'[c] = CallFields /\ (Preparing(c)' => Preparing(c) /\ call'[c].task = call[c].task)
    <3>1. DOMAIN call[c] = CallFields
      BY DEF HearInv, Shaped
    <3>2. CASE call[c].pc \in {"idle", "sent", "answered"}
      BY <1>1, <3>1, <3>2 DEF Preparing
    <3>3. CASE call[c].pc \notin {"idle", "sent", "answered"}
      <4>1. PICK k : k = [call[c] EXCEPT !.pc = "idle", !.result = Lost]
        OBVIOUS
      <4>2. DOMAIN k = CallFields /\ k.pc = "idle"
        BY <3>1, <4>1 DEF CallFields
      <4>3. call'[c] = k
        BY <1>1, <3>3, <4>1
      <4> QED
        BY <4>2, <4>3 DEF Preparing
    <3> QED
      BY <3>2, <3>3
  <2>2. DOMAIN call' = Clients
    BY <1>1
  <2> QED
    BY <2>1, <2>2 DEF CallsQuiet
<1> QED
  BY <1>1, <1>2, <1>3, SameWebhooks, QuietStep
-----------------------------------------------------------------------------
LEMMA InitHears ==
  ASSUME Init
  PROVE  HearInv
<1>1. tasks = <<>> /\ call = [c \in Clients |-> NoCall]
      /\ configs = [name \in {TaskNames[i] : i \in DOMAIN TaskNames} |-> <<>>]
  BY DEF Init
<1>2. Len(TaskNames) \in Nat /\ IsSeq(<<>>) /\ Len(<<>>) = 0 /\ DOMAIN <<>> = {}
  <2>1. <<>> \in Seq({})
    OBVIOUS
  <2> QED
    BY <2>1, NamesAssumption DEF Listed, IsSeq
<1>3. DOMAIN NoCall = CallFields /\ NoCall.pc = "idle"
  BY DEF NoCall, CallFields
<1>4. Shaped
  BY <1>1, <1>2, <1>3 DEF Shaped
<1>5. \A c \in Clients : ~Preparing(c)
  BY <1>1, <1>3 DEF Preparing
<1> QED
  BY <1>1, <1>2, <1>4, <1>5 DEF HearInv, TasksHeld, Listening, InlineConfigHears

LEMMA ServeHears ==
  ASSUME HearInv, NEW c \in Clients, Serve(c)
  PROVE  HearInv'
<1>1. CASE GetTask(c) \/ ListTasks(c) \/ GetExtendedCard(c)
  BY <1>1, ReadingsHear
<1>2. CASE CancelTask(c)
  BY <1>2, CancelTaskHears
<1>3. CASE NoStore(c) \/ GetPushConfig(c) \/ ListPushConfigs(c)
  BY <1>3, PushReadingsHear
<1>4. CASE SetPushConfig(c)
  BY <1>4, SetPushConfigHears
<1>5. CASE DeletePushConfig(c)
  BY <1>5, DeletePushConfigHears
<1>6. CASE Resubscribe(c)
  BY <1>6, ResubscribeHears
<1>7. CASE CreateTask(c)
  BY <1>7, CreateTaskHears
<1>8. CASE RegisterInlinePushConfig(c)
  BY <1>8, RegisterHears
<1>9. CASE StartExecution(c)
  BY <1>9, StartExecutionHears
<1> QED
  BY <1>1, <1>2, <1>3, <1>4, <1>5, <1>6, <1>7, <1>8, <1>9 DEF Serve

LEMMA NextHears ==
  ASSUME HearInv, [Next]_vars
  PROVE  HearInv'
<1>1. CASE UNCHANGED vars
  <2>1. UNCHANGED call /\ UNCHANGED stores
    BY <1>1 DEF vars, stores
  <2> QED
    BY <2>1, SameCall, StoresKept, QuietStep
<1>2. ASSUME NEW c \in Clients,
             Resolve(c) \/ Ask(c) \/ Arrive(c) \/ Serve(c) \/ Lose(c) \/ Receive(c)
      PROVE  HearInv'
  BY <1>2, ResolveHears, AskHears, ArriveHears, ServeHears, LoseHears, ReceiveHears
<1>3. ASSUME NEW n \in DOMAIN tasks, Finish(n)
      PROVE  HearInv'
  BY <1>3, FinishHears
<1>4. CASE Reconfigure \/ Redeploy
  BY <1>4, ReconfigureHears, RedeployHears
<1> QED
  BY <1>1, <1>2, <1>3, <1>4 DEF Next

(* A webhook that came along with a message is told of the end of the execution, *)
(* unless a later call deleted or replaced it: registerInlinePushConfig comes    *)
(* between the making of the task and the start of its execution, whatever other  *)
(* callers do to the store in between.                                      *)
THEOREM InlineWebhooksHear == Spec => []InlineConfigHears
<1>1. Init => HearInv
  BY InitHears
<1>2. HearInv /\ [Next]_vars => HearInv'
  BY NextHears
<1>3. HearInv => InlineConfigHears
  BY DEF HearInv
<1> QED
  BY <1>1, <1>2, <1>3, PTL DEF Spec

(* Objects that agree but for the tenant.                                    *)
SameBut(p, r) ==
  \A f : f # "tenant" => /\ Has(p, f) <=> Has(r, f)
                         /\ Has(r, f) => p[f] = r[f]

LEMMA Merged ==
  ASSUME NEW p, NEW r, NEW f
  PROVE  /\ Has(p ++ r, f) <=> Has(p, f) \/ Has(r, f)
         /\ Has(p, f) => (p ++ r)[f] = p[f]
         /\ ~Has(p, f) /\ Has(r, f) => (p ++ r)[f] = r[f]
BY DEF ++, Has

LEMMA Optional ==
  ASSUME NEW g, NEW v, NEW f
  PROVE  /\ Has(Opt(g, v), f) <=> v # Absent /\ f = g
         /\ v # Absent => Opt(g, v)[g] = v
BY DEF Opt, Has, None

LEMMA LeftOut ==
  ASSUME NEW p, NEW fields, NEW f
  PROVE  /\ Has(Without(p, fields), f) <=> Has(p, f) /\ f \notin fields
         /\ Has(p, f) /\ f \notin fields => Without(p, fields)[f] = p[f]
BY DEF Without, Has

LEMMA NoFields ==
  ASSUME NEW f
  PROVE  ~Has(None, f)
BY DEF None, Has

LEMMA TenantAside ==
  ASSUME NEW p, NEW r, SameBut(p, r), NEW t
  PROVE  SameBut(Opt("tenant", t) ++ p, r) /\ SameBut(Without(p, {"tenant"}), r)
<1> SUFFICES ASSUME NEW f, f # "tenant"
             PROVE  /\ Has(Opt("tenant", t) ++ p, f) <=> Has(r, f)
                    /\ Has(r, f) => (Opt("tenant", t) ++ p)[f] = r[f]
                    /\ Has(Without(p, {"tenant"}), f) <=> Has(r, f)
                    /\ Has(r, f) => Without(p, {"tenant"})[f] = r[f]
  BY Zenon DEF SameBut
<1>1. (Has(p, f) <=> Has(r, f)) /\ (Has(r, f) => p[f] = r[f])
  BY DEF SameBut
<1>2. ~Has(Opt("tenant", t), f)
  BY Optional
<1>3. /\ Has(Opt("tenant", t) ++ p, f) <=> Has(p, f)
      /\ Has(p, f) => (Opt("tenant", t) ++ p)[f] = p[f]
  BY <1>2, Merged
<1>4. /\ Has(Without(p, {"tenant"}), f) <=> Has(p, f)
      /\ Has(p, f) => Without(p, {"tenant"})[f] = p[f]
  BY LeftOut
<1> QED
  BY <1>1, <1>3, <1>4

LEMMA Typed ==
  ASSUME NEW f, NEW v,
         f \notin NumberFields \cup BooleanFields \/ (f \in NumberFields /\ v \in 0..100)
  PROVE  ValueOf(f, TextOf(f, v)) = v
<1>1. CASE f \notin NumberFields \cup BooleanFields
  BY <1>1 DEF ValueOf, TextOf
<1>2. CASE f \in NumberFields /\ v \in 0..100
  <2>1. PICK t : t = TextOf(f, v)
    OBVIOUS
  <2>2. t = ToString(v)
    BY <1>2, <2>1 DEF TextOf
  <2>3. PICK n : n = NumberOf(t)
    OBVIOUS
  <2>4. n \in 0..100 /\ ToString(n) = t
    BY <1>2, <2>2, <2>3 DEF NumberOf
  <2>5. n = v
    BY <1>2, <2>2, <2>4, TextAssumption
  <2>6. ValueOf(f, t) = n
    BY <1>2, <2>3 DEF ValueOf, NumberFields, BooleanFields
  <2> QED
    BY <2>1, <2>5, <2>6
<1> QED
  BY <1>1, <1>2

LEMMA ThroughQuery ==
  ASSUME NEW p, \A f \in DOMAIN p : f \in NumberFields \cup BooleanFields => f \in NumberFields /\ p[f] \in 0..100
  PROVE  QueryParams(Query(p)) = [f \in DOMAIN p |-> p[f]]
<1>1. DOMAIN Query(p) = DOMAIN p /\ \A f \in DOMAIN p : Query(p)[f] = TextOf(f, p[f])
  BY DEF Query
<1>2. \A f \in DOMAIN p : ValueOf(f, TextOf(f, p[f])) = p[f]
  BY Typed
<1> QED
  BY <1>1, <1>2 DEF QueryParams
-----------------------------------------------------------------------------
LEMMA Behind ==
  ASSUME NEW S, NEW path \in Seq(S), Len(path) >= 1, path[1] \in RouteHeads,
         NEW at, at = <<>> \/ \E t : t \notin RouteHeads /\ at = <<t>>
  PROVE  SplitTenantPath(at \o path).path = path
<1>1. CASE at = <<>>
  <2>1. at \o path = path
    BY <1>1
  <2> QED
    BY <2>1 DEF SplitTenantPath
<1>2. ASSUME NEW t, t \notin RouteHeads, at = <<t>>
      PROVE  SplitTenantPath(at \o path).path = path
  <2>1. PICK T : T = S \cup {t}
    OBVIOUS
  <2>2. <<t>> \in Seq(T) /\ path \in Seq(T) /\ Len(<<t>>) = 1
    BY <2>1
  <2>3. PICK s : s = <<t>> \o path
    OBVIOUS
  <2>4. /\ s \in Seq(T) /\ Len(s) = 1 + Len(path)
        /\ s[1] = t /\ \A i \in 1..Len(path) : s[i + 1] = path[i]
    BY <2>2, <2>3, ConcatProperties
  <2>5. s[2] = path[1] /\ Len(s) # 1 /\ s[1] \notin RouteHeads
    BY <1>2, <2>2, <2>4
  <2>6. Tail(s) = path
    BY <2>2, <2>4
  <2> QED
    BY <1>2, <2>3, <2>5, <2>6 DEF SplitTenantPath
<1> QED
  BY <1>1, <1>2

LEMMA OneSegment ==
  ASSUME NEW a
  PROVE  /\ (Matches(<<a>>, <<"message:send">>) <=> a = "message:send")
         /\ (Matches(<<a>>, <<"message:stream">>) <=> a = "message:stream")
         /\ (Matches(<<a>>, <<"tasks">>) <=> a = "tasks")
         /\ (Matches(<<a>>, <<"extendedAgentCard">>) <=> a = "extendedAgentCard")
         /\ ~Matches(<<a>>, <<"tasks", "*">>)
         /\ ~Matches(<<a>>, <<"tasks", "*", ":cancel">>)
         /\ ~Matches(<<a>>, <<"tasks", "*", ":subscribe">>)
         /\ ~Matches(<<a>>, <<"tasks", "*", "pushNotificationConfigs">>)
         /\ ~Matches(<<a>>, <<"tasks", "*", "pushNotificationConfigs", "*">>)
<1>1. (Matches(<<a>>, <<"message:send">>) <=> a = "message:send")
  BY DEF Matches
<1>2. (Matches(<<a>>, <<"message:stream">>) <=> a = "message:stream")
  BY DEF Matches
<1>3. (Matches(<<a>>, <<"tasks">>) <=> a = "tasks")
  BY DEF Matches
<1>4. (Matches(<<a>>, <<"extendedAgentCard">>) <=> a = "extendedAgentCard")
  BY DEF Matches
<1>5. ~Matches(<<a>>, <<"tasks", "*">>)
  BY DEF Matches
<1>6. ~Matches(<<a>>, <<"tasks", "*", ":cancel">>)
  BY DEF Matches
<1>7. ~Matches(<<a>>, <<"tasks", "*", ":subscribe">>)
  BY DEF Matches
<1>8. ~Matches(<<a>>, <<"tasks", "*", "pushNotificationConfigs">>)
  BY DEF Matches
<1>9. ~Matches(<<a>>, <<"tasks", "*", "pushNotificationConfigs", "*">>)
  BY DEF Matches
<1> QED
  BY <1>1, <1>2, <1>3, <1>4, <1>5, <1>6, <1>7, <1>8, <1>9

LEMMA TwoSegments ==
  ASSUME NEW a, NEW b
  PROVE  /\ ~Matches(<<a, b>>, <<"message:send">>)
         /\ ~Matches(<<a, b>>, <<"message:stream">>)
         /\ ~Matches(<<a, b>>, <<"tasks">>)
         /\ ~Matches(<<a, b>>, <<"extendedAgentCard">>)
         /\ (Matches(<<a, b>>, <<"tasks", "*">>) <=> a = "tasks" /\ b # Blank)
         /\ ~Matches(<<a, b>>, <<"tasks", "*", ":cancel">>)
         /\ ~Matches(<<a, b>>, <<"tasks", "*", ":subscribe">>)
         /\ ~Matches(<<a, b>>, <<"tasks", "*", "pushNotificationConfigs">>)
         /\ ~Matches(<<a, b>>, <<"tasks", "*", "pushNotificationConfigs", "*">>)
<1>1. ~Matches(<<a, b>>, <<"message:send">>)
  BY DEF Matches
<1>2. ~Matches(<<a, b>>, <<"message:stream">>)
  BY DEF Matches
<1>3. ~Matches(<<a, b>>, <<"tasks">>)
  BY DEF Matches
<1>4. ~Matches(<<a, b>>, <<"extendedAgentCard">>)
  BY DEF Matches
<1>5. (Matches(<<a, b>>, <<"tasks", "*">>) <=> a = "tasks" /\ b # Blank)
  BY DEF Matches
<1>6. ~Matches(<<a, b>>, <<"tasks", "*", ":cancel">>)
  BY DEF Matches
<1>7. ~Matches(<<a, b>>, <<"tasks", "*", ":subscribe">>)
  BY DEF Matches
<1>8. ~Matches(<<a, b>>, <<"tasks", "*", "pushNotificationConfigs">>)
  BY DEF Matches
<1>9. ~Matches(<<a, b>>, <<"tasks", "*", "pushNotificationConfigs", "*">>)
  BY DEF Matches
<1> QED
  BY <1>1, <1>2, <1>3, <1>4, <1>5, <1>6, <1>7, <1>8, <1>9

LEMMA ThreeSegments ==
  ASSUME NEW a, NEW b, NEW c
  PROVE  /\ ~Matches(<<a, b, c>>, <<"message:send">>)
         /\ ~Matches(<<a, b, c>>, <<"message:stream">>)
         /\ ~Matches(<<a, b, c>>, <<"tasks">>)
         /\ ~Matches(<<a, b, c>>, <<"extendedAgentCard">>)
         /\ ~Matches(<<a, b, c>>, <<"tasks", "*">>)
         /\ (Matches(<<a, b, c>>, <<"tasks", "*", ":cancel">>) <=> a = "tasks" /\ b # Blank /\ c = ":cancel")
         /\ (Matches(<<a, b, c>>, <<"tasks", "*", ":subscribe">>) <=> a = "tasks" /\ b # Blank /\ c = ":subscribe")
         /\ (Matches(<<a, b, c>>, <<"tasks", "*", "pushNotificationConfigs">>) <=> a = "tasks" /\ b # Blank /\ c = "pushNotificationConfigs")
         /\ ~Matches(<<a, b, c>>, <<"tasks", "*", "pushNotificationConfigs", "*">>)
<1>1. ~Matches(<<a, b, c>>, <<"message:send">>)
  BY DEF Matches
<1>2. ~Matches(<<a, b, c>>, <<"message:stream">>)
  BY DEF Matches
<1>3. ~Matches(<<a, b, c>>, <<"tasks">>)
  BY DEF Matches
<1>4. ~Matches(<<a, b, c>>, <<"extendedAgentCard">>)
  BY DEF Matches
<1>5. ~Matches(<<a, b, c>>, <<"tasks", "*">>)
  BY DEF Matches
<1>6. (Matches(<<a, b, c>>, <<"tasks", "*", ":cancel">>) <=> a = "tasks" /\ b # Blank /\ c = ":cancel")
  BY DEF Matches
<1>7. (Matches(<<a, b, c>>, <<"tasks", "*", ":subscribe">>) <=> a = "tasks" /\ b # Blank /\ c = ":subscribe")
  BY DEF Matches
<1>8. (Matches(<<a, b, c>>, <<"tasks", "*", "pushNotificationConfigs">>) <=> a = "tasks" /\ b # Blank /\ c = "pushNotificationConfigs")
  BY DEF Matches
<1>9. ~Matches(<<a, b, c>>, <<"tasks", "*", "pushNotificationConfigs", "*">>)
  BY DEF Matches
<1> QED
  BY <1>1, <1>2, <1>3, <1>4, <1>5, <1>6, <1>7, <1>8, <1>9

LEMMA FourSegments ==
  ASSUME NEW a, NEW b, NEW c, NEW d
  PROVE  /\ ~Matches(<<a, b, c, d>>, <<"message:send">>)
         /\ ~Matches(<<a, b, c, d>>, <<"message:stream">>)
         /\ ~Matches(<<a, b, c, d>>, <<"tasks">>)
         /\ ~Matches(<<a, b, c, d>>, <<"extendedAgentCard">>)
         /\ ~Matches(<<a, b, c, d>>, <<"tasks", "*">>)
         /\ ~Matches(<<a, b, c, d>>, <<"tasks", "*", ":cancel">>)
         /\ ~Matches(<<a, b, c, d>>, <<"tasks", "*", ":subscribe">>)
         /\ ~Matches(<<a, b, c, d>>, <<"tasks", "*", "pushNotificationConfigs">>)
         /\ (Matches(<<a, b, c, d>>, <<"tasks", "*", "pushNotificationConfigs", "*">>) <=> a = "tasks" /\ b # Blank /\ c = "pushNotificationConfigs" /\ d # Blank)
<1>1. ~Matches(<<a, b, c, d>>, <<"message:send">>)
  BY DEF Matches
<1>2. ~Matches(<<a, b, c, d>>, <<"message:stream">>)
  BY DEF Matches
<1>3. ~Matches(<<a, b, c, d>>, <<"tasks">>)
  BY DEF Matches
<1>4. ~Matches(<<a, b, c, d>>, <<"extendedAgentCard">>)
  BY DEF Matches
<1>5. ~Matches(<<a, b, c, d>>, <<"tasks", "*">>)
  BY DEF Matches
<1>6. ~Matches(<<a, b, c, d>>, <<"tasks", "*", ":cancel">>)
  BY DEF Matches
<1>7. ~Matches(<<a, b, c, d>>, <<"tasks", "*", ":subscribe">>)
  BY DEF Matches
<1>8. ~Matches(<<a, b, c, d>>, <<"tasks", "*", "pushNotificationConfigs">>)
  BY DEF Matches
<1>9. (Matches(<<a, b, c, d>>, <<"tasks", "*", "pushNotificationConfigs", "*">>) <=> a = "tasks" /\ b # Blank /\ c = "pushNotificationConfigs" /\ d # Blank)
  BY DEF Matches
<1> QED
  BY <1>1, <1>2, <1>3, <1>4, <1>5, <1>6, <1>7, <1>8, <1>9

Routes(op, params) == [op |-> op, params |-> params]

LEMMA RoutesOfOne ==
  ASSUME NEW query, NEW body
  PROVE  /\ Routed("POST", <<"message:send">>, query, body) = Routes("SEND_MESSAGE", body)
         /\ Routed("POST", <<"message:stream">>, query, body) = Routes("STREAM_MESSAGE", body)
         /\ Routed("GET", <<"tasks">>, query, body) = Routes("LIST_TASKS", query)
         /\ Routed("GET", <<"extendedAgentCard">>, query, body) = Routes("GET_EXTENDED_CARD", query)
BY OneSegment DEF Routed, Routes

LEMMA RouteOfTwo ==
  ASSUME NEW query, NEW body, NEW x
  PROVE  Routed("GET", <<"tasks", x>>, query, body) \in
           {NoRoute, Routes("GET_TASK", query ++ [id |-> x])}
BY TwoSegments DEF Routed, Routes

LEMMA RoutesOfThree ==
  ASSUME NEW query, NEW body, NEW x
  PROVE  /\ Routed("POST", <<"tasks", x, ":cancel">>, query, body) \in
              {NoRoute, Routes("CANCEL_TASK", [id |-> x] ++ body)}
         /\ Routed("POST", <<"tasks", x, ":subscribe">>, query, body) \in
              {NoRoute, Routes("RESUBSCRIBE", [id |-> x] ++ body)}
         /\ Routed("POST", <<"tasks", x, "pushNotificationConfigs">>, query, body) \in
              {NoRoute, Routes("SET_PUSH_CONFIG", [taskId |-> x] ++ body)}
         /\ Routed("GET", <<"tasks", x, "pushNotificationConfigs">>, query, body) \in
              {NoRoute, Routes("LIST_PUSH_CONFIGS", query ++ [taskId |-> x])}
<1>1. Routed("POST", <<"tasks", x, ":cancel">>, query, body) \in
              {NoRoute, Routes("CANCEL_TASK", [id |-> x] ++ body)}
  BY ThreeSegments DEF Routed, Routes
<1>2. Routed("POST", <<"tasks", x, ":subscribe">>, query, body) \in
              {NoRoute, Routes("RESUBSCRIBE", [id |-> x] ++ body)}
  BY ThreeSegments DEF Routed, Routes
<1>3. Routed("POST", <<"tasks", x, "pushNotificationConfigs">>, query, body) \in
              {NoRoute, Routes("SET_PUSH_CONFIG", [taskId |-> x] ++ body)}
  BY ThreeSegments DEF Routed, Routes
<1>4. Routed("GET", <<"tasks", x, "pushNotificationConfigs">>, query, body) \in
              {NoRoute, Routes("LIST_PUSH_CONFIGS", query ++ [taskId |-> x])}
  BY ThreeSegments DEF Routed, Routes
<1> QED
  BY <1>1, <1>2, <1>3, <1>4

LEMMA RoutesOfFour ==
  ASSUME NEW query, NEW body, NEW x, NEW y
  PROVE  /\ Routed("GET", <<"tasks", x, "pushNotificationConfigs", y>>, query, body) \in
              {NoRoute, Routes("GET_PUSH_CONFIG", [taskId |-> x, id |-> y] ++ query)}
         /\ Routed("DELETE", <<"tasks", x, "pushNotificationConfigs", y>>, query, body) \in
              {NoRoute, Routes("DELETE_PUSH_CONFIG", [taskId |-> x, id |-> y] ++ query)}
<1>1. Routed("GET", <<"tasks", x, "pushNotificationConfigs", y>>, query, body) \in
              {NoRoute, Routes("GET_PUSH_CONFIG", [taskId |-> x, id |-> y] ++ query)}
  BY FourSegments DEF Routed, Routes
<1>2. Routed("DELETE", <<"tasks", x, "pushNotificationConfigs", y>>, query, body) \in
              {NoRoute, Routes("DELETE_PUSH_CONFIG", [taskId |-> x, id |-> y] ++ query)}
  BY FourSegments DEF Routed, Routes
<1> QED
  BY <1>1, <1>2

LEMMA NoneBehindBlank ==
  ASSUME NEW query, NEW body, NEW x, NEW y, y = Blank
  PROVE  Routed("DELETE", <<"tasks", x, "pushNotificationConfigs", y>>, query, body) = NoRoute
BY FourSegments DEF Routed

(* The operation found behind a tenant.                                      *)
Behindable(at, path) ==
  /\ IsSeq(path) /\ Len(path) >= 1 /\ path[1] \in RouteHeads
  /\ at = <<>> \/ \E t : t \notin RouteHeads /\ at = <<t>>
Leads(method, path, query, body, op, params) ==
  Routed(method, path, QueryParams(query), body) \in {NoRoute, Routes(op, params)}
FoundAt(method, at, path, query, body) == ResolveRoute(Http(method, at \o path, query, body))

LEMMA Resolved ==
  ASSUME NEW at, NEW path, Behindable(at, path),
         NEW method, NEW query, NEW body, NEW op, op # "none", NEW params,
         Leads(method, path, query, body, op, params), NEW p, SameBut(params, p),
         FoundAt(method, at, path, query, body) # NoRoute
  PROVE  /\ FoundAt(method, at, path, query, body).op = op
         /\ SameBut(FoundAt(method, at, path, query, body).params, p)
         /\ Routed(method, path, QueryParams(query), body) # NoRoute
<1>1. PICK http : http = Http(method, at \o path, query, body)
  OBVIOUS
<1>2. http.method = method /\ http.path = at \o path /\ http.query = query /\ http.body = body
  BY <1>1 DEF Http
<1>3. PICK split : split = SplitTenantPath(http.path)
  OBVIOUS
<1>4. split.path = path
  <2>1. PICK S : path \in Seq(S)
    BY DEF Behindable, IsSeq
  <2> QED
    BY <1>2, <1>3, <2>1, Behind DEF Behindable
<1>5. PICK route : route = Routed(http.method, split.path, QueryParams(http.query), http.body)
  OBVIOUS
<1>9. PICK heard : heard = FoundAt(method, at, path, query, body)
  OBVIOUS
<1>6. heard = IF route = NoRoute THEN NoRoute
              ELSE [route EXCEPT !.params = Opt("tenant", split.tenant) ++ @]
  BY <1>1, <1>3, <1>5, <1>9 DEF ResolveRoute, FoundAt
<1>7. route # NoRoute /\ route = Routes(op, params)
  BY <1>2, <1>4, <1>5, <1>6, <1>9 DEF Leads
<1>8. heard.op = op /\ heard.params = Opt("tenant", split.tenant) ++ params
  BY <1>6, <1>7 DEF Routes
<1> QED
  BY <1>2, <1>4, <1>5, <1>7, <1>8, <1>9, TenantAside

LEMMA Append4 ==
  ASSUME NEW a, NEW b, NEW c, NEW d
  PROVE  Append(<<a, b, c>>, d) = <<a, b, c, d>>
<1>1. PICK s : s = <<a, b, c>>
  OBVIOUS
<1>2. s \in Seq({a, b, c, d}) /\ Len(s) = 3 /\ s[1] = a /\ s[2] = b /\ s[3] = c
  BY <1>1
<1>3. PICK t : t = Append(s, d)
  OBVIOUS
<1>4. t \in Seq({a, b, c, d}) /\ Len(t) = 4 /\ t[1] = a /\ t[2] = b /\ t[3] = c /\ t[4] = d
  BY <1>2, <1>3
<1>5. PICK u : u = <<a, b, c, d>>
  OBVIOUS
<1>6. u \in Seq({a, b, c, d}) /\ Len(u) = 4 /\ u[1] = a /\ u[2] = b /\ u[3] = c /\ u[4] = d
  BY <1>5
<1>7. DOMAIN t = 1..4 /\ DOMAIN u = 1..4
  BY <1>4, <1>6
<1>8. \A i \in 1..4 : t[i] = u[i]
  BY <1>4, <1>6
<1>9. t = u
  BY <1>4, <1>6, <1>7, <1>8
<1> QED
  BY <1>1, <1>3, <1>5, <1>9

LEMMA Overlaid ==
  ASSUME NEW p, NEW r, NEW o,
         \A f : Has(o, f) => Has(p, f) /\ o[f] = p[f],
         \A f : f # "tenant" =>
           /\ Has(p, f) <=> Has(r, f) \/ Has(o, f)
           /\ Has(r, f) => r[f] = p[f]
  PROVE  SameBut(o ++ r, p) /\ SameBut(r ++ o, p)
<1> SUFFICES ASSUME NEW f, f # "tenant"
             PROVE  /\ Has(o ++ r, f) <=> Has(p, f)
                    /\ Has(p, f) => (o ++ r)[f] = p[f]
                    /\ Has(r ++ o, f) <=> Has(p, f)
                    /\ Has(p, f) => (r ++ o)[f] = p[f]
  BY Zenon DEF SameBut
<1>1. /\ Has(o ++ r, f) <=> Has(o, f) \/ Has(r, f)
      /\ Has(o, f) => (o ++ r)[f] = o[f]
      /\ ~Has(o, f) /\ Has(r, f) => (o ++ r)[f] = r[f]
  BY Merged
<1>2. /\ Has(r ++ o, f) <=> Has(r, f) \/ Has(o, f)
      /\ Has(r, f) => (r ++ o)[f] = r[f]
      /\ ~Has(r, f) /\ Has(o, f) => (r ++ o)[f] = o[f]
  BY Merged
<1> QED
  BY <1>1, <1>2

LEMMA Bodies ==
  ASSUME NEW p, NEW r, r = Without(p, {"tenant"})
  PROVE  /\ SameBut(r, p)
         /\ Has(p, "id") => SameBut([id |-> p["id"]] ++ r, p)
         /\ Has(p, "taskId") => SameBut([taskId |-> p["taskId"]] ++ r, p)
<1>1. SameBut(p, p)
  BY DEF SameBut
<1>2. SameBut(r, p)
  BY <1>1, TenantAside
<1>3. ASSUME NEW g, Has(p, g), NEW o, DOMAIN o = {g}, o[g] = p[g]
      PROVE  SameBut(o ++ r, p)
  <2>1. \A f : Has(o, f) => Has(p, f) /\ o[f] = p[f]
    BY <1>3 DEF Has
  <2>2. \A f : f # "tenant" => (Has(p, f) <=> Has(r, f) \/ Has(o, f)) /\ (Has(r, f) => r[f] = p[f])
    BY <1>2, <2>1 DEF SameBut
  <2> QED
    BY <2>1, <2>2, Overlaid
<1>4. Has(p, "id") => SameBut([id |-> p["id"]] ++ r, p)
  <2>1. PICK o : o = [id |-> p["id"]]
    OBVIOUS
  <2>2. DOMAIN o = {"id"} /\ o["id"] = p["id"]
    BY <2>1
  <2> QED
    BY <1>3, <2>1, <2>2
<1>5. Has(p, "taskId") => SameBut([taskId |-> p["taskId"]] ++ r, p)
  <2>1. PICK o : o = [taskId |-> p["taskId"]]
    OBVIOUS
  <2>2. DOMAIN o = {"taskId"} /\ o["taskId"] = p["taskId"]
    BY <2>1
  <2> QED
    BY <1>3, <2>1, <2>2
<1> QED
  BY <1>2, <1>4, <1>5

(* A query carries what the path does not.                                   *)
Queried(p) == \A f \in DOMAIN p \cap (NumberFields \cup BooleanFields) : f \in NumberFields /\ p[f] \in 0..100

LEMMA Queries ==
  ASSUME NEW p, Queried(p), NEW named, NEW r,
         r = QueryParams(Query(Without(Without(p, {"tenant"}), named))),
         NEW o, DOMAIN o = named, \A f \in named : Has(p, f) /\ o[f] = p[f]
  PROVE  SameBut(o ++ r, p) /\ SameBut(r ++ o, p)
<1>1. PICK w : w = Without(Without(p, {"tenant"}), named)
  OBVIOUS
<1>2. ASSUME NEW f
      PROVE  /\ Has(w, f) <=> Has(p, f) /\ f # "tenant" /\ f \notin named
             /\ Has(w, f) => w[f] = p[f]
  <2>1. PICK u : u = Without(p, {"tenant"})
    OBVIOUS
  <2>2. (Has(u, f) <=> Has(p, f) /\ f # "tenant") /\ (Has(u, f) => u[f] = p[f])
    BY <2>1, LeftOut
  <2>3. (Has(w, f) <=> Has(u, f) /\ f \notin named) /\ (Has(w, f) => w[f] = u[f])
    BY <1>1, <2>1, LeftOut
  <2> QED
    BY <2>2, <2>3
<1>3. r = [f \in DOMAIN w |-> w[f]]
  <2>1. \A f \in DOMAIN w : f \in NumberFields \cup BooleanFields => f \in NumberFields /\ w[f] \in 0..100
    BY <1>2 DEF Queried, Has
  <2> QED
    BY <1>1, <2>1, ThroughQuery
<1>4. \A f : (Has(r, f) <=> Has(w, f)) /\ (Has(w, f) => r[f] = w[f])
  BY <1>3 DEF Has
<1>5. \A f : Has(o, f) => Has(p, f) /\ o[f] = p[f]
  BY DEF Has
<1>6. \A f : Has(o, f) <=> f \in named
  BY DEF Has
<1>7. \A f : f # "tenant" => (Has(p, f) <=> Has(r, f) \/ Has(o, f)) /\ (Has(r, f) => r[f] = p[f])
  BY <1>2, <1>4, <1>5, <1>6
<1> QED
  BY <1>5, <1>7, Overlaid

LEMMA QueryAlone ==
  ASSUME NEW p, Queried(p), NEW r, r = QueryParams(Query(Without(Without(p, {"tenant"}), {})))
  PROVE  SameBut(r, p)
<1>1. PICK o : o = [f \in {} |-> f]
  OBVIOUS
<1>2. DOMAIN o = {} /\ \A f : ~Has(o, f)
  BY <1>1 DEF Has
<1>3. SameBut(r ++ o, p)
  BY <1>2, Queries
<1>4. \A f : (Has(r ++ o, f) <=> Has(r, f)) /\ (Has(r, f) => (r ++ o)[f] = r[f])
  BY <1>2, Merged
<1> QED
  BY <1>3, <1>4 DEF SameBut

(* What goes over HTTP+JSON arrives, unless no route is found.                *)
LEMMA RestCarries ==
  ASSUME NEW op \in Ops, NEW p, Has(p, "tenant") => p["tenant"] \notin RouteHeads,
         op \in {"GET_TASK", "CANCEL_TASK", "RESUBSCRIBE"} \cup ConfigOps => Has(p, "id"),
         op \in PushOps => Has(p, "taskId"),
         Queried(p) \/ op \in SendOps,
         NEW heard, heard = ResolveRoute(BuildRestRequest(op, p)), heard # NoRoute
  PROVE  heard.op = op /\ SameBut(heard.params, p) /\ (op = "DELETE_PUSH_CONFIG" => p["id"] # Blank)
<1>1. PICK at : at = IF Filled(p, "tenant") THEN <<p["tenant"]>> ELSE <<>>
  OBVIOUS
<1>2. at = <<>> \/ \E t : t \notin RouteHeads /\ at = <<t>>
  BY <1>1 DEF Filled
<1>3. PICK r : r = Without(p, {"tenant"})
  OBVIOUS
<1>4. op # "none"
  BY DEF Ops, SendOps, PushOps, ConfigOps
<1>5. CASE op = "SEND_MESSAGE"
  <2>1. BuildRestRequest(op, p) = Http("POST", at \o <<"message:send">>, None, r)
    BY <1>1, <1>3, <1>5 DEF BuildRestRequest, PushPath, Field, PushOps, ConfigOps
  <2>2. PICK path : path = <<"message:send">>
    OBVIOUS
  <2>3. Behindable(at, path)
    <3>1. path \in Seq({"message:send"}) /\ Len(path) >= 1 /\ path[1] \in RouteHeads
      BY <2>2 DEF RouteHeads
    <3> QED
      BY <1>2, <3>1 DEF Behindable, IsSeq
  <2>4. PICK query : query = None
    OBVIOUS
  <2>5. PICK params : params = r
    OBVIOUS
  <2>6. SameBut(params, p)
    BY <1>3, <2>5, Bodies
  <2>7. Leads("POST", path, query, r, op, params)
    BY <1>5, <2>2, <2>4, <2>5, RoutesOfOne DEF Leads
  <2>8. heard = FoundAt("POST", at, path, query, r)
    BY <2>1, <2>2, <2>4 DEF FoundAt
  <2>9. /\ heard.op = op /\ SameBut(heard.params, p)
        /\ Routed("POST", path, QueryParams(query), r) # NoRoute
    BY <1>4, <2>3, <2>6, <2>7, <2>8, Resolved
  <2> QED
    BY <1>5, <2>9
<1>6. CASE op = "STREAM_MESSAGE"
  <2>1. BuildRestRequest(op, p) = Http("POST", at \o <<"message:stream">>, None, r)
    BY <1>1, <1>3, <1>6 DEF BuildRestRequest, PushPath, Field, PushOps, ConfigOps
  <2>2. PICK path : path = <<"message:stream">>
    OBVIOUS
  <2>3. Behindable(at, path)
    <3>1. path \in Seq({"message:stream"}) /\ Len(path) >= 1 /\ path[1] \in RouteHeads
      BY <2>2 DEF RouteHeads
    <3> QED
      BY <1>2, <3>1 DEF Behindable, IsSeq
  <2>4. PICK query : query = None
    OBVIOUS
  <2>5. PICK params : params = r
    OBVIOUS
  <2>6. SameBut(params, p)
    BY <1>3, <2>5, Bodies
  <2>7. Leads("POST", path, query, r, op, params)
    BY <1>6, <2>2, <2>4, <2>5, RoutesOfOne DEF Leads
  <2>8. heard = FoundAt("POST", at, path, query, r)
    BY <2>1, <2>2, <2>4 DEF FoundAt
  <2>9. /\ heard.op = op /\ SameBut(heard.params, p)
        /\ Routed("POST", path, QueryParams(query), r) # NoRoute
    BY <1>4, <2>3, <2>6, <2>7, <2>8, Resolved
  <2> QED
    BY <1>6, <2>9
<1>7. CASE op = "LIST_TASKS"
  <2>1. BuildRestRequest(op, p) = Http("GET", at \o <<"tasks">>, Query(Without(r, {})), None)
    BY <1>1, <1>3, <1>7 DEF BuildRestRequest, PushPath, Field, PushOps, ConfigOps
  <2>2. PICK path : path = <<"tasks">>
    OBVIOUS
  <2>3. Behindable(at, path)
    <3>1. path \in Seq({"tasks"}) /\ Len(path) >= 1 /\ path[1] \in RouteHeads
      BY <2>2 DEF RouteHeads
    <3> QED
      BY <1>2, <3>1 DEF Behindable, IsSeq
  <2>4. PICK query : query = Query(Without(r, {}))
    OBVIOUS
  <2>5. PICK params : params = QueryParams(query)
    OBVIOUS
  <2>6. SameBut(params, p)
    BY <1>3, <1>7, <2>4, <2>5, QueryAlone DEF SendOps
  <2>7. Leads("GET", path, query, None, op, params)
    BY <1>7, <2>2, <2>4, <2>5, RoutesOfOne DEF Leads
  <2>8. heard = FoundAt("GET", at, path, query, None)
    BY <2>1, <2>2, <2>4 DEF FoundAt
  <2>9. /\ heard.op = op /\ SameBut(heard.params, p)
        /\ Routed("GET", path, QueryParams(query), None) # NoRoute
    BY <1>4, <2>3, <2>6, <2>7, <2>8, Resolved
  <2> QED
    BY <1>7, <2>9
<1>8. CASE op = "GET_EXTENDED_CARD"
  <2>1. BuildRestRequest(op, p) = Http("GET", at \o <<"extendedAgentCard">>, Query(Without(r, {})), None)
    BY <1>1, <1>3, <1>8 DEF BuildRestRequest, PushPath, Field, PushOps, ConfigOps
  <2>2. PICK path : path = <<"extendedAgentCard">>
    OBVIOUS
  <2>3. Behindable(at, path)
    <3>1. path \in Seq({"extendedAgentCard"}) /\ Len(path) >= 1 /\ path[1] \in RouteHeads
      BY <2>2 DEF RouteHeads
    <3> QED
      BY <1>2, <3>1 DEF Behindable, IsSeq
  <2>4. PICK query : query = Query(Without(r, {}))
    OBVIOUS
  <2>5. PICK params : params = QueryParams(query)
    OBVIOUS
  <2>6. SameBut(params, p)
    BY <1>3, <1>8, <2>4, <2>5, QueryAlone DEF SendOps
  <2>7. Leads("GET", path, query, None, op, params)
    BY <1>8, <2>2, <2>4, <2>5, RoutesOfOne DEF Leads
  <2>8. heard = FoundAt("GET", at, path, query, None)
    BY <2>1, <2>2, <2>4 DEF FoundAt
  <2>9. /\ heard.op = op /\ SameBut(heard.params, p)
        /\ Routed("GET", path, QueryParams(query), None) # NoRoute
    BY <1>4, <2>3, <2>6, <2>7, <2>8, Resolved
  <2> QED
    BY <1>8, <2>9
<1>9. CASE op = "GET_TASK"
  <2>1. BuildRestRequest(op, p) = Http("GET", at \o <<"tasks", p["id"]>>, Query(Without(r, {"id"})), None)
    BY <1>1, <1>3, <1>9 DEF BuildRestRequest, PushPath, Field, PushOps, ConfigOps
  <2>2. PICK path : path = <<"tasks", p["id"]>>
    OBVIOUS
  <2>3. Behindable(at, path)
    <3>1. path \in Seq({"tasks", p["id"]}) /\ Len(path) >= 1 /\ path[1] \in RouteHeads
      BY <2>2 DEF RouteHeads
    <3> QED
      BY <1>2, <3>1 DEF Behindable, IsSeq
  <2>4. PICK query : query = Query(Without(r, {"id"}))
    OBVIOUS
  <2>5. PICK params : params = QueryParams(query) ++ [id |-> p["id"]]
    OBVIOUS
  <2>6. SameBut(params, p)
    BY <1>3, <1>9, <2>4, <2>5, Queries DEF SendOps
  <2>7. Leads("GET", path, query, None, op, params)
    BY <1>9, <2>2, <2>4, <2>5, RouteOfTwo DEF Leads
  <2>8. heard = FoundAt("GET", at, path, query, None)
    BY <2>1, <2>2, <2>4 DEF FoundAt
  <2>9. /\ heard.op = op /\ SameBut(heard.params, p)
        /\ Routed("GET", path, QueryParams(query), None) # NoRoute
    BY <1>4, <2>3, <2>6, <2>7, <2>8, Resolved
  <2> QED
    BY <1>9, <2>9
<1>10. CASE op = "CANCEL_TASK"
  <2>1. BuildRestRequest(op, p) = Http("POST", at \o <<"tasks", p["id"], ":cancel">>, None, r)
    BY <1>1, <1>3, <1>10 DEF BuildRestRequest, PushPath, Field, PushOps, ConfigOps
  <2>2. PICK path : path = <<"tasks", p["id"], ":cancel">>
    OBVIOUS
  <2>3. Behindable(at, path)
    <3>1. path \in Seq({"tasks", p["id"], ":cancel"}) /\ Len(path) >= 1 /\ path[1] \in RouteHeads
      BY <2>2 DEF RouteHeads
    <3> QED
      BY <1>2, <3>1 DEF Behindable, IsSeq
  <2>4. PICK query : query = None
    OBVIOUS
  <2>5. PICK params : params = [id |-> p["id"]] ++ r
    OBVIOUS
  <2>6. SameBut(params, p)
    BY <1>3, <1>10, <2>5, Bodies
  <2>7. Leads("POST", path, query, r, op, params)
    BY <1>10, <2>2, <2>4, <2>5, RoutesOfThree DEF Leads
  <2>8. heard = FoundAt("POST", at, path, query, r)
    BY <2>1, <2>2, <2>4 DEF FoundAt
  <2>9. /\ heard.op = op /\ SameBut(heard.params, p)
        /\ Routed("POST", path, QueryParams(query), r) # NoRoute
    BY <1>4, <2>3, <2>6, <2>7, <2>8, Resolved
  <2> QED
    BY <1>10, <2>9
<1>11. CASE op = "RESUBSCRIBE"
  <2>1. BuildRestRequest(op, p) = Http("POST", at \o <<"tasks", p["id"], ":subscribe">>, None, r)
    BY <1>1, <1>3, <1>11 DEF BuildRestRequest, PushPath, Field, PushOps, ConfigOps
  <2>2. PICK path : path = <<"tasks", p["id"], ":subscribe">>
    OBVIOUS
  <2>3. Behindable(at, path)
    <3>1. path \in Seq({"tasks", p["id"], ":subscribe"}) /\ Len(path) >= 1 /\ path[1] \in RouteHeads
      BY <2>2 DEF RouteHeads
    <3> QED
      BY <1>2, <3>1 DEF Behindable, IsSeq
  <2>4. PICK query : query = None
    OBVIOUS
  <2>5. PICK params : params = [id |-> p["id"]] ++ r
    OBVIOUS
  <2>6. SameBut(params, p)
    BY <1>3, <1>11, <2>5, Bodies
  <2>7. Leads("POST", path, query, r, op, params)
    BY <1>11, <2>2, <2>4, <2>5, RoutesOfThree DEF Leads
  <2>8. heard = FoundAt("POST", at, path, query, r)
    BY <2>1, <2>2, <2>4 DEF FoundAt
  <2>9. /\ heard.op = op /\ SameBut(heard.params, p)
        /\ Routed("POST", path, QueryParams(query), r) # NoRoute
    BY <1>4, <2>3, <2>6, <2>7, <2>8, Resolved
  <2> QED
    BY <1>11, <2>9
<1>12. CASE op = "SET_PUSH_CONFIG"
  <2>1. BuildRestRequest(op, p) = Http("POST", at \o <<"tasks", p["taskId"], "pushNotificationConfigs">>, None, r)
    BY <1>1, <1>3, <1>12 DEF BuildRestRequest, PushPath, Field, PushOps, ConfigOps
  <2>2. PICK path : path = <<"tasks", p["taskId"], "pushNotificationConfigs">>
    OBVIOUS
  <2>3. Behindable(at, path)
    <3>1. path \in Seq({"tasks", p["taskId"], "pushNotificationConfigs"}) /\ Len(path) >= 1 /\ path[1] \in RouteHeads
      BY <2>2 DEF RouteHeads
    <3> QED
      BY <1>2, <3>1 DEF Behindable, IsSeq
  <2>4. PICK query : query = None
    OBVIOUS
  <2>5. PICK params : params = [taskId |-> p["taskId"]] ++ r
    OBVIOUS
  <2>6. SameBut(params, p)
    BY <1>3, <1>12, <2>5, Bodies DEF PushOps
  <2>7. Leads("POST", path, query, r, op, params)
    BY <1>12, <2>2, <2>4, <2>5, RoutesOfThree DEF Leads
  <2>8. heard = FoundAt("POST", at, path, query, r)
    BY <2>1, <2>2, <2>4 DEF FoundAt
  <2>9. /\ heard.op = op /\ SameBut(heard.params, p)
        /\ Routed("POST", path, QueryParams(query), r) # NoRoute
    BY <1>4, <2>3, <2>6, <2>7, <2>8, Resolved
  <2> QED
    BY <1>12, <2>9
<1>13. CASE op = "LIST_PUSH_CONFIGS"
  <2>1. BuildRestRequest(op, p) = Http("GET", at \o <<"tasks", p["taskId"], "pushNotificationConfigs">>, Query(Without(r, {"taskId"})), None)
    BY <1>1, <1>3, <1>13 DEF BuildRestRequest, PushPath, Field, PushOps, ConfigOps
  <2>2. PICK path : path = <<"tasks", p["taskId"], "pushNotificationConfigs">>
    OBVIOUS
  <2>3. Behindable(at, path)
    <3>1. path \in Seq({"tasks", p["taskId"], "pushNotificationConfigs"}) /\ Len(path) >= 1 /\ path[1] \in RouteHeads
      BY <2>2 DEF RouteHeads
    <3> QED
      BY <1>2, <3>1 DEF Behindable, IsSeq
  <2>4. PICK query : query = Query(Without(r, {"taskId"}))
    OBVIOUS
  <2>5. PICK params : params = QueryParams(query) ++ [taskId |-> p["taskId"]]
    OBVIOUS
  <2>6. SameBut(params, p)
    BY <1>3, <1>13, <2>4, <2>5, Queries DEF SendOps, PushOps
  <2>7. Leads("GET", path, query, None, op, params)
    BY <1>13, <2>2, <2>4, <2>5, RoutesOfThree DEF Leads
  <2>8. heard = FoundAt("GET", at, path, query, None)
    BY <2>1, <2>2, <2>4 DEF FoundAt
  <2>9. /\ heard.op = op /\ SameBut(heard.params, p)
        /\ Routed("GET", path, QueryParams(query), None) # NoRoute
    BY <1>4, <2>3, <2>6, <2>7, <2>8, Resolved
  <2> QED
    BY <1>13, <2>9
<1>14. CASE op = "GET_PUSH_CONFIG"
  <2>1. BuildRestRequest(op, p) = Http("GET", at \o <<"tasks", p["taskId"], "pushNotificationConfigs", p["id"]>>, Query(Without(r, {"taskId", "id"})), None)
    <3>1. Append(<<"tasks", p["taskId"], "pushNotificationConfigs">>, p["id"]) =
            <<"tasks", p["taskId"], "pushNotificationConfigs", p["id"]>>
      BY Append4
    <3>2. PushPath(p) = <<"tasks", p["taskId"], "pushNotificationConfigs">>
      BY <1>14 DEF PushPath, Field, PushOps, ConfigOps
    <3> QED
      BY <1>1, <1>3, <1>14, <3>1, <3>2 DEF BuildRestRequest
  <2>2. PICK path : path = <<"tasks", p["taskId"], "pushNotificationConfigs", p["id"]>>
    OBVIOUS
  <2>3. Behindable(at, path)
    <3>1. path \in Seq({"tasks", p["taskId"], "pushNotificationConfigs", p["id"]}) /\ Len(path) >= 1 /\ path[1] \in RouteHeads
      BY <2>2 DEF RouteHeads
    <3> QED
      BY <1>2, <3>1 DEF Behindable, IsSeq
  <2>4. PICK query : query = Query(Without(r, {"taskId", "id"}))
    OBVIOUS
  <2>5. PICK params : params = [taskId |-> p["taskId"], id |-> p["id"]] ++ QueryParams(query)
    OBVIOUS
  <2>6. SameBut(params, p)
    BY <1>3, <1>14, <2>4, <2>5, Queries DEF SendOps, PushOps, ConfigOps
  <2>7. Leads("GET", path, query, None, op, params)
    BY <1>14, <2>2, <2>4, <2>5, RoutesOfFour DEF Leads
  <2>8. heard = FoundAt("GET", at, path, query, None)
    BY <2>1, <2>2, <2>4 DEF FoundAt
  <2>9. /\ heard.op = op /\ SameBut(heard.params, p)
        /\ Routed("GET", path, QueryParams(query), None) # NoRoute
    BY <1>4, <2>3, <2>6, <2>7, <2>8, Resolved
  <2> QED
    BY <1>14, <2>9
<1>15. CASE op = "DELETE_PUSH_CONFIG"
  <2>1. BuildRestRequest(op, p) = Http("DELETE", at \o <<"tasks", p["taskId"], "pushNotificationConfigs", p["id"]>>, Query(Without(r, {"taskId", "id"})), None)
    <3>1. Append(<<"tasks", p["taskId"], "pushNotificationConfigs">>, p["id"]) =
            <<"tasks", p["taskId"], "pushNotificationConfigs", p["id"]>>
      BY Append4
    <3>2. PushPath(p) = <<"tasks", p["taskId"], "pushNotificationConfigs">>
      BY <1>15 DEF PushPath, Field, PushOps, ConfigOps
    <3> QED
      BY <1>1, <1>3, <1>15, <3>1, <3>2 DEF BuildRestRequest
  <2>2. PICK path : path = <<"tasks", p["taskId"], "pushNotificationConfigs", p["id"]>>
    OBVIOUS
  <2>3. Behindable(at, path)
    <3>1. path \in Seq({"tasks", p["taskId"], "pushNotificationConfigs", p["id"]}) /\ Len(path) >= 1 /\ path[1] \in RouteHeads
      BY <2>2 DEF RouteHeads
    <3> QED
      BY <1>2, <3>1 DEF Behindable, IsSeq
  <2>4. PICK query : query = Query(Without(r, {"taskId", "id"}))
    OBVIOUS
  <2>5. PICK params : params = [taskId |-> p["taskId"], id |-> p["id"]] ++ QueryParams(query)
    OBVIOUS
  <2>6. SameBut(params, p)
    BY <1>3, <1>15, <2>4, <2>5, Queries DEF SendOps, PushOps, ConfigOps
  <2>7. Leads("DELETE", path, query, None, op, params)
    BY <1>15, <2>2, <2>4, <2>5, RoutesOfFour DEF Leads
  <2>8. heard = FoundAt("DELETE", at, path, query, None)
    BY <2>1, <2>2, <2>4 DEF FoundAt
  <2>9. /\ heard.op = op /\ SameBut(heard.params, p)
        /\ Routed("DELETE", path, QueryParams(query), None) # NoRoute
    BY <1>4, <2>3, <2>6, <2>7, <2>8, Resolved
  <2>10. PICK x, y : x = p["taskId"] /\ y = p["id"]
    OBVIOUS
  <2>11. y = Blank => Routed("DELETE", path, QueryParams(query), None) = NoRoute
    <3>1. path = <<"tasks", x, "pushNotificationConfigs", y>>
      BY <2>2, <2>10
    <3>2. PICK parsed : parsed = QueryParams(query)
      OBVIOUS
    <3>3. PICK body : body = None
      OBVIOUS
    <3>4. ASSUME y = Blank
          PROVE  Routed("DELETE", <<"tasks", x, "pushNotificationConfigs", y>>, parsed, body) = NoRoute
      BY <3>4, NoneBehindBlank
    <3> QED
      BY <3>1, <3>2, <3>3, <3>4
  <2> QED
    BY <1>15, <2>9, <2>10, <2>11
<1> QED
  BY <1>5, <1>6, <1>7, <1>8, <1>9, <1>10, <1>11, <1>12, <1>13, <1>14, <1>15 DEF Ops, SendOps, PushOps, ConfigOps

(* What a handler is given of a request.                                     *)
Understood(version, q, s) ==
  LET schemes == IF version = "1.0" /\ q.schemes # None THEN <<q.schemes[1]>> ELSE q.schemes
  IN /\ s = [q EXCEPT !.config = s.config, !.schemes = schemes]
     /\ \/ s.config = q.config
        \/ {s.config, q.config} = {Blank, Absent} /\ q.op # "DELETE_PUSH_CONFIG"

Versions(cv, sv) == cv \in {"0.3", "1.0"} /\ sv \in {"0.3", "1.0"} /\ (cv = "1.0" => sv = "1.0")

LEMMA AskForIs ==
  ASSUME NEW op, NEW task, NEW config, NEW url, NEW schemes, NEW limit, NEW blocking,
         NEW q, q = AskFor(op, task, config, url, schemes, limit, blocking)
  PROVE  /\ q.op = op /\ q.task = task /\ q.config = config /\ q.url = url
         /\ q.schemes = schemes /\ q.limit = limit /\ q.blocking = blocking
BY DEF AskFor

LEMMA AskForUnderstood ==
  ASSUME NEW cv, NEW q, NEW s, NEW config, NEW schemes,
         q = AskFor(q.op, q.task, q.config, q.url, q.schemes, q.limit, q.blocking),
         s = AskFor(q.op, q.task, config, q.url, schemes, q.limit, q.blocking),
         schemes = IF cv = "1.0" /\ q.schemes # None THEN <<q.schemes[1]>> ELSE q.schemes,
         config = q.config \/ ({config, q.config} = {Blank, Absent} /\ q.op # "DELETE_PUSH_CONFIG")
  PROVE  Understood(cv, q, s)
<1>1. s.config = config
  BY AskForIs
<1>2. PICK t : t = [q EXCEPT !.config = config, !.schemes = schemes]
  OBVIOUS
<1>3. s = t
  BY <1>2 DEF AskFor
<1> QED
  BY <1>1, <1>2, <1>3 DEF Understood

Webby(f) == f \in {"url", "id", "authentication"}

(* A webhook as v0.3 writes it.                                             *)
LEMMA NestedFields ==
  ASSUME NEW q, NEW n, n = Nested(q)
  PROVE  /\ Has(n, "url") /\ n["url"] = q.url
         /\ (Has(n, "id") <=> q.config # Absent) /\ (q.config # Absent => n["id"] = q.config)
         /\ (Has(n, "authentication") <=> q.schemes # None)
         /\ q.schemes # None => /\ Has(n["authentication"], "schemes")
                                /\ ~Has(n["authentication"], "scheme")
                                /\ n["authentication"]["schemes"] = q.schemes
<1>1. PICK u : u = [url |-> q.url]
  OBVIOUS
<1>2. PICK i : i = Opt("id", q.config)
  OBVIOUS
<1>3. PICK a : a = IF q.schemes = None THEN None ELSE [authentication |-> [schemes |-> q.schemes]]
  OBVIOUS
<1>4. n = (u ++ i) ++ a
  BY <1>1, <1>2, <1>3 DEF Nested
<1>5. /\ \A f : Has(u, f) <=> f = "url"
      /\ u["url"] = q.url
  BY <1>1 DEF Has
<1>6. /\ \A f : Has(i, f) <=> q.config # Absent /\ f = "id"
      /\ q.config # Absent => i["id"] = q.config
  BY <1>2, Optional
<1>7. /\ \A f : Has(a, f) <=> q.schemes # None /\ f = "authentication"
      /\ q.schemes # None => a["authentication"] = [schemes |-> q.schemes]
  BY <1>3 DEF Has, None
<1>8. PICK m : m = u ++ i
  OBVIOUS
<1>9. /\ \A f : Has(m, f) <=> f = "url" \/ (q.config # Absent /\ f = "id")
      /\ m["url"] = q.url /\ (q.config # Absent => m["id"] = q.config)
  BY <1>5, <1>6, <1>8, Merged
<1>10. n = m ++ a
  BY <1>4, <1>8
<1>11. /\ \A f : Has(n, f) <=> Has(m, f) \/ Has(a, f)
       /\ n["url"] = m["url"] /\ (Has(m, "id") => n["id"] = m["id"])
       /\ Has(a, "authentication") => n["authentication"] = a["authentication"]
  BY <1>7, <1>9, <1>10, Merged
<1>12. q.schemes # None => n["authentication"] = [schemes |-> q.schemes]
  BY <1>7, <1>11
<1> QED
  BY <1>7, <1>9, <1>11, <1>12 DEF Has

(* As v1.0 writes it.                                                       *)
LEMMA FlatFields ==
  ASSUME NEW q, NEW n, n = Flat(q)
  PROVE  /\ \A f : Has(n, f) => Webby(f)
         /\ Has(n, "url") /\ n["url"] = q.url
         /\ (Has(n, "id") <=> q.config # Absent) /\ (q.config # Absent => n["id"] = q.config)
         /\ (Has(n, "authentication") <=> q.schemes # None)
         /\ q.schemes # None => /\ Has(n["authentication"], "scheme")
                                /\ n["authentication"]["scheme"] = q.schemes[1]
<1>1. PICK u : u = [url |-> q.url]
  OBVIOUS
<1>2. PICK i : i = Opt("id", q.config)
  OBVIOUS
<1>3. PICK a : a = IF q.schemes = None THEN None ELSE [authentication |-> [scheme |-> q.schemes[1]]]
  OBVIOUS
<1>4. n = (u ++ i) ++ a
  BY <1>1, <1>2, <1>3 DEF Flat
<1>5. /\ \A f : Has(u, f) <=> f = "url"
      /\ u["url"] = q.url
  BY <1>1 DEF Has
<1>6. /\ \A f : Has(i, f) <=> q.config # Absent /\ f = "id"
      /\ q.config # Absent => i["id"] = q.config
  BY <1>2, Optional
<1>7. /\ \A f : Has(a, f) <=> q.schemes # None /\ f = "authentication"
      /\ q.schemes # None => a["authentication"] = [scheme |-> q.schemes[1]]
  BY <1>3 DEF Has, None
<1>8. PICK m : m = u ++ i
  OBVIOUS
<1>9. /\ \A f : Has(m, f) <=> f = "url" \/ (q.config # Absent /\ f = "id")
      /\ m["url"] = q.url /\ (q.config # Absent => m["id"] = q.config)
  BY <1>5, <1>6, <1>8, Merged
<1>10. n = m ++ a
  BY <1>4, <1>8
<1>11. /\ \A f : Has(n, f) <=> Has(m, f) \/ Has(a, f)
       /\ n["url"] = m["url"] /\ (Has(m, "id") => n["id"] = m["id"])
       /\ Has(a, "authentication") => n["authentication"] = a["authentication"]
  BY <1>7, <1>9, <1>10, Merged
<1>12. q.schemes # None => n["authentication"] = [scheme |-> q.schemes[1]]
  BY <1>7, <1>11
<1> QED
  BY <1>7, <1>9, <1>11, <1>12 DEF Has, Webby

(* A webhook that comes along with a message.                               *)
LEMMA InlineRead ==
  ASSUME NEW cv, NEW sv, Versions(cv, sv), NEW q,
         q.url = Absent => q.config = Absent /\ q.schemes = None,
         NEW c, c = FormatParams(cv, q)["configuration"],
         NEW push, push = Inline(sv, c)
  PROVE  /\ push.url = q.url
         /\ push.schemes = IF cv = "1.0" /\ q.schemes # None THEN <<q.schemes[1]>> ELSE q.schemes
         /\ push.id = q.config \/ {push.id, q.config} = {Blank, Absent}
<1>1. CASE cv = "1.0" /\ q.url # Absent
  <2>1. PICK w : w = Flat(q) ++ [taskId |-> Blank]
    OBVIOUS
  <2>2. PICK n : n = Flat(q)
    OBVIOUS
  <2>3. PICK b : b = [returnImmediately |-> ~q.blocking]
    OBVIOUS
  <2>4. c = b ++ [taskPushNotificationConfig |-> w]
    BY <1>1, <2>1, <2>3 DEF FormatParams
  <2>5. Has(c, "taskPushNotificationConfig") /\ c["taskPushNotificationConfig"] = w
    BY <2>3, <2>4 DEF Has, ++
  <2>6. \A f : Webby(f) => (Has(w, f) <=> Has(n, f)) /\ (Has(n, f) => w[f] = n[f])
    BY <2>1, <2>2 DEF Has, ++, Webby
  <2>7. sv = "1.0"
    BY <1>1 DEF Versions
  <2>8. push = [id |-> IF Has(w, "id") THEN w["id"] ELSE Blank, url |-> w["url"],
                schemes |-> Schemes("1.0", w)]
    BY <2>5, <2>7 DEF Inline
  <2>9. /\ Has(n, "url") /\ n["url"] = q.url
        /\ (Has(n, "id") <=> q.config # Absent) /\ (q.config # Absent => n["id"] = q.config)
        /\ (Has(n, "authentication") <=> q.schemes # None)
        /\ q.schemes # None => n["authentication"]["scheme"] = q.schemes[1]
    BY <2>2, FlatFields
  <2>10. Webby("url") /\ Webby("id") /\ Webby("authentication")
    BY DEF Webby
  <2>11. push.url = q.url
    BY <2>6, <2>8, <2>9, <2>10
  <2>12. push.id = q.config \/ {push.id, q.config} = {Blank, Absent}
    <3>1. push.id = IF Has(w, "id") THEN w["id"] ELSE Blank
      BY <2>8
    <3> QED
      BY <2>6, <2>9, <2>10, <3>1
  <2>13. push.schemes = IF q.schemes # None THEN <<q.schemes[1]>> ELSE q.schemes
    <3>1. push.schemes = Schemes("1.0", w)
      BY <2>8
    <3>2. CASE q.schemes = None
      BY <2>6, <2>9, <2>10, <3>1, <3>2 DEF Schemes
    <3>3. CASE q.schemes # None
      <4>1. Has(w, "authentication") /\ w["authentication"] = n["authentication"]
        BY <2>6, <2>9, <2>10, <3>3
      <4>2. w["authentication"]["scheme"] = q.schemes[1]
        BY <2>9, <3>3, <4>1
      <4> QED
        BY <3>1, <3>3, <4>1, <4>2 DEF Schemes
    <3> QED
      BY <3>2, <3>3
  <2> QED
    BY <1>1, <2>11, <2>12, <2>13
<1>2. CASE cv = "1.0" /\ q.url = Absent
  <2>1. PICK b : b = [returnImmediately |-> ~q.blocking]
    OBVIOUS
  <2>2. c = b ++ None
    BY <1>2, <2>1 DEF FormatParams
  <2>3. ~Has(c, "taskPushNotificationConfig") /\ ~Has(c, "pushNotificationConfig")
    BY <2>1, <2>2, NoFields, Merged DEF Has
  <2>4. push = [id |-> Absent, url |-> Absent, schemes |-> None]
    BY <2>3 DEF Inline
  <2> QED
    BY <1>2, <2>4
<1>3. CASE cv = "0.3" /\ q.url # Absent
  <2>1. PICK n : n = Nested(q)
    OBVIOUS
  <2>2. PICK b : b = [blocking |-> q.blocking]
    OBVIOUS
  <2>3. c = b ++ [pushNotificationConfig |-> n]
    BY <1>3, <2>1, <2>2 DEF FormatParams
  <2>4. /\ Has(c, "pushNotificationConfig") /\ c["pushNotificationConfig"] = n
        /\ ~Has(c, "taskPushNotificationConfig")
    BY <2>2, <2>3 DEF Has, ++
  <2>5. push = [id |-> Field(n, "id"), url |-> n["url"], schemes |-> Schemes("0.3", n)]
    BY <2>4 DEF Inline
  <2>6. /\ Has(n, "url") /\ n["url"] = q.url
        /\ (Has(n, "id") <=> q.config # Absent) /\ (q.config # Absent => n["id"] = q.config)
        /\ (Has(n, "authentication") <=> q.schemes # None)
        /\ q.schemes # None => n["authentication"]["schemes"] = q.schemes
    BY <2>1, NestedFields
  <2>7. push.url = q.url
    BY <2>5, <2>6
  <2>8. push.id = q.config
    BY <2>5, <2>6 DEF Field
  <2>9. push.schemes = Schemes("0.3", n)
    BY <2>5
  <2>10. push.schemes = q.schemes
    BY <2>6, <2>9 DEF Schemes
  <2> QED
    BY <1>3, <2>7, <2>8, <2>10
<1>4. CASE cv = "0.3" /\ q.url = Absent
  <2>1. PICK b : b = [blocking |-> q.blocking]
    OBVIOUS
  <2>2. c = b ++ None
    BY <1>4, <2>1 DEF FormatParams
  <2>3. ~Has(c, "taskPushNotificationConfig") /\ ~Has(c, "pushNotificationConfig")
    BY <2>1, <2>2, NoFields, Merged DEF Has
  <2>4. push = [id |-> Absent, url |-> Absent, schemes |-> None]
    BY <2>3 DEF Inline
  <2> QED
    BY <1>4, <2>4
<1> QED
  BY <1>1, <1>2, <1>3, <1>4 DEF Versions

LEMMA SendRead ==
  ASSUME NEW cv, NEW sv, Versions(cv, sv), NEW q, q.op \in SendOps, q = Given(q),
         q.blocking \in BOOLEAN, q.url = Absent => q.config = Absent /\ q.schemes = None,
         NEW p, SameBut(p, FormatParams(cv, q)), NEW s, s = ValidateSend(sv, q.op, p)
  PROVE  Understood(cv, q, s)
<1>1. PICK r : r = FormatParams(cv, q)
  OBVIOUS
<1>2. PICK c : c = r["configuration"]
  OBVIOUS
<1>3. Has(r, "message") /\ Has(r, "configuration")
  BY <1>1 DEF FormatParams, Has
<1>4. Has(p, "message") /\ p["configuration"] = c
  BY <1>1, <1>2, <1>3 DEF SameBut
<1>5. PICK push : push = Inline(sv, c)
  OBVIOUS
<1>6. PICK b : b = IF sv = "1.0" /\ Has(c, "returnImmediately")
                   THEN ~c["returnImmediately"] ELSE Field(c, "blocking") # FALSE
  OBVIOUS
<1>7. s = AskFor(q.op, Absent, push.id, push.url, push.schemes, Absent, b)
  BY <1>4, <1>5, <1>6 DEF ValidateSend
<1>8. b = q.blocking
  <2>1. CASE cv = "1.0"
    <3>1. PICK w : w = IF q.url = Absent THEN None
                       ELSE [taskPushNotificationConfig |-> Flat(q) ++ [taskId |-> Blank]]
      OBVIOUS
    <3>2. PICK u : u = [returnImmediately |-> ~q.blocking]
      OBVIOUS
    <3>3. c = u ++ w
      BY <1>1, <1>2, <2>1, <3>1, <3>2 DEF FormatParams
    <3>4. Has(u, "returnImmediately") /\ u["returnImmediately"] = ~q.blocking
      BY <3>2 DEF Has
    <3>5. Has(c, "returnImmediately") /\ c["returnImmediately"] = u["returnImmediately"]
      BY <3>3, <3>4, Merged
    <3>6. b = ~c["returnImmediately"]
      BY <1>6, <2>1, <3>5 DEF Versions
    <3> QED
      BY <3>4, <3>5, <3>6
  <2>2. CASE cv = "0.3"
    <3>1. PICK w : w = IF q.url = Absent THEN None ELSE [pushNotificationConfig |-> Nested(q)]
      OBVIOUS
    <3>2. PICK u : u = [blocking |-> q.blocking]
      OBVIOUS
    <3>3. c = u ++ w
      BY <1>1, <1>2, <2>2, <3>1, <3>2 DEF FormatParams
    <3>4. /\ Has(u, "blocking") /\ u["blocking"] = q.blocking
          /\ ~Has(u, "returnImmediately") /\ ~Has(w, "returnImmediately")
      BY <3>1, <3>2 DEF Has, None
    <3>5. Has(c, "blocking") /\ c["blocking"] = q.blocking /\ ~Has(c, "returnImmediately")
      BY <3>3, <3>4, Merged
    <3>6. b = (Field(c, "blocking") # FALSE)
      BY <1>6, <3>5
    <3>7. Field(c, "blocking") = q.blocking
      BY <3>5 DEF Field
    <3> QED
      BY <3>6, <3>7
  <2> QED
    BY <2>1, <2>2 DEF Versions
<1>9. q = AskFor(q.op, Absent, q.config, q.url, q.schemes, Absent, q.blocking)
  BY DEF Given, SendOps, ConfigOps
<1>10. q.task = Absent /\ q.limit = Absent
  BY <1>9 DEF AskFor
<1>11. q = AskFor(q.op, q.task, q.config, q.url, q.schemes, q.limit, q.blocking)
  BY <1>9, <1>10
<1>12. /\ push.url = q.url
       /\ push.schemes = IF cv = "1.0" /\ q.schemes # None THEN <<q.schemes[1]>> ELSE q.schemes
       /\ push.id = q.config \/ {push.id, q.config} = {Blank, Absent}
  BY <1>1, <1>2, <1>5, InlineRead
<1>13. q.op # "DELETE_PUSH_CONFIG"
  BY DEF SendOps
<1>14. PICK id, schemes : id = push.id /\ schemes = push.schemes
  OBVIOUS
<1>15. s = AskFor(q.op, q.task, id, q.url, schemes, q.limit, q.blocking)
  BY <1>7, <1>8, <1>10, <1>12, <1>14
<1> QED
  BY <1>11, <1>12, <1>13, <1>14, <1>15, AskForUnderstood

LEMMA TaskRead ==
  ASSUME NEW cv, NEW q, q.op \in {"GET_TASK", "CANCEL_TASK", "RESUBSCRIBE"}, q = Given(q),
         NEW p, SameBut(p, ClientParams(cv, q)),
         NEW s, s = ValidateTask(q.op, p), s # Invalid
  PROVE  Understood(cv, q, s)
<1>1. PICK r : r = ClientParams(cv, q)
  OBVIOUS
<1>2. PICK i : i = [id |-> q.task]
  OBVIOUS
<1>3. PICK l : l = Opt("historyLength", q.limit)
  OBVIOUS
<1>4. q = AskFor(q.op, q.task, Absent, Absent, None, q.limit, TRUE)
        /\ (q.op # "GET_TASK" => q.limit = Absent)
  <2>1. CASE q.op = "GET_TASK"
    BY <2>1 DEF Given, SendOps, ConfigOps
  <2>2. CASE q.op # "GET_TASK"
    <3>1. q = AskFor(q.op, q.task, Absent, Absent, None, Absent, TRUE)
      BY <2>2 DEF Given, SendOps, ConfigOps
    <3>2. q.limit = Absent
      BY <3>1 DEF AskFor
    <3> QED
      BY <2>2, <3>1, <3>2
  <2> QED
    BY <2>1, <2>2
<1>5. r = i ++ l \/ (q.limit = Absent /\ r = i)
  <2>1. CASE q.op = "GET_TASK"
    BY <1>1, <1>2, <1>3, <2>1 DEF ClientParams, SendOps, ConfigOps
  <2>2. CASE q.op # "GET_TASK"
    BY <1>1, <1>2, <1>4, <2>2 DEF ClientParams, SendOps, ConfigOps
  <2> QED
    BY <2>1, <2>2
<1>6. /\ \A f : Has(i, f) <=> f = "id"
      /\ i["id"] = q.task
  BY <1>2 DEF Has
<1>7. /\ \A f : Has(l, f) <=> q.limit # Absent /\ f = "historyLength"
      /\ q.limit # Absent => l["historyLength"] = q.limit
  <2>1. PICK v : v = q.limit
    OBVIOUS
  <2>2. l = Opt("historyLength", v)
    BY <1>3, <2>1
  <2>3. \A f : Has(l, f) <=> v # Absent /\ f = "historyLength"
    BY <2>2, Optional
  <2>4. v # Absent => l["historyLength"] = v
    BY <2>2, Optional
  <2> QED
    BY <2>1, <2>3, <2>4
<1>8. /\ Has(r, "id") /\ r["id"] = q.task
      /\ Has(r, "historyLength") <=> q.limit # Absent
      /\ q.limit # Absent => r["historyLength"] = q.limit
  BY <1>5, <1>6, <1>7, Merged
<1>9. /\ p["id"] = q.task
      /\ Field(p, "historyLength") = q.limit
  BY <1>1, <1>8 DEF SameBut, Field
<1>10. s = AskFor(q.op, p["id"], Absent, Absent, None, Field(p, "historyLength"), TRUE)
  BY DEF ValidateTask
<1>11. /\ q.config = Absent /\ q.url = Absent /\ q.schemes = None /\ q.blocking = TRUE
  BY <1>4 DEF AskFor
<1>12. s = AskFor(q.op, q.task, Absent, q.url, None, q.limit, q.blocking)
  BY <1>9, <1>10, <1>11
<1>13. q = AskFor(q.op, q.task, q.config, q.url, q.schemes, q.limit, q.blocking)
  BY <1>4, <1>11
<1> QED
  BY <1>11, <1>12, <1>13, AskForUnderstood

LEMMA OtherRead ==
  ASSUME NEW cv, NEW sv, NEW q, q.op \in {"LIST_TASKS", "GET_EXTENDED_CARD"}, q = Given(q),
         NEW p, SameBut(p, ClientParams(cv, q)), NEW s, s = Validate(sv, q.op, p)
  PROVE  Understood(cv, q, s)
<1>1. PICK r : r = ClientParams(cv, q)
  OBVIOUS
<1>2. q = AskFor(q.op, Absent, Absent, Absent, None, q.limit, TRUE)
        /\ (q.op # "LIST_TASKS" => q.limit = Absent)
  <2>1. CASE q.op = "LIST_TASKS"
    BY <2>1 DEF Given, SendOps, ConfigOps
  <2>2. CASE q.op = "GET_EXTENDED_CARD"
    <3>1. q = AskFor(q.op, Absent, Absent, Absent, None, Absent, TRUE)
      BY <2>2 DEF Given, SendOps, ConfigOps
    <3>2. q.limit = Absent
      BY <3>1 DEF AskFor
    <3> QED
      BY <2>2, <3>1, <3>2
  <2> QED
    BY <2>1, <2>2
<1>3. r = Opt("historyLength", q.limit)
  <2>1. CASE q.op = "LIST_TASKS"
    BY <1>1, <2>1 DEF ClientParams, SendOps, ConfigOps
  <2>2. CASE q.op = "GET_EXTENDED_CARD"
    BY <1>1, <1>2, <2>2 DEF ClientParams, SendOps, ConfigOps, Opt
  <2> QED
    BY <2>1, <2>2
<1>4. /\ Has(r, "historyLength") <=> q.limit # Absent
      /\ q.limit # Absent => r["historyLength"] = q.limit
  BY <1>3, Optional
<1>5. Field(p, "historyLength") = q.limit
  BY <1>1, <1>4 DEF SameBut, Field
<1>6. q.task = Absent /\ q.config = Absent /\ q.url = Absent /\ q.schemes = None /\ q.blocking = TRUE
  BY <1>2 DEF AskFor
<1>7. s = AskFor(q.op, q.task, Absent, q.url, None, q.limit, q.blocking)
  <2>1. s = AskFor(q.op, Absent, Absent, Absent, None, Field(p, "historyLength"), TRUE)
    BY DEF Validate, SendOps, ConfigOps
  <2> QED
    BY <1>5, <1>6, <2>1
<1>8. q = AskFor(q.op, q.task, q.config, q.url, q.schemes, q.limit, q.blocking)
  BY <1>2, <1>6
<1> QED
  BY <1>6, <1>7, <1>8, AskForUnderstood

LEMMA SetPushRead ==
  ASSUME NEW cv, NEW sv, Versions(cv, sv), NEW q, q.op = "SET_PUSH_CONFIG", q = Given(q),
         NEW p, SameBut(p, FormatPushConfig(cv, q)),
         NEW s, s = ValidateSetPush(sv, p), s # Invalid
  PROVE  Understood(cv, q, s) /\ s.config # Blank
<1>1. PICK r : r = FormatPushConfig(cv, q)
  OBVIOUS
<1>2. PICK t : t = [taskId |-> q.task]
  OBVIOUS
<1>3. \A f : (Has(t, f) <=> f = "taskId") /\ t["taskId"] = q.task
  BY <1>2 DEF Has
<1>4. PICK flat : flat = (sv = "1.0" /\ Has(p, "url"))
  OBVIOUS
<1>5. PICK source : source = IF flat THEN p ELSE p["pushNotificationConfig"]
  OBVIOUS
<1>6. /\ Authenticated(sv, source)
      /\ s = AskFor("SET_PUSH_CONFIG", p["taskId"],
                    IF Filled(source, "id") THEN source["id"] ELSE Absent,
                    source["url"], Schemes(sv, source), Absent, TRUE)
  <2>1. ~(\/ ~Filled(p, "taskId")
          \/ ~flat /\ ~Has(p, "pushNotificationConfig")
          \/ ~Authenticated(sv, source))
    BY <1>4, <1>5 DEF ValidateSetPush
  <2> QED
    BY <1>4, <1>5, <2>1 DEF ValidateSetPush
<1>7. q = AskFor(q.op, q.task, q.config, q.url, q.schemes, Absent, TRUE)
  BY DEF Given, SendOps, ConfigOps
<1>8. q.limit = Absent /\ q.blocking = TRUE
  BY <1>7 DEF AskFor
<1>9. PICK schemes : schemes = IF cv = "1.0" /\ q.schemes # None THEN <<q.schemes[1]>> ELSE q.schemes
  OBVIOUS
<1>10. /\ p["taskId"] = q.task /\ source["url"] = q.url
       /\ (Has(source, "id") <=> q.config # Absent) /\ (q.config # Absent => source["id"] = q.config)
       /\ Schemes(sv, source) = schemes
  <2>1. CASE cv = "1.0"
    <3>1. PICK n : n = Flat(q)
      OBVIOUS
    <3>2. r = t ++ n
      BY <1>1, <1>2, <2>1, <3>1 DEF FormatPushConfig
    <3>3. /\ \A f : Has(n, f) => Webby(f)
          /\ Has(n, "url") /\ n["url"] = q.url
          /\ (Has(n, "id") <=> q.config # Absent) /\ (q.config # Absent => n["id"] = q.config)
          /\ (Has(n, "authentication") <=> q.schemes # None)
          /\ q.schemes # None => /\ Has(n["authentication"], "scheme")
                                 /\ n["authentication"]["scheme"] = q.schemes[1]
      BY <3>1, FlatFields
    <3>4. Webby("url") /\ Webby("id") /\ Webby("authentication") /\ ~Webby("taskId")
      BY DEF Webby
    <3>5. \A f : Webby(f) => (Has(r, f) <=> Has(n, f)) /\ (Has(n, f) => r[f] = n[f])
      BY <1>3, <3>2, Merged DEF Webby
    <3>6. \A f : Webby(f) => (Has(p, f) <=> Has(n, f)) /\ (Has(n, f) => p[f] = n[f])
      BY <1>1, <3>5 DEF SameBut, Webby
    <3>7. Has(r, "taskId") /\ r["taskId"] = q.task
      BY <1>3, <3>2, Merged
    <3>8. p["taskId"] = q.task
      BY <1>1, <3>7 DEF SameBut
    <3>9. source = p /\ sv = "1.0"
      BY <1>4, <1>5, <2>1, <3>3, <3>4, <3>6 DEF Versions
    <3>10. Schemes(sv, source) = schemes
      <4>1. CASE q.schemes = None
        BY <1>9, <3>3, <3>4, <3>6, <3>9, <4>1 DEF Schemes
      <4>2. CASE q.schemes # None
        <5>1. Has(p, "authentication") /\ p["authentication"] = n["authentication"]
          BY <3>3, <3>4, <3>6, <4>2
        <5>2. p["authentication"]["scheme"] = q.schemes[1]
          BY <3>3, <4>2, <5>1
        <5> QED
          BY <1>9, <2>1, <3>9, <4>2, <5>1, <5>2 DEF Schemes
      <4> QED
        BY <4>1, <4>2
    <3> QED
      BY <3>3, <3>4, <3>6, <3>8, <3>9, <3>10
  <2>2. CASE cv = "0.3"
    <3>1. PICK n : n = Nested(q)
      OBVIOUS
    <3>2. PICK w : w = [pushNotificationConfig |-> n]
      OBVIOUS
    <3>3. r = t ++ w
      BY <1>1, <1>2, <2>2, <3>1, <3>2 DEF FormatPushConfig
    <3>4. \A f : (Has(w, f) <=> f = "pushNotificationConfig") /\ w["pushNotificationConfig"] = n
      BY <3>2 DEF Has
    <3>5. /\ \A f : Has(r, f) <=> f \in {"taskId", "pushNotificationConfig"}
          /\ r["taskId"] = q.task /\ r["pushNotificationConfig"] = n
      BY <1>3, <3>3, <3>4, Merged
    <3>6. p["taskId"] = q.task /\ p["pushNotificationConfig"] = n /\ ~Has(p, "url")
      BY <1>1, <3>5 DEF SameBut
    <3>7. source = n
      BY <1>4, <1>5, <3>6
    <3>8. /\ Has(n, "url") /\ n["url"] = q.url
          /\ (Has(n, "id") <=> q.config # Absent) /\ (q.config # Absent => n["id"] = q.config)
          /\ (Has(n, "authentication") <=> q.schemes # None)
          /\ q.schemes # None => /\ ~Has(n["authentication"], "scheme")
                                 /\ n["authentication"]["schemes"] = q.schemes
      BY <3>1, NestedFields
    <3>9. Schemes(sv, source) = schemes
      <4>1. CASE q.schemes = None
        BY <1>9, <3>7, <3>8, <4>1 DEF Schemes
      <4>2. CASE q.schemes # None
        <5>1. sv # "1.0"
          BY <1>6, <3>7, <3>8, <4>2 DEF Authenticated
        <5> QED
          BY <1>9, <2>2, <3>7, <3>8, <4>2, <5>1 DEF Schemes
      <4> QED
        BY <4>1, <4>2
    <3> QED
      BY <3>6, <3>7, <3>8, <3>9
  <2> QED
    BY <2>1, <2>2 DEF Versions
<1>11. PICK config : config = IF Filled(source, "id") THEN source["id"] ELSE Absent
  OBVIOUS
<1>12. /\ config = q.config \/ {config, q.config} = {Blank, Absent}
       /\ config # Blank
  <2>1. Absent # Blank
    BY AsksAssumption
  <2> QED
    BY <1>10, <1>11, <2>1 DEF Filled
<1>13. s = AskFor(q.op, q.task, config, q.url, schemes, q.limit, q.blocking)
  BY <1>6, <1>8, <1>10, <1>11
<1>14. q = AskFor(q.op, q.task, q.config, q.url, q.schemes, q.limit, q.blocking)
  BY <1>7, <1>8
<1>15. Understood(cv, q, s)
  BY <1>9, <1>12, <1>13, <1>14, AskForUnderstood
<1>16. s.config = config
  BY <1>13, AskForIs
<1> QED
  BY <1>12, <1>15, <1>16

LEMMA PushRead ==
  ASSUME NEW cv, NEW sv, Versions(cv, sv), NEW q, q = Given(q),
         q.op \in ConfigOps \cup {"LIST_PUSH_CONFIGS"},
         q.op = "DELETE_PUSH_CONFIG" => q.config # Absent,
         ~(q.op = "GET_PUSH_CONFIG" /\ cv = "1.0" /\ q.config \in {Absent, Blank}),
         NEW p, SameBut(p, ClientParams(cv, q)),
         NEW s, s = ValidatePush(sv, q.op, p), s # Invalid
  PROVE  Understood(cv, q, s) /\ s.config # Blank
<1>1. PICK r : r = ClientParams(cv, q)
  OBVIOUS
<1>2. PICK task : task = IF sv = "0.3" THEN "id" ELSE "taskId"
  OBVIOUS
<1>3. PICK config : config = IF sv = "0.3" THEN "pushNotificationConfigId" ELSE "id"
  OBVIOUS
<1>4. PICK optional : optional = (\/ q.op = "LIST_PUSH_CONFIGS"
                                  \/ q.op = "GET_PUSH_CONFIG" /\ sv = "0.3" /\ ~Has(p, config))
  OBVIOUS
<1>5. /\ Filled(p, task) /\ (optional \/ Filled(p, config))
      /\ s = AskFor(q.op, p[task], IF optional THEN Absent ELSE p[config], Absent, None, Absent, TRUE)
  <2>1. ~(~Filled(p, task) \/ (~optional /\ ~Filled(p, config)))
    BY <1>2, <1>3, <1>4 DEF ValidatePush
  <2> QED
    BY <1>2, <1>3, <1>4, <2>1 DEF ValidatePush
<1>6. /\ q = AskFor(q.op, q.task, q.config, Absent, None, Absent, TRUE)
      /\ q.op = "LIST_PUSH_CONFIGS" => q.config = Absent
  <2>1. CASE q.op \in ConfigOps
    BY <2>1 DEF Given, SendOps, ConfigOps
  <2>2. CASE q.op = "LIST_PUSH_CONFIGS"
    <3>1. q = AskFor(q.op, q.task, Absent, Absent, None, Absent, TRUE)
      BY <2>2 DEF Given, SendOps, ConfigOps
    <3>2. q.config = Absent
      BY <3>1 DEF AskFor
    <3> QED
      BY <3>1, <3>2
  <2> QED
    BY <2>1, <2>2
<1>7. q.url = Absent /\ q.schemes = None /\ q.limit = Absent /\ q.blocking = TRUE
  BY <1>6 DEF AskFor
<1>8. Absent # Blank
  BY AsksAssumption
<1>9. PICK found : found = IF optional THEN Absent ELSE p[config]
  OBVIOUS
<1>10. /\ p[task] = q.task
       /\ found = q.config \/ ({found, q.config} = {Blank, Absent} /\ q.op # "DELETE_PUSH_CONFIG")
       /\ found # Blank
  <2>1. found # Blank
    BY <1>5, <1>8, <1>9 DEF Filled
  <2>2. CASE cv = "1.0"
    <3>1. sv = "1.0" /\ task = "taskId" /\ config = "id"
      BY <1>2, <1>3, <2>2 DEF Versions
    <3>2. CASE q.op = "LIST_PUSH_CONFIGS"
      <4>1. r = [taskId |-> q.task]
        BY <1>1, <2>2, <3>2 DEF ClientParams, SendOps, ConfigOps
      <4>2. Has(r, "taskId") /\ r["taskId"] = q.task
        BY <4>1 DEF Has
      <4>3. p["taskId"] = q.task
        BY <1>1, <4>2 DEF SameBut
      <4> QED
        BY <1>4, <1>6, <1>9, <3>1, <3>2, <4>3, <2>1
    <3>3. CASE q.op \in ConfigOps
      <4>1. r = [taskId |-> q.task, id |-> q.config]
        BY <1>1, <2>2, <3>3 DEF ClientParams, ConfigParams, SendOps, ConfigOps
      <4>2. Has(r, "taskId") /\ r["taskId"] = q.task /\ Has(r, "id") /\ r["id"] = q.config
        BY <4>1 DEF Has
      <4>3. p["taskId"] = q.task /\ p["id"] = q.config
        BY <1>1, <4>2 DEF SameBut
      <4>4. found = q.config
        BY <1>4, <1>9, <3>1, <3>3, <4>3 DEF ConfigOps
      <4> QED
        BY <2>1, <3>1, <4>3, <4>4
    <3> QED
      BY <3>2, <3>3
  <2>3. CASE cv = "0.3"
    <3>1. PICK i : i = [id |-> q.task]
      OBVIOUS
    <3>2. PICK o : o = Opt("pushNotificationConfigId", q.config)
      OBVIOUS
    <3>3. /\ \A f : Has(i, f) <=> f = "id"
          /\ i["id"] = q.task
      BY <3>1 DEF Has
    <3>4. /\ \A f : Has(o, f) <=> q.config # Absent /\ f = "pushNotificationConfigId"
          /\ q.config # Absent => o["pushNotificationConfigId"] = q.config
      <4>1. PICK v : v = q.config
        OBVIOUS
      <4>2. o = Opt("pushNotificationConfigId", v)
        BY <3>2, <4>1
      <4>3. \A f : Has(o, f) <=> v # Absent /\ f = "pushNotificationConfigId"
        BY <4>2, Optional
      <4>4. v # Absent => o["pushNotificationConfigId"] = v
        BY <4>2, Optional
      <4> QED
        BY <4>1, <4>3, <4>4
    <3>5. PICK left : left = (q.op = "LIST_PUSH_CONFIGS" \/ (q.op = "GET_PUSH_CONFIG" /\ q.config = Blank))
      OBVIOUS
    <3>6. /\ \A f : Has(r, f) <=> f = "id" \/ (~left /\ q.config # Absent /\ f = "pushNotificationConfigId")
          /\ r["id"] = q.task
          /\ ~left /\ q.config # Absent => r["pushNotificationConfigId"] = q.config
      <4>1. CASE q.op = "LIST_PUSH_CONFIGS"
        <5>1. r = i
          BY <1>1, <2>3, <3>1, <4>1 DEF ClientParams, SendOps, ConfigOps
        <5> QED
          BY <3>3, <3>5, <4>1, <5>1
      <4>2. CASE q.op = "GET_PUSH_CONFIG" /\ q.config = Blank
        <5>1. r = i ++ None
          BY <1>1, <2>3, <3>1, <4>2 DEF ClientParams, ConfigParams, SendOps, ConfigOps
        <5> QED
          BY <3>3, <3>5, <4>2, <5>1, NoFields, Merged
      <4>3. CASE q.op \in ConfigOps /\ ~(q.op = "GET_PUSH_CONFIG" /\ q.config = Blank)
        <5>1. r = i ++ o
          BY <1>1, <2>3, <3>1, <3>2, <4>3 DEF ClientParams, ConfigParams, SendOps, ConfigOps
        <5>2. ~left
          BY <3>5, <4>3 DEF ConfigOps
        <5> QED
          BY <3>3, <3>4, <5>1, <5>2, Merged
      <4> QED
        BY <4>1, <4>2, <4>3
    <3>7. /\ \A f : f # "tenant" => (Has(p, f) <=> Has(r, f)) /\ (Has(r, f) => p[f] = r[f])
      BY <1>1 DEF SameBut
    <3>8. /\ ~Has(p, "taskId") /\ p["id"] = q.task
          /\ Has(p, "pushNotificationConfigId") <=> ~left /\ q.config # Absent
          /\ Has(p, "pushNotificationConfigId") => p["pushNotificationConfigId"] = q.config
      BY <3>6, <3>7
    <3>9. sv = "0.3" /\ task = "id" /\ config = "pushNotificationConfigId"
      BY <1>2, <1>3, <1>5, <3>8 DEF Filled, Versions
    <3>10. found = q.config \/ ({found, q.config} = {Blank, Absent} /\ q.op # "DELETE_PUSH_CONFIG")
      <4>1. CASE q.op = "LIST_PUSH_CONFIGS"
        BY <1>4, <1>6, <1>9, <4>1
      <4>2. CASE q.op = "GET_PUSH_CONFIG"
        <5>1. optional <=> left \/ q.config = Absent
          BY <1>4, <3>8, <3>9, <4>2
        <5>2. CASE optional
          <6>1. found = Absent
            BY <1>9, <5>2
          <6>2. q.config = Blank \/ q.config = Absent
            BY <3>5, <4>2, <5>1, <5>2
          <6> QED
            BY <4>2, <6>1, <6>2
        <5>3. CASE ~optional
          BY <1>9, <3>8, <3>9, <5>1, <5>3
        <5> QED
          BY <5>2, <5>3
      <4>3. CASE q.op = "DELETE_PUSH_CONFIG"
        <5>1. ~optional /\ ~left
          BY <1>4, <3>5, <4>3
        <5> QED
          BY <1>9, <3>8, <3>9, <4>3, <5>1
      <4> QED
        BY <4>1, <4>2, <4>3 DEF ConfigOps
    <3> QED
      BY <2>1, <3>8, <3>9, <3>10
  <2> QED
    BY <2>2, <2>3 DEF Versions
<1>11. s = AskFor(q.op, q.task, found, q.url, None, q.limit, q.blocking)
  BY <1>5, <1>7, <1>9, <1>10
<1>12. q = AskFor(q.op, q.task, q.config, q.url, q.schemes, q.limit, q.blocking)
  BY <1>6, <1>7
<1>13. Understood(cv, q, s)
  BY <1>7, <1>10, <1>11, <1>12, AskForUnderstood
<1>14. s.config = found
  BY <1>11, AskForIs
<1> QED
  BY <1>10, <1>13, <1>14

LEMMA AbsentIsNoText ==
  /\ Absent # Blank /\ Absent # "1.0" /\ Absent # "AuthRequired"
  /\ Absent # "VersionNotSupported" /\ Absent # "MethodNotFound" /\ Absent # "InvalidRequest"
  /\ Absent # "AuthenticatedExtendedCardNotConfigured" /\ Absent # "InvalidParams"
  /\ Absent # "UnsupportedOperation"
<1>1. Absent \notin Classes /\ Absent \notin {"AuthRequired", "1.0", Blank}
  BY AsksAssumption
<1>2. \A e \in Errors : Absent # e.class
  BY <1>1 DEF Classes
<1>3. \A class, code, status, reason :
        Error(class, code, status, reason) \in Errors => Absent # class
  <2>1. ASSUME NEW class, NEW code, NEW status, NEW reason,
               Error(class, code, status, reason) \in Errors
        PROVE  Absent # class
    <3>1. Error(class, code, status, reason).class = class
      BY DEF Error
    <3> QED
      BY <1>2, <2>1, <3>1
  <2> QED
    BY <2>1
<1>4. Absent # "VersionNotSupported"
  BY <1>3 DEF Errors
<1>5. Absent # "MethodNotFound"
  BY <1>3 DEF Errors
<1>6. Absent # "InvalidRequest"
  BY <1>3 DEF Errors
<1>7. Absent # "AuthenticatedExtendedCardNotConfigured"
  BY <1>3 DEF Errors
<1>8. Absent # "InvalidParams"
  BY <1>3 DEF Errors
<1>9. Absent # "UnsupportedOperation"
  BY <1>3 DEF Errors
<1> QED
  BY <1>1, <1>4, <1>5, <1>6, <1>7, <1>8, <1>9

(* What a client makes of a card: v0.3 goes over JSON-RPC.                    *)
Bound(k) ==
  /\ k.version \in {"0.3", "1.0"} /\ k.binding \in {"JSONRPC", "HTTP+JSON"}
  /\ k.version = "0.3" => k.binding = "JSONRPC"
  /\ k.tenant \notin RouteHeads \/ k.tenant = Absent

LEMMA RefusedNot ==
  ASSUME NEW sent, NEW heard, Refusal(sent, heard) = Absent
  PROVE  /\ sent.pin \in {Absent, Server.version}
         /\ Validate(Server.version, heard.op, heard.params) # Invalid
<1>1. PICK op, params : op = heard.op /\ params = heard.params
  OBVIOUS
<1>2. PICK valid : valid = (Validate(Server.version, op, params) # Invalid)
  OBVIOUS
<1>3. PICK authentic : authentic = Cards!Authenticate(Server, sent.presents)
  OBVIOUS
<1>4. PICK extended : extended = (Cards!ExtensionsMissing(Server, sent.activates) = {})
  OBVIOUS
<1>5. Absent =
        IF sent.pin \notin {Absent, Server.version} THEN "VersionNotSupported"
        ELSE IF op = "LIST_TASKS" /\ Server.version # "1.0" THEN "MethodNotFound"
        ELSE IF ~authentic THEN IF op \in SendOps THEN "AuthRequired" ELSE "InvalidRequest"
        ELSE IF ~extended THEN "InvalidRequest"
        ELSE IF op = "GET_EXTENDED_CARD" /\ ~Server.provider
             THEN "AuthenticatedExtendedCardNotConfigured"
        ELSE IF op = "GET_EXTENDED_CARD" /\ Server.requirements = <<>> THEN "InvalidRequest"
        ELSE IF ~valid THEN "InvalidParams" ELSE Absent
  BY <1>1, <1>2, <1>3, <1>4 DEF Refusal
<1> QED
  BY <1>1, <1>2, <1>5, AbsentIsNoText

(* Whatever a client asks for, what it writes is what the server finds.       *)
LEMMA ParamsOf ==
  ASSUME NEW q \in AllAsks, NEW r, r = ClientParams("1.0", q)
  PROVE  /\ q.op \in {"GET_TASK", "CANCEL_TASK", "RESUBSCRIBE"} \cup ConfigOps => Has(r, "id")
         /\ q.op \in PushOps => Has(r, "taskId")
         /\ ~Has(r, "tenant")
         /\ Queried(r) \/ q.op \in SendOps
<1>1. q.op \in Ops /\ q.limit \in {Absent} \cup 0..100
  BY AsksAssumption
<1>2. PICK i : i = [id |-> q.task]
  OBVIOUS
<1>3. \A f : Has(i, f) <=> f = "id"
  BY <1>2 DEF Has
<1>4. PICK v : v = q.limit
  OBVIOUS
<1>5. PICK l : l = Opt("historyLength", v)
  OBVIOUS
<1>6. \A f : Has(l, f) <=> v # Absent /\ f = "historyLength"
  BY <1>5, Optional
<1>7. v # Absent => l["historyLength"] = v
  BY <1>5, Optional
<1>8. CASE q.op \in SendOps
  <2>1. r = FormatParams("1.0", q)
    BY <1>8 DEF ClientParams, SendOps, ConfigOps
  <2>2. ~Has(r, "tenant")
    BY <2>1 DEF FormatParams, Has
  <2> QED
    BY <1>8, <2>2 DEF SendOps, ConfigOps, PushOps
<1>9. CASE q.op = "SET_PUSH_CONFIG"
  <2>1. PICK t : t = [taskId |-> q.task]
    OBVIOUS
  <2>2. PICK n : n = Flat(q)
    OBVIOUS
  <2>3. r = t ++ n
    BY <1>9, <2>1, <2>2 DEF ClientParams, FormatPushConfig, SendOps, ConfigOps
  <2>4. \A f : Has(t, f) <=> f = "taskId"
    BY <2>1 DEF Has
  <2>5. \A f : Has(n, f) => Webby(f)
    BY <2>2, FlatFields
  <2>6. \A f : Has(r, f) => f \in {"taskId", "url", "id", "authentication"}
    BY <2>3, <2>4, <2>5, Merged DEF Webby
  <2>7. Has(r, "taskId")
    BY <2>3, <2>4, Merged
  <2>8. Queried(r)
    BY <2>6 DEF Queried, Has, NumberFields, BooleanFields
  <2> QED
    BY <1>9, <2>6, <2>7, <2>8 DEF ConfigOps
<1>10. CASE q.op \in ConfigOps
  <2>1. r = [taskId |-> q.task, id |-> q.config]
    BY <1>10 DEF ClientParams, ConfigParams, SendOps, ConfigOps
  <2>2. \A f : Has(r, f) <=> f \in {"taskId", "id"}
    BY <2>1 DEF Has
  <2>3. Queried(r)
    BY <2>2 DEF Queried, Has, NumberFields, BooleanFields
  <2> QED
    BY <1>10, <2>2, <2>3 DEF ConfigOps, SendOps
<1>11. CASE q.op = "LIST_PUSH_CONFIGS"
  <2>1. r = [taskId |-> q.task]
    BY <1>11 DEF ClientParams, SendOps, ConfigOps
  <2>2. \A f : Has(r, f) <=> f = "taskId"
    BY <2>1 DEF Has
  <2>3. Queried(r)
    BY <2>2 DEF Queried, Has, NumberFields, BooleanFields
  <2> QED
    BY <1>11, <2>2, <2>3 DEF ConfigOps, SendOps
<1>12. CASE q.op \in {"CANCEL_TASK", "RESUBSCRIBE"}
  <2>1. r = i
    BY <1>2, <1>12 DEF ClientParams, SendOps, ConfigOps
  <2>2. Queried(r)
    BY <1>3, <2>1 DEF Queried, Has, NumberFields, BooleanFields
  <2> QED
    BY <1>3, <1>12, <2>1, <2>2 DEF ConfigOps, SendOps, PushOps
<1>13. CASE q.op = "GET_TASK"
  <2>1. r = i ++ l
    BY <1>2, <1>4, <1>5, <1>13 DEF ClientParams, SendOps, ConfigOps
  <2>2. /\ \A f : Has(r, f) <=> Has(i, f) \/ Has(l, f)
        /\ v # Absent => r["historyLength"] = v
    BY <1>3, <1>6, <1>7, <2>1, Merged
  <2>3. Queried(r)
    BY <1>1, <1>3, <1>4, <1>6, <2>2 DEF Queried, Has, NumberFields, BooleanFields
  <2> QED
    BY <1>3, <1>6, <1>13, <2>2, <2>3 DEF ConfigOps, SendOps, PushOps
<1>14. CASE q.op = "LIST_TASKS"
  <2>1. r = l
    BY <1>4, <1>5, <1>14 DEF ClientParams, SendOps, ConfigOps
  <2>2. Queried(r)
    BY <1>1, <1>4, <1>6, <1>7, <2>1 DEF Queried, Has, NumberFields, BooleanFields
  <2> QED
    BY <1>6, <1>14, <2>1, <2>2 DEF ConfigOps, SendOps, PushOps
<1>15. CASE q.op = "GET_EXTENDED_CARD"
  <2>1. r = None
    BY <1>15 DEF ClientParams, SendOps, ConfigOps
  <2>2. Queried(r) /\ ~Has(r, "tenant")
    BY <2>1 DEF Queried, None, Has
  <2> QED
    BY <1>15, <2>2 DEF ConfigOps, SendOps, PushOps
<1> QED
  BY <1>1, <1>8, <1>9, <1>10, <1>11, <1>12, <1>13, <1>14, <1>15 DEF Ops, PushOps, ConfigOps

LEMMA RequestHeard ==
  ASSUME NEW k, Bound(k), NEW q \in AllAsks, NEW sent, sent = Request(k, q),
         k.version = "1.0" => Server.version = "1.0",
         NEW heard, heard = Heard(sent), heard # NoRoute
  PROVE  heard.op = q.op /\ SameBut(heard.params, ClientParams(k.version, q))
<1>1. PICK r : r = ClientParams(k.version, q)
  OBVIOUS
<1>2. PICK p : p = WithServiceParams(k.version, k.tenant, r)
  OBVIOUS
<1>3. /\ sent.binding = k.binding
      /\ sent.body = IF k.binding = "HTTP+JSON" THEN BuildRestRequest(q.op, p)
                     ELSE [method |-> [op |-> q.op, spelling |-> k.version], params |-> p]
  BY <1>1, <1>2 DEF Request
<1>4. SameBut(p, r)
  <2>1. SameBut(r, r)
    BY DEF SameBut
  <2> QED
    BY <1>2, <2>1, TenantAside DEF WithServiceParams
<1>5. CASE k.binding = "JSONRPC"
  <2>1. PICK method : method = [op |-> q.op, spelling |-> k.version]
    OBVIOUS
  <2>2. sent.body = [method |-> method, params |-> p]
    BY <1>3, <1>5, <2>1
  <2>3. heard = [op |-> Canonical(Server.version, method), params |-> p]
    BY <1>3, <1>5, <2>2 DEF Heard
  <2>4. Canonical(Server.version, method) = q.op
    BY <2>1 DEF Canonical
  <2> QED
    BY <1>1, <1>4, <2>3, <2>4
<1>6. CASE k.binding = "HTTP+JSON"
  <2>1. k.version = "1.0"
    BY <1>6 DEF Bound
  <2>2. sent.body = BuildRestRequest(q.op, p)
    BY <1>3, <1>6
  <2>3. heard = ResolveRoute(BuildRestRequest(q.op, p))
    BY <1>3, <1>6, <2>2 DEF Heard
  <2>4. /\ q.op \in {"GET_TASK", "CANCEL_TASK", "RESUBSCRIBE"} \cup ConfigOps => Has(r, "id")
        /\ q.op \in PushOps => Has(r, "taskId")
        /\ ~Has(r, "tenant")
        /\ Queried(r) \/ q.op \in SendOps
    BY <1>1, <2>1, ParamsOf
  <2>5. p = Opt("tenant", k.tenant) ++ r
    BY <1>2, <2>1 DEF WithServiceParams
  <2>6. PICK o : o = Opt("tenant", k.tenant)
    OBVIOUS
  <2>7. /\ \A f : Has(o, f) <=> k.tenant # Absent /\ f = "tenant"
        /\ k.tenant # Absent => o["tenant"] = k.tenant
    <3>1. PICK v : v = k.tenant
      OBVIOUS
    <3>2. o = Opt("tenant", v)
      BY <2>6, <3>1
    <3>3. \A f : Has(o, f) <=> v # Absent /\ f = "tenant"
      BY <3>2, Optional
    <3>4. v # Absent => o["tenant"] = v
      BY <3>2, Optional
    <3> QED
      BY <3>1, <3>3, <3>4
  <2>9. p = o ++ r
    BY <2>5, <2>6
  <2>10. Has(p, "tenant") => p["tenant"] \notin RouteHeads
    BY <2>4, <2>7, <2>9, Merged DEF Bound
  <2>11. (Has(r, "id") => Has(p, "id")) /\ (Has(r, "taskId") => Has(p, "taskId"))
    BY <2>9, Merged
  <2>12. Queried(r) => Queried(p)
    <3>1. \A f : f \in NumberFields \cup BooleanFields => f # "tenant"
      BY DEF NumberFields, BooleanFields
    <3>2. \A f : f # "tenant" => (Has(p, f) <=> Has(r, f)) /\ (Has(r, f) => p[f] = r[f])
      BY <1>4 DEF SameBut
    <3> QED
      BY <3>1, <3>2 DEF Queried, Has
  <2>13. q.op \in Ops
    BY AsksAssumption
  <2>14. heard.op = q.op /\ SameBut(heard.params, p)
    BY <2>3, <2>4, <2>10, <2>11, <2>12, <2>13, RestCarries
  <2> QED
    BY <1>1, <1>4, <2>14 DEF SameBut
<1> QED
  BY <1>5, <1>6 DEF Bound

LEMMA AskShape ==
  ASSUME NEW q \in AllAsks
  PROVE  q = AskFor(q.op, q.task, q.config, q.url, q.schemes, q.limit, q.blocking)
<1>1. q = Given(q)
  BY AsksAssumption
<1>2. PICK o, a, b, d, e, f, g : o = q.op /\ a = q.task /\ b = q.config /\ d = q.url
                               /\ e = q.schemes /\ f = q.limit /\ g = q.blocking
  OBVIOUS
<1>3. \E t, u, v, w, x, y, z : q = AskFor(t, u, v, w, x, y, z)
  <2>1. CASE o \in SendOps
    <3>1. q = AskFor(o, Absent, b, d, e, Absent, g)
      BY <1>1, <1>2, <2>1 DEF Given, SendOps, ConfigOps
    <3> QED
      BY <3>1
  <2>2. CASE o = "SET_PUSH_CONFIG"
    <3>1. q = AskFor(o, a, b, d, e, Absent, TRUE)
      BY <1>1, <1>2, <2>2 DEF Given, SendOps, ConfigOps
    <3> QED
      BY <3>1
  <2>3. CASE o \in ConfigOps
    <3>1. q = AskFor(o, a, b, Absent, None, Absent, TRUE)
      BY <1>1, <1>2, <2>3 DEF Given, SendOps, ConfigOps
    <3> QED
      BY <3>1
  <2>4. CASE o = "GET_TASK"
    <3>1. q = AskFor(o, a, Absent, Absent, None, f, TRUE)
      BY <1>1, <1>2, <2>4 DEF Given, SendOps, ConfigOps
    <3> QED
      BY <3>1
  <2>5. CASE o = "LIST_TASKS"
    <3>1. q = AskFor(o, Absent, Absent, Absent, None, f, TRUE)
      BY <1>1, <1>2, <2>5 DEF Given, SendOps, ConfigOps
    <3> QED
      BY <3>1
  <2>6. CASE o = "GET_EXTENDED_CARD"
    <3>1. q = AskFor(o, Absent, Absent, Absent, None, Absent, TRUE)
      BY <1>1, <1>2, <2>6 DEF Given, SendOps, ConfigOps
    <3> QED
      BY <3>1
  <2>7. CASE o \notin SendOps \cup ConfigOps
               \cup {"SET_PUSH_CONFIG", "GET_TASK", "LIST_TASKS", "GET_EXTENDED_CARD"}
    <3>1. q = AskFor(o, a, Absent, Absent, None, Absent, TRUE)
      BY <1>1, <1>2, <2>7 DEF Given, SendOps, ConfigOps
    <3> QED
      BY <3>1
  <2> QED
    BY <2>1, <2>2, <2>3, <2>4, <2>5, <2>6, <2>7
<1> QED
  BY <1>3 DEF AskFor

(* A request that no check refuses is understood.                             *)
LEMMA RequestUnderstood ==
  ASSUME NEW k, Bound(k), NEW q \in AllAsks, NEW sent, sent = Request(k, q),
         ClientRefuses(k.version, q) = Absent, Server.version \in {"0.3", "1.0"},
         NEW heard, heard = Heard(sent), heard # NoRoute, Refusal(sent, heard) = Absent,
         NEW s, s = Validate(Server.version, heard.op, heard.params)
  PROVE  Understood(k.version, q, s) /\ (s.op \in PushOps => s.config # Blank)
<1>1. sent.pin \in {Absent, Server.version} /\ s # Invalid
  BY RefusedNot
<1>2. k.version = "1.0" => Server.version = "1.0"
  <2>1. k.version = "1.0" => sent.pin = "1.0"
    BY DEF Request
  <2> QED
    BY <1>1, <2>1, AbsentIsNoText
<1>3. heard.op = q.op /\ SameBut(heard.params, ClientParams(k.version, q))
  BY <1>2, RequestHeard
<1>4. PICK cv, sv, p : cv = k.version /\ sv = Server.version /\ p = heard.params
  OBVIOUS
<1>5. Versions(cv, sv) /\ SameBut(p, ClientParams(cv, q)) /\ s = Validate(sv, q.op, p)
  BY <1>2, <1>3, <1>4 DEF Versions, Bound
<1>6. /\ q.op \in Ops /\ q = Given(q) /\ q.blocking \in BOOLEAN
      /\ q.op \in SendOps /\ q.url = Absent => q.config = Absent /\ q.schemes = None
      /\ q.op = "DELETE_PUSH_CONFIG" => q.config # Absent
  BY AsksAssumption
<1>7. Understood(cv, q, s) /\ (q.op \in PushOps => s.config # Blank)
  <2>1. CASE q.op \in SendOps
    <3>1. ClientParams(cv, q) = FormatParams(cv, q) /\ s = ValidateSend(sv, q.op, p)
      BY <1>5, <2>1 DEF ClientParams, Validate, SendOps, ConfigOps
    <3> QED
      BY <1>5, <1>6, <2>1, <3>1, SendRead DEF SendOps, PushOps, ConfigOps
  <2>2. CASE q.op \in {"GET_TASK", "CANCEL_TASK", "RESUBSCRIBE"}
    <3>1. s = ValidateTask(q.op, p)
      BY <1>5, <2>2 DEF Validate, SendOps, ConfigOps
    <3> QED
      BY <1>1, <1>5, <1>6, <2>2, <3>1, TaskRead DEF PushOps, ConfigOps
  <2>3. CASE q.op = "SET_PUSH_CONFIG"
    <3>1. ClientParams(cv, q) = FormatPushConfig(cv, q) /\ s = ValidateSetPush(sv, p)
      BY <1>5, <2>3 DEF ClientParams, Validate, SendOps, ConfigOps
    <3> QED
      BY <1>1, <1>5, <1>6, <2>3, <3>1, SetPushRead
  <2>4. CASE q.op \in ConfigOps \cup {"LIST_PUSH_CONFIGS"}
    <3>1. s = ValidatePush(sv, q.op, p)
      BY <1>5, <2>4 DEF Validate, SendOps, ConfigOps
    <3>2. ~(q.op = "GET_PUSH_CONFIG" /\ cv = "1.0" /\ q.config \in {Absent, Blank})
      BY <1>4, AbsentIsNoText DEF ClientRefuses
    <3> QED
      BY <1>1, <1>5, <1>6, <2>4, <3>1, <3>2, PushRead
  <2>5. CASE q.op \in {"LIST_TASKS", "GET_EXTENDED_CARD"}
    <3>1. Understood(cv, q, s)
      BY <1>5, <1>6, <2>5, OtherRead
    <3> QED
      BY <2>5, <3>1 DEF PushOps, ConfigOps
  <2> QED
    BY <1>6, <2>1, <2>2, <2>3, <2>4, <2>5 DEF Ops, PushOps
<1>8. s.op = q.op
  <2>1. PICK config, schemes : s = [q EXCEPT !.config = config, !.schemes = schemes]
    BY <1>7 DEF Understood
  <2>2. q = AskFor(q.op, q.task, q.config, q.url, q.schemes, q.limit, q.blocking)
    BY AskShape
  <2> QED
    BY <2>1, <2>2 DEF AskFor
<1> QED
  BY <1>4, <1>7, <1>8

(* Calls that the server is at work on.                                     *)
Taken == {"serving", "created", "registered", "waiting"}

(* What a call holds, of a client that made k of the card.                    *)
Fits(own, k) ==
  /\ k.pc # "idle" => k.asked \in AllAsks /\ (~IsPush(k.asked) => k.noted = Absent)
  /\ k.pc = "sent" =>
       /\ own # Unresolved /\ k.by.version = own.version
       /\ k.sent = Request(own, k.asked) /\ ClientRefuses(own.version, k.asked) = Absent
  /\ k.pc \in {"sent", "serving", "created"} => k.noted = Absent
  /\ k.pc \in Taken => Understood(k.by.version, k.asked, k.served)
  /\ k.pc = "serving" /\ k.served.op \in PushOps => k.served.config # Blank
  /\ k.pc \in {"created", "registered"} => k.served.op \in SendOps

(* A card is that of one of the servers; no webhook has the id of another.     *)
SettingFits ==
  /\ \E w \in DOMAIN Worlds : world = Worlds[w]
  /\ deployed \in DOMAIN world.servers
  /\ cached = Absent \/ \E i \in DOMAIN world.servers : cached = Cards!AgentCard(world.servers[i])
  /\ DOMAIN client = Clients
  /\ \A c \in Clients : client[c] = Unresolved \/ Bound(client[c])

UniqueIds ==
  \A name \in DOMAIN configs : \A i, j \in DOMAIN configs[name] :
    configs[name][i].id = configs[name][j].id => i = j

AskInv ==
  /\ SettingFits /\ UniqueIds
  /\ \A c \in Clients : Fits(client[c], call[c])
-----------------------------------------------------------------------------
(* The card.                                                               *)
LEMMA LeastOf ==
  ASSUME NEW S \in SUBSET Nat, S # {}
  PROVE  LET m == CHOOSE m \in S : \A k \in S : m <= k IN m \in S
<1>1. PICK m \in S : \A k \in S : ~(<<k, m>> \in OpToRel(<, Nat))
  BY NatLessThanWellFounded, WFMin
<1>2. \A k \in S : ~(k < m)
  BY <1>1 DEF OpToRel
<1>3. \A k \in S : m <= k
  BY <1>2
<1> QED
  BY <1>3

LEMMA ServersAre ==
  ASSUME SettingFits, NEW i \in DOMAIN world.servers, NEW s, s = world.servers[i]
  PROVE  /\ s.version \in {"0.3", "1.0"} /\ Listed(s.interfaces)
         /\ \A j \in DOMAIN s.interfaces :
              /\ DOMAIN s.interfaces[j] = {"binding", "tenant"}
              /\ s.interfaces[j].binding \in {"JSONRPC", "HTTP+JSON"}
              /\ s.interfaces[j].tenant \notin RouteHeads
<1>1. PICK w \in DOMAIN Worlds : world = Worlds[w]
  BY DEF SettingFits
<1>2. PICK servers : servers = Worlds[w].servers
  OBVIOUS
<1>3. i \in DOMAIN servers /\ s = servers[i]
  BY <1>1, <1>2
<1> QED
  BY <1>2, <1>3, WorldsAssumption

(* The interfaces as v1.0 shows them, and what tells where the server is.       *)
Offered(s) ==
  [i \in DOMAIN s.interfaces |->
     IF i = 1 THEN [s.interfaces[1] EXCEPT !.tenant = Absent] ELSE s.interfaces[i]]
Place(s) ==
  IF s.version = "0.3"
  THEN [url |-> Cards!Endpoint, protocolVersion |-> "0.3.0", preferredTransport |-> "JSONRPC",
        additionalInterfaces |-> Tail(s.interfaces)]
  ELSE [supportedInterfaces |-> Offered(s)]

(* The fields of a card that may be there beside those.                       *)
Beside == {"extensions", "securitySchemes", "security", "securityRequirements"}
Shows(card, place) ==
  /\ DOMAIN card \subseteq Beside \cup DOMAIN place /\ DOMAIN place \subseteq DOMAIN card
  /\ \A f \in DOMAIN place \ Beside : card[f] = place[f]

LEMMA CardFields ==
  ASSUME NEW s, NEW card, card = Cards!AgentCard(s), NEW place,
         place = Place(s)
  PROVE  Shows(card, place)
<1>1. \A p, q, f : /\ f \in DOMAIN (Cards!++(p, q)) <=> f \in DOMAIN p \cup DOMAIN q
                   /\ f \in DOMAIN p => (Cards!++(p, q))[f] = p[f]
                   /\ f \in DOMAIN q \ DOMAIN p => (Cards!++(p, q))[f] = q[f]
  BY DEF Cards!++
<1>2. PICK fields : fields = Cards!SecurityFields(s.version, s.schemes, s.requirements)
  OBVIOUS
<1>3. PICK top : top = [extensions |-> s.extensions]
  OBVIOUS
<1>4. card = Cards!++(Cards!++(top, fields), place)
  BY <1>2, <1>3 DEF Cards!AgentCard, Place, Offered
<1>5. DOMAIN fields \subseteq {"securitySchemes", "security", "securityRequirements"}
  <2>1. \E schemes, mapped :
          fields = Cards!++([securitySchemes |-> schemes],
                     IF s.requirements = <<>> THEN <<>>
                     ELSE IF s.version = "0.3" THEN [security |-> mapped]
                     ELSE [securityRequirements |-> mapped])
    BY <1>2 DEF Cards!SecurityFields
  <2> QED
    BY <2>1 DEF Cards!++
<1>6. PICK rest : rest = {"extensions"} \cup DOMAIN fields
  OBVIOUS
<1>7. \A f : f \in DOMAIN card <=> f \in rest \cup DOMAIN place
  BY <1>1, <1>3, <1>4, <1>6
<1>8. \A f \in DOMAIN place \ rest : card[f] = place[f]
  BY <1>1, <1>3, <1>4, <1>6
<1>9. rest \subseteq Beside
  BY <1>5, <1>6 DEF Beside
<1> QED
  BY <1>7, <1>8, <1>9 DEF Shows

LEMMA OldCard ==
  ASSUME NEW s, s.version = "0.3", NEW card, card = Cards!AgentCard(s), NEW prefers
  PROVE  Cards!SelectAgentInterface(card, prefers) =
           [version |-> "0.3", binding |-> "JSONRPC", tenant |-> Absent]
<1>1. PICK place : place = Place(s)
  OBVIOUS
<1>2. Shows(card, place)
  BY <1>1, CardFields
<1>3. "preferredTransport" \in DOMAIN place /\ place["preferredTransport"] = "JSONRPC"
      /\ "protocolVersion" \in DOMAIN place /\ "supportedInterfaces" \notin DOMAIN place
  BY <1>1 DEF Place
<1>4. "protocolVersion" \in DOMAIN card /\ card["preferredTransport"] = "JSONRPC"
      /\ "supportedInterfaces" \notin DOMAIN card
  BY <1>2, <1>3 DEF Shows, Beside
<1>5. Cards!DetectProtocolVersion(card) = "0.3"
  BY <1>4 DEF Cards!DetectProtocolVersion
<1> QED
  BY <1>4, <1>5 DEF Cards!SelectAgentInterface

LEMMA NewCard ==
  ASSUME NEW s, s.version = "1.0", NEW card, card = Cards!AgentCard(s), NEW offered,
         offered = Offered(s)
  PROVE  Cards!DetectProtocolVersion(card) = "1.0" /\ card["supportedInterfaces"] = offered
<1>1. PICK place : place = Place(s)
  OBVIOUS
<1>2. Shows(card, place)
  BY <1>1, CardFields
<1>3. DOMAIN place = {"supportedInterfaces"} /\ place["supportedInterfaces"] = offered
  BY <1>1 DEF Place
<1>4. "protocolVersion" \notin DOMAIN card /\ "supportedInterfaces" \in DOMAIN card
      /\ card["supportedInterfaces"] = offered
  BY <1>2, <1>3 DEF Shows, Beside
<1> QED
  BY <1>4 DEF Cards!DetectProtocolVersion

LEMMA SelectedBound ==
  ASSUME SettingFits, NEW i \in DOMAIN world.servers,
         NEW card, card = Cards!AgentCard(world.servers[i]),
         NEW prefers, Listed(prefers),
         NEW k, k = Cards!SelectAgentInterface(card, prefers), k # Cards!NoInterface
  PROVE  Bound(k) /\ DOMAIN k = {"version", "binding", "tenant"}
<1>1. PICK s : s = world.servers[i]
  OBVIOUS
<1>2. /\ s.version \in {"0.3", "1.0"} /\ Listed(s.interfaces)
      /\ \A j \in DOMAIN s.interfaces :
           /\ DOMAIN s.interfaces[j] = {"binding", "tenant"}
           /\ s.interfaces[j].binding \in {"JSONRPC", "HTTP+JSON"}
           /\ s.interfaces[j].tenant \notin RouteHeads
  BY <1>1, ServersAre
<1>3. card = Cards!AgentCard(s)
  BY <1>1
<1>4. CASE s.version = "0.3"
  <2>2. k = [version |-> "0.3", binding |-> "JSONRPC", tenant |-> Absent]
    BY <1>3, <1>4, OldCard
  <2> QED
    BY <2>2 DEF Bound
<1>5. CASE s.version = "1.0"
  <2>1. PICK offered : offered = Offered(s)
    OBVIOUS
  <2>2. Cards!DetectProtocolVersion(card) = "1.0" /\ card["supportedInterfaces"] = offered
    BY <1>3, <1>5, <2>1, NewCard
  <2>3. \A j \in DOMAIN offered :
          /\ offered[j].binding \in {"JSONRPC", "HTTP+JSON"}
          /\ offered[j].tenant \notin RouteHeads \/ offered[j].tenant = Absent
    BY <1>2, <2>1 DEF Offered
  <2>4. DOMAIN offered \subseteq Nat /\ DOMAIN prefers \subseteq Nat
    BY <1>2, <2>1 DEF Listed, Offered
  <2> DEFINE Of(binding) == {j \in DOMAIN offered : offered[j].binding = binding}
             usable == {n \in DOMAIN prefers : Of(prefers[n]) # {}}
             n == CHOOSE n \in usable : \A m \in usable : n <= m
             j == CHOOSE j \in Of(prefers[n]) : \A m \in Of(prefers[n]) : j <= m
  <2>5. k = IF usable = {} THEN Cards!NoInterface
            ELSE [version |-> "1.0", binding |-> prefers[n], tenant |-> offered[j].tenant]
    BY <2>2 DEF Cards!SelectAgentInterface
  <2>6. usable # {}
    BY <2>5
  <2>7. usable \in SUBSET Nat
    BY <2>4
  <2>8. n \in usable
    <3>1. PICK S : S = usable
      OBVIOUS
    <3>2. S \in SUBSET Nat /\ S # {}
      BY <2>6, <2>7, <3>1
    <3> HIDE DEF usable
    <3> QED
      BY <3>1, <3>2, LeastOf
  <2>9. PICK S : S = Of(prefers[n])
    OBVIOUS
  <2>10. S # {} /\ S \in SUBSET Nat
    BY <2>4, <2>8, <2>9
  <2>11. j \in S
    <3>1. j = CHOOSE least \in S : \A m \in S : least <= m
      BY <2>9
    <3> HIDE DEF j
    <3> QED
      BY <2>10, <3>1, LeastOf
  <2>12. j \in DOMAIN offered /\ offered[j].binding = prefers[n]
    BY <2>9, <2>11
  <2>13. k = [version |-> "1.0", binding |-> prefers[n], tenant |-> offered[j].tenant]
    BY <2>5, <2>6
  <2> HIDE DEF j, n, usable, Of
  <2> QED
    BY <2>3, <2>12, <2>13 DEF Bound
<1> QED
  BY <1>2, <1>4, <1>5

(* What keeps the invariant: a step of one call, or none.                     *)
LEMMA OneCallFits ==
  ASSUME HearInv, AskInv, NEW c \in Clients, NEW k, call' = [call EXCEPT ![c] = k],
         Fits(client[c], k), UNCHANGED setting, UNCHANGED configs \/ UniqueIds'
  PROVE  AskInv'
<1>1. DOMAIN call = Clients
  BY DEF HearInv, Shaped
<1>2. client' = client /\ SettingFits'
  BY DEF AskInv, SettingFits, setting
<1>3. UniqueIds'
  BY DEF AskInv, UniqueIds
<1>4. ASSUME NEW d \in Clients
      PROVE  Fits(client'[d], call'[d])
  BY <1>1, <1>2 DEF AskInv
<1> QED
  BY <1>2, <1>3, <1>4 DEF AskInv

LEMMA SettingMoves ==
  ASSUME AskInv, UNCHANGED <<call, client, configs>>, SettingFits'
  PROVE  AskInv'
BY DEF AskInv, UniqueIds

LEMMA IdleFits ==
  ASSUME NEW own, NEW k, k.pc = "idle"
  PROVE  Fits(own, k)
BY DEF Fits, Taken

LEMMA AnsweredFits ==
  ASSUME NEW own, NEW k, DOMAIN k = CallFields, Fits(own, k), k.pc # "idle", NEW o
  PROVE  Fits(own, Answered(k, o))
<1>1. PICK a : a = Answered(k, o)
  OBVIOUS
<1>2. a.pc = "answered" /\ a.asked = k.asked /\ a.noted = k.noted
  BY <1>1 DEF Answered, CallFields
<1> QED
  BY <1>1, <1>2 DEF Fits, Taken

LEMMA AnswerFits ==
  ASSUME HearInv, AskInv, NEW c \in Clients, call[c].pc # "idle", NEW o, Answer(c, o),
         UNCHANGED configs
  PROVE  AskInv'
<1>1. PICK k : k = Answered(call[c], o)
  OBVIOUS
<1>2. call' = [call EXCEPT ![c] = k] /\ UNCHANGED setting
  BY <1>1 DEF Answer
<1>3. Fits(client[c], k)
  BY <1>1, AnsweredFits DEF HearInv, Shaped, AskInv
<1> QED
  BY <1>2, <1>3, OneCallFits

LEMMA AnswerPushFits ==
  ASSUME HearInv, AskInv, NEW c \in Clients, call[c].pc # "idle", IsPush(call[c].asked),
         NEW o, NEW noted, AnswerPush(c, o, noted), UNCHANGED configs \/ UniqueIds'
  PROVE  AskInv'
<1>1. PICK a : a = Answered(call[c], o)
  OBVIOUS
<1>2. PICK k : k = [a EXCEPT !.noted = noted]
  OBVIOUS
<1>3. call' = [call EXCEPT ![c] = k] /\ UNCHANGED setting
  BY <1>1, <1>2 DEF AnswerPush
<1>4. a.pc = "answered" /\ a.asked = call[c].asked /\ DOMAIN a = CallFields
  BY <1>1, AnsweredShape DEF HearInv, Shaped, Answered, CallFields
<1>5. k.pc = "answered" /\ k.asked = call[c].asked
  BY <1>2, <1>4 DEF CallFields
<1>6. Fits(client[c], k)
  BY <1>5 DEF AskInv, Fits, Taken
<1> QED
  BY <1>3, <1>6, OneCallFits

(* A request at the server is the one that was asked for, and means the same.   *)
LEMMA TakenIs ==
  ASSUME AskInv, NEW c \in Clients, call[c].pc \in Taken,
         NEW q, q = call[c].asked, NEW s, s = call[c].served
  PROVE  /\ q \in AllAsks /\ Understood(call[c].by.version, q, s)
         /\ s.op = q.op /\ s.task = q.task /\ s.url = q.url
         /\ s.config = q.config \/ ({s.config, q.config} = {Blank, Absent}
                                    /\ q.op # "DELETE_PUSH_CONFIG")
<1>1. q \in AllAsks /\ Understood(call[c].by.version, q, s)
  BY DEF AskInv, Fits, Taken
<1>2. q = AskFor(q.op, q.task, q.config, q.url, q.schemes, q.limit, q.blocking)
  BY <1>1, AskShape
<1>3. PICK config, schemes : s = [q EXCEPT !.config = config, !.schemes = schemes]
  BY <1>1 DEF Understood
<1>4. s.op = q.op /\ s.task = q.task /\ s.url = q.url
  BY <1>2, <1>3 DEF AskFor
<1> QED
  BY <1>1, <1>4 DEF Understood
-----------------------------------------------------------------------------
LEMMA ResolveFits ==
  ASSUME HearInv, AskInv, NEW c \in Clients, Resolve(c)
  PROVE  AskInv'
<1>1. PICK habit : habit = world.habits[c]
  OBVIOUS
<1>2. PICK card : card = GetAgentCard
  OBVIOUS
<1>3. PICK selected : selected = Cards!SelectAgentInterface(card, habit.prefers)
  OBVIOUS
<1>4. client[c] = Unresolved /\ selected # Cards!NoInterface /\ cached' = card
  BY <1>1, <1>2, <1>3 DEF Resolve
<1>5. PICK more : client' = [client EXCEPT ![c] = selected ++ more]
  BY <1>1, <1>2, <1>3 DEF Resolve
<1>6. UNCHANGED <<world, deployed, call, configs>>
  BY DEF Resolve, stores
<1>7. PICK i \in DOMAIN world.servers : card = Cards!AgentCard(world.servers[i])
  BY <1>2 DEF GetAgentCard, Server, AskInv, SettingFits
<1>8. Listed(habit.prefers)
  <2>1. PICK w \in DOMAIN Worlds : world = Worlds[w]
    BY DEF AskInv, SettingFits
  <2> QED
    BY <1>1, <2>1, WorldsAssumption
<1>9. Bound(selected) /\ DOMAIN selected = {"version", "binding", "tenant"}
  BY <1>3, <1>4, <1>7, <1>8, SelectedBound DEF AskInv
<1>10. PICK k : k = selected ++ more
  OBVIOUS
<1>11. k.version = selected.version /\ k.binding = selected.binding /\ k.tenant = selected.tenant
  BY <1>9, <1>10 DEF ++, Has
<1>12. Bound(k)
  BY <1>9, <1>11 DEF Bound
<1>13. DOMAIN client = Clients /\ client' = [client EXCEPT ![c] = k]
  BY <1>5, <1>10 DEF AskInv, SettingFits
<1>14. SettingFits'
  <2>1. \A d \in Clients : client'[d] = Unresolved \/ Bound(client'[d])
    BY <1>12, <1>13 DEF AskInv, SettingFits
  <2>2. DOMAIN client' = Clients
    BY <1>13
  <2>3. \E j \in DOMAIN world'.servers : cached' = Cards!AgentCard(world'.servers[j])
    BY <1>4, <1>6, <1>7
  <2> QED
    BY <1>6, <2>1, <2>2, <2>3 DEF AskInv, SettingFits
<1>15. UniqueIds'
  BY <1>6 DEF AskInv, UniqueIds
<1>16. ASSUME NEW d \in Clients
       PROVE  Fits(client'[d], call'[d])
  <2>1. call'[d] = call[d] /\ Fits(client[d], call[d])
    BY <1>6 DEF AskInv
  <2>2. CASE d = c
    <3>1. call[c].pc # "sent"
      BY <1>4, <2>1, <2>2 DEF Fits
    <3> QED
      BY <2>1, <2>2, <3>1 DEF Fits
  <2>3. CASE d # c
    BY <1>13, <2>1, <2>3
  <2> QED
    BY <2>2, <2>3
<1> QED
  BY <1>14, <1>15, <1>16 DEF AskInv

LEMMA AskFits ==
  ASSUME HearInv, AskInv, NEW c \in Clients, Ask(c)
  PROVE  AskInv'
<1> DEFINE New(q, by) == [NoCall EXCEPT !.asked = q, !.by = by]
<1>1. PICK q \in world.habits[c].asks :
        LET k == client[c]
            unwilling == ClientRefuses(k.version, q)
            refused == IF k.presents = Cards!Unusable /\ unwilling # "VersionNotSupported"
                       THEN "UnsupportedOperation" ELSE unwilling
            new == New(q, [version |-> k.version, of |-> k.of])
        IN /\ k # Unresolved
           /\ call' = [call EXCEPT ![c] =
                IF refused = Absent THEN [new EXCEPT !.pc = "sent", !.sent = Request(k, q)]
                ELSE [new EXCEPT !.result = Fails(refused),
                         !.current = refused = "UnsupportedOperation" /\ k.of = deployed]]
  BY DEF Ask
<1>2. PICK own : own = client[c]
  OBVIOUS
<1>3. PICK by : by = [version |-> own.version, of |-> own.of]
  OBVIOUS
<1>4. PICK refused : refused = IF own.presents = Cards!Unusable
                                  /\ ClientRefuses(own.version, q) # "VersionNotSupported"
                               THEN "UnsupportedOperation" ELSE ClientRefuses(own.version, q)
  OBVIOUS
<1>5. PICK new : new = New(q, by)
  OBVIOUS
<1>6. PICK current : current = (refused = "UnsupportedOperation" /\ own.of = deployed)
  OBVIOUS
<1>7. PICK k : k = IF refused = Absent THEN [new EXCEPT !.pc = "sent", !.sent = Request(own, q)]
                   ELSE [new EXCEPT !.result = Fails(refused), !.current = current]
  OBVIOUS
<1>8. own # Unresolved /\ call' = [call EXCEPT ![c] = k]
  <2> HIDE DEF New
  <2> QED
    BY <1>1, <1>2, <1>3, <1>4, <1>5, <1>6, <1>7
<1>9. q \in AllAsks
  <2>1. PICK w \in DOMAIN Worlds : world = Worlds[w]
    BY DEF AskInv, SettingFits
  <2>2. q \in Worlds[w].habits[c].asks
    BY <2>1
  <2> QED
    BY <2>2 DEF AllAsks
<1>10. /\ DOMAIN new = CallFields /\ new.pc = "idle" /\ new.asked = q /\ new.by = by
       /\ new.noted = Absent
  BY <1>5 DEF NoCall, CallFields
<1>11. Fits(client[c], k)
  <2>1. CASE refused = Absent
    <3>1. /\ k.pc = "sent" /\ k.sent = Request(own, q) /\ k.asked = q /\ k.by = by
          /\ k.noted = Absent
      BY <1>7, <1>10, <2>1 DEF CallFields
    <3>2. ClientRefuses(own.version, q) = Absent
      BY <1>4, <2>1, AbsentIsNoText
    <3>3. k.by.version = own.version
      BY <1>3, <3>1
    <3> QED
      BY <1>2, <1>8, <1>9, <3>1, <3>2, <3>3 DEF Fits, Taken
  <2>2. CASE refused # Absent
    <3>1. k.pc = "idle"
      BY <1>7, <1>10, <2>2 DEF CallFields
    <3> QED
      BY <3>1, IdleFits
  <2> QED
    BY <2>1, <2>2
<1>12. UNCHANGED setting /\ UNCHANGED configs
  BY DEF Ask, stores
<1> QED
  BY <1>8, <1>11, <1>12, OneCallFits

LEMMA EndFits ==
  ASSUME HearInv, AskInv, NEW c \in Clients, Lose(c) \/ Receive(c)
  PROVE  AskInv'
<1>1. PICK r : call' = [call EXCEPT ![c].pc = "idle", ![c].result = r]
  BY DEF Lose, Receive
<1>2. PICK k : k = [call[c] EXCEPT !.pc = "idle", !.result = r]
  OBVIOUS
<1>3. k.pc = "idle" /\ call' = [call EXCEPT ![c] = k]
  BY <1>1, <1>2 DEF HearInv, Shaped, CallFields
<1>4. UNCHANGED setting /\ UNCHANGED configs
  BY DEF Lose, Receive, stores
<1> QED
  BY <1>3, <1>4, IdleFits, OneCallFits

(* The server of the world speaks one of the versions.                        *)
LEMMA ServerSpeaks ==
  ASSUME AskInv
  PROVE  Server.version \in {"0.3", "1.0"}
<1>1. PICK s : s = world.servers[deployed]
  OBVIOUS
<1>2. s.version \in {"0.3", "1.0"}
  BY <1>1, ServersAre DEF AskInv, SettingFits
<1> QED
  BY <1>1, <1>2 DEF Server

LEMMA ArriveFits ==
  ASSUME HearInv, AskInv, NEW c \in Clients, Arrive(c)
  PROVE  AskInv'
<1>1. PICK k : k = [call[c] EXCEPT !.current = call[c].by.of = deployed]
  OBVIOUS
<1>2. PICK heard : heard = Heard(k.sent)
  OBVIOUS
<1>3. PICK refusal : refusal = Refusal(k.sent, heard)
  OBVIOUS
<1>4. call[c].pc = "sent" /\ DOMAIN call[c] = CallFields
  BY DEF Arrive, HearInv, Shaped
<1>5. /\ DOMAIN k = CallFields /\ k.pc = "sent" /\ k.asked = call[c].asked /\ k.by = call[c].by
      /\ k.sent = call[c].sent /\ k.noted = call[c].noted
  BY <1>1, <1>4 DEF CallFields
<1>6. call' = [call EXCEPT ![c] =
          CASE heard = NoRoute ->
                 [k EXCEPT !.pc = "answered", !.spoke = Server.version, !.reply = Unheard(k.sent)]
            [] heard # NoRoute /\ refusal = "AuthRequired" ->
                 Answered(k, AuthRequired(k.sent, heard.op))
            [] heard # NoRoute /\ refusal \notin {"AuthRequired", Absent} ->
                 Answered(k, Fails(refusal))
            [] OTHER ->
                 [k EXCEPT !.pc = "serving",
                           !.served = Validate(Server.version, heard.op, heard.params)]]
  BY <1>1, <1>2, <1>3 DEF Arrive
<1>7. Fits(client[c], k)
  BY <1>4, <1>5 DEF AskInv, Fits, Taken
<1>8. \E to : Fits(client[c], to) /\ call' = [call EXCEPT ![c] = to]
  <2>1. CASE heard = NoRoute
    <3>1. PICK to : to = [k EXCEPT !.pc = "answered", !.spoke = Server.version,
                                   !.reply = Unheard(k.sent)]
      OBVIOUS
    <3>2. to.pc = "answered" /\ to.asked = k.asked /\ to.noted = k.noted
      BY <1>5, <3>1 DEF CallFields
    <3>3. Fits(client[c], to)
      BY <1>5, <1>7, <3>2 DEF Fits, Taken
    <3> QED
      BY <1>6, <2>1, <3>1, <3>3
  <2>2. CASE heard # NoRoute /\ refusal = "AuthRequired"
    <3>1. Fits(client[c], Answered(k, AuthRequired(k.sent, heard.op)))
      BY <1>5, <1>7, AnsweredFits
    <3> QED
      BY <1>6, <2>2, <3>1
  <2>3. CASE heard # NoRoute /\ refusal \notin {"AuthRequired", Absent}
    <3>1. Fits(client[c], Answered(k, Fails(refusal)))
      BY <1>5, <1>7, AnsweredFits
    <3> QED
      BY <1>6, <2>3, <3>1
  <2>4. CASE heard # NoRoute /\ refusal = Absent /\ refusal # "AuthRequired"
    <3>1. PICK s : s = Validate(Server.version, heard.op, heard.params)
      OBVIOUS
    <3>2. PICK to : to = [k EXCEPT !.pc = "serving", !.served = s]
      OBVIOUS
    <3>3. /\ to.pc = "serving" /\ to.served = s /\ to.asked = k.asked /\ to.by = k.by
          /\ to.noted = k.noted
      BY <1>5, <3>2 DEF CallFields
    <3>4. PICK own, q, sent : own = client[c] /\ q = k.asked /\ sent = k.sent
      OBVIOUS
    <3>5. /\ q \in AllAsks /\ own # Unresolved /\ k.by.version = own.version
          /\ sent = Request(own, q) /\ ClientRefuses(own.version, q) = Absent /\ k.noted = Absent
      BY <1>5, <1>7, <3>4 DEF Fits
    <3>6. Bound(own)
      BY <3>4, <3>5 DEF AskInv, SettingFits
    <3>7. heard = Heard(sent) /\ Refusal(sent, heard) = Absent
      BY <1>2, <1>3, <2>4, <3>4
    <3>8. Understood(own.version, q, s) /\ (s.op \in PushOps => s.config # Blank)
      BY <2>4, <3>1, <3>5, <3>6, <3>7, ServerSpeaks, RequestUnderstood
    <3>9. Fits(own, to)
      BY <3>3, <3>4, <3>5, <3>8 DEF Fits, Taken
    <3>10. call' = [call EXCEPT ![c] = to]
      BY <1>6, <2>4, <3>1, <3>2
    <3> QED
      BY <3>4, <3>9, <3>10
  <2> QED
    BY <2>1, <2>2, <2>3, <2>4
<1>9. UNCHANGED setting /\ UNCHANGED configs
  BY DEF Arrive, stores
<1> QED
  BY <1>8, <1>9, OneCallFits
-----------------------------------------------------------------------------
(* The registry as PushRegistry sees it.                                     *)
PendingOf(k) ==
  IF k.pc = "idle" THEN Absent ELSE IF IsPush(k.asked) THEN PushRequest(k.asked) ELSE Absent
AnswerOf(k) == IF k.pc = "idle" THEN Absent ELSE k.noted

Registered ==
  UNION {{Webhook(name, configs[name][i]) : i \in DOMAIN configs[name]} : name \in DOMAIN configs}
Pendings == [c \in Clients |-> Pending(c)]
Answers == [c \in Clients |-> IF call[c].pc = "idle" THEN Absent ELSE call[c].noted]

RegistryStays == UNCHANGED <<Registered, Pendings, Answers>>
RegistryStep == Registry!Next \/ RegistryStays

LEMMA PendingIs ==
  /\ \A c \in Clients : Pendings[c] = PendingOf(call[c]) /\ Answers[c] = AnswerOf(call[c])
  /\ DOMAIN Pendings = Clients /\ DOMAIN Answers = Clients
BY DEF Pendings, Answers, Pending, PendingOf, AnswerOf

LEMMA OneCallMaps ==
  ASSUME DOMAIN call = Clients, NEW c \in Clients, NEW k, call' = [call EXCEPT ![c] = k]
  PROVE  /\ Pendings' = [Pendings EXCEPT ![c] = PendingOf(k)]
         /\ Answers' = [Answers EXCEPT ![c] = AnswerOf(k)]
<1>1. call'[c] = k /\ \A d \in Clients : d # c => call'[d] = call[d]
  OBVIOUS
<1>2. \A d \in Clients : Pendings'[d] = IF d = c THEN PendingOf(k) ELSE Pendings[d]
  BY <1>1 DEF Pendings, Pending, PendingOf
<1>3. \A d \in Clients : Answers'[d] = IF d = c THEN AnswerOf(k) ELSE Answers[d]
  BY <1>1 DEF Answers, AnswerOf
<1>4. /\ Pendings' = [d \in Clients |-> Pendings'[d]] /\ Pendings = [d \in Clients |-> Pendings[d]]
      /\ Answers' = [d \in Clients |-> Answers'[d]] /\ Answers = [d \in Clients |-> Answers[d]]
  BY DEF Pendings, Answers
<1> QED
  BY <1>2, <1>3, <1>4

LEMMA StaysWhen ==
  ASSUME UNCHANGED configs, \A c \in Clients : /\ PendingOf(call'[c]) = PendingOf(call[c])
                                               /\ AnswerOf(call'[c]) = AnswerOf(call[c])
  PROVE  RegistryStays
BY DEF RegistryStays, Registered, Pendings, Answers, Pending, PendingOf, AnswerOf

(* A step that keeps what a call asked for and what it was told.              *)
LEMMA Works ==
  ASSUME HearInv, AskInv, NEW c \in Clients, NEW k, call' = [call EXCEPT ![c] = k],
         call[c].pc # "idle", k.pc # "idle", k.asked = call[c].asked, k.noted = call[c].noted,
         Fits(client[c], k), UNCHANGED setting, UNCHANGED configs
  PROVE  AskInv' /\ RegistryStays
<1>1. AskInv'
  BY OneCallFits
<1>2. DOMAIN call = Clients
  BY DEF HearInv, Shaped
<1>3. PendingOf(k) = PendingOf(call[c]) /\ AnswerOf(k) = AnswerOf(call[c])
  BY DEF PendingOf, AnswerOf
<1>4. \A d \in Clients : /\ PendingOf(call'[d]) = PendingOf(call[d])
                         /\ AnswerOf(call'[d]) = AnswerOf(call[d])
  BY <1>2, <1>3
<1> QED
  BY <1>1, <1>4, StaysWhen

LEMMA AnswerWorks ==
  ASSUME HearInv, AskInv, NEW c \in Clients, call[c].pc # "idle", NEW o, Answer(c, o),
         UNCHANGED configs
  PROVE  AskInv' /\ RegistryStays
<1>1. PICK k : k = Answered(call[c], o)
  OBVIOUS
<1>2. call' = [call EXCEPT ![c] = k] /\ UNCHANGED setting
  BY <1>1 DEF Answer
<1>3. Fits(client[c], k)
  BY <1>1, AnsweredFits DEF HearInv, Shaped, AskInv
<1>4. k.pc = "answered" /\ k.asked = call[c].asked /\ k.noted = call[c].noted
  BY <1>1 DEF Answered, HearInv, Shaped, CallFields
<1> QED
  BY <1>2, <1>3, <1>4, Works

(* A step to another program counter alone, and to a task.                    *)
LEMMA TurnsTo ==
  ASSUME HearInv, NEW c \in Clients, NEW pc, NEW task,
         \/ call' = [call EXCEPT ![c].pc = pc]
         \/ call' = [call EXCEPT ![c].pc = pc, ![c].task = task]
  PROVE  \E k : /\ call' = [call EXCEPT ![c] = k]
                /\ k.pc = pc /\ k.asked = call[c].asked /\ k.noted = call[c].noted
                /\ k.by = call[c].by /\ k.served = call[c].served
<1>1. DOMAIN call[c] = CallFields /\ DOMAIN call = Clients
  BY DEF HearInv, Shaped
<1>2. CASE call' = [call EXCEPT ![c].pc = pc]
  <2>1. PICK k : k = [call[c] EXCEPT !.pc = pc]
    OBVIOUS
  <2>2. call' = [call EXCEPT ![c] = k]
    BY <1>1, <1>2, <2>1
  <2>3. /\ k.pc = pc /\ k.asked = call[c].asked /\ k.noted = call[c].noted
        /\ k.by = call[c].by /\ k.served = call[c].served
    BY <1>1, <2>1 DEF CallFields
  <2> QED
    BY <2>2, <2>3
<1>3. CASE call' = [call EXCEPT ![c].pc = pc, ![c].task = task]
  <2>1. PICK k : k = [call[c] EXCEPT !.pc = pc, !.task = task]
    OBVIOUS
  <2>2. call' = [call EXCEPT ![c] = k]
    BY <1>1, <1>3, <2>1
  <2>3. /\ k.pc = pc /\ k.asked = call[c].asked /\ k.noted = call[c].noted
        /\ k.by = call[c].by /\ k.served = call[c].served
    BY <1>1, <2>1 DEF CallFields
  <2> QED
    BY <2>2, <2>3
<1> QED
  BY <1>2, <1>3

LEMMA SettingStays ==
  ASSUME UNCHANGED <<call, configs>>
  PROVE  RegistryStays
BY StaysWhen
-----------------------------------------------------------------------------
LEMMA ResolveKeeps ==
  ASSUME HearInv, AskInv, NEW c \in Clients, Resolve(c)
  PROVE  AskInv' /\ RegistryStays
<1>1. UNCHANGED <<call, configs>>
  BY DEF Resolve, stores
<1> QED
  BY <1>1, ResolveFits, SettingStays

LEMMA ArriveKeeps ==
  ASSUME HearInv, AskInv, NEW c \in Clients, Arrive(c)
  PROVE  AskInv' /\ RegistryStays
<1>1. PICK k : k = [call[c] EXCEPT !.current = call[c].by.of = deployed]
  OBVIOUS
<1>2. PICK heard, refusal : heard = Heard(k.sent) /\ refusal = Refusal(k.sent, heard)
  OBVIOUS
<1>3. call[c].pc = "sent" /\ DOMAIN call[c] = CallFields /\ DOMAIN call = Clients
  BY DEF Arrive, HearInv, Shaped
<1>4. DOMAIN k = CallFields /\ k.pc = "sent" /\ k.asked = call[c].asked /\ k.noted = call[c].noted
  BY <1>1, <1>3 DEF CallFields
<1>5. call' = [call EXCEPT ![c] =
          CASE heard = NoRoute ->
                 [k EXCEPT !.pc = "answered", !.spoke = Server.version, !.reply = Unheard(k.sent)]
            [] heard # NoRoute /\ refusal = "AuthRequired" ->
                 Answered(k, AuthRequired(k.sent, heard.op))
            [] heard # NoRoute /\ refusal \notin {"AuthRequired", Absent} ->
                 Answered(k, Fails(refusal))
            [] OTHER ->
                 [k EXCEPT !.pc = "serving",
                           !.served = Validate(Server.version, heard.op, heard.params)]]
  BY <1>1, <1>2 DEF Arrive
<1>6. \A o : LET a == Answered(k, o)
             IN a.pc # "idle" /\ a.asked = k.asked /\ a.noted = k.noted
  BY <1>4 DEF Answered, CallFields
<1>8. \A s : LET a == [k EXCEPT !.pc = "serving", !.served = s]
             IN a.pc # "idle" /\ a.asked = k.asked /\ a.noted = k.noted
  BY <1>4 DEF CallFields
<1>9. \E to : /\ call' = [call EXCEPT ![c] = to]
              /\ to.pc # "idle" /\ to.asked = k.asked /\ to.noted = k.noted
  <2>1. CASE heard = NoRoute
    <3>1. PICK to : to = [k EXCEPT !.pc = "answered", !.spoke = Server.version,
                                   !.reply = Unheard(k.sent)]
      OBVIOUS
    <3>2. to.pc = "answered" /\ to.asked = k.asked /\ to.noted = k.noted
      BY <1>4, <3>1 DEF CallFields
    <3> QED
      BY <1>5, <2>1, <3>1, <3>2
  <2>2. CASE heard # NoRoute /\ refusal = "AuthRequired"
    BY <1>5, <1>6, <2>2
  <2>3. CASE heard # NoRoute /\ refusal \notin {"AuthRequired", Absent}
    BY <1>5, <1>6, <2>3
  <2>4. CASE heard # NoRoute /\ refusal = Absent /\ refusal # "AuthRequired"
    BY <1>5, <1>8, <2>4
  <2> QED
    BY <2>1, <2>2, <2>3, <2>4
<1>10. PICK to : /\ call' = [call EXCEPT ![c] = to]
                 /\ to.pc # "idle" /\ to.asked = k.asked /\ to.noted = k.noted
  BY <1>9
<1>11. PendingOf(to) = PendingOf(call[c]) /\ AnswerOf(to) = AnswerOf(call[c])
  BY <1>3, <1>4, <1>10 DEF PendingOf, AnswerOf
<1>12. \A d \in Clients : /\ PendingOf(call'[d]) = PendingOf(call[d])
                          /\ AnswerOf(call'[d]) = AnswerOf(call[d])
  BY <1>3, <1>10, <1>11
<1>13. UNCHANGED configs
  BY DEF Arrive, stores
<1> QED
  BY <1>12, <1>13, ArriveFits, StaysWhen

(* A request under way that is one of the registry's; the others are none.     *)
LEMMA AskKeeps ==
  ASSUME HearInv, AskInv, NEW c \in Clients, Ask(c)
  PROVE  AskInv' /\ RegistryStep
<1>1. call[c].pc = "idle" /\ UNCHANGED configs /\ AskInv'
  BY AskFits DEF Ask, stores
<1>2. \E k : /\ call' = [call EXCEPT ![c] = k]
             /\ k.pc = "idle" \/ (k.pc # "idle" /\ k.noted = Absent)
  <2> DEFINE New(q, by) == [NoCall EXCEPT !.asked = q, !.by = by]
  <2>1. \E q, by, refused, current :
          call' = [call EXCEPT ![c] =
            IF refused = Absent
            THEN [New(q, by) EXCEPT !.pc = "sent", !.sent = Request(client[c], q)]
            ELSE [New(q, by) EXCEPT !.result = Fails(refused), !.current = current]]
    <3>1. PICK q \in world.habits[c].asks :
            LET k == client[c]
                unwilling == ClientRefuses(k.version, q)
                refused == IF k.presents = Cards!Unusable /\ unwilling # "VersionNotSupported"
                           THEN "UnsupportedOperation" ELSE unwilling
                new == New(q, [version |-> k.version, of |-> k.of])
            IN call' = [call EXCEPT ![c] =
                 IF refused = Absent THEN [new EXCEPT !.pc = "sent", !.sent = Request(client[c], q)]
                 ELSE [new EXCEPT !.result = Fails(refused),
                         !.current = refused = "UnsupportedOperation" /\ k.of = deployed]]
      BY DEF Ask
    <3> HIDE DEF New
    <3> QED
      BY <3>1
  <2>2. PICK q, by, refused, current :
          call' = [call EXCEPT ![c] =
            IF refused = Absent
            THEN [New(q, by) EXCEPT !.pc = "sent", !.sent = Request(client[c], q)]
            ELSE [New(q, by) EXCEPT !.result = Fails(refused), !.current = current]]
    BY <2>1
  <2>3. PICK new : new = New(q, by)
    OBVIOUS
  <2>4. DOMAIN new = CallFields /\ new.pc = "idle" /\ new.noted = Absent
    BY <2>3 DEF NoCall, CallFields
  <2>5. PICK k : k = IF refused = Absent
                     THEN [new EXCEPT !.pc = "sent", !.sent = Request(client[c], q)]
                     ELSE [new EXCEPT !.result = Fails(refused), !.current = current]
    OBVIOUS
  <2>6. k.pc = "idle" \/ (k.pc # "idle" /\ k.noted = Absent)
    BY <2>4, <2>5 DEF CallFields
  <2>7. call' = [call EXCEPT ![c] = k]
    BY <2>2, <2>3, <2>5
  <2> QED
    BY <2>6, <2>7
<1>3. PICK k : /\ call' = [call EXCEPT ![c] = k]
               /\ k.pc = "idle" \/ (k.pc # "idle" /\ k.noted = Absent)
  BY <1>2
<1>4. DOMAIN call = Clients
  BY DEF HearInv, Shaped
<1>5. /\ Pendings' = [Pendings EXCEPT ![c] = PendingOf(k)]
      /\ Answers' = [Answers EXCEPT ![c] = AnswerOf(k)]
  BY <1>3, <1>4, OneCallMaps
<1>6. Pendings[c] = Absent /\ Answers[c] = Absent /\ AnswerOf(k) = Absent
  BY <1>1, <1>3, PendingIs DEF PendingOf, AnswerOf
<1>7. Answers' = Answers
  BY <1>5, <1>6, PendingIs DEF Answers
<1>8. Registered' = Registered
  BY <1>1 DEF Registered
<1>9. CASE PendingOf(k) = Absent
  <2>1. Pendings' = Pendings
    BY <1>5, <1>6, <1>9, PendingIs DEF Pendings
  <2> QED
    BY <1>1, <1>7, <1>8, <2>1 DEF RegistryStep, RegistryStays
<1>10. CASE PendingOf(k) # Absent
  <2>1. k.pc # "idle" /\ IsPush(k.asked) /\ PendingOf(k) = PushRequest(k.asked)
    BY <1>10 DEF PendingOf
  <2>2. call'[c] = k
    BY <1>3, <1>4
  <2>3. k.asked \in AllAsks
    BY <1>1, <2>1, <2>2 DEF AskInv, Fits
  <2>4. PICK p : p = PushRequest(k.asked)
    OBVIOUS
  <2>5. p \in {PushRequest(q) : q \in {q \in AllAsks : IsPush(q)}}
    BY <2>1, <2>3, <2>4
  <2>6. Pendings' = [Pendings EXCEPT ![c] = p]
    BY <1>5, <2>1, <2>4
  <2>7. Registry!Call(c)
    BY <1>6, <1>7, <1>8, <2>5, <2>6 DEF Registry!Call, Pendings, Answers, Registered
  <2> QED
    BY <1>1, <2>7 DEF RegistryStep, Registry!Next
<1> QED
  BY <1>9, <1>10

(* An answer arrives, or the client gives the call up.                        *)
LEMMA EndKeeps ==
  ASSUME HearInv, AskInv, NEW c \in Clients, Lose(c) \/ Receive(c)
  PROVE  AskInv' /\ RegistryStep
<1>1. PICK r : call' = [call EXCEPT ![c].pc = "idle", ![c].result = r]
  BY DEF Lose, Receive
<1>2. PICK k : k = [call[c] EXCEPT !.pc = "idle", !.result = r]
  OBVIOUS
<1>3. k.pc = "idle" /\ call' = [call EXCEPT ![c] = k] /\ DOMAIN call = Clients
  BY <1>1, <1>2 DEF HearInv, Shaped, CallFields
<1>4. UNCHANGED configs /\ call[c].pc # "idle"
  BY DEF Lose, Receive, stores
<1>5. /\ Pendings' = [Pendings EXCEPT ![c] = Absent]
      /\ Answers' = [Answers EXCEPT ![c] = Absent]
  BY <1>3, OneCallMaps DEF PendingOf, AnswerOf
<1>6. Registered' = Registered
  BY <1>4 DEF Registered
<1>7. CASE Pendings[c] # Absent
  <2>1. Registry!Return({c})
    BY <1>5, <1>6, <1>7 DEF Registry!Return, Pendings, Answers, Registered
  <2> QED
    BY <2>1, EndFits DEF RegistryStep, Registry!Next
<1>8. CASE Pendings[c] = Absent
  <2>1. ~IsPush(call[c].asked)
    <3>1. ASSUME IsPush(call[c].asked) PROVE FALSE
      <4>1. Pendings[c] = PushRequest(call[c].asked) /\ call[c].asked \in AllAsks
        BY <1>4, <3>1, PendingIs DEF PendingOf, AskInv, Fits
      <4> QED
        BY <1>8, <3>1, <4>1, AsksAssumption
    <3> QED
      BY <3>1
  <2>2. Answers[c] = Absent
    BY <1>4, <2>1, PendingIs DEF AnswerOf, AskInv, Fits
  <2>3. Pendings' = Pendings /\ Answers' = Answers
    BY <1>5, <1>8, <2>2 DEF Pendings, Answers
  <2> QED
    BY <1>6, <2>3, EndFits DEF RegistryStep, RegistryStays
<1> QED
  BY <1>7, <1>8
-----------------------------------------------------------------------------
(* The request stays what it is while the server works on it.                  *)
LEMMA TurnWorks ==
  ASSUME HearInv, AskInv, NEW c \in Clients, NEW pc, NEW task,
         \/ call' = [call EXCEPT ![c].pc = pc]
         \/ call' = [call EXCEPT ![c].pc = pc, ![c].task = task],
         call[c].pc \in Taken, pc \in {"created", "registered", "waiting"},
         pc = "created" => call[c].noted = Absent,
         pc \in {"created", "registered"} => call[c].served.op \in SendOps,
         UNCHANGED setting, UNCHANGED configs
  PROVE  AskInv' /\ RegistryStays
<1>1. PICK k : /\ call' = [call EXCEPT ![c] = k]
               /\ k.pc = pc /\ k.asked = call[c].asked /\ k.noted = call[c].noted
               /\ k.by = call[c].by /\ k.served = call[c].served
  BY TurnsTo
<1>2. call[c].pc # "idle" /\ Fits(client[c], call[c])
  BY DEF AskInv, Taken
<1>3. Fits(client[c], k)
  BY <1>1, <1>2 DEF Fits, Taken
<1> QED
  BY <1>1, <1>2, <1>3, Works

LEMMA AnswersKeep ==
  ASSUME HearInv, AskInv, NEW c \in Clients,
         GetTask(c) \/ ListTasks(c) \/ CancelTask(c) \/ GetExtendedCard(c)
  PROVE  AskInv' /\ RegistryStays
<1>1. call[c].pc # "idle" /\ UNCHANGED configs
  BY DEF GetTask, ListTasks, CancelTask, GetExtendedCard, Serving, stores
<1>2. \E o : Answer(c, o)
  BY DEF GetTask, ListTasks, CancelTask, GetExtendedCard
<1> QED
  BY <1>1, <1>2, AnswerWorks

LEMMA ResubscribeKeeps ==
  ASSUME HearInv, AskInv, NEW c \in Clients, Resubscribe(c)
  PROVE  AskInv' /\ RegistryStays
<1>1. PICK n : n = Number(call[c].served.task)
  OBVIOUS
<1>2. call[c].pc = "serving" /\ UNCHANGED configs
  BY DEF Resubscribe, Serving, stores
<1>3. \/ \E o : Answer(c, o)
      \/ call' = [call EXCEPT ![c].pc = "waiting", ![c].task = n] /\ UNCHANGED setting
  BY <1>1 DEF Resubscribe
<1>4. CASE \E o : Answer(c, o)
  BY <1>2, <1>4, AnswerWorks
<1>5. CASE call' = [call EXCEPT ![c].pc = "waiting", ![c].task = n] /\ UNCHANGED setting
  BY <1>2, <1>5, TurnWorks DEF Taken
<1> QED
  BY <1>3, <1>4, <1>5

LEMMA CreateKeeps ==
  ASSUME HearInv, AskInv, NEW c \in Clients, CreateTask(c)
  PROVE  AskInv' /\ RegistryStays
<1>1. call[c].pc = "serving" /\ call[c].served.op \in SendOps /\ UNCHANGED configs
  BY DEF CreateTask
<1>2. call[c].noted = Absent
  BY <1>1 DEF AskInv, Fits
<1>3. \/ \E o : Answer(c, o)
      \/ call' = [call EXCEPT ![c].pc = "created", ![c].task = Len(tasks) + 1]
         /\ UNCHANGED setting
  BY DEF CreateTask
<1>4. CASE \E o : Answer(c, o)
  BY <1>1, <1>4, AnswerWorks
<1>5. CASE call' = [call EXCEPT ![c].pc = "created", ![c].task = Len(tasks) + 1]
           /\ UNCHANGED setting
  BY <1>1, <1>2, <1>5, TurnWorks DEF Taken
<1> QED
  BY <1>3, <1>4, <1>5

LEMMA StartKeeps ==
  ASSUME HearInv, AskInv, NEW c \in Clients, StartExecution(c)
  PROVE  AskInv' /\ RegistryStays
<1>1. call[c].pc = "registered" /\ UNCHANGED configs
  BY DEF StartExecution
<1>2. \/ \E o : Answer(c, o)
      \/ call' = [call EXCEPT ![c].pc = "waiting"] /\ UNCHANGED setting
  BY DEF StartExecution
<1>3. CASE \E o : Answer(c, o)
  BY <1>1, <1>3, AnswerWorks
<1>4. CASE call' = [call EXCEPT ![c].pc = "waiting"] /\ UNCHANGED setting
  BY <1>1, <1>4, TurnWorks DEF Taken
<1> QED
  BY <1>2, <1>3, <1>4

LEMMA FinishKeeps ==
  ASSUME HearInv, AskInv, NEW n \in DOMAIN tasks, Finish(n)
  PROVE  AskInv' /\ RegistryStays
<1>1. UNCHANGED <<world, deployed, cached, client, configs>>
  BY DEF Finish, setting
<1>2. ASSUME NEW c \in Clients
      PROVE  /\ Fits(client[c], call'[c])
             /\ PendingOf(call'[c]) = PendingOf(call[c]) /\ AnswerOf(call'[c]) = AnswerOf(call[c])
  <2>1. PICK task : call' = [d \in Clients |->
          IF call[d].pc = "waiting" /\ call[d].task = n
          THEN Answered(call[d], Ending(call[d], task)) ELSE call[d]]
    BY DEF Finish
  <2>2. PICK o : o = Ending(call[c], task)
    OBVIOUS
  <2>3. Fits(client[c], call[c]) /\ DOMAIN call[c] = CallFields
    BY DEF AskInv, HearInv, Shaped
  <2>4. CASE call[c].pc = "waiting" /\ call[c].task = n
    <3>1. PICK k : k = Answered(call[c], o)
      OBVIOUS
    <3>2. call'[c] = k
      BY <2>1, <2>2, <2>4, <3>1
    <3>3. k.pc = "answered" /\ k.asked = call[c].asked /\ k.noted = call[c].noted
      BY <2>3, <3>1 DEF Answered, CallFields
    <3>4. Fits(client[c], k)
      BY <2>3, <2>4, <3>1, AnsweredFits
    <3> QED
      BY <2>4, <3>2, <3>3, <3>4 DEF PendingOf, AnswerOf
  <2>5. CASE ~(call[c].pc = "waiting" /\ call[c].task = n)
    BY <2>1, <2>3, <2>5
  <2> QED
    BY <2>4, <2>5
<1>3. AskInv'
  BY <1>1, <1>2 DEF AskInv, SettingFits, UniqueIds
<1> QED
  BY <1>1, <1>2, <1>3, StaysWhen

(* The next server of the world.                                             *)
LEMMA NextServer ==
  ASSUME AskInv, deployed < Len(world.servers), deployed' = deployed + 1, cached' = Absent,
         UNCHANGED <<world, client>>
  PROVE  SettingFits'
<1>1. PICK w \in DOMAIN Worlds : world = Worlds[w]
  BY DEF AskInv, SettingFits
<1>2. Listed(world.servers) /\ deployed \in DOMAIN world.servers
  BY <1>1, WorldsAssumption DEF AskInv, SettingFits
<1>3. DOMAIN world.servers = 1..Len(world.servers) /\ Len(world.servers) \in Nat
  BY <1>2 DEF Listed
<1>4. deployed + 1 \in DOMAIN world.servers
  BY <1>2, <1>3
<1> QED
  BY <1>4 DEF AskInv, SettingFits

LEMMA ReconfigureKeeps ==
  ASSUME HearInv, AskInv, Reconfigure
  PROVE  AskInv' /\ RegistryStays
<1>1. UNCHANGED <<call, client, configs>> /\ SettingFits'
  BY NextServer DEF Reconfigure, stores
<1> QED
  BY <1>1, SettingMoves, SettingStays

LEMMA RedeployKeeps ==
  ASSUME HearInv, AskInv, Redeploy
  PROVE  AskInv' /\ RegistryStep
<1>1. UNCHANGED <<client, configs>> /\ SettingFits'
  BY NextServer DEF Redeploy
<1>2. PICK some : some = {c \in Clients : ~(call[c].pc \in {"idle", "sent", "answered"})
                                          /\ Pendings[c] # Absent}
  OBVIOUS
<1>3. ASSUME NEW c \in Clients
      PROVE  /\ Fits(client[c], call'[c])
             /\ PendingOf(call'[c]) = IF c \in some THEN Absent ELSE PendingOf(call[c])
             /\ AnswerOf(call'[c]) = IF c \in some THEN Absent ELSE AnswerOf(call[c])
  <2>1. Fits(client[c], call[c]) /\ DOMAIN call[c] = CallFields
        /\ Pendings[c] = PendingOf(call[c])
    BY PendingIs DEF AskInv, HearInv, Shaped
  <2>2. CASE call[c].pc \in {"idle", "sent", "answered"}
    <3>1. call'[c] = call[c]
      BY <2>2 DEF Redeploy
    <3> QED
      BY <1>2, <2>1, <2>2, <3>1
  <2>3. CASE call[c].pc \notin {"idle", "sent", "answered"}
    <3>1. PICK k : k = [call[c] EXCEPT !.pc = "idle", !.result = Lost]
      OBVIOUS
    <3>2. call'[c] = k
      BY <2>3, <3>1 DEF Redeploy
    <3>3. k.pc = "idle"
      BY <2>1, <3>1 DEF CallFields
    <3>4. PendingOf(k) = Absent /\ AnswerOf(k) = Absent /\ Fits(client[c], k)
      BY <3>3, IdleFits DEF PendingOf, AnswerOf
    <3>5. CASE c \in some
      BY <3>2, <3>4, <3>5
    <3>6. CASE c \notin some
      <4>1. PendingOf(call[c]) = Absent /\ call[c].pc # "idle"
        BY <1>2, <2>1, <2>3, <3>6
      <4>2. ~IsPush(call[c].asked)
        <5>1. ASSUME IsPush(call[c].asked) PROVE FALSE
          <6>1. PushRequest(call[c].asked) = Absent /\ call[c].asked \in AllAsks
            BY <2>1, <4>1, <5>1 DEF PendingOf, Fits
          <6> QED
            BY <5>1, <6>1, AsksAssumption
        <5> QED
          BY <5>1
      <4>3. AnswerOf(call[c]) = Absent
        BY <2>1, <4>1, <4>2 DEF AnswerOf, Fits
      <4> QED
        BY <3>2, <3>4, <3>6, <4>1, <4>3
    <3> QED
      BY <3>5, <3>6
  <2> QED
    BY <2>2, <2>3
<1>4. AskInv'
  BY <1>1, <1>3 DEF AskInv, UniqueIds
<1>5. Registered' = Registered
  BY <1>1 DEF Registered
<1>6. /\ Pendings' = [c \in Clients |-> IF c \in some THEN Absent ELSE Pendings[c]]
      /\ Answers' = [c \in Clients |-> IF c \in some THEN Absent ELSE Answers[c]]
  <2>1. \A c \in Clients : Pendings'[c] = PendingOf(call'[c]) /\ Answers'[c] = AnswerOf(call'[c])
    BY PendingIs DEF Pendings, Answers, Pending, PendingOf, AnswerOf
  <2>2. \A c \in Clients : /\ Pendings'[c] = IF c \in some THEN Absent ELSE Pendings[c]
                           /\ Answers'[c] = IF c \in some THEN Absent ELSE Answers[c]
    BY <1>3, <2>1, PendingIs
  <2>3. /\ Pendings' = [c \in Clients |-> Pendings'[c]]
        /\ Answers' = [c \in Clients |-> Answers'[c]]
    BY DEF Pendings, Answers
  <2> QED
    BY <2>2, <2>3
<1>7. Registry!Return(some)
  BY <1>2, <1>5, <1>6 DEF Registry!Return, Pendings, Answers, Registered
<1> QED
  BY <1>2, <1>4, <1>7 DEF RegistryStep, Registry!Next
-----------------------------------------------------------------------------
(* The webhooks of a task, and those registered.                              *)
Unique(s) == \A i, j \in DOMAIN s : s[i].id = s[j].id => i = j
Hooks(name, s) == {Webhook(name, s[i]) : i \in DOMAIN s}

LEMMA RegisteredAre ==
  /\ Registered = UNION {Hooks(name, configs[name]) : name \in DOMAIN configs}
  /\ \A w : w \in Registered <=> \E name \in DOMAIN configs : w \in Hooks(name, configs[name])
  /\ \A name, s : \A w \in Hooks(name, s) : w.task = name
BY DEF Registered, Hooks, Webhook

(* One task's webhooks change: some go, others come.                          *)
Becomes(name, t) == Unique(t) /\ configs' = [configs EXCEPT ![name] = t]
Trades(name, s, t, Out, In) ==
  Hooks(name, t) = (Hooks(name, s) \ Out) \cup In /\ \A w \in Out : w.task = name

LEMMA OneTaskMoves ==
  ASSUME UniqueIds, NEW name \in DOMAIN configs, NEW t, Becomes(name, t),
         NEW Out, NEW In, Trades(name, configs[name], t, Out, In)
  PROVE  UniqueIds' /\ Registered' = (Registered \ Out) \cup In
<1> USE DEF Becomes, Trades
<1>1. DOMAIN configs' = DOMAIN configs /\ configs'[name] = t
      /\ \A other \in DOMAIN configs : other # name => configs'[other] = configs[other]
  OBVIOUS
<1>2. UniqueIds'
  BY <1>1 DEF UniqueIds, Unique
<1>3. \A w : w \in Registered' <=> \E a \in DOMAIN configs' : w \in Hooks(a, configs'[a])
  BY DEF Registered, Hooks
<1>4. ASSUME NEW w
      PROVE  w \in Registered' <=> w \in (Registered \ Out) \cup In
  <2>1. ASSUME w \in Registered' PROVE w \in (Registered \ Out) \cup In
    <3>1. PICK a \in DOMAIN configs : w \in Hooks(a, configs'[a])
      BY <1>1, <1>3, <2>1
    <3>2. CASE a = name
      BY <1>1, <3>1, <3>2, RegisteredAre
    <3>3. CASE a # name
      <4>1. w \in Hooks(a, configs[a]) /\ w.task = a
        BY <1>1, <3>1, <3>3, RegisteredAre
      <4> QED
        BY <3>3, <4>1, RegisteredAre
    <3> QED
      BY <3>2, <3>3
  <2>2. ASSUME w \in (Registered \ Out) \cup In PROVE w \in Registered'
    <3>1. CASE w \in In
      <4>1. w \in Hooks(name, configs'[name])
        BY <1>1, <3>1
      <4> QED
        BY <1>1, <1>3, <4>1
    <3>2. CASE w \in Registered /\ w \notin Out
      <4>1. PICK a \in DOMAIN configs : w \in Hooks(a, configs[a])
        BY <3>2, RegisteredAre
      <4>2. w \in Hooks(a, configs'[a])
        BY <1>1, <3>2, <4>1
      <4> QED
        BY <1>1, <1>3, <4>2
    <3> QED
      BY <2>2, <3>1, <3>2
  <2> QED
    BY <2>1, <2>2
<1> QED
  BY <1>2, <1>4

(* A webhook takes the place of the one that has its id, or the last.           *)
LEMMA PutLays ==
  ASSUME NEW s, IsSeq(s), NEW config, NEW held \in SUBSET DOMAIN s, NEW t,
         t = IF held = {} THEN Append(s, config)
             ELSE [i \in DOMAIN s |-> IF i \in held THEN config ELSE s[i]]
  PROVE  /\ \A i \in DOMAIN s : i \in held => i \in DOMAIN t /\ t[i] = config
         /\ \A i \in DOMAIN s : i \notin held => i \in DOMAIN t /\ t[i] = s[i]
         /\ \A i \in DOMAIN t : i \in DOMAIN s \/ t[i] = config
         /\ \A i, j \in DOMAIN t : i \notin DOMAIN s /\ j \notin DOMAIN s => i = j
         /\ \E i \in DOMAIN t : t[i] = config
         /\ held # {} => DOMAIN t = DOMAIN s
<1>1. PICK S : s \in Seq(S)
  BY DEF IsSeq
<1>2. DOMAIN s = 1..Len(s) /\ Len(s) \in Nat
  BY <1>1
<1>3. CASE held = {}
  <2>1. t = Append(s, config)
    BY <1>3
  <2>2. DOMAIN t = 1..(Len(s) + 1) /\ t[Len(s) + 1] = config
    <3>1. t \in Seq(S \cup {config}) /\ Len(t) = Len(s) + 1 /\ t[Len(s) + 1] = config
      BY <1>1, <2>1
    <3> QED
      BY <3>1
  <2>3. \A i \in 1..Len(s) : t[i] = s[i]
    BY <1>1, <2>1
  <2> QED
    BY <1>2, <1>3, <2>2, <2>3
<1>4. CASE held # {}
  <2>1. DOMAIN t = DOMAIN s /\ \A i \in DOMAIN s : /\ i \in held => t[i] = config
                                                   /\ i \notin held => t[i] = s[i]
    BY <1>4
  <2> QED
    BY <1>4, <2>1
<1> QED
  BY <1>3, <1>4

LEMMA PutRegisters ==
  ASSUME HearInv, UniqueIds, NEW name \in DOMAIN configs, NEW config, Put(name, config),
         NEW Out, Out = {w \in Registered : w.task = name /\ w.id = config.id}
  PROVE  UniqueIds' /\ Registered' = (Registered \ Out) \cup {Webhook(name, config)}
<1>1. PICK held : held = Indices(name, config.id)
  OBVIOUS
<1>2. PICK s : s = configs[name]
  OBVIOUS
<1>3. PICK t : t = IF held = {} THEN Append(s, config)
                   ELSE [i \in DOMAIN s |-> IF i \in held THEN config ELSE s[i]]
  OBVIOUS
<1>4. configs' = [configs EXCEPT ![name] = t]
  BY <1>1, <1>2, <1>3 DEF Put
<1>5. held \subseteq DOMAIN s /\ \A i \in DOMAIN s : i \in held <=> s[i].id = config.id
  BY <1>1, <1>2 DEF Indices
<1>6. IsSeq(s) /\ Unique(s)
  BY <1>2 DEF HearInv, Shaped, UniqueIds, Unique
<1>7. /\ \A i \in DOMAIN s : i \in held => i \in DOMAIN t /\ t[i] = config
      /\ \A i \in DOMAIN s : i \notin held => i \in DOMAIN t /\ t[i] = s[i]
      /\ \A i \in DOMAIN t : i \in DOMAIN s \/ t[i] = config
      /\ \A i, j \in DOMAIN t : i \notin DOMAIN s /\ j \notin DOMAIN s => i = j
      /\ \E i \in DOMAIN t : t[i] = config
      /\ held # {} => DOMAIN t = DOMAIN s
  BY <1>3, <1>5, <1>6, PutLays
<1>8. Unique(t)
  <2>1. ASSUME NEW i \in DOMAIN t, NEW j \in DOMAIN t, t[i].id = t[j].id
        PROVE  i = j
    <3>1. \A a \in DOMAIN t : \/ a \in DOMAIN s /\ t[a].id = s[a].id
                              \/ a \notin DOMAIN s /\ t[a].id = config.id /\ held = {}
      BY <1>5, <1>7
    <3>2. CASE i \in DOMAIN s /\ j \in DOMAIN s
      BY <1>6, <2>1, <3>1, <3>2 DEF Unique
    <3>3. CASE i \notin DOMAIN s /\ j \notin DOMAIN s
      BY <1>7, <3>3
    <3>4. CASE i \in DOMAIN s /\ j \notin DOMAIN s
      BY <1>5, <2>1, <3>1, <3>4
    <3>5. CASE i \notin DOMAIN s /\ j \in DOMAIN s
      BY <1>5, <2>1, <3>1, <3>5
    <3> QED
      BY <3>2, <3>3, <3>4, <3>5
  <2> QED
    BY <2>1 DEF Unique
<1>9. PICK new : new = Webhook(name, config)
  OBVIOUS
<1>10. Hooks(name, t) = (Hooks(name, s) \ Out) \cup {new}
  <2>1. \A i \in DOMAIN s : Webhook(name, s[i]) \in Registered
    BY <1>2 DEF Registered
  <2>2. \A i \in DOMAIN s : Webhook(name, s[i]) \in Out <=> i \in held
    BY <1>5, <2>1 DEF Webhook
  <2>3. ASSUME NEW w \in Hooks(name, t)
        PROVE  w \in (Hooks(name, s) \ Out) \cup {new}
    <3>1. PICK i \in DOMAIN t : w = Webhook(name, t[i])
      BY DEF Hooks
    <3>2. CASE t[i] = config
      BY <1>9, <3>1, <3>2
    <3>3. CASE t[i] # config
      <4>1. i \in DOMAIN s /\ i \notin held /\ t[i] = s[i]
        BY <1>7, <3>3
      <4> QED
        BY <2>2, <3>1, <4>1 DEF Hooks
    <3> QED
      BY <3>2, <3>3
  <2>4. ASSUME NEW w \in (Hooks(name, s) \ Out) \cup {new}
        PROVE  w \in Hooks(name, t)
    <3>1. CASE w = new
      BY <1>7, <1>9, <3>1 DEF Hooks
    <3>2. CASE w \in Hooks(name, s) /\ w \notin Out
      <4>1. PICK i \in DOMAIN s : w = Webhook(name, s[i])
        BY <3>2 DEF Hooks
      <4>2. i \in DOMAIN t /\ t[i] = s[i]
        BY <1>7, <2>2, <3>2, <4>1
      <4> QED
        BY <4>1, <4>2 DEF Hooks
    <3> QED
      BY <2>4, <3>1, <3>2
  <2> QED
    BY <2>3, <2>4
<1>11. \A w \in Out : w.task = name
  OBVIOUS
<1>12. PICK In : In = {new}
  OBVIOUS
<1>13. Becomes(name, t) /\ Trades(name, configs[name], t, Out, In)
  BY <1>2, <1>4, <1>8, <1>10, <1>11, <1>12 DEF Becomes, Trades
<1>14. UniqueIds' /\ Registered' = (Registered \ Out) \cup In
  BY <1>13, OneTaskMoves
<1> QED
  BY <1>9, <1>12, <1>14

(* What is left of a sequence.                                               *)
LEMMA RemoveAtIs ==
  ASSUME NEW s, IsSeq(s), NEW i \in DOMAIN s, NEW t, t = RemoveAt(s, i)
  PROVE  /\ DOMAIN t = 1..(Len(s) - 1) /\ DOMAIN s = 1..Len(s) /\ Len(s) \in Nat
         /\ \A k \in DOMAIN t : (k < i => t[k] = s[k]) /\ (~(k < i) => t[k] = s[k + 1])
<1>1. PICK S : s \in Seq(S)
  BY DEF IsSeq
<1>2. DOMAIN s = 1..Len(s) /\ Len(s) \in Nat
  BY <1>1
<1>3. PICK a : a = SubSeq(s, 1, i - 1)
  OBVIOUS
<1>4. PICK b : b = SubSeq(s, i + 1, Len(s))
  OBVIOUS
<1>5. a \in Seq(S) /\ Len(a) = i - 1 /\ \A j \in 1..(i - 1) : a[j] = s[j]
  BY <1>1, <1>2, <1>3
<1>6. b \in Seq(S) /\ Len(b) = Len(s) - i /\ \A j \in 1..(Len(s) - i) : b[j] = s[i + j]
  BY <1>1, <1>2, <1>4
<1>7. t = a \o b
  BY <1>3, <1>4 DEF RemoveAt
<1>8. /\ t \in Seq(S) /\ Len(t) = Len(a) + Len(b)
      /\ \A j \in 1..(Len(a) + Len(b)) : t[j] = IF j <= Len(a) THEN a[j] ELSE b[j - Len(a)]
  BY <1>5, <1>6, <1>7, ConcatProperties
<1>9. Len(a) + Len(b) = Len(s) - 1 /\ DOMAIN t = 1..(Len(s) - 1)
  BY <1>2, <1>5, <1>6, <1>8
<1>10. ASSUME NEW k \in DOMAIN t
       PROVE  (k < i => t[k] = s[k]) /\ (~(k < i) => t[k] = s[k + 1])
  <2>1. t[k] = IF k <= i - 1 THEN a[k] ELSE b[k - (i - 1)]
    BY <1>5, <1>8, <1>9
  <2>2. CASE k < i
    BY <1>2, <1>5, <1>9, <2>1, <2>2
  <2>3. CASE ~(k < i)
    <3>1. PICK j : j = k - (i - 1)
      OBVIOUS
    <3>2. j \in 1..(Len(s) - i) /\ i + j = k + 1 /\ ~(k <= i - 1)
      BY <1>2, <1>9, <2>3, <3>1
    <3>3. t[k] = b[j]
      BY <2>1, <3>1, <3>2
    <3>4. b[j] = s[i + j]
      BY <1>6, <3>2
    <3> QED
      BY <2>3, <3>2, <3>3, <3>4
  <2> QED
    BY <2>2, <2>3
<1> QED
  BY <1>2, <1>9, <1>10
-----------------------------------------------------------------------------
(* What the registry is asked by a call that the server is at work on.         *)
LEMMA AskedIs ==
  ASSUME HearInv, AskInv, NEW c \in Clients, call[c].pc \in Taken, IsPush(call[c].asked),
         NEW p, p = Pendings[c], NEW s, s = call[c].served
  PROVE  /\ p # Absent /\ p.op = PushOpOf(s.op) /\ p.url = s.url /\ {"task", "config"} \subseteq DOMAIN p
         /\ s.config # Blank => p.config = s.config
         /\ s.op \in PushOps => p.task = s.task /\ s.task \in DOMAIN configs
         /\ s.op \in SendOps => p.task = Absent
<1>1. PICK q : q = call[c].asked
  OBVIOUS
<1>2. /\ q \in AllAsks /\ s.op = q.op /\ s.task = q.task /\ s.url = q.url
      /\ s.config = q.config \/ {s.config, q.config} = {Blank, Absent}
  BY <1>1, TakenIs
<1>3. p = PushRequest(q) /\ IsPush(q)
  BY <1>1, PendingIs DEF PendingOf, Taken
<1>4. p # Absent
  BY <1>2, <1>3, AsksAssumption
<1>5. PICK config : config = IF q.config = Blank THEN Absent ELSE q.config
  OBVIOUS
<1>6. /\ {"task", "config"} \subseteq DOMAIN p
      /\ p.op = PushOpOf(q.op) /\ p.task = q.task /\ p.url = q.url /\ p.config = config
  <2>1. PICK op : op = PushOpOf(q.op)
    OBVIOUS
  <2>2. p = [op |-> op, task |-> q.task, url |-> q.url, config |-> config]
    BY <1>3, <1>5, <2>1 DEF PushRequest
  <2> QED
    BY <2>1, <2>2
<1>7. s.config # Blank => p.config = s.config
  BY <1>2, <1>5, <1>6
<1>8. q.op \in PushOps => q.task \in DOMAIN configs
  BY <1>2, AsksAssumption DEF HearInv, Shaped
<1>9. q.op \in SendOps => q.task = Absent
  <2>1. ASSUME q.op \in SendOps PROVE q.task = Absent
    <3>1. q = Given(q)
      BY <1>2, AsksAssumption
    <3>2. PICK o, b, d, e, g : o = q.op /\ b = q.config /\ d = q.url /\ e = q.schemes
                               /\ g = q.blocking
      OBVIOUS
    <3>3. q = AskFor(o, Absent, b, d, e, Absent, g)
      BY <2>1, <3>1, <3>2 DEF Given, SendOps, ConfigOps
    <3> QED
      BY <3>3, AskForIs
  <2> QED
    BY <2>1
<1> QED
  BY <1>2, <1>4, <1>6, <1>7, <1>8, <1>9

(* A call is told something.                                                *)
Tells(c, noted) ==
  /\ Pendings[c] # Absent /\ Answers[c] = Absent
  /\ Pendings' = Pendings /\ Answers' = [Answers EXCEPT ![c] = noted]

LEMMA CallTold ==
  ASSUME HearInv, AskInv, NEW c \in Clients, call[c].pc \in {"serving", "created"},
         IsPush(call[c].asked), NEW k, call' = [call EXCEPT ![c] = k], k.pc # "idle",
         k.asked = call[c].asked
  PROVE  Tells(c, k.noted)
<1>1. call[c].noted = Absent /\ call[c].pc # "idle" /\ call[c].pc \in Taken
  BY DEF AskInv, Fits, Taken
<1>2. Pendings[c] # Absent
  BY <1>1, AskedIs
<1>3. Answers[c] = Absent
  BY <1>1, PendingIs DEF AnswerOf
<1>4. Pendings[c] = PendingOf(call[c]) /\ PendingOf(k) = PendingOf(call[c])
      /\ AnswerOf(k) = k.noted
  BY <1>1, PendingIs DEF PendingOf, AnswerOf
<1>5. DOMAIN call = Clients
  BY DEF HearInv, Shaped
<1>6. /\ Pendings' = [Pendings EXCEPT ![c] = PendingOf(k)]
      /\ Answers' = [Answers EXCEPT ![c] = AnswerOf(k)]
  BY <1>5, OneCallMaps
<1>7. Pendings' = Pendings
  BY <1>4, <1>6 DEF Pendings
<1> QED
  BY <1>2, <1>3, <1>4, <1>6, <1>7 DEF Tells

LEMMA AnswerTold ==
  ASSUME HearInv, AskInv, NEW c \in Clients, call[c].pc = "serving", IsPush(call[c].asked),
         NEW o, NEW noted, AnswerPush(c, o, noted)
  PROVE  Tells(c, noted)
<1>1. PICK a : a = Answered(call[c], o)
  OBVIOUS
<1>2. PICK k : k = [a EXCEPT !.noted = noted]
  OBVIOUS
<1>3. call' = [call EXCEPT ![c] = k]
  BY <1>1, <1>2 DEF AnswerPush
<1>4. a.pc = "answered" /\ a.asked = call[c].asked /\ DOMAIN a = CallFields
  BY <1>1, AnsweredShape DEF HearInv, Shaped, Answered, CallFields
<1>5. k.pc = "answered" /\ k.asked = call[c].asked /\ k.noted = noted
  BY <1>2, <1>4 DEF CallFields
<1>6. Tells(c, k.noted)
  BY <1>3, <1>5, CallTold
<1> QED
  BY <1>5, <1>6
-----------------------------------------------------------------------------
(* The registry's steps.                                                    *)
LEMMA Performed ==
  ASSUME NEW c \in Clients, Registry!Perform(c)
  PROVE  RegistryStep
BY DEF RegistryStep, Registry!Next

LEMMA Refuses ==
  ASSUME NEW c \in Clients, Tells(c, Failed("refused")), UNCHANGED configs
  PROVE  RegistryStep
<1>1. Registered' = Registered
  BY DEF Registered
<1>2. Registry!Refuse(c)
  BY <1>1 DEF Registry!Refuse, Registry!Refused, Tells, Failed, Answers, Registered
<1>3. Registry!Perform(c)
  BY <1>2 DEF Registry!Perform, Tells, Pendings, Answers
<1> QED
  BY <1>3, Performed

(* A webhook for a task and with an id that a request may give it.              *)
Chosen(p, name, id) ==
  /\ p.op = "set" /\ p.task \in {Absent, name}
  /\ name \in {TaskNames[i] : i \in DOMAIN TaskNames}
  /\ id \in {Assigned[i] : i \in DOMAIN Assigned} \cup {q.config : q \in AllAsks}
  /\ IF p.config = Absent THEN {w \in Registered : w.task = name /\ w.id = id} = {}
     ELSE id = p.config

LEMMA Sets ==
  ASSUME NEW c \in Clients, NEW p, p = Pendings[c], NEW name, NEW id, Chosen(p, name, id),
         NEW new, new = [task |-> name, id |-> id, url |-> p.url], Tells(c, Found({new})),
         Registered' = (Registered \ {w \in Registered : w.task = name /\ w.id = id}) \cup {new}
  PROVE  RegistryStep
<1>1. Registry!Set(c)
  BY DEF Registry!Set, Registry!Found, Chosen, Tells, Found, Pendings, Answers, Registered
<1>2. Registry!Perform(c)
  BY <1>1 DEF Registry!Perform, Chosen, Tells, Pendings, Answers
<1> QED
  BY <1>2, Performed

(* The webhooks that a request may mean.                                     *)
Meant(p) == {w \in Registered : w.task = p.task /\ p.config \in {Absent, w.id}}

LEMMA Misses ==
  ASSUME NEW c \in Clients, NEW p, p = Pendings[c], p.op \in {"get", "delete"}, Meant(p) = {},
         Tells(c, Failed("missing")), UNCHANGED Registered
  PROVE  RegistryStep
<1>1. Registry!Miss(c)
  BY DEF Registry!Miss, Registry!Missing, Registry!Meant, Meant, Tells, Failed, Pendings,
       Answers, Registered
<1>2. Registry!Perform(c)
  BY <1>1 DEF Registry!Perform, Tells, Pendings, Answers
<1> QED
  BY <1>2, Performed

LEMMA Gets ==
  ASSUME NEW c \in Clients, NEW p, p = Pendings[c], p.op = "get", NEW w \in Meant(p),
         Tells(c, Found({w})), UNCHANGED configs
  PROVE  RegistryStep
<1>1. Registered' = Registered
  BY DEF Registered
<1>2. Registry!Get(c)
  BY <1>1 DEF Registry!Get, Registry!Found, Registry!Meant, Meant, Tells, Found, Pendings,
       Answers, Registered
<1>3. Registry!Perform(c)
  BY <1>2 DEF Registry!Perform, Tells, Pendings, Answers
<1> QED
  BY <1>3, Performed

LEMMA Lists ==
  ASSUME NEW c \in Clients, NEW p, p = Pendings[c], p.op = "list", "config" \in DOMAIN p,
         "task" \in DOMAIN p, NEW all, all = {w \in Registered : w.task = p.task},
         Tells(c, Found(all)), UNCHANGED configs
  PROVE  RegistryStep
<1>1. Registered' = Registered
  BY DEF Registered
<1>2. PICK any : any = [p EXCEPT !.config = Absent]
  OBVIOUS
<1>3. any.task = p.task /\ any.config = Absent
  BY <1>2
<1>4. Registry!Meant(any) = all
  BY <1>3 DEF Registry!Meant, Registered
<1>5. Registry!List(c)
  BY <1>1, <1>2, <1>4 DEF Registry!List, Registry!Found, Tells, Found, Pendings, Answers, Registered
<1>6. Registry!Perform(c)
  BY <1>5 DEF Registry!Perform, Tells, Pendings, Answers
<1> QED
  BY <1>6, Performed

LEMMA Deletes ==
  ASSUME NEW c \in Clients, NEW p, p = Pendings[c], p.op = "delete", Meant(p) # {},
         Tells(c, Found({})), Registered' = Registered \ Meant(p)
  PROVE  RegistryStep
<1>1. Registry!Delete(c)
  BY DEF Registry!Delete, Registry!Found, Registry!Meant, Meant, Tells, Found, Pendings,
       Answers, Registered
<1>2. Registry!Perform(c)
  BY <1>1 DEF Registry!Perform, Tells, Pendings, Answers
<1> QED
  BY <1>2, Performed
-----------------------------------------------------------------------------
(* A request of the push notification methods, also as part of a send.          *)
LEMMA PushIs ==
  ASSUME AskInv, NEW c \in Clients, call[c].pc \in Taken,
         \/ call[c].served.op \in PushOps
         \/ call[c].served.op \in SendOps /\ call[c].served.url # Absent
  PROVE  IsPush(call[c].asked)
<1>1. PICK q, s : q = call[c].asked /\ s = call[c].served
  OBVIOUS
<1>2. s.op = q.op /\ s.url = q.url
  BY <1>1, TakenIs
<1> QED
  BY <1>1, <1>2 DEF IsPush

LEMMA NoStoreKeeps ==
  ASSUME HearInv, AskInv, NEW c \in Clients, NoStore(c)
  PROVE  AskInv' /\ RegistryStep
<1>1. PICK o, noted : o = Fails("PushNotificationNotSupported") /\ noted = Failed("refused")
  OBVIOUS
<1>2. /\ call[c].pc = "serving" /\ call[c].served.op \in PushOps /\ UNCHANGED configs
      /\ AnswerPush(c, o, noted)
  BY <1>1 DEF NoStore
<1>3. IsPush(call[c].asked) /\ call[c].pc # "idle"
  BY <1>2, PushIs DEF Taken
<1>4. AskInv' /\ Tells(c, noted)
  BY <1>2, <1>3, AnswerPushFits, AnswerTold
<1> QED
  BY <1>1, <1>2, <1>4, Refuses

(* An id that is made up is no webhook's.                                     *)
LEMMA FreshIsUnused ==
  ASSUME NEW q, IdToSpare(q), q.config = Absent
  PROVE  /\ Fresh \in {Assigned[i] : i \in DOMAIN Assigned}
         /\ \A w \in Registered : w.id # Fresh
<1>1. \E i \in DOMAIN Assigned : Unused(Assigned[i])
  BY DEF IdToSpare
<1>2. PICK i : i \in DOMAIN Assigned /\ Unused(Assigned[i]) /\ Fresh = Assigned[i]
  BY <1>1 DEF Fresh
<1>3. ASSUME NEW w \in Registered, w.id = Fresh PROVE FALSE
  <2>1. PICK name \in DOMAIN configs :
          \E j \in DOMAIN configs[name] : w = Webhook(name, configs[name][j])
    BY DEF Registered
  <2>2. PICK j \in DOMAIN configs[name] : configs[name][j].id = Fresh
    BY <1>3, <2>1 DEF Webhook
  <2>3. Indices(name, Fresh) = {}
    BY <1>2 DEF Unused
  <2> QED
    BY <2>2, <2>3 DEF Indices
<1> QED
  BY <1>2, <1>3

LEMMA SetMaps ==
  ASSUME HearInv, AskInv, NEW c \in Clients, call[c].pc \in {"serving", "created"},
         IsPush(call[c].asked), NEW s, s = call[c].served, s.config # Blank, IdToSpare(s),
         NEW name \in DOMAIN configs, NEW config, config = Config(IdFor(s), s.url, s.schemes),
         Put(name, config), s.op \in SendOps \/ (s.op = "SET_PUSH_CONFIG" /\ name = s.task),
         Tells(c, Found({Webhook(name, config)}))
  PROVE  UniqueIds' /\ RegistryStep
<1>1. PICK p : p = Pendings[c]
  OBVIOUS
<1>2. /\ p.op = PushOpOf(s.op) /\ p.url = s.url /\ p.config = s.config
      /\ s.op \in PushOps => p.task = s.task
      /\ s.op \in SendOps => p.task = Absent
  BY <1>1, AskedIs DEF Taken
<1>3. p.op = "set" /\ p.task \in {Absent, name}
  BY <1>2 DEF PushOpOf, SendOps, PushOps
<1>4. PICK id : id = IdFor(s)
  OBVIOUS
<1>5. config.id = id /\ config.url = s.url
  BY <1>4 DEF Config
<1>6. PICK before : before = {w \in Registered : w.task = name /\ w.id = id}
  OBVIOUS
<1>7. PICK new : new = [task |-> name, id |-> id, url |-> p.url]
  OBVIOUS
<1>8. new = Webhook(name, config)
  BY <1>2, <1>5, <1>7 DEF Webhook
<1>9. UniqueIds' /\ Registered' = (Registered \ before) \cup {new}
  <2>1. UniqueIds
    BY DEF AskInv
  <2>2. PICK out : out = {w \in Registered : w.task = name /\ w.id = config.id}
    OBVIOUS
  <2>3. UniqueIds' /\ Registered' = (Registered \ out) \cup {Webhook(name, config)}
    BY <2>1, <2>2, PutRegisters
  <2> QED
    BY <1>5, <1>6, <1>8, <2>2, <2>3
<1>10. Chosen(p, name, id)
  <2>1. name \in {TaskNames[i] : i \in DOMAIN TaskNames}
    BY DEF HearInv, Shaped
  <2>2. CASE s.config = Absent
    <3>1. id = Fresh
      BY <1>4, <2>2 DEF IdFor
    <3>2. id \in {Assigned[i] : i \in DOMAIN Assigned} /\ before = {}
      BY <1>6, <2>2, <3>1, FreshIsUnused
    <3> QED
      BY <1>2, <1>3, <1>6, <2>1, <2>2, <3>2 DEF Chosen
  <2>3. CASE s.config # Absent
    <3>1. id = s.config
      BY <1>4, <2>3 DEF IdFor
    <3>2. PICK q : q = call[c].asked
      OBVIOUS
    <3>3. q \in AllAsks /\ (s.config = q.config \/ {s.config, q.config} = {Blank, Absent})
      BY <3>2, TakenIs DEF Taken
    <3>4. id \in {r.config : r \in AllAsks}
      BY <2>3, <3>1, <3>3
    <3> QED
      BY <1>2, <1>3, <2>1, <2>3, <3>1, <3>4 DEF Chosen
  <2> QED
    BY <2>2, <2>3
<1>11. Tells(c, Found({new}))
  BY <1>8
<1>12. Registered' = (Registered \ {w \in Registered : w.task = name /\ w.id = id}) \cup {new}
  BY <1>6, <1>9
<1>13. RegistryStep
  BY <1>1, <1>7, <1>10, <1>11, <1>12, Sets
<1> QED
  BY <1>9, <1>13

LEMMA SetPushConfigKeeps ==
  ASSUME HearInv, AskInv, NEW c \in Clients, SetPushConfig(c)
  PROVE  AskInv' /\ RegistryStep
<1>1. PICK s : s = call[c].served
  OBVIOUS
<1>2. PICK config : config = Config(IdFor(s), s.url, s.schemes)
  OBVIOUS
<1>3. PICK o : o = Value([task |-> s.task, config |-> config])
  OBVIOUS
<1>4. PICK noted : noted = Found({Webhook(s.task, config)})
  OBVIOUS
<1>5. /\ call[c].pc = "serving" /\ s.op = "SET_PUSH_CONFIG" /\ IdToSpare(s)
      /\ Put(s.task, config) /\ AnswerPush(c, o, noted)
  BY <1>1, <1>2, <1>3, <1>4 DEF SetPushConfig, Serving
<1>6. s.op \in PushOps /\ call[c].pc \in Taken /\ IsPush(call[c].asked) /\ call[c].pc # "idle"
  BY <1>1, <1>5, PushIs DEF PushOps, Taken
<1>7. s.config # Blank
  BY <1>1, <1>5, <1>6 DEF AskInv, Fits
<1>8. s.task \in DOMAIN configs
  BY <1>1, <1>6, AskedIs
<1>9. Tells(c, noted)
  BY <1>5, <1>6, AnswerTold
<1>10. UniqueIds' /\ RegistryStep
  BY <1>1, <1>2, <1>4, <1>5, <1>6, <1>7, <1>8, <1>9, SetMaps
<1> QED
  BY <1>5, <1>6, <1>10, AnswerPushFits

(* What a request means is among the webhooks of its task.                     *)
LEMMA MeantAre ==
  ASSUME NEW p, NEW name, name = p.task, name \in DOMAIN configs
  PROVE  \A w : w \in Meant(p) <=>
           \E i \in DOMAIN configs[name] : /\ w = Webhook(name, configs[name][i])
                                           /\ p.config \in {Absent, configs[name][i].id}
<1>1. ASSUME NEW w \in Meant(p)
      PROVE  \E i \in DOMAIN configs[name] : /\ w = Webhook(name, configs[name][i])
                                             /\ p.config \in {Absent, configs[name][i].id}
  <2>1. w \in Registered /\ w.task = name /\ p.config \in {Absent, w.id}
    BY DEF Meant
  <2>2. PICK a \in DOMAIN configs : \E i \in DOMAIN configs[a] : w = Webhook(a, configs[a][i])
    BY <2>1 DEF Registered
  <2>3. PICK i \in DOMAIN configs[a] : w = Webhook(a, configs[a][i])
    BY <2>2
  <2>4. w.task = a /\ w.id = configs[a][i].id
    BY <2>3 DEF Webhook
  <2> QED
    BY <2>1, <2>3, <2>4
<1>2. ASSUME NEW i \in DOMAIN configs[name], p.config \in {Absent, configs[name][i].id}
      PROVE  Webhook(name, configs[name][i]) \in Meant(p)
  <2>1. PICK w : w = Webhook(name, configs[name][i])
    OBVIOUS
  <2>2. w \in Registered /\ w.task = name /\ w.id = configs[name][i].id
    BY <2>1 DEF Registered, Webhook
  <2> QED
    BY <1>2, <2>1, <2>2 DEF Meant
<1> QED
  BY <1>1, <1>2

LEMMA GetPushConfigKeeps ==
  ASSUME HearInv, AskInv, NEW c \in Clients, GetPushConfig(c)
  PROVE  AskInv' /\ RegistryStep
<1>1. PICK s : s = call[c].served
  OBVIOUS
<1>2. PICK name : name = s.task
  OBVIOUS
<1>3. PICK meant : meant = IF s.config # Absent THEN Indices(name, s.config)
                           ELSE IF configs[name] = <<>> THEN {} ELSE {1}
  OBVIOUS
<1>4. call[c].pc = "serving" /\ s.op = "GET_PUSH_CONFIG" /\ UNCHANGED configs
  BY <1>1 DEF GetPushConfig, Serving
<1>5. IF meant = {} THEN AnswerPush(c, Fails("TaskNotFound"), Failed("missing"))
      ELSE \E i \in meant :
             AnswerPush(c, Value([task |-> name, config |-> configs[name][i]]),
                        Found({Webhook(name, configs[name][i])}))
  BY <1>1, <1>2, <1>3 DEF GetPushConfig
<1>6. s.op \in PushOps /\ call[c].pc \in Taken /\ IsPush(call[c].asked) /\ call[c].pc # "idle"
  BY <1>1, <1>4, PushIs DEF PushOps, ConfigOps, Taken
<1>7. s.config # Blank
  BY <1>1, <1>4, <1>6 DEF AskInv, Fits
<1>8. PICK p : p = Pendings[c]
  OBVIOUS
<1>9. p.op = "get" /\ p.task = name /\ p.config = s.config /\ name \in DOMAIN configs
  <2>1. p.op = PushOpOf(s.op) /\ p.task = name /\ p.config = s.config /\ name \in DOMAIN configs
    BY <1>1, <1>2, <1>6, <1>7, <1>8, AskedIs
  <2> QED
    BY <1>4, <2>1 DEF PushOpOf, SendOps
<1>10. CASE meant = {}
  <2>1. PICK o, noted : o = Fails("TaskNotFound") /\ noted = Failed("missing")
    OBVIOUS
  <2>2. AnswerPush(c, o, noted)
    BY <1>5, <1>10, <2>1
  <2>3. AskInv' /\ Tells(c, noted)
    BY <1>4, <1>6, <2>2, AnswerPushFits, AnswerTold
  <2>4. ASSUME NEW i \in DOMAIN configs[name], p.config \in {Absent, configs[name][i].id}
        PROVE  FALSE
    <3>1. PICK held : held = configs[name]
      OBVIOUS
    <3>2. CASE s.config # Absent
      BY <1>3, <1>9, <1>10, <2>4, <3>2 DEF Indices
    <3>3. CASE s.config = Absent
      <4>1. held = <<>> /\ i \in DOMAIN held
        BY <1>3, <1>10, <2>4, <3>1, <3>3
      <4> QED
        BY <4>1
    <3> QED
      BY <3>2, <3>3
  <2>5. Meant(p) = {}
    BY <1>9, <2>4, MeantAre
  <2>6. Registered' = Registered
    BY <1>4 DEF Registered
  <2> QED
    BY <1>8, <1>9, <2>1, <2>3, <2>5, <2>6, Misses
<1>11. CASE meant # {}
  <2>1. PICK i \in meant : AnswerPush(c, Value([task |-> name, config |-> configs[name][i]]),
                                      Found({Webhook(name, configs[name][i])}))
    BY <1>5, <1>11
  <2>2. PICK o : o = Value([task |-> name, config |-> configs[name][i]])
    OBVIOUS
  <2>3. PICK w : w = Webhook(name, configs[name][i])
    OBVIOUS
  <2>4. AnswerPush(c, o, Found({w}))
    BY <2>1, <2>2, <2>3
  <2>5. AskInv' /\ Tells(c, Found({w}))
    BY <1>4, <1>6, <2>4, AnswerPushFits, AnswerTold
  <2>6. i \in DOMAIN configs[name] /\ p.config \in {Absent, configs[name][i].id}
    <3>1. CASE s.config # Absent
      BY <1>3, <1>9, <2>1, <3>1 DEF Indices
    <3>2. CASE s.config = Absent
      <4>1. i = 1 /\ configs[name] # <<>>
        BY <1>3, <1>11, <3>2
      <4>2. PICK S : configs[name] \in Seq(S)
        BY <1>9 DEF HearInv, Shaped, IsSeq
      <4>3. 1 \in DOMAIN configs[name]
        BY <4>1, <4>2
      <4> QED
        BY <1>9, <3>2, <4>1, <4>3
    <3> QED
      BY <3>1, <3>2
  <2>7. w \in Meant(p)
    BY <1>9, <2>3, <2>6, MeantAre
  <2> QED
    BY <1>4, <1>8, <1>9, <2>5, <2>7, Gets
<1> QED
  BY <1>10, <1>11

LEMMA ListPushConfigsKeeps ==
  ASSUME HearInv, AskInv, NEW c \in Clients, ListPushConfigs(c)
  PROVE  AskInv' /\ RegistryStep
<1>1. PICK s : s = call[c].served
  OBVIOUS
<1>2. PICK name : name = s.task
  OBVIOUS
<1>3. PICK all : all = {Webhook(name, configs[name][i]) : i \in DOMAIN configs[name]}
  OBVIOUS
<1>4. PICK o : o = Value([task |-> name, configs |-> configs[name]])
  OBVIOUS
<1>5. /\ call[c].pc = "serving" /\ s.op = "LIST_PUSH_CONFIGS" /\ UNCHANGED configs
      /\ AnswerPush(c, o, Found(all))
  BY <1>1, <1>2, <1>3, <1>4 DEF ListPushConfigs, Serving
<1>6. s.op \in PushOps /\ call[c].pc \in Taken /\ IsPush(call[c].asked) /\ call[c].pc # "idle"
  BY <1>1, <1>5, PushIs DEF PushOps, ConfigOps, Taken
<1>7. PICK p : p = Pendings[c]
  OBVIOUS
<1>8. /\ p.op = PushOpOf(s.op) /\ p.task = name /\ name \in DOMAIN configs
      /\ "config" \in DOMAIN p /\ "task" \in DOMAIN p
  BY <1>1, <1>2, <1>6, <1>7, AskedIs
<1>9. p.op = "list"
  BY <1>5, <1>8 DEF PushOpOf, SendOps
<1>10. AskInv' /\ Tells(c, Found(all))
  BY <1>5, <1>6, AnswerPushFits, AnswerTold
<1>11. all = {w \in Registered : w.task = p.task}
  <2>1. ASSUME NEW w \in all
        PROVE  w \in Registered /\ w.task = p.task
    <3>1. PICK i \in DOMAIN configs[name] : w = Webhook(name, configs[name][i])
      BY <1>3
    <3> QED
      BY <1>8, <3>1 DEF Registered, Webhook
  <2>2. ASSUME NEW w \in Registered, w.task = p.task
        PROVE  w \in all
    <3>1. PICK a \in DOMAIN configs : \E i \in DOMAIN configs[a] : w = Webhook(a, configs[a][i])
      BY DEF Registered
    <3>2. w.task = a
      BY <3>1 DEF Webhook
    <3> QED
      BY <1>3, <1>8, <2>2, <3>1, <3>2
  <2> QED
    BY <2>1, <2>2
<1> QED
  BY <1>5, <1>7, <1>8, <1>9, <1>10, <1>11, Lists

(* A webhook leaves its place to those behind it.                             *)
LEMMA RemoveUnregisters ==
  ASSUME HearInv, UniqueIds, NEW name \in DOMAIN configs, NEW s, s = configs[name],
         NEW i \in DOMAIN s, NEW t, t = RemoveAt(s, i), configs' = [configs EXCEPT ![name] = t]
  PROVE  UniqueIds' /\ Registered' = Registered \ {Webhook(name, s[i])}
<1>1. IsSeq(s) /\ Unique(s)
  BY DEF HearInv, Shaped, UniqueIds, Unique
<1>2. /\ DOMAIN t = 1..(Len(s) - 1) /\ DOMAIN s = 1..Len(s) /\ Len(s) \in Nat
      /\ \A k \in DOMAIN t : (k < i => t[k] = s[k]) /\ (~(k < i) => t[k] = s[k + 1])
  BY <1>1, RemoveAtIs
<1>3. ASSUME NEW k \in DOMAIN t
      PROVE  \E j \in DOMAIN s : j # i /\ t[k] = s[j] /\ j = IF k < i THEN k ELSE k + 1
  BY <1>2
<1>4. ASSUME NEW j \in DOMAIN s, j # i
      PROVE  \E k \in DOMAIN t : t[k] = s[j]
  <2>1. CASE j < i
    <3>1. j \in DOMAIN t
      BY <1>2, <2>1
    <3> QED
      BY <1>2, <2>1, <3>1
  <2>2. CASE ~(j < i)
    <3>1. PICK k : k = j - 1
      OBVIOUS
    <3>2. k \in DOMAIN t /\ ~(k < i) /\ k + 1 = j
      BY <1>2, <1>4, <2>2, <3>1
    <3> QED
      BY <1>2, <3>2
  <2> QED
    BY <2>1, <2>2
<1>5. Unique(t)
  <2>1. ASSUME NEW a \in DOMAIN t, NEW b \in DOMAIN t, t[a].id = t[b].id
        PROVE  a = b
    <3>1. PICK d \in DOMAIN s : t[a] = s[d] /\ d = IF a < i THEN a ELSE a + 1
      BY <1>3
    <3>2. PICK e \in DOMAIN s : t[b] = s[e] /\ e = IF b < i THEN b ELSE b + 1
      BY <1>3
    <3>3. d = e
      BY <1>1, <2>1, <3>1, <3>2 DEF Unique
    <3> QED
      BY <1>2, <3>1, <3>2, <3>3
  <2> QED
    BY <2>1 DEF Unique
<1>6. PICK Out, In : Out = {Webhook(name, s[i])} /\ In = {}
  OBVIOUS
<1>7. Hooks(name, t) = (Hooks(name, s) \ Out) \cup In
  <2>1. \A j \in DOMAIN s : Webhook(name, s[j]) \in Out <=> j = i
    BY <1>1, <1>6 DEF Webhook, Unique
  <2>2. ASSUME NEW w \in Hooks(name, t) PROVE w \in Hooks(name, s) \ Out
    <3>1. PICK k \in DOMAIN t : w = Webhook(name, t[k])
      BY DEF Hooks
    <3>2. PICK j \in DOMAIN s : j # i /\ t[k] = s[j]
      BY <1>3
    <3> QED
      BY <2>1, <3>1, <3>2 DEF Hooks
  <2>3. ASSUME NEW w \in Hooks(name, s) \ Out PROVE w \in Hooks(name, t)
    <3>1. PICK j \in DOMAIN s : w = Webhook(name, s[j])
      BY DEF Hooks
    <3>2. PICK k \in DOMAIN t : t[k] = s[j]
      BY <1>4, <2>1, <3>1
    <3> QED
      BY <3>1, <3>2 DEF Hooks
  <2> QED
    BY <1>6, <2>2, <2>3
<1>8. \A w \in Out : w.task = name
  BY <1>6 DEF Webhook
<1>9. Becomes(name, t) /\ Trades(name, configs[name], t, Out, In)
  BY <1>5, <1>7, <1>8 DEF Becomes, Trades
<1>10. UniqueIds' /\ Registered' = (Registered \ Out) \cup In
  BY <1>9, OneTaskMoves
<1> QED
  BY <1>6, <1>10

LEMMA DeletePushConfigKeeps ==
  ASSUME HearInv, AskInv, NEW c \in Clients, DeletePushConfig(c)
  PROVE  AskInv' /\ RegistryStep
<1>1. PICK s : s = call[c].served
  OBVIOUS
<1>2. PICK name : name = s.task
  OBVIOUS
<1>3. PICK kept : kept = configs[name]
  OBVIOUS
<1>4. PICK held : held = Indices(name, s.config)
  OBVIOUS
<1>5. call[c].pc = "serving" /\ s.op = "DELETE_PUSH_CONFIG"
  BY <1>1 DEF DeletePushConfig, Serving
<1>6. s.op \in PushOps /\ call[c].pc \in Taken /\ IsPush(call[c].asked) /\ call[c].pc # "idle"
  BY <1>1, <1>5, PushIs DEF PushOps, ConfigOps, Taken
<1>7. s.config # Blank /\ s.config # Absent
  <2>1. s.config # Blank
    BY <1>1, <1>5, <1>6 DEF AskInv, Fits
  <2>2. PICK q : q = call[c].asked
    OBVIOUS
  <2>3. /\ q \in AllAsks /\ s.op = q.op
        /\ s.config = q.config \/ q.op # "DELETE_PUSH_CONFIG"
    BY <1>1, <1>6, <2>2, TakenIs
  <2>4. q.config # Absent
    BY <1>5, <2>3, AsksAssumption
  <2> QED
    BY <1>5, <2>1, <2>3, <2>4
<1>8. PICK p : p = Pendings[c]
  OBVIOUS
<1>9. p.op = "delete" /\ p.task = name /\ p.config = s.config /\ name \in DOMAIN configs
  <2>1. p.op = PushOpOf(s.op) /\ p.task = name /\ p.config = s.config /\ name \in DOMAIN configs
    BY <1>1, <1>2, <1>6, <1>7, <1>8, AskedIs
  <2> QED
    BY <1>5, <2>1 DEF PushOpOf, SendOps
<1>10. \A i : i \in held <=> i \in DOMAIN kept /\ kept[i].id = s.config
  BY <1>3, <1>4 DEF Indices
<1>11. IsSeq(kept) /\ Unique(kept) /\ UniqueIds
  BY <1>3, <1>9 DEF HearInv, Shaped, AskInv, UniqueIds, Unique
<1>12. \A w : w \in Meant(p) <=> \E i \in held : w = Webhook(name, kept[i])
  BY <1>3, <1>7, <1>9, <1>10, MeantAre
<1>13. CASE held = {}
  <2>1. PICK o, noted : o = Fails("TaskNotFound") /\ noted = Failed("missing")
    OBVIOUS
  <2>2. AnswerPush(c, o, noted) /\ configs' = [configs EXCEPT ![name] = kept]
    BY <1>1, <1>2, <1>3, <1>4, <1>13, <2>1 DEF DeletePushConfig
  <2>3. PICK none : none = {}
    OBVIOUS
  <2>4. Becomes(name, kept) /\ Trades(name, configs[name], kept, none, none)
    BY <1>3, <1>11, <2>2, <2>3 DEF Becomes, Trades
  <2>5. UniqueIds' /\ Registered' = (Registered \ none) \cup none
    BY <1>9, <1>11, <2>4, OneTaskMoves
  <2>6. AskInv' /\ Tells(c, noted)
    BY <1>5, <1>6, <2>2, <2>5, AnswerPushFits, AnswerTold
  <2>7. Meant(p) = {} /\ Registered' = Registered
    BY <1>12, <1>13, <2>3, <2>5
  <2> QED
    BY <1>8, <1>9, <2>1, <2>6, <2>7, Misses
<1>14. CASE held # {}
  <2>1. PICK o, noted : o = Value("null") /\ noted = Found({})
    OBVIOUS
  <2>2. PICK i : i \in held /\ i = CHOOSE j \in held : TRUE
    BY <1>14
  <2>3. PICK t : t = RemoveAt(kept, i)
    OBVIOUS
  <2>4. AnswerPush(c, o, noted) /\ configs' = [configs EXCEPT ![name] = t]
    BY <1>1, <1>2, <1>3, <1>4, <1>14, <2>1, <2>2, <2>3 DEF DeletePushConfig
  <2>5. i \in DOMAIN kept
    BY <1>10, <2>2
  <2>6. UniqueIds' /\ Registered' = Registered \ {Webhook(name, kept[i])}
    BY <1>3, <1>9, <1>11, <2>3, <2>4, <2>5, RemoveUnregisters
  <2>7. held = {i}
    BY <1>10, <1>11, <2>2 DEF Unique
  <2>8. Meant(p) = {Webhook(name, kept[i])}
    BY <1>12, <2>7
  <2>9. AskInv' /\ Tells(c, noted)
    BY <1>5, <1>6, <2>4, <2>6, AnswerPushFits, AnswerTold
  <2> QED
    BY <1>8, <1>9, <2>1, <2>6, <2>8, <2>9, Deletes
<1> QED
  BY <1>13, <1>14

LEMMA RegisterKeeps ==
  ASSUME HearInv, AskInv, NEW c \in Clients, RegisterInlinePushConfig(c)
  PROVE  AskInv' /\ RegistryStep
<1>1. PICK s : s = call[c].served
  OBVIOUS
<1>2. call[c].pc = "created" /\ Preparing(c) /\ call[c].pc \in Taken /\ UNCHANGED setting
  BY DEF RegisterInlinePushConfig, Preparing, Taken
<1>3. s.op \in SendOps /\ Fits(client[c], call[c]) /\ DOMAIN call[c] = CallFields
      /\ DOMAIN call = Clients
  BY <1>1, <1>2 DEF AskInv, Fits, HearInv, Shaped
<1>4. CASE s.url = Absent
  <2>1. call' = [call EXCEPT ![c].pc = "registered"] /\ UNCHANGED configs
    BY <1>1, <1>4 DEF RegisterInlinePushConfig, stores
  <2> QED
    BY <1>1, <1>2, <1>3, <2>1, TurnWorks DEF RegistryStep
<1>5. CASE s.url # Absent
  <2>1. IsPush(call[c].asked)
    BY <1>1, <1>2, <1>3, <1>5, PushIs
  <2>2. CASE ~Server.store \/ s.config = Blank
    <3>1. PICK class :
            /\ call' = [call EXCEPT ![c] =
                 [Answered(@, FailsSend(@, class)) EXCEPT !.noted = Failed("refused")]]
            /\ UNCHANGED configs
      BY <1>1, <1>5, <2>2 DEF RegisterInlinePushConfig, stores
    <3>2. PICK a : a = Answered(call[c], FailsSend(call[c], class))
      OBVIOUS
    <3>3. PICK noted : noted = Failed("refused")
      OBVIOUS
    <3>4. PICK k : k = [a EXCEPT !.noted = noted]
      OBVIOUS
    <3>5. DOMAIN a = CallFields /\ a.pc = "answered" /\ a.asked = call[c].asked
      BY <1>3, <3>2 DEF Answered, CallFields
    <3>6. k.pc = "answered" /\ k.asked = call[c].asked /\ k.noted = noted
      BY <3>4, <3>5 DEF CallFields
    <3>7. call' = [call EXCEPT ![c] = k]
      BY <3>1, <3>2, <3>3, <3>4
    <3>8. Fits(client[c], k)
      BY <1>2, <1>3, <2>1, <3>6 DEF Fits, Taken
    <3>9. AskInv'
      BY <1>2, <3>1, <3>7, <3>8, OneCallFits
    <3>10. Tells(c, k.noted)
      BY <1>2, <2>1, <3>6, <3>7, CallTold
    <3> QED
      BY <3>1, <3>3, <3>6, <3>9, <3>10, Refuses
  <2>3. CASE Server.store /\ s.config # Blank
    <3>1. PICK name : name = TaskNames[call[c].task]
      OBVIOUS
    <3>2. PICK config : config = Config(IdFor(s), s.url, s.schemes)
      OBVIOUS
    <3>3. PICK noted : noted = Found({Webhook(name, config)})
      OBVIOUS
    <3>4. /\ IdToSpare(s) /\ Put(name, config)
          /\ call' = [call EXCEPT ![c].pc = "registered", ![c].noted = noted]
      BY <1>1, <1>5, <2>3, <3>1, <3>2, <3>3 DEF RegisterInlinePushConfig
    <3>5. PICK k : k = [call[c] EXCEPT !.pc = "registered", !.noted = noted]
      OBVIOUS
    <3>6. call' = [call EXCEPT ![c] = k]
      BY <1>3, <3>4, <3>5
    <3>7. /\ k.pc = "registered" /\ k.asked = call[c].asked /\ k.noted = noted
          /\ k.by = call[c].by /\ k.served = s
      BY <1>1, <1>3, <3>5 DEF CallFields
    <3>8. Fits(client[c], k)
      BY <1>1, <1>2, <1>3, <2>1, <3>7 DEF Fits, Taken
    <3>9. name \in DOMAIN configs
      BY <1>2, <3>1, NamesOfTasks DEF HearInv, TasksHeld
    <3>10. Tells(c, k.noted)
      BY <1>2, <2>1, <3>6, <3>7, CallTold
    <3>11. UniqueIds' /\ RegistryStep
      BY <1>1, <1>2, <1>3, <2>1, <2>3, <3>2, <3>3, <3>4, <3>7, <3>9, <3>10, SetMaps
    <3> QED
      BY <1>2, <3>6, <3>8, <3>11, OneCallFits
  <2> QED
    BY <2>2, <2>3
<1> QED
  BY <1>4, <1>5
-----------------------------------------------------------------------------
LEMMA ServeKeeps ==
  ASSUME HearInv, AskInv, NEW c \in Clients, Serve(c)
  PROVE  AskInv' /\ RegistryStep
<1>1. CASE GetTask(c) \/ ListTasks(c) \/ CancelTask(c) \/ GetExtendedCard(c)
  BY <1>1, AnswersKeep DEF RegistryStep
<1>2. CASE Resubscribe(c) \/ CreateTask(c) \/ StartExecution(c)
  BY <1>2, ResubscribeKeeps, CreateKeeps, StartKeeps DEF RegistryStep
<1>3. CASE NoStore(c) \/ SetPushConfig(c) \/ GetPushConfig(c)
  BY <1>3, NoStoreKeeps, SetPushConfigKeeps, GetPushConfigKeeps
<1>4. CASE ListPushConfigs(c) \/ DeletePushConfig(c) \/ RegisterInlinePushConfig(c)
  BY <1>4, ListPushConfigsKeeps, DeletePushConfigKeeps, RegisterKeeps
<1> QED
  BY <1>1, <1>2, <1>3, <1>4 DEF Serve

LEMMA NextKeeps ==
  ASSUME HearInv, AskInv, [Next]_vars
  PROVE  AskInv' /\ RegistryStep
<1>1. CASE UNCHANGED vars
  <2>1. UNCHANGED <<call, client, configs>> /\ UNCHANGED <<world, deployed, cached>>
    BY <1>1 DEF vars
  <2>2. SettingFits'
    BY <2>1 DEF AskInv, SettingFits
  <2> QED
    BY <2>1, <2>2, SettingMoves, SettingStays DEF RegistryStep
<1>2. ASSUME NEW c \in Clients,
             Resolve(c) \/ Ask(c) \/ Arrive(c) \/ Serve(c) \/ Lose(c) \/ Receive(c)
      PROVE  AskInv' /\ RegistryStep
  <2>1. CASE Resolve(c) \/ Arrive(c)
    BY <2>1, ResolveKeeps, ArriveKeeps DEF RegistryStep
  <2>2. CASE Ask(c) \/ Serve(c) \/ Lose(c) \/ Receive(c)
    BY <2>2, AskKeeps, ServeKeeps, EndKeeps
  <2> QED
    BY <1>2, <2>1, <2>2
<1>3. ASSUME NEW n \in DOMAIN tasks, Finish(n)
      PROVE  AskInv' /\ RegistryStep
  BY <1>3, FinishKeeps DEF RegistryStep
<1>4. CASE Reconfigure \/ Redeploy
  BY <1>4, ReconfigureKeeps, RedeployKeeps DEF RegistryStep
<1> QED
  BY <1>1, <1>2, <1>3, <1>4 DEF Next

LEMMA InitAsks ==
  ASSUME Init
  PROVE  AskInv /\ Registry!Init
<1>1. PICK w \in DOMAIN Worlds : world = Worlds[w]
  BY DEF Init
<1>2. deployed = 1 /\ cached = Absent /\ client = [c \in Clients |-> Unresolved]
      /\ call = [c \in Clients |-> NoCall]
      /\ configs = [name \in {TaskNames[i] : i \in DOMAIN TaskNames} |-> <<>>]
  BY DEF Init
<1>3. NoCall.pc = "idle" /\ DOMAIN <<>> = {}
  BY DEF NoCall
<1>4. 1 \in DOMAIN world.servers
  <2>1. Listed(world.servers) /\ world.servers # <<>>
    BY <1>1, WorldsAssumption
  <2> QED
    BY <2>1 DEF Listed
<1>5. SettingFits
  BY <1>1, <1>2, <1>4 DEF SettingFits
<1>6. UniqueIds
  BY <1>2, <1>3 DEF UniqueIds
<1>7. ASSUME NEW c \in Clients
      PROVE  call[c].pc = "idle" /\ Fits(client[c], call[c])
  <2>1. PICK k : k = call[c]
    OBVIOUS
  <2>2. k.pc = "idle"
    BY <1>2, <1>3, <2>1
  <2> QED
    BY <2>1, <2>2, IdleFits
<1>8. Registered = {}
  BY <1>2, <1>3 DEF Registered
<1>9. \A c \in Clients : Pending(c) = Absent
  BY <1>7 DEF Pending
<1>10. Registry!Init
  BY <1>7, <1>8, <1>9 DEF Registry!Init, Registered
<1> QED
  BY <1>5, <1>6, <1>7, <1>10 DEF AskInv

(* A request that the server executes is the one that the client asked for, in    *)
(* whatever version and over whatever binding, also if the server was set up      *)
(* differently since: formatParams, the routes and the validators of both         *)
(* versions undo one another.                                              *)
THEOREM RequestsServedAsAsked == Spec => []ServedAsAsked
<1>1. Init => HearInv /\ AskInv
  BY InitHears, InitAsks
<1>2. HearInv /\ AskInv /\ [Next]_vars => HearInv' /\ AskInv'
  BY NextHears, NextKeeps
<1>3. HearInv /\ AskInv => ServedAsAsked
  <2>1. ASSUME AskInv, NEW c \in Clients, call[c].pc \in Taken
        PROVE  Understood(call[c].by.version, call[c].asked, call[c].served)
    BY <2>1 DEF AskInv, Fits
  <2>2. ASSUME AskInv PROVE ServedAsAsked
    BY <2>1, <2>2 DEF ServedAsAsked, Understood, Taken
  <2> QED
    BY <2>2
<1> QED
  BY <1>1, <1>2, <1>3, PTL DEF Spec

(* The push notification methods, the registration of a webhook along with a      *)
(* message, and the store behind them implement one registry that each call reads  *)
(* or changes at one instant, whatever is lost and whatever server replaces the   *)
(* one that took the call.                                                  *)
THEOREM OneRegistry == Spec => RegistryKept
<1>1. Init => HearInv /\ AskInv /\ Registry!Init
  BY InitHears, InitAsks
<1>2. HearInv /\ AskInv /\ [Next]_vars => HearInv' /\ AskInv'
  BY NextHears, NextKeeps
<1>3. HearInv /\ AskInv /\ [Next]_vars => [Registry!Next]_(Registry!vars)
  <2>1. ASSUME HearInv, AskInv, [Next]_vars PROVE [Registry!Next]_(Registry!vars)
    <3>1. RegistryStep
      BY <2>1, NextKeeps
    <3> QED
      BY <3>1 DEF RegistryStep, RegistryStays, Registry!vars, Registered, Pendings, Answers
  <2> QED
    BY <2>1
<1> QED
  BY <1>1, <1>2, <1>3, PTL DEF Spec, RegistryKept, Registry!Spec
=============================================================================
