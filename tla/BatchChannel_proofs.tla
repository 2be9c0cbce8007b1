-------------------------- MODULE BatchChannel_proofs --------------------------
(* Theorems about BatchChannel, for every value of its constants.               *)
EXTENDS BatchChannel, FiniteSetTheorems, TLAPS

USE ChannelAssumption DEF ChannelAssumption
-----------------------------------------------------------------------------
(* The queue of the lease. *)

Node(a) == attempt[a].node
Closed(a) == Node(a) \in {"safe", "unsafe"}
State(a) == voucher[a].state
InHand(c) == call[c].pc \notin {"idle", "prompted"} /\ call[c].attempt # Nobody
Holder(c) == InHand(c) /\ call[c].pc # "queued"

(* Attempts are numbered in the order they queue, and closed in that order; the  *)
(* last one is the tail until it is closed.                                     *)
Ordered ==
  /\ \A a, b \in Attempts : b < a /\ Node(a) # "unused" => Node(b) # "unused"
  /\ \A a, b \in Attempts : b < a /\ Closed(a) => Closed(b)
  /\ IF tail = Nobody THEN \A a \in Attempts : Node(a) # "open"
                      ELSE /\ Node(tail) = "open"
                           /\ \A b \in Attempts : tail < b => Node(b) = "unused"

(* An attempt waits for the one before it, and so for all that were open; one    *)
(* that was closed safely had all of its own closed safely.                     *)
Chained(a) ==
  /\ attempt[a].previous < a
  /\ Node(a) # "unused" => \A b \in Attempts : attempt[a].previous < b /\ b < a => Closed(b)
  /\ Node(a) = "open" =>
       /\ \A b \in Attempts : b < a /\ Node(b) = "open" => b \in attempt[a].behind
       /\ \A b \in attempt[a].behind :
            /\ attempt[a].previous # Nobody
            /\ b = attempt[a].previous \/ b \in attempt[attempt[a].previous].behind
       /\ attempt[a].previous # Nobody /\ Node(attempt[a].previous) = "safe" =>
            \A b \in attempt[attempt[a].previous].behind : Node(b) = "safe"

(* A call and its attempts. *)
CallFits(c) ==
  LET f == call[c] IN
  /\ f.pc \in {"queued", "signing", "signed", "fetch"} => f.attempt # Nobody
  /\ InHand(c) => Node(f.attempt) = "open" /\ f.attempt \in f.tries
  /\ Holder(c) => /\ \A b \in Attempts : b < f.attempt => Closed(b)
                  /\ \A b \in attempt[f.attempt].behind : Node(b) = "safe"
  /\ f.pc \in {"queued", "signing", "signed"} => State(f.attempt) = "none"
  /\ f.pc = "sent" /\ f.attempt # Nobody => State(f.attempt) # "none"
  /\ \A a \in f.tries : /\ Node(a) # "unused"
                        /\ (InHand(c) /\ f.attempt = a) \/ State(a) \in {"none", "rejected"}

Apart == \A c, d \in Calls : c # d => call[c].tries \cap call[d].tries = {}

InOrder ==
  /\ TypeOK /\ Ordered /\ Apart
  /\ \A a \in Attempts : Chained(a)
  /\ \A c \in Calls : CallFits(c)
  /\ \A a \in Attempts : Node(a) = "open" => \E c \in Calls : InHand(c) /\ call[c].attempt = a
  /\ \A a \in Attempts : Node(a) = "unused" => State(a) = "none"
-----------------------------------------------------------------------------
(* The record, the vouchers and the merchant's figures. *)

Unsettled(a) == State(a) = "settled" /\ a > store.applied

Guarded ==
  /\ store.pending = Nobody \/ store.marker = Nobody
  /\ \A a \in Attempts : AtRisk(a) => a \in {store.pending, store.marker}
  /\ store.marker # Nobody => State(store.marker) # "none"
  /\ store.applied # Nobody => State(store.applied) = "settled"

Figured ==
  /\ \A a \in Attempts : attempt[a].pre.applied < a
  /\ \A a \in Attempts : State(a) = "sent" =>
       /\ a > store.applied
       /\ Base(attempt[a]) = channel.charged /\ OrZero(attempt[a].pre.balance) = channel.balance
  /\ \A a \in Attempts : State(a) = "settled" => voucher[a].balance = Floor(attempt[a])
  /\ \A a \in Attempts : Unsettled(a) =>
       channel = [charged |-> voucher[a].cumulative, balance |-> voucher[a].balance]
  /\ (\A a \in Attempts : ~Unsettled(a)) =>
       /\ OrZero(store.charged) = channel.charged /\ OrZero(store.balance) = channel.balance
       /\ store.applied # Nobody =>
            channel = [charged |-> voucher[store.applied].cumulative,
                       balance |-> voucher[store.applied].balance]

Leased(c) ==
  LET f == call[c] IN
  /\ f.pc = "signed" => store = attempt[f.attempt].pre /\ ~Blocked(store)
  /\ f.pc \in {"fetch", "sent"} /\ f.attempt # Nobody =>
       /\ store = Submitted(f.attempt, attempt[f.attempt].pre)
       /\ ~Blocked(attempt[f.attempt].pre)

SafeBehind ==
  \A a \in Attempts : Node(a) = "open" =>
    \A b \in attempt[a].behind : Node(b) = "safe" => ~AtRisk(b)

Accounted == Guarded /\ Figured /\ SafeBehind /\ \A c \in Calls : Leased(c)
-----------------------------------------------------------------------------
(* Types. *)

LEMMA AttemptNumbers == Attempts \subseteq Nat \ {0} /\ Nobody = 0 /\ Nobody \notin Attempts
BY DEF Attempts, Nobody

LEMMA RecordTypes ==
  ASSUME NEW a \in Attempts, NEW record \in ChannelState(Attempts)
  PROVE  /\ Submitted(a, record) \in ChannelState(Attempts)
         /\ Retracted(a, record) \in ChannelState(Attempts)
         /\ Quarantined(a, record) \in ChannelState(Attempts)
BY AttemptNumbers DEF ChannelState, Submitted, Retracted, Quarantined, Kept, Figures, Absent

(* The figures a receipt leaves are the merchant's, or what was deposited at least. *)
LEMMA FoldTypes ==
  ASSUME NEW a \in Attempts, NEW binding \in Attempt, NEW receipt \in Voucher,
         NEW record \in ChannelState(Attempts)
  PROVE  Folded(a, binding, receipt, record) \in ChannelState(Attempts)
<1>1. Floor(binding) \in Nat
  BY DEF Floor, Attempt, ChannelState, OrZero, Figures, Absent
<1>2. (IF receipt.balance > Floor(binding) THEN receipt.balance ELSE Floor(binding)) \in Nat
  BY <1>1 DEF Voucher
<1> QED BY <1>2 DEF Folded, ChannelState, Voucher, Figures, Kept

LEMMA Known ==
  ASSUME TypeOK
  PROVE  /\ \A c \in Calls : call[c] \in Call
         /\ \A a \in Attempts : attempt[a] \in Attempt
         /\ \A a \in Attempts : voucher[a] \in Voucher
         /\ store \in ChannelState(Attempts)
BY DEF TypeOK
-----------------------------------------------------------------------------
(* How an action moves a call and the queue. *)

Alone(c) ==
  /\ call' \in [Calls -> Call]
  /\ \A d \in Calls : d # c => call'[d] = call[d]

SameAttempt(c) == call'[c].attempt = call[c].attempt /\ call'[c].tries = call[c].tries

LEMMA CallReplaced ==
  ASSUME TypeOK, NEW c \in Calls, NEW f \in Call, call' = [call EXCEPT ![c] = f]
  PROVE  Alone(c) /\ call'[c] = f
BY DEF TypeOK, Alone

LEMMA GotoMoves ==
  ASSUME TypeOK, NEW c \in Calls, NEW pc \in PCs, Goto(c, pc)
  PROVE  Alone(c) /\ SameAttempt(c) /\ call'[c].pc = pc
<1> DEFINE f == [call[c] EXCEPT !.pc = pc]
<1>1. call[c] \in Call
  BY Known
<1>2. f \in Call /\ f.pc = pc /\ f.attempt = call[c].attempt /\ f.tries = call[c].tries
  BY <1>1 DEF Call
<1>3. call' = [call EXCEPT ![c] = f]
  BY DEF Goto
<1> HIDE DEF f
<1> QED BY <1>2, <1>3, CallReplaced DEF SameAttempt

LEMMA IdleTyped ==
  Idle \in Call /\ Idle.pc = "idle" /\ Idle.attempt = Nobody /\ Idle.tries = {}
BY DEF Idle, Call, PCs, Nobody

LEMMA EndsMoves ==
  ASSUME TypeOK, NEW c \in Calls, Ends(c)
  PROVE  Alone(c) /\ call'[c] = Idle
BY IdleTyped, CallReplaced DEF Ends

LEMMA Signatures ==
  /\ Retries \in Nat /\ Retries + 1 \in 0..(Retries + 1)
  /\ \A n \in 0..(Retries + 1) : n > 0 => n - 1 \in 0..(Retries + 1)
<1>1. Retries \in Nat
  OBVIOUS
<1> QED BY <1>1

LEMMA PromptedMoves ==
  ASSUME TypeOK, NEW c \in Calls, Prompted(c)
  PROVE  Alone(c) /\ call'[c].pc = "prompted" /\ call'[c].attempt = Nobody /\ call'[c].tries = {}
<1> DEFINE f == [Idle EXCEPT !.pc = "prompted", !.signs = Retries + 1]
<1>1. f \in Call /\ f.pc = "prompted" /\ f.attempt = Nobody /\ f.tries = {}
  BY Signatures DEF Idle, Call, PCs, Nobody
<1>2. call' = [call EXCEPT ![c] = f]
  BY DEF Prompted
<1> HIDE DEF f
<1> QED BY <1>1, <1>2, CallReplaced

LEMMA PayExactMoves ==
  ASSUME TypeOK, NEW c \in Calls, PayExact(c)
  PROVE  Alone(c) /\ call'[c].pc = "sent" /\ call'[c].attempt = Nobody
           /\ call'[c].tries = call[c].tries
<1> DEFINE f == [call[c] EXCEPT !.pc = "sent", !.signs = @ - 1, !.attempt = Nobody]
<1>1. call[c] \in Call /\ call[c].signs > 0
  BY Known DEF PayExact
<1>2. f \in Call /\ f.pc = "sent" /\ f.attempt = Nobody /\ f.tries = call[c].tries
  BY <1>1, Signatures DEF Call, PCs
<1>3. call' = [call EXCEPT ![c] = f]
  BY DEF PayExact
<1> HIDE DEF f
<1> QED BY <1>2, <1>3, CallReplaced

LEMMA ResubmitMoves ==
  ASSUME TypeOK, NEW c \in Calls, Resubmit(c)
  PROVE  Alone(c) /\ SameAttempt(c) /\ call'[c].pc = "fetch"
<1> DEFINE f == [call[c] EXCEPT !.pc = "fetch", !.again = TRUE]
<1>1. call[c] \in Call
  BY Known
<1>2. f \in Call /\ f.pc = "fetch" /\ f.attempt = call[c].attempt /\ f.tries = call[c].tries
  BY <1>1 DEF Call, PCs
<1>3. call' = [call EXCEPT ![c] = f]
  BY DEF Resubmit
<1> HIDE DEF f
<1> QED BY <1>2, <1>3, CallReplaced DEF SameAttempt

(* Only this attempt's node changes, and who it waits for never does. *)
OneNode(a, node) ==
  /\ attempt' \in [Attempts -> Attempt]
  /\ attempt'[a].node = node
  /\ \A b \in Attempts : /\ b # a => attempt'[b].node = attempt[b].node
                         /\ attempt'[b].previous = attempt[b].previous
                         /\ attempt'[b].behind = attempt[b].behind
                         /\ attempt'[b].ceiling = attempt[b].ceiling
                         /\ attempt'[b].deposit = attempt[b].deposit
                         /\ attempt'[b].pre = attempt[b].pre

LEMMA UnlockMoves ==
  ASSUME TypeOK, NEW a \in Attempts, NEW outcome \in {"safe", "unsafe"}, Unlock(a, outcome)
  PROVE  OneNode(a, outcome) /\ tail' = IF tail = a THEN Nobody ELSE tail
<1> DEFINE f == [attempt[a] EXCEPT !.node = outcome]
<1>1. attempt[a] \in Attempt
  BY Known
<1>2. /\ f \in Attempt /\ f.node = outcome /\ f.previous = attempt[a].previous
      /\ f.behind = attempt[a].behind /\ f.ceiling = attempt[a].ceiling
      /\ f.deposit = attempt[a].deposit /\ f.pre = attempt[a].pre
  BY <1>1 DEF Attempt
<1>3. attempt' = [attempt EXCEPT ![a] = f]
  BY DEF Unlock
<1> HIDE DEF f
<1>4. attempt \in [Attempts -> Attempt]
  BY DEF TypeOK
<1> QED BY <1>2, <1>3, <1>4 DEF OneNode, Unlock

LEMMA EnqueueMoves ==
  ASSUME TypeOK, NEW c \in Calls, Enqueue(c)
  PROVE  \E a \in Attempts :
           LET u == [Unused EXCEPT !.node = "open", !.previous = tail,
                                   !.behind = {b \in Attempts : Node(b) = "open"}] IN
           /\ Node(a) = "unused" /\ \A b \in Attempts : b < a => Node(b) # "unused"
           /\ u \in Attempt /\ attempt' = [attempt EXCEPT ![a] = u] /\ tail' = a
           /\ Alone(c) /\ call'[c].pc = "queued" /\ call'[c].attempt = a
           /\ call'[c].tries = call[c].tries \cup {a}
<1>1. PICK a \in Attempts :
        /\ Node(a) = "unused" /\ \A b \in Attempts : b < a => Node(b) # "unused"
        /\ attempt' = [attempt EXCEPT ![a] = [Unused EXCEPT !.node = "open",
                          !.previous = tail, !.behind = {b \in Attempts : Node(b) = "open"}]]
        /\ tail' = a
        /\ call' = [call EXCEPT ![c].pc = "queued", ![c].signs = @ - 1, ![c].attempt = a,
                               ![c].tries = @ \cup {a}, ![c].again = FALSE]
  BY DEF Enqueue, Node
<1> DEFINE f == [call[c] EXCEPT !.pc = "queued", !.signs = @ - 1, !.attempt = a,
                                !.tries = @ \cup {a}, !.again = FALSE]
           u == [Unused EXCEPT !.node = "open", !.previous = tail,
                               !.behind = {b \in Attempts : Node(b) = "open"}]
<1>2. call[c] \in Call /\ call[c].signs > 0
  BY Known DEF Enqueue
<1>3. f \in Call /\ f.pc = "queued" /\ f.attempt = a /\ f.tries = call[c].tries \cup {a}
  BY <1>2, Signatures DEF Call, PCs
<1>4. call' = [call EXCEPT ![c] = f]
  BY <1>1
<1>5. NoRecord \in ChannelState(Attempts) /\ tail \in Attempts \cup {Nobody}
  BY DEF NoRecord, ChannelState, Figures, TypeOK
<1>6. u \in Attempt
  BY <1>5 DEF Unused, Attempt
<1> HIDE DEF f
<1>7. Alone(c) /\ call'[c] = f
  BY <1>3, <1>4, CallReplaced
<1> QED BY <1>1, <1>3, <1>6, <1>7
-----------------------------------------------------------------------------
(* The queue is kept in order. *)

SameQueue ==
  /\ tail' = tail
  /\ \A a \in Attempts : /\ attempt'[a].node = attempt[a].node
                         /\ attempt'[a].previous = attempt[a].previous
                         /\ attempt'[a].behind = attempt[a].behind

LEMMA QueueTypes ==
  ASSUME TypeOK, NEW a \in Attempts
  PROVE  /\ Node(a) \in {"unused", "open", "safe", "unsafe"}
         /\ attempt[a].previous \in Attempts \cup {Nobody}
         /\ attempt[a].behind \subseteq Attempts
         /\ tail \in Attempts \cup {Nobody}
         /\ attempt[a].previous \in Nat
<1>1. attempt[a] \in Attempt
  BY Known
<1>2. attempt[a].previous \in Attempts \cup {Nobody}
  BY <1>1 DEF Attempt
<1>3. attempt[a].previous \in Nat
  <2>1. CASE attempt[a].previous \in Attempts
    BY <2>1, AttemptNumbers
  <2>2. CASE attempt[a].previous = Nobody
    BY <2>2, AttemptNumbers
  <2> QED BY <1>2, <2>1, <2>2
<1> QED BY <1>1, <1>3 DEF Attempt, Node, TypeOK

LEMMA SameQueueKeeps ==
  ASSUME InOrder, SameQueue
  PROVE  Ordered' /\ \A a \in Attempts : Chained(a)'
<1>1. \A a \in Attempts : Node(a)' = Node(a) /\ (Closed(a)' <=> Closed(a))
  BY DEF SameQueue, Node, Closed
<1>2. Ordered'
  <2>1. tail' = tail /\ tail \in Attempts \cup {Nobody} /\ Ordered
    BY DEF SameQueue, InOrder, TypeOK
  <2> QED BY <1>1, <2>1 DEF Ordered
<1>3. ASSUME NEW a \in Attempts
      PROVE  Chained(a)'
  <2>1. Chained(a)
    BY DEF InOrder
  <2>2. /\ attempt'[a].previous = attempt[a].previous /\ attempt'[a].behind = attempt[a].behind
        /\ attempt[a].previous \in Attempts \cup {Nobody} /\ attempt[a].behind \subseteq Attempts
    BY QueueTypes DEF SameQueue, InOrder
  <2>3. attempt[a].previous # Nobody =>
          LET p == attempt[a].previous IN
          /\ attempt'[p].behind = attempt[p].behind
          /\ attempt[p].behind \subseteq Attempts /\ p \in Attempts
    BY <2>2, QueueTypes DEF SameQueue, InOrder
  <2> QED BY <1>1, <2>1, <2>2, <2>3 DEF Chained
<1> QED BY <1>2, <1>3

LEMMA CallStep ==
  ASSUME InOrder, TypeOK', NEW c \in Calls, Alone(c), SameQueue,
         call'[c].tries \subseteq call[c].tries,
         InHand(c) => InHand(c)' /\ call'[c].attempt = call[c].attempt,
         CallFits(c)',
         \A a \in Attempts : State(a)' = State(a) \/ (InHand(c) /\ a = call[c].attempt)
  PROVE  InOrder'
<1>1. Ordered' /\ \A a \in Attempts : Chained(a)'
  BY SameQueueKeeps
<1>2. \A a \in Attempts : Node(a)' = Node(a) /\ (Closed(a)' <=> Closed(a))
  BY DEF SameQueue, Node, Closed
<1>3. Apart'
  BY DEF Apart, InOrder, Alone
<1>4. ASSUME NEW d \in Calls
      PROVE  CallFits(d)'
  <2>1. CASE d = c
    BY <2>1
  <2>2. CASE d # c
    <3>1. call'[d] = call[d] /\ call[d] \in Call /\ CallFits(d)
      BY <2>2, Known DEF Alone, InOrder
    <3>2. (InHand(d)' <=> InHand(d)) /\ (Holder(d)' <=> Holder(d))
      BY <3>1 DEF InHand, Holder
    <3>3. \A a \in call[d].tries : a \in Attempts /\ State(a)' = State(a)
      <4>1. call[d].tries \subseteq Attempts /\ call[d].tries \cap call[c].tries = {}
        BY <2>2, <3>1 DEF Call, Apart, InOrder
      <4>2. InHand(c) => call[c].attempt \in call[c].tries
        BY DEF InOrder, CallFits
      <4> QED BY <4>1, <4>2
    <3>4. call[d].attempt # Nobody /\ call[d].pc \notin {"idle", "prompted"} =>
            /\ call[d].attempt \in call[d].tries /\ call[d].attempt \in Attempts
            /\ attempt'[call[d].attempt].behind = attempt[call[d].attempt].behind
            /\ attempt[call[d].attempt].behind \subseteq Attempts
      BY <3>1, QueueTypes DEF CallFits, InHand, Call, SameQueue, InOrder
    <3> QED BY <1>2, <3>1, <3>2, <3>3, <3>4 DEF CallFits, InHand, Holder
  <2> QED BY <2>1, <2>2
<1>5. ASSUME NEW a \in Attempts, Node(a)' = "open"
      PROVE  \E d \in Calls : InHand(d)' /\ call'[d].attempt = a
  <2>1. PICK d \in Calls : InHand(d) /\ call[d].attempt = a
    BY <1>2, <1>5 DEF InOrder
  <2>2. d # c => call'[d] = call[d]
    BY DEF Alone
  <2> QED BY <2>1, <2>2 DEF InHand
<1>6. ASSUME NEW a \in Attempts, Node(a)' = "unused"
      PROVE  State(a)' = "none"
  <2>1. Node(a) = "unused" /\ State(a) = "none"
    BY <1>2, <1>6 DEF InOrder
  <2>2. InHand(c) => Node(call[c].attempt) = "open"
    BY DEF InOrder, CallFits
  <2> QED BY <2>1, <2>2
<1> QED BY <1>1, <1>3, <1>4, <1>5, <1>6 DEF InOrder

(* Whoever has all earlier attempts closed may release its own. *)
LEMMA UnlockStep ==
  ASSUME InOrder, TypeOK', NEW c \in Calls, NEW a \in Attempts, InHand(c), call[c].attempt = a,
         Alone(c), voucher' = voucher, NEW outcome \in {"safe", "unsafe"},
         OneNode(a, outcome), tail' = IF tail = a THEN Nobody ELSE tail,
         \A b \in Attempts : b < a => Closed(b),
         outcome = "safe" => \A b \in attempt[a].behind : Node(b) = "safe",
         call'[c].pc \in {"idle", "prompted"}, call'[c].tries \subseteq call[c].tries,
         \A b \in call'[c].tries : State(b) \in {"none", "rejected"}
  PROVE  InOrder'
<1>1. /\ a \in Attempts /\ a \in call[c].tries /\ Node(a) = "open" /\ a \in Nat
      /\ call[c].tries \subseteq Attempts
  BY Known, AttemptNumbers DEF InOrder, CallFits, InHand, Call
<1>2. /\ Node(a)' = outcome /\ Closed(a)' /\ ~Closed(a)
      /\ \A b \in Attempts : b # a => Node(b)' = Node(b) /\ (Closed(b)' <=> Closed(b))
  BY <1>1 DEF OneNode, Node, Closed
<1>3. \A b \in Attempts : /\ Closed(b) => Closed(b)'
                          /\ Node(b) = "safe" => Node(b)' = "safe"
                          /\ Node(b)' = "open" => Node(b) = "open" /\ b # a
                          /\ Node(b)' = "unused" <=> Node(b) = "unused"
  BY <1>1, <1>2
<1>h. \A b \in Attempts : b < a => Closed(b)
  OBVIOUS
<1>n. Attempts \subseteq Nat
  BY AttemptNumbers
<1>4. Ordered'
  <2>1. Ordered /\ tail \in Attempts \cup {Nobody} /\ tail' = IF tail = a THEN Nobody ELSE tail
    BY DEF InOrder, TypeOK
  <2>2. \A x, b \in Attempts : b < x /\ Closed(x)' => Closed(b)'
    BY <1>2, <1>3, <1>h, <2>1 DEF Ordered
  <2>3. \A x, b \in Attempts : b < x /\ Node(x)' # "unused" => Node(b)' # "unused"
    BY <1>3, <2>1 DEF Ordered
  <2>4. CASE tail = a
    <3>1. tail' = Nobody /\ \A b \in Attempts : a < b => Node(b) = "unused"
      BY <1>1, <2>1, <2>4, AttemptNumbers DEF Ordered
    <3>2. \A b \in Attempts : Node(b)' # "open"
      <4> SUFFICES ASSUME NEW b \in Attempts, Node(b)' = "open" PROVE FALSE
        OBVIOUS
      <4>1. Node(b) = "open" /\ b # a
        BY <1>3
      <4>2. ~(a < b)
        BY <3>1, <4>1
      <4>3. ~(b < a)
        BY <1>h, <4>1 DEF Closed
      <4>4. a \in Nat /\ b \in Nat
        BY <1>1, <1>n
      <4> QED BY <4>1, <4>2, <4>3, <4>4
    <3> QED BY <2>2, <2>3, <3>1, <3>2 DEF Ordered
  <2>5. CASE tail # a
    <3>1. tail' = tail
      BY <2>1, <2>5
    <3>2. tail # Nobody /\ tail \in Attempts
      BY <1>1, <2>1 DEF Ordered
    <3>3. Node(tail) = "open" /\ Node(tail)' = Node(tail)
      BY <1>2, <2>1, <2>5, <3>2, <3>1 DEF Ordered, Node
    <3>4. \A b \in Attempts : tail < b => Node(b)' = "unused"
      BY <1>3, <2>1, <3>2 DEF Ordered
    <3> QED BY <2>2, <2>3, <3>1, <3>2, <3>3, <3>4 DEF Ordered
  <2> QED BY <2>4, <2>5
<1>5. ASSUME NEW x \in Attempts
      PROVE  Chained(x)'
  <2>1. Chained(x)
    BY DEF InOrder
  <2>2. /\ attempt'[x].previous = attempt[x].previous /\ attempt'[x].behind = attempt[x].behind
        /\ attempt[x].previous \in Attempts \cup {Nobody} /\ attempt[x].behind \subseteq Attempts
    BY QueueTypes DEF OneNode, InOrder
  <2>3. attempt[x].previous # Nobody =>
          LET p == attempt[x].previous IN
          /\ attempt'[p].behind = attempt[p].behind
          /\ attempt[p].behind \subseteq Attempts /\ p \in Attempts
    BY <2>2, QueueTypes DEF OneNode, InOrder
  <2>4. ASSUME NEW p \in Attempts, p = attempt[x].previous, Node(x)' = "open", Node(p)' = "safe"
        PROVE  \A b \in attempt[p].behind : Node(b)' = "safe"
    <3>1. Node(x) = "open" /\ p # Nobody /\ attempt[p].behind \subseteq Attempts
      BY <1>3, <2>3, <2>4, AttemptNumbers
    <3>2. CASE p = a
      <4>1. outcome = "safe"
        BY <1>2, <2>4, <3>2
      <4> QED BY <1>3, <3>1, <3>2, <4>1
    <3>3. CASE p # a
      <4>1. Node(p) = "safe"
        BY <1>2, <2>4, <3>1, <3>3
      <4> QED BY <1>3, <2>1, <3>1, <4>1, <2>4 DEF Chained
    <3> QED BY <3>2, <3>3
  <2> QED BY <1>3, <2>1, <2>2, <2>3, <2>4 DEF Chained, Node
<1>6. Apart'
  BY DEF Apart, InOrder, Alone
<1>7. ASSUME NEW d \in Calls
      PROVE  CallFits(d)'
  <2>1. CASE d = c
    <3>1. ~InHand(c)' /\ ~Holder(c)'
      BY DEF InHand, Holder
    <3>2. \A b \in call'[c].tries : Node(b)' # "unused"
      BY <1>1, <1>3 DEF InOrder, CallFits
    <3>3. \A b \in call'[c].tries : State(b)' \in {"none", "rejected"}
      BY DEF State
    <3> QED BY <2>1, <3>1, <3>2, <3>3 DEF CallFits
  <2>2. CASE d # c
    <3>1. call'[d] = call[d] /\ call[d] \in Call /\ CallFits(d)
      BY <2>2, Known DEF Alone, InOrder
    <3>2. (InHand(d)' <=> InHand(d)) /\ (Holder(d)' <=> Holder(d))
      BY <3>1 DEF InHand, Holder
    <3>3. call[d].tries \subseteq Attempts /\ a \notin call[d].tries
      BY <1>1, <2>2, <3>1 DEF Call, Apart, InOrder
    <3>4. call[d].attempt # Nobody /\ call[d].pc \notin {"idle", "prompted"} =>
            /\ call[d].attempt \in call[d].tries /\ call[d].attempt \in Attempts
            /\ Node(call[d].attempt)' = Node(call[d].attempt)
            /\ attempt'[call[d].attempt].behind = attempt[call[d].attempt].behind
            /\ attempt[call[d].attempt].behind \subseteq Attempts
      BY <1>2, <3>1, <3>3, QueueTypes DEF CallFits, InHand, OneNode, InOrder
    <3>5. \A b \in Attempts : State(b)' = State(b)
      BY DEF State
    <3>6. \A b \in call[d].tries : Node(b)' # "unused"
      BY <1>3, <3>1, <3>3 DEF CallFits
    <3> QED BY <1>3, <3>1, <3>2, <3>3, <3>4, <3>5, <3>6 DEF CallFits, InHand, Holder
  <2> QED BY <2>1, <2>2
<1>8. ASSUME NEW x \in Attempts, Node(x)' = "open"
      PROVE  \E d \in Calls : InHand(d)' /\ call'[d].attempt = x
  <2>1. PICK d \in Calls : InHand(d) /\ call[d].attempt = x
    BY <1>3, <1>8 DEF InOrder
  <2>2. d # c
    BY <1>3, <1>8, <2>1
  <2> QED BY <2>1, <2>2 DEF InHand, Alone
<1>9. \A x \in Attempts : Node(x)' = "unused" => State(x)' = "none"
  BY <1>3 DEF InOrder, State
<1> QED BY <1>4, <1>5, <1>6, <1>7, <1>8, <1>9 DEF InOrder

LEMMA EnqueueStep ==
  ASSUME InOrder, TypeOK', NEW c \in Calls, Enqueue(c)
  PROVE  InOrder'
<1>1. PICK a \in Attempts :
        LET u == [Unused EXCEPT !.node = "open", !.previous = tail,
                                !.behind = {b \in Attempts : Node(b) = "open"}] IN
        /\ Node(a) = "unused" /\ \A b \in Attempts : b < a => Node(b) # "unused"
        /\ u \in Attempt /\ attempt' = [attempt EXCEPT ![a] = u] /\ tail' = a
        /\ Alone(c) /\ call'[c].pc = "queued" /\ call'[c].attempt = a
        /\ call'[c].tries = call[c].tries \cup {a}
  BY EnqueueMoves DEF InOrder
<1>2. attempt \in [Attempts -> Attempt] /\ a \in Nat /\ a # Nobody /\ Attempts \subseteq Nat
  BY AttemptNumbers DEF InOrder, TypeOK
<1>3. /\ attempt'[a].node = "open" /\ attempt'[a].previous = tail
      /\ attempt'[a].behind = {b \in Attempts : Node(b) = "open"}
      /\ \A b \in Attempts : b # a => attempt'[b] = attempt[b]
  BY <1>1, <1>2 DEF Unused
<1>4. voucher' = voucher /\ At(c, "prompted")
  BY DEF Enqueue, External
<1>5. \A x \in Attempts : Node(x) # "unused" => x < a
  <2> SUFFICES ASSUME NEW x \in Attempts, Node(x) # "unused" PROVE x < a
    OBVIOUS
  <2>1. ~(a < x)
    BY <1>1 DEF InOrder, Ordered
  <2>2. x # a /\ x \in Nat
    BY <1>1, <1>2
  <2> QED BY <1>2, <2>1, <2>2
<1>6. /\ Node(a)' = "open" /\ ~Closed(a)' /\ ~Closed(a)
      /\ \A b \in Attempts : b # a => Node(b)' = Node(b) /\ (Closed(b)' <=> Closed(b))
  BY <1>1, <1>3 DEF Node, Closed
<1>7. Ordered /\ tail \in Attempts \cup {Nobody}
  BY DEF InOrder, TypeOK
<1>8. \A b \in Attempts : Closed(b) => Closed(b)' /\ Node(b) # "unused"
  BY <1>6 DEF Closed
<1>9. Ordered'
  <2>1. \A x, b \in Attempts : b < x /\ Node(x)' # "unused" => Node(b)' # "unused"
    <3> SUFFICES ASSUME NEW x \in Attempts, NEW b \in Attempts, b < x, Node(x)' # "unused"
                 PROVE  Node(b)' # "unused"
      OBVIOUS
    <3>1. CASE x = a
      BY <1>1, <1>6, <3>1
    <3>2. CASE x # a
      BY <1>1, <1>6, <1>7, <3>2 DEF Ordered
    <3> QED BY <3>1, <3>2
  <2>2. \A x, b \in Attempts : b < x /\ Closed(x)' => Closed(b)'
    BY <1>6, <1>7, <1>8 DEF Ordered
  <2>3. ASSUME NEW b \in Attempts, a < b
        PROVE  Node(b)' = "unused"
    <3>1. ~(b < a) /\ b # a
      BY <1>2, <2>3
    <3> QED BY <1>5, <1>6, <3>1
  <2> QED BY <1>1, <1>2, <1>6, <2>1, <2>2, <2>3 DEF Ordered
<1>10. ASSUME NEW x \in Attempts
       PROVE  Chained(x)'
  <2>1. CASE x = a
    <3>1. tail < a
      <4>1. CASE tail = Nobody
        BY <1>2, <4>1 DEF Nobody
      <4>2. CASE tail \in Attempts
        <5>1. tail # Nobody
          BY <4>2, AttemptNumbers
        <5>2. Node(tail) # "unused"
          BY <1>7, <5>1 DEF Ordered
        <5> QED BY <1>5, <4>2, <5>2
      <4> QED BY <1>7, <4>1, <4>2
    <3>2. ASSUME NEW b \in Attempts, tail < b, b < a
          PROVE  Closed(b)
      <4>1. Node(b) # "unused"
        BY <1>1, <3>2
      <4>2. tail = Nobody
        BY <1>7, <3>2, <4>1 DEF Ordered
      <4>3. Node(b) # "open"
        BY <1>7, <4>2 DEF Ordered
      <4> QED BY <4>1, <4>3, QueueTypes DEF Closed, InOrder
    <3>3. ASSUME NEW b \in Attempts, Node(b) = "open"
          PROVE  tail # Nobody /\ (b = tail \/ b \in attempt[tail].behind)
      <4>1. tail # Nobody /\ tail \in Attempts
        BY <1>7, <3>3 DEF Ordered
      <4>2. Node(tail) = "open" /\ ~(tail < b)
        BY <1>7, <3>3, <4>1 DEF Ordered
      <4>3. b < tail => b \in attempt[tail].behind
        BY <3>3, <4>1, <4>2 DEF InOrder, Chained
      <4>4. b \in Nat /\ tail \in Nat
        BY <1>2, <4>1
      <4> QED BY <4>1, <4>2, <4>3, <4>4
    <3>4. tail # Nobody => /\ tail \in Attempts /\ tail # a /\ Node(tail) = "open"
                           /\ Node(tail) # "safe"
      BY <1>1, <1>7 DEF Ordered
    <3>5. \A b \in Attempts : b < a /\ Node(b)' = "open" => b \in attempt'[a].behind
      BY <1>2, <1>3, <1>6
    <3>6. \A b \in attempt'[a].behind :
            tail # Nobody /\ (b = tail \/ b \in attempt'[tail].behind)
      BY <1>3, <3>3, <3>4
    <3>7. tail # Nobody => attempt'[tail].node = "open"
      BY <1>3, <3>4 DEF Node
    <3> QED BY <1>3, <1>8, <2>1, <3>1, <3>2, <3>5, <3>6, <3>7 DEF Chained, Node
  <2>2. CASE x # a
    <3>1. Chained(x) /\ attempt'[x] = attempt[x] /\ Node(x)' = Node(x)
      BY <1>3, <1>6, <2>2 DEF InOrder
    <3>2. /\ attempt[x].previous \in Attempts \cup {Nobody} /\ attempt[x].behind \subseteq Attempts
          /\ attempt[x].previous < x
      BY <3>1, QueueTypes DEF Chained, InOrder
    <3>3. ASSUME Node(x) # "unused"
          PROVE  /\ x < a /\ attempt[x].previous < a
                 /\ attempt[x].previous # Nobody =>
                      /\ attempt'[attempt[x].previous] = attempt[attempt[x].previous]
                      /\ attempt[attempt[x].previous].behind \subseteq Attempts
      <4>1. x < a /\ x \in Nat /\ attempt[x].previous \in Nat
        <5>1. x < a /\ x \in Nat
          BY <1>2, <1>5, <3>3
        <5>2. attempt[x].previous \in Nat
          BY QueueTypes DEF InOrder
        <5> QED BY <5>1, <5>2
      <4>2. attempt[x].previous < a
        BY <1>2, <3>2, <4>1
      <4>3. attempt[x].previous # a
        BY <1>2, <4>1, <4>2
      <4> QED BY <1>3, <3>2, <4>1, <4>2, <4>3, QueueTypes DEF InOrder
    <3>4. ASSUME Node(x) # "unused", NEW b \in Attempts, b < x
          PROVE  Node(b)' = Node(b)
      <4>1. b # a
        BY <1>2, <3>3, <3>4
      <4> QED BY <1>6, <4>1
    <3>5. \A b \in Attempts : Node(b) = "safe" => Node(b)' = "safe"
      BY <1>1, <1>6
    <3> QED BY <1>8, <3>1, <3>2, <3>3, <3>4, <3>5 DEF Chained, Node
  <2> QED BY <2>1, <2>2
<1>11. \A d \in Calls : a \notin call[d].tries
  BY <1>1 DEF InOrder, CallFits
<1>12. Apart'
  <2> SUFFICES ASSUME NEW d \in Calls, NEW e \in Calls, d # e
               PROVE  call'[d].tries \cap call'[e].tries = {}
    BY DEF Apart
  <2>1. call[d].tries \cap call[e].tries = {}
    BY DEF InOrder, Apart
  <2>2. \A f \in Calls : f # c => call'[f].tries = call[f].tries
    BY <1>1 DEF Alone
  <2> QED BY <1>1, <1>11, <2>1, <2>2
<1>13. ASSUME NEW d \in Calls
       PROVE  CallFits(d)'
  <2>0. CallFits(d) /\ call[d] \in Call /\ call[d].tries \subseteq Attempts
    BY Known DEF InOrder, Call
  <2>1. CASE d = c
    <3>1. ~InHand(c) /\ ~Holder(c)'
      BY <1>1, <1>4 DEF InHand, Holder, At
    <3>2. InHand(c)'
      BY <1>1, <1>2 DEF InHand
    <3>3. State(a)' = "none"
      BY <1>1, <1>4 DEF InOrder, State
    <3>4. \A b \in call[c].tries : /\ Node(b) # "unused" /\ Node(b)' # "unused"
                                   /\ State(b)' \in {"none", "rejected"}
      BY <1>4, <1>6, <2>0, <2>1, <3>1 DEF CallFits, State
    <3> QED BY <1>1, <1>2, <1>3, <2>1, <3>1, <3>2, <3>3, <3>4 DEF CallFits, Node
  <2>2. CASE d # c
    <3>1. call'[d] = call[d]
      BY <1>1, <2>2 DEF Alone
    <3>2. (InHand(d)' <=> InHand(d)) /\ (Holder(d)' <=> Holder(d))
      BY <3>1 DEF InHand, Holder
    <3>3. call[d].attempt # Nobody /\ call[d].pc \notin {"idle", "prompted"} =>
            /\ call[d].attempt \in call[d].tries /\ call[d].attempt \in Attempts
            /\ Node(call[d].attempt)' = Node(call[d].attempt)
            /\ attempt'[call[d].attempt].behind = attempt[call[d].attempt].behind
            /\ attempt[call[d].attempt].behind \subseteq Attempts
      <4> DEFINE y == call[d].attempt
      <4>1. ASSUME y # Nobody, call[d].pc \notin {"idle", "prompted"}
            PROVE  y \in call[d].tries /\ y \in Attempts /\ y # a
        BY <1>11, <2>0, <4>1 DEF CallFits, InHand
      <4>2. ASSUME y \in Attempts, y # a
            PROVE  /\ attempt'[y] = attempt[y] /\ attempt[y].behind \subseteq Attempts
                   /\ attempt'[y].node = attempt[y].node
        BY <1>3, <4>2, QueueTypes DEF InOrder
      <4> HIDE DEF y
      <4>3. y # Nobody /\ call[d].pc \notin {"idle", "prompted"} =>
              /\ y \in call[d].tries /\ y \in Attempts
              /\ attempt'[y].node = attempt[y].node
              /\ attempt'[y].behind = attempt[y].behind
              /\ attempt[y].behind \subseteq Attempts
        BY <4>1, <4>2
      <4> QED BY <3>1, <4>3 DEF y, Node
    <3>4. \A b \in Attempts : State(b)' = State(b) /\ (Node(b) = "safe" => Node(b)' = "safe")
      BY <1>1, <1>4, <1>6 DEF State
    <3>5. \A b \in call[d].tries : Node(b)' # "unused"
      BY <1>6, <2>0 DEF CallFits
    <3> QED BY <1>8, <2>0, <3>1, <3>2, <3>3, <3>4, <3>5 DEF CallFits, InHand, Holder
  <2> QED BY <2>1, <2>2
<1>14. ASSUME NEW x \in Attempts, Node(x)' = "open"
       PROVE  \E d \in Calls : InHand(d)' /\ call'[d].attempt = x
  <2>1. CASE x = a
    BY <1>1, <1>2, <2>1 DEF InHand
  <2>2. CASE x # a
    <3>1. PICK d \in Calls : InHand(d) /\ call[d].attempt = x
      BY <1>6, <1>14, <2>2 DEF InOrder
    <3>2. d # c
      BY <1>4, <3>1 DEF InHand, At
    <3> QED BY <1>1, <3>1, <3>2 DEF InHand, Alone
  <2> QED BY <2>1, <2>2
<1>15. \A x \in Attempts : Node(x)' = "unused" => State(x)' = "none"
  BY <1>4, <1>6 DEF InOrder, State
<1> QED BY <1>9, <1>10, <1>12, <1>13, <1>14, <1>15 DEF InOrder

(* A crash closes every node at once. *)
LEMMA CrashStep ==
  ASSUME InOrder, Crash
  PROVE  InOrder'
<1>1. /\ call' = [c \in Calls |-> Idle] /\ tail' = Nobody /\ voucher' = voucher
      /\ attempt' = [a \in Attempts |-> [attempt[a] EXCEPT
                       !.node = IF @ = "open" THEN "safe" ELSE @]]
      /\ UNCHANGED <<store, channel, faults>>
  BY DEF Crash
<1>2. \A a \in Attempts : attempt'[a] = [attempt[a] EXCEPT
                            !.node = IF attempt[a].node = "open" THEN "safe" ELSE attempt[a].node]
  BY <1>1
<1>3. ASSUME NEW a \in Attempts
      PROVE  /\ attempt'[a] \in Attempt
             /\ Node(a)' = IF Node(a) = "open" THEN "safe" ELSE Node(a)
             /\ attempt'[a].previous = attempt[a].previous
  <2>1. attempt[a] \in Attempt
    BY Known DEF InOrder
  <2> QED BY <1>2, <2>1 DEF Attempt, Node
<1>4. TypeOK'
  <2>1. attempt' \in [Attempts -> Attempt]
    BY <1>1, <1>3
  <2>2. call' \in [Calls -> Call]
    BY <1>1, IdleTyped
  <2> QED BY <1>1, <2>1, <2>2 DEF TypeOK, InOrder
<1>5. \A a \in Attempts : /\ Node(a)' # "open" /\ (Node(a)' = "unused" <=> Node(a) = "unused")
                          /\ Closed(a)' <=> Node(a) # "unused"
  BY <1>3, QueueTypes DEF Closed, InOrder, Node
<1>6. Ordered'
  BY <1>1, <1>5 DEF Ordered, InOrder
<1>7. ASSUME NEW a \in Attempts
      PROVE  Chained(a)'
  <2>1. attempt[a].previous < a
    BY DEF Chained, InOrder
  <2>2. \A b \in Attempts : b < a /\ Node(a)' # "unused" => Closed(b)'
    BY <1>5 DEF InOrder, Ordered
  <2> QED BY <1>3, <1>5, <2>1, <2>2 DEF Chained
<1>8. ASSUME NEW c \in Calls
      PROVE  CallFits(c)' /\ call'[c].tries = {} /\ ~InHand(c)'
  <2>1. call'[c].pc = "idle" /\ call'[c].tries = {}
    BY <1>1, IdleTyped
  <2> QED BY <2>1 DEF CallFits, InHand, Holder
<1>9. Apart'
  BY <1>8 DEF Apart
<1>10. \A a \in Attempts : Node(a)' = "unused" => State(a)' = "none"
  BY <1>1, <1>5 DEF InOrder, State
<1> QED BY <1>4, <1>5, <1>6, <1>7, <1>8, <1>9, <1>10 DEF InOrder

(* The merchant only answers what was sent. *)
LEMMA AnswerStep ==
  ASSUME InOrder, TypeOK', UNCHANGED <<call, attempt, tail>>, NEW a \in Attempts,
         State(a) = "sent", State(a)' # "none",
         \A b \in Attempts : b # a => State(b)' = State(b)
  PROVE  InOrder'
<1>1. \A b \in Attempts : Node(b)' = Node(b) /\ (Closed(b)' <=> Closed(b))
  BY DEF Node, Closed
<1>2. SameQueue
  BY DEF SameQueue
<1>3. ASSUME NEW c \in Calls
      PROVE  CallFits(c)'
  <2>1. CallFits(c) /\ call[c] \in Call /\ call[c].tries \subseteq Attempts
    BY Known DEF InOrder, Call
  <2>2. InHand(c)' = InHand(c) /\ Holder(c)' = Holder(c) /\ call'[c] = call[c]
    BY DEF InHand, Holder
  <2>3. call[c].attempt # Nobody =>
          /\ call[c].attempt \in Attempts
          /\ attempt[call[c].attempt].behind \subseteq Attempts
    BY <2>1, QueueTypes DEF Call, InOrder
  <2>4. \A b \in call[c].tries : /\ Node(b)' # "unused"
                                 /\ (InHand(c) /\ call[c].attempt = b)
                                      \/ State(b)' \in {"none", "rejected"}
    BY <1>1, <2>1 DEF CallFits
  <2>5. /\ call[c].pc \in {"queued", "signing", "signed"} => State(call[c].attempt)' = "none"
        /\ call[c].pc = "sent" /\ call[c].attempt # Nobody => State(call[c].attempt)' # "none"
    <3>1. ASSUME NEW b \in Attempts
          PROVE  /\ State(b) = "none" => State(b)' = "none"
                 /\ State(b) # "none" => State(b)' # "none"
      BY <3>1
    <3>2. call[c].pc \in {"queued", "signing", "signed"} =>
            call[c].attempt \in Attempts /\ State(call[c].attempt) = "none"
      BY <2>1, <2>3 DEF CallFits
    <3>3. call[c].pc = "sent" /\ call[c].attempt # Nobody =>
            call[c].attempt \in Attempts /\ State(call[c].attempt) # "none"
      BY <2>1, <2>3 DEF CallFits
    <3>4. call'[c].attempt = call[c].attempt
      OBVIOUS
    <3> QED BY <3>1, <3>2, <3>3, <3>4 DEF State
  <2>6. InHand(c) => Node(call[c].attempt) = "open" /\ call[c].attempt \in call[c].tries
    BY <2>1 DEF CallFits
  <2>7. Holder(c) => /\ \A b \in Attempts : b < call[c].attempt => Closed(b)'
                     /\ \A b \in attempt[call[c].attempt].behind : Node(b)' = "safe"
    BY <1>1, <2>1, <2>3 DEF CallFits, Holder, InHand
  <2>8. (call[c].pc \in {"queued", "signing", "signed", "fetch"} => call[c].attempt # Nobody)
    BY <2>1 DEF CallFits
  <2>9. /\ State(call[c].attempt)' = voucher'[call[c].attempt].state
        /\ Node(call[c].attempt)' = Node(call[c].attempt)
    BY DEF State, Node
  <2> QED BY <2>2, <2>4, <2>5, <2>6, <2>7, <2>8, <2>9 DEF CallFits
<1>4. Ordered' /\ \A b \in Attempts : Chained(b)'
  BY <1>2, SameQueueKeeps
<1>5. Apart'
  BY DEF Apart, InOrder
<1>6. \A b \in Attempts : Node(b)' = "open" => \E c \in Calls : InHand(c)' /\ call'[c].attempt = b
  BY <1>1 DEF InOrder, InHand
<1>7. \A b \in Attempts : Node(b)' = "unused" => State(b)' = "none"
  BY <1>1 DEF InOrder
<1> QED BY <1>3, <1>4, <1>5, <1>6, <1>7 DEF InOrder

LEMMA RecordStep ==
  ASSUME InOrder, TypeOK', UNCHANGED <<call, attempt, tail, voucher>>
  PROVE  InOrder'
<1>1. SameQueue
  BY DEF SameQueue
<1>2. Ordered' /\ \A b \in Attempts : Chained(b)'
  BY <1>1, SameQueueKeeps
<1>3. \A b \in Attempts : Node(b)' = Node(b) /\ (Closed(b)' <=> Closed(b)) /\ State(b)' = State(b)
  BY DEF Node, Closed, State
<1>4. Apart' /\ \A c \in Calls : InHand(c)' = InHand(c)
  BY DEF Apart, InOrder, InHand
<1>5. \A c \in Calls : CallFits(c)'
  BY DEF CallFits, InOrder, Node, State, InHand, Holder, Closed
<1> QED BY <1>2, <1>3, <1>4, <1>5 DEF InOrder
-----------------------------------------------------------------------------
(* Every action keeps the queue in order. *)

LEMMA Hands ==
  ASSUME InOrder, NEW c \in Calls
  PROVE  /\ call[c] \in Call /\ call[c].tries \subseteq Attempts
         /\ call[c].attempt \in Attempts \cup {Nobody}
         /\ InHand(c) => /\ call[c].attempt \in Attempts /\ call[c].attempt \in call[c].tries
                         /\ Node(call[c].attempt) = "open"
         /\ call[c].pc \in {"queued", "signing", "signed", "fetch"} => InHand(c)
         /\ call[c].pc = "sent" /\ call[c].attempt # Nobody => InHand(c)
         /\ InHand(c) /\ call[c].pc # "queued" => Holder(c)
BY Known DEF InOrder, CallFits, InHand, Holder, Call

(* A call that holds the lease, or just got it, goes on with its attempt. *)
LEMMA HolderStep ==
  ASSUME InOrder, TypeOK', NEW c \in Calls, InHand(c), NEW a \in Attempts, call[c].attempt = a,
         Alone(c), SameAttempt(c), SameQueue,
         call'[c].pc \in {"signing", "signed", "fetch", "sent"},
         \A b \in Attempts : b < a => Closed(b),
         \A b \in attempt[a].behind : Node(b) = "safe",
         \A b \in Attempts : b # a => State(b)' = State(b),
         call'[c].pc \in {"signing", "signed"} => State(a)' = "none",
         call'[c].pc = "sent" => State(a)' # "none"
  PROVE  InOrder'
<1>1. \A b \in Attempts : Node(b)' = Node(b) /\ (Closed(b)' <=> Closed(b))
  BY DEF SameQueue, Node, Closed
<1>2. /\ a \in call[c].tries /\ Node(a) = "open" /\ a # Nobody /\ CallFits(c)
      /\ call[c].tries \subseteq Attempts
  BY Hands, AttemptNumbers DEF InOrder
<1>3. attempt'[a].behind = attempt[a].behind /\ attempt[a].behind \subseteq Attempts
  BY QueueTypes DEF SameQueue, InOrder
<1>4. /\ call'[c].attempt = a /\ call'[c].tries = call[c].tries
      /\ InHand(c)' /\ Holder(c)'
  BY <1>2 DEF SameAttempt, InHand, Holder
<1>5. attempt'[a].node = "open"
  BY <1>1, <1>2 DEF Node
<1>6. /\ \A b \in Attempts : b < a => Closed(b)'
      /\ \A b \in attempt[a].behind : Node(b)' = "safe"
  BY <1>1, <1>3
<1>7. ASSUME NEW b \in call[c].tries
      PROVE  Node(b)' # "unused" /\ (a = b \/ State(b)' \in {"none", "rejected"})
  BY <1>1, <1>2, <1>7 DEF CallFits
<1>8. CallFits(c)'
  BY <1>2, <1>3, <1>4, <1>5, <1>6, <1>7 DEF CallFits, State, Node
<1> QED BY <1>4, <1>8, CallStep

LEMMA CallOnlyStep ==
  ASSUME InOrder, NEW c \in Calls,
         Prompted(c) \/ Leave(c) \/ PayExact(c) \/ Acquire(c) \/ Resubmit(c)
  PROVE  TypeOK' /\ InOrder'
<1>1. Lease /\ External /\ UNCHANGED <<store, faults>>
  BY DEF Prompted, Leave, PayExact, Acquire, Resubmit
<1>2. SameQueue /\ \A a \in Attempts : /\ State(a)' = State(a) /\ Node(a)' = Node(a)
                                       /\ Closed(a)' <=> Closed(a)
  BY <1>1 DEF SameQueue, State, Node, Closed, Lease, External
<1>3. TypeOK
  BY DEF InOrder
<1>4. Alone(c)
  BY <1>3, PromptedMoves, EndsMoves, PayExactMoves, GotoMoves, ResubmitMoves
     DEF Leave, Acquire, PCs
<1>5. TypeOK'
  BY <1>1, <1>3, <1>4 DEF TypeOK, Alone, Lease, External
<1>6. CallFits(c)
  BY DEF InOrder
<1>7. CASE Prompted(c) \/ Leave(c)
  <2>1. call[c].pc \in {"idle", "prompted"}
    BY <1>7 DEF Prompted, Leave, At
  <2>2. call'[c].pc \in {"idle", "prompted"} /\ call'[c].tries = {}
    BY <1>3, <1>7, PromptedMoves, EndsMoves, IdleTyped DEF Leave
  <2>3. ~InHand(c) /\ ~InHand(c)' /\ ~Holder(c)'
    BY <2>1, <2>2 DEF InHand, Holder
  <2>4. CallFits(c)'
    BY <2>2, <2>3 DEF CallFits
  <2> QED BY <1>2, <1>4, <1>5, <2>2, <2>3, <2>4, CallStep
<1>8. CASE PayExact(c)
  <2>1. ~InHand(c)
    BY <1>8 DEF PayExact, At, InHand
  <2>2. call'[c].pc = "sent" /\ call'[c].attempt = Nobody /\ call'[c].tries = call[c].tries
    BY <1>3, <1>8, PayExactMoves
  <2>3. ~InHand(c)' /\ ~Holder(c)'
    BY <2>2 DEF InHand, Holder
  <2>4. \A a \in call[c].tries : Node(a)' # "unused" /\ State(a)' \in {"none", "rejected"}
    BY <1>2, <1>6, <2>1, Hands DEF CallFits
  <2>5. CallFits(c)'
    BY <2>2, <2>3, <2>4 DEF CallFits
  <2> QED BY <1>2, <1>4, <1>5, <2>1, <2>2, <2>5, CallStep
<1>9. CASE Acquire(c)
  <2> DEFINE a == call[c].attempt
             p == attempt[a].previous
  <2>1. call[c].pc = "queued" /\ InHand(c) /\ Before(a, "safe")
    BY <1>9, Hands DEF Acquire, At
  <2>2. a \in Attempts /\ a \in call[c].tries /\ Node(a) = "open"
    BY <2>1, Hands
  <2>3. SameAttempt(c) /\ call'[c].pc = "signing"
    BY <1>3, <1>9, GotoMoves DEF Acquire, PCs
  <2>4. Chained(a) /\ p \in Attempts \cup {Nobody} /\ attempt[a].behind \subseteq Attempts
    BY <1>3, <2>2, QueueTypes DEF InOrder
  <2>5. p # Nobody => p \in Attempts /\ Node(p) = "safe"
    BY <2>1, <2>4 DEF Before, Node
  <2>6. ASSUME NEW b \in Attempts, b < a
        PROVE  Closed(b)
    <3>1. p < b => Closed(b)
      BY <2>2, <2>4, <2>6 DEF Chained
    <3>2. CASE p = Nobody
      BY <3>1, <3>2, AttemptNumbers
    <3>3. CASE p # Nobody
      <4>1. Closed(p) /\ p \in Nat /\ b \in Nat
        BY <2>5, <3>3, AttemptNumbers DEF Closed
      <4>2. b < p => Closed(b)
        BY <2>5, <3>3, <4>1 DEF InOrder, Ordered
      <4> QED BY <3>1, <4>1, <4>2
    <3> QED BY <3>2, <3>3
  <2>7. ASSUME NEW b \in attempt[a].behind
        PROVE  Node(b) = "safe"
    <3>1. p # Nobody /\ (b = p \/ b \in attempt[p].behind)
      BY <2>2, <2>4, <2>7 DEF Chained
    <3>2. \A x \in attempt[p].behind : Node(x) = "safe"
      BY <2>2, <2>4, <2>5, <3>1 DEF Chained
    <3> QED BY <2>5, <3>1, <3>2
  <2>8. State(a) = "none"
    BY <1>6, <2>1 DEF CallFits
  <2>9. \A b \in Attempts : State(b)' = State(b)
    BY <1>2
  <2> HIDE DEF a, p
  <2>10. a = call[c].attempt
    BY DEF a
  <2> QED BY <1>4, <1>2, <1>5, <2>1, <2>2, <2>3, <2>6, <2>7, <2>8, <2>9, <2>10, HolderStep
<1>10. CASE Resubmit(c)
  <2> DEFINE a == call[c].attempt
  <2>1. call[c].pc = "sent" /\ a # Nobody
    BY <1>10 DEF Resubmit, At, Status
  <2>2. InHand(c) /\ Holder(c) /\ a \in Attempts
    BY <2>1, Hands
  <2>3. SameAttempt(c) /\ call'[c].pc = "fetch"
    BY <1>3, <1>10, ResubmitMoves
  <2>4. /\ \A b \in Attempts : b < a => Closed(b)
        /\ \A b \in attempt[a].behind : Node(b) = "safe"
    BY <1>6, <2>2 DEF CallFits
  <2> HIDE DEF a
  <2>5. a = call[c].attempt
    BY DEF a
  <2> QED BY <1>2, <1>4, <1>5, <2>2, <2>3, <2>4, <2>5, HolderStep
<1> QED BY <1>7, <1>8, <1>9, <1>10

LEMMA HolderKnows ==
  ASSUME InOrder, NEW c \in Calls, Holder(c)
  PROVE  /\ call[c].attempt \in Attempts /\ Node(call[c].attempt) = "open" /\ InHand(c)
         /\ \A b \in Attempts : b < call[c].attempt => Closed(b)
         /\ \A b \in attempt[call[c].attempt].behind : Node(b) = "safe"
BY Hands DEF InOrder, CallFits, Holder

LEMMA SignMoves ==
  ASSUME InOrder, NEW c \in Calls, NEW a \in Attempts, a = call[c].attempt, Sign(c)
  PROVE  /\ attempt' \in [Attempts -> Attempt] /\ attempt'[a].pre = store
         /\ attempt'[a].node = attempt[a].node /\ attempt'[a].previous = attempt[a].previous
         /\ attempt'[a].behind = attempt[a].behind
         /\ \A b \in Attempts : b # a => attempt'[b] = attempt[b]
<1> DEFINE ceiling == OrZero(store.charged) + Price
<1>1. PICK deposit \in {0, Deposit} :
        attempt' = [attempt EXCEPT ![a].ceiling = ceiling, ![a].deposit = deposit,
                                   ![a].pre = store]
  BY DEF Sign
<1> DEFINE f == [attempt[a] EXCEPT !.ceiling = ceiling, !.deposit = deposit, !.pre = store]
<1>2. attempt[a] \in Attempt /\ store \in ChannelState(Attempts)
      /\ attempt \in [Attempts -> Attempt]
  BY Known DEF InOrder, TypeOK
<1>3. ceiling \in Nat
  BY <1>2 DEF ChannelState, OrZero, Figures, Absent
<1> HIDE DEF ceiling
<1>4. /\ f \in Attempt /\ f.pre = store /\ f.node = attempt[a].node
      /\ f.previous = attempt[a].previous /\ f.behind = attempt[a].behind
  BY <1>2, <1>3 DEF Attempt
<1>5. attempt' = [attempt EXCEPT ![a] = f]
  BY <1>1
<1> HIDE DEF f
<1> QED BY <1>2, <1>4, <1>5

LEMMA SignStep ==
  ASSUME InOrder, NEW c \in Calls, Sign(c)
  PROVE  TypeOK' /\ InOrder'
<1> DEFINE a == call[c].attempt
<1>1. call[c].pc = "signing" /\ Holder(c) /\ a \in Attempts /\ CallFits(c)
  BY Hands DEF Sign, At, InOrder
<1>2. /\ attempt' \in [Attempts -> Attempt]
      /\ attempt'[a].node = attempt[a].node /\ attempt'[a].previous = attempt[a].previous
      /\ attempt'[a].behind = attempt[a].behind
      /\ \A b \in Attempts : b # a => attempt'[b] = attempt[b]
  BY <1>1, SignMoves
<1>3. Alone(c) /\ SameAttempt(c) /\ call'[c].pc = "signed"
  BY GotoMoves DEF Sign, PCs, InOrder
<1>4. UNCHANGED <<tail, store, faults, voucher, channel>>
  BY DEF Sign, External
<1>5. TypeOK'
  BY <1>2, <1>3, <1>4 DEF TypeOK, InOrder, Alone
<1>6. SameQueue
  BY <1>2, <1>4 DEF SameQueue
<1>7. State(a) = "none" /\ \A b \in Attempts : State(b)' = State(b)
  BY <1>1, <1>4 DEF CallFits, State
<1> HIDE DEF a
<1>8. a = call[c].attempt
  BY DEF a
<1> QED BY <1>1, <1>3, <1>5, <1>6, <1>7, <1>8, HolderKnows, HolderStep

LEMMA SubmitStep ==
  ASSUME InOrder, NEW c \in Calls, Submit(c)
  PROVE  TypeOK' /\ InOrder'
<1>1. call[c].pc = "fetch" /\ Holder(c) /\ call[c].attempt \in Attempts /\ CallFits(c)
  BY Hands DEF Submit, At, InOrder
<1>0. PICK a \in Attempts : a = call[c].attempt
  BY <1>1
<1> DEFINE v == [voucher[a] EXCEPT !.state = IF @ = "none" THEN "sent" ELSE @]
<1>2. voucher' = [voucher EXCEPT ![a] = v] /\ voucher \in [Attempts -> Voucher]
  BY <1>0 DEF Submit, InOrder, TypeOK
<1>3. v \in Voucher /\ v.state # "none"
  <2>1. voucher[a] \in Voucher
    BY <1>1, <1>2
  <2> QED BY <2>1 DEF Voucher
<1>4. Alone(c) /\ SameAttempt(c) /\ call'[c].pc = "sent"
  BY GotoMoves DEF Submit, PCs, InOrder
<1>5. UNCHANGED <<attempt, tail, store, faults, channel>>
  BY DEF Submit, Lease
<1> HIDE DEF v
<1>6. voucher' \in [Attempts -> Voucher] /\ voucher'[a] = v
  BY <1>1, <1>2, <1>3
<1>7. TypeOK'
  BY <1>4, <1>5, <1>6 DEF TypeOK, InOrder, Alone
<1>8. SameQueue
  BY <1>5 DEF SameQueue
<1>9. \A b \in Attempts : b # a => State(b)' = State(b)
  BY <1>1, <1>2 DEF State
<1>11. State(a)' # "none"
  BY <1>3, <1>6 DEF State
<1> QED BY <1>1, <1>4, <1>7, <1>8, <1>9, <1>0, <1>11, HolderKnows, HolderStep

LEMMA SubmittedStep ==
  ASSUME InOrder, NEW c \in Calls, At(c, "signed"), store' = Submitted(call[c].attempt, store),
         Goto(c, "fetch"), Lease, UNCHANGED faults, External
  PROVE  TypeOK' /\ InOrder'
<1> DEFINE a == call[c].attempt
<1>1. call[c].pc = "signed" /\ Holder(c) /\ a \in Attempts /\ CallFits(c)
  BY Hands DEF At, InOrder
<1>2. Alone(c) /\ SameAttempt(c) /\ call'[c].pc = "fetch"
  BY GotoMoves DEF PCs, InOrder
<1>3. TypeOK /\ UNCHANGED <<attempt, tail, voucher, channel, faults>>
  BY DEF Lease, External, InOrder
<1>4. store' \in ChannelState(Attempts)
  BY <1>1, <1>3, Known, RecordTypes
<1>5. TypeOK'
  BY <1>2, <1>3, <1>4 DEF TypeOK, Alone
<1>6. SameQueue /\ \A b \in Attempts : State(b)' = State(b)
  BY <1>3 DEF SameQueue, State
<1> HIDE DEF a
<1>7. a = call[c].attempt
  BY DEF a
<1> QED BY <1>1, <1>2, <1>5, <1>6, <1>7, HolderKnows, HolderStep

LEMMA FaultsTyped ==
  ASSUME InOrder, Fault \/ UNCHANGED faults
  PROVE  faults' \in 0..MaxFaults
<1>1. faults \in 0..MaxFaults /\ MaxFaults \in Nat
  BY DEF InOrder, TypeOK
<1> QED BY <1>1 DEF Fault

LEMMA ReleaseStep ==
  ASSUME InOrder, NEW c \in Calls, NEW a \in Attempts, InHand(c), call[c].attempt = a,
         NEW outcome \in {"safe", "unsafe"}, Unlock(a, outcome),
         Ends(c) \/ (Goto(c, "prompted") /\ State(a) \in {"none", "rejected"}),
         External, store' \in ChannelState(Attempts), Fault \/ UNCHANGED faults,
         \A b \in Attempts : b < a => Closed(b),
         outcome = "safe" => \A b \in attempt[a].behind : Node(b) = "safe"
  PROVE  TypeOK' /\ InOrder'
<1>1. OneNode(a, outcome) /\ tail' = IF tail = a THEN Nobody ELSE tail
  BY UnlockMoves DEF InOrder
<1>2. /\ Alone(c) /\ call'[c].pc \in {"idle", "prompted"}
      /\ call'[c].tries \subseteq call[c].tries
      /\ \A b \in call'[c].tries : State(b) \in {"none", "rejected"}
  <2>1. CASE Ends(c)
    BY <2>1, EndsMoves, IdleTyped DEF InOrder
  <2>2. CASE Goto(c, "prompted") /\ State(a) \in {"none", "rejected"}
    <3>1. Alone(c) /\ SameAttempt(c) /\ call'[c].pc = "prompted"
      BY <2>2, GotoMoves DEF InOrder, PCs
    <3>2. \A b \in call[c].tries : State(b) \in {"none", "rejected"}
      BY <2>2 DEF InOrder, CallFits
    <3> QED BY <3>1, <3>2 DEF SameAttempt
  <2> QED BY <2>1, <2>2
<1>3. TypeOK'
  <2>1. faults' \in 0..MaxFaults
    BY FaultsTyped
  <2>2. tail' \in Attempts \cup {Nobody}
    BY <1>1 DEF InOrder, TypeOK
  <2> QED BY <1>1, <1>2, <2>1, <2>2 DEF TypeOK, InOrder, Alone, OneNode, External
<1>4. voucher' = voucher
  BY DEF External
<1> QED BY <1>1, <1>2, <1>3, <1>4, UnlockStep

LEMMA InheritStep ==
  ASSUME InOrder, NEW c \in Calls, Inherit(c)
  PROVE  TypeOK' /\ InOrder'
<1>1. PICK a \in Attempts : a = call[c].attempt /\ InHand(c) /\ Node(a) = "open"
  BY Hands DEF Inherit, At
<1>2. PICK p \in Attempts : p = attempt[a].previous /\ Node(p) = "unsafe"
  BY <1>1, QueueTypes DEF Inherit, Before, Node, InOrder
<1>3. ASSUME NEW b \in Attempts, b < a
      PROVE  Closed(b)
  <2>1. p < b => Closed(b)
    BY <1>1, <1>2, <1>3 DEF InOrder, Chained
  <2>2. Closed(p) /\ p \in Nat /\ b \in Nat
    BY <1>2, AttemptNumbers DEF Closed
  <2>3. b < p => Closed(b)
    BY <2>2 DEF InOrder, Ordered
  <2> QED BY <2>1, <2>2, <2>3
<1>4. Unlock(a, "unsafe") /\ Ends(c) /\ External /\ UNCHANGED <<store, faults>>
  BY <1>1 DEF Inherit
<1>5. store' \in ChannelState(Attempts)
  BY <1>4 DEF InOrder, TypeOK
<1> QED BY <1>1, <1>3, <1>4, <1>5, ReleaseStep

(* A holder releases the lease, whatever is left on the record. *)
LEMMA HolderReleases ==
  ASSUME InOrder, NEW c \in Calls, Holder(c), NEW outcome \in {"safe", "unsafe"},
         Unlock(call[c].attempt, outcome),
         Ends(c) \/ (Goto(c, "prompted") /\ State(call[c].attempt) \in {"none", "rejected"}),
         External, store' \in ChannelState(Attempts), Fault \/ UNCHANGED faults
  PROVE  TypeOK' /\ InOrder'
<1>1. PICK a \in Attempts : a = call[c].attempt
  BY HolderKnows
<1> QED BY <1>1, HolderKnows, ReleaseStep

LEMMA RecordKept ==
  ASSUME InOrder, NEW a \in Attempts
  PROVE  /\ store \in ChannelState(Attempts)
         /\ Submitted(a, store) \in ChannelState(Attempts)
         /\ Retracted(a, store) \in ChannelState(Attempts)
         /\ Quarantined(a, store) \in ChannelState(Attempts)
         /\ Folded(a, attempt[a], voucher[a], store) \in ChannelState(Attempts)
BY Known, RecordTypes, FoldTypes DEF InOrder

LEMMA SignFailsStep ==
  ASSUME InOrder, NEW c \in Calls, SignFails(c) \/ Abandon(c)
  PROVE  TypeOK' /\ InOrder'
<1>1. Holder(c)
  BY Hands DEF SignFails, Abandon, At
<1>2. Unlock(call[c].attempt, "safe") /\ Ends(c) /\ External /\ UNCHANGED <<store, faults>>
  BY DEF SignFails, Abandon
<1>3. store' \in ChannelState(Attempts)
  BY <1>2 DEF InOrder, TypeOK
<1> QED BY <1>1, <1>2, <1>3, HolderReleases

LEMMA MarkSubmittedStep ==
  ASSUME InOrder, NEW c \in Calls, MarkSubmitted(c)
  PROVE  TypeOK' /\ InOrder'
<1>1. Holder(c) /\ call[c].attempt \in Attempts
  BY Hands DEF MarkSubmitted, At
<1>2. CASE /\ store' = Submitted(call[c].attempt, store) /\ Goto(c, "fetch")
           /\ Lease /\ UNCHANGED faults
  BY <1>2, SubmittedStep DEF MarkSubmitted
<1>3. CASE /\ Fault /\ store' \in {store, Submitted(call[c].attempt, store)}
           /\ Unlock(call[c].attempt, "safe") /\ Ends(c)
  <2>1. store' \in ChannelState(Attempts)
    BY <1>1, <1>3, RecordKept
  <2> QED BY <1>1, <1>3, <2>1, HolderReleases DEF MarkSubmitted
<1> QED BY <1>2, <1>3 DEF MarkSubmitted

LEMMA QuarantineStep ==
  ASSUME InOrder, NEW c \in Calls, Holder(c), External,
         NEW record \in ChannelState(Attempts), Quarantine(c, record)
  PROVE  TypeOK' /\ InOrder'
<1>1. call[c].attempt \in Attempts
  BY Hands DEF Holder
<1>2. store' \in ChannelState(Attempts) /\ (Fault \/ UNCHANGED faults)
  BY <1>1, RecordTypes DEF Quarantine
<1>3. Unlock(call[c].attempt, "unsafe") /\ Ends(c)
  BY DEF Quarantine
<1> QED BY <1>2, <1>3, HolderReleases

LEMMA LostStep ==
  ASSUME InOrder, NEW c \in Calls, Lost(c)
  PROVE  TypeOK' /\ InOrder'
<1>1. CASE call[c].attempt # Nobody
  <2>1. Holder(c) /\ Quarantine(c, store) /\ External
    BY <1>1, Hands DEF Lost, At
  <2> QED BY <2>1, QuarantineStep DEF InOrder, TypeOK
<1>2. CASE call[c].attempt = Nobody
  <2>1. Ends(c) /\ Lease /\ External /\ UNCHANGED <<store, faults>>
    BY <1>2 DEF Lost
  <2>2. Alone(c) /\ call'[c].pc = "idle" /\ call'[c].tries = {} /\ ~InHand(c)
    BY <1>2, <2>1, EndsMoves, IdleTyped DEF InHand, InOrder
  <2>3. TypeOK'
    BY <2>1, <2>2 DEF TypeOK, InOrder, Alone, Lease, External
  <2>4. SameQueue /\ \A a \in Attempts : State(a)' = State(a)
    BY <2>1 DEF SameQueue, State, Lease, External
  <2>5. CallFits(c)'
    BY <2>2 DEF CallFits, InHand, Holder
  <2> QED BY <2>2, <2>3, <2>4, <2>5, CallStep
<1> QED BY <1>1, <1>2

LEMMA PromptedAgainStep ==
  ASSUME InOrder, NEW c \in Calls, PromptedAgain(c)
  PROVE  TypeOK' /\ InOrder'
<1>1. CASE call[c].attempt # Nobody
  <2>1. Holder(c) /\ External /\ call[c].attempt \in Attempts /\ Goto(c, "prompted")
    BY <1>1, Hands DEF PromptedAgain, At
  <2>2. /\ Unlock(call[c].attempt, "safe") /\ (Fault \/ UNCHANGED faults)
        /\ store' \in {store, Retracted(call[c].attempt, store)}
    BY <1>1 DEF PromptedAgain
  <2>3. store' \in ChannelState(Attempts)
    BY <2>1, <2>2, RecordKept
  <2>4. State(call[c].attempt) \in {"none", "rejected"}
    BY <1>1 DEF PromptedAgain, Status, State
  <2> QED BY <2>1, <2>2, <2>3, <2>4, HolderReleases
<1>2. CASE call[c].attempt = Nobody
  <2>1. Goto(c, "prompted") /\ Lease /\ External /\ UNCHANGED <<store, faults>>
    BY <1>2 DEF PromptedAgain
  <2>2. Alone(c) /\ SameAttempt(c) /\ call'[c].pc = "prompted" /\ ~InHand(c) /\ CallFits(c)
    BY <1>2, <2>1, GotoMoves DEF InHand, PCs, InOrder
  <2>3. TypeOK'
    BY <2>1, <2>2 DEF TypeOK, InOrder, Alone, Lease, External
  <2>4. /\ SameQueue
        /\ \A a \in Attempts : State(a)' = State(a) /\ Node(a)' = Node(a)
    BY <2>1 DEF SameQueue, State, Node, Lease, External
  <2>5. ~InHand(c)' /\ ~Holder(c)'
    BY <2>2 DEF InHand, Holder
  <2>6. \A a \in call[c].tries : Node(a)' # "unused" /\ State(a)' \in {"none", "rejected"}
    BY <2>2, <2>4, Hands DEF CallFits
  <2>7. CallFits(c)'
    BY <2>2, <2>5, <2>6 DEF CallFits, SameAttempt
  <2>8. call'[c].tries \subseteq call[c].tries
    BY <2>2 DEF SameAttempt
  <2> QED BY <2>2, <2>3, <2>4, <2>7, <2>8, CallStep
<1> QED BY <1>1, <1>2

LEMMA TornTyped ==
  ASSUME NEW new \in ChannelState(Attempts), NEW old \in ChannelState(Attempts),
         NEW record \in Torn(new, old)
  PROVE  record \in ChannelState(Attempts)
BY DEF Torn, ChannelState

LEMMA ObserveStep ==
  ASSUME InOrder, NEW c \in Calls, Observe(c)
  PROVE  TypeOK' /\ InOrder'
<1>1. Holder(c) /\ External
  <2>1. call[c].attempt # Nobody
    BY DEF Observe, Status
  <2> QED BY <2>1, Hands DEF Observe, At
<1>2. PICK a \in Attempts : a = call[c].attempt
  BY <1>1, HolderKnows
<1> DEFINE folded == Folded(a, attempt[a], voucher[a], store)
<1>3. /\ store \in ChannelState(Attempts) /\ folded \in ChannelState(Attempts)
      /\ \A record \in ChannelState(Attempts) : Quarantined(a, record) \in ChannelState(Attempts)
  BY RecordKept, RecordTypes
<1>4. \/ store' = folded /\ Unlock(a, "safe") /\ Ends(c) /\ UNCHANGED faults
      \/ Quarantine(c, store)
      \/ /\ Fault /\ Unlock(a, "unsafe") /\ Ends(c)
         /\ \E record \in Torn(folded, store) : store' \in {record, Quarantined(a, record)}
  BY <1>2 DEF Observe
<1> HIDE DEF folded
<1>5. CASE store' = folded /\ Unlock(a, "safe") /\ Ends(c) /\ UNCHANGED faults
  BY <1>1, <1>2, <1>3, <1>5, HolderReleases
<1>6. CASE Quarantine(c, store)
  BY <1>1, <1>3, <1>6, QuarantineStep
<1>7. CASE /\ Fault /\ Unlock(a, "unsafe") /\ Ends(c)
           /\ \E record \in Torn(folded, store) : store' \in {record, Quarantined(a, record)}
  <2>1. store' \in ChannelState(Attempts)
    BY <1>3, <1>7, TornTyped
  <2> QED BY <1>1, <1>2, <1>7, <2>1, HolderReleases
<1> QED BY <1>4, <1>5, <1>6, <1>7

LEMMA RejectStep ==
  ASSUME InOrder, NEW a \in Attempts, Reject(a)
  PROVE  /\ TypeOK' /\ InOrder'
         /\ State(a) = "sent" /\ State(a)' = "rejected"
         /\ \A b \in Attempts : b # a => voucher'[b] = voucher[b]
<1>1. /\ UNCHANGED <<call, attempt, tail, store, channel, faults>> /\ State(a) = "sent"
      /\ voucher' = [voucher EXCEPT ![a].state = "rejected"]
  BY DEF Reject, Lease, State
<1>2. voucher \in [Attempts -> Voucher] /\ voucher[a] \in Voucher
  BY DEF InOrder, TypeOK
<1>3. voucher' \in [Attempts -> Voucher]
  BY <1>1, <1>2 DEF Voucher
<1>4. State(a)' = "rejected" /\ \A b \in Attempts : b # a => voucher'[b] = voucher[b]
  BY <1>1, <1>2 DEF State, Voucher
<1>5. TypeOK'
  BY <1>1, <1>3 DEF TypeOK, InOrder
<1>6. \A b \in Attempts : b # a => State(b)' = State(b)
  BY <1>4 DEF State
<1> QED BY <1>1, <1>4, <1>5, <1>6, AnswerStep

LEMMA SettleMoves ==
  ASSUME InOrder, NEW a \in Attempts, Settle(a)
  PROVE  /\ UNCHANGED <<call, attempt, tail, store, faults>> /\ State(a) = "sent"
         /\ voucher' \in [Attempts -> Voucher] /\ State(a)' = "settled"
         /\ channel' \in [charged : Nat, balance : Nat]
         /\ channel' = [charged |-> voucher'[a].cumulative, balance |-> voucher'[a].balance]
         /\ voucher'[a].balance = channel.balance + attempt[a].deposit
         /\ \A b \in Attempts : b # a => voucher'[b] = voucher[b]
<1> DEFINE funds == channel.balance + attempt[a].deposit
<1>1. PICK charge \in Charges :
        /\ channel' = [charged |-> channel.charged + charge, balance |-> funds]
        /\ voucher' = [voucher EXCEPT ![a] =
             [state |-> "settled", cumulative |-> channel.charged + charge, balance |-> funds,
              charge |-> IF charge = Price THEN Absent ELSE charge]]
  BY DEF Settle
<1>2. /\ voucher \in [Attempts -> Voucher] /\ channel \in [charged : Nat, balance : Nat]
      /\ attempt[a] \in Attempt
  BY Known DEF InOrder, TypeOK
<1>3. charge \in Nat /\ channel.charged + charge \in Nat
  BY <1>2
<1>4. funds \in Nat
  BY <1>2 DEF Attempt
<1> HIDE DEF funds
<1>5. [state |-> "settled", cumulative |-> channel.charged + charge, balance |-> funds,
       charge |-> IF charge = Price THEN Absent ELSE charge] \in Voucher
  BY <1>3, <1>4 DEF Voucher, Figures
<1>6. voucher' \in [Attempts -> Voucher] /\ \A b \in Attempts : b # a => voucher'[b] = voucher[b]
  BY <1>1, <1>2, <1>5
<1>7. /\ voucher'[a].state = "settled" /\ voucher'[a].balance = funds
      /\ voucher'[a].cumulative = channel.charged + charge
  BY <1>1, <1>2
<1>8. /\ channel' \in [charged : Nat, balance : Nat]
      /\ channel' = [charged |-> voucher'[a].cumulative, balance |-> voucher'[a].balance]
  BY <1>1, <1>3, <1>4, <1>7
<1> QED BY <1>6, <1>7, <1>8 DEF Settle, Lease, State, funds

LEMMA SettleStep ==
  ASSUME InOrder, NEW a \in Attempts, Settle(a)
  PROVE  TypeOK' /\ InOrder'
<1>1. /\ UNCHANGED <<call, attempt, tail, store, faults>> /\ State(a) = "sent"
      /\ voucher' \in [Attempts -> Voucher] /\ State(a)' = "settled"
      /\ channel' \in [charged : Nat, balance : Nat]
      /\ \A b \in Attempts : b # a => voucher'[b] = voucher[b]
  BY SettleMoves
<1>2. TypeOK'
  BY <1>1 DEF TypeOK, InOrder
<1>3. \A b \in Attempts : b # a => State(b)' = State(b)
  BY <1>1 DEF State
<1> QED BY <1>1, <1>2, <1>3, AnswerStep

LEMMA OperatorStep ==
  ASSUME InOrder, NEW a \in Attempts, Repair(a) \/ ClearByHand(a)
  PROVE  TypeOK' /\ InOrder'
<1>1. UNCHANGED <<call, attempt, tail, voucher, channel, faults>>
  BY DEF Repair, ClearByHand
<1>2. store' \in ChannelState(Attempts)
  <2>1. CASE Repair(a)
    BY <2>1, RecordKept DEF Repair
  <2>2. CASE ClearByHand(a)
    BY <2>2, RecordKept DEF ClearByHand, ChannelState, Kept
  <2> QED BY <2>1, <2>2
<1>3. TypeOK'
  BY <1>1, <1>2 DEF TypeOK, InOrder
<1> QED BY <1>1, <1>3, RecordStep

LEMMA EnqueueTyped ==
  ASSUME InOrder, NEW c \in Calls, Enqueue(c)
  PROVE  TypeOK'
<1>1. PICK a \in Attempts :
        LET u == [Unused EXCEPT !.node = "open", !.previous = tail,
                                !.behind = {b \in Attempts : Node(b) = "open"}] IN
        u \in Attempt /\ attempt' = [attempt EXCEPT ![a] = u] /\ tail' = a /\ Alone(c)
  BY EnqueueMoves DEF InOrder
<1>2. attempt' \in [Attempts -> Attempt]
  BY <1>1 DEF InOrder, TypeOK
<1>3. UNCHANGED <<store, faults, voucher, channel>>
  BY DEF Enqueue, External
<1> QED BY <1>1, <1>2, <1>3 DEF TypeOK, InOrder, Alone

LEMMA OrderInit == Init => InOrder
<1> SUFFICES ASSUME Init PROVE InOrder
  OBVIOUS
<1>1. TypeOK
  <2>1. attempt \in [Attempts -> Attempt]
    BY DEF Init, Unused, Attempt, NoRecord, ChannelState, Figures
  <2>2. call \in [Calls -> Call]
    BY IdleTyped DEF Init
  <2>3. voucher \in [Attempts -> Voucher]
    BY DEF Init, Unsent, Voucher, Figures
  <2>4. store \in ChannelState(Attempts)
    BY DEF Init, NoRecord, ChannelState, Figures
  <2>5. faults \in 0..MaxFaults
    <3>1. MaxFaults \in Nat
      OBVIOUS
    <3> QED BY <3>1 DEF Init
  <2>6. channel \in [charged : Nat, balance : Nat] /\ tail \in Attempts \cup {Nobody}
    BY DEF Init
  <2> QED BY <2>1, <2>2, <2>3, <2>4, <2>5, <2>6 DEF TypeOK
<1>2. \A a \in Attempts : /\ Node(a) = "unused" /\ State(a) = "none" /\ ~Closed(a)
                          /\ attempt[a].previous = Nobody
  BY DEF Init, Unused, Unsent, Node, State, Closed
<1>3. Ordered
  BY <1>2 DEF Ordered, Init
<1>4. \A a \in Attempts : Chained(a)
  <2>1. \A a \in Attempts : Nobody < a
    BY DEF Attempts, Nobody
  <2> QED BY <1>2, <2>1 DEF Chained
<1>5. \A c \in Calls : CallFits(c) /\ call[c].tries = {}
  BY DEF Init, Idle, CallFits, InHand, Holder
<1> QED BY <1>1, <1>2, <1>3, <1>4, <1>5 DEF InOrder, Apart

LEMMA OrderNext ==
  ASSUME InOrder, [Next]_vars
  PROVE  InOrder'
<1>1. CASE UNCHANGED vars
  <2>1. TypeOK'
    BY <1>1 DEF vars, TypeOK, InOrder
  <2> QED BY <1>1, <2>1, RecordStep DEF vars
<1>2. ASSUME NEW c \in Calls, Prompted(c) \/ Proceed(c)
      PROVE  InOrder'
  BY <1>2, CallOnlyStep, EnqueueStep, InheritStep, SignStep, SignFailsStep, MarkSubmittedStep,
     SubmitStep, LostStep, PromptedAgainStep, ObserveStep, EnqueueTyped DEF Proceed
<1>3. ASSUME NEW a \in Attempts, Reject(a) \/ Settle(a) \/ Repair(a) \/ ClearByHand(a)
      PROVE  InOrder'
  BY <1>3, RejectStep, SettleStep, OperatorStep
<1>4. CASE Crash
  BY <1>4, CrashStep
<1> QED BY <1>1, <1>2, <1>3, <1>4 DEF Next

(* Whatever calls do, throw or lose, attempts leave the queue in the order they  *)
(* came in, one holder at a time, and every open node is some call's.           *)
THEOREM InOrderInv == Spec => []InOrder
BY OrderInit, OrderNext, PTL DEF Spec

(* The variables of the batch client always hold what BatchChannel says.        *)
THEOREM TypeCorrect == Spec => []TypeOK
BY InOrderInv, PTL DEF InOrder
-----------------------------------------------------------------------------
(* What the record and the vouchers make of a step. *)

SameBindings == \A a \in Attempts : /\ attempt'[a].ceiling = attempt[a].ceiling
                                    /\ attempt'[a].deposit = attempt[a].deposit
                                    /\ attempt'[a].pre = attempt[a].pre

LEMMA OneHolder ==
  ASSUME InOrder, NEW c \in Calls, NEW d \in Calls, Holder(c), Holder(d)
  PROVE  c = d
<1> SUFFICES ASSUME c # d PROVE FALSE
  OBVIOUS
<1>1. PICK a \in Attempts : a = call[c].attempt /\ a \in call[c].tries
  BY Hands DEF Holder
<1>2. PICK b \in Attempts : b = call[d].attempt /\ b \in call[d].tries
  BY Hands DEF Holder
<1>3. a # b
  BY <1>1, <1>2 DEF InOrder, Apart
<1>4. /\ Node(a) = "open" /\ (b < a => Closed(b))
      /\ Node(b) = "open" /\ (a < b => Closed(a))
  BY <1>1, <1>2, HolderKnows
<1>5. a \in Nat /\ b \in Nat
  BY AttemptNumbers
<1> QED BY <1>3, <1>4, <1>5 DEF Closed

LEMMA OneRisk ==
  ASSUME Guarded, NEW a \in Attempts, NEW b \in Attempts, AtRisk(a), AtRisk(b)
  PROVE  a = b
BY AttemptNumbers DEF Guarded

LEMMA RecordNumbers ==
  ASSUME TypeOK
  PROVE  /\ store.applied \in Attempts \cup {Nobody} /\ store.applied \in Nat
         /\ store.pending \in Attempts \cup {Nobody} /\ store.marker \in Attempts \cup {Nobody}
<1>1. /\ store.applied \in Attempts \cup {Nobody}
      /\ store.pending \in Attempts \cup {Nobody} /\ store.marker \in Attempts \cup {Nobody}
  BY DEF TypeOK, ChannelState
<1>2. store.applied \in Nat
  <2>1. CASE store.applied \in Attempts
    BY <2>1, AttemptNumbers
  <2>2. CASE store.applied = Nobody
    BY <2>2, AttemptNumbers
  <2> QED BY <1>1, <2>1, <2>2
<1> QED BY <1>1, <1>2

(* What was folded is older than whoever holds the lease with nothing sent.     *)
LEMMA AppliedBefore ==
  ASSUME InOrder, Guarded, NEW c \in Calls, Holder(c), State(call[c].attempt) = "none"
  PROVE  store.applied < call[c].attempt
<1>1. PICK a \in Attempts : a = call[c].attempt /\ Node(a) = "open" /\ a \in Nat
  BY HolderKnows, AttemptNumbers
<1>2. CASE store.applied = Nobody
  BY <1>1, <1>2 DEF Attempts, Nobody
<1>3. CASE store.applied # Nobody
  <2>1. PICK b \in Attempts : b = store.applied /\ State(b) = "settled" /\ b \in Nat
    BY <1>3, RecordNumbers, AttemptNumbers DEF Guarded, InOrder
  <2>2. b # a /\ Node(b) # "unused"
    BY <1>1, <2>1 DEF InOrder
  <2>3. Closed(b) \/ Node(b) = "open"
    BY <2>2, QueueTypes DEF Closed, InOrder
  <2>4. ~(a < b)
    <3>1. CASE Closed(b)
      BY <1>1, <3>1 DEF Closed, InOrder, Ordered
    <3>2. CASE Node(b) = "open"
      <4>1. PICK d \in Calls : InHand(d) /\ call[d].attempt = b
        BY <3>2 DEF InOrder
      <4>2. call[d].pc # "queued"
        BY <2>1, <4>1 DEF InOrder, CallFits
      <4>3. Holder(d)
        BY <4>1, <4>2, Hands
      <4> QED BY <1>1, <2>2, <4>1, <4>3, OneHolder
    <3> QED BY <2>3, <3>1, <3>2
  <2> QED BY <1>1, <2>1, <2>2, <2>4
<1> QED BY <1>2, <1>3

(* A write of the record that folds nothing. *)
LEMMA RecordWrite ==
  ASSUME TypeOK, Guarded, Figured, UNCHANGED <<voucher, channel>>, SameBindings,
         store'.applied = store.applied,
         \/ store'.charged = store.charged /\ store'.balance = store.balance
         \/ \E a \in Attempts : Unsettled(a),
         store'.pending = Nobody \/ store'.marker = Nobody,
         \A a \in Attempts : AtRisk(a) => a \in {store'.pending, store'.marker},
         store'.marker # Nobody => State(store'.marker) # "none"
  PROVE  Guarded' /\ Figured'
<1>1. \A a \in Attempts : /\ State(a)' = State(a) /\ AtRisk(a)' = AtRisk(a)
                          /\ Unsettled(a)' = Unsettled(a)
  BY DEF State, AtRisk, Unsettled
<1>2. Guarded'
  <2>1. store'.applied # Nobody => voucher'[store'.applied].state = "settled"
    BY DEF Guarded, State
  <2>2. store'.marker # Nobody => voucher'[store'.marker].state # "none"
    BY DEF State
  <2> QED BY <1>1, <2>1, <2>2 DEF Guarded, State
<1>3. \A a \in Attempts : /\ attempt'[a].pre = attempt[a].pre /\ Base(attempt[a])' = Base(attempt[a])
                          /\ Floor(attempt[a])' = Floor(attempt[a])
  BY DEF SameBindings, Base, Floor
<1>4. (\A a \in Attempts : ~Unsettled(a)) =>
         /\ OrZero(store'.charged) = channel.charged /\ OrZero(store'.balance) = channel.balance
         /\ store'.applied # Nobody =>
              channel = [charged |-> voucher[store'.applied].cumulative,
                         balance |-> voucher[store'.applied].balance]
  BY DEF Figured
<1> QED BY <1>1, <1>2, <1>3, <1>4 DEF Figured

LEMMA SafeBehindKept ==
  ASSUME SafeBehind,
         \A a \in Attempts : Node(a)' = "open" =>
           /\ Node(a) = "open" /\ attempt'[a].behind = attempt[a].behind
           /\ attempt[a].behind \subseteq Attempts,
         \A b \in Attempts : Node(b)' = "safe" /\ AtRisk(b)' => Node(b) = "safe" /\ AtRisk(b)
  PROVE  SafeBehind'
BY DEF SafeBehind

LEMMA OthersLeased ==
  ASSUME InOrder, NEW c \in Calls, NEW d \in Calls, d # c, Alone(c), Leased(d),
         \/ Holder(c)
         \/ /\ store' = store
            /\ \A a \in Attempts : Node(a) = "open" => attempt'[a].pre = attempt[a].pre
  PROVE  Leased(d)'
<1>1. call'[d] = call[d]
  BY DEF Alone
<1>2. CASE Holder(d)
  <2>1. ~Holder(c)
    BY <1>2, OneHolder
  <2>2. attempt'[call[d].attempt].pre = attempt[call[d].attempt].pre /\ store' = store
    BY <1>2, <2>1, HolderKnows
  <2> QED BY <1>1, <2>2 DEF Leased
<1>3. CASE ~Holder(d)
  <2>1. /\ call[d].pc # "signed"
        /\ ~(call[d].pc \in {"fetch", "sent"} /\ call[d].attempt # Nobody)
    BY <1>3, Hands
  <2> QED BY <1>1, <2>1 DEF Leased
<1> QED BY <1>2, <1>3

(* A call that holds no lease has nothing to keep of the record. *)
LEMMA NoLeaseLeased ==
  ASSUME NEW c \in Calls,
         call'[c].pc \in {"idle", "prompted", "queued", "signing"}
           \/ (call'[c].pc = "sent" /\ call'[c].attempt = Nobody)
  PROVE  Leased(c)'
BY DEF Leased

LEMMA QuietCall ==
  ASSUME InOrder, Accounted, NEW c \in Calls, Alone(c),
         UNCHANGED <<attempt, store, voucher, channel>>, Leased(c)'
  PROVE  Accounted'
<1>1. Guarded' /\ Figured'
  <2>1. SameBindings
    BY DEF SameBindings
  <2> QED BY <2>1, RecordWrite DEF Accounted, InOrder, Guarded
<1>2. SafeBehind'
  <2>1. \A a \in Attempts : attempt[a].behind \subseteq Attempts
    BY QueueTypes DEF InOrder
  <2>2. \A a \in Attempts : Node(a)' = Node(a) /\ AtRisk(a)' = AtRisk(a)
    BY DEF Node, AtRisk
  <2> QED BY <2>1, <2>2, SafeBehindKept DEF Accounted
<1>3. \A d \in Calls : Leased(d)'
  BY OthersLeased DEF Accounted
<1> QED BY <1>1, <1>2, <1>3 DEF Accounted

LEMMA CallOnlyAccounts ==
  ASSUME InOrder, Accounted, NEW c \in Calls,
         Prompted(c) \/ Leave(c) \/ PayExact(c) \/ Acquire(c) \/ Resubmit(c)
  PROVE  Accounted'
<1>1. UNCHANGED <<attempt, store, voucher, channel>>
  BY DEF Prompted, Leave, PayExact, Acquire, Resubmit, Lease, External
<1>2. CASE Prompted(c) \/ Leave(c) \/ PayExact(c) \/ Acquire(c)
  <2>1. /\ Alone(c)
        /\ \/ call'[c].pc \in {"idle", "prompted", "queued", "signing"}
           \/ call'[c].pc = "sent" /\ call'[c].attempt = Nobody
    BY <1>2, PromptedMoves, EndsMoves, IdleTyped, PayExactMoves, GotoMoves
       DEF Leave, Acquire, PCs, InOrder
  <2> QED BY <1>1, <2>1, NoLeaseLeased, QuietCall
<1>3. CASE Resubmit(c)
  <2>1. Alone(c) /\ SameAttempt(c) /\ call'[c].pc = "fetch" /\ call[c].pc = "sent"
    BY <1>3, ResubmitMoves DEF InOrder, Resubmit, At
  <2>2. Leased(c)
    BY DEF Accounted
  <2>3. Leased(c)'
    BY <1>1, <2>1, <2>2 DEF Leased, SameAttempt
  <2> QED BY <1>1, <2>1, <2>3, QuietCall
<1> QED BY <1>2, <1>3

LEMMA EnqueueAccounts ==
  ASSUME InOrder, Accounted, NEW c \in Calls, Enqueue(c)
  PROVE  Accounted'
<1>1. PICK a \in Attempts :
        LET u == [Unused EXCEPT !.node = "open", !.previous = tail,
                                !.behind = {b \in Attempts : Node(b) = "open"}] IN
        /\ Node(a) = "unused" /\ \A b \in Attempts : b < a => Node(b) # "unused"
        /\ u \in Attempt /\ attempt' = [attempt EXCEPT ![a] = u] /\ tail' = a
        /\ Alone(c) /\ call'[c].pc = "queued" /\ call'[c].attempt = a
        /\ call'[c].tries = call[c].tries \cup {a}
  BY EnqueueMoves DEF InOrder
<1>2. /\ attempt'[a].node = "open" /\ attempt'[a].pre.applied = Nobody
      /\ attempt'[a].behind = {b \in Attempts : Node(b) = "open"}
      /\ \A b \in Attempts : b # a => attempt'[b] = attempt[b]
  BY <1>1 DEF Unused, NoRecord, InOrder, TypeOK
<1>3. UNCHANGED <<store, voucher, channel>>
  BY DEF Enqueue, External
<1>4. \A b \in Attempts : /\ State(b)' = State(b) /\ AtRisk(b)' = AtRisk(b)
                          /\ Unsettled(b)' = Unsettled(b)
  BY <1>3 DEF State, AtRisk, Unsettled
<1>5. Guarded'
  BY <1>3, <1>4 DEF Guarded, Accounted, State
<1>6. Figured'
  <2>1. Figured
    BY DEF Accounted
  <2>2. \A b \in Attempts : attempt'[b].pre.applied < b
    <3>1. Nobody < a
      BY DEF Attempts, Nobody
    <3> QED BY <1>2, <2>1, <3>1 DEF Figured
  <2>3. State(a)' = "none"
    BY <1>1, <1>4 DEF InOrder
  <2>4. \A b \in Attempts : b # a =>
          Base(attempt[b])' = Base(attempt[b]) /\ Floor(attempt[b])' = Floor(attempt[b])
    BY <1>2 DEF Base, Floor
  <2>5. \A b \in Attempts : State(b)' = "sent" =>
          /\ b > store'.applied
          /\ Base(attempt[b])' = channel'.charged
          /\ OrZero(attempt'[b].pre.balance) = channel'.balance
    BY <1>2, <1>3, <1>4, <2>1, <2>3, <2>4 DEF Figured
  <2>6. \A b \in Attempts : State(b)' = "settled" => voucher'[b].balance = Floor(attempt[b])'
    BY <1>3, <1>4, <2>1, <2>3, <2>4 DEF Figured
  <2> QED BY <1>3, <1>4, <2>1, <2>2, <2>5, <2>6 DEF Figured
<1>7. SafeBehind'
  <2> SUFFICES ASSUME NEW x \in Attempts, Node(x)' = "open",
                      NEW b \in attempt'[x].behind, Node(b)' = "safe"
               PROVE  ~AtRisk(b)'
    BY DEF SafeBehind
  <2>1. CASE x = a
    BY <1>2, <2>1 DEF Node
  <2>2. CASE x # a
    <3>1. Node(x) = "open" /\ b \in attempt[x].behind /\ b \in Attempts
      BY <1>2, <2>2, QueueTypes DEF Node, InOrder
    <3>2. Node(b) = "safe"
      BY <1>2, <3>1 DEF Node
    <3> QED BY <1>4, <3>1, <3>2 DEF SafeBehind, Accounted
  <2> QED BY <2>1, <2>2
<1>8. \A d \in Calls : Leased(d)'
  <2>1. \A b \in Attempts : Node(b) = "open" => attempt'[b].pre = attempt[b].pre
    BY <1>1, <1>2
  <2>2. Leased(c)'
    BY <1>1, NoLeaseLeased
  <2> QED BY <1>1, <1>3, <2>1, <2>2, OthersLeased DEF Accounted
<1> QED BY <1>5, <1>6, <1>7, <1>8 DEF Accounted

LEMMA CrashAccounts ==
  ASSUME InOrder, Accounted, Crash
  PROVE  Accounted'
<1>1. /\ call' = [c \in Calls |-> Idle] /\ UNCHANGED <<store, voucher, channel>>
      /\ attempt' = [a \in Attempts |-> [attempt[a] EXCEPT
                       !.node = IF @ = "open" THEN "safe" ELSE @]]
  BY DEF Crash
<1>2. ASSUME NEW a \in Attempts
      PROVE  /\ Node(a)' # "open" /\ attempt'[a].ceiling = attempt[a].ceiling
             /\ attempt'[a].deposit = attempt[a].deposit /\ attempt'[a].pre = attempt[a].pre
  <2>1. attempt[a] \in Attempt
    BY Known DEF InOrder
  <2> QED BY <1>1, <2>1 DEF Attempt, Node
<1>3. SameBindings
  BY <1>2 DEF SameBindings
<1>4. Guarded' /\ Figured'
  BY <1>1, <1>3, RecordWrite DEF Accounted, InOrder, Guarded
<1>5. \A c \in Calls : Leased(c)'
  BY <1>1, IdleTyped, NoLeaseLeased
<1> QED BY <1>2, <1>4, <1>5 DEF Accounted, SafeBehind

(* Whoever releases the lease safely leaves nothing at risk. *)
LEMMA ReleaseAccounts ==
  ASSUME InOrder, Accounted, NEW c \in Calls, NEW a \in Attempts, InHand(c), call[c].attempt = a,
         NEW outcome \in {"safe", "unsafe"}, Unlock(a, outcome), Ends(c) \/ Goto(c, "prompted"),
         Holder(c) \/ store' = store,
         Guarded', Figured', \A b \in Attempts : AtRisk(b)' => AtRisk(b),
         outcome = "safe" => ~AtRisk(a)'
  PROVE  Accounted'
<1>1. OneNode(a, outcome)
  BY UnlockMoves DEF InOrder
<1>2. Alone(c) /\ call'[c].pc \in {"idle", "prompted"}
  BY EndsMoves, GotoMoves, IdleTyped DEF InOrder, PCs
<1>3. SafeBehind'
  <2>1. \A b \in Attempts : Node(b)' = "open" =>
          /\ Node(b) = "open" /\ attempt'[b].behind = attempt[b].behind
          /\ attempt[b].behind \subseteq Attempts
    BY <1>1, QueueTypes DEF OneNode, Node, InOrder
  <2>2. \A b \in Attempts : Node(b)' = "safe" /\ AtRisk(b)' => Node(b) = "safe" /\ AtRisk(b)
    BY <1>1 DEF OneNode, Node
  <2> QED BY <2>1, <2>2, SafeBehindKept DEF Accounted
<1>4. \A b \in Attempts : attempt'[b].pre = attempt[b].pre
  BY <1>1 DEF OneNode
<1>5. \A d \in Calls : Leased(d)'
  BY <1>2, <1>4, NoLeaseLeased, OthersLeased DEF Accounted
<1> QED BY <1>3, <1>5 DEF Accounted

(* ... and one that only marks or unmarks its attempt on the record.            *)
LEMMA ReleaseWrites ==
  ASSUME InOrder, Accounted, NEW c \in Calls, NEW a \in Attempts, InHand(c), call[c].attempt = a,
         NEW outcome \in {"safe", "unsafe"}, Unlock(a, outcome), Ends(c) \/ Goto(c, "prompted"),
         Holder(c) \/ store' = store, External, store'.applied = store.applied,
         \/ store'.charged = store.charged /\ store'.balance = store.balance
         \/ \E b \in Attempts : Unsettled(b),
         store'.pending = Nobody \/ store'.marker = Nobody,
         \A b \in Attempts : AtRisk(b) => b \in {store'.pending, store'.marker},
         store'.marker # Nobody => State(store'.marker) # "none",
         outcome = "safe" => ~AtRisk(a)
  PROVE  Accounted'
<1>1. OneNode(a, outcome)
  BY UnlockMoves DEF InOrder
<1>2. SameBindings
  BY <1>1 DEF SameBindings, OneNode
<1>3. Guarded' /\ Figured'
  BY <1>2, RecordWrite DEF Accounted, InOrder, External
<1>4. \A b \in Attempts : AtRisk(b)' = AtRisk(b)
  BY DEF AtRisk, External
<1> QED BY <1>3, <1>4, ReleaseAccounts

LEMMA QuietReleaseAccounts ==
  ASSUME InOrder, Accounted, NEW c \in Calls, Inherit(c) \/ SignFails(c) \/ Abandon(c)
  PROVE  Accounted'
<1>1. PICK a \in Attempts : a = call[c].attempt /\ InHand(c) /\ State(a) = "none"
  <2>1. InHand(c) /\ State(call[c].attempt) = "none" /\ call[c].attempt \in Attempts
    BY Hands DEF Inherit, SignFails, Abandon, At, InOrder, CallFits
  <2> QED BY <2>1
<1>2. PICK outcome \in {"safe", "unsafe"} : Unlock(a, outcome) /\ Ends(c)
  BY <1>1 DEF Inherit, SignFails, Abandon
<1>3. store' = store /\ External
  BY DEF Inherit, SignFails, Abandon
<1>4. ~AtRisk(a)
  BY <1>1 DEF AtRisk, State
<1> QED BY <1>1, <1>2, <1>3, <1>4, ReleaseWrites DEF Accounted, Guarded

LEMMA SignAccounts ==
  ASSUME InOrder, Accounted, NEW c \in Calls, Sign(c)
  PROVE  Accounted'
<1>1. call[c].pc = "signing" /\ Holder(c) /\ CallFits(c)
  BY Hands DEF Sign, At, InOrder
<1>2. PICK a \in Attempts : a = call[c].attempt /\ State(a) = "none"
  BY <1>1, HolderKnows DEF CallFits
<1>3. /\ attempt'[a].pre = store
      /\ attempt'[a].node = attempt[a].node /\ attempt'[a].behind = attempt[a].behind
      /\ \A b \in Attempts : b # a => attempt'[b] = attempt[b]
  BY <1>2, SignMoves
<1>4. UNCHANGED <<store, voucher, channel>> /\ ~Blocked(store)
  BY DEF Sign, External
<1>5. Alone(c) /\ SameAttempt(c) /\ call'[c].pc = "signed"
  BY GotoMoves DEF Sign, PCs, InOrder
<1>6. \A b \in Attempts : /\ State(b)' = State(b) /\ AtRisk(b)' = AtRisk(b)
                          /\ Unsettled(b)' = Unsettled(b)
                          /\ Node(b)' = Node(b) /\ attempt'[b].behind = attempt[b].behind
  BY <1>3, <1>4 DEF State, AtRisk, Unsettled, Node
<1>7. Guarded'
  BY <1>4, <1>6 DEF Guarded, Accounted, State
<1>8. Figured'
  <2>1. Figured /\ store.applied < a
    BY <1>1, <1>2, AppliedBefore DEF Accounted
  <2>2. \A b \in Attempts : attempt'[b].pre.applied < b
    BY <1>3, <2>1 DEF Figured
  <2>3. \A b \in Attempts : b # a =>
          Base(attempt[b])' = Base(attempt[b]) /\ Floor(attempt[b])' = Floor(attempt[b])
    BY <1>3 DEF Base, Floor
  <2>4. \A b \in Attempts : State(b)' = "sent" =>
          /\ b > store'.applied
          /\ Base(attempt[b])' = channel'.charged
          /\ OrZero(attempt'[b].pre.balance) = channel'.balance
    BY <1>2, <1>3, <1>4, <1>6, <2>1, <2>3 DEF Figured
  <2>5. \A b \in Attempts : State(b)' = "settled" => voucher'[b].balance = Floor(attempt[b])'
    BY <1>2, <1>4, <1>6, <2>1, <2>3 DEF Figured
  <2> QED BY <1>4, <1>6, <2>1, <2>2, <2>4, <2>5 DEF Figured
<1>9. SafeBehind'
  BY <1>6, SafeBehindKept, QueueTypes DEF Accounted, InOrder
<1>10. \A d \in Calls : Leased(d)'
  <2>1. Leased(c)'
    BY <1>2, <1>3, <1>4, <1>5 DEF Leased, SameAttempt
  <2> QED BY <1>1, <1>5, <2>1, OthersLeased DEF Accounted
<1> QED BY <1>7, <1>8, <1>9, <1>10 DEF Accounted

LEMMA NothingAtRisk ==
  ASSUME InOrder, Guarded, ~Blocked(store)
  PROVE  \A a \in Attempts : ~AtRisk(a) /\ ~Unsettled(a)
BY AttemptNumbers DEF Guarded, Blocked, Unsettled, AtRisk, State

LEMMA MarkSubmittedAccounts ==
  ASSUME InOrder, Accounted, NEW c \in Calls, MarkSubmitted(c)
  PROVE  Accounted'
<1>1. call[c].pc = "signed" /\ Holder(c) /\ CallFits(c) /\ Leased(c)
  BY Hands DEF MarkSubmitted, At, InOrder, Accounted
<1>2. PICK a \in Attempts : a = call[c].attempt /\ State(a) = "none"
  BY <1>1, HolderKnows DEF CallFits
<1>3. store = attempt[a].pre /\ ~Blocked(store) /\ External
  BY <1>1, <1>2 DEF Leased, MarkSubmitted
<1>4. \A b \in Attempts : ~AtRisk(b)
  BY <1>3, NothingAtRisk DEF Accounted
<1>5. \A record \in {store, Submitted(a, store)} :
        /\ record.charged = store.charged /\ record.balance = store.balance
        /\ record.applied = store.applied /\ record.marker = Nobody
  BY <1>3, RecordKept DEF Submitted, Blocked, ChannelState
<1>6. CASE /\ store' = Submitted(a, store) /\ Goto(c, "fetch") /\ Lease /\ UNCHANGED faults
  <2>1. attempt' = attempt /\ SameBindings
    BY <1>6 DEF Lease, SameBindings
  <2>2. Guarded' /\ Figured'
    BY <1>3, <1>4, <1>5, <1>6, <2>1, RecordWrite DEF Accounted, InOrder, External
  <2>3. \A b \in Attempts : /\ AtRisk(b)' = AtRisk(b) /\ Node(b)' = Node(b)
                            /\ attempt'[b].behind = attempt[b].behind
    BY <1>3, <1>5, <1>6, <2>1 DEF AtRisk, Node, External
  <2>4. SafeBehind'
    BY <2>3, SafeBehindKept, QueueTypes DEF Accounted, InOrder
  <2>5. Alone(c) /\ SameAttempt(c) /\ call'[c].pc = "fetch"
    BY <1>6, GotoMoves DEF PCs, InOrder
  <2>6. Leased(c)'
    BY <1>2, <1>3, <1>6, <2>1, <2>5 DEF Leased, SameAttempt
  <2>7. \A d \in Calls : Leased(d)'
    BY <1>1, <2>5, <2>6, OthersLeased DEF Accounted
  <2> QED BY <2>2, <2>4, <2>7 DEF Accounted
<1>7. CASE /\ Fault /\ store' \in {store, Submitted(a, store)}
           /\ Unlock(a, "safe") /\ Ends(c)
  BY <1>1, <1>2, <1>3, <1>4, <1>5, <1>7, ReleaseWrites, HolderKnows
<1> QED BY <1>2, <1>6, <1>7 DEF MarkSubmitted

LEMMA SubmitAccounts ==
  ASSUME InOrder, Accounted, NEW c \in Calls, Submit(c)
  PROVE  Accounted'
<1>1. call[c].pc = "fetch" /\ Holder(c) /\ Leased(c)
  BY Hands DEF Submit, At, Accounted
<1>2. PICK a \in Attempts : a = call[c].attempt /\ Node(a) = "open"
  BY <1>1, HolderKnows
<1>3. /\ store = Submitted(a, attempt[a].pre) /\ ~Blocked(attempt[a].pre)
      /\ attempt[a].pre \in ChannelState(Attempts)
  BY <1>1, <1>2, Known, AttemptNumbers DEF Leased, InOrder, Attempt
<1>4. /\ store.pending = a /\ store.marker = Nobody /\ store.applied = attempt[a].pre.applied
      /\ store.charged = attempt[a].pre.charged /\ store.balance = attempt[a].pre.balance
  BY <1>3 DEF Submitted, Blocked, ChannelState
<1>5. /\ UNCHANGED <<attempt, tail, store, channel>> /\ voucher \in [Attempts -> Voucher]
      /\ voucher' = [voucher EXCEPT ![a].state = IF @ = "none" THEN "sent" ELSE @]
  BY <1>2 DEF Submit, Lease, InOrder, TypeOK
<1>6. /\ \A b \in Attempts : b # a => voucher'[b] = voucher[b]
      /\ State(a)' = IF State(a) = "none" THEN "sent" ELSE State(a)
      /\ voucher'[a].balance = voucher[a].balance
      /\ voucher'[a].cumulative = voucher[a].cumulative
  <2>1. voucher[a] \in Voucher
    BY <1>5
  <2> QED BY <1>5, <2>1 DEF Voucher, State
<1>7. Alone(c) /\ SameAttempt(c) /\ call'[c].pc = "sent"
  BY GotoMoves DEF Submit, PCs, InOrder
<1>8. \A b \in Attempts : /\ Unsettled(b)' = Unsettled(b)
                          /\ AtRisk(b)' => AtRisk(b) \/ b = a
                          /\ State(b) = "settled" <=> State(b)' = "settled"
                          /\ State(b)' = "sent" => State(b) = "sent" \/ (b = a /\ State(a) = "none")
  BY <1>5, <1>6 DEF Unsettled, AtRisk, State
<1>9. Guarded'
  <2>1. \A b \in Attempts : AtRisk(b)' => b \in {store.pending, store.marker}
    BY <1>4, <1>8 DEF Guarded, Accounted
  <2>2. store.applied # Nobody => State(store.applied)' = "settled"
    <3>1. store.applied # Nobody => store.applied \in Attempts
      BY RecordNumbers DEF InOrder
    <3>2. store.applied # Nobody => State(store.applied) = "settled"
      BY DEF Accounted, Guarded
    <3> QED BY <1>5, <1>8, <3>1, <3>2 DEF State
  <2> QED BY <1>4, <1>5, <2>1, <2>2 DEF Guarded, State
<1>10. Figured'
  <2>1. Figured /\ store.applied \in Attempts \cup {Nobody}
    BY RecordNumbers DEF Accounted, InOrder
  <2>2. State(a) = "none" =>
          /\ a > store.applied
          /\ Base(attempt[a]) = channel.charged /\ OrZero(attempt[a].pre.balance) = channel.balance
    <3> SUFFICES ASSUME State(a) = "none"
                 PROVE  /\ a > store.applied /\ Base(attempt[a]) = channel.charged
                        /\ OrZero(attempt[a].pre.balance) = channel.balance
      OBVIOUS
    <3>1. store.applied < a
      BY <1>1, <1>2, AppliedBefore DEF Accounted
    <3>2. \A b \in Attempts : ~Unsettled(b)
      BY <1>4, AttemptNumbers DEF Unsettled, Accounted, Guarded, AtRisk, State
    <3>3. a > store.applied
      <4>1. a \in Nat /\ store.applied \in Nat
        BY RecordNumbers, AttemptNumbers DEF InOrder
      <4> QED BY <3>1, <4>1
    <3> QED BY <1>4, <2>1, <3>2, <3>3 DEF Figured, Base
  <2>3. \A b \in Attempts : State(b)' = "sent" =>
          /\ b > store'.applied
          /\ Base(attempt[b])' = channel'.charged
          /\ OrZero(attempt'[b].pre.balance) = channel'.balance
    BY <1>5, <1>8, <2>1, <2>2 DEF Figured, Base
  <2>4. \A b \in Attempts : voucher'[b].balance = voucher[b].balance
                            /\ voucher'[b].cumulative = voucher[b].cumulative
    BY <1>6
  <2>5. \A b \in Attempts : State(b)' = "settled" => voucher'[b].balance = Floor(attempt[b])'
    BY <1>5, <1>8, <2>1, <2>4 DEF Figured, Floor
  <2>6. \A b \in Attempts : Unsettled(b)' =>
          channel' = [charged |-> voucher'[b].cumulative, balance |-> voucher'[b].balance]
    BY <1>5, <1>8, <2>1, <2>4 DEF Figured
  <2>7. (\A b \in Attempts : ~Unsettled(b)') =>
       /\ OrZero(store'.charged) = channel'.charged /\ OrZero(store'.balance) = channel'.balance
       /\ store'.applied # Nobody =>
            channel' = [charged |-> voucher'[store'.applied].cumulative,
                        balance |-> voucher'[store'.applied].balance]
    BY <1>5, <1>8, <2>1, <2>4 DEF Figured
  <2> QED BY <1>5, <2>1, <2>3, <2>5, <2>6, <2>7 DEF Figured
<1>11. SafeBehind'
  <2>1. \A b \in Attempts : /\ Node(b)' = Node(b) /\ attempt'[b].behind = attempt[b].behind
                            /\ attempt[b].behind \subseteq Attempts
    BY <1>5, QueueTypes DEF Node, InOrder
  <2>2. \A b \in Attempts : Node(b)' = "safe" /\ AtRisk(b)' => Node(b) = "safe" /\ AtRisk(b)
    BY <1>2, <1>8, <2>1
  <2> QED BY <2>1, <2>2, SafeBehindKept DEF Accounted
<1>12. \A d \in Calls : Leased(d)'
  <2>1. Leased(c)'
    BY <1>1, <1>5, <1>7 DEF Leased, SameAttempt
  <2> QED BY <1>1, <1>7, <2>1, OthersLeased DEF Accounted
<1> QED BY <1>9, <1>10, <1>11, <1>12 DEF Accounted

(* What a call that submitted knows of the record. *)
LEMMA SentKnows ==
  ASSUME InOrder, Accounted, NEW c \in Calls, call[c].pc = "sent", call[c].attempt # Nobody
  PROVE  \E a \in Attempts :
           /\ a = call[c].attempt /\ Holder(c) /\ InHand(c) /\ State(a) # "none"
           /\ store.pending = a /\ store.marker = Nobody /\ store.applied < a
           /\ store.applied = attempt[a].pre.applied
           /\ \A b \in Attempts : AtRisk(b) => b = a
           /\ State(a) = "settled" => Unsettled(a)
<1>1. PICK a \in Attempts : a = call[c].attempt
  BY Hands
<1>2. Holder(c) /\ InHand(c) /\ CallFits(c) /\ Leased(c)
  BY Hands DEF InOrder, Accounted
<1>3. State(a) # "none"
  BY <1>1, <1>2 DEF CallFits
<1>4. /\ store = Submitted(a, attempt[a].pre) /\ ~Blocked(attempt[a].pre)
      /\ attempt[a].pre \in ChannelState(Attempts) /\ attempt[a].pre.applied < a
  BY <1>1, <1>2, Known DEF Leased, InOrder, Attempt, Accounted, Figured
<1>5. /\ store.pending = a /\ store.marker = Nobody /\ store.applied < a
      /\ store.applied = attempt[a].pre.applied
  BY <1>4 DEF Submitted, Blocked, ChannelState
<1>6. \A b \in Attempts : AtRisk(b) => b = a
  BY <1>5, AttemptNumbers DEF Accounted, Guarded
<1>7. a > store.applied
  <2>1. a \in Nat /\ store.applied \in Nat
    BY RecordNumbers, AttemptNumbers DEF InOrder
  <2> QED BY <1>5, <2>1
<1> QED BY <1>1, <1>2, <1>3, <1>5, <1>6, <1>7 DEF Unsettled

LEMMA QuarantinedFields ==
  ASSUME NEW a \in Attempts, NEW record \in ChannelState(Attempts)
  PROVE  LET q == Quarantined(a, record) IN
         /\ q.charged = record.charged /\ q.balance = record.balance
         /\ q.applied = record.applied /\ q.marker = a
         /\ q.pending = Kept(record.pending, a)
BY DEF Quarantined, ChannelState

(* The quarantine of an attempt that was submitted. *)
LEMMA QuarantineAccounts ==
  ASSUME InOrder, Accounted, NEW c \in Calls, call[c].pc = "sent", call[c].attempt # Nobody,
         External, NEW record \in ChannelState(Attempts),
         record.applied = store.applied, record.pending = store.pending,
         record.marker = store.marker,
         \/ record.charged = store.charged /\ record.balance = store.balance
         \/ State(call[c].attempt) = "settled",
         store' \in {record, Quarantined(call[c].attempt, record)},
         Unlock(call[c].attempt, "unsafe"), Ends(c)
  PROVE  Accounted'
<1>1. PICK a \in Attempts :
           /\ a = call[c].attempt /\ Holder(c) /\ InHand(c) /\ State(a) # "none"
           /\ store.pending = a /\ store.marker = Nobody
           /\ \A b \in Attempts : AtRisk(b) => b = a
           /\ State(a) = "settled" => Unsettled(a)
  BY SentKnows
<1>2. /\ store'.applied = store.applied
      /\ \/ store'.charged = store.charged /\ store'.balance = store.balance
         \/ Unsettled(a)
      /\ \/ store'.pending = a /\ store'.marker = Nobody
         \/ store'.pending = Nobody /\ store'.marker = a
  <2>1. CASE store' = record
    BY <1>1, <2>1
  <2>2. CASE store' = Quarantined(a, record)
    BY <1>1, <2>2, QuarantinedFields DEF Kept
  <2> QED BY <1>1, <2>1, <2>2
<1>3. \A b \in Attempts : AtRisk(b) => b \in {store'.pending, store'.marker}
  BY <1>1, <1>2
<1> QED BY <1>1, <1>2, <1>3, ReleaseWrites, AttemptNumbers

LEMMA LostAccounts ==
  ASSUME InOrder, Accounted, NEW c \in Calls, Lost(c)
  PROVE  Accounted'
<1>1. CASE call[c].attempt # Nobody
  <2>1. /\ call[c].pc = "sent" /\ External /\ store \in ChannelState(Attempts)
        /\ store' \in {store, Quarantined(call[c].attempt, store)}
        /\ Unlock(call[c].attempt, "unsafe") /\ Ends(c)
    BY <1>1 DEF Lost, Quarantine, At, InOrder, TypeOK
  <2> QED BY <1>1, <2>1, QuarantineAccounts
<1>2. CASE call[c].attempt = Nobody
  <2>1. Ends(c) /\ UNCHANGED <<attempt, store, voucher, channel>>
    BY <1>2 DEF Lost, Lease, External
  <2>2. Alone(c) /\ call'[c].pc = "idle"
    BY <2>1, EndsMoves, IdleTyped DEF InOrder
  <2> QED BY <2>1, <2>2, NoLeaseLeased, QuietCall
<1> QED BY <1>1, <1>2

LEMMA PromptedAgainAccounts ==
  ASSUME InOrder, Accounted, NEW c \in Calls, PromptedAgain(c)
  PROVE  Accounted'
<1>1. CASE call[c].attempt # Nobody
  <2>1. PICK a \in Attempts :
           /\ a = call[c].attempt /\ Holder(c) /\ InHand(c)
           /\ store.pending = a /\ store.marker = Nobody
           /\ \A b \in Attempts : AtRisk(b) => b = a
    BY <1>1, SentKnows DEF PromptedAgain, At
  <2>2. /\ Unlock(a, "safe") /\ Goto(c, "prompted") /\ External
        /\ store' \in {store, Retracted(a, store)} /\ State(a) \in {"none", "rejected"}
    BY <1>1, <2>1 DEF PromptedAgain, Status, State
  <2>3. ~AtRisk(a) /\ \A b \in Attempts : ~AtRisk(b)
    BY <2>1, <2>2 DEF AtRisk, State
  <2>4. /\ store'.applied = store.applied /\ store'.charged = store.charged
        /\ store'.balance = store.balance /\ store'.marker = Nobody
    BY <2>1, <2>2, RecordKept DEF Retracted, ChannelState
  <2> QED BY <2>1, <2>2, <2>3, <2>4, ReleaseWrites
<1>2. CASE call[c].attempt = Nobody
  <2>1. Goto(c, "prompted") /\ UNCHANGED <<attempt, store, voucher, channel>>
    BY <1>2 DEF PromptedAgain, Lease, External
  <2>2. Alone(c) /\ call'[c].pc = "prompted"
    BY <2>1, GotoMoves DEF InOrder, PCs
  <2> QED BY <2>1, <2>2, NoLeaseLeased, QuietCall
<1> QED BY <1>1, <1>2

(* A fold of the receipt that is due, or of the one that was folded last. *)
LEMMA FoldWrites ==
  ASSUME InOrder, Accounted, UNCHANGED <<voucher, channel>>, SameBindings,
         NEW a \in Attempts, State(a) = "settled", store.applied <= a,
         store'.charged = voucher[a].cumulative, store'.balance = voucher[a].balance,
         store'.applied = a, store'.pending = Nobody \/ store'.marker = Nobody,
         \A b \in Attempts : AtRisk(b) /\ b # a => b \in {store'.pending, store'.marker},
         store'.marker # Nobody => State(store'.marker) # "none"
  PROVE  /\ Guarded' /\ Figured' /\ ~AtRisk(a)'
         /\ \A b \in Attempts : AtRisk(b)' => AtRisk(b)
<1>1. Guarded /\ Figured /\ store.applied \in Nat /\ a \in Nat /\ a # Nobody
  BY RecordNumbers, AttemptNumbers DEF Accounted, InOrder
<1>2. ~AtRisk(a)' /\ \A b \in Attempts : State(b)' = State(b) /\ (AtRisk(b)' => AtRisk(b) /\ b # a)
  <2>1. ~AtRisk(a)'
    BY <1>1 DEF AtRisk, State
  <2>2. ASSUME NEW b \in Attempts, AtRisk(b)'
        PROVE  AtRisk(b) /\ b # a
    <3>1. b \in Nat
      BY AttemptNumbers
    <3>2. b # a
      BY <2>1, <2>2
    <3>3. voucher[b].state = "settled" /\ b > a => b > store.applied
      BY <1>1, <3>1
    <3> QED BY <2>2, <3>2, <3>3 DEF AtRisk
  <2> QED BY <2>1, <2>2 DEF State
<1>3. Guarded'
  BY <1>1, <1>2 DEF Guarded, State
<1>4. \A b \in Attempts : Unsettled(b)' => Unsettled(b)
  <2> SUFFICES ASSUME NEW b \in Attempts, voucher[b].state = "settled", b > a
               PROVE  b > store.applied
    BY DEF Unsettled, State
  <2>1. b \in Nat
    BY AttemptNumbers
  <2> QED BY <1>1, <2>1
<1>5. store.applied = a \/ Unsettled(a)
  BY <1>1 DEF Unsettled
<1>6. \A b \in Attempts : State(b) = "sent" => b > a
  <2> SUFFICES ASSUME NEW b \in Attempts, State(b) = "sent" PROVE b > a
    OBVIOUS
  <2>1. CASE store.applied = a
    BY <1>1, <2>1 DEF Figured
  <2>2. CASE Unsettled(a)
    <3>1. AtRisk(a) /\ AtRisk(b)
      BY <2>2 DEF AtRisk, Unsettled, State
    <3> QED BY <1>1, <3>1, OneRisk
  <2> QED BY <1>5, <2>1, <2>2
<1>7. channel = [charged |-> voucher[a].cumulative, balance |-> voucher[a].balance]
        \/ \E b \in Attempts : Unsettled(b)'
  <2>1. CASE Unsettled(a)
    BY <1>1, <2>1 DEF Figured
  <2>2. CASE store.applied = a
    <3>1. \A b \in Attempts : Unsettled(b)' <=> Unsettled(b)
      BY <2>2 DEF Unsettled, State
    <3> QED BY <1>1, <2>2, <3>1 DEF Figured
  <2> QED BY <1>5, <2>1, <2>2
<1>8. voucher[a].cumulative \in Nat /\ voucher[a].balance \in Nat
  BY Known DEF InOrder, Voucher
<1>9. (\A b \in Attempts : ~Unsettled(b)') =>
         /\ OrZero(store'.charged) = channel.charged /\ OrZero(store'.balance) = channel.balance
         /\ channel = [charged |-> voucher[a].cumulative, balance |-> voucher[a].balance]
  <2>1. OrZero(store'.charged) = voucher[a].cumulative /\ OrZero(store'.balance) = voucher[a].balance
    BY <1>8 DEF OrZero, Absent
  <2> QED BY <1>7, <2>1
<1>10. \A b \in Attempts : /\ attempt'[b].pre = attempt[b].pre /\ Base(attempt[b])' = Base(attempt[b])
                           /\ Floor(attempt[b])' = Floor(attempt[b])
  BY DEF SameBindings, Base, Floor
<1>11. Figured'
  BY <1>1, <1>2, <1>4, <1>6, <1>9, <1>10 DEF Figured
<1> QED BY <1>2, <1>3, <1>11

(* What Folded makes of a receipt whose figures are the merchant's own.         *)
LEMMA FoldedFields ==
  ASSUME InOrder, Figured, NEW a \in Attempts, State(a) = "settled"
  PROVE  LET f == Folded(a, attempt[a], voucher[a], store) IN
         /\ f.charged = voucher[a].cumulative /\ f.balance = voucher[a].balance
         /\ f.applied = a /\ f.pending = Kept(store.pending, a)
         /\ f.marker = Kept(store.marker, a)
<1>1. voucher[a].balance = Floor(attempt[a])
  BY DEF Figured
<1> QED BY <1>1 DEF Folded

LEMMA ObserveAccounts ==
  ASSUME InOrder, Accounted, NEW c \in Calls, Observe(c)
  PROVE  Accounted'
<1>0. call[c].pc = "sent" /\ call[c].attempt # Nobody /\ External
  BY DEF Observe, At, Status
<1>1. PICK a \in Attempts :
           /\ a = call[c].attempt /\ Holder(c) /\ InHand(c)
           /\ store.pending = a /\ store.marker = Nobody /\ store.applied < a
           /\ \A b \in Attempts : AtRisk(b) => b = a
           /\ State(a) = "settled" => Unsettled(a)
  BY <1>0, SentKnows
<1>2. State(a) = "settled" /\ store \in ChannelState(Attempts)
  BY <1>1 DEF Observe, Status, State, InOrder, TypeOK
<1> DEFINE folded == Folded(a, attempt[a], voucher[a], store)
<1>3. /\ folded.charged = voucher[a].cumulative /\ folded.balance = voucher[a].balance
      /\ folded.applied = a /\ folded.pending = Nobody /\ folded.marker = Nobody
      /\ folded \in ChannelState(Attempts)
  BY <1>1, <1>2, FoldedFields, RecordKept DEF Kept, Accounted
<1>4. \/ store' = folded /\ Unlock(a, "safe") /\ Ends(c)
      \/ Quarantine(c, store)
      \/ /\ Unlock(a, "unsafe") /\ Ends(c)
         /\ \E record \in Torn(folded, store) : store' \in {record, Quarantined(a, record)}
  BY <1>1 DEF Observe
<1> HIDE DEF folded
<1>5. store.applied <= a
  <2>1. store.applied \in Nat /\ a \in Nat
    BY RecordNumbers, AttemptNumbers DEF InOrder
  <2> QED BY <1>1, <2>1
<1>6. ASSUME NEW outcome \in {"safe", "unsafe"}, Unlock(a, outcome), Ends(c),
             store' = folded \/ store' = Quarantined(a, folded)
      PROVE  Accounted'
  <2>1. /\ store'.charged = voucher[a].cumulative /\ store'.balance = voucher[a].balance
        /\ store'.applied = a /\ store'.pending = Nobody /\ store'.marker \in {Nobody, a}
    BY <1>3, <1>6, QuarantinedFields DEF Kept
  <2>2. SameBindings
    BY <1>6, UnlockMoves DEF SameBindings, OneNode, InOrder
  <2>3. /\ Guarded' /\ Figured' /\ ~AtRisk(a)'
        /\ \A b \in Attempts : AtRisk(b)' => AtRisk(b)
    BY <1>0, <1>1, <1>2, <1>5, <2>1, <2>2, FoldWrites DEF External
  <2> QED BY <1>1, <1>6, <2>3, ReleaseAccounts
<1>7. CASE Quarantine(c, store)
  BY <1>0, <1>1, <1>2, <1>7, QuarantineAccounts DEF Quarantine
<1>8. CASE /\ Unlock(a, "unsafe") /\ Ends(c)
           /\ \E record \in Torn(folded, store) : store' \in {record, Quarantined(a, record)}
  <2>1. PICK record \in Torn(folded, store) : store' \in {record, Quarantined(a, record)}
    BY <1>8
  <2>2. CASE record = folded
    BY <1>6, <1>8, <2>1, <2>2
  <2>3. CASE record # folded
    <3>1. record \in ChannelState(Attempts)
      BY <1>2, <1>3, TornTyped
    <3>2. /\ record.applied = store.applied /\ record.pending = store.pending
          /\ record.marker = store.marker
      BY <1>2, <2>3 DEF Torn, ChannelState
    <3> QED BY <1>0, <1>1, <1>2, <1>8, <2>1, <3>1, <3>2, QuarantineAccounts
  <2> QED BY <2>2, <2>3
<1> QED BY <1>4, <1>6, <1>7, <1>8

LEMMA RejectAccounts ==
  ASSUME InOrder, Accounted, NEW a \in Attempts, Reject(a)
  PROVE  Accounted'
<1>1. /\ UNCHANGED <<call, attempt, tail, store, channel>>
      /\ State(a) = "sent" /\ State(a)' = "rejected"
      /\ \A b \in Attempts : b # a => voucher'[b] = voucher[b]
  BY RejectStep DEF Reject, Lease
<1>2. \A b \in Attempts : /\ AtRisk(b)' => AtRisk(b)
                          /\ Unsettled(b)' <=> Unsettled(b)
                          /\ State(b)' = "sent" => State(b) = "sent" /\ b # a
                          /\ State(b)' = "settled" <=> State(b) = "settled"
                          /\ State(b)' = "settled" => voucher'[b] = voucher[b]
                          /\ State(b) # "none" => State(b)' # "none"
  BY <1>1 DEF AtRisk, Unsettled, State
<1>3. Guarded'
  <2>1. Guarded /\ store.applied \in Attempts \cup {Nobody} /\ store.marker \in Attempts \cup {Nobody}
    BY RecordNumbers DEF Accounted, InOrder
  <2>2. store.applied # Nobody => State(store.applied)' = "settled"
    BY <1>1, <1>2, <2>1 DEF Guarded, State
  <2>3. store.marker # Nobody => State(store.marker)' # "none"
    BY <1>1, <1>2, <2>1 DEF Guarded, State
  <2> QED BY <1>1, <1>2, <2>1, <2>2, <2>3 DEF Guarded, State
<1>4. Figured'
  <2>1. Figured /\ Guarded
    BY DEF Accounted
  <2>2. store.applied # Nobody => voucher'[store.applied] = voucher[store.applied]
    <3>1. store.applied # Nobody => State(store.applied) = "settled" /\ store.applied \in Attempts
      BY <2>1, RecordNumbers DEF Guarded, InOrder
    <3> QED BY <1>1, <3>1
  <2>3. \A b \in Attempts : Unsettled(b) => voucher'[b] = voucher[b]
    BY <1>1 DEF Unsettled
  <2> QED BY <1>1, <1>2, <2>1, <2>2, <2>3 DEF Figured, Base, Floor
<1>5. SafeBehind'
  BY <1>1, <1>2, SafeBehindKept, QueueTypes DEF Accounted, InOrder, Node
<1>6. \A c \in Calls : Leased(c)'
  BY <1>1 DEF Leased, Accounted
<1> QED BY <1>3, <1>4, <1>5, <1>6 DEF Accounted

LEMMA SettleAccounts ==
  ASSUME InOrder, Accounted, NEW a \in Attempts, Settle(a)
  PROVE  Accounted'
<1>1. /\ UNCHANGED <<call, attempt, tail, store, faults>> /\ State(a) = "sent"
      /\ State(a)' = "settled"
      /\ channel' = [charged |-> voucher'[a].cumulative, balance |-> voucher'[a].balance]
      /\ voucher'[a].balance = channel.balance + attempt[a].deposit
      /\ \A b \in Attempts : b # a => voucher'[b] = voucher[b]
  BY SettleMoves
<1>2. Guarded /\ Figured /\ AtRisk(a) /\ a > store.applied
  BY <1>1 DEF Accounted, AtRisk, State, Figured
<1>3. \A b \in Attempts : AtRisk(b) => b = a
  BY <1>2, OneRisk
<1>4. \A b \in Attempts : /\ AtRisk(b)' => b = a
                          /\ Unsettled(b)' => b = a
                          /\ State(b)' # "sent"
                          /\ State(b) # "none" => State(b)' # "none"
  <2>1. \A b \in Attempts : b # a => State(b)' = State(b) /\ (AtRisk(b)' <=> AtRisk(b))
                                     /\ (Unsettled(b)' => AtRisk(b))
    BY <1>1 DEF AtRisk, Unsettled, State
  <2>2. \A b \in Attempts : State(b) = "sent" => AtRisk(b)
    BY DEF AtRisk, State
  <2> QED BY <1>1, <1>3, <2>1, <2>2
<1>5. Unsettled(a)'
  BY <1>1, <1>2 DEF Unsettled
<1>6. Guarded'
  <2>1. store.applied \in Attempts \cup {Nobody} /\ store.marker \in Attempts \cup {Nobody}
    BY RecordNumbers DEF InOrder
  <2>2. store.applied # Nobody => State(store.applied)' = "settled"
    BY <1>1, <1>2, <2>1 DEF Guarded, State
  <2>3. store.marker # Nobody => State(store.marker)' # "none"
    BY <1>1, <1>2, <1>4, <2>1 DEF Guarded, State
  <2>4. \A b \in Attempts : AtRisk(b)' => b \in {store.pending, store.marker}
    BY <1>2, <1>4 DEF Guarded
  <2> QED BY <1>1, <1>2, <2>2, <2>3, <2>4 DEF Guarded, State
<1>7. Figured'
  <2>1. voucher'[a].balance = Floor(attempt[a])
    BY <1>1, <1>2 DEF Figured, Floor
  <2>2. \A b \in Attempts : State(b)' = "settled" => voucher'[b].balance = Floor(attempt[b])'
    BY <1>1, <1>2, <2>1 DEF Figured, Floor, State
  <2>3. \A b \in Attempts : attempt'[b].pre.applied < b
    BY <1>1, <1>2 DEF Figured
  <2>4. \A b \in Attempts : Unsettled(b)' =>
          channel' = [charged |-> voucher'[b].cumulative, balance |-> voucher'[b].balance]
    BY <1>1, <1>4
  <2> QED BY <1>4, <1>5, <2>2, <2>3, <2>4 DEF Figured
<1>8. SafeBehind'
  <2>1. \A b \in Attempts : /\ Node(b)' = Node(b) /\ attempt'[b].behind = attempt[b].behind
                            /\ attempt[b].behind \subseteq Attempts
    BY <1>1, QueueTypes DEF Node, InOrder
  <2>2. \A b \in Attempts : AtRisk(b)' => AtRisk(b)
    BY <1>2, <1>4
  <2> QED BY <2>1, <2>2, SafeBehindKept DEF Accounted
<1>9. \A c \in Calls : Leased(c)'
  BY <1>1 DEF Leased, Accounted
<1> QED BY <1>6, <1>7, <1>8, <1>9 DEF Accounted

(* The operator works while nobody holds the lease. *)
LEMMA OperatorFrame ==
  ASSUME InOrder, Accounted, UNCHANGED <<call, attempt, tail, voucher, channel>>,
         \A a \in Attempts : Node(a) # "open", Guarded', Figured'
  PROVE  Accounted'
<1>1. SafeBehind'
  BY DEF SafeBehind, Node
<1>2. \A c \in Calls : ~Holder(c)
  BY Hands DEF Holder
<1>3. \A c \in Calls : Leased(c)'
  BY <1>2, Hands DEF Leased
<1> QED BY <1>1, <1>3 DEF Accounted

LEMMA RepairAccounts ==
  ASSUME InOrder, Accounted, NEW a \in Attempts, Repair(a)
  PROVE  Accounted'
<1>1. /\ UNCHANGED <<call, attempt, tail, voucher, channel>> /\ SameBindings
      /\ State(a) = "settled" /\ \A b \in Attempts : Node(b) # "open"
  BY DEF Repair, SameBindings, Node, State
<1>2. Guarded /\ Figured
  BY DEF Accounted
<1>3. /\ store'.charged = voucher[a].cumulative /\ store'.balance = voucher[a].balance
      /\ store'.applied = a /\ store'.pending = Kept(store.pending, a)
      /\ store'.marker = Kept(store.marker, a)
  BY <1>1, <1>2, FoldedFields DEF Repair
<1>4. store.applied = a \/ store.applied \in {Nobody, attempt[a].pre.applied}
  BY DEF Repair, Folds, Owns, Descends
<1>5. store.applied <= a
  <2>1. store.applied \in Nat /\ a \in Nat /\ Nobody = 0
    BY RecordNumbers, AttemptNumbers DEF InOrder
  <2> QED BY <1>2, <1>4, <2>1 DEF Figured
<1>6. /\ store'.pending = Nobody \/ store'.marker = Nobody
      /\ \A b \in Attempts : AtRisk(b) /\ b # a => b \in {store'.pending, store'.marker}
      /\ store'.marker # Nobody => State(store'.marker) # "none"
  BY <1>2, <1>3 DEF Guarded, Kept
<1>7. Guarded' /\ Figured'
  BY <1>1, <1>3, <1>5, <1>6, FoldWrites
<1> QED BY <1>1, <1>7, OperatorFrame

LEMMA ClearByHandAccounts ==
  ASSUME InOrder, Accounted, NEW a \in Attempts, ClearByHand(a)
  PROVE  Accounted'
<1>1. /\ UNCHANGED <<call, attempt, tail, voucher, channel>> /\ SameBindings
      /\ State(a) \in {"none", "rejected"} /\ \A b \in Attempts : Node(b) # "open"
  BY DEF ClearByHand, SameBindings, Node, State
<1>2. Guarded /\ Figured /\ store \in ChannelState(Attempts)
  BY DEF Accounted, InOrder, TypeOK
<1>3. /\ store'.charged = store.charged /\ store'.balance = store.balance
      /\ store'.applied = store.applied /\ store'.pending = Kept(store.pending, a)
      /\ store'.marker = Kept(store.marker, a)
  BY <1>2 DEF ClearByHand, ChannelState
<1>4. ~AtRisk(a)
  BY <1>1 DEF AtRisk, State
<1>5. /\ store'.pending = Nobody \/ store'.marker = Nobody
      /\ \A b \in Attempts : AtRisk(b) => b \in {store'.pending, store'.marker}
      /\ store'.marker # Nobody => State(store'.marker) # "none"
  BY <1>2, <1>3, <1>4 DEF Guarded, Kept
<1>6. Guarded' /\ Figured'
  BY <1>1, <1>2, <1>3, <1>5, RecordWrite DEF InOrder
<1> QED BY <1>1, <1>6, OperatorFrame

LEMMA AccountedInit == Init => Accounted
<1> SUFFICES ASSUME Init PROVE Accounted
  OBVIOUS
<1>1. /\ \A a \in Attempts : State(a) = "none" /\ Node(a) = "unused" /\ attempt[a].pre.applied = Nobody
      /\ store = NoRecord /\ channel = [charged |-> 0, balance |-> 0]
      /\ \A c \in Calls : call[c].pc = "idle"
  BY IdleTyped DEF Init, State, Node, Unsent, Unused, NoRecord
<1>2. \A a \in Attempts : ~AtRisk(a) /\ ~Unsettled(a)
  BY <1>1 DEF AtRisk, Unsettled, State
<1>3. Guarded
  BY <1>1, <1>2 DEF Guarded, NoRecord
<1>4. Figured
  <2>1. \A a \in Attempts : Nobody < a
    BY DEF Attempts, Nobody
  <2> QED BY <1>1, <1>2, <2>1 DEF Figured, NoRecord, OrZero, Absent, Nobody
<1>5. SafeBehind /\ \A c \in Calls : Leased(c)
  BY <1>1 DEF SafeBehind, Leased
<1> QED BY <1>3, <1>4, <1>5 DEF Accounted

LEMMA AccountedNext ==
  ASSUME InOrder, Accounted, [Next]_vars
  PROVE  Accounted'
<1>1. CASE UNCHANGED vars
  <2>1. SameBindings /\ UNCHANGED <<call, attempt, tail, voucher, channel, store>>
    BY <1>1 DEF vars, SameBindings
  <2>2. Guarded' /\ Figured'
    BY <2>1, RecordWrite DEF Accounted, InOrder, Guarded
  <2>3. SafeBehind'
    BY <2>1, SafeBehindKept, QueueTypes DEF Accounted, InOrder, Node, AtRisk
  <2>4. \A c \in Calls : Leased(c)'
    BY <2>1 DEF Leased, Accounted
  <2> QED BY <2>2, <2>3, <2>4 DEF Accounted
<1>2. ASSUME NEW c \in Calls, Prompted(c) \/ Proceed(c)
      PROVE  Accounted'
  BY <1>2, CallOnlyAccounts, EnqueueAccounts, QuietReleaseAccounts, SignAccounts,
     MarkSubmittedAccounts, SubmitAccounts, LostAccounts, PromptedAgainAccounts,
     ObserveAccounts DEF Proceed
<1>3. ASSUME NEW a \in Attempts, Reject(a) \/ Settle(a) \/ Repair(a) \/ ClearByHand(a)
      PROVE  Accounted'
  BY <1>3, RejectAccounts, SettleAccounts, RepairAccounts, ClearByHandAccounts
<1>4. CASE Crash
  BY <1>4, CrashAccounts
<1> QED BY <1>1, <1>2, <1>3, <1>4 DEF Next

(* The record guards every voucher at risk and, when none is, holds the           *)
(* merchant's figures; whoever signed or submitted finds the record as it left it. *)
THEOREM AccountedInv == Spec => [](InOrder /\ Accounted)
<1>1. Init => InOrder /\ Accounted
  BY OrderInit, AccountedInit
<1>2. InOrder /\ Accounted /\ [Next]_vars => (InOrder /\ Accounted)'
  BY OrderNext, AccountedNext
<1> QED BY <1>1, <1>2, PTL DEF Spec
-----------------------------------------------------------------------------
(* What the runs check, for every value of the constants. *)

LEMMA AtMostOne ==
  ASSUME NEW S, \A x, y \in S : x = y
  PROVE  Cardinality(S) <= 1
<1>1. CASE S = {}
  <2>1. Cardinality(S) = 0
    BY <1>1, FS_EmptySet
  <2> QED BY <2>1
<1>2. CASE S # {}
  <2>1. PICK x \in S : TRUE
    BY <1>2
  <2>2. S = {x}
    BY <2>1
  <2>3. Cardinality(S) = 1
    BY <2>2, FS_Singleton
  <2> QED BY <2>3
<1> QED BY <1>1, <1>2

(* Whatever is lost, throws or stops, no attempt submits its voucher before the   *)
(* outcome of the last one is on record: never two vouchers are at risk.         *)
THEOREM NeverTwoAtRisk == Spec => []OneAtRisk
<1>1. InOrder /\ Accounted => OneAtRisk
  <2> SUFFICES ASSUME InOrder, Accounted PROVE OneAtRisk
    OBVIOUS
  <2> DEFINE S == {a \in Attempts : AtRisk(a)}
  <2>1. \A x, y \in S : x = y
    BY OneRisk DEF Accounted
  <2> HIDE DEF S
  <2>2. Cardinality(S) <= 1
    BY <2>1, AtMostOne
  <2> QED BY <2>2 DEF S, OneAtRisk
<1> QED BY <1>1, AccountedInv, PTL

(* A record that lets the next attempt sign holds the merchant's own figures, so   *)
(* that no charge and no deposit is signed twice.                               *)
THEOREM RecordMatches == Spec => []RecordAgrees
<1>1. InOrder /\ Accounted => RecordAgrees
  <2> SUFFICES ASSUME InOrder, Accounted PROVE RecordAgrees
    OBVIOUS
  <2>1. ~Blocked(store) => \A a \in Attempts : ~Unsettled(a)
    BY NothingAtRisk DEF Accounted
  <2>2. Guarded /\ Figured
    BY DEF Accounted
  <2> QED BY <2>1, <2>2 DEF RecordAgrees, Guarded, Figured, State
<1> QED BY <1>1, AccountedInv, PTL

(* Nobody signs, or submits, who was queued behind a voucher that is at risk.     *)
THEOREM SignsInTurn == Spec => []NoneSignsBehindRisk
<1>1. InOrder /\ Accounted => NoneSignsBehindRisk
  <2> SUFFICES ASSUME InOrder, Accounted,
                      NEW c \in Calls, call[c].pc \in {"signing", "signed", "fetch"},
                      NEW b \in attempt[call[c].attempt].behind
               PROVE  ~AtRisk(b)
    BY DEF NoneSignsBehindRisk
  <2>1. Holder(c)
    BY Hands
  <2>2. PICK a \in Attempts : a = call[c].attempt /\ Node(a) = "open"
    BY <2>1, HolderKnows
  <2>3. Node(b) = "safe"
    BY <2>1, HolderKnows
  <2> QED BY <2>2, <2>3 DEF Accounted, SafeBehind
<1> QED BY <1>1, AccountedInv, PTL

(* One call pays at most once, whatever the merchant prompts for.               *)
THEOREM PaysAtMostOnce == Spec => []CallPaysOnce
<1>1. InOrder => CallPaysOnce
  <2> SUFFICES ASSUME InOrder, NEW c \in Calls
               PROVE  Cardinality({a \in call[c].tries : voucher[a].state = "settled"}) <= 1
    BY DEF CallPaysOnce
  <2> DEFINE S == {a \in call[c].tries : voucher[a].state = "settled"}
  <2>1. \A x \in S : x = call[c].attempt
    BY DEF InOrder, CallFits, State
  <2>2. \A x, y \in S : x = y
    BY <2>1
  <2> HIDE DEF S
  <2>3. Cardinality(S) <= 1
    BY <2>2, AtMostOne
  <2> QED BY <2>3 DEF S
<1> QED BY <1>1, InOrderInv, PTL

(* The lease is never left behind: an open node of the queue is always some        *)
(* call's, that is at work or waits.                                            *)
THEOREM LeaseNeverLost == Spec => []LeaseInHand
<1>1. InOrder => LeaseInHand
  BY DEF InOrder, LeaseInHand, InHand, Node
<1> QED BY <1>1, InOrderInv, PTL
=============================================================================
