--------------------------- MODULE AgentRun_proofs ---------------------------
(* Theorems about AgentRun, for every value of its constants: what an aborted  *)
(* turn still takes, that a task holds every piece of content exactly once,    *)
(* that message/send and message/stream make the same of a turn, and that no   *)
(* model is asked with a tool's use that lacks its result.                     *)
EXTENDS AgentRun, FiniteSetTheorems, SequenceTheorems, WellFoundedInduction, TLAPS

USE AgentAssumption DEF AgentAssumption
-----------------------------------------------------------------------------
(* What is known of the state between two steps. *)

Id == {"text", "file", "data"} \X Nat
Titles == Names \cup {Unnamed}
Piece == [id : Id, name : Titles, pieces : Seq(Nat)]
Artifacts == Seq(Piece)
Statuses == Finished \cup {"working", "canceled"}

Path ==
  [prior : Artifacts, taken : SUBSET Id, count : Nat, textId : {<<>>} \cup Id,
   others : Artifacts, text : Seq(Nat), name : Titles, produced : Artifacts,
   status : Statuses, stored : Artifacts, told : Artifacts]

IsEvent(e) ==
  /\ e = [type |-> e.type, role |-> e.role, piece |-> e.piece, name |-> e.name,
          call |-> e.call]
  /\ e.name \in Titles

TypeOK ==
  /\ host.agent \in {"llm", "custom", "remote"}
  /\ "agent" \in DOMAIN host
  /\ "at" \in DOMAIN agent
  /\ out = <<>> \/ (out = <<out[1]>> /\ IsEvent(out[1]))
  /\ aborted \in BOOLEAN /\ given \in Nat
  /\ send \in Path /\ stream \in Path
  /\ pump = [writing |-> pump.writing, telling |-> pump.telling, ending |-> pump.ending]

\* No two artifacts of a list have the same id.
Distinct(list) == \A i, j \in DOMAIN list : list[i].id = list[j].id => i = j

\* A set of artifacts holds each of the first n pieces once and in order.
Holds(S, n) ==
  /\ \A a \in S : \A j \in DOMAIN a.pieces : a.pieces[j] \in 1..n
  /\ \A k \in 1..n : \E a \in S : \E j \in DOMAIN a.pieces : a.pieces[j] = k
  /\ \A a, b \in S : a # b =>
       /\ a.id # b.id
       /\ \A i \in DOMAIN a.pieces, j \in DOMAIN b.pieces : a.pieces[i] # b.pieces[j]
  /\ \A a \in S : \A i, j \in DOMAIN a.pieces : i < j => a.pieces[i] < a.pieces[j]

TextOf(p) == IF p.text = <<>> THEN {} ELSE {Artifact(p.textId, p.name, p.text)}
Collected(p) == ToSet(p.prior) \cup ToSet(p.others) \cup TextOf(p)

\* The ids of a turn at work: none of them names an artifact of an earlier turn.
IdsFit(p) ==
  /\ IsFiniteSet(p.taken)
  /\ Ids(p.prior) \cup Ids(p.others) \subseteq p.taken
  /\ Ids(p.prior) \cap Ids(p.others) = {}
  /\ Distinct(p.prior) /\ Distinct(p.others)
  /\ \A i \in DOMAIN p.others : p.others[i].id[1] # "text"
  /\ p.produced = <<>>

\* Both paths have collected the same.  The stream has named its text already, as
\* the send will when it ends.
Alike(s, t) ==
  /\ s.prior = t.prior /\ s.others = t.others
  /\ s.text = t.text /\ s.name = t.name /\ s.count = t.count
  /\ s.textId = <<>>
  /\ t.text = <<>> => t.textId = <<>> /\ t.taken = s.taken
  /\ t.text # <<>> =>
       /\ t.textId = ClaimText(s).textId
       /\ t.taken = s.taken \cup {t.textId}

AtWork(s, t) ==
  /\ IdsFit(s) /\ IdsFit(t) /\ Alike(s, t)
  /\ ToSet(t.stored) = Collected(t)
  /\ (t.others = <<>> /\ t.text = <<>>) => t.stored = t.prior
  /\ t.told = t.stored

\* A list of artifacts has each of the first n pieces once and in order.
Kept(list, n) == Distinct(list) /\ Holds(ToSet(list), n)

\* The paths of a turn at work that has n pieces, with no update in flight.
Settled(s, t, n) == s \in Path /\ t \in Path /\ AtWork(s, t) /\ Kept(t.stored, n)

\* The stream as it is once the update in flight is stored and published.
Passed(t, u) == PublishUpdate(StoreUpdate(t, u), u)
Flow ==
  IF pump.writing # <<>> THEN Passed(stream, pump.writing[1])
  ELSE IF pump.telling # <<>> THEN PublishUpdate(stream, pump.telling[1])
  ELSE stream

Working == send.status = "working"

Pumping ==
  /\ pump.writing = <<>> \/ pump.telling = <<>>
  /\ pump.ending \in Finished \cup {"none"}
  /\ pump.ending # "none" => agent.at = "ended"
  /\ pump # Resting => Working
  /\ Working <=> agent.at # "ended" \/ pump.ending # "none"

\* The stored list is a good one whenever the subscriber has heard all of it, and
\* the subscriber lacks one piece at most.
Lagging ==
  /\ pump.telling = <<>> => Distinct(stream.stored) /\ ToSet(stream.told) = ToSet(stream.stored)
  /\ \E n \in {given - 1, given} : n \in Nat /\ Kept(stream.told, n)

Finishing ==
  /\ Working <=> stream.status = "working"
  /\ send.status \in Finished => Kept(send.stored, given)
  /\ stream.status \in Finished => Kept(stream.stored, given)
  /\ send.status \in Finished /\ stream.status \in Finished => send.stored = stream.stored
  /\ send.status # stream.status => aborted /\ "canceled" \in {send.status, stream.status}

Inv ==
  /\ TypeOK /\ Pumping /\ Lagging /\ Finishing
  /\ Working => Settled(send, Flow, given)
-----------------------------------------------------------------------------
(* Ids: the least number that is free. *)

LEMMA LeastIsMin == ASSUME NEW S \in SUBSET Nat, S # {}
                    PROVE  Min(S) \in S /\ \A k \in S : Min(S) <= k
<1>1. PICK m \in S : \A k \in S : ~(<<k, m>> \in OpToRel(<, Nat))
  BY NatLessThanWellFounded, WFMin
<1>2. \A k \in S : ~(k < m)
  BY <1>1 DEF OpToRel
<1>3. \A k \in S : m <= k
  BY <1>2
<1>4. QED BY <1>3 DEF Min

Free(kind, taken, a, b) == {k \in a..b : <<kind, k>> \notin taken}

LEMMA SomeIsFree ==
  ASSUME NEW kind, NEW taken, IsFiniteSet(taken), NEW a \in Nat, NEW b \in Nat,
         b = a + Cardinality(taken)
  PROVE  LET n == Min(Free(kind, taken, a, b))
         IN n \in Free(kind, taken, a, b) /\ \A k \in Free(kind, taken, a, b) : n <= k
<1> DEFINE F == Free(kind, taken, a, b)
<1>1. Cardinality(taken) \in Nat
  BY FS_CardinalityType
<1>2. IsFiniteSet(a..b) /\ Cardinality(taken) < Cardinality(a..b)
  BY <1>1, FS_Interval
<1>3. F # {}
  <2> SUFFICES ASSUME F = {} PROVE FALSE
    OBVIOUS
  <2>1. PICK f : f = [k \in a..b |-> <<kind, k>>]
    OBVIOUS
  <2>2. f \in [a..b -> taken]
    BY <2>1 DEF Free
  <2>3. \E x, y \in a..b : x # y /\ f[x] = f[y]
    BY <2>2, <1>2, FS_PigeonHole
  <2>4. QED BY <2>1, <2>3
<1>4. F \in SUBSET Nat
  BY DEF Free
<1>5. QED BY <1>3, <1>4, LeastIsMin

\* What else is taken does not matter.
LEMMA SameIsFree ==
  ASSUME NEW kind, NEW taken, IsFiniteSet(taken), NEW more \in SUBSET taken,
         \A k \in Nat : <<kind, k>> \in taken => <<kind, k>> \in more,
         NEW a \in Nat
  PROVE  Min(Free(kind, more, a, a + Cardinality(more)))
         = Min(Free(kind, taken, a, a + Cardinality(taken)))
<1>1. IsFiniteSet(more) /\ Cardinality(more) <= Cardinality(taken)
  BY FS_Subset
<1>2. Cardinality(taken) \in Nat /\ Cardinality(more) \in Nat
  BY <1>1, FS_CardinalityType
<1>3. PICK M : M = Free(kind, more, a, a + Cardinality(more))
  OBVIOUS
<1>4. PICK T : T = Free(kind, taken, a, a + Cardinality(taken))
  OBVIOUS
<1>5. PICK m : m = Min(M) /\ m \in M /\ \A k \in M : m <= k
  BY <1>1, <1>2, <1>3, SomeIsFree
<1>6. PICK t : t = Min(T) /\ t \in T /\ \A k \in T : t <= k
  BY <1>1, <1>2, <1>4, SomeIsFree
<1>7. m \in T
  <2>1. m \in a..(a + Cardinality(more)) /\ <<kind, m>> \notin more
    BY <1>3, <1>5 DEF Free
  <2>2. m \in Nat /\ m \in a..(a + Cardinality(taken))
    BY <2>1, <1>1, <1>2
  <2>3. <<kind, m>> \notin taken
    BY <2>1, <2>2
  <2>4. QED BY <2>2, <2>3, <1>4 DEF Free
<1>8. t \in M
  <2>1. t \in a..(a + Cardinality(taken)) /\ <<kind, t>> \notin taken
    BY <1>4, <1>6 DEF Free
  <2>2. t <= m /\ m \in a..(a + Cardinality(more))
    BY <1>3, <1>5, <1>6, <1>7 DEF Free
  <2>3. t \in a..(a + Cardinality(more))
    BY <2>1, <2>2, <1>2
  <2>4. <<kind, t>> \notin more
    BY <2>1
  <2>5. QED BY <2>3, <2>4, <1>3 DEF Free
<1>9. m = t
  BY <1>3, <1>4, <1>5, <1>6, <1>7, <1>8 DEF Free
<1>10. QED BY <1>3, <1>4, <1>5, <1>6, <1>9

(* What a claim gives: an id nobody has. *)
LEMMA ClaimsText ==
  ASSUME NEW p \in Path, IsFiniteSet(p.taken), p.textId = <<>>
  PROVE  \E n \in Nat :
           /\ n = Min(Free("text", p.taken, 1, 1 + Cardinality(p.taken)))
           /\ <<"text", n>> \notin p.taken
           /\ ClaimText(p) = [p EXCEPT !.textId = <<"text", n>>,
                                       !.taken = p.taken \cup {<<"text", n>>}]
<1>1. Cardinality(p.taken) \in Nat
  BY FS_CardinalityType
<1>2. PICK F : F = Free("text", p.taken, 1, 1 + Cardinality(p.taken))
  OBVIOUS
<1>3. F = {k \in 1..(Cardinality(p.taken) + 1) : <<"text", k>> \notin p.taken}
  BY <1>1, <1>2 DEF Free
<1>4. PICK n : n = Min(F)
  OBVIOUS
<1>5. n \in F
  BY <1>1, <1>2, <1>4, SomeIsFree
<1>6. n \in Nat /\ <<"text", n>> \notin p.taken
  BY <1>1, <1>3, <1>5
<1>7. ClaimText(p) = [p EXCEPT !.textId = <<"text", n>>, !.taken = @ \cup {<<"text", n>>}]
  BY <1>3, <1>4 DEF ClaimText
<1>8. QED BY <1>2, <1>4, <1>6, <1>7

LEMMA ClaimsNext ==
  ASSUME NEW p \in Path, IsFiniteSet(p.taken), NEW kind
  PROVE  \E n \in Nat :
           /\ n = Min(Free(kind, p.taken, p.count + 1, p.count + 1 + Cardinality(p.taken)))
           /\ <<kind, n>> \notin p.taken
           /\ ClaimNext(p, kind) = [p EXCEPT !.count = n, !.taken = p.taken \cup {<<kind, n>>}]
<1>1. Cardinality(p.taken) \in Nat /\ p.count \in Nat
  BY FS_CardinalityType DEF Path
<1>2. PICK F : F = Free(kind, p.taken, p.count + 1, p.count + 1 + Cardinality(p.taken))
  OBVIOUS
<1>3. F = {k \in (p.count + 1)..(p.count + Cardinality(p.taken) + 1) : <<kind, k>> \notin p.taken}
  BY <1>1, <1>2 DEF Free
<1>4. PICK n : n = Min(F)
  OBVIOUS
<1>5. n \in F
  BY <1>1, <1>2, <1>4, SomeIsFree
<1>6. n \in Nat /\ <<kind, n>> \notin p.taken
  BY <1>1, <1>3, <1>5
<1>7. ClaimNext(p, kind) = [p EXCEPT !.count = n, !.taken = @ \cup {<<kind, n>>}]
  BY <1>3, <1>4 DEF ClaimNext
<1>8. QED BY <1>2, <1>4, <1>6, <1>7
-----------------------------------------------------------------------------
(* Lists of artifacts: what an update and a merge make of them. *)

LEMMA NewArtifact ==
  ASSUME NEW list \in Artifacts, Distinct(list), NEW a \in Piece, a.id \notin Ids(list),
         NEW append
  PROVE  LET new == ApplyUpdate(list, a, append)
         IN /\ new = Append(list, a) /\ new \in Artifacts /\ Distinct(new)
            /\ ToSet(new) = ToSet(list) \cup {a}
<1>1. PICK new : new = Append(list, a)
  OBVIOUS
<1>2. ApplyUpdate(list, a, append) = new
  BY <1>1 DEF ApplyUpdate
<1>3. new \in Artifacts /\ Len(new) = Len(list) + 1 /\ new[Len(list) + 1] = a
      /\ \A i \in 1..Len(list) : new[i] = list[i]
  BY <1>1, AppendProperties DEF Artifacts, Piece
<1>4. DOMAIN new = 1..(Len(list) + 1) /\ DOMAIN list = 1..Len(list) /\ Len(list) \in Nat
  BY <1>3 DEF Artifacts
<1>5. Distinct(new)
  BY <1>3, <1>4 DEF Distinct, Ids
<1>6. ToSet(new) = ToSet(list) \cup {a}
  <2>1. \A i \in DOMAIN new : new[i] \in ToSet(list) \cup {a}
    BY <1>3, <1>4 DEF ToSet
  <2>2. \A i \in DOMAIN list : list[i] \in ToSet(new)
    BY <1>3, <1>4 DEF ToSet
  <2>3. a \in ToSet(new)
    BY <1>3, <1>4 DEF ToSet
  <2>4. QED BY <2>1, <2>2, <2>3 DEF ToSet
<1>7. QED BY <1>1, <1>2, <1>3, <1>5, <1>6

LEMMA SameArtifact ==
  ASSUME NEW list \in Artifacts, Distinct(list), NEW a \in ToSet(list)
  PROVE  ApplyUpdate(list, a, FALSE) = list
<1>1. a.id \in Ids(list)
  BY DEF ToSet, Ids
<1>2. PICK i : i = CHOOSE k \in DOMAIN list : list[k].id = a.id
  OBVIOUS
<1>3. i \in DOMAIN list /\ list[i].id = a.id
  BY <1>1, <1>2 DEF Ids
<1>4. list[i] = a
  BY <1>3 DEF ToSet, Distinct
<1>5. ApplyUpdate(list, a, FALSE) = [list EXCEPT ![i] = a]
  BY <1>1, <1>2 DEF ApplyUpdate
<1>6. [list EXCEPT ![i] = a] = list
  BY <1>3, <1>4 DEF Artifacts
<1>7. QED BY <1>5, <1>6

LEMMA GrownArtifact ==
  ASSUME NEW list \in Artifacts, Distinct(list), NEW b \in ToSet(list),
         NEW a \in Piece, a.id = b.id
  PROVE  LET new == ApplyUpdate(list, a, TRUE)
             grown == Artifact(a.id, IF a.name = Unnamed THEN b.name ELSE a.name, b.pieces \o a.pieces)
         IN /\ new \in Artifacts /\ Distinct(new)
            /\ ToSet(new) = (ToSet(list) \ {b}) \cup {grown}
<1>1. a.id \in Ids(list)
  BY DEF ToSet, Ids
<1>2. PICK i : i = CHOOSE k \in DOMAIN list : list[k].id = a.id
  OBVIOUS
<1>3. i \in DOMAIN list /\ list[i].id = a.id
  BY <1>1, <1>2 DEF Ids
<1>4. list[i] = b
  BY <1>3 DEF ToSet, Distinct
<1>5. \A j \in DOMAIN list : list[j] \in Piece
  <2>1. list \in Seq(Piece)
    BY DEF Artifacts, Piece
  <2>2. QED BY <2>1
<1>6. b \in Piece
  BY <1>3, <1>4, <1>5
<1>7. PICK grown : grown = Artifact(a.id, IF a.name = Unnamed THEN b.name ELSE a.name, b.pieces \o a.pieces)
  OBVIOUS
<1>8. grown \in Piece /\ grown.id = a.id
  BY <1>6, <1>7, ConcatProperties DEF Piece, Artifact
<1>9. ApplyUpdate(list, a, TRUE)
      = [list EXCEPT ![i].pieces = @ \o a.pieces, ![i].name = IF a.name = Unnamed THEN @ ELSE a.name]
  BY <1>1, <1>2 DEF ApplyUpdate
<1>10. ApplyUpdate(list, a, TRUE) = [list EXCEPT ![i] = grown]
  <2>1. grown = [b EXCEPT !.pieces = @ \o a.pieces, !.name = IF a.name = Unnamed THEN @ ELSE a.name]
    <3>1. b.pieces \o a.pieces \in Seq(Nat)
      BY <1>6, ConcatProperties DEF Piece
    <3>2. PICK longer : longer = [b EXCEPT !.pieces = @ \o a.pieces]
      OBVIOUS
    <3>3. longer \in Piece /\ longer.id = b.id /\ longer.name = b.name
          /\ longer.pieces = b.pieces \o a.pieces
      BY <1>6, <3>1, <3>2 DEF Piece
    <3>4. PICK named : named = [longer EXCEPT !.name = IF a.name = Unnamed THEN @ ELSE a.name]
      OBVIOUS
    <3>5. named \in Piece /\ named.id = b.id /\ named.pieces = b.pieces \o a.pieces
          /\ named.name = IF a.name = Unnamed THEN b.name ELSE a.name
      BY <3>3, <3>4 DEF Piece
    <3>6. grown = named
      BY <3>5, <1>7, <1>8 DEF Piece, Artifact
    <3>7. QED BY <3>2, <3>3, <3>4, <3>6
  <2>2. QED BY <1>9, <1>3, <1>4, <2>1 DEF Artifacts
<1>11. PICK new : new = [list EXCEPT ![i] = grown]
  OBVIOUS
<1>12. new \in Artifacts
  BY <1>3, <1>8, <1>11 DEF Artifacts, Piece
<1>13. DOMAIN new = DOMAIN list /\ new[i] = grown /\ \A j \in DOMAIN list : j # i => new[j] = list[j]
  BY <1>3, <1>11 DEF Artifacts
<1>14. Distinct(new)
  BY <1>3, <1>8, <1>13 DEF Distinct
<1>15. ToSet(new) = (ToSet(list) \ {b}) \cup {grown}
  <2>1. \A j \in DOMAIN list : j # i => list[j] # b
    BY <1>3, <1>4 DEF Distinct
  <2>2. ASSUME NEW x \in ToSet(new) PROVE x \in (ToSet(list) \ {b}) \cup {grown}
    BY <2>1, <2>2, <1>13 DEF ToSet
  <2>3. ASSUME NEW x \in (ToSet(list) \ {b}) \cup {grown} PROVE x \in ToSet(new)
    BY <2>1, <2>3, <1>3, <1>4, <1>13 DEF ToSet
  <2>4. QED BY <2>2, <2>3
<1>16. QED BY <1>7, <1>10, <1>11, <1>12, <1>14, <1>15

LEMMA Together ==
  ASSUME NEW list \in Artifacts, NEW more \in Artifacts, Distinct(list), Distinct(more),
         Ids(list) \cap Ids(more) = {}
  PROVE  LET new == list \o more
         IN /\ new \in Artifacts /\ Distinct(new)
            /\ ToSet(new) = ToSet(list) \cup ToSet(more)
<1>1. PICK new : new = list \o more
  OBVIOUS
<1>2. new \in Artifacts /\ Len(new) = Len(list) + Len(more)
      /\ \A i \in 1..Len(new) : new[i] = IF i <= Len(list) THEN list[i] ELSE more[i - Len(list)]
  BY <1>1, ConcatProperties DEF Artifacts
<1>3. DOMAIN new = 1..(Len(list) + Len(more)) /\ DOMAIN list = 1..Len(list)
      /\ DOMAIN more = 1..Len(more) /\ Len(list) \in Nat /\ Len(more) \in Nat
  BY <1>2 DEF Artifacts
<1>4. Distinct(new)
  <2> SUFFICES ASSUME NEW i \in DOMAIN new, NEW j \in DOMAIN new, new[i].id = new[j].id
               PROVE  i = j
    BY DEF Distinct
  <2>1. \A k \in DOMAIN list, l \in DOMAIN more : list[k].id # more[l].id
    BY DEF Ids
  <2>2. CASE i <= Len(list) /\ j <= Len(list)
    BY <1>2, <1>3, <2>2 DEF Distinct
  <2>3. CASE i > Len(list) /\ j > Len(list)
    <3>1. i - Len(list) \in DOMAIN more /\ j - Len(list) \in DOMAIN more
      BY <1>3, <2>3
    <3>2. new[i] = more[i - Len(list)] /\ new[j] = more[j - Len(list)]
      BY <1>2, <1>3, <2>3, SMTT(30)
    <3>3. i - Len(list) = j - Len(list)
      BY <3>1, <3>2 DEF Distinct
    <3>4. QED BY <3>3, <1>3
  <2>4. CASE i <= Len(list) /\ j > Len(list)
    <3>1. i \in DOMAIN list /\ j - Len(list) \in DOMAIN more
      BY <1>3, <2>4
    <3>2. QED BY <3>1, <2>1, <2>4, <1>2, <1>3
  <2>5. CASE i > Len(list) /\ j <= Len(list)
    <3>1. j \in DOMAIN list /\ i - Len(list) \in DOMAIN more
      BY <1>3, <2>5
    <3>2. QED BY <3>1, <2>1, <2>5, <1>2, <1>3
  <2>6. QED BY <2>2, <2>3, <2>4, <2>5, <1>3
<1>5. ToSet(new) = ToSet(list) \cup ToSet(more)
  <2>1. ASSUME NEW i \in DOMAIN new PROVE new[i] \in ToSet(list) \cup ToSet(more)
    <3>1. CASE i <= Len(list)
      BY <1>2, <1>3, <3>1 DEF ToSet
    <3>2. CASE i > Len(list)
      <4>1. i - Len(list) \in DOMAIN more /\ new[i] = more[i - Len(list)]
        BY <1>2, <1>3, <3>2
      <4>2. QED BY <4>1 DEF ToSet
    <3>3. QED BY <3>1, <3>2, <1>3
  <2>2. ASSUME NEW i \in DOMAIN list PROVE list[i] \in ToSet(new)
    BY <1>2, <1>3 DEF ToSet
  <2>3. ASSUME NEW i \in DOMAIN more PROVE more[i] \in ToSet(new)
    <3>1. i + Len(list) \in DOMAIN new /\ new[i + Len(list)] = more[i]
      BY <1>2, <1>3
    <3>2. QED BY <3>1 DEF ToSet
  <2>4. QED BY <2>1, <2>2, <2>3 DEF ToSet
<1>6. QED BY <1>1, <1>2, <1>4, <1>5

\* A merge of artifacts with new ids appends them.
LEMMA MergeNew ==
  ASSUME NEW prior \in Artifacts, NEW produced \in Artifacts, Distinct(prior),
         Distinct(produced), Ids(prior) \cap Ids(produced) = {}
  PROVE  MergeArtifacts(prior, produced) = prior \o produced
<1>1. PICK N : N = Len(produced)
  OBVIOUS
<1>2. N \in Nat /\ DOMAIN produced = 1..N /\ \A i \in 1..N : produced[i] \in Piece
  <2>1. produced \in Seq(Piece)
    BY DEF Artifacts, Piece
  <2>2. QED BY <1>1, <2>1
<1>3. PICK W : W = [n \in 0..N |-> prior \o SubSeq(produced, 1, n)]
  OBVIOUS
<1>4. W[0] = prior
  BY <1>2, <1>3, ConcatEmptySeq, SubSeqEmpty DEF Artifacts
<1>5. W[N] = prior \o produced
  BY <1>1, <1>2, <1>3, SubSeqFull DEF Artifacts
<1>6. ASSUME NEW n \in 1..N PROVE W[n] = ApplyUpdate(W[n - 1], produced[n], FALSE)
  <2>1. PICK some : some = SubSeq(produced, 1, n - 1)
    OBVIOUS
  <2>2. some \in Artifacts /\ Len(some) = n - 1 /\ \A i \in 1..(n - 1) : some[i] = produced[i]
    <3>1. n - 1 \in Int /\ \A i \in 1..(n - 1) : produced[i] \in Piece
      BY <1>2
    <3>2. some \in Seq(Piece) /\ Len(some) = (IF 1 <= n - 1 THEN (n - 1) - 1 + 1 ELSE 0)
          /\ \A i \in 1..((n - 1) - 1 + 1) : some[i] = produced[1 + i - 1]
      BY <3>1, <2>1, SubSeqProperties
    <3>3. some \in Artifacts
      BY <3>2 DEF Artifacts, Piece
    <3>4. QED BY <1>2, <3>2, <3>3
  <2>3. DOMAIN some = 1..(n - 1)
    BY <2>2 DEF Artifacts
  <2>4. Distinct(some) /\ Ids(prior) \cap Ids(some) = {}
    <3>1. \A i \in DOMAIN some : i \in DOMAIN produced /\ some[i] = produced[i]
      BY <1>2, <2>2, <2>3
    <3>2. Distinct(some)
      BY <3>1 DEF Distinct
    <3>3. Ids(some) \subseteq Ids(produced)
      BY <3>1 DEF Ids
    <3>4. QED BY <3>2, <3>3
  <2>5. PICK list : list = prior \o some
    OBVIOUS
  <2>6. list \in Artifacts /\ Distinct(list) /\ ToSet(list) = ToSet(prior) \cup ToSet(some)
    BY <2>2, <2>4, <2>5, Together
  <2>7. produced[n].id \notin Ids(list)
    <3>1. \A i \in DOMAIN prior : prior[i].id # produced[n].id
      BY <1>2 DEF Ids
    <3>2. \A i \in DOMAIN some : some[i].id # produced[n].id
      BY <1>2, <2>2, <2>3 DEF Distinct
    <3>3. \A i \in DOMAIN list : list[i] \in ToSet(prior) \cup ToSet(some)
      BY <2>6 DEF ToSet
    <3>4. QED BY <3>1, <3>2, <3>3 DEF ToSet, Ids
  <2>8. ApplyUpdate(list, produced[n], FALSE) = Append(list, produced[n])
    BY <1>2, <2>6, <2>7, NewArtifact
  <2>9. SubSeq(produced, 1, n) = Append(some, produced[n])
    BY <1>1, <1>2, <2>1, SubSeqRecursiveSecond DEF Artifacts
  <2>10. prior \o Append(some, produced[n]) = Append(prior \o some, produced[n])
    <3>1. prior \in Seq(Piece) /\ some \in Seq(Piece) /\ produced[n] \in Piece
      BY <1>2, <2>2 DEF Artifacts, Piece
    <3>2. prior \o some \in Seq(Piece) /\ <<produced[n]>> \in Seq(Piece)
      BY <3>1, ConcatProperties
    <3>3. Append(prior \o some, produced[n]) = (prior \o some) \o <<produced[n]>>
      BY <3>1, <3>2, AppendIsConcat
    <3>4. Append(some, produced[n]) = some \o <<produced[n]>>
      BY <3>1, AppendIsConcat
    <3>5. QED BY <3>1, <3>2, <3>3, <3>4, ConcatAssociative
  <2>11. W[n] = prior \o SubSeq(produced, 1, n) /\ W[n - 1] = prior \o some
    <3>1. n \in 0..N /\ n - 1 \in 0..N
      BY <1>2
    <3>2. QED BY <3>1, <1>3, <2>1
  <2>12. QED BY <2>5, <2>8, <2>9, <2>10, <2>11
<1> DEFINE F(f) == f = [n \in 0..N |-> IF n = 0 THEN prior
                                       ELSE ApplyUpdate(f[n - 1], produced[n], FALSE)]
<1>7. F(W)
  <2>1. \A n \in 0..N : W[n] = IF n = 0 THEN prior ELSE ApplyUpdate(W[n - 1], produced[n], FALSE)
    <3> SUFFICES ASSUME NEW n \in 0..N, n # 0 PROVE W[n] = ApplyUpdate(W[n - 1], produced[n], FALSE)
      BY <1>4
    <3>1. n \in 1..N
      BY <1>2
    <3>2. QED BY <3>1, <1>6
  <2>2. QED BY <1>3, <2>1
<1>8. PICK f : f = CHOOSE g : F(g)
  OBVIOUS
<1>9. F(f)
  BY <1>7, <1>8
<1>10. MergeArtifacts(prior, produced) = f[N]
  BY <1>1, <1>8 DEF MergeArtifacts
<1>11. \A n \in 0..N : f[n] = W[n]
  <2>1. PICK bad : bad = {n \in 0..N : f[n] # W[n]}
    OBVIOUS
  <2> SUFFICES ASSUME bad # {} PROVE FALSE
    BY <2>1
  <2>2. PICK m \in bad : \A k \in bad : m <= k
    <3>1. bad \in SUBSET Nat
      BY <1>2, <2>1
    <3>2. QED BY <3>1, LeastIsMin
  <2>3. m # 0
    BY <1>2, <1>4, <1>9, <2>1
  <2>4. m - 1 \in 0..N /\ m \in 1..N /\ f[m - 1] = W[m - 1]
    BY <1>2, <2>1, <2>2, <2>3
  <2>5. f[m] = W[m]
    <3>1. f[m] = ApplyUpdate(f[m - 1], produced[m], FALSE)
      BY <1>9, <2>1, <2>2, <2>3
    <3>2. W[m] = ApplyUpdate(W[m - 1], produced[m], FALSE)
      BY <1>6, <2>4
    <3>3. QED BY <3>1, <3>2, <2>4
  <2>6. QED BY <2>1, <2>5
<1>12. QED BY <1>2, <1>5, <1>10, <1>11, SMTT(30)

\* Nothing is left of artifacts that are all named.
LEMMA NoneWithout ==
  ASSUME NEW list \in Artifacts, NEW named, Ids(list) \subseteq named
  PROVE  Without(list, named) = <<>>
<1>1. PICK N : N = Len(list)
  OBVIOUS
<1>2. N \in Nat /\ \A i \in 1..N : list[i].id \in named
  BY <1>1 DEF Artifacts, Ids
<1> DEFINE F(f) == f = [n \in 0..N |->
                          IF n = 0 THEN <<>>
                          ELSE IF list[n].id \in named THEN f[n - 1]
                          ELSE Append(f[n - 1], list[n])]
<1>3. PICK W : W = [n \in 0..N |-> <<>>]
  OBVIOUS
<1>4. F(W)
  <2>1. \A n \in 0..N : n # 0 => n \in 1..N /\ n - 1 \in 0..N
    BY <1>2
  <2>2. QED BY <1>2, <1>3, <2>1
<1>5. PICK f : f = CHOOSE g : F(g)
  BY Zenon
<1>6. F(f)
  BY <1>4, <1>5, Zenon
<1>7. Without(list, named) = f[N]
  BY <1>1, <1>5 DEF Without
<1>8. \A n \in 0..N : f[n] = <<>>
  <2>1. PICK bad : bad = {n \in 0..N : f[n] # <<>>}
    OBVIOUS
  <2> SUFFICES ASSUME bad # {} PROVE FALSE
    BY <2>1
  <2>2. PICK m \in bad : \A k \in bad : m <= k
    <3>1. bad \in SUBSET Nat
      BY <1>2, <2>1
    <3>2. QED BY <3>1, LeastIsMin
  <2>3. m # 0
    BY <1>2, <1>6, <2>1
  <2>4. m - 1 \in 0..N /\ m \in 1..N /\ f[m - 1] = <<>>
    BY <1>2, <2>1, <2>2, <2>3
  <2>5. f[m] = f[m - 1]
    BY <1>2, <1>6, <2>1, <2>2, <2>3, <2>4
  <2>6. QED BY <2>1, <2>4, <2>5
<1>9. QED BY <1>2, <1>7, <1>8
-----------------------------------------------------------------------------
(* The end of a turn. *)

LEMMA ClaimKeeps ==
  ASSUME NEW p \in Path, IsFiniteSet(p.taken)
  PROVE  LET q == ClaimText(p)
         IN /\ q \in Path /\ q.textId \in Id
            /\ q.textId = p.textId \/ (q.textId \notin p.taken /\ q.textId[1] = "text")
            /\ q.prior = p.prior /\ q.others = p.others /\ q.text = p.text /\ q.name = p.name
            /\ q.count = p.count /\ q.produced = p.produced /\ q.status = p.status
            /\ q.stored = p.stored /\ q.told = p.told
            /\ q.taken = p.taken \cup {q.textId} \/ q.textId = p.textId
<1>1. CASE p.textId # <<>>
  <2>1. ClaimText(p) = p
    BY <1>1 DEF ClaimText
  <2>2. QED BY <1>1, <2>1 DEF Path
<1>2. CASE p.textId = <<>>
  <2>1. PICK n \in Nat : /\ <<"text", n>> \notin p.taken
                         /\ ClaimText(p) = [p EXCEPT !.textId = <<"text", n>>,
                                                     !.taken = p.taken \cup {<<"text", n>>}]
    BY <1>2, ClaimsText
  <2>2. PICK id : id = <<"text", n>>
    OBVIOUS
  <2>3. id \in Id /\ id[1] = "text"
    <3>1. <<"text", n>> \in {"text", "file", "data"} \X Nat
      OBVIOUS
    <3>2. <<"text", n>>[1] = "text"
      OBVIOUS
    <3>3. QED BY <2>2, <3>1, <3>2 DEF Id
  <2>4. p.taken \cup {id} \in SUBSET Id
    BY <2>3 DEF Path
  <2>5. PICK q : q = [p EXCEPT !.textId = id, !.taken = p.taken \cup {id}]
    OBVIOUS
  <2>6. /\ q \in Path /\ q.textId = id /\ q.taken = p.taken \cup {id}
        /\ q.prior = p.prior /\ q.others = p.others /\ q.text = p.text /\ q.name = p.name
        /\ q.count = p.count /\ q.produced = p.produced /\ q.status = p.status
        /\ q.stored = p.stored /\ q.told = p.told
    BY <2>3, <2>4, <2>5 DEF Path
  <2>7. QED BY <2>1, <2>2, <2>3, <2>5, <2>6
<1>3. QED BY <1>1, <1>2

\* The artifacts a turn writes when it ends, its text under the id given.
Produced(p, id) ==
  IF p.text = <<>> THEN p.others ELSE Append(p.others, Artifact(id, p.name, p.text))

\* An id that neither an earlier turn nor another artifact of this one has.
IsNew(p, id) == id \in Id /\ id \notin Ids(p.prior) /\ id \notin Ids(p.others)

LEMMA ProducedFits ==
  ASSUME NEW p \in Path, IdsFit(p), NEW id, p.text # <<>> => IsNew(p, id)
  PROVE  LET made == Produced(p, id)
         IN /\ made \in Artifacts /\ Distinct(made) /\ Ids(p.prior) \cap Ids(made) = {}
            /\ ToSet(made) = ToSet(p.others) \cup
                 (IF p.text = <<>> THEN {} ELSE {Artifact(id, p.name, p.text)})
            /\ made = <<>> => p.others = <<>> /\ p.text = <<>>
            /\ p.text # <<>> => Last(made) = Artifact(id, p.name, p.text)
<1>1. p.others \in Artifacts /\ Distinct(p.others) /\ Ids(p.prior) \cap Ids(p.others) = {}
  BY DEF Path, IdsFit
<1>2. CASE p.text = <<>>
  BY <1>1, <1>2 DEF Produced
<1>3. CASE p.text # <<>>
  <2>1. PICK a : a = Artifact(id, p.name, p.text)
    OBVIOUS
  <2>2. a \in Piece /\ a.id = id
    BY <1>3, <2>1 DEF Path, Piece, Artifact, IsNew
  <2>3. PICK made : made = Append(p.others, a)
    OBVIOUS
  <2>4. Produced(p, id) = made
    BY <1>3, <2>1, <2>3 DEF Produced
  <2>5. made \in Artifacts /\ Distinct(made) /\ ToSet(made) = ToSet(p.others) \cup {a}
    BY <1>1, <1>3, <2>2, <2>3, NewArtifact DEF IsNew
  <2>6. Ids(p.prior) \cap Ids(made) = {}
    <3>1. \A i \in DOMAIN made : made[i] \in ToSet(p.others) \cup {a}
      BY <2>5 DEF ToSet
    <3>2. \A i \in DOMAIN made : made[i].id \in Ids(p.others) \cup {id}
      BY <2>2, <3>1 DEF ToSet, Ids
    <3>3. Ids(made) \subseteq Ids(p.others) \cup {id}
      BY <3>2 DEF Ids
    <3>4. QED BY <3>3, <1>1, <1>3 DEF IsNew
  <2>7. made # <<>> /\ Last(made) = a
    <3>1. p.others \in Seq(Piece)
      BY <1>1 DEF Artifacts
    <3>2. Len(made) = Len(p.others) + 1 /\ made[Len(p.others) + 1] = a /\ Len(p.others) \in Nat
      BY <3>1, <2>2, <2>3, AppendProperties
    <3>3. QED BY <3>2 DEF Last
  <2>8. QED BY <1>3, <2>1, <2>4, <2>5, <2>6, <2>7
<1>4. QED BY <1>2, <1>3

LEMMA Attaches ==
  ASSUME NEW p \in Path, IdsFit(p), NEW id, id = ClaimText(p).textId,
         p.text # <<>> => IsNew(p, id)
  PROVE  LET q == Attach(p)
         IN /\ q \in Path /\ q.produced = Produced(p, id)
            /\ q.prior = p.prior /\ q.text = p.text /\ q.status = p.status
            /\ q.stored = p.stored /\ q.told = p.told
<1>1. Produced(p, id) \in Artifacts
  BY ProducedFits
<1>2. CASE p.text = <<>>
  <2>1. PICK q : q = [p EXCEPT !.produced = Produced(p, id)]
    OBVIOUS
  <2>2. Attach(p) = q
    BY <1>2, <2>1 DEF Attach, Produced
  <2>3. QED BY <1>1, <2>1, <2>2 DEF Path
<1>3. CASE p.text # <<>>
  <2>1. PICK r : r = ClaimText(p)
    OBVIOUS
  <2>2. /\ r \in Path /\ r.textId = id /\ r.prior = p.prior /\ r.others = p.others /\ r.text = p.text
        /\ r.status = p.status /\ r.stored = p.stored /\ r.told = p.told
    BY <2>1, ClaimKeeps DEF IdsFit
  <2>3. PICK q : q = [r EXCEPT !.produced = Produced(p, id)]
    OBVIOUS
  <2>4. Attach(p) = q
    BY <1>3, <2>1, <2>2, <2>3 DEF Attach, Produced
  <2>5. /\ q \in Path /\ q.produced = Produced(p, id) /\ q.prior = r.prior /\ q.text = r.text
        /\ q.status = r.status /\ q.stored = r.stored /\ q.told = r.told
    BY <1>1, <2>2, <2>3 DEF Path
  <2>6. QED BY <2>2, <2>4, <2>5
<1>4. QED BY <1>2, <1>3

LEMMA SendEnds ==
  ASSUME NEW p \in Path, IdsFit(p), NEW id, id = ClaimText(p).textId,
         p.text # <<>> => IsNew(p, id), NEW status \in Statuses
  PROVE  LET q == EndSend(p, status)
         IN q \in Path /\ q.status = status /\ q.stored = p.prior \o Produced(p, id)
<1>1. PICK q : q = Attach(p)
  OBVIOUS
<1>2. q \in Path /\ q.produced = Produced(p, id) /\ q.prior = p.prior
  BY <1>1, Attaches
<1>3. PICK new : new = p.prior \o Produced(p, id)
  OBVIOUS
<1>4. MergeArtifacts(p.prior, q.produced) = new /\ new \in Artifacts
  <2>1. /\ p.prior \in Artifacts /\ Produced(p, id) \in Artifacts
        /\ Distinct(p.prior) /\ Distinct(Produced(p, id))
        /\ Ids(p.prior) \cap Ids(Produced(p, id)) = {}
    BY ProducedFits DEF Path, IdsFit
  <2>2. QED BY <2>1, <1>2, <1>3, MergeNew, Together
<1>5. PICK r : r = [q EXCEPT !.status = status, !.stored = new]
  OBVIOUS
<1>6. EndSend(p, status) = r
  BY <1>1, <1>4, <1>5 DEF EndSend
<1>7. r \in Path /\ r.status = status /\ r.stored = new
  BY <1>2, <1>4, <1>5 DEF Path
<1>8. QED BY <1>3, <1>6, <1>7

\* What a stream has published is what its end writes: nothing is left over.
LEMMA StreamEnds ==
  ASSUME NEW p \in Path, IdsFit(p), NEW id, id = ClaimText(p).textId,
         p.text # <<>> => IsNew(p, id) /\ p.textId = id,
         ToSet(p.stored) = Collected(p),
         (p.others = <<>> /\ p.text = <<>>) => p.stored = p.prior,
         NEW status \in Statuses
  PROVE  LET q == EndStream(p, status)
         IN q \in Path /\ q.status = status /\ q.stored = p.prior \o Produced(p, id)
            /\ q.told = p.told
<1>1. PICK q : q = Attach(p)
  OBVIOUS
<1>2. PICK made : made = Produced(p, id)
  OBVIOUS
<1>3. q \in Path /\ q.produced = made /\ q.prior = p.prior /\ q.stored = p.stored /\ q.told = p.told
  BY <1>1, <1>2, Attaches
<1>4. /\ made \in Artifacts /\ Distinct(made) /\ Ids(p.prior) \cap Ids(made) = {}
      /\ ToSet(made) = ToSet(p.others) \cup
           (IF p.text = <<>> THEN {} ELSE {Artifact(id, p.name, p.text)})
      /\ made = <<>> => p.others = <<>> /\ p.text = <<>>
  BY <1>2, ProducedFits
<1>5. p.prior \in Artifacts /\ p.stored \in Artifacts /\ Distinct(p.prior)
  BY DEF Path, IdsFit
<1>6. PICK all : all = p.prior \o made
  OBVIOUS
<1>7. MergeArtifacts(p.prior, made) = all /\ all \in Artifacts
      /\ ToSet(all) = ToSet(p.prior) \cup ToSet(made)
  BY <1>4, <1>5, <1>6, MergeNew, Together
<1>8. ToSet(p.stored) = ToSet(all)
  BY <1>4, <1>7 DEF Collected, TextOf
<1>9. Without(p.stored, Ids(all)) = <<>>
  <2>1. \A i \in DOMAIN p.stored : p.stored[i] \in ToSet(all)
    BY <1>8 DEF ToSet
  <2>2. \A x \in ToSet(all) : x.id \in Ids(all)
    BY DEF ToSet, Ids
  <2>3. Ids(p.stored) \subseteq Ids(all)
    BY <2>1, <2>2 DEF Ids
  <2>4. QED BY <2>3, <1>5, NoneWithout
<1>10. all \o <<>> = all
  BY <1>7, ConcatEmptySeq DEF Artifacts
<1>11. made = <<>> => p.stored = all
  BY <1>4, <1>5, <1>6, ConcatEmptySeq DEF Artifacts
<1>12. PICK r : r = [q EXCEPT !.status = status, !.stored = all]
  OBVIOUS
<1>13. EndStream(p, status)
       = [q EXCEPT !.status = status,
                   !.stored = IF made = <<>> THEN @ ELSE all \o Without(@, Ids(all))]
  BY <1>1, <1>3, <1>7 DEF EndStream
<1>14. EndStream(p, status) = r
  BY <1>3, <1>9, <1>10, <1>11, <1>12, <1>13 DEF Path
<1>15. r \in Path /\ r.status = status /\ r.stored = all /\ r.told = q.told
  BY <1>3, <1>7, <1>12 DEF Path
<1>16. QED BY <1>1, <1>2, <1>3, <1>6, <1>14, <1>15

\* What an update in flight changes.
LEMMA Passes ==
  ASSUME NEW p \in Path, NEW u
  PROVE  LET q == StoreUpdate(p, u)
             r == Passed(p, u)
         IN /\ q = [p EXCEPT !.stored = ApplyUpdate(p.stored, u.artifact, u.append)]
            /\ r = [p EXCEPT !.stored = ApplyUpdate(p.stored, u.artifact, u.append),
                            !.told = ApplyUpdate(p.told, u.artifact, u.append)]
            /\ q.told = p.told /\ q.status = p.status /\ q.stored = r.stored
            /\ r \in Path => q \in Path
<1>1. PICK x : x = ApplyUpdate(p.stored, u.artifact, u.append)
  OBVIOUS
<1>2. PICK y : y = ApplyUpdate(p.told, u.artifact, u.append)
  OBVIOUS
<1>3. PICK q : q = [p EXCEPT !.stored = x]
  OBVIOUS
<1>4. PICK r : r = [q EXCEPT !.told = y]
  OBVIOUS
<1>5. StoreUpdate(p, u) = q
  BY <1>1, <1>3 DEF StoreUpdate, Path
<1>6. q.told = p.told /\ q.status = p.status /\ q.stored = x
  BY <1>3 DEF Path
<1>7. PublishUpdate(q, u) = r
  BY <1>2, <1>4, <1>6, <1>3 DEF PublishUpdate, Path
<1>8. Passed(p, u) = r
  BY <1>5, <1>7 DEF Passed
<1>9. r = [p EXCEPT !.stored = x, !.told = y]
  BY <1>3, <1>4 DEF Path
<1>10. r.stored = x
  BY <1>9 DEF Path
<1>11. r \in Path => q \in Path
  <2> SUFFICES ASSUME r \in Path PROVE q \in Path
    OBVIOUS
  <2>1. x \in Artifacts
    BY <1>10 DEF Path
  <2>2. QED BY <2>1, <1>3 DEF Path
<1>12. QED BY <1>1, <1>2, <1>3, <1>5, <1>6, <1>8, <1>9, <1>10, <1>11

\* A path whose store and whose subscriber have the artifacts x.
WithBoth(p, x) == [p EXCEPT !.stored = x, !.told = x]

LEMMA PassesAs ==
  ASSUME NEW p \in Path, NEW u, NEW x, x = ApplyUpdate(p.stored, u.artifact, u.append),
         p.told = p.stored
  PROVE  Passed(p, u) = WithBoth(p, x)
<1>1. Passed(p, u) = [[p EXCEPT !.stored = ApplyUpdate(p.stored, u.artifact, u.append)]
                       EXCEPT !.told = ApplyUpdate(p.told, u.artifact, u.append)]
  BY Zenon, Passes
<1>2. QED BY <1>1, Zenon DEF WithBoth

\* The text that a completed stream yields once more changes nothing.
LEMMA WholeTextPasses ==
  ASSUME NEW p \in Path, IdsFit(p), NEW id, id = ClaimText(p).textId,
         p.text # <<>> => IsNew(p, id) /\ p.textId = id,
         ToSet(p.stored) = Collected(p), Distinct(p.stored), p.told = p.stored,
         WholeText(p) # <<>>
  PROVE  Passed(p, WholeText(p)[1]) = p
<1>1. PICK q : q = Attach(p)
  OBVIOUS
<1>2. q.produced = Produced(p, id)
  BY <1>1, Attaches
<1>3. p.text # <<>>
  BY DEF WholeText
<1>4. PICK a : a = Last(q.produced)
  OBVIOUS
<1>5. a = Artifact(id, p.name, p.text)
  BY <1>2, <1>3, <1>4, ProducedFits
<1>6. a \in ToSet(p.stored)
  BY <1>3, <1>5 DEF Collected, TextOf
<1>7. p.stored \in Artifacts
  BY DEF Path
<1>8. ApplyUpdate(p.stored, a, FALSE) = p.stored
  BY <1>6, <1>7, SameArtifact
<1>9. PICK u : u = Update(a, FALSE)
  OBVIOUS
<1>10. WholeText(p)[1] = u /\ u.artifact = a /\ u.append = FALSE
  BY <1>1, <1>3, <1>4, <1>9 DEF WholeText, Update
<1>11. ApplyUpdate(p.stored, u.artifact, u.append) = p.stored
  BY <1>8, <1>10, Zenon
<1>12. PICK x : x = p.stored
  OBVIOUS
<1>13. Passed(p, u) = WithBoth(p, x)
  BY <1>11, <1>12, PassesAs, Zenon
<1>14. WithBoth(p, x) = p
  BY <1>12 DEF Path, WithBoth
<1>15. QED BY <1>10, <1>13, <1>14, Zenon

\* Both paths have the same new id for their text.
LEMMA NamesAgree ==
  ASSUME NEW s, NEW t, NEW n, Settled(s, t, n)
  PROVE  /\ s.text # <<>> => IsNew(s, ClaimText(s).textId)
         /\ t.text # <<>> => /\ IsNew(t, ClaimText(t).textId)
                             /\ t.textId = ClaimText(t).textId
                             /\ ClaimText(t).textId = ClaimText(s).textId
<1>1. s \in Path /\ t \in Path /\ IdsFit(s) /\ IdsFit(t) /\ Alike(s, t)
  BY DEF Settled, AtWork
<1>2. PICK k \in Nat : <<"text", k>> \notin s.taken
                       /\ ClaimText(s) = [s EXCEPT !.textId = <<"text", k>>,
                                                  !.taken = s.taken \cup {<<"text", k>>}]
  BY <1>1, ClaimsText DEF IdsFit, Alike
<1>3. PICK id : id = <<"text", k>>
  OBVIOUS
<1>4. id \in Id /\ id # <<>>
  BY <1>3 DEF Id
<1>5. ClaimText(s).textId = id
  BY <1>1, <1>2, <1>3 DEF Path
<1>6. IsNew(s, id)
  BY <1>1, <1>2, <1>3, <1>4 DEF IdsFit, IsNew
<1>7. IsNew(t, id)
  BY <1>1, <1>6 DEF Alike, IsNew
<1>8. t.text # <<>> => t.textId = id
  BY <1>1, <1>5 DEF Alike
<1>9. t.text # <<>> => ClaimText(t) = t
  BY <1>4, <1>8 DEF ClaimText
<1>10. QED BY <1>5, <1>6, <1>7, <1>8, <1>9

\* What both paths have when a turn ends: the same task.
Ends(s, t, n) ==
  /\ s \in Path /\ t \in Path
  /\ s.status = t.status /\ s.status \in Finished /\ s.stored = t.stored
  /\ Kept(t.stored, n) /\ ToSet(t.told) = ToSet(t.stored)

LEMMA TurnEnds ==
  ASSUME NEW p, NEW q, NEW n, Settled(p, q, n), NEW status \in Finished
  PROVE  /\ Ends(EndSend(p, status), EndStream(q, status), n)
         /\ EndStream(q, status).told = q.told
<1>1. p \in Path /\ q \in Path /\ IdsFit(p) /\ IdsFit(q) /\ Alike(p, q)
      /\ status \in Statuses
  BY DEF Settled, AtWork, Statuses
<1>2. /\ ToSet(q.stored) = Collected(q)
      /\ (q.others = <<>> /\ q.text = <<>>) => q.stored = q.prior
      /\ q.told = q.stored /\ Distinct(q.stored)
      /\ Holds(ToSet(q.stored), n)
  BY DEF Settled, AtWork, Kept
<1>3. PICK id : id = ClaimText(p).textId
  OBVIOUS
<1>4. PICK also : also = ClaimText(q).textId
  OBVIOUS
<1>5. /\ p.text # <<>> => IsNew(p, id)
      /\ q.text # <<>> => IsNew(q, also) /\ q.textId = also /\ also = id
  BY <1>3, <1>4, NamesAgree
<1>6. PICK s : s = EndSend(p, status)
  OBVIOUS
<1>7. PICK t : t = EndStream(q, status)
  OBVIOUS
<1>8. s \in Path /\ s.status = status /\ s.stored = p.prior \o Produced(p, id)
  BY <1>1, <1>3, <1>5, <1>6, SendEnds
<1>9. t \in Path /\ t.status = status /\ t.stored = q.prior \o Produced(q, also)
      /\ t.told = q.told
  BY <1>1, <1>2, <1>4, <1>5, <1>7, StreamEnds
<1>10. Produced(p, id) = Produced(q, also)
  BY <1>1, <1>5 DEF Alike, Produced
<1>11. s.stored = t.stored
  BY <1>1, <1>8, <1>9, <1>10 DEF Alike
<1>12. Distinct(t.stored) /\ ToSet(t.stored) = Collected(q)
  <2>1. PICK made : made = Produced(q, also)
    OBVIOUS
  <2>2. /\ made \in Artifacts /\ Distinct(made) /\ Ids(q.prior) \cap Ids(made) = {}
        /\ ToSet(made) = ToSet(q.others) \cup
             (IF q.text = <<>> THEN {} ELSE {Artifact(also, q.name, q.text)})
    BY <1>1, <1>5, <2>1, ProducedFits
  <2>3. q.prior \in Artifacts /\ Distinct(q.prior)
    BY <1>1 DEF Path, IdsFit
  <2>4. Distinct(t.stored) /\ ToSet(t.stored) = ToSet(q.prior) \cup ToSet(made)
    BY <1>9, <2>1, <2>2, <2>3, Together
  <2>5. QED BY <1>5, <2>2, <2>4 DEF Collected, TextOf
<1>13. Ends(s, t, n) /\ t.told = q.told
  BY <1>2, <1>8, <1>9, <1>11, <1>12 DEF Ends, Kept
<1>14. QED BY <1>6, <1>7, <1>13

\* The update of a whole text passes without a trace.
LEMMA WholePasses ==
  ASSUME NEW p, NEW q, NEW n, Settled(p, q, n), WholeText(q) # <<>>
  PROVE  Passed(q, WholeText(q)[1]) = q
<1>1. q \in Path /\ IdsFit(q) /\ ToSet(q.stored) = Collected(q) /\ Distinct(q.stored)
      /\ q.told = q.stored
  BY DEF Settled, AtWork, Kept
<1>2. PICK id : id = ClaimText(q).textId
  OBVIOUS
<1>3. q.text # <<>> => IsNew(q, id) /\ q.textId = id
  BY <1>2, NamesAgree
<1>4. QED BY <1>1, <1>2, <1>3, WholeTextPasses
-----------------------------------------------------------------------------
(* Content that a turn collects. *)

\* A set of artifacts with one more of its own, or with one that has grown.
LEMMA HoldsNew ==
  ASSUME NEW S, NEW n \in Nat, Holds(S, n), NEW a, a.pieces = <<n + 1>>,
         \A b \in S : b.id # a.id
  PROVE  Holds(S \cup {a}, n + 1)
<1>1. DOMAIN a.pieces = {1} /\ a.pieces[1] = n + 1
  OBVIOUS
<1>2. \A b \in S : \A j \in DOMAIN b.pieces : b.pieces[j] \in 1..n
  BY DEF Holds
<1>3. \A b \in S \cup {a} : \A j \in DOMAIN b.pieces : b.pieces[j] \in 1..(n + 1)
  BY <1>1, <1>2
<1>4. \A k \in 1..(n + 1) : \E b \in S \cup {a} : \E j \in DOMAIN b.pieces : b.pieces[j] = k
  <2> SUFFICES ASSUME NEW k \in 1..(n + 1)
               PROVE  \E b \in S \cup {a} : \E j \in DOMAIN b.pieces : b.pieces[j] = k
    OBVIOUS
  <2>1. CASE k = n + 1
    BY <1>1, <2>1
  <2>2. CASE k # n + 1
    <3>1. k \in 1..n
      BY <2>2
    <3>2. QED BY <3>1 DEF Holds
  <2>3. QED BY <2>1, <2>2
<1>5. ASSUME NEW b \in S \cup {a}, NEW c \in S \cup {a}, b # c
      PROVE  /\ b.id # c.id
             /\ \A i \in DOMAIN b.pieces, j \in DOMAIN c.pieces : b.pieces[i] # c.pieces[j]
  <2>1. CASE b \in S /\ c \in S
    BY <1>5, <2>1 DEF Holds
  <2>2. CASE b = a /\ c \in S
    BY <1>1, <1>2, <2>2
  <2>3. CASE c = a /\ b \in S
    BY <1>1, <1>2, <2>3
  <2>4. QED BY <1>5, <2>1, <2>2, <2>3
<1>6. ASSUME NEW b \in S \cup {a}, NEW i \in DOMAIN b.pieces, NEW j \in DOMAIN b.pieces, i < j
      PROVE  b.pieces[i] < b.pieces[j]
  <2>1. CASE b = a
    BY <1>1, <1>6, <2>1
  <2>2. CASE b \in S
    BY <1>6, <2>2 DEF Holds
  <2>3. QED BY <2>1, <2>2
<1>7. QED BY <1>3, <1>4, <1>5, <1>6 DEF Holds

LEMMA HoldsMore ==
  ASSUME NEW S, NEW n \in Nat, Holds(S, n), NEW b \in S, b.pieces \in Seq(Nat), NEW a,
         a.pieces = Append(b.pieces, n + 1), a.id = b.id
  PROVE  Holds((S \ {b}) \cup {a}, n + 1)
<1>1. PICK R : R = S \ {b}
  OBVIOUS
<1>2. PICK m : m = Len(b.pieces)
  OBVIOUS
<1>3. /\ m \in Nat /\ DOMAIN b.pieces = 1..m /\ DOMAIN a.pieces = 1..(m + 1)
      /\ a.pieces[m + 1] = n + 1 /\ \A i \in 1..m : a.pieces[i] = b.pieces[i]
  BY <1>2, AppendProperties
<1>4. \A c \in S : \A j \in DOMAIN c.pieces : c.pieces[j] \in 1..n
  BY DEF Holds
<1>5. \A i \in 1..m : b.pieces[i] \in 1..n
  BY <1>3, <1>4
<1>6. \A c \in R \cup {a} : \A j \in DOMAIN c.pieces : c.pieces[j] \in 1..(n + 1)
  <2>1. \A j \in 1..(m + 1) : a.pieces[j] \in 1..(n + 1)
    BY <1>3, <1>5, SMTT(30)
  <2>2. \A c \in R : \A j \in DOMAIN c.pieces : c.pieces[j] \in 1..(n + 1)
    BY <1>1, <1>4
  <2>3. QED BY <2>1, <2>2, <1>3
<1>7. \A k \in 1..(n + 1) : \E c \in R \cup {a} : \E j \in DOMAIN c.pieces : c.pieces[j] = k
  <2> SUFFICES ASSUME NEW k \in 1..(n + 1)
               PROVE  \E c \in R \cup {a} : \E j \in DOMAIN c.pieces : c.pieces[j] = k
    OBVIOUS
  <2>1. CASE k = n + 1
    <3>1. m + 1 \in DOMAIN a.pieces
      BY <1>3
    <3>2. QED BY <3>1, <1>3, <2>1
  <2>2. CASE k # n + 1
    <3>1. PICK c \in S : \E j \in DOMAIN c.pieces : c.pieces[j] = k
      <4>1. k \in 1..n
        BY <2>2
      <4>2. QED BY <4>1 DEF Holds
    <3>2. CASE c = b
      <4>1. PICK j \in 1..m : b.pieces[j] = k
        BY <3>1, <3>2, <1>3
      <4>2. j \in DOMAIN a.pieces /\ a.pieces[j] = k
        BY <4>1, <1>3
      <4>3. QED BY <4>2
    <3>3. CASE c # b
      BY <3>1, <3>3, <1>1
    <3>4. QED BY <3>2, <3>3
  <2>3. QED BY <2>1, <2>2
<1>8. ASSUME NEW c \in R PROVE /\ c.id # a.id
                               /\ \A i \in DOMAIN c.pieces, j \in DOMAIN a.pieces :
                                    c.pieces[i] # a.pieces[j]
  <2>1. c \in S /\ c # b
    BY <1>1, <1>8
  <2>2. c.id # b.id /\ \A i \in DOMAIN c.pieces, j \in DOMAIN b.pieces : c.pieces[i] # b.pieces[j]
    BY <2>1 DEF Holds
  <2>3. ASSUME NEW i \in DOMAIN c.pieces, NEW j \in DOMAIN a.pieces PROVE c.pieces[i] # a.pieces[j]
    <3>1. CASE j = m + 1
      BY <1>3, <1>4, <2>1, <3>1
    <3>2. CASE j # m + 1
      <4>1. j \in 1..m
        BY <1>3, <3>2
      <4>2. QED BY <4>1, <2>2, <1>3
    <3>3. QED BY <3>1, <3>2
  <2>4. QED BY <2>2, <2>3
<1>9. ASSUME NEW c \in R \cup {a}, NEW d \in R \cup {a}, c # d
      PROVE  /\ c.id # d.id
             /\ \A i \in DOMAIN c.pieces, j \in DOMAIN d.pieces : c.pieces[i] # d.pieces[j]
  <2>1. CASE c \in R /\ d \in R
    BY <1>1, <1>9, <2>1 DEF Holds
  <2>2. CASE c = a /\ d \in R
    BY <1>8, <2>2
  <2>3. CASE d = a /\ c \in R
    BY <1>8, <2>3
  <2>4. QED BY <1>9, <2>1, <2>2, <2>3
<1>10. ASSUME NEW c \in R \cup {a}, NEW i \in DOMAIN c.pieces, NEW j \in DOMAIN c.pieces, i < j
       PROVE  c.pieces[i] < c.pieces[j]
  <2>1. CASE c = a
    <3>1. i \in 1..m /\ j \in 1..(m + 1)
      BY <1>3, <1>10, <2>1, SMTT(30)
    <3>2. CASE j = m + 1
      <4>1. a.pieces[i] \in 1..n /\ a.pieces[j] = n + 1
        BY <1>3, <1>5, <3>1, <3>2
      <4>2. a.pieces[i] < a.pieces[j]
        <5>1. \A x \in 1..n : \A y : y = n + 1 => x < y
          OBVIOUS
        <5>2. QED BY <4>1, <5>1
      <4>3. QED BY <4>2, <2>1
    <3>3. CASE j # m + 1
      <4>1. i \in DOMAIN b.pieces /\ j \in DOMAIN b.pieces
        BY <1>3, <3>1, <3>3
      <4>2. b.pieces[i] < b.pieces[j]
        BY <4>1, <1>10 DEF Holds
      <4>3. QED BY <4>1, <4>2, <1>3, <2>1
    <3>4. QED BY <3>2, <3>3
  <2>2. CASE c \in R
    BY <1>1, <1>10, <2>2 DEF Holds
  <2>3. QED BY <2>1, <2>2
<1>11. QED BY <1>1, <1>6, <1>7, <1>9, <1>10 DEF Holds

\* One more chunk of text, or one more artifact, on one path.
LEMMA CollectsText ==
  ASSUME NEW p \in Path, IdsFit(p), NEW e, e.type = "text", e.piece \in Nat, e.name \in Titles
  PROVE  LET q == Collect(p, e)
         IN /\ q \in Path /\ IdsFit(q)
            /\ q.text = Append(p.text, e.piece)
            /\ q.name = IF e.name = Unnamed THEN p.name ELSE e.name
            /\ q.prior = p.prior /\ q.taken = p.taken /\ q.count = p.count
            /\ q.textId = p.textId /\ q.others = p.others /\ q.produced = p.produced
            /\ q.status = p.status /\ q.stored = p.stored /\ q.told = p.told
<1>1. PICK text : text = Append(p.text, e.piece)
  OBVIOUS
<1>2. text \in Seq(Nat)
  BY <1>1, AppendProperties DEF Path
<1>3. PICK name : name = IF e.name = Unnamed THEN p.name ELSE e.name
  OBVIOUS
<1>4. name \in Titles
  BY <1>3 DEF Path
<1>5. PICK q : q = [p EXCEPT !.text = text, !.name = name]
  OBVIOUS
<1>6. Collect(p, e) = q
  <2>1. Collect(p, e) = [p EXCEPT !.text = Append(@, e.piece),
                                  !.name = IF e.name = Unnamed THEN @ ELSE e.name]
    BY DEF Collect
  <2>2. QED BY <2>1, <1>1, <1>3, <1>5 DEF Path
<1>7. /\ q \in Path /\ q.text = text /\ q.name = name
      /\ q.prior = p.prior /\ q.taken = p.taken /\ q.count = p.count
      /\ q.textId = p.textId /\ q.others = p.others /\ q.produced = p.produced
      /\ q.status = p.status /\ q.stored = p.stored /\ q.told = p.told
  BY <1>2, <1>4, <1>5 DEF Path
<1>8. IdsFit(q)
  BY <1>7 DEF IdsFit
<1>9. QED BY <1>1, <1>3, <1>6, <1>7, <1>8

\* A path q that has one more artifact than p, number n of its kind.
Gains(p, e, q, n) ==
  LET id == <<e.type, n>>
      a == Artifact(id, Unnamed, <<e.piece>>)
  IN /\ n = Min(Free(e.type, p.taken, p.count + 1, p.count + 1 + Cardinality(p.taken)))
     /\ id \notin p.taken /\ a \in Piece
     /\ q \in Path /\ IdsFit(q)
     /\ q.count = n /\ q.taken = p.taken \cup {id}
     /\ q.others = Append(p.others, a) /\ q.others # <<>> /\ Last(q.others) = a
     /\ ToSet(q.others) = ToSet(p.others) \cup {a}
     /\ q.prior = p.prior /\ q.text = p.text /\ q.name = p.name
     /\ q.textId = p.textId /\ q.produced = p.produced
     /\ q.status = p.status /\ q.stored = p.stored /\ q.told = p.told

LEMMA CollectsOther ==
  ASSUME NEW p \in Path, IdsFit(p), NEW e, e.type \in {"file", "data"}, e.piece \in Nat
  PROVE  \E n \in Nat : Gains(p, e, Collect(p, e), n)
<1>1. PICK n \in Nat :
        /\ n = Min(Free(e.type, p.taken, p.count + 1, p.count + 1 + Cardinality(p.taken)))
        /\ <<e.type, n>> \notin p.taken
        /\ ClaimNext(p, e.type) = [p EXCEPT !.count = n, !.taken = p.taken \cup {<<e.type, n>>}]
  BY ClaimsNext DEF IdsFit
<1>2. PICK id : id = <<e.type, n>>
  OBVIOUS
<1>3. id \in Id /\ id[1] # "text"
  BY <1>2 DEF Id
<1>4. PICK a : a = Artifact(id, Unnamed, <<e.piece>>)
  OBVIOUS
<1>5. a \in Piece /\ a.id = id
  <2>1. <<e.piece>> \in Seq(Nat)
    OBVIOUS
  <2>2. QED BY <1>3, <1>4, <2>1 DEF Piece, Artifact, Titles
<1>6. PICK r : r = [p EXCEPT !.count = n, !.taken = p.taken \cup {id}]
  OBVIOUS
<1>7. /\ r \in Path /\ r.count = n /\ r.taken = p.taken \cup {id} /\ r.others = p.others
      /\ r.prior = p.prior /\ r.text = p.text /\ r.name = p.name
      /\ r.textId = p.textId /\ r.produced = p.produced
      /\ r.status = p.status /\ r.stored = p.stored /\ r.told = p.told
  <2>1. p.taken \cup {id} \in SUBSET Id
    BY <1>3 DEF Path
  <2>2. QED BY <2>1, <1>6 DEF Path
<1>8. PICK list : list = Append(p.others, a)
  OBVIOUS
<1>9. p.others \in Artifacts /\ Distinct(p.others) /\ a.id \notin Ids(p.others)
  BY <1>1, <1>2, <1>5 DEF Path, IdsFit
<1>10. list \in Artifacts /\ Distinct(list) /\ ToSet(list) = ToSet(p.others) \cup {a}
  BY <1>5, <1>8, <1>9, NewArtifact
<1>11. list # <<>> /\ Last(list) = a
  <2>1. p.others \in Seq(Piece)
    BY <1>9 DEF Artifacts
  <2>2. Len(list) = Len(p.others) + 1 /\ list[Len(p.others) + 1] = a /\ Len(p.others) \in Nat
    BY <2>1, <1>5, <1>8, AppendProperties
  <2>3. QED BY <2>2 DEF Last
<1>12. PICK q : q = [r EXCEPT !.others = list]
  OBVIOUS
<1>13. Collect(p, e) = q
  <2>1. ClaimNext(p, e.type) = r
    BY <1>1, <1>2, <1>6
  <2>2. Collect(p, e) = [r EXCEPT !.others = Append(@, Artifact(<<e.type, r.count>>, Unnamed,
                                                                 <<e.piece>>))]
    BY <2>1 DEF Collect
  <2>3. QED BY <2>2, <1>2, <1>4, <1>7, <1>8, <1>12
<1>14. /\ q \in Path /\ q.count = n /\ q.taken = p.taken \cup {id} /\ q.others = list
       /\ q.prior = p.prior /\ q.text = p.text /\ q.name = p.name
       /\ q.textId = p.textId /\ q.produced = p.produced
       /\ q.status = p.status /\ q.stored = p.stored /\ q.told = p.told
  BY <1>7, <1>10, <1>12 DEF Path
<1>15. IdsFit(q)
  <2>1. IsFiniteSet(q.taken)
    <3>1. IsFiniteSet(p.taken)
      BY DEF IdsFit
    <3>2. IsFiniteSet(p.taken \cup {id})
      BY <3>1, FS_AddElement
    <3>3. QED BY <3>2, <1>14
  <2>2. \A i \in DOMAIN list : list[i] = a \/ \E j \in DOMAIN p.others : list[i] = p.others[j]
    BY <1>10 DEF ToSet
  <2>3. Ids(list) \subseteq Ids(p.others) \cup {id}
    BY <2>2, <1>5 DEF Ids
  <2>4. \A i \in DOMAIN list : list[i].id[1] # "text"
    BY <2>2, <1>3, <1>5 DEF IdsFit
  <2>5. Ids(p.prior) \cup Ids(list) \subseteq q.taken /\ Ids(p.prior) \cap Ids(list) = {}
    BY <2>3, <1>1, <1>2, <1>14 DEF IdsFit
  <2>6. QED BY <2>1, <2>4, <2>5, <1>10, <1>14 DEF IdsFit
<1>16. QED BY <1>1, <1>2, <1>4, <1>5, <1>8, <1>10, <1>11, <1>13, <1>14, <1>15 DEF Gains

\* The id of a text depends on the other texts' ids only.
LEMMA SameText ==
  ASSUME NEW p \in Path, IsFiniteSet(p.taken), p.textId = <<>>,
         NEW q \in Path, IsFiniteSet(q.taken), q.textId = <<>>, p.taken \subseteq q.taken,
         \A k \in Nat : <<"text", k>> \in q.taken => <<"text", k>> \in p.taken
  PROVE  ClaimText(p).textId = ClaimText(q).textId
<1>1. PICK m \in Nat : /\ m = Min(Free("text", p.taken, 1, 1 + Cardinality(p.taken)))
                       /\ ClaimText(p) = [p EXCEPT !.textId = <<"text", m>>,
                                                   !.taken = p.taken \cup {<<"text", m>>}]
  BY ClaimsText
<1>2. PICK n \in Nat : /\ n = Min(Free("text", q.taken, 1, 1 + Cardinality(q.taken)))
                       /\ ClaimText(q) = [q EXCEPT !.textId = <<"text", n>>,
                                                   !.taken = q.taken \cup {<<"text", n>>}]
  BY ClaimsText
<1>3. Min(Free("text", p.taken, 1, 1 + Cardinality(p.taken)))
      = Min(Free("text", q.taken, 1, 1 + Cardinality(q.taken)))
  BY SameIsFree
<1>4. m = n
  BY <1>1, <1>2, <1>3
<1>5. ClaimText(p).textId = <<"text", m>> /\ ClaimText(q).textId = <<"text", n>>
  BY <1>1, <1>2 DEF Path
<1>6. QED BY <1>4, <1>5

\* What both paths have when they took one more piece and its update has passed.
Grown(s, t, u) ==
  /\ Settled(s, Passed(t, u), given + 1) /\ t \in Path
  /\ s.status = send.status /\ t.status = stream.status
  /\ t.stored = stream.stored /\ t.told = stream.told

LEMMA TakesText ==
  ASSUME Settled(send, stream, given), given \in Nat,
         NEW e, e.type = "text", e.piece = given + 1, e.name \in Titles
  PROVE  Grown(Collect(send, e), Stream(stream, e), UpdateOf(Stream(stream, e), e))
<1>1. /\ send \in Path /\ stream \in Path /\ IdsFit(send) /\ IdsFit(stream)
      /\ Alike(send, stream) /\ given \in Nat /\ e.piece \in Nat
  BY DEF Settled, AtWork
<1>2. /\ ToSet(stream.stored) = Collected(stream) /\ stream.told = stream.stored
      /\ Distinct(stream.stored) /\ Holds(ToSet(stream.stored), given)
  BY DEF Settled, AtWork, Kept
<1>3. PICK s : s = Collect(send, e)
  OBVIOUS
<1>4. /\ s \in Path /\ IdsFit(s) /\ s.text = Append(send.text, e.piece)
      /\ s.name = IF e.name = Unnamed THEN send.name ELSE e.name
      /\ s.prior = send.prior /\ s.taken = send.taken /\ s.count = send.count
      /\ s.textId = send.textId /\ s.others = send.others /\ s.status = send.status
  BY <1>1, <1>3, CollectsText, SMTT(30)
<1>5. PICK q : q = Collect(stream, e)
  OBVIOUS
<1>6. /\ q \in Path /\ IdsFit(q) /\ q.text = Append(stream.text, e.piece)
      /\ q.name = IF e.name = Unnamed THEN stream.name ELSE e.name
      /\ q.prior = stream.prior /\ q.taken = stream.taken /\ q.count = stream.count
      /\ q.textId = stream.textId /\ q.others = stream.others /\ q.status = stream.status
      /\ q.stored = stream.stored /\ q.told = stream.told
  BY <1>1, <1>5, CollectsText, SMTT(30)
<1>7. PICK id : id = ClaimText(s).textId
  OBVIOUS
<1>8. id = ClaimText(send).textId
  BY <1>1, <1>4, <1>7, SameText DEF IdsFit, Alike
<1>9. id \in Id /\ id # <<>> /\ id \notin s.taken
  <2>1. id \in Id /\ (id = s.textId \/ id \notin s.taken) /\ s.textId = <<>>
    BY <1>1, <1>4, <1>7, ClaimKeeps DEF IdsFit, Alike
  <2>2. <<>> \notin Id
    BY DEF Id
  <2>3. QED BY <2>1, <2>2
<1>10. IsNew(stream, id)
  BY <1>1, <1>4, <1>9 DEF IsNew, Alike, IdsFit
<1>11. PICK r : r = ClaimText(q)
  OBVIOUS
<1>12. /\ r \in Path /\ r.textId = id /\ r.taken = send.taken \cup {id}
       /\ r.prior = q.prior /\ r.others = q.others /\ r.text = q.text /\ r.name = q.name
       /\ r.count = q.count /\ r.produced = q.produced /\ r.status = q.status
       /\ r.stored = q.stored /\ r.told = q.told
  <2>1. /\ r \in Path /\ r.textId \in Id
        /\ r.prior = q.prior /\ r.others = q.others /\ r.text = q.text /\ r.name = q.name
        /\ r.count = q.count /\ r.produced = q.produced /\ r.status = q.status
        /\ r.stored = q.stored /\ r.told = q.told
        /\ r.taken = q.taken \cup {r.textId} \/ r.textId = q.textId
    BY <1>6, <1>11, ClaimKeeps DEF IdsFit
  <2>2. CASE stream.text = <<>>
    <3>1. q.textId = <<>> /\ q.taken = send.taken
      BY <1>1, <1>6, <2>2 DEF Alike
    <3>2. r.textId = id
      BY <1>1, <1>4, <1>6, <1>7, <1>11, <3>1, SameText DEF IdsFit, Alike
    <3>3. QED BY <2>1, <3>1, <3>2, <1>9
  <2>3. CASE stream.text # <<>>
    <3>1. q.textId = id /\ q.taken = send.taken \cup {id}
      BY <1>1, <1>6, <1>8, <2>3 DEF Alike
    <3>2. r = q
      BY <1>9, <1>11, <3>1 DEF ClaimText
    <3>3. QED BY <2>1, <3>1, <3>2
  <2>4. QED BY <2>2, <2>3
<1>13. PICK a : a = Artifact(id, q.name, <<e.piece>>)
  OBVIOUS
<1>14. a \in Piece /\ a.id = id /\ a.pieces = <<given + 1>>
  <2>1. <<e.piece>> \in Seq(Nat)
    BY <1>1
  <2>2. QED BY <2>1, <1>6, <1>9, <1>13 DEF Path, Piece, Artifact
<1>15. PICK whole : whole = Artifact(id, q.name, q.text)
  OBVIOUS
<1>16. PICK list : list = ApplyUpdate(stream.stored, a, stream.text # <<>>)
  OBVIOUS
<1>17. PICK rest : rest = ToSet(stream.prior) \cup ToSet(stream.others)
  OBVIOUS
<1>18. \A x \in rest : x.id # id
  BY <1>10, <1>17 DEF IsNew, ToSet, Ids
<1>19. stream.stored \in Artifacts
  BY <1>1 DEF Path
<1>20. /\ list \in Artifacts /\ Distinct(list) /\ ToSet(list) = rest \cup {whole}
       /\ Holds(ToSet(list), given + 1)
  <2>1. CASE stream.text = <<>>
    <3>1. ToSet(stream.stored) = rest
      BY <1>2, <1>17, <2>1 DEF Collected, TextOf
    <3>2. a.id \notin Ids(stream.stored)
      BY <3>1, <1>14, <1>18 DEF ToSet, Ids
    <3>3. list \in Artifacts /\ Distinct(list) /\ ToSet(list) = rest \cup {a}
      BY <1>2, <1>14, <1>16, <1>19, <3>1, <3>2, NewArtifact
    <3>4. q.text = <<e.piece>>
      BY <1>6, <2>1
    <3>5. whole = a
      BY <3>4, <1>13, <1>15
    <3>6. Holds(rest \cup {a}, given + 1)
      BY <1>1, <1>2, <1>14, <1>18, <3>1, HoldsNew
    <3>7. QED BY <3>3, <3>5, <3>6
  <2>2. CASE stream.text # <<>>
    <3>1. PICK b : b = Artifact(id, stream.name, stream.text)
      OBVIOUS
    <3>2. b.id = id /\ b.name = stream.name /\ b.pieces = stream.text
      BY <3>1 DEF Artifact
    <3>3. ToSet(stream.stored) = rest \cup {b}
      BY <1>1, <1>2, <1>8, <1>17, <2>2, <3>1 DEF Collected, TextOf, Alike
    <3>4. (rest \cup {b}) \ {b} = rest
      BY <1>18, <3>2
    <3>5. PICK grown : grown = Artifact(a.id, IF a.name = Unnamed THEN b.name ELSE a.name,
                                        b.pieces \o a.pieces)
      OBVIOUS
    <3>6. list \in Artifacts /\ Distinct(list) /\ ToSet(list) = rest \cup {grown}
      <4>1. list = ApplyUpdate(stream.stored, a, TRUE)
        BY <1>16, <2>2
      <4>2. /\ list \in Artifacts /\ Distinct(list)
            /\ ToSet(list) = (ToSet(stream.stored) \ {b}) \cup {grown}
        <5>1. b \in ToSet(stream.stored) /\ a.id = b.id
          BY <1>14, <3>2, <3>3
        <5>2. QED BY <4>1, <5>1, <1>2, <1>14, <1>19, <3>5, GrownArtifact
      <4>3. QED BY <4>2, <3>3, <3>4
    <3>7. stream.text \in Seq(Nat)
      BY <1>1 DEF Path
    <3>8. b.pieces \o a.pieces = q.text
      BY <1>1, <1>6, <1>14, <3>2, <3>7, AppendIsConcat
    <3>9. (IF a.name = Unnamed THEN b.name ELSE a.name) = q.name
      <4>1. a.name = q.name
        BY <1>13 DEF Artifact
      <4>2. QED BY <4>1, <1>6, <3>2
    <3>10. grown = whole
      BY <1>14, <1>15, <3>5, <3>8, <3>9
    <3>11. whole.pieces = Append(b.pieces, given + 1) /\ whole.id = b.id
      BY <1>6, <1>15, <3>2 DEF Artifact
    <3>12. Holds((ToSet(stream.stored) \ {b}) \cup {whole}, given + 1)
      <4>1. b \in ToSet(stream.stored) /\ b.pieces \in Seq(Nat)
        BY <3>2, <3>3, <3>7
      <4>2. QED BY <4>1, <1>1, <1>2, <3>11, HoldsMore
    <3>13. QED BY <3>3, <3>4, <3>6, <3>10, <3>12
  <2>3. QED BY <2>1, <2>2
<1>21. PICK t : t = [r EXCEPT !.stored = list, !.told = list]
  OBVIOUS
<1>22. r = Stream(stream, e) /\ Passed(r, UpdateOf(r, e)) = t
  <2>1. r = Stream(stream, e)
    BY <1>5, <1>11 DEF Stream
  <2>2. PICK longer \in BOOLEAN : longer <=> Len(r.text) > 1
    OBVIOUS
  <2>3. longer <=> stream.text # <<>>
    <3>1. stream.text \in Seq(Nat)
      BY <1>1 DEF Path
    <3>2. Len(r.text) = Len(stream.text) + 1 /\ Len(stream.text) \in Nat
      BY <3>1, <1>1, <1>6, <1>12, AppendProperties
    <3>3. Len(stream.text) = 0 <=> stream.text = <<>>
      BY <3>1, EmptySeq
    <3>4. QED BY <2>2, <3>2, <3>3
  <2>4. PICK u : u = UpdateOf(r, e)
    OBVIOUS
  <2>5. u.artifact = a /\ u.append \in BOOLEAN /\ (u.append <=> longer)
    <3>1. u = Update(Artifact(r.textId, r.name, <<e.piece>>), Len(r.text) > 1)
      BY <2>4 DEF UpdateOf
    <3>2. Artifact(r.textId, r.name, <<e.piece>>) = a
      BY <1>12, <1>13
    <3>3. QED BY <3>1, <3>2, <2>2 DEF Update
  <2>6. ApplyUpdate(stream.stored, u.artifact, u.append) = list
    <3>1. u.append \in BOOLEAN /\ (u.append <=> stream.text # <<>>)
      BY <2>3, <2>5
    <3>2. u.append = (stream.text # <<>>)
      BY <3>1, Zenon
    <3>3. QED BY <3>2, <2>5, <1>16, Zenon
  <2>7. r.stored = stream.stored /\ r.told = stream.stored
    BY <1>2, <1>6, <1>12
  <2>8. Passed(r, u) = WithBoth(r, list)
    <3>1. r \in Path /\ r.told = r.stored
      BY <1>12, <2>7
    <3>2. list = ApplyUpdate(r.stored, u.artifact, u.append)
      BY <2>6, <2>7, Zenon
    <3>3. QED BY <3>1, <3>2, PassesAs, Zenon
  <2>9. QED BY <2>1, <2>4, <2>8, <1>21, Zenon DEF WithBoth
<1>23. /\ t \in Path /\ t.stored = list /\ t.told = list
       /\ t.textId = id /\ t.taken = send.taken \cup {id}
       /\ t.prior = q.prior /\ t.others = q.others /\ t.text = q.text /\ t.name = q.name
       /\ t.count = q.count /\ t.produced = q.produced /\ t.status = q.status
  BY <1>12, <1>20, <1>21 DEF Path
<1>24. q.text # <<>>
  <2>1. stream.text \in Seq(Nat)
    BY <1>1 DEF Path
  <2>2. Len(q.text) = Len(stream.text) + 1 /\ Len(stream.text) \in Nat
    BY <2>1, <1>1, <1>6, AppendProperties
  <2>3. QED BY <2>2
<1>25. IdsFit(t)
  <2>1. IsFiniteSet(t.taken)
    <3>1. IsFiniteSet(send.taken)
      BY <1>1 DEF IdsFit
    <3>2. IsFiniteSet(send.taken \cup {id})
      BY <3>1, FS_AddElement
    <3>3. t.taken = send.taken \cup {id}
      BY <1>23
    <3>4. QED BY <3>2, <3>3
  <2>2. q.taken \subseteq t.taken
    BY <1>1, <1>6, <1>8, <1>23 DEF Alike
  <2>3. QED BY <2>1, <2>2, <1>6, <1>23 DEF IdsFit
<1>26. Alike(s, t)
  <2>1. s.text = q.text /\ s.name = q.name
    BY <1>1, <1>4, <1>6 DEF Alike
  <2>2. QED BY <2>1, <1>1, <1>4, <1>6, <1>7, <1>23, <1>24 DEF Alike
<1>27. ToSet(t.stored) = Collected(t)
  BY <1>6, <1>15, <1>17, <1>20, <1>23, <1>24 DEF Collected, TextOf
<1>28. AtWork(s, t)
  BY <1>4, <1>23, <1>24, <1>25, <1>26, <1>27 DEF AtWork
<1>29. Settled(s, t, given + 1)
  BY <1>4, <1>20, <1>23, <1>28 DEF Settled, Kept
<1>30. QED BY <1>3, <1>4, <1>6, <1>12, <1>22, <1>29 DEF Grown

LEMMA TakesOther ==
  ASSUME Settled(send, stream, given), given \in Nat,
         NEW e, e.type \in {"file", "data"}, e.piece = given + 1
  PROVE  Grown(Collect(send, e), Stream(stream, e), UpdateOf(Stream(stream, e), e))
<1>1. /\ send \in Path /\ stream \in Path /\ IdsFit(send) /\ IdsFit(stream)
      /\ Alike(send, stream) /\ given \in Nat /\ e.piece \in Nat
  BY DEF Settled, AtWork
<1>2. /\ ToSet(stream.stored) = Collected(stream) /\ stream.told = stream.stored
      /\ Distinct(stream.stored) /\ Holds(ToSet(stream.stored), given)
  BY DEF Settled, AtWork, Kept
<1>3. PICK s : s = Collect(send, e)
  OBVIOUS
<1>4. PICK m \in Nat : Gains(send, e, s, m)
  BY <1>1, <1>3, CollectsOther
<1>5. PICK q : q = Collect(stream, e)
  OBVIOUS
<1>6. PICK n \in Nat : Gains(stream, e, q, n)
  BY <1>1, <1>5, CollectsOther
<1>7. PICK name : name = ClaimText(send).textId
  OBVIOUS
<1>8. name \in Id /\ name[1] = "text" /\ name \notin send.taken
  <2>1. name \in Id /\ (name = send.textId \/ (name \notin send.taken /\ name[1] = "text"))
    BY <1>1, <1>7, ClaimKeeps DEF IdsFit
  <2>2. send.textId \notin Id
    BY <1>1 DEF Alike, Id
  <2>3. QED BY <2>1, <2>2
<1>9. send.taken \subseteq stream.taken /\ stream.taken \subseteq send.taken \cup {name}
  BY <1>1, <1>7 DEF Alike
<1>10. m = n
  <2>1. \A k : <<e.type, k>> # name
    BY <1>8
  <2>2. \A k \in Nat : <<e.type, k>> \in stream.taken => <<e.type, k>> \in send.taken
    BY <2>1, <1>9
  <2>3. send.count = stream.count /\ send.count \in Nat
    BY <1>1 DEF Alike, Path
  <2>4. PICK c \in Nat : c = send.count + 1
    BY <2>3
  <2>5. IsFiniteSet(stream.taken)
    BY <1>1 DEF IdsFit
  <2>6. Min(Free(e.type, send.taken, c, c + Cardinality(send.taken)))
        = Min(Free(e.type, stream.taken, c, c + Cardinality(stream.taken)))
    BY <2>2, <2>5, <1>9, SameIsFree
  <2>7. QED BY <2>3, <2>4, <2>6, <1>4, <1>6 DEF Gains
<1>11. PICK id : id = <<e.type, n>>
  OBVIOUS
<1>12. id \in Id /\ id[1] # "text"
  BY <1>11 DEF Id
<1>13. PICK a : a = Artifact(id, Unnamed, <<e.piece>>)
  OBVIOUS
<1>14. a \in Piece /\ a.id = id /\ a.pieces = <<given + 1>>
  BY <1>6, <1>11, <1>13 DEF Artifact, Gains
<1>15. stream.stored \in Artifacts
  BY <1>1 DEF Path
<1>16. \A x \in ToSet(stream.stored) : x.id # id
  <2>1. \A x \in ToSet(stream.prior) \cup ToSet(stream.others) : x.id \in stream.taken
    BY <1>1 DEF IdsFit, Ids, ToSet
  <2>2. \A x \in TextOf(stream) : x.id = name
    BY <1>1, <1>7 DEF TextOf, Artifact, Alike
  <2>3. id \notin stream.taken /\ id # name
    BY <1>6, <1>8, <1>11, <1>12 DEF Gains
  <2>4. QED BY <2>1, <2>2, <2>3, <1>2 DEF Collected
<1>17. PICK list : list = ApplyUpdate(stream.stored, a, FALSE)
  OBVIOUS
<1>18. list \in Artifacts /\ Distinct(list) /\ ToSet(list) = ToSet(stream.stored) \cup {a}
  <2>1. a.id \notin Ids(stream.stored)
    BY <1>14, <1>16 DEF Ids, ToSet
  <2>2. QED BY <2>1, <1>2, <1>14, <1>15, <1>17, NewArtifact
<1>19. Holds(ToSet(list), given + 1)
  BY <1>1, <1>2, <1>14, <1>16, <1>18, HoldsNew
<1>20. PICK t : t = [q EXCEPT !.stored = list, !.told = list]
  OBVIOUS
<1>21. q = Stream(stream, e) /\ Passed(q, UpdateOf(q, e)) = t
  <2>1. q = Stream(stream, e)
    BY <1>5 DEF Stream
  <2>2. PICK u : u = UpdateOf(q, e)
    OBVIOUS
  <2>3. u.artifact = a /\ u.append = FALSE
    BY <2>2, <1>6, <1>11, <1>13 DEF UpdateOf, Update, Gains
  <2>4. q \in Path /\ q.stored = stream.stored /\ q.told = stream.stored
    BY <1>2, <1>6 DEF Gains
  <2>5. Passed(q, u) = WithBoth(q, list)
    <3>1. list = ApplyUpdate(q.stored, u.artifact, u.append)
      BY <2>3, <2>4, <1>17, Zenon
    <3>2. QED BY <2>4, <3>1, PassesAs, Zenon
  <2>6. QED BY <2>1, <2>2, <2>5, <1>20, Zenon DEF WithBoth
<1>22. /\ t \in Path /\ t.stored = list /\ t.told = list
       /\ t.textId = q.textId /\ t.taken = q.taken
       /\ t.prior = q.prior /\ t.others = q.others /\ t.text = q.text /\ t.name = q.name
       /\ t.count = q.count /\ t.produced = q.produced /\ t.status = q.status
  BY <1>6, <1>18, <1>20 DEF Path, Gains
<1>23. IdsFit(t)
  BY <1>6, <1>22 DEF IdsFit, Gains
<1>24. ClaimText(s).textId = name
  <2>1. \A k : <<"text", k>> # id
    BY <1>12
  <2>2. s.taken = send.taken \cup {id}
    BY <1>4, <1>10, <1>11 DEF Gains
  <2>3. \A k \in Nat : <<"text", k>> \in s.taken => <<"text", k>> \in send.taken
    BY <2>1, <2>2
  <2>4. send.textId = <<>> /\ s.textId = <<>> /\ IsFiniteSet(send.taken) /\ IsFiniteSet(s.taken)
    BY <1>1, <1>4 DEF Alike, IdsFit, Gains
  <2>5. QED BY <2>2, <2>3, <2>4, <1>1, <1>4, <1>7, SameText DEF Gains
<1>25. /\ s.others = Append(send.others, a) /\ s.taken = send.taken \cup {id} /\ s.count = n
       /\ s.prior = send.prior /\ s.text = send.text /\ s.name = send.name
       /\ s.textId = send.textId
       /\ t.others = Append(stream.others, a) /\ t.taken = stream.taken \cup {id} /\ t.count = n
       /\ t.prior = stream.prior /\ t.text = stream.text /\ t.name = stream.name
       /\ t.textId = stream.textId /\ ToSet(t.others) = ToSet(stream.others) \cup {a}
  BY <1>4, <1>6, <1>10, <1>11, <1>13, <1>22 DEF Gains
<1>26. Alike(s, t)
  <2>1. /\ s.prior = t.prior /\ s.others = t.others /\ s.text = t.text /\ s.name = t.name
        /\ s.count = t.count /\ s.textId = <<>>
    BY <1>1, <1>25 DEF Alike
  <2>2. t.text = <<>> => t.textId = <<>> /\ t.taken = s.taken
    BY <1>1, <1>25 DEF Alike
  <2>3. t.text # <<>> => t.textId = name /\ t.taken = s.taken \cup {t.textId}
    BY <1>1, <1>7, <1>25 DEF Alike
  <2>4. QED BY <2>1, <2>2, <2>3, <1>24 DEF Alike
<1>27. ToSet(t.stored) = Collected(t)
  BY <1>2, <1>18, <1>22, <1>25 DEF Collected, TextOf
<1>28. AtWork(s, t)
  BY <1>4, <1>6, <1>22, <1>23, <1>26, <1>27 DEF AtWork, Gains
<1>29. Settled(s, t, given + 1)
  BY <1>4, <1>18, <1>19, <1>22, <1>28 DEF Settled, Kept, Gains
<1>30. QED BY <1>3, <1>4, <1>6, <1>21, <1>29 DEF Grown, Gains
-----------------------------------------------------------------------------
(* The events an agent yields. *)

LEMMA EventShape == ASSUME NEW type PROVE IsEvent(Event(type))
<1>1. /\ Event(type).type = type /\ Event(type).role = "agent" /\ Event(type).piece = 0
      /\ Event(type).name = Unnamed /\ Event(type).call = NoCall
  BY Zenon DEF Event, Unnamed
<1>2. Event(type) = [type |-> type, role |-> "agent", piece |-> 0, name |-> Unnamed, call |-> NoCall]
  BY Zenon DEF Event, Unnamed
<1>3. QED BY <1>1, <1>2 DEF IsEvent, Titles

LEMMA ToolShape == ASSUME NEW type, NEW call PROVE IsEvent(ToolEvent(type, call))
<1>1. PICK e : e = Event(type)
  OBVIOUS
<1>2. IsEvent(e)
  BY <1>1, EventShape
<1>3. ToolEvent(type, call) = [e EXCEPT !.call = call]
  BY <1>1 DEF ToolEvent
<1>4. QED BY <1>2, <1>3 DEF IsEvent

LEMMA CustomShape == ASSUME NEW e \in CustomEvents PROVE IsEvent(e)
<1>1. CASE \E n \in Names : e = TextEvent(n)
  <2>1. PICK n \in Names : e = TextEvent(n)
    BY <1>1
  <2>2. PICK text : text = Event("text")
    OBVIOUS
  <2>3. IsEvent(text)
    BY <2>2, EventShape
  <2>4. e = [text EXCEPT !.name = n]
    BY <2>1, <2>2 DEF TextEvent
  <2>5. QED BY <2>3, <2>4 DEF IsEvent, Titles
<1>2. CASE \E t \in {"file", "data", "done", "error", "request-input"} : e = Event(t)
  BY <1>2, EventShape
<1>3. QED BY <1>1, <1>2 DEF CustomEvents
-----------------------------------------------------------------------------
(* Steps *)

LEMMA NothingKept == Kept(<<>>, 0) /\ ToSet(<<>>) = {} /\ Ids(<<>>) = {} /\ Distinct(<<>>)
BY DEF Kept, Distinct, ToSet, Holds, Ids

\* A turn begins with the artifacts of the task.
LEMMA BeginsSettled ==
  ASSUME NEW list \in Artifacts, NEW n \in Nat, Kept(list, n), IsFiniteSet(Ids(list)),
         Ids(list) \in SUBSET Id
  PROVE  LET p == BeginPath(list)
         IN Settled(p, p, n) /\ p.status = "working" /\ p.stored = list /\ p.told = list
<1>1. PICK p : p = BeginPath(list)
  OBVIOUS
<1>2. /\ p \in Path /\ p.stored = list /\ p.told = list /\ p.prior = list /\ p.others = <<>>
      /\ p.text = <<>> /\ p.taken = Ids(list) /\ p.textId = <<>> /\ p.produced = <<>>
      /\ p.status = "working"
  BY <1>1 DEF BeginPath, Path, Artifacts, Titles, Statuses
<1>3. IdsFit(p)
  BY <1>2, NothingKept DEF IdsFit, Kept
<1>4. Alike(p, p)
  BY <1>2 DEF Alike
<1>5. AtWork(p, p)
  BY <1>2, <1>3, <1>4, NothingKept DEF AtWork, Collected, TextOf
<1>6. QED BY <1>1, <1>2, <1>5 DEF Settled

LEMMA RestingShape ==
  /\ Resting.writing = <<>> /\ Resting.telling = <<>> /\ Resting.ending = "none"
  /\ Resting = [writing |-> Resting.writing, telling |-> Resting.telling, ending |-> Resting.ending]
BY DEF Resting

LEMMA RestingFlow == ASSUME pump = Resting PROVE Flow = stream
BY RestingShape DEF Flow

LEMMA InitInv == Init => Inv
<1> SUFFICES ASSUME Init PROVE Inv
  OBVIOUS
<1>1. PICK p : p = BeginPath(<<>>)
  OBVIOUS
<1>2. send = p /\ stream = p /\ given = 0 /\ agent.at = "idle" /\ pump = Resting
  BY <1>1 DEF Init, Idle
<1>3. Settled(p, p, 0) /\ p.status = "working" /\ p.stored = <<>> /\ p.told = <<>>
  <2>1. <<>> \in Artifacts /\ Ids(<<>>) \in SUBSET Id /\ IsFiniteSet(Ids(<<>>))
    BY NothingKept, FS_EmptySet DEF Artifacts
  <2>2. QED BY <1>1, <2>1, NothingKept, BeginsSettled
<1>4. TypeOK
  <2>1. host.agent \in {"llm", "custom", "remote"} /\ "agent" \in DOMAIN host
    BY DEF Init
  <2>2. "at" \in DOMAIN agent
    BY DEF Init, Idle
  <2>3. out = <<>> /\ aborted \in BOOLEAN
    BY DEF Init
  <2>4. QED BY <2>1, <2>2, <2>3, <1>2, <1>3, RestingShape DEF TypeOK, Settled
<1>5. Pumping
  BY <1>2, <1>3, RestingShape DEF Pumping, Working
<1>6. Lagging
  BY <1>2, <1>3, NothingKept DEF Lagging
<1>7. Finishing
  BY <1>2, <1>3 DEF Finishing, Finished, Working
<1>8. QED BY <1>2, <1>3, <1>4, <1>5, <1>6, <1>7, RestingFlow DEF Inv

\* What every step but a new turn leaves of the types.
Sound ==
  /\ host' = host /\ aborted' \in BOOLEAN /\ (aborted => aborted')
  /\ "at" \in DOMAIN agent'
  /\ out' = out \/ out' = <<>> \/ (out' = <<out'[1]>> /\ IsEvent(out'[1]))

LEMMA Unmoved ==
  ASSUME Inv, Sound, UNCHANGED <<given, send, stream, pump>>,
         (agent'.at = "ended") <=> (agent.at = "ended")
  PROVE  Inv'
<1>1. TypeOK'
  BY DEF Inv, TypeOK, Sound
<1>2. Pumping' /\ Lagging'
  BY DEF Inv, Pumping, Lagging, Working
<1>3. Finishing'
  BY DEF Inv, Finishing, Working, Sound
<1>4. Flow' = Flow /\ Working' = Working
  BY DEF Flow, Working
<1>5. QED BY <1>1, <1>2, <1>3, <1>4 DEF Inv

LEMMA IsWorking == ASSUME Inv, Running PROVE Working
BY DEF Inv, Pumping, Running

\* What a turn that is aborted may still do, as a relation between two states.
Hushed ==
  aborted /\ aborted' =>
    /\ session' \in {session, Append(session, UserText)} /\ given' = given
    /\ pump'.writing \in {pump.writing, <<>>} /\ pump'.ending \in {pump.ending, "none"}
    /\ stream'.stored # stream.stored => pump.writing # <<>> \/ pump.ending # "none"
    /\ stream'.told # stream.told => pump.telling # <<>>
    /\ send'.stored # send.stored => pump.ending # "none"
    /\ send'.status \in {send.status, "canceled", pump.ending}
    /\ stream'.status \in {stream.status, "canceled", pump.ending}

LEMMA CancelledShape ==
  ASSUME NEW p \in Path
  PROVE  LET q == Cancelled(p)
         IN q \in Path /\ q.status = "canceled" /\ q.stored = p.stored /\ q.told = p.told
<1>1. PICK q : q = [p EXCEPT !.status = "canceled"]
  OBVIOUS
<1>2. q \in Path /\ q.status = "canceled" /\ q.stored = p.stored /\ q.told = p.told
  BY <1>1 DEF Path, Statuses
<1>3. QED BY <1>1, <1>2 DEF Cancelled

LEMMA OverEnds == ASSUME Inv, Over PROVE agent'.at = "ended" /\ "at" \in DOMAIN agent'
BY DEF Inv, TypeOK, Over

\* What a path is when its turn is over: it was canceled, or it has everything.
Done(p, q, n) ==
  \/ q \in Path /\ q.status = "canceled" /\ q.stored = p.stored /\ q.told = p.told
  \/ q \in Path /\ q.status = pump.ending /\ q.status \in Finished /\ Kept(q.stored, n)

\* Both paths are over: they agree, or one of them was canceled.
LEMMA DoneInv ==
  ASSUME Inv, Sound, agent'.at = "ended", given' = given, pump' = Resting, Working,
         aborted => session' \in {session, Append(session, UserText)},
         pump.telling = <<>>, stream'.told = stream.told,
         Done(send, send', given), Done(stream, stream', given),
         send'.status \in Finished => pump.ending # "none",
         stream'.status \in Finished => pump.ending # "none" /\ ToSet(stream'.stored) = ToSet(stream.told),
         send'.status \in Finished /\ stream'.status \in Finished => send'.stored = stream'.stored,
         "canceled" \in {send'.status, stream'.status} => aborted
  PROVE  Inv' /\ Hushed
<1>1. "canceled" \notin Finished /\ "working" \notin Finished
  BY DEF Finished
<1>2. TypeOK'
  BY RestingShape DEF Inv, TypeOK, Sound, Done
<1>3. send'.status # "working" /\ stream'.status # "working"
  BY <1>1 DEF Done
<1>4. Pumping'
  BY <1>3, RestingShape DEF Pumping, Working
<1>5. Lagging'
  <2>1. Distinct(stream'.stored)
    BY DEF Done, Kept, Inv, Lagging
  <2>2. ToSet(stream'.told) = ToSet(stream'.stored)
    BY <1>1 DEF Done, Inv, Lagging
  <2>3. \E n \in {given' - 1, given'} : n \in Nat /\ Kept(stream'.told, n)
    BY DEF Inv, Lagging
  <2>4. QED BY <2>1, <2>2, <2>3 DEF Lagging
<1>6. Finishing'
  <2>1. send'.status \in Finished => Kept(send'.stored, given')
    BY <1>1 DEF Done
  <2>2. stream'.status \in Finished => Kept(stream'.stored, given')
    BY <1>1 DEF Done
  <2>3. send'.status # stream'.status => aborted' /\ "canceled" \in {send'.status, stream'.status}
    BY DEF Done, Sound
  <2>4. QED BY <1>3, <2>1, <2>2, <2>3 DEF Finishing, Working
<1>7. Inv'
  BY <1>2, <1>3, <1>4, <1>5, <1>6 DEF Inv, Working
<1>8. Hushed
  <2> SUFFICES ASSUME aborted, aborted' PROVE Hushed
    BY DEF Hushed
  <2>1. send'.status \in {"canceled", pump.ending} /\ stream'.status \in {"canceled", pump.ending}
    BY DEF Done
  <2>2. send'.stored # send.stored => pump.ending # "none"
    BY DEF Done
  <2>3. stream'.stored # stream.stored => pump.ending # "none"
    BY DEF Done
  <2>4. pump'.writing = <<>> /\ pump'.ending = "none"
    BY RestingShape
  <2>5. QED BY <2>1, <2>2, <2>3, <2>4 DEF Hushed
<1>9. QED BY <1>7, <1>8

\* The executor leaves an aborted turn.
LEMMA LeaveInv ==
  ASSUME Inv, Running, Leave, pump = Resting, aborted, session' = session, given' = given,
         host' = host, aborted' = aborted, out' = out \/ out' = <<>>
  PROVE  Inv' /\ Hushed
<1>1. send \in Path /\ stream \in Path
  BY DEF Inv, TypeOK
<1>2. /\ send' \in Path /\ send'.status = "canceled" /\ send'.stored = send.stored
      /\ send'.told = send.told
      /\ stream' \in Path /\ stream'.status = "canceled" /\ stream'.stored = stream.stored
      /\ stream'.told = stream.told
  BY <1>1, CancelledShape DEF Leave
<1>3. Sound /\ agent'.at = "ended" /\ pump' = Resting
  BY OverEnds DEF Leave, Sound, Inv, TypeOK
<1>4. Done(send, send', given) /\ Done(stream, stream', given) /\ "canceled" \notin Finished
  BY <1>2 DEF Done, Finished
<1>5. pump.telling = <<>> /\ Working
  BY IsWorking, RestingShape
<1>6. QED BY <1>2, <1>3, <1>4, <1>5, DoneInv

\* The executor has an end for the turn.
LEMMA ConcludeInv ==
  ASSUME Inv, Running, pump = Resting, ~aborted, given' = given, host' = host,
         aborted' = aborted, out' = out \/ out' = <<>>,
         NEW status \in Finished, NEW last \in {<<>>, WholeText(stream)}, Conclude(status, last)
  PROVE  Inv' /\ Hushed
<1>1. Working /\ Flow = stream /\ Settled(send, stream, given)
  BY IsWorking, RestingFlow DEF Inv
<1>2. UNCHANGED <<send, stream>> /\ pump' = [Resting EXCEPT !.writing = last, !.ending = status]
      /\ agent'.at = "ended" /\ "at" \in DOMAIN agent'
  BY OverEnds DEF Conclude
<1>3. /\ pump' = [writing |-> last, telling |-> <<>>, ending |-> status]
      /\ pump'.writing = last /\ pump'.telling = <<>> /\ pump'.ending = status
  BY <1>2 DEF Resting
<1>4. status # "none"
  BY DEF Finished
<1>5. TypeOK'
  BY <1>2, <1>3 DEF Inv, TypeOK
<1>6. Pumping'
  BY <1>1, <1>2, <1>3, <1>4 DEF Pumping, Working
<1>7. Lagging' /\ Finishing'
  BY <1>2, <1>3, RestingShape DEF Inv, Lagging, Finishing, Working
<1>8. Flow' = stream
  <2>1. CASE last = <<>>
    BY <1>2, <1>3, <2>1 DEF Flow
  <2>2. CASE last # <<>>
    <3>1. Flow' = Passed(stream', last[1])
      BY <1>3, <2>2 DEF Flow
    <3>2. Passed(stream, last[1]) = stream
      BY <1>1, <2>2, WholePasses
    <3>3. QED BY <1>2, <3>1, <3>2
  <2>3. QED BY <2>1, <2>2
<1>9. Inv'
  BY <1>1, <1>2, <1>5, <1>6, <1>7, <1>8 DEF Inv
<1>10. QED BY <1>9 DEF Hushed

LEMMA ReturnedInv ==
  ASSUME Inv, Running, Returned, pump = Resting, session' = session, given' = given,
         host' = host, aborted' = aborted, out' = out \/ out' = <<>>
  PROVE  Inv' /\ Hushed
<1>1. CASE aborted
  BY <1>1, LeaveInv DEF Returned
<1>2. CASE ~aborted
  BY <1>2, ConcludeInv DEF Returned, Finished
<1>3. QED BY <1>1, <1>2

LEMMA ThrownInv ==
  ASSUME Inv, Running, Thrown, pump = Resting, session' = session \/ ~aborted, given' = given,
         host' = host, aborted' = aborted, out' = out \/ out' = <<>>
  PROVE  Inv' /\ Hushed
<1>1. CASE aborted
  BY <1>1, LeaveInv DEF Thrown
<1>2. CASE ~aborted
  BY <1>2, ConcludeInv DEF Thrown, Finished
<1>3. QED BY <1>1, <1>2

LEMMA TakeContentInv ==
  ASSUME Inv, Running, pump = Resting, ~aborted, aborted' = aborted, host' = host, out' = <<>>,
         NEW e, IsEvent(e), e.type \in {"text", "file", "data"}, e.piece = given + 1,
         TakeContent(e)
  PROVE  Inv' /\ Hushed
<1>1. CASE Conflicts(send, e)
  BY <1>1, ThrownInv DEF TakeContent
<1>2. CASE ~Conflicts(send, e)
  <2>1. PICK u : u = UpdateOf(Stream(stream, e), e)
    OBVIOUS
  <2>2. /\ given' = given + 1 /\ send' = Collect(send, e) /\ stream' = Stream(stream, e)
        /\ agent' = agent /\ pump' = [Resting EXCEPT !.writing = <<u>>]
    BY <1>2, <2>1 DEF TakeContent
  <2>3. Working /\ given \in Nat /\ Settled(send, stream, given)
    BY IsWorking, RestingFlow DEF Inv, TypeOK
  <2>4. Grown(send', stream', u)
    BY <2>1, <2>2, <2>3, TakesText, TakesOther DEF IsEvent
  <2>5. pump' = [writing |-> <<u>>, telling |-> <<>>, ending |-> "none"]
    BY <2>2 DEF Resting
  <2>6. pump'.writing # <<>> /\ pump'.writing[1] = u /\ pump'.telling = <<>> /\ pump'.ending = "none"
    BY <2>5
  <2>7. Flow' = Passed(stream', u)
    BY <2>6 DEF Flow
  <2>8. send'.status = "working" /\ stream'.status = "working"
    BY <2>3, <2>4 DEF Grown, Inv, Finishing, Working
  <2>9. TypeOK'
    BY <2>2, <2>3, <2>4, <2>5, <2>6 DEF Inv, TypeOK, Grown, Settled
  <2>10. Pumping'
    BY <2>2, <2>6, <2>8 DEF Pumping, Running, Working
  <2>11. Lagging'
    <3>1. stream'.stored = stream.stored /\ stream'.told = stream.told
      BY <2>4 DEF Grown
    <3>2. Kept(stream.stored, given) /\ stream.told = stream.stored
      BY <2>3 DEF Settled, AtWork
    <3>3. given = given' - 1
      BY <2>2, <2>3
    <3>4. QED BY <2>3, <3>1, <3>2, <3>3 DEF Lagging, Kept
  <2>12. Finishing'
    BY <2>8 DEF Finishing, Finished, Working
  <2>13. Settled(send', Flow', given')
    BY <2>2, <2>4, <2>7 DEF Grown
  <2>14. Inv'
    BY <2>9, <2>10, <2>11, <2>12, <2>13 DEF Inv
  <2>15. QED BY <2>14 DEF Hushed
<1>3. QED BY <1>1, <1>2

LEMMA TakeEndingInv ==
  ASSUME Inv, Running, pump = Resting, ~aborted, aborted' = aborted, host' = host, out' = <<>>,
         NEW e, e.type \in Endings, TakeEnding(e)
  PROVE  Inv' /\ Hushed
<1>1. given' = given
  BY DEF TakeEnding
<1>2. CASE e.type = "done"
  BY <1>1, <1>2, ConcludeInv DEF TakeEnding, Finished
<1>3. CASE e.type = "error"
  BY <1>1, <1>3, ConcludeInv DEF TakeEnding, Finished
<1>4. CASE e.type = "request-input"
  BY <1>1, <1>4, ConcludeInv DEF TakeEnding, Finished
<1>5. QED BY <1>2, <1>3, <1>4 DEF Endings

LEMMA RelayInv == ASSUME Inv, Relay PROVE Inv' /\ Hushed
<1>1. Running /\ out # <<>> /\ out' = <<>> /\ host' = host /\ aborted' = aborted /\ pump = Resting
  BY DEF Relay
<1>2. CASE aborted
  <2>1. Returned /\ session' = session /\ given' = given
    BY <1>2 DEF Relay, Drop
  <2>2. QED BY <1>1, <2>1, ReturnedInv
<1>3. CASE ~aborted
  <2>1. Take
    BY <1>3 DEF Relay
  <2>2. PICK e : e = [out[1] EXCEPT !.piece =
                        IF out[1].type \in {"text", "file", "data"} THEN given + 1 ELSE 0]
    OBVIOUS
  <2>3. IsEvent(out[1])
    BY <1>1 DEF Inv, TypeOK
  <2>4. /\ IsEvent(e) /\ e.type = out[1].type
        /\ e.piece = IF out[1].type \in {"text", "file", "data"} THEN given + 1 ELSE 0
    BY <2>2, <2>3 DEF IsEvent
  <2>5. CASE e.type \in {"text", "file", "data"}
    <3>1. TakeContent(e)
      BY <2>1, <2>2, <2>4, <2>5 DEF Take
    <3>2. QED BY <1>1, <1>3, <2>4, <2>5, <3>1, TakeContentInv
  <2>6. CASE e.type \in Endings
    <3>1. TakeEnding(e)
      BY <2>1, <2>2, <2>4, <2>6 DEF Take, Endings
    <3>2. QED BY <1>1, <1>3, <2>6, <3>1, TakeEndingInv
  <2>7. CASE e.type \notin {"text", "file", "data"} \cup Endings
    <3>1. UNCHANGED <<agent, given, send, stream, pump>>
      BY <2>1, <2>2, <2>4, <2>7 DEF Take
    <3>2. Sound
      BY <1>1, <3>1 DEF Sound, Inv, TypeOK
    <3>3. QED BY <1>3, <3>1, <3>2, Unmoved DEF Hushed
  <2>8. QED BY <2>5, <2>6, <2>7
<1>4. QED BY <1>2, <1>3

\* An update passes: the paths are the same once it has.
LEMMA StoreNextInv == ASSUME Inv, StoreNext PROVE Inv' /\ Hushed
<1>1. PICK u : u = pump.writing[1]
  OBVIOUS
<1>2. /\ pump.writing # <<>> /\ stream' = StoreUpdate(stream, u)
      /\ pump' = [pump EXCEPT !.writing = <<>>, !.telling = pump.writing]
      /\ UNCHANGED <<host, session, agent, out, aborted, given, send>>
  BY <1>1 DEF StoreNext
<1>3. /\ pump = [writing |-> pump.writing, telling |-> pump.telling, ending |-> pump.ending]
      /\ stream \in Path
  BY DEF Inv, TypeOK
<1>4. /\ pump' = [writing |-> pump'.writing, telling |-> pump'.telling, ending |-> pump'.ending]
      /\ pump'.writing = <<>> /\ pump'.telling = pump.writing /\ pump'.ending = pump.ending
  BY <1>2, <1>3
<1>5. pump # Resting /\ Working
  BY <1>2, RestingShape DEF Inv, Pumping
<1>6. Flow = Passed(stream, u) /\ Settled(send, Flow, given)
  BY <1>1, <1>2, <1>5 DEF Inv, Flow
<1>7. Flow' = Passed(stream, u)
  <2>1. Flow' = PublishUpdate(stream', pump'.telling[1])
    BY <1>2, <1>4 DEF Flow
  <2>2. QED BY <1>1, <1>2, <1>4, <2>1 DEF Passed
<1>8. stream' \in Path /\ stream'.told = stream.told /\ stream'.status = stream.status
  BY <1>2, <1>3, <1>6, Passes DEF Settled
<1>9. TypeOK'
  BY <1>2, <1>4, <1>8 DEF Inv, TypeOK
<1>10. Pumping'
  BY <1>2, <1>4, <1>5 DEF Inv, Pumping, Working
<1>11. Lagging'
  BY <1>2, <1>4, <1>8 DEF Inv, Lagging
<1>12. Finishing'
  BY <1>2, <1>5, <1>8 DEF Inv, Finishing, Working, Finished
<1>13. Inv'
  BY <1>2, <1>6, <1>7, <1>9, <1>10, <1>11, <1>12 DEF Inv, Working
<1>14. QED BY <1>2, <1>4, <1>8, <1>13 DEF Hushed

LEMMA PublishNextInv == ASSUME Inv, PublishNext PROVE Inv' /\ Hushed
<1>1. PICK u : u = pump.telling[1]
  OBVIOUS
<1>2. /\ pump.telling # <<>> /\ stream' = PublishUpdate(stream, u)
      /\ pump' = [pump EXCEPT !.telling = <<>>]
      /\ UNCHANGED <<host, session, agent, out, aborted, given, send>>
  BY <1>1 DEF PublishNext
<1>3. /\ pump = [writing |-> pump.writing, telling |-> pump.telling, ending |-> pump.ending]
      /\ stream \in Path /\ pump.writing = <<>>
  BY <1>2 DEF Inv, TypeOK, Pumping
<1>4. /\ pump' = [writing |-> pump'.writing, telling |-> pump'.telling, ending |-> pump'.ending]
      /\ pump'.writing = <<>> /\ pump'.telling = <<>> /\ pump'.ending = pump.ending
  BY <1>2, <1>3
<1>5. pump # Resting /\ Working
  BY <1>2, RestingShape DEF Inv, Pumping
<1>6. Flow = stream' /\ Settled(send, Flow, given)
  BY <1>1, <1>2, <1>3, <1>5 DEF Inv, Flow
<1>7. Flow' = stream'
  BY <1>4 DEF Flow
<1>8. stream' \in Path /\ stream'.stored = stream.stored /\ stream'.status = stream.status
  <2>1. PICK y : y = ApplyUpdate(stream.told, u.artifact, u.append)
    OBVIOUS
  <2>2. stream' = [stream EXCEPT !.told = y]
    BY <1>2, <2>1 DEF PublishUpdate
  <2>3. QED BY <1>3, <1>6, <2>2 DEF Settled, Path
<1>9. TypeOK'
  BY <1>2, <1>4, <1>8 DEF Inv, TypeOK
<1>10. Pumping'
  BY <1>2, <1>3, <1>4, <1>5 DEF Inv, Pumping, Working
<1>11. Lagging'
  <2>1. stream'.told = stream'.stored /\ Kept(stream'.stored, given)
    BY <1>6 DEF Settled, AtWork
  <2>2. given' = given /\ given \in Nat
    BY <1>2 DEF Inv, TypeOK
  <2>3. QED BY <2>1, <2>2 DEF Lagging, Kept
<1>12. Finishing'
  BY <1>2, <1>5, <1>8 DEF Inv, Finishing, Working, Finished
<1>13. Inv'
  BY <1>2, <1>6, <1>7, <1>9, <1>10, <1>11, <1>12 DEF Inv, Working
<1>14. QED BY <1>2, <1>3, <1>4, <1>8, <1>13 DEF Hushed

\* The last write of a path: it ends as it was about to, or as canceled.
LEMMA WritesLast ==
  ASSUME NEW p \in Path, NEW ended, NEW q \in LastWrite(p, ended)
  PROVE  \/ q = ended
         \/ aborted /\ q \in Path /\ q.status = "canceled" /\ q.stored = p.stored /\ q.told = p.told
BY CancelledShape DEF LastWrite

LEMMA EndInv == ASSUME Inv, End PROVE Inv' /\ Hushed
<1>1. PICK status : status = pump.ending
  OBVIOUS
<1>2. /\ status # "none" /\ pump.writing = <<>> /\ pump.telling = <<>> /\ pump' = Resting
      /\ UNCHANGED <<host, session, agent, out, aborted, given>>
  BY <1>1 DEF End
<1>3. status \in Finished /\ agent.at = "ended" /\ Working
  BY <1>1, <1>2 DEF Inv, Pumping
<1>4. Flow = stream /\ Settled(send, stream, given) /\ send \in Path /\ stream \in Path
  BY <1>2, <1>3 DEF Flow, Inv, TypeOK
<1>5. PICK s : s = EndSend(send, status)
  OBVIOUS
<1>6. PICK t : t = EndStream(stream, status)
  OBVIOUS
<1>7. Ends(s, t, given) /\ t.told = stream.told /\ s.status = status
  <2>1. Ends(s, t, given) /\ t.told = stream.told
    BY <1>3, <1>4, <1>5, <1>6, TurnEnds
  <2>2. s.status = status
    <3>1. PICK a : a = Attach(send)
      OBVIOUS
    <3>2. s = [a EXCEPT !.status = status, !.stored = MergeArtifacts(send.prior, a.produced)]
      BY <1>5, <3>1 DEF EndSend
    <3>3. a \in Path
      <4>1. IdsFit(send)
        BY <1>4 DEF Settled, AtWork
      <4>2. QED BY <1>4, <3>1, <4>1, NamesAgree, Attaches
    <3>4. QED BY <3>2, <3>3 DEF Path
  <2>3. QED BY <2>1, <2>2
<1>8. \/ send' = s
      \/ aborted /\ send' \in Path /\ send'.status = "canceled" /\ send'.stored = send.stored
         /\ send'.told = send.told
  BY <1>1, <1>4, <1>5, WritesLast DEF End
<1>9. \/ stream' = t
      \/ aborted /\ stream' \in Path /\ stream'.status = "canceled"
         /\ stream'.stored = stream.stored /\ stream'.told = stream.told
  BY <1>1, <1>4, <1>6, WritesLast DEF End
<1>10. Sound /\ "canceled" \notin Finished
  BY <1>2 DEF Sound, Inv, TypeOK, Finished
<1>11. /\ s \in Path /\ t \in Path /\ s.status = t.status /\ s.stored = t.stored
       /\ Kept(t.stored, given) /\ ToSet(t.told) = ToSet(t.stored)
  BY <1>7 DEF Ends
<1>12. Done(send, send', given) /\ Done(stream, stream', given)
  BY <1>1, <1>3, <1>7, <1>8, <1>9, <1>11 DEF Done
<1>13. stream'.told = stream.told
  BY <1>7, <1>9
<1>14. /\ send'.status \in Finished => send' = s
       /\ stream'.status \in Finished => stream' = t
       /\ "canceled" \in {send'.status, stream'.status} => aborted
  BY <1>3, <1>7, <1>8, <1>9, <1>10, <1>11
<1>15. QED BY <1>1, <1>2, <1>3, <1>7, <1>10, <1>11, <1>12, <1>13, <1>14, DoneInv

LEMMA OvertakenInv == ASSUME Inv, Overtaken PROVE Inv' /\ Hushed
<1>1. /\ aborted /\ pump' = Resting /\ stream' = Cancelled(stream)
      /\ UNCHANGED <<host, session, out, aborted, given>>
      /\ agent'.at = "ended" /\ "at" \in DOMAIN agent'
  BY OverEnds DEF Overtaken
<1>2. pump.telling = <<>> /\ Working
  <2>1. CASE At("started")
    BY <2>1, RestingShape, IsWorking DEF At, Running
  <2>2. CASE pump.writing # <<>>
    <3>1. pump # Resting
      BY <2>2, RestingShape
    <3>2. QED BY <2>2, <3>1 DEF Inv, Pumping
  <2>3. QED BY <2>1, <2>2 DEF Overtaken
<1>3. send \in Path /\ stream \in Path /\ Settled(send, Flow, given)
  BY <1>2 DEF Inv, TypeOK
<1>4. /\ stream' \in Path /\ stream'.status = "canceled" /\ stream'.stored = stream.stored
      /\ stream'.told = stream.told
  BY <1>1, <1>3, CancelledShape
<1>5. \/ send' \in Path /\ send'.status = "canceled" /\ send'.stored = send.stored
         /\ send'.told = send.told
      \/ pump.ending # "none" /\ send' = EndSend(send, pump.ending)
  <2>1. CASE pump.ending = "none"
    BY <1>3, <2>1, CancelledShape DEF Overtaken
  <2>2. CASE pump.ending # "none"
    <3>1. send' \in LastWrite(send, EndSend(send, pump.ending))
      BY <2>2 DEF Overtaken
    <3>2. QED BY <1>3, <2>2, <3>1, WritesLast
  <2>3. QED BY <2>1, <2>2
<1>6. Sound /\ "canceled" \notin Finished
  BY <1>1 DEF Sound, Inv, TypeOK, Finished
<1>7. Done(stream, stream', given)
  BY <1>4 DEF Done
<1>8. Done(send, send', given) /\ (send'.status \in Finished => pump.ending # "none")
  <2>1. CASE send' \in Path /\ send'.status = "canceled" /\ send'.stored = send.stored
             /\ send'.told = send.told
    BY <1>6, <2>1 DEF Done
  <2>2. CASE pump.ending # "none" /\ send' = EndSend(send, pump.ending)
    <3>1. pump.ending \in Finished
      BY <2>2 DEF Inv, Pumping
    <3>2. PICK t : t = EndStream(Flow, pump.ending)
      OBVIOUS
    <3>3. Ends(send', t, given)
      BY <1>3, <2>2, <3>1, <3>2, TurnEnds
    <3>4. IdsFit(send) /\ pump.ending \in Statuses
      BY <1>3, <3>1 DEF Settled, AtWork, Statuses
    <3>5. send'.status = pump.ending
      BY <1>3, <2>2, <3>4, NamesAgree, SendEnds
    <3>6. QED BY <2>2, <3>1, <3>3, <3>5 DEF Done, Ends
  <2>3. QED BY <1>5, <2>1, <2>2
<1>9. QED BY <1>1, <1>2, <1>4, <1>6, <1>7, <1>8, DoneInv

LEMMA StartTurnInv == ASSUME Inv, NEW kept, StartTurn(kept) PROVE Inv' /\ Hushed
<1>1. PICK resumed \in BOOLEAN :
        resumed <=> send.status = "input-required" /\ stream.status = "input-required"
  OBVIOUS
<1>2. PICK p : p = IF resumed THEN send.stored ELSE <<>>
  OBVIOUS
<1>3. resumed => stream.stored = send.stored
  BY <1>1 DEF Inv, Finishing, Finished
<1>4. /\ send' = BeginPath(p) /\ stream' = BeginPath(p)
      /\ given' = IF resumed THEN given ELSE 0
      /\ aborted' = FALSE /\ out' = out /\ pump' = pump /\ pump = Resting
      /\ host' = [host EXCEPT !.turns = @ + 1]
      /\ agent' = [Idle EXCEPT !.at = "created", !.used = IF kept THEN agent.used ELSE 0]
  BY <1>1, <1>2, <1>3 DEF StartTurn
<1>5. /\ p \in Artifacts /\ Kept(p, given') /\ given' \in Nat
  <2>1. CASE resumed
    BY <1>1, <1>2, <1>4, <2>1 DEF Inv, TypeOK, Finishing, Finished, Path
  <2>2. CASE ~resumed
    BY <1>2, <1>4, <2>2, NothingKept DEF Artifacts
  <2>3. QED BY <2>1, <2>2
<1>6. PICK q : q = BeginPath(p)
  OBVIOUS
<1>7. Ids(p) \in SUBSET Id /\ IsFiniteSet(Ids(p))
  <2>1. PICK n \in Nat : n = Len(p) /\ DOMAIN p = 1..n /\ \A i \in 1..n : p[i].id \in Id
    <3>1. p \in Seq(Piece)
      BY <1>5 DEF Artifacts
    <3>2. Len(p) \in Nat /\ DOMAIN p = 1..Len(p) /\ \A i \in 1..Len(p) : p[i] \in Piece
      BY <3>1
    <3>3. \A x \in Piece : x.id \in Id
      BY DEF Piece
    <3>4. QED BY <3>2, <3>3
  <2>2. PICK f : f = [i \in 1..n |-> p[i].id]
    OBVIOUS
  <2>3. f \in Surjection(1..n, Ids(p))
    BY <2>1, <2>2 DEF Surjection, Ids
  <2>4. IsFiniteSet(1..n)
    BY FS_Interval
  <2>5. IsFiniteSet(Ids(p))
    BY <2>3, <2>4, FS_Surjection
  <2>6. QED BY <2>1, <2>5 DEF Ids
<1>8. Settled(q, q, given') /\ q.status = "working" /\ q.stored = p /\ q.told = p
  BY <1>5, <1>6, <1>7, BeginsSettled
<1>9. TypeOK'
  <2>1. host'.agent = host.agent /\ "agent" \in DOMAIN host'
    BY <1>4 DEF Inv, TypeOK
  <2>2. "at" \in DOMAIN agent'
    BY <1>4 DEF Idle
  <2>3. QED BY <2>1, <2>2, <1>4, <1>5, <1>6, <1>8 DEF Inv, TypeOK, Settled
<1>10. agent'.at # "ended"
  BY <1>4 DEF Idle
<1>11. pump' = Resting /\ Flow' = stream'
  BY <1>4, RestingShape DEF Flow
<1>12. Pumping'
  BY <1>4, <1>6, <1>8, <1>10, RestingShape DEF Pumping, Working
<1>13. Lagging'
  BY <1>4, <1>5, <1>6, <1>8 DEF Lagging, Kept
<1>14. Finishing'
  BY <1>4, <1>6, <1>8 DEF Finishing, Finished, Working
<1>15. Inv'
  BY <1>4, <1>6, <1>8, <1>9, <1>11, <1>12, <1>13, <1>14 DEF Inv
<1>16. QED BY <1>4, <1>15 DEF Hushed

LEMMA BeginInv == ASSUME Inv, Begin PROVE Inv' /\ Hushed
<1>1. Running /\ pump = Resting /\ UNCHANGED <<host, session, out, aborted, given>>
  BY DEF Begin, At, Running
<1>2. CASE aborted
  BY <1>1, <1>2, ReturnedInv DEF Begin
<1>3. CASE ~aborted
  <2>1. UNCHANGED <<send, stream, pump>> /\ agent' = [agent EXCEPT !.at = "started"]
    BY <1>3 DEF Begin, Go
  <2>2. "at" \in DOMAIN agent' /\ agent'.at # "ended"
    BY <2>1 DEF Inv, TypeOK
  <2>3. QED BY <1>1, <1>3, <2>1, <2>2, Unmoved DEF Sound, Hushed, Inv, TypeOK, Running
<1>4. QED BY <1>2, <1>3

LEMMA RunAsyncInv == ASSUME Inv, RunAsync PROVE Inv' /\ Hushed
<1>1. /\ Running /\ UNCHANGED <<host, out, aborted, given, send, stream, pump>>
      /\ session' = Append(session, UserText)
      /\ agent' = [agent EXCEPT !.at = IF host.agent = "llm" THEN "setup" ELSE host.agent]
  BY DEF RunAsync, At, Running, Go
<1>2. "at" \in DOMAIN agent' /\ agent'.at # "ended"
  BY <1>1 DEF Inv, TypeOK
<1>3. Sound
  BY <1>1, <1>2 DEF Sound, Inv, TypeOK
<1>4. QED BY <1>1, <1>2, <1>3, Unmoved DEF Hushed, Running

\* A step in which the agent moves on and may yield an event.
LEMMA AgentMoves ==
  ASSUME Inv, Running, UNCHANGED <<host, session, given, send, stream, pump>>, aborted' \in BOOLEAN, aborted => aborted',
         "at" \in DOMAIN agent', agent'.at # "ended",
         out' = out \/ \E e : out' = <<e>> /\ IsEvent(e)
  PROVE  Inv' /\ Hushed
<1>1. Sound
  BY DEF Sound
<1>2. agent.at # "ended"
  BY DEF Running
<1>3. QED BY <1>1, <1>2, Unmoved DEF Hushed, Inv, TypeOK

LEMMA AbortInv == ASSUME Inv, Abort PROVE Inv' /\ Hushed
<1>1. Sound
  BY DEF Sound, Abort, Inv, TypeOK
<1>2. QED BY <1>1, Unmoved DEF Abort, Hushed

LEMMA LlmInv == ASSUME Inv, LlmNext PROVE Inv' /\ Hushed
<1>1. "at" \in DOMAIN agent
  BY DEF Inv, TypeOK
<1>2. aborted \in BOOLEAN
  BY DEF Inv, TypeOK
<1>3. CASE LeaveLoop
  BY <1>3, ReturnedInv DEF LeaveLoop, At, Running
<1>4. CASE SetUp \/ Ask \/ CallModel \/ TellResults
  <2>1. "at" \in DOMAIN agent' /\ agent'.at # "ended"
    BY <1>1, <1>4 DEF SetUp, Ask, CallModel, TellResults, Go
  <2>2. Running /\ UNCHANGED <<host, session, given, send, stream, pump, aborted, out>>
    BY <1>4 DEF SetUp, Ask, CallModel, TellResults, At, Running, Quietly
  <2>3. QED BY <1>2, <2>1, <2>2, AgentMoves
<1>5. CASE Fail \/ ReachLimit
  <2>1. Running /\ UNCHANGED <<host, session, agent, given, send, stream, pump, aborted>>
    BY <1>5 DEF Fail, ReachLimit, At, Running
  <2>2. \E e : out' = <<e>> /\ IsEvent(e)
    BY <1>5, EventShape, SMTT(30) DEF Fail, ReachLimit, Yield
  <2>3. QED BY <1>1, <1>2, <2>1, <2>2, AgentMoves DEF Running
<1>6. CASE \/ \E r \in Interceptions : Intercept(r)
           \/ \E r \in Replies : ModelReplies(r)
  <2>1. \E r : "at" \in DOMAIN Answered(r) /\ Answered(r).at = "emit"
               /\ (agent' = [Answered(r) EXCEPT !.intercepted = @ + 1]
                   \/ agent' = [Answered(r) EXCEPT !.calls = @ + 1])
    BY <1>1, <1>6, Zenon DEF Intercept, ModelReplies, Answered
  <2>2. "at" \in DOMAIN agent' /\ agent'.at # "ended"
    BY <2>1
  <2>3. Running /\ UNCHANGED <<host, session, given, send, stream, pump, aborted, out>>
    BY <1>6 DEF Intercept, ModelReplies, At, Running, Quietly
  <2>4. QED BY <1>2, <2>2, <2>3, AgentMoves
<1>7. CASE Emit
  <2>1. Running /\ UNCHANGED <<host, session, given, send, stream, pump, aborted>>
        /\ agent.at = "emit" /\ agent' = [agent EXCEPT !.content = Tail(@)]
    BY <1>7 DEF Emit, At, Running
  <2>2. "at" \in DOMAIN agent' /\ agent'.at = "emit"
    BY <1>1, <2>1
  <2>3. \E e : out' = <<e>> /\ IsEvent(e)
    BY <1>7, EventShape DEF Emit, Yield
  <2>4. QED BY <1>2, <2>1, <2>2, <2>3, AgentMoves
<1>8. CASE Respond
  <2>1. Running /\ UNCHANGED <<host, session, given, send, stream, pump, aborted>> /\ agent.at = "emit"
    BY <1>8 DEF Respond, At, Running
  <2>2. CASE agent.asked = <<>>
    <3>1. agent' = agent /\ \E e : out' = <<e>> /\ IsEvent(e)
      BY <1>8, <2>2, EventShape DEF Respond, Yield
    <3>2. QED BY <1>1, <1>2, <2>1, <3>1, AgentMoves
  <2>3. CASE agent.asked # <<>>
    <3>1. out' = out /\ "at" \in DOMAIN agent' /\ agent'.at # "ended"
      BY <1>1, <1>8, <2>3 DEF Respond
    <3>2. QED BY <1>2, <2>1, <3>1, AgentMoves
  <2>4. QED BY <2>2, <2>3
<1>9. CASE BeginTool \/ EndTool
  <2>1. Running /\ UNCHANGED <<host, session, given, send, stream, pump, aborted>>
    BY <1>9 DEF BeginTool, EndTool, At, Running
  <2>2. "at" \in DOMAIN agent' /\ agent'.at # "ended"
    BY <1>1, <1>9 DEF BeginTool, EndTool, Go
  <2>3. \E e : out' = <<e>> /\ IsEvent(e)
    BY <1>9, ToolShape DEF BeginTool, EndTool, Yield
  <2>4. QED BY <1>2, <2>1, <2>2, <2>3, AgentMoves
<1>10. QED BY <1>3, <1>4, <1>5, <1>6, <1>7, <1>8, <1>9 DEF LlmNext

LEMMA OtherInv == ASSUME Inv, OtherNext PROVE Inv' /\ Hushed
<1>1. "at" \in DOMAIN agent /\ aborted \in BOOLEAN
  BY DEF Inv, TypeOK
<1>2. CASE CustomReturns
  BY <1>2, ReturnedInv DEF CustomReturns, At, Running
<1>3. CASE RunThrows
  BY <1>3, ThrownInv DEF RunThrows, At, Running
<1>4. CASE \E e \in CustomEvents : CustomYields(e)
  <2>1. Running /\ UNCHANGED <<host, session, agent, given, send, stream, pump, aborted>>
    BY <1>4 DEF CustomYields, At, Running
  <2>2. \E e : out' = <<e>> /\ IsEvent(e)
    BY <1>4, CustomShape DEF CustomYields, Yield
  <2>3. QED BY <1>1, <2>1, <2>2, AgentMoves DEF Running
<1>5. CASE \E failed \in BOOLEAN : RemoteEnds(failed)
  <2>1. Running /\ UNCHANGED <<host, session, agent, given, send, stream, pump, aborted>>
    BY <1>5 DEF RemoteEnds, At, Running
  <2>2. \E e : out' = <<e>> /\ IsEvent(e)
    BY <1>5, EventShape DEF RemoteEnds, Yield
  <2>3. QED BY <1>1, <2>1, <2>2, AgentMoves DEF Running
<1>6. CASE RemoteListens \/ \E n \in 1..2 : RemoteUpdate(n)
  <2>1. Running /\ UNCHANGED <<host, session, given, send, stream, pump, aborted, out>>
    BY <1>6 DEF RemoteListens, RemoteUpdate, At, Running, Quietly
  <2>2. "at" \in DOMAIN agent' /\ agent'.at # "ended"
    BY <1>1, <1>6 DEF RemoteListens, RemoteUpdate, Go
  <2>3. QED BY <1>1, <2>1, <2>2, AgentMoves
<1>7. QED BY <1>2, <1>3, <1>4, <1>5, <1>6 DEF OtherNext

LEMMA NextInv == ASSUME Inv, [Next]_vars PROVE Inv' /\ [Hushed]_vars
<1>1. CASE Next
  BY <1>1, StartTurnInv, BeginInv, RunAsyncInv, RelayInv, StoreNextInv, PublishNextInv, EndInv,
     AbortInv, OvertakenInv, LlmInv, OtherInv DEF Next, RunnerNext
<1>2. CASE UNCHANGED vars
  <2>1. Sound
    BY <1>2 DEF vars, Sound, Inv, TypeOK
  <2>2. Inv'
    BY <1>2, <2>1, Unmoved DEF vars
  <2>3. QED BY <1>2, <2>2
<1>3. QED BY <1>1, <1>2
-----------------------------------------------------------------------------
(* Theorems *)

(* The inductive invariant: while a turn is at work both paths have collected *)
(* the same, and the stream has stored and published it once the update in    *)
(* flight has passed; when it has ended they agree.                           *)
THEOREM TurnsInv == Spec => []Inv
<1>1. Inv /\ [Next]_vars => Inv'
  BY NextInv
<1>2. QED BY <1>1, InitInv, PTL DEF Spec

(* PathsAgree: message/send and message/stream make the same of a turn, and a *)
(* subscriber of the stream has what the store has, unless the status of a     *)
(* cancel overtakes the last write of one of them.                             *)
THEOREM BothPathsAgree == Spec => []PathsAgree
<1>1. Inv => PathsAgree
  <2> SUFFICES ASSUME Inv, send.status \in Finished \/ stream.status \in Finished,
                      send.status = stream.status
               PROVE  send.stored = stream.stored /\ ToSet(stream.told) = ToSet(stream.stored)
    BY DEF Inv, Finishing, PathsAgree
  <2>1. ~Working
    BY DEF Working, Finished
  <2>2. pump.telling = <<>>
    BY <2>1, RestingShape DEF Inv, Pumping
  <2>3. QED BY <2>2 DEF Inv, Lagging, Finishing
<1>2. QED BY <1>1, TurnsInv, PTL

(* ContentOnce: no piece of content is lost, doubled or out of order, whatever *)
(* turns, files, texts, failures and aborts come together.                    *)
THEOREM EachPieceOnce == Spec => []ContentOnce
<1>1. ASSUME NEW list, NEW n \in Nat, Kept(list, n)
      PROVE  HoldsAll(list, n)
  <2>1. \A i \in DOMAIN list : list[i] \in ToSet(list)
    BY DEF ToSet
  <2>2. UNION {ToSet(list[i].pieces) : i \in DOMAIN list} = 1..n
    <3>1. ASSUME NEW i \in DOMAIN list, NEW j \in DOMAIN list[i].pieces
          PROVE  list[i].pieces[j] \in 1..n
      BY <1>1, <2>1 DEF Holds, Kept
    <3>2. ASSUME NEW k \in 1..n
          PROVE  \E i \in DOMAIN list : k \in ToSet(list[i].pieces)
      <4>1. PICK a \in ToSet(list) : \E j \in DOMAIN a.pieces : a.pieces[j] = k
        BY <1>1, <3>2 DEF Holds, Kept
      <4>2. PICK i \in DOMAIN list : list[i] = a
        BY DEF ToSet
      <4>3. QED BY <4>1, <4>2 DEF ToSet
    <3>3. QED BY <3>1, <3>2 DEF ToSet
  <2>3. ASSUME NEW i \in DOMAIN list, NEW j \in DOMAIN list, i # j
        PROVE  /\ list[i].id # list[j].id
               /\ ToSet(list[i].pieces) \cap ToSet(list[j].pieces) = {}
    <3>1. list[i].id # list[j].id
      BY <1>1, <2>3 DEF Distinct, Kept
    <3>2. \A k \in DOMAIN list[i].pieces, l \in DOMAIN list[j].pieces :
            list[i].pieces[k] # list[j].pieces[l]
      BY <1>1, <2>1, <3>1 DEF Holds, Kept
    <3>3. QED BY <3>1, <3>2 DEF ToSet
  <2>4. \A i \in DOMAIN list : \A j, k \in DOMAIN list[i].pieces :
          j < k => list[i].pieces[j] < list[i].pieces[k]
    BY <1>1, <2>1 DEF Holds, Kept
  <2>5. QED BY <2>2, <2>3, <2>4 DEF HoldsAll
<1>2. Inv => ContentOnce
  <2> SUFFICES ASSUME Inv PROVE ContentOnce
    OBVIOUS
  <2>1. PICK n \in {given - 1, given} : n \in Nat /\ Kept(stream.told, n)
    BY DEF Inv, Lagging
  <2>2. given \in Nat
    BY DEF Inv, TypeOK
  <2>3. send.status \in Finished => HoldsAll(send.stored, given)
    BY <1>1, <2>2 DEF Inv, Finishing
  <2>4. CASE pump.telling # <<>>
    <3>1. pump # Resting /\ pump.writing = <<>>
      BY <2>4, RestingShape DEF Inv, Pumping
    <3>2. Working /\ Settled(send, Flow, given) /\ Flow = PublishUpdate(stream, pump.telling[1])
      BY <2>4, <3>1 DEF Inv, Pumping, Flow
    <3>3. Flow.stored = stream.stored
      BY <3>2 DEF PublishUpdate, Inv, TypeOK, Path
    <3>4. HoldsAll(stream.stored, given) /\ HoldsAll(stream.told, n)
      BY <1>1, <2>1, <2>2, <3>2, <3>3 DEF Settled
    <3>5. n <= given
      BY <2>1, <2>2
    <3>6. QED BY <2>1, <2>2, <2>3, <2>4, <3>4, <3>5 DEF ContentOnce
  <2>5. CASE pump.telling = <<>> /\ Kept(stream.stored, given)
    <3>1. ToSet(stream.told) = ToSet(stream.stored)
      BY <2>5 DEF Inv, Lagging
    <3>2. Kept(stream.told, given)
      BY <2>1, <2>5, <3>1 DEF Kept
    <3>3. HoldsAll(stream.stored, given) /\ HoldsAll(stream.told, given) /\ given <= given
      BY <1>1, <2>2, <2>5, <3>2
    <3>4. QED BY <2>2, <2>3, <3>3 DEF ContentOnce
  <2>6. CASE pump.telling = <<>> /\ ~Kept(stream.stored, given)
    <3>1. Distinct(stream.stored) /\ ToSet(stream.told) = ToSet(stream.stored)
      BY <2>6 DEF Inv, Lagging
    <3>2. Kept(stream.stored, n)
      BY <2>1, <3>1 DEF Kept
    <3>3. HoldsAll(stream.stored, n) /\ HoldsAll(stream.told, n) /\ n <= n
      BY <1>1, <2>1, <2>2, <3>2
    <3>4. pump.writing = <<>> => stream.status = "canceled"
      <4> SUFFICES ASSUME pump.writing = <<>>, stream.status # "canceled" PROVE FALSE
        OBVIOUS
      <4>1. CASE Working
        <5>1. Flow = stream
          BY <2>6 DEF Flow
        <5>2. QED BY <2>6, <4>1, <5>1 DEF Inv, Settled
      <4>2. CASE ~Working
        <5>1. stream.status \in Finished
          BY <4>2 DEF Inv, Finishing, TypeOK, Path, Statuses
        <5>2. QED BY <2>6, <5>1 DEF Inv, Finishing
      <4>3. QED BY <4>1, <4>2
    <3>5. QED BY <2>1, <2>3, <3>3, <3>4 DEF ContentOnce
  <2>7. QED BY <2>4, <2>5, <2>6
<1>3. QED BY <1>2, TurnsInv, PTL

(* AbortTakesNoMore: whatever an agent still yields, returns or throws after an *)
(* abort is not taken, and only what the executor had yielded by then goes on   *)
(* to the store and the subscribers.                                            *)
THEOREM AbortedTurnsStop == Spec => AbortTakesNoMore
<1>1. Inv /\ [Next]_vars
      => [aborted /\ aborted' =>
            /\ session' \in {session, Append(session, UserText)} /\ given' = given
            /\ pump'.writing \in {pump.writing, <<>>} /\ pump'.ending \in {pump.ending, "none"}
            /\ stream'.stored # stream.stored => pump.writing # <<>> \/ pump.ending # "none"
            /\ stream'.told # stream.told => pump.telling # <<>>
            /\ send'.stored # send.stored => pump.ending # "none"
            /\ send'.status \in {send.status, "canceled", pump.ending}
            /\ stream'.status \in {stream.status, "canceled", pump.ending}]_vars
  BY NextInv DEF Hushed
<1>2. QED BY <1>1, TurnsInv, PTL DEF Spec, AbortTakesNoMore
-----------------------------------------------------------------------------
(* The conversation with a model.  The assumptions on the constants are cited   *)
(* where they are used from here on.                                            *)

HIDE AgentAssumption DEF AgentAssumption
-----------------------------------------------------------------------------
(* Folds over a sequence: what a recursive function of its prefixes is. *)

\* A function of the prefixes of a sequence, by a step for each of its places.
IsFold(f, A, base, N, step) ==
  /\ f \in [0..N -> A] /\ f[0] = base
  /\ \A n \in 1..N : f[n] = step[n][f[n - 1]]

LEMMA FoldExists ==
  ASSUME NEW A, NEW base \in A, NEW N \in Nat, NEW step \in [1..N -> [A -> A]]
  PROVE  \E f : IsFold(f, A, base, N, step)
<1> DEFINE F(n, f) == /\ f \in [0..n -> A] /\ f[0] = base
                      /\ \A k \in 1..n : f[k] = step[k][f[k - 1]]
<1>1. PICK bad : bad = {n \in 0..N : ~\E f : F(n, f)}
  OBVIOUS
<1>2. CASE bad = {}
  <2>1. N \in 0..N /\ N \notin bad
    BY <1>2
  <2>2. \E f : F(N, f)
    BY <1>1, <2>1
  <2>3. PICK f : F(N, f)
    BY <2>2
  <2>4. QED BY <2>3 DEF IsFold
<1>3. CASE bad # {}
  <2>1. PICK m \in bad : \A k \in bad : m <= k
    <3>1. bad \in SUBSET Nat
      BY <1>1
    <3>2. QED BY <1>3, <3>1, LeastIsMin
  <2>2. m # 0
    <3>1. PICK f : f = [n \in 0..0 |-> base]
      OBVIOUS
    <3>2. F(0, f)
      BY <3>1
    <3>3. QED BY <3>2, <1>1, <2>1
  <2>3. m \in 1..N /\ m - 1 \in 0..N /\ m - 1 \notin bad
    <3>1. m \in 0..N /\ m \in 1..N
      BY <1>1, <2>1, <2>2
    <3>2. m - 1 \in 0..N /\ ~(m <= m - 1)
      BY <3>1
    <3>3. QED BY <3>1, <3>2, <2>1
  <2>4. PICK f : F(m - 1, f)
    BY <1>1, <2>3
  <2>5. PICK g : g = [n \in 0..m |-> IF n = m THEN step[m][f[m - 1]] ELSE f[n]]
    OBVIOUS
  <2>6. step[m] \in [A -> A] /\ f[m - 1] \in A
    BY <2>3, <2>4
  <2>7. F(m, g)
    <3>1. g \in [0..m -> A] /\ g[0] = base
      BY <2>3, <2>4, <2>5, <2>6
    <3>2. \A k \in 1..(m - 1) : g[k] = f[k] /\ g[k - 1] = f[k - 1]
      BY <2>3, <2>5
    <3>3. g[m] = step[m][f[m - 1]] /\ g[m - 1] = f[m - 1]
      BY <2>3, <2>5
    <3>4. ASSUME NEW k \in 1..m PROVE g[k] = step[k][g[k - 1]]
      <4>1. CASE k = m
        BY <3>3, <4>1
      <4>2. CASE k # m
        <5>1. k \in 1..(m - 1)
          BY <4>2, <2>3
        <5>2. QED BY <5>1, <3>2, <2>4
      <4>3. QED BY <4>1, <4>2
    <3>5. QED BY <3>1, <3>4
  <2>8. m \in 0..N /\ ~\E h : F(m, h)
    BY <1>1, <2>1
  <2>9. QED BY <2>7, <2>8
<1>4. QED BY <1>2, <1>3

Call == [id : Nat, tool : {"none"} \cup STRING]
AgentEvent ==
  [type : {"text", "file", "data", "toolCall", "toolResult"} \cup Endings,
   role : {"user", "agent"}, piece : Nat, name : Titles, call : Call]
Message ==
  [role : {"user", "agent"}, text : BOOLEAN, calls : Seq(Call), results : Seq(Call)]
BlockSet == [kind : {"text", "use", "result"}, key : Call]

LEMMA SaidShape ==
  ASSUME NEW role \in {"user", "agent"}, NEW text \in BOOLEAN
  PROVE  /\ Said(role, text) \in Message
         /\ Said(role, text).role = role /\ Said(role, text).text = text
         /\ Said(role, text).calls = <<>> /\ Said(role, text).results = <<>>
BY DEF Said, Message

LEMMA TellsShape ==
  ASSUME NEW results \in Seq(Call)
  PROVE  /\ Tells(results) \in Message
         /\ Tells(results).role = "user" /\ Tells(results).text = FALSE
         /\ Tells(results).calls = <<>> /\ Tells(results).results = results
<1>1. PICK m : m = Said("user", FALSE)
  OBVIOUS
<1>2. m \in Message /\ m.role = "user" /\ m.text = FALSE /\ m.calls = <<>>
  BY <1>1, SaidShape
<1>3. Tells(results) = [m EXCEPT !.results = results]
  BY <1>1 DEF Tells
<1>4. QED BY <1>2, <1>3 DEF Message

LEMMA AsksShape ==
  ASSUME NEW text \in BOOLEAN, NEW calls \in Seq(Call)
  PROVE  /\ Asks(text, calls) \in Message
         /\ Asks(text, calls).role = "agent" /\ Asks(text, calls).text = text
         /\ Asks(text, calls).calls = calls /\ Asks(text, calls).results = <<>>
<1>1. PICK m : m = Said("agent", text)
  OBVIOUS
<1>2. m \in Message /\ m.role = "agent" /\ m.text = text /\ m.results = <<>>
  BY <1>1, SaidShape
<1>3. Asks(text, calls) = [m EXCEPT !.calls = calls]
  BY <1>1 DEF Asks
<1>4. QED BY <1>2, <1>3 DEF Message

\* A call joins the message of the agent that comes last.
HasJoined(new, ms, n, c) ==
  /\ new \in Seq(Message) /\ Len(new) = n /\ n \in Nat \ {0}
  /\ \A i \in 1..(n - 1) : new[i] = ms[i]
  /\ new[n] \in Message /\ new[n].role = ms[n].role /\ new[n].results = ms[n].results
  /\ new[n].calls = Append(ms[n].calls, c)

LEMMA CallJoins ==
  ASSUME NEW ms \in Seq(Message), ms # <<>>, NEW c \in Call, NEW n, n = Len(ms),
         NEW new, new = [ms EXCEPT ![n].calls = Append(@, c)]
  PROVE  HasJoined(new, ms, n, c)
<1>1. n = Len(ms) /\ n \in Nat \ {0} /\ DOMAIN ms = 1..n /\ \A i \in 1..n : ms[i] \in Message
  <2>1. Len(ms) \in Nat /\ DOMAIN ms = 1..Len(ms) /\ \A i \in 1..Len(ms) : ms[i] \in Message
    OBVIOUS
  <2>2. Len(ms) # 0
    BY EmptySeq
  <2>3. QED BY <2>1, <2>2
<1>2. PICK m : m = [ms[n] EXCEPT !.calls = Append(ms[n].calls, c)]
  OBVIOUS
<1>3. m \in Message /\ m.role = ms[n].role /\ m.results = ms[n].results
      /\ m.calls = Append(ms[n].calls, c)
  <2>1. PICK last \in Message : last = ms[n]
    BY <1>1
  <2>2. PICK calls \in Seq(Call) : calls = Append(last.calls, c)
    <3>1. last.calls \in Seq(Call)
      BY <2>1 DEF Message
    <3>2. Append(last.calls, c) \in Seq(Call)
      BY <3>1, AppendProperties
    <3>3. QED BY <3>2
  <2>3. m = [last EXCEPT !.calls = calls]
    BY <1>2, <2>1, <2>2
  <2>4. QED BY <2>1, <2>2, <2>3 DEF Message
<1>4. new = [ms EXCEPT ![n] = m]
  BY <1>2
<1>5. new \in Seq(Message) /\ Len(new) = n /\ new[n] = m /\ \A i \in 1..(n - 1) : new[i] = ms[i]
  <2>1. n \in 1..Len(ms) /\ m \in Message
    BY <1>1, <1>3
  <2>2. /\ new \in Seq(Message) /\ Len(new) = Len(ms)
        /\ \A j \in 1..Len(ms) : new[j] = IF j = n THEN m ELSE ms[j]
    <3>1. PICK j : j = n
      OBVIOUS
    <3>2. j \in 1..Len(ms)
      BY <2>1, <3>1
    <3>3. PICK S : S = Message
      OBVIOUS
    <3>4. ms \in Seq(S) /\ m \in S
      BY <2>1, <3>3
    <3>5. /\ [ms EXCEPT ![j] = m] \in Seq(S)
          /\ Len([ms EXCEPT ![j] = m]) = Len(ms)
          /\ \A k \in 1..Len(ms) : [ms EXCEPT ![j] = m][k] = IF k = j THEN m ELSE ms[k]
      BY <3>2, <3>4, ExceptSeq
    <3>6. QED BY <1>4, <3>1, <3>3, <3>5
  <2>3. QED BY <1>1, <2>2
<1>6. QED BY <1>1, <1>3, <1>5 DEF HasJoined

LEMMA ReplayShape ==
  ASSUME NEW ms \in Seq(Message), NEW e \in AgentEvent
  PROVE  Replay(ms, e) \in Seq(Message)
<1>1. e.role \in {"user", "agent"} /\ e.call \in Call
  BY DEF AgentEvent
<1>2. CASE e.type = "text"
  <2>1. PICK m : m = Said(e.role, TRUE)
    OBVIOUS
  <2>2. m \in Message
    BY <1>1, <2>1, SaidShape
  <2>3. Replay(ms, e) = Append(ms, m)
    BY <1>2, <2>1 DEF Replay
  <2>4. Append(ms, m) \in Seq(Message)
    BY <2>2, AppendProperties
  <2>5. QED BY <2>3, <2>4
<1>3. CASE e.type = "toolResult"
  <2>1. <<e.call>> \in Seq(Call)
    BY <1>1
  <2>2. Tells(<<e.call>>) \in Message
    BY <2>1, TellsShape
  <2>3. Replay(ms, e) = Append(ms, Tells(<<e.call>>))
    BY <1>3 DEF Replay
  <2>4. QED BY <2>2, <2>3
<1>4. CASE e.type = "toolCall" /\ ms # <<>> /\ Last(ms).role = "agent"
  <2>1. PICK n : n = Len(ms)
    OBVIOUS
  <2>2. PICK c \in Call : c = e.call
    BY <1>1
  <2>3. PICK new : new = [ms EXCEPT ![n].calls = Append(@, c)]
    OBVIOUS
  <2>4. Replay(ms, e) = new
    BY <1>4, <2>1, <2>2, <2>3 DEF Replay
  <2>5. new \in Seq(Message)
    <3>1. HasJoined(new, ms, n, c)
      BY <1>4, <2>1, <2>3, CallJoins
    <3>2. QED BY <3>1 DEF HasJoined
  <2>6. QED BY <2>4, <2>5
<1>5. CASE /\ e.type \notin {"text", "toolResult"}
           /\ ~(e.type = "toolCall" /\ ms # <<>> /\ Last(ms).role = "agent")
  <2>1. Replay(ms, e) = ms
    BY <1>5 DEF Replay
  <2>2. QED BY <2>1
<1>6. QED BY <1>2, <1>3, <1>4, <1>5

LEMMA HistoryFold ==
  ASSUME NEW events \in Seq(AgentEvent)
  PROVE  \E f \in [0..Len(events) -> Seq(Message)] :
           /\ f[0] = <<>> /\ f[Len(events)] = History(events)
           /\ \A n \in 1..Len(events) : f[n] = Replay(f[n - 1], events[n])
<1>1. PICK N \in Nat : N = Len(events) /\ \A n \in 1..N : events[n] \in AgentEvent
  OBVIOUS
<1>2. PICK step : step = [n \in 1..N |-> [ms \in Seq(Message) |-> Replay(ms, events[n])]]
  OBVIOUS
<1>3. step \in [1..N -> [Seq(Message) -> Seq(Message)]]
  BY <1>1, <1>2, ReplayShape
<1>4. PICK f : IsFold(f, Seq(Message), <<>>, N, step)
  BY <1>3, EmptySeq, FoldExists
<1>5. ASSUME NEW n \in 1..N PROVE f[n] = Replay(f[n - 1], events[n])
  <2>1. n - 1 \in 0..N
    BY <1>1
  <2>2. f[n - 1] \in Seq(Message) /\ f[n] = step[n][f[n - 1]]
    BY <1>4, <2>1 DEF IsFold
  <2>3. QED BY <1>2, <2>2
<1> DEFINE F(g) == g = [n \in 0..N |-> IF n = 0 THEN <<>> ELSE Replay(g[n - 1], events[n])]
<1>6. F(f)
  <2>1. \A n \in 0..N : f[n] = IF n = 0 THEN <<>> ELSE Replay(f[n - 1], events[n])
    <3> SUFFICES ASSUME NEW n \in 0..N, n # 0 PROVE f[n] = Replay(f[n - 1], events[n])
      BY <1>4 DEF IsFold
    <3>1. n \in 1..N
      BY <1>1
    <3>2. QED BY <3>1, <1>5
  <2>2. QED BY <2>1, <1>4 DEF IsFold
<1>7. PICK g : g = CHOOSE h : F(h)
  OBVIOUS
<1>8. F(g)
  BY <1>6, <1>7
<1>9. History(events) = g[N]
  BY <1>1, <1>7 DEF History
<1>10. \A n \in 0..N : g[n] = f[n]
  <2>1. PICK bad : bad = {n \in 0..N : g[n] # f[n]}
    OBVIOUS
  <2> SUFFICES ASSUME bad # {} PROVE FALSE
    BY <2>1
  <2>2. PICK m \in bad : \A k \in bad : m <= k
    <3>1. bad \in SUBSET Nat
      BY <2>1
    <3>2. QED BY <3>1, LeastIsMin
  <2>3. m # 0
    BY <1>4, <1>8, <2>1 DEF IsFold
  <2>4. m - 1 \in 0..N /\ m \in 1..N /\ g[m - 1] = f[m - 1]
    BY <1>1, <2>1, <2>2, <2>3
  <2>5. g[m] = Replay(g[m - 1], events[m])
    BY <1>8, <2>3, <2>4
  <2>6. g[m] = f[m]
    BY <1>5, <2>4, <2>5
  <2>7. QED BY <2>1, <2>6
<1>11. f[N] = History(events)
  BY <1>9, <1>10
<1>12. QED BY <1>1, <1>4, <1>5, <1>11 DEF IsFold
-----------------------------------------------------------------------------
(* The elements of a sequence that are in a set. *)

\* A function of the prefixes of seq: their elements that are wanted.
IsChoice(chosen, S, seq, wanted) ==
  /\ chosen \in [0..Len(seq) -> Seq(S \cap wanted)] /\ chosen[0] = <<>>
  /\ \A n \in 1..Len(seq) :
       chosen[n] = IF seq[n] \in wanted THEN Append(chosen[n - 1], seq[n]) ELSE chosen[n - 1]

LEMMA ChosenFold ==
  ASSUME NEW S, NEW seq \in Seq(S), NEW wanted
  PROVE  IsChoice(Chosen(seq, wanted), S, seq, wanted)
<1>1. PICK N \in Nat : N = Len(seq) /\ \A n \in 1..N : seq[n] \in S
  OBVIOUS
<1>2. PICK A : A = Seq(S \cap wanted)
  OBVIOUS
<1>3. PICK step : step = [n \in 1..N |-> [s \in A |-> IF seq[n] \in wanted THEN Append(s, seq[n]) ELSE s]]
  OBVIOUS
<1>4. step \in [1..N -> [A -> A]]
  <2> SUFFICES ASSUME NEW n \in 1..N, NEW s \in A, seq[n] \in wanted PROVE Append(s, seq[n]) \in A
    BY <1>3
  <2>1. PICK T : T = S \cap wanted
    OBVIOUS
  <2>2. s \in Seq(T) /\ seq[n] \in T
    BY <1>1, <1>2, <2>1
  <2>3. Append(s, seq[n]) \in Seq(T)
    BY <2>2, AppendProperties
  <2>4. QED BY <1>2, <2>1, <2>3
<1>5. PICK f : IsFold(f, A, <<>>, N, step)
  BY <1>2, <1>4, EmptySeq, FoldExists
<1>6. ASSUME NEW n \in 1..N
      PROVE  f[n] = IF seq[n] \in wanted THEN Append(f[n - 1], seq[n]) ELSE f[n - 1]
  <2>1. n - 1 \in 0..N
    BY <1>1
  <2>2. f[n - 1] \in A /\ f[n] = step[n][f[n - 1]]
    BY <1>5, <2>1 DEF IsFold
  <2>3. QED BY <1>3, <2>2
<1> DEFINE F(g) == g = [n \in 0..N |-> IF n = 0 THEN <<>>
                                       ELSE IF seq[n] \in wanted THEN Append(g[n - 1], seq[n])
                                       ELSE g[n - 1]]
<1>7. F(f)
  <2>1. \A n \in 0..N : f[n] = IF n = 0 THEN <<>>
                               ELSE IF seq[n] \in wanted THEN Append(f[n - 1], seq[n])
                               ELSE f[n - 1]
    <3> SUFFICES ASSUME NEW n \in 0..N, n # 0
                 PROVE  f[n] = IF seq[n] \in wanted THEN Append(f[n - 1], seq[n]) ELSE f[n - 1]
      BY <1>5 DEF IsFold
    <3>1. n \in 1..N
      BY <1>1
    <3>2. QED BY <3>1, <1>6
  <2>2. QED BY <2>1, <1>5 DEF IsFold
<1>8. PICK g : g = CHOOSE h : F(h)
  BY Zenon
<1>9. F(g)
  BY <1>7, <1>8, Zenon
<1>10. Chosen(seq, wanted) = g
  BY <1>1, <1>8 DEF Chosen
<1>11. \A n \in 0..N : g[n] = f[n]
  <2>1. PICK bad : bad = {n \in 0..N : g[n] # f[n]}
    OBVIOUS
  <2> SUFFICES ASSUME bad # {} PROVE FALSE
    BY <2>1
  <2>2. PICK m \in bad : \A k \in bad : m <= k
    <3>1. bad \in SUBSET Nat
      BY <2>1
    <3>2. QED BY <3>1, LeastIsMin
  <2>3. m # 0
    BY <1>5, <1>9, <2>1 DEF IsFold
  <2>4. m - 1 \in 0..N /\ m \in 1..N /\ g[m - 1] = f[m - 1]
    BY <1>1, <2>1, <2>2, <2>3
  <2>5. g[m] = IF seq[m] \in wanted THEN Append(g[m - 1], seq[m]) ELSE g[m - 1]
    <3>1. \A n \in 0..N : g[n] = IF n = 0 THEN <<>>
                                 ELSE IF seq[n] \in wanted THEN Append(g[n - 1], seq[n])
                                 ELSE g[n - 1]
      BY <1>9
    <3>2. m \in 0..N
      BY <2>1
    <3>3. QED BY <2>3, <3>1, <3>2
  <2>6. g[m] = f[m]
    BY <1>6, <2>4, <2>5
  <2>7. QED BY <2>1, <2>6
<1>12. g = f
  BY <1>5, <1>9, <1>11 DEF IsFold
<1>13. QED BY <1>1, <1>2, <1>5, <1>6, <1>10, <1>12 DEF IsFold, IsChoice

\* The keys of the uses, or of the results, among the first n blocks.
LEMMA KeysFold ==
  ASSUME NEW kind, NEW bs \in Seq(BlockSet)
  PROVE  /\ Keys(kind, bs, 0) = <<>>
         /\ \A n \in 0..Len(bs) : Keys(kind, bs, n) \in Seq(Call)
         /\ \A n \in 1..Len(bs) :
              Keys(kind, bs, n) = IF bs[n].kind = kind THEN Append(Keys(kind, bs, n - 1), bs[n].key)
                                  ELSE Keys(kind, bs, n - 1)
<1>1. PICK N \in Nat : N = Len(bs) /\ DOMAIN bs = 1..N /\ \A n \in 1..N : bs[n] \in BlockSet
  OBVIOUS
<1>2. PICK wanted : wanted = {b \in ToSet(bs) : b.kind = kind}
  OBVIOUS
<1>3. \A n \in 1..N : bs[n] \in wanted <=> bs[n].kind = kind
  BY <1>1, <1>2 DEF ToSet
<1>4. PICK f : f = Chosen(bs, wanted)
  OBVIOUS
<1>5. /\ f \in [0..N -> Seq(BlockSet \cap wanted)] /\ f[0] = <<>>
      /\ \A n \in 1..N : f[n] = IF bs[n] \in wanted THEN Append(f[n - 1], bs[n]) ELSE f[n - 1]
  <2>1. IsChoice(f, BlockSet, bs, wanted)
    BY <1>4, ChosenFold
  <2>2. QED BY <1>1, <2>1 DEF IsChoice
<1>6. \A n \in 0..N : f[n] \in Seq(BlockSet)
  <2> SUFFICES ASSUME NEW n \in 0..N PROVE f[n] \in Seq(BlockSet)
    OBVIOUS
  <2>1. PICK T : T = BlockSet \cap wanted
    OBVIOUS
  <2>2. f[n] \in Seq(T) /\ T \subseteq BlockSet
    BY <1>5, <2>1
  <2>3. QED BY <2>2, SeqMonotonic
<1> DEFINE K(s) == [i \in DOMAIN s |-> s[i].key]
<1>7. ASSUME NEW s \in Seq(BlockSet) PROVE K(s) \in Seq(Call) /\ Len(K(s)) = Len(s)
  <2>1. Len(s) \in Nat /\ DOMAIN s = 1..Len(s) /\ \A i \in 1..Len(s) : s[i] \in BlockSet
    OBVIOUS
  <2>2. \A i \in 1..Len(s) : s[i].key \in Call
    BY <2>1 DEF BlockSet
  <2>3. K(s) \in [1..Len(s) -> Call]
    BY <2>1, <2>2
  <2>4. QED BY <2>1, <2>3, SeqDef
<1>8. ASSUME NEW s \in Seq(BlockSet), NEW b \in BlockSet PROVE K(Append(s, b)) = Append(K(s), b.key)
  <2>1. PICK n \in Nat : n = Len(s) /\ DOMAIN s = 1..n
    OBVIOUS
  <2>2. PICK t : t = Append(s, b)
    OBVIOUS
  <2>3. t \in Seq(BlockSet) /\ Len(t) = n + 1 /\ t[n + 1] = b /\ \A i \in 1..n : t[i] = s[i]
    BY <2>1, <2>2, AppendProperties
  <2>4. DOMAIN t = 1..(n + 1)
    BY <2>1, <2>3
  <2>5. PICK u : u = Append(K(s), b.key)
    OBVIOUS
  <2>6. b.key \in Call /\ K(s) \in Seq(Call) /\ Len(K(s)) = n
    BY <1>7, <2>1 DEF BlockSet
  <2>7. u \in Seq(Call) /\ Len(u) = n + 1 /\ u[n + 1] = b.key /\ \A i \in 1..n : u[i] = K(s)[i]
    BY <2>1, <2>5, <2>6, AppendProperties
  <2>8. \A i \in 1..(n + 1) : K(t)[i] = u[i]
    BY <2>1, <2>3, <2>4, <2>7
  <2>9. K(t) \in Seq(Call) /\ Len(K(t)) = n + 1
    BY <1>7, <2>3
  <2>10. K(t) = u
    BY <2>7, <2>8, <2>9, SeqEqual
  <2>11. QED BY <2>2, <2>5, <2>10
<1>9. \A n : Keys(kind, bs, n) = K(f[n])
  BY <1>2, <1>4 DEF Keys
<1>10. K(<<>>) = <<>>
  BY EmptySeq, <1>7
<1>11. \A n \in 0..N : Keys(kind, bs, n) \in Seq(Call)
  BY <1>6, <1>7, <1>9
<1>12. ASSUME NEW n \in 1..N
       PROVE  Keys(kind, bs, n) = IF bs[n].kind = kind THEN Append(Keys(kind, bs, n - 1), bs[n].key)
                                  ELSE Keys(kind, bs, n - 1)
  <2>1. n - 1 \in 0..N /\ bs[n] \in BlockSet
    BY <1>1
  <2>2. f[n - 1] \in Seq(BlockSet)
    BY <1>6, <2>1
  <2>3. f[n] = IF bs[n].kind = kind THEN Append(f[n - 1], bs[n]) ELSE f[n - 1]
    BY <1>3, <1>5
  <2>4. K(Append(f[n - 1], bs[n])) = Append(K(f[n - 1]), bs[n].key)
    BY <1>8, <2>1, <2>2
  <2>5. Keys(kind, bs, n) = K(f[n]) /\ Keys(kind, bs, n - 1) = K(f[n - 1])
    BY <1>9
  <2>6. CASE bs[n].kind = kind
    <3>1. f[n] = Append(f[n - 1], bs[n])
      BY <2>3, <2>6
    <3>2. K(f[n]) = Append(K(f[n - 1]), bs[n].key)
      BY <2>4, <3>1, Zenon
    <3>3. QED BY <2>5, <2>6, <3>2
  <2>7. CASE bs[n].kind # kind
    BY <2>3, <2>5, <2>7
  <2>8. QED BY <2>6, <2>7
<1>13. QED BY <1>1, <1>5, <1>9, <1>10, <1>11, <1>12
-----------------------------------------------------------------------------
(* The blocks of a request. *)

KeysFor(provider, calls) == IF provider = "google" THEN ByName(calls) ELSE ById(calls)

LEMMA KeysForShape ==
  ASSUME NEW provider, NEW calls \in Seq(Call)
  PROVE  KeysFor(provider, calls) \in Seq(Call) /\ Len(KeysFor(provider, calls)) = Len(calls)
<1>1. Len(calls) \in Nat /\ DOMAIN calls = 1..Len(calls) /\ \A i \in 1..Len(calls) : calls[i] \in Call
  OBVIOUS
<1>2. NoCall = [id |-> 0, tool |-> "none"]
  BY DEF NoCall
<1>3. \A c \in Call : [NoCall EXCEPT !.id = c.id] \in Call /\ [NoCall EXCEPT !.tool = c.tool] \in Call
  <2> SUFFICES ASSUME NEW c \in Call
               PROVE  [NoCall EXCEPT !.id = c.id] \in Call /\ [NoCall EXCEPT !.tool = c.tool] \in Call
    OBVIOUS
  <2>1. c.id \in Nat /\ c.tool \in {"none"} \cup STRING
    BY DEF Call
  <2>2. [NoCall EXCEPT !.id = c.id] = [id |-> c.id, tool |-> "none"]
    BY <1>2
  <2>3. [NoCall EXCEPT !.tool = c.tool] = [id |-> 0, tool |-> c.tool]
    BY <1>2
  <2>4. "none" \in {"none"} \cup STRING
    OBVIOUS
  <2>5. QED BY <2>1, <2>2, <2>3, <2>4 DEF Call
<1>4. ById(calls) \in [1..Len(calls) -> Call] /\ ByName(calls) \in [1..Len(calls) -> Call]
  BY <1>1, <1>3 DEF ById, ByName
<1>5. \A s \in [1..Len(calls) -> Call] : s \in Seq(Call) /\ Len(s) = Len(calls)
  BY <1>1, SeqDef
<1>6. QED BY <1>4, <1>5 DEF KeysFor

LEMMA TaggedShape ==
  ASSUME NEW kind \in {"text", "use", "result"}, NEW keys \in Seq(Call)
  PROVE  /\ Tagged(kind, keys) \in Seq(BlockSet) /\ Len(Tagged(kind, keys)) = Len(keys)
         /\ \A i \in 1..Len(keys) : /\ Tagged(kind, keys)[i].kind = kind
                                    /\ Tagged(kind, keys)[i].key = keys[i]
<1>1. Len(keys) \in Nat /\ DOMAIN keys = 1..Len(keys) /\ \A i \in 1..Len(keys) : keys[i] \in Call
  OBVIOUS
<1>2. \A c \in Call : Block(kind, c) \in BlockSet /\ Block(kind, c).kind = kind /\ Block(kind, c).key = c
  BY DEF Block, BlockSet
<1>3. Tagged(kind, keys) = [i \in 1..Len(keys) |-> Block(kind, keys[i])]
  BY <1>1 DEF Tagged
<1>4. Tagged(kind, keys) \in [1..Len(keys) -> BlockSet]
  BY <1>1, <1>2, <1>3
<1>5. \A s \in [1..Len(keys) -> BlockSet] : s \in Seq(BlockSet) /\ Len(s) = Len(keys)
  BY <1>1, SeqDef
<1>6. QED BY <1>1, <1>2, <1>3, <1>4, <1>5

Texts == {<<>>, <<Block("text", NoCall)>>}

LEMMA TextsShape ==
  ASSUME NEW t \in Texts
  PROVE  t \in Seq(BlockSet) /\ \A i \in 1..Len(t) : t[i].kind = "text"
<1>1. Block("text", NoCall) \in BlockSet /\ Block("text", NoCall).kind = "text"
  <2>1. NoCall \in Call
    BY DEF NoCall, Call
  <2>2. QED BY <2>1 DEF Block, BlockSet
<1>2. PICK b \in BlockSet : b = Block("text", NoCall) /\ b.kind = "text"
  BY <1>1
<1>3. t = <<>> \/ t = <<b>>
  BY <1>2 DEF Texts
<1>4. <<b>> \in Seq(BlockSet) /\ Len(<<b>>) = 1 /\ <<b>>[1] = b
  OBVIOUS
<1>5. CASE t = <<>>
  BY <1>5, EmptySeq
<1>6. CASE t = <<b>>
  BY <1>2, <1>4, <1>6
<1>7. QED BY <1>3, <1>5, <1>6

\* What a message becomes: its results, or its text and then its calls.
LEMMA BlocksShape ==
  ASSUME NEW provider \in Providers, NEW m \in Message, m.calls # <<>> => m.role = "agent"
  PROVE  \/ /\ m.results # <<>>
            /\ Blocks(provider, m) = Tagged("result", KeysFor(provider, m.results))
         \/ /\ m.results = <<>>
            /\ \E t \in Texts : Blocks(provider, m) = t \o Tagged("use", KeysFor(provider, m.calls))
<1>1. TextBlocks(m) \in Texts
  BY DEF TextBlocks, Texts
<1>2. CASE m.results # <<>>
  BY <1>2 DEF Blocks, AnthropicBlocks, GoogleBlocks, OpenAIBlocks, KeysFor, Providers
<1>3. CASE m.results = <<>> /\ (provider # "openai" \/ m.role = "agent")
  <2>1. Blocks(provider, m) = TextBlocks(m) \o Tagged("use", KeysFor(provider, m.calls))
    BY <1>3 DEF Blocks, AnthropicBlocks, GoogleBlocks, OpenAIBlocks, KeysFor, Providers
  <2>2. QED BY <1>1, <1>3, <2>1
<1>4. CASE m.results = <<>> /\ provider = "openai" /\ m.role # "agent"
  <2>1. PICK t : t = <<Block("text", NoCall)>>
    OBVIOUS
  <2>2. Blocks(provider, m) = t
    BY <1>4, <2>1 DEF Blocks, OpenAIBlocks
  <2>3. PICK keys : keys = KeysFor(provider, m.calls)
    OBVIOUS
  <2>4. m.calls = <<>> /\ m.calls \in Seq(Call) /\ t \in Texts
    BY <1>4, <2>1 DEF Message, Texts
  <2>5. keys \in Seq(Call) /\ Len(keys) = 0
    <3>1. PICK calls \in Seq(Call) : calls = m.calls /\ calls = <<>>
      BY <2>4
    <3>2. Len(calls) = 0
      BY <3>1
    <3>3. QED BY <2>3, <3>1, <3>2, KeysForShape
  <2>6. PICK u \in Seq(BlockSet) : u = Tagged("use", keys) /\ Len(u) = 0
    <3>1. Tagged("use", keys) \in Seq(BlockSet) /\ Len(Tagged("use", keys)) = 0
      BY <2>5, TaggedShape
    <3>2. QED BY <3>1
  <2>7. u = <<>>
    BY <2>6, EmptySeq
  <2>8. t \in Seq(BlockSet)
    BY <2>4, TextsShape
  <2>9. t \o u = t
    BY <2>7, <2>8, ConcatEmptySeq
  <2>10. QED BY <1>4, <2>2, <2>3, <2>4, <2>6, <2>9
<1>5. QED BY <1>2, <1>3, <1>4

LEMMA BlocksAreBlocks ==
  ASSUME NEW provider \in Providers, NEW m \in Message, m.calls # <<>> => m.role = "agent"
  PROVE  Blocks(provider, m) \in Seq(BlockSet)
<1>1. PICK calls \in Seq(Call), results \in Seq(Call) : calls = m.calls /\ results = m.results
  BY DEF Message
<1>2. PICK bs : bs = Blocks(provider, m)
  OBVIOUS
<1>3. PICK uses \in Seq(BlockSet) : uses = Tagged("use", KeysFor(provider, calls))
  BY KeysForShape, TaggedShape
<1>4. PICK told \in Seq(BlockSet) : told = Tagged("result", KeysFor(provider, results))
  BY KeysForShape, TaggedShape
<1>5. bs = told \/ \E t \in Texts : bs = t \o uses
  BY <1>1, <1>2, <1>3, <1>4, BlocksShape
<1>6. \A t \in Texts : t \o uses \in Seq(BlockSet)
  BY TextsShape, ConcatProperties
<1>7. QED BY <1>2, <1>5, <1>6

LEMMA RequestFold ==
  ASSUME NEW provider \in Providers, NEW contents \in Seq(Message),
         \A i \in 1..Len(contents) : contents[i].calls # <<>> => contents[i].role = "agent"
  PROVE  \E f \in [0..Len(contents) -> Seq(BlockSet)] :
           /\ f[0] = <<>> /\ f[Len(contents)] = Request(provider, contents)
           /\ \A n \in 1..Len(contents) : f[n] = f[n - 1] \o Blocks(provider, contents[n])
<1>1. PICK N \in Nat : N = Len(contents) /\ \A n \in 1..N : contents[n] \in Message
  OBVIOUS
<1>2. PICK step : step = [n \in 1..N |-> [bs \in Seq(BlockSet) |-> bs \o Blocks(provider, contents[n])]]
  OBVIOUS
<1>3. \A n \in 1..N : Blocks(provider, contents[n]) \in Seq(BlockSet)
  BY <1>1, BlocksAreBlocks
<1>4. step \in [1..N -> [Seq(BlockSet) -> Seq(BlockSet)]]
  <2>1. \A n \in 1..N : \A bs \in Seq(BlockSet) : bs \o Blocks(provider, contents[n]) \in Seq(BlockSet)
    BY <1>3, ConcatProperties
  <2>2. QED BY <1>2, <2>1
<1>5. PICK f : IsFold(f, Seq(BlockSet), <<>>, N, step)
  BY <1>4, EmptySeq, FoldExists
<1>6. ASSUME NEW n \in 1..N PROVE f[n] = f[n - 1] \o Blocks(provider, contents[n])
  <2>1. n - 1 \in 0..N
    BY <1>1
  <2>2. f[n - 1] \in Seq(BlockSet) /\ f[n] = step[n][f[n - 1]]
    BY <1>5, <2>1 DEF IsFold
  <2>3. QED BY <1>2, <2>2
<1> DEFINE F(g) == g = [n \in 0..N |-> IF n = 0 THEN <<>> ELSE g[n - 1] \o Blocks(provider, contents[n])]
<1>7. F(f)
  <2>1. \A n \in 0..N : f[n] = IF n = 0 THEN <<>> ELSE f[n - 1] \o Blocks(provider, contents[n])
    <3> SUFFICES ASSUME NEW n \in 0..N, n # 0 PROVE f[n] = f[n - 1] \o Blocks(provider, contents[n])
      BY <1>5 DEF IsFold
    <3>1. n \in 1..N
      BY <1>1
    <3>2. QED BY <3>1, <1>6
  <2>2. QED BY <2>1, <1>5 DEF IsFold
<1>8. PICK g : g = CHOOSE h : F(h)
  BY Zenon
<1>9. F(g)
  BY <1>7, <1>8, Zenon
<1>10. Request(provider, contents) = g[N]
  BY <1>1, <1>8 DEF Request
<1>11. \A n \in 0..N : g[n] = f[n]
  <2>1. PICK bad : bad = {n \in 0..N : g[n] # f[n]}
    OBVIOUS
  <2> SUFFICES ASSUME bad # {} PROVE FALSE
    BY <2>1
  <2>2. PICK m \in bad : \A k \in bad : m <= k
    <3>1. bad \in SUBSET Nat
      BY <2>1
    <3>2. QED BY <3>1, LeastIsMin
  <2>3. m # 0
    BY <1>5, <1>9, <2>1 DEF IsFold
  <2>4. m - 1 \in 0..N /\ m \in 1..N /\ g[m - 1] = f[m - 1]
    BY <1>1, <2>1, <2>2, <2>3
  <2>5. g[m] = g[m - 1] \o Blocks(provider, contents[m])
    <3>1. \A n \in 0..N : g[n] = IF n = 0 THEN <<>> ELSE g[n - 1] \o Blocks(provider, contents[n])
      BY <1>9
    <3>2. m \in 0..N
      BY <2>1
    <3>3. QED BY <2>3, <3>1, <3>2
  <2>6. g[m] = f[m]
    BY <1>6, <2>4, <2>5
  <2>7. QED BY <2>1, <2>6
<1>12. f[N] = Request(provider, contents)
  BY <1>1, <1>10, <1>11
<1>13. QED BY <1>1, <1>5, <1>6, <1>12 DEF IsFold
-----------------------------------------------------------------------------
(* The keys of blocks that are joined. *)

LEMMA Joins ==
  ASSUME NEW S, NEW b \in Seq(S), NEW c \in Seq(S), NEW d, d = b \o c
  PROVE  /\ d \in Seq(S) /\ Len(d) = Len(b) + Len(c)
         /\ \A i \in 1..Len(b) : d[i] = b[i]
         /\ \A i \in 1..Len(c) : d[Len(b) + i] = c[i]
<1>1. Len(b) \in Nat /\ Len(c) \in Nat
  OBVIOUS
<1>2. /\ d \in Seq(S) /\ Len(d) = Len(b) + Len(c)
      /\ \A i \in 1..(Len(b) + Len(c)) : d[i] = IF i <= Len(b) THEN b[i] ELSE c[i - Len(b)]
  BY ConcatProperties
<1>3. \A i \in 1..Len(b) : i \in 1..(Len(b) + Len(c)) /\ i <= Len(b)
  BY <1>1
<1>4. \A i \in 1..Len(c) : /\ Len(b) + i \in 1..(Len(b) + Len(c))
                           /\ ~(Len(b) + i <= Len(b)) /\ (Len(b) + i) - Len(b) = i
  BY <1>1
<1>5. QED BY <1>2, <1>3, <1>4

LEMMA Begins ==
  ASSUME NEW S, NEW s \in Seq(S), NEW n \in 0..Len(s)
  PROVE  /\ SubSeq(s, 1, n) \in Seq(S) /\ Len(SubSeq(s, 1, n)) = n
         /\ \A i \in 1..n : SubSeq(s, 1, n)[i] = s[i]
<1>1. n \in Nat /\ 1 \in Int /\ n \in Int /\ \A i \in 1..n : s[i] \in S
  OBVIOUS
<1>2. /\ SubSeq(s, 1, n) \in Seq(S)
      /\ Len(SubSeq(s, 1, n)) = IF 1 <= n THEN n - 1 + 1 ELSE 0
      /\ \A i \in 1..(n - 1 + 1) : SubSeq(s, 1, n)[i] = s[1 + i - 1]
  BY <1>1, SubSeqProperties
<1>3. \A i \in 1..n : i \in 1..(n - 1 + 1) /\ 1 + i - 1 = i
  BY <1>1
<1>4. (IF 1 <= n THEN n - 1 + 1 ELSE 0) = n
  BY <1>1
<1>5. QED BY <1>2, <1>3, <1>4

IsJoin(kind, b, c, d) ==
  /\ \A n \in 0..Len(b) : Keys(kind, d, n) = Keys(kind, b, n)
  /\ \A n \in 0..Len(c) : Keys(kind, d, Len(b) + n) = Keys(kind, b, Len(b)) \o Keys(kind, c, n)

LEMMA KeysJoin ==
  ASSUME NEW kind, NEW b \in Seq(BlockSet), NEW c \in Seq(BlockSet), NEW d, d = b \o c
  PROVE  IsJoin(kind, b, c, d)
<1>1. PICK M \in Nat, N \in Nat : M = Len(b) /\ N = Len(c)
  OBVIOUS
<1>2. /\ d \in Seq(BlockSet) /\ Len(d) = M + N
      /\ \A i \in 1..M : d[i] = b[i]
      /\ \A i \in 1..N : d[M + i] = c[i]
  <2>1. /\ d \in Seq(BlockSet) /\ Len(d) = Len(b) + Len(c)
        /\ \A i \in 1..Len(b) : d[i] = b[i]
        /\ \A i \in 1..Len(c) : d[Len(b) + i] = c[i]
    BY Joins
  <2>2. QED BY <1>1, <2>1
<1>3. \A n \in 0..M : Keys(kind, d, n) = Keys(kind, b, n)
  <2>1. PICK bad : bad = {n \in 0..M : Keys(kind, d, n) # Keys(kind, b, n)}
    OBVIOUS
  <2> SUFFICES ASSUME bad # {} PROVE FALSE
    BY <2>1
  <2>2. PICK m \in bad : \A k \in bad : m <= k
    <3>1. bad \in SUBSET Nat
      BY <2>1
    <3>2. QED BY <3>1, LeastIsMin
  <2>3. m # 0
    <3>1. Keys(kind, d, 0) = <<>> /\ Keys(kind, b, 0) = <<>>
      BY <1>2, KeysFold
    <3>2. QED BY <2>1, <3>1
  <2>4. m \in 1..M /\ m - 1 \in 0..M /\ Keys(kind, d, m - 1) = Keys(kind, b, m - 1)
    BY <2>1, <2>2, <2>3
  <2>5. Keys(kind, b, m) = IF b[m].kind = kind THEN Append(Keys(kind, b, m - 1), b[m].key)
                           ELSE Keys(kind, b, m - 1)
    BY <1>1, <2>4, KeysFold
  <2>6. Keys(kind, d, m) = IF d[m].kind = kind THEN Append(Keys(kind, d, m - 1), d[m].key)
                           ELSE Keys(kind, d, m - 1)
    <3>1. \A n \in 1..Len(d) :
            Keys(kind, d, n) = IF d[n].kind = kind THEN Append(Keys(kind, d, n - 1), d[n].key)
                               ELSE Keys(kind, d, n - 1)
      BY <1>2, KeysFold, ZenonT(40)
    <3>2. m \in 1..Len(d)
      BY <1>1, <1>2, <2>4
    <3>3. QED BY <3>1, <3>2
  <2>7. d[m] = b[m]
    BY <1>2, <2>4
  <2>8. QED BY <2>1, <2>4, <2>5, <2>6, <2>7
<1>4. \A n \in 0..N : Keys(kind, d, M + n) = Keys(kind, b, M) \o Keys(kind, c, n)
  <2>1. PICK bad : bad = {n \in 0..N : Keys(kind, d, M + n) # Keys(kind, b, M) \o Keys(kind, c, n)}
    OBVIOUS
  <2> SUFFICES ASSUME bad # {} PROVE FALSE
    BY <2>1
  <2>2. PICK m \in bad : \A k \in bad : m <= k
    <3>1. bad \in SUBSET Nat
      BY <2>1
    <3>2. QED BY <3>1, LeastIsMin
  <2>3. Keys(kind, b, M) \in Seq(Call)
    <3>1. M \in 0..Len(b)
      BY <1>1
    <3>2. QED BY <3>1, KeysFold
  <2>4. m # 0
    <3>1. Keys(kind, d, M) = Keys(kind, b, M)
      BY <1>1, <1>3
    <3>2. Keys(kind, c, 0) = <<>>
      BY KeysFold
    <3>3. Keys(kind, b, M) \o Keys(kind, c, 0) = Keys(kind, b, M)
      BY <2>3, <3>2, ConcatEmptySeq
    <3>4. M + 0 = M
      BY <1>1
    <3>5. QED BY <2>1, <3>1, <3>3, <3>4
  <2>5. m \in 1..N /\ m - 1 \in 0..N /\ M + (m - 1) = (M + m) - 1
        /\ Keys(kind, d, (M + m) - 1) = Keys(kind, b, M) \o Keys(kind, c, m - 1)
    <3>1. m \in 0..N
      BY <2>1
    <3>2. m \in 1..N /\ m - 1 \in 0..N /\ M + (m - 1) = (M + m) - 1 /\ ~(m <= m - 1)
      BY <1>1, <2>4, <3>1
    <3>3. m - 1 \notin bad
      BY <2>2, <3>2
    <3>4. Keys(kind, d, M + (m - 1)) = Keys(kind, b, M) \o Keys(kind, c, m - 1)
      BY <2>1, <3>2, <3>3
    <3>5. QED BY <3>2, <3>4
  <2>6. Keys(kind, c, m) = IF c[m].kind = kind THEN Append(Keys(kind, c, m - 1), c[m].key)
                           ELSE Keys(kind, c, m - 1)
    BY <1>1, <2>5, KeysFold
  <2>7. Keys(kind, d, M + m) =
          IF d[M + m].kind = kind THEN Append(Keys(kind, d, (M + m) - 1), d[M + m].key)
          ELSE Keys(kind, d, (M + m) - 1)
    <3>1. \A n \in 1..Len(d) :
            Keys(kind, d, n) = IF d[n].kind = kind THEN Append(Keys(kind, d, n - 1), d[n].key)
                               ELSE Keys(kind, d, n - 1)
      BY <1>2, KeysFold, ZenonT(40)
    <3>2. PICK k \in 1..Len(d) : k = M + m
      BY <1>1, <1>2, <2>5
    <3>3. Keys(kind, d, k) = IF d[k].kind = kind THEN Append(Keys(kind, d, k - 1), d[k].key)
                             ELSE Keys(kind, d, k - 1)
      BY <3>1
    <3>4. QED BY <3>2, <3>3, Zenon
  <2>8. d[M + m] = c[m]
    BY <1>2, <2>5
  <2>9. CASE c[m].kind # kind
    BY <2>1, <2>5, <2>6, <2>7, <2>8, <2>9
  <2>10. CASE c[m].kind = kind
    <3>1. PICK k : k = c[m].key
      OBVIOUS
    <3>2. k \in Call
      <4>1. c[m] \in BlockSet
        BY <1>1, <2>5
      <4>2. QED BY <3>1, <4>1 DEF BlockSet
    <3>3. PICK s \in Seq(Call), t \in Seq(Call) : s = Keys(kind, b, M) /\ t = Keys(kind, c, m - 1)
      BY <1>1, <2>3, <2>5, KeysFold
    <3>4. Append(s \o t, k) = s \o Append(t, k)
      <4>1. s \o t \in Seq(Call) /\ <<k>> \in Seq(Call)
        BY <3>2, ConcatProperties
      <4>2. Append(s \o t, k) = (s \o t) \o <<k>> /\ Append(t, k) = t \o <<k>>
        BY <3>2, <4>1, AppendIsConcat
      <4>3. QED BY <4>1, <4>2, ConcatAssociative, SMTT(30)
    <3>5. Keys(kind, d, M + m) = Append(s \o t, k)
      BY <2>5, <2>7, <2>8, <2>10, <3>1, <3>3
    <3>6. Keys(kind, c, m) = Append(t, k)
      BY <2>6, <2>10, <3>1, <3>3
    <3>7. QED BY <2>1, <3>3, <3>4, <3>5, <3>6
  <2>11. QED BY <2>9, <2>10
<1>5. QED BY <1>1, <1>3, <1>4 DEF IsJoin

\* Blocks of another kind have no keys of this one.
LEMMA KeysOfOthers ==
  ASSUME NEW kind, NEW b \in Seq(BlockSet), \A i \in 1..Len(b) : b[i].kind # kind
  PROVE  \A n \in 0..Len(b) : Keys(kind, b, n) = <<>>
<1>1. PICK bad : bad = {n \in 0..Len(b) : Keys(kind, b, n) # <<>>}
  OBVIOUS
<1> SUFFICES ASSUME bad # {} PROVE FALSE
  BY <1>1
<1>2. PICK m \in bad : \A k \in bad : m <= k
  <2>1. bad \in SUBSET Nat
    BY <1>1
  <2>2. QED BY <2>1, LeastIsMin
<1>3. m # 0
  BY <1>1, KeysFold
<1>4. m \in 1..Len(b) /\ Keys(kind, b, m - 1) = <<>>
  BY <1>1, <1>2, <1>3
<1>5. Keys(kind, b, m) = Keys(kind, b, m - 1)
  BY <1>4, KeysFold
<1>6. QED BY <1>1, <1>4, <1>5

\* Blocks made of keys have these keys.
LEMMA KeysOfTagged ==
  ASSUME NEW kind \in {"use", "result"}, NEW keys \in Seq(Call)
  PROVE  \A n \in 0..Len(keys) : Keys(kind, Tagged(kind, keys), n) = SubSeq(keys, 1, n)
<1>1. PICK b \in Seq(BlockSet) :
        /\ b = Tagged(kind, keys) /\ Len(b) = Len(keys)
        /\ \A i \in 1..Len(keys) : b[i].kind = kind /\ b[i].key = keys[i]
  <2>1. kind \in {"text", "use", "result"}
    OBVIOUS
  <2>2. QED BY <2>1, TaggedShape
<1>2. PICK bad : bad = {n \in 0..Len(keys) : Keys(kind, b, n) # SubSeq(keys, 1, n)}
  OBVIOUS
<1> SUFFICES ASSUME bad # {} PROVE FALSE
  BY <1>1, <1>2
<1>3. PICK m \in bad : \A k \in bad : m <= k
  <2>1. bad \in SUBSET Nat
    BY <1>2
  <2>2. QED BY <2>1, LeastIsMin
<1>4. m # 0
  <2>1. SubSeq(keys, 1, 0) = <<>>
    BY SubSeqEmpty
  <2>2. QED BY <1>2, <2>1, KeysFold
<1>5. m \in 1..Len(keys) /\ Keys(kind, b, m - 1) = SubSeq(keys, 1, m - 1)
  BY <1>2, <1>3, <1>4
<1>6. Keys(kind, b, m) = Append(SubSeq(keys, 1, m - 1), keys[m])
  <2>1. m \in 1..Len(b) /\ b[m].kind = kind /\ b[m].key = keys[m]
    BY <1>1, <1>5
  <2>2. Keys(kind, b, m) = Append(Keys(kind, b, m - 1), b[m].key)
    BY <2>1, KeysFold
  <2>3. QED BY <1>5, <2>1, <2>2
<1>7. SubSeq(keys, 1, m) = Append(SubSeq(keys, 1, m - 1), keys[m])
  <2>1. Len(keys) \in Nat /\ 1 \in 1..Len(keys) /\ m \in 1..Len(keys)
    BY <1>5
  <2>2. SubSeq(keys, 1, m) = SubSeq(keys, 1, m - 1) \o <<keys[m]>>
    BY <2>1, SubSeqRecursiveSecond
  <2>3. keys[m] \in Call
    BY <1>5
  <2>4. Keys(kind, b, m - 1) \in Seq(Call)
    BY <1>1, <1>5, KeysFold
  <2>5. QED BY <1>5, <2>2, <2>3, <2>4, AppendIsConcat
<1>8. QED BY <1>2, <1>6, <1>7
-----------------------------------------------------------------------------
(* Requests whose uses of tools are followed by their results. *)

\* What ToolsPaired asks of one block, and of all of them.
Fits(bs, i) ==
  \/ Keys("use", bs, i - 1) = Keys("result", bs, i - 1) /\ bs[i].kind \in {"text", "use"}
  \/ bs[i].kind = "use" /\ bs[i - 1].kind = "use"
  \/ bs[i].kind = "result" /\ IsPrefix(Keys("result", bs, i), Keys("use", bs, i))

Good(bs) == \A i \in 1..Len(bs) : Fits(bs, i)

Uses(bs) == Keys("use", bs, Len(bs))
Results(bs) == Keys("result", bs, Len(bs))

\* What fits still fits in a longer request.
LEMMA StillFits ==
  ASSUME NEW b \in Seq(BlockSet), NEW c \in Seq(BlockSet), NEW d, d = b \o c,
         NEW i \in 1..Len(b), Fits(b, i)
  PROVE  Fits(d, i)
<1>1. Len(b) \in Nat /\ i - 1 \in 0..Len(b) /\ i \in 0..Len(b)
  OBVIOUS
<1>2. \A kind : Keys(kind, d, i - 1) = Keys(kind, b, i - 1) /\ Keys(kind, d, i) = Keys(kind, b, i)
  <2>1. \A kind : IsJoin(kind, b, c, d)
    BY KeysJoin
  <2>2. QED BY <1>1, <2>1 DEF IsJoin
<1>3. \A k \in 1..Len(b) : d[k] = b[k]
  BY ConcatProperties
<1>4. CASE i = 1
  <2>1. \A kind : Keys(kind, b, 0) = <<>> /\ Keys(kind, d, 0) = <<>>
    BY <1>2, <1>4, KeysFold
  <2>2. d[1] = b[1]
    BY <1>3, <1>4
  <2>3. b[1].kind \in {"text", "use"} \/ (b[1].kind = "result" /\ IsPrefix(Keys("result", b, 1), Keys("use", b, 1)))
    BY <1>4 DEF Fits
  <2>4. QED BY <1>2, <1>4, <2>1, <2>2, <2>3 DEF Fits
<1>5. CASE i # 1
  <2>1. i - 1 \in 1..Len(b)
    BY <1>5
  <2>2. d[i] = b[i] /\ d[i - 1] = b[i - 1]
    BY <1>3, <2>1
  <2>3. QED BY <1>2, <2>2 DEF Fits
<1>6. QED BY <1>4, <1>5

LEMMA GoodGrows ==
  ASSUME NEW b \in Seq(BlockSet), NEW c \in Seq(BlockSet), NEW d, d = b \o c,
         Good(b), \A n \in 1..Len(c) : Fits(d, Len(b) + n)
  PROVE  Good(d)
<1>1. PICK M \in Nat, N \in Nat : M = Len(b) /\ N = Len(c)
  OBVIOUS
<1>2. Len(d) = M + N
  BY <1>1, ConcatProperties
<1>3. ASSUME NEW i \in 1..(M + N) PROVE Fits(d, i)
  <2>1. CASE i <= M
    <3>1. i \in 1..Len(b) /\ Fits(b, i)
      BY <1>1, <2>1 DEF Good
    <3>2. QED BY <3>1, StillFits
  <2>2. CASE ~(i <= M)
    <3>1. i - M \in 1..N /\ i = M + (i - M)
      BY <2>2
    <3>2. QED BY <1>1, <3>1
  <2>3. QED BY <2>1, <2>2
<1>4. QED BY <1>2, <1>3 DEF Good

LEMMA GoodText ==
  ASSUME NEW b \in Seq(BlockSet), Good(b), Uses(b) = Results(b), NEW t \in Texts,
         NEW d, d = b \o t
  PROVE  d \in Seq(BlockSet) /\ Good(d) /\ Uses(d) = Uses(b) /\ Results(d) = Results(b)
<1>1. PICK M \in Nat, N \in Nat : M = Len(b) /\ N = Len(t)
  BY TextsShape
<1>2. t \in Seq(BlockSet) /\ \A i \in 1..N : t[i].kind = "text"
  BY <1>1, TextsShape
<1>3. d \in Seq(BlockSet) /\ Len(d) = M + N /\ \A i \in 1..N : d[M + i] = t[i]
  <2>1. /\ d \in Seq(BlockSet) /\ Len(d) = Len(b) + Len(t)
        /\ \A i \in 1..Len(t) : d[Len(b) + i] = t[i]
    BY <1>1, <1>2, Joins
  <2>2. QED BY <1>1, <1>2, <2>1
<1>4. ASSUME NEW kind \in {"use", "result"}, NEW n \in 0..N
      PROVE  Keys(kind, d, M + n) = Keys(kind, b, M)
  <2>1. Keys(kind, t, n) = <<>>
    BY <1>1, <1>2, KeysOfOthers
  <2>2. Keys(kind, d, M + n) = Keys(kind, b, M) \o Keys(kind, t, n)
    <3>1. IsJoin(kind, b, t, d)
      BY <1>2, KeysJoin
    <3>2. QED BY <1>1, <3>1 DEF IsJoin
  <2>3. M \in 0..Len(b)
    BY <1>1
  <2>4. Keys(kind, b, M) \in Seq(Call)
    BY <2>3, KeysFold
  <2>5. QED BY <2>1, <2>2, <2>4, ConcatEmptySeq
<1>5. \A n \in 1..N : Fits(d, M + n)
  <2> SUFFICES ASSUME NEW n \in 1..N PROVE Fits(d, M + n)
    OBVIOUS
  <2>1. n - 1 \in 0..N /\ (M + n) - 1 = M + (n - 1)
    BY <1>1
  <2>2. Keys("use", d, (M + n) - 1) = Keys("result", d, (M + n) - 1)
    BY <1>1, <1>4, <2>1 DEF Uses, Results
  <2>3. d[M + n].kind = "text"
    BY <1>2, <1>3
  <2>4. QED BY <2>2, <2>3 DEF Fits
<1>6. Good(d)
  BY <1>1, <1>2, <1>5, GoodGrows
<1>7. Uses(d) = Uses(b) /\ Results(d) = Results(b)
  BY <1>1, <1>3, <1>4 DEF Uses, Results
<1>8. QED BY <1>3, <1>6, <1>7

LEMMA GoodUses ==
  ASSUME NEW b \in Seq(BlockSet), Good(b), Uses(b) = Results(b), NEW keys \in Seq(Call),
         NEW d, d = b \o Tagged("use", keys)
  PROVE  d \in Seq(BlockSet) /\ Good(d) /\ Uses(d) = Results(d) \o keys
<1>1. PICK u \in Seq(BlockSet) :
        /\ u = Tagged("use", keys) /\ Len(u) = Len(keys)
        /\ \A i \in 1..Len(keys) : u[i].kind = "use"
  BY TaggedShape
<1>2. PICK M \in Nat, N \in Nat : M = Len(b) /\ N = Len(u) /\ N = Len(keys)
  BY <1>1
<1>3. d \in Seq(BlockSet) /\ Len(d) = M + N /\ \A i \in 1..N : d[M + i] = u[i]
  <2>1. /\ d \in Seq(BlockSet) /\ Len(d) = Len(b) + Len(u)
        /\ \A i \in 1..Len(u) : d[Len(b) + i] = u[i]
    BY <1>1, <1>2, Joins
  <2>2. QED BY <1>1, <1>2, <2>1
<1>4. \A kind : Keys(kind, b, M) \in Seq(Call)
  <2>1. M \in 0..Len(b)
    BY <1>2
  <2>2. QED BY <2>1, KeysFold
<1>5. \A kind : \A n \in 0..N : Keys(kind, d, M + n) = Keys(kind, b, M) \o Keys(kind, u, n)
  <2>1. \A kind : IsJoin(kind, b, u, d)
    BY <1>1, KeysJoin
  <2>2. QED BY <1>2, <2>1 DEF IsJoin
<1>6. Keys("result", d, M + N) = Keys("result", b, M) /\ Keys("result", d, M) = Keys("result", b, M)
  <2>1. \A n \in 0..N : Keys("result", u, n) = <<>>
    BY <1>1, <1>2, KeysOfOthers
  <2>2. Keys("result", b, M) \o <<>> = Keys("result", b, M)
    BY <1>4, ConcatEmptySeq
  <2>3. 0 \in 0..N /\ N \in 0..N /\ M + 0 = M
    BY <1>2
  <2>4. QED BY <1>5, <2>1, <2>2, <2>3
<1>7. Keys("use", d, M) = Keys("use", b, M)
  <2>1. IsJoin("use", b, u, d)
    BY <1>1, KeysJoin
  <2>2. M \in 0..Len(b)
    BY <1>2
  <2>3. QED BY <2>1, <2>2 DEF IsJoin
<1>8. Uses(d) = Results(d) \o keys
  <2>1. Keys("use", u, N) = SubSeq(keys, 1, N)
    <3>1. N \in 0..Len(keys)
      BY <1>2
    <3>2. QED BY <1>1, <3>1, KeysOfTagged
  <2>2. SubSeq(keys, 1, N) = keys
    BY <1>2, SubSeqFull
  <2>3. N \in 0..N
    BY <1>2
  <2>4. Keys("use", d, M + N) = Keys("use", b, M) \o keys
    BY <1>5, <2>1, <2>2, <2>3
  <2>5. QED BY <1>2, <1>3, <1>6, <2>4 DEF Uses, Results
<1>9. \A n \in 1..N : Fits(d, M + n)
  <2> SUFFICES ASSUME NEW n \in 1..N PROVE Fits(d, M + n)
    OBVIOUS
  <2>1. d[M + n].kind = "use"
    BY <1>1, <1>2, <1>3
  <2>2. CASE n = 1
    <3>1. (M + n) - 1 = M
      BY <1>2, <2>2
    <3>2. Keys("use", d, M) = Keys("result", d, M)
      BY <1>2, <1>6, <1>7 DEF Uses, Results
    <3>3. QED BY <2>1, <3>1, <3>2 DEF Fits
  <2>3. CASE n # 1
    <3>1. n - 1 \in 1..N /\ (M + n) - 1 = M + (n - 1)
      BY <1>2, <2>3
    <3>2. d[(M + n) - 1].kind = "use"
      <4>1. d[M + (n - 1)] = u[n - 1] /\ u[n - 1].kind = "use"
        BY <1>1, <1>2, <1>3, <3>1
      <4>2. QED BY <3>1, <4>1
    <3>3. QED BY <2>1, <3>2 DEF Fits
  <2>4. QED BY <2>2, <2>3
<1>10. Good(d)
  BY <1>1, <1>2, <1>9, GoodGrows
<1>11. QED BY <1>3, <1>8, <1>10

LEMMA PrefixJoins ==
  ASSUME NEW s \in Seq(Call), NEW keys \in Seq(Call), NEW n \in 0..Len(keys)
  PROVE  IsPrefix(s \o SubSeq(keys, 1, n), s \o keys)
<1>1. PICK some \in Seq(Call) :
        some = SubSeq(keys, 1, n) /\ Len(some) = n /\ \A i \in 1..n : some[i] = keys[i]
  BY Begins, ZenonT(40)
<1>2. PICK x : x = s \o some
  OBVIOUS
<1>3. /\ x \in Seq(Call) /\ Len(x) = Len(s) + Len(some)
      /\ \A i \in 1..Len(s) : x[i] = s[i]
      /\ \A i \in 1..Len(some) : x[Len(s) + i] = some[i]
  BY <1>2, Joins
<1>4. PICK y : y = s \o keys
  OBVIOUS
<1>5. /\ y \in Seq(Call) /\ Len(y) = Len(s) + Len(keys)
      /\ \A i \in 1..Len(s) : y[i] = s[i]
      /\ \A i \in 1..Len(keys) : y[Len(s) + i] = keys[i]
  BY <1>4, Joins
<1>6. PICK L \in Nat, M \in Nat : /\ M = Len(s) /\ L = M + n /\ Len(x) = L /\ L \in 0..Len(y)
                                /\ Len(y) \in Nat
  BY <1>1, <1>3, <1>5
<1>7. \A i \in 1..L : x[i] = y[i]
  <2> SUFFICES ASSUME NEW i \in 1..L PROVE x[i] = y[i]
    OBVIOUS
  <2>1. CASE i <= M
    BY <1>3, <1>5, <1>6, <2>1
  <2>2. CASE ~(i <= M)
    <3>1. i - M \in 1..n /\ M + (i - M) = i
      BY <1>6, <2>2
    <3>2. i - M \in 1..Len(some) /\ i - M \in 1..Len(keys)
      BY <1>1, <3>1
    <3>3. x[M + (i - M)] = some[i - M] /\ y[M + (i - M)] = keys[i - M]
      <4>1. PICK k : k = i - M
        OBVIOUS
      <4>2. k \in 1..Len(some) /\ k \in 1..Len(keys)
        BY <3>2, <4>1
      <4>3. x[Len(s) + k] = some[k] /\ y[Len(s) + k] = keys[k]
        <5>1. x[Len(s) + k] = some[k]
          BY <1>3, <4>2
        <5>2. y[Len(s) + k] = keys[k]
          BY <1>5, <4>2
        <5>3. QED BY <5>1, <5>2
      <4>4. QED BY <1>6, <4>1, <4>3
    <3>4. QED BY <1>1, <3>1, <3>3
  <2>3. QED BY <2>1, <2>2
<1>8. SubSeq(x, 1, L) = SubSeq(y, 1, L)
  <2>1. PICK p : p = SubSeq(x, 1, L)
    OBVIOUS
  <2>2. p \in Seq(Call) /\ Len(p) = L /\ \A i \in 1..L : p[i] = x[i]
    <3>1. L \in 0..Len(x)
      BY <1>6
    <3>2. QED BY <1>3, <2>1, <3>1, Begins
  <2>3. PICK q : q = SubSeq(y, 1, L)
    OBVIOUS
  <2>4. q \in Seq(Call) /\ Len(q) = L /\ \A i \in 1..L : q[i] = y[i]
    BY <1>5, <1>6, <2>3, Begins
  <2>5. p = q
    BY <1>7, <2>2, <2>4, SeqEqual
  <2>6. QED BY <2>1, <2>3, <2>5
<1>9. IsPrefix(x, y)
  BY <1>6, <1>8 DEF IsPrefix
<1>10. QED BY <1>1, <1>2, <1>4, <1>9

LEMMA GoodResults ==
  ASSUME NEW b \in Seq(BlockSet), Good(b), NEW keys \in Seq(Call), Uses(b) = Results(b) \o keys,
         NEW d, d = b \o Tagged("result", keys)
  PROVE  d \in Seq(BlockSet) /\ Good(d) /\ Uses(d) = Results(d)
<1>1. PICK u \in Seq(BlockSet) :
        /\ u = Tagged("result", keys) /\ Len(u) = Len(keys)
        /\ \A i \in 1..Len(keys) : u[i].kind = "result"
  BY TaggedShape
<1>2. PICK M \in Nat, N \in Nat : M = Len(b) /\ N = Len(u) /\ N = Len(keys)
  BY <1>1
<1>3. d \in Seq(BlockSet) /\ Len(d) = M + N /\ \A i \in 1..N : d[M + i] = u[i]
  <2>1. /\ d \in Seq(BlockSet) /\ Len(d) = Len(b) + Len(u)
        /\ \A i \in 1..Len(u) : d[Len(b) + i] = u[i]
    BY <1>1, <1>2, Joins
  <2>2. QED BY <1>1, <1>2, <2>1
<1>4. \A kind : Keys(kind, b, M) \in Seq(Call)
  <2>1. M \in 0..Len(b)
    BY <1>2
  <2>2. QED BY <2>1, KeysFold
<1>5. \A kind : \A n \in 0..N : Keys(kind, d, M + n) = Keys(kind, b, M) \o Keys(kind, u, n)
  <2>1. \A kind : IsJoin(kind, b, u, d)
    BY <1>1, KeysJoin
  <2>2. QED BY <1>2, <2>1 DEF IsJoin
<1>6. PICK R \in Seq(Call) : R = Keys("result", b, M) /\ Keys("use", b, M) = R \o keys
  BY <1>2, <1>4 DEF Uses, Results
<1>7. \A n \in 0..N : Keys("use", d, M + n) = R \o keys
  <2>1. \A n \in 0..N : Keys("use", u, n) = <<>>
    BY <1>1, <1>2, KeysOfOthers
  <2>2. R \o keys \in Seq(Call)
    BY ConcatProperties
  <2>3. (R \o keys) \o <<>> = R \o keys
    BY <2>2, ConcatEmptySeq
  <2>4. QED BY <1>5, <1>6, <2>1, <2>3
<1>8. \A n \in 0..N : Keys("result", d, M + n) = R \o SubSeq(keys, 1, n)
  <2>1. \A n \in 0..N : Keys("result", u, n) = SubSeq(keys, 1, n)
    BY <1>1, <1>2, KeysOfTagged
  <2>2. QED BY <1>5, <1>6, <2>1
<1>9. Uses(d) = Results(d)
  <2>1. SubSeq(keys, 1, N) = keys /\ N \in 0..N
    BY <1>2, SubSeqFull
  <2>2. Keys("result", d, M + N) = R \o keys /\ Keys("use", d, M + N) = R \o keys
    BY <1>7, <1>8, <2>1
  <2>3. QED BY <1>3, <2>2 DEF Uses, Results
<1>10. \A n \in 1..N : Fits(d, M + n)
  <2> SUFFICES ASSUME NEW n \in 1..N PROVE Fits(d, M + n)
    OBVIOUS
  <2>1. n \in 0..N /\ n \in 0..Len(keys)
    BY <1>2
  <2>2. d[M + n].kind = "result"
    BY <1>1, <1>2, <1>3
  <2>3. IsPrefix(R \o SubSeq(keys, 1, n), R \o keys)
    BY <2>1, PrefixJoins
  <2>4. IsPrefix(Keys("result", d, M + n), Keys("use", d, M + n))
    BY <1>7, <1>8, <2>1, <2>3
  <2>5. QED BY <2>2, <2>4 DEF Fits
<1>11. Good(d)
  BY <1>1, <1>2, <1>10, GoodGrows
<1>12. QED BY <1>3, <1>9, <1>11
-----------------------------------------------------------------------------
(* Conversations in which every call has its result in the next message. *)

\* Calls are the agent's, and what has results is the message after such calls.
Balanced(ms) ==
  /\ \A i \in 1..Len(ms) : ms[i].calls # <<>> =>
       /\ ms[i].role = "agent" /\ ms[i].results = <<>>
       /\ i < Len(ms) /\ ms[i + 1].results = ms[i].calls
  /\ \A i \in 1..Len(ms) : ms[i].results # <<>> => i > 1 /\ ms[i - 1].calls = ms[i].results

LEMMA JoinedTwice ==
  ASSUME NEW a \in Seq(BlockSet), NEW b \in Seq(BlockSet), NEW c \in Seq(BlockSet)
  PROVE  (a \o b) \o c = a \o (b \o c)
BY ConcatAssociative

LEMMA BalancedIsPaired ==
  ASSUME NEW provider \in Providers, NEW ms \in Seq(Message), Balanced(ms)
  PROVE  Paired(Request(provider, ms))
<1>1. PICK N \in Nat : N = Len(ms) /\ \A n \in 1..N : ms[n] \in Message
  OBVIOUS
<1>2. \A n \in 1..N : ms[n].calls # <<>> => ms[n].role = "agent"
  BY <1>1 DEF Balanced
<1>3. PICK f \in [0..N -> Seq(BlockSet)] :
        /\ f[0] = <<>> /\ f[N] = Request(provider, ms)
        /\ \A n \in 1..N : f[n] = f[n - 1] \o Blocks(provider, ms[n])
  BY <1>1, <1>2, RequestFold
<1> DEFINE P(n) == /\ Good(f[n])
                   /\ IF n > 0 /\ ms[n].calls # <<>>
                      THEN Uses(f[n]) = Results(f[n]) \o KeysFor(provider, ms[n].calls)
                      ELSE Uses(f[n]) = Results(f[n])
<1>4. P(0)
  <2>1. Len(<<>>) = 0 /\ <<>> \in Seq(BlockSet)
    BY EmptySeq
  <2>2. Good(<<>>)
    BY <2>1 DEF Good
  <2>3. Uses(<<>>) = <<>> /\ Results(<<>>) = <<>>
    BY <2>1, KeysFold DEF Uses, Results
  <2>4. QED BY <1>3, <2>2, <2>3
<1>5. ASSUME NEW n \in 1..N, P(n - 1) PROVE P(n)
  <2>1. PICK m \in Message : m = ms[n]
    BY <1>1
  <2>2. PICK calls \in Seq(Call), results \in Seq(Call) : calls = m.calls /\ results = m.results
    BY DEF Message
  <2>3. PICK b \in Seq(BlockSet) : b = f[n - 1]
    <3>1. n - 1 \in 0..N
      BY <1>1
    <3>2. QED BY <3>1
  <2>4. PICK d : d = f[n]
    OBVIOUS
  <2>5. d = b \o Blocks(provider, m)
    BY <1>3, <2>1, <2>3, <2>4
  <2>6. n - 1 > 0 => n - 1 \in 1..N /\ n - 1 < N /\ (n - 1) + 1 = n
    BY <1>1
  <2>7. Good(b)
    BY <1>5, <2>3
  <2>8. CASE results # <<>>
    <3>1. n > 1 /\ ms[n - 1].calls = results /\ calls = <<>>
      BY <1>1, <2>1, <2>2, <2>8 DEF Balanced
    <3>2. n - 1 > 0
      BY <3>1
    <3>3. PICK keys \in Seq(Call) : keys = KeysFor(provider, results)
      BY KeysForShape
    <3>4. Uses(b) = Results(b) \o keys
      BY <1>5, <2>3, <2>8, <3>1, <3>2, <3>3
    <3>5. d = b \o Tagged("result", keys)
      <4>1. m.calls # <<>> => m.role = "agent"
        BY <1>2, <2>1
      <4>2. Blocks(provider, m) = Tagged("result", KeysFor(provider, results))
        BY <2>2, <2>8, <4>1, BlocksShape
      <4>3. QED BY <2>5, <3>3, <4>2
    <3>6. Good(d) /\ Uses(d) = Results(d)
      BY <2>7, <3>4, <3>5, GoodResults
    <3>7. QED BY <2>1, <2>2, <2>4, <3>1, <3>6
  <2>9. CASE results = <<>>
    <3>1. Uses(b) = Results(b)
      <4>1. n - 1 > 0 => ms[n - 1].calls = <<>>
        BY <1>1, <2>1, <2>2, <2>6, <2>9 DEF Balanced
      <4>2. QED BY <1>5, <2>3, <4>1
    <3>2. m.calls # <<>> => m.role = "agent"
      BY <1>2, <2>1
    <3>3. PICK t \in Texts : Blocks(provider, m) = t \o Tagged("use", KeysFor(provider, calls))
      BY <2>2, <2>9, <3>2, BlocksShape
    <3>4. PICK keys \in Seq(Call) : keys = KeysFor(provider, calls) /\ Len(keys) = Len(calls)
      BY KeysForShape
    <3>5. PICK c : c = b \o t
      OBVIOUS
    <3>6. c \in Seq(BlockSet) /\ Good(c) /\ Uses(c) = Results(c)
      BY <2>7, <3>1, <3>5, GoodText
    <3>7. d = c \o Tagged("use", keys)
      <4>1. t \in Seq(BlockSet)
        BY TextsShape
      <4>2. "use" \in {"text", "use", "result"}
        OBVIOUS
      <4>3. Tagged("use", keys) \in Seq(BlockSet)
        BY <4>2, TaggedShape
      <4>4. PICK u \in Seq(BlockSet) : u = Tagged("use", keys)
        BY <4>3
      <4>5. d = b \o (t \o u)
        BY <2>5, <3>3, <3>4, <4>4
      <4>6. (b \o t) \o u = b \o (t \o u)
        BY <4>1, JoinedTwice
      <4>7. QED BY <3>5, <4>4, <4>5, <4>6
    <3>8. d \in Seq(BlockSet) /\ Good(d) /\ Uses(d) = Results(d) \o keys
      BY <3>6, <3>7, GoodUses
    <3>9. CASE calls = <<>>
      <4>1. keys = <<>>
        <5>1. Len(calls) = 0
          BY <3>9
        <5>2. QED BY <3>4, <5>1, EmptySeq
      <4>2. Results(d) \in Seq(Call)
        <5>1. Len(d) \in 0..Len(d)
          BY <3>8
        <5>2. QED BY <3>8, <5>1, KeysFold DEF Results
      <4>3. Results(d) \o keys = Results(d)
        BY <4>1, <4>2, ConcatEmptySeq
      <4>4. QED BY <2>1, <2>2, <2>4, <3>8, <3>9, <4>3
    <3>10. CASE calls # <<>>
      BY <2>1, <2>2, <2>4, <3>4, <3>8, <3>10
    <3>11. QED BY <3>9, <3>10
  <2>10. QED BY <2>8, <2>9
<1>6. \A n \in 0..N : P(n)
  <2>1. PICK bad : bad = {n \in 0..N : ~P(n)}
    OBVIOUS
  <2> SUFFICES ASSUME bad # {} PROVE FALSE
    BY <2>1
  <2>2. PICK m \in bad : \A k \in bad : m <= k
    <3>1. bad \in SUBSET Nat
      BY <2>1
    <3>2. QED BY <3>1, LeastIsMin
  <2>3. m # 0 /\ m \in 0..N /\ ~P(m)
    BY <1>4, <2>1
  <2>4. m \in 1..N /\ m - 1 \in 0..N /\ ~(m <= m - 1)
    BY <2>3
  <2>5. P(m - 1)
    BY <2>1, <2>2, <2>4
  <2>6. P(m)
    BY <1>5, <2>4, <2>5
  <2>7. QED BY <2>3, <2>6
<1>7. PICK r \in Seq(BlockSet) : r = Request(provider, ms) /\ r = f[N]
  BY <1>3
<1>8. Good(r) /\ Uses(r) = Results(r)
  <2>1. N > 0 => ms[N].calls = <<>>
    BY <1>1 DEF Balanced
  <2>2. N \in 0..N
    BY <1>1
  <2>3. QED BY <1>6, <1>7, <2>1, <2>2
<1>9. DOMAIN r = 1..Len(r)
  OBVIOUS
<1>10. Paired(r)
  BY <1>8, <1>9 DEF Paired, Good, Fits, Uses, Results
<1>11. QED BY <1>7, <1>10
-----------------------------------------------------------------------------
(* A session that can be replayed becomes such a conversation. *)

\* Every result in a session comes right after its call.
Answers(events) ==
  \A i \in 1..Len(events) : events[i].type = "toolResult" =>
    /\ i > 1 /\ events[i - 1].type = "toolCall" /\ events[i - 1].call = events[i].call

LEMMA AppendShape ==
  ASSUME NEW S, NEW s \in Seq(S), NEW x \in S, NEW t, t = Append(s, x)
  PROVE  /\ t \in Seq(S) /\ Len(t) = Len(s) + 1 /\ t[Len(s) + 1] = x
         /\ \A i \in 1..Len(s) : t[i] = s[i]
<1>1. Len(s) \in Nat
  OBVIOUS
<1>2. QED BY <1>1, AppendProperties

LEMMA BalancedSays ==
  ASSUME NEW ms \in Seq(Message), Balanced(ms),
         NEW m \in Message, m.calls = <<>>, m.results = <<>>, NEW new, new = Append(ms, m)
  PROVE  new \in Seq(Message) /\ Balanced(new)
<1>1. PICK N \in Nat : N = Len(ms)
  OBVIOUS
<1>2. /\ new \in Seq(Message) /\ Len(new) = N + 1 /\ new[N + 1] = m
      /\ \A i \in 1..N : new[i] = ms[i]
  BY <1>1, AppendShape
<1>3. ASSUME NEW i \in 1..(N + 1), new[i].calls # <<>>
      PROVE  /\ new[i].role = "agent" /\ new[i].results = <<>>
             /\ i < N + 1 /\ new[i + 1].results = new[i].calls
  <2>1. i \in 1..N
    BY <1>2, <1>3
  <2>2. ms[i].calls # <<>> /\ new[i] = ms[i]
    BY <1>2, <1>3, <2>1
  <2>3. /\ ms[i].role = "agent" /\ ms[i].results = <<>>
        /\ i < N /\ ms[i + 1].results = ms[i].calls
    BY <1>1, <2>1, <2>2 DEF Balanced
  <2>4. i + 1 \in 1..N
    BY <2>1, <2>3
  <2>5. QED BY <1>2, <2>1, <2>2, <2>3, <2>4
<1>4. ASSUME NEW i \in 1..(N + 1), new[i].results # <<>>
      PROVE  i > 1 /\ new[i - 1].calls = new[i].results
  <2>1. i \in 1..N
    BY <1>2, <1>4
  <2>2. ms[i].results # <<>> /\ new[i] = ms[i]
    BY <1>2, <1>4, <2>1
  <2>3. i > 1 /\ ms[i - 1].calls = ms[i].results
    BY <1>1, <2>1, <2>2 DEF Balanced
  <2>4. i - 1 \in 1..N
    BY <2>1, <2>3
  <2>5. QED BY <1>2, <2>2, <2>3, <2>4
<1>5. QED BY <1>2, <1>3, <1>4 DEF Balanced

\* A message of calls and then one of their results.
LEMMA BalancedAsks ==
  ASSUME NEW ms \in Seq(Message), Balanced(ms),
         NEW a \in Message, a.role = "agent", a.results = <<>>,
         NEW t \in Message, t.calls = <<>>, t.results = a.calls,
         NEW mid, mid = Append(ms, a), NEW new, new = Append(mid, t)
  PROVE  mid \in Seq(Message) /\ new \in Seq(Message) /\ Balanced(new)
<1>1. PICK N \in Nat : N = Len(ms)
  OBVIOUS
<1>2. /\ mid \in Seq(Message) /\ Len(mid) = N + 1 /\ mid[N + 1] = a
      /\ \A i \in 1..N : mid[i] = ms[i]
  BY <1>1, AppendShape
<1>3. /\ new \in Seq(Message) /\ Len(new) = N + 2 /\ new[N + 2] = t /\ new[N + 1] = a
      /\ \A i \in 1..N : new[i] = ms[i]
  <2>1. /\ new \in Seq(Message) /\ Len(new) = Len(mid) + 1 /\ new[Len(mid) + 1] = t
        /\ \A i \in 1..Len(mid) : new[i] = mid[i]
    BY <1>2, AppendShape
  <2>2. (N + 1) + 1 = N + 2 /\ N + 1 \in 1..(N + 1) /\ \A i \in 1..N : i \in 1..(N + 1)
    BY <1>1
  <2>3. QED BY <1>2, <2>1, <2>2
<1>4. ASSUME NEW i \in 1..(N + 2), new[i].calls # <<>>
      PROVE  /\ new[i].role = "agent" /\ new[i].results = <<>>
             /\ i < N + 2 /\ new[i + 1].results = new[i].calls
  <2>1. i # N + 2
    BY <1>3, <1>4
  <2>2. CASE i = N + 1
    <3>1. i + 1 = N + 2 /\ i < N + 2
      BY <1>1, <2>2
    <3>2. QED BY <1>3, <2>2, <3>1
  <2>3. CASE i # N + 1
    <3>1. i \in 1..N
      BY <2>1, <2>3
    <3>2. ms[i].calls # <<>> /\ new[i] = ms[i]
      BY <1>3, <1>4, <3>1
    <3>3. /\ ms[i].role = "agent" /\ ms[i].results = <<>>
          /\ i < N /\ ms[i + 1].results = ms[i].calls
      BY <1>1, <3>1, <3>2 DEF Balanced
    <3>4. i + 1 \in 1..N
      BY <3>1, <3>3
    <3>5. QED BY <1>3, <3>1, <3>2, <3>3, <3>4
  <2>4. QED BY <2>2, <2>3
<1>5. ASSUME NEW i \in 1..(N + 2), new[i].results # <<>>
      PROVE  i > 1 /\ new[i - 1].calls = new[i].results
  <2>1. CASE i = N + 2
    <3>1. i - 1 = N + 1 /\ i > 1
      BY <1>1, <2>1
    <3>2. QED BY <1>3, <2>1, <3>1
  <2>2. CASE i # N + 2
    <3>1. i \in 1..N
      BY <1>3, <1>5, <2>2
    <3>2. ms[i].results # <<>> /\ new[i] = ms[i]
      BY <1>3, <1>5, <3>1
    <3>3. i > 1 /\ ms[i - 1].calls = ms[i].results
      BY <1>1, <3>1, <3>2 DEF Balanced
    <3>4. i - 1 \in 1..N
      BY <3>1, <3>3
    <3>5. QED BY <1>3, <3>2, <3>3, <3>4
  <2>3. QED BY <2>1, <2>2
<1>6. QED BY <1>2, <1>3, <1>4, <1>5 DEF Balanced

\* A call that joins the agent's last message, and then its result.
LEMMA BalancedJoins ==
  ASSUME NEW ms \in Seq(Message), Balanced(ms), NEW n, n = Len(ms), n # 0,
         ms[n].role = "agent", ms[n].results = <<>>,
         NEW c \in Call, NEW mid \in Seq(Message), Len(mid) = n,
         \A i \in 1..(n - 1) : mid[i] = ms[i],
         mid[n].role = "agent", mid[n].results = <<>>, mid[n].calls = <<c>>,
         NEW t \in Message, t.calls = <<>>, t.results = <<c>>,
         NEW new, new = Append(mid, t)
  PROVE  new \in Seq(Message) /\ Balanced(new)
<1>1. n \in Nat /\ n \in 1..n
  OBVIOUS
<1>2. /\ new \in Seq(Message) /\ Len(new) = n + 1 /\ new[n + 1] = t
      /\ \A i \in 1..n : new[i] = mid[i]
  BY AppendShape
<1>3. \A i \in 1..(n - 1) : new[i] = ms[i]
  BY <1>1, <1>2
<1>4. ASSUME NEW i \in 1..(n + 1), new[i].calls # <<>>
      PROVE  /\ new[i].role = "agent" /\ new[i].results = <<>>
             /\ i < n + 1 /\ new[i + 1].results = new[i].calls
  <2>1. i # n + 1
    BY <1>2, <1>4
  <2>2. CASE i = n
    BY <1>1, <1>2, <2>2, SMTT(30)
  <2>3. CASE i # n
    <3>1. i \in 1..(n - 1) /\ i \in 1..n
      BY <1>1, <2>1, <2>3
    <3>2. ms[i].calls # <<>> /\ new[i] = ms[i]
      BY <1>3, <1>4, <3>1
    <3>3. /\ ms[i].role = "agent" /\ ms[i].results = <<>>
          /\ i < n /\ ms[i + 1].results = ms[i].calls
      BY <3>1, <3>2 DEF Balanced
    <3>4. i + 1 # n
      BY <3>2, <3>3
    <3>5. i + 1 \in 1..(n - 1)
      BY <3>1, <3>4
    <3>6. QED BY <1>1, <1>3, <3>1, <3>2, <3>3, <3>5
  <2>4. QED BY <2>2, <2>3
<1>5. ASSUME NEW i \in 1..(n + 1), new[i].results # <<>>
      PROVE  i > 1 /\ new[i - 1].calls = new[i].results
  <2>1. CASE i = n + 1
    <3>1. i - 1 = n /\ i > 1
      BY <1>1, <2>1
    <3>2. QED BY <1>1, <1>2, <2>1, <3>1
  <2>2. CASE i # n + 1
    <3>1. i \in 1..n /\ i # n
      BY <1>1, <1>2, <1>5, <2>2
    <3>2. i \in 1..(n - 1)
      BY <1>1, <3>1
    <3>3. ms[i].results # <<>> /\ new[i] = ms[i]
      BY <1>3, <1>5, <3>2
    <3>4. i > 1 /\ ms[i - 1].calls = ms[i].results
      BY <3>1, <3>3 DEF Balanced
    <3>5. i - 1 \in 1..(n - 1)
      BY <3>2, <3>4
    <3>6. QED BY <1>3, <3>3, <3>4, <3>5
  <2>3. QED BY <2>1, <2>2
<1>6. QED BY <1>2, <1>4, <1>5 DEF Balanced

\* After a text of the agent, files and data aside, its message comes last.
Spoken(events, n) ==
  \E j \in 1..n : /\ events[j].type = "text" /\ events[j].role = "agent"
                  /\ \A k \in (j + 1)..n : events[k].type \in {"file", "data"}

Speaks(ms) == /\ ms # <<>> /\ ms[Len(ms)].role = "agent"
             /\ ms[Len(ms)].calls = <<>> /\ ms[Len(ms)].results = <<>>

LEMMA HistoryBalanced ==
  ASSUME NEW events \in Seq(AgentEvent), Answers(events), Replayable(events)
  PROVE  History(events) \in Seq(Message) /\ Balanced(History(events))
<1>1. PICK N \in Nat : N = Len(events) /\ DOMAIN events = 1..N /\ \A n \in 1..N : events[n] \in AgentEvent
  OBVIOUS
<1>2. PICK f \in [0..N -> Seq(Message)] :
        /\ f[0] = <<>> /\ f[N] = History(events)
        /\ \A n \in 1..N : f[n] = Replay(f[n - 1], events[n])
  BY <1>1, HistoryFold
<1>3. \A n \in 1..N : events[n].type = "toolCall" =>
        /\ n < N /\ events[n + 1].type = "toolResult"
        /\ Spoken(events, n - 1)
  BY <1>1 DEF Replayable, Spoken
<1> DEFINE P(n) == /\ Spoken(events, n) => Speaks(f[n])
                   /\ IF n > 0 /\ events[n].type = "toolCall"
                      THEN Balanced(Append(f[n], Tells(<<events[n].call>>)))
                      ELSE Balanced(f[n])
<1>4. P(0)
  <2>1. ~Spoken(events, 0)
    BY DEF Spoken
  <2>2. Len(<<>>) = 0
    BY EmptySeq
  <2>3. Balanced(<<>>)
    BY <2>2 DEF Balanced
  <2>4. QED BY <1>2, <2>1, <2>3
<1>5. ASSUME NEW n \in 1..N, P(n - 1) PROVE P(n)
  <2>1. PICK e \in AgentEvent : e = events[n]
    BY <1>1
  <2>2. PICK ms \in Seq(Message) : ms = f[n - 1]
    <3>1. n - 1 \in 0..N
      BY <1>1
    <3>2. QED BY <3>1
  <2>3. PICK new : new = f[n] /\ new = Replay(ms, e)
    BY <1>2, <2>1, <2>2
  <2>4. e.call \in Call /\ e.role \in {"user", "agent"}
    BY DEF AgentEvent
  <2>5. e.type # "toolResult" => Balanced(ms)
    <3>1. n - 1 > 0 => n - 1 \in 1..N /\ (n - 1) + 1 = n
      BY <1>1
    <3>2. e.type # "toolResult" => ~(n - 1 > 0 /\ events[n - 1].type = "toolCall")
      BY <1>3, <2>1, <3>1
    <3>3. QED BY <1>5, <2>2, <3>2
  <2>6. e.type \notin {"text", "file", "data"} => ~Spoken(events, n)
    <3> SUFFICES ASSUME e.type \notin {"text", "file", "data"}, Spoken(events, n) PROVE FALSE
      OBVIOUS
    <3>1. PICK j \in 1..n : /\ events[j].type = "text"
                            /\ \A k \in (j + 1)..n : events[k].type \in {"file", "data"}
      BY DEF Spoken
    <3>2. j # n
      BY <2>1, <3>1
    <3>3. n \in (j + 1)..n
      BY <1>1, <3>2
    <3>4. QED BY <2>1, <3>1, <3>3
  <2>7. CASE e.type = "text"
    <3>1. PICK m : m = Said(e.role, TRUE)
      OBVIOUS
    <3>2. m \in Message /\ m.role = e.role /\ m.calls = <<>> /\ m.results = <<>>
      BY <2>4, <3>1, SaidShape
    <3>3. new = Append(ms, m)
      BY <2>3, <2>7, <3>1 DEF Replay
    <3>4. new \in Seq(Message) /\ Balanced(new)
      BY <2>5, <2>7, <3>2, <3>3, BalancedSays
    <3>5. Len(new) = Len(ms) + 1 /\ new[Len(new)] = m /\ new # <<>>
      <4>1. Len(new) = Len(ms) + 1 /\ new[Len(ms) + 1] = m
        BY <3>2, <3>3, AppendShape
      <4>2. Len(ms) \in Nat /\ Len(<<>>) = 0
        BY EmptySeq
      <4>3. QED BY <4>1, <4>2
    <3>6. Spoken(events, n) => e.role = "agent"
      <4> SUFFICES ASSUME Spoken(events, n) PROVE e.role = "agent"
        OBVIOUS
      <4>1. PICK j \in 1..n : /\ events[j].role = "agent"
                              /\ \A k \in (j + 1)..n : events[k].type \in {"file", "data"}
        BY DEF Spoken
      <4>2. j = n
        <5> SUFFICES ASSUME j # n PROVE FALSE
          OBVIOUS
        <5>1. n \in (j + 1)..n
          BY <1>1
        <5>2. QED BY <2>1, <2>7, <4>1, <5>1
      <4>3. QED BY <2>1, <4>1, <4>2
    <3>7. Spoken(events, n) => Speaks(new)
      BY <3>2, <3>5, <3>6 DEF Speaks
    <3>8. QED BY <2>1, <2>3, <2>7, <3>4, <3>7
  <2>8. CASE e.type = "toolResult"
    <3>1. n > 1 /\ events[n - 1].type = "toolCall" /\ events[n - 1].call = e.call
      BY <1>1, <2>1, <2>8 DEF Answers
    <3>2. Balanced(Append(ms, Tells(<<e.call>>)))
      BY <1>5, <2>2, <3>1
    <3>3. new = Append(ms, Tells(<<e.call>>))
      BY <2>3, <2>8 DEF Replay
    <3>4. QED BY <2>1, <2>3, <2>6, <2>8, <3>2, <3>3
  <2>9. CASE e.type = "toolCall"
    <3>1. Spoken(events, n - 1)
      BY <1>3, <2>1, <2>9
    <3>2. Speaks(ms)
      BY <1>5, <2>2, <3>1
    <3>3. PICK last : last = Len(ms)
      OBVIOUS
    <3>4. ms # <<>> /\ ms[last].role = "agent" /\ ms[last].calls = <<>> /\ ms[last].results = <<>>
      BY <3>2, <3>3 DEF Speaks
    <3>5. PICK c \in Call : c = e.call
      BY <2>4
    <3>6. PICK mid : mid = [ms EXCEPT ![last].calls = Append(@, c)]
      OBVIOUS
    <3>7. /\ mid \in Seq(Message) /\ Len(mid) = last /\ last \in Nat \ {0}
          /\ \A i \in 1..(last - 1) : mid[i] = ms[i]
          /\ mid[last].role = ms[last].role /\ mid[last].results = ms[last].results
          /\ mid[last].calls = Append(ms[last].calls, c)
      <4>1. HasJoined(mid, ms, last, c)
        BY <3>3, <3>4, <3>6, CallJoins
      <4>2. QED BY <4>1 DEF HasJoined
    <3>8. mid[last].calls = <<c>> /\ <<c>> \in Seq(Call)
      BY <3>4, <3>7
    <3>9. PICK t : t = Tells(<<c>>)
      OBVIOUS
    <3>10. t \in Message /\ t.calls = <<>> /\ t.results = <<c>>
      BY <3>8, <3>9, TellsShape
    <3>11. Balanced(ms)
      BY <2>5, <2>9
    <3>12. PICK whole : whole = Append(mid, t)
      OBVIOUS
    <3>13. Balanced(whole)
      BY <3>3, <3>4, <3>7, <3>8, <3>10, <3>11, <3>12, BalancedJoins
    <3>14. new = mid
      <4>1. Last(ms) = ms[last]
        BY <3>3 DEF Last
      <4>2. QED BY <2>3, <2>9, <3>3, <3>4, <3>5, <3>6, <4>1 DEF Replay
    <3>15. QED BY <2>1, <2>3, <2>6, <2>9, <3>5, <3>9, <3>12, <3>13, <3>14
  <2>10. CASE e.type \notin {"text", "toolResult", "toolCall"}
    <3>1. new = ms
      BY <2>3, <2>10 DEF Replay
    <3>2. Balanced(ms)
      BY <2>5, <2>10
    <3>3. Spoken(events, n) => Spoken(events, n - 1)
      <4> SUFFICES ASSUME Spoken(events, n) PROVE Spoken(events, n - 1)
        OBVIOUS
      <4>1. PICK j \in 1..n : /\ events[j].type = "text" /\ events[j].role = "agent"
                              /\ \A k \in (j + 1)..n : events[k].type \in {"file", "data"}
        BY DEF Spoken
      <4>2. j \in 1..(n - 1) /\ \A k \in (j + 1)..(n - 1) : k \in (j + 1)..n
        BY <1>1, <2>1, <2>10, <4>1
      <4>3. QED BY <4>1, <4>2 DEF Spoken
    <3>4. Spoken(events, n) => Speaks(new)
      BY <1>5, <2>2, <3>1, <3>3
    <3>5. QED BY <2>1, <2>3, <2>10, <3>1, <3>2, <3>4
  <2>11. QED BY <2>7, <2>8, <2>9, <2>10
<1>6. \A n \in 0..N : P(n)
  <2>1. PICK bad : bad = {n \in 0..N : ~P(n)}
    OBVIOUS
  <2> SUFFICES ASSUME bad # {} PROVE FALSE
    BY <2>1
  <2>2. PICK m \in bad : \A k \in bad : m <= k
    <3>1. bad \in SUBSET Nat
      BY <2>1
    <3>2. QED BY <3>1, LeastIsMin
  <2>3. m # 0 /\ m \in 0..N /\ ~P(m)
    BY <1>4, <2>1
  <2>4. m \in 1..N /\ m - 1 \in 0..N /\ ~(m <= m - 1)
    BY <2>3
  <2>5. P(m - 1)
    BY <2>1, <2>2, <2>4
  <2>6. P(m)
    BY <1>5, <2>4, <2>5
  <2>7. QED BY <2>3, <2>6
<1>7. Balanced(f[N])
  <2>1. ~(N > 0 /\ events[N].type = "toolCall")
    BY <1>1, <1>3
  <2>2. N \in 0..N
    BY <1>1
  <2>3. QED BY <1>6, <2>1, <2>2
<1>8. QED BY <1>1, <1>2, <1>7
-----------------------------------------------------------------------------
(* What an agent is told and yields. *)

Kinds == {"text", "file", "data"}
Places == {"idle", "created", "started", "setup", "loop", "asking", "model", "emit", "tools",
           "tool", "custom", "remote", "ended"}

AgentState ==
  [at : Places, calls : Nat, intercepted : Nat, used : Nat, contents : Seq(Message),
   content : Seq(Kinds), text : BOOLEAN, asked : Seq(Call), due : Seq(Call),
   results : Seq(Call), history : Nat]

LEMMA UsesShape ==
  ASSUME NEW reply \in Seq(STRING)
  PROVE  UsesOf(reply) \in Seq(STRING) /\ TextsOf(reply) \in Seq({"text"})
<1>1. ASSUME NEW wanted
      PROVE  Chosen(reply, wanted)[Len(reply)] \in Seq(STRING \cap wanted)
  <2>1. PICK f : f = Chosen(reply, wanted)
    OBVIOUS
  <2>2. IsChoice(f, STRING, reply, wanted)
    BY <2>1, ChosenFold
  <2>3. Len(reply) \in 0..Len(reply)
    BY EmptySeq
  <2>4. QED BY <2>1, <2>2, <2>3 DEF IsChoice
<1>2. UsesOf(reply) \in Seq(STRING)
  <2>1. PICK wanted : wanted = ToSet(reply) \ {"text"}
    OBVIOUS
  <2>2. UsesOf(reply) \in Seq(STRING \cap wanted)
    BY <1>1, <2>1 DEF UsesOf
  <2>3. STRING \cap wanted \subseteq STRING
    OBVIOUS
  <2>4. QED BY <2>2, <2>3, SeqMonotonic
<1>3. TextsOf(reply) \in Seq({"text"})
  <2>1. TextsOf(reply) \in Seq(STRING \cap {"text"})
    BY <1>1 DEF TextsOf
  <2>2. STRING \cap {"text"} \subseteq {"text"}
    OBVIOUS
  <2>3. QED BY <2>1, <2>2, SeqMonotonic
<1>4. QED BY <1>2, <1>3

LEMMA ReplyShape ==
  ASSUME NEW provider \in Providers, NEW reply \in Seq(STRING), NEW next \in Nat,
         NEW r, r = FromReply(provider, reply, next)
  PROVE  \E content \in Seq(Kinds), calls \in Seq(Call) : r = Response(content, calls)
<1>1. PICK uses \in Seq(STRING) : uses = UsesOf(reply)
  BY UsesShape
<1>2. Len(uses) \in Nat /\ DOMAIN uses = 1..Len(uses) /\ \A i \in 1..Len(uses) : uses[i] \in STRING
  OBVIOUS
<1>3. \A s \in [1..Len(uses) -> Call] : s \in Seq(Call)
  BY <1>2, SeqDef
<1>4. [i \in DOMAIN uses |-> [id |-> next + i, tool |-> uses[i]]] \in Seq(Call)
  <2>1. \A i \in 1..Len(uses) : [id |-> next + i, tool |-> uses[i]] \in Call
    BY <1>2 DEF Call
  <2>2. QED BY <1>2, <1>3, <2>1
<1>5. [i \in DOMAIN uses |-> [id |-> next + 1, tool |-> uses[i]]] \in Seq(Call)
  <2>1. \A i \in 1..Len(uses) : [id |-> next + 1, tool |-> uses[i]] \in Call
    BY <1>2 DEF Call
  <2>2. QED BY <1>2, <1>3, <2>1
<1>6. TextsOf(reply) \in Seq(Kinds)
  BY UsesShape, SeqMonotonic, {"text"} \subseteq Kinds DEF Kinds
<1>7. <<>> \in Seq(Kinds) /\ <<"text">> \in Seq(Kinds)
  BY DEF Kinds
<1>8. CASE provider = "anthropic"
  <2>1. r = Response(TextsOf(reply), [i \in DOMAIN uses |-> [id |-> next + i, tool |-> uses[i]]])
    BY <1>1, <1>8 DEF FromReply, FromAnthropic
  <2>2. QED BY <1>4, <1>6, <2>1
<1>9. CASE provider = "google"
  <2>1. r = Response(TextsOf(reply), [i \in DOMAIN uses |-> [id |-> next + 1, tool |-> uses[i]]])
    BY <1>1, <1>9 DEF FromReply, FromGoogle
  <2>2. QED BY <1>5, <1>6, <2>1
<1>10. CASE provider = "openai"
  <2>1. r = Response(IF TextsOf(reply) = <<>> THEN <<>> ELSE <<"text">>,
                     [i \in DOMAIN uses |-> [id |-> next + i, tool |-> uses[i]]])
    BY <1>1, <1>10 DEF FromReply, FromOpenAI
  <2>2. QED BY <1>4, <1>7, <2>1
<1>11. QED BY <1>8, <1>9, <1>10 DEF Providers

LEMMA NoCallShape == NoCall \in Call
BY DEF NoCall, Call

EventTypes == {"text", "file", "data", "toolCall", "toolResult"} \cup Endings

LEMMA PlainEvent ==
  ASSUME NEW type \in EventTypes, NEW e, e = Event(type)
  PROVE  e \in AgentEvent /\ e.type = type /\ e.role = "agent"
<1>1. PICK name : name = Unnamed
  OBVIOUS
<1>2. e = [type |-> type, role |-> "agent", piece |-> 0, name |-> name, call |-> NoCall]
  BY <1>1, Zenon DEF Event, Unnamed
<1>3. name \in Titles
  BY <1>1 DEF Titles
<1>4. QED BY <1>2, <1>3, NoCallShape DEF AgentEvent, EventTypes

LEMMA ToolEventShape ==
  ASSUME NEW type \in EventTypes, NEW c \in Call, NEW e, e = ToolEvent(type, c)
  PROVE  e \in AgentEvent /\ e.type = type /\ e.call = c
<1>1. PICK plain : plain = Event(type)
  OBVIOUS
<1>2. plain \in AgentEvent /\ plain.type = type
  BY <1>1, PlainEvent
<1>3. e = [plain EXCEPT !.call = c]
  BY <1>1 DEF ToolEvent
<1>4. QED BY <1>2, <1>3 DEF AgentEvent

LEMMA CustomEventShape ==
  ASSUME NEW e \in CustomEvents
  PROVE  e \in AgentEvent /\ e.type \notin {"toolCall", "toolResult"}
<1>1. CASE \E n \in Names : e = TextEvent(n)
  <2>1. PICK n \in Names : e = TextEvent(n)
    BY <1>1
  <2>2. PICK plain : plain = Event("text")
    OBVIOUS
  <2>3. plain \in AgentEvent /\ plain.type = "text"
    <3>1. "text" \in EventTypes
      BY DEF EventTypes
    <3>2. QED BY <2>2, <3>1, PlainEvent
  <2>4. e = [plain EXCEPT !.name = n]
    BY <2>1, <2>2 DEF TextEvent
  <2>5. QED BY <2>3, <2>4 DEF AgentEvent, Titles
<1>2. CASE \E t \in {"file", "data", "done", "error", "request-input"} : e = Event(t)
  <2>1. PICK t \in {"file", "data", "done", "error", "request-input"} : e = Event(t)
    BY <1>2
  <2>2. t \in EventTypes
    BY DEF EventTypes, Endings
  <2>3. QED BY <2>1, <2>2, PlainEvent
<1>3. QED BY <1>1, <1>2 DEF CustomEvents

LEMMA UserTextShape == UserText \in AgentEvent /\ UserText.type = "text"
<1>1. PICK plain : plain = Event("text")
  OBVIOUS
<1>2. "text" \in EventTypes
  BY DEF EventTypes
<1>3. plain \in AgentEvent /\ plain.type = "text"
  BY <1>1, <1>2, PlainEvent
<1>4. UserText = [plain EXCEPT !.role = "user"]
  BY <1>1 DEF UserText
<1>5. QED BY <1>3, <1>4 DEF AgentEvent
-----------------------------------------------------------------------------
(* What is known of a conversation between two steps. *)

\* The contents, and with them what a tool loop still has to tell.
Conv ==
  IF agent.at \in {"tools", "tool"}
  THEN Append(agent.contents, Tells(agent.results \o agent.due))
  ELSE agent.contents

\* The session ends with a call.
Called(c) ==
  session # <<>> /\ session[Len(session)].type = "toolCall" /\ session[Len(session)].call = c

\* Where only an LLM agent comes to.
LoopPlaces == {"setup", "loop", "asking", "model", "tools", "tool"}

Shapes ==
  /\ agent \in AgentState /\ session \in Seq(AgentEvent) /\ given \in Nat
  /\ host \in [agent : Agents, provider : Vendors \cup {"none"}, turns : Nat]
  /\ host.agent = "llm" <=> host.provider # "none"
  /\ out = <<>> \/ \E e \in AgentEvent : out = <<e>>
  /\ agent.at \in LoopPlaces => host.agent = "llm"
  /\ ~Running => out = <<>>

\* The conversation of a running turn, if the session it started from can be
\* replayed.
Follows ==
  Running => /\ agent.history <= Len(session)
             /\ Replayable(SubSeq(session, 1, agent.history)) => Balanced(Conv)

\* A tool that runs has its call in the session, or on its way there.
Calls ==
  agent.at = "tool" =>
    /\ agent.due # <<>>
    /\ IF out = <<>> THEN Called(Head(agent.due))
       ELSE out[1].type = "toolCall" /\ out[1].call = Head(agent.due)

\* A result that is on its way there finds its call at the end.
Answering == out # <<>> /\ out[1].type = "toolResult" => Called(out[1].call)

Talk == Shapes /\ Answers(session) /\ Follows /\ Calls /\ Answering

LEMMA SessionGrows ==
  ASSUME NEW events \in Seq(AgentEvent), NEW e \in AgentEvent, NEW h \in Nat,
         h <= Len(events), NEW new, new = Append(events, e)
  PROVE  /\ new \in Seq(AgentEvent) /\ Len(new) = Len(events) + 1 /\ new # <<>>
         /\ new[Len(new)] = e /\ h <= Len(new)
         /\ SubSeq(new, 1, h) = SubSeq(events, 1, h)
<1>1. PICK N \in Nat : N = Len(events)
  OBVIOUS
<1>2. /\ new \in Seq(AgentEvent) /\ Len(new) = N + 1 /\ new[N + 1] = e
      /\ \A i \in 1..N : new[i] = events[i]
  BY <1>1, AppendShape
<1>3. new # <<>>
  <2>1. Len(<<>>) = 0
    BY EmptySeq
  <2>2. QED BY <1>2, <2>1
<1>4. SubSeq(new, 1, h) = SubSeq(events, 1, h)
  <2>1. \A i \in 1..h : new[i] = events[i]
    BY <1>1, <1>2
  <2>2. SubSeq(new, 1, h) = [i \in 1..h |-> new[i]] /\ SubSeq(events, 1, h) = [i \in 1..h |-> events[i]]
    BY <1>1, <1>2
  <2>3. QED BY <2>1, <2>2
<1>5. QED BY <1>1, <1>2, <1>3, <1>4

LEMMA AnswersGrow ==
  ASSUME session \in Seq(AgentEvent), Answers(session), NEW e \in AgentEvent,
         e.type = "toolResult" => Called(e.call), NEW new, new = Append(session, e)
  PROVE  Answers(new)
<1>1. PICK N \in Nat : N = Len(session)
  OBVIOUS
<1>2. /\ new \in Seq(AgentEvent) /\ Len(new) = N + 1 /\ new[N + 1] = e
      /\ \A i \in 1..N : new[i] = session[i]
  BY <1>1, AppendShape
<1>3. ASSUME NEW i \in 1..(N + 1), new[i].type = "toolResult"
      PROVE  i > 1 /\ new[i - 1].type = "toolCall" /\ new[i - 1].call = new[i].call
  <2>1. CASE i = N + 1
    <3>1. Called(e.call)
      BY <1>2, <1>3, <2>1
    <3>2. N # 0 /\ session[N].type = "toolCall" /\ session[N].call = e.call
      BY <1>1, <3>1, EmptySeq DEF Called
    <3>3. i - 1 = N /\ N \in 1..N /\ i > 1
      BY <2>1, <3>2
    <3>4. QED BY <1>2, <2>1, <3>2, <3>3
  <2>2. CASE i # N + 1
    <3>1. i \in 1..N
      BY <2>2
    <3>2. i > 1 /\ session[i - 1].type = "toolCall" /\ session[i - 1].call = session[i].call
      BY <1>1, <1>2, <1>3, <3>1 DEF Answers
    <3>3. i - 1 \in 1..N
      BY <3>1, <3>2
    <3>4. QED BY <1>2, <3>1, <3>2, <3>3
  <2>3. QED BY <2>1, <2>2
<1>4. QED BY <1>2, <1>3 DEF Answers

LEMMA InitTalk == Init => Talk
<1> SUFFICES ASSUME Init PROVE Talk
  OBVIOUS
<1>1. agent = Idle /\ session = <<>> /\ out = <<>> /\ given = 0
  BY DEF Init
<1>2. agent.at = "idle" /\ agent \in AgentState
  BY <1>1 DEF Idle, AgentState, Places
<1>3. host \in [agent : Agents, provider : Vendors \cup {"none"}, turns : Nat]
      /\ (host.agent = "llm" <=> host.provider # "none")
  BY DEF Init
<1>4. ~Running /\ agent.at \notin LoopPlaces
  BY <1>2 DEF Running, LoopPlaces
<1>5. Answers(session)
  BY <1>1, EmptySeq DEF Answers
<1>6. Shapes
  BY <1>1, <1>2, <1>3, <1>4 DEF Shapes
<1>7. Follows /\ Calls /\ Answering
  BY <1>1, <1>2, <1>4 DEF Follows, Calls, Answering
<1>8. QED BY <1>5, <1>6, <1>7 DEF Talk

\* A turn ends, and an event may have been recorded as it does.
LEMMA OverTalk ==
  ASSUME Talk, Over, out' = <<>>, host' = host, given' \in Nat,
         session' \in Seq(AgentEvent), Answers(session)'
  PROVE  Talk'
<1>1. agent' = [agent EXCEPT !.at = "ended"] /\ agent \in AgentState
  BY DEF Over, Talk, Shapes
<1>2. agent'.at = "ended" /\ agent' \in AgentState
  BY <1>1 DEF AgentState, Places
<1>3. ~Running' /\ agent'.at \notin LoopPlaces
  BY <1>2 DEF Running, LoopPlaces
<1>4. Shapes'
  BY <1>2, <1>3 DEF Talk, Shapes
<1>5. Follows' /\ Calls' /\ Answering'
  BY <1>2, <1>3 DEF Follows, Calls, Answering
<1>6. QED BY <1>4, <1>5 DEF Talk

\* A step of an agent that is neither its first one nor a call of a tool.
LEMMA MovesTalk ==
  ASSUME Talk, UNCHANGED <<host, session, given>>, Running, Running',
         agent' \in AgentState, agent'.history = agent.history, agent'.at # "tool",
         agent'.at \in LoopPlaces => host.agent = "llm",
         Balanced(Conv) => Balanced(Conv)',
         \/ out' = <<>>
         \/ \E e \in AgentEvent : out' = <<e>> /\ (e.type = "toolResult" => Called(e.call))
  PROVE  Talk'
<1>1. Shapes'
  BY DEF Talk, Shapes
<1>2. Answers(session)'
  BY DEF Talk
<1>3. Follows'
  BY DEF Talk, Follows
<1>4. Calls'
  BY DEF Calls
<1>5. Answering'
  <2>1. CASE out' = <<>>
    BY <2>1 DEF Answering
  <2>2. CASE \E e \in AgentEvent : out' = <<e>> /\ (e.type = "toolResult" => Called(e.call))
    <3>1. PICK e \in AgentEvent : out' = <<e>> /\ (e.type = "toolResult" => Called(e.call))
      BY <2>2
    <3>2. Called(e.call) => Called(e.call)'
      BY DEF Called
    <3>3. out'[1] = e
      BY <3>1
    <3>4. e.type = "toolResult" => Called(out[1].call)'
      BY <3>1, <3>2, <3>3 DEF Called
    <3>5. QED BY <3>3, <3>4 DEF Answering
  <2>3. QED BY <2>1, <2>2
<1>6. QED BY <1>1, <1>2, <1>3, <1>4, <1>5 DEF Talk
-----------------------------------------------------------------------------
(* The runner and the conversation. *)

LEMMA ReturnedIsOver == ASSUME Returned \/ Thrown PROVE Over
BY DEF Returned, Thrown, Leave, Conclude

LEMMA StartTurnTalk == ASSUME Talk, NEW kept, StartTurn(kept) PROVE Talk'
<1>1. out = <<>> /\ out' = <<>>
  BY DEF StartTurn, Talk, Shapes, Running
<1>2. session' \in Seq(AgentEvent) /\ Answers(session)'
  <2>1. Answers(<<>>)
    BY EmptySeq DEF Answers
  <2>2. session' = session \/ session' = <<>>
    BY DEF StartTurn
  <2>3. session \in Seq(AgentEvent) /\ Answers(session) /\ <<>> \in Seq(AgentEvent)
    BY EmptySeq DEF Talk, Shapes
  <2>4. CASE session' = session
    BY <2>3, <2>4
  <2>5. CASE session' = <<>>
    BY <2>1, <2>3, <2>5
  <2>6. QED BY <2>2, <2>4, <2>5
<1>3. host' = [host EXCEPT !.turns = @ + 1]
  BY DEF StartTurn
<1>4. /\ host' \in [agent : Agents, provider : Vendors \cup {"none"}, turns : Nat]
      /\ (host.agent = "llm" <=> host.provider # "none")'
  BY <1>3 DEF Talk, Shapes
<1>5. PICK used \in Nat : agent' = [Idle EXCEPT !.at = "created", !.used = used]
  <2>1. agent.used \in Nat
    BY DEF Talk, Shapes, AgentState
  <2>2. QED BY <2>1 DEF StartTurn
<1>6. /\ agent' \in AgentState /\ agent'.at = "created"
      /\ agent'.history = 0 /\ agent'.contents = <<>>
  <2>1. /\ <<>> \in Seq(Message) /\ <<>> \in Seq(Kinds) /\ <<>> \in Seq(Call)
    BY EmptySeq
  <2>2. PICK none : none = <<>>
    OBVIOUS
  <2>3. agent' = [at |-> "created", calls |-> 0, intercepted |-> 0, used |-> used,
                  contents |-> none, content |-> none, text |-> FALSE, asked |-> none,
                  due |-> none, results |-> none, history |-> 0]
    BY <1>5, <2>2 DEF Idle
  <2>4. QED BY <2>1, <2>2, <2>3 DEF AgentState, Places
<1>7. given' \in Nat
  BY DEF StartTurn, Talk, Shapes
<1>8. Shapes'
  BY <1>1, <1>2, <1>4, <1>6, <1>7 DEF Shapes, Running, LoopPlaces
<1>9. Follows'
  <2>1. Conv' = <<>>
    BY <1>6 DEF Conv
  <2>2. Balanced(<<>>)
    BY EmptySeq DEF Balanced
  <2>3. 0 <= Len(session')
    BY <1>2
  <2>4. QED BY <1>6, <2>1, <2>2, <2>3 DEF Follows
<1>10. Calls' /\ Answering'
  BY <1>1, <1>6 DEF Calls, Answering
<1>11. QED BY <1>2, <1>8, <1>9, <1>10 DEF Talk

LEMMA RunAsyncTalk == ASSUME Talk, RunAsync, AgentAssumption PROVE Talk'
<1>1. out = <<>> /\ out' = <<>> /\ host' = host /\ given' = given /\ agent.at = "started"
  BY DEF RunAsync, At
<1>2. given \in Nat /\ session \in Seq(AgentEvent) /\ Answers(session) /\ agent \in AgentState
  BY DEF Talk, Shapes
<1>3. PICK e \in AgentEvent : e = UserText /\ e.type = "text"
  BY UserTextShape
<1>4. session' = Append(session, e)
  BY <1>3 DEF RunAsync
<1>5. PICK place : /\ place = IF host.agent = "llm" THEN "setup" ELSE host.agent
                   /\ agent' = [agent EXCEPT !.at = place]
  BY DEF RunAsync, Go
<1>6. place \in {"setup", "custom", "remote"} /\ (place = "setup" => host.agent = "llm")
  BY <1>5 DEF Talk, Shapes, AgentAssumption
<1>7. agent' \in AgentState /\ agent'.at = place /\ agent'.history = agent.history
      /\ agent'.contents = agent.contents
  BY <1>2, <1>5, <1>6 DEF AgentState, Places
<1>8. agent.history \in Nat /\ Running /\ agent.history <= Len(session)
      /\ (Replayable(SubSeq(session, 1, agent.history)) => Balanced(agent.contents))
  BY <1>1, <1>2 DEF AgentState, Talk, Follows, Running, Conv
<1>9. /\ session' \in Seq(AgentEvent) /\ agent.history <= Len(session')
      /\ SubSeq(session', 1, agent.history) = SubSeq(session, 1, agent.history)
  BY <1>2, <1>4, <1>8, SessionGrows
<1>10. Answers(session)'
  BY <1>2, <1>3, <1>4, AnswersGrow
<1>11. Shapes'
  BY <1>1, <1>6, <1>7, <1>9 DEF Talk, Shapes, LoopPlaces
<1>12. Follows'
  BY <1>6, <1>7, <1>8, <1>9 DEF Follows, Conv
<1>13. Calls' /\ Answering'
  BY <1>1, <1>6, <1>7 DEF Calls, Answering
<1>14. QED BY <1>10, <1>11, <1>12, <1>13 DEF Talk

LEMMA RelayTalk == ASSUME Talk, Relay PROVE Talk'
<1>1. Running /\ out # <<>> /\ out' = <<>> /\ host' = host
  BY DEF Relay
<1>2. given \in Nat /\ session \in Seq(AgentEvent) /\ Answers(session) /\ agent \in AgentState
  BY DEF Talk, Shapes
<1>3. PICK e \in AgentEvent : out = <<e>> /\ out[1] = e
  BY <1>1 DEF Talk, Shapes
<1>4. CASE aborted
  <2>1. Over /\ session' = session /\ given' = given
    BY <1>4, ReturnedIsOver DEF Relay, Drop
  <2>2. QED BY <1>1, <1>2, <2>1, OverTalk
<1>5. CASE ~aborted
  <2>1. PICK content : content = (e.type \in {"text", "file", "data"})
    OBVIOUS
  <2>2. PICK event : event = [e EXCEPT !.piece = IF content THEN given + 1 ELSE 0]
    OBVIOUS
  <2>3. event \in AgentEvent /\ event.type = e.type /\ event.call = e.call
    BY <1>2, <2>2 DEF AgentEvent
  <2>4. /\ session' = Append(session, event)
        /\ IF content THEN TakeContent(event)
           ELSE IF event.type \in Endings THEN TakeEnding(event)
           ELSE UNCHANGED <<agent, given, send, stream, pump>>
    BY <1>3, <1>5, <2>1, <2>2, Zenon DEF Relay, Take
  <2>5. e.type = "toolResult" => Called(e.call)
    BY <1>1, <1>3 DEF Talk, Answering
  <2>6. Answers(session)'
    BY <1>2, <2>3, <2>4, <2>5, AnswersGrow
  <2>7. agent.history \in Nat /\ agent.history <= Len(session)
    BY <1>1, <1>2 DEF AgentState, Talk, Follows
  <2>8. /\ session' \in Seq(AgentEvent) /\ session' # <<>> /\ session'[Len(session')] = event
        /\ agent.history <= Len(session')
        /\ SubSeq(session', 1, agent.history) = SubSeq(session, 1, agent.history)
    BY <1>2, <2>3, <2>4, <2>7, SessionGrows
  <2>9. given' \in Nat
    <3>1. given' = given \/ given' = given + 1
      BY <2>4 DEF TakeContent, TakeEnding
    <3>2. QED BY <1>2, <3>1
  <2>10. CASE Over
    BY <1>1, <2>6, <2>8, <2>9, <2>10, OverTalk
  <2>11. CASE agent' = agent
    <3>1. Shapes'
      BY <1>1, <2>8, <2>9, <2>11 DEF Talk, Shapes
    <3>2. Follows'
      BY <1>1, <2>8, <2>11 DEF Talk, Follows, Conv, Running
    <3>3. Calls'
      <4> SUFFICES ASSUME agent.at = "tool" PROVE Calls'
        BY <2>11 DEF Calls
      <4>1. agent.due # <<>> /\ e.type = "toolCall" /\ e.call = Head(agent.due)
        BY <1>1, <1>3 DEF Talk, Calls
      <4>2. Called(Head(agent.due))'
        BY <2>3, <2>8, <2>11, <4>1 DEF Called
      <4>3. QED BY <1>1, <2>11, <4>1, <4>2 DEF Calls
    <3>4. Answering'
      BY <1>1 DEF Answering
    <3>5. QED BY <2>6, <3>1, <3>2, <3>3, <3>4 DEF Talk
  <2>12. Over \/ agent' = agent
    BY <2>3, <2>4, ReturnedIsOver DEF TakeContent, TakeEnding, Endings, Conclude
  <2>13. QED BY <2>10, <2>11, <2>12
<1>6. QED BY <1>4, <1>5

LEMMA StillTalk == ASSUME Talk, UNCHANGED <<host, session, agent, out, given>> PROVE Talk'
BY DEF Talk, Shapes, Follows, Calls, Answering, Running, Conv, Called

\* An agent has yielded nothing while the executor's last update is in flight.
Alone == pump # Resting => out = <<>>

LEMMA AloneInv == ASSUME Alone, [Next]_vars PROVE Alone'
<1>1. ASSUME At("created") \/ At("started") \/ At("loop") \/ At("tools") \/ At("custom")
               \/ At("remote"),
             out' = out
      PROVE  Alone'
  BY <1>1 DEF At, Alone
<1>2. ASSUME out' = <<>> \/ pump' = Resting \/ UNCHANGED <<out, pump>>
      PROVE  Alone'
  BY <1>2 DEF Alone
<1>3. CASE RunnerNext
  <2>1. CASE Begin
    BY <1>1, <2>1 DEF Begin
  <2>2. CASE StoreNext \/ PublishNext
    <3>1. pump # Resting /\ out' = out
      BY <2>2, RestingShape DEF StoreNext, PublishNext
    <3>2. QED BY <1>2, <3>1 DEF Alone
  <2>3. CASE End \/ Overtaken
    BY <1>2, <2>3 DEF End, Overtaken
  <2>4. CASE RunAsync \/ Relay \/ Abort \/ \E kept \in BOOLEAN : StartTurn(kept)
    BY <1>2, <2>4 DEF RunAsync, Relay, Abort, StartTurn
  <2>5. QED BY <1>3, <2>1, <2>2, <2>3, <2>4 DEF RunnerNext
<1>4. CASE LlmNext
  <2>1. CASE LeaveLoop
    BY <1>1, <2>1 DEF LeaveLoop
  <2>2. CASE Fail \/ ReachLimit \/ Emit \/ BeginTool \/ EndTool
    <3>1. pump = Resting /\ pump' = pump
      BY <2>2 DEF Fail, ReachLimit, Emit, BeginTool, EndTool, At
    <3>2. QED BY <1>2, <3>1
  <2>3. CASE Respond
    <3>1. pump = Resting /\ pump' = pump
      BY <2>3 DEF Respond, At
    <3>2. QED BY <1>2, <3>1
  <2>4. CASE \/ SetUp \/ Ask \/ CallModel \/ TellResults
             \/ \E r \in Interceptions : Intercept(r)
             \/ \E r \in Replies : ModelReplies(r)
    <3>1. Quietly
      BY <2>4 DEF SetUp, Ask, CallModel, TellResults, Intercept, ModelReplies
    <3>2. QED BY <1>2, <3>1 DEF Quietly
  <2>5. QED BY <1>4, <2>1, <2>2, <2>3, <2>4 DEF LlmNext
<1>5. CASE OtherNext
  <2>1. CASE CustomReturns \/ RunThrows
    BY <1>1, <2>1 DEF CustomReturns, RunThrows
  <2>2. CASE \/ \E e \in CustomEvents : CustomYields(e)
             \/ \E failed \in BOOLEAN : RemoteEnds(failed)
    <3>1. pump = Resting /\ pump' = pump
      BY <2>2 DEF CustomYields, RemoteEnds, At
    <3>2. QED BY <1>2, <3>1
  <2>3. CASE RemoteListens \/ \E n \in 1..2 : RemoteUpdate(n)
    <3>1. Quietly
      BY <2>3 DEF RemoteListens, RemoteUpdate
    <3>2. QED BY <1>2, <3>1 DEF Quietly
  <2>4. QED BY <1>5, <2>1, <2>2, <2>3 DEF OtherNext
<1>6. CASE UNCHANGED vars
  BY <1>2, <1>6 DEF vars
<1>7. QED BY <1>3, <1>4, <1>5, <1>6 DEF Next

LEMMA OvertakenTalk == ASSUME Talk, Alone, Overtaken PROVE Talk'
<1>1. Over /\ UNCHANGED <<host, session, out, given>>
  BY DEF Overtaken
<1>2. out = <<>>
  <2>1. pump.writing # <<>> => pump # Resting
    BY RestingShape
  <2>2. QED BY <2>1 DEF Overtaken, At, Alone
<1>3. QED BY <1>1, <1>2, OverTalk DEF Talk, Shapes
-----------------------------------------------------------------------------
(* The loop and the conversation. *)

LEMMA SetUpTalk == ASSUME Talk, SetUp PROVE Talk'
<1>1. out = <<>> /\ UNCHANGED <<host, session, out, given>> /\ agent.at = "setup"
  BY DEF SetUp, At, Quietly
<1>2. session \in Seq(AgentEvent) /\ Answers(session) /\ agent \in AgentState
  BY DEF Talk, Shapes
<1>3. PICK ms : ms = History(session)
  OBVIOUS
<1>4. ms \in Seq(Message) /\ (Replayable(session) => Balanced(ms))
  <2>1. ms \in Seq(Message)
    <3>1. PICK f \in [0..Len(session) -> Seq(Message)] : f[Len(session)] = History(session)
      BY <1>2, HistoryFold
    <3>2. Len(session) \in 0..Len(session)
      BY <1>2
    <3>3. QED BY <1>3, <3>1, <3>2
  <2>2. Replayable(session) => Balanced(ms)
    BY <1>2, <1>3, HistoryBalanced
  <2>3. QED BY <2>1, <2>2
<1>5. PICK n \in Nat : n = Len(session)
  BY <1>2
<1>6. agent' = [agent EXCEPT !.at = "loop", !.contents = ms, !.history = n]
  BY <1>3, <1>5 DEF SetUp
<1>7. agent' \in AgentState /\ agent'.at = "loop" /\ agent'.contents = ms /\ agent'.history = n
  BY <1>2, <1>4, <1>6 DEF AgentState, Places
<1>8. Shapes'
  <2>1. host.agent = "llm"
    BY <1>1 DEF Talk, Shapes, LoopPlaces
  <2>2. QED BY <1>1, <1>7, <2>1 DEF Talk, Shapes
<1>9. Follows'
  <2>1. SubSeq(session, 1, n) = session
    BY <1>2, <1>5
  <2>2. n <= Len(session)
    BY <1>5
  <2>3. QED BY <1>1, <1>4, <1>7, <2>1, <2>2 DEF Follows, Conv
<1>10. Calls' /\ Answering'
  BY <1>1, <1>7 DEF Calls, Answering
<1>11. QED BY <1>1, <1>8, <1>9, <1>10 DEF Talk

\* An agent that yields an event and stays where it is.
LEMMA YieldTalk ==
  ASSUME Talk, UNCHANGED <<host, session, agent, given>>, Running, agent.at # "tool",
         NEW e \in AgentEvent, e.type # "toolResult", out' = <<e>>
  PROVE  Talk'
<1>1. agent \in AgentState /\ Running' /\ Conv' = Conv
  BY DEF Talk, Shapes, Running, Conv
<1>2. agent'.at \in LoopPlaces => host.agent = "llm"
  BY DEF Talk, Shapes
<1>3. QED BY <1>1, <1>2, MovesTalk

LEMMA PlainTalk ==
  ASSUME Talk, UNCHANGED <<host, session, agent, given>>, Running, agent.at # "tool",
         NEW type \in EventTypes, type # "toolResult", Yield(Event(type))
  PROVE  Talk'
<1>1. PICK e \in AgentEvent : e = Event(type) /\ e.type = type
  BY PlainEvent
<1>2. QED BY <1>1, YieldTalk DEF Yield

\* An agent that goes on, or comes to hold something else, without a word.
LEMMA GoesTalk ==
  ASSUME Talk, UNCHANGED <<host, session, out, given>>, out = <<>>, Running,
         agent' \in AgentState, agent'.history = agent.history,
         agent'.at \notin {"idle", "ended", "tool"},
         agent'.at \in LoopPlaces => host.agent = "llm",
         Balanced(Conv) => Balanced(Conv)'
  PROVE  Talk'
<1>1. Running'
  BY DEF Running
<1>2. out' = <<>> /\ agent'.at # "tool"
  OBVIOUS
<1>3. QED BY <1>1, <1>2, MovesTalk

\* The working status is no event of the agent.
LEMMA BeginTalk == ASSUME Talk, Begin PROVE Talk'
<1>1. UNCHANGED <<host, session, out, given>> /\ agent.at = "created" /\ out = <<>>
  BY DEF Begin, At
<1>2. given \in Nat /\ session \in Seq(AgentEvent) /\ Answers(session) /\ agent \in AgentState
  BY DEF Talk, Shapes
<1>3. CASE aborted
  <2>1. Over
    BY <1>3, ReturnedIsOver DEF Begin
  <2>2. QED BY <1>1, <1>2, <2>1, OverTalk
<1>4. CASE ~aborted
  <2>1. agent' = [agent EXCEPT !.at = "started"]
    BY <1>4 DEF Begin, Go
  <2>2. /\ agent' \in AgentState /\ agent'.at = "started" /\ agent'.history = agent.history
        /\ agent'.contents = agent.contents
    BY <1>2, <2>1 DEF AgentState, Places
  <2>3. Running /\ Conv' = Conv /\ agent'.at \notin LoopPlaces
    BY <1>1, <2>2 DEF Running, Conv, LoopPlaces
  <2>4. QED BY <1>1, <2>2, <2>3, GoesTalk
<1>5. QED BY <1>3, <1>4

LEMMA AskTalk == ASSUME Talk, Ask \/ CallModel PROVE Talk'
<1>1. PICK place \in {"asking", "model"} : agent' = [agent EXCEPT !.at = place]
  BY DEF Ask, CallModel, Go
<1>2. out = <<>> /\ UNCHANGED <<host, session, out, given>> /\ agent.at \in {"loop", "asking"}
  BY DEF Ask, CallModel, At, Quietly
<1>3. agent \in AgentState /\ host.agent = "llm" /\ Running
  BY <1>2 DEF Talk, Shapes, LoopPlaces, Running
<1>4. /\ agent' \in AgentState /\ agent'.at = place
      /\ agent'.history = agent.history /\ agent'.contents = agent.contents
  BY <1>1, <1>3 DEF AgentState, Places
<1>5. Conv' = Conv
  BY <1>2, <1>4 DEF Conv
<1>6. QED BY <1>2, <1>3, <1>4, <1>5, GoesTalk

LEMMA CountedShape ==
  ASSUME NEW a \in AgentState, NEW b,
         b = [a EXCEPT !.intercepted = @ + 1] \/ b = [a EXCEPT !.calls = @ + 1]
  PROVE  b \in AgentState /\ b.at = a.at /\ b.history = a.history /\ b.contents = a.contents
<1>1. a.intercepted + 1 \in Nat /\ a.calls + 1 \in Nat
  BY DEF AgentState
<1>2. PICK k \in Nat : b = [a EXCEPT !.intercepted = k] \/ b = [a EXCEPT !.calls = k]
  BY <1>1
<1>3. QED BY <1>2 DEF AgentState

LEMMA AnsweredIs ==
  ASSUME Talk, NEW content \in Seq(Kinds), NEW calls \in Seq(Call), NEW a,
         a = Answered(Response(content, calls))
  PROVE  /\ a \in AgentState /\ a.at = "emit"
         /\ a.history = agent.history /\ a.contents = agent.contents
<1>1. agent \in AgentState
  BY DEF Talk, Shapes
<1>2. PICK text \in BOOLEAN : text = \E i \in DOMAIN content : content[i] = "text"
  OBVIOUS
<1>3. PICK used \in Nat : used = agent.used + Len(calls)
  BY <1>1 DEF AgentState
<1>4. a = [agent EXCEPT !.at = "emit", !.content = content, !.text = text, !.asked = calls,
                        !.used = used]
  BY <1>2, <1>3 DEF Answered, Response
<1>5. QED BY <1>1, <1>4, ZenonT(40) DEF AgentState, Places

LEMMA AnsweredTalk ==
  ASSUME Talk, NEW a \in AgentState, a.at = "emit",
         a.history = agent.history, a.contents = agent.contents,
         agent.at \in {"asking", "model"}, out = <<>>, Quietly,
         agent' = [a EXCEPT !.intercepted = @ + 1] \/ agent' = [a EXCEPT !.calls = @ + 1]
  PROVE  Talk'
<1>1. Running
  BY DEF Running
<1>2. /\ agent' \in AgentState /\ agent'.at = "emit"
      /\ agent'.history = agent.history /\ agent'.contents = agent.contents
  BY CountedShape
<1>3. Conv' = Conv
  BY <1>2 DEF Conv
<1>4. UNCHANGED <<host, session, out, given>>
  BY DEF Quietly
<1>5. agent'.at \notin LoopPlaces /\ agent'.at \notin {"idle", "ended", "tool"}
  BY <1>2 DEF LoopPlaces
<1>6. QED BY <1>1, <1>2, <1>3, <1>4, <1>5, GoesTalk

LEMMA InterceptTalk ==
  ASSUME Talk, AnswerAssumption, NEW r \in Interceptions, Intercept(r) PROVE Talk'
<1>1. PICK content \in Seq(Kinds), calls \in Seq([id : Nat, tool : STRING]) :
        r = Response(content, calls)
  BY DEF AnswerAssumption, Kinds, Response
<1>2. calls \in Seq(Call)
  <2>1. [id : Nat, tool : STRING] \subseteq Call
    BY DEF Call
  <2>2. QED BY <2>1, SeqMonotonic
<1>3. PICK a : a = Answered(r)
  OBVIOUS
<1>4. /\ a \in AgentState /\ a.at = "emit"
      /\ a.history = agent.history /\ a.contents = agent.contents
  BY <1>1, <1>2, <1>3, AnsweredIs
<1>5. agent.at = "asking" /\ out = <<>> /\ Quietly
  BY DEF Intercept, At
<1>6. agent' = [a EXCEPT !.intercepted = @ + 1]
  BY <1>3 DEF Intercept
<1>7. QED BY <1>4, <1>5, <1>6, AnsweredTalk

LEMMA ModelRepliesTalk ==
  ASSUME Talk, AgentAssumption, AnswerAssumption, NEW reply \in Replies, ModelReplies(reply)
  PROVE  Talk'
<1>1. agent.at = "model" /\ out = <<>> /\ Quietly
  BY DEF ModelReplies, At
<1>2. host.provider \in Providers
  BY <1>1 DEF Talk, Shapes, LoopPlaces, AgentAssumption
<1>3. agent.used \in Nat
  BY DEF Talk, Shapes, AgentState
<1>4. reply \in Seq(STRING)
  BY DEF AnswerAssumption
<1>5. PICK content \in Seq(Kinds), calls \in Seq(Call) :
        FromReply(host.provider, reply, agent.used) = Response(content, calls)
  BY <1>2, <1>3, <1>4, ReplyShape
<1>6. PICK a : a = Answered(FromReply(host.provider, reply, agent.used))
  OBVIOUS
<1>7. /\ a \in AgentState /\ a.at = "emit"
      /\ a.history = agent.history /\ a.contents = agent.contents
  <2>1. a = Answered(Response(content, calls))
    BY <1>5, <1>6
  <2>2. QED BY <2>1, AnsweredIs
<1>8. agent' = [a EXCEPT !.calls = @ + 1]
  BY <1>6 DEF ModelReplies
<1>9. QED BY <1>1, <1>7, <1>8, AnsweredTalk

LEMMA EmitTalk == ASSUME Talk, Emit PROVE Talk'
<1>1. /\ agent.at = "emit" /\ out = <<>> /\ agent.content # <<>>
      /\ UNCHANGED <<host, session, given>>
  BY DEF Emit, At
<1>2. agent \in AgentState /\ agent.content \in Seq(Kinds) /\ Running
  BY <1>1 DEF Talk, Shapes, AgentState, Running
<1>3. Head(agent.content) \in Kinds /\ Tail(agent.content) \in Seq(Kinds)
  BY <1>1, <1>2, HeadTailProperties
<1>4. PICK kind \in Kinds, rest \in Seq(Kinds) :
        kind = Head(agent.content) /\ agent' = [agent EXCEPT !.content = rest]
  BY <1>3 DEF Emit
<1>5. PICK e \in AgentEvent : e = Event(kind) /\ e.type = kind
  BY PlainEvent DEF Kinds, EventTypes
<1>6. out' = <<e>> /\ e.type # "toolResult"
  BY <1>4, <1>5 DEF Emit, Yield, Kinds
<1>7. /\ agent' \in AgentState /\ agent'.at = "emit"
      /\ agent'.history = agent.history /\ agent'.contents = agent.contents
  BY <1>1, <1>2, <1>4 DEF AgentState
<1>8. Conv' = Conv /\ Running' /\ agent'.at \notin LoopPlaces
  BY <1>1, <1>7 DEF Conv, Running, LoopPlaces
<1>9. QED BY <1>1, <1>2, <1>6, <1>7, <1>8, MovesTalk
-----------------------------------------------------------------------------
(* Tools and the conversation. *)

LEMMA RespondTalk == ASSUME Talk, Respond PROVE Talk'
<1>1. /\ agent.at = "emit" /\ out = <<>> /\ host.agent = "llm"
      /\ UNCHANGED <<host, session, given>>
  BY DEF Respond, At
<1>2. agent \in AgentState /\ Running
  BY <1>1 DEF Talk, Shapes, Running
<1>3. CASE agent.asked = <<>>
  <2>1. Yield(Event("done")) /\ agent' = agent
    BY <1>3 DEF Respond
  <2>2. "done" \in EventTypes
    BY DEF EventTypes, Endings
  <2>3. QED BY <1>1, <1>2, <2>1, <2>2, PlainTalk
<1>4. CASE agent.asked # <<>>
  <2>1. PICK ms \in Seq(Message), asked \in Seq(Call), text \in BOOLEAN :
          ms = agent.contents /\ asked = agent.asked /\ text = agent.text
    BY <1>2 DEF AgentState
  <2>2. PICK a \in Message : /\ a = Asks(text, asked) /\ a.role = "agent"
                             /\ a.calls = asked /\ a.results = <<>>
    BY AsksShape
  <2>3. PICK mid \in Seq(Message) : mid = Append(ms, a)
    BY AppendShape
  <2>4. agent' = [agent EXCEPT !.at = "tools", !.due = asked, !.results = <<>>,
                               !.contents = mid]
    BY <1>4, <2>1, <2>2, <2>3 DEF Respond
  <2>5. out' = <<>>
    BY <1>1, <1>4 DEF Respond
  <2>6. <<>> \in Seq(Call)
    BY EmptySeq
  <2>7. /\ agent' \in AgentState /\ agent'.at = "tools" /\ agent'.history = agent.history
        /\ agent'.due = asked /\ agent'.results = <<>> /\ agent'.contents = mid
    BY <1>2, <2>4, <2>6 DEF AgentState, Places
  <2>8. Balanced(Conv) => Balanced(Conv)'
    <3>1. Conv = ms
      BY <1>1, <2>1 DEF Conv
    <3>2. <<>> \o asked = asked
      OBVIOUS
    <3>3. PICK t \in Message : t = Tells(asked) /\ t.calls = <<>> /\ t.results = asked
      BY TellsShape
    <3>4. PICK new : new = Append(mid, t)
      OBVIOUS
    <3>5. Conv' = new
      BY <2>7, <3>2, <3>3, <3>4 DEF Conv
    <3>6. Balanced(ms) => Balanced(new)
      BY <2>2, <2>3, <3>3, <3>4, BalancedAsks
    <3>7. Balanced(Conv)' <=> Balanced(new)
      BY <3>5
    <3>8. QED BY <3>1, <3>6, <3>7
  <2>9. QED BY <1>1, <1>2, <2>5, <2>7, <2>8, GoesTalk
<1>5. QED BY <1>3, <1>4

LEMMA BeginToolTalk == ASSUME Talk, BeginTool PROVE Talk'
<1>1. /\ agent.at = "tools" /\ out = <<>> /\ agent.due # <<>>
      /\ UNCHANGED <<host, session, given>>
  BY DEF BeginTool, At
<1>2. agent \in AgentState /\ Running /\ Answers(session) /\ host.agent = "llm"
  BY <1>1 DEF Talk, Shapes, Running, LoopPlaces
<1>3. agent.due \in Seq(Call)
  BY <1>2 DEF AgentState
<1>4. PICK c \in Call : c = Head(agent.due)
  BY <1>1, <1>3, HeadTailProperties
<1>5. "toolCall" \in EventTypes
  BY DEF EventTypes
<1>6. PICK e \in AgentEvent : e = ToolEvent("toolCall", c) /\ e.type = "toolCall" /\ e.call = c
  BY <1>5, ToolEventShape
<1>7. out' = <<e>> /\ out'[1] = e /\ out' # <<>>
  BY <1>4, <1>6 DEF BeginTool, Yield
<1>8. agent' = [agent EXCEPT !.at = "tool"]
  BY DEF BeginTool, Go
<1>9. /\ agent' \in AgentState /\ agent'.at = "tool" /\ agent'.history = agent.history
      /\ agent'.due = agent.due /\ agent'.results = agent.results
      /\ agent'.contents = agent.contents
  BY <1>2, <1>8 DEF AgentState, Places
<1>10. Shapes'
  BY <1>1, <1>2, <1>7, <1>9 DEF Talk, Shapes, Running
<1>11. Follows'
  <2>1. Conv' = Conv
    BY <1>1, <1>9 DEF Conv
  <2>2. QED BY <1>1, <1>2, <1>9, <2>1 DEF Talk, Follows
<1>12. Calls'
  BY <1>1, <1>4, <1>6, <1>7, <1>9 DEF Calls
<1>13. Answering'
  BY <1>6, <1>7 DEF Answering
<1>14. Answers(session)'
  BY <1>1, <1>2
<1>15. QED BY <1>10, <1>11, <1>12, <1>13, <1>14 DEF Talk

LEMMA EndToolTalk == ASSUME Talk, EndTool PROVE Talk'
<1>1. agent.at = "tool" /\ out = <<>> /\ UNCHANGED <<host, session, given>>
  BY DEF EndTool, At
<1>2. /\ agent \in AgentState /\ Running /\ host.agent = "llm"
      /\ agent.due # <<>> /\ Called(Head(agent.due))
  BY <1>1 DEF Talk, Shapes, Running, LoopPlaces, Calls
<1>3. PICK due \in Seq(Call), results \in Seq(Call) :
        due = agent.due /\ results = agent.results
  BY <1>2 DEF AgentState
<1>4. PICK c \in Call, rest \in Seq(Call) : c = Head(due) /\ rest = Tail(due)
  BY <1>2, <1>3, HeadTailProperties
<1>5. "toolResult" \in EventTypes
  BY DEF EventTypes
<1>6. PICK e \in AgentEvent : e = ToolEvent("toolResult", c) /\ e.call = c
  BY <1>5, ToolEventShape
<1>7. out' = <<e>>
  BY <1>3, <1>4, <1>6 DEF EndTool, Yield
<1>8. PICK more \in Seq(Call) : more = Append(results, c)
  BY AppendProperties
<1>9. agent' = [agent EXCEPT !.at = "tools", !.due = rest, !.results = more]
  BY <1>3, <1>4, <1>8 DEF EndTool
<1>10. /\ agent' \in AgentState /\ agent'.at = "tools" /\ agent'.history = agent.history
       /\ agent'.due = rest /\ agent'.results = more /\ agent'.contents = agent.contents
  BY <1>2, <1>9 DEF AgentState, Places
<1>11. more \o rest = results \o due
  <2>1. PICK n \in Nat : n = Len(results)
    OBVIOUS
  <2>2. PICK m \in Nat \ {0} : m = Len(due)
    BY <1>2, <1>3, EmptySeq
  <2>3. Len(rest) = m - 1 /\ \A i \in 1..(m - 1) : rest[i] = due[i + 1]
    BY <1>2, <1>3, <1>4, <2>2, HeadTailProperties
  <2>4. due[1] = c
    BY <1>2, <1>3, <1>4, HeadTailProperties
  <2>5. Len(more) = n + 1 /\ more[n + 1] = c /\ \A i \in 1..n : more[i] = results[i]
    BY <1>8, <2>1, AppendProperties
  <2>6. /\ more \o rest \in Seq(Call) /\ Len(more \o rest) = n + m
        /\ \A i \in 1..(n + m) :
             (more \o rest)[i] = IF i <= n + 1 THEN more[i] ELSE rest[i - (n + 1)]
    <3>1. PICK k \in Nat, l \in Nat : k = n + 1 /\ l = m - 1
      OBVIOUS
    <3>2. Len(more) = k /\ Len(rest) = l /\ k + l = n + m
      BY <2>3, <2>5, <3>1
    <3>3. /\ more \o rest \in Seq(Call) /\ Len(more \o rest) = k + l
          /\ \A i \in 1..(k + l) :
               (more \o rest)[i] = IF i <= k THEN more[i] ELSE rest[i - k]
      BY <3>2, ConcatProperties
    <3>4. QED BY <3>1, <3>2, <3>3
  <2>7. /\ results \o due \in Seq(Call) /\ Len(results \o due) = n + m
        /\ \A i \in 1..(n + m) : (results \o due)[i] = IF i <= n THEN results[i] ELSE due[i - n]
    BY <2>1, <2>2, ConcatProperties
  <2>8. ASSUME NEW i \in 1..(n + m) PROVE (more \o rest)[i] = (results \o due)[i]
    <3>1. CASE i <= n
      BY <2>5, <2>6, <2>7, <3>1
    <3>2. CASE i = n + 1
      BY <2>4, <2>5, <2>6, <2>7, <3>2, SMTT(30)
    <3>3. CASE i > n + 1
      <4>1. i - (n + 1) \in 1..(m - 1) /\ (i - (n + 1)) + 1 = i - n
        BY <3>3
      <4>2. rest[i - (n + 1)] = due[i - n]
        BY <2>3, <4>1
      <4>3. ~(i <= n + 1) /\ ~(i <= n)
        BY <3>3
      <4>4. QED BY <2>6, <2>7, <4>2, <4>3
    <3>4. i <= n \/ i = n + 1 \/ i > n + 1
      OBVIOUS
    <3>5. QED BY <3>1, <3>2, <3>3, <3>4
  <2>9. QED BY <2>6, <2>7, <2>8, SeqEqual
<1>12. Conv' = Conv
  BY <1>1, <1>3, <1>10, <1>11 DEF Conv
<1>13. Running'
  BY <1>10 DEF Running
<1>14. QED BY <1>1, <1>2, <1>3, <1>4, <1>6, <1>7, <1>10, <1>12, <1>13, MovesTalk

LEMMA TellResultsTalk == ASSUME Talk, TellResults PROVE Talk'
<1>1. /\ agent.at = "tools" /\ out = <<>> /\ agent.due = <<>>
      /\ UNCHANGED <<host, session, out, given>>
  BY DEF TellResults, At, Quietly
<1>2. agent \in AgentState /\ Running /\ host.agent = "llm"
  BY <1>1 DEF Talk, Shapes, Running, LoopPlaces
<1>3. PICK ms \in Seq(Message), results \in Seq(Call) :
        ms = agent.contents /\ results = agent.results
  BY <1>2 DEF AgentState
<1>4. PICK t \in Message : t = Tells(results)
  BY TellsShape
<1>5. PICK new \in Seq(Message) : new = Append(ms, t)
  BY AppendShape
<1>6. agent' = [agent EXCEPT !.at = "loop", !.contents = new]
  BY <1>3, <1>4, <1>5 DEF TellResults
<1>7. /\ agent' \in AgentState /\ agent'.at = "loop" /\ agent'.history = agent.history
      /\ agent'.contents = new
  BY <1>2, <1>6 DEF AgentState, Places
<1>8. Conv' = Conv
  <2>1. results \o <<>> = results
    OBVIOUS
  <2>2. QED BY <1>1, <1>3, <1>4, <1>5, <1>7, <2>1 DEF Conv
<1>9. QED BY <1>1, <1>2, <1>7, <1>8, GoesTalk

LEMMA LlmTalk == ASSUME Talk, LlmNext, AgentAssumption, AnswerAssumption PROVE Talk'
<1>1. CASE SetUp
  BY <1>1, SetUpTalk
<1>2. CASE Fail
  <2>1. Running /\ agent.at # "tool" /\ UNCHANGED <<host, session, agent, given>>
    BY <1>2 DEF Fail, At, Running
  <2>2. "error" \in EventTypes /\ Yield(Event("error"))
    BY <1>2 DEF Fail, EventTypes, Endings
  <2>3. QED BY <2>1, <2>2, PlainTalk
<1>3. CASE ReachLimit
  <2>1. Running /\ agent.at # "tool" /\ UNCHANGED <<host, session, agent, given>>
    BY <1>3 DEF ReachLimit, At, Running
  <2>2. "done" \in EventTypes /\ Yield(Event("done"))
    BY <1>3 DEF ReachLimit, EventTypes, Endings
  <2>3. QED BY <2>1, <2>2, PlainTalk
<1>4. CASE LeaveLoop
  <2>1. out = <<>> /\ UNCHANGED <<host, session, out, given>> /\ Over
    BY <1>4, ReturnedIsOver DEF LeaveLoop, At
  <2>2. QED BY <2>1, OverTalk DEF Talk, Shapes
<1>5. CASE Ask \/ CallModel
  BY <1>5, AskTalk
<1>6. CASE \E r \in Interceptions : Intercept(r)
  BY <1>6, InterceptTalk
<1>7. CASE \E r \in Replies : ModelReplies(r)
  BY <1>7, ModelRepliesTalk
<1>8. CASE Emit
  BY <1>8, EmitTalk
<1>9. CASE Respond
  BY <1>9, RespondTalk
<1>10. CASE BeginTool
  BY <1>10, BeginToolTalk
<1>11. CASE EndTool
  BY <1>11, EndToolTalk
<1>12. CASE TellResults
  BY <1>12, TellResultsTalk
<1>13. QED BY <1>1, <1>2, <1>3, <1>4, <1>5, <1>6, <1>7, <1>8, <1>9, <1>10, <1>11, <1>12
           DEF LlmNext

LEMMA OtherTalk == ASSUME Talk, OtherNext PROVE Talk'
<1>1. agent \in AgentState
  BY DEF Talk, Shapes
<1>2. CASE \E e \in CustomEvents : CustomYields(e)
  <2>1. PICK e \in CustomEvents : CustomYields(e)
    BY <1>2
  <2>2. e \in AgentEvent /\ e.type # "toolResult"
    BY CustomEventShape
  <2>3. /\ Running /\ agent.at # "tool" /\ UNCHANGED <<host, session, agent, given>>
        /\ out' = <<e>>
    BY <2>1 DEF CustomYields, At, Running, Yield
  <2>4. QED BY <2>2, <2>3, YieldTalk
<1>3. CASE CustomReturns \/ RunThrows
  <2>1. /\ out = <<>> /\ UNCHANGED <<host, session, out, given>> /\ Over
    BY <1>3, ReturnedIsOver DEF CustomReturns, RunThrows, At
  <2>2. QED BY <2>1, OverTalk DEF Talk, Shapes
<1>4. CASE \E n \in 1..2 : RemoteUpdate(n)
  <2>1. PICK n \in 1..2 : RemoteUpdate(n)
    BY <1>4
  <2>2. agent.at = "remote" /\ out = <<>> /\ UNCHANGED <<host, session, out, given>> /\ Running
    BY <2>1 DEF RemoteUpdate, At, Quietly, Running
  <2>3. PICK texts \in Seq(Kinds) : texts = [i \in 1..n |-> "text"]
    <3>1. n \in Nat
      OBVIOUS
    <3>2. [i \in 1..n |-> "text"] \in [1..n -> Kinds]
      BY DEF Kinds
    <3>3. \A s \in [1..n -> Kinds] : s \in Seq(Kinds)
      BY <3>1, SeqDef
    <3>4. QED BY <3>2, <3>3
  <2>4. agent' = [agent EXCEPT !.at = "emit", !.content = texts]
    BY <2>1, <2>3 DEF RemoteUpdate
  <2>5. /\ agent' \in AgentState /\ agent'.at = "emit" /\ agent'.history = agent.history
        /\ agent'.contents = agent.contents
    BY <1>1, <2>4 DEF AgentState, Places
  <2>6. Conv' = Conv /\ agent'.at \notin LoopPlaces
    BY <2>2, <2>5 DEF Conv, LoopPlaces
  <2>7. QED BY <2>2, <2>5, <2>6, GoesTalk
<1>5. CASE RemoteListens
  <2>1. agent.at = "emit" /\ out = <<>> /\ UNCHANGED <<host, session, out, given>> /\ Running
    BY <1>5 DEF RemoteListens, At, Quietly, Running
  <2>2. agent' = [agent EXCEPT !.at = "remote"]
    BY <1>5 DEF RemoteListens, Go
  <2>3. /\ agent' \in AgentState /\ agent'.at = "remote" /\ agent'.history = agent.history
        /\ agent'.contents = agent.contents
    BY <1>1, <2>2 DEF AgentState, Places
  <2>4. Conv' = Conv /\ agent'.at \notin LoopPlaces
    BY <2>1, <2>3 DEF Conv, LoopPlaces
  <2>5. QED BY <2>1, <2>3, <2>4, GoesTalk
<1>6. CASE \E failed \in BOOLEAN : RemoteEnds(failed)
  <2>1. PICK type \in {"error", "done"} : Yield(Event(type))
    BY <1>6 DEF RemoteEnds
  <2>2. Running /\ agent.at # "tool" /\ UNCHANGED <<host, session, agent, given>>
    BY <1>6 DEF RemoteEnds, At, Running
  <2>3. type \in EventTypes /\ type # "toolResult"
    BY DEF EventTypes, Endings
  <2>4. QED BY <2>1, <2>2, <2>3, PlainTalk
<1>7. QED BY <1>2, <1>3, <1>4, <1>5, <1>6 DEF OtherNext

LEMMA NextTalk ==
  ASSUME Talk, Alone, [Next]_vars, AgentAssumption, AnswerAssumption PROVE Talk'
<1>1. CASE Begin
  BY <1>1, BeginTalk
<1>2. CASE RunAsync
  BY <1>2, RunAsyncTalk
<1>3. CASE Relay
  BY <1>3, RelayTalk
<1>4. CASE Abort \/ StoreNext \/ PublishNext \/ End
  BY <1>4, StillTalk DEF Abort, StoreNext, PublishNext, End
<1>5. CASE \E kept \in BOOLEAN : StartTurn(kept)
  BY <1>5, StartTurnTalk
<1>6. CASE LlmNext
  BY <1>6, LlmTalk
<1>7. CASE OtherNext
  BY <1>7, OtherTalk
<1>8. CASE UNCHANGED vars
  BY <1>8, StillTalk DEF vars
<1>9. CASE Overtaken
  BY <1>9, OvertakenTalk
<1>10. QED BY <1>1, <1>2, <1>3, <1>4, <1>5, <1>6, <1>7, <1>8, <1>9 DEF Next, RunnerNext

(* A result in the session follows its call at once, and as long as the turn   *)
(* started from a history that can be replayed, every message of calls in the  *)
(* contents, with what a tool loop still has to tell, is followed by one of    *)
(* their results and nothing else has results.                                 *)
THEOREM TalkInv == Spec => []Talk
<1>1. Alone /\ [Next]_vars => Alone'
  BY AloneInv
<1>2. Init => Alone
  BY DEF Init, Alone
<1>3. Talk /\ Alone /\ [Next]_vars => Talk'
  BY NextTalk, AgentAssumption, AnswerAssumption
<1>4. QED BY <1>1, <1>2, <1>3, InitTalk, PTL DEF Spec

(* ToolsPaired: whatever tools were called, missing or failed, whoever answered *)
(* for the model and whatever was yielded in between, each use of a tool in the *)
(* next request is followed at once by its result, in the blocks of any vendor. *)
THEOREM ToolsAnswered == Spec => []ToolsPaired
<1>1. ASSUME Talk PROVE ToolsPaired
  <2> SUFFICES ASSUME agent.at = "model", Replayable(SubSeq(session, 1, agent.history))
               PROVE  Paired(Request(host.provider, agent.contents))
    BY DEF ToolsPaired
  <2>1. Running /\ Conv = agent.contents
    BY DEF Running, Conv
  <2>2. Balanced(agent.contents)
    BY <1>1, <2>1 DEF Talk, Follows
  <2>3. agent.contents \in Seq(Message)
    BY <1>1 DEF Talk, Shapes, AgentState
  <2>4. host.provider \in Providers
    BY <1>1, AgentAssumption DEF Talk, Shapes, LoopPlaces, AgentAssumption
  <2>5. QED BY <2>2, <2>3, <2>4, BalancedIsPaired
<1>2. QED BY <1>1, TalkInv, PTL
=============================================================================
