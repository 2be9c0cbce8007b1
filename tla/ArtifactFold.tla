---------------------------- MODULE ArtifactFold ----------------------------
(***************************************************************************)
(* The artifacts of one turn: how the executor names and collects what an  *)
(* agent yields (a2x/agent-executor.ts), for message/send at the end of    *)
(* the turn and for message/stream update by update, and how the request   *)
(* handler folds either onto what earlier turns left.  An artifact is its  *)
(* id, its descriptor's name and its pieces of content in order; joining   *)
(* chunks of text keeps the pieces.                                        *)
(***************************************************************************)
EXTENDS Integers, Sequences, FiniteSets, SequencesExt, FiniteSetsExt

\* The name of an artifact without one.
Unnamed == ""

Artifact(id, name, pieces) == [id |-> id, name |-> name, pieces |-> pieces]
Ids(artifacts) == {artifacts[i].id : i \in DOMAIN artifacts}

\* applyArtifactUpdate: an appended update adds to the artifact of its id, any
\* other one replaces it.
ApplyUpdate(artifacts, artifact, append) ==
  IF artifact.id \notin Ids(artifacts) THEN Append(artifacts, artifact)
  ELSE LET i == CHOOSE k \in DOMAIN artifacts : artifacts[k].id = artifact.id
       IN IF append
          THEN [artifacts EXCEPT ![i].pieces = @ \o artifact.pieces,
                                 ![i].name = IF artifact.name = Unnamed THEN @ ELSE artifact.name]
          ELSE [artifacts EXCEPT ![i] = artifact]

MergeArtifacts(prior, produced) ==
  LET merged[n \in 0..Len(produced)] ==
        IF n = 0 THEN prior ELSE ApplyUpdate(merged[n - 1], produced[n], FALSE)
  IN merged[Len(produced)]

\* The artifacts that are not named, in their order.
Without(artifacts, named) ==
  LET rest[n \in 0..Len(artifacts)] ==
        IF n = 0 THEN <<>>
        ELSE IF artifacts[n].id \in named THEN rest[n - 1]
        ELSE Append(rest[n - 1], artifacts[n])
  IN rest[Len(artifacts)]

-----------------------------------------------------------------------------
(* One path through a turn: the artifacts the task had ("prior"), the ids in *)
(* use, what was collected, what the executor wrote onto its task            *)
(* ("produced", <<>> when untouched), and what the store and a subscriber    *)
(* have.                                                                     *)

\* Not in the code: ids allocated as if the task were new.
BeginPathUnaware(stored) ==
  [prior |-> stored, taken |-> {}, count |-> 0, textId |-> <<>>,
   others |-> <<>>, text |-> <<>>, name |-> Unnamed, produced |-> <<>>,
   status |-> "working", stored |-> stored, told |-> stored]

BeginPath(stored) ==
  [prior |-> stored, taken |-> Ids(stored), count |-> 0, textId |-> <<>>,
   others |-> <<>>, text |-> <<>>, name |-> Unnamed, produced |-> <<>>,
   status |-> "working", stored |-> stored, told |-> stored]

\* ArtifactIdAllocator.text: the plain id, or the first free suffix from 2 on.
ClaimText(p) ==
  IF p.textId # <<>> THEN p
  ELSE LET n == Min({k \in 1..(Cardinality(p.taken) + 1) : <<"text", k>> \notin p.taken})
       IN [p EXCEPT !.textId = <<"text", n>>, !.taken = @ \cup {<<"text", n>>}]

\* ArtifactIdAllocator.next: files and data share a counter.
ClaimNext(p, kind) ==
  LET n == Min({k \in (p.count + 1)..(p.count + Cardinality(p.taken) + 1) :
                  <<kind, k>> \notin p.taken})
  IN [p EXCEPT !.count = n, !.taken = @ \cup {<<kind, n>>}]

\* mergeTextArtifactDescriptor throws when a chunk renames the text artifact.
Conflicts(p, e) == e.type = "text" /\ e.name # Unnamed /\ p.name \notin {Unnamed, e.name}

Collect(p, e) ==
  IF e.type = "text"
  THEN [p EXCEPT !.text = Append(@, e.piece), !.name = IF e.name = Unnamed THEN @ ELSE e.name]
  ELSE LET q == ClaimNext(p, e.type)
       IN [q EXCEPT !.others = Append(@, Artifact(<<e.type, q.count>>, Unnamed, <<e.piece>>))]

\* attachArtifacts, with the text artifact last.
Attach(p) ==
  IF p.text = <<>> THEN [p EXCEPT !.produced = p.others]
  ELSE LET q == ClaimText(p)
       IN [q EXCEPT !.produced = Append(p.others, Artifact(q.textId, p.name, p.text))]

-----------------------------------------------------------------------------
(* message/send: everything is written when the turn is over. *)

\* Not in the code: a turn that asks for input leaves its content behind.
EndSendBare(p, status) ==
  LET q == IF status = "input-required" THEN p ELSE Attach(p)
  IN [q EXCEPT !.status = status, !.stored = MergeArtifacts(p.prior, q.produced)]

EndSend(p, status) ==
  LET q == Attach(p)
  IN [q EXCEPT !.status = status, !.stored = MergeArtifacts(p.prior, q.produced)]

-----------------------------------------------------------------------------
(* message/stream: each update is stored, then published. *)

Update(artifact, append) == [artifact |-> artifact, append |-> append]

\* What an executor with this path makes of an event: the text has its id from
\* its first chunk on.
Stream(p, e) == IF e.type = "text" THEN ClaimText(Collect(p, e)) ELSE Collect(p, e)

\* The update it yields for the event, once it has it: the text's first chunk
\* makes an artifact and the others add to it.
UpdateOf(p, e) ==
  IF e.type = "text" THEN Update(Artifact(p.textId, p.name, <<e.piece>>), Len(p.text) > 1)
  ELSE Update(Last(p.others), FALSE)

\* A turn that completes yields its text once more, as a whole.
WholeText(p) ==
  IF p.text = <<>> THEN <<>> ELSE <<Update(Last(Attach(p).produced), FALSE)>>

StoreUpdate(p, u) == [p EXCEPT !.stored = ApplyUpdate(@, u.artifact, u.append)]
PublishUpdate(p, u) == [p EXCEPT !.told = ApplyUpdate(@, u.artifact, u.append)]

\* The status that ends a stream is written with the executor's artifacts, then
\* those of the stream they do not name.
EndStream(p, status) ==
  LET q == Attach(p)
      canonical == MergeArtifacts(p.prior, q.produced)
  IN [q EXCEPT !.status = status,
               !.stored = IF q.produced = <<>> THEN @
                          ELSE canonical \o Without(@, Ids(canonical))]
=============================================================================
