------------------------------- MODULE WireReplies -------------------------------
(***************************************************************************)
(* An answer on its way back: what the server's mapper of its protocol version *)
(* writes, the frames of a stream in each binding, and what the client's       *)
(* parser of the version it resolved reads.                                   *)
(*                                                                         *)
(* Inside both, a task is [id, state, artifacts], an artifact [id, name, part],  *)
(* and an event is about a status or about an artifact.                       *)
(***************************************************************************)
EXTENDS WireRequests, WireErrors

States == {"submitted", "working", "input-required", "auth-required",
           "completed", "failed", "canceled", "rejected"}
Terminal == {"completed", "failed", "canceled", "rejected"}

V10State ==
  ("submitted" :> "TASK_STATE_SUBMITTED") @@ ("working" :> "TASK_STATE_WORKING") @@
  ("input-required" :> "TASK_STATE_INPUT_REQUIRED") @@
  ("auth-required" :> "TASK_STATE_AUTH_REQUIRED") @@
  ("completed" :> "TASK_STATE_COMPLETED") @@ ("failed" :> "TASK_STATE_FAILED") @@
  ("canceled" :> "TASK_STATE_CANCELED") @@ ("rejected" :> "TASK_STATE_REJECTED")

Task(id, state, artifacts) == [id |-> id, state |-> state, artifacts |-> artifacts]
StatusEvent(task, state, final) == [task |-> task, state |-> state, final |-> final]
ArtifactEvent(task, artifact) == [task |-> task, artifact |-> artifact]
-----------------------------------------------------------------------------
(* Parts are flat inside; v0.3 marks their kind and nests a file.            *)
MapPart(version, part) ==
  IF version = "1.0" THEN part
  ELSE IF Has(part, "text") THEN part @@ ("kind" :> "text")
  ELSE IF Has(part, "url") THEN "kind" :> "file" @@ "file" :> ("uri" :> part["url"])
  ELSE part @@ ("kind" :> "data")

ParsePart(version, part) ==
  IF version = "1.0" THEN part
  ELSE IF Has(part, "file") THEN "url" :> part["file"]["uri"] ELSE Without(part, {"kind"})

(* v0.3 requires a name of an artifact.                                      *)
MapArtifact(version, a) ==
  ("artifactId" :> a.id) @@ ("parts" :> <<MapPart(version, a.part)>>)
    @@ (IF version = "0.3" THEN "name" :> IF a.name = Absent THEN "response" ELSE a.name
                           ELSE Opt("name", a.name))

ParseArtifact(version, w) ==
  [id |-> w["artifactId"], name |-> Field(w, "name"), part |-> ParsePart(version, w["parts"][1])]

MapState(version, state) == IF version = "1.0" THEN V10State[state] ELSE state

(* A v1.0 client also reads the other spelling, a v0.3 client reads anything. *)
ParseState(version, state) ==
  IF version = "1.0" /\ state \notin States
  THEN CHOOSE s \in States : V10State[s] = state ELSE state

Kind(version, k) == IF version = "0.3" THEN "kind" :> k ELSE None

MapTask(version, t) ==
  Kind(version, "task") @@ ("id" :> t.id) @@ ("status" :> ("state" :> MapState(version, t.state)))
    @@ (IF t.artifacts = None THEN None
        ELSE "artifacts" :> [i \in DOMAIN t.artifacts |-> MapArtifact(version, t.artifacts[i])])

ParseTask(version, w) ==
  Task(w["id"], ParseState(version, w["status"]["state"]),
       IF Has(w, "artifacts")
       THEN [i \in DOMAIN w["artifacts"] |-> ParseArtifact(version, w["artifacts"][i])] ELSE None)

MapStatusUpdateEvent(version, e) ==
  Kind(version, "status-update") @@ ("taskId" :> e.task)
    @@ ("status" :> ("state" :> MapState(version, e.state)))
    @@ (IF version = "0.3" THEN "final" :> e.final ELSE None)

MapArtifactUpdateEvent(version, e) ==
  Kind(version, "artifact-update") @@ ("taskId" :> e.task)
    @@ ("artifact" :> MapArtifact(version, e.artifact))

MapEvent(version, e) ==
  IF Has(e, "artifact") THEN MapArtifactUpdateEvent(version, e)
                        ELSE MapStatusUpdateEvent(version, e)
-----------------------------------------------------------------------------
(* Push configurations: nested in v0.3, flat with one scheme in v1.0.        *)
Config(id, url, schemes) == [id |-> id, url |-> url, schemes |-> schemes]

MapPushNotificationConfig(version, task, c) ==
  IF version = "0.3"
  THEN ("taskId" :> task) @@ ("pushNotificationConfig" :> Nested(AskFor("", task, c.id, c.url, c.schemes, Absent, TRUE)))
  ELSE ("taskId" :> task) @@ Flat(AskFor("", task, c.id, c.url, c.schemes, Absent, TRUE))

MapPushNotificationConfigList(version, task, list) ==
  LET mapped == [i \in DOMAIN list |-> MapPushNotificationConfig(version, task, list[i])]
  IN (IF version = "0.3" THEN "array" ELSE "configs") :> mapped

(* The client tells the shapes apart by their fields, not by the version.    *)
ParsePushConfig(w) ==
  IF Has(w, "pushNotificationConfig")
  THEN LET c == w["pushNotificationConfig"]
       IN Config(Field(c, "id"), c["url"], Schemes("0.3", c))
  ELSE Config(w["id"], w["url"], Schemes("1.0", w))

ParsePushConfigList(w) ==
  LET list == IF Has(w, "configs") THEN w["configs"] ELSE w["array"]
  IN [i \in DOMAIN list |-> ParsePushConfig(list[i])]
-----------------------------------------------------------------------------
(* A stream is a sequence of frames; an error is its last one.               *)
Envelope(code) == "error" :> code

RestFrame(w) ==
  CASE Has(w, "artifact") -> "artifactUpdate" :> w
    [] Has(w, "taskId") /\ Has(w, "status") /\ ~Has(w, "artifact") -> "statusUpdate" :> w
    [] Has(w, "id") /\ Has(w, "status") /\ ~Has(w, "taskId") -> "task" :> w
    [] OTHER -> "message" :> w

Frames(binding, events) ==
  [i \in DOMAIN events |-> IF binding = "JSONRPC" THEN "result" :> events[i]
                                                  ELSE RestFrame(events[i])]

UnwrapData(frame) ==
  LET key == CHOOSE k \in {"result", "task", "message", "statusUpdate", "artifactUpdate"} :
               Has(frame, k)
  IN frame[key]

(* The kind decides in v0.3, the fields otherwise.                           *)
DetectEventType(w) ==
  CASE Field(w, "kind") \in {"status-update", "task"} -> "status_update"
    [] Field(w, "kind") = "artifact-update" -> "artifact_update"
    [] ~Has(w, "kind") /\ Has(w, "status") /\ Has(w, "taskId") -> "status_update"
    [] ~Has(w, "kind") /\ Has(w, "artifact") -> "artifact_update"
    [] ~Has(w, "kind") /\ Has(w, "status") /\ Has(w, "id") -> "status_update"
    [] OTHER -> "message"

(* A task is shown as its status.                                           *)
ParseEvent(version, w) ==
  IF DetectEventType(w) = "artifact_update"
  THEN ArtifactEvent(w["taskId"], ParseArtifact(version, w["artifact"]))
  ELSE StatusEvent(IF Has(w, "id") THEN w["id"] ELSE w["taskId"],
                   ParseState(version, w["status"]["state"]), Field(w, "final"))

(* The client stops at a final terminal status, else where the stream ends.  *)
Stops(version, w) ==
  /\ DetectEventType(w) = "status_update"
  /\ Field(w, "final") = TRUE /\ ParseState("1.0", w["status"]["state"]) \in Terminal

ParseSSEStream(version, frames) ==
  LET seen == SelectSeq(frames, LAMBDA f : ~Has(f, "error"))
      unwrapped == [i \in DOMAIN seen |-> UnwrapData(seen[i])]
      data == SelectSeq(unwrapped, LAMBDA w : DetectEventType(w) # "message")
      ends == {i \in DOMAIN data : Stops(version, data[i])}
      last == IF ends = {} THEN Len(data) ELSE CHOOSE i \in ends : \A j \in ends : i <= j
      failed == {i \in DOMAIN frames : Has(frames[i], "error") /\ i <= last + 1}
  IN [events |-> [i \in 1..last |-> ParseEvent(version, data[i])],
      error |-> IF failed = {} THEN Absent ELSE frames[CHOOSE i \in failed : TRUE]["error"]]
=============================================================================
