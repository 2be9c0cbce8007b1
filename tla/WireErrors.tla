------------------------------- MODULE WireErrors -------------------------------
(***************************************************************************)
(* The errors of A2A and what each binding makes of them: what the server      *)
(* writes for an error, and the error the client makes of what it reads.      *)
(***************************************************************************)
EXTENDS Integers

Error(class, code, status, reason) ==
  [class |-> class, code |-> code, status |-> status, reason |-> reason]

(* Each class with its JSON-RPC code, and the HTTP status and the reason that *)
(* http-json-handler.ts derives from its type and its name.                   *)
Errors ==
  { Error("JSONParse", -32700, 400, "JSON_PARSE"),
    Error("InvalidRequest", -32600, 400, "INVALID_REQUEST"),
    Error("MethodNotFound", -32601, 404, "METHOD_NOT_FOUND"),
    Error("InvalidParams", -32602, 400, "INVALID_PARAMS"),
    Error("Internal", -32603, 500, "INTERNAL"),
    Error("TaskNotFound", -32001, 404, "TASK_NOT_FOUND"),
    Error("TaskNotCancelable", -32002, 400, "TASK_NOT_CANCELABLE"),
    Error("PushNotificationNotSupported", -32003, 400, "PUSH_NOTIFICATION_NOT_SUPPORTED"),
    Error("UnsupportedOperation", -32004, 400, "UNSUPPORTED_OPERATION"),
    Error("ContentTypeNotSupported", -32005, 400, "CONTENT_TYPE_NOT_SUPPORTED"),
    Error("InvalidAgentResponse", -32006, 500, "INVALID_AGENT_RESPONSE"),
    Error("AuthenticatedExtendedCardNotConfigured", -32007, 400,
          "EXTENDED_AGENT_CARD_NOT_CONFIGURED"),
    Error("VersionNotSupported", -32009, 400, "VERSION_NOT_SUPPORTED") }

Classes == {e.class : e \in Errors}
ErrorOf(class) == CHOOSE e \in Errors : e.class = class

(* What the client throws for a code, whichever binding it came from.         *)
ClassOfCode(code) ==
  IF \E e \in Errors : e.code = code
  THEN (CHOOSE e \in Errors : e.code = code).class ELSE "Internal"

(* The reasons the client knows, and what it makes of a bare HTTP status.     *)
CodeOfReason ==
  [ JSON_PARSE |-> -32700, INVALID_REQUEST |-> -32600, METHOD_NOT_FOUND |-> -32601,
    INVALID_PARAMS |-> -32602, INTERNAL |-> -32603, TASK_NOT_FOUND |-> -32001,
    TASK_NOT_CANCELABLE |-> -32002, PUSH_NOTIFICATION_NOT_SUPPORTED |-> -32003,
    UNSUPPORTED_OPERATION |-> -32004, CONTENT_TYPE_NOT_SUPPORTED |-> -32005,
    REQUEST_BODY_TOO_LARGE |-> -32600, INVALID_AGENT_RESPONSE |-> -32006,
    EXTENDED_AGENT_CARD_NOT_CONFIGURED |-> -32007,
    AUTHENTICATED_EXTENDED_CARD_NOT_CONFIGURED |-> -32007,
    VERSION_NOT_SUPPORTED |-> -32009 ]

CodeOfStatus(status) ==
  CASE status \in {400, 413} -> -32600
    [] status = 404 -> -32601
    [] OTHER -> -32603
-----------------------------------------------------------------------------
Bare == "none"   \* a body without google.rpc.ErrorInfo, such as plain text

(* An error in the body of an answer: over HTTP+JSON the status tells too.    *)
RpcError(class) == [status |-> 200, code |-> ErrorOf(class).code, reason |-> Bare]
RestError(class) ==
  LET e == ErrorOf(class) IN [status |-> e.status, code |-> e.status, reason |-> e.reason]

(* JsonRpcClientTransport reads no body but that of a 2xx answer.             *)
RpcClass(error) == IF error.status = 200 THEN ClassOfCode(error.code) ELSE "Internal"

(* Mutant: the HTTP status alone.                                           *)
RestClassByStatus(error) == ClassOfCode(CodeOfStatus(error.status))
RestClass(error) ==
  ClassOfCode(IF error.reason \in DOMAIN CodeOfReason
              THEN CodeOfReason[error.reason] ELSE CodeOfStatus(error.status))

(* Within a stream the client keeps the number as it finds it.                *)
StreamCode(binding, class) ==
  IF binding = "JSONRPC" THEN RpcError(class).code ELSE RestError(class).code
=============================================================================
