------------------------------ MODULE Requests ------------------------------
(***************************************************************************)
(* What the two transports, the application service and the domain ask of  *)
(* a request before the store sees it: bin/dandori-api/src/lib.rs,         *)
(* bin/dandori-mcp/src/{main,lib}.rs, crates/dandori-app-services/src/     *)
(* {adapters,service}.rs and crates/dandori-domain/src/{ids,command}.rs.   *)
(*                                                                         *)
(* Each layer is a list of checks in the order of the code; the first that *)
(* fails gives the answer.  A text is its length in bytes and whether it   *)
(* is blank or plain ASCII: the questions the checks put to it.            *)
(***************************************************************************)
EXTENDS Naturals, Sequences, Policy

CONSTANTS Workspaces, Names     \* tenants; row ids and idempotency keys

Vias   == {"rest", "mcp", "store"}
Frames == {"call", "not_jsonrpc", "no_method", "bad_params", "handshake"}
Tokens == {"accepted", "refused", "absent"}
Bodies == {"fine", "repeated", "malformed"}
Texts  == [bytes : Nat, blank : BOOLEAN, ascii : BOOLEAN]

ServiceOps == {"issue.create", "issue.get"}
StoreOps   == {"workspace.create", "workspace.get", "project.create", "project.get"}
Ops        == ServiceOps \union StoreOps \union {"unknown"}

\* The id of a get or of the row to create is None when it is no UUID; ws and
\* parent are the workspace and the workflow or project an input names; print
\* is the fingerprint.  extracted: the request is what axum's extractors take, a
\* body within their limit and a path segment in UTF-8.  A repeated body names a
\* field twice; the fields here are the last ones.  The router knows the tools
\* it serves and reads no body of a GET; code that calls the store has typed ids.
Request ==
    {r \in [via : Vias, frame : Frames, token : Tokens, tenant : Workspaces, op : Ops,
            extracted : BOOLEAN, body : Bodies, id : Names \union {None}, ws : Workspaces,
            parent : Names, milestone : Names \union {None},
            key : Names, keyText : Texts, title : Texts, description : Texts, print : Nat] :
        \/ r.via = "rest" /\ r.op \in ServiceOps /\ r.frame = "call"
              /\ (r.op = "issue.get" => r.body = "fine")
        \/ r.via = "mcp" /\ r.op \in ServiceOps \union {"unknown"}
        \/ r.via = "store" /\ r.op \in StoreOps /\ r.id # None}

-----------------------------------------------------------------------------
Check(fails, code) == [fails |-> fails, code |-> code]

\* The early returns of a handler.
FirstFailure(checks) ==
    LET failing == {i \in DOMAIN checks : checks[i].fails}
    IN  IF failing = {} THEN "accepted"
        ELSE checks[CHOOSE i \in failing : \A j \in failing : i <= j].code

\* The body of a POST or the arguments of a call; the id of a get.
PayloadChecks(refused, r) ==
    << Check(refused, "invalid_payload"),
       Check(r.op = "issue.get" /\ r.id = None, "invalid_issue_id") >>

\* rest_create_issue and rest_get_issue.  The extractors run before the handler
\* and answer without an envelope; from_slice refuses a field that comes twice.
RestChecks(r) ==
    << Check(~r.extracted, "rejected_by_extractor"),
       Check(r.token # "accepted", "unauthorized") >>
    \o PayloadChecks(r.body # "fine", r)

\* Faulty: the arguments are parsed before the token is looked at.
McpChecksPayloadFirst(r) ==
    PayloadChecks(r.body = "malformed", r)
    \o << Check(r.frame # "call", "rpc_invalid_request"),
          Check(r.token # "accepted", "unauthorized") >>

\* One line of main, handle_json_rpc and handle_tool_call.  A call without a
\* token does not deserialize; only calls need one.  The arguments have been a
\* serde_json::Value, in which the last of two fields of a name is left.
McpChecks(r) ==
    << Check(r.frame = "not_jsonrpc", "rpc_invalid_request"),
       Check(r.frame = "handshake", "rpc_handshake"),
       Check(r.frame = "no_method", "rpc_method_not_found"),
       Check(r.frame = "bad_params" \/ r.token = "absent", "rpc_invalid_params"),
       Check(r.token = "refused", "unauthorized"),
       Check(r.op = "unknown", "unknown_tool") >>
    \o PayloadChecks(r.body = "malformed", r)

-----------------------------------------------------------------------------
\* subject_from_auth: a caller with a token is owner and member of the
\* workspace its claims name, and of no other.
SubjectFromAuth(r) == [workspace |-> r.tenant, roles |-> {"owner", "member"}]

ActionOf == [op \in ServiceOps |->
                IF op = "issue.create" THEN "issue.create" ELSE "issue.read"]

\* enforce_policy
PolicyChecks(policy, r) ==
    LET verdict == Decide(policy, SubjectFromAuth(r), ActionOf[r.op], r.tenant)
    IN  << Check(verdict # "allow", verdict) >>

\* IdempotencyKey::new, then CreateIssueCommandV1::validate, whose questions on
\* the length of the key and on the fingerprint (67 bytes) cannot fail there.
CommandChecks(r) ==
    << Check(r.keyText.bytes \notin 1..128, "idempotency_key_length"),
       Check(~r.keyText.ascii, "idempotency_key_charset"),
       Check(r.title.blank, "title_required"),
       Check(r.title.bytes > 200, "title_too_long"),
       Check(r.keyText.blank, "idempotency_key_required"),
       Check(r.description.bytes > 4000, "description_too_long") >>

\* IssueAppService::create_issue and get_issue, up to the store.  The command
\* is built with the caller's workspace, so enforce_workspace cannot fail.
ServiceChecks(policy, r) ==
    PolicyChecks(policy, r) \o (IF r.op = "issue.create" THEN CommandChecks(r) ELSE <<>>)

\* What a request is refused with before the store is asked, or "accepted".
Refusal(policy, r) ==
    CASE r.via = "rest"  -> FirstFailure(RestChecks(r) \o ServiceChecks(policy, r))
      [] r.via = "mcp"   -> LET atDoor == FirstFailure(McpChecks(r))
                            IN  IF atDoor = "accepted"
                                THEN FirstFailure(ServiceChecks(policy, r)) ELSE atDoor
      [] r.via = "store" -> "accepted"

-----------------------------------------------------------------------------
\* map_transport_error, up to the numbers: 2xx, 500, and the 4xx that blame the
\* caller.  MCP carries the same codes without a number.
Class(code) ==
    CASE code \in {"ok", "created", "replay", "rpc_handshake"}    -> "served"
      [] code \in {"store_write_failed", "store_read_failed"}     -> "failed"
      [] OTHER                                                    -> "refused"

\* map_store_error and map_store_error_read: what is left over is internal.
FailureCode(r) ==
    IF r.op \in {"issue.create", "workspace.create", "project.create"}
    THEN "store_write_failed" ELSE "store_read_failed"
=============================================================================
