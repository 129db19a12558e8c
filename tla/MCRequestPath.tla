--------------------------- MODULE MCRequestPath ---------------------------
(***************************************************************************)
(* RequestPath for TLC: three callers on two connections, so that one of   *)
(* them may have to wait for the pool while another waits for a key.  One  *)
(* creates over REST, also with every combination of the defects that the  *)
(* transports look for, one creates over MCP, and one reads over REST and  *)
(* calls the store itself.                                                 *)
(***************************************************************************)
EXTENDS RequestPath

CONSTANTS c1, c2, rest, mcp, store

MCConnections == {c1, c2}
MCSessions    == {rest, mcp, store}
MCWorkspaces  == {"w1", "w2", "w3"}
MCIssues      == {"i1", "i2"}
MCNames       == MCWorkspaces \union MCIssues
                   \union {"i0", "f1", "f2", "p1", "p2", "m1", "k1"}

Fine     == [bytes |-> 12, blank |-> FALSE, ascii |-> TRUE]

Create(via, tenant, parent, milestone, print) ==
    [via |-> via, frame |-> "call", token |-> "accepted", tenant |-> tenant,
     op |-> "issue.create", extracted |-> TRUE, body |-> "fine", id |-> None, ws |-> tenant,
     parent |-> parent, milestone |-> milestone, key |-> "k1", keyText |-> Fine,
     title |-> Fine, description |-> Fine, print |-> print]

Get(via, tenant, op, id) ==
    [Create(via, tenant, "p1", None, 0) EXCEPT !.op = op, !.id = id]

Store(tenant, op, id, ws, parent) ==
    [Get("store", tenant, op, id) EXCEPT !.ws = ws, !.parent = parent]

Defects == {"size", "token", "repeated", "malformed"}

\* A request of w1 with some of the defects.
Defective(r, defects) ==
    [r EXCEPT !.extracted = "size" \notin defects,
              !.token     = IF "token" \in defects THEN "refused" ELSE @,
              !.body      = IF "malformed" \in defects THEN "malformed"
                            ELSE IF "repeated" \in defects THEN "repeated" ELSE @]

RestSends ==
    { Defective(Create("rest", "w1", "p1", None, 1), d) : d \in SUBSET Defects }

McpSends ==
    { Create("mcp", "w1", "p1", "m1", 2), Create("mcp", "w1", "p2", "m1", 1),
      Create("mcp", "w3", "p1", None, 1) }

StoreSends ==
    { Get("rest", "w1", "issue.get", "i0"), Get("rest", "w2", "issue.get", "i1"),
      Store("w2", "project.create", "p1", "w1", "f1"),
      Store("w2", "project.create", "p1", "w2", "f2") }

MCSends == [s \in MCSessions |-> CASE s = rest -> RestSends
                                   [] s = mcp  -> McpSends
                                   [] OTHER    -> StoreSends]

MCPolicies == { [engine |-> "matrix", grants |-> Standard],
                [engine |-> "matrix",
                 grants |-> WithOverride(Standard, "issue.create", {"viewer"})],
                [engine |-> "allow_list", grants |-> {"issue.read"}] }

RowOf(table, id, ws, ref) ==
    [table |-> table, id |-> id, ws |-> ws, ref |-> ref, print |-> 0]

MCSeed == { RowOf("workspace", "w1", "w1", None), RowOf("workspace", "w2", "w2", None),
            RowOf("workflow", "f1", "w1", None), RowOf("workflow", "f2", "w2", None),
            RowOf("project", "p1", "w1", "f1"), RowOf("project", "p2", "w1", "f1"),
            RowOf("milestone", "m1", "w1", "p1"), RowOf("issue", "i0", "w1", "p1") }
=============================================================================
