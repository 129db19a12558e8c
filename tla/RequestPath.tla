---------------------------- MODULE RequestPath ----------------------------
(***************************************************************************)
(* Requests of several tenants on their way through one process: transport,*)
(* policy, domain checks (module Requests), then one transaction on a      *)
(* pooled connection whose app.workspace_id the row level security of      *)
(* crates/dandori-store/src/migration_sql.rs reads, and the answer.        *)
(*                                                                         *)
(* The reads and writes of a transaction are one step each: what happens   *)
(* between the statements of issue.create is the subject of IssueCreate.   *)
(***************************************************************************)
EXTENDS FiniteSets, Requests

CONSTANTS
    Connections,   \* the connections of the pool
    Sessions,      \* callers: a REST connection, an MCP process, store code
    Sends,         \* requests each session may send
    Issues,        \* ids that issues get (UUIDv7: never twice)
    Policies,      \* engines the service may have been built with
    Seed           \* rows committed before

Tables == {"workspace", "workflow", "project", "milestone", "issue", "record"}

\* ref: workflow of a project, project of a milestone or issue, issue of a record
Rows == [table : Tables, id : Names, ws : Workspaces,
         ref : Names \union {None}, print : Nat]

ASSUME SendsAreRequests == \A s \in Sessions : Sends[s] \subseteq Request
ASSUME SeedIsRows       == Seed \subseteq Rows
ASSUME NoneIsNoName     == None \notin Names /\ None \notin Workspaces
                             /\ None \notin Connections
ASSUME IssuesAreNames   == Issues \subseteq Names

VARIABLES
    db,        \* committed rows
    policy,    \* the service's PolicyEngine
    setting,   \* app.workspace_id of each connection, None when unset
    conn,      \* the connection of each session's open transaction, or None
    stage,     \* how far each session's request is
    request,   \* the request
    fresh,     \* IssueId::new() of the command
    found,     \* rows the transaction read to answer with
    wrote,     \* rows it inserted; kept until the next request, as history
    answer     \* code and rows the caller was sent

vars == <<db, policy, setting, conn, stage, request, fresh, found, wrote, answer>>

Open   == {"reading", "reserving", "checking", "inserting", "committing"}
Stages == {"idle", "begin", "context", "answered"} \union Open

NoAnswer == [code |-> "none", rows |-> {}]

Init ==
    /\ db = Seed
    /\ policy \in Policies
    /\ setting = [c \in Connections |-> None]
    /\ conn    = [s \in Sessions |-> None]
    /\ stage   = [s \in Sessions |-> "idle"]
    /\ request = [s \in Sessions |-> None]
    /\ fresh   = [s \in Sessions |-> None]
    /\ found   = [s \in Sessions |-> {}]
    /\ wrote   = [s \in Sessions |-> {}]
    /\ answer  = [s \in Sessions |-> NoAnswer]

-----------------------------------------------------------------------------
InTransaction(s) == stage[s] \in Open \union {"context"}

\* Faulty: the policies name no USING clause.
VisibleUnfiltered(s) == db \union wrote[s]

\* USING of the policies: rows of the connection's workspace, none when unset.
Visible(s) == {row \in db \union wrote[s] : row.ws = setting[conn[s]]}

\* WITH CHECK of the policies
MayWrite(s, row) == row.ws = setting[conn[s]]

\* The primary keys: ids are global, keys are per workspace.
SameKey(a, b) ==
    a.table = b.table /\ a.id = b.id /\ (a.table = "record" => a.ws = b.ws)

ASSUME SeedIsConsistent ==
    /\ \A a, b \in Seed : SameKey(a, b) => a = b
    /\ \A rec \in Seed : rec.table = "record" =>
          /\ \E row \in Seed : row.table = "issue" /\ row.id = rec.ref /\ row.ws = rec.ws
          /\ \A other \in Seed : other.table = "record" /\ other.ref = rec.ref => other = rec

\* The records that a reservation of t has lost to: its DO UPDATE locks them
\* until the transaction ends.
Locked(t) == {row \in found[t] : InTransaction(t) /\ row.table = "record"}

\* PostgreSQL's wait for an open transaction that has inserted or locked the key.
Awaits(s, row) ==
    \E t \in Sessions \ {s} :
        InTransaction(t) /\ \E other \in wrote[t] \union Locked(t) : SameKey(row, other)

\* The foreign key of every tenant table; the checks of the parents imply the
\* others, as only idempotency records are ever deleted.
InWorkspace(row) ==
    row.table = "workspace" \/ \E other \in db : other.table = "workspace" /\ other.id = row.ws

ProjectRow(r)   == [table |-> "project", id |-> r.id, ws |-> r.ws,
                    ref |-> r.parent, print |-> 0]
WorkspaceRow(r) == [table |-> "workspace", id |-> r.id, ws |-> r.id,
                    ref |-> None, print |-> 0]
IssueRow(r, i)  == [table |-> "issue", id |-> i, ws |-> r.tenant,
                    ref |-> r.parent, print |-> 0]
RecordRow(r, i) == [table |-> "record", id |-> r.key, ws |-> r.tenant,
                    ref |-> i, print |-> r.print]

FirstStage(r) ==
    CASE r.op = "issue.create"     -> "reserving"
      [] r.op = "project.create"   -> "checking"
      [] r.op = "workspace.create" -> "inserting"
      [] OTHER                     -> "reading"

\* The table a get asks.
TableOf(r) == CASE r.op = "issue.get"   -> "issue"
                [] r.op = "project.get" -> "project"
                [] OTHER                -> "workspace"

-----------------------------------------------------------------------------
\* Faulty: the setting outlives the transaction: set_config(.., .., false).
ReleaseKeepingSetting(s) ==
    /\ conn' = [conn EXCEPT ![s] = None]
    /\ UNCHANGED setting

\* Faulty: the connection does not go back to the pool.
ReleaseLeaking(s) ==
    /\ setting' = [setting EXCEPT ![conn[s]] = None]
    /\ UNCHANGED conn

\* The transaction ends, its local setting with it, and the connection goes
\* back to the pool.
Release(s) ==
    /\ setting' = [setting EXCEPT ![conn[s]] = None]
    /\ conn'    = [conn EXCEPT ![s] = None]

Answer(s, code, rows) ==
    /\ answer' = [answer EXCEPT ![s] = [code |-> code, rows |-> rows]]
    /\ stage'  = [stage EXCEPT ![s] = "answered"]

\* An error drops the transaction, which rolls it back.
RollBack(s, code) ==
    Release(s) /\ Answer(s, code, {}) /\ UNCHANGED <<db, policy, request, fresh, found, wrote>>

\* A request arrives and is refused at once, or asks for a transaction.
Receive(s) ==
    /\ stage[s] = "idle"
    /\ \E r \in Sends[s] :
         /\ request' = [request EXCEPT ![s] = r]
         /\ \/ /\ Refusal(policy, r) # "accepted"
               /\ Answer(s, Refusal(policy, r), {})
               /\ UNCHANGED fresh
            \/ /\ Refusal(policy, r) = "accepted"
               /\ stage' = [stage EXCEPT ![s] = "begin"]
               /\ UNCHANGED answer
               /\ IF r.op = "issue.create"
                  THEN \E i \in Issues :
                         /\ \A row \in db : row.id # i /\ row.ref # i
                         /\ \A t \in Sessions : fresh[t] # i
                         /\ fresh' = [fresh EXCEPT ![s] = i]
                  ELSE UNCHANGED fresh
    /\ UNCHANGED <<db, policy, setting, conn, found, wrote>>

\* pool().begin() borrows a connection nobody holds.
Begin(s) ==
    /\ stage[s] = "begin"
    /\ \E c \in Connections :
         /\ \A t \in Sessions : conn[t] # c
         /\ conn' = [conn EXCEPT ![s] = c]
    /\ stage' = [stage EXCEPT ![s] = "context"]
    /\ UNCHANGED <<db, policy, setting, request, fresh, found, wrote, answer>>

\* The pool gave none before its timeout, or the server could not be reached.
BeginFails(s) ==
    /\ stage[s] = "begin"
    /\ Answer(s, FailureCode(request[s]), {})
    /\ UNCHANGED <<db, policy, setting, conn, request, fresh, found, wrote>>

\* Faulty: the context is the workspace of the input, not of the token.
SetContextFromInput(s) ==
    /\ stage[s] = "context"
    /\ setting' = [setting EXCEPT ![conn[s]] = request[s].id]
    /\ stage'   = [stage EXCEPT ![s] = FirstStage(request[s])]
    /\ UNCHANGED <<db, policy, conn, request, fresh, found, wrote, answer>>

\* Faulty: set_config runs before BEGIN, so its effect ends with its statement.
SetContextOutside(s) ==
    /\ stage[s] = "context"
    /\ stage' = [stage EXCEPT ![s] = FirstStage(request[s])]
    /\ UNCHANGED <<db, policy, setting, conn, request, fresh, found, wrote, answer>>

\* set_workspace_context_tx and set_workspace_context_db
SetContext(s) ==
    /\ stage[s] = "context"
    /\ setting' = [setting EXCEPT ![conn[s]] = request[s].tenant]
    /\ stage'   = [stage EXCEPT ![s] = FirstStage(request[s])]
    /\ UNCHANGED <<db, policy, conn, request, fresh, found, wrote, answer>>

\* The SELECT of a get names the id only: the policies do the rest.
Fetch(s) ==
    /\ stage[s] = "reading"
    /\ found' = [found EXCEPT ![s] = {row \in Visible(s) :
                    row.table = TableOf(request[s]) /\ row.id = request[s].id}]
    /\ stage' = [stage EXCEPT ![s] = "committing"]
    /\ UNCHANGED <<db, policy, setting, conn, request, fresh, wrote, answer>>

\* reserve_idempotency: the loser commits and answers from the stored record.
Reserve(s) ==
    LET row    == RecordRow(request[s], fresh[s])
        stored == {other \in Visible(s) : SameKey(row, other)}
    IN  /\ stage[s] = "reserving"
        /\ MayWrite(s, row) /\ InWorkspace(row) /\ ~Awaits(s, row)
        /\ \/ /\ stored = {}
              /\ wrote' = [wrote EXCEPT ![s] = {row}]
              /\ stage' = [stage EXCEPT ![s] = "checking"]
              /\ UNCHANGED found
           \/ /\ stored # {}
              /\ found' = [found EXCEPT ![s] = stored]
              /\ stage' = [stage EXCEPT ![s] = "committing"]
              /\ UNCHANGED wrote
        /\ UNCHANGED <<db, policy, setting, conn, request, fresh, answer>>

\* What the checks of create_issue and create_project refuse with.
Missing(s) ==
    LET r == request[s]
        Seen(table, id, ws) ==
            {row \in Visible(s) : row.table = table /\ row.id = id /\ row.ws = ws}
        milestone == Seen("milestone", r.milestone, r.tenant)
    IN  CASE r.op = "project.create" ->
               IF Seen("workflow", r.parent, r.ws) = {}
               THEN "workflow_version_not_found" ELSE "nothing"
          [] r.op = "issue.create" ->
               IF Seen("project", r.parent, r.tenant) = {} THEN "project_not_found"
               ELSE IF r.milestone = None THEN "nothing"
               ELSE IF milestone = {} THEN "milestone_not_found"
               ELSE IF \E row \in milestone : row.ref # r.parent
               THEN "milestone_project_mismatch" ELSE "nothing"
          [] OTHER -> "nothing"

\* ensure_project_exists, ensure_milestone_belongs_to_project, and the query
\* for the workflow version in create_project.
CheckParents(s) ==
    /\ stage[s] = "checking"
    /\ \/ /\ Missing(s) = "nothing"
          /\ stage' = [stage EXCEPT ![s] = "inserting"]
          /\ UNCHANGED <<db, policy, setting, conn, request, fresh, found, wrote, answer>>
       \/ Missing(s) # "nothing" /\ RollBack(s, Missing(s))

\* The row the request is for; activity and outbox go with the issue.
NewRow(s) ==
    CASE request[s].op = "project.create"   -> ProjectRow(request[s])
      [] request[s].op = "workspace.create" -> WorkspaceRow(request[s])
      [] OTHER                              -> IssueRow(request[s], fresh[s])

Insert(s) ==
    /\ stage[s] = "inserting"
    /\ MayWrite(s, NewRow(s)) /\ InWorkspace(NewRow(s)) /\ ~Awaits(s, NewRow(s))
    /\ \A row \in db : ~SameKey(row, NewRow(s))
    /\ wrote' = [wrote EXCEPT ![s] = @ \union {NewRow(s)}]
    /\ stage' = [stage EXCEPT ![s] = "committing"]
    /\ UNCHANGED <<db, policy, setting, conn, request, fresh, found, answer>>

\* The row is of another workspace or of none, or its key is taken: the
\* statement fails.
WriteRefused(s) ==
    /\ \/ /\ stage[s] = "reserving"
          /\ LET row == RecordRow(request[s], fresh[s])
             IN  ~MayWrite(s, row) \/ ~InWorkspace(row)
       \/ /\ stage[s] = "inserting"
          /\ \/ ~MayWrite(s, NewRow(s)) \/ ~InWorkspace(NewRow(s))
             \/ \E row \in db : SameKey(row, NewRow(s))
    /\ RollBack(s, FailureCode(request[s]))

\* The issues of the records found: the payload of a record is its issue.
Recorded(s) ==
    {row \in db : row.table = "issue" /\ \E rec \in found[s] : rec.ref = row.id}

\* What the caller is told once the commit is acknowledged; not_found is
\* issue_not_found, or the None of a store call.
OutcomeCode(s) ==
    LET r == request[s]
    IN  CASE r.op = "issue.create" ->
               IF found[s] = {} THEN "created"
               ELSE IF \E rec \in found[s] : rec.print = r.print THEN "replay"
               ELSE "duplicate_issue_command"
          [] r.op \in {"project.create", "workspace.create"} -> "created"
          [] OTHER -> IF found[s] = {} THEN "not_found" ELSE "ok"

OutcomeRows(s) ==
    CASE OutcomeCode(s) = "created" -> {NewRow(s)}
      [] OutcomeCode(s) = "replay"  -> Recorded(s)
      [] OTHER                      -> IF request[s].op = "issue.create" THEN {} ELSE found[s]

Commit(s) ==
    /\ stage[s] = "committing"
    /\ db' = db \union wrote[s]
    /\ Release(s)
    /\ Answer(s, OutcomeCode(s), OutcomeRows(s))
    /\ UNCHANGED <<policy, request, fresh, found, wrote>>

\* The commit is done but its acknowledgement is lost: the caller gets a 500.
CommitUnanswered(s) ==
    /\ stage[s] = "committing"
    /\ db' = db \union wrote[s]
    /\ Release(s)
    /\ Answer(s, FailureCode(request[s]), {})
    /\ UNCHANGED <<policy, request, fresh, found, wrote>>

\* Faulty: the result of commit() is not looked at.
AbortUnnoticed(s) ==
    /\ InTransaction(s)
    /\ IF stage[s] = "committing"
       THEN /\ Release(s) /\ Answer(s, OutcomeCode(s), OutcomeRows(s))
            /\ UNCHANGED <<db, policy, request, fresh, found, wrote>>
       ELSE RollBack(s, FailureCode(request[s]))

\* A statement fails, the connection breaks or the request is dropped.
Abort(s) == InTransaction(s) /\ RollBack(s, FailureCode(request[s]))

\* The worker of any process deletes expired records of one workspace, once no
\* open transaction has them locked.  No clock: every record may have expired.
CleanupIdempotency ==
    /\ \E ws \in Workspaces :
         \E expired \in SUBSET {row \in db : row.table = "record" /\ row.ws = ws} :
            /\ expired # {}
            /\ \A t \in Sessions : expired \intersect Locked(t) = {}
            /\ db' = db \ expired
    /\ UNCHANGED <<policy, setting, conn, stage, request, fresh, found, wrote, answer>>

\* The caller goes on; what was asked and told is forgotten.
Forget(s) ==
    /\ stage[s] = "answered"
    /\ stage'   = [stage EXCEPT ![s] = "idle"]
    /\ request' = [request EXCEPT ![s] = None]
    /\ fresh'   = [fresh EXCEPT ![s] = None]
    /\ found'   = [found EXCEPT ![s] = {}]
    /\ wrote'   = [wrote EXCEPT ![s] = {}]
    /\ answer'  = [answer EXCEPT ![s] = NoAnswer]
    /\ UNCHANGED <<db, policy, setting, conn>>

\* What the process goes on to do with a request it has received.
Serve(s) ==
    \/ Begin(s) \/ SetContext(s) \/ Fetch(s) \/ Reserve(s) \/ CheckParents(s)
    \/ Insert(s) \/ WriteRefused(s) \/ Commit(s)

Fail(s) == BeginFails(s) \/ CommitUnanswered(s) \/ Abort(s)

Next == \/ \E s \in Sessions : Receive(s) \/ Serve(s) \/ Fail(s) \/ Forget(s)
        \/ CleanupIdempotency

\* Strong: the waits for a connection and for a row are queues.  No request need
\* fail, also not for want of a connection.
Fairness == \A s \in Sessions : SF_vars(Serve(s))

Spec == Init /\ [][Next]_vars /\ Fairness

-----------------------------------------------------------------------------
TypeOK ==
    /\ db \subseteq Rows
    /\ policy \in Policies
    /\ setting \in [Connections -> Workspaces \union {None}]
    /\ conn \in [Sessions -> Connections \union {None}]
    /\ stage \in [Sessions -> Stages]
    /\ request \in [Sessions -> Request \union {None}]
    /\ fresh \in [Sessions -> Issues \union {None}]
    /\ found \in [Sessions -> SUBSET Rows]
    /\ wrote \in [Sessions -> SUBSET Rows]
    /\ DOMAIN answer = Sessions /\ \A s \in Sessions : answer[s].rows \subseteq Rows

(***************************************************************************)
(* What a caller is handed, and what is written for it, belongs to the     *)
(* workspace of its token, although the queries of the gets name no        *)
(* workspace and the ids in a request may be another tenant's.             *)
(***************************************************************************)
TenantIsolation ==
    \A s \in Sessions : stage[s] # "idle" =>
        \A row \in answer[s].rows \union found[s] \union wrote[s] : row.ws = request[s].tenant

(***************************************************************************)
(* Nor does the security hide too much: a get finds its row whenever one   *)
(* is committed for the tenant.  It would find none on a connection that   *)
(* has lost its setting.                                                   *)
(***************************************************************************)
TenantsSeeTheirRows ==
    [][\A s \in Sessions : Fetch(s) =>
          found'[s] = {row \in db : /\ row.table = TableOf(request[s])
                                    /\ row.id = request[s].id
                                    /\ row.ws = request[s].tenant}]_vars

(***************************************************************************)
(* A connection in the pool, or one just borrowed, carries no tenant; one  *)
(* in use carries the tenant of the one transaction that uses it.          *)
(***************************************************************************)
PoolIsClean ==
    /\ \A s \in Sessions : conn[s] # None <=> InTransaction(s)
    /\ \A s, t \in Sessions : conn[s] # None /\ conn[s] = conn[t] => s = t
    /\ \A c \in Connections : setting[c] # None =>
          \E s \in Sessions : /\ conn[s] = c /\ stage[s] \in Open
                              /\ setting[c] = request[s].tenant
    /\ \A s \in Sessions : stage[s] \in Open => setting[conn[s]] = request[s].tenant

(***************************************************************************)
(* A caller told of success is handed rows that are committed, and so is   *)
(* what it asked to write, but for a record that has expired since.        *)
(* Nothing a refused caller asked to write is committed: only a 500 leaves *)
(* open whether the request took effect.                                   *)
(***************************************************************************)
AnswersTellTheTruth ==
    \A s \in Sessions : stage[s] = "answered" =>
        /\ Class(answer[s].code) = "served"  => 
              answer[s].rows \union {row \in wrote[s] : row.table # "record"} \subseteq db
        /\ Class(answer[s].code) = "refused" => wrote[s] \intersect db = {}

\* The same request through the other transport.
OverMcp(r)  == [r EXCEPT !.via = "mcp"]
OnBothTransports(r) == r.via = "rest" /\ r.token # "absent"

(***************************************************************************)
(* Whatever combination of defects a request has, the two transports and   *)
(* the layers under them name the same one to the caller, but for what     *)
(* REST alone is particular about: its extractors refuse a request before  *)
(* its token is looked at, and its deserializer a field that comes twice.  *)
(* REST thus accepts nothing that MCP refuses.                             *)
(***************************************************************************)
TransportsAgree ==
    \A s \in Sessions : stage[s] # "idle" /\ OnBothTransports(request[s]) =>
        LET r        == request[s]
            overRest == Refusal(policy, r)
            overMcp  == Refusal(policy, OverMcp(r))
        IN  \/ overRest = overMcp
            \/ overRest = "rejected_by_extractor" /\ ~r.extracted
            \/ /\ overRest = "invalid_payload" /\ r.body = "repeated"
               /\ r.token = "accepted"

(***************************************************************************)
(* Every request is answered, also one that waits for a connection or for  *)
(* the transaction of another that uses its idempotency key: no end of a   *)
(* request keeps its connection or its locks.  That the pool's timeout may *)
(* answer it does not count: that step is under no fairness.               *)
(***************************************************************************)
EveryRequestIsAnswered ==
    \A s \in Sessions : stage[s] = "begin" ~> stage[s] = "answered"
=============================================================================
