------------------------ MODULE RequestPath_proofs ------------------------
(***************************************************************************)
(* The isolation of tenants, the cleanliness of the pool and the truth of  *)
(* the answers of RequestPath, for all sets of workspaces, sessions,       *)
(* connections, requests and policies.                                     *)
(***************************************************************************)
EXTENDS RequestPath, SequenceTheorems, WellFoundedInduction, TLAPS

Creates == {"issue.create", "project.create", "workspace.create"}
Early   == {"idle", "begin", "context", "reading", "reserving"}

\* What a session has at each stage of its request.
Progress(s) ==
    /\ stage[s] # "idle" => request[s] \in Request
    /\ stage[s] = "idle" => fresh[s] = None
    /\ stage[s] \in Early => found[s] = {} /\ wrote[s] = {}
    /\ stage[s] \in {"checking", "inserting"} => found[s] = {}
    /\ stage[s] # "answered" => answer[s].rows = {}
    /\ stage[s] = "reading" => request[s].op \notin Creates
    /\ stage[s] = "reserving" => request[s].op = "issue.create"
    /\ stage[s] = "checking" => request[s].op \in {"issue.create", "project.create"}
    /\ stage[s] = "inserting" => request[s].op \in Creates
    /\ stage[s] \notin {"idle", "answered"} /\ request[s].op = "issue.create" =>
          fresh[s] \in Issues

\* What its rows are.
RowsOf(s) ==
    /\ \A row \in wrote[s] :
          /\ row.table = "issue" => fresh[s] # None /\ row.id = fresh[s]
          /\ row.table = "record" => fresh[s] # None /\ row.ref = fresh[s]
    /\ stage[s] = "checking" => \A row \in wrote[s] : row.table = "record"
    /\ stage[s] = "committing" =>
          /\ found[s] # {} => wrote[s] = {} /\ found[s] \subseteq db
          /\ found[s] = {} /\ request[s].op \in Creates => NewRow(s) \in wrote[s]
          /\ request[s].op \notin Creates => wrote[s] = {}
          /\ \A row \in found[s] : row.table = "record" <=> request[s].op \in Creates
          /\ request[s].op \in {"project.create", "workspace.create"} => found[s] = {}

\* What is committed when it has been answered; a record may have expired since.
Told(s) ==
    stage[s] = "answered" =>
        /\ Class(answer[s].code) = "served" =>
              answer[s].rows \union {row \in wrote[s] : row.table # "record"} \subseteq db
        /\ \A row \in answer[s].rows : row.table # "record"
        /\ Class(answer[s].code) = "refused" => \A row \in wrote[s] : row.table = "record"

Unused(s) ==
    fresh[s] # None /\ (stage[s] = "answered" => Class(answer[s].code) = "refused") =>
        \A row \in db : /\ row.table = "issue" => row.id # fresh[s]
                        /\ row.table = "record" => row.ref # fresh[s]

Local(s) == Progress(s) /\ RowsOf(s) /\ Told(s) /\ Unused(s)

FreshIsUnique ==
    \A s, t \in Sessions : fresh[s] # None /\ fresh[s] = fresh[t] => s = t

RecordsMatch ==
    \A rec, row \in db : rec.table = "record" /\ row.table = "issue" /\ rec.ref = row.id
                            => rec.ws = row.ws

RequestInv ==
    /\ TypeOK /\ PoolIsClean /\ TenantIsolation
    /\ \A s \in Sessions : Local(s)
    /\ FreshIsUnique /\ RecordsMatch

-----------------------------------------------------------------------------
\* The case distinctions of the model, as implications.
LEMMA FirstStageCases ==
    ASSUME NEW r
    PROVE  /\ r.op = "issue.create" => FirstStage(r) = "reserving"
           /\ r.op = "project.create" => FirstStage(r) = "checking"
           /\ r.op = "workspace.create" => FirstStage(r) = "inserting"
           /\ r.op \notin Creates => FirstStage(r) = "reading"
    BY DEF FirstStage, Creates

LEMMA NewRowCases ==
    ASSUME NEW s
    PROVE  /\ request[s].op = "project.create" => NewRow(s) = ProjectRow(request[s])
           /\ request[s].op = "workspace.create" => NewRow(s) = WorkspaceRow(request[s])
           /\ request[s].op = "issue.create" => NewRow(s) = IssueRow(request[s], fresh[s])
    BY DEF NewRow

LEMMA OutcomeCases ==
    ASSUME NEW s
    PROVE  /\ request[s].op = "issue.create" /\ found[s] = {} => OutcomeCode(s) = "created"
           /\ request[s].op = "issue.create" /\ found[s] # {} =>
                 OutcomeCode(s) \in {"replay", "duplicate_issue_command"}
           /\ request[s].op \in {"project.create", "workspace.create"} =>
                 OutcomeCode(s) = "created"
           /\ request[s].op \notin Creates => OutcomeCode(s) \in {"ok", "not_found"}
           /\ OutcomeCode(s) = "created" => OutcomeRows(s) = {NewRow(s)}
           /\ OutcomeCode(s) = "replay" => OutcomeRows(s) = Recorded(s)
           /\ OutcomeCode(s) \in {"ok", "not_found"} =>
                 OutcomeRows(s) = {} \/ OutcomeRows(s) = found[s]
           /\ OutcomeCode(s) = "duplicate_issue_command" =>
                 OutcomeRows(s) = {} \/ OutcomeRows(s) = found[s]
           /\ request[s].op = "issue.create" /\ OutcomeCode(s) # "created"
                 /\ OutcomeCode(s) # "replay" => OutcomeRows(s) = {}
<1>1. /\ request[s].op = "issue.create" /\ found[s] = {} => OutcomeCode(s) = "created"
      /\ request[s].op = "issue.create" /\ found[s] # {} =>
            OutcomeCode(s) \in {"replay", "duplicate_issue_command"}
    BY DEF OutcomeCode
<1>2. request[s].op \in {"project.create", "workspace.create"} => OutcomeCode(s) = "created"
    BY DEF OutcomeCode
<1>3. request[s].op \notin Creates => OutcomeCode(s) \in {"ok", "not_found"}
    BY DEF OutcomeCode, Creates
<1>4. /\ OutcomeCode(s) = "created" => OutcomeRows(s) = {NewRow(s)}
      /\ OutcomeCode(s) = "replay" => OutcomeRows(s) = Recorded(s)
    BY DEF OutcomeRows
<1>5. OutcomeCode(s) \notin {"created", "replay"} =>
         OutcomeRows(s) = IF request[s].op = "issue.create" THEN {} ELSE found[s]
    BY DEF OutcomeRows
<1> QED BY <1>1, <1>2, <1>3, <1>4, <1>5

LEMMA ClassCases ==
    /\ \A code \in {"ok", "created", "replay"} : Class(code) = "served"
    /\ Class("not_found") = "refused" /\ Class("duplicate_issue_command") = "refused"
    /\ \A r : Class(FailureCode(r)) = "failed"
<1>1. \A r : FailureCode(r) \in {"store_write_failed", "store_read_failed"}
    BY DEF FailureCode
<1>2. \A code \in {"store_write_failed", "store_read_failed"} : Class(code) = "failed"
    BY DEF Class
<1>3. \A code \in {"ok", "created", "replay"} : Class(code) = "served"
    BY DEF Class
<1>4. Class("not_found") = "refused" /\ Class("duplicate_issue_command") = "refused"
    BY DEF Class
<1> QED BY <1>1, <1>2, <1>3, <1>4

\* The rows that are written are rows of the tables.
LEMMA NewRowsAreRows ==
    ASSUME NEW r \in Request, NEW i \in Issues
    PROVE  /\ IssueRow(r, i) \in Rows
           /\ RecordRow(r, i) \in Rows
<1>1. /\ r.key \in Names /\ r.tenant \in Workspaces /\ r.parent \in Names /\ r.print \in Nat
      /\ i \in Names
    BY IssuesAreNames DEF Request
<1> QED BY <1>1 DEF IssueRow, RecordRow, Rows, Tables

-----------------------------------------------------------------------------
\* A step of one session leaves what the others have.
Frame(s) ==
    /\ db \subseteq db'
    /\ \A t \in Sessions \ {s} :
          /\ stage'[t] = stage[t] /\ request'[t] = request[t] /\ fresh'[t] = fresh[t]
          /\ found'[t] = found[t] /\ wrote'[t] = wrote[t] /\ answer'[t] = answer[t]

LEMMA OthersKeep ==
    ASSUME NEW s \in Sessions, Frame(s), NEW t \in Sessions \ {s}, Local(t)
    PROVE  Progress(t)' /\ RowsOf(t)' /\ Told(t)'
<1>1. Progress(t)'
    BY DEF Frame, Local, Progress
<1>2. NewRow(t)' = NewRow(t)
    BY DEF Frame, NewRow, ProjectRow, WorkspaceRow, IssueRow
<1>3. RowsOf(t)'
    BY <1>2 DEF Frame, Local, RowsOf
<1>4. Told(t)'
    BY DEF Frame, Local, Told
<1> QED BY <1>1, <1>3, <1>4

LEMMA IsolationKept ==
    ASSUME TenantIsolation, NEW s \in Sessions, Frame(s),
           stage'[s] # "idle" =>
             \A row \in answer'[s].rows \union found'[s] \union wrote'[s] :
                row.ws = request'[s].tenant
    PROVE  TenantIsolation'
    BY DEF Frame, TenantIsolation

\* With the committed rows and the fresh id as they were.
LEMMA QuietStep ==
    ASSUME RequestInv, NEW s \in Sessions, Frame(s), db' = db, fresh'[s] = fresh[s],
           TypeOK', PoolIsClean', Progress(s)', RowsOf(s)', Told(s)',
           stage'[s] # "idle" =>
             \A row \in answer'[s].rows \union found'[s] \union wrote'[s] :
                row.ws = request'[s].tenant,
           stage[s] # "answered"
    PROVE  RequestInv'
<1>1. TenantIsolation'
    BY IsolationKept DEF RequestInv
<1>2. Unused(s)'
    BY DEF RequestInv, Local, Unused
<1>3. ASSUME NEW t \in Sessions, t # s PROVE Local(t)'
    <2>1. Progress(t)' /\ RowsOf(t)' /\ Told(t)'
        BY <1>3, OthersKeep DEF RequestInv
    <2>2. Unused(t)'
        BY <1>3 DEF RequestInv, Local, Unused, Frame
    <2> QED BY <2>1, <2>2 DEF Local
<1>4. FreshIsUnique'
    BY DEF RequestInv, FreshIsUnique, Frame
<1>5. RecordsMatch'
    BY DEF RequestInv, RecordsMatch
<1> QED BY <1>1, <1>2, <1>3, <1>4, <1>5 DEF RequestInv, Local

-----------------------------------------------------------------------------
\* A step inside a transaction, or outside of one, keeps the pool as it is.
LEMMA PoolKept ==
    ASSUME PoolIsClean, NEW s \in Sessions, Frame(s), UNCHANGED <<setting, conn>>,
           \/ stage[s] \in Open /\ stage'[s] \in Open /\ request'[s] = request[s]
           \/ ~InTransaction(s) /\ ~InTransaction(s)'
    PROVE  PoolIsClean'
<1> USE DEF InTransaction, Open
<1>1. (\A t \in Sessions : conn[t] # None <=> InTransaction(t))'
    BY DEF PoolIsClean, Frame
<1>2. (\A t, u \in Sessions : conn[t] # None /\ conn[t] = conn[u] => t = u)'
    BY DEF PoolIsClean
<1>3. (\A c \in Connections : setting[c] # None =>
          \E t \in Sessions : /\ conn[t] = c /\ stage[t] \in Open
                              /\ setting[c] = request[t].tenant)'
    <2> SUFFICES ASSUME NEW c \in Connections, setting[c] # None
                 PROVE  \E t \in Sessions : /\ conn[t] = c /\ stage'[t] \in Open
                                            /\ setting[c] = request'[t].tenant
        OBVIOUS
    <2>1. PICK t \in Sessions : /\ conn[t] = c /\ stage[t] \in Open
                                /\ setting[c] = request[t].tenant
        BY DEF PoolIsClean
    <2>2. CASE t = s
        BY <2>1, <2>2
    <2>3. CASE t # s
        BY <2>1, <2>3 DEF Frame
    <2> QED BY <2>2, <2>3
<1>4. (\A t \in Sessions : stage[t] \in Open => setting[conn[t]] = request[t].tenant)'
    BY DEF PoolIsClean, Frame
<1> QED BY <1>1, <1>2, <1>3, <1>4 DEF PoolIsClean

\* The end of a transaction leaves a clean connection in the pool.
LEMMA PoolReleased ==
    ASSUME TypeOK, PoolIsClean, NEW s \in Sessions, Frame(s), Release(s),
           InTransaction(s), ~InTransaction(s)'
    PROVE  PoolIsClean'
<1> USE DEF InTransaction, Open
<1>1. /\ conn' = [conn EXCEPT ![s] = None]
      /\ setting' = [setting EXCEPT ![conn[s]] = None]
      /\ conn[s] # None /\ conn[s] \in Connections
    BY DEF Release, PoolIsClean, TypeOK
<1>2. /\ conn'[s] = None /\ setting'[conn[s]] = None
      /\ \A t \in Sessions \ {s} : conn'[t] = conn[t]
      /\ \A c \in Connections \ {conn[s]} : setting'[c] = setting[c]
    BY <1>1 DEF TypeOK
<1>3. \A t \in Sessions \ {s} : conn[t] # conn[s]
    BY <1>1 DEF PoolIsClean
<1>4. (\A t \in Sessions : conn[t] # None <=> InTransaction(t))'
    BY <1>2 DEF PoolIsClean, Frame
<1>5. (\A t, u \in Sessions : conn[t] # None /\ conn[t] = conn[u] => t = u)'
    BY <1>2 DEF PoolIsClean
<1>6. (\A c \in Connections : setting[c] # None =>
          \E t \in Sessions : /\ conn[t] = c /\ stage[t] \in Open
                              /\ setting[c] = request[t].tenant)'
    <2> SUFFICES ASSUME NEW c \in Connections, setting'[c] # None
                 PROVE  \E t \in Sessions : /\ conn'[t] = c /\ stage'[t] \in Open
                                            /\ setting'[c] = request'[t].tenant
        OBVIOUS
    <2>1. c # conn[s] /\ setting'[c] = setting[c]
        BY <1>2
    <2>2. PICK t \in Sessions : /\ conn[t] = c /\ stage[t] \in Open
                                /\ setting[c] = request[t].tenant
        BY <2>1 DEF PoolIsClean
    <2>3. t \in Sessions \ {s}
        BY <2>1, <2>2
    <2> QED BY <1>2, <2>1, <2>2, <2>3 DEF Frame
<1>7. (\A t \in Sessions : stage[t] \in Open => setting[conn[t]] = request[t].tenant)'
    <2> SUFFICES ASSUME NEW t \in Sessions, stage'[t] \in Open
                 PROVE  setting'[conn'[t]] = request'[t].tenant
        OBVIOUS
    <2>1. t \in Sessions \ {s}
        OBVIOUS
    <2>2. stage[t] \in Open /\ conn[t] # None /\ conn[t] \in Connections \ {conn[s]}
        BY <1>3, <2>1 DEF Frame, PoolIsClean, TypeOK
    <2> QED BY <1>2, <2>1, <2>2 DEF Frame, PoolIsClean
<1> QED BY <1>4, <1>5, <1>6, <1>7 DEF PoolIsClean

-----------------------------------------------------------------------------
\* One lemma per action.
LEMMA ReceiveKeeps ==
    ASSUME RequestInv, NEW s \in Sessions, Receive(s)
    PROVE  RequestInv'
<1>1. PICK r \in Sends[s] :
         /\ request' = [request EXCEPT ![s] = r]
         /\ \/ Answer(s, Refusal(policy, r), {}) /\ UNCHANGED fresh
            \/ /\ stage' = [stage EXCEPT ![s] = "begin"] /\ UNCHANGED answer
               /\ \/ /\ r.op = "issue.create"
                     /\ \E i \in Issues : /\ \A row \in db : row.id # i /\ row.ref # i
                                          /\ \A t \in Sessions : fresh[t] # i
                                          /\ fresh' = [fresh EXCEPT ![s] = i]
                  \/ r.op # "issue.create" /\ UNCHANGED fresh
    BY DEF Receive
<1>2. /\ stage[s] = "idle" /\ UNCHANGED <<db, policy, setting, conn, found, wrote>>
      /\ found[s] = {} /\ wrote[s] = {} /\ answer[s].rows = {} /\ fresh[s] = None
      /\ TypeOK
    BY DEF Receive, RequestInv, Local, Progress, Early
<1>3. r \in Request /\ request'[s] = r
    BY <1>1, <1>2, SendsAreRequests DEF TypeOK
<1>4. /\ Frame(s) /\ stage'[s] \in {"begin", "answered"} /\ answer'[s].rows = {}
      /\ fresh' \in [Sessions -> Issues \union {None}]
      /\ stage' \in [Sessions -> Stages]
      /\ DOMAIN answer' = Sessions
      /\ \A t \in Sessions \ {s} : answer'[t] = answer[t]
      /\ stage'[s] = "begin" /\ r.op = "issue.create" => fresh'[s] \in Issues
      /\ fresh'[s] # None => /\ \A row \in db : row.id # fresh'[s] /\ row.ref # fresh'[s]
                             /\ \A t \in Sessions : fresh[t] # fresh'[s]
    <2>1. CASE Answer(s, Refusal(policy, r), {}) /\ UNCHANGED fresh
        BY <1>1, <1>2, <2>1 DEF Answer, TypeOK, Frame, Stages
    <2>2. CASE /\ stage' = [stage EXCEPT ![s] = "begin"] /\ UNCHANGED answer
               /\ r.op # "issue.create" /\ UNCHANGED fresh
        BY <1>1, <1>2, <2>2 DEF TypeOK, Frame, Stages
    <2>3. CASE /\ stage' = [stage EXCEPT ![s] = "begin"] /\ UNCHANGED answer
               /\ r.op = "issue.create"
               /\ \E i \in Issues : /\ \A row \in db : row.id # i /\ row.ref # i
                                    /\ \A t \in Sessions : fresh[t] # i
                                    /\ fresh' = [fresh EXCEPT ![s] = i]
        BY <1>1, <1>2, <2>3 DEF TypeOK, Frame, Stages
    <2> QED BY <1>1, <2>1, <2>2, <2>3
<1>5. TypeOK'
    BY <1>1, <1>2, <1>3, <1>4 DEF TypeOK
<1>6. PoolIsClean'
    BY <1>2, <1>4, PoolKept DEF RequestInv, InTransaction, Open
<1>7. TenantIsolation'
    BY <1>2, <1>4, IsolationKept DEF RequestInv
<1>8. Progress(s)' /\ RowsOf(s)' /\ Told(s)' /\ Unused(s)'
    BY <1>2, <1>3, <1>4 DEF Progress, RowsOf, Told, Unused, Early
<1>9. ASSUME NEW t \in Sessions, t # s PROVE Local(t)'
    <2>1. Progress(t)' /\ RowsOf(t)' /\ Told(t)'
        BY <1>4, <1>9, OthersKeep DEF RequestInv
    <2>2. Unused(t)'
        BY <1>2, <1>4, <1>9 DEF RequestInv, Local, Unused, Frame
    <2> QED BY <2>1, <2>2 DEF Local
<1>10. FreshIsUnique' /\ RecordsMatch'
    BY <1>2, <1>4 DEF RequestInv, FreshIsUnique, RecordsMatch, Frame
<1> QED BY <1>5, <1>6, <1>7, <1>8, <1>9, <1>10 DEF RequestInv, Local

LEMMA BeginKeeps ==
    ASSUME RequestInv, NEW s \in Sessions, Begin(s)
    PROVE  RequestInv'
<1>1. PICK c \in Connections : /\ \A t \in Sessions : conn[t] # c
                               /\ conn' = [conn EXCEPT ![s] = c]
    BY DEF Begin
<1>2. /\ stage[s] = "begin" /\ stage' = [stage EXCEPT ![s] = "context"]
      /\ UNCHANGED <<db, policy, setting, request, fresh, found, wrote, answer>>
      /\ TypeOK /\ PoolIsClean /\ c # None
    BY NoneIsNoName DEF Begin, RequestInv
<1>3. stage'[s] = "context" /\ conn'[s] = c /\ Frame(s)
    BY <1>1, <1>2 DEF TypeOK, Frame
<1>4. \A t \in Sessions \ {s} : conn'[t] = conn[t] /\ stage'[t] = stage[t]
    BY <1>1, <1>2 DEF TypeOK
<1>5. TypeOK'
    BY <1>1, <1>2 DEF TypeOK, Stages
<1>6. PoolIsClean'
    <2>1. (\A t \in Sessions : conn[t] # None <=> InTransaction(t))'
        BY <1>2, <1>3, <1>4 DEF PoolIsClean, InTransaction
    <2>2. (\A t, u \in Sessions : conn[t] # None /\ conn[t] = conn[u] => t = u)'
        BY <1>1, <1>2, <1>3, <1>4 DEF PoolIsClean
    <2>3. (\A d \in Connections : setting[d] # None =>
              \E t \in Sessions : /\ conn[t] = d /\ stage[t] \in Open
                                  /\ setting[d] = request[t].tenant)'
        BY <1>2, <1>3, <1>4 DEF PoolIsClean, Open
    <2>4. (\A t \in Sessions : stage[t] \in Open => setting[conn[t]] = request[t].tenant)'
        BY <1>2, <1>3, <1>4 DEF PoolIsClean, Open
    <2> QED BY <2>1, <2>2, <2>3, <2>4 DEF PoolIsClean
<1>7. Progress(s)' /\ RowsOf(s)' /\ Told(s)'
    BY <1>2, <1>3 DEF RequestInv, Local, Progress, RowsOf, Told, Early
<1>8. \A row \in answer'[s].rows \union found'[s] \union wrote'[s] : row.ws = request'[s].tenant
    BY <1>2 DEF RequestInv, TenantIsolation
<1> QED BY <1>2, <1>3, <1>5, <1>6, <1>7, <1>8, QuietStep

LEMMA BeginFailsKeeps ==
    ASSUME RequestInv, NEW s \in Sessions, BeginFails(s)
    PROVE  RequestInv'
<1>1. /\ stage[s] = "begin" /\ stage' = [stage EXCEPT ![s] = "answered"]
      /\ answer' = [answer EXCEPT ![s] = [code |-> FailureCode(request[s]), rows |-> {}]]
      /\ UNCHANGED <<db, policy, setting, conn, request, fresh, found, wrote>>
      /\ TypeOK /\ PoolIsClean
      /\ found[s] = {} /\ wrote[s] = {}
    BY DEF BeginFails, Answer, RequestInv, Local, Progress, Early
<1>2. stage'[s] = "answered" /\ answer'[s].rows = {} /\ Frame(s)
    BY <1>1 DEF TypeOK, Frame
<1>3. TypeOK'
    BY <1>1 DEF TypeOK, Stages
<1>4. PoolIsClean'
    BY <1>1, <1>2, PoolKept DEF InTransaction, Open
<1>5. Progress(s)' /\ RowsOf(s)' /\ Told(s)'
    BY <1>1, <1>2 DEF RequestInv, Local, Progress, RowsOf, Told, Early
<1> QED BY <1>1, <1>2, <1>3, <1>4, <1>5, QuietStep

LEMMA SetContextKeeps ==
    ASSUME RequestInv, NEW s \in Sessions, SetContext(s)
    PROVE  RequestInv'
<1> DEFINE r == request[s]
<1>1. /\ stage[s] = "context" /\ stage' = [stage EXCEPT ![s] = FirstStage(r)]
      /\ setting' = [setting EXCEPT ![conn[s]] = r.tenant]
      /\ UNCHANGED <<db, policy, conn, request, fresh, found, wrote, answer>>
      /\ TypeOK /\ PoolIsClean
      /\ r \in Request /\ found[s] = {} /\ wrote[s] = {}
    BY DEF SetContext, RequestInv, Local, Progress, Early
<1>2. /\ r.op = "issue.create" => FirstStage(r) = "reserving"
      /\ r.op = "project.create" => FirstStage(r) = "checking"
      /\ r.op = "workspace.create" => FirstStage(r) = "inserting"
      /\ r.op \notin Creates => FirstStage(r) = "reading"
      /\ FirstStage(r) \in {"reserving", "checking", "inserting", "reading"}
    BY FirstStageCases DEF Creates
<1>3. /\ stage'[s] = FirstStage(r) /\ stage'[s] \in Open /\ Frame(s)
      /\ conn[s] # None /\ conn[s] \in Connections /\ r.tenant \in Workspaces
    BY <1>1, <1>2 DEF TypeOK, Frame, Open, PoolIsClean, InTransaction, Request
<1>4. TypeOK'
    BY <1>1, <1>3 DEF TypeOK, Stages
<1>5. PoolIsClean'
    <2>1. (\A t \in Sessions : conn[t] # None <=> InTransaction(t))'
        BY <1>1, <1>3 DEF PoolIsClean, InTransaction, Frame
    <2>2. (\A t, u \in Sessions : conn[t] # None /\ conn[t] = conn[u] => t = u)'
        BY <1>1 DEF PoolIsClean
    <2>3. \A t \in Sessions \ {s} : conn[t] # conn[s]
        BY <1>3, <1>1 DEF PoolIsClean
    <2>4. /\ setting'[conn[s]] = r.tenant
          /\ \A c \in Connections \ {conn[s]} : setting'[c] = setting[c]
        BY <1>1, <1>3 DEF TypeOK
    <2>5. (\A c \in Connections : setting[c] # None =>
              \E t \in Sessions : /\ conn[t] = c /\ stage[t] \in Open
                                  /\ setting[c] = request[t].tenant)'
        <3> SUFFICES ASSUME NEW c \in Connections, setting'[c] # None
                     PROVE  \E t \in Sessions : /\ conn'[t] = c /\ stage'[t] \in Open
                                                /\ setting'[c] = request'[t].tenant
            OBVIOUS
        <3>1. CASE c = conn[s]
            BY <1>1, <1>3, <2>4, <3>1
        <3>2. CASE c # conn[s]
            <4>1. PICK t \in Sessions : /\ conn[t] = c /\ stage[t] \in Open
                                        /\ setting[c] = request[t].tenant
                BY <1>1, <2>4, <3>2 DEF PoolIsClean
            <4> QED BY <1>1, <1>3, <2>4, <3>2, <4>1 DEF Frame
        <3> QED BY <3>1, <3>2
    <2>6. (\A t \in Sessions : stage[t] \in Open => setting[conn[t]] = request[t].tenant)'
        <3> SUFFICES ASSUME NEW t \in Sessions, stage'[t] \in Open
                     PROVE  setting'[conn'[t]] = request'[t].tenant
            OBVIOUS
        <3>1. CASE t = s
            BY <1>1, <2>4, <3>1
        <3>2. CASE t # s
            <4>1. stage[t] \in Open /\ conn[t] \in Connections
                BY <1>1, <1>3, <3>2 DEF Frame, PoolIsClean, InTransaction, TypeOK
            <4> QED BY <1>1, <2>3, <2>4, <3>2, <4>1 DEF PoolIsClean
        <3> QED BY <3>1, <3>2
    <2> QED BY <2>1, <2>2, <2>5, <2>6 DEF PoolIsClean
<1>6. Progress(s)' /\ RowsOf(s)' /\ Told(s)'
    <2>1. Progress(s)'
        BY <1>1, <1>2, <1>3 DEF RequestInv, Local, Progress, Early, Creates
    <2>2. RowsOf(s)' /\ Told(s)'
        BY <1>1, <1>2, <1>3 DEF RowsOf, Told
    <2> QED BY <2>1, <2>2
<1>7. \A row \in answer'[s].rows \union found'[s] \union wrote'[s] : row.ws = request'[s].tenant
    BY <1>1 DEF RequestInv, TenantIsolation
<1> QED BY <1>1, <1>3, <1>4, <1>5, <1>6, <1>7, QuietStep

\* In an open transaction the connection shows the tenant's rows.
LEMMA OpenIsTenant ==
    ASSUME RequestInv, NEW s \in Sessions, stage[s] \in Open
    PROVE  /\ setting[conn[s]] = request[s].tenant
           /\ request[s] \in Request /\ request[s].tenant \in Workspaces
           /\ Visible(s) \subseteq Rows
           /\ \A row \in Visible(s) : row.ws = request[s].tenant
           /\ \A row : MayWrite(s, row) <=> row.ws = request[s].tenant
<1>1. setting[conn[s]] = request[s].tenant
    BY DEF RequestInv, PoolIsClean
<1>2. request[s] \in Request /\ request[s].tenant \in Workspaces
    BY DEF RequestInv, Local, Progress, Open, Request
<1>3. Visible(s) \subseteq Rows
    BY DEF RequestInv, TypeOK, Visible
<1> QED BY <1>1, <1>2, <1>3 DEF Visible, MayWrite

LEMMA FetchKeeps ==
    ASSUME RequestInv, NEW s \in Sessions, Fetch(s)
    PROVE  RequestInv'
<1> DEFINE rows == {row \in Visible(s) :
                      row.table = TableOf(request[s]) /\ row.id = request[s].id}
<1>1. /\ stage[s] = "reading" /\ stage' = [stage EXCEPT ![s] = "committing"]
      /\ found' = [found EXCEPT ![s] = rows]
      /\ UNCHANGED <<db, policy, setting, conn, request, fresh, wrote, answer>>
      /\ TypeOK /\ PoolIsClean
      /\ found[s] = {} /\ wrote[s] = {} /\ answer[s].rows = {}
      /\ request[s].op \notin Creates
    BY DEF Fetch, RequestInv, Local, Progress, Early
<1>2. /\ rows \subseteq Rows /\ \A row \in rows : row.ws = request[s].tenant
      /\ rows \subseteq db /\ \A row \in rows : row.table # "record"
    <2>1. stage[s] \in Open
        BY <1>1 DEF Open
    <2>2. TableOf(request[s]) # "record"
        BY DEF TableOf
    <2> QED BY <1>1, <2>1, <2>2, OpenIsTenant DEF Visible
<1> HIDE DEF rows
<1>3. stage'[s] = "committing" /\ found'[s] = rows /\ Frame(s)
    BY <1>1 DEF TypeOK, Frame
<1>4. TypeOK'
    BY <1>1, <1>2 DEF TypeOK, Stages, Open
<1>5. PoolIsClean'
    BY <1>1, <1>3, PoolKept DEF Open
<1>6. Progress(s)' /\ RowsOf(s)' /\ Told(s)'
    <2>1. Progress(s)'
        BY <1>1, <1>3 DEF RequestInv, Local, Progress, Early, Creates
    <2>2. request'[s].op \notin Creates
        BY <1>1
    <2>3. request'[s].op \notin {"project.create", "workspace.create"}
        BY <2>2 DEF Creates
    <2>4. RowsOf(s)' /\ Told(s)'
        BY <1>1, <1>2, <1>3, <2>2, <2>3 DEF RowsOf, Told
    <2> QED BY <2>1, <2>4
<1> QED BY <1>1, <1>2, <1>3, <1>4, <1>5, <1>6, QuietStep

LEMMA ReserveKeeps ==
    ASSUME RequestInv, NEW s \in Sessions, Reserve(s)
    PROVE  RequestInv'
<1> DEFINE row    == RecordRow(request[s], fresh[s])
           stored == {other \in Visible(s) : SameKey(row, other)}
<1>1. /\ stage[s] = "reserving" /\ MayWrite(s, row)
      /\ \/ /\ stored = {} /\ wrote' = [wrote EXCEPT ![s] = {row}]
            /\ stage' = [stage EXCEPT ![s] = "checking"] /\ UNCHANGED found
         \/ /\ stored # {} /\ found' = [found EXCEPT ![s] = stored]
            /\ stage' = [stage EXCEPT ![s] = "committing"] /\ UNCHANGED wrote
      /\ UNCHANGED <<db, policy, setting, conn, request, fresh, answer>>
      /\ TypeOK /\ PoolIsClean
      /\ found[s] = {} /\ wrote[s] = {} /\ answer[s].rows = {}
      /\ request[s].op = "issue.create" /\ fresh[s] \in Issues
    BY DEF Reserve, RequestInv, Local, Progress, Early
<1>2. /\ row \in Rows /\ row.table = "record" /\ row.ref = fresh[s]
      /\ fresh[s] # None
    <2>1. request[s] \in Request
        BY <1>1, OpenIsTenant DEF Open
    <2> QED BY <1>1, <2>1, NewRowsAreRows, IssuesAreNames, NoneIsNoName DEF RecordRow
<1>3. /\ stored \subseteq Rows /\ stored \subseteq db
      /\ \A other \in stored : other.table = "record" /\ other.ws = request[s].tenant
      /\ row.ws = request[s].tenant
    <2>1. stage[s] \in Open
        BY <1>1 DEF Open
    <2>2. stored \subseteq Rows /\ stored \subseteq db
        BY <1>1, <2>1, OpenIsTenant DEF Visible
    <2>3. \A other \in stored : other.table = "record" /\ other.ws = request[s].tenant
        BY <1>2, <2>1, OpenIsTenant DEF SameKey
    <2>4. row.ws = request[s].tenant
        BY <1>1, <2>1, OpenIsTenant
    <2> QED BY <2>2, <2>3, <2>4
<1> HIDE DEF row, stored
<1>4. /\ Frame(s) /\ stage'[s] \in {"checking", "committing"}
      /\ stage'[s] = "checking" => wrote'[s] = {row} /\ found'[s] = {}
      /\ stage'[s] = "committing" => wrote'[s] = {} /\ found'[s] = stored /\ stored # {}
    BY <1>1 DEF TypeOK, Frame
<1>5. TypeOK'
    BY <1>1, <1>2, <1>3 DEF TypeOK, Stages, Open
<1>6. PoolIsClean'
    BY <1>1, <1>4, PoolKept DEF Open
<1>7. Progress(s)' /\ RowsOf(s)' /\ Told(s)'
    <2>1. Progress(s)'
        BY <1>1, <1>4 DEF RequestInv, Local, Progress, Early, Creates
    <2>2. RowsOf(s)' /\ Told(s)'
        BY <1>1, <1>2, <1>3, <1>4 DEF RowsOf, Told, Creates
    <2> QED BY <2>1, <2>2
<1>8. \A other \in answer'[s].rows \union found'[s] \union wrote'[s] :
          other.ws = request'[s].tenant
    BY <1>1, <1>3, <1>4
<1> QED BY <1>1, <1>4, <1>5, <1>6, <1>7, <1>8, QuietStep

LEMMA InsertKeeps ==
    ASSUME RequestInv, NEW s \in Sessions, Insert(s)
    PROVE  RequestInv'
<1>1. /\ stage[s] = "inserting" /\ MayWrite(s, NewRow(s))
      /\ wrote' = [wrote EXCEPT ![s] = wrote[s] \union {NewRow(s)}]
      /\ stage' = [stage EXCEPT ![s] = "committing"]
      /\ UNCHANGED <<db, policy, setting, conn, request, fresh, found, answer>>
      /\ TypeOK /\ PoolIsClean
      /\ found[s] = {} /\ answer[s].rows = {}
      /\ request[s].op \in Creates
      /\ request[s].op = "issue.create" => fresh[s] \in Issues
    BY DEF Insert, RequestInv, Local, Progress
<1>2. /\ request[s] \in Request /\ NewRow(s).ws = request[s].tenant
      /\ request[s].tenant \in Workspaces
    <2>1. stage[s] \in Open
        BY <1>1 DEF Open
    <2> QED BY <1>1, <2>1, OpenIsTenant
<1>3. /\ NewRow(s) \in Rows
      /\ NewRow(s).table = "issue" => fresh[s] # None /\ NewRow(s).id = fresh[s]
      /\ NewRow(s).table # "record"
    <2>1. CASE request[s].op = "issue.create"
        BY <1>1, <1>2, <2>1, NewRowCases, NewRowsAreRows, IssuesAreNames, NoneIsNoName
        DEF IssueRow
    <2>2. CASE request[s].op = "project.create"
        <3>1. NewRow(s) = ProjectRow(request[s])
            BY <2>2, NewRowCases
        <3>2. request[s].id \in Names
            BY <1>2, <2>2 DEF Request, ServiceOps
        <3> QED BY <1>2, <3>1, <3>2 DEF ProjectRow, Rows, Tables, Request
    <2>3. CASE request[s].op = "workspace.create"
        <3>1. NewRow(s) = WorkspaceRow(request[s])
            BY <2>3, NewRowCases
        <3>2. request[s].id \in Names
            BY <1>2, <2>3 DEF Request, ServiceOps
        <3>3. request[s].id = request[s].tenant
            BY <1>2, <3>1 DEF WorkspaceRow
        <3> QED BY <1>2, <3>1, <3>2, <3>3 DEF WorkspaceRow, Rows, Tables
    <2> QED BY <1>1, <2>1, <2>2, <2>3 DEF Creates
<1>4. /\ Frame(s) /\ stage'[s] = "committing" /\ wrote'[s] = wrote[s] \union {NewRow(s)}
      /\ NewRow(s)' = NewRow(s)
    BY <1>1 DEF TypeOK, Frame, NewRow, ProjectRow, WorkspaceRow, IssueRow
<1>5. TypeOK'
    BY <1>1, <1>3 DEF TypeOK, Stages, Open
<1>6. PoolIsClean'
    BY <1>1, <1>4, PoolKept DEF Open
<1>7. Progress(s)' /\ RowsOf(s)' /\ Told(s)'
    <2>1. Progress(s)'
        BY <1>1, <1>4 DEF RequestInv, Local, Progress, Early, Creates
    <2>2. RowsOf(s)'
        BY <1>1, <1>3, <1>4 DEF RequestInv, Local, RowsOf
    <2>3. Told(s)'
        BY <1>4 DEF Told
    <2> QED BY <2>1, <2>2, <2>3
<1>8. \A row \in answer'[s].rows \union found'[s] \union wrote'[s] :
          row.ws = request'[s].tenant
    <2>1. \A row \in wrote[s] : row.ws = request[s].tenant
        BY <1>1 DEF RequestInv, TenantIsolation
    <2> QED BY <1>1, <1>2, <1>4, <2>1
<1> QED BY <1>1, <1>4, <1>5, <1>6, <1>7, <1>8, QuietStep

\* The end of a transaction: what every way out of it has in common.
LEMMA CloseKeeps ==
    ASSUME RequestInv, NEW s \in Sessions, InTransaction(s), Release(s),
           NEW code, NEW rows \in SUBSET Rows, Answer(s, code, rows),
           UNCHANGED <<policy, request, fresh, found, wrote>>,
           db' = db \/ db' = db \union wrote[s],
           \A row \in rows : row.ws = request[s].tenant /\ row.table # "record",
           Class(code) = "served" => rows \union wrote[s] \subseteq db',
           Class(code) = "refused" =>
              (\A row \in wrote[s] : row.table = "record") /\ (db' = db \/ wrote[s] = {})
    PROVE  RequestInv'
<1>1. /\ Frame(s) /\ stage'[s] = "answered" /\ ~InTransaction(s)'
      /\ answer'[s] = [code |-> code, rows |-> rows]
      /\ answer'[s].rows = rows /\ answer'[s].code = code
      /\ stage' \in [Sessions -> Stages] /\ DOMAIN answer' = Sessions
      /\ TypeOK /\ PoolIsClean /\ TenantIsolation
      /\ stage[s] \notin {"idle", "answered"}
    BY DEF RequestInv, TypeOK, Answer, Frame, Stages, InTransaction, Open
<1>2. TypeOK'
    <2>1. conn[s] \in Connections
        BY <1>1 DEF TypeOK, PoolIsClean
    <2>2. conn' \in [Sessions -> Connections \union {None}]
          /\ setting' \in [Connections -> Workspaces \union {None}]
        BY <1>1, <2>1 DEF TypeOK, Release
    <2>3. db' \subseteq Rows
        BY <1>1 DEF TypeOK
    <2>4. \A t \in Sessions : answer'[t].rows \subseteq Rows
        BY <1>1 DEF TypeOK, Frame
    <2> QED BY <1>1, <2>2, <2>3, <2>4 DEF TypeOK
<1>3. PoolIsClean'
    BY <1>1, PoolReleased
<1>4. TenantIsolation'
    <2>1. \A row \in found[s] \union wrote[s] : row.ws = request[s].tenant
        BY <1>1 DEF TenantIsolation
    <2> QED BY <1>1, <2>1, IsolationKept
<1>5. Progress(s)' /\ RowsOf(s)' /\ Told(s)'
    <2>1. Progress(s)'
        BY <1>1 DEF RequestInv, Local, Progress, Early
    <2>2. RowsOf(s)'
        BY <1>1 DEF RequestInv, Local, RowsOf
    <2>3. Told(s)'
        BY <1>1 DEF Told
    <2> QED BY <2>1, <2>2, <2>3
\* The new issues and records are those of this session alone.
<1>6. ASSUME NEW row \in db', row \notin db
      PROVE  /\ row \in wrote[s] /\ row.ws = request[s].tenant
             /\ row.table \in {"issue", "record"} => fresh[s] # None
             /\ row.table = "issue" => row.id = fresh[s]
             /\ row.table = "record" => row.ref = fresh[s]
    <2>1. row \in wrote[s]
        BY <1>6
    <2> QED BY <1>1, <2>1 DEF TenantIsolation, RequestInv, Local, RowsOf
<1>7. Unused(s)'
    <2> SUFFICES ASSUME fresh[s] # None, Class(code) = "refused", NEW row \in db'
                 PROVE  /\ row.table = "issue" => row.id # fresh[s]
                        /\ row.table = "record" => row.ref # fresh[s]
        BY <1>1 DEF Unused
    <2>1. row \in db
        OBVIOUS
    <2> QED BY <1>1, <2>1 DEF RequestInv, Local, Unused
<1>8. ASSUME NEW t \in Sessions, t # s PROVE Local(t)'
    <2>1. Progress(t)' /\ RowsOf(t)' /\ Told(t)'
        BY <1>1, <1>8, OthersKeep DEF RequestInv
    <2>2. Unused(t)'
        <3> SUFFICES ASSUME fresh[t] # None, NEW row \in db',
                            stage[t] = "answered" => Class(answer[t].code) = "refused"
                     PROVE  /\ row.table = "issue" => row.id # fresh[t]
                            /\ row.table = "record" => row.ref # fresh[t]
            BY <1>1, <1>8 DEF Unused, Frame
        <3>1. CASE row \in db
            BY <3>1 DEF RequestInv, Local, Unused
        <3>2. CASE row \notin db
            BY <1>6, <1>8, <3>2 DEF RequestInv, FreshIsUnique
        <3> QED BY <3>1, <3>2
    <2> QED BY <2>1, <2>2 DEF Local
<1>9. FreshIsUnique'
    BY DEF RequestInv, FreshIsUnique
<1>10. RecordsMatch'
    <2> SUFFICES ASSUME NEW rec \in db', NEW row \in db',
                        rec.table = "record", row.table = "issue", rec.ref = row.id
                 PROVE  rec.ws = row.ws
        BY DEF RecordsMatch
    <2>1. CASE rec \in db /\ row \in db
        BY <2>1 DEF RequestInv, RecordsMatch
    <2>2. fresh[s] # None => \A old \in db : /\ old.table = "issue" => old.id # fresh[s]
                                             /\ old.table = "record" => old.ref # fresh[s]
        BY <1>1 DEF RequestInv, Local, Unused
    <2>3. CASE rec \in db /\ row \notin db
        BY <1>6, <2>2, <2>3
    <2>4. CASE rec \notin db /\ row \in db
        BY <1>6, <2>2, <2>4
    <2>5. CASE rec \notin db /\ row \notin db
        BY <1>6, <2>5
    <2> QED BY <2>1, <2>3, <2>4, <2>5
<1> QED BY <1>2, <1>3, <1>4, <1>5, <1>7, <1>8, <1>9, <1>10 DEF RequestInv, Local

LEMMA FailureKeeps ==
    ASSUME RequestInv, NEW s \in Sessions, InTransaction(s),
           RollBack(s, FailureCode(request[s]))
    PROVE  RequestInv'
<1>1. Class(FailureCode(request[s])) = "failed"
    BY ClassCases
<1> QED BY <1>1, CloseKeeps DEF RollBack

LEMMA CheckParentsKeeps ==
    ASSUME RequestInv, NEW s \in Sessions, CheckParents(s)
    PROVE  RequestInv'
<1>1. /\ stage[s] = "checking" /\ InTransaction(s) /\ TypeOK /\ PoolIsClean
      /\ found[s] = {} /\ answer[s].rows = {}
      /\ \A row \in wrote[s] : row.table = "record"
      /\ request[s].op \in {"issue.create", "project.create"}
    BY DEF CheckParents, InTransaction, Open, RequestInv, Local, Progress, RowsOf
<1>2. CASE RollBack(s, Missing(s))
    <2>1. Class(Missing(s)) = "refused"
        <3>1. Missing(s) \in {"nothing", "workflow_version_not_found", "project_not_found",
                              "milestone_not_found", "milestone_project_mismatch"}
            BY DEF Missing
        <3>2. \A code \in {"nothing", "workflow_version_not_found", "project_not_found",
                           "milestone_not_found", "milestone_project_mismatch"} :
                 Class(code) = "refused"
            BY DEF Class
        <3> QED BY <3>1, <3>2
    <2> QED BY <1>1, <1>2, <2>1, CloseKeeps DEF RollBack
<1>3. CASE /\ stage' = [stage EXCEPT ![s] = "inserting"]
           /\ UNCHANGED <<db, policy, setting, conn, request, fresh, found, wrote, answer>>
    <2>1. stage'[s] = "inserting" /\ Frame(s)
        BY <1>1, <1>3 DEF TypeOK, Frame
    <2>2. TypeOK'
        BY <1>1, <1>3 DEF TypeOK, Stages, Open
    <2>3. PoolIsClean'
        BY <1>1, <1>3, <2>1, PoolKept DEF Open
    <2>4. Progress(s)' /\ RowsOf(s)' /\ Told(s)'
        <3>1. Progress(s)'
            BY <1>1, <1>3, <2>1 DEF RequestInv, Local, Progress, Early, Creates
        <3>2. RowsOf(s)' /\ Told(s)'
            BY <1>1, <1>3, <2>1 DEF RequestInv, Local, RowsOf, Told
        <3> QED BY <3>1, <3>2
    <2>5. \A row \in answer'[s].rows \union found'[s] \union wrote'[s] :
              row.ws = request'[s].tenant
        BY <1>1, <1>3 DEF RequestInv, TenantIsolation
    <2> QED BY <1>1, <1>3, <2>1, <2>2, <2>3, <2>4, <2>5, QuietStep
<1> QED BY <1>2, <1>3 DEF CheckParents

LEMMA WriteRefusedKeeps ==
    ASSUME RequestInv, NEW s \in Sessions, WriteRefused(s)
    PROVE  RequestInv'
<1>1. InTransaction(s) /\ RollBack(s, FailureCode(request[s]))
    BY DEF WriteRefused, InTransaction, Open
<1> QED BY <1>1, FailureKeeps

LEMMA CommitKeeps ==
    ASSUME RequestInv, NEW s \in Sessions, Commit(s) \/ CommitUnanswered(s)
    PROVE  RequestInv'
<1>1. /\ stage[s] = "committing" /\ InTransaction(s)
      /\ db' = db \union wrote[s] /\ Release(s)
      /\ UNCHANGED <<policy, request, fresh, found, wrote>>
      /\ TypeOK /\ found[s] \subseteq Rows
      /\ \A row \in found[s] \union wrote[s] : row.ws = request[s].tenant
    BY DEF Commit, CommitUnanswered, InTransaction, Open, RequestInv, TypeOK, TenantIsolation
<1>2. /\ found[s] # {} => wrote[s] = {} /\ found[s] \subseteq db
      /\ found[s] = {} /\ request[s].op \in Creates => NewRow(s) \in wrote[s]
      /\ request[s].op \notin Creates => wrote[s] = {}
      /\ \A row \in found[s] : row.table = "record" <=> request[s].op \in Creates
      /\ request[s].op \in {"project.create", "workspace.create"} => found[s] = {}
    BY <1>1 DEF RequestInv, Local, RowsOf
<1>3. CASE Answer(s, FailureCode(request[s]), {})
    <2>1. Class(FailureCode(request[s])) = "failed"
        BY ClassCases
    <2> QED BY <1>1, <1>3, <2>1, CloseKeeps
<1>4. CASE Answer(s, OutcomeCode(s), OutcomeRows(s))
    <2>1. CASE request[s].op \in Creates /\ found[s] = {}
        <3>1. OutcomeCode(s) = "created"
            BY <2>1, OutcomeCases DEF Creates
        <3>2. OutcomeRows(s) = {NewRow(s)} /\ NewRow(s) \in wrote[s]
            BY <1>2, <2>1, <3>1, OutcomeCases
        <3>3. wrote[s] \subseteq Rows
            BY <1>1 DEF TypeOK
        <3>4. Class("created") = "served"
            BY ClassCases
        <3>5. NewRow(s).table # "record"
            BY <2>1, NewRowCases DEF Creates, ProjectRow, WorkspaceRow, IssueRow
        <3> QED BY <1>1, <1>4, <3>1, <3>2, <3>3, <3>4, <3>5, CloseKeeps
    <2>2. CASE request[s].op \in Creates /\ found[s] # {}
        <3>1. request[s].op = "issue.create"
            BY <1>2, <2>2 DEF Creates
        <3>2. wrote[s] = {} /\ db' = db
            BY <1>1, <1>2, <2>2
        <3>3. CASE OutcomeCode(s) = "replay"
            <4>1. OutcomeRows(s) = Recorded(s)
                BY <3>3, OutcomeCases
            <4>2. Recorded(s) \subseteq db /\ Recorded(s) \subseteq Rows
                BY <1>1 DEF Recorded, TypeOK
            <4>3. \A row \in Recorded(s) : row.ws = request[s].tenant /\ row.table # "record"
                BY <1>1, <1>2, <2>2 DEF Recorded, RequestInv, RecordsMatch
            <4>4. Class("replay") = "served"
                BY ClassCases
            <4> QED BY <1>1, <1>4, <3>2, <3>3, <4>1, <4>2, <4>3, <4>4, CloseKeeps
        <3>4. CASE OutcomeCode(s) = "duplicate_issue_command"
            <4>1. OutcomeRows(s) = {}
                BY <3>1, <3>4, OutcomeCases
            <4>2. Class("duplicate_issue_command") = "refused"
                BY ClassCases
            <4> QED BY <1>1, <1>4, <3>2, <3>4, <4>1, <4>2, CloseKeeps
        <3> QED BY <2>2, <3>1, <3>3, <3>4, OutcomeCases
    <2>3. CASE request[s].op \notin Creates
        <3>1. /\ wrote[s] = {} /\ db' = db /\ found[s] \subseteq db
              /\ \A row \in found[s] : row.table # "record"
            BY <1>1, <1>2, <2>3
        <3>2. OutcomeCode(s) \in {"ok", "not_found"}
            BY <2>3, OutcomeCases
        <3>3. OutcomeRows(s) = {} \/ OutcomeRows(s) = found[s]
            BY <3>2, OutcomeCases
        <3>4. Class("ok") = "served" /\ Class("not_found") = "refused"
            BY ClassCases
        <3> QED BY <1>1, <1>4, <3>1, <3>2, <3>3, <3>4, CloseKeeps
    <2> QED BY <2>1, <2>2, <2>3
<1> QED BY <1>3, <1>4 DEF Commit, CommitUnanswered

LEMMA ForgetKeeps ==
    ASSUME RequestInv, NEW s \in Sessions, Forget(s)
    PROVE  RequestInv'
<1>1. /\ stage[s] = "answered" /\ stage' = [stage EXCEPT ![s] = "idle"]
      /\ request' = [request EXCEPT ![s] = None] /\ fresh' = [fresh EXCEPT ![s] = None]
      /\ found' = [found EXCEPT ![s] = {}] /\ wrote' = [wrote EXCEPT ![s] = {}]
      /\ answer' = [answer EXCEPT ![s] = NoAnswer]
      /\ UNCHANGED <<db, policy, setting, conn>>
      /\ TypeOK /\ PoolIsClean
    BY DEF Forget, RequestInv
<1>2. /\ Frame(s) /\ stage'[s] = "idle" /\ fresh'[s] = None /\ found'[s] = {}
      /\ wrote'[s] = {} /\ answer'[s].rows = {}
    BY <1>1 DEF TypeOK, Frame, NoAnswer
<1>3. TypeOK'
    <2>1. \A t \in Sessions : answer'[t].rows \subseteq Rows
        BY <1>1, <1>2 DEF TypeOK, Frame
    <2> QED BY <1>1, <2>1 DEF TypeOK, Stages
<1>4. PoolIsClean'
    BY <1>1, <1>2, PoolKept DEF InTransaction, Open
<1>5. TenantIsolation'
    BY <1>2, IsolationKept DEF RequestInv
<1>6. Local(s)'
    BY <1>1, <1>2 DEF Local, Progress, RowsOf, Told, Unused, Early
<1>7. ASSUME NEW t \in Sessions, t # s PROVE Local(t)'
    <2>1. Progress(t)' /\ RowsOf(t)' /\ Told(t)'
        BY <1>2, <1>7, OthersKeep DEF RequestInv
    <2>2. Unused(t)'
        BY <1>1, <1>2, <1>7 DEF RequestInv, Local, Unused, Frame
    <2> QED BY <2>1, <2>2 DEF Local
<1>8. FreshIsUnique' /\ RecordsMatch'
    BY <1>1, <1>2 DEF RequestInv, FreshIsUnique, RecordsMatch, Frame
<1> QED BY <1>3, <1>4, <1>5, <1>6, <1>7, <1>8 DEF RequestInv

\* What a cleanup takes away: records that no open transaction has found.
LEMMA CleanupTakes ==
    ASSUME CleanupIdempotency, NEW s \in Sessions, InTransaction(s), NEW row \in found[s],
           row \in db, row \notin db'
    PROVE  FALSE
<1>1. PICK expired \in SUBSET db : /\ \A rec \in expired : rec.table = "record"
                                  /\ expired \intersect Locked(s) = {}
                                  /\ db' = db \ expired
    BY DEF CleanupIdempotency
<1>2. row \in expired /\ row.table = "record"
    BY <1>1
<1> QED BY <1>1, <1>2 DEF Locked

LEMMA CleanupKeeps ==
    ASSUME RequestInv, CleanupIdempotency
    PROVE  RequestInv'
<1>1. /\ db' \subseteq db /\ \A row \in db : row.table # "record" => row \in db'
      /\ UNCHANGED <<policy, setting, conn, stage, request, fresh, found, wrote, answer>>
    BY DEF CleanupIdempotency
<1>2. TypeOK' /\ TenantIsolation' /\ FreshIsUnique' /\ RecordsMatch'
    BY <1>1 DEF RequestInv, TypeOK, TenantIsolation, FreshIsUnique, RecordsMatch
<1>3. PoolIsClean'
    BY <1>1 DEF RequestInv, PoolIsClean, InTransaction
<1>4. ASSUME NEW s \in Sessions
      PROVE  Local(s)'
    <2>1. NewRow(s)' = NewRow(s)
        BY <1>1 DEF NewRow, ProjectRow, WorkspaceRow, IssueRow
    <2>2. Progress(s)'
        BY <1>1 DEF RequestInv, Local, Progress
    <2>3. RowsOf(s)'
        <3>1. stage[s] = "committing" /\ found[s] \subseteq db => found[s] \subseteq db'
            BY CleanupTakes DEF InTransaction, Open
        <3> QED BY <1>1, <2>1, <3>1 DEF RequestInv, Local, RowsOf
    <2>4. Told(s)'
        <3> SUFFICES ASSUME stage[s] = "answered", Class(answer[s].code) = "served",
                            NEW row \in answer[s].rows \union {old \in wrote[s] : old.table # "record"}
                     PROVE  row \in db'
            BY <1>1 DEF RequestInv, Local, Told
        <3>1. row \in db /\ row.table # "record"
            BY DEF RequestInv, Local, Told
        <3> QED BY <1>1, <3>1
    <2>5. Unused(s)'
        BY <1>1 DEF RequestInv, Local, Unused
    <2> QED BY <2>2, <2>3, <2>4, <2>5 DEF Local
<1> QED BY <1>2, <1>3, <1>4 DEF RequestInv

-----------------------------------------------------------------------------
\* The invariant of the request path.
LEMMA RequestInvariant == Spec => []RequestInv
<1>1. Init => RequestInv
    <2> SUFFICES ASSUME Init PROVE RequestInv
        OBVIOUS
    <2>1. TypeOK
        BY SeedIsRows DEF Init, TypeOK, Stages, NoAnswer
    <2>2. PoolIsClean
        BY DEF Init, PoolIsClean, InTransaction, Open
    <2>3. TenantIsolation
        BY DEF Init, TenantIsolation
    <2>4. ASSUME NEW s \in Sessions PROVE Local(s)
        BY DEF Init, Local, Progress, RowsOf, Told, Unused, Early, NoAnswer
    <2>5. FreshIsUnique
        BY DEF Init, FreshIsUnique
    <2>6. RecordsMatch
        <3> SUFFICES ASSUME NEW rec \in Seed, NEW row \in Seed, rec.table = "record",
                            row.table = "issue", rec.ref = row.id
                     PROVE  rec.ws = row.ws
            BY DEF Init, RecordsMatch
        <3>1. PICK other \in Seed : other.table = "issue" /\ other.id = rec.ref /\ other.ws = rec.ws
            BY SeedIsConsistent
        <3>2. other = row
            BY <3>1, SeedIsConsistent DEF SameKey
        <3> QED BY <3>1, <3>2
    <2> QED BY <2>1, <2>2, <2>3, <2>4, <2>5, <2>6 DEF RequestInv
<1>2. RequestInv /\ [Next]_vars => RequestInv'
    <2> SUFFICES ASSUME RequestInv, [Next]_vars PROVE RequestInv'
        OBVIOUS
    <2>1. ASSUME NEW s \in Sessions, Receive(s) \/ Serve(s) \/ Fail(s) \/ Forget(s)
          PROVE  RequestInv'
        <3>1. CASE Receive(s)          BY <3>1, ReceiveKeeps
        <3>2. CASE Begin(s)            BY <3>2, BeginKeeps
        <3>3. CASE BeginFails(s)       BY <3>3, BeginFailsKeeps
        <3>4. CASE SetContext(s)       BY <3>4, SetContextKeeps
        <3>5. CASE Fetch(s)            BY <3>5, FetchKeeps
        <3>6. CASE Reserve(s)          BY <3>6, ReserveKeeps
        <3>7. CASE CheckParents(s)     BY <3>7, CheckParentsKeeps
        <3>8. CASE Insert(s)           BY <3>8, InsertKeeps
        <3>9. CASE WriteRefused(s)     BY <3>9, WriteRefusedKeeps
        <3>10. CASE Commit(s)          BY <3>10, CommitKeeps
        <3>11. CASE CommitUnanswered(s) BY <3>11, CommitKeeps
        <3>12. CASE Abort(s)           BY <3>12, FailureKeeps DEF Abort
        <3>13. CASE Forget(s)          BY <3>13, ForgetKeeps
        <3> QED BY <2>1, <3>1, <3>2, <3>3, <3>4, <3>5, <3>6, <3>7, <3>8, <3>9, <3>10,
                   <3>11, <3>12, <3>13 DEF Serve, Fail
    <2>2. CASE UNCHANGED vars
        <3> USE <2>2 DEF vars
        <3>1. TypeOK' /\ TenantIsolation' /\ FreshIsUnique' /\ RecordsMatch'
            BY DEF RequestInv, TypeOK, TenantIsolation, FreshIsUnique, RecordsMatch
        <3>2. PoolIsClean'
            BY DEF RequestInv, PoolIsClean, InTransaction
        <3>3. ASSUME NEW s \in Sessions PROVE Local(s)'
            <4>1. NewRow(s)' = NewRow(s)
                BY DEF NewRow, ProjectRow, WorkspaceRow, IssueRow
            <4> QED BY <4>1 DEF RequestInv, Local, Progress, RowsOf, Told, Unused
        <3> QED BY <3>1, <3>2, <3>3 DEF RequestInv
    <2>3. CASE CleanupIdempotency
        BY <2>3, CleanupKeeps
    <2> QED BY <2>1, <2>2, <2>3 DEF Next
<1> QED BY <1>1, <1>2, PTL DEF Spec

\* The variables keep their types.
THEOREM RequestTypes == Spec => []TypeOK
<1>1. RequestInv => TypeOK
    BY DEF RequestInv
<1> QED BY <1>1, RequestInvariant, PTL

\* No caller is handed, and nothing is written for it but, rows of its tenant.
THEOREM TenantsAreIsolated == Spec => []TenantIsolation
<1>1. RequestInv => TenantIsolation
    BY DEF RequestInv
<1> QED BY <1>1, RequestInvariant, PTL

\* app.workspace_id never outlives the transaction that set it.
THEOREM ThePoolIsClean == Spec => []PoolIsClean
<1>1. RequestInv => PoolIsClean
    BY DEF RequestInv
<1> QED BY <1>1, RequestInvariant, PTL

\* A success is committed and a refusal is not.
THEOREM AnswersAreTrue == Spec => []AnswersTellTheTruth
<1>1. RequestInv => AnswersTellTheTruth
    <2> SUFFICES ASSUME RequestInv, NEW s \in Sessions, stage[s] = "answered"
                 PROVE  /\ Class(answer[s].code) = "served" =>
                              answer[s].rows \union {row \in wrote[s] : row.table # "record"}
                                \subseteq db
                        /\ Class(answer[s].code) = "refused" => wrote[s] \intersect db = {}
        BY DEF AnswersTellTheTruth
    <2>1. Class(answer[s].code) = "refused" => \A row \in wrote[s] : row \notin db
        BY DEF RequestInv, Local, Told, RowsOf, Unused
    <2> QED BY <2>1 DEF RequestInv, Local, Told
<1> QED BY <1>1, RequestInvariant, PTL

\* A get finds all the rows of its tenant that have its id, and no others.
THEOREM TenantsFindTheirRows == Spec => TenantsSeeTheirRows
<1>1. RequestInv => [\A s \in Sessions : Fetch(s) =>
          found'[s] = {row \in db : /\ row.table = TableOf(request[s])
                                    /\ row.id = request[s].id
                                    /\ row.ws = request[s].tenant}]_vars
    <2> SUFFICES ASSUME RequestInv, NEW s \in Sessions, Fetch(s)
                 PROVE  found'[s] = {row \in db : /\ row.table = TableOf(request[s])
                                                  /\ row.id = request[s].id
                                                  /\ row.ws = request[s].tenant}
        OBVIOUS
    <2>1. wrote[s] = {} /\ stage[s] \in Open
        BY DEF Fetch, RequestInv, Local, Progress, Early, Open
    <2>2. setting[conn[s]] = request[s].tenant
        BY <2>1, OpenIsTenant
    <2>3. found'[s] = {row \in Visible(s) : /\ row.table = TableOf(request[s])
                                            /\ row.id = request[s].id}
        BY DEF Fetch, RequestInv, TypeOK
    <2> QED BY <2>1, <2>2, <2>3 DEF Visible
<1> QED BY <1>1, RequestInvariant, PTL DEF TenantsSeeTheirRows

-----------------------------------------------------------------------------
(* The transports agree: the first failure of a list of checks made of two *)
(* is that of the one, or else of the other, so that the lists of the two  *)
(* transports can be compared part by part.                                *)

\* The codes of all layers.
Codes == {"rpc_invalid_request", "rpc_handshake", "rpc_method_not_found",
          "rpc_invalid_params", "rejected_by_extractor", "unauthorized", "unknown_tool",
          "invalid_payload",
          "invalid_issue_id", "allow", "idempotency_key_length",
          "idempotency_key_charset", "title_required", "title_too_long",
          "idempotency_key_required", "description_too_long"} \union DenyReasons

Checks == [fails : BOOLEAN, code : Codes]

Failing(checks) == {i \in DOMAIN checks : checks[i].fails}

\* A set of natural numbers that is not empty has a least element.
LEMMA LeastNatural ==
    ASSUME NEW T, T \subseteq Nat, T # {}
    PROVE  \E x \in T : \A y \in T : x <= y
<1> DEFINE Less == OpToRel(<, Nat)
<1>1. IsWellFoundedOn(Less, Nat)
    BY NatLessThanWellFounded
<1>2. \A x, y \in T : ~(<<y, x>> \in Less) => x <= y
    BY DEF OpToRel
<1> HIDE DEF Less
<1>3. \E x \in T : \A y \in T : ~(<<y, x>> \in Less)
    BY <1>1, WFMin
<1> QED BY <1>2, <1>3

\* FirstFailure is the code of the least index that fails.
LEMMA FirstFailureIs ==
    ASSUME NEW checks \in Seq(Checks)
    PROVE  /\ Failing(checks) = {} => FirstFailure(checks) = "accepted"
           /\ Failing(checks) # {} => \E i \in Failing(checks) : \A j \in Failing(checks) : i <= j
           /\ \A i \in Failing(checks) :
                 (\A j \in Failing(checks) : i <= j) =>
                     FirstFailure(checks) = checks[i].code /\ checks[i].code # "accepted"
<1>1. Failing(checks) \subseteq 1 .. Len(checks) /\ Len(checks) \in Nat
    BY DEF Failing
<1>2. Failing(checks) # {} => \E i \in Failing(checks) : \A j \in Failing(checks) : i <= j
    BY <1>1, LeastNatural
<1>3. ASSUME NEW i \in Failing(checks), \A j \in Failing(checks) : i <= j
      PROVE  FirstFailure(checks) = checks[i].code /\ checks[i].code # "accepted"
    <2>1. (CHOOSE k \in Failing(checks) : \A j \in Failing(checks) : k <= j) = i
        BY <1>1, <1>3
    <2>2. checks[i] \in Checks
        BY <1>1
    <2> QED BY <1>3, <2>1, <2>2 DEF FirstFailure, Failing, Checks, Codes, DenyReasons
<1> QED BY <1>2, <1>3 DEF FirstFailure, Failing

\* Checks that follow others count if the others pass.
LEMMA FirstFailureOfBoth ==
    ASSUME NEW s \in Seq(Checks), NEW t \in Seq(Checks)
    PROVE  FirstFailure(s \o t) = IF FirstFailure(s) = "accepted" THEN FirstFailure(t)
                                                                  ELSE FirstFailure(s)
<1>1. /\ s \o t \in Seq(Checks) /\ Len(s \o t) = Len(s) + Len(t)
      /\ Len(s) \in Nat /\ Len(t) \in Nat
      /\ \A i \in 1 .. Len(s) : (s \o t)[i] = s[i]
      /\ \A i \in 1 .. Len(t) : (s \o t)[Len(s) + i] = t[i]
    OBVIOUS
<1>2. \A i \in 1 .. Len(s) : i \in Failing(s \o t) <=> i \in Failing(s)
    BY <1>1 DEF Failing
<1>3. \A i \in 1 .. Len(t) : Len(s) + i \in Failing(s \o t) <=> i \in Failing(t)
    BY <1>1 DEF Failing
<1>4. /\ Failing(s) \subseteq 1 .. Len(s) /\ Failing(t) \subseteq 1 .. Len(t)
      /\ Failing(s \o t) \subseteq 1 .. (Len(s) + Len(t))
    BY <1>1 DEF Failing
<1>5. CASE Failing(s) # {}
    <2>1. PICK i \in Failing(s) : \A j \in Failing(s) : i <= j
        BY <1>5, FirstFailureIs
    <2>2. i \in Failing(s \o t)
        BY <1>2, <1>4
    <2>3. ASSUME NEW j \in Failing(s \o t)
          PROVE  i <= j
        BY <1>1, <1>2, <1>4, <2>1
    <2>4. FirstFailure(s \o t) = (s \o t)[i].code
        BY <1>1, <2>2, <2>3, FirstFailureIs
    <2>5. FirstFailure(s) = s[i].code /\ s[i].code # "accepted"
        BY <2>1, FirstFailureIs
    <2> QED BY <1>1, <1>4, <2>4, <2>5
<1>6. CASE Failing(s) = {} /\ Failing(t) # {}
    <2>1. PICK i \in Failing(t) : \A j \in Failing(t) : i <= j
        BY <1>6, FirstFailureIs
    <2>2. Len(s) + i \in Failing(s \o t)
        BY <1>3, <1>4
    <2>3. ASSUME NEW j \in Failing(s \o t)
          PROVE  Len(s) + i <= j
        <3>1. j \in Nat /\ j > Len(s) /\ j <= Len(s) + Len(t)
            BY <1>1, <1>2, <1>4, <1>6
        <3>2. j - Len(s) \in 1 .. Len(t) /\ Len(s) + (j - Len(s)) = j
            BY <1>1, <3>1
        <3>3. j - Len(s) \in Failing(t)
            BY <1>3, <3>2
        <3> QED BY <1>1, <1>4, <2>1, <3>1, <3>3
    <2>4. FirstFailure(s \o t) = (s \o t)[Len(s) + i].code
        BY <1>1, <2>2, <2>3, FirstFailureIs
    <2>5. FirstFailure(t) = t[i].code /\ FirstFailure(s) = "accepted"
        BY <1>6, <2>1, FirstFailureIs
    <2> QED BY <1>1, <1>4, <2>4, <2>5
<1>7. CASE Failing(s) = {} /\ Failing(t) = {}
    <2>1. Failing(s \o t) = {}
        <3>1. ASSUME NEW j \in Failing(s \o t)
              PROVE  FALSE
            <4>1. j \in Nat /\ j > Len(s) /\ j <= Len(s) + Len(t)
                BY <1>1, <1>2, <1>4, <1>7
            <4>2. j - Len(s) \in 1 .. Len(t) /\ Len(s) + (j - Len(s)) = j
                BY <1>1, <4>1
            <4> QED BY <1>3, <1>7, <4>2
        <3> QED BY <3>1
    <2> QED BY <1>1, <1>7, <2>1, FirstFailureIs
<1> QED BY <1>5, <1>6, <1>7

LEMMA CheckIsCheck ==
    \A fails \in BOOLEAN, code \in Codes : Check(fails, code) \in Checks
BY DEF Check, Checks

LEMMA PayloadIsChecks ==
    ASSUME NEW r, NEW refused \in BOOLEAN
    PROVE  PayloadChecks(refused, r) \in Seq(Checks)
<1> DEFINE first  == Check(refused, "invalid_payload")
           second == Check(r.op = "issue.get" /\ r.id = None, "invalid_issue_id")
<1>1. first \in Checks /\ second \in Checks
    <2>1. (r.op = "issue.get" /\ r.id = None) \in BOOLEAN
        OBVIOUS
    <2>2. "invalid_payload" \in Codes /\ "invalid_issue_id" \in Codes
        BY DEF Codes
    <2> QED BY <2>1, <2>2, CheckIsCheck
<1>2. PayloadChecks(refused, r) = << first, second >>
    BY DEF PayloadChecks
<1> HIDE DEF first, second
<1> QED BY <1>1, <1>2

\* The lists of each layer are lists of checks.
LEMMA LayersAreChecks ==
    ASSUME NEW r \in Request, NEW engine
    PROVE  /\ \A refused \in BOOLEAN : PayloadChecks(refused, r) \in Seq(Checks)
           /\ RestChecks(r) \in Seq(Checks)
           /\ McpChecks(r) \in Seq(Checks) /\ ServiceChecks(engine, r) \in Seq(Checks)
<1>2. \A refused \in BOOLEAN : PayloadChecks(refused, r) \in Seq(Checks)
    BY PayloadIsChecks
<1>3. RestChecks(r) \in Seq(Checks)
    <2>1. r.extracted \in BOOLEAN
        BY DEF Request
    <2>2. /\ Check(~r.extracted, "rejected_by_extractor") \in Checks
          /\ Check(r.token # "accepted", "unauthorized") \in Checks
        BY <2>1 DEF Check, Checks, Codes
    <2>3. << Check(~r.extracted, "rejected_by_extractor"),
             Check(r.token # "accepted", "unauthorized") >> \in Seq(Checks)
        BY <2>2
    <2>4. (r.body # "fine") \in BOOLEAN
        OBVIOUS
    <2>5. PayloadChecks(r.body # "fine", r) \in Seq(Checks)
        BY <1>2, <2>4
    <2> QED BY <2>3, <2>5, ConcatProperties DEF RestChecks
<1>4. McpChecks(r) \in Seq(Checks)
    <2>1. /\ Check(r.frame = "not_jsonrpc", "rpc_invalid_request") \in Checks
          /\ Check(r.frame = "handshake", "rpc_handshake") \in Checks
          /\ Check(r.frame = "no_method", "rpc_method_not_found") \in Checks
          /\ Check(r.frame = "bad_params" \/ r.token = "absent", "rpc_invalid_params") \in Checks
          /\ Check(r.token = "refused", "unauthorized") \in Checks
          /\ Check(r.op = "unknown", "unknown_tool") \in Checks
        BY DEF Check, Checks, Codes
    <2>2. (r.body = "malformed") \in BOOLEAN
        OBVIOUS
    <2>3. PayloadChecks(r.body = "malformed", r) \in Seq(Checks)
        BY <1>2, <2>2
    <2> QED BY <2>1, <2>3, ConcatProperties DEF McpChecks
<1>5. PolicyChecks(engine, r) \in Seq(Checks)
    <2> DEFINE verdict == Decide(engine, SubjectFromAuth(r), ActionOf[r.op], r.tenant)
    <2>1. verdict \in Codes
        <3>1. \A subject, workspace, granted :
                 Evaluate(subject, workspace, granted) \in DenyReasons \union {"allow"}
            BY DEF Evaluate, DenyReasons
        <3> QED BY <3>1 DEF Decide, EvaluateMatrix, EvaluateAllowList, Codes
    <2>2. PolicyChecks(engine, r) = << Check(verdict # "allow", verdict) >>
        BY DEF PolicyChecks
    <2> HIDE DEF verdict
    <2>3. Check(verdict # "allow", verdict) \in Checks
        BY <2>1, CheckIsCheck
    <2> QED BY <2>2, <2>3
<1>6. CommandChecks(r) \in Seq(Checks)
    <2>1. /\ r.keyText.ascii \in BOOLEAN /\ r.keyText.blank \in BOOLEAN
          /\ r.title.blank \in BOOLEAN
        BY DEF Request, Texts
    <2>2. /\ Check(r.keyText.bytes \notin 1..128, "idempotency_key_length") \in Checks
          /\ Check(~r.keyText.ascii, "idempotency_key_charset") \in Checks
          /\ Check(r.title.blank, "title_required") \in Checks
          /\ Check(r.title.bytes > 200, "title_too_long") \in Checks
          /\ Check(r.keyText.blank, "idempotency_key_required") \in Checks
          /\ Check(r.description.bytes > 4000, "description_too_long") \in Checks
        BY <2>1 DEF Check, Checks, Codes
    <2> QED BY <2>2 DEF CommandChecks
<1>7. ServiceChecks(engine, r) \in Seq(Checks)
    BY <1>5, <1>6, ConcatProperties DEF ServiceChecks
<1> QED BY <1>2, <1>3, <1>4, <1>7

\* What comes before the payload on either side: a request that the extractors
\* take and that is a call of a tool served is refused for its token alone.
RestDoor(r) == << Check(~r.extracted, "rejected_by_extractor"),
                  Check(r.token # "accepted", "unauthorized") >>
McpDoor(m)  == << Check(m.frame = "not_jsonrpc", "rpc_invalid_request"),
                  Check(m.frame = "handshake", "rpc_handshake"),
                  Check(m.frame = "no_method", "rpc_method_not_found"),
                  Check(m.frame = "bad_params" \/ m.token = "absent", "rpc_invalid_params"),
                  Check(m.token = "refused", "unauthorized"),
                  Check(m.op = "unknown", "unknown_tool") >>

\* Zenon knows no sequences and SMT no Booleans in records: each has its part.
LEMMA CheckFields ==
    \A fails \in BOOLEAN : \A code :
       (Check(fails, code).fails <=> fails) /\ Check(fails, code).code = code
    BY DEF Check

LEMMA RestDoorIs ==
    ASSUME NEW r \in Request, r.token \in {"accepted", "refused"}
    PROVE  /\ RestDoor(r) \in Seq(Checks)
           /\ FirstFailure(RestDoor(r)) = IF ~r.extracted THEN "rejected_by_extractor"
                                           ELSE IF r.token = "refused" THEN "unauthorized"
                                           ELSE "accepted"
<1>1. RestDoor(r) \in Seq(Checks)
    <2>1. r.extracted \in BOOLEAN
        BY DEF Request
    <2>2. /\ Check(~r.extracted, "rejected_by_extractor") \in Checks
          /\ Check(r.token # "accepted", "unauthorized") \in Checks
        BY <2>1 DEF Check, Checks, Codes
    <2> QED BY <2>2 DEF RestDoor
<1>2. /\ DOMAIN RestDoor(r) = 1 .. 2
      /\ RestDoor(r)[1] = Check(~r.extracted, "rejected_by_extractor")
      /\ RestDoor(r)[2] = Check(r.token # "accepted", "unauthorized")
    BY DEF RestDoor
<1>3. RestDoor(r)[1].code = "rejected_by_extractor" /\ (RestDoor(r)[1].fails <=> ~r.extracted)
    <2>1. (~r.extracted) \in BOOLEAN
        BY DEF Request
    <2> QED BY <1>2, <2>1, CheckFields, Zenon
<1>4. RestDoor(r)[2].code = "unauthorized" /\ (RestDoor(r)[2].fails <=> r.token # "accepted")
    <2>1. (r.token # "accepted") \in BOOLEAN
        OBVIOUS
    <2> QED BY <1>2, <2>1, CheckFields, Zenon
<1>5. \A i \in 1 .. 2 : i = 1 \/ i = 2
    OBVIOUS
<1>6. CASE ~r.extracted
    <2>1. 1 \in Failing(RestDoor(r)) /\ \A i \in Failing(RestDoor(r)) : 1 <= i
        BY <1>2, <1>3, <1>5, <1>6 DEF Failing
    <2> QED BY <1>1, <1>3, <1>6, <2>1, FirstFailureIs
<1>7. CASE r.extracted /\ r.token = "refused"
    <2>1. 2 \in Failing(RestDoor(r)) /\ \A i \in Failing(RestDoor(r)) : 2 <= i
        BY <1>2, <1>3, <1>4, <1>5, <1>7 DEF Failing
    <2> QED BY <1>1, <1>4, <1>7, <2>1, FirstFailureIs
<1>8. CASE r.extracted /\ r.token = "accepted"
    <2>1. Failing(RestDoor(r)) = {}
        BY <1>2, <1>3, <1>4, <1>5, <1>8 DEF Failing
    <2> QED BY <1>1, <1>8, <2>1, FirstFailureIs
<1> QED BY <1>6, <1>7, <1>8

LEMMA McpDoorIs ==
    ASSUME NEW m, m.frame = "call", m.op # "unknown", m.token \in {"accepted", "refused"}
    PROVE  /\ McpDoor(m) \in Seq(Checks)
           /\ FirstFailure(McpDoor(m)) = IF m.token = "refused" THEN "unauthorized" ELSE "accepted"
<1> DEFINE frame == McpDoor(m)
<1>1. frame \in Seq(Checks)
    BY DEF McpDoor, Check, Checks, Codes
<1>2. /\ DOMAIN frame = 1 .. 6
      /\ frame[1] = Check(m.frame = "not_jsonrpc", "rpc_invalid_request")
      /\ frame[2] = Check(m.frame = "handshake", "rpc_handshake")
      /\ frame[3] = Check(m.frame = "no_method", "rpc_method_not_found")
      /\ frame[4] = Check(m.frame = "bad_params" \/ m.token = "absent", "rpc_invalid_params")
      /\ frame[5] = Check(m.token = "refused", "unauthorized")
      /\ frame[6] = Check(m.op = "unknown", "unknown_tool")
    BY DEF McpDoor
<1>3. /\ m.frame \notin {"not_jsonrpc", "handshake", "no_method", "bad_params"}
      /\ m.token # "absent" /\ m.op # "unknown"
    OBVIOUS
<1> HIDE DEF frame
<1>4. ~frame[1].fails
    BY <1>2, <1>3, CheckFields, Zenon
<1>5. ~frame[2].fails
    BY <1>2, <1>3, CheckFields, Zenon
<1>6. ~frame[3].fails
    BY <1>2, <1>3, CheckFields, Zenon
<1>7. ~frame[4].fails
    BY <1>2, <1>3, CheckFields, Zenon
<1>8. ~frame[6].fails
    BY <1>2, <1>3, CheckFields, Zenon
<1>9. frame[5].code = "unauthorized" /\ (frame[5].fails <=> m.token = "refused")
    <2>1. (m.token = "refused") \in BOOLEAN
        OBVIOUS
    <2>2. frame[5] = Check(m.token = "refused", "unauthorized")
        BY <1>2
    <2> QED BY <2>1, <2>2, CheckFields, Zenon
<1>10. \A i \in 1 .. 6 : i = 1 \/ i = 2 \/ i = 3 \/ i = 4 \/ i = 5 \/ i = 6
    OBVIOUS
<1>11. CASE m.token = "refused"
    <2>1. Failing(frame) = {5}
        BY <1>2, <1>4, <1>5, <1>6, <1>7, <1>8, <1>9, <1>10, <1>11 DEF Failing
    <2>2. FirstFailure(frame) = "unauthorized"
        BY <1>1, <1>9, <2>1, FirstFailureIs
    <2> QED BY <1>1, <1>11, <2>2 DEF frame
<1>12. CASE m.token = "accepted"
    <2>1. Failing(frame) = {}
        BY <1>2, <1>4, <1>5, <1>6, <1>7, <1>8, <1>9, <1>10, <1>12 DEF Failing
    <2>2. FirstFailure(frame) = "accepted"
        BY <1>1, <2>1, FirstFailureIs
    <2> QED BY <1>1, <1>12, <2>2 DEF frame
<1> QED BY <1>11, <1>12

\* A payload that is refused, is so before its id is looked at.
LEMMA RefusedPayload ==
    ASSUME NEW r, NEW refused \in BOOLEAN, refused
    PROVE  FirstFailure(PayloadChecks(refused, r)) = "invalid_payload"
<1> DEFINE payload == PayloadChecks(refused, r)
<1>1. payload \in Seq(Checks)
    BY PayloadIsChecks
<1>2. DOMAIN payload = 1 .. 2 /\ payload[1] = Check(refused, "invalid_payload")
    <2> DEFINE second == Check(r.op = "issue.get" /\ r.id = None, "invalid_issue_id")
               first  == Check(refused, "invalid_payload")
    <2>1. payload = << first, second >>
        BY DEF PayloadChecks
    <2> HIDE DEF first, second, payload
    <2>2. DOMAIN payload = 1 .. 2 /\ payload[1] = first
        BY <2>1
    <2> QED BY <2>2 DEF first
<1> HIDE DEF payload
<1>3. payload[1].fails /\ payload[1].code = "invalid_payload"
    BY <1>2, CheckFields, Zenon
<1>4. 1 \in Failing(payload) /\ \A i \in Failing(payload) : 1 <= i
    <2>1. 1 \in DOMAIN payload /\ \A i \in DOMAIN payload : 1 <= i
        BY <1>2
    <2> QED BY <1>3, <2>1, Zenon DEF Failing
<1>5. FirstFailure(payload) = "invalid_payload"
    BY <1>1, <1>3, <1>4, FirstFailureIs
<1> QED BY <1>5 DEF payload

\* REST and MCP refuse a request for the same of its defects, but for those
\* that REST alone is particular about; it then refuses what MCP may accept.
THEOREM TransportsRefuseAlike == Spec => []TransportsAgree
<1>1. ASSUME NEW r \in Request, OnBothTransports(r), NEW engine
      PROVE  \/ Refusal(engine, r) = Refusal(engine, OverMcp(r))
             \/ Refusal(engine, r) = "rejected_by_extractor" /\ ~r.extracted
             \/ /\ Refusal(engine, r) = "invalid_payload" /\ r.body = "repeated"
                /\ r.token = "accepted"
    <2> DEFINE m    == OverMcp(r)
               rest == PayloadChecks(r.body # "fine", r)
               mcp  == PayloadChecks(r.body = "malformed", r)
    <2>1. /\ r.via = "rest" /\ m.via = "mcp" /\ m.frame = "call"
          /\ r.token \in {"accepted", "refused"} /\ m.token = r.token
          /\ m.op = r.op /\ m.op # "unknown" /\ m.id = r.id /\ m.body = r.body
          /\ m.tenant = r.tenant /\ m.keyText = r.keyText
          /\ m.title = r.title /\ m.description = r.description
          /\ r.body \in {"fine", "repeated", "malformed"} /\ r.extracted \in BOOLEAN
        BY <1>1 DEF OnBothTransports, OverMcp, Request, Tokens, Bodies, ServiceOps, StoreOps
    <2>2. ServiceChecks(engine, m) = ServiceChecks(engine, r)
        BY <2>1 DEF ServiceChecks, PolicyChecks, CommandChecks, SubjectFromAuth
    <2>3. RestChecks(r) = RestDoor(r) \o rest /\ McpChecks(m) = McpDoor(m) \o mcp
        BY <2>1 DEF RestChecks, McpChecks, RestDoor, McpDoor, PayloadChecks
    <2>4. rest \in Seq(Checks) /\ mcp \in Seq(Checks)
        BY LayersAreChecks
    <2>5. r.body # "repeated" => rest = mcp
        BY <2>1
    <2>6. r.body = "repeated" => FirstFailure(rest) = "invalid_payload"
        BY <2>1, RefusedPayload
    <2> HIDE DEF m, rest, mcp
    <2>7. /\ RestChecks(r) \in Seq(Checks) /\ ServiceChecks(engine, r) \in Seq(Checks)
          /\ RestDoor(r) \in Seq(Checks) /\ McpDoor(m) \in Seq(Checks)
        BY <2>1, LayersAreChecks, RestDoorIs, McpDoorIs
    <2>8. Refusal(engine, r) = IF FirstFailure(RestChecks(r)) = "accepted"
                               THEN FirstFailure(ServiceChecks(engine, r))
                               ELSE FirstFailure(RestChecks(r))
        <3>1. Refusal(engine, r) = FirstFailure(RestChecks(r) \o ServiceChecks(engine, r))
            BY <2>1 DEF Refusal
        <3> QED BY <2>7, <3>1, FirstFailureOfBoth
    <2>9. Refusal(engine, m) = IF FirstFailure(McpChecks(m)) = "accepted"
                               THEN FirstFailure(ServiceChecks(engine, r))
                               ELSE FirstFailure(McpChecks(m))
        BY <2>1, <2>2 DEF Refusal
    <2>10. /\ FirstFailure(RestChecks(r)) = IF FirstFailure(RestDoor(r)) = "accepted"
                                            THEN FirstFailure(rest) ELSE FirstFailure(RestDoor(r))
           /\ FirstFailure(McpChecks(m)) = IF FirstFailure(McpDoor(m)) = "accepted"
                                           THEN FirstFailure(mcp) ELSE FirstFailure(McpDoor(m))
        BY <2>3, <2>4, <2>7, FirstFailureOfBoth
    <2>11. /\ FirstFailure(RestDoor(r)) = IF ~r.extracted THEN "rejected_by_extractor"
                                          ELSE IF r.token = "refused" THEN "unauthorized"
                                          ELSE "accepted"
           /\ FirstFailure(McpDoor(m)) = IF r.token = "refused" THEN "unauthorized" ELSE "accepted"
        BY <2>1, RestDoorIs, McpDoorIs
    <2>12. CASE ~r.extracted
        BY <2>8, <2>10, <2>11, <2>12
    <2>13. CASE r.extracted /\ r.token = "refused"
        BY <2>8, <2>9, <2>10, <2>11, <2>13 DEF m
    <2>14. CASE r.extracted /\ r.token = "accepted" /\ r.body = "repeated"
        BY <2>6, <2>8, <2>10, <2>11, <2>14
    <2>15. CASE r.extracted /\ r.token = "accepted" /\ r.body # "repeated"
        BY <2>5, <2>8, <2>9, <2>10, <2>11, <2>15 DEF m
    <2> QED BY <2>1, <2>12, <2>13, <2>14, <2>15
<1>2. RequestInv => TransportsAgree
    <2>1. ASSUME RequestInv, NEW s \in Sessions, stage[s] # "idle"
          PROVE  request[s] \in Request
        BY <2>1 DEF RequestInv, Local, Progress
    <2> QED BY <1>1, <2>1 DEF TransportsAgree
<1> QED BY <1>2, RequestInvariant, PTL

-----------------------------------------------------------------------------
(* One issue per key: the rows that open transactions hold and the rows    *)
(* that are committed have different keys, every record has its issue and  *)
(* no issue two records, and so the answers to issue.create agree about    *)
(* what a key stands for as long as its record is kept.                    *)

Creating(s) == request[s].op = "issue.create"

\* The primary keys of the migration, and idempotency_record's issue.
KeysAreUnique == \A a, b \in db : SameKey(a, b) => a = b

RecordsHaveIssues ==
    \A rec \in db : rec.table = "record" =>
        \E row \in db : row.table = "issue" /\ row.id = rec.ref /\ row.ws = rec.ws

\* No issue has two records, not even under different keys.
RecordsDiffer ==
    \A a, b \in db : a.table = "record" /\ b.table = "record" /\ a.ref = b.ref => a = b

\* What a transaction has inserted is new, and a record goes before its issue.
Holds(s) ==
    InTransaction(s) =>
        /\ \A a, b \in wrote[s] : SameKey(a, b) => a = b
        /\ \A a \in wrote[s] : \A b \in db : ~SameKey(a, b)
        /\ \A row \in wrote[s] : row.table = "record" =>
              Creating(s) /\ row = RecordRow(request[s], fresh[s])
        /\ stage[s] = "inserting" => \A row \in wrote[s] : row.table = "record"
        /\ stage[s] \in {"checking", "inserting", "committing"} /\ Creating(s) /\ found[s] = {} =>
              RecordRow(request[s], fresh[s]) \in wrote[s]
        /\ Creating(s) => \A rec \in found[s] : rec.id = request[s].key

\* No two open transactions have inserted the same key.
HeldKeysDiffer ==
    \A s, t \in Sessions : s # t /\ InTransaction(s) /\ InTransaction(t) =>
        \A a \in wrote[s] : \A b \in wrote[t] : ~SameKey(a, b)

\* The rows are the issue i, and its record, unless it has expired, is of the
\* key and the fingerprint of the request of s.
IssueOfKey(s, i, rows) ==
    /\ \E row \in db : /\ row.table = "issue" /\ row.id = i
                       /\ row.ws = request[s].tenant
                       /\ rows = {row}
    /\ \A rec \in db : rec.table = "record" /\ rec.ref = i => rec = RecordRow(request[s], i)

\* What the three answers of create_issue say about the key.
KeyTold(s) ==
    stage[s] = "answered" /\ Creating(s) =>
        /\ answer[s].code \in {"created", "replay"} =>
              \E i \in Names : IssueOfKey(s, i, answer[s].rows)
        /\ answer[s].code = "created" => IssueOfKey(s, fresh[s], answer[s].rows)
        /\ answer[s].code = "duplicate_issue_command" =>
              \E rec \in found[s] : /\ rec.table = "record" /\ rec.id = request[s].key
                                    /\ rec.ws = request[s].tenant
                                    /\ rec.print # request[s].print

KeyInv ==
    /\ KeysAreUnique /\ RecordsHaveIssues /\ RecordsDiffer /\ HeldKeysDiffer
    /\ \A s \in Sessions : Holds(s) /\ KeyTold(s)

\* What the answers of a create are named; a refusal or a failure is none.
KeyAnswers == {"created", "replay", "duplicate_issue_command"}

LEMMA SameKeyIsSymmetric ==
    ASSUME NEW a, NEW b, SameKey(a, b)
    PROVE  SameKey(b, a)
    BY DEF SameKey

LEMMA RefusalIsNoKeyAnswer ==
    ASSUME NEW r \in Request, NEW engine
    PROVE  Refusal(engine, r) \notin KeyAnswers
<1>1. ASSUME NEW checks \in Seq(Checks)
      PROVE  FirstFailure(checks) \in Codes \union {"accepted"}
    <2>1. CASE Failing(checks) = {}
        BY <2>1, FirstFailureIs
    <2>2. CASE Failing(checks) # {}
        <3>1. PICK i \in Failing(checks) : \A j \in Failing(checks) : i <= j
            BY <2>2, FirstFailureIs
        <3>2. FirstFailure(checks) = checks[i].code
            BY <3>1, FirstFailureIs
        <3>3. checks[i] \in Checks
            BY DEF Failing
        <3> QED BY <3>2, <3>3 DEF Checks
    <2> QED BY <2>1, <2>2
<1>2. /\ RestChecks(r) \in Seq(Checks) /\ McpChecks(r) \in Seq(Checks)
      /\ ServiceChecks(engine, r) \in Seq(Checks)
      /\ RestChecks(r) \o ServiceChecks(engine, r) \in Seq(Checks)
    BY LayersAreChecks, ConcatProperties
<1>3. r.via \in {"rest", "mcp", "store"}
    BY DEF Request, Vias
<1>4. Refusal(engine, r) \in Codes \union {"accepted"}
    BY <1>1, <1>2, <1>3 DEF Refusal
<1> QED BY <1>4 DEF Codes, DenyReasons, KeyAnswers

LEMMA OtherCodesAreNoKeyAnswers ==
    ASSUME NEW s, NEW r
    PROVE  FailureCode(r) \notin KeyAnswers /\ Missing(s) \notin KeyAnswers
<1>1. FailureCode(r) \notin KeyAnswers
    BY DEF FailureCode, KeyAnswers
<1>2. Missing(s) \in {"nothing", "workflow_version_not_found", "project_not_found",
                      "milestone_not_found", "milestone_project_mismatch"}
    BY DEF Missing
<1> QED BY <1>1, <1>2 DEF KeyAnswers

\* A step that commits nothing.
LEMMA QuietKeys ==
    ASSUME KeyInv, NEW s \in Sessions, Frame(s), db' = db,
           Holds(s)', KeyTold(s)',
           InTransaction(s)' =>
              \A t \in Sessions \ {s} : InTransaction(t) =>
                 \A a \in wrote'[s] : \A b \in wrote[t] : ~SameKey(a, b)
    PROVE  KeyInv'
<1>1. KeysAreUnique' /\ RecordsHaveIssues' /\ RecordsDiffer'
    BY DEF KeyInv, KeysAreUnique, RecordsHaveIssues, RecordsDiffer
<1>2. ASSUME NEW t \in Sessions \ {s}
      PROVE  Holds(t)' /\ KeyTold(t)' /\ (InTransaction(t)' <=> InTransaction(t))
    BY DEF KeyInv, Holds, KeyTold, IssueOfKey, InTransaction, Frame, Creating
<1>3. ASSUME NEW t \in Sessions, NEW u \in Sessions, t # u, InTransaction(t)',
             InTransaction(u)', NEW a \in wrote'[t], NEW b \in wrote'[u], SameKey(a, b)
      PROVE  FALSE
    <2>1. CASE t # s /\ u # s
        BY <1>2, <1>3, <2>1 DEF KeyInv, HeldKeysDiffer, Frame
    <2>2. CASE t = s
        BY <1>2, <1>3, <2>2 DEF Frame
    <2>3. CASE u = s
        BY <1>2, <1>3, <2>3, SameKeyIsSymmetric DEF Frame
    <2> QED BY <2>1, <2>2, <2>3
<1>4. HeldKeysDiffer'
    BY <1>3 DEF HeldKeysDiffer
<1> QED BY <1>1, <1>2, <1>4 DEF KeyInv

\* A session that leaves its transaction, or has none, without an answer about
\* a key.
LEMMA NoKeyAnswer ==
    ASSUME KeyInv, NEW s \in Sessions, Frame(s), db' = db, ~InTransaction(s)',
           stage'[s] = "answered" => answer'[s].code \notin KeyAnswers
    PROVE  KeyInv'
<1>1. Holds(s)' /\ KeyTold(s)'
    BY DEF Holds, KeyTold, KeyAnswers
<1> QED BY <1>1, QuietKeys

\* A session that goes on in its transaction with what it holds.
LEMMA SameRowsHeld ==
    ASSUME KeyInv, NEW s \in Sessions, Frame(s), db' = db, InTransaction(s),
           wrote'[s] = wrote[s], Holds(s)', stage'[s] # "answered"
    PROVE  KeyInv'
<1>1. KeyTold(s)'
    BY DEF KeyTold
<1> QED BY <1>1, QuietKeys DEF KeyInv, HeldKeysDiffer

-----------------------------------------------------------------------------
\* One lemma per kind of action.  The rows of a session that has not begun:
LEMMA ArrivalKeepsKeys ==
    ASSUME RequestInv, KeyInv, NEW s \in Sessions,
           Receive(s) \/ Begin(s) \/ BeginFails(s) \/ SetContext(s) \/ Forget(s)
    PROVE  KeyInv'
<1>1. TypeOK /\ Local(s)
    BY DEF RequestInv
<1>2. CASE Receive(s)
    <2>1. PICK r \in Sends[s] :
             \/ Answer(s, Refusal(policy, r), {})
             \/ stage' = [stage EXCEPT ![s] = "begin"] /\ UNCHANGED answer
        BY <1>2 DEF Receive
    <2>2. Refusal(policy, r) \notin KeyAnswers
        BY SendsAreRequests, RefusalIsNoKeyAnswer
    <2>3. db' = db /\ stage[s] = "idle"
        BY <1>2 DEF Receive
    <2>4. Frame(s)
        BY <1>1, <1>2 DEF Receive, Answer, TypeOK, Frame
    <2>5. ~InTransaction(s)' /\ (stage'[s] = "answered" => answer'[s].code \notin KeyAnswers)
        BY <1>1, <2>1, <2>2 DEF Answer, TypeOK, InTransaction, Open
    <2> QED BY <2>3, <2>4, <2>5, NoKeyAnswer
<1>3. CASE BeginFails(s)
    <2>1. FailureCode(request[s]) \notin KeyAnswers
        BY OtherCodesAreNoKeyAnswers
    <2>2. Frame(s) /\ db' = db
        BY <1>1, <1>3 DEF BeginFails, Answer, TypeOK, Frame
    <2>3. ~InTransaction(s)' /\ answer'[s].code \notin KeyAnswers
        BY <1>1, <1>3, <2>1 DEF BeginFails, Answer, TypeOK, InTransaction, Open
    <2> QED BY <2>2, <2>3, NoKeyAnswer
<1>4. CASE Forget(s)
    <2>1. Frame(s) /\ db' = db /\ stage'[s] = "idle"
        BY <1>1, <1>4 DEF Forget, TypeOK, Frame
    <2> QED BY <2>1, NoKeyAnswer DEF InTransaction, Open
<1>5. CASE Begin(s) \/ SetContext(s)
    <2>1. /\ stage[s] \in {"begin", "context"} /\ wrote[s] = {} /\ found[s] = {}
          /\ UNCHANGED <<db, request, fresh, found, wrote, answer>>
        BY <1>1, <1>5 DEF Begin, SetContext, Local, Progress, Early
    <2>2. Frame(s) /\ stage'[s] \notin {"idle", "answered", "committing"}
        <3>1. CASE Begin(s)
            BY <1>1, <3>1 DEF Begin, TypeOK, Frame
        <3>2. CASE SetContext(s)
            <4>1. stage' = [stage EXCEPT ![s] = FirstStage(request[s])]
                BY <3>2 DEF SetContext
            <4>2. FirstStage(request[s]) \in {"reserving", "checking", "inserting", "reading"}
                BY DEF FirstStage
            <4> QED BY <1>1, <2>1, <4>1, <4>2 DEF TypeOK, Frame
        <3> QED BY <1>5, <3>1, <3>2
    <2>3. Creating(s) => stage'[s] \in {"context", "reserving"}
        <3>1. CASE Begin(s)
            BY <1>1, <3>1 DEF Begin, TypeOK
        <3>2. CASE SetContext(s) /\ Creating(s)
            <4>1. stage' = [stage EXCEPT ![s] = FirstStage(request[s])]
                BY <3>2 DEF SetContext
            <4>2. FirstStage(request[s]) = "reserving"
                BY <3>2, FirstStageCases DEF Creating
            <4> QED BY <1>1, <4>1, <4>2 DEF TypeOK
        <3> QED BY <1>5, <3>1, <3>2
    <2>4. wrote'[s] = {} /\ found'[s] = {} /\ (Creating(s)' <=> Creating(s))
        BY <2>1 DEF Creating
    <2>5. Holds(s)'
        BY <2>2, <2>3, <2>4 DEF Holds
    <2>6. KeyTold(s)'
        BY <2>2 DEF KeyTold
    <2> QED BY <2>1, <2>2, <2>4, <2>5, <2>6, QuietKeys
<1> QED BY <1>2, <1>3, <1>4, <1>5

LEMMA FetchKeepsKeys ==
    ASSUME RequestInv, KeyInv, NEW s \in Sessions, Fetch(s)
    PROVE  KeyInv'
<1>1. /\ stage[s] = "reading" /\ stage' = [stage EXCEPT ![s] = "committing"]
      /\ UNCHANGED <<db, request, fresh, wrote, answer>>
      /\ wrote[s] = {} /\ request[s].op \notin Creates /\ TypeOK
    BY DEF Fetch, RequestInv, Local, Progress, Early
<1>2. Frame(s) /\ stage'[s] = "committing"
    BY <1>1 DEF Fetch, TypeOK, Frame
<1>3. ~Creating(s)' /\ wrote'[s] = {}
    BY <1>1 DEF Creating, Creates
<1>4. Holds(s)'
    BY <1>2, <1>3 DEF Holds
<1>5. InTransaction(s)
    BY <1>1 DEF InTransaction, Open
<1> QED BY <1>1, <1>2, <1>4, <1>5, SameRowsHeld

LEMMA ReserveKeepsKeys ==
    ASSUME RequestInv, KeyInv, NEW s \in Sessions, Reserve(s)
    PROVE  KeyInv'
<1> DEFINE row    == RecordRow(request[s], fresh[s])
           stored == {other \in Visible(s) : SameKey(row, other)}
<1>1. /\ stage[s] = "reserving" /\ MayWrite(s, row) /\ ~Awaits(s, row)
      /\ \/ /\ stored = {} /\ wrote' = [wrote EXCEPT ![s] = {row}]
            /\ stage' = [stage EXCEPT ![s] = "checking"] /\ UNCHANGED found
         \/ /\ stored # {} /\ found' = [found EXCEPT ![s] = stored]
            /\ stage' = [stage EXCEPT ![s] = "committing"] /\ UNCHANGED wrote
      /\ UNCHANGED <<db, policy, setting, conn, request, fresh, answer>>
      /\ TypeOK
      /\ found[s] = {} /\ wrote[s] = {}
      /\ Creating(s)
    BY DEF Reserve, RequestInv, Local, Progress, Early, Creating
<1>2. /\ row.table = "record" /\ row.id = request[s].key /\ row.ws = request[s].tenant
      /\ \A other \in db : SameKey(row, other) => other \in stored
    <2>1. row.table = "record" /\ row.id = request[s].key /\ row.ws = request[s].tenant
        BY DEF RecordRow
    <2>2. setting[conn[s]] = request[s].tenant
        BY <1>1, OpenIsTenant DEF Open
    <2>3. ASSUME NEW other \in db, SameKey(row, other)
          PROVE  other \in stored
        <3>1. other.ws = row.ws
            BY <2>1, <2>3 DEF SameKey
        <3>2. other \in Visible(s)
            BY <2>1, <2>2, <3>1 DEF Visible
        <3> QED BY <2>3, <3>2
    <2> QED BY <2>1, <2>3
<1>3. \A other \in stored : other.id = request[s].key
    BY <1>2 DEF SameKey
<1>4. /\ RecordRow(request'[s], fresh'[s]) = row /\ Creating(s)'
      /\ request'[s].key = request[s].key
    BY <1>1 DEF Creating
<1> HIDE DEF row, stored
<1>5. Frame(s) /\ stage'[s] \in {"checking", "committing"} /\ InTransaction(s)
    BY <1>1 DEF TypeOK, Frame, InTransaction, Open
<1>6. KeyTold(s)'
    BY <1>5 DEF KeyTold
<1>7. CASE stored = {} /\ wrote'[s] = {row} /\ stage'[s] = "checking" /\ found'[s] = {}
    <2>1. Holds(s)'
        BY <1>1, <1>2, <1>4, <1>7 DEF Holds
    <2>2. ASSUME NEW t \in Sessions \ {s}, InTransaction(t)
          PROVE  \A a \in wrote'[s] : \A b \in wrote[t] : ~SameKey(a, b)
        BY <1>1, <1>7, <2>2 DEF Awaits
    <2> QED BY <1>1, <1>5, <1>6, <2>1, <2>2, QuietKeys
<1>8. CASE wrote' = wrote /\ stage'[s] = "committing" /\ found'[s] = stored /\ stored # {}
    <2>1. Holds(s)'
        BY <1>1, <1>3, <1>4, <1>8 DEF Holds
    <2>2. wrote'[s] = {}
        BY <1>1, <1>8
    <2> QED BY <1>1, <1>5, <1>6, <2>1, <2>2, QuietKeys
<1> QED BY <1>1, <1>7, <1>8 DEF TypeOK

LEMMA RollBackKeepsKeys ==
    ASSUME RequestInv, KeyInv, NEW s \in Sessions, NEW code, code \notin KeyAnswers,
           RollBack(s, code)
    PROVE  KeyInv'
<1>1. Frame(s) /\ db' = db /\ stage'[s] = "answered" /\ answer'[s].code = code
    BY DEF RollBack, Answer, RequestInv, TypeOK, Frame
<1> QED BY <1>1, NoKeyAnswer DEF InTransaction, Open

LEMMA CheckParentsKeepsKeys ==
    ASSUME RequestInv, KeyInv, NEW s \in Sessions, CheckParents(s)
    PROVE  KeyInv'
<1>1. CASE RollBack(s, Missing(s))
    BY <1>1, OtherCodesAreNoKeyAnswers, RollBackKeepsKeys
<1>2. CASE /\ stage' = [stage EXCEPT ![s] = "inserting"]
           /\ UNCHANGED <<db, policy, setting, conn, request, fresh, found, wrote, answer>>
    <2>1. /\ stage[s] = "checking" /\ stage'[s] = "inserting" /\ Frame(s)
          /\ InTransaction(s)
        BY <1>2 DEF CheckParents, RequestInv, TypeOK, Frame, InTransaction, Open
    <2>2. \A row \in wrote[s] : row.table = "record"
        BY <2>1 DEF RequestInv, Local, RowsOf
    <2>3. Holds(s)'
        BY <1>2, <2>1, <2>2 DEF KeyInv, Holds, Creating
    <2> QED BY <1>2, <2>1, <2>3, SameRowsHeld
<1> QED BY <1>1, <1>2 DEF CheckParents

LEMMA InsertKeepsKeys ==
    ASSUME RequestInv, KeyInv, NEW s \in Sessions, Insert(s)
    PROVE  KeyInv'
<1>1. /\ stage[s] = "inserting" /\ ~Awaits(s, NewRow(s))
      /\ \A row \in db : ~SameKey(row, NewRow(s))
      /\ wrote' = [wrote EXCEPT ![s] = wrote[s] \union {NewRow(s)}]
      /\ stage' = [stage EXCEPT ![s] = "committing"]
      /\ UNCHANGED <<db, policy, setting, conn, request, fresh, found, answer>>
      /\ TypeOK /\ request[s].op \in Creates
      /\ InTransaction(s)
    BY DEF Insert, RequestInv, Local, Progress, InTransaction, Open
<1>2. NewRow(s).table # "record"
    BY <1>1, NewRowCases DEF Creates, ProjectRow, WorkspaceRow, IssueRow
<1>3. /\ Frame(s) /\ stage'[s] = "committing" /\ wrote'[s] = wrote[s] \union {NewRow(s)}
    BY <1>1 DEF TypeOK, Frame
<1>4. KeyTold(s)'
    BY <1>3 DEF KeyTold
<1>5. /\ \A a, b \in wrote[s] : SameKey(a, b) => a = b
      /\ \A a \in wrote[s] : \A b \in db : ~SameKey(a, b)
      /\ \A row \in wrote[s] : /\ row.table = "record" /\ Creating(s)
                               /\ row = RecordRow(request[s], fresh[s])
      /\ Creating(s) /\ found[s] = {} => RecordRow(request[s], fresh[s]) \in wrote[s]
      /\ Creating(s) => \A rec \in found[s] : rec.id = request[s].key
    BY <1>1 DEF KeyInv, Holds
<1>6. Holds(s)'
    <2>1. \A a, b \in wrote'[s] : SameKey(a, b) => a = b
        BY <1>2, <1>3, <1>5 DEF SameKey
    <2>2. \A a \in wrote'[s] : \A b \in db : ~SameKey(a, b)
        BY <1>1, <1>3, <1>5, SameKeyIsSymmetric
    <2>3. \A row \in wrote'[s] : row.table = "record" =>
             Creating(s) /\ row = RecordRow(request[s], fresh[s])
        BY <1>2, <1>3, <1>5
    <2> QED BY <1>1, <1>3, <1>5, <2>1, <2>2, <2>3 DEF Holds, Creating
<1>7. ASSUME NEW t \in Sessions \ {s}, InTransaction(t)
      PROVE  \A a \in wrote'[s] : \A b \in wrote[t] : ~SameKey(a, b)
    BY <1>1, <1>3, <1>7 DEF Awaits, KeyInv, HeldKeysDiffer
<1> QED BY <1>1, <1>3, <1>4, <1>6, <1>7, QuietKeys

\* The commit of a transaction that found no record of its key, or looked for
\* none: its rows are new to the store, and to the other transactions.
LEMMA CommitKeepsKeys ==
    ASSUME RequestInv, KeyInv, NEW s \in Sessions, Commit(s) \/ CommitUnanswered(s)
    PROVE  KeyInv'
<1>1. /\ stage[s] = "committing" /\ InTransaction(s)
      /\ db' = db \union wrote[s] /\ Release(s)
      /\ UNCHANGED <<policy, request, fresh, found, wrote>>
      /\ TypeOK
      /\ \A row \in found[s] \union wrote[s] : row.ws = request[s].tenant
      /\ \/ Answer(s, OutcomeCode(s), OutcomeRows(s))
         \/ Answer(s, FailureCode(request[s]), {})
    BY DEF Commit, CommitUnanswered, InTransaction, Open, RequestInv, TenantIsolation
<1>2. /\ \A row \in wrote[s] :
            row.table = "record" => row = RecordRow(request[s], fresh[s]) /\ Creating(s)
      /\ found[s] # {} => wrote[s] = {} /\ found[s] \subseteq db
      /\ Creating(s) /\ found[s] = {} => /\ IssueRow(request[s], fresh[s]) \in wrote[s]
                                         /\ RecordRow(request[s], fresh[s]) \in wrote[s]
      /\ Creating(s) => \A row \in found[s] : row.table = "record" /\ row.id = request[s].key
      /\ Creating(s) => fresh[s] \in Names
      /\ \A a, b \in wrote[s] : SameKey(a, b) => a = b
      /\ \A a \in wrote[s] : \A b \in db : ~SameKey(a, b)
    <2>1. RowsOf(s) /\ Progress(s)
        BY DEF RequestInv, Local
    <2>2. /\ \A a, b \in wrote[s] : SameKey(a, b) => a = b
          /\ \A a \in wrote[s] : \A b \in db : ~SameKey(a, b)
          /\ \A row \in wrote[s] :
                row.table = "record" => row = RecordRow(request[s], fresh[s]) /\ Creating(s)
          /\ Creating(s) /\ found[s] = {} => RecordRow(request[s], fresh[s]) \in wrote[s]
          /\ Creating(s) => \A rec \in found[s] : rec.id = request[s].key
        BY <1>1 DEF KeyInv, Holds
    <2>3. Creating(s) /\ found[s] = {} => IssueRow(request[s], fresh[s]) \in wrote[s]
        BY <1>1, <2>1, NewRowCases DEF RowsOf, Creating, Creates
    <2>4. Creating(s) => fresh[s] \in Names
        BY <1>1, <2>1, IssuesAreNames DEF Progress, Creating
    <2> QED BY <1>1, <2>1, <2>2, <2>3, <2>4 DEF RowsOf, Creating, Creates
<1>3. /\ Frame(s) /\ stage'[s] = "answered" /\ ~InTransaction(s)'
      /\ \/ answer'[s] = [code |-> OutcomeCode(s), rows |-> OutcomeRows(s)]
         \/ answer'[s] = [code |-> FailureCode(request[s]), rows |-> {}]
    BY <1>1 DEF Answer, TypeOK, Frame, InTransaction, Open
<1>4. KeysAreUnique'
    <2> SUFFICES ASSUME NEW a \in db', NEW b \in db', SameKey(a, b)
                 PROVE  a = b
        BY DEF KeysAreUnique
    <2> QED BY <1>1, <1>2, SameKeyIsSymmetric DEF KeyInv, KeysAreUnique
<1>5. RecordsHaveIssues'
    <2> SUFFICES ASSUME NEW rec \in db', rec.table = "record"
                 PROVE  \E row \in db' : row.table = "issue" /\ row.id = rec.ref /\ row.ws = rec.ws
        BY DEF RecordsHaveIssues
    <2>1. CASE rec \in db
        BY <1>1, <2>1 DEF KeyInv, RecordsHaveIssues
    <2>2. CASE rec \in wrote[s]
        <3>1. /\ IssueRow(request[s], fresh[s]) \in db' /\ rec.ref = fresh[s]
              /\ rec.ws = request[s].tenant
            BY <1>1, <1>2, <2>2 DEF RecordRow
        <3> QED BY <3>1 DEF IssueRow
    <2> QED BY <1>1, <2>1, <2>2
\* The new record is of the new issue, which no caller was told of before.
<1>51. ASSUME NEW rec \in wrote[s], rec.table = "record"
       PROVE  /\ rec.ref = fresh[s]
              /\ \A row \in db : /\ row.table = "issue" => row.id # rec.ref
                                 /\ row.table = "record" => row.ref # rec.ref
    <2>1. rec.ref = fresh[s] /\ Creating(s)
        BY <1>2, <1>51 DEF RecordRow
    <2>2. fresh[s] # None
        BY <1>2, <2>1, NoneIsNoName
    <2> QED BY <1>1, <2>1, <2>2 DEF RequestInv, Local, Unused
<1>52. RecordsDiffer'
    <2> SUFFICES ASSUME NEW a \in db', NEW b \in db', a.table = "record", b.table = "record",
                        a.ref = b.ref
                 PROVE  a = b
        BY DEF RecordsDiffer
    <2>1. CASE a \in db /\ b \in db
        BY <2>1 DEF KeyInv, RecordsDiffer
    <2>2. CASE a \in wrote[s] /\ b \in wrote[s]
        BY <1>2, <2>2
    <2>3. CASE a \in wrote[s] /\ b \in db
        BY <1>51, <2>3
    <2>4. CASE a \in db /\ b \in wrote[s]
        BY <1>51, <2>4
    <2> QED BY <1>1, <2>1, <2>2, <2>3, <2>4
<1>6. ASSUME NEW t \in Sessions \ {s}
      PROVE  Holds(t)' /\ KeyTold(t)' /\ (InTransaction(t)' <=> InTransaction(t))
    <2>1. /\ InTransaction(t)' <=> InTransaction(t)
          /\ Creating(t)' <=> Creating(t)
          /\ wrote'[t] = wrote[t] /\ request'[t] = request[t] /\ fresh'[t] = fresh[t]
          /\ stage'[t] = stage[t] /\ found'[t] = found[t] /\ answer'[t] = answer[t]
          /\ db \subseteq db'
        BY <1>3 DEF Frame, InTransaction, Creating
    <2>2. Holds(t)'
        <3> SUFFICES ASSUME InTransaction(t), NEW a \in wrote[t], NEW b \in db'
                     PROVE  ~SameKey(a, b)
            BY <2>1 DEF KeyInv, Holds
        <3> QED BY <1>1 DEF KeyInv, Holds, HeldKeysDiffer
    <2>3. ASSUME NEW i, IssueOfKey(t, i, answer[t].rows)
          PROVE  IssueOfKey(t, i, answer[t].rows)'
        <3>1. ASSUME NEW rec \in db', rec.table = "record", rec.ref = i
              PROVE  rec = RecordRow(request[t], i)
            <4> PICK row \in db : row.table = "issue" /\ row.id = i
                BY <2>3 DEF IssueOfKey
            <4>1. rec \notin wrote[s]
                BY <1>51, <3>1
            <4> QED BY <1>1, <2>3, <3>1, <4>1 DEF IssueOfKey
        <3> QED BY <2>1, <2>3, <3>1 DEF IssueOfKey
    <2>4. KeyTold(t)
        BY DEF KeyInv
    <2>5. IssueOfKey(t, fresh[t], answer[t].rows) => IssueOfKey(t, fresh[t], answer[t].rows)'
        <3>1. ASSUME NEW rec \in wrote[s], rec.table = "record", IssueOfKey(t, fresh[t], answer[t].rows)
              PROVE  rec.ref # fresh[t]
            <4> PICK row \in db : row.table = "issue" /\ row.id = fresh[t]
                BY <3>1 DEF IssueOfKey
            <4> QED BY <1>51, <3>1
        <3> QED BY <1>1, <2>1, <3>1 DEF IssueOfKey
    <2>6. KeyTold(t)'
        <3> SUFFICES ASSUME stage[t] = "answered", Creating(t)
                     PROVE  /\ answer[t].code \in {"created", "replay"} =>
                                 \E i \in Names : IssueOfKey(t, i, answer[t].rows)'
                            /\ answer[t].code = "created" => IssueOfKey(t, fresh[t], answer[t].rows)'
                            /\ answer[t].code = "duplicate_issue_command" =>
                                 \E rec \in found[t] : /\ rec.table = "record"
                                                       /\ rec.id = request[t].key
                                                       /\ rec.ws = request[t].tenant
                                                       /\ rec.print # request[t].print
            BY <2>1 DEF KeyTold
        <3> QED BY <2>1, <2>3, <2>4, <2>5 DEF KeyTold
    <2> QED BY <2>1, <2>2, <2>6
<1>7. HeldKeysDiffer'
    <2> SUFFICES ASSUME NEW t \in Sessions, NEW u \in Sessions, t # u, InTransaction(t)',
                        InTransaction(u)', NEW a \in wrote'[t], NEW b \in wrote'[u]
                 PROVE  ~SameKey(a, b)
        BY DEF HeldKeysDiffer
    <2>1. t # s /\ u # s
        BY <1>3
    <2> QED BY <1>3, <1>6, <2>1 DEF KeyInv, HeldKeysDiffer, Frame
<1>8. KeyTold(s)'
    <2> SUFFICES ASSUME Creating(s)
                 PROVE  /\ answer'[s].code \in {"created", "replay"} =>
                             \E i \in Names : IssueOfKey(s, i, answer[s].rows)'
                        /\ answer'[s].code = "created" => IssueOfKey(s, fresh[s], answer[s].rows)'
                        /\ answer'[s].code = "duplicate_issue_command" =>
                              \E rec \in found[s] : /\ rec.table = "record"
                                                    /\ rec.id = request[s].key
                                                    /\ rec.ws = request[s].tenant
                                                    /\ rec.print # request[s].print
        BY <1>1 DEF KeyTold, Creating
    <2>1. CASE answer'[s] = [code |-> FailureCode(request[s]), rows |-> {}]
        BY <2>1, OtherCodesAreNoKeyAnswers DEF KeyAnswers
    <2>2. CASE answer'[s] = [code |-> OutcomeCode(s), rows |-> OutcomeRows(s)] /\ found[s] = {}
        <3>1. OutcomeCode(s) = "created" /\ OutcomeRows(s) = {IssueRow(request[s], fresh[s])}
            BY <2>2, OutcomeCases, NewRowCases DEF Creating
        <3>2. /\ answer'[s].code = "created"
              /\ answer'[s].rows = {IssueRow(request[s], fresh[s])}
              /\ IssueRow(request[s], fresh[s]) \in db' /\ fresh[s] \in Names
            BY <1>1, <1>2, <2>2, <3>1
        <3>3. /\ IssueRow(request[s], fresh[s]).table = "issue"
              /\ IssueRow(request[s], fresh[s]).id = fresh[s]
              /\ IssueRow(request[s], fresh[s]).ws = request[s].tenant
            BY DEF IssueRow
        <3>4. ASSUME NEW rec \in db', rec.table = "record", rec.ref = fresh[s]
              PROVE  rec = RecordRow(request[s], fresh[s])
            <4>1. rec \notin db
                BY <1>1, <3>2, <3>4, NoneIsNoName DEF RequestInv, Local, Unused
            <4> QED BY <1>1, <1>2, <3>4, <4>1
        <3>5. IssueOfKey(s, fresh[s], answer[s].rows)'
            BY <1>1, <3>2, <3>3, <3>4 DEF IssueOfKey
        <3> QED BY <1>1, <3>2, <3>5
    <2>3. CASE answer'[s] = [code |-> OutcomeCode(s), rows |-> OutcomeRows(s)] /\ found[s] # {}
        <3>1. PICK rec \in found[s] : TRUE
            BY <2>3
        <3>2. /\ rec \in db /\ rec.table = "record" /\ rec.id = request[s].key
              /\ rec.ws = request[s].tenant /\ db' = db
            BY <1>1, <1>2, <2>3, <3>1
        <3>3. found[s] = {rec}
            <4>1. ASSUME NEW other \in found[s]
                  PROVE  other = rec
                <5>1. other \in db /\ SameKey(other, rec)
                    BY <1>1, <1>2, <2>3, <3>2 DEF SameKey
                <5> QED BY <3>2, <5>1 DEF KeyInv, KeysAreUnique
            <4> QED BY <3>1, <4>1
        <3>4. CASE rec.print = request[s].print
            <4>1. OutcomeCode(s) = "replay" /\ OutcomeRows(s) = Recorded(s)
                BY <2>3, <3>3, <3>4, OutcomeCases DEF OutcomeCode, Creating
            <4>2. PICK row \in db : row.table = "issue" /\ row.id = rec.ref /\ row.ws = rec.ws
                BY <3>2 DEF KeyInv, RecordsHaveIssues
            <4>3. Recorded(s) = {row}
                <5>1. ASSUME NEW other \in Recorded(s)
                      PROVE  other = row
                    BY <3>3, <4>2, <5>1 DEF Recorded, SameKey, KeyInv, KeysAreUnique
                <5>2. row \in Recorded(s)
                    BY <3>3, <4>2 DEF Recorded
                <5> QED BY <5>1, <5>2
            <4>4. rec \in Rows /\ row.id \in Names
                BY <1>1, <3>2, <4>2 DEF TypeOK, Rows
            <4>5. rec = RecordRow(request[s], row.id)
                BY <3>2, <3>4, <4>2, <4>4 DEF Rows, RecordRow
            <4>6. IssueOfKey(s, row.id, answer[s].rows)'
                <5>1. \A other \in db : other.table = "record" /\ other.ref = row.id => other = rec
                    BY <3>2, <4>2 DEF KeyInv, RecordsDiffer
                <5> QED BY <1>1, <2>3, <3>2, <4>1, <4>2, <4>3, <4>5, <5>1 DEF IssueOfKey
            <4> QED BY <2>3, <4>1, <4>4, <4>6
        <3>5. CASE rec.print # request[s].print
            <4>1. OutcomeCode(s) = "duplicate_issue_command"
                BY <2>3, <3>3, <3>5 DEF OutcomeCode, Creating
            <4> QED BY <2>3, <3>1, <3>2, <3>5, <4>1
        <3> QED BY <3>4, <3>5
    <2> QED BY <1>3, <2>1, <2>2, <2>3
<1>9. Holds(s)'
    BY <1>3 DEF Holds
<1> QED BY <1>4, <1>5, <1>52, <1>6, <1>7, <1>8, <1>9 DEF KeyInv

\* What is remembered less takes nothing back.
LEMMA CleanupKeepsKeys ==
    ASSUME KeyInv, CleanupIdempotency
    PROVE  KeyInv'
<1>1. /\ db' \subseteq db /\ \A row \in db : row.table # "record" => row \in db'
      /\ UNCHANGED <<policy, setting, conn, stage, request, fresh, found, wrote, answer>>
    BY DEF CleanupIdempotency
<1>2. KeysAreUnique' /\ RecordsHaveIssues' /\ RecordsDiffer' /\ HeldKeysDiffer'
    <2>1. KeysAreUnique' /\ RecordsDiffer'
        BY <1>1 DEF KeyInv, KeysAreUnique, RecordsDiffer
    <2>2. HeldKeysDiffer'
        BY <1>1 DEF KeyInv, HeldKeysDiffer, InTransaction
    <2>3. RecordsHaveIssues'
        <3> SUFFICES ASSUME NEW rec \in db', rec.table = "record"
                     PROVE  \E row \in db' : /\ row.table = "issue" /\ row.id = rec.ref
                                             /\ row.ws = rec.ws
            BY DEF RecordsHaveIssues
        <3>1. PICK row \in db : row.table = "issue" /\ row.id = rec.ref /\ row.ws = rec.ws
            BY <1>1 DEF KeyInv, RecordsHaveIssues
        <3> QED BY <1>1, <3>1
    <2> QED BY <2>1, <2>2, <2>3
<1>3. ASSUME NEW s \in Sessions
      PROVE  Holds(s)' /\ KeyTold(s)'
    <2>1. Holds(s) /\ KeyTold(s)
        BY DEF KeyInv
    <2>2. Holds(s)'
        BY <1>1, <2>1 DEF Holds, InTransaction, Creating
    <2>3. ASSUME NEW i, IssueOfKey(s, i, answer[s].rows)
          PROVE  IssueOfKey(s, i, answer[s].rows)'
        BY <1>1, <2>3 DEF IssueOfKey
    <2>4. IssueOfKey(s, fresh[s], answer[s].rows) => IssueOfKey(s, fresh[s], answer[s].rows)'
        BY <1>1 DEF IssueOfKey
    <2>5. KeyTold(s)'
        <3> SUFFICES ASSUME stage[s] = "answered", Creating(s)
                     PROVE  /\ answer[s].code \in {"created", "replay"} =>
                                 \E i \in Names : IssueOfKey(s, i, answer[s].rows)'
                            /\ answer[s].code = "created" => IssueOfKey(s, fresh[s], answer[s].rows)'
                            /\ answer[s].code = "duplicate_issue_command" =>
                                 \E rec \in found[s] : /\ rec.table = "record"
                                                       /\ rec.id = request[s].key
                                                       /\ rec.ws = request[s].tenant
                                                       /\ rec.print # request[s].print
            BY <1>1 DEF KeyTold, Creating
        <3> QED BY <2>1, <2>3, <2>4 DEF KeyTold
    <2> QED BY <2>2, <2>5
<1> QED BY <1>2, <1>3 DEF KeyInv

LEMMA KeyInvariant == Spec => [](RequestInv /\ KeyInv)
<1>1. Init => KeyInv
    <2> SUFFICES ASSUME Init PROVE KeyInv
        OBVIOUS
    <2>1. KeysAreUnique /\ RecordsHaveIssues /\ RecordsDiffer
        BY SeedIsConsistent DEF Init, KeysAreUnique, RecordsHaveIssues, RecordsDiffer
    <2>2. \A s \in Sessions : stage[s] = "idle"
        BY DEF Init
    <2> QED BY <2>1, <2>2 DEF KeyInv, HeldKeysDiffer, Holds, KeyTold, InTransaction, Open
<1>2. RequestInv /\ KeyInv /\ [Next]_vars => KeyInv'
    <2> SUFFICES ASSUME RequestInv, KeyInv, [Next]_vars PROVE KeyInv'
        OBVIOUS
    <2>1. ASSUME NEW s \in Sessions, Receive(s) \/ Serve(s) \/ Fail(s) \/ Forget(s)
          PROVE  KeyInv'
        <3>1. CASE \/ Receive(s) \/ Begin(s) \/ BeginFails(s) \/ SetContext(s) \/ Forget(s)
            BY <3>1, ArrivalKeepsKeys
        <3>2. CASE Fetch(s)             BY <3>2, FetchKeepsKeys
        <3>3. CASE Reserve(s)           BY <3>3, ReserveKeepsKeys
        <3>4. CASE CheckParents(s)      BY <3>4, CheckParentsKeepsKeys
        <3>5. CASE Insert(s)            BY <3>5, InsertKeepsKeys
        <3>6. CASE WriteRefused(s) \/ Abort(s)
            <4>1. RollBack(s, FailureCode(request[s]))
                BY <3>6 DEF WriteRefused, Abort
            <4> QED BY <4>1, OtherCodesAreNoKeyAnswers, RollBackKeepsKeys
        <3>7. CASE Commit(s) \/ CommitUnanswered(s)
            BY <3>7, CommitKeepsKeys
        <3> QED BY <2>1, <3>1, <3>2, <3>3, <3>4, <3>5, <3>6, <3>7 DEF Serve, Fail
    <2>2. CASE UNCHANGED vars
        BY <2>2 DEF vars, KeyInv, KeysAreUnique, RecordsHaveIssues, RecordsDiffer,
                    HeldKeysDiffer, Holds, KeyTold, IssueOfKey, InTransaction, Creating
    <2>3. CASE CleanupIdempotency
        BY <2>3, CleanupKeepsKeys
    <2> QED BY <2>1, <2>2, <2>3 DEF Next
<1> QED BY <1>1, <1>2, RequestInvariant, PTL DEF Spec

\* The primary keys, that no record is without its issue and no issue has two,
\* for all callers and whatever fails and expires: Awaits and the order of the
\* inserts see to it.
THEOREM TheStoreIsKeyed == Spec => [](KeysAreUnique /\ RecordsHaveIssues /\ RecordsDiffer)
<1>1. KeyInv => KeysAreUnique /\ RecordsHaveIssues /\ RecordsDiffer
    BY DEF KeyInv
<1> QED BY <1>1, KeyInvariant, PTL

\* What the callers of issue.create are told of a key, all of them and at all
\* times: created and replay hand over one issue of the tenant, and the record
\* of that issue, as long as it is kept, is of the key and the fingerprint of
\* the request; duplicate means that a record of the tenant under the key has
\* another fingerprint.
KeysAreTold == \A s \in Sessions : KeyTold(s)

THEOREM KeyAnswersAreExact == Spec => []KeysAreTold
<1>1. KeyInv => KeysAreTold
    BY DEF KeyInv, KeysAreTold
<1> QED BY <1>1, KeyInvariant, PTL

GivenIssue(s) ==
    stage[s] = "answered" /\ Creating(s) /\ answer[s].code \in {"created", "replay"}

\* No cleanup has deleted the record of the issue that s was given.
Remembered(s) ==
    \E rec \in db : rec.table = "record" /\ \E row \in answer[s].rows : row.id = rec.ref

\* Two requests of a tenant for one key.
SameCommand(r, q) == r.tenant = q.tenant /\ r.key = q.key

RememberedIsShared ==
    \A s, t \in Sessions :
        /\ GivenIssue(s) /\ Remembered(s) /\ GivenIssue(t) /\ Remembered(t)
        /\ SameCommand(request[s], request[t])
        => answer[s].rows = answer[t].rows /\ request[s].print = request[t].print

LEMMA RecordsAreShared == KeyInv => RememberedIsShared
<1> SUFFICES ASSUME KeyInv, NEW s \in Sessions, NEW t \in Sessions,
                    GivenIssue(s), Remembered(s), GivenIssue(t), Remembered(t),
                    SameCommand(request[s], request[t])
             PROVE  answer[s].rows = answer[t].rows /\ request[s].print = request[t].print
    BY DEF RememberedIsShared
<1>1. PICK i \in Names : IssueOfKey(s, i, answer[s].rows)
    BY DEF KeyInv, KeyTold, GivenIssue
<1>2. PICK j \in Names : IssueOfKey(t, j, answer[t].rows)
    BY DEF KeyInv, KeyTold, GivenIssue
<1>3. PICK a \in db : a.table = "issue" /\ a.id = i /\ answer[s].rows = {a}
    BY <1>1 DEF IssueOfKey
<1>4. PICK b \in db : b.table = "issue" /\ b.id = j /\ answer[t].rows = {b}
    BY <1>2 DEF IssueOfKey
<1>5. RecordRow(request[s], i) \in db
    BY <1>1, <1>3 DEF IssueOfKey, Remembered
<1>6. RecordRow(request[t], j) \in db
    BY <1>2, <1>4 DEF IssueOfKey, Remembered
<1>7. RecordRow(request[s], i) = RecordRow(request[t], j)
    <2>1. SameKey(RecordRow(request[s], i), RecordRow(request[t], j))
        BY DEF SameKey, RecordRow, SameCommand
    <2> QED BY <1>5, <1>6, <2>1 DEF KeyInv, KeysAreUnique
<1>8. i = j /\ request[s].print = request[t].print
    BY <1>7 DEF RecordRow
<1>9. a = b
    BY <1>3, <1>4, <1>8 DEF SameKey, KeyInv, KeysAreUnique
<1> QED BY <1>3, <1>4, <1>8, <1>9

\* Only an acknowledged commit gives an issue, and the record is there then.
LEMMA GivenByCommit ==
    ASSUME RequestInv, [Next]_vars, NEW t \in Sessions, stage[t] # "answered", GivenIssue(t)'
    PROVE  Commit(t)
<1>1. TypeOK /\ stage'[t] = "answered" /\ answer'[t].code \in {"created", "replay"}
    BY DEF RequestInv, GivenIssue
<1>2. PICK s \in Sessions : Receive(s) \/ Serve(s) \/ Fail(s) \/ Forget(s)
    BY <1>1 DEF Next, vars, CleanupIdempotency
<1>3. ASSUME NEW code, Answer(s, code, {}), code \notin KeyAnswers
      PROVE  FALSE
    BY <1>1, <1>3 DEF Answer, TypeOK, KeyAnswers
<1>4. CASE Receive(s)
    <2>1. PICK r \in Sends[s] :
             \/ Answer(s, Refusal(policy, r), {})
             \/ stage' = [stage EXCEPT ![s] = "begin"]
        BY <1>4 DEF Receive
    <2>2. Refusal(policy, r) \notin KeyAnswers
        BY SendsAreRequests, RefusalIsNoKeyAnswer
    <2> QED BY <1>1, <1>3, <2>1, <2>2 DEF TypeOK
<1>5. CASE Begin(s) \/ Fetch(s) \/ Reserve(s) \/ Insert(s) \/ Forget(s)
    BY <1>1, <1>5 DEF Begin, Fetch, Reserve, Insert, Forget, TypeOK
<1>6. CASE SetContext(s)
    BY <1>1, <1>6 DEF SetContext, FirstStage, TypeOK
<1>7. CASE CheckParents(s)
    BY <1>1, <1>3, <1>7, OtherCodesAreNoKeyAnswers DEF CheckParents, RollBack, TypeOK
<1>8. CASE WriteRefused(s) \/ Fail(s)
    BY <1>3, <1>8, OtherCodesAreNoKeyAnswers
    DEF WriteRefused, Fail, BeginFails, CommitUnanswered, Abort, RollBack
<1>9. CASE Commit(s)
    <2>1. s = t
        BY <1>1, <1>9 DEF Commit, Answer, TypeOK
    <2> QED BY <1>9, <2>1
<1> QED BY <1>2, <1>4, <1>5, <1>6, <1>7, <1>8, <1>9 DEF Serve

LEMMA CommitRemembers ==
    ASSUME RequestInv, KeyInv, NEW t \in Sessions, Commit(t), GivenIssue(t)'
    PROVE  Remembered(t)'
<1>1. /\ stage[t] = "committing" /\ Creating(t) /\ db' = db \union wrote[t]
      /\ answer'[t] = [code |-> OutcomeCode(t), rows |-> OutcomeRows(t)]
      /\ OutcomeCode(t) \in {"created", "replay"}
      /\ InTransaction(t)
    BY DEF Commit, Answer, GivenIssue, Creating, RequestInv, TypeOK, InTransaction, Open
<1>2. CASE found[t] = {}
    <2>1. RecordRow(request[t], fresh[t]) \in db'
        BY <1>1, <1>2 DEF KeyInv, Holds
    <2>2. answer'[t].rows = {IssueRow(request[t], fresh[t])}
        BY <1>1, <1>2, OutcomeCases, NewRowCases DEF Creating
    <2>3. /\ RecordRow(request[t], fresh[t]).table = "record"
          /\ IssueRow(request[t], fresh[t]).id = RecordRow(request[t], fresh[t]).ref
        BY DEF RecordRow, IssueRow
    <2> QED BY <2>1, <2>2, <2>3 DEF Remembered
<1>3. CASE found[t] # {}
    <2>1. OutcomeCode(t) = "replay" /\ OutcomeRows(t) = Recorded(t)
        BY <1>1, <1>3, OutcomeCases DEF OutcomeCode, Creating
    <2>2. PICK rec \in found[t] : rec.table = "record" /\ rec \in db
        BY <1>1, <1>3 DEF RequestInv, Local, RowsOf, Creating, Creates
    <2>3. PICK row \in db : row.table = "issue" /\ row.id = rec.ref
        BY <2>2 DEF KeyInv, RecordsHaveIssues
    <2>4. row \in Recorded(t)
        BY <2>2, <2>3 DEF Recorded
    <2> QED BY <1>1, <2>1, <2>2, <2>3, <2>4 DEF Remembered
<1> QED BY <1>2, <1>3

\* A caller served for a key is given the issue that every caller has who was
\* served for it before, and asked for the same: neither the retries of
\* reserve_idempotency nor anything that fails can part them, but the cleanup
\* of the record, after which a key makes another issue.
OneIssuePerKey ==
    [][\A s, t \in Sessions :
          /\ GivenIssue(s) /\ Remembered(s)
          /\ stage[t] # "answered" /\ GivenIssue(t)'
          /\ SameCommand(request[s], request[t])
          => answer'[t].rows = answer[s].rows /\ request[t].print = request[s].print]_vars

THEOREM CallersShareTheIssue == Spec => OneIssuePerKey
<1>1. ASSUME RequestInv, KeyInv, RememberedIsShared', [Next]_vars, NEW s \in Sessions, NEW t \in Sessions,
             GivenIssue(s), Remembered(s), stage[t] # "answered", GivenIssue(t)',
             SameCommand(request[s], request[t])
      PROVE  answer'[t].rows = answer[s].rows /\ request[t].print = request[s].print
    <2>1. Commit(t) /\ Remembered(t)'
        BY <1>1, GivenByCommit, CommitRemembers
    <2>2. s # t
        BY <1>1 DEF GivenIssue
    <2>3. /\ stage'[s] = stage[s] /\ answer'[s] = answer[s]
          /\ request' = request /\ db \subseteq db'
        BY <1>1, <2>1, <2>2 DEF Commit, Answer, RequestInv, TypeOK
    <2>4. /\ GivenIssue(s)' /\ Remembered(s)'
          /\ SameCommand(request'[s], request'[t])
        BY <1>1, <2>3 DEF GivenIssue, Remembered, Creating
    <2>5. answer'[s].rows = answer'[t].rows /\ request'[s].print = request'[t].print
        BY <1>1, <2>1, <2>4 DEF RememberedIsShared
    <2> QED BY <2>3, <2>5
<1>2. RequestInv /\ KeyInv /\ RememberedIsShared' /\ [Next]_vars =>
         [\A s, t \in Sessions :
             /\ GivenIssue(s) /\ Remembered(s)
             /\ stage[t] # "answered" /\ GivenIssue(t)'
             /\ SameCommand(request[s], request[t])
             => answer'[t].rows = answer[s].rows /\ request[t].print = request[s].print]_vars
    BY <1>1
<1> QED BY <1>2, RecordsAreShared, KeyInvariant, PTL DEF Spec, OneIssuePerKey

\* Who waits for a row that another has inserted or locked.
WaitsFor(s, t) ==
    /\ s # t /\ InTransaction(t)
    /\ \E row \in wrote[t] \union Locked(t) :
          \/ stage[s] = "reserving" /\ SameKey(RecordRow(request[s], fresh[s]), row)
          \/ stage[s] = "inserting" /\ SameKey(NewRow(s), row)

\* Awaits is the guard of Reserve and Insert: it fails when one waits.
LEMMA AwaitsIsWaiting ==
    ASSUME NEW s \in Sessions
    PROVE  /\ stage[s] = "reserving" =>
                 (Awaits(s, RecordRow(request[s], fresh[s])) <=> \E t \in Sessions : WaitsFor(s, t))
           /\ stage[s] = "inserting" =>
                 (Awaits(s, NewRow(s)) <=> \E t \in Sessions : WaitsFor(s, t))
    BY DEF Awaits, WaitsFor

\* The transaction that is waited for neither waits for a row nor asks the
\* pool for a connection: it has all it needs, so that no two or more requests
\* ever wait for each other, whatever their number and the size of the pool.
WaitsAreFlat ==
    \A s, t \in Sessions : WaitsFor(s, t) =>
        /\ conn[t] # None
        /\ \A u \in Sessions : ~WaitsFor(t, u)

THEOREM NobodyAwaitsAWaiter == Spec => []WaitsAreFlat
<1>1. ASSUME RequestInv, KeyInv, NEW s \in Sessions, NEW t \in Sessions, WaitsFor(s, t)
      PROVE  wrote[s] = {} /\ Locked(s) = {}
    <2>1. stage[s] \in {"reserving", "inserting"} /\ InTransaction(s)
        BY <1>1 DEF WaitsFor, InTransaction, Open
    <2>2. found[s] = {}
        BY <1>1, <2>1 DEF RequestInv, Local, Progress, Early
    <2> Locked(s) = {}
        BY <2>2 DEF Locked
    <2>3. CASE stage[s] = "reserving"
        BY <1>1, <2>2, <2>3 DEF RequestInv, Local, Progress, Early
    <2>4. CASE stage[s] = "inserting" /\ ~Creating(s)
        BY <1>1, <2>1, <2>2, <2>4 DEF KeyInv, Holds
    \* The issue has a new id: nobody else has inserted it, and it is no record.
    <2>5. CASE stage[s] = "inserting" /\ Creating(s)
        <3>1. PICK row \in wrote[t] \union Locked(t) : SameKey(NewRow(s), row)
            BY <1>1, <2>5 DEF WaitsFor
        <3>2. NewRow(s) = IssueRow(request[s], fresh[s])
            BY <2>5, NewRowCases DEF Creating
        <3>3. row.table = "issue" /\ row.id = fresh[s]
            BY <3>1, <3>2 DEF SameKey, IssueRow
        <3>4. row \in wrote[t]
            BY <3>1, <3>3 DEF Locked
        <3>5. fresh[t] # None /\ fresh[t] = fresh[s]
            BY <1>1, <3>3, <3>4 DEF RequestInv, Local, RowsOf
        <3>6. s = t
            BY <1>1, <3>5 DEF RequestInv, FreshIsUnique
        <3> QED BY <1>1, <3>6 DEF WaitsFor
    <2> QED BY <2>1, <2>3, <2>4, <2>5
<1>2. RequestInv /\ KeyInv => WaitsAreFlat
    <2> SUFFICES ASSUME RequestInv, KeyInv, NEW s \in Sessions, NEW t \in Sessions, WaitsFor(s, t)
                 PROVE  conn[t] # None /\ \A u \in Sessions : ~WaitsFor(t, u)
        BY DEF WaitsAreFlat
    <2>1. wrote[t] \union Locked(t) # {} /\ InTransaction(t)
        BY DEF WaitsFor
    <2>2. conn[t] # None
        BY <2>1 DEF RequestInv, PoolIsClean
    <2> QED BY <1>1, <2>1, <2>2
<1> QED BY <1>2, KeyInvariant, PTL

=============================================================================
