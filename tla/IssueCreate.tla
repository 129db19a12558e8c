---------------------------- MODULE IssueCreate ----------------------------
(***************************************************************************)
(* Idempotent, transactional issue creation in one workspace:              *)
(* IssueAppService::create_issue down to create_issue_transactional        *)
(* (crates/dandori-store/src/repositories/issue.rs), with concurrent and   *)
(* repeated requests, rollbacks, lost replies and the cleanup of expired   *)
(* idempotency records.                                                    *)
(*                                                                         *)
(* A transaction's statements are separate steps on rows that only it can  *)
(* see; Commit makes them visible.  The INSERT ... ON CONFLICT of the      *)
(* reservation waits while another open transaction has inserted the same  *)
(* key, and sees what that transaction left.                               *)
(***************************************************************************)
EXTENDS Naturals, FiniteSets, Sequences

CONSTANTS
    Keys,          \* idempotency keys
    Attempts,      \* calls of create_issue; an attempt names its fresh issue
    Bodies,        \* request bodies, up to what the fingerprint covers
    Projects, ProjectOf,              \* project_id of a body
    Milestones, MilestoneOf,          \* milestone_id of a body, or None
    MilestoneProject,                 \* project of each existing milestone
    LegacyText,    \* legacy_v1_fingerprint of a body: not injective
    Legacy,        \* body recorded per key by the release that wrote v1
    None,
    KeepFor,       \* life of a record: 7 days
    Retention,     \* idempotency_retention_hours of the worker
    MaxClock       \* bound on the clock

Issues == Attempts \union DOMAIN Legacy

ASSUME BodiesAreWellFormed ==
    /\ ProjectOf \in [Bodies -> Projects]
    /\ MilestoneOf \in [Bodies -> Milestones \union {None}]
    /\ DOMAIN MilestoneProject \subseteq Milestones
    /\ DOMAIN LegacyText = Bodies
ASSUME LegacyIsPartial ==
    /\ DOMAIN Legacy \subseteq Keys
    /\ \A k \in DOMAIN Legacy : Legacy[k] \in Bodies
ASSUME NamesAreDistinct ==
    Keys \intersect Attempts = {} /\ None \notin Issues \union Milestones
ASSUME TimesAreNaturals == KeepFor \in Nat /\ Retention \in Nat /\ MaxClock \in Nat

VARIABLES
    records,   \* table idempotency_record, by key
    tables,    \* issues with a row in issue, in activity, and in outbox
    projects,  \* table project
    holder,    \* the open transaction that has inserted a key, if any
    stage,     \* how far each attempt is
    request,   \* its key, body and idempotency_expires
    written,   \* statements its transaction has executed after the reservation
    reply,     \* what its caller was told
    clock,
    born       \* history: when and from which request each issue came

vars == <<records, tables, projects, holder, stage, request, written, reply, clock, born>>

-----------------------------------------------------------------------------
\* Faulty: the new hash is taken over the old, ambiguous text.
FingerprintOfText(body) == [version |-> "v2", of |-> LegacyText[body]]

\* create_issue_fingerprint hashes the canonical body under the prefix v2:
Fingerprint(body) == [version |-> "v2", of |-> body]

OldFingerprint(body) == [version |-> "v1", of |-> LegacyText[body]]

\* matches_request_fingerprint
Matches(stored, body) ==
    \/ stored = Fingerprint(body)
    \/ stored.version # "v2" /\ stored = OldFingerprint(body)

\* The statements after the reservation, in order.
Statements == <<"issue", "activity", "outbox", "payload">>
Tables     == {"issue", "activity", "outbox"}

Stages  == {"unborn", "reserving", "checking", "writing", "done"}
Errors  == {"project_not_found", "milestone_not_found",
            "milestone_project_mismatch", "conflict"}
Replies == [kind : {"none", "lost"} \union Errors, issue : {None}]
             \union [kind : {"created", "replay"}, issue : Issues]

NoRequest == [key |-> None, body |-> None, expires |-> 0]

LegacyRecord(k) ==
    [fingerprint |-> OldFingerprint(Legacy[k]), issue |-> k, expires |-> KeepFor]

Init ==
    /\ records  = [k \in Keys |-> IF k \in DOMAIN Legacy THEN LegacyRecord(k) ELSE None]
    /\ tables   = [t \in Tables |-> DOMAIN Legacy]
    /\ projects \in SUBSET Projects
    /\ holder   = [k \in Keys |-> None]
    /\ stage    = [a \in Attempts |-> "unborn"]
    /\ request  = [a \in Attempts |-> NoRequest]
    /\ written  = [a \in Attempts |-> <<>>]
    /\ reply    = [a \in Attempts |-> [kind |-> "none", issue |-> None]]
    /\ clock    = 0
    /\ born     = [i \in DOMAIN Legacy |->
                     [key |-> i, body |-> Legacy[i], at |-> 0, expires |-> KeepFor]]

-----------------------------------------------------------------------------
\* create_project, from the console that seeds a workspace.
CreateProject(p) ==
    /\ p \notin projects
    /\ projects' = projects \union {p}
    /\ UNCHANGED <<records, tables, holder, stage, request, written, reply, clock, born>>

\* A request arrives; create_issue_transactional reads Utc::now().
Begin(a, k, body) ==
    /\ stage[a] = "unborn"
    /\ stage'   = [stage EXCEPT ![a] = "reserving"]
    /\ request' = [request EXCEPT ![a] =
                     [key |-> k, body |-> body, expires |-> clock + KeepFor]]
    /\ UNCHANGED <<records, tables, projects, holder, written, reply, clock, born>>

\* Faulty: the response is built without the issue.
AnswerWithoutIssue(a, kind, issue) ==
    /\ reply' = [reply EXCEPT ![a] = [kind |-> kind, issue |-> None]]
    /\ stage' = [stage EXCEPT ![a] = "done"]

Answer(a, kind, issue) ==
    /\ reply' = [reply EXCEPT ![a] = [kind |-> kind, issue |-> issue]]
    /\ stage' = [stage EXCEPT ![a] = "done"]

\* Faulty: the reservation does not wait for an open one of the same key.
ReserveUnawaited(a) ==
    /\ stage[a] = "reserving" /\ records[request[a].key] = None
    /\ holder' = [holder EXCEPT ![request[a].key] = a]
    /\ stage'  = [stage EXCEPT ![a] = "checking"]
    /\ UNCHANGED <<records, tables, projects, request, written, reply, clock, born>>

\* reserve_idempotency, up to branch_on_stored_fingerprint for the loser, whose
\* transaction writes nothing more and is one step here.  Its DO UPDATE also locks
\* the stored record until it ends, which others on the key can only wait for:
\* that lock is Locked in RequestPath.
Reserve(a) ==
    LET k      == request[a].key
        stored == records[k]
    IN  /\ stage[a] = "reserving"
        /\ holder[k] = None
        /\ \/ /\ stored = None
              /\ holder' = [holder EXCEPT ![k] = a]
              /\ stage'  = [stage EXCEPT ![a] = "checking"]
              /\ UNCHANGED reply
           \/ /\ stored # None
              /\ IF Matches(stored.fingerprint, request[a].body)
                 THEN Answer(a, "replay", stored.issue)
                 ELSE Answer(a, "conflict", None)
              /\ UNCHANGED holder
        /\ UNCHANGED <<records, tables, projects, request, written, clock, born>>

\* Faulty: the inserts ran outside the transaction.
RollbackKeepingRows(a) ==
    /\ holder'  = [k \in Keys |-> IF holder[k] = a THEN None ELSE holder[k]]
    /\ written' = [written EXCEPT ![a] = <<>>]
    /\ tables'  = [t \in Tables |-> IF \E n \in DOMAIN written[a] : written[a][n] = t
                                    THEN tables[t] \union {a} ELSE tables[t]]
    /\ UNCHANGED <<records, projects, request, clock, born>>

\* Faulty: the reservation was committed on its own and stays.
RollbackKeepingRecord(a) ==
    /\ holder'  = [k \in Keys |-> IF holder[k] = a THEN None ELSE holder[k]]
    /\ records' = [k \in Keys |-> IF holder[k] # a THEN records[k]
                                  ELSE [fingerprint |-> Fingerprint(request[a].body),
                                        issue   |-> None,
                                        expires |-> request[a].expires]]
    /\ written' = [written EXCEPT ![a] = <<>>]
    /\ UNCHANGED <<tables, projects, request, clock, born>>

\* Faulty: the transaction is leaked and keeps its key.
RollbackLeaked(a) ==
    /\ written' = [written EXCEPT ![a] = <<>>]
    /\ UNCHANGED <<records, tables, projects, holder, request, clock, born>>

\* Dropping the transaction releases the key and undoes its statements.
Rollback(a) ==
    /\ holder'  = [k \in Keys |-> IF holder[k] = a THEN None ELSE holder[k]]
    /\ written' = [written EXCEPT ![a] = <<>>]
    /\ UNCHANGED <<records, tables, projects, request, clock, born>>

\* ensure_project_exists, then ensure_milestone_belongs_to_project
Refusal(body) ==
    CASE ProjectOf[body] \notin projects -> "project_not_found"
      [] MilestoneOf[body] = None -> "none"
      [] MilestoneOf[body] \notin DOMAIN MilestoneProject -> "milestone_not_found"
      [] MilestoneProject[MilestoneOf[body]] # ProjectOf[body] ->
           "milestone_project_mismatch"
      [] OTHER -> "none"

Check(a) ==
    LET refusal == Refusal(request[a].body)
    IN  /\ stage[a] = "checking"
        /\ IF refusal = "none"
           THEN /\ stage' = [stage EXCEPT ![a] = "writing"]
                /\ UNCHANGED <<records, tables, projects, holder, request,
                               written, reply, clock, born>>
           ELSE Answer(a, refusal, None) /\ Rollback(a)

\* The next insert, or update_idempotency_payload.
Write(a) ==
    /\ stage[a] = "writing"
    /\ Len(written[a]) < Len(Statements)
    /\ written' = [written EXCEPT ![a] = Append(@, Statements[Len(@) + 1])]
    /\ UNCHANGED <<records, tables, projects, holder, stage, request, reply, clock, born>>

Wrote(a, statement) == \E n \in DOMAIN written[a] : written[a][n] = statement

\* The transaction's rows become visible.  The payload is the placeholder
\* "reserving", shown as None, until update_idempotency_payload ran.
Publish(a) ==
    LET r == request[a]
    IN  /\ tables' = [t \in Tables |->
                        IF Wrote(a, t) THEN tables[t] \union {a} ELSE tables[t]]
        /\ records' = [records EXCEPT ![r.key] =
                         [fingerprint |-> Fingerprint(r.body),
                          issue   |-> IF Wrote(a, "payload") THEN a ELSE None,
                          expires |-> r.expires]]
        /\ born' = [i \in DOMAIN born \union {a} |->
                      IF i = a THEN [key |-> r.key, body |-> r.body,
                                     at |-> clock, expires |-> r.expires]
                               ELSE born[i]]
        /\ holder' = [holder EXCEPT ![r.key] = None]
        /\ UNCHANGED <<projects, request, written, clock>>

Commit(a) ==
    /\ stage[a] = "writing"
    /\ Len(written[a]) = Len(Statements)
    /\ Publish(a)
    /\ Answer(a, "created", a) \/ Answer(a, "lost", None)

\* A statement errs, the connection drops or the server dies before the
\* commit; the caller gets an internal error or nothing.
Lose(a) ==
    /\ stage[a] \in {"reserving", "checking", "writing"}
    /\ Answer(a, "lost", None)
    /\ Rollback(a)

\* Faulty: the retention counts from the creation, not from the expiry.
CleanupByAge ==
    LET expired == {k \in Keys : records[k] # None
                                   /\ records[k].expires + Retention < clock + KeepFor}
    IN  /\ expired # {}
        /\ records' = [k \in Keys |-> IF k \in expired THEN None ELSE records[k]]
        /\ UNCHANGED <<tables, projects, holder, stage, request, written,
                       reply, clock, born>>

\* cleanup_idempotency by a worker: expires_at < now - retention.
CleanupIdempotency ==
    LET expired == {k \in Keys : records[k] # None
                                   /\ records[k].expires + Retention < clock}
    IN  /\ expired # {}
        /\ records' = [k \in Keys |-> IF k \in expired THEN None ELSE records[k]]
        /\ UNCHANGED <<tables, projects, holder, stage, request, written,
                       reply, clock, born>>

Tick ==
    /\ clock < MaxClock
    /\ clock' = clock + 1
    /\ UNCHANGED <<records, tables, projects, holder, stage, request, written,
                   reply, born>>

Proceed(a) == Reserve(a) \/ Check(a) \/ Write(a) \/ Commit(a)

Next ==
    \/ \E p \in Projects : CreateProject(p)
    \/ \E a \in Attempts, k \in Keys, body \in Bodies : Begin(a, k, body)
    \/ \E a \in Attempts : Proceed(a) \/ Lose(a)
    \/ CleanupIdempotency
    \/ Tick

\* PostgreSQL runs every statement it was sent, and wakes the waiters of a
\* key when its holder ends.
Spec == Init /\ [][Next]_vars /\ \A a \in Attempts : WF_vars(Proceed(a))

-----------------------------------------------------------------------------
(* Properties.                                                             *)

Fingerprints == [version : {"v2"}, of : Bodies]
                  \union [version : {"v1"}, of : {LegacyText[b] : b \in Bodies}]

Record == [fingerprint : Fingerprints, expires : Nat, issue : Issues \union {None}]

ASSUME NoneIsNoRecord == None \notin Record

\* Every variable has its type.
TypeOK ==
    /\ records \in [Keys -> Record \union {None}]
    /\ tables \in [Tables -> SUBSET Issues]
    /\ projects \subseteq Projects
    /\ holder \in [Keys -> Attempts \union {None}]
    /\ stage \in [Attempts -> Stages]
    /\ request \in [Attempts -> [key : Keys \union {None}, body : Bodies \union {None},
                                expires : Nat]]
    /\ written \in [Attempts -> Seq(Tables \union {"payload"})]
    /\ \A a \in Attempts :
         /\ stage[a] = "unborn" \/ request[a] \in [key : Keys, body : Bodies, expires : Nat]
         /\ written[a] = SubSeq(Statements, 1, Len(written[a]))
    /\ reply \in [Attempts -> Replies]
    /\ clock \in 0 .. MaxClock
    /\ DOMAIN born \subseteq Issues

\* Replies tell the truth and creation is all or nothing: an issue has its
\* activity and its outbox row or does not exist; one reported as created
\* exists, and a refused or replayed attempt left nothing behind.
CreationIsAtomic ==
    /\ \A t, u \in Tables : tables[t] = tables[u]
    /\ \A a \in Attempts :
         /\ reply[a].kind = "created" => a \in tables["issue"]
         /\ reply[a].kind \in Errors \union {"none", "replay"} => a \notin tables["issue"]

\* No other transaction ever sees the "reserving" placeholder: a record on
\* view names an issue that exists and was created under its key.
RecordsAreFinal ==
    \A k \in Keys :
        records[k] # None =>
            /\ records[k].issue \in tables["issue"]
            /\ born[records[k].issue].key = k

\* A replay answers with the issue that this very request created, or, for
\* records of the first release, one whose v1 text is the same.
ReplaysAreFaithful ==
    \A a \in Attempts :
        reply[a].kind = "replay" =>
            LET i == reply[a].issue
            IN  /\ i \in tables["issue"]
                /\ born[i].key = request[a].key
                /\ \/ born[i].body = request[a].body
                   \/ /\ i \in DOMAIN Legacy
                      /\ LegacyText[born[i].body] = LegacyText[request[a].body]

\* Retried, concurrent and lost requests create one issue per key: two
\* issues share a key only if the record of the one had expired, and been
\* retained in full, before the other was created.
OneIssuePerKey ==
    \A i, j \in DOMAIN born :
        i # j /\ born[i].key = born[j].key =>
            \/ born[i].expires + Retention < born[j].at
            \/ born[j].expires + Retention < born[i].at

\* Attempts that wait for each other's reservation are all answered, even
\* when the transactions they wait for fail.
EveryAttemptIsAnswered ==
    \A a \in Attempts : stage[a] = "reserving" ~> stage[a] = "done"

\* What a caller was told, in the terms of CreateOnce.
Said(r) ==
    CASE r.kind = "none"                  -> None
      [] r.kind = "lost"                  -> "lost"
      [] r.kind \in Errors                -> "refused"
      [] r.kind \in {"created", "replay"} -> r.issue

Promise == INSTANCE CreateOnce WITH
    book   <- [k \in Keys |-> IF records[k] = None THEN None ELSE records[k].issue],
    made   <- tables["issue"],
    answer <- [a \in Attempts |-> Said(reply[a])]

\* Interleaved statements, rollbacks and waits amount to CreateOnce: issue
\* and record appear in one instant, or neither does.
CreatesOnce == Promise!Spec

=============================================================================
