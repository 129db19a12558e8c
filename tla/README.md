# dandori: specifications and proofs

TLA+ modules for the parts of dandori whose correctness rests on order, timing
and failure: the transactional outbox and the workers that drain it, the registry
that routes its events, idempotent issue creation, the path of a request through
transport, policy and the row level security of its transaction, the leasing of
workspaces, the circuit breaker, and the rotation of the signing keys. TLC checks
each on a small instance. TLAPS proves the safety properties that hold of it, but not its
liveness, for every value of the constants.

Every definition is a translation of the Rust and SQL at the lines `PROJECT.json`
gives under `map`. Paths below are relative to the repository; `store/` stands
for `crates/dandori-store/src/`, `worker/` for
`crates/dandori-app-services/src/worker/`.

## 1. The system

dandori is an issue tracker for agents. API and MCP servers create issues in
PostgreSQL; each creation also writes an activity row and an *outbox* row in the
same transaction. Worker processes discover workspaces from the database, lease
them, lease batches of outbox rows in each, dispatch the events over HTTP, and
record the outcomes.

| Component | State | Operations | Interacts with |
|---|---|---|---|
| Outbox store (`store/repositories/outbox.rs`) | table `outbox`: status, attempts, available_at, lease columns | insert, `lease_outbox_batch`, `mark_outbox_delivered`, `mark_outbox_failed`, `cleanup_outbox` | called by issue creation (insert) and by the workers |
| Worker cycle (`worker/service.rs`) | a batch and its outcomes, in memory | `run_tenant_cycle`: lease, dispatch concurrently, mark one by one, clean up | outbox store, registry, publisher |
| Issue creation (`store/repositories/issue.rs`, `dandori-app-services/src/service.rs`) | tables `issue`, `activity`, `outbox`, `idempotency_record` | `create_issue`, `cleanup_idempotency` | clients that retry; the worker's cleanup |
| Partition leasing (`store/repositories/partition.rs`, `worker/service.rs`, `bin/dandori-worker`) | table `worker_partition_lease`; `partition_state` in memory | `acquire_partitions`, `release_partitions`, `run_once`, `run_loop` | other workers, through the table only |
| Circuit breaker (`worker/publish.rs`) | two atomics | `breaker_open`, `record_success`, `record_transient_failure` | all dispatches of a process |
| JWKS keyset (`crates/dandori-auth`) | a keyset behind a lock | background refresh, `authenticate_token` | the issuer; every request |
| Event registry (`worker/registry.rs`) | handlers per type and version, in a map and in a sorted list | `register`, `resolve`, `dispatch` | worker cycle |
| Transports (`bin/dandori-api`, `bin/dandori-mcp`, `adapters.rs`) | none | the checks of a request, the mapping of errors | clients; the service |
| Policy engine (`crates/dandori-policy`) | a matrix or a list, fixed at start-up | `evaluate` | the service |
| Domain (`crates/dandori-domain`) | none | `IdempotencyKey::new`, `validate` | the service |
| Tenant isolation (`store/repositories/`, RLS policies) | a setting of the pooled connection | `set_config(..., true)` in each transaction, and the transactions of `workspace`, `project` and `issue` | every store call |
| Workflow, graph, orchestrator, GitHub sync | none | validators of a document | nothing calls them yet |
| Configuration, migrations, observability | none that matters here | parsing, DDL, logging | |

What is hard, component by component, and what makes it correct:

* **Outbox store.** Callers read "now" from their own clocks long before a
  transaction runs, and go on using a lease after it has expired. Correct means:
  only the newest lease settles a message; an outcome is recorded once; a settled
  message never returns; the attempt count is exact and the budget holds.
* **Worker cycle.** Dispatches complete in any order, marks come late, the
  endpoint takes an event whose reply is lost, workers crash between any two
  steps, one mark that errs drops the rest of the batch. Correct means: two
  workers do not hold one message at once; what is marked delivered was taken;
  attempts are only charged for dispatches; every message is settled in the end.
* **Issue creation.** Concurrent requests with one key queue on a unique index; a
  transaction fails between any two statements; the commit's reply is lost;
  records expire and are cleaned up; old records carry a weaker fingerprint.
  Correct means: all rows or none, one issue per key, replays tell the truth, and
  everybody who waits is answered.
* **Partition leasing.** One statement reads its snapshot before it writes;
  runs outlast leases; workers leave or die. Correct means: an acquisition is
  exclusive for its window; nobody deletes what a peer owns; workspaces of a dead
  worker are taken over.
* **Circuit breaker.** Two atomics without a lock, and an instant that may be very
  old. Correct means: it opens for a reason, holds calls back while open, and
  closes when the endpoint has healed.
* **JWKS keyset.** A refresh fails, hangs, or yields a document that is refused.
  Correct means: no mixture of documents, no outage for tokens that are valid
  throughout, and a bound on how long a withdrawn key lives.
* **Event registry.** Handlers are registered in any order and kept twice. Correct
  means: the map and the list agree, and a message goes to the handler registered
  last for the highest version not above its own.
* **Request path.** Two transports and three layers each check a part of a request;
  then one transaction runs on a pooled connection, whose tenant is a setting on
  that connection; statements, connections and commits fail at any point.
  Correct means: no tenant is handed or writes a row of another, and each finds its
  own; no setting stays behind in the pool; an answer says what happened; both
  transports refuse alike, but for what only REST looks at; and everyone who waits is
  answered.

`PROJECT.json` lists the hazards at their lines with the properties that watch them.

## 2. Modules

    OutboxPromise <--implements-- OutboxStore <--EXTENDS-- OutboxWorker
    CreateOnce    <--implements-- IssueCreate
    Policy <--EXTENDS-- Requests <--EXTENDS-- RequestPath
    PartitionLease      CircuitBreaker      JwksKeyset      EventRegistry

Each `MC*` module gives the constants of one of these their values for TLC, and
each `*_proofs` module holds the theorems about the one it is named after;
`OutboxWorker_proofs` uses those of `OutboxStore_proofs`.
Operators whose comment begins with "Faulty" are variants of the definition that
follows them, with a plausible bug. No specification uses them: they serve to
see that the property that should notice the bug does.

### OutboxStore and OutboxPromise

One row per message; `absent` and `deleted` rows are not in the table. Each
operation of `outbox.rs` is one transaction that locks the rows it decides on, so
it is one action:

| Code | Definition |
|---|---|
| insert in `create_issue_transactional` | `Enqueue` |
| candidates query: `WHERE`, `ORDER BY`, `LIMIT ... SKIP LOCKED` | `Eligible`, `Before`, `IsBatch` (the rows others have locked are any set) |
| update of the candidates and the returned rows | `LeaseBatch` (`LeasedRow`, `GrantOf`) |
| `validate_lease_transition` and the owner check | `LeaseIsCurrent` |
| `mark_outbox_delivered` | `MarkDelivered` |
| `mark_outbox_failed`, `dead_letter_now` | `MarkFailed`, `Exhausted` |
| both deletes of `cleanup_outbox` | `CleanupOutbox` |

`StoreSpec` lets any worker call with any grant ever handed out, its own or
another's, at any member of `Instants`: instants are unrelated from call to call,
which covers skewed clocks and calls that are delayed. Tokens are UUID v7 made
per call and never reused; the model numbers them in the order of the calls, and
only the proofs and properties ever compare them by order: the code compares
for equality. Two history variables record the grants and the committed outcomes.

`OutboxPromise` is what remains when clocks, owners and columns are forgotten: a
message is queued once, claimed under ever newer claims, and settled by the
newest claim alone. `KeepsPromise` is the refinement: `Stage` maps the status,
the lease token is the claim.

### OutboxWorker

Composes the store's actions with `run_tenant_cycle`. A worker's `pc` follows the
code: read the clock (`StartCycle`), lease (`Lease`), dispatch all of the batch in
any order (`Publish`), then for each outcome in order of completion read the
clock (`CallMark`) and mark (`Mark`); the first mark that errs returns from the
cycle and drops the other outcomes (`AbortCycle`); otherwise the cycle ends with
`Cleanup`. Because the clock is read in one step and the transaction runs in
another, a lease may be born expired and a mark be late.

The endpoint's answers are five: taken; taken but the reply lost; a transient
failure; a terminal one; and a terminal one whose text does not fit `last_error`
(the CHECK at `migration_sql.rs:125` refuses the update). A store call whose
connection is lost, before or after its commit, is `Crash` as well: either way
the cycle is over and its memory gone.

### IssueCreate and CreateOnce

`create_issue` with the statements of `create_issue_transactional` as separate
steps: the reservation (`Reserve`) waits while another open transaction has
inserted the same key, and otherwise sees what is committed; then the project and
milestone checks (`Check`), the three inserts and the update of the payload
(`Write`), and `Commit`, whose reply may be lost. `Lose` is any failure before the
commit. A replay is answered in the step that reads the record: its transaction writes nothing,
and the row lock its `DO UPDATE` takes makes others on the key wait, no more; `RequestPath` has
that lock. `written` holds what an open transaction has written, and is not visible
to others. A body is an abstract value; `LegacyText` maps bodies to v1
fingerprints and is not injective, as the concatenation in
`legacy_v1_fingerprint` is not. The v2 fingerprint is a SHA-256 over a serialised
tuple and is taken to be injective.

`CreateOnce` is the promise without transactions: under a free key an issue and
its record appear in one instant, under a taken key nothing is created.

### PartitionLease

The table, and for each worker the loop around it. `acquire_partitions` is one SQL
statement but looks at the table twice: the snapshot picks the candidates (`Pick`,
with the scan's LIMIT in `Scan`) and the `WHERE` of `ON CONFLICT DO UPDATE` tests
each row again as it is written (`Take`). Tenant cycles begin in order, up to
`tenant_max_concurrency` at a time. `Leave` is ctrl-c, which is polled between
runs; `FailAcquisition` the error that ends the loop; both lead to `Release`,
which may fail. `Crash` leaves the leases behind. Each worker reads the clock of its own host,
`Clock`, which is `Skew` ahead of the slowest. A window is open (`WindowOpen`) while it is by
everybody's clock: a peer whose clock is ahead may take a workspace over that much earlier than its
holder believes.

### CircuitBreaker

Every load, store and `fetch_add` of `HttpOutboxPublisher` is a step of its own; a
call's `now_epoch` is the clock at its start, however late it reports. No step
reads both atomics, so interleaving covers what the memory orderings allow.

### JwksKeyset

`Keyset` and `Parses` are `parse_jwks`: one key that cannot be used refuses the
document, the last of two keys with one kid counts, the first without a kid is the
fallback. `Selected` and `Accepts` are `authenticate_token`; as in the code, the
fallback is of no use once there is a keyed entry. The refresh task sleeps,
loads under its timeout and backs off. The issuer publishes the documents of
`Editions` one after the other and may be down at any time. `steady` counts
the ticks since it last changed or failed. Signature checks and the claims belong
to the jsonwebtoken library and are external: a token verifies under the key
that signed it.

### EventRegistry

`Register` is `register`: the handler goes into the map (`by_key`), and `Place` is
what `push` and the stable `sort_by_key` do to the list of its type. `Resolve` is
the lookup in the map and the search from the end of the list; `ResolveSchemaVersion`
counts every field that is no `u32` as version 1; `Dispatch` is the outcome. The property states
with `MeantFor` which version a message is of, and does not use that conversion.
Worker cycles use the registry of `default_registry`, with one handler, so
`OutboxWorker` has the three outcomes as answers of the endpoint.

### Policy, Requests and RequestPath

`Policy` is both engines of `dandori-policy`. `Requests` lists the checks of each layer
in the order of the code, as a sequence of conditions with the code each refuses with:
`RestChecks`, `McpChecks`, `PolicyChecks`, `CommandChecks`; `Refusal` is the first
that fails. A text is its length, whether it is blank and whether it is ASCII. `RestChecks`
begins with axum's extractors, which run before the handler sees a token (`extracted`). A body is
fine, malformed, or names a field twice: over REST `from_slice` refuses the last, over MCP the
arguments have been a `serde_json::Value` in which the last of the two fields is left.

`RequestPath` sends such requests through one process. A session is a caller with one
request at a time: `Receive` refuses it or lets it pass; `Begin` borrows a connection
and `SetContext` is the `set_config` that row level security reads; then come the
statements (`Fetch`, or `Reserve`, `CheckParents`, `Insert`), and `Commit`. `Visible` and
`MayWrite` are the `USING` and `WITH CHECK` of the policies; a statement has no tenant
condition of its own where the SQL has none, as in `get_issue` and `get_project`.
`Abort` is a statement that fails, a connection that breaks or a request that is
dropped, at any point; `CommitUnanswered` is a commit whose reply is lost.
`Awaits` is PostgreSQL's wait for an open transaction that has inserted the same key, or holds its
record locked (`Locked`) since its own reservation lost to it. `CleanupIdempotency` is the worker's
deletion of expired records; it has no clock, and any record may have expired. The
bodies of issue creation are one step each here and `IssueCreate`'s subject there.

### Worth knowing

Behaviours of the code that the models keep and that no property forbids:

* Marks that come after the lease has expired are refused, and their attempts not
  counted: `max_attempts` bounds the failures that were *recorded*
  (`AttemptsCountFailures`), and a message whose batches outlast `lease_seconds` is
  dispatched more often than that.
* A success that was under way when the breaker opened closes it at once, although
  the comment at `publish.rs:70-73` has it stay open for the cooldown.
* `get_issue` and `get_project` rely on row level security alone. FORCE applies it to the
  owner of the tables too; `TenantIsolation` assumes only that the server's role is no
  superuser and has no BYPASSRLS. The scan for workspaces (`SECURITY DEFINER`), on the
  other hand, crosses tenants only if the owner of the function does bypass it, which
  `PartitionLease!Scan` assumes.
* `CreateIssueCommandV1::validate` counts bytes where its message and the CHECK of
  the table speak of characters: a title of 200 characters that are not ASCII is refused.
* A create for a workspace that has no row is answered with a 500, not with
  `project_not_found`: the foreign key of `idempotency_record` fails before the project
  is looked for (`InWorkspace` in `Reserve`).
* REST and MCP do not refuse everything alike. `body: Bytes` and `Path<String>` are extracted before
  `rest_create_issue` and `rest_get_issue` begin: a body over axum's default limit is answered with
  413, and a path that is not UTF-8 with 400, without the error envelope and whatever the token. MCP
  has no such checks. And a body that names a field twice creates the issue over MCP and is an
  `invalid_payload` over REST. `TransportsAgree` allows these two differences and no other, so REST
  accepts no request of the model that MCP refuses.
* A `schema_version` that is negative, no number, or above `u32::MAX` counts as 1.

## 3. What TLC checks

| Run | Specification | What it shows |
|---|---|---|
| `outbox_store` | `StoreSpec` | leases fence, outcomes are single and final, attempts count failures, the budget holds, and the table implements `OutboxPromise` |
| `outbox_workers` | `OutboxWorker!Spec` | at most one worker holds an open lease of a message; delivered messages were taken, whatever the order of completion; attempts were dispatches |
| `outbox_takeover` | `PromptSpec` | every message is settled, although workers crash twice between them |
| `issue_create` | `IssueCreate!Spec` | atomicity, no placeholder on view, faithful replays, one issue per key while its record is kept, every waiter answered, `CreateOnce` implemented |
| `partition_leases` | `PartitionLease!Spec` | exclusive ownership inside the window, nobody removes a peer's lease, workspaces within reach are served again and again |
| `circuit_breaker` | `CircuitBreaker!Spec` | outages are justified and bounded, no call passes while it is open, the breaker closes when the endpoint has healed |
| `jwks_rotation` | `JwksKeyset!Spec` | the keyset is one whole document, withdrawn keys die within `CatchUp`, rotation is seamless |
| `request_path` | `RequestPath!Spec` | no tenant is handed or writes another's row, and each finds its own; the pool carries no setting; answers are true; both transports refuse alike; every request is answered |
| `event_registry` | `EventRegistry!Spec` | in any order of registration, a message is routed to the newest handler not above its version |

Three more runs show a disagreement between a statement in the repository and what
the code does; each is a finding in `PROJECT.json`:

| Run | Claim | What happens |
|---|---|---|
| `terminal_errors` | README.md:116-117, terminal errors dead-letter immediately | the body of a 4xx answer is the error text; longer than 4000 characters, the CHECK on `last_error` refuses the mark, the rest of the batch is dropped, and the message is dispatched again when its lease expires |
| `tenant_twice` | `worker/mod.rs:4-5`, peers never double-process a tenant | nothing renews a partition lease during a run; a run that outlasts it shares its tenants with a peer. The row leases keep this harmless (`OneHolder`) |
| `tenant_starved` | README.md:107-110, workers discover workspaces without static sharding | the scan's LIMIT applies before workspaces of peers are filtered out: the ones behind the first `partition_batch` are never leased in the default window |

### Bounds

* `outbox_store`: two messages, two workers, batches of one, four leases, a budget
  of two attempts, leases of one tick and instants 0 and 2. A lease made at 0 has
  expired at 2 and one made at 2 has not at 0, so takeovers, late marks and
  clocks that run backwards all occur; four leases let a message be leased, taken
  over, failed and leased again while the other is settled.
* `outbox_workers`: both messages in one batch, three leases, two dispatches of
  each message, one crash, leases of one tick in a clock of three readings: the
  second worker can take over from the first while its dispatches are out. The
  answers are taken, lost and rejected; the others differ only in how a mark ends and
  have runs of their own. `MaxDispatches` and `MaxLeases` cut off behaviours, so
  deadlock is not checked here.
* `outbox_takeover`: one message, two workers, two crashes, every answer that fits.
  Its clock and counters are bounded above what any behaviour uses: two failures at most,
  two crashes, and time that moves only while a row waits. TLC checks deadlock, and a
  bound that was reached would break the property.
* `issue_create`: two attempts, two keys, four bodies (two with one v1 text, one with
  a milestone of another project, one with a milestone that does not exist), and a
  record of the first release on one key. Records live one tick and are kept one
  more in a clock of three: the key becomes free again. Attempts end, so deadlock
  is not checked.
* `partition_leases`: two workers, two workspaces, leases of two ticks and a clock of
  five, so that leases expire and are taken over twice; one worker goes. Past
  `MaxClock` time moves only while a worker that is gone holds a lease. The clock of one host is
  one ahead, half a lease. 31,669 states. The two runs that refute claims have equal clocks.
* `circuit_breaker`: three calls, threshold two, three failures: two calls can report
  at once, and the breaker opens a second time on a stale count.
* `jwks_rotation`: five documents, with an overlap, a duplicate kid, one that is refused,
  one without kids; interval 2, maximum 5, timeout 2, so that the delay grows in two
  steps and meets its cap.

* `request_path`: three sessions on two connections, so that a request waits for the pool while
  the two that have a connection wait for each other's key, or die. One creates over REST, with
  every combination of four defects (size, token, repeated field, malformed); one creates over MCP,
  with another body, with a milestone of another project, and for a workspace that has no
  row; one gets over REST, also the other tenant's issue, and creates projects through the store,
  also for the other tenant. Two issue ids, one key, three policies, one with an override. 130,856
  states. Deadlock is checked.
* `event_registry`: six handlers, two of one version, up to five registrations of each
  type, versions 0 to 5, messages of every version up to one above that or with
  none. Registration ends, so deadlock is not checked.

### Fairness, and why the code justifies it

* `PromptSpec` (`EventuallySettled`). Weak fairness of each worker's steps: `run_loop`
  calls `run_once` for ever, the HTTP client has a timeout, and the database answers or
  errs. Crashes are not fair, and a crashed worker is restarted. The
  assumption that matters is that the clock stands still while a worker holds a
  batch: *no cycle outlasts its lease*. The code does not enforce it (with
  the defaults a batch may take 40 s and a lease lasts 30 s); without it marks may be
  late for ever. Answers are the
  ones that fit; with `verbose` a message is never settled, as `terminal_errors` shows.
* `IssueCreate!Spec`. Weak fairness of each transaction's next step: PostgreSQL runs
  the statements it is sent and wakes those who wait on a key when its holder
  ends. `Lose` is not fair.
* `PartitionLease!Spec`. Weak fairness of the loop's steps and of time; leaving,
  crashing and errors are not fair.
* `CircuitBreaker!Spec`. Weak fairness of each call's steps (the client has a timeout)
  and of time; that the endpoint fails at most `MaxFailures` times is the meaning
  of "has recovered".
* `RequestPath!Spec`. Strong fairness of each request's steps: the wait for a connection
  and for a row that another transaction has inserted or locked are queues, of sqlx and of
  PostgreSQL, so a request whose turn comes again and again is served. Failures, cleanups and
  arrivals are not fair: that the pool's timeout may answer a request does not count.
* `JwksKeyset` has no liveness property: `CaughtUp` bounds the delay in ticks. It
  rests on timers that fire on time, which is the guard of `Tick`.

## 4. What is proved

Each theorem holds for every value of the constants that satisfies the named
assumptions of its module (`ASSUME` in the module; TLC evaluates them in each
run): messages and instants are natural numbers, NULL is no worker, `max_attempts` is at
least one, and the like. Bounds such as `MaxClock` are constants too, and may be
any natural number.

| Module | Theorems | Properties |
|---|---|---|
| `OutboxStore_proofs` | `TypeCorrect`, `LeasesAreGranted`, `SettlesOnce`, `SettlesForGood`, `BudgetIsKept`, `FailuresAreCounted`, `StaleLeasesAreFenced`, `StoreKeepsPromise` (refinement), `Fencing` (the invariant) | `TypeOK`, `LeaseColumns`, `OneOutcomePerLease`, `SettledForGood`, `BudgetLeft`, `AttemptsCountFailures`, `NewestLeaseSettles`, `KeepsPromise` |
| `OutboxWorker_proofs` | `WorkersAreTyped`, `DeliveriesWereTaken`, `AttemptsAreDispatches`, `HoldersExclude`; the store's results for the composition: `WorkersSettleOnce`, `WorkersAreFenced`, `WorkersStayInBudget`, `WorkersKeepThePromise` | `WorkerTypeOK`, `DeliveredWasTaken`, `AttemptsWereMade`, `OneHolder`; `OneOutcomePerLease`, `SettledForGood`, `LeaseColumns`, `NewestLeaseSettles`, `BudgetLeft`, `AttemptsCountFailures`, `KeepsPromise` |
| `IssueCreate_proofs` | `CreationIsTyped`, `CreationIsAllOrNothing`, `RecordsNameIssues`, `ReplaysAreOfTheRequest`, `KeysCreateOnce`, `CreationKeepsPromise` (refinement) | `TypeOK`, `CreationIsAtomic`, `RecordsAreFinal`, `ReplaysAreFaithful`, `OneIssuePerKey`, `CreatesOnce` |
| `RequestPath_proofs` | `RequestTypes`, `TenantsAreIsolated`, `ThePoolIsClean`, `AnswersAreTrue`, `TenantsFindTheirRows`, `TransportsRefuseAlike` | `TypeOK`, `TenantIsolation`, `PoolIsClean`, `AnswersTellTheTruth`, `TenantsSeeTheirRows`, `TransportsAgree` |
| `PartitionLease_proofs` | `LeasesAreTyped`, `OwnershipStays`, `OwnershipIsDefinitive`; about the two findings: `BriefCyclesExclude`, `TheRestIsStarved` | `TypeOK`, `OwnershipIsRecorded`, `DefinitiveOwnership`; `NeverDoubleProcessed`, `EveryWorkspaceIsServed` |
| `CircuitBreaker_proofs` | `BreakerTypes`, `OutagesAreJustified`, `OpenBreakerHolds` | `TypeOK`, `OutageIsJustified`, `NoSendWhileOpen` |
| `JwksKeyset_proofs` | `KeysetsAreTyped`, `RotationsAreSeamless`, `KeysetCatchesUp`, `WithdrawnKeysRefused` | `TypeOK`, `RotationIsSeamless`, `CaughtUp`, `WithdrawnKeysAreRefused` |
| `EventRegistry_proofs` | `RoutingIsRight` | `RoutesToNewestKnown` |

Some theorems say what no run asks, because it is about arbitrary numbers or takes the
invariant of a proof to state. Their formulas are defined in the proof modules, next to them:

| Theorem | What it adds |
|---|---|
| `TakeoverAwaitsExpiry`, `SkewShortensLeases` (`OutboxWorker_proofs`) | without any assumption on the clocks, of two holders of a message one has a lease that *some* worker has seen expire; with clocks at most `skew` apart, a lease is exclusive until `skew` before its end. `HoldersExclude` is the case of equal clocks |
| `NothingIsStuck` (`OutboxWorker_proofs`) | a pending row is due, a failed one within a backoff, a leased one within the lease length: what `EventuallySettled` rests on |
| `RetriesAreToldTheSame`, `RecordsAreKeptAsWritten` (`IssueCreate_proofs`) | what the *callers* are told of one key agrees until record and retention have run out; no record is overwritten or removed early |
| `HoldersAreNotWaiting` (`IssueCreate_proofs`) | who holds a key waits for nothing: what `EveryAttemptIsAnswered` rests on |
| `TheStoreIsKeyed`, `KeyAnswersAreExact`, `CallersShareTheIssue` (`RequestPath_proofs`) | under one connection pool, row level security and both transports, a tenant's key has one record and an issue at most one; what callers are told of a key is the issue of its record; and two of them are told of the same one unless the record was cleaned up in between |
| `NobodyAwaitsAWaiter` (`RequestPath_proofs`) | requests never wait for each other's inserted or locked rows in a circle, and who is waited for has its connection, however few there are: what `EveryRequestIsAnswered` rests on |
| `LeasesExpire` (`PartitionLease_proofs`) | no row outlives the lease length by its owner's clock: what `ScannedAreServed` rests on |
| `OnlyScannedAreLeased` (`PartitionLease_proofs`) | a worker serves the workspaces of its scan and no others |
| `RegistrationsAreLocal` (`EventRegistry_proofs`) | a registration reroutes messages of its own type and from its own version on, to itself, and no others |

`BriefCyclesExclude` and `TheRestIsStarved` draw the line around two of the findings. The first has
a condition on the behaviour, `[]CyclesAreBrief`: while no cycle runs past the window of its lease, by any worker's clock, peers
never process a tenant twice, so the missing renewal is all that is wrong with the claim. The
second assumes the deployment the finding is about, the default window and more workspaces than
`partition_batch`, and shows that there *no* behaviour serves every workspace.

Hardly any of the properties is inductive. The invariants that are, and why:

* **Outbox store: `Fenced`.** That a lease settles its message once follows
  only if one knows that a settled row has lost the token, and that no later lease
  can bring it back; that in turn needs an order on leases. So: every granted or
  settled token is at most `lastToken` (`TokensAreNumbered`); no grant of a leased row is
  newer than the one it carries (`NewestHolds`); every outcome of a leased row is older than
  that one (`HeldIsUnsettled`); together with `LeaseColumns`, `OneOutcomePerLease` and
  `SettledForGood`. The action property and the refinement use the same invariant: a mark
  that passes `LeaseIsCurrent` holds the newest grant, so the abstract `Settle` is enabled.
  The actions are first rewritten as the changes they make to rows (the `...IsStep`
  lemmas). `FailuresAreCounted` adds that the set of outcomes is finite: a mark adds an
  element that was not in it, by `MarkSettlesNewest`. The lemmas of a step (`NextFenced`,
  `NextBudgeted`, `NextCounted`, `NextPromise`) assume only `StoreStep`, one of the changes to rows or
  none. `OutboxWorker_proofs` shows that each step of a worker is one (`StepsOfTheStore`), and so
  has all of the store's results for `OutboxWorker!Spec`.
* **Workers: `WorkerInv`.** On top of `Fenced`, the outcomes a worker has in memory
  are the endpoint's (`AnswersWereGiven`), and one that could still be charged to
  its row stands for one dispatch more than the row has been charged for
  (`AnswersAreAhead`): this is what crashes and takeovers must not disturb.
* **Workers: `HolderInv`,** for `OneHolder`. What a worker holds is on its row or
  has expired for some worker (`HeldOrExpired`); a lease is taken over only when its time is
  past by the instant the new holder read, and no instant read is ahead of that worker's clock
  (`AskedBefore`). None of it assumes anything of the clocks; only the theorems that turn "for some
  worker" into "for its holder" do. `HoldersExclude` assumes `ClocksAgree`: with skewed
  clocks a fast worker takes over what a slow one still believes in, and `SkewShortensLeases` says for
  how long.
* **Workers: `WaitsAreBounded`.** Inductive with `WorkerInv`: a step either leaves a row
  alone while time passes (`BoundStays`) or writes an instant computed from a clock.
* **Issue creation: `CreateInv`.** A transaction past its reservation holds a key that
  has no record (`KeysAreHeld`); the tables hold what was born, and a reply tells of it
  (`TablesAgree`); a record has the key, fingerprint and expiry of its issue (`RecordsTell`);
  an issue without a record has outlived its expiry and retention
  (`UnrecordedHaveExpired`), without which `OneIssuePerKey` says nothing of a key that is free.
  `BornAsAsked` adds that an issue is born with the key and body of its attempt,
  `WritingEnds` that no transaction executes more than its statements. The
  refinement maps `Commit` to the abstract creation and all else before it to a stutter.
* **Request path: `RequestInv`.** `PoolIsClean` and `TenantIsolation` with what each
  session has at each stage of its request (`Local`), the uniqueness of fresh ids, and
  that a record and its issue are of one workspace (`RecordsMatch`), on which replays rest.
  `KeyInv` adds the idempotency keys: committed records differ in tenant or key
  (`KeysAreUnique`) and have their issue (`RecordsHaveIssues`); two open transactions hold different
  keys (`HeldKeysDiffer`), and none a committed one (`Holds`), which is the work of
  the unique index and of the wait in `Awaits`; what a caller was told stays true of
  the committed record as long as it is kept (`KeyTold`). `CallersShareTheIssue` is an action
  property for that reason: it compares whoever is given an issue with all whose record is kept at
  that step (`Remembered`). That the records a run starts with satisfy this is the assumption
  `SeedIsConsistent`. `TransportsAgree` needs only that the first failure
  of two lists of checks in a row is that of the first, or else of the second
  (`FirstFailureOfBoth`), and then compares the lists part by part, REST's extractors and
  payload checks aside.
* **Partition leases: `LeaseInv`.** A worker's acquisitions only move forward in
  time by its own clock (`AcquisitionsAdvance`), so that a statement that runs late overwrites no row whose
  window is open; `OwnershipIsRecorded` is part of the invariant and implies `DefinitiveOwnership`,
  since a row has one owner. That a scan of more workspaces than its LIMIT misses one needs a greatest
  element of a finite set of numbers (`GreatestElement`, by way of a counterexample with the fewest
  elements): the workspace no row of a batch reaches (`ScanFallsShort`).
* **Circuit breaker: `BreakerInv`.** The count plus the calls that have failed and not
  reported it is at most the number of failures (`Counted`); a call about to open the
  breaker has seen the threshold (`OpeningIsJustified`).
* **JWKS keyset: `Installed` and `Catching`.** The keyset is that of a document
  that parses. If it is not the present one, the issuer has been steady for no longer
  than the load that last failed plus what the task has waited since: `Catching` says so phase by
  phase, and `CatchUp` is the most it allows.
* **Event registry: `RegistryInv`.** The list of a type is sorted, holds only versions of the
  map, and the handler of the map ends the entries of its version (`Agree`). From it alone follows
  what a lookup finds (`ListFindsNewest`); both theorems rest on that.

Only model-checked: liveness (`EventuallySettled`, `EveryAttemptIsAnswered`,
`ScannedAreServed`, `BreakerHeals`, `EveryRequestIsAnswered`). Reasoning with fairness
and ENABLED is out of the prover's reach. What is proved are the safety facts they rest on, named above.
Of the findings, `TerminalDeadLetters` has no theorem: that it fails is a behaviour, which TLC exhibits.

## 5. What is not modelled, and why

* `renew_partitions`, the static workspace list and the validators of the workspace and
  project commands: nothing but tests calls them.
* The workflow, graph, orchestrator and sync validators: stateless checks of a
  document that nothing in the running system calls.
* Configuration parsing, migrations, observability, tools: no run-time state;
  the values and the constraints that matter are constants and guards above.
* The start-up of `JwtAuthenticator`: `from_config` loads the first document without a
  timeout, so a source that never answers keeps the server from starting; the model begins
  after it. Of a token's claims only the workspace is modelled.
* The report of a run, the metrics and the choice of a publisher at start-up.
* What comes before a request is one: an HTTP request the server cannot parse, or a line over MCP
  that is not UTF-8, which ends the process. Text over MCP that is no JSON, or JSON that
  `serde_json::Value` cannot hold (a number beyond `f64` in a field nobody reads, say), is the
  frame `not_jsonrpc`; it is not compared with what REST makes of such a body.
* PostgreSQL, the HTTP endpoint, the issuer and the JWT library are modelled by what the
  code relies on: row locks, unique indexes, transactions, row level security, and the answers
  the code tells apart.

## 6. How it grew, and what could follow

The order was that of the damage a fault would do: the outbox with its fencing; creation
and leasing; the breaker and the keys; then what decides which tenant's rows are seen
and which handler gets an event; then the proofs, from the outbox outwards. What could
follow, as the code grows:

1. handlers of several versions in `default_registry`, with which `EventRegistry` and
   `OutboxWorker` would be composed;
2. `renew_partitions`, when a run calls it: `NeverDoubleProcessed` is the property it is
   for;
3. the workflow, graph and sync validators, when something calls them.

## 7. Running

    tlc -workers 2 -config MCOutboxStore.cfg MCOutboxStore.tla
    tlapm OutboxStore_proofs.tla

The runs take from a few seconds to about two and a half minutes each; the proofs of all eight
modules some minutes together.
