---------------------------- MODULE OutboxStore ----------------------------
(***************************************************************************)
(* The transactional outbox table of one workspace and the store           *)
(* operations on it: crates/dandori-store/src/repositories/outbox.rs.      *)
(*                                                                         *)
(* Every operation of outbox.rs is one PostgreSQL transaction that locks   *)
(* the rows it decides on (FOR UPDATE), so it is one action.  The instant  *)
(* "now" is not the database's: the caller read it from its own clock      *)
(* before it asked for a connection.  In this module the instants of       *)
(* successive calls are therefore unrelated members of Instants, which     *)
(* covers every clock skew and every delay of a call.  OutboxWorker        *)
(* composes these actions with the worker that calls them.                 *)
(***************************************************************************)
EXTENDS Naturals, FiniteSets

CONSTANTS
    Messages,     \* outbox ids, numbered in creation order (UUID v7)
    Workers,      \* worker_instance_id of each worker: the acting AuthContext
    None,         \* SQL NULL in an owner column
    Instants,     \* clock readings a caller may pass as "now"
    LeaseFor,     \* lease_for, the length of a message lease
    Backoffs,     \* delays retry_backoff_with_jitter may return
    BatchSize,    \* max_items of one lease_outbox_batch call
    MaxAttempts,  \* max_attempts, the retry budget of a row
    MaxLeases     \* bound on the lease_outbox_batch calls of a behaviour

ASSUME MessagesAreOrdered == Messages \subseteq Nat
ASSUME NoneIsNoWorker     == None \notin Workers
ASSUME TimesAreNaturals   == /\ Instants \subseteq Nat
                             /\ Backoffs \subseteq Nat
                             /\ LeaseFor \in Nat
ASSUME BudgetIsPositive   == MaxAttempts \in Nat \ {0}
ASSUME BoundsAreNaturals  == BatchSize \in Nat /\ MaxLeases \in Nat

VARIABLES
    outbox,     \* the table: one row per id, "absent" before the insert
    lastToken,  \* the newest lease token (Uuid::now_v7), 0 before the first
    grants,     \* history: every row lease_outbox_batch returned to a caller
    settled     \* history: every committed mark_outbox_* and its outcome

storeVars == <<outbox, lastToken, grants, settled>>

-----------------------------------------------------------------------------
(* Rows.  "absent" and "deleted" rows are not in the table.  published_at  *)
(* is set together with updated_at and read only on delivered rows, so     *)
(* updated_at stands for both.                                             *)

NoToken == 0

Claimable == {"pending", "failed"}
Settled   == {"delivered", "dead_letter"}
Status    == {"absent", "leased", "deleted"} \union Claimable \union Settled

Row == [status       : Status,
        attempts     : Nat,
        available_at : Nat,
        lease_token  : Nat,
        lease_owner  : Workers \union {None},
        leased_until : Nat,
        updated_at   : Nat]

AbsentRow == [status |-> "absent", attempts |-> 0, available_at |-> 0,
              lease_token |-> NoToken, lease_owner |-> None,
              leased_until |-> 0, updated_at |-> 0]

\* What a caller of lease_outbox_batch holds.
Grant == [message : Messages, token : Nat, owner : Workers, until : Nat]

Outcomes   == {"delivered", "failed", "dead_letter"}
Settlement == [message : Messages, token : Nat, outcome : Outcomes]

StoreInit ==
    /\ outbox    = [m \in Messages |-> AbsentRow]
    /\ lastToken = NoToken
    /\ grants    = {}
    /\ settled   = {}

-----------------------------------------------------------------------------
\* The insert that create_issue_transactional makes with the issue.
Enqueue(m, now) ==
    /\ outbox[m].status = "absent"
    /\ outbox' = [outbox EXCEPT ![m].status       = "pending",
                                ![m].available_at = now,
                                ![m].updated_at   = now]
    /\ UNCHANGED <<lastToken, grants, settled>>

\* Faulty: only delivered rows are excluded.
EligibleBuried(now) ==
    {m \in Messages :
        \/ outbox[m].status \in Claimable \union {"dead_letter"}
             /\ outbox[m].available_at <= now
        \/ outbox[m].status = "leased" /\ outbox[m].leased_until <= now}

\* Faulty: a lease is taken over whether or not it has expired.
EligibleLeased(now) ==
    {m \in Messages : /\ outbox[m].status \in Claimable \union {"leased"}
                      /\ outbox[m].available_at <= now}

\* Faulty: an expired lease is never taken over.
EligibleUnleased(now) ==
    {m \in Messages : /\ outbox[m].status \in Claimable
                      /\ outbox[m].available_at <= now}

\* The WHERE clause of the candidates query.
Eligible(now) ==
    {m \in Messages :
        \/ outbox[m].status \in Claimable /\ outbox[m].available_at <= now
        \/ outbox[m].status = "leased" /\ outbox[m].leased_until <= now}

\* ORDER BY available_at, id
Before(m, n) ==
    \/ outbox[m].available_at < outbox[n].available_at
    \/ outbox[m].available_at = outbox[n].available_at /\ m < n

\* LIMIT max_items FOR UPDATE SKIP LOCKED: the oldest candidates other than
\* those that concurrent transactions have locked.
IsBatch(batch, now, locked) ==
    LET candidates == Eligible(now) \ locked
    IN  /\ batch \subseteq candidates
        /\ Cardinality(batch) <= BatchSize
        /\ \A m \in batch, n \in candidates \ batch : Before(m, n)
        /\ batch # candidates => Cardinality(batch) = BatchSize

\* Faulty: the lease is counted as an attempt.
LeasedRowCounted(row, w, token, now) ==
    [row EXCEPT !.status       = "leased",
                !.attempts     = @ + 1,
                !.leased_until = now + LeaseFor,
                !.lease_token  = token,
                !.lease_owner  = w,
                !.updated_at   = now]

LeasedRow(row, w, token, now) ==
    [row EXCEPT !.status       = "leased",
                !.leased_until = now + LeaseFor,
                !.lease_token  = token,
                !.lease_owner  = w,
                !.updated_at   = now]

\* Faulty: the owner is that of the row before the update.
GrantOfFormer(m, w, token, now) ==
    [message |-> m, token |-> token, owner |-> outbox[m].lease_owner,
     until |-> now + LeaseFor]

\* What the caller is handed: OutboxMessage without its payload.
GrantOf(m, w, token, now) ==
    [message |-> m, token |-> token, owner |-> w, until |-> now + LeaseFor]

\* A token that leases no row is never seen again, and is not counted.
LeaseBatch(w, now, batch, locked) ==
    LET token == lastToken + 1
    IN  /\ batch # {} => lastToken < MaxLeases
        /\ IsBatch(batch, now, locked)
        /\ lastToken' = IF batch = {} THEN lastToken ELSE token
        /\ outbox' = [m \in Messages |->
                        IF m \in batch THEN LeasedRow(outbox[m], w, token, now)
                                       ELSE outbox[m]]
        /\ grants' = grants \union {GrantOf(m, w, token, now) : m \in batch}
        /\ UNCHANGED settled

-----------------------------------------------------------------------------
\* Faulty: the caller's copy of the lease is believed.
LeaseIsClaimed(w, g, now) == g.owner = w /\ g.until > now

\* Faulty: the token is not compared.
LeaseIsOwned(w, g, now) ==
    LET row == outbox[g.message]
    IN  /\ g.owner = w
        /\ row.status = "leased"
        /\ row.lease_owner = g.owner
        /\ row.leased_until > now

\* validate_lease_transition, on the row read FOR UPDATE, after the check
\* that the caller acts as the owner it claims to be.
LeaseIsCurrent(w, g, now) ==
    LET row == outbox[g.message]
    IN  /\ g.owner = w
        /\ row.status = "leased"
        /\ row.lease_owner = g.owner
        /\ row.lease_token = g.token
        /\ row.leased_until > now

\* Faulty: the owner stays.
UnleasedOwned(row) == [row EXCEPT !.leased_until = 0, !.lease_token = NoToken]

\* The columns every mark_outbox_* update sets to NULL.
Unleased(row) == [row EXCEPT !.leased_until = 0,
                             !.lease_token  = NoToken,
                             !.lease_owner  = None]

Record(g, outcome) ==
    settled' = settled \union
        {[message |-> g.message, token |-> g.token, outcome |-> outcome]}

MarkDelivered(w, g, now) ==
    /\ LeaseIsCurrent(w, g, now)
    /\ outbox' = [outbox EXCEPT ![g.message] =
                    [Unleased(@) EXCEPT !.status     = "delivered",
                                        !.updated_at = now]]
    /\ Record(g, "delivered")
    /\ UNCHANGED <<lastToken, grants>>

\* Faulty: the attempt that has just failed is not counted.
ExhaustedLate(row, terminal) == terminal \/ row.attempts >= MaxAttempts

\* dead_letter_now: a terminal failure, or the last attempt of the budget.
Exhausted(row, terminal) == terminal \/ row.attempts + 1 >= MaxAttempts

\* What both updates of mark_outbox_failed write.
FailedRow(row, status, available, now) ==
    [Unleased(row) EXCEPT !.status       = status,
                          !.attempts     = row.attempts + 1,
                          !.available_at = available,
                          !.updated_at   = now]

MarkDeadLetter(g, now) ==
    /\ outbox' = [outbox EXCEPT ![g.message] = FailedRow(@, "dead_letter", now, now)]
    /\ Record(g, "dead_letter")

MarkForRetry(g, now, backoff) ==
    /\ outbox' = [outbox EXCEPT ![g.message] = FailedRow(@, "failed", now + backoff, now)]
    /\ Record(g, "failed")

MarkFailed(w, g, now, terminal, backoff) ==
    /\ LeaseIsCurrent(w, g, now)
    /\ IF Exhausted(outbox[g.message], terminal)
       THEN MarkDeadLetter(g, now)
       ELSE MarkForRetry(g, now, backoff)
    /\ UNCHANGED <<lastToken, grants>>

\* Faulty: rows are deleted by age alone.
CleanupByAge(deliveredBefore, deadLetterBefore) ==
    /\ outbox' = [m \in Messages |->
                     IF /\ outbox[m].status # "absent"
                        /\ outbox[m].updated_at < deliveredBefore
                     THEN [outbox[m] EXCEPT !.status = "deleted"]
                     ELSE outbox[m]]
    /\ UNCHANGED <<lastToken, grants, settled>>

\* Both deletes of one cleanup_outbox call.
CleanupOutbox(deliveredBefore, deadLetterBefore) ==
    LET stale == {m \in Messages :
                    \/ /\ outbox[m].status = "delivered"
                       /\ outbox[m].updated_at < deliveredBefore
                    \/ /\ outbox[m].status = "dead_letter"
                       /\ outbox[m].updated_at < deadLetterBefore}
    IN  /\ outbox' = [m \in Messages |->
                        IF m \in stale
                        THEN [outbox[m] EXCEPT !.status = "deleted"]
                        ELSE outbox[m]]
        /\ UNCHANGED <<lastToken, grants, settled>>

-----------------------------------------------------------------------------
(* The store on its own: any caller, with any grant it or another caller   *)
(* was ever given, at any instant.                                         *)

StoreNext ==
    \/ \E m \in Messages, now \in Instants : Enqueue(m, now)
    \/ \E w \in Workers, now \in Instants,
          batch \in SUBSET Messages, locked \in SUBSET Messages :
             LeaseBatch(w, now, batch, locked)
    \/ \E w \in Workers, g \in grants, now \in Instants : MarkDelivered(w, g, now)
    \/ \E w \in Workers, g \in grants, now \in Instants,
          terminal \in BOOLEAN, backoff \in Backoffs :
             MarkFailed(w, g, now, terminal, backoff)
    \/ \E d, x \in Instants : CleanupOutbox(d, x)

StoreSpec == StoreInit /\ [][StoreNext]_storeVars

-----------------------------------------------------------------------------
\* The stage of OutboxPromise that each status stands for.
Stage(status) ==
    CASE status = "absent"     -> "new"
      [] status \in Claimable  -> "queued"
      [] status = "leased"     -> "held"
      [] status \in Settled    -> status
      [] status = "deleted"    -> "purged"

(* Properties of the store, whatever its callers' clocks say.              *)

\* Every variable has its type, and every row its columns.
TypeOK ==
    /\ outbox \in [Messages -> Row]
    /\ lastToken \in Nat
    /\ grants \subseteq Grant
    /\ settled \subseteq Settlement

\* A row carries lease columns exactly while it is leased, and they name a
\* grant that was handed out.  No CHECK of the table says so: it rests on
\* what the statements of outbox.rs set together.
LeaseColumns ==
    \A m \in Messages :
        LET row == outbox[m]
        IN  IF row.status = "leased"
            THEN [message |-> m, token |-> row.lease_token,
                  owner |-> row.lease_owner, until |-> row.leased_until]
                    \in grants
            ELSE row.lease_token = NoToken /\ row.lease_owner = None

\* A lease settles its message at most once, however often and however late
\* its holder calls mark_outbox_delivered or mark_outbox_failed.
OneOutcomePerLease ==
    \A s, t \in settled :
        s.message = t.message /\ s.token = t.token => s = t

\* Once a message is delivered or dead-lettered no lease of it is ever
\* handed out, and no other outcome is ever recorded for it.
SettledForGood ==
    \A s \in settled :
        s.outcome \in Settled =>
            /\ \A g \in grants  : g.message = s.message => g.token <= s.token
            /\ \A t \in settled : t.message = s.message => t.token <= s.token
            /\ outbox[s.message].status \in {s.outcome, "deleted"}

\* attempts counts exactly the failures that were recorded: no failure is
\* lost to, or counted twice by, a concurrent lease of the same message.
AttemptsCountFailures ==
    \A m \in Messages :
        outbox[m].attempts =
            Cardinality({s \in settled : s.message = m /\ s.outcome # "delivered"})

\* The retry budget: a row that may still be leased has an attempt left.
BudgetLeft ==
    \A m \in Messages :
        /\ outbox[m].attempts <= MaxAttempts
        /\ outbox[m].status \in Claimable \union {"leased"} =>
             outbox[m].attempts < MaxAttempts

\* Fencing: when an outcome is recorded, no newer lease of the message has
\* been handed out.  A worker that outlived its lease changes nothing.
NewestLeaseSettles ==
    [][\A s \in settled' \ settled, g \in grants :
          g.message = s.message => g.token <= s.token]_storeVars

\* The promise the table keeps: clocks, owners and columns are forgotten.
Promise == INSTANCE OutboxPromise WITH
    Budget   <- MaxAttempts,
    stage    <- [m \in Messages |-> Stage(outbox[m].status)],
    claim    <- [m \in Messages |-> outbox[m].lease_token],
    newest   <- lastToken,
    failures <- [m \in Messages |-> outbox[m].attempts]

\* outbox.rs implements OutboxPromise, whatever instants its callers pass:
\* only the newest lease settles a message, and a settled message stays so.
KeepsPromise == Promise!Spec

=============================================================================
