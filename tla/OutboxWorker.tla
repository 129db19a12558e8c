---------------------------- MODULE OutboxWorker ----------------------------
(***************************************************************************)
(* Workers draining the outbox of one workspace:                           *)
(* crates/dandori-app-services/src/worker/service.rs (run_tenant_cycle,    *)
(* process_leased, apply_publish_outcome) over the store of OutboxStore.   *)
(*                                                                         *)
(* A cycle leases a batch, dispatches all of it concurrently, waits for    *)
(* every outcome, and only then marks the rows one by one in the order the *)
(* outcomes arrived; the first mark that errs drops the rest of the batch  *)
(* and skips the cleanup.  "now" is read before each store call, so time   *)
(* may pass before the transaction runs.                                   *)
(***************************************************************************)
EXTENDS OutboxStore, Sequences

CONSTANTS
    Skew,                 \* how far each worker's clock is ahead of the API's
    Answers,              \* the endpoint's answers in this instance
    DeliveredRetention,   \* delivered_retention_hours
    DeadLetterRetention,  \* dead_letter_retention_hours
    MaxClock,             \* bound on the clock
    MaxDispatches,        \* bound on the dispatches of one message
    MaxCrashes            \* bound on the crashes of the workers

ASSUME SkewIsNatural    == Skew \in [Workers -> Nat]
ASSUME RetentionsNatural == DeliveredRetention \in Nat /\ DeadLetterRetention \in Nat
ASSUME InstanceIsBounded == {MaxClock, MaxDispatches, MaxCrashes} \subseteq Nat

VARIABLES
    clock,       \* the API server's clock
    pc,          \* where each worker is in run_tenant_cycle
    asked,       \* the "now" a worker read for the store call it is making
    inflight,    \* leased messages a worker has not heard about yet
    answered,    \* the completed dispatches, in the order of completion
    dispatched,  \* history: how often each message was dispatched
    accepted,    \* history: the messages the endpoint took
    crashes      \* how many crashes there were

workerVars == <<pc, asked, inflight, answered>>
historyVars == <<dispatched, accepted>>
vars == <<storeVars, workerVars, historyVars, clock, crashes>>

-----------------------------------------------------------------------------
(* What OutboxRegistry::dispatch may come back with.                       *)
(*   ok        2xx, or the no-op publisher                                 *)
(*   lost      the endpoint took the event, the reply did not arrive       *)
(*   refused   5xx, no connection, breaker open: Transient                 *)
(*   rejected  4xx, no handler, undecodable payload: a terminal kind       *)
(*   verbose   4xx whose body makes error_message longer than the 4000     *)
(*             characters last_error may hold                              *)

Answer   == {"ok", "lost", "refused", "rejected", "verbose"}
Taken    == {"ok", "lost"}
Terminal == {"rejected", "verbose"}

ASSUME AnswersAreAnswers == Answers \subseteq Answer

Stages == {"idle", "leasing", "publishing", "applying", "marking", "cleaning"}

Clock(w) == clock + Skew[w]

Less(a, b) == IF a > b THEN a - b ELSE 0

Init ==
    /\ StoreInit
    /\ clock      = 0
    /\ pc         = [w \in Workers |-> "idle"]
    /\ asked      = [w \in Workers |-> 0]
    /\ inflight   = [w \in Workers |-> {}]
    /\ answered   = [w \in Workers |-> <<>>]
    /\ dispatched = [m \in Messages |-> 0]
    /\ accepted   = {}
    /\ crashes    = 0

Goto(w, stage) == pc' = [pc EXCEPT ![w] = stage]

ReadClock(w) == asked' = [asked EXCEPT ![w] = Clock(w)]

ForgetClock(w) == asked' = [asked EXCEPT ![w] = 0]

-----------------------------------------------------------------------------
\* create_issue commits an outbox row.  Its occurred_at was read before the
\* transaction began; OutboxStore takes any instant, this module the latest.
CreateIssue(m) ==
    /\ Enqueue(m, clock)
    /\ UNCHANGED <<workerVars, historyVars, clock, crashes>>

\* run_once reaches the workspace: Utc::now() for lease_outbox_batch.
StartCycle(w) ==
    /\ pc[w] = "idle"
    /\ ReadClock(w)
    /\ Goto(w, "leasing")
    /\ UNCHANGED <<storeVars, inflight, answered, historyVars, clock, crashes>>

\* Rows that another worker's mark has locked while it runs.  Two leases
\* that skip each other's rows need no such case: they serialise.
Locked(w) ==
    {Head(answered[v]).grant.message : v \in {u \in Workers \ {w} : pc[u] = "marking"}}

Lease(w) ==
    /\ pc[w] = "leasing"
    /\ \E batch \in SUBSET Messages, locked \in SUBSET Locked(w) :
         /\ LeaseBatch(w, asked[w], batch, locked)
         /\ inflight' = [inflight EXCEPT ![w] = grants' \ grants]
         /\ Goto(w, IF batch = {} THEN "cleaning" ELSE "publishing")
    /\ ForgetClock(w)
    /\ UNCHANGED <<answered, historyVars, clock, crashes>>

\* One dispatch of the batch completes; buffer_unordered fixes no order.
Publish(w, g, answer) ==
    /\ pc[w] = "publishing"
    /\ g \in inflight[w]
    /\ dispatched[g.message] < MaxDispatches
    /\ inflight'   = [inflight EXCEPT ![w] = @ \ {g}]
    /\ answered'   = [answered EXCEPT ![w] = Append(@, [grant |-> g, answer |-> answer])]
    /\ dispatched' = [dispatched EXCEPT ![g.message] = @ + 1]
    /\ accepted'   = IF answer \in Taken THEN accepted \union {g.message} ELSE accepted
    /\ Goto(w, IF inflight[w] = {g} THEN "applying" ELSE "publishing")
    /\ UNCHANGED <<storeVars, asked, clock, crashes>>

\* apply_publish_outcome reads Utc::now() for the next outcome.
CallMark(w) ==
    /\ pc[w] = "applying"
    /\ answered[w] # <<>>
    /\ ReadClock(w)
    /\ Goto(w, "marking")
    /\ UNCHANGED <<storeVars, inflight, answered, historyVars, clock, crashes>>

\* The mark commits, unless the lease is not current any more or the CHECK
\* on last_error refuses the update.
MarkCommits(w, g, answer) ==
    LeaseIsCurrent(w, g, asked[w]) /\ answer # "verbose"

\* Faulty: outcomes, in order of completion, are paired with the batch in
\* order of id.
MarkInBatchOrder(w) ==
    LET g      == CHOOSE h \in {answered[w][i].grant : i \in DOMAIN answered[w]} :
                     \A i \in DOMAIN answered[w] : h.message <= answered[w][i].grant.message
        answer == Head(answered[w]).answer
    IN  /\ pc[w] = "marking"
        /\ MarkCommits(w, g, answer)
        /\ IF answer = "ok"
           THEN MarkDelivered(w, g, asked[w])
           ELSE \E backoff \in Backoffs :
                  MarkFailed(w, g, asked[w], answer \in Terminal, backoff)
        /\ answered' = [answered EXCEPT ![w] = Tail(@)]
        /\ ForgetClock(w)
        /\ Goto(w, "applying")
        /\ UNCHANGED <<inflight, historyVars, clock, crashes>>

Mark(w) ==
    LET g      == Head(answered[w]).grant
        answer == Head(answered[w]).answer
    IN  /\ pc[w] = "marking"
        /\ MarkCommits(w, g, answer)
        /\ IF answer = "ok"
           THEN MarkDelivered(w, g, asked[w])
           ELSE \E backoff \in Backoffs :
                  MarkFailed(w, g, asked[w], answer \in Terminal, backoff)
        /\ answered' = [answered EXCEPT ![w] = Tail(@)]
        /\ ForgetClock(w)
        /\ Goto(w, "applying")
        /\ UNCHANGED <<inflight, historyVars, clock, crashes>>

\* The mark errs: "?" returns from process_leased and run_tenant_cycle, the
\* other outcomes of the batch are dropped and nothing is cleaned up.
AbortCycle(w) ==
    LET g      == Head(answered[w]).grant
        answer == Head(answered[w]).answer
    IN  /\ pc[w] = "marking"
        /\ ~MarkCommits(w, g, answer)
        /\ answered' = [answered EXCEPT ![w] = <<>>]
        /\ ForgetClock(w)
        /\ Goto(w, "idle")
        /\ UNCHANGED <<storeVars, inflight, historyVars, clock, crashes>>

AllApplied(w) ==
    /\ pc[w] = "applying"
    /\ answered[w] = <<>>
    /\ Goto(w, "cleaning")
    /\ UNCHANGED <<storeVars, asked, inflight, answered, historyVars, clock, crashes>>

\* cleanup_outbox.  The cleanup_idempotency that follows it touches another
\* table and is IssueCreate's CleanupIdempotency.
Cleanup(w) ==
    /\ pc[w] = "cleaning"
    /\ CleanupOutbox(Less(Clock(w), DeliveredRetention),
                     Less(Clock(w), DeadLetterRetention))
    /\ Goto(w, "idle")
    /\ UNCHANGED <<asked, inflight, answered, historyVars, clock, crashes>>

\* The process dies, or a store call errs on a lost connection whether or
\* not its transaction had committed: what the cycle held in memory is gone.
Crash(w) ==
    /\ pc[w] # "idle"
    /\ crashes < MaxCrashes
    /\ crashes'  = crashes + 1
    /\ inflight' = [inflight EXCEPT ![w] = {}]
    /\ answered' = [answered EXCEPT ![w] = <<>>]
    /\ ForgetClock(w)
    /\ Goto(w, "idle")
    /\ UNCHANGED <<storeVars, historyVars, clock>>

Tick ==
    /\ clock < MaxClock
    /\ clock' = clock + 1
    /\ UNCHANGED <<storeVars, workerVars, historyVars, crashes>>

Work(w) ==
    \/ StartCycle(w)
    \/ Lease(w)
    \/ \E g \in inflight[w], answer \in Answers : Publish(w, g, answer)
    \/ CallMark(w)
    \/ Mark(w)
    \/ AbortCycle(w)
    \/ AllApplied(w)
    \/ Cleanup(w)

Next ==
    \/ \E m \in Messages : CreateIssue(m)
    \/ \E w \in Workers : Work(w) \/ Crash(w)
    \/ Tick

Spec == Init /\ [][Next]_vars

-----------------------------------------------------------------------------
(* Scheduling for liveness.  run_loop calls run_once for ever, so every    *)
(* step of a cycle is weakly fair; the endpoint answers or times out.      *)
(* Time is prompt: no cycle outlasts its lease, because the clock stands   *)
(* still while a worker holds a batch.  The clock moves only while a row   *)
(* waits for it, so that MaxClock is never reached.                        *)

Waiting ==
    \E m \in Messages :
        \/ outbox[m].status \in Claimable /\ outbox[m].available_at > clock
        \/ outbox[m].status = "leased" /\ outbox[m].leased_until > clock

PromptTick ==
    /\ Waiting
    /\ \A w \in Workers : pc[w] \in {"idle", "leasing", "cleaning"}
    /\ Tick

PromptNext ==
    \/ \E m \in Messages : CreateIssue(m)
    \/ \E w \in Workers : Work(w) \/ Crash(w)
    \/ PromptTick

PromptSpec ==
    /\ Init /\ [][PromptNext]_vars
    /\ \A w \in Workers : WF_vars(Work(w))
    /\ WF_vars(PromptTick)
-----------------------------------------------------------------------------
(* Properties.                                                             *)

\* Every variable of the workers has its type.
WorkerTypeOK ==
    /\ TypeOK
    /\ clock \in 0 .. MaxClock /\ crashes \in 0 .. MaxCrashes
    /\ pc \in [Workers -> Stages]
    /\ asked \in [Workers -> Nat]
    /\ inflight \in [Workers -> SUBSET grants]
    /\ answered \in [Workers -> Seq([grant : grants, answer : Answers])]
    /\ dispatched \in [Messages -> 0 .. MaxDispatches]
    /\ accepted \subseteq Messages

\* A message is marked delivered only after the endpoint took it, however
\* the marks of a batch interleave with other workers' leases of its rows.
DeliveredWasTaken ==
    \A s \in settled : s.outcome = "delivered" => s.message \in accepted

\* Every attempt charged to a message was a dispatch of it: a crash between
\* the lease and the dispatch, or a mark that came too late, costs none.
AttemptsWereMade == \A m \in Messages : outbox[m].attempts <= dispatched[m]

\* The leases a worker works on: dispatches to come and answers to apply.
Holds(w) == inflight[w] \union {answered[w][i].grant : i \in DOMAIN answered[w]}

\* With synchronised clocks, two workers never both believe that they hold
\* an unexpired lease of the same message, even when a lease was granted at
\* an instant read long before its transaction ran.
OneHolder ==
    \A v, w \in Workers : v # w =>
        \A g \in Holds(v), h \in Holds(w) :
            g.message = h.message => g.until <= Clock(v) \/ h.until <= Clock(w)

\* Crashes, retries and takeovers lose nothing: every message that was
\* enqueued is in the end delivered or dead-lettered.
EventuallySettled ==
    \A m \in Messages :
        outbox[m].status = "pending" ~> outbox[m].status \in Settled \union {"deleted"}

(* A claim of the documentation that the code does not meet.               *)

\* README: terminal errors dead-letter immediately.  The mark of a terminal
\* failure under a current lease leaves the row dead-lettered.
TerminalDeadLetters ==
    [][\A w \in Workers :
         /\ pc[w] = "marking" /\ pc'[w] # "marking" /\ crashes' = crashes
         /\ Head(answered[w]).answer \in Terminal
         /\ LeaseIsCurrent(w, Head(answered[w]).grant, asked[w])
         => outbox'[Head(answered[w]).grant.message].status = "dead_letter"]_vars

=============================================================================
