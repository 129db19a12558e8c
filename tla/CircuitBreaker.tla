--------------------------- MODULE CircuitBreaker ---------------------------
(***************************************************************************)
(* The circuit breaker of HttpOutboxPublisher                              *)
(* (crates/dandori-app-services/src/worker/publish.rs), shared by all the  *)
(* publish_issue_created calls of a process: publish_concurrency of them   *)
(* in each of tenant_max_concurrency tenant cycles.                        *)
(*                                                                         *)
(* The breaker is two atomics without a lock.  Every load, store and       *)
(* fetch_add on them is a step; a call reads the clock once, at its start, *)
(* and uses that instant until it ends, however late the answer comes.     *)
(* Each of the orderings used (Acquire, Release, AcqRel) makes one atomic  *)
(* coherent.  No step reads both, so interleaving covers the reorderings.  *)
(***************************************************************************)
EXTENDS Naturals, FiniteSets

CONSTANTS
    Calls,         \* the slots in which publish calls run, one at a time
    Threshold,     \* circuit_failure_threshold, 0 to switch the breaker off
    Cooldown,      \* circuit_cooldown_seconds
    MaxClock,      \* bound on the clock
    MaxFailures    \* bound on the transient failures of the endpoint

ASSUME ParametersAreNaturals ==
    {Threshold, Cooldown, MaxClock, MaxFailures} \subseteq Nat

ASSUME CallsAreFinite == IsFiniteSet(Calls)

VARIABLES
    consecutive_failures,
    circuit_open_until,
    clock,
    pc,        \* how far each call is
    now,       \* its now_epoch
    failures   \* history: transient failures of the endpoint so far

atomics == <<consecutive_failures, circuit_open_until>>
vars == <<atomics, clock, pc, now, failures>>

Stages == {"idle", "gate", "sending", "failed", "opening", "succeeded", "closing"}

Init ==
    /\ consecutive_failures = 0
    /\ circuit_open_until   = 0
    /\ clock    = 1
    /\ pc       = [c \in Calls |-> "idle"]
    /\ now      = [c \in Calls |-> 0]
    /\ failures = 0

Goto(c, stage) == pc' = [pc EXCEPT ![c] = stage]

\* Faulty: a slot runs its next call on the old instant.
FinishKeepingNow(c) == Goto(c, "idle") /\ UNCHANGED now

\* The call is over; its now_epoch is forgotten.
Finish(c) == Goto(c, "idle") /\ now' = [now EXCEPT ![c] = 0]

-----------------------------------------------------------------------------
\* publish_issue_created reads Utc::now().
Begin(c) ==
    /\ pc[c] = "idle"
    /\ now' = [now EXCEPT ![c] = clock]
    /\ Goto(c, "gate")
    /\ UNCHANGED <<atomics, clock, failures>>

\* Faulty: the count is consulted as well.
IsOpenByCount(c) == circuit_open_until > now[c] /\ consecutive_failures >= Threshold

IsOpen(c) == circuit_open_until > now[c]

\* Faulty: a call that was held back counts as a failure.
GateCounting(c) ==
    /\ pc[c] = "gate"
    /\ Goto(c, IF IsOpen(c) THEN "failed" ELSE "sending")
    /\ UNCHANGED <<atomics, clock, now, failures>>

\* The request is sent, unless breaker_open.
Gate(c) ==
    /\ pc[c] = "gate"
    /\ IF IsOpen(c) THEN Finish(c) ELSE Goto(c, "sending") /\ UNCHANGED now
    /\ UNCHANGED <<atomics, clock, failures>>

\* A 5xx, a timeout or no connection.
Fail(c) ==
    /\ pc[c] = "sending"
    /\ failures < MaxFailures
    /\ failures' = failures + 1
    /\ Goto(c, "failed")
    /\ UNCHANGED <<atomics, clock, now>>

\* A 2xx, or any other answer: both call record_success.
Succeed(c) ==
    /\ pc[c] = "sending"
    /\ Goto(c, "succeeded")
    /\ UNCHANGED <<atomics, clock, now, failures>>

\* Faulty: one failure too early.
OpensEarly(next) == next + 1 >= Threshold

Opens(next) == next >= Threshold

\* record_transient_failure: fetch_add.
CountFailure(c) ==
    /\ pc[c] = "failed"
    /\ IF Threshold = 0
       THEN Finish(c) /\ UNCHANGED consecutive_failures
       ELSE /\ consecutive_failures' = consecutive_failures + 1
            /\ IF Opens(consecutive_failures')
               THEN Goto(c, "opening") /\ UNCHANGED now
               ELSE Finish(c)
    /\ UNCHANGED <<circuit_open_until, clock, failures>>

\* record_transient_failure: the store.
Open(c) ==
    /\ pc[c] = "opening"
    /\ circuit_open_until' = now[c] + Cooldown
    /\ Finish(c)
    /\ UNCHANGED <<consecutive_failures, clock, failures>>

\* record_success: the first store.
ResetCount(c) ==
    /\ pc[c] = "succeeded"
    /\ consecutive_failures' = 0
    /\ Goto(c, "closing")
    /\ UNCHANGED <<circuit_open_until, clock, now, failures>>

\* record_success: the second store.
Close(c) ==
    /\ pc[c] = "closing"
    /\ circuit_open_until' = 0
    /\ Finish(c)
    /\ UNCHANGED <<consecutive_failures, clock, failures>>

\* Beyond MaxClock time passes only to let an open breaker close, which
\* it must at most once for every failure.
Tick ==
    /\ \/ clock < MaxClock
       \/ /\ circuit_open_until > clock
          /\ clock <= MaxClock + MaxFailures * Cooldown
    /\ clock' = clock + 1
    /\ UNCHANGED <<atomics, pc, now, failures>>

Answered(c) == Fail(c) \/ Succeed(c)

Step(c) ==
    \/ Begin(c) \/ Gate(c) \/ Answered(c)
    \/ CountFailure(c) \/ Open(c) \/ ResetCount(c) \/ Close(c)

Next == (\E c \in Calls : Step(c)) \/ Tick

\* run_loop keeps calling, and a call ends: the client has a timeout.
Spec == Init /\ [][Next]_vars /\ WF_vars(Tick) /\ \A c \in Calls : WF_vars(Step(c))

-----------------------------------------------------------------------------
(* Properties.                                                             *)

\* Every variable has its type, and a call has an instant while it runs.
TypeOK ==
    /\ consecutive_failures \in 0 .. MaxFailures
    /\ circuit_open_until \in Nat
    /\ clock \in Nat /\ failures \in 0 .. MaxFailures
    /\ pc \in [Calls -> Stages]
    /\ now \in [Calls -> 0 .. clock]
    /\ \A c \in Calls : pc[c] = "idle" <=> now[c] = 0

\* The breaker opens only when the endpoint has failed Threshold times, and
\* never for longer than one cooldown from now, however many slow calls
\* report their failures at once; threshold 0 switches it off.
OutageIsJustified ==
    circuit_open_until > 0 =>
        /\ Threshold > 0 /\ failures >= Threshold
        /\ circuit_open_until <= clock + Cooldown

\* While the breaker is open no call reaches the network, even one that
\* read the clock before the breaker opened.
NoSendWhileOpen ==
    [][\A c \in Calls :
         pc[c] = "gate" /\ pc'[c] = "sending" => circuit_open_until <= clock]_vars

\* An endpoint that has recovered is used again: the calls that the breaker
\* holds back do not keep it open.
BreakerHeals == <>[](circuit_open_until <= clock)

=============================================================================
