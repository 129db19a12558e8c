--------------------------- MODULE PartitionLease ---------------------------
(***************************************************************************)
(* Workers sharing the workspaces of a deployment: the table               *)
(* worker_partition_lease with the statements of                           *)
(* crates/dandori-store/src/repositories/partition.rs, and the loop of     *)
(* bin/dandori-worker/src/main.rs that calls them through run_once and     *)
(* release_partitions (worker/service.rs).  A tenant cycle is one interval *)
(* here; OutboxWorker models what happens inside it.                       *)
(*                                                                         *)
(* acquire_partitions is one statement, but it looks at the table twice:   *)
(* its snapshot picks the candidates, and the ON CONFLICT clause tests     *)
(* each of them again on the row that is there when it is written.         *)
(***************************************************************************)
EXTENDS Naturals, FiniteSets

CONSTANTS
    Workspaces,   \* numbered in the order (shard_bucket, id)
    Workers,      \* worker_instance_id of each worker
    None,
    Window,       \* workspaces in each worker's partition_shard_buckets
    Batch,        \* partition_batch
    LeaseFor,     \* partition_lease_seconds
    Concurrency,  \* tenant_max_concurrency
    Skew,         \* how far the clock of each worker's host is ahead
    MaxClock,     \* bound on the clock
    MaxStops      \* bound on the workers that crash or leave

ASSUME WorkspacesAreOrdered == Workspaces \subseteq Nat
ASSUME WindowsAreSets       == Window \in [Workers -> SUBSET Workspaces]
ASSUME SkewsAreNumbers      == Skew \in [Workers -> Nat]
ASSUME NoneIsNoWorker       == None \notin Workers
ASSUME ParametersArePositive ==
    /\ {Batch, LeaseFor, Concurrency} \subseteq Nat \ {0}
    /\ {MaxClock, MaxStops} \subseteq Nat

VARIABLES
    lease,     \* table worker_partition_lease: owner (None: no row) and expiry
    clock,
    pc,        \* where each worker is in run_loop and run_once
    asked,     \* the "now" of its acquire_partitions
    picked,    \* the candidates of the snapshot
    assigned,  \* workspaces of this run whose cycle has not begun
    cycling,   \* workspaces whose cycle is running
    leased,    \* partition_state.leased
    until,     \* history: the lease_until of the acquisition of leased
    stops      \* how many workers crashed or left

vars == <<lease, clock, pc, asked, picked, assigned, cycling, leased, until, stops>>

memory == <<asked, picked, assigned, cycling, leased, until>>

Stages == {"sleeping", "picking", "taking", "running", "stopping", "stopped"}

NoLease == [owner |-> None, until |-> 0]

Init ==
    /\ lease    = [x \in Workspaces |-> NoLease]
    /\ clock    = 0
    /\ pc       = [w \in Workers |-> "sleeping"]
    /\ asked    = [w \in Workers |-> 0]
    /\ picked   = [w \in Workers |-> {}]
    /\ assigned = [w \in Workers |-> {}]
    /\ cycling  = [w \in Workers |-> {}]
    /\ leased   = [w \in Workers |-> {}]
    /\ until    = [w \in Workers |-> 0]
    /\ stops    = 0

Goto(w, stage) == pc' = [pc EXCEPT ![w] = stage]

-----------------------------------------------------------------------------
\* Utc::now() on the host of w
Clock(w) == clock + Skew[w]

\* The interval of run_loop has passed: acquire_workspaces reads Utc::now().
StartRun(w) ==
    /\ pc[w] = "sleeping"
    /\ asked' = [asked EXCEPT ![w] = Clock(w)]
    /\ Goto(w, "picking")
    /\ UNCHANGED <<lease, clock, picked, assigned, cycling, leased, until, stops>>

\* list_workspace_ids_for_partition_lease: the first max_rows workspaces of
\* the window, whoever holds them.
Scan(w) ==
    {x \in Window[w] : Cardinality({y \in Window[w] : y < x}) < Batch}

\* Faulty: an expired lease still counts.
HeldForEver(w, x) == lease[x].owner \notin {w, None}

HeldByPeer(w, x) ==
    /\ lease[x].owner \notin {w, None}
    /\ lease[x].until > asked[w]

\* The snapshot of the statement: the candidates.
Pick(w) ==
    /\ pc[w] = "picking"
    /\ picked' = [picked EXCEPT ![w] = {x \in Scan(w) : ~HeldByPeer(w, x)}]
    /\ Goto(w, "taking")
    /\ UNCHANGED <<lease, clock, asked, assigned, cycling, leased, until, stops>>

\* Faulty: the conflict clause has no WHERE.
TakeAll(w) == picked[w]

\* The candidates that pass the WHERE of ON CONFLICT DO UPDATE.
Takeable(w) ==
    {x \in picked[w] : \/ lease[x].owner \in {w, None}
                       \/ lease[x].until <= asked[w]}

WriteRows(w) ==
    lease' = [x \in Workspaces |->
                IF x \in Takeable(w) THEN [owner |-> w, until |-> asked[w] + LeaseFor]
                                     ELSE lease[x]]

\* The rows are written; run_once returns when there are none, and keeps
\* the leases it remembers from the last run.
Take(w) ==
    LET taken == Takeable(w)
    IN  /\ pc[w] = "taking"
        /\ WriteRows(w)
        /\ picked' = [picked EXCEPT ![w] = {}]
        /\ asked'  = [asked EXCEPT ![w] = 0]
        /\ IF taken = {}
           THEN Goto(w, "sleeping") /\ UNCHANGED <<assigned, leased, until>>
           ELSE /\ Goto(w, "running")
                /\ assigned' = [assigned EXCEPT ![w] = taken]
                /\ leased'   = [leased EXCEPT ![w] = taken]
                /\ until'    = [until EXCEPT ![w] = asked[w] + LeaseFor]
        /\ UNCHANGED <<clock, cycling, stops>>

\* buffer_unordered starts the next tenant of the stream.
BeginCycle(w, x) ==
    /\ pc[w] = "running"
    /\ x \in assigned[w]
    /\ \A y \in assigned[w] : x <= y
    /\ Cardinality(cycling[w]) < Concurrency
    /\ assigned' = [assigned EXCEPT ![w] = @ \ {x}]
    /\ cycling'  = [cycling EXCEPT ![w] = @ \union {x}]
    /\ UNCHANGED <<lease, clock, pc, asked, picked, leased, until, stops>>

\* run_tenant_cycle returns, with or without an error.
EndCycle(w, x) ==
    /\ x \in cycling[w]
    /\ cycling' = [cycling EXCEPT ![w] = @ \ {x}]
    /\ Goto(w, IF cycling[w] = {x} /\ assigned[w] = {} THEN "sleeping" ELSE "running")
    /\ UNCHANGED <<lease, clock, asked, picked, assigned, leased, until, stops>>

\* Faulty: ctrl_c is polled during the run as well, and drops it.
LeaveMidRun(w) ==
    /\ pc[w] \in {"sleeping", "running"}
    /\ stops < MaxStops
    /\ stops' = stops + 1
    /\ Goto(w, "stopping")
    /\ UNCHANGED <<lease, clock, memory>>

\* ctrl_c, which is polled only between runs.
Leave(w) ==
    /\ pc[w] = "sleeping"
    /\ stops < MaxStops
    /\ stops' = stops + 1
    /\ Goto(w, "stopping")
    /\ UNCHANGED <<lease, clock, memory>>

\* acquire_partitions errs and with it run_loop, which forgets nothing; the
\* rows may have been written all the same.
FailAcquisition(w) ==
    /\ pc[w] = "taking"
    /\ stops < MaxStops
    /\ stops' = stops + 1
    /\ WriteRows(w) \/ UNCHANGED lease
    /\ picked' = [picked EXCEPT ![w] = {}]
    /\ asked'  = [asked EXCEPT ![w] = 0]
    /\ Goto(w, "stopping")
    /\ UNCHANGED <<clock, assigned, cycling, leased, until>>

\* Faulty: the delete does not look at the owner.
ReleaseUnowned(w) ==
    /\ pc[w] = "stopping"
    /\ lease' = [x \in Workspaces |-> IF x \in leased[w] THEN NoLease ELSE lease[x]]
    /\ leased' = [leased EXCEPT ![w] = {}]
    /\ Goto(w, "stopped")
    /\ UNCHANGED <<clock, asked, picked, assigned, cycling, until, stops>>

\* release_partitions; when it errs the leases are left to expire.
Release(w) ==
    /\ pc[w] = "stopping"
    /\ \/ lease' = [x \in Workspaces |->
                      IF x \in leased[w] /\ lease[x].owner = w THEN NoLease ELSE lease[x]]
       \/ UNCHANGED lease
    /\ leased' = [leased EXCEPT ![w] = {}]
    /\ Goto(w, "stopped")
    /\ UNCHANGED <<clock, asked, picked, assigned, cycling, until, stops>>

Crash(w) ==
    /\ pc[w] \notin {"stopping", "stopped"}
    /\ stops < MaxStops
    /\ stops'    = stops + 1
    /\ assigned' = [assigned EXCEPT ![w] = {}]
    /\ cycling'  = [cycling EXCEPT ![w] = {}]
    /\ picked'   = [picked EXCEPT ![w] = {}]
    /\ leased'   = [leased EXCEPT ![w] = {}]
    /\ asked'    = [asked EXCEPT ![w] = 0]
    /\ Goto(w, "stopped")
    /\ UNCHANGED <<lease, clock, until>>

\* Past MaxClock time goes on while a worker that is gone still holds a
\* lease, so that the bound keeps no lease from expiring.
Orphaned == \E x \in Workspaces : /\ lease[x].until > clock
                                  /\ lease[x].owner # None
                                  /\ pc[lease[x].owner] = "stopped"

Tick ==
    /\ clock < MaxClock \/ Orphaned
    /\ clock' = clock + 1
    /\ UNCHANGED <<lease, pc, memory, stops>>

Work(w) ==
    \/ StartRun(w) \/ Pick(w) \/ Take(w) \/ Release(w)
    \/ \E x \in Workspaces : BeginCycle(w, x) \/ EndCycle(w, x)

Next ==
    \/ \E w \in Workers : Work(w) \/ Leave(w) \/ FailAcquisition(w) \/ Crash(w)
    \/ Tick

\* run_loop runs for ever, and a tenant cycle ends because every store and
\* endpoint call does.
Spec ==
    /\ Init /\ [][Next]_vars
    /\ \A w \in Workers : WF_vars(Work(w))
    /\ WF_vars(Tick)

-----------------------------------------------------------------------------
(* Properties.                                                             *)

\* Every variable has its type.
TypeOK ==
    /\ lease \in [Workspaces -> [owner : Workers \union {None}, until : Nat]]
    /\ clock \in Nat /\ stops \in 0 .. MaxStops
    /\ pc \in [Workers -> Stages]
    /\ asked \in [Workers -> Nat] /\ until \in [Workers -> Nat]
    /\ {picked, assigned, cycling, leased} \subseteq [Workers -> SUBSET Workspaces]
    /\ \A w \in Workers : assigned[w] \union cycling[w] \subseteq leased[w]

\* The window of the leases that w remembers has not closed by any clock.
WindowOpen(w) == \A u \in Workers : Clock(u) < until[w]

\* acquire_partitions: "Callers must treat the returned list as definitive
\* ownership for the lease window."  No workspace is in the lists of two
\* workers while the window of each is open, however long the statements
\* took after their "now" was read, and whoever released what meanwhile.
\* Open is open by everybody's clock: a peer whose host is ahead closes it.
DefinitiveOwnership ==
    \A v, w \in Workers : v # w /\ leased[v] \intersect leased[w] # {} =>
        ~WindowOpen(v) \/ ~WindowOpen(w)

\* What a worker owns stays in the table under its name until the window
\* closes: nobody's acquisition or release takes it away.
OwnershipIsRecorded ==
    \A w \in Workers : \A x \in leased[w] :
        WindowOpen(w) => lease[x].owner = w /\ lease[x].until >= until[w]

\* Every workspace that a worker's scan reaches is served again and again,
\* although one worker crashes or leaves with or without its leases.
ScannedAreServed ==
    \A x \in Workspaces :
        (\A w \in Workers : x \in Scan(w)) => []<>(\E w \in Workers : x \in cycling[w])

(* Claims of the documentation that the code does not meet.                *)

\* worker/mod.rs: workspaces are claimed "so peer workers never double-process
\* a tenant".
NeverDoubleProcessed ==
    \A v, w \in Workers : v # w => cycling[v] \intersect cycling[w] = {}

\* README: workers discover workspaces from the database and need no static
\* sharding configuration.  Workers whose windows are all the workspaces
\* serve each of them sooner or later.
EveryWorkspaceIsServed ==
    \A x \in Workspaces : <>(\E w \in Workers : x \in cycling[w])

=============================================================================
