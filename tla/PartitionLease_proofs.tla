------------------------ MODULE PartitionLease_proofs ------------------------
(***************************************************************************)
(* Ownership of workspaces for any number of workers, workspaces, windows, *)
(* batches and lease lengths, however the clocks of the hosts differ, and  *)
(* whatever time passes between the "now" of an acquisition, its snapshot  *)
(* and its write.                                                          *)
(***************************************************************************)
EXTENDS PartitionLease, FiniteSetTheorems, WellFoundedInduction, TLAPS

\* Only a run has cycles, begun or to come.
CyclesAreOfARun ==
    \A w \in Workers : pc[w] # "running" => assigned[w] = {} /\ cycling[w] = {}

\* No acquisition has seen a later time than its host's clock shows now, and
\* none that is under way is older than the one the worker remembers.
AcquisitionsAdvance ==
    \A w \in Workers :
        /\ asked[w] <= Clock(w)
        /\ until[w] <= Clock(w) + LeaseFor
        /\ pc[w] \in {"picking", "taking"} => until[w] <= asked[w] + LeaseFor

LeaseInv ==
    /\ TypeOK /\ CyclesAreOfARun /\ AcquisitionsAdvance /\ OwnershipIsRecorded

-----------------------------------------------------------------------------
LEMMA Constant ==
    /\ Workspaces \subseteq Nat /\ None \notin Workers
    /\ LeaseFor \in Nat \ {0} /\ MaxStops \in Nat
    /\ \A w \in Workers : Skew[w] \in Nat
BY WorkspacesAreOrdered, NoneIsNoWorker, ParametersArePositive, SkewsAreNumbers

LEMMA InitLeaseInv == Init => LeaseInv
BY Constant DEF Init, LeaseInv, TypeOK, Stages, NoLease, CyclesAreOfARun,
               AcquisitionsAdvance, OwnershipIsRecorded, Clock

\* What a worker writes is under its name, until the end of its window.
LEMMA WrittenRows ==
    ASSUME TypeOK, NEW w \in Workers, WriteRows(w)
    PROVE  /\ lease' \in [Workspaces -> [owner : Workers \union {None}, until : Nat]]
           /\ \A x \in Takeable(w) \intersect Workspaces :
                 lease'[x].owner = w /\ lease'[x].until = asked[w] + LeaseFor
           /\ \A x \in Workspaces \ Takeable(w) : lease'[x] = lease[x]
           /\ Takeable(w) \in SUBSET Workspaces
<1>1. asked[w] + LeaseFor \in Nat
    BY Constant DEF TypeOK
<1>2. Takeable(w) \in SUBSET Workspaces
    BY DEF TypeOK, Takeable
<1> QED BY <1>1, <1>2 DEF WriteRows, TypeOK

\* Nobody takes a workspace from a worker whose window is open.
LEMMA OpenWindowsAreSkipped ==
    ASSUME LeaseInv, NEW v \in Workers, NEW w \in Workers, v # w,
           NEW x \in leased[w], WindowOpen(w)
    PROVE  x \notin Takeable(v)
<1>1. x \in Workspaces /\ asked[v] \in Nat /\ Clock(v) \in Nat /\ until[w] \in Nat
    BY Constant DEF LeaseInv, TypeOK, Clock
<1>2. lease[x].owner = w /\ lease[x].until >= until[w] /\ lease[x].until \in Nat
    BY <1>1 DEF LeaseInv, OwnershipIsRecorded, TypeOK
<1>3. asked[v] <= Clock(v) /\ Clock(v) < until[w]
    BY DEF LeaseInv, AcquisitionsAdvance, WindowOpen
<1> QED BY <1>1, <1>2, <1>3, Constant DEF Takeable

-----------------------------------------------------------------------------
(* One lemma per action whose case is not immediate.                       *)

LEMMA StartRunKeeps ==
    ASSUME LeaseInv, NEW w \in Workers, StartRun(w)
    PROVE  LeaseInv'
<1>1. TypeOK'
    BY Constant DEF LeaseInv, TypeOK, StartRun, Goto, Stages, Clock
<1>2. CyclesAreOfARun'
    BY DEF LeaseInv, TypeOK, StartRun, Goto, CyclesAreOfARun
<1>3. AcquisitionsAdvance'
    BY Constant DEF LeaseInv, TypeOK, StartRun, Goto, AcquisitionsAdvance, Clock
<1>4. OwnershipIsRecorded'
    BY DEF LeaseInv, StartRun, OwnershipIsRecorded, WindowOpen, Clock
<1> QED BY <1>1, <1>2, <1>3, <1>4 DEF LeaseInv

LEMMA PickKeeps ==
    ASSUME LeaseInv, NEW w \in Workers, Pick(w)
    PROVE  LeaseInv'
<1>0. Scan(w) \in SUBSET Workspaces
    BY WindowsAreSets DEF Scan
<1>1. TypeOK'
    BY <1>0 DEF LeaseInv, TypeOK, Pick, Goto, Stages
<1>2. CyclesAreOfARun'
    BY DEF LeaseInv, TypeOK, Pick, Goto, CyclesAreOfARun
<1>3. AcquisitionsAdvance'
    BY Constant DEF LeaseInv, TypeOK, Pick, Goto, AcquisitionsAdvance, Clock
<1>4. OwnershipIsRecorded'
    BY DEF LeaseInv, Pick, OwnershipIsRecorded, WindowOpen, Clock
<1> QED BY <1>1, <1>2, <1>3, <1>4 DEF LeaseInv

LEMMA TakeKeeps ==
    ASSUME LeaseInv, NEW w \in Workers, Take(w)
    PROVE  LeaseInv'
<1>1. WriteRows(w) /\ pc[w] = "taking" /\ UNCHANGED <<clock, cycling, stops>>
    BY DEF Take
<1>2. /\ lease' \in [Workspaces -> [owner : Workers \union {None}, until : Nat]]
      /\ \A x \in Takeable(w) : lease'[x].owner = w
                             /\ lease'[x].until = asked[w] + LeaseFor
      /\ \A x \in Workspaces \ Takeable(w) : lease'[x] = lease[x]
      /\ Takeable(w) \in SUBSET Workspaces
    BY <1>1, WrittenRows DEF LeaseInv
<1>3. /\ asked' = [asked EXCEPT ![w] = 0] /\ picked' = [picked EXCEPT ![w] = {}]
      /\ asked[w] \in Nat /\ asked[w] <= Clock(w) /\ cycling[w] = {} /\ assigned[w] = {}
    BY <1>1 DEF Take, LeaseInv, TypeOK, AcquisitionsAdvance, CyclesAreOfARun
<1>4. CASE Takeable(w) = {}
    <2>1. /\ pc' = [pc EXCEPT ![w] = "sleeping"] /\ UNCHANGED <<assigned, leased, until>>
          /\ \A x \in Workspaces : lease'[x] = lease[x]
        BY <1>2, <1>4 DEF Take, Goto
    <2>2. TypeOK'
        BY <1>1, <1>2, <1>3, <2>1 DEF LeaseInv, TypeOK, Stages
    <2>3. CyclesAreOfARun'
        BY <1>1, <1>3, <2>1 DEF LeaseInv, TypeOK, CyclesAreOfARun
    <2>4. AcquisitionsAdvance'
        BY <1>1, <1>3, <2>1, Constant DEF LeaseInv, TypeOK, AcquisitionsAdvance, Clock
    <2>5. OwnershipIsRecorded'
        BY <1>1, <2>1 DEF LeaseInv, TypeOK, OwnershipIsRecorded, WindowOpen, Clock
    <2> QED BY <2>2, <2>3, <2>4, <2>5 DEF LeaseInv
<1>5. CASE Takeable(w) # {}
    <2>1. /\ pc' = [pc EXCEPT ![w] = "running"]
          /\ assigned' = [assigned EXCEPT ![w] = Takeable(w)]
          /\ leased' = [leased EXCEPT ![w] = Takeable(w)]
          /\ until' = [until EXCEPT ![w] = asked[w] + LeaseFor]
        BY <1>5 DEF Take, Goto
    <2>2. TypeOK'
        <3>1. /\ pc' \in [Workers -> Stages] /\ asked' \in [Workers -> Nat]
              /\ until' \in [Workers -> Nat]
            BY <1>3, <2>1, Constant DEF LeaseInv, TypeOK, Stages
        <3>2. {picked', assigned', cycling', leased'} \subseteq [Workers -> SUBSET Workspaces]
            BY <1>1, <1>2, <1>3, <2>1 DEF LeaseInv, TypeOK
        <3>3. \A v \in Workers : assigned'[v] \union cycling'[v] \subseteq leased'[v]
            BY <1>1, <1>2, <1>3, <2>1 DEF LeaseInv, TypeOK
        <3> QED BY <1>1, <1>2, <3>1, <3>2, <3>3 DEF LeaseInv, TypeOK
    <2>3. CyclesAreOfARun'
        BY <1>1, <2>1 DEF LeaseInv, TypeOK, CyclesAreOfARun
    <2>4. AcquisitionsAdvance'
        BY <1>1, <1>3, <2>1, Constant DEF LeaseInv, TypeOK, AcquisitionsAdvance, Clock
    <2>5. OwnershipIsRecorded'
        <3> SUFFICES ASSUME NEW v \in Workers, NEW x \in leased'[v], WindowOpen(v)'
                     PROVE  lease'[x].owner = v /\ lease'[x].until >= until'[v]
            BY DEF OwnershipIsRecorded
        <3>1. CASE v = w
            BY <1>2, <1>3, <2>1, <3>1, Constant DEF LeaseInv, TypeOK
        <3>2. CASE v # w
            <4>1. leased'[v] = leased[v] /\ until'[v] = until[v] /\ WindowOpen(v)
                BY <1>1, <2>1, <3>2 DEF LeaseInv, TypeOK, WindowOpen, Clock
            <4>2. x \notin Takeable(w) /\ x \in Workspaces
                BY <3>2, <4>1, OpenWindowsAreSkipped DEF LeaseInv, TypeOK
            <4> QED BY <1>2, <4>1, <4>2 DEF LeaseInv, OwnershipIsRecorded
        <3> QED BY <3>1, <3>2
    <2> QED BY <2>2, <2>3, <2>4, <2>5 DEF LeaseInv
<1> QED BY <1>4, <1>5

\* The rows may be written and the worker does not know.
LEMMA FailAcquisitionKeeps ==
    ASSUME LeaseInv, NEW w \in Workers, FailAcquisition(w)
    PROVE  LeaseInv'
<1>1. /\ pc[w] = "taking" /\ pc' = [pc EXCEPT ![w] = "stopping"]
      /\ asked' = [asked EXCEPT ![w] = 0] /\ picked' = [picked EXCEPT ![w] = {}]
      /\ stops' \in 0 .. MaxStops
      /\ UNCHANGED <<clock, assigned, cycling, leased, until>>
    BY Constant DEF FailAcquisition, Goto, LeaseInv, TypeOK
<1>2. \/ UNCHANGED lease
      \/ /\ lease' \in [Workspaces -> [owner : Workers \union {None}, until : Nat]]
         /\ \A x \in Takeable(w) : lease'[x].owner = w
                                /\ lease'[x].until = asked[w] + LeaseFor
         /\ \A x \in Workspaces \ Takeable(w) : lease'[x] = lease[x]
    BY WrittenRows DEF FailAcquisition, LeaseInv
<1>3. TypeOK'
    BY <1>1, <1>2 DEF LeaseInv, TypeOK, Stages
<1>4. CyclesAreOfARun'
    BY <1>1 DEF LeaseInv, TypeOK, CyclesAreOfARun
<1>5. AcquisitionsAdvance'
    BY <1>1, Constant DEF LeaseInv, TypeOK, AcquisitionsAdvance, Clock
<1>6. OwnershipIsRecorded'
    <2> SUFFICES ASSUME NEW v \in Workers, NEW x \in leased[v], WindowOpen(v)
                 PROVE  lease'[x].owner = v /\ lease'[x].until >= until[v]
        BY <1>1 DEF OwnershipIsRecorded, WindowOpen, Clock
    <2>1. lease[x].owner = v /\ lease[x].until >= until[v] /\ x \in Workspaces
        BY DEF LeaseInv, OwnershipIsRecorded, TypeOK
    <2>2. CASE v = w
        <3>1. until[v] <= asked[w] + LeaseFor
            BY <1>1, <2>2 DEF LeaseInv, AcquisitionsAdvance
        <3>2. until[v] \in Nat /\ asked[w] + LeaseFor \in Nat
            BY Constant DEF LeaseInv, TypeOK
        <3> QED BY <1>2, <2>1, <2>2, <3>1, <3>2
    <2>3. CASE v # w
        <3>1. x \notin Takeable(w)
            BY <2>3, OpenWindowsAreSkipped
        <3> QED BY <1>2, <2>1, <3>1
    <2> QED BY <2>2, <2>3
<1> QED BY <1>3, <1>4, <1>5, <1>6 DEF LeaseInv

\* A release deletes only what is under its own name.
LEMMA ReleaseKeeps ==
    ASSUME LeaseInv, NEW w \in Workers, Release(w)
    PROVE  LeaseInv'
<1>1. /\ pc[w] = "stopping" /\ pc' = [pc EXCEPT ![w] = "stopped"]
      /\ leased' = [leased EXCEPT ![w] = {}]
      /\ UNCHANGED <<clock, asked, picked, assigned, cycling, until, stops>>
    BY DEF Release, Goto
<1>2. /\ lease' \in [Workspaces -> [owner : Workers \union {None}, until : Nat]]
      /\ \A x \in Workspaces : lease[x].owner # w => lease'[x] = lease[x]
    <2>1. NoLease \in [owner : Workers \union {None}, until : Nat]
        BY DEF NoLease
    <2> QED BY <2>1 DEF Release, LeaseInv, TypeOK
<1>3. TypeOK'
    <2>1. assigned[w] = {} /\ cycling[w] = {}
        BY <1>1 DEF LeaseInv, CyclesAreOfARun
    <2>2. leased' \in [Workers -> SUBSET Workspaces]
        BY <1>1 DEF LeaseInv, TypeOK
    <2>3. \A v \in Workers : assigned'[v] \union cycling'[v] \subseteq leased'[v]
        BY <1>1, <2>1 DEF LeaseInv, TypeOK
    <2>4. pc' \in [Workers -> Stages]
        BY <1>1 DEF LeaseInv, TypeOK, Stages
    <2> QED BY <1>1, <1>2, <2>2, <2>3, <2>4 DEF LeaseInv, TypeOK
<1>4. CyclesAreOfARun'
    BY <1>1 DEF LeaseInv, TypeOK, CyclesAreOfARun
<1>5. AcquisitionsAdvance'
    BY <1>1 DEF LeaseInv, TypeOK, AcquisitionsAdvance, Clock
<1>6. OwnershipIsRecorded'
    <2> SUFFICES ASSUME NEW v \in Workers, NEW x \in leased'[v], WindowOpen(v)'
                 PROVE  lease'[x].owner = v /\ lease'[x].until >= until'[v]
        BY DEF OwnershipIsRecorded
    <2>1. v # w /\ x \in leased[v] /\ WindowOpen(v)
        BY <1>1 DEF LeaseInv, TypeOK, WindowOpen, Clock
    <2>2. lease[x].owner = v /\ lease[x].until >= until[v] /\ x \in Workspaces
        BY <2>1 DEF LeaseInv, OwnershipIsRecorded, TypeOK
    <2> QED BY <1>1, <1>2, <2>1, <2>2
<1> QED BY <1>3, <1>4, <1>5, <1>6 DEF LeaseInv

LEMMA CyclesKeep ==
    ASSUME LeaseInv, NEW w \in Workers, NEW x \in Workspaces,
           BeginCycle(w, x) \/ EndCycle(w, x)
    PROVE  LeaseInv'
<1>1. /\ pc[w] = "running" /\ pc' \in [Workers -> Stages]
      /\ \A v \in Workers \ {w} : pc'[v] = pc[v]
      /\ pc'[w] \in {"running", "sleeping"}
    BY DEF BeginCycle, EndCycle, Goto, LeaseInv, TypeOK, Stages, CyclesAreOfARun
<1>2. /\ assigned' \in [Workers -> SUBSET Workspaces]
      /\ cycling' \in [Workers -> SUBSET Workspaces]
      /\ \A v \in Workers \ {w} : assigned'[v] = assigned[v] /\ cycling'[v] = cycling[v]
      /\ assigned'[w] \union cycling'[w] \subseteq leased[w]
      /\ UNCHANGED <<lease, clock, asked, picked, leased, until, stops>>
    BY DEF BeginCycle, EndCycle, LeaseInv, TypeOK
<1>3. pc'[w] # "running" => assigned'[w] = {} /\ cycling'[w] = {}
    BY <1>1 DEF BeginCycle, EndCycle, Goto, LeaseInv, TypeOK
<1>4. TypeOK'
    BY <1>1, <1>2 DEF LeaseInv, TypeOK
<1>5. CyclesAreOfARun'
    BY <1>1, <1>2, <1>3 DEF LeaseInv, TypeOK, CyclesAreOfARun
<1>6. AcquisitionsAdvance'
    BY <1>1, <1>2 DEF LeaseInv, TypeOK, AcquisitionsAdvance, Clock
<1>7. OwnershipIsRecorded'
    BY <1>2 DEF LeaseInv, OwnershipIsRecorded, WindowOpen, Clock
<1> QED BY <1>4, <1>5, <1>6, <1>7 DEF LeaseInv

LEMMA StopsKeep ==
    ASSUME LeaseInv, NEW w \in Workers, Leave(w) \/ Crash(w)
    PROVE  LeaseInv'
<1>1. /\ pc' \in [Workers -> Stages] /\ pc'[w] \in {"stopping", "stopped"}
      /\ \A v \in Workers \ {w} : pc'[v] = pc[v]
      /\ stops' \in 0 .. MaxStops /\ UNCHANGED <<lease, clock, until>>
    BY Constant DEF Leave, Crash, Goto, LeaseInv, TypeOK, Stages, memory
<1>2. /\ {picked', assigned', cycling', leased'} \subseteq [Workers -> SUBSET Workspaces]
      /\ asked' \in [Workers -> Nat]
      /\ \A v \in Workers : /\ assigned'[v] \union cycling'[v] \subseteq leased'[v]
                            /\ asked'[v] <= Clock(v) /\ leased'[v] \subseteq leased[v]
      /\ \A v \in Workers \ {w} : /\ asked'[v] = asked[v]
                                  /\ assigned'[v] = assigned[v] /\ cycling'[v] = cycling[v]
      /\ assigned'[w] = {} /\ cycling'[w] = {}
    <2>1. CASE Leave(w)
        BY <2>1 DEF Leave, memory, LeaseInv, TypeOK, CyclesAreOfARun, AcquisitionsAdvance
    <2>2. CASE Crash(w)
        BY <2>2, Constant DEF Crash, LeaseInv, TypeOK, AcquisitionsAdvance, Clock
    <2> QED BY <2>1, <2>2
<1>3. TypeOK'
    BY <1>1, <1>2 DEF LeaseInv, TypeOK
<1>4. CyclesAreOfARun'
    BY <1>1, <1>2 DEF LeaseInv, TypeOK, CyclesAreOfARun
<1>5. AcquisitionsAdvance'
    BY <1>1, <1>2 DEF LeaseInv, TypeOK, AcquisitionsAdvance, Clock
<1>6. OwnershipIsRecorded'
    BY <1>1, <1>2 DEF LeaseInv, OwnershipIsRecorded, WindowOpen, Clock
<1> QED BY <1>3, <1>4, <1>5, <1>6 DEF LeaseInv

LEMMA TickKeeps ==
    ASSUME LeaseInv, Tick
    PROVE  LeaseInv'
<1>1. clock \in Nat /\ clock' = clock + 1 /\ UNCHANGED <<lease, pc, memory, stops>>
    BY DEF Tick, LeaseInv, TypeOK
<1>2. TypeOK' /\ CyclesAreOfARun'
    BY <1>1 DEF LeaseInv, TypeOK, CyclesAreOfARun, memory
<1>3. AcquisitionsAdvance'
    BY <1>1, Constant DEF LeaseInv, TypeOK, AcquisitionsAdvance, memory, Clock
<1>4. OwnershipIsRecorded'
    <2>1. \A w \in Workers : WindowOpen(w)' => WindowOpen(w)
        BY <1>1, Constant DEF LeaseInv, TypeOK, memory, WindowOpen, Clock
    <2> QED BY <1>1, <2>1 DEF LeaseInv, OwnershipIsRecorded, memory
<1> QED BY <1>2, <1>3, <1>4 DEF LeaseInv

LEMMA NextLeaseInv == LeaseInv /\ [Next]_vars => LeaseInv'
<1> SUFFICES ASSUME LeaseInv, [Next]_vars
             PROVE  LeaseInv'
    OBVIOUS
<1>1. CASE UNCHANGED vars
    BY <1>1 DEF vars, LeaseInv, TypeOK, CyclesAreOfARun, AcquisitionsAdvance,
                OwnershipIsRecorded, WindowOpen, Clock
<1>2. CASE Next
    BY <1>2, StartRunKeeps, PickKeeps, TakeKeeps, ReleaseKeeps, CyclesKeep, StopsKeep,
       FailAcquisitionKeeps, TickKeeps DEF Next, Work
<1> QED BY <1>1, <1>2

LEMMA LeaseInvariant == Spec => []LeaseInv
BY InitLeaseInv, NextLeaseInv, PTL DEF Spec

-----------------------------------------------------------------------------
\* Every variable of the table and of the workers' loops has its type, and a
\* worker cycles only over workspaces it leased.
THEOREM LeasesAreTyped == Spec => []TypeOK
<1>1. LeaseInv => TypeOK
    BY DEF LeaseInv
<1> QED BY <1>1, LeaseInvariant, PTL

\* The row of a workspace stays under its holder's name until the window of
\* the holder closes: no peer's acquisition, with however old a "now", and
\* no peer's release touches it.
THEOREM OwnershipStays == Spec => []OwnershipIsRecorded
<1>1. LeaseInv => OwnershipIsRecorded
    BY DEF LeaseInv
<1> QED BY <1>1, LeaseInvariant, PTL

\* What acquire_partitions promises its callers: the list it returns is
\* definitive ownership for the lease window.
THEOREM OwnershipIsDefinitive == Spec => []DefinitiveOwnership
<1>1. LeaseInv => DefinitiveOwnership
    <2> SUFFICES ASSUME LeaseInv, NEW v \in Workers, NEW w \in Workers, v # w,
                        NEW x \in leased[v] \intersect leased[w],
                        WindowOpen(v), WindowOpen(w)
                 PROVE  FALSE
        BY DEF DefinitiveOwnership
    <2> QED BY DEF LeaseInv, OwnershipIsRecorded
<1> QED BY <1>1, LeaseInvariant, PTL

-----------------------------------------------------------------------------
(* Double processing: the loop starts the cycles of a run one after the    *)
(* other and never looks at until again, so that a peer may work on the    *)
(* same workspace, but only when the window of one of the two has closed.  *)

CyclesAreBrief == \A w \in Workers : cycling[w] # {} => WindowOpen(w)

\* What "peer workers never double-process a tenant" needs to be true: that
\* no cycle runs past the end of its lease window, by whosever clock.
THEOREM BriefCyclesExclude == Spec /\ []CyclesAreBrief => []NeverDoubleProcessed
<1>1. LeaseInv /\ CyclesAreBrief => NeverDoubleProcessed
    <2> SUFFICES ASSUME LeaseInv, CyclesAreBrief, NEW v \in Workers, NEW w \in Workers, v # w,
                        NEW x \in cycling[v] \intersect cycling[w]
                 PROVE  FALSE
        BY DEF NeverDoubleProcessed
    <2>1. x \in leased[v] /\ x \in leased[w]
        BY DEF LeaseInv, TypeOK
    <2>2. WindowOpen(v) /\ WindowOpen(w)
        BY DEF CyclesAreBrief
    <2> QED BY <2>1, <2>2 DEF LeaseInv, OwnershipIsRecorded
<1> QED BY <1>1, LeaseInvariant, PTL

-----------------------------------------------------------------------------
(* Reclaiming: no row of the table outlives the lease length by the clock   *)
(* of the worker that wrote it, whether or not that worker is still there.  *)

RowsExpire ==
    \A x \in Workspaces : \A w \in Workers :
        lease[x].owner = w => lease[x].until <= Clock(w) + LeaseFor

\* A workspace whose worker has crashed is free for the next acquisition that
\* asks partition_lease_seconds later by that worker's clock: what ScannedAreServed rests on.
THEOREM LeasesExpire == Spec => []RowsExpire
<1>1. Init => RowsExpire
    BY Constant DEF Init, RowsExpire, NoLease, Clock
<1>2. ASSUME LeaseInv, RowsExpire, [Next]_vars
      PROVE  RowsExpire'
    <2> USE <1>2
    <2>1. /\ clock \in Nat /\ clock' \in Nat /\ clock <= clock'
          /\ \A x \in Workspaces : lease[x].until \in Nat
          /\ \A w \in Workers : asked[w] \in Nat /\ asked[w] <= Clock(w)
        <3>1. LeaseInv'
            BY NextLeaseInv
        <3>2. clock' = clock \/ clock' = clock + 1
            BY DEF Next, Work, StartRun, Pick, Take, Release, BeginCycle, EndCycle, Leave,
                   FailAcquisition, Crash, Tick, vars
        <3> QED BY <3>1, <3>2 DEF LeaseInv, TypeOK, AcquisitionsAdvance
    <2>2. ASSUME NEW x \in Workspaces, NEW w \in Workers,
                 lease'[x] = lease[x], lease'[x].owner = w
          PROVE  lease'[x].until <= Clock(w)' + LeaseFor
        <3>1. lease[x].until <= clock + Skew[w] + LeaseFor
            BY <2>2 DEF RowsExpire, Clock
        <3>2. Skew[w] \in Nat /\ LeaseFor \in Nat /\ lease[x].until \in Nat
            BY <2>1, Constant
        <3>3. lease[x].until <= clock' + Skew[w] + LeaseFor
            BY <2>1, <3>1, <3>2
        <3> QED BY <2>2, <3>3, Constant DEF Clock
    <2>3. ASSUME NEW w \in Workers, WriteRows(w) PROVE RowsExpire'
        <3>1. \A x \in Workspaces :
                 \/ lease'[x] = lease[x]
                 \/ lease'[x].owner = w /\ lease'[x].until = asked[w] + LeaseFor
            BY <2>3, WrittenRows DEF LeaseInv
        <3>2. ASSUME NEW x \in Workspaces, NEW v \in Workers,
                     lease'[x] # lease[x], lease'[x].owner = v
              PROVE  lease'[x].until <= Clock(v)' + LeaseFor
            <4>1. v = w /\ lease'[x].until = asked[v] + LeaseFor
                BY <3>1, <3>2
            <4>2. asked[v] \in Nat /\ asked[v] <= clock + Skew[v]
                BY <2>1 DEF Clock
            <4>3. asked[v] + LeaseFor <= clock' + Skew[v] + LeaseFor
                BY <2>1, <4>2, Constant
            <4> QED BY <4>1, <4>3, Constant DEF Clock
        <3> QED BY <2>2, <3>2 DEF RowsExpire
    <2>4. ASSUME NEW w \in Workers, Release(w) PROVE RowsExpire'
        <3>1. \A x \in Workspaces : lease'[x] = lease[x] \/ lease'[x] = NoLease
            BY <2>4 DEF Release, LeaseInv, TypeOK
        <3>2. \A v \in Workers : NoLease.owner # v
            BY Constant DEF NoLease
        <3> QED BY <2>2, <3>1, <3>2 DEF RowsExpire
    <2>5. \/ UNCHANGED lease
          \/ \E w \in Workers : WriteRows(w) \/ Release(w)
        BY DEF Next, Work, StartRun, Pick, Take, BeginCycle, EndCycle, Leave,
               FailAcquisition, Crash, Tick, vars
    <2>6. CASE UNCHANGED lease
        BY <2>2, <2>6 DEF RowsExpire
    <2> QED BY <2>3, <2>4, <2>5, <2>6
<1>3. LeaseInv /\ RowsExpire /\ [Next]_vars => RowsExpire'
    BY <1>2
<1> QED BY <1>1, <1>3, LeaseInvariant, PTL DEF Spec

-----------------------------------------------------------------------------
(* Starvation: list_workspace_ids_for_partition_lease starts at the first  *)
(* workspace of the window every time, so that what lies beyond the batch  *)
(* is never leased, by nobody.                                             *)

LeasedAreScanned ==
    \A w \in Workers : picked[w] \subseteq Scan(w) /\ leased[w] \subseteq Scan(w)

\* A worker serves the workspaces of its scan and no others, for ever.
THEOREM OnlyScannedAreLeased == Spec => []LeasedAreScanned
<1>1. Init => LeasedAreScanned
    BY DEF Init, LeasedAreScanned
<1>2. LeaseInv /\ LeasedAreScanned /\ [Next]_vars => LeasedAreScanned'
    <2> SUFFICES ASSUME LeaseInv, LeasedAreScanned, [Next]_vars, NEW w \in Workers
                 PROVE  picked'[w] \subseteq Scan(w) /\ leased'[w] \subseteq Scan(w)
        BY DEF LeasedAreScanned, Scan
    <2>1. picked[w] \subseteq Scan(w) /\ leased[w] \subseteq Scan(w)
        BY DEF LeasedAreScanned
    <2>2. picked'[w] \in {picked[w], {}} \/ picked'[w] = {x \in Scan(w) : ~HeldByPeer(w, x)}
        BY DEF Next, Work, StartRun, Pick, Take, Release, BeginCycle, EndCycle, Leave,
               FailAcquisition, Crash, Tick, vars, memory, LeaseInv, TypeOK
    <2>3. leased'[w] \in {leased[w], {}} \/ leased'[w] = Takeable(w)
        BY DEF Next, Work, StartRun, Pick, Take, Release, BeginCycle, EndCycle, Leave,
               FailAcquisition, Crash, Tick, vars, memory, LeaseInv, TypeOK
    <2>4. Takeable(w) \subseteq picked[w]
        BY DEF Takeable
    <2> QED BY <2>1, <2>2, <2>3, <2>4
<1> QED BY <1>1, <1>2, LeaseInvariant, PTL DEF Spec

\* A finite set of numbers has a greatest element: with fewest elements among
\* those that had none, a set would lose one and have a greatest one.
LEMMA GreatestElement ==
    ASSUME NEW S, S \subseteq Nat, IsFiniteSet(S), S # {}
    PROVE  \E m \in S : \A x \in S : x <= m
<1> DEFINE Without == {T \in SUBSET Nat : /\ IsFiniteSet(T) /\ T # {}
                                          /\ ~ \E m \in T : \A x \in T : x <= m}
           Sizes == {Cardinality(T) : T \in Without}
           Less == OpToRel(<, Nat)
<1> SUFFICES ASSUME Without # {} PROVE FALSE
    BY DEF Without
<1>1. Sizes \subseteq Nat /\ Sizes # {}
    BY FS_CardinalityType
<1>2. PICK n \in Sizes : \A y \in Sizes : ~(<<y, n>> \in Less)
    <2>1. IsWellFoundedOn(Less, Nat)
        BY NatLessThanWellFounded
    <2> HIDE DEF Less, Sizes
    <2> QED BY <1>1, <2>1, WFMin
<1>3. \A y \in Sizes : n <= y
    <2>1. n \in Nat /\ Sizes \subseteq Nat
        BY <1>1
    <2>2. \A y \in Nat : y < n => <<y, n>> \in Less
        BY <2>1 DEF OpToRel
    <2> HIDE DEF Less, Sizes
    <2> SUFFICES ASSUME NEW y \in Sizes PROVE n <= y
        OBVIOUS
    <2>3. ~(<<y, n>> \in Less)
        BY <1>2
    <2>4. y \in Nat /\ ~(y < n)
        BY <2>1, <2>2, <2>3
    <2> QED BY <2>1, <2>4
<1>4. PICK T \in Without : Cardinality(T) = n
    BY <1>2
<1>5. PICK a \in T : TRUE
    BY <1>4
<1>6. IsFiniteSet(T \ {a}) /\ Cardinality(T \ {a}) = n - 1 /\ n \in Nat
    BY <1>4, <1>5, FS_RemoveElement, FS_CardinalityType
<1>7. T \ {a} \notin Without
    <2> SUFFICES ASSUME T \ {a} \in Without PROVE FALSE
        OBVIOUS
    <2>1. Cardinality(T \ {a}) \in Sizes
        OBVIOUS
    <2> HIDE DEF Sizes, Without
    <2> QED BY <1>3, <1>6, <2>1
<1>8. T \subseteq Nat /\ IsFiniteSet(T)
    BY <1>4
<1>9. CASE T \ {a} = {}
    <2>1. \A x \in T : x <= a
        BY <1>5, <1>8, <1>9
    <2> QED BY <1>4, <1>5, <2>1
<1>10. CASE T \ {a} # {}
    <2>1. PICK m \in T \ {a} : \A x \in T \ {a} : x <= m
        BY <1>6, <1>7, <1>8, <1>10
    <2>2. CASE a <= m
        BY <1>4, <2>1, <2>2
    <2>3. CASE ~(a <= m)
        <3>1. \A x \in T : x <= a
            BY <1>5, <1>8, <2>1, <2>3
        <3> QED BY <1>4, <1>5, <3>1
    <2> QED BY <2>2, <2>3
<1> QED BY <1>9, <1>10

\* A deployment with more workspaces than the batch has one that no scan of
\* the default window, which is all of them, reaches.
LEMMA ScanFallsShort ==
    ASSUME IsFiniteSet(Workspaces), Cardinality(Workspaces) > Batch,
           \A w \in Workers : Window[w] = Workspaces
    PROVE  \E x \in Workspaces : \A w \in Workers : x \notin Scan(w)
<1>1. Workspaces # {}
    BY FS_EmptySet, ParametersArePositive
<1>2. PICK m \in Workspaces : \A x \in Workspaces : x <= m
    BY <1>1, GreatestElement, WorkspacesAreOrdered
<1>3. {y \in Workspaces : y < m} = Workspaces \ {m}
    <2>1. \A y \in Workspaces : y < m <=> y # m
        BY <1>2, WorkspacesAreOrdered
    <2> QED BY <2>1
<1>4. /\ Cardinality(Workspaces \ {m}) = Cardinality(Workspaces) - 1
      /\ Cardinality(Workspaces) \in Nat
    BY <1>2, FS_RemoveElement, FS_CardinalityType
<1>5. ~(Cardinality({y \in Workspaces : y < m}) < Batch)
    BY <1>3, <1>4, ParametersArePositive
<1> QED BY <1>2, <1>5 DEF Scan

\* However the workers are scheduled and whatever crashes, workers with the
\* default window do not serve every workspace once there are more of them
\* than partition_batch: the README's claim fails for all such deployments.
THEOREM TheRestIsStarved ==
    ASSUME IsFiniteSet(Workspaces), Cardinality(Workspaces) > Batch,
           \A w \in Workers : Window[w] = Workspaces
    PROVE  Spec => ~EveryWorkspaceIsServed
<1>1. PICK x \in Workspaces : \A w \in Workers : x \notin Scan(w)
    BY ScanFallsShort
<1>2. LeaseInv /\ LeasedAreScanned => ~ \E w \in Workers : x \in cycling[w]
    BY <1>1 DEF LeaseInv, TypeOK, LeasedAreScanned
<1>3. EveryWorkspaceIsServed => <>(\E w \in Workers : x \in cycling[w])
    BY DEF EveryWorkspaceIsServed
<1> QED BY <1>2, <1>3, LeaseInvariant, OnlyScannedAreLeased, PTL

=============================================================================
