----------------------- MODULE CircuitBreaker_proofs -----------------------
(***************************************************************************)
(* The safety of the breaker for any number of concurrent calls, threshold,*)
(* cooldown and number of failures.                                        *)
(***************************************************************************)
EXTENDS CircuitBreaker, FiniteSetTheorems, TLAPS

Failing == {c \in Calls : pc[c] = "failed"}

\* The count is at most what the endpoint has done, less what the calls on
\* their way to the fetch_add have yet to report.
Counted == consecutive_failures + Cardinality(Failing) <= failures

\* A call that is about to open the breaker has seen the threshold reached.
OpeningIsJustified ==
    \A c \in Calls : pc[c] = "opening" => Threshold > 0 /\ failures >= Threshold

BreakerInv ==
    /\ TypeOK /\ clock > 0
    /\ Counted /\ OpeningIsJustified /\ OutageIsJustified

-----------------------------------------------------------------------------
\* The calls that have failed and not reported it are a finite set.
LEMMA FailingIsFinite ==
    IsFiniteSet(Failing) /\ Cardinality(Failing) \in Nat
<1>1. IsFiniteSet(Failing)
    BY CallsAreFinite, FS_Subset DEF Failing
<1> QED BY <1>1, FS_CardinalityType

\* What a step of a call does to that set.
LEMMA FailingAfter ==
    ASSUME TypeOK, NEW c \in Calls, NEW stage, pc' = [pc EXCEPT ![c] = stage]
    PROVE  /\ stage # "failed" => Cardinality(Failing)' <= Cardinality(Failing)
           /\ stage # "failed" /\ pc[c] = "failed" =>
                 Cardinality(Failing)' = Cardinality(Failing) - 1
           /\ Cardinality(Failing)' <= Cardinality(Failing) + 1
           /\ Cardinality(Failing)' \in Nat
<1>0. IsFiniteSet(Failing) /\ Cardinality(Failing) \in Nat
    BY FailingIsFinite
<1>1. Failing' = IF stage = "failed" THEN Failing \union {c} ELSE Failing \ {c}
    BY DEF Failing, TypeOK
<1>2. CASE stage = "failed"
    <2>1. /\ Cardinality(Failing \union {c}) \in {Cardinality(Failing), Cardinality(Failing) + 1}
        BY <1>0, FS_AddElement
    <2> QED BY <1>0, <1>1, <1>2, <2>1
<1>3. CASE stage # "failed"
    <2>1. Cardinality(Failing \ {c}) = IF c \in Failing THEN Cardinality(Failing) - 1
                                                        ELSE Cardinality(Failing)
        BY <1>0, FS_RemoveElement
    <2>2. IsFiniteSet(Failing \ {c})
        BY <1>0, FS_RemoveElement
    <2>3. Cardinality(Failing \ {c}) \in Nat
        BY <2>2, FS_CardinalityType
    <2>4. c \in Failing <=> pc[c] = "failed"
        BY DEF Failing
    <2> QED BY <1>0, <1>1, <1>3, <2>1, <2>3, <2>4
<1> QED BY <1>2, <1>3

-----------------------------------------------------------------------------
\* A step that leaves the atomics and the history alone, and fails no call.
LEMMA QuietStep ==
    ASSUME BreakerInv, NEW c \in Calls, NEW stage \in Stages \ {"failed", "opening"},
           pc' = [pc EXCEPT ![c] = stage], UNCHANGED <<atomics, clock, failures>>,
           now' \in [Calls -> 0 .. clock], \A d \in Calls \ {c} : now'[d] = now[d],
           stage = "idle" <=> now'[c] = 0
    PROVE  BreakerInv'
<1>1. TypeOK'
    BY DEF BreakerInv, TypeOK, atomics
<1>2. Counted'
    <2>1. Cardinality(Failing)' <= Cardinality(Failing) /\ Cardinality(Failing)' \in Nat
        BY FailingAfter DEF BreakerInv
    <2> QED BY <2>1, FailingIsFinite DEF BreakerInv, Counted, TypeOK, atomics
<1>3. OpeningIsJustified' /\ OutageIsJustified' /\ clock' > 0
    BY DEF BreakerInv, OpeningIsJustified, OutageIsJustified, TypeOK, atomics
<1> QED BY <1>1, <1>2, <1>3 DEF BreakerInv

\* The instant of a call that ends is forgotten.
LEMMA FinishForgets ==
    ASSUME TypeOK, NEW c \in Calls, Finish(c)
    PROVE  /\ pc' = [pc EXCEPT ![c] = "idle"] /\ now' \in [Calls -> 0 .. clock]
           /\ now'[c] = 0 /\ \A d \in Calls \ {c} : now'[d] = now[d]
    BY DEF Finish, Goto, TypeOK

LEMMA BeginKeeps ==
    ASSUME BreakerInv, NEW c \in Calls, Begin(c)
    PROVE  BreakerInv'
<1>1. /\ pc' = [pc EXCEPT ![c] = "gate"] /\ UNCHANGED <<atomics, clock, failures>>
      /\ now' \in [Calls -> 0 .. clock] /\ now'[c] = clock /\ clock # 0
      /\ \A d \in Calls \ {c} : now'[d] = now[d]
    BY DEF Begin, Goto, BreakerInv, TypeOK
<1> QED BY <1>1, QuietStep DEF Stages

LEMMA GateKeeps ==
    ASSUME BreakerInv, NEW c \in Calls, Gate(c)
    PROVE  BreakerInv'
<1>1. pc[c] = "gate" /\ now[c] # 0 /\ TypeOK /\ UNCHANGED <<atomics, clock, failures>>
    BY DEF Gate, BreakerInv, TypeOK
<1>2. CASE Finish(c)
    BY <1>1, <1>2, FinishForgets, QuietStep DEF Stages
<1>3. CASE Goto(c, "sending") /\ UNCHANGED now
    BY <1>1, <1>3, QuietStep DEF Stages, Goto, TypeOK
<1> QED BY <1>2, <1>3 DEF Gate

LEMMA SucceedKeeps ==
    ASSUME BreakerInv, NEW c \in Calls, Succeed(c)
    PROVE  BreakerInv'
<1>1. /\ pc[c] = "sending" /\ now[c] # 0 /\ TypeOK
      /\ pc' = [pc EXCEPT ![c] = "succeeded"]
      /\ UNCHANGED <<atomics, clock, now, failures>>
    BY DEF Succeed, Goto, BreakerInv, TypeOK
<1> QED BY <1>1, QuietStep DEF Stages, TypeOK

LEMMA FailKeeps ==
    ASSUME BreakerInv, NEW c \in Calls, Fail(c)
    PROVE  BreakerInv'
<1>1. /\ pc[c] = "sending" /\ failures < MaxFailures /\ failures' = failures + 1
      /\ pc' = [pc EXCEPT ![c] = "failed"] /\ UNCHANGED <<atomics, clock, now>>
      /\ TypeOK /\ Counted /\ clock > 0
    BY DEF Fail, Goto, BreakerInv
<1>2. MaxFailures \in Nat /\ Threshold \in Nat
    BY ParametersAreNaturals
<1>3. TypeOK'
    BY <1>1, <1>2 DEF TypeOK, Stages, atomics
<1>4. Counted'
    <2>1. Cardinality(Failing)' <= Cardinality(Failing) + 1 /\ Cardinality(Failing)' \in Nat
        BY <1>1, FailingAfter
    <2> QED BY <1>1, <1>2, <2>1, FailingIsFinite DEF Counted, TypeOK, atomics
<1>5. OpeningIsJustified' /\ OutageIsJustified' /\ clock' > 0
    BY <1>1, <1>2 DEF BreakerInv, OpeningIsJustified, OutageIsJustified, TypeOK, atomics
<1> QED BY <1>3, <1>4, <1>5 DEF BreakerInv

\* fetch_add reports a failure that the endpoint made, so the new count is
\* still covered, and a threshold that it reaches was reached by the endpoint.
LEMMA CountFailureKeeps ==
    ASSUME BreakerInv, NEW c \in Calls, CountFailure(c)
    PROVE  BreakerInv'
<1>1. /\ pc[c] = "failed" /\ now[c] # 0 /\ UNCHANGED <<circuit_open_until, clock, failures>>
      /\ TypeOK /\ Counted /\ clock > 0
    BY DEF CountFailure, BreakerInv, TypeOK
<1>2. /\ MaxFailures \in Nat /\ Threshold \in Nat
      /\ consecutive_failures \in Nat /\ failures \in Nat /\ failures <= MaxFailures
    BY <1>1, ParametersAreNaturals DEF TypeOK
<1>3. CASE Threshold = 0
    BY <1>1, <1>3, FinishForgets, QuietStep DEF CountFailure, Stages, atomics
<1>4. CASE Threshold # 0
    <2>1. PICK stage \in {"opening", "idle"} :
             /\ pc' = [pc EXCEPT ![c] = stage]
             /\ consecutive_failures' = consecutive_failures + 1
             /\ now' \in [Calls -> 0 .. clock]
             /\ stage = "idle" <=> now'[c] = 0
             /\ \A d \in Calls \ {c} : now'[d] = now[d]
             /\ stage = "opening" => consecutive_failures + 1 >= Threshold
        <3>1. consecutive_failures' = consecutive_failures + 1
            BY <1>4 DEF CountFailure
        <3>2. CASE Opens(consecutive_failures')
            <4>1. pc' = [pc EXCEPT ![c] = "opening"] /\ now' = now
                BY <1>4, <3>2 DEF CountFailure, Goto
            <4> QED BY <1>1, <3>1, <3>2, <4>1 DEF Opens, TypeOK
        <3>3. CASE ~Opens(consecutive_failures')
            BY <1>1, <1>4, <3>1, <3>3, FinishForgets DEF CountFailure
        <3> QED BY <3>2, <3>3
    <2>2. Cardinality(Failing)' = Cardinality(Failing) - 1 /\ Cardinality(Failing)' \in Nat
        BY <1>1, <2>1, FailingAfter
    <2>3. Counted' /\ consecutive_failures + 1 <= failures
        BY <1>1, <1>2, <2>1, <2>2, FailingIsFinite DEF Counted
    <2>4. TypeOK'
        BY <1>1, <1>2, <2>1, <2>3 DEF TypeOK, Stages
    <2>5. OpeningIsJustified'
        BY <1>1, <1>2, <1>4, <2>1, <2>3 DEF BreakerInv, OpeningIsJustified, TypeOK
    <2>6. OutageIsJustified' /\ clock' > 0
        BY <1>1 DEF BreakerInv, OutageIsJustified
    <2> QED BY <2>3, <2>4, <2>5, <2>6 DEF BreakerInv
<1> QED BY <1>3, <1>4

LEMMA OpenKeeps ==
    ASSUME BreakerInv, NEW c \in Calls, Open(c)
    PROVE  BreakerInv'
<1>1. /\ pc[c] = "opening" /\ circuit_open_until' = now[c] + Cooldown
      /\ pc' = [pc EXCEPT ![c] = "idle"] /\ now' \in [Calls -> 0 .. clock]
      /\ now'[c] = 0 /\ \A d \in Calls \ {c} : now'[d] = now[d]
      /\ UNCHANGED <<consecutive_failures, clock, failures>>
      /\ TypeOK /\ clock > 0 /\ Threshold > 0 /\ failures >= Threshold
      /\ now[c] \in 0 .. clock /\ clock \in Nat
    <2>1. TypeOK /\ clock > 0 /\ pc[c] = "opening" /\ Finish(c)
        BY DEF Open, BreakerInv
    <2>2. now[c] \in 0 .. clock /\ clock \in Nat
        BY <2>1 DEF TypeOK
    <2>3. Threshold > 0 /\ failures >= Threshold
        BY <2>1 DEF BreakerInv, OpeningIsJustified
    <2> QED BY <2>1, <2>2, <2>3, FinishForgets DEF Open
<1>2. Cooldown \in Nat
    BY ParametersAreNaturals
<1>3. TypeOK'
    BY <1>1, <1>2 DEF TypeOK, Stages
<1>4. Counted'
    <2>0. PICK stage \in {"idle"} : TypeOK /\ pc' = [pc EXCEPT ![c] = stage]
        BY <1>1
    <2>1. Cardinality(Failing)' <= Cardinality(Failing) /\ Cardinality(Failing)' \in Nat
        BY <2>0, FailingAfter
    <2>2. Counted /\ consecutive_failures \in Nat /\ failures \in Nat
        BY ParametersAreNaturals DEF BreakerInv, TypeOK
    <2> QED BY <1>1, <2>1, <2>2, FailingIsFinite DEF Counted
<1>5. OpeningIsJustified' /\ OutageIsJustified' /\ clock' > 0
    BY <1>1, <1>2 DEF BreakerInv, OpeningIsJustified, OutageIsJustified, TypeOK
<1> QED BY <1>3, <1>4, <1>5 DEF BreakerInv

\* Both stores of record_success write zero.
LEMMA SuccessKeeps ==
    ASSUME BreakerInv, NEW c \in Calls, ResetCount(c) \/ Close(c)
    PROVE  BreakerInv'
<1>1. PICK stage \in {"closing", "idle"} :
         /\ pc' = [pc EXCEPT ![c] = stage] /\ now' \in [Calls -> 0 .. clock]
         /\ stage = "idle" <=> now'[c] = 0
         /\ \A d \in Calls \ {c} : now'[d] = now[d]
         /\ consecutive_failures' \in {consecutive_failures, 0}
         /\ circuit_open_until' \in {circuit_open_until, 0}
         /\ UNCHANGED <<clock, failures>> /\ TypeOK
    <2>1. CASE ResetCount(c)
        BY <2>1 DEF ResetCount, Goto, BreakerInv, TypeOK
    <2>2. CASE Close(c)
        BY <2>2, FinishForgets DEF Close, BreakerInv
    <2> QED BY <2>1, <2>2
<1>2. TypeOK'
    BY <1>1, ParametersAreNaturals DEF TypeOK, Stages
<1>3. Counted'
    <2>1. Cardinality(Failing)' <= Cardinality(Failing) /\ Cardinality(Failing)' \in Nat
        BY <1>1, FailingAfter
    <2> QED BY <1>1, <2>1, FailingIsFinite DEF BreakerInv, Counted, TypeOK
<1>4. OpeningIsJustified' /\ OutageIsJustified' /\ clock' > 0
    BY <1>1, ParametersAreNaturals
    DEF BreakerInv, OpeningIsJustified, OutageIsJustified, TypeOK
<1> QED BY <1>2, <1>3, <1>4 DEF BreakerInv

LEMMA TickKeeps ==
    ASSUME BreakerInv, Tick
    PROVE  BreakerInv'
<1>1. clock' = clock + 1 /\ UNCHANGED <<atomics, pc, now, failures>> /\ Cooldown \in Nat
    BY ParametersAreNaturals DEF Tick
<1> QED BY <1>1 DEF BreakerInv, TypeOK, Counted, Failing, OpeningIsJustified,
                    OutageIsJustified, atomics

-----------------------------------------------------------------------------
LEMMA BreakerInvariant == Spec => []BreakerInv
<1>1. Init => BreakerInv
    <2> SUFFICES ASSUME Init PROVE BreakerInv
        OBVIOUS
    <2>1. Failing = {}
        BY DEF Init, Failing
    <2>2. Cardinality(Failing) = 0
        BY <2>1, FS_EmptySet
    <2> QED BY <2>2, ParametersAreNaturals
            DEF Init, BreakerInv, TypeOK, Counted, OpeningIsJustified, OutageIsJustified, Stages
<1>2. BreakerInv /\ [Next]_vars => BreakerInv'
    <2> SUFFICES ASSUME BreakerInv, [Next]_vars PROVE BreakerInv'
        OBVIOUS
    <2>1. ASSUME NEW c \in Calls, Step(c) PROVE BreakerInv'
        <3>1. CASE Begin(c)         BY <3>1, BeginKeeps
        <3>2. CASE Gate(c)          BY <3>2, GateKeeps
        <3>3. CASE Fail(c)          BY <3>3, FailKeeps
        <3>4. CASE Succeed(c)       BY <3>4, SucceedKeeps
        <3>5. CASE CountFailure(c)  BY <3>5, CountFailureKeeps
        <3>6. CASE Open(c)          BY <3>6, OpenKeeps
        <3>7. CASE ResetCount(c) \/ Close(c)  BY <3>7, SuccessKeeps
        <3> QED BY <2>1, <3>1, <3>2, <3>3, <3>4, <3>5, <3>6, <3>7 DEF Step, Answered
    <2>2. CASE Tick
        BY <2>2, TickKeeps
    <2>3. CASE UNCHANGED vars
        BY <2>3 DEF vars, atomics, BreakerInv, TypeOK, Counted, Failing,
                    OpeningIsJustified, OutageIsJustified
    <2> QED BY <2>1, <2>2, <2>3 DEF Next
<1> QED BY <1>1, <1>2, PTL DEF Spec

\* The two atomics, the clock and the calls keep their types; the count never
\* exceeds the failures of the endpoint.
THEOREM BreakerTypes == Spec => []TypeOK
<1>1. BreakerInv => TypeOK
    BY DEF BreakerInv
<1> QED BY <1>1, BreakerInvariant, PTL

\* The breaker of publish.rs opens only after Threshold failures, and for one
\* cooldown at most, although the store of one call and the fetch_add of
\* another interleave freely.
THEOREM OutagesAreJustified == Spec => []OutageIsJustified
<1>1. BreakerInv => OutageIsJustified
    BY DEF BreakerInv
<1> QED BY <1>1, BreakerInvariant, PTL

\* breaker_open lets no call through while circuit_open_until is in the future.
THEOREM OpenBreakerHolds == Spec => NoSendWhileOpen
<1>1. BreakerInv /\ [Next]_vars =>
        [\A c \in Calls :
            pc[c] = "gate" /\ pc'[c] = "sending" => circuit_open_until <= clock]_vars
    <2> SUFFICES ASSUME BreakerInv, Next, NEW c \in Calls,
                        pc[c] = "gate", pc'[c] = "sending"
                 PROVE  circuit_open_until <= clock
        OBVIOUS
    <2>1. TypeOK
        BY DEF BreakerInv
    <2>2. Gate(c)
        <3>1. PICK d \in Calls : Step(d)
            BY DEF Next, Tick
        <3>2. c = d
            BY <2>1, <3>1 DEF Step, Begin, Gate, Answered, Fail, Succeed, CountFailure, Open,
                              ResetCount, Close, Goto, Finish, TypeOK
        <3> QED BY <2>1, <3>1, <3>2
                DEF Step, Begin, Answered, Fail, Succeed, CountFailure, Open, ResetCount,
                    Close, Goto, Finish, TypeOK
    <2>3. ~IsOpen(c)
        BY <2>1, <2>2 DEF Gate, Finish, Goto, TypeOK
    <2> QED BY <2>1, <2>3 DEF IsOpen, TypeOK
<1> QED BY <1>1, BreakerInvariant, PTL DEF NoSendWhileOpen, Spec
=============================================================================
