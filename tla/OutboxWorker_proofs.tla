------------------------- MODULE OutboxWorker_proofs -------------------------
(***************************************************************************)
(* The workers of a workspace over the proved store: for any number of     *)
(* workers and messages, any batch, lease, backoff and retention, and any  *)
(* interleaving of the dispatches, marks, crashes and clock steps.         *)
(*                                                                         *)
(* The steps of the store are the four kinds of OutboxStore_proofs.  The   *)
(* invariants here relate the table to what the workers hold in memory.    *)
(***************************************************************************)
EXTENDS OutboxWorker, OutboxStore_proofs, SequenceTheorems

\* The outcomes that a worker has still to apply.
Entry      == [grant : grants, answer : Answers]
Entries(w) == {answered[w][i] : i \in DOMAIN answered[w]}

\* A worker is in process_leased's marking call only with an outcome.
MarkingHasAnswer == \A w \in Workers : pc[w] = "marking" => answered[w] # <<>>

\* An outcome the endpoint vouches for is that of a message it took.
AnswersWereGiven ==
    \A w \in Workers : \A e \in Entries(w) :
        e.answer \in Taken => e.grant.message \in accepted

\* An outcome that may still be charged is that of one dispatch more than
\* the row has been charged for.
AnswersAreAhead ==
    \A w \in Workers : \A e \in Entries(w) :
        LET row == outbox[e.grant.message]
        IN  row.status = "leased" /\ row.lease_token = e.grant.token
              => row.attempts + 1 <= dispatched[e.grant.message]

WorkerInv ==
    /\ WorkerTypeOK /\ Fenced /\ MarkingHasAnswer
    /\ AnswersWereGiven /\ DeliveredWasTaken
    /\ AnswersAreAhead /\ AttemptsWereMade

-----------------------------------------------------------------------------
(* Sequences of outcomes.                                                  *)

\* The outcomes of a worker are entries, its own variable a sequence of them.
LEMMA EntriesAre ==
    ASSUME WorkerTypeOK, NEW w \in Workers
    PROVE  /\ answered[w] \in Seq(Entry) /\ Entries(w) \subseteq Entry
           /\ DOMAIN answered[w] = 1 .. Len(answered[w]) /\ Len(answered[w]) \in Nat
<1>1. answered[w] \in Seq(Entry)
    BY DEF WorkerTypeOK, Entry
<1>2. DOMAIN answered[w] = 1 .. Len(answered[w]) /\ Len(answered[w]) \in Nat
    BY <1>1, LenProperties
<1>3. \A i \in DOMAIN answered[w] : answered[w][i] \in Entry
    BY <1>1, <1>2, ElementOfSeq
<1> QED BY <1>1, <1>2, <1>3 DEF Entries

LEMMA HeadIsAnEntry ==
    ASSUME WorkerTypeOK, NEW w \in Workers, answered[w] # <<>>
    PROVE  /\ Head(answered[w]) \in Entries(w) /\ Head(answered[w]) = answered[w][1]
           /\ Head(answered[w]).grant \in grants /\ Head(answered[w]).answer \in Answers
           /\ 1 \in DOMAIN answered[w]
<1>1. answered[w] \in Seq(Entry) /\ Entries(w) \subseteq Entry
    BY EntriesAre
<1>2. Len(answered[w]) \in Nat \ {0} /\ DOMAIN answered[w] = 1 .. Len(answered[w])
    BY <1>1, EmptySeq, LenProperties
<1>3. Head(answered[w]) = answered[w][1]
    BY <1>1, HeadTailProperties
<1>4. Head(answered[w]) \in Entries(w)
    BY <1>2, <1>3 DEF Entries
<1> QED BY <1>1, <1>2, <1>3, <1>4 DEF Entry

\* Taking the first outcome off leaves the others, in their order.
LEMMA TailEntries ==
    ASSUME NEW E, NEW s \in Seq(E), s # <<>>
    PROVE  /\ Tail(s) \in Seq(E)
           /\ DOMAIN Tail(s) = 1 .. Len(s) - 1 /\ DOMAIN s = 1 .. Len(s)
           /\ Len(s) \in Nat \ {0}
           /\ \A i \in DOMAIN Tail(s) : i + 1 \in DOMAIN s /\ Tail(s)[i] = s[i + 1]
<1>1. Len(s) \in Nat \ {0} /\ DOMAIN s = 1 .. Len(s)
    BY EmptySeq, LenProperties
<1>2. /\ Tail(s) \in Seq(E) /\ Len(Tail(s)) = Len(s) - 1
      /\ \A i \in 1 .. Len(s) - 1 : Tail(s)[i] = s[i + 1]
    BY <1>1, HeadTailProperties
<1>3. DOMAIN Tail(s) = 1 .. Len(Tail(s))
    BY <1>2, LenProperties
<1> QED BY <1>1, <1>2, <1>3

\* A new outcome goes to the end.
LEMMA AppendEntries ==
    ASSUME NEW E, NEW s \in Seq(E), NEW e \in E
    PROVE  /\ Append(s, e) \in Seq(E)
           /\ DOMAIN Append(s, e) = 1 .. Len(s) + 1 /\ DOMAIN s = 1 .. Len(s)
           /\ Len(s) \in Nat
           /\ Append(s, e)[Len(s) + 1] = e
           /\ \A i \in DOMAIN s : Append(s, e)[i] = s[i]
<1>1. Len(s) \in Nat /\ DOMAIN s = 1 .. Len(s)
    BY LenProperties
<1>2. /\ Append(s, e) \in Seq(E) /\ Len(Append(s, e)) = Len(s) + 1
      /\ \A i \in 1 .. Len(s) : Append(s, e)[i] = s[i]
      /\ Append(s, e)[Len(s) + 1] = e
    BY AppendProperties
<1>3. DOMAIN Append(s, e) = 1 .. Len(Append(s, e))
    BY <1>2, LenProperties
<1> QED BY <1>1, <1>2, <1>3

-----------------------------------------------------------------------------
(* What the steps of a worker do to its memory.                            *)

\* The outcomes that the worker v holds were there before.
Fewer(v) == answered'[v] \in Seq(Entry) /\ Entries(v)' \subseteq Entries(v)

LEMMA TailIsFewer ==
    ASSUME WorkerTypeOK, NEW w \in Workers, answered[w] # <<>>,
           answered' = [answered EXCEPT ![w] = Tail(@)]
    PROVE  \A v \in Workers : Fewer(v)
<1> SUFFICES ASSUME NEW v \in Workers PROVE Fewer(v)
    OBVIOUS
<1>0. \A u \in Workers : answered[u] \in Seq(Entry)
    BY EntriesAre
<1>1. CASE v = w
    <2>1. answered'[v] = Tail(answered[v]) /\ answered[v] # <<>>
        BY <1>1 DEF WorkerTypeOK
    <2> QED BY <1>0, <2>1, TailEntries DEF Fewer, Entries
<1>2. CASE v # w
    <2>1. answered'[v] = answered[v]
        BY <1>2 DEF WorkerTypeOK
    <2> QED BY <1>0, <2>1 DEF Fewer, Entries
<1> QED BY <1>1, <1>2

LEMMA DroppedIsFewer ==
    ASSUME WorkerTypeOK, NEW w \in Workers,
           answered' = [answered EXCEPT ![w] = <<>>]
    PROVE  \A v \in Workers : Fewer(v)
<1> SUFFICES ASSUME NEW v \in Workers PROVE Fewer(v)
    OBVIOUS
<1>0. \A u \in Workers : answered[u] \in Seq(Entry)
    BY EntriesAre
<1>1. CASE v = w
    <2>1. answered'[v] = <<>> /\ DOMAIN <<>> = {}
        BY <1>1 DEF WorkerTypeOK
    <2> QED BY <2>1, EmptySeq DEF Fewer, Entries
<1>2. CASE v # w
    <2>1. answered'[v] = answered[v]
        BY <1>2 DEF WorkerTypeOK
    <2> QED BY <1>0, <2>1 DEF Fewer, Entries
<1> QED BY <1>1, <1>2

LEMMA SameIsFewer ==
    ASSUME WorkerTypeOK, answered' = answered
    PROVE  \A v \in Workers : Fewer(v)
BY EntriesAre DEF Fewer, Entries

-----------------------------------------------------------------------------
(* Steps of the workers' own.                                              *)

LEMMA Bounds == MaxClock \in Nat /\ MaxDispatches \in Nat /\ MaxCrashes \in Nat
BY InstanceIsBounded

LEMMA ClocksAreNatural ==
    ASSUME WorkerTypeOK, NEW w \in Workers
    PROVE  Clock(w) \in Nat /\ asked[w] \in Nat
<1>1. clock \in Nat /\ Skew[w] \in Nat
    BY SkewIsNatural, Bounds DEF WorkerTypeOK
<1>2. asked[w] \in Nat
    BY DEF WorkerTypeOK
<1> QED BY <1>1, <1>2 DEF Clock

\* A step that neither calls the store nor dispatches.
LEMMA QuietKeeps ==
    ASSUME WorkerInv, UNCHANGED <<storeVars, historyVars>>,
           \A w \in Workers : Fewer(w),
           clock' \in 0 .. MaxClock, crashes' \in 0 .. MaxCrashes,
           pc' \in [Workers -> Stages], asked' \in [Workers -> Nat],
           inflight' \in [Workers -> SUBSET grants],
           answered' = [w \in Workers |-> answered'[w]],
           MarkingHasAnswer'
    PROVE  WorkerInv'
<1>1. /\ outbox' = outbox /\ lastToken' = lastToken /\ grants' = grants
      /\ settled' = settled /\ dispatched' = dispatched /\ accepted' = accepted
    BY DEF storeVars, historyVars
<1>2. WorkerTypeOK'
    <2>1. TypeOK'
        BY <1>1 DEF WorkerInv, WorkerTypeOK, TypeOK
    <2>2. \A w \in Workers : answered'[w] \in Seq(Entry)
        BY DEF Fewer
    <2>3. answered' \in [Workers -> Seq([grant : grants', answer : Answers])]
        BY <1>1, <2>2 DEF Entry
    <2> QED BY <1>1, <2>1, <2>3 DEF WorkerInv, WorkerTypeOK
<1>3. Fenced'
    BY <1>1 DEF WorkerInv, Fenced, TokensAreNumbered, NewestHolds, HeldIsUnsettled,
                LeaseColumns, OneOutcomePerLease, SettledForGood
<1>4. \A w \in Workers : Entries(w)' \subseteq Entries(w)
    BY DEF Fewer
<1>5. AnswersWereGiven' /\ AnswersAreAhead'
    BY <1>1, <1>4 DEF WorkerInv, AnswersWereGiven, AnswersAreAhead
<1>6. DeliveredWasTaken' /\ AttemptsWereMade'
    BY <1>1 DEF WorkerInv, DeliveredWasTaken, AttemptsWereMade
<1> QED BY <1>2, <1>3, <1>5, <1>6 DEF WorkerInv

LEMMA StartCycleKeeps ==
    ASSUME WorkerInv, NEW w \in Workers, StartCycle(w)
    PROVE  WorkerInv'
<1>1. WorkerTypeOK /\ answered' = answered /\ UNCHANGED <<inflight, clock, crashes>>
    BY DEF WorkerInv, StartCycle
<1>2. /\ pc' \in [Workers -> Stages] /\ asked' \in [Workers -> Nat]
      /\ MarkingHasAnswer'
    BY <1>1, ClocksAreNatural DEF WorkerInv, WorkerTypeOK, StartCycle, Goto, ReadClock,
                                  Stages, MarkingHasAnswer
<1> QED BY <1>1, <1>2, SameIsFewer, QuietKeeps
        DEF WorkerTypeOK, StartCycle, storeVars, historyVars

LEMMA CallMarkKeeps ==
    ASSUME WorkerInv, NEW w \in Workers, CallMark(w)
    PROVE  WorkerInv'
<1>1. WorkerTypeOK /\ answered' = answered /\ UNCHANGED <<inflight, clock, crashes>>
    BY DEF WorkerInv, CallMark
<1>2. /\ pc' \in [Workers -> Stages] /\ asked' \in [Workers -> Nat]
      /\ MarkingHasAnswer'
    BY <1>1, ClocksAreNatural DEF WorkerInv, WorkerTypeOK, CallMark, Goto, ReadClock,
                                  Stages, MarkingHasAnswer
<1> QED BY <1>1, <1>2, SameIsFewer, QuietKeeps
        DEF WorkerTypeOK, CallMark, storeVars, historyVars

LEMMA AllAppliedKeeps ==
    ASSUME WorkerInv, NEW w \in Workers, AllApplied(w)
    PROVE  WorkerInv'
<1>1. WorkerTypeOK /\ answered' = answered /\ UNCHANGED <<inflight, asked, clock, crashes>>
    BY DEF WorkerInv, AllApplied
<1>2. pc' \in [Workers -> Stages] /\ MarkingHasAnswer'
    BY <1>1 DEF WorkerInv, WorkerTypeOK, AllApplied, Goto, Stages, MarkingHasAnswer
<1> QED BY <1>1, <1>2, SameIsFewer, QuietKeeps
        DEF WorkerTypeOK, AllApplied, storeVars, historyVars

\* The cycle is given up and what it held is forgotten.
LEMMA DroppedKeeps ==
    ASSUME WorkerInv, NEW w \in Workers, AbortCycle(w) \/ Crash(w)
    PROVE  WorkerInv'
<1>1. /\ WorkerTypeOK
      /\ answered' = [answered EXCEPT ![w] = <<>>]
      /\ pc' = [pc EXCEPT ![w] = "idle"] /\ asked' = [asked EXCEPT ![w] = 0]
      /\ UNCHANGED <<storeVars, historyVars, clock>>
    BY DEF WorkerInv, AbortCycle, Crash, Goto, ForgetClock
<1>2. crashes' \in 0 .. MaxCrashes /\ inflight' \in [Workers -> SUBSET grants]
    <2>1. CASE AbortCycle(w)
        BY <1>1, <2>1 DEF WorkerTypeOK, AbortCycle
    <2>2. CASE Crash(w)
        <3>1. crashes' = crashes + 1 /\ crashes < MaxCrashes
              /\ inflight' = [inflight EXCEPT ![w] = {}]
            BY <2>2 DEF Crash
        <3> QED BY <1>1, <3>1, Bounds DEF WorkerTypeOK
    <2> QED BY <2>1, <2>2
<1>3. /\ pc' \in [Workers -> Stages] /\ asked' \in [Workers -> Nat]
      /\ answered' = [v \in Workers |-> answered'[v]]
    BY <1>1 DEF WorkerTypeOK, Stages
<1>4. MarkingHasAnswer'
    BY <1>1 DEF WorkerInv, WorkerTypeOK, MarkingHasAnswer
<1>5. clock' \in 0 .. MaxClock
    BY <1>1 DEF WorkerTypeOK
<1> QED BY <1>1, <1>2, <1>3, <1>4, <1>5, DroppedIsFewer, QuietKeeps

LEMMA TickKeeps ==
    ASSUME WorkerInv, Tick
    PROVE  WorkerInv'
<1>1. /\ WorkerTypeOK /\ answered' = answered
      /\ UNCHANGED <<storeVars, historyVars, pc, asked, inflight, crashes>>
    BY DEF WorkerInv, Tick, workerVars
<1>2. clock' \in 0 .. MaxClock /\ MarkingHasAnswer'
    BY <1>1, Bounds DEF WorkerInv, WorkerTypeOK, Tick, MarkingHasAnswer
<1> QED BY <1>1, <1>2, SameIsFewer, QuietKeeps DEF WorkerTypeOK

\* A dispatch completes: the message has been dispatched once more than its
\* row was ever charged for.
LEMMA PublishKeeps ==
    ASSUME WorkerInv, NEW w \in Workers, NEW g \in inflight[w], NEW answer \in Answers,
           Publish(w, g, answer)
    PROVE  WorkerInv'
<1> DEFINE e == [grant |-> g, answer |-> answer]
<1>1. /\ outbox' = outbox /\ lastToken' = lastToken /\ grants' = grants
      /\ settled' = settled /\ clock' = clock /\ crashes' = crashes /\ asked' = asked
    BY DEF Publish, storeVars
<1>2. /\ WorkerTypeOK /\ g \in grants /\ g.message \in Messages /\ g.token \in Nat
      /\ TypeOK
    BY GrantsName DEF WorkerInv, WorkerTypeOK
<1>3. e \in Entry /\ e.grant = g /\ e.answer = answer
    BY <1>2 DEF Entry
<1>4. /\ answered' = [answered EXCEPT ![w] = Append(@, e)]
      /\ dispatched' = [dispatched EXCEPT ![g.message] = @ + 1]
      /\ accepted' = IF answer \in Taken THEN accepted \union {g.message} ELSE accepted
      /\ dispatched[g.message] < MaxDispatches
    BY DEF Publish
<1> HIDE DEF e
<1>5. \A v \in Workers : answered'[v] \in Seq(Entry) /\ Entries(v)' \subseteq Entries(v) \union {e}
    <2> SUFFICES ASSUME NEW v \in Workers
                 PROVE  answered'[v] \in Seq(Entry) /\ Entries(v)' \subseteq Entries(v) \union {e}
        OBVIOUS
    <2>1. answered[v] \in Seq(Entry)
        BY <1>2, EntriesAre
    <2>2. CASE v = w
        <3>1. answered'[v] = Append(answered[v], e)
            BY <1>2, <1>4, <2>2 DEF WorkerTypeOK
        <3> QED BY <1>3, <2>1, <3>1, AppendEntries DEF Entries
    <2>3. CASE v # w
        <3>1. answered'[v] = answered[v]
            BY <1>2, <1>4, <2>3 DEF WorkerTypeOK
        <3> QED BY <2>1, <3>1 DEF Entries
    <2> QED BY <2>2, <2>3
<1>6. /\ dispatched' \in [Messages -> 0 .. MaxDispatches]
      /\ dispatched'[g.message] = dispatched[g.message] + 1
      /\ \A m \in Messages : dispatched[m] <= dispatched'[m] /\ dispatched[m] \in Nat
    BY <1>2, <1>4, Bounds DEF WorkerTypeOK
<1>7. accepted \subseteq accepted' /\ accepted' \subseteq Messages
    BY <1>2, <1>4 DEF WorkerTypeOK
<1>8. WorkerTypeOK'
    <2>1. TypeOK'
        BY <1>1, <1>2 DEF TypeOK
    <2>2. answered' \in [Workers -> Seq([grant : grants', answer : Answers])]
        BY <1>1, <1>2, <1>4, <1>5 DEF WorkerTypeOK, Entry
    <2>3. inflight' \in [Workers -> SUBSET grants'] /\ pc' \in [Workers -> Stages]
        BY <1>1, <1>2 DEF WorkerTypeOK, Publish, Goto, Stages
    <2> QED BY <1>1, <1>2, <1>6, <1>7, <2>1, <2>2, <2>3 DEF WorkerTypeOK
<1>9. Fenced'
    BY <1>1 DEF WorkerInv, Fenced, TokensAreNumbered, NewestHolds, HeldIsUnsettled,
                LeaseColumns, OneOutcomePerLease, SettledForGood
<1>10. MarkingHasAnswer'
    <2>1. \A v \in Workers : pc'[v] = "marking" => v # w /\ pc[v] = "marking"
        BY <1>2 DEF Publish, Goto, WorkerTypeOK
    <2>2. \A v \in Workers \ {w} : answered'[v] = answered[v]
        BY <1>2, <1>4 DEF WorkerTypeOK
    <2> QED BY <2>1, <2>2 DEF WorkerInv, MarkingHasAnswer
<1>11. AnswersWereGiven'
    <2>1. answer \in Taken => g.message \in accepted'
        BY <1>4
    <2> QED BY <1>3, <1>5, <1>7, <2>1 DEF WorkerInv, AnswersWereGiven
<1>12. DeliveredWasTaken'
    BY <1>1, <1>7 DEF WorkerInv, DeliveredWasTaken
<1>13. \A m \in Messages : outbox[m].attempts \in Nat /\ outbox[m].attempts <= dispatched[m]
    BY <1>2 DEF WorkerInv, AttemptsWereMade, TypeOK, Row
<1>14. AttemptsWereMade'
    BY <1>1, <1>6, <1>13 DEF AttemptsWereMade
<1>15. AnswersAreAhead'
    <2> SUFFICES ASSUME NEW v \in Workers, NEW f \in Entries(v)',
                        outbox[f.grant.message].status = "leased",
                        outbox[f.grant.message].lease_token = f.grant.token
                 PROVE  outbox[f.grant.message].attempts + 1 <= dispatched'[f.grant.message]
        BY <1>1 DEF AnswersAreAhead
    <2>1. CASE f = e
        BY <1>2, <1>3, <1>6, <1>13, <2>1
    <2>2. CASE f \in Entries(v)
        <3>1. f.grant.message \in Messages
            BY <1>2, <2>2, EntriesAre, GrantsName DEF Entry
        <3>2. outbox[f.grant.message].attempts + 1 <= dispatched[f.grant.message]
            BY <2>2 DEF WorkerInv, AnswersAreAhead
        <3> QED BY <1>6, <1>13, <3>1, <3>2
    <2> QED BY <1>5, <2>1, <2>2
<1> QED BY <1>8, <1>9, <1>10, <1>11, <1>12, <1>14, <1>15 DEF WorkerInv

-----------------------------------------------------------------------------
(* Calls of the store.                                                     *)

\* The fencing invariant and the types of the table.
LEMMA StoreStepKeeps ==
    ASSUME TypeOK, Fenced, StoreStep
    PROVE  TypeOK' /\ Fenced'
BY NextTypeOK, NextFenced

\* An insert, a lease or a cleanup charges nobody, settles nothing, and puts
\* no token on a row that an outcome a worker holds could match.
LEMMA UnchargedKeeps ==
    ASSUME WorkerInv,
           \/ \E m \in Messages : StepEnqueue(m)
           \/ \E w \in Workers, batch \in SUBSET Messages :
                StepLease(w, batch, lastToken + 1)
           \/ \E S \in SUBSET Messages : StepCleanup(S),
           UNCHANGED <<historyVars, answered>>
    PROVE  /\ TypeOK' /\ Fenced' /\ grants \subseteq grants'
           /\ answered' \in [Workers -> Seq([grant : grants', answer : Answers])]
           /\ AnswersWereGiven' /\ DeliveredWasTaken'
           /\ AnswersAreAhead' /\ AttemptsWereMade'
<1>1. WorkerTypeOK /\ TypeOK /\ Fenced
    BY DEF WorkerInv, WorkerTypeOK
<1>2. TypeOK' /\ Fenced'
    BY <1>1, StoreStepKeeps DEF StoreStep
<1>3. settled' = settled /\ grants \subseteq grants'
    BY DEF StepEnqueue, StepLease, StepCleanup
<1>4. /\ answered' = answered /\ dispatched' = dispatched /\ accepted' = accepted
      /\ \A v \in Workers : Entries(v)' = Entries(v)
    BY DEF historyVars, Entries
<1>5. answered' \in [Workers -> Seq([grant : grants', answer : Answers])]
    <2>1. ASSUME NEW v \in Workers
          PROVE  answered[v] \in Seq([grant : grants', answer : Answers])
        <3>1. answered[v] \in Seq(Entry) /\ Entry \subseteq [grant : grants', answer : Answers]
            BY <1>1, <1>3, EntriesAre DEF Entry
        <3> QED BY <3>1, SeqMonotonic
    <2> QED BY <1>1, <1>4, <2>1 DEF WorkerTypeOK
<1>6. AnswersWereGiven' /\ DeliveredWasTaken'
    BY <1>3, <1>4 DEF WorkerInv, AnswersWereGiven, DeliveredWasTaken
<1>7. \A m \in Messages :
        /\ outbox'[m].attempts = outbox[m].attempts
        /\ \/ outbox'[m] = outbox[m]
           \/ outbox'[m].status # "leased"
           \/ outbox'[m].lease_token = lastToken + 1
    BY DEF StepEnqueue, StepLease, StepCleanup, OnlyRows
<1>8. AttemptsWereMade'
    BY <1>4, <1>7 DEF WorkerInv, AttemptsWereMade
<1>9. AnswersAreAhead'
    <2> SUFFICES ASSUME NEW v \in Workers, NEW f \in Entries(v),
                        outbox'[f.grant.message].status = "leased",
                        outbox'[f.grant.message].lease_token = f.grant.token
                 PROVE  outbox'[f.grant.message].attempts + 1 <= dispatched[f.grant.message]
        BY <1>4 DEF AnswersAreAhead
    <2>1. f.grant \in grants
        BY <1>1, EntriesAre DEF Entry
    <2>2. f.grant.message \in Messages /\ f.grant.token \in Nat
        BY <1>1, <2>1, GrantsName
    <2>3. f.grant.token <= lastToken /\ lastToken \in Nat
        BY <1>1, <2>1 DEF Fenced, TokensAreNumbered, TypeOK
    <2>4. outbox'[f.grant.message] = outbox[f.grant.message]
        BY <1>7, <2>2, <2>3
    <2> QED BY <2>4 DEF WorkerInv, AnswersAreAhead
<1> QED BY <1>2, <1>3, <1>5, <1>6, <1>8, <1>9

LEMMA CreateIssueKeeps ==
    ASSUME WorkerInv, NEW m \in Messages, CreateIssue(m)
    PROVE  WorkerInv'
<1>1. /\ Enqueue(m, clock) /\ WorkerTypeOK /\ TypeOK
      /\ UNCHANGED <<workerVars, historyVars, clock, crashes>>
    BY DEF CreateIssue, WorkerInv, WorkerTypeOK
<1>2. StepEnqueue(m)
    BY <1>1, EnqueueIsStep, Bounds DEF WorkerTypeOK
<1>3. /\ pc' = pc /\ asked' = asked /\ inflight' = inflight /\ answered' = answered
      /\ dispatched' = dispatched /\ accepted' = accepted
      /\ clock' = clock /\ crashes' = crashes
    BY <1>1 DEF workerVars, historyVars
<1>4. /\ TypeOK' /\ Fenced' /\ grants \subseteq grants'
      /\ answered' \in [Workers -> Seq([grant : grants', answer : Answers])]
      /\ AnswersWereGiven' /\ DeliveredWasTaken' /\ AnswersAreAhead' /\ AttemptsWereMade'
    BY <1>1, <1>2, <1>3, UnchargedKeeps
<1>5. WorkerTypeOK'
    BY <1>1, <1>3, <1>4 DEF WorkerTypeOK
<1> QED BY <1>3, <1>4, <1>5 DEF WorkerInv, MarkingHasAnswer

LEMMA LeaseKeeps ==
    ASSUME WorkerInv, NEW w \in Workers, Lease(w)
    PROVE  WorkerInv'
<1>0. WorkerTypeOK /\ TypeOK /\ asked[w] \in Nat
    BY ClocksAreNatural DEF WorkerInv, WorkerTypeOK
<1>1. PICK batch \in SUBSET Messages, locked \in SUBSET Locked(w) :
        /\ LeaseBatch(w, asked[w], batch, locked)
        /\ inflight' = [inflight EXCEPT ![w] = grants' \ grants]
        /\ Goto(w, IF batch = {} THEN "cleaning" ELSE "publishing")
    BY DEF Lease
<1>2. StepLease(w, batch, lastToken + 1)
    BY <1>0, <1>1, LeaseIsStep
<1>3. /\ answered' = answered /\ dispatched' = dispatched /\ accepted' = accepted
      /\ clock' = clock /\ crashes' = crashes /\ asked' = [asked EXCEPT ![w] = 0]
    BY DEF Lease, historyVars, ForgetClock
<1>4. /\ TypeOK' /\ Fenced' /\ grants \subseteq grants'
      /\ answered' \in [Workers -> Seq([grant : grants', answer : Answers])]
      /\ AnswersWereGiven' /\ DeliveredWasTaken' /\ AnswersAreAhead' /\ AttemptsWereMade'
    BY <1>2, <1>3, UnchargedKeeps DEF historyVars
<1>5. /\ inflight' \in [Workers -> SUBSET grants'] /\ pc' \in [Workers -> Stages]
      /\ asked' \in [Workers -> Nat]
    BY <1>0, <1>1, <1>3, <1>4 DEF WorkerTypeOK, Goto, Stages
<1>6. WorkerTypeOK'
    BY <1>0, <1>3, <1>4, <1>5 DEF WorkerTypeOK
<1>7. MarkingHasAnswer'
    <2>1. \A v \in Workers : pc'[v] = "marking" => pc[v] = "marking"
        BY <1>0, <1>1 DEF Goto, WorkerTypeOK
    <2> QED BY <1>3, <2>1 DEF WorkerInv, MarkingHasAnswer
<1> QED BY <1>4, <1>6, <1>7 DEF WorkerInv

LEMMA LessIsNatural ==
    ASSUME NEW a \in Nat, NEW b \in Nat
    PROVE  Less(a, b) \in Nat
BY DEF Less

LEMMA CleanupKeeps ==
    ASSUME WorkerInv, NEW w \in Workers, Cleanup(w)
    PROVE  WorkerInv'
<1>0. /\ WorkerTypeOK /\ TypeOK
      /\ Less(Clock(w), DeliveredRetention) \in Nat
      /\ Less(Clock(w), DeadLetterRetention) \in Nat
    BY ClocksAreNatural, LessIsNatural, RetentionsNatural DEF WorkerInv, WorkerTypeOK
<1>1. /\ CleanupOutbox(Less(Clock(w), DeliveredRetention),
                       Less(Clock(w), DeadLetterRetention))
      /\ pc' = [pc EXCEPT ![w] = "idle"]
      /\ asked' = asked /\ inflight' = inflight /\ answered' = answered
      /\ dispatched' = dispatched /\ accepted' = accepted
      /\ clock' = clock /\ crashes' = crashes
    BY DEF Cleanup, Goto, historyVars
<1>2. \E S \in SUBSET Messages : StepCleanup(S)
    BY <1>0, <1>1, CleanupIsStep
<1>3. /\ TypeOK' /\ Fenced' /\ grants \subseteq grants'
      /\ answered' \in [Workers -> Seq([grant : grants', answer : Answers])]
      /\ AnswersWereGiven' /\ DeliveredWasTaken' /\ AnswersAreAhead' /\ AttemptsWereMade'
    BY <1>1, <1>2, UnchargedKeeps DEF historyVars
<1>4. WorkerTypeOK'
    BY <1>0, <1>1, <1>3 DEF WorkerTypeOK, Stages
<1>5. MarkingHasAnswer'
    BY <1>0, <1>1 DEF WorkerInv, WorkerTypeOK, MarkingHasAnswer
<1> QED BY <1>3, <1>4, <1>5 DEF WorkerInv

-----------------------------------------------------------------------------
\* What the mark of the first outcome does: it settles the grant of that
\* outcome, as delivered only if the outcome says so.
LEMMA MarkIsOfTheHead ==
    ASSUME WorkerInv, NEW w \in Workers, Mark(w)
    PROVE  /\ Head(answered[w]).grant \in grants /\ Head(answered[w]) \in Entries(w)
           /\ answered[w] # <<>> /\ answered' = [answered EXCEPT ![w] = Tail(@)]
           /\ LeaseIsCurrent(w, Head(answered[w]).grant, asked[w])
           /\ \E outcome \in Outcomes :
                /\ StepMark(Head(answered[w]).grant, outcome)
                /\ outcome = "delivered" => Head(answered[w]).answer \in Taken
<1> DEFINE g == Head(answered[w]).grant
           answer == Head(answered[w]).answer
<1>1. /\ pc[w] = "marking" /\ MarkCommits(w, g, answer)
      /\ IF answer = "ok"
         THEN MarkDelivered(w, g, asked[w])
         ELSE \E backoff \in Backoffs :
                MarkFailed(w, g, asked[w], answer \in Terminal, backoff)
      /\ answered' = [answered EXCEPT ![w] = Tail(@)]
    BY DEF Mark
<1>2. /\ WorkerTypeOK /\ TypeOK /\ answered[w] # <<>> /\ asked[w] \in Nat
    BY <1>1, ClocksAreNatural DEF WorkerInv, WorkerTypeOK, MarkingHasAnswer
<1>3. g \in grants /\ Head(answered[w]) \in Entries(w)
    BY <1>2, HeadIsAnEntry
<1>4. (answer \in Terminal) \in BOOLEAN /\ Backoffs \subseteq Nat
    BY TimesAreNaturals
<1>5. {"delivered", "failed", "dead_letter"} \subseteq Outcomes
    BY DEF Outcomes
<1> HIDE DEF g, answer
<1>6. \E outcome \in Outcomes :
        /\ StepMark(g, outcome)
        /\ outcome = "delivered" => answer \in Taken
    <2>1. CASE answer = "ok"
        <3>1. StepMark(g, "delivered")
            BY <1>1, <1>2, <1>3, <2>1, MarkDeliveredIsStep
        <3> QED BY <1>5, <2>1, <3>1 DEF Taken
    <2>2. CASE answer # "ok"
        <3>1. PICK backoff \in Nat : MarkFailed(w, g, asked[w], answer \in Terminal, backoff)
            BY <1>1, <1>4, <2>2
        <3>2. StepMark(g, "failed") \/ StepMark(g, "dead_letter")
            BY <1>2, <1>3, <1>4, <3>1, MarkFailedIsStep
        <3> QED BY <1>5, <3>2
    <2> QED BY <2>1, <2>2
<1> QED BY <1>1, <1>2, <1>3, <1>6 DEF MarkCommits, g, answer

LEMMA MarkKeeps ==
    ASSUME WorkerInv, NEW w \in Workers, Mark(w)
    PROVE  WorkerInv'
<1> DEFINE e == Head(answered[w])
           g == e.grant
<1>1. /\ g \in grants /\ e \in Entries(w) /\ answered[w] # <<>>
      /\ answered' = [answered EXCEPT ![w] = Tail(@)]
    BY MarkIsOfTheHead
<1>2. PICK outcome \in Outcomes :
        /\ StepMark(g, outcome)
        /\ outcome = "delivered" => e.answer \in Taken
    BY MarkIsOfTheHead
<1>3. /\ WorkerTypeOK /\ TypeOK /\ Fenced /\ g.message \in Messages /\ g.token \in Nat
    BY <1>1, GrantsName DEF WorkerInv, WorkerTypeOK
<1>4. /\ inflight' = inflight /\ dispatched' = dispatched /\ accepted' = accepted
      /\ clock' = clock /\ crashes' = crashes
      /\ asked' = [asked EXCEPT ![w] = 0] /\ pc' = [pc EXCEPT ![w] = "applying"]
    BY DEF Mark, historyVars, ForgetClock, Goto
<1>5. TypeOK' /\ Fenced'
    BY <1>1, <1>2, <1>3, StoreStepKeeps DEF StoreStep
<1>6. /\ \A v \in Workers : answered'[v] \in Seq(Entry) /\ Entries(v)' \subseteq Entries(v)
    BY <1>1, <1>3, TailIsFewer DEF Fewer
<1> HIDE DEF e, g
<1>7. /\ grants' = grants /\ lastToken' = lastToken
      /\ settled' = settled \union
            {[message |-> g.message, token |-> g.token, outcome |-> outcome]}
      /\ \A m \in Messages : m # g.message => outbox'[m] = outbox[m]
      /\ outbox[g.message].status = "leased" /\ outbox[g.message].lease_token = g.token
      /\ outbox'[g.message].status = outcome
      /\ outbox'[g.message].attempts =
            outbox[g.message].attempts + (IF outcome = "delivered" THEN 0 ELSE 1)
    BY <1>2 DEF StepMark, OnlyRows
<1>8. WorkerTypeOK'
    <2>1. answered' \in [Workers -> Seq([grant : grants', answer : Answers])]
        BY <1>1, <1>3, <1>6, <1>7 DEF WorkerTypeOK, Entry
    <2>2. /\ inflight' \in [Workers -> SUBSET grants'] /\ pc' \in [Workers -> Stages]
          /\ asked' \in [Workers -> Nat]
        BY <1>3, <1>4, <1>7 DEF WorkerTypeOK, Stages
    <2> QED BY <1>3, <1>4, <1>5, <2>1, <2>2 DEF WorkerTypeOK
<1>9. MarkingHasAnswer'
    <2>1. \A v \in Workers : pc'[v] = "marking" => v # w /\ pc[v] = "marking"
        BY <1>3, <1>4 DEF WorkerTypeOK
    <2>2. \A v \in Workers \ {w} : answered'[v] = answered[v]
        BY <1>1, <1>3 DEF WorkerTypeOK
    <2> QED BY <2>1, <2>2 DEF WorkerInv, MarkingHasAnswer
<1>10. AnswersWereGiven'
    BY <1>4, <1>6 DEF WorkerInv, AnswersWereGiven
<1>11. DeliveredWasTaken'
    <2>1. outcome = "delivered" => g.message \in accepted
        BY <1>1, <1>2 DEF WorkerInv, AnswersWereGiven, g
    <2> QED BY <1>4, <1>7, <2>1 DEF WorkerInv, DeliveredWasTaken
<1>12. \A m \in Messages : outbox[m].attempts \in Nat /\ dispatched[m] \in Nat
    BY <1>3 DEF TypeOK, Row, WorkerTypeOK
<1>13. AttemptsWereMade'
    <2>1. outbox[g.message].attempts + 1 <= dispatched[g.message]
        BY <1>1, <1>7 DEF WorkerInv, AnswersAreAhead, g
    <2>2. outbox'[g.message].attempts <= dispatched[g.message]
        BY <1>3, <1>7, <1>12, <2>1
    <2> QED BY <1>4, <1>7, <2>2 DEF WorkerInv, AttemptsWereMade
<1>14. AnswersAreAhead'
    <2> SUFFICES ASSUME NEW v \in Workers, NEW f \in Entries(v)',
                        outbox'[f.grant.message].status = "leased",
                        outbox'[f.grant.message].lease_token = f.grant.token
                 PROVE  outbox'[f.grant.message].attempts + 1 <= dispatched[f.grant.message]
        BY <1>4 DEF AnswersAreAhead
    <2>1. f \in Entries(v) /\ f.grant \in grants
        BY <1>3, <1>6, EntriesAre DEF Entry
    <2>2. f.grant.message \in Messages
        BY <1>3, <2>1, GrantsName
    <2>3. f.grant.message # g.message
        BY <1>7 DEF Outcomes
    <2> QED BY <1>7, <2>1, <2>2, <2>3 DEF WorkerInv, AnswersAreAhead
<1> QED BY <1>5, <1>8, <1>9, <1>10, <1>11, <1>13, <1>14 DEF WorkerInv

-----------------------------------------------------------------------------
LEMMA InitWorkerInv == Init => WorkerInv
<1> SUFFICES ASSUME Init PROVE WorkerInv
    OBVIOUS
<1>1. TypeOK /\ Fenced
    BY InitTypeOK, InitFenced DEF Init
<1>2. WorkerTypeOK
    <2>1. answered \in [Workers -> Seq([grant : grants, answer : Answers])]
        BY EmptySeq DEF Init
    <2> QED BY <1>1, <2>1, Bounds DEF Init, WorkerTypeOK, Stages
<1>3. \A w \in Workers : Entries(w) = {}
    <2>1. DOMAIN <<>> = {}
        OBVIOUS
    <2> QED BY <2>1 DEF Init, Entries
<1>4. MarkingHasAnswer /\ AnswersWereGiven /\ AnswersAreAhead
    BY <1>3 DEF Init, MarkingHasAnswer, AnswersWereGiven, AnswersAreAhead
<1>5. DeliveredWasTaken /\ AttemptsWereMade
    BY DEF Init, StoreInit, AbsentRow, DeliveredWasTaken, AttemptsWereMade
<1> QED BY <1>1, <1>2, <1>4, <1>5 DEF WorkerInv

LEMMA NextWorkerInv == WorkerInv /\ [Next]_vars => WorkerInv'
<1> SUFFICES ASSUME WorkerInv, [Next]_vars
             PROVE  WorkerInv'
    OBVIOUS
<1>1. CASE UNCHANGED vars
    <2>1. WorkerTypeOK
        BY DEF WorkerInv
    <2>2. /\ UNCHANGED <<storeVars, historyVars, clock, crashes, pc, asked, inflight>>
          /\ answered' = answered
        BY <1>1 DEF vars, workerVars
    <2>3. MarkingHasAnswer'
        BY <2>2 DEF WorkerInv, MarkingHasAnswer
    <2> QED BY <2>1, <2>2, <2>3, SameIsFewer, QuietKeeps DEF WorkerTypeOK
<1>2. CASE \E m \in Messages : CreateIssue(m)
    BY <1>2, CreateIssueKeeps
<1>3. ASSUME NEW w \in Workers, Work(w)
      PROVE  WorkerInv'
    BY <1>3, StartCycleKeeps, LeaseKeeps, PublishKeeps, CallMarkKeeps, MarkKeeps,
       DroppedKeeps, AllAppliedKeeps, CleanupKeeps DEF Work
<1>4. ASSUME NEW w \in Workers, Crash(w)
      PROVE  WorkerInv'
    BY <1>4, DroppedKeeps
<1>5. CASE Tick
    BY <1>5, TickKeeps
<1> QED BY <1>1, <1>2, <1>3, <1>4, <1>5 DEF Next

LEMMA WorkerInvariant == Spec => []WorkerInv
BY InitWorkerInv, NextWorkerInv, PTL DEF Spec

\* The workers' memory, the table and the history have their types.
THEOREM WorkersAreTyped == Spec => []WorkerTypeOK
<1>1. WorkerInv => WorkerTypeOK
    BY DEF WorkerInv
<1> QED BY <1>1, WorkerInvariant, PTL

\* No row is marked delivered that the endpoint did not take.
THEOREM DeliveriesWereTaken == Spec => []DeliveredWasTaken
<1>1. WorkerInv => DeliveredWasTaken
    BY DEF WorkerInv
<1> QED BY <1>1, WorkerInvariant, PTL

\* No row is charged for more attempts than were made to deliver it: neither
\* a crash before the dispatch nor a mark that comes too late costs one.
THEOREM AttemptsAreDispatches == Spec => []AttemptsWereMade
<1>1. WorkerInv => AttemptsWereMade
    BY DEF WorkerInv
<1> QED BY <1>1, WorkerInvariant, PTL

-----------------------------------------------------------------------------
(* One holder at a time.  A worker knows of its lease only what it was     *)
(* granted; that no two workers believe in a lease of one message rests on *)
(* the row still carrying the grant until the lease has expired by the     *)
(* clock of some worker, the one that took it over.                        *)

\* No instant a worker read is ahead of its clock.
AskedBefore == \A w \in Workers : asked[w] <= Clock(w)

\* A token leases a message once.
OneGrantPerToken ==
    \A g, h \in grants : g.message = h.message /\ g.token = h.token => g = h

\* A worker has one outcome, or one dispatch to come, for each of its grants.
HeldOnce ==
    \A w \in Workers : \A i \in DOMAIN answered[w] :
        /\ answered[w][i].grant \notin inflight[w]
        /\ \A j \in DOMAIN answered[w] : answered[w][i].grant = answered[w][j].grant => i = j

\* The row of g's message carries the columns of g.
OnItsRow(g) ==
    LET row == outbox[g.message]
    IN  /\ row.status = "leased"
        /\ row.lease_token = g.token
        /\ row.lease_owner = g.owner
        /\ row.leased_until = g.until

\* The lease g has expired by the clock of one of the workers.
ExpiredForSome(g) == \E u \in Workers : g.until <= Clock(u)

HeldOrExpired ==
    \A w \in Workers : \A g \in Holds(w) :
        g.owner = w /\ (OnItsRow(g) \/ ExpiredForSome(g))

HolderInv == AskedBefore /\ OneGrantPerToken /\ HeldOnce /\ HeldOrExpired

\* What a worker holds was granted.
LEMMA HoldsAreGrants ==
    ASSUME WorkerTypeOK, NEW w \in Workers
    PROVE  Holds(w) \subseteq grants
<1>1. \A i \in DOMAIN answered[w] : answered[w][i] \in Entry
    BY EntriesAre DEF Entries
<1> QED BY <1>1 DEF Holds, Entry, WorkerTypeOK

\* A step that leaves every leased row alone, and gives no worker a grant.
LEMMA HeldRowsStay ==
    ASSUME WorkerInv, HolderInv, grants' = grants,
           \A m \in Messages : outbox[m].status = "leased" => outbox'[m] = outbox[m],
           clock' \in Nat, clock <= clock',
           \A w \in Workers : Holds(w)' \subseteq Holds(w),
           AskedBefore', HeldOnce'
    PROVE  HolderInv'
<1>1. OneGrantPerToken'
    BY DEF HolderInv, OneGrantPerToken
<1>2. HeldOrExpired'
    <2> SUFFICES ASSUME NEW w \in Workers, NEW g \in Holds(w)
                 PROVE  g.owner = w /\ (OnItsRow(g)' \/ ExpiredForSome(g)')
        BY DEF HeldOrExpired
    <2>1. WorkerTypeOK /\ TypeOK /\ g \in grants
        BY HoldsAreGrants DEF WorkerInv, WorkerTypeOK
    <2>2. g.message \in Messages /\ g.until \in Nat
        BY <2>1, GrantsName
    <2>3. g.owner = w /\ (OnItsRow(g) \/ ExpiredForSome(g))
        BY DEF HolderInv, HeldOrExpired
    <2>4. OnItsRow(g) => OnItsRow(g)'
        BY <2>2 DEF OnItsRow
    <2>5. \A u \in Workers :
            Clock(u) \in Nat /\ Clock(u)' \in Nat /\ Clock(u) <= Clock(u)'
        <3>1. clock \in Nat /\ \A u \in Workers : Skew[u] \in Nat
            BY <2>1, Bounds, SkewIsNatural DEF WorkerTypeOK
        <3> QED BY <3>1 DEF Clock
    <2>6. ExpiredForSome(g) => ExpiredForSome(g)'
        BY <2>2, <2>5 DEF ExpiredForSome
    <2> QED BY <2>3, <2>4, <2>6
<1> QED BY <1>1, <1>2 DEF HolderInv

LEMMA ClockIsNatural ==
    ASSUME WorkerTypeOK
    PROVE  clock \in Nat
BY Bounds DEF WorkerTypeOK

\* The memory of the cycle is as it was, the clock read anew or forgotten.
LEMMA MemoryStays ==
    ASSUME WorkerInv, HolderInv, NEW w \in Workers, grants' = grants,
           \A m \in Messages : outbox[m].status = "leased" => outbox'[m] = outbox[m],
           UNCHANGED <<clock, inflight, answered>>,
           \/ asked' = asked \/ ReadClock(w) \/ ForgetClock(w)
    PROVE  HolderInv'
<1>1. WorkerTypeOK
    BY DEF WorkerInv
<1>2. clock \in Nat /\ clock <= clock'
    BY <1>1, ClockIsNatural
<1>3. AskedBefore'
    <2>1. \A v \in Workers : Clock(v)' = Clock(v) /\ Clock(v) \in Nat
        BY <1>1, ClocksAreNatural DEF Clock
    <2>2. \A v \in Workers : asked'[v] \in {asked[v], Clock(v), 0}
        BY <1>1 DEF ReadClock, ForgetClock, WorkerTypeOK
    <2> QED BY <2>1, <2>2 DEF HolderInv, AskedBefore
<1>4. HeldOnce' /\ \A v \in Workers : Holds(v)' = Holds(v)
    BY DEF HolderInv, HeldOnce, Holds
<1> QED BY <1>2, <1>3, <1>4, HeldRowsStay

LEMMA LeasedIsStored ==
    ASSUME \/ \E m \in Messages : StepEnqueue(m)
           \/ \E S \in SUBSET Messages : StepCleanup(S)
    PROVE  /\ grants' = grants
           /\ \A m \in Messages : outbox[m].status = "leased" => outbox'[m] = outbox[m]
BY DEF StepEnqueue, StepCleanup, OnlyRows, Settled

LEMMA QuietStepsHold ==
    ASSUME WorkerInv, HolderInv, NEW w \in Workers,
           StartCycle(w) \/ CallMark(w) \/ AllApplied(w) \/ Cleanup(w)
    PROVE  HolderInv'
<1>1. /\ UNCHANGED <<clock, inflight, answered>>
      /\ \/ asked' = asked \/ ReadClock(w) \/ ForgetClock(w)
    BY DEF StartCycle, CallMark, AllApplied, Cleanup
<1>2. /\ grants' = grants
      /\ \A m \in Messages : outbox[m].status = "leased" => outbox'[m] = outbox[m]
    <2>1. CASE Cleanup(w)
        <3>1. /\ Less(Clock(w), DeliveredRetention) \in Nat
              /\ Less(Clock(w), DeadLetterRetention) \in Nat /\ TypeOK
            BY ClocksAreNatural, LessIsNatural, RetentionsNatural DEF WorkerInv, WorkerTypeOK
        <3>2. \E S \in SUBSET Messages : StepCleanup(S)
            BY <2>1, <3>1, CleanupIsStep DEF Cleanup
        <3> QED BY <3>2, LeasedIsStored
    <2>2. CASE StartCycle(w) \/ CallMark(w) \/ AllApplied(w)
        BY <2>2 DEF StartCycle, CallMark, AllApplied, storeVars
    <2> QED BY <2>1, <2>2
<1> QED BY <1>1, <1>2, MemoryStays

LEMMA CreateIssueHolds ==
    ASSUME WorkerInv, HolderInv, NEW m \in Messages, CreateIssue(m)
    PROVE  HolderInv'
<1>1. /\ Enqueue(m, clock) /\ WorkerTypeOK /\ TypeOK /\ clock \in Nat
      /\ pc' = pc /\ asked' = asked /\ inflight' = inflight /\ answered' = answered
      /\ clock' = clock
    BY ClockIsNatural DEF CreateIssue, WorkerInv, WorkerTypeOK, workerVars
<1>2. StepEnqueue(m)
    BY <1>1, EnqueueIsStep
<1>3. AskedBefore' /\ HeldOnce' /\ \A v \in Workers : Holds(v)' = Holds(v)
    BY <1>1 DEF HolderInv, AskedBefore, HeldOnce, Holds, Clock
<1>4. clock <= clock' /\ clock' \in Nat
    BY <1>1
<1>5. /\ grants' = grants
      /\ \A n \in Messages : outbox[n].status = "leased" => outbox'[n] = outbox[n]
    BY <1>2, LeasedIsStored
<1> QED BY <1>3, <1>4, <1>5, HeldRowsStay

LEMMA TickHolds ==
    ASSUME WorkerInv, HolderInv, Tick
    PROVE  HolderInv'
<1>1. /\ outbox' = outbox /\ grants' = grants /\ WorkerTypeOK /\ clock \in Nat
      /\ pc' = pc /\ asked' = asked /\ inflight' = inflight /\ answered' = answered
      /\ clock' = clock + 1
    BY ClockIsNatural DEF Tick, WorkerInv, workerVars, storeVars
<1>2. AskedBefore'
    <2> SUFFICES ASSUME NEW w \in Workers PROVE asked[w] <= Clock(w)'
        BY <1>1 DEF AskedBefore
    <2>1. asked[w] \in Nat /\ Skew[w] \in Nat /\ asked[w] <= clock + Skew[w]
        BY <1>1, ClocksAreNatural, SkewIsNatural DEF HolderInv, AskedBefore, Clock
    <2> QED BY <1>1, <2>1 DEF Clock
<1>3. HeldOnce' /\ \A v \in Workers : Holds(v)' = Holds(v)
    BY <1>1 DEF HolderInv, HeldOnce, Holds
<1>4. clock <= clock' /\ clock' \in Nat
    BY <1>1
<1> QED BY <1>1, <1>2, <1>3, <1>4, HeldRowsStay

\* Outcomes are dropped, and with a crash the dispatches to come.
LEMMA DroppedHolds ==
    ASSUME WorkerInv, HolderInv, NEW w \in Workers, AbortCycle(w) \/ Crash(w)
    PROVE  HolderInv'
<1>1. /\ WorkerTypeOK /\ clock' = clock /\ outbox' = outbox /\ grants' = grants
      /\ answered' = [answered EXCEPT ![w] = <<>>]
      /\ asked' = [asked EXCEPT ![w] = 0]
      /\ \/ inflight' = inflight
         \/ inflight' = [inflight EXCEPT ![w] = {}]
    BY DEF WorkerInv, AbortCycle, Crash, ForgetClock, storeVars
<1>2. /\ \A v \in Workers \ {w} : answered'[v] = answered[v]
      /\ answered'[w] = <<>> /\ DOMAIN <<>> = {}
      /\ \A v \in Workers : inflight'[v] \subseteq inflight[v]
    <2>1. answered \in [Workers -> Seq([grant : grants, answer : Answers])]
          /\ inflight \in [Workers -> SUBSET grants]
        BY <1>1 DEF WorkerTypeOK
    <2>2. \A v \in Workers : inflight'[v] \in {inflight[v], {}}
        BY <1>1, <2>1
    <2>3. /\ \A v \in Workers \ {w} : answered'[v] = answered[v]
          /\ answered'[w] = <<>>
        BY <1>1, <2>1
    <2> QED BY <2>2, <2>3
<1>3. HeldOnce' /\ \A v \in Workers : Holds(v)' \subseteq Holds(v)
    BY <1>2 DEF HolderInv, HeldOnce, Holds
<1>4. AskedBefore'
    <2>1. \A v \in Workers : Clock(v)' = Clock(v) /\ Clock(v) \in Nat
        BY <1>1, ClocksAreNatural DEF Clock
    <2>2. \A v \in Workers : asked'[v] \in {asked[v], 0}
        BY <1>1 DEF WorkerTypeOK
    <2> QED BY <2>1, <2>2 DEF HolderInv, AskedBefore
<1>5. clock' \in Nat /\ clock <= clock'
    BY <1>1, ClockIsNatural
<1> QED BY <1>1, <1>3, <1>4, <1>5, HeldRowsStay

\* A dispatch to come becomes an outcome.
LEMMA PublishHolds ==
    ASSUME WorkerInv, HolderInv, NEW w \in Workers, NEW g \in inflight[w],
           NEW answer \in Answers, Publish(w, g, answer)
    PROVE  HolderInv'
<1> DEFINE e == [grant |-> g, answer |-> answer]
<1>1. /\ WorkerTypeOK /\ clock' = clock /\ outbox' = outbox /\ grants' = grants
      /\ asked' = asked
      /\ inflight' = [inflight EXCEPT ![w] = @ \ {g}]
      /\ answered' = [answered EXCEPT ![w] = Append(@, e)]
    BY DEF WorkerInv, Publish, storeVars
<1>2. e \in Entry /\ e.grant = g
    BY <1>1 DEF Entry, WorkerTypeOK
<1> HIDE DEF e
<1> DEFINE s == answered[w]
<1>3. /\ \A v \in Workers \ {w} : answered'[v] = answered[v] /\ inflight'[v] = inflight[v]
      /\ answered'[w] = Append(s, e) /\ inflight'[w] = inflight[w] \ {g}
      /\ s \in Seq(Entry)
    BY <1>1, EntriesAre DEF WorkerTypeOK
<1>4. /\ DOMAIN answered'[w] = 1 .. Len(s) + 1 /\ DOMAIN s = 1 .. Len(s)
      /\ Len(s) \in Nat /\ answered'[w][Len(s) + 1] = e
      /\ \A i \in DOMAIN s : answered'[w][i] = s[i]
    BY <1>2, <1>3, AppendEntries
<1>5. \A i \in DOMAIN answered'[w] : i \in DOMAIN s \/ i = Len(s) + 1
    BY <1>4
<1>6. \A v \in Workers : Holds(v)' \subseteq Holds(v)
    <2>1. \A i \in DOMAIN answered'[w] : answered'[w][i].grant \in Holds(w)
        BY <1>2, <1>4, <1>5 DEF Holds
    <2>2. Holds(w)' \subseteq Holds(w)
        BY <1>3, <2>1 DEF Holds
    <2>3. \A v \in Workers \ {w} : Holds(v)' = Holds(v)
        BY <1>3 DEF Holds
    <2> QED BY <2>2, <2>3
<1>7. HeldOnce'
    <2>1. \A i \in DOMAIN s : s[i].grant # g
        BY DEF HolderInv, HeldOnce
    <2>2. \A i \in DOMAIN answered'[w] :
            /\ answered'[w][i].grant \notin inflight'[w]
            /\ \A j \in DOMAIN answered'[w] :
                 answered'[w][i].grant = answered'[w][j].grant => i = j
        BY <1>2, <1>3, <1>4, <1>5, <2>1 DEF HolderInv, HeldOnce
    <2>3. \A v \in Workers \ {w} : \A i \in DOMAIN answered'[v] :
            /\ answered'[v][i].grant \notin inflight'[v]
            /\ \A j \in DOMAIN answered'[v] :
                 answered'[v][i].grant = answered'[v][j].grant => i = j
        BY <1>3 DEF HolderInv, HeldOnce
    <2> QED BY <2>2, <2>3 DEF HeldOnce
<1>8. AskedBefore' /\ clock' \in Nat /\ clock <= clock'
    BY <1>1, ClockIsNatural DEF HolderInv, AskedBefore, Clock
<1> QED BY <1>1, <1>6, <1>7, <1>8, HeldRowsStay

\* The first outcome is applied: what its worker still holds is of other
\* grants, and what others hold of the message has expired.
LEMMA MarkHolds ==
    ASSUME WorkerInv, HolderInv, NEW w \in Workers, Mark(w)
    PROVE  HolderInv'
<1> DEFINE s == answered[w]
           g == Head(s).grant
<1>1. /\ g \in grants /\ s # <<>> /\ answered' = [answered EXCEPT ![w] = Tail(s)]
      /\ LeaseIsCurrent(w, g, asked[w])
      /\ \E outcome \in Outcomes : StepMark(g, outcome)
    BY MarkIsOfTheHead
<1>2. /\ WorkerTypeOK /\ TypeOK /\ clock \in Nat /\ clock' = clock /\ inflight' = inflight
      /\ asked' = [asked EXCEPT ![w] = 0]
      /\ s \in Seq(Entry) /\ s[1].grant = g /\ 1 \in DOMAIN s
    BY <1>1, ClockIsNatural, EntriesAre, HeadIsAnEntry
       DEF WorkerInv, WorkerTypeOK, Mark, ForgetClock
<1> HIDE DEF g
<1>3. /\ grants' = grants
      /\ \A m \in Messages : m # g.message => outbox'[m] = outbox[m]
      /\ outbox[g.message].lease_token = g.token
      /\ outbox[g.message].lease_owner = w
    BY <1>1 DEF StepMark, OnlyRows, LeaseIsCurrent
<1>4. /\ \A v \in Workers \ {w} : answered'[v] = answered[v]
      /\ answered'[w] = Tail(s)
    BY <1>1, <1>2 DEF WorkerTypeOK
<1>5. \A i \in DOMAIN answered'[w] : /\ i + 1 \in DOMAIN s /\ answered'[w][i] = s[i + 1]
                                     /\ i \in Nat \ {0}
    <2>1. /\ DOMAIN Tail(s) = 1 .. Len(s) - 1 /\ Len(s) \in Nat \ {0}
          /\ \A i \in DOMAIN Tail(s) : i + 1 \in DOMAIN s /\ Tail(s)[i] = s[i + 1]
        BY <1>1, <1>2, TailEntries
    <2>2. \A i \in DOMAIN Tail(s) : i \in Nat \ {0}
        BY <2>1
    <2> QED BY <1>4, <2>1, <2>2
<1>6. OneGrantPerToken'
    BY <1>3 DEF HolderInv, OneGrantPerToken
<1>7. HeldOnce'
    <2>1. \A i \in DOMAIN answered'[w] :
            /\ answered'[w][i].grant \notin inflight'[w]
            /\ \A j \in DOMAIN answered'[w] :
                 answered'[w][i].grant = answered'[w][j].grant => i = j
        <3> SUFFICES ASSUME NEW i \in DOMAIN answered'[w]
                     PROVE  /\ answered'[w][i].grant \notin inflight'[w]
                            /\ \A j \in DOMAIN answered'[w] :
                                 answered'[w][i].grant = answered'[w][j].grant => i = j
            OBVIOUS
        <3>1. s[i + 1].grant \notin inflight[w]
            BY <1>5 DEF HolderInv, HeldOnce
        <3>2. ASSUME NEW j \in DOMAIN answered'[w],
                     answered'[w][i].grant = answered'[w][j].grant
              PROVE  i = j
            <4>1. s[i + 1].grant = s[j + 1].grant
                BY <1>5, <3>2
            <4>2. i + 1 = j + 1
                BY <1>5, <4>1 DEF HolderInv, HeldOnce
            <4> QED BY <1>5, <4>2
        <3> QED BY <1>2, <1>5, <3>1, <3>2
    <2>2. \A v \in Workers \ {w} : \A i \in DOMAIN answered'[v] :
            /\ answered'[v][i].grant \notin inflight'[v]
            /\ \A j \in DOMAIN answered'[v] :
                 answered'[v][i].grant = answered'[v][j].grant => i = j
        BY <1>2, <1>4 DEF HolderInv, HeldOnce
    <2> QED BY <2>1, <2>2 DEF HeldOnce
<1>8. /\ \A v \in Workers : Holds(v)' \subseteq Holds(v)
      /\ g \notin Holds(w)'
    <2>1. \A i \in DOMAIN answered'[w] : answered'[w][i].grant \in Holds(w)
        BY <1>5 DEF Holds
    <2>2. g \notin inflight[w]
        BY <1>2 DEF HolderInv, HeldOnce
    <2>3. \A i \in DOMAIN answered'[w] : answered'[w][i].grant # g
        <3> SUFFICES ASSUME NEW i \in DOMAIN answered'[w], s[i + 1].grant = g
                     PROVE  FALSE
            BY <1>5
        <3>1. i + 1 = 1
            BY <1>2, <1>5 DEF HolderInv, HeldOnce
        <3> QED BY <1>5, <3>1
    <2>4. Holds(w)' \subseteq Holds(w) /\ g \notin Holds(w)'
        BY <1>2, <2>1, <2>2, <2>3 DEF Holds
    <2>5. \A v \in Workers \ {w} : Holds(v)' = Holds(v)
        BY <1>2, <1>4 DEF Holds
    <2> QED BY <2>4, <2>5
<1>9. HeldOrExpired'
    <2> SUFFICES ASSUME NEW v \in Workers, NEW h \in Holds(v)'
                 PROVE  h.owner = v /\ (OnItsRow(h)' \/ ExpiredForSome(h))
        BY <1>2 DEF HeldOrExpired, ExpiredForSome, Clock
    <2>1. h \in Holds(v) /\ h \in grants /\ h.message \in Messages
        BY <1>2, <1>8, HoldsAreGrants, GrantsName
    <2>2. h.owner = v /\ (OnItsRow(h) \/ ExpiredForSome(h))
        BY <2>1 DEF HolderInv, HeldOrExpired
    <2>3. CASE h.message # g.message
        BY <1>3, <2>1, <2>2, <2>3 DEF OnItsRow
    <2>4. CASE h.message = g.message /\ OnItsRow(h)
        <3>1. h.token = g.token /\ h.owner = w
            BY <1>3, <2>4 DEF OnItsRow
        <3>2. h = g /\ v = w
            BY <1>1, <2>1, <2>2, <2>4, <3>1 DEF HolderInv, OneGrantPerToken
        <3> QED BY <1>8, <3>2
    <2> QED BY <2>2, <2>3, <2>4
<1>10. AskedBefore'
    <2>1. \A v \in Workers : Clock(v)' = Clock(v) /\ Clock(v) \in Nat
        BY <1>2, ClocksAreNatural DEF Clock
    <2>2. \A v \in Workers : asked'[v] \in {asked[v], 0}
        BY <1>2 DEF WorkerTypeOK
    <2> QED BY <2>1, <2>2 DEF HolderInv, AskedBefore
<1> QED BY <1>6, <1>7, <1>9, <1>10 DEF HolderInv

\* A batch is of rows that nobody held, or whose holder's lease had run out
\* by the clock of the worker that leases them now.
LEMMA LeaseHolds ==
    ASSUME WorkerInv, HolderInv, NEW w \in Workers, Lease(w)
    PROVE  HolderInv'
<1> DEFINE token == lastToken + 1
           fresh == grants' \ grants
<1>0. WorkerTypeOK /\ TypeOK /\ Fenced /\ asked[w] \in Nat /\ clock \in Nat
    BY ClocksAreNatural, ClockIsNatural DEF WorkerInv, WorkerTypeOK
<1>1. PICK batch \in SUBSET Messages, locked \in SUBSET Locked(w) :
        /\ LeaseBatch(w, asked[w], batch, locked)
        /\ inflight' = [inflight EXCEPT ![w] = fresh]
    BY DEF Lease
<1>2. /\ answered' = answered /\ clock' = clock /\ asked' = [asked EXCEPT ![w] = 0]
      /\ token \in Nat /\ lastToken \in Nat /\ lastToken < token
    BY <1>0 DEF Lease, ForgetClock, TypeOK
<1>3. /\ outbox' = [m \in Messages |->
                      IF m \in batch THEN LeasedRow(outbox[m], w, token, asked[w])
                                     ELSE outbox[m]]
      /\ grants' = grants \union {GrantOf(m, w, token, asked[w]) : m \in batch}
      /\ batch \subseteq Eligible(asked[w])
    BY <1>1 DEF LeaseBatch, IsBatch
<1> HIDE DEF token
<1>4. \A m \in batch : /\ outbox'[m].status = "leased"
                       /\ outbox'[m].lease_token = token
                       /\ outbox'[m].lease_owner = w
                       /\ outbox'[m].leased_until = asked[w] + LeaseFor
    <2> SUFFICES ASSUME NEW m \in batch
                 PROVE  /\ outbox'[m].status = "leased"
                        /\ outbox'[m].lease_token = token
                        /\ outbox'[m].lease_owner = w
                        /\ outbox'[m].leased_until = asked[w] + LeaseFor
        OBVIOUS
    <2>1. outbox[m] \in Row /\ outbox'[m] = LeasedRow(outbox[m], w, token, asked[w])
        BY <1>0, <1>3 DEF TypeOK
    <2> QED BY <1>0, <1>2, <2>1, LeasedRowColumns
<1>5. \A g \in fresh : /\ g.message \in batch /\ g.token = token /\ g.owner = w
                       /\ g.until = asked[w] + LeaseFor
                       /\ g = GrantOf(g.message, w, token, asked[w])
    BY <1>3 DEF GrantOf
<1>6. \A g \in grants : g.token \in Nat /\ g.token # token /\ g.message \in Messages
    <2>1. \A g \in grants : g.token <= lastToken /\ g.token \in Nat /\ g.message \in Messages
        BY <1>0, GrantsName DEF Fenced, TokensAreNumbered
    <2> QED BY <1>2, <2>1
<1>7. grants \subseteq grants'
    BY <1>3
<1>8. OneGrantPerToken'
    <2> SUFFICES ASSUME NEW g \in grants', NEW h \in grants',
                        g.message = h.message, g.token = h.token
                 PROVE  g = h
        BY DEF OneGrantPerToken
    <2>1. CASE g \in grants /\ h \in grants
        BY <2>1 DEF HolderInv, OneGrantPerToken
    <2>2. CASE g \in fresh /\ h \in fresh
        BY <1>5, <2>2
    <2>3. CASE (g \in fresh /\ h \in grants) \/ (g \in grants /\ h \in fresh)
        BY <1>5, <1>6, <2>3
    <2> QED BY <2>1, <2>2, <2>3
<1>9. /\ \A v \in Workers \ {w} : inflight'[v] = inflight[v]
      /\ inflight'[w] = fresh
      /\ \A v \in Workers : \A i \in DOMAIN answered[v] : answered[v][i].grant \in grants
    <2>1. \A v \in Workers : \A i \in DOMAIN answered[v] : answered[v][i].grant \in Holds(v)
        BY DEF Holds
    <2> QED BY <1>0, <1>1, <2>1, HoldsAreGrants DEF WorkerTypeOK
<1>10. HeldOnce'
    <2>1. \A v \in Workers : \A i \in DOMAIN answered[v] :
            answered[v][i].grant \notin inflight'[v]
        BY <1>9 DEF HolderInv, HeldOnce
    <2> QED BY <1>2, <2>1 DEF HolderInv, HeldOnce
<1>11. \A v \in Workers : Holds(v)' \subseteq Holds(v) \union (IF v = w THEN fresh ELSE {})
    BY <1>2, <1>9 DEF Holds
<1>12. HeldOrExpired'
    <2> SUFFICES ASSUME NEW v \in Workers, NEW g \in Holds(v)'
                 PROVE  g.owner = v /\ (OnItsRow(g)' \/ ExpiredForSome(g))
        BY <1>2 DEF HeldOrExpired, ExpiredForSome, Clock
    <2>1. CASE g \in fresh /\ v = w
        BY <1>4, <1>5, <2>1 DEF OnItsRow
    <2>2. CASE g \in Holds(v)
        <3>1. g \in grants /\ g.message \in Messages /\ g.owner = v /\ g.until \in Nat
            BY <1>0, <2>2, HoldsAreGrants, GrantsName DEF HolderInv, HeldOrExpired
        <3>2. OnItsRow(g) \/ ExpiredForSome(g)
            BY <2>2 DEF HolderInv, HeldOrExpired
        <3>3. CASE OnItsRow(g) /\ g.message \in batch
            <4>1. outbox[g.message].leased_until <= asked[w]
                BY <1>3, <3>3 DEF Eligible, OnItsRow, Claimable
            <4>2. asked[w] <= Clock(w) /\ Clock(w) \in Nat
                BY <1>0, ClocksAreNatural DEF HolderInv, AskedBefore
            <4>3. g.until <= Clock(w)
                BY <1>0, <3>1, <3>3, <4>1, <4>2 DEF OnItsRow
            <4> QED BY <3>1, <4>3 DEF ExpiredForSome
        <3>4. CASE OnItsRow(g) /\ g.message \notin batch
            <4>1. outbox'[g.message] = outbox[g.message]
                BY <1>3, <3>1, <3>4
            <4> QED BY <3>1, <3>4, <4>1 DEF OnItsRow
        <3> QED BY <3>1, <3>2, <3>3, <3>4
    <2> QED BY <1>11, <2>1, <2>2
<1>13. AskedBefore'
    <2>1. \A v \in Workers : Clock(v)' = Clock(v) /\ Clock(v) \in Nat
        BY <1>0, <1>2, ClocksAreNatural DEF Clock
    <2>2. \A v \in Workers : asked'[v] \in {asked[v], 0}
        BY <1>0, <1>2 DEF WorkerTypeOK
    <2> QED BY <2>1, <2>2 DEF HolderInv, AskedBefore
<1> QED BY <1>8, <1>10, <1>12, <1>13 DEF HolderInv

LEMMA InitHolderInv == Init => HolderInv
<1> SUFFICES ASSUME Init PROVE HolderInv
    OBVIOUS
<1>1. \A w \in Workers : DOMAIN answered[w] = {} /\ inflight[w] = {}
    BY DEF Init
<1>2. \A w \in Workers : Holds(w) = {}
    BY <1>1 DEF Holds
<1>3. AskedBefore
    BY SkewIsNatural DEF Init, AskedBefore, Clock
<1> QED BY <1>1, <1>2, <1>3
        DEF HolderInv, OneGrantPerToken, HeldOnce, HeldOrExpired, Init, StoreInit

LEMMA NextHolderInv ==
    ASSUME WorkerInv, HolderInv, [Next]_vars
    PROVE  HolderInv'
<1>1. CASE UNCHANGED vars
    <2>1. /\ outbox' = outbox /\ grants' = grants /\ clock' = clock /\ asked' = asked
          /\ inflight' = inflight /\ answered' = answered
        BY <1>1 DEF vars, workerVars, storeVars
    <2>2. AskedBefore' /\ HeldOnce' /\ \A v \in Workers : Holds(v)' = Holds(v)
        BY <2>1 DEF HolderInv, AskedBefore, HeldOnce, Holds, Clock
    <2>3. clock' \in Nat /\ clock <= clock'
        BY <2>1, ClockIsNatural DEF WorkerInv
    <2> QED BY <2>1, <2>2, <2>3, HeldRowsStay
<1>2. CASE \E m \in Messages : CreateIssue(m)
    BY <1>2, CreateIssueHolds
<1>3. ASSUME NEW w \in Workers, Work(w) \/ Crash(w)
      PROVE  HolderInv'
    BY <1>3, QuietStepsHold, LeaseHolds, PublishHolds, MarkHolds, DroppedHolds DEF Work
<1>4. CASE Tick
    BY <1>4, TickHolds
<1> QED BY <1>1, <1>2, <1>3, <1>4 DEF Next

LEMMA HolderInvariant == Spec => []HolderInv
<1>1. WorkerInv /\ HolderInv /\ [Next]_vars => HolderInv'
    BY NextHolderInv
<1> QED BY <1>1, InitHolderInv, WorkerInvariant, PTL DEF Spec

\* Two workers that hold leases of one message.
BothHold(v, w, g, h) ==
    v # w /\ g \in Holds(v) /\ h \in Holds(w) /\ g.message = h.message

LEMMA OneLeaseHasExpired ==
    ASSUME HolderInv, NEW v \in Workers, NEW w \in Workers, NEW g, NEW h,
           BothHold(v, w, g, h)
    PROVE  ExpiredForSome(g) \/ ExpiredForSome(h)
<1>1. /\ g.owner = v /\ (OnItsRow(g) \/ ExpiredForSome(g))
      /\ h.owner = w /\ (OnItsRow(h) \/ ExpiredForSome(h))
    BY DEF HolderInv, HeldOrExpired, BothHold
<1> QED BY <1>1 DEF OnItsRow, BothHold

LEMMA HeldUntilIsNatural ==
    ASSUME WorkerInv, NEW w \in Workers, NEW g \in Holds(w)
    PROVE  g.until \in Nat
BY HoldsAreGrants, GrantsName DEF WorkerInv, WorkerTypeOK

\* Of two leases of one message in different hands, one has expired for some
\* worker.
ExpiredWhenShared ==
    \A v, w \in Workers : v # w =>
        \A g \in Holds(v), h \in Holds(w) :
            g.message = h.message => ExpiredForSome(g) \/ ExpiredForSome(h)

\* A lease is taken from its holder only once it has expired by the clock of
\* some worker: whatever the clocks say, of two holders of one message one
\* has a lease that a worker has seen expire.
THEOREM TakeoverAwaitsExpiry == Spec => []ExpiredWhenShared
<1>1. HolderInv => ExpiredWhenShared
    BY OneLeaseHasExpired DEF ExpiredWhenShared, BothHold
<1> QED BY <1>1, HolderInvariant, PTL

\* No clock of a worker is more than skew ahead of another's.
ClocksWithin(skew) == \A v, w \in Workers : Skew[v] <= Skew[w] + skew

\* OneHolder, with the instants at which leases end extended by skew.
OneHolderWithin(skew) ==
    \A v, w \in Workers : v # w =>
        \A g \in Holds(v), h \in Holds(w) :
            g.message = h.message =>
                g.until <= Clock(v) + skew \/ h.until <= Clock(w) + skew

ClocksAgree == \A v, w \in Workers : Skew[v] = Skew[w]

\* Clocks that are skewed shorten a lease by their skew and no more: two
\* workers that both hold a message are past the end of one of the leases,
\* give or take the skew.
THEOREM SkewShortensLeases ==
    ASSUME NEW skew \in Nat, ClocksWithin(skew)
    PROVE  Spec => []OneHolderWithin(skew)
<1>1. ASSUME WorkerInv, NEW v \in Workers, NEW g \in Holds(v), ExpiredForSome(g)
      PROVE  g.until <= Clock(v) + skew
    <2>1. PICK u \in Workers : g.until <= Clock(u)
        BY <1>1 DEF ExpiredForSome
    <2>2. /\ clock \in Nat /\ Skew[u] \in Nat /\ Skew[v] \in Nat
          /\ Skew[u] <= Skew[v] + skew
        BY <1>1, ClockIsNatural, SkewIsNatural DEF WorkerInv, ClocksWithin
    <2>3. g.until \in Nat
        BY <1>1, HeldUntilIsNatural
    <2> QED BY <2>1, <2>2, <2>3 DEF Clock
<1>2. WorkerInv /\ HolderInv => OneHolderWithin(skew)
    BY <1>1, OneLeaseHasExpired DEF OneHolderWithin, BothHold
<1> QED BY <1>2, WorkerInvariant, HolderInvariant, PTL

\* Workers whose clocks agree never hold unexpired leases of one message
\* together, however long their transactions waited after the "now" they
\* were given was read, and however they crash.
THEOREM HoldersExclude ==
    ASSUME ClocksAgree
    PROVE  Spec => []OneHolder
<1>1. ASSUME WorkerInv, NEW v \in Workers, NEW g \in Holds(v), ExpiredForSome(g)
      PROVE  g.until <= Clock(v)
    BY <1>1 DEF ExpiredForSome, ClocksAgree, Clock
<1>2. WorkerInv /\ HolderInv => OneHolder
    BY <1>1, OneLeaseHasExpired DEF OneHolder, BothHold
<1> QED BY <1>2, WorkerInvariant, HolderInvariant, PTL

-----------------------------------------------------------------------------
(* The workers are callers of the store like any others.  OutboxStore lets *)
(* "now" be any member of Instants; here it is what a skewed clock said    *)
(* some time ago.  What is proved of the store holds of the whole all the  *)
(* same, as every step of the whole is one of the store's, or none.        *)

\* A step of a worker, of a request or of the clock is a step of the store
\* or leaves the table alone.
LEMMA StepsOnTheStore ==
    ASSUME WorkerInv, [Next]_vars
    PROVE  StoreStep
<1>0. WorkerTypeOK /\ TypeOK /\ clock \in Nat
    BY ClockIsNatural DEF WorkerInv, WorkerTypeOK
<1>1. CASE UNCHANGED storeVars
    BY <1>1 DEF StoreStep
<1>2. ASSUME NEW m \in Messages, CreateIssue(m)
      PROVE  StoreStep
    BY <1>0, <1>2, EnqueueIsStep DEF CreateIssue, StoreStep
<1>3. ASSUME NEW w \in Workers, Lease(w)
      PROVE  StoreStep
    <2>1. asked[w] \in Nat
        BY <1>0, ClocksAreNatural
    <2> QED BY <1>0, <1>3, <2>1, LeaseIsStep DEF Lease, StoreStep
<1>4. ASSUME NEW w \in Workers, Mark(w)
      PROVE  StoreStep
    BY <1>4, MarkIsOfTheHead DEF StoreStep
<1>5. ASSUME NEW w \in Workers, Cleanup(w)
      PROVE  StoreStep
    <2>1. /\ Less(Clock(w), DeliveredRetention) \in Nat
          /\ Less(Clock(w), DeadLetterRetention) \in Nat
        BY <1>0, ClocksAreNatural, LessIsNatural, RetentionsNatural
    <2> QED BY <1>0, <1>5, <2>1, CleanupIsStep DEF Cleanup, StoreStep
<1>6. ASSUME NEW w \in Workers, Work(w) \/ Crash(w)
      PROVE  StoreStep
    <2>1. \/ UNCHANGED storeVars
          \/ Lease(w) \/ Mark(w) \/ Cleanup(w)
        BY <1>6 DEF Work, StartCycle, Publish, CallMark, AbortCycle, AllApplied, Crash
    <2> QED BY <1>1, <1>3, <1>4, <1>5, <2>1
<1>7. CASE Tick
    BY <1>1, <1>7 DEF Tick
<1>8. CASE UNCHANGED vars
    BY <1>1, <1>8 DEF vars
<1> QED BY <1>2, <1>6, <1>7, <1>8 DEF Next

\* In the composed system too a lease settles its message at most once, a
\* settled message is never leased again, and lease columns are those of a
\* grant that some worker was handed.
THEOREM WorkersSettleOnce == Spec => [](OneOutcomePerLease /\ SettledForGood /\ LeaseColumns)
<1>1. WorkerInv => OneOutcomePerLease /\ SettledForGood /\ LeaseColumns
    BY DEF WorkerInv, Fenced
<1> QED BY <1>1, WorkerInvariant, PTL

\* Every outcome a worker records is that of the newest lease of its message:
\* a worker that was taken over while it published changes nothing.
THEOREM WorkersAreFenced == Spec => NewestLeaseSettles
<1>1. WorkerInv /\ [Next]_vars =>
        [\A s \in settled' \ settled, g \in grants :
            g.message = s.message => g.token <= s.token]_storeVars
    BY StepsOnTheStore, StepSettlesNewest DEF WorkerInv, WorkerTypeOK
<1> QED BY <1>1, WorkerInvariant, PTL DEF Spec, NewestLeaseSettles

\* The budget of a row is the number of failed deliveries that workers
\* recorded, and no row is leased beyond it, however often workers crash.
THEOREM WorkersStayInBudget == Spec => [](BudgetLeft /\ AttemptsCountFailures)
<1>1. Init => Budgeted /\ FailuresCounted
    <2>1. ASSUME StoreInit PROVE Budgeted
        BY <2>1, BudgetIsPositive DEF StoreInit, AbsentRow, Budgeted
    <2> QED BY <2>1, InitCounted DEF Init
<1>2. WorkerInv /\ Budgeted /\ FailuresCounted /\ [Next]_vars
        => Budgeted' /\ FailuresCounted'
    BY StepsOnTheStore, NextBudgeted, NextCounted DEF WorkerInv, WorkerTypeOK
<1>3. Budgeted /\ FailuresCounted => BudgetLeft /\ AttemptsCountFailures
    BY DEF Budgeted, BudgetLeft, FailuresCounted
<1> QED BY <1>1, <1>2, <1>3, WorkerInvariant, PTL DEF Spec

\* The workers over the store implement OutboxPromise: skewed clocks, crashes
\* between any two calls and marks that come late break none of it.
THEOREM WorkersKeepThePromise == Spec => KeepsPromise
<1>1. Init => Promise!Init
    BY InitPromise DEF Init
<1>2. WorkerInv /\ [Next]_vars => [Promise!Next]_(Promise!vars)
    BY StepsOnTheStore, NextPromise DEF WorkerInv, WorkerTypeOK
<1> QED BY <1>1, <1>2, WorkerInvariant, PTL DEF Spec, KeepsPromise, Promise!Spec

-----------------------------------------------------------------------------
(* The part of EventuallySettled that is not liveness: a message that is   *)
(* not settled waits for an instant that some worker's clock reaches after *)
(* one lease or one backoff, whatever was read late, crashed or skewed.    *)

WaitIsBounded(m) ==
    LET row == outbox[m]
    IN  /\ row.status = "pending" => row.available_at <= clock
        /\ row.status = "failed" => \E u \in Workers, backoff \in Backoffs :
                                      row.available_at <= Clock(u) + backoff
        /\ row.status = "leased" => row.leased_until <= Clock(row.lease_owner) + LeaseFor

WaitsAreBounded == \A m \in Messages : WaitIsBounded(m)

\* A row that no step touches is waited for no longer.
LEMMA BoundStays ==
    ASSUME WorkerInv, clock' \in Nat, clock <= clock',
           NEW m \in Messages, WaitIsBounded(m), outbox'[m] = outbox[m]
    PROVE  WaitIsBounded(m)'
<1>1. /\ TypeOK /\ clock \in Nat /\ Backoffs \subseteq Nat /\ LeaseFor \in Nat
      /\ \A u \in Workers : Skew[u] \in Nat
    BY ClockIsNatural, TimesAreNaturals, SkewIsNatural DEF WorkerInv, WorkerTypeOK
<1>2. \A u \in Workers : Clock(u) \in Nat /\ Clock(u)' \in Nat /\ Clock(u) <= Clock(u)'
    BY <1>1 DEF Clock
<1>3. outbox[m].available_at \in Nat /\ outbox[m].leased_until \in Nat
    BY <1>1 DEF TypeOK, Row
<1>4. outbox'[m].status = "pending" => outbox'[m].available_at <= clock'
    BY <1>1, <1>3 DEF WaitIsBounded
<1>5. outbox'[m].status = "failed" =>
        \E u \in Workers, backoff \in Backoffs : outbox'[m].available_at <= Clock(u)' + backoff
    BY <1>1, <1>2, <1>3 DEF WaitIsBounded
<1>6. outbox'[m].status = "leased" =>
        outbox'[m].leased_until <= clock' + Skew[outbox'[m].lease_owner] + LeaseFor
    <2> SUFFICES ASSUME outbox[m].status = "leased"
                 PROVE  outbox[m].leased_until <= clock' + Skew[outbox[m].lease_owner] + LeaseFor
        OBVIOUS
    <2>1. outbox[m].lease_owner \in Workers
        BY GrantsName DEF WorkerInv, WorkerTypeOK, Fenced, LeaseColumns
    <2>2. outbox[m].leased_until <= Clock(outbox[m].lease_owner) + LeaseFor
        BY DEF WaitIsBounded
    <2> QED BY <1>1, <1>3, <2>1, <2>2 DEF Clock
<1> QED BY <1>4, <1>5, <1>6 DEF WaitIsBounded, Clock

\* The rows of a batch are leased for LeaseFor from an instant in the past.
LEMMA LeaseBounds ==
    ASSUME WorkerInv, HolderInv, WaitsAreBounded, NEW w \in Workers, Lease(w)
    PROVE  WaitsAreBounded'
<1>0. WorkerTypeOK /\ TypeOK /\ asked[w] \in Nat /\ clock \in Nat
    BY ClocksAreNatural, ClockIsNatural DEF WorkerInv, WorkerTypeOK
<1>1. PICK batch \in SUBSET Messages, locked \in SUBSET Locked(w) :
        LeaseBatch(w, asked[w], batch, locked)
    BY DEF Lease
<1>2. /\ outbox' = [m \in Messages |->
                      IF m \in batch THEN LeasedRow(outbox[m], w, lastToken + 1, asked[w])
                                     ELSE outbox[m]]
      /\ clock' = clock /\ lastToken + 1 \in Nat
    BY <1>0, <1>1 DEF LeaseBatch, Lease, TypeOK
<1>3. ASSUME NEW m \in batch
      PROVE  WaitIsBounded(m)'
    <2>1. outbox[m] \in Row /\ outbox'[m] = LeasedRow(outbox[m], w, lastToken + 1, asked[w])
        BY <1>0, <1>2 DEF TypeOK
    <2>2. /\ outbox'[m].status = "leased" /\ outbox'[m].lease_owner = w
          /\ outbox'[m].leased_until = asked[w] + LeaseFor
        BY <1>0, <1>2, <2>1, LeasedRowColumns
    <2>3. asked[w] <= Clock(w) /\ Clock(w)' = Clock(w) /\ Clock(w) \in Nat
        BY <1>0, <1>2, ClocksAreNatural DEF HolderInv, AskedBefore, Clock
    <2>4. asked[w] + LeaseFor <= Clock(w)' + LeaseFor
        BY <1>0, <2>3, TimesAreNaturals
    <2> QED BY <2>2, <2>4 DEF WaitIsBounded
<1>4. ASSUME NEW m \in Messages \ batch
      PROVE  WaitIsBounded(m)'
    <2>1. outbox'[m] = outbox[m] /\ clock <= clock' /\ clock' \in Nat
        BY <1>0, <1>2
    <2> QED BY <2>1, BoundStays DEF WaitsAreBounded
<1> QED BY <1>3, <1>4 DEF WaitsAreBounded

\* A retry is due one backoff after an instant in the past.
LEMMA MarkBounds ==
    ASSUME WorkerInv, HolderInv, WaitsAreBounded, NEW w \in Workers, Mark(w)
    PROVE  WaitsAreBounded'
<1> DEFINE g == Head(answered[w]).grant
           answer == Head(answered[w]).answer
<1>0. /\ WorkerTypeOK /\ TypeOK /\ asked[w] \in Nat /\ clock \in Nat /\ clock' = clock
      /\ asked[w] <= Clock(w) /\ Clock(w)' = Clock(w) /\ Clock(w) \in Nat
      /\ Backoffs \subseteq Nat
    BY ClocksAreNatural, ClockIsNatural, TimesAreNaturals
       DEF WorkerInv, WorkerTypeOK, Mark, HolderInv, AskedBefore, Clock
<1>1. /\ g \in grants
      /\ \E outcome \in Outcomes : StepMark(g, outcome)
      /\ IF answer = "ok"
         THEN MarkDelivered(w, g, asked[w])
         ELSE \E backoff \in Backoffs :
                MarkFailed(w, g, asked[w], answer \in Terminal, backoff)
    BY MarkIsOfTheHead DEF Mark
<1>2. g.message \in Messages
    BY <1>0, <1>1, GrantsName
<1> HIDE DEF g, answer
<1>3. /\ \A m \in Messages : m # g.message => outbox'[m] = outbox[m]
      /\ outbox'[g.message].status \in Outcomes
    BY <1>1 DEF StepMark, OnlyRows
<1>4. outbox[g.message] \in Row
    BY <1>0, <1>2 DEF TypeOK
<1>5. ASSUME outbox'[g.message].status = "failed"
      PROVE  \E backoff \in Backoffs : outbox'[g.message].available_at = asked[w] + backoff
    <2>1. CASE answer = "ok"
        <3>1. StepMark(g, "delivered")
            BY <1>0, <1>1, <2>1, MarkDeliveredIsStep
        <3> QED BY <1>5, <3>1 DEF StepMark
    <2>2. CASE answer # "ok"
        <3>1. PICK backoff \in Backoffs :
                MarkFailed(w, g, asked[w], answer \in Terminal, backoff)
            BY <1>1, <2>2
        <3>2. LeaseIsCurrent(w, g, asked[w]) /\ UNCHANGED <<lastToken, grants>>
            BY <3>1 DEF MarkFailed
        <3>3. CASE Exhausted(outbox[g.message], answer \in Terminal)
            <4>1. StepMark(g, "dead_letter")
                BY <1>0, <1>1, <3>1, <3>2, <3>3, MarkDeadLetterIsStep DEF MarkFailed
            <4> QED BY <1>5, <4>1 DEF StepMark
        <3>4. CASE ~Exhausted(outbox[g.message], answer \in Terminal)
            <4>1. outbox'[g.message] =
                    FailedRow(outbox[g.message], "failed", asked[w] + backoff, asked[w])
                BY <1>0, <1>2, <3>1, <3>4 DEF MarkFailed, MarkForRetry, TypeOK
            <4> QED BY <1>4, <4>1, FailedRowIsDue
        <3> QED BY <3>3, <3>4
    <2> QED BY <2>1, <2>2
<1>6. ASSUME NEW m \in Messages
      PROVE  WaitIsBounded(m)'
    <2>1. CASE m = g.message
        <3>1. outbox'[m].status = "failed" =>
                \E u \in Workers, backoff \in Backoffs :
                   outbox'[m].available_at <= Clock(u)' + backoff
            BY <1>0, <1>5, <2>1
        <3>2. outbox'[m].status \notin {"pending", "leased"}
            BY <1>3, <2>1 DEF Outcomes
        <3> QED BY <3>1, <3>2 DEF WaitIsBounded
    <2>2. CASE m # g.message
        <3>1. outbox'[m] = outbox[m] /\ clock <= clock'
            BY <1>0, <1>3, <2>2
        <3> QED BY <1>0, <3>1, BoundStays DEF WaitsAreBounded
    <2> QED BY <2>1, <2>2
<1> QED BY <1>6 DEF WaitsAreBounded

\* The other steps insert a row that is due at once, delete settled ones, or
\* leave the table alone.
LEMMA NextWaitsBounded ==
    ASSUME WorkerInv, HolderInv, WaitsAreBounded, [Next]_vars
    PROVE  WaitsAreBounded'
<1>0. WorkerTypeOK /\ TypeOK /\ clock \in Nat
    BY ClockIsNatural DEF WorkerInv, WorkerTypeOK
<1>1. ASSUME outbox' = outbox, clock' \in Nat, clock <= clock'
      PROVE  WaitsAreBounded'
    BY <1>1, BoundStays DEF WaitsAreBounded
<1>2. ASSUME NEW m \in Messages, CreateIssue(m)
      PROVE  WaitsAreBounded'
    <2>1. /\ StepEnqueue(m) /\ clock' = clock
          /\ outbox' = [outbox EXCEPT ![m].status       = "pending",
                                      ![m].available_at = clock,
                                      ![m].updated_at   = clock]
        BY <1>0, <1>2, EnqueueIsStep DEF CreateIssue, Enqueue
    <2>2. outbox'[m].status = "pending" /\ outbox'[m].available_at = clock
        BY <1>0, <2>1 DEF TypeOK, Row
    <2>3. WaitIsBounded(m)'
        BY <1>0, <2>1, <2>2 DEF WaitIsBounded
    <2>4. ASSUME NEW n \in Messages, n # m
          PROVE  WaitIsBounded(n)'
        <3>1. outbox'[n] = outbox[n] /\ clock <= clock' /\ clock' \in Nat
            BY <1>0, <2>1, <2>4 DEF StepEnqueue, OnlyRows
        <3> QED BY <3>1, BoundStays DEF WaitsAreBounded
    <2> QED BY <2>3, <2>4 DEF WaitsAreBounded
<1>3. ASSUME NEW w \in Workers, Cleanup(w)
      PROVE  WaitsAreBounded'
    <2>1. /\ Less(Clock(w), DeliveredRetention) \in Nat
          /\ Less(Clock(w), DeadLetterRetention) \in Nat
        BY <1>0, ClocksAreNatural, LessIsNatural, RetentionsNatural
    <2>2. PICK S \in SUBSET Messages : StepCleanup(S)
        BY <1>0, <1>3, <2>1, CleanupIsStep DEF Cleanup
    <2>3. clock' = clock
        BY <1>3 DEF Cleanup
    <2>4. ASSUME NEW m \in S
          PROVE  WaitIsBounded(m)'
        BY <2>2 DEF StepCleanup, WaitIsBounded
    <2>5. ASSUME NEW m \in Messages \ S
          PROVE  WaitIsBounded(m)'
        <3>1. outbox'[m] = outbox[m] /\ clock <= clock' /\ clock' \in Nat
            BY <1>0, <2>2, <2>3 DEF StepCleanup, OnlyRows
        <3> QED BY <3>1, BoundStays DEF WaitsAreBounded
    <2> QED BY <2>4, <2>5 DEF WaitsAreBounded
<1>4. ASSUME NEW w \in Workers, Work(w) \/ Crash(w)
      PROVE  WaitsAreBounded'
    <2>1. \/ outbox' = outbox /\ clock' = clock
          \/ Lease(w) \/ Mark(w) \/ Cleanup(w)
        BY <1>4 DEF Work, StartCycle, Publish, CallMark, AbortCycle, AllApplied, Crash,
                    storeVars
    <2> QED BY <1>0, <1>1, <1>3, <2>1, LeaseBounds, MarkBounds
<1>5. CASE Tick
    <2>1. outbox' = outbox /\ clock' = clock + 1
        BY <1>5 DEF Tick, storeVars
    <2> QED BY <1>0, <1>1, <2>1
<1>6. CASE UNCHANGED vars
    <2>1. outbox' = outbox /\ clock' = clock
        BY <1>6 DEF vars, storeVars
    <2> QED BY <1>0, <1>1, <2>1
<1> QED BY <1>2, <1>4, <1>5, <1>6 DEF Next

\* No message is ever stuck: one that is leased can be taken over LeaseFor
\* after now on its holder's clock, and one that failed can be leased again
\* one backoff after now on some worker's.
THEOREM NothingIsStuck == Spec => []WaitsAreBounded
<1>1. Init => WaitsAreBounded
    BY DEF Init, StoreInit, AbsentRow, WaitsAreBounded, WaitIsBounded
<1>2. WorkerInv /\ HolderInv /\ WaitsAreBounded /\ [Next]_vars => WaitsAreBounded'
    BY NextWaitsBounded
<1> QED BY <1>1, <1>2, WorkerInvariant, HolderInvariant, PTL DEF Spec

=============================================================================
