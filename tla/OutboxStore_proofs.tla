------------------------- MODULE OutboxStore_proofs -------------------------
(***************************************************************************)
(* Proofs about OutboxStore, for every set of messages and workers, every  *)
(* lease and backoff length, every batch size and every retry budget.      *)
(*                                                                         *)
(* The operations come first, row by row: StepEnqueue, StepLease, StepMark *)
(* and StepCleanup say what a step of each kind does to the table, without *)
(* the SQL it is made of.  The invariants are then proved from those four. *)
(***************************************************************************)
EXTENDS OutboxStore, FiniteSetTheorems, TLAPS

Fields == {"status", "attempts", "available_at", "lease_token",
           "lease_owner", "leased_until", "updated_at"}

\* The rows other than those of S are left alone.
OnlyRows(S) ==
    /\ outbox' \in [Messages -> Row]
    /\ \A m \in Messages \ S : outbox'[m] = outbox[m]

\* The message m enters the table.
StepEnqueue(m) ==
    /\ OnlyRows({m})
    /\ outbox[m].status = "absent" /\ outbox'[m].status = "pending"
    /\ outbox'[m].attempts = outbox[m].attempts
    /\ outbox'[m].lease_token = outbox[m].lease_token
    /\ outbox'[m].lease_owner = outbox[m].lease_owner
    /\ UNCHANGED <<lastToken, grants, settled>>

\* The messages of batch, none of them settled, are leased to w.
StepLease(w, batch, token) ==
    /\ OnlyRows(batch)
    /\ \A m \in batch :
         /\ outbox[m].status \in Claimable \union {"leased"}
         /\ outbox'[m].status = "leased"
         /\ outbox'[m].attempts = outbox[m].attempts
         /\ outbox'[m].lease_token = token
         /\ outbox'[m].lease_owner = w
         /\ [message |-> m, token |-> token, owner |-> w,
             until |-> outbox'[m].leased_until] \in grants'
    /\ lastToken' = IF batch = {} THEN lastToken ELSE token
    /\ grants \subseteq grants' /\ grants' \subseteq Grant
    /\ \A g \in grants' \ grants : g.message \in batch /\ g.token = token
    /\ UNCHANGED settled

\* The current lease g of a message ends with an outcome, which is then the
\* status of its row.
StepMark(g, outcome) ==
    /\ g \in grants /\ outcome \in Outcomes
    /\ OnlyRows({g.message})
    /\ outbox[g.message].status = "leased" /\ outbox[g.message].lease_token = g.token
    /\ outbox'[g.message].status = outcome
    /\ outbox'[g.message].lease_token = NoToken
    /\ outbox'[g.message].lease_owner = None
    /\ outbox'[g.message].attempts =
         outbox[g.message].attempts + (IF outcome = "delivered" THEN 0 ELSE 1)
    /\ outcome = "failed" => outbox[g.message].attempts + 1 < MaxAttempts
    /\ settled' = settled \union
         {[message |-> g.message, token |-> g.token, outcome |-> outcome]}
    /\ UNCHANGED <<lastToken, grants>>

\* The rows of S, all of them settled, are deleted.
StepCleanup(S) ==
    /\ OnlyRows(S)
    /\ \A m \in S : /\ outbox[m].status \in Settled
                    /\ outbox'[m].status = "deleted"
                    /\ outbox'[m].attempts = outbox[m].attempts
                    /\ outbox'[m].lease_token = outbox[m].lease_token
                    /\ outbox'[m].lease_owner = outbox[m].lease_owner
    /\ UNCHANGED <<lastToken, grants, settled>>

\* One of these four, or nothing.  Whoever calls the store, this is what its
\* calls come to, and all that the invariants below rest on.
StoreStep ==
    \/ \E m \in Messages : StepEnqueue(m)
    \/ \E w \in Workers, batch \in SUBSET Messages :
          StepLease(w, batch, lastToken + 1)
    \/ \E g \in grants, outcome \in Outcomes : StepMark(g, outcome)
    \/ \E S \in SUBSET Messages : StepCleanup(S)
    \/ UNCHANGED storeVars

-----------------------------------------------------------------------------
\* A row is a record of its seven columns.
LEMMA RowFields ==
    ASSUME NEW row \in Row
    PROVE  DOMAIN row = Fields
  BY DEF Row, Fields

\* A lease changes the lease columns, the status and nothing a retry counts.
LEMMA LeasedRowColumns ==
    ASSUME NEW row \in Row, NEW w \in Workers, NEW token \in Nat, NEW now \in Nat
    PROVE  /\ LeasedRow(row, w, token, now) \in Row
           /\ LeasedRow(row, w, token, now).status = "leased"
           /\ LeasedRow(row, w, token, now).lease_token = token
           /\ LeasedRow(row, w, token, now).lease_owner = w
           /\ LeasedRow(row, w, token, now).leased_until = now + LeaseFor
           /\ LeasedRow(row, w, token, now).attempts = row.attempts
<1>1. now + LeaseFor \in Nat
  BY TimesAreNaturals DEF TimesAreNaturals
<1>2. "leased" \in Status
  BY DEF Status
<1>3. LeasedRow(row, w, token, now) \in Row
  BY <1>1, <1>2 DEF LeasedRow, Row
<1> QED
  BY <1>3, RowFields DEF LeasedRow, Fields

\* Clearing the lease columns leaves the others alone.
LEMMA UnleasedColumns ==
    ASSUME NEW row \in Row
    PROVE  /\ Unleased(row) \in Row
           /\ Unleased(row).lease_token = NoToken
           /\ Unleased(row).lease_owner = None
           /\ Unleased(row).attempts = row.attempts
<1>1. Unleased(row) \in Row
  BY DEF Unleased, Row, NoToken
<1> QED
  BY <1>1, RowFields DEF Unleased, Fields

\* A grant names a message, and its holder is a worker.
LEMMA GrantsName ==
    ASSUME TypeOK, NEW g \in grants
    PROVE  /\ g.message \in Messages /\ g.token \in Nat
           /\ g.owner \in Workers /\ g.until \in Nat
  BY DEF TypeOK, Grant

-----------------------------------------------------------------------------
\* The insert of create_issue_transactional is a StepEnqueue.
LEMMA EnqueueIsStep ==
    ASSUME TypeOK, NEW m \in Messages, NEW now \in Nat, Enqueue(m, now)
    PROVE  StepEnqueue(m)
<1> DEFINE new == [outbox[m] EXCEPT !.status       = "pending",
                                    !.available_at = now,
                                    !.updated_at   = now]
<1>1. outbox[m] \in Row
  BY DEF TypeOK
<1>2. "pending" \in Status
  BY DEF Status, Claimable
<1>3. new \in Row
  BY <1>1, <1>2 DEF Row
<1>4. /\ new.status = "pending"
      /\ new.attempts = outbox[m].attempts
      /\ new.lease_token = outbox[m].lease_token
      /\ new.lease_owner = outbox[m].lease_owner
  BY <1>1, RowFields DEF Fields
<1>5. outbox' = [outbox EXCEPT ![m] = new]
  BY DEF Enqueue
<1> HIDE DEF new
<1>6. OnlyRows({m}) /\ outbox'[m] = new
  BY <1>3, <1>5 DEF OnlyRows, TypeOK
<1> QED
  BY <1>4, <1>6 DEF StepEnqueue, Enqueue

\* lease_outbox_batch is a StepLease under the next token.
LEMMA LeaseIsStep ==
    ASSUME TypeOK, NEW w \in Workers, NEW now \in Nat,
           NEW batch \in SUBSET Messages, NEW locked,
           LeaseBatch(w, now, batch, locked)
    PROVE  StepLease(w, batch, lastToken + 1)
<1> DEFINE token == lastToken + 1
<1>1. token \in Nat /\ lastToken \in Nat /\ lastToken < token
  BY DEF TypeOK
<1>2. /\ outbox' = [m \in Messages |->
                      IF m \in batch THEN LeasedRow(outbox[m], w, token, now)
                                     ELSE outbox[m]]
      /\ grants' = grants \union {GrantOf(m, w, token, now) : m \in batch}
      /\ lastToken' = IF batch = {} THEN lastToken ELSE token
      /\ batch \subseteq Eligible(now)
      /\ UNCHANGED settled
  BY DEF LeaseBatch, IsBatch
<1> HIDE DEF token
<1>3. \A m \in Messages : outbox[m] \in Row
  BY DEF TypeOK
<1>4. OnlyRows(batch)
  BY <1>1, <1>2, <1>3, LeasedRowColumns DEF OnlyRows
<1>5. \A m \in batch : outbox'[m] = LeasedRow(outbox[m], w, token, now)
  BY <1>2
<1>6. now + LeaseFor \in Nat
  BY TimesAreNaturals DEF TimesAreNaturals
<1>7. \A m \in batch : GrantOf(m, w, token, now) \in Grant
  BY <1>1, <1>6 DEF GrantOf, Grant
<1>8. grants \subseteq grants' /\ grants' \subseteq Grant
  BY <1>2, <1>7 DEF TypeOK
<1>9. \A g \in grants' \ grants : g.message \in batch /\ g.token = token
  BY <1>2 DEF GrantOf
<1>10. ASSUME NEW m \in batch
       PROVE  /\ outbox[m].status \in Claimable \union {"leased"}
              /\ outbox'[m].status = "leased"
              /\ outbox'[m].attempts = outbox[m].attempts
              /\ outbox'[m].lease_token = token
              /\ outbox'[m].lease_owner = w
              /\ [message |-> m, token |-> token, owner |-> w,
                  until |-> outbox'[m].leased_until] \in grants'
  <2>1. outbox[m].status \in Claimable \union {"leased"}
    BY <1>2 DEF Eligible
  <2>2. outbox[m] \in Row
    BY <1>3
  <2>3. /\ outbox'[m].status = "leased"
        /\ outbox'[m].attempts = outbox[m].attempts
        /\ outbox'[m].lease_token = token
        /\ outbox'[m].lease_owner = w
        /\ outbox'[m].leased_until = now + LeaseFor
    BY <1>1, <1>5, <2>2, LeasedRowColumns
  <2>4. GrantOf(m, w, token, now) \in grants'
    BY <1>2
  <2> QED
    BY <2>1, <2>3, <2>4 DEF GrantOf
<1>11. StepLease(w, batch, token)
  BY <1>2, <1>4, <1>8, <1>9, <1>10 DEF StepLease
<1> QED
  BY <1>11 DEF token

\* A mark that changes the row of g to new is a StepMark, whatever new says
\* of the instants.
LEMMA MarkIsStep ==
    ASSUME TypeOK, NEW w \in Workers, NEW g \in grants, NEW now \in Nat,
           LeaseIsCurrent(w, g, now),
           NEW outcome \in Outcomes, NEW new \in Row,
           new.status = outcome, new.lease_token = NoToken, new.lease_owner = None,
           new.attempts = outbox[g.message].attempts
                            + (IF outcome = "delivered" THEN 0 ELSE 1),
           outcome = "failed" => outbox[g.message].attempts + 1 < MaxAttempts,
           outbox' = [outbox EXCEPT ![g.message] = new],
           Record(g, outcome), UNCHANGED <<lastToken, grants>>
    PROVE  StepMark(g, outcome)
<1>1. g.message \in Messages
  BY GrantsName
<1>2. OnlyRows({g.message}) /\ outbox'[g.message] = new
  BY <1>1 DEF OnlyRows, TypeOK
<1>3. outbox[g.message].status = "leased" /\ outbox[g.message].lease_token = g.token
  BY DEF LeaseIsCurrent
<1> QED
  BY <1>2, <1>3 DEF StepMark, Record

\* mark_outbox_delivered.
LEMMA MarkDeliveredIsStep ==
    ASSUME TypeOK, NEW w \in Workers, NEW g \in grants, NEW now \in Nat,
           MarkDelivered(w, g, now)
    PROVE  StepMark(g, "delivered")
<1> DEFINE row == Unleased(outbox[g.message])
           new == [row EXCEPT !.status = "delivered", !.updated_at = now]
<1>1. outbox[g.message] \in Row
  BY GrantsName DEF TypeOK
<1>2. /\ row \in Row
      /\ row.lease_token = NoToken
      /\ row.lease_owner = None
      /\ row.attempts = outbox[g.message].attempts
  BY <1>1, UnleasedColumns
<1>3. outbox' = [outbox EXCEPT ![g.message] = new]
  BY DEF MarkDelivered
<1> HIDE DEF row
<1>4. "delivered" \in Status /\ "delivered" \in Outcomes
  BY DEF Status, Settled, Outcomes
<1>5. new \in Row
  BY <1>2, <1>4 DEF Row
<1>6. /\ new.status = "delivered"
      /\ new.lease_token = NoToken
      /\ new.lease_owner = None
      /\ new.attempts = outbox[g.message].attempts
  BY <1>2, RowFields DEF Fields
<1> HIDE DEF new
<1>7. outbox[g.message].attempts \in Nat
  BY <1>1 DEF Row
<1>8. new.attempts = outbox[g.message].attempts + 0
  BY <1>6, <1>7
<1> QED
  BY <1>3, <1>4, <1>5, <1>6, <1>8, MarkIsStep DEF MarkDelivered

\* A failure costs the row an attempt and its lease.
LEMMA FailedRowColumns ==
    ASSUME NEW row \in Row, NEW status \in Status,
           NEW available \in Nat, NEW now \in Nat
    PROVE  LET new == FailedRow(row, status, available, now)
           IN  /\ new \in Row
               /\ new.status = status
               /\ new.lease_token = NoToken
               /\ new.lease_owner = None
               /\ new.attempts = row.attempts + 1
<1> DEFINE free == Unleased(row)
           new  == [free EXCEPT !.status       = status,
                                !.attempts     = row.attempts + 1,
                                !.available_at = available,
                                !.updated_at   = now]
<1>1. free \in Row /\ free.lease_token = NoToken /\ free.lease_owner = None
  BY UnleasedColumns
<1>2. FailedRow(row, status, available, now) = new
  BY DEF FailedRow
<1> HIDE DEF free
<1>3. row.attempts + 1 \in Nat
  BY DEF Row
<1>4. new \in Row
  BY <1>1, <1>3 DEF Row
<1>5. /\ new.status = status
      /\ new.lease_token = NoToken
      /\ new.lease_owner = None
      /\ new.attempts = row.attempts + 1
  BY <1>1, RowFields DEF Fields
<1> QED
  BY <1>2, <1>4, <1>5

\* It is available again at the instant it is given.
LEMMA FailedRowIsDue ==
    ASSUME NEW row \in Row, NEW status, NEW available, NEW now
    PROVE  FailedRow(row, status, available, now).available_at = available
<1>1. Unleased(row) \in Row
  BY UnleasedColumns
<1> QED
  BY <1>1, RowFields DEF FailedRow, Fields

\* The retry branch of mark_outbox_failed.
LEMMA MarkForRetryIsStep ==
    ASSUME TypeOK, NEW w \in Workers, NEW g \in grants,
           NEW now \in Nat, NEW backoff \in Nat,
           LeaseIsCurrent(w, g, now), MarkForRetry(g, now, backoff),
           outbox[g.message].attempts + 1 < MaxAttempts,
           UNCHANGED <<lastToken, grants>>
    PROVE  StepMark(g, "failed")
<1> DEFINE new == FailedRow(outbox[g.message], "failed", now + backoff, now)
<1>1. outbox[g.message] \in Row
  BY GrantsName DEF TypeOK
<1>2. /\ "failed" \in Status /\ "failed" \in Outcomes
      /\ now + backoff \in Nat
  BY DEF Status, Claimable, Outcomes
<1>3. outbox' = [outbox EXCEPT ![g.message] = new]
  BY DEF MarkForRetry
<1>4. /\ new \in Row
      /\ new.status = "failed"
      /\ new.lease_token = NoToken
      /\ new.lease_owner = None
      /\ new.attempts = outbox[g.message].attempts + 1
  <2> DEFINE available == now + backoff
  <2>1. available \in Nat
    BY <1>2
  <2> HIDE DEF available
  <2>2. LET row == FailedRow(outbox[g.message], "failed", available, now)
        IN  /\ row \in Row
            /\ row.status = "failed"
            /\ row.lease_token = NoToken
            /\ row.lease_owner = None
            /\ row.attempts = outbox[g.message].attempts + 1
    BY <1>1, <1>2, <2>1, FailedRowColumns
  <2> QED
    BY <2>2 DEF available
<1> HIDE DEF new
<1> QED
  BY <1>2, <1>3, <1>4, MarkIsStep DEF MarkForRetry

\* The dead-letter branch of mark_outbox_failed.
LEMMA MarkDeadLetterIsStep ==
    ASSUME TypeOK, NEW w \in Workers, NEW g \in grants, NEW now \in Nat,
           LeaseIsCurrent(w, g, now), MarkDeadLetter(g, now),
           UNCHANGED <<lastToken, grants>>
    PROVE  StepMark(g, "dead_letter")
<1> DEFINE new == FailedRow(outbox[g.message], "dead_letter", now, now)
<1>1. outbox[g.message] \in Row
  BY GrantsName DEF TypeOK
<1>2. "dead_letter" \in Status /\ "dead_letter" \in Outcomes
  BY DEF Status, Settled, Outcomes
<1>3. outbox' = [outbox EXCEPT ![g.message] = new]
  BY DEF MarkDeadLetter
<1>4. /\ new \in Row
      /\ new.status = "dead_letter"
      /\ new.lease_token = NoToken
      /\ new.lease_owner = None
      /\ new.attempts = outbox[g.message].attempts + 1
  BY <1>1, <1>2, FailedRowColumns
<1> HIDE DEF new
<1> QED
  BY <1>2, <1>3, <1>4, MarkIsStep DEF MarkDeadLetter

\* mark_outbox_failed retries or dead-letters.
LEMMA MarkFailedIsStep ==
    ASSUME TypeOK, NEW w \in Workers, NEW g \in grants, NEW now \in Nat,
           NEW terminal \in BOOLEAN, NEW backoff \in Nat,
           MarkFailed(w, g, now, terminal, backoff)
    PROVE  StepMark(g, "failed") \/ StepMark(g, "dead_letter")
<1>1. LeaseIsCurrent(w, g, now) /\ UNCHANGED <<lastToken, grants>>
  BY DEF MarkFailed
<1>2. CASE Exhausted(outbox[g.message], terminal)
  BY <1>1, <1>2, MarkDeadLetterIsStep DEF MarkFailed
<1>3. CASE ~Exhausted(outbox[g.message], terminal)
  <2>1. outbox[g.message].attempts \in Nat
    BY GrantsName DEF TypeOK, Row
  <2>2. outbox[g.message].attempts + 1 < MaxAttempts
    BY <1>3, <2>1, BudgetIsPositive DEF Exhausted, BudgetIsPositive
  <2> QED
    BY <1>1, <1>3, <2>2, MarkForRetryIsStep DEF MarkFailed
<1> QED
  BY <1>2, <1>3

\* cleanup_outbox is a StepCleanup of the rows it finds stale.
LEMMA CleanupIsStep ==
    ASSUME TypeOK, NEW d \in Nat, NEW x \in Nat, CleanupOutbox(d, x)
    PROVE  \E S \in SUBSET Messages : StepCleanup(S)
<1> DEFINE stale == {m \in Messages :
                       \/ /\ outbox[m].status = "delivered"
                          /\ outbox[m].updated_at < d
                       \/ /\ outbox[m].status = "dead_letter"
                          /\ outbox[m].updated_at < x}
           gone(m) == [outbox[m] EXCEPT !.status = "deleted"]
<1>1. /\ outbox' = [m \in Messages |-> IF m \in stale THEN gone(m) ELSE outbox[m]]
      /\ UNCHANGED <<lastToken, grants, settled>>
  BY DEF CleanupOutbox
<1>2. \A m \in stale : m \in Messages /\ outbox[m].status \in Settled
  BY DEF Settled
<1> HIDE DEF stale
<1>3. ASSUME NEW m \in stale
      PROVE  /\ gone(m) \in Row
             /\ gone(m).status = "deleted"
             /\ gone(m).attempts = outbox[m].attempts
             /\ gone(m).lease_token = outbox[m].lease_token
             /\ gone(m).lease_owner = outbox[m].lease_owner
  <2>1. outbox[m] \in Row
    BY <1>2 DEF TypeOK
  <2>2. "deleted" \in Status
    BY DEF Status
  <2>3. gone(m) \in Row
    BY <2>1, <2>2 DEF Row
  <2> QED
    BY <2>1, <2>3, RowFields DEF Fields
<1> HIDE DEF gone
<1>4. OnlyRows(stale)
  <2>1. \A m \in Messages : outbox[m] \in Row
    BY DEF TypeOK
  <2> QED
    BY <1>1, <1>3, <2>1 DEF OnlyRows
<1>5. \A m \in stale : outbox'[m] = gone(m)
  BY <1>1, <1>2
<1>6. StepCleanup(stale) /\ stale \in SUBSET Messages
  BY <1>1, <1>2, <1>3, <1>4, <1>5 DEF StepCleanup
<1> QED
  BY <1>6

\* Every step of the store on its own is one of these.
LEMMA StepsOfTheStore ==
    ASSUME TypeOK, [StoreNext]_storeVars
    PROVE  StoreStep
<1> USE DEF StoreStep
<1>1. Instants \subseteq Nat /\ Backoffs \subseteq Nat
  BY TimesAreNaturals DEF TimesAreNaturals
<1>2. ASSUME NEW m \in Messages, NEW now \in Instants, Enqueue(m, now)
      PROVE  StepEnqueue(m)
  BY <1>1, <1>2, EnqueueIsStep
<1>3. ASSUME NEW w \in Workers, NEW now \in Instants, NEW batch \in SUBSET Messages,
             NEW locked \in SUBSET Messages, LeaseBatch(w, now, batch, locked)
      PROVE  StepLease(w, batch, lastToken + 1)
  BY <1>1, <1>3, LeaseIsStep
<1>4. ASSUME NEW w \in Workers, NEW g \in grants, NEW now \in Instants,
             MarkDelivered(w, g, now)
      PROVE  StepMark(g, "delivered")
  BY <1>1, <1>4, MarkDeliveredIsStep
<1>5. ASSUME NEW w \in Workers, NEW g \in grants, NEW now \in Instants,
             NEW terminal \in BOOLEAN, NEW backoff \in Backoffs,
             MarkFailed(w, g, now, terminal, backoff)
      PROVE  StepMark(g, "failed") \/ StepMark(g, "dead_letter")
  BY <1>1, <1>5, MarkFailedIsStep
<1>6. ASSUME NEW d \in Instants, NEW x \in Instants, CleanupOutbox(d, x)
      PROVE  \E S \in SUBSET Messages : StepCleanup(S)
  BY <1>1, <1>6, CleanupIsStep
<1>7. {"delivered", "failed", "dead_letter"} \subseteq Outcomes
  BY DEF Outcomes
<1>8. CASE UNCHANGED storeVars
  BY <1>8
<1>9. CASE StoreNext
  <2>1. CASE \E m \in Messages, now \in Instants : Enqueue(m, now)
    BY <1>2, <2>1
  <2>2. CASE \E w \in Workers, now \in Instants,
                batch \in SUBSET Messages, locked \in SUBSET Messages :
                   LeaseBatch(w, now, batch, locked)
    BY <1>3, <2>2
  <2>3. CASE \E w \in Workers, g \in grants, now \in Instants : MarkDelivered(w, g, now)
    BY <1>4, <1>7, <2>3
  <2>4. CASE \E w \in Workers, g \in grants, now \in Instants,
                terminal \in BOOLEAN, backoff \in Backoffs :
                   MarkFailed(w, g, now, terminal, backoff)
    BY <1>5, <1>7, <2>4
  <2>5. CASE \E d, x \in Instants : CleanupOutbox(d, x)
    BY <1>6, <2>5
  <2> QED
    BY <1>9, <2>1, <2>2, <2>3, <2>4, <2>5 DEF StoreNext
<1> QED
  BY <1>8, <1>9

-----------------------------------------------------------------------------
(* Type correctness.                                                       *)

\* The table starts empty.
LEMMA InitTypeOK ==
    ASSUME StoreInit
    PROVE  TypeOK
<1>1. AbsentRow \in Row
  BY DEF AbsentRow, Row, Status, NoToken
<1> QED
  BY <1>1 DEF StoreInit, TypeOK, NoToken

\* Every operation keeps rows, grants and settlements well-formed.
LEMMA NextTypeOK ==
    ASSUME TypeOK, StoreStep
    PROVE  TypeOK'
<1>1. ASSUME NEW m \in Messages, StepEnqueue(m)
      PROVE  TypeOK'
  BY <1>1 DEF TypeOK, StepEnqueue, OnlyRows
<1>2. ASSUME NEW w \in Workers, NEW batch \in SUBSET Messages,
             StepLease(w, batch, lastToken + 1)
      PROVE  TypeOK'
  BY <1>2 DEF TypeOK, StepLease, OnlyRows
<1>3. ASSUME NEW g \in grants, NEW outcome \in Outcomes, StepMark(g, outcome)
      PROVE  TypeOK'
  <2>1. [message |-> g.message, token |-> g.token, outcome |-> outcome] \in Settlement
    BY GrantsName DEF Settlement
  <2> QED
    BY <1>3, <2>1 DEF TypeOK, StepMark, OnlyRows
<1>4. ASSUME NEW S \in SUBSET Messages, StepCleanup(S)
      PROVE  TypeOK'
  BY <1>4 DEF TypeOK, StepCleanup, OnlyRows
<1>5. CASE UNCHANGED storeVars
  BY <1>5 DEF TypeOK, storeVars
<1> QED
  BY <1>1, <1>2, <1>3, <1>4, <1>5 DEF StoreStep

\* Rows, tokens, grants and settlements have their types whatever instants
\* the callers of the store pass.
THEOREM TypeCorrect == StoreSpec => []TypeOK
<1>1. StoreInit => TypeOK
  BY InitTypeOK
<1>2. TypeOK /\ [StoreNext]_storeVars => TypeOK'
  BY NextTypeOK, StepsOfTheStore
<1> QED
  BY <1>1, <1>2, PTL DEF StoreSpec

-----------------------------------------------------------------------------
(* Fencing.  That a stale lease changes nothing is not inductive: it rests *)
(* on tokens being handed out in increasing order, on the row always       *)
(* carrying the newest token of its message while it is leased, and on     *)
(* that token never having settled the message before.                     *)

TokensAreNumbered ==
    /\ \A g \in grants  : 0 < g.token /\ g.token <= lastToken
    /\ \A s \in settled : s.token <= lastToken

NewestHolds ==
    \A g \in grants :
        outbox[g.message].status = "leased" => g.token <= outbox[g.message].lease_token

HeldIsUnsettled ==
    \A s \in settled :
        outbox[s.message].status = "leased" => s.token < outbox[s.message].lease_token

Fenced ==
    /\ TokensAreNumbered
    /\ NewestHolds
    /\ HeldIsUnsettled
    /\ LeaseColumns
    /\ OneOutcomePerLease
    /\ SettledForGood

\* A settlement names a message.
LEMMA SettlementsName ==
    ASSUME TypeOK, NEW s \in settled
    PROVE  s.message \in Messages /\ s.token \in Nat /\ s.outcome \in Outcomes
  BY DEF TypeOK, Settlement

\* Nothing is leased at first.
LEMMA InitFenced ==
    ASSUME StoreInit
    PROVE  Fenced
  BY DEF StoreInit, Fenced, TokensAreNumbered, NewestHolds, HeldIsUnsettled,
         LeaseColumns, OneOutcomePerLease, SettledForGood, AbsentRow

\* A new message has no lease and no settlement of its own status.
LEMMA EnqueueFenced ==
    ASSUME TypeOK, Fenced, NEW m \in Messages, StepEnqueue(m)
    PROVE  Fenced'
<1>1. UNCHANGED <<lastToken, grants, settled>>
  BY DEF StepEnqueue
<1>2. \A n \in Messages : \/ outbox'[n] = outbox[n]
                          \/ /\ outbox[n].status = "absent"
                             /\ outbox'[n].status = "pending"
                             /\ outbox'[n].lease_token = outbox[n].lease_token
                             /\ outbox'[n].lease_owner = outbox[n].lease_owner
  BY DEF StepEnqueue, OnlyRows
<1>3. TokensAreNumbered' /\ OneOutcomePerLease'
  BY <1>1 DEF Fenced, TokensAreNumbered, OneOutcomePerLease
<1>4. NewestHolds'
  BY <1>1, <1>2, GrantsName DEF Fenced, NewestHolds
<1>5. HeldIsUnsettled'
  BY <1>1, <1>2, SettlementsName DEF Fenced, HeldIsUnsettled
<1>6. LeaseColumns'
  BY <1>1, <1>2 DEF Fenced, LeaseColumns
<1>7. SettledForGood'
  <2>1. ASSUME NEW s \in settled, s.outcome \in Settled
        PROVE  outbox'[s.message].status \in {s.outcome, "deleted"}
    <3>1. outbox[s.message].status \in {s.outcome, "deleted"}
      BY <2>1 DEF Fenced, SettledForGood
    <3>2. outbox[s.message].status # "absent"
      BY <2>1, <3>1 DEF Settled
    <3> QED
      BY <1>2, <3>1, <3>2, SettlementsName
  <2> QED
    BY <1>1, <2>1 DEF Fenced, SettledForGood
<1> QED
  BY <1>3, <1>4, <1>5, <1>6, <1>7 DEF Fenced

\* The token of a new batch is newer than every grant and settlement.
LEMMA LeaseFenced ==
    ASSUME TypeOK, Fenced, NEW w \in Workers, NEW batch \in SUBSET Messages,
           StepLease(w, batch, lastToken + 1)
    PROVE  Fenced'
<1> DEFINE token == lastToken + 1
<1>1. /\ token \in Nat /\ lastToken \in Nat /\ lastToken < token
      /\ StepLease(w, batch, token)
  BY DEF TypeOK
<1>2. token > 0
  BY <1>1
<1> HIDE DEF token
<1>3. \A g \in grants : g.token <= lastToken /\ g.token \in Nat /\ g.message \in Messages
  BY GrantsName DEF Fenced, TokensAreNumbered
<1>4. \A s \in settled : s.token <= lastToken /\ s.token \in Nat /\ s.message \in Messages
  BY SettlementsName DEF Fenced, TokensAreNumbered
<1>5. \A m \in Messages \ batch : outbox'[m] = outbox[m]
  BY <1>1 DEF StepLease, OnlyRows
<1>6. \A m \in batch : outbox'[m].status = "leased" /\ outbox'[m].lease_token = token
  BY <1>1 DEF StepLease
<1>7. \A g \in grants' \ grants : g.message \in batch /\ g.token = token
  BY <1>1 DEF StepLease
<1>8. settled' = settled /\ grants \subseteq grants'
  BY <1>1 DEF StepLease
<1>9. TokensAreNumbered'
  <2>1. lastToken <= lastToken' /\ (batch # {} => lastToken' = token) /\ lastToken' \in Nat
    BY <1>1 DEF StepLease
  <2>2. ASSUME NEW g \in grants' PROVE 0 < g.token /\ g.token <= lastToken'
    <3>1. CASE g \in grants
      BY <1>1, <1>3, <2>1, <3>1 DEF Fenced, TokensAreNumbered
    <3>2. CASE g \notin grants
      BY <1>1, <1>2, <1>7, <2>1, <3>2
    <3> QED
      BY <3>1, <3>2
  <2>3. ASSUME NEW s \in settled' PROVE s.token <= lastToken'
    BY <1>1, <1>4, <1>8, <2>1
  <2> QED
    BY <2>2, <2>3 DEF TokensAreNumbered
<1>10. NewestHolds'
  <2>1. ASSUME NEW g \in grants', outbox'[g.message].status = "leased"
        PROVE  g.token <= outbox'[g.message].lease_token
    <3>1. CASE g \in grants /\ g.message \notin batch
      BY <1>3, <1>5, <2>1, <3>1 DEF Fenced, NewestHolds
    <3>2. CASE g \in grants /\ g.message \in batch
      BY <1>1, <1>3, <1>6, <3>2
    <3>3. CASE g \notin grants
      BY <1>1, <1>6, <1>7, <3>3
    <3> QED
      BY <3>1, <3>2, <3>3
  <2> QED
    BY <2>1 DEF NewestHolds
<1>11. HeldIsUnsettled'
  <2>1. ASSUME NEW s \in settled, outbox'[s.message].status = "leased"
        PROVE  s.token < outbox'[s.message].lease_token
    <3>1. CASE s.message \notin batch
      BY <1>4, <1>5, <2>1, <3>1 DEF Fenced, HeldIsUnsettled
    <3>2. CASE s.message \in batch
      BY <1>1, <1>4, <1>6, <3>2
    <3> QED
      BY <3>1, <3>2
  <2> QED
    BY <1>8, <2>1 DEF HeldIsUnsettled
<1>12. LeaseColumns'
  <2>1. ASSUME NEW m \in batch
        PROVE  [message |-> m, token |-> outbox'[m].lease_token,
                owner |-> outbox'[m].lease_owner, until |-> outbox'[m].leased_until]
                   \in grants'
    BY <1>1 DEF StepLease
  <2> QED
    BY <1>5, <1>6, <1>8, <2>1 DEF Fenced, LeaseColumns
<1>13. OneOutcomePerLease'
  BY <1>8 DEF Fenced, OneOutcomePerLease
<1>14. SettledForGood'
  <2>1. ASSUME NEW s \in settled, s.outcome \in Settled
        PROVE  s.message \notin batch
    <3>1. outbox[s.message].status \in {s.outcome, "deleted"}
      BY <2>1 DEF Fenced, SettledForGood
    <3>2. \A m \in batch : outbox[m].status \in Claimable \union {"leased"}
      BY <1>1 DEF StepLease
    <3> QED
      BY <2>1, <3>1, <3>2 DEF Settled, Claimable
  <2> QED
    BY <1>4, <1>5, <1>7, <1>8, <2>1 DEF Fenced, SettledForGood
<1> QED
  BY <1>9, <1>10, <1>11, <1>12, <1>13, <1>14 DEF Fenced

\* The lease that settles a message is the newest grant of it, and newer
\* than everything that settled it before.
LEMMA MarkSettlesNewest ==
    ASSUME TypeOK, Fenced, NEW g \in grants, NEW outcome \in Outcomes,
           StepMark(g, outcome)
    PROVE  /\ \A h \in grants  : h.message = g.message => h.token <= g.token
           /\ \A s \in settled : s.message = g.message => s.token < g.token
           /\ \A s \in settled : s.message = g.message => s.outcome \notin Settled
<1>1. outbox[g.message].status = "leased" /\ outbox[g.message].lease_token = g.token
  BY DEF StepMark
<1>2. \A h \in grants : h.message = g.message => h.token <= g.token
  BY <1>1 DEF Fenced, NewestHolds
<1>3. \A s \in settled : s.message = g.message => s.token < g.token
  BY <1>1 DEF Fenced, HeldIsUnsettled
<1>4. \A s \in settled : s.message = g.message => s.outcome \notin Settled
  BY <1>1 DEF Fenced, SettledForGood, Settled
<1> QED
  BY <1>2, <1>3, <1>4

\* A mark settles under a token that never settled, and clears the row.
LEMMA MarkFenced ==
    ASSUME TypeOK, Fenced, NEW g \in grants, NEW outcome \in Outcomes,
           StepMark(g, outcome)
    PROVE  Fenced'
<1> DEFINE new == [message |-> g.message, token |-> g.token, outcome |-> outcome]
<1>1. /\ settled' = settled \union {new}
      /\ grants' = grants /\ lastToken' = lastToken
  BY DEF StepMark
<1>2. /\ outbox'[g.message].status = outcome
      /\ outbox'[g.message].lease_token = NoToken
      /\ outbox'[g.message].lease_owner = None
      /\ \A m \in Messages : m # g.message => outbox'[m] = outbox[m]
  BY DEF StepMark, OnlyRows
<1>3. outcome # "leased"
  BY DEF Outcomes
<1>4. /\ \A h \in grants  : h.message = g.message => h.token <= g.token
      /\ \A s \in settled : s.message = g.message => s.token < g.token
      /\ \A s \in settled : s.message = g.message => s.outcome \notin Settled
  BY MarkSettlesNewest
<1>5. g.token \in Nat
  BY GrantsName
<1>6. new.message = g.message /\ new.token = g.token /\ new.outcome = outcome
  OBVIOUS
<1> HIDE DEF new
<1>7. TokensAreNumbered'
  BY <1>1, <1>6 DEF Fenced, TokensAreNumbered
<1>8. NewestHolds'
  BY <1>1, <1>2, <1>3, GrantsName DEF Fenced, NewestHolds
<1>9. HeldIsUnsettled'
  BY <1>1, <1>2, <1>3, <1>6, SettlementsName DEF Fenced, HeldIsUnsettled
<1>10. LeaseColumns'
  BY <1>1, <1>2, <1>3 DEF Fenced, LeaseColumns
<1>11. OneOutcomePerLease'
  <2>1. ASSUME NEW s \in settled', NEW t \in settled',
               s.message = t.message, s.token = t.token
        PROVE  s = t
    <3>1. CASE s \in settled /\ t \in settled
      BY <2>1, <3>1 DEF Fenced, OneOutcomePerLease
    <3>2. CASE s = new \/ t = new
      BY <1>1, <1>4, <1>5, <1>6, <2>1, <3>2
    <3> QED
      BY <1>1, <3>1, <3>2
  <2> QED
    BY <2>1 DEF OneOutcomePerLease
<1>12. SettledForGood'
  <2>1. ASSUME NEW s \in settled', s.outcome \in Settled
        PROVE  /\ \A h \in grants'  : h.message = s.message => h.token <= s.token
               /\ \A t \in settled' : t.message = s.message => t.token <= s.token
               /\ outbox'[s.message].status \in {s.outcome, "deleted"}
    <3>1. CASE s = new
      <4>1. \A t \in settled : t.token \in Nat
        BY SettlementsName
      <4> QED
        BY <1>1, <1>2, <1>4, <1>5, <1>6, <3>1, <4>1
    <3>2. CASE s # new
      <4>1. s \in settled /\ s.message # g.message
        BY <1>1, <1>4, <2>1, <3>2
      <4>2. s.message \in Messages
        BY <4>1, SettlementsName
      <4> QED
        BY <1>1, <1>2, <1>6, <2>1, <4>1, <4>2 DEF Fenced, SettledForGood
    <3> QED
      BY <3>1, <3>2
  <2> QED
    BY <2>1 DEF SettledForGood
<1> QED
  BY <1>7, <1>8, <1>9, <1>10, <1>11, <1>12 DEF Fenced

\* Deleting settled rows leaves every lease and settlement as it was.
LEMMA CleanupFenced ==
    ASSUME TypeOK, Fenced, NEW S \in SUBSET Messages, StepCleanup(S)
    PROVE  Fenced'
<1>1. UNCHANGED <<lastToken, grants, settled>>
  BY DEF StepCleanup
<1>2. \A n \in Messages : \/ outbox'[n] = outbox[n]
                          \/ /\ outbox[n].status \in Settled
                             /\ outbox'[n].status = "deleted"
                             /\ outbox'[n].lease_token = outbox[n].lease_token
                             /\ outbox'[n].lease_owner = outbox[n].lease_owner
  BY DEF StepCleanup, OnlyRows
<1>3. "leased" \notin Settled
  BY DEF Settled
<1>4. TokensAreNumbered' /\ OneOutcomePerLease'
  BY <1>1 DEF Fenced, TokensAreNumbered, OneOutcomePerLease
<1>5. NewestHolds'
  BY <1>1, <1>2, GrantsName DEF Fenced, NewestHolds
<1>6. HeldIsUnsettled'
  BY <1>1, <1>2, SettlementsName DEF Fenced, HeldIsUnsettled
<1>7. LeaseColumns'
  BY <1>1, <1>2, <1>3 DEF Fenced, LeaseColumns
<1>8. SettledForGood'
  BY <1>1, <1>2, SettlementsName DEF Fenced, SettledForGood
<1> QED
  BY <1>4, <1>5, <1>6, <1>7, <1>8 DEF Fenced

\* Fencing survives every step of the store.
LEMMA NextFenced ==
    ASSUME TypeOK, Fenced, StoreStep
    PROVE  Fenced'
<1>1. CASE UNCHANGED storeVars
  BY <1>1 DEF storeVars, Fenced, TokensAreNumbered, NewestHolds, HeldIsUnsettled,
              LeaseColumns, OneOutcomePerLease, SettledForGood
<1> QED
  BY <1>1, EnqueueFenced, LeaseFenced, MarkFenced, CleanupFenced DEF StoreStep

\* The inductive invariant holds in every reachable state.
THEOREM Fencing == StoreSpec => []Fenced
<1>1. StoreInit => Fenced
  BY InitFenced
<1>2. TypeOK /\ Fenced /\ [StoreNext]_storeVars => Fenced'
  BY NextFenced, StepsOfTheStore
<1> QED
  BY <1>1, <1>2, TypeCorrect, PTL DEF StoreSpec

\* No lease settles its message twice, however late or often its holder
\* calls mark_outbox_delivered or mark_outbox_failed.
THEOREM SettlesOnce == StoreSpec => []OneOutcomePerLease
<1>1. Fenced => OneOutcomePerLease
  BY DEF Fenced
<1> QED
  BY <1>1, Fencing, PTL

\* A delivered or dead-lettered message is never leased or settled again.
THEOREM SettlesForGood == StoreSpec => []SettledForGood
<1>1. Fenced => SettledForGood
  BY DEF Fenced
<1> QED
  BY <1>1, Fencing, PTL

\* A row holds lease columns only while it is leased, and then those of a
\* grant that lease_outbox_batch handed out.
THEOREM LeasesAreGranted == StoreSpec => []LeaseColumns
<1>1. Fenced => LeaseColumns
  BY DEF Fenced
<1> QED
  BY <1>1, Fencing, PTL

\* Whatever a step settles, it settles under the newest lease.
LEMMA StepSettlesNewest ==
    ASSUME TypeOK, Fenced, StoreStep
    PROVE  \A s \in settled' \ settled, g \in grants :
              g.message = s.message => g.token <= s.token
<1> DEFINE Settles == \A s \in settled' \ settled, g \in grants :
                        g.message = s.message => g.token <= s.token
<1>1. CASE UNCHANGED settled
  BY <1>1
<1>2. ASSUME NEW g \in grants, NEW outcome \in Outcomes, StepMark(g, outcome)
      PROVE  Settles
  <2>1. settled' \ settled
          \subseteq {[message |-> g.message, token |-> g.token, outcome |-> outcome]}
    BY <1>2 DEF StepMark
  <2> QED
    BY <1>2, <2>1, MarkSettlesNewest
<1> QED
  BY <1>1, <1>2 DEF StoreStep, StepEnqueue, StepLease, StepCleanup, storeVars

\* Only the newest lease of a message ever settles it: validate_lease_transition
\* fences off every holder that was taken over.
THEOREM StaleLeasesAreFenced == StoreSpec => NewestLeaseSettles
<1>1. TypeOK /\ Fenced /\ [StoreNext]_storeVars =>
        [\A s \in settled' \ settled, g \in grants :
            g.message = s.message => g.token <= s.token]_storeVars
  BY StepSettlesNewest, StepsOfTheStore
<1> QED
  BY <1>1, TypeCorrect, Fencing, PTL DEF StoreSpec, NewestLeaseSettles

-----------------------------------------------------------------------------
(* The retry budget.  Rows that are still to be queued have it in full.    *)

Budgeted ==
    \A m \in Messages :
        /\ outbox[m].attempts <= MaxAttempts
        /\ outbox[m].status \in Claimable \union {"leased", "absent"} =>
             outbox[m].attempts < MaxAttempts

\* Only failures cost attempts, and the last one in the budget is not retried.
LEMMA NextBudgeted ==
    ASSUME TypeOK, Budgeted, StoreStep
    PROVE  Budgeted'
<1>1. \A m \in Messages : outbox[m].attempts \in Nat
  BY DEF TypeOK, Row
<1>2. ASSUME NEW m \in Messages, StepEnqueue(m)
      PROVE  Budgeted'
  BY <1>2 DEF Budgeted, StepEnqueue, OnlyRows, Claimable
<1>3. ASSUME NEW w \in Workers, NEW batch \in SUBSET Messages,
             StepLease(w, batch, lastToken + 1)
      PROVE  Budgeted'
  BY <1>3 DEF Budgeted, StepLease, OnlyRows, Claimable
<1>4. ASSUME NEW g \in grants, NEW outcome \in Outcomes, StepMark(g, outcome)
      PROVE  Budgeted'
  <2>1. \A m \in Messages : m # g.message => outbox'[m] = outbox[m]
    BY <1>4 DEF StepMark, OnlyRows
  <2>2. g.message \in Messages /\ outbox[g.message].attempts < MaxAttempts
    BY <1>4, GrantsName DEF Budgeted, StepMark
  <2>3. /\ outbox'[g.message].attempts <= MaxAttempts
        /\ outbox'[g.message].status = "failed" =>
             outbox'[g.message].attempts < MaxAttempts
    BY <1>1, <1>4, <2>2, BudgetIsPositive DEF StepMark, BudgetIsPositive
  <2>4. outbox'[g.message].status \in {"delivered", "failed", "dead_letter"}
    BY <1>4 DEF StepMark, Outcomes
  <2> QED
    BY <2>1, <2>3, <2>4 DEF Budgeted, Claimable
<1>5. ASSUME NEW S \in SUBSET Messages, StepCleanup(S)
      PROVE  Budgeted'
  <2>1. \A m \in Messages : \/ outbox'[m] = outbox[m]
                            \/ /\ outbox'[m].status = "deleted"
                               /\ outbox'[m].attempts = outbox[m].attempts
    BY <1>5 DEF StepCleanup, OnlyRows
  <2> QED
    BY <2>1 DEF Budgeted, Claimable
<1>6. CASE UNCHANGED storeVars
  BY <1>6 DEF Budgeted, storeVars
<1> QED
  BY <1>2, <1>3, <1>4, <1>5, <1>6 DEF StoreStep

\* A row that may still be leased has an attempt left, and no row ever has
\* more attempts than max_attempts.
THEOREM BudgetIsKept == StoreSpec => []BudgetLeft
<1>1. StoreInit => Budgeted
  BY BudgetIsPositive DEF BudgetIsPositive, StoreInit, AbsentRow, Budgeted
<1>2. TypeOK /\ Budgeted /\ [StoreNext]_storeVars => Budgeted'
  BY NextBudgeted, StepsOfTheStore
<1>3. Budgeted => BudgetLeft
  BY DEF Budgeted, BudgetLeft
<1> QED
  BY <1>1, <1>2, <1>3, TypeCorrect, PTL DEF StoreSpec

-----------------------------------------------------------------------------
(* Attempts count the failures that were recorded.  The set of settlements *)
(* has to be finite for its failures to have a number.                     *)

Failures(m) == {s \in settled : s.message = m /\ s.outcome # "delivered"}

FailuresCounted == IsFiniteSet(settled) /\ AttemptsCountFailures

\* No failure has been recorded at first.
LEMMA InitCounted ==
    ASSUME StoreInit
    PROVE  FailuresCounted
<1>1. settled = {} /\ \A m \in Messages : outbox[m].attempts = 0
  BY DEF StoreInit, AbsentRow
<1>2. \A m \in Messages :
        {s \in settled : s.message = m /\ s.outcome # "delivered"} = {}
  BY <1>1
<1> QED
  BY <1>1, <1>2, FS_EmptySet DEF FailuresCounted, AttemptsCountFailures

\* The settlement that a mark records is a new one, and a failure of its
\* message if it is one at all.
LEMMA MarkCounted ==
    ASSUME TypeOK, Fenced, FailuresCounted,
           NEW g \in grants, NEW outcome \in Outcomes, StepMark(g, outcome)
    PROVE  FailuresCounted'
<1> DEFINE new == [message |-> g.message, token |-> g.token, outcome |-> outcome]
<1>1. settled' = settled \union {new}
  BY DEF StepMark
<1>2. new \notin settled
  <2>1. \A s \in settled : s.message = g.message => s.token < g.token
    BY MarkSettlesNewest
  <2>2. new.message = g.message /\ new.token = g.token /\ g.token \in Nat
    BY GrantsName
  <2> QED
    BY <2>1, <2>2
<1>3. new.message = g.message /\ new.outcome = outcome
  OBVIOUS
<1> HIDE DEF new
<1>4. IsFiniteSet(settled) /\ IsFiniteSet(settled')
  BY <1>1, FS_AddElement DEF FailuresCounted
<1>5. \A m \in Messages : outbox[m].attempts = Cardinality(Failures(m))
  BY DEF FailuresCounted, AttemptsCountFailures, Failures
<1>6. \A m \in Messages : m # g.message => outbox'[m] = outbox[m]
  BY DEF StepMark, OnlyRows
<1>7. ASSUME NEW m \in Messages
      PROVE  outbox'[m].attempts = Cardinality(Failures(m)')
  <2>1. CASE m # g.message \/ outcome = "delivered"
    <3>1. Failures(m)' = Failures(m)
      BY <1>1, <1>3, <2>1 DEF Failures
    <3>2. outbox[m].attempts \in Nat
      BY DEF TypeOK, Row
    <3>3. outbox'[m].attempts = outbox[m].attempts
      BY <1>6, <2>1, <3>2 DEF StepMark
    <3> QED
      BY <1>5, <3>1, <3>3
  <2>2. CASE m = g.message /\ outcome # "delivered"
    <3>1. Failures(m)' = Failures(m) \union {new}
      BY <1>1, <1>3, <2>2 DEF Failures
    <3>2. IsFiniteSet(Failures(m)) /\ new \notin Failures(m)
      BY <1>2, <1>4, FS_Subset DEF Failures
    <3>3. Cardinality(Failures(m) \union {new}) = Cardinality(Failures(m)) + 1
      BY <3>2, FS_AddElement
    <3>4. outbox'[m].attempts = outbox[m].attempts + 1
      BY <2>2 DEF StepMark
    <3> QED
      BY <1>5, <3>1, <3>3, <3>4
  <2> QED
    BY <2>1, <2>2
<1> QED
  BY <1>4, <1>7 DEF FailuresCounted, AttemptsCountFailures, Failures

\* Only a mark records a failure, and nothing else changes an attempt.
LEMMA NextCounted ==
    ASSUME TypeOK, Fenced, FailuresCounted, StoreStep
    PROVE  FailuresCounted'
<1>1. ASSUME settled' = settled,
             \A m \in Messages : outbox'[m].attempts = outbox[m].attempts
      PROVE  FailuresCounted'
  BY <1>1 DEF FailuresCounted, AttemptsCountFailures
<1>2. ASSUME NEW m \in Messages, StepEnqueue(m)
      PROVE  FailuresCounted'
  BY <1>1, <1>2 DEF StepEnqueue, OnlyRows
<1>3. ASSUME NEW w \in Workers, NEW batch \in SUBSET Messages,
             StepLease(w, batch, lastToken + 1)
      PROVE  FailuresCounted'
  BY <1>1, <1>3 DEF StepLease, OnlyRows
<1>4. ASSUME NEW S \in SUBSET Messages, StepCleanup(S)
      PROVE  FailuresCounted'
  BY <1>1, <1>4 DEF StepCleanup, OnlyRows
<1>5. CASE UNCHANGED storeVars
  BY <1>1, <1>5 DEF storeVars
<1> QED
  BY <1>2, <1>3, <1>4, <1>5, MarkCounted DEF StoreStep

\* attempts is the number of failures that were recorded of a message, so
\* that max_attempts bounds those and neither leases nor deliveries.
THEOREM FailuresAreCounted == StoreSpec => []AttemptsCountFailures
<1>1. StoreInit => FailuresCounted
  BY InitCounted
<1>2. TypeOK /\ Fenced /\ FailuresCounted /\ [StoreNext]_storeVars => FailuresCounted'
  BY NextCounted, StepsOfTheStore
<1>3. FailuresCounted => AttemptsCountFailures
  BY DEF FailuresCounted
<1> QED
  BY <1>1, <1>2, <1>3, TypeCorrect, Fencing, PTL DEF StoreSpec

-----------------------------------------------------------------------------
(* outbox.rs implements OutboxPromise.                                     *)

\* The stage of each status.
LEMMA StagesOfStatuses ==
    /\ Stage("absent") = "new" /\ Stage("leased") = "held"
    /\ Stage("pending") = "queued" /\ Stage("failed") = "queued"
    /\ Stage("delivered") = "delivered" /\ Stage("dead_letter") = "dead_letter"
    /\ Stage("deleted") = "purged"
  BY DEF Stage, Claimable, Settled

\* The empty table maps to the initial state of the promise.
LEMMA InitPromise ==
    ASSUME StoreInit
    PROVE  Promise!Init
  BY StagesOfStatuses DEF StoreInit, AbsentRow, Promise!Init, NoToken

\* Inserting a row queues its message.
LEMMA EnqueuePromise ==
    ASSUME TypeOK, NEW m \in Messages, StepEnqueue(m)
    PROVE  Promise!Queue(m)
<1>1. \A n \in Messages : n # m => outbox'[n] = outbox[n]
  BY DEF StepEnqueue, OnlyRows
<1>2. /\ Stage(outbox[m].status) = "new"
      /\ Stage(outbox'[m].status) = "queued"
      /\ outbox'[m].attempts = outbox[m].attempts
      /\ outbox'[m].lease_token = outbox[m].lease_token
      /\ lastToken' = lastToken
  BY StagesOfStatuses DEF StepEnqueue
<1> QED
  BY <1>1, <1>2 DEF Promise!Queue

\* Leasing a batch claims its messages under the next claim.
LEMMA LeasePromise ==
    ASSUME TypeOK, NEW w \in Workers, NEW batch \in SUBSET Messages, batch # {},
           StepLease(w, batch, lastToken + 1)
    PROVE  Promise!Claim(batch)
<1>1. \A n \in Messages \ batch : outbox'[n] = outbox[n]
  BY DEF StepLease, OnlyRows
<1>2. ASSUME NEW m \in batch
      PROVE  /\ Stage(outbox[m].status) \in {"queued", "held"}
             /\ Stage(outbox'[m].status) = "held"
             /\ outbox'[m].attempts = outbox[m].attempts
             /\ outbox'[m].lease_token = lastToken + 1
  BY StagesOfStatuses DEF StepLease, Claimable
<1>3. lastToken' = lastToken + 1
  BY DEF StepLease
<1> QED
  BY <1>1, <1>2, <1>3 DEF Promise!Claim

\* A mark delivers, retries within the budget, or buries.
LEMMA MarkPromise ==
    ASSUME TypeOK, NEW g \in grants, NEW outcome \in Outcomes, StepMark(g, outcome)
    PROVE  LET m == g.message
           IN  Promise!Deliver(m) \/ Promise!Retry(m) \/ Promise!Bury(m)
<1> DEFINE m == g.message
<1>1. m \in Messages
  BY GrantsName
<1>2. \A n \in Messages : n # m => outbox'[n] = outbox[n]
  BY DEF StepMark, OnlyRows
<1>3. /\ Stage(outbox[m].status) = "held"
      /\ outbox'[m].status = outcome
      /\ outbox'[m].lease_token = 0
      /\ outbox'[m].attempts = outbox[m].attempts
                                  + (IF outcome = "delivered" THEN 0 ELSE 1)
      /\ outcome = "failed" => outbox[m].attempts + 1 < MaxAttempts
      /\ lastToken' = lastToken
  BY StagesOfStatuses DEF StepMark, NoToken
<1>4. outbox[m].attempts \in Nat
  BY <1>1 DEF TypeOK, Row
<1> HIDE DEF m
<1>5. CASE outcome = "delivered"
  <2>1. Stage(outbox'[m].status) = "delivered" /\ outbox'[m].attempts = outbox[m].attempts
    BY <1>3, <1>4, <1>5, StagesOfStatuses
  <2>2. Promise!Deliver(m)
    BY <1>1, <1>2, <1>3, <2>1 DEF Promise!Deliver, Promise!Settle
  <2> QED
    BY <2>2 DEF m
<1>6. CASE outcome = "failed"
  <2>1. Stage(outbox'[m].status) = "queued" /\ outbox'[m].attempts = outbox[m].attempts + 1
    BY <1>3, <1>6, StagesOfStatuses
  <2>2. Promise!Retry(m)
    BY <1>1, <1>2, <1>3, <1>6, <2>1 DEF Promise!Retry, Promise!Fail, Promise!Settle
  <2> QED
    BY <2>2 DEF m
<1>7. CASE outcome = "dead_letter"
  <2>1. /\ Stage(outbox'[m].status) = "dead_letter"
        /\ outbox'[m].attempts = outbox[m].attempts + 1
    BY <1>3, <1>7, StagesOfStatuses
  <2>2. Promise!Bury(m)
    BY <1>1, <1>2, <1>3, <2>1 DEF Promise!Bury, Promise!Fail, Promise!Settle
  <2> QED
    BY <2>2 DEF m
<1> QED
  BY <1>5, <1>6, <1>7 DEF Outcomes

\* Deleting rows purges their messages.
LEMMA CleanupPromise ==
    ASSUME TypeOK, NEW S \in SUBSET Messages, StepCleanup(S)
    PROVE  Promise!Purge(S)
<1>1. \A n \in Messages \ S : outbox'[n] = outbox[n]
  BY DEF StepCleanup, OnlyRows
<1>2. ASSUME NEW m \in S
      PROVE  /\ Stage(outbox[m].status) \in {"delivered", "dead_letter"}
             /\ Stage(outbox'[m].status) = "purged"
             /\ outbox'[m].attempts = outbox[m].attempts
             /\ outbox'[m].lease_token = outbox[m].lease_token
  BY StagesOfStatuses DEF StepCleanup, Settled
<1>3. lastToken' = lastToken
  BY DEF StepCleanup
<1> QED
  BY <1>1, <1>2, <1>3 DEF Promise!Purge

\* A step of the store is a step of the promise or changes none of it.
LEMMA NextPromise ==
    ASSUME TypeOK, StoreStep
    PROVE  [Promise!Next]_(Promise!vars)
<1>1. ASSUME NEW m \in Messages, StepEnqueue(m)
      PROVE  Promise!Next
  BY <1>1, EnqueuePromise DEF Promise!Next
<1>2. ASSUME NEW w \in Workers, NEW batch \in SUBSET Messages,
             StepLease(w, batch, lastToken + 1)
      PROVE  [Promise!Next]_(Promise!vars)
  <2>1. CASE batch = {}
    <3>1. \A m \in Messages : outbox'[m] = outbox[m]
      BY <1>2, <2>1 DEF StepLease, OnlyRows
    <3>2. lastToken' = lastToken
      BY <1>2, <2>1 DEF StepLease
    <3> QED
      BY <3>1, <3>2 DEF Promise!vars
  <2>2. CASE batch # {}
    BY <1>2, <2>2, LeasePromise DEF Promise!Next
  <2> QED
    BY <2>1, <2>2
<1>3. ASSUME NEW g \in grants, NEW outcome \in Outcomes, StepMark(g, outcome)
      PROVE  Promise!Next
  BY <1>3, MarkPromise, GrantsName DEF Promise!Next
<1>4. ASSUME NEW S \in SUBSET Messages, StepCleanup(S)
      PROVE  Promise!Next
  BY <1>4, CleanupPromise DEF Promise!Next
<1>5. CASE UNCHANGED storeVars
  BY <1>5 DEF storeVars, Promise!vars
<1> QED
  BY <1>1, <1>2, <1>3, <1>4, <1>5 DEF StoreStep

\* The store keeps the promise of OutboxPromise, whatever instants its
\* callers pass and however their calls interleave.
THEOREM StoreKeepsPromise == StoreSpec => KeepsPromise
<1>1. StoreInit => Promise!Init
  BY InitPromise
<1>2. TypeOK /\ [StoreNext]_storeVars => [Promise!Next]_(Promise!vars)
  BY NextPromise, StepsOfTheStore
<1> QED
  BY <1>1, <1>2, TypeCorrect, PTL DEF StoreSpec, KeepsPromise, Promise!Spec

=============================================================================
