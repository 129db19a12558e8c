--------------------------- MODULE OutboxPromise ---------------------------
(***************************************************************************)
(* What the outbox promises about its messages, without clocks, owners or  *)
(* SQL: a message is queued once, claimed under ever newer claims, and     *)
(* settled by the newest claim alone; it is retried while its budget       *)
(* lasts, and delivered or dead-lettered at most once, for good.           *)
(***************************************************************************)
EXTENDS Naturals

CONSTANTS Messages, Budget

VARIABLES
    stage,     \* where each message is
    claim,     \* the claim that holds it, 0 when none does
    newest,    \* the newest claim handed out
    failures   \* attempts spent on each message

vars == <<stage, claim, newest, failures>>

Init ==
    /\ stage    = [m \in Messages |-> "new"]
    /\ claim    = [m \in Messages |-> 0]
    /\ newest   = 0
    /\ failures = [m \in Messages |-> 0]

Queue(m) ==
    /\ stage[m] = "new"
    /\ stage' = [stage EXCEPT ![m] = "queued"]
    /\ UNCHANGED <<claim, newest, failures>>

\* A claim may take over messages an older claim still holds.
Claim(S) ==
    /\ \A m \in S : stage[m] \in {"queued", "held"}
    /\ newest' = newest + 1
    /\ stage'  = [m \in Messages |-> IF m \in S THEN "held" ELSE stage[m]]
    /\ claim'  = [m \in Messages |-> IF m \in S THEN newest' ELSE claim[m]]
    /\ UNCHANGED failures

\* The holder gives the message up, to the stage s.
Settle(m, s) ==
    /\ stage[m] = "held"
    /\ stage' = [stage EXCEPT ![m] = s]
    /\ claim' = [claim EXCEPT ![m] = 0]
    /\ UNCHANGED newest

Deliver(m) == Settle(m, "delivered") /\ UNCHANGED failures

Fail(m, s) ==
    /\ Settle(m, s)
    /\ failures' = [failures EXCEPT ![m] = @ + 1]

Retry(m) == failures[m] + 1 < Budget /\ Fail(m, "queued")

Bury(m) == Fail(m, "dead_letter")

Purge(S) ==
    /\ \A m \in S : stage[m] \in {"delivered", "dead_letter"}
    /\ stage' = [m \in Messages |-> IF m \in S THEN "purged" ELSE stage[m]]
    /\ UNCHANGED <<claim, newest, failures>>

Next ==
    \/ \E m \in Messages : Queue(m) \/ Deliver(m) \/ Retry(m) \/ Bury(m)
    \/ \E S \in SUBSET Messages : Claim(S) \/ Purge(S)

Spec == Init /\ [][Next]_vars

=============================================================================
