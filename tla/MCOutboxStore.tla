--------------------------- MODULE MCOutboxStore ---------------------------
(***************************************************************************)
(* OutboxStore for TLC: two messages, two workers that share neither a     *)
(* clock nor a batch, and enough leases that a message can be leased,      *)
(* taken over after expiry, failed and settled late by a former holder.    *)
(***************************************************************************)
EXTENDS OutboxStore, TLC

CONSTANTS w1, w2

MCMessages == {1, 2}
MCWorkers  == {w1, w2}
MCInstants == {0, 2}
MCBackoffs == {1}

\* Workers are interchangeable: they occur only as lease owners.
WorkerSymmetry == Permutations(MCWorkers)

=============================================================================
