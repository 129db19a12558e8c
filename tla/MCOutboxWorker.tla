--------------------------- MODULE MCOutboxWorker ---------------------------
(***************************************************************************)
(* OutboxWorker for TLC: two workers on two messages.                      *)
(***************************************************************************)
EXTENDS OutboxWorker, TLC

CONSTANTS w1, w2

MCMessages == {1, 2}
OneMessage == {1}
MCWorkers  == {w1, w2}
OneWorker  == {w1}
MCBackoffs == {1}
\* Instants is the range of the store on its own; workers read their clocks.
MCInstants == {}

Synchronised == [w \in MCWorkers |-> 0]
OneClock     == [w \in OneWorker |-> 0]

AllAnswers   == Answer
FitAnswers   == Answer \ {"verbose"}
OnlyRefused  == {"refused"}
BatchAnswers == {"ok", "lost", "rejected"}

WorkerSymmetry == Permutations(MCWorkers)

=============================================================================
