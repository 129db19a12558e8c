-------------------------- MODULE MCPartitionLease --------------------------
(***************************************************************************)
(* PartitionLease for TLC: two workers over two or three workspaces, in    *)
(* the default window of every worker: all of them.  The clocks of the two *)
(* hosts agree, or the first is one ahead.                                 *)
(***************************************************************************)
EXTENDS PartitionLease

CONSTANTS w1, w2

MCWorkers    == {w1, w2}
TwoSpaces    == {1, 2}
ThreeSpaces  == {1, 2, 3}
NoSkew       == [w \in MCWorkers |-> 0]
FirstIsAhead == [w \in MCWorkers |-> IF w = w1 THEN 1 ELSE 0]
FullWindow   == [w \in MCWorkers |-> Workspaces]

=============================================================================
