-------------------------- MODULE MCCircuitBreaker --------------------------
(***************************************************************************)
(* CircuitBreaker for TLC: three concurrent calls and enough failures for  *)
(* the breaker to open twice.                                              *)
(***************************************************************************)
EXTENDS CircuitBreaker

CONSTANTS c1, c2, c3

ThreeCalls == {c1, c2, c3}

=============================================================================
