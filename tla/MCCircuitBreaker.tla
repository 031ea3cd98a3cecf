-------------------------- MODULE MCCircuitBreaker --------------------------
(* Instances of CircuitBreaker for TLC: see MCBreaker.cfg. *)
EXTENDS CircuitBreaker
=============================================================================
