------------------------- MODULE MCAssemblyRequests -------------------------
(* Instances of AssemblyRequests for TLC. *)
EXTENDS AssemblyRequests

CONSTANTS a, b

MCAttempts == [r \in Requests |-> IF r = a THEN 2 ELSE 1]
=============================================================================
