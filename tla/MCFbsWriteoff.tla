---------------------------- MODULE MCFbsWriteoff ----------------------------
(* Instances of FbsWriteoff for TLC. *)
EXTENDS FbsWriteoff

CONSTANTS s1, s2

\* The second order is of another product than the first and the third.
MCSKUOf == [o \in Orders |-> IF o = 2 THEN s2 ELSE s1]

\* Stock for every order.
MCOpening == [s \in SKUs |-> IF s = s1 THEN 2 ELSE 1]

\* Stock for the oldest order only.
MCOpeningOld == [s \in SKUs |-> IF s = s1 THEN 2 ELSE 0]
=============================================================================
