----------------------------- MODULE MCApiSession -----------------------------
(* Instances of ApiSession for TLC: the pages one or two tabs have open. *)
EXTENDS ApiSession

CONSTANTS t1, t2, c1, c2, u1

OneTab == [c \in Calls |-> t1]

\* The second tab makes one call of its own.
TwoTabs == [c \in Calls |-> IF c = c2 THEN t2 ELSE t1]
=============================================================================
