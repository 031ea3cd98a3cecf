------------------------------- MODULE Tallies -------------------------------
(***************************************************************************)
(* The total of a function into the naturals, as the number of the units   *)
(* it counts: the laws of finite sets then say how a total changes.        *)
(***************************************************************************)
EXTENDS Integers, FiniteSets

UnitsIn(f) == UNION {{x} \X (1..f[x]) : x \in DOMAIN f}
Total(f)   == Cardinality(UnitsIn(f))
=============================================================================
