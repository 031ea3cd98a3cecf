------------------------------- MODULE Haulage -------------------------------
(***************************************************************************)
(* What a stock transfer promises to whoever counts the goods: a load is   *)
(* at home, on the road or there.  Portions of it land while it is on the  *)
(* road, never more than the load; it is there when all of it has landed;  *)
(* recalled, it is at home again and nothing of it is left there.          *)
(***************************************************************************)
EXTENDS Integers

CONSTANTS Loads, Goods, MaxUnits

VARIABLES load, place, landed

vars == <<load, place, landed>>

Nothing == [g \in Goods |-> 0]
Units   == [Goods -> 0..MaxUnits]

Init ==
    /\ load = [l \in Loads |-> Nothing]
    /\ place = [l \in Loads |-> "home"]
    /\ landed = [l \in Loads |-> Nothing]

Pack(l, units) ==
    /\ place[l] = "home"
    /\ load' = [load EXCEPT ![l] = units]
    /\ UNCHANGED <<place, landed>>

Depart(l) ==
    /\ place[l] = "home"
    /\ load[l] # Nothing
    /\ place' = [place EXCEPT ![l] = "road"]
    /\ UNCHANGED <<load, landed>>

\* More of the load lands; it is there when, and only when, all of it has.
Land(l, units) ==
    /\ place[l] = "road"
    /\ \A g \in Goods : units[g] \in landed[l][g]..load[l][g]
    /\ landed' = [landed EXCEPT ![l] = units]
    /\ place' = [place EXCEPT ![l] = IF units = load[l] THEN "there" ELSE "road"]
    /\ UNCHANGED load

Recall(l) ==
    /\ place[l] \in {"road", "there"}
    /\ place' = [place EXCEPT ![l] = "home"]
    /\ landed' = [landed EXCEPT ![l] = Nothing]
    /\ UNCHANGED load

Next ==
    \E l \in Loads :
        \/ \E units \in Units : Pack(l, units) \/ Land(l, units)
        \/ Depart(l)
        \/ Recall(l)

Spec == Init /\ [][Next]_vars
=============================================================================
