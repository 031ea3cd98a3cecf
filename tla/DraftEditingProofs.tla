-------------------------- MODULE DraftEditingProofs --------------------------
(***************************************************************************)
(* What holds of a draft for every number of SKUs, tabs, pages that        *)
(* synchronise, boxes and clicks.  The types and the promise need the      *)
(* server's transactions not to overlap (Windows = {}); the plan of a      *)
(* person is safe from synchronisations in any case; and what a person     *)
(* took out stays out if there is one tab.                                 *)
(***************************************************************************)
EXTENDS DraftEditing, TLAPS

FlightType == [at : {"none", "get", "put"}, edit : Edits, owner : {"none", "removal", "sync"}]

RemovalType == [at : {"idle", "flush", "own", "post", "read", "put"}, sku : Skus \cup {"none"},
                plan : Plans, hand : SUBSET Skus, quiet : BOOLEAN]

SyncType == [at : {"idle", "flush", "own", "get", "put", "unmark"}, sku : Skus \cup {"none"},
             plan : Plans, hand : SUBSET Skus]

ServerShape ==
    /\ plan \in Plans /\ manual \subseteq Skus
    /\ moving \in [Skus -> Nat] /\ reserve \in [Skus -> Nat] /\ claim \in [Skus -> Nat]
    /\ fresh \subseteq Clients \X {"flight", "removal", "sync"}

ScreenShape == rows \in [Tabs -> Plans] /\ hand \in [Tabs -> SUBSET Skus]

SavingShape ==
    /\ pending \in [Tabs -> Edits] /\ timer \in [Tabs -> BOOLEAN]
    /\ retry \in [Tabs -> 0..MaxRetry] /\ clicked \in [Tabs -> BOOLEAN]

\* Who awaits a save is the one it belongs to.
TaskShape ==
    /\ flight \in [Tabs -> FlightType] /\ removal \in [Tabs -> RemovalType]
    /\ sync \in [Clients -> SyncType]
    /\ \A t \in Tabs :
          /\ flight[t].at = "none" => flight[t].owner = "none"
          /\ removal[t].at # "idle" => removal[t].sku \in Skus
          /\ removal[t].at = "own" <=> flight[t].owner = "removal"
          /\ sync[t].at = "own" <=> flight[t].owner = "sync"

BoundShape == removed \subseteq Skus /\ clicks \in 0..MaxClicks /\ syncs \in 0..MaxSyncs

Shape == ServerShape /\ ScreenShape /\ SavingShape /\ TaskShape /\ BoundShape

-----------------------------------------------------------------------------
(* Plans *)

LEMMA LessBounds ==
    ASSUME NEW a \in Nat, NEW b \in Nat
    PROVE  Less(a, b) \in Nat /\ Less(a, b) <= a /\ Less(a, b) <= b
  BY DEF Less

LEMMA MinusBounds ==
    ASSUME NEW a \in Nat, NEW b \in Nat
    PROVE  /\ Minus(a, b) \in Nat /\ Minus(a, b) <= a
           /\ b <= a => Minus(a, b) = a - b
           /\ a <= b => Minus(a, b) = 0
  BY DEF Minus

\* What the server stores of a plan is a plan, cut to what the centre has left.
LEMMA StoredFits ==
    ASSUME ServerShape, NEW p \in Plans, NEW hands
    PROVE  /\ Stored(p, hands) \in Plans
           /\ \A s \in Skus : Stored(p, hands)[s] <= Minus(Stock, moving[s] + reserve[s])
<1> USE StockAssumption
<1>1. ASSUME NEW s \in Skus
      PROVE  /\ Clamp(s, NewGrowth(s, p[s], hands)) \in 0..Stock
             /\ Clamp(s, NewGrowth(s, p[s], hands)) <= Cap(s)
  <2>1. p[s] \in Nat /\ p[s] <= Stock /\ plan[s] \in Nat /\ moving[s] \in Nat /\ reserve[s] \in Nat
        /\ moving[s] + reserve[s] \in Nat
    <3>1. p[s] \in 0..Stock /\ plan[s] \in 0..Stock /\ moving[s] \in Nat /\ reserve[s] \in Nat
      BY DEF ServerShape, Plans
    <3> QED
      BY <3>1
  <2>2. Minus(p[s], plan[s]) \in Nat /\ Minus(p[s], plan[s]) <= p[s]
    BY <2>1, MinusBounds
  <2>3. Less(moving[s], Minus(p[s], plan[s])) \in Nat /\ Less(moving[s], Minus(p[s], plan[s])) <= p[s]
    <3>1. /\ Less(moving[s], Minus(p[s], plan[s])) \in Nat
          /\ Less(moving[s], Minus(p[s], plan[s])) <= Minus(p[s], plan[s])
      BY <2>1, <2>2, LessBounds
    <3> QED
      BY <2>1, <2>2, <3>1
  <2>4. NewGrowth(s, p[s], hands) \in Nat /\ NewGrowth(s, p[s], hands) <= Stock
    BY <2>1, <2>3 DEF NewGrowth
  <2>5. Cap(s) \in Nat
    BY <2>1, MinusBounds DEF Cap
  <2>6. Clamp(s, NewGrowth(s, p[s], hands)) \in Nat
        /\ Clamp(s, NewGrowth(s, p[s], hands)) <= NewGrowth(s, p[s], hands)
        /\ Clamp(s, NewGrowth(s, p[s], hands)) <= Cap(s)
    BY <2>4, <2>5, LessBounds DEF Clamp
  <2> QED
    BY <2>4, <2>6
<1> QED
  BY <1>1 DEF Stored, Plans, Cap

LEMMA ZeroIsPlan == Zero \in Plans
  BY StockAssumption DEF Zero, Plans

LEMMA WithoutIsPlan ==
    ASSUME NEW p \in Plans, NEW s
    PROVE  Without(p, s) \in Plans
<1>1. 0 \in 0..Stock
  BY StockAssumption
<1>2. \A S : p \in [Skus -> S] /\ 0 \in S => [p EXCEPT ![s] = 0] \in [Skus -> S]
  OBVIOUS
<1> QED
  BY <1>1, <1>2 DEF Without, Plans

LEMMA NullTypes ==
    /\ NoEdit \in Edits
    /\ NoFlight \in FlightType /\ NoRemoval \in RemovalType /\ NoSync \in SyncType
  BY ZeroIsPlan DEF NoEdit, Edits, NoFlight, FlightType, NoRemoval, RemovalType, NoSync, SyncType

LEMMA StrippedIsEdit ==
    ASSUME NEW e \in Edits, NEW s \in Skus
    PROVE  Stripped(e, s) \in Edits
  BY WithoutIsPlan DEF Stripped, Edit, Edits

-----------------------------------------------------------------------------
(* The server *)

\* A write that is taken: what is stored fits, and those who have read the
\* content before it are still current only if it is the same.
LEMMA PutStores ==
    ASSUME ServerShape, NEW holder, NEW p \in Plans, NEW hands \in SUBSET Skus, Put(holder, p, hands)
    PROVE  /\ plan' = Stored(p, hands) /\ manual' = hands
           /\ plan' \in Plans /\ manual' \subseteq Skus
           /\ holder \in fresh /\ fresh' \subseteq fresh \ {holder}
           /\ fresh' # {} => plan' = plan /\ manual' = manual
  BY StoredFits DEF Put, Written, VersionHolds

LEMMA BrokenStores ==
    ASSUME ServerShape, NEW holder, NEW p \in Plans, NEW hands \in SUBSET Skus, Broken(holder, p, hands)
    PROVE  /\ plan' \in Plans /\ manual' \subseteq Skus /\ fresh' \subseteq fresh \ {holder}
           /\ fresh' # {} => plan' = plan /\ manual' = manual
           /\ plan' = plan \/ plan' = Stored(p, hands)
<1>1. CASE Put(holder, p, hands)
  BY <1>1, PutStores
<1>2. CASE GivesUp(holder)
  BY <1>2 DEF GivesUp, ServerShape
<1> QED
  BY <1>1, <1>2 DEF Broken

-----------------------------------------------------------------------------
(* The save *)

\* The operation that awaits a save goes on when it lands.
LEMMA LandTyped ==
    ASSUME Shape, NEW t \in Tabs, NEW edit \in Edits, NEW timing \in BOOLEAN, Land(t, edit, timing)
    PROVE  /\ pending' \in [Tabs -> Edits] /\ timer' \in [Tabs -> BOOLEAN]
           /\ clicked' \in [Tabs -> BOOLEAN] /\ TaskShape'
           /\ \A c \in Clients : sync'[c] = sync[c] \/ sync'[c].at \in {"idle", "get"}
           /\ \A s \in Tabs : removal'[s] = removal[s] \/ removal'[s].at = "post"
<1> DEFINE again == edit.is /\ ~timing
           owner == flight[t].owner
           rest == IF again THEN NoEdit ELSE edit
<1>1. rest \in Edits /\ t \in Clients /\ flight[t] \in FlightType /\ removal[t] \in RemovalType /\ sync[t] \in SyncType
  BY NullTypes DEF Clients, Shape, TaskShape
<1>2. Flight(edit, "none") \in FlightType /\ Flight(edit, "none").owner = "none" /\ Flight(edit, "none").at = "get"
  BY DEF Flight, FlightType
<1>3. NoFlight.owner = "none" /\ NoSync.at = "idle"
  BY DEF NoFlight, NoSync
<1>4. owner = "removal" => removal[t].sku \in Skus
  BY DEF Shape, TaskShape
<1>5. pending' \in [Tabs -> Edits]
  <2>1. pending' = [pending EXCEPT ![t] = IF owner = "removal" THEN Stripped(rest, removal[t].sku) ELSE rest]
    BY DEF Land
  <2>2. (IF owner = "removal" THEN Stripped(rest, removal[t].sku) ELSE rest) \in Edits
    BY <1>1, <1>4, StrippedIsEdit
  <2> HIDE DEF rest, owner
  <2> QED
    BY <2>1, <2>2 DEF Shape, SavingShape
<1>6. timer' \in [Tabs -> BOOLEAN] /\ clicked' \in [Tabs -> BOOLEAN]
  BY DEF Land, Shape, SavingShape
<1>7. flight' \in [Tabs -> FlightType] /\ flight'[t].owner = "none"
      /\ \A s \in Tabs \ {t} : flight'[s] = flight[s]
  <2>1. \E f \in {Flight(edit, "none"), NoFlight} : flight' = [flight EXCEPT ![t] = f]
    BY DEF Land
  <2> QED
    BY <1>2, <1>3, <2>1, NullTypes DEF Shape, TaskShape
<1>8. /\ removal' \in [Tabs -> RemovalType]
      /\ \A s \in Tabs \ {t} : removal'[s] = removal[s]
      /\ removal'[t].sku = removal[t].sku
      /\ removal'[t].at = IF owner = "removal" THEN "post" ELSE removal[t].at
      /\ owner # "removal" => removal'[t] = removal[t]
  <2>1. CASE owner = "removal"
    <3>1. removal' = [removal EXCEPT ![t].at = "post"]
      BY <2>1 DEF Land
    <3> QED
      BY <2>1, <3>1 DEF Shape, TaskShape, RemovalType
  <2>2. CASE owner # "removal"
    BY <2>2 DEF Land, Shape, TaskShape
  <2> QED
    BY <2>1, <2>2
<1>9. /\ sync' \in [Clients -> SyncType]
      /\ \A c \in Clients \ {t} : sync'[c] = sync[c]
      /\ IF owner = "sync" THEN sync'[t].at \in {"idle", "get"} ELSE sync'[t] = sync[t]
  <2>1. CASE owner = "sync"
    <3>1. \E y \in {NoSync, [sync[t] EXCEPT !.at = "get"]} : sync' = [sync EXCEPT ![t] = y]
      BY <2>1 DEF Land
    <3>2. \A y \in {NoSync, [sync[t] EXCEPT !.at = "get"]} : y \in SyncType /\ y.at \in {"idle", "get"}
      BY <1>1, <1>3, NullTypes DEF SyncType
    <3> QED
      BY <1>1, <2>1, <3>1, <3>2 DEF Shape, TaskShape
  <2>2. CASE owner # "sync"
    BY <2>2 DEF Land, Shape, TaskShape
  <2> QED
    BY <2>1, <2>2
<1>10. TaskShape'
  <2>1. ASSUME NEW s \in Tabs
        PROVE  /\ flight'[s].at = "none" => flight'[s].owner = "none"
               /\ removal'[s].at # "idle" => removal'[s].sku \in Skus
               /\ removal'[s].at = "own" <=> flight'[s].owner = "removal"
               /\ sync'[s].at = "own" <=> flight'[s].owner = "sync"
    <3>1. s \in Clients
      BY DEF Clients
    <3>2. CASE s = t
      BY <1>4, <1>7, <1>8, <1>9, <3>2 DEF Shape, TaskShape
    <3>3. CASE s # t
      BY <1>7, <1>8, <1>9, <3>1, <3>3 DEF Shape, TaskShape
    <3> QED
      BY <3>2, <3>3
  <2> QED
    BY <1>7, <1>8, <1>9, <2>1 DEF TaskShape
<1> QED
  BY <1>5, <1>6, <1>8, <1>9, <1>10

\* A save begins for whoever flushes, and only when none is under way.
LEMMA TakeTyped ==
    ASSUME Shape, NEW t \in Tabs, NEW owner \in {"none", "removal", "sync"}, Take(t, pending[t], owner)
    PROVE  /\ pending' \in [Tabs -> Edits] /\ clicked' \in [Tabs -> BOOLEAN]
           /\ flight' \in [Tabs -> FlightType]
           /\ flight'[t].owner = owner /\ flight'[t].at = "get"
           /\ \A s \in Tabs \ {t} : flight'[s] = flight[s]
<1>1. Flight(pending[t], owner) \in FlightType
  BY DEF Flight, FlightType, Shape, SavingShape
<1>2. Flight(pending[t], owner).owner = owner /\ Flight(pending[t], owner).at = "get"
  BY DEF Flight
<1> QED
  BY <1>1, <1>2, NullTypes DEF Take, Shape, SavingShape, TaskShape

-----------------------------------------------------------------------------
(* Types *)

\* A removal, a synchronisation or a return goes to its next step, the save it
\* may await left alone.
LEMMA RemovalMoves ==
    ASSUME TaskShape, NEW t \in Tabs, NEW x \in RemovalType, removal' = [removal EXCEPT ![t] = x],
           UNCHANGED <<flight, sync>>, removal[t].at # "own", x.at # "own",
           x.at # "idle" => x.sku \in Skus
    PROVE  TaskShape'
  BY DEF TaskShape

LEMMA SyncMoves ==
    ASSUME TaskShape, NEW c \in Clients, NEW x \in SyncType, sync' = [sync EXCEPT ![c] = x],
           UNCHANGED <<flight, removal>>, sync[c].at # "own", x.at # "own"
    PROVE  TaskShape'
<1>1. \A t \in Tabs : t \in Clients
  BY DEF Clients
<1>2. \A t \in Tabs : sync'[t].at = "own" <=> sync[t].at = "own"
  BY <1>1 DEF TaskShape
<1> QED
  BY <1>2 DEF TaskShape

\* The editing of a tab and its save.
LEMMA SavingTyped ==
    ASSUME Shape, NEW t \in Tabs,
           \/ \E s \in Skus, q \in 0..Stock : Click(t, s, q)
           \/ TimerFires(t)
           \/ Save(t)
    PROVE  Shape'
<1> USE BoundsAssumption
<1>a. ServerShape /\ ScreenShape /\ SavingShape /\ TaskShape /\ BoundShape
  BY DEF Shape
<1>b. flight[t] \in FlightType /\ flight[t].edit \in Edits /\ t \in Clients /\ pending[t] \in Edits
  BY <1>a DEF TaskShape, SavingShape, FlightType, Clients
<1>c. flight[t].edit.rows \in Plans /\ flight[t].edit.hand \in SUBSET Skus
  BY <1>b DEF Edits
<1>1. ASSUME NEW s \in Skus, NEW q \in 0..Stock, Click(t, s, q)
      PROVE  Shape'
  <2>1. rows' \in [Tabs -> Plans]
    <3>1. [rows[t] EXCEPT ![s] = q] \in Plans
      BY <1>a DEF ScreenShape, Plans
    <3>2. rows' = [rows EXCEPT ![t] = [rows[t] EXCEPT ![s] = q]]
      BY <1>1 DEF Click
    <3> QED
      BY <1>a, <3>1, <3>2 DEF ScreenShape
  <2>2. hand' \in [Tabs -> SUBSET Skus]
    BY <1>1, <1>a DEF Click, ScreenShape
  <2>3. pending' \in [Tabs -> Edits]
    <3>1. Edit(rows'[t], hand'[t]) \in Edits
      BY <2>1, <2>2 DEF Edit, Edits
    <3> QED
      BY <1>1, <1>a, <3>1 DEF Click, SavingShape
  <2>4. timer' \in [Tabs -> BOOLEAN] /\ clicked' \in [Tabs -> BOOLEAN] /\ retry' = retry
    BY <1>1, <1>a DEF Click, SavingShape
  <2>5. TaskShape'
    <3>1. removal' = [removal EXCEPT ![t].quiet = FALSE] /\ UNCHANGED <<flight, sync>>
      BY <1>1 DEF Click
    <3>2. /\ removal' \in [Tabs -> RemovalType]
          /\ \A r \in Tabs : removal'[r].at = removal[r].at /\ removal'[r].sku = removal[r].sku
      BY <1>a, <3>1 DEF TaskShape, RemovalType
    <3> QED
      BY <1>a, <3>1, <3>2 DEF TaskShape
  <2>6. BoundShape'
    BY <1>1, <1>a DEF Click, BoundShape
  <2> QED
    BY <1>1, <1>a, <2>1, <2>2, <2>3, <2>4, <2>5, <2>6
       DEF Click, server, Shape, ServerShape, ScreenShape, SavingShape
<1>2. ASSUME TimerFires(t)
      PROVE  Shape'
  <2>1. UNCHANGED <<server, screen, retry, removal, sync, removed, bounds>>
    BY <1>2 DEF TimerFires
  <2>2. timer' \in [Tabs -> BOOLEAN]
    BY <1>2, <1>a DEF TimerFires, SavingShape
  <2>3. CASE pending[t].is /\ flight[t].at = "none"
    <3>1. Take(t, pending[t], "none")
      BY <1>2, <2>3 DEF TimerFires
    <3>2. flight[t].owner = "none"
      BY <1>a, <2>3 DEF TaskShape
    <3>3. TaskShape'
      BY <1>a, <2>1, <3>1, <3>2, TakeTyped DEF TaskShape
    <3> QED
      BY <1>a, <2>1, <2>2, <3>1, <3>3, TakeTyped
         DEF server, screen, bounds, Shape, ServerShape, ScreenShape, SavingShape, BoundShape
  <2>4. CASE ~(pending[t].is /\ flight[t].at = "none")
    BY <1>2, <1>a, <2>1, <2>2, <2>4 DEF TimerFires, server, screen, bounds,
       Shape, ServerShape, ScreenShape, SavingShape, TaskShape, BoundShape
  <2> QED
    BY <2>3, <2>4
<1>3. ASSUME FlightGets(t)
      PROVE  Shape'
  <2>1. /\ UNCHANGED <<plan, manual, others, screen, pending, timer, clicked, removal, sync, removed, bounds>>
        /\ fresh' = fresh \cup {<<t, "flight">>}
        /\ flight' = [flight EXCEPT ![t].at = "put"] /\ retry' = [retry EXCEPT ![t] = 0]
    BY <1>3 DEF FlightGets, Read, others
  <2>2. fresh' \subseteq Clients \X {"flight", "removal", "sync"}
    BY <1>a, <1>b, <2>1 DEF ServerShape
  <2>3. TaskShape'
    BY <1>a, <2>1 DEF TaskShape, FlightType
  <2>4. retry' \in [Tabs -> 0..MaxRetry]
    BY <1>a, <2>1 DEF SavingShape
  <2> QED
    BY <1>a, <2>1, <2>2, <2>3, <2>4 DEF others, screen, bounds,
       Shape, ServerShape, ScreenShape, SavingShape, BoundShape
<1>4. ASSUME NEW edit \in Edits, NEW timing \in BOOLEAN, Land(t, edit, timing),
             retry' \in [Tabs -> 0..MaxRetry], ServerShape', ScreenShape', BoundShape'
      PROVE  Shape'
  BY <1>4, LandTyped DEF Shape, SavingShape
<1>5. Back(t) \in Edits /\ timer[t] \in BOOLEAN
  BY <1>a, <1>b DEF Back, SavingShape
<1>6. ASSUME FlightGetFails(t)
      PROVE  Shape'
  <2>1. ServerShape' /\ ScreenShape' /\ BoundShape'
    BY <1>6, <1>a DEF FlightGetFails, server, screen, bounds, ServerShape, ScreenShape, BoundShape
  <2>2. CASE RetriesLeft(t)
    <3>1. Land(t, Back(t), TRUE) /\ retry' = [retry EXCEPT ![t] = Less(retry[t] + 1, MaxRetry)]
      BY <1>6, <2>2 DEF FlightGetFails
    <3>2. retry[t] + 1 \in Nat /\ MaxRetry \in Nat
      <4>1. retry[t] \in 0..MaxRetry /\ MaxRetry \in Nat
        BY <1>a DEF SavingShape
      <4> QED
        BY <4>1
    <3>3. Less(retry[t] + 1, MaxRetry) \in 0..MaxRetry
      <4>1. Less(retry[t] + 1, MaxRetry) \in Nat /\ Less(retry[t] + 1, MaxRetry) <= MaxRetry
        BY <3>2, LessBounds
      <4> QED
        BY <3>2, <4>1
    <3>4. retry' \in [Tabs -> 0..MaxRetry]
      BY <1>a, <3>1, <3>3 DEF SavingShape
    <3> QED
      BY <1>4, <1>5, <2>1, <3>1, <3>4
  <2>3. CASE ~RetriesLeft(t)
    <3>1. Land(t, NoEdit, timer[t]) /\ retry' \in [Tabs -> 0..MaxRetry]
      BY <1>6, <1>a, <2>3 DEF FlightGetFails, SavingShape
    <3> QED
      BY <1>4, <1>5, <2>1, <3>1, NullTypes
  <2> QED
    BY <2>2, <2>3
<1>7. ASSUME UNCHANGED <<others, retry, removed, bounds>>, plan' \in Plans, manual' \subseteq Skus,
             fresh' \subseteq fresh
      PROVE  ServerShape' /\ BoundShape' /\ retry' \in [Tabs -> 0..MaxRetry]
  BY <1>7, <1>a DEF others, bounds, ServerShape, BoundShape, SavingShape
<1>8. ASSUME FlightPuts(t)
      PROVE  Shape'
  <2>1. plan' \in Plans /\ manual' \subseteq Skus /\ fresh' \subseteq fresh
    <3>1. Put(<<t, "flight">>, flight[t].edit.rows, flight[t].edit.hand)
      BY <1>8 DEF FlightPuts
    <3> QED
      BY <1>a, <1>c, <3>1, PutStores
  <2>2. ScreenShape'
    <3>1. UNCHANGED screen \/ Adopt(t)
      BY <1>8 DEF FlightPuts
    <3> QED
      BY <1>a, <2>1, <3>1 DEF screen, Adopt, ScreenShape
  <2>3. Land(t, pending[t], timer[t]) /\ UNCHANGED <<others, retry, removed, bounds>>
    BY <1>8 DEF FlightPuts
  <2> QED
    BY <1>b, <1>4, <1>5, <1>7, <2>1, <2>2, <2>3
<1>9. ASSUME FlightConflicts(t)
      PROVE  Shape'
  <2>1. plan' \in Plans /\ manual' \subseteq Skus /\ fresh' \subseteq fresh
    BY <1>9, <1>a DEF FlightConflicts, Conflict, GivesUp, ServerShape
  <2>2. ScreenShape'
    BY <1>9, <1>a DEF FlightConflicts, screen, ScreenShape
  <2>3. Land(t, Back(t), TRUE) /\ UNCHANGED <<others, retry, removed, bounds>>
    BY <1>9 DEF FlightConflicts
  <2> QED
    BY <1>4, <1>5, <1>7, <2>1, <2>2, <2>3
<1>10. ASSUME FlightFails(t)
       PROVE  Shape'
  <2>1. plan' \in Plans /\ manual' \subseteq Skus /\ fresh' \subseteq fresh
    <3>1. Broken(<<t, "flight">>, flight[t].edit.rows, flight[t].edit.hand)
      BY <1>10 DEF FlightFails
    <3> QED
      BY <1>a, <1>c, <3>1, BrokenStores
  <2>2. ScreenShape'
    BY <1>10, <1>a DEF FlightFails, screen, ScreenShape
  <2>3. Land(t, pending[t], timer[t]) /\ UNCHANGED <<others, retry, removed, bounds>>
    BY <1>10 DEF FlightFails
  <2> QED
    BY <1>b, <1>4, <1>5, <1>7, <2>1, <2>2, <2>3
<1> QED
  BY <1>1, <1>2, <1>3, <1>6, <1>8, <1>9, <1>10 DEF Save

\* The removal of a SKU.
LEMMA RemovalTyped ==
    ASSUME Shape, NEW t \in Tabs, Remove(t)
    PROVE  Shape'
<1> DEFINE r == removal[t]
<1>a. ServerShape /\ ScreenShape /\ SavingShape /\ TaskShape /\ BoundShape
  BY DEF Shape
<1>b. r \in RemovalType /\ t \in Clients /\ r.plan \in Plans /\ r.hand \in SUBSET Skus
      /\ (r.at # "idle" => r.sku \in Skus) /\ <<t, "removal">> \in Clients \X {"flight", "removal", "sync"}
  BY <1>a DEF TaskShape, RemovalType, Clients
<1>1. ASSUME NEW s \in Skus, StartRemoval(t, s)
      PROVE  Shape'
  <2>1. \E quiet \in BOOLEAN :
          removal' = [removal EXCEPT ![t] = [NoRemoval EXCEPT !.at = "flush", !.sku = s, !.quiet = quiet]]
    BY <1>1 DEF StartRemoval, Unmarks
  <2>2. \A quiet \in BOOLEAN :
           /\ [NoRemoval EXCEPT !.at = "flush", !.sku = s, !.quiet = quiet] \in RemovalType
           /\ [NoRemoval EXCEPT !.at = "flush", !.sku = s, !.quiet = quiet].at = "flush"
           /\ [NoRemoval EXCEPT !.at = "flush", !.sku = s, !.quiet = quiet].sku = s
    BY ZeroIsPlan DEF NoRemoval, RemovalType
  <2>3. TaskShape'
    <3>1. UNCHANGED <<flight, sync>> /\ r.at # "own"
      BY <1>1 DEF StartRemoval, saving
    <3> QED
      BY <1>a, <2>1, <2>2, <3>1, RemovalMoves
  <2>4. SavingShape'
    BY <1>1, <1>a DEF StartRemoval, SavingShape
  <2>5. BoundShape'
    <3>1. clicks' = clicks + 1 /\ clicks < MaxClicks /\ UNCHANGED <<removed, syncs>> /\ MaxClicks \in Nat
      BY <1>1, BoundsAssumption DEF StartRemoval
    <3> QED
      BY <1>a, <3>1 DEF BoundShape
  <2> QED
    BY <1>1, <1>a, <2>3, <2>4, <2>5 DEF StartRemoval, server, screen, Shape, ServerShape, ScreenShape
<1>2. ASSUME RemovalFlushes(t)
      PROVE  Shape'
  <2>1. UNCHANGED <<server, screen, timer, retry, sync, removed, bounds>> /\ r.at = "flush" /\ flight[t].at = "none"
    BY <1>2 DEF RemovalFlushes, NothingInFlight
  <2>2. CASE pending[t].is
    <3>1. Take(t, pending[t], "removal") /\ removal' = [removal EXCEPT ![t].at = "own"]
      BY <1>2, <2>2 DEF RemovalFlushes
    <3>2. /\ removal' \in [Tabs -> RemovalType] /\ removal'[t].at = "own" /\ removal'[t].sku = r.sku
          /\ \A s \in Tabs \ {t} : removal'[s] = removal[s]
      BY <1>a, <3>1 DEF TaskShape, RemovalType
    <3>3. sync[t].at # "own"
      BY <1>a, <2>1 DEF TaskShape
    <3>4. TaskShape'
      <4>1. /\ flight' \in [Tabs -> FlightType] /\ flight'[t].owner = "removal" /\ flight'[t].at = "get"
            /\ \A s \in Tabs \ {t} : flight'[s] = flight[s]
        BY <3>1, TakeTyped
      <4>2. ASSUME NEW s \in Tabs
            PROVE  /\ flight'[s].at = "none" => flight'[s].owner = "none"
                   /\ removal'[s].at # "idle" => removal'[s].sku \in Skus
                   /\ removal'[s].at = "own" <=> flight'[s].owner = "removal"
                   /\ sync'[s].at = "own" <=> flight'[s].owner = "sync"
        <5>1. CASE s = t
          BY <1>b, <2>1, <3>2, <3>3, <4>1, <5>1
        <5>2. CASE s # t
          BY <1>a, <2>1, <3>2, <4>1, <5>2 DEF TaskShape
        <5> QED
          BY <5>1, <5>2
      <4> QED
        BY <1>a, <2>1, <3>2, <4>1, <4>2 DEF TaskShape
    <3>5. SavingShape'
      BY <1>a, <2>1, <3>1, TakeTyped DEF SavingShape
    <3> QED
      BY <1>a, <2>1, <3>4, <3>5 DEF server, screen, bounds, Shape, ServerShape, ScreenShape, BoundShape
  <2>3. CASE ~pending[t].is
    <3>1. removal' = [removal EXCEPT ![t] = [r EXCEPT !.at = "post"]] /\ UNCHANGED <<flight, pending, clicked>>
      BY <1>2, <2>3 DEF RemovalFlushes
    <3>2. [r EXCEPT !.at = "post"] \in RemovalType /\ [r EXCEPT !.at = "post"].at = "post"
          /\ [r EXCEPT !.at = "post"].sku = r.sku
      BY <1>b DEF RemovalType
    <3>3. TaskShape'
      BY <1>a, <1>b, <2>1, <3>1, <3>2, RemovalMoves
    <3> QED
      BY <1>a, <2>1, <3>1, <3>3 DEF server, screen, bounds, Shape, ServerShape, ScreenShape, SavingShape, BoundShape
  <2> QED
    BY <2>2, <2>3
<1>3. ASSUME NEW x \in RemovalType, removal' = [removal EXCEPT ![t] = x], r.at \notin {"own", "idle"},
             x.at # "own", x.at # "idle" => x.sku = r.sku, UNCHANGED <<others, saving, sync>>,
             plan' \in Plans, manual' \subseteq Skus,
             fresh' \subseteq Clients \X {"flight", "removal", "sync"}, ScreenShape', BoundShape'
      PROVE  Shape'
  <2>1. TaskShape'
    BY <1>a, <1>b, <1>3, RemovalMoves DEF saving
  <2> QED
    BY <1>a, <1>3, <2>1 DEF others, saving, Shape, ServerShape, SavingShape
<1>4. ASSUME UNCHANGED <<screen, removed, bounds>>
      PROVE  ScreenShape' /\ BoundShape'
  BY <1>a, <1>4 DEF screen, bounds, ScreenShape, BoundShape
<1>5. ASSUME NEW at \in {"read", "put"}, NEW p \in Plans, NEW h \in SUBSET Skus
      PROVE  /\ [r EXCEPT !.at = at, !.plan = p, !.hand = h] \in RemovalType
             /\ [r EXCEPT !.at = at, !.plan = p, !.hand = h].at = at
             /\ [r EXCEPT !.at = at, !.plan = p, !.hand = h].sku = r.sku
  BY <1>b DEF RemovalType
<1>6. ASSUME RemovalReads(t)
      PROVE  Shape'
  <2>1. /\ plan' = plan /\ manual' = manual /\ fresh' = fresh \cup {<<t, "removal">>} /\ r.at = "post"
        /\ removal' = [removal EXCEPT ![t] = [r EXCEPT !.at = "read", !.plan = Without(plan, r.sku), !.hand = manual]]
        /\ UNCHANGED <<others, screen, saving, sync, removed, bounds>>
    BY <1>6 DEF RemovalReads, Read
  <2>2. plan \in Plans /\ Without(plan, r.sku) \in Plans /\ manual \in SUBSET Skus
    BY <1>a, WithoutIsPlan DEF ServerShape
  <2>3. fresh' \subseteq Clients \X {"flight", "removal", "sync"}
    BY <1>a, <1>b, <2>1 DEF ServerShape
  <2> DEFINE x == [r EXCEPT !.at = "read", !.plan = Without(plan, r.sku), !.hand = manual]
  <2>4. x \in RemovalType /\ x.at = "read" /\ x.sku = r.sku /\ removal' = [removal EXCEPT ![t] = x]
    BY <1>5, <2>1, <2>2
  <2> HIDE DEF x
  <2> QED
    BY <1>3, <1>4, <2>1, <2>2, <2>3, <2>4
<1>7. ASSUME RemovalCommits(t)
      PROVE  Shape'
  <2>1. r.at = "read" /\ UNCHANGED <<others, screen, saving, sync, removed, bounds>>
    BY <1>7 DEF RemovalCommits
  <2>2. CASE "remove" \in Windows \/ VersionHolds(<<t, "removal">>)
    <3>1. /\ plan' = r.plan /\ manual' = r.hand /\ fresh' \subseteq fresh \cup {<<t, "removal">>}
          /\ removal' = [removal EXCEPT ![t] = [r EXCEPT !.at = "put"]]
      BY <1>7, <2>2 DEF RemovalCommits
    <3>2. [r EXCEPT !.at = "put"] \in RemovalType /\ [r EXCEPT !.at = "put"].at = "put"
          /\ [r EXCEPT !.at = "put"].sku = r.sku
      BY <1>b DEF RemovalType
    <3>3. fresh' \subseteq Clients \X {"flight", "removal", "sync"}
      BY <1>a, <1>b, <3>1 DEF ServerShape
    <3> QED
      BY <1>b, <1>3, <1>4, <2>1, <3>1, <3>2, <3>3
  <2>3. CASE ~("remove" \in Windows \/ VersionHolds(<<t, "removal">>))
    <3>1. /\ plan' = plan /\ manual' = manual /\ fresh' = fresh \cup {<<t, "removal">>}
          /\ removal' = [removal EXCEPT ![t] = [r EXCEPT !.plan = Without(plan, r.sku), !.hand = manual]]
      BY <1>7, <2>3 DEF RemovalCommits, Read
    <3>2. plan \in Plans /\ Without(plan, r.sku) \in Plans /\ manual \in SUBSET Skus
      BY <1>a, WithoutIsPlan DEF ServerShape
    <3>3. /\ [r EXCEPT !.plan = Without(plan, r.sku), !.hand = manual] \in RemovalType
          /\ [r EXCEPT !.plan = Without(plan, r.sku), !.hand = manual].at = "read"
          /\ [r EXCEPT !.plan = Without(plan, r.sku), !.hand = manual].sku = r.sku
      BY <1>b, <2>1, <3>2 DEF RemovalType
    <3>4. fresh' \subseteq Clients \X {"flight", "removal", "sync"}
      BY <1>a, <1>b, <3>1 DEF ServerShape
    <3> QED
      BY <1>3, <1>4, <2>1, <3>1, <3>2, <3>3, <3>4
  <2> QED
    BY <2>2, <2>3
<1>8. NoRemoval \in RemovalType /\ NoRemoval.at = "idle"
  BY NullTypes DEF NoRemoval
<1>9. ASSUME RemovalPuts(t)
      PROVE  Shape'
  <2>1. /\ Put(<<t, "removal">>, r.plan, r.hand \cup {r.sku}) /\ Adopt(t) /\ r.at = "put"
        /\ removed' \subseteq removed \cup {r.sku}
        /\ removal' = [removal EXCEPT ![t] = NoRemoval] /\ UNCHANGED <<others, saving, sync, bounds>>
    BY <1>9 DEF RemovalPuts
  <2>2. r.hand \cup {r.sku} \in SUBSET Skus /\ r.sku \in Skus
    BY <1>b, <2>1
  <2>3. plan' \in Plans /\ manual' \subseteq Skus /\ fresh' \subseteq fresh
    BY <1>a, <1>b, <2>1, <2>2, PutStores
  <2>4. ScreenShape' /\ BoundShape'
    BY <1>a, <2>1, <2>2, <2>3 DEF Adopt, bounds, ScreenShape, BoundShape
  <2>5. fresh' \subseteq Clients \X {"flight", "removal", "sync"}
    BY <1>a, <2>3 DEF ServerShape
  <2> QED
    BY <1>3, <1>8, <2>1, <2>3, <2>4, <2>5
<1>10. ASSUME RemovalFails(t)
       PROVE  Shape'
  <2>1. /\ r.at \in {"post", "read", "put"} /\ removal' = [removal EXCEPT ![t] = NoRemoval]
        /\ UNCHANGED <<others, screen, saving, sync, removed, bounds>>
        /\ \/ GivesUp(<<t, "removal">>)
           \/ Broken(<<t, "removal">>, r.plan, r.hand \cup {r.sku})
    BY <1>10 DEF RemovalFails, Conflict
  <2>2. r.hand \cup {r.sku} \in SUBSET Skus
    BY <1>b, <2>1
  <2>3. plan' \in Plans /\ manual' \subseteq Skus /\ fresh' \subseteq fresh
    <3>1. CASE GivesUp(<<t, "removal">>)
      BY <1>a, <3>1 DEF GivesUp, ServerShape
    <3>2. CASE Broken(<<t, "removal">>, r.plan, r.hand \cup {r.sku})
      BY <1>a, <1>b, <2>2, <3>2, BrokenStores
    <3> QED
      BY <2>1, <3>1, <3>2
  <2>4. fresh' \subseteq Clients \X {"flight", "removal", "sync"}
    BY <1>a, <2>3 DEF ServerShape
  <2> QED
    BY <1>3, <1>4, <1>8, <2>1, <2>3, <2>4
<1> QED
  BY <1>1, <1>2, <1>6, <1>7, <1>9, <1>10 DEF Remove

LEMMA CalculatedIsPlan ==
    ASSUME TaskShape, NEW c \in Clients, NEW calc \in Plans
    PROVE  Calculated(c, calc) \in Plans /\ sync[c].hand \in SUBSET Skus
<1>1. sync[c] \in SyncType
  BY DEF TaskShape
<1>2. sync[c].plan \in Plans /\ sync[c].hand \in SUBSET Skus
  BY <1>1 DEF SyncType
<1> QED
  BY <1>2 DEF Calculated, Plans

\* A synchronisation, of a tab or of another page.
LEMMA SyncTyped ==
    ASSUME Shape, NEW c \in Clients,
           \/ /\ c \in Tabs
              /\ StartSync(c) \/ SyncFlushes(c) \/ SyncGets(c) \/ ReturnPuts(c) \/ \E s \in Skus : ReturnGets(c, s)
           \/ c \in Runners /\ RunnerGets(c)
           \/ SyncPuts(c) \/ SyncEnds(c)
    PROVE  Shape'
<1> DEFINE y == sync[c]
           Holders == Clients \X {"flight", "removal", "sync"}
<1>a. ServerShape /\ ScreenShape /\ SavingShape /\ TaskShape /\ BoundShape
  BY DEF Shape
<1>b. y \in SyncType /\ y.plan \in Plans /\ y.hand \in SUBSET Skus /\ <<c, "sync">> \in Holders
  BY <1>a DEF TaskShape, SyncType
<1>c. plan \in Plans /\ manual \in SUBSET Skus /\ fresh \subseteq Holders
  BY <1>a DEF ServerShape
<1>1. ASSUME NEW x \in SyncType, sync' = [sync EXCEPT ![c] = x], y.at # "own", x.at # "own",
             UNCHANGED <<others, flight>>, plan' \in Plans, manual' \subseteq Skus, fresh' \subseteq Holders,
             removal' = removal, ScreenShape', SavingShape', BoundShape'
      PROVE  Shape'
  <2>1. TaskShape'
    BY <1>a, <1>1, SyncMoves
  <2> QED
    BY <1>a, <1>1, <2>1 DEF others, Shape, ServerShape
<1>2. ASSUME UNCHANGED screen
      PROVE  ScreenShape'
  BY <1>a, <1>2 DEF screen, ScreenShape
<1>3. ASSUME UNCHANGED saving
      PROVE  SavingShape' /\ flight' = flight
  BY <1>a, <1>3 DEF saving, SavingShape
<1>4. ASSUME removed' \subseteq removed, clicks' = clicks,
             syncs' = syncs \/ (syncs < MaxSyncs /\ syncs' = syncs + 1)
      PROVE  BoundShape'
  <2>1. MaxSyncs \in Nat /\ syncs \in 0..MaxSyncs
    BY <1>a, BoundsAssumption DEF BoundShape
  <2>2. syncs' \in 0..MaxSyncs
    BY <1>4, <2>1
  <2> QED
    BY <1>a, <1>4, <2>2 DEF BoundShape
<1>5. NoSync \in SyncType /\ NoSync.at = "idle"
      /\ [NoSync EXCEPT !.at = "flush"] \in SyncType /\ [NoSync EXCEPT !.at = "flush"].at = "flush"
  BY ZeroIsPlan DEF NoSync, SyncType
<1>6. ASSUME NEW at \in {"flush", "get", "put", "own"}
      PROVE  [y EXCEPT !.at = at] \in SyncType /\ [y EXCEPT !.at = at].at = at
  BY <1>b DEF SyncType
<1>7. ASSUME c \in Tabs, StartSync(c)
      PROVE  Shape'
  <2>1. /\ sync' = [sync EXCEPT ![c] = [y EXCEPT !.at = "flush"]] /\ y.at = "idle"
        /\ UNCHANGED <<server, screen, pending, retry, clicked, flight, removal, removed, clicks>>
        /\ syncs < MaxSyncs /\ syncs' = syncs + 1
    BY <1>7 DEF StartSync
  <2>2. SavingShape'
    BY <1>7, <1>a DEF StartSync, SavingShape
  <2>3. BoundShape'
    BY <1>4, <2>1
  <2>4. UNCHANGED <<others, screen>> /\ plan' = plan /\ manual' = manual /\ fresh' = fresh
    BY <2>1 DEF server, others
  <2> QED
    BY <1>c, <1>1, <1>2, <1>6, <2>1, <2>2, <2>3, <2>4
<1>8. ASSUME c \in Tabs, SyncFlushes(c)
      PROVE  Shape'
  <2>1. /\ UNCHANGED <<server, screen, timer, retry, removal, removed, bounds>>
        /\ y.at = "flush" /\ flight[c].at = "none"
    BY <1>8 DEF SyncFlushes, NothingInFlight
  <2>2. BoundShape' /\ ScreenShape'
    BY <1>2, <1>4, <2>1 DEF bounds
  <2>3. UNCHANGED others /\ plan' = plan /\ manual' = manual /\ fresh' = fresh
    BY <2>1 DEF server, others
  <2>4. CASE pending[c].is
    <3>1. Take(c, pending[c], "sync") /\ sync' = [sync EXCEPT ![c] = [y EXCEPT !.at = "own"]]
      BY <1>8, <2>4 DEF SyncFlushes
    <3>2. /\ sync' \in [Clients -> SyncType] /\ sync'[c].at = "own"
          /\ \A s \in Clients \ {c} : sync'[s] = sync[s]
      BY <1>a, <1>6, <3>1 DEF TaskShape
    <3>3. removal[c].at # "own"
      BY <1>8, <1>a, <2>1 DEF TaskShape
    <3>4. TaskShape'
      <4>1. /\ flight' \in [Tabs -> FlightType] /\ flight'[c].owner = "sync" /\ flight'[c].at = "get"
            /\ \A s \in Tabs \ {c} : flight'[s] = flight[s]
        BY <1>8, <3>1, TakeTyped
      <4>2. ASSUME NEW s \in Tabs
            PROVE  /\ flight'[s].at = "none" => flight'[s].owner = "none"
                   /\ removal'[s].at # "idle" => removal'[s].sku \in Skus
                   /\ removal'[s].at = "own" <=> flight'[s].owner = "removal"
                   /\ sync'[s].at = "own" <=> flight'[s].owner = "sync"
        <5>1. CASE s = c
          BY <1>a, <2>1, <3>2, <3>3, <4>1, <5>1 DEF TaskShape
        <5>2. CASE s # c
          <6>1. s \in Clients
            BY DEF Clients
          <6> QED
            BY <1>a, <2>1, <3>2, <4>1, <5>2, <6>1 DEF TaskShape
        <5> QED
          BY <5>1, <5>2
      <4> QED
        BY <1>a, <2>1, <3>2, <4>1, <4>2 DEF TaskShape
    <3>5. SavingShape'
      BY <1>8, <1>a, <2>1, <3>1, TakeTyped DEF SavingShape
    <3> QED
      BY <1>a, <2>2, <2>3, <3>4, <3>5 DEF others, Shape, ServerShape
  <2>5. CASE ~pending[c].is
    <3>1. sync' = [sync EXCEPT ![c] = [y EXCEPT !.at = "get"]] /\ UNCHANGED <<flight, pending, clicked>>
      BY <1>8, <2>5 DEF SyncFlushes
    <3>2. SavingShape'
      BY <1>a, <2>1, <3>1 DEF SavingShape
    <3> QED
      BY <1>c, <1>1, <1>6, <2>1, <2>2, <2>3, <3>1, <3>2
  <2> QED
    BY <2>4, <2>5
<1>9. ASSUME NEW at \in {"put", "unmark"}, NEW k \in Skus \cup {"none"}
      PROVE  /\ [y EXCEPT !.at = at, !.plan = plan, !.hand = manual] \in SyncType
             /\ [y EXCEPT !.at = at, !.plan = plan, !.hand = manual].at = at
             /\ [at |-> at, sku |-> k, plan |-> plan, hand |-> manual] \in SyncType
  BY <1>b, <1>c DEF SyncType
<1>10. ASSUME (c \in Tabs /\ SyncGets(c)) \/ RunnerGets(c)
       PROVE  Shape'
  <2>1. /\ plan' = plan /\ manual' = manual /\ fresh' = fresh \cup {<<c, "sync">>} /\ y.at \in {"get", "idle"}
        /\ sync' = [sync EXCEPT ![c] = [y EXCEPT !.at = "put", !.plan = plan, !.hand = manual]]
        /\ UNCHANGED <<others, screen, saving, removal, removed, clicks>>
        /\ syncs' = syncs \/ (syncs < MaxSyncs /\ syncs' = syncs + 1)
    BY <1>10 DEF SyncGets, RunnerGets, Reads, Read, bounds
  <2> DEFINE x == [y EXCEPT !.at = "put", !.plan = plan, !.hand = manual]
  <2>2. x \in SyncType /\ x.at = "put" /\ sync' = [sync EXCEPT ![c] = x]
    BY <1>9, <2>1
  <2>3. fresh' \subseteq Holders
    BY <1>b, <1>c, <2>1
  <2>4. ScreenShape' /\ SavingShape' /\ BoundShape' /\ flight' = flight
    BY <1>2, <1>3, <1>4, <2>1
  <2> HIDE DEF x, Holders
  <2> QED
    BY <1>c, <1>1, <2>1, <2>2, <2>3, <2>4
<1>11. ASSUME NEW s \in Skus, c \in Tabs, ReturnGets(c, s)
       PROVE  Shape'
  <2> DEFINE x == [at |-> "unmark", sku |-> s, plan |-> plan, hand |-> manual]
  <2>1. /\ plan' = plan /\ manual' = manual /\ fresh' = fresh \cup {<<c, "sync">>} /\ y.at = "idle"
        /\ sync' = [sync EXCEPT ![c] = x]
        /\ UNCHANGED <<others, screen, saving, clicks>> /\ removed' \subseteq removed
        /\ syncs < MaxSyncs /\ syncs' = syncs + 1
    BY <1>11 DEF ReturnGets, Read
  <2>2. x \in SyncType /\ x.at = "unmark"
    BY <1>9
  <2>3. fresh' \subseteq Holders
    BY <1>b, <1>c, <2>1
  <2>4. ScreenShape' /\ SavingShape' /\ BoundShape' /\ flight' = flight
    BY <1>2, <1>3, <1>4, <2>1
  <2>5. TaskShape'
    <3>1. removal' = [removal EXCEPT ![c].quiet = TRUE] \/ removal' = [removal EXCEPT ![c].quiet = FALSE]
      <4>1. removal' = [removal EXCEPT ![c].quiet = removal[c].quiet /\ removal[c].sku # s]
        BY <1>11 DEF ReturnGets
      <4>2. (removal[c].quiet /\ removal[c].sku # s) \in BOOLEAN
        BY Zenon
      <4> QED
        BY <4>1, <4>2, Zenon
    <3>2. /\ removal' \in [Tabs -> RemovalType]
          /\ \A r \in Tabs : removal'[r].at = removal[r].at /\ removal'[r].sku = removal[r].sku
      <4>1. CASE removal' = [removal EXCEPT ![c].quiet = TRUE]
        BY <1>11, <1>a, <4>1 DEF TaskShape, RemovalType
      <4>2. CASE removal' = [removal EXCEPT ![c].quiet = FALSE]
        BY <1>11, <1>a, <4>2 DEF TaskShape, RemovalType
      <4> QED
        BY <3>1, <4>1, <4>2
    <3>3. /\ sync' \in [Clients -> SyncType]
          /\ \A r \in Tabs : sync'[r].at = "own" <=> sync[r].at = "own"
      <4>1. \A r \in Tabs : r \in Clients
        BY DEF Clients
      <4> HIDE DEF x
      <4> QED
        BY <1>a, <2>1, <2>2, <4>1 DEF TaskShape
    <3> QED
      BY <1>a, <2>4, <3>2, <3>3 DEF TaskShape
  <2> QED
    BY <1>a, <1>c, <2>1, <2>3, <2>4, <2>5 DEF others, Shape, ServerShape
<1>12. ASSUME SyncPuts(c)
       PROVE  Shape'
  <2>1. PICK calc \in Plans : Put(<<c, "sync">>, Calculated(c, calc), y.hand)
    BY <1>12 DEF SyncPuts
  <2>2. plan' \in Plans /\ manual' \subseteq Skus /\ fresh' \subseteq fresh
    BY <1>a, <2>1, PutStores, CalculatedIsPlan
  <2>3. /\ UNCHANGED screen \/ (c \in Tabs /\ Adopt(c))
        /\ sync' = [sync EXCEPT ![c] = NoSync] /\ y.at = "put"
        /\ UNCHANGED <<others, saving, removal, removed, bounds>>
    BY <1>12 DEF SyncPuts
  <2>4. ScreenShape'
    BY <1>a, <1>2, <2>2, <2>3 DEF Adopt, ScreenShape
  <2>5. SavingShape' /\ BoundShape' /\ flight' = flight
    BY <1>3, <1>4, <2>3 DEF bounds
  <2>6. fresh' \subseteq Holders
    BY <1>c, <2>2
  <2> QED
    BY <1>1, <1>5, <2>2, <2>3, <2>4, <2>5, <2>6
<1>13. ASSUME SyncEnds(c)
       PROVE  Shape'
  <2>1. /\ sync' = [sync EXCEPT ![c] = NoSync] /\ y.at # "own"
        /\ UNCHANGED <<others, screen, saving, removal, removed, bounds>>
        /\ \/ GivesUp(<<c, "sync">>)
           \/ \E calc \in Plans : Put(<<c, "sync">>, Calculated(c, calc), y.hand)
           \/ Put(<<c, "sync">>, y.plan, y.hand \ {y.sku})
    BY <1>13 DEF SyncEnds
  <2>2. plan' \in Plans /\ manual' \subseteq Skus /\ fresh' \subseteq fresh
    <3>1. CASE GivesUp(<<c, "sync">>)
      BY <1>c, <3>1 DEF GivesUp
    <3>2. ASSUME NEW calc \in Plans, Put(<<c, "sync">>, Calculated(c, calc), y.hand)
          PROVE  plan' \in Plans /\ manual' \subseteq Skus /\ fresh' \subseteq fresh
      BY <1>a, <3>2, PutStores, CalculatedIsPlan
    <3>3. CASE Put(<<c, "sync">>, y.plan, y.hand \ {y.sku})
      <4>1. y.hand \ {y.sku} \in SUBSET Skus
        BY <1>b
      <4> QED
        BY <1>a, <1>b, <3>3, <4>1, PutStores
    <3> QED
      BY <2>1, <3>1, <3>2, <3>3
  <2>3. ScreenShape' /\ SavingShape' /\ BoundShape' /\ flight' = flight
    BY <1>2, <1>3, <1>4, <2>1 DEF bounds
  <2>4. fresh' \subseteq Holders
    BY <1>c, <2>2
  <2> QED
    BY <1>1, <1>5, <2>1, <2>2, <2>3, <2>4
<1>14. ASSUME c \in Tabs, ReturnPuts(c)
       PROVE  Shape'
  <2>1. /\ Put(<<c, "sync">>, y.plan, y.hand \ {y.sku}) /\ y.at = "unmark"
        /\ hand' = [hand EXCEPT ![c] = manual'] /\ sync' = [sync EXCEPT ![c] = [NoSync EXCEPT !.at = "flush"]]
        /\ timer' = [timer EXCEPT ![c] = FALSE]
        /\ UNCHANGED <<others, rows, pending, retry, clicked, flight, removal, removed, bounds>>
    BY <1>14 DEF ReturnPuts
  <2>2. y.hand \ {y.sku} \in SUBSET Skus
    BY <1>b
  <2>3. plan' \in Plans /\ manual' \subseteq Skus /\ fresh' \subseteq fresh
    BY <1>a, <1>b, <2>1, <2>2, PutStores
  <2>4. ScreenShape' /\ SavingShape'
    BY <1>a, <2>1, <2>3 DEF ScreenShape, SavingShape
  <2>5. BoundShape'
    BY <1>4, <2>1 DEF bounds
  <2>6. fresh' \subseteq Holders
    BY <1>c, <2>3
  <2> QED
    BY <1>1, <1>5, <2>1, <2>3, <2>4, <2>5, <2>6
<1> QED
  BY <1>7, <1>8, <1>10, <1>11, <1>12, <1>13, <1>14

\* The other writers.
LEMMA OthersTyped ==
    ASSUME Shape, Clear \/ \E s \in Skus : Commit(s) \/ OtherReads(s) \/ OtherStores(s)
    PROVE  Shape'
<1>a. ServerShape /\ ScreenShape /\ SavingShape /\ TaskShape /\ BoundShape
  BY DEF Shape
<1>1. UNCHANGED <<screen, saving, removal, sync, bounds>> /\ removed' \subseteq removed
  BY DEF Clear, Commit, OtherReads, OtherStores
<1>2. ServerShape'
  <2>1. CASE Clear
    BY <2>1, <1>a, ZeroIsPlan DEF Clear, others, ServerShape
  <2>2. ASSUME NEW s \in Skus, Commit(s)
        PROVE  ServerShape'
    <3>1. plan[s] \in Nat
      BY <1>a, StockAssumption DEF ServerShape, Plans
    <3>2. plan' \in Plans
      BY <2>2, <1>a, WithoutIsPlan DEF Commit, ServerShape
    <3>3. moving' \in [Skus -> Nat]
      BY <2>2, <1>a, <3>1 DEF Commit, ServerShape
    <3> QED
      BY <2>2, <1>a, <3>2, <3>3 DEF Commit, ServerShape
  <2>3. ASSUME NEW s \in Skus, OtherReads(s)
        PROVE  ServerShape'
    <3>1. moving[s] + plan[s] \in Nat
      BY <1>a, StockAssumption DEF ServerShape, Plans
    <3>2. Minus(Stock, moving[s] + plan[s]) \in Nat
      BY <3>1, StockAssumption, MinusBounds
    <3> QED
      BY <2>3, <1>a, <3>2 DEF OtherReads, ServerShape
  <2>4. ASSUME NEW s \in Skus, OtherStores(s)
        PROVE  ServerShape'
    BY <2>4, <1>a DEF OtherStores, ServerShape
  <2> QED
    BY <2>1, <2>2, <2>3, <2>4
<1> QED
  BY <1>a, <1>1, <1>2 DEF screen, saving, bounds, Shape, ScreenShape, SavingShape, TaskShape, BoundShape

LEMMA ShapeStep ==
    ASSUME Shape, [Next]_vars
    PROVE  Shape'
<1>1. \A t \in Tabs : t \in Clients
  BY DEF Clients
<1>2. ASSUME NEW t \in Tabs, TabStep(t)
      PROVE  Shape'
  BY <1>1, <1>2, SavingTyped, RemovalTyped, SyncTyped DEF TabStep
<1>3. ASSUME NEW c \in Runners, RunnerGets(c)
      PROVE  Shape'
  BY <1>3, SyncTyped DEF Clients
<1>4. CASE UNCHANGED vars
  BY <1>4 DEF vars, Shape, ServerShape, ScreenShape, SavingShape, TaskShape, BoundShape
<1> QED
  BY <1>2, <1>3, <1>4, SyncTyped, OthersTyped DEF Next

LEMMA InitShape == Init => Shape
<1> SUFFICES ASSUME Init PROVE Shape
  OBVIOUS
<1> USE StockAssumption, BoundsAssumption
<1>1. plan \in Plans /\ moving = Zero /\ reserve = Zero /\ claim = Zero
  BY DEF Init, Plans
<1>2. ServerShape
  BY <1>1 DEF Init, ServerShape, Zero
<1>3. ScreenShape /\ SavingShape /\ BoundShape
  BY <1>1, NullTypes DEF Init, ScreenShape, SavingShape, BoundShape
<1>4. TaskShape
  <2>1. \A t \in Tabs : t \in Clients
    BY DEF Clients
  <2>2. NoFlight.at = "none" /\ NoFlight.owner = "none" /\ NoRemoval.at = "idle" /\ NoSync.at = "idle"
    BY DEF NoFlight, NoRemoval, NoSync
  <2> QED
    BY <2>1, <2>2, NullTypes DEF Init, TaskShape
<1> QED
  BY <1>2, <1>3, <1>4 DEF Shape

LEMMA AlwaysShaped == Spec => []Shape
  BY InitShape, ShapeStep, PTL DEF Spec

-----------------------------------------------------------------------------
(* Who has read the current version holds the current content *)

Current ==
    /\ \A c \in Clients :
          <<c, "sync">> \in fresh /\ sync[c].at \in {"put", "unmark"}
            => sync[c].plan = plan /\ sync[c].hand = manual
    /\ \A t \in Tabs :
          <<t, "removal">> \in fresh /\ removal[t].at = "read"
            => removal[t].plan = Without(plan, removal[t].sku)

LEMMA HoldersDiffer ==
    /\ \A a, b : <<a, "flight">> # <<b, "sync">> /\ <<a, "flight">> # <<b, "removal">>
                 /\ <<a, "removal">> # <<b, "sync">>
    /\ \A a, b : <<a, "sync">> = <<b, "sync">> => a = b
    /\ \A a, b : <<a, "removal">> = <<b, "removal">> => a = b
  OBVIOUS

\* What a removal or a synchronisation has read is left alone.
RemovalsKeep ==
    \A t \in Tabs : removal'[t].at = "read" =>
        removal[t].at = "read" /\ removal'[t].plan = removal[t].plan /\ removal'[t].sku = removal[t].sku

SyncsKeep == \A c \in Clients : sync'[c] = sync[c] \/ sync'[c].at \notin {"put", "unmark"}

\* Nobody reads, and whoever stays current does so because nothing changed.
LEMMA CurrentKept ==
    ASSUME Current, fresh' \subseteq fresh, fresh' # {} => plan' = plan /\ manual' = manual,
           RemovalsKeep, SyncsKeep
    PROVE  Current'
<1>1. ASSUME NEW c \in Clients, <<c, "sync">> \in fresh', sync'[c].at \in {"put", "unmark"}
      PROVE  sync'[c].plan = plan' /\ sync'[c].hand = manual'
  <2>1. sync'[c] = sync[c] /\ plan' = plan /\ manual' = manual /\ <<c, "sync">> \in fresh
    BY <1>1 DEF SyncsKeep
  <2> QED
    BY <1>1, <2>1 DEF Current
<1>2. ASSUME NEW t \in Tabs, <<t, "removal">> \in fresh', removal'[t].at = "read"
      PROVE  removal'[t].plan = Without(plan', removal'[t].sku)
  <2>1. /\ removal[t].at = "read" /\ removal'[t].plan = removal[t].plan /\ removal'[t].sku = removal[t].sku
        /\ plan' = plan /\ <<t, "removal">> \in fresh
    BY <1>2 DEF RemovalsKeep
  <2> QED
    BY <2>1 DEF Current
<1> QED
  BY <1>1, <1>2 DEF Current

\* A reading makes its holder current with what it has read.
LEMMA CurrentRead ==
    ASSUME Current, NEW h, plan' = plan, manual' = manual, fresh' = fresh \cup {h},
           \A c \in Clients : \/ <<c, "sync">> # h /\ (sync'[c] = sync[c] \/ sync'[c].at \notin {"put", "unmark"})
                              \/ sync'[c].plan = plan /\ sync'[c].hand = manual,
           \A t \in Tabs : removal'[t].at = "read" =>
              \/ /\ <<t, "removal">> # h /\ removal[t].at = "read"
                 /\ removal'[t].plan = removal[t].plan /\ removal'[t].sku = removal[t].sku
              \/ removal'[t].plan = Without(plan, removal'[t].sku)
    PROVE  Current'
<1>1. ASSUME NEW c \in Clients, <<c, "sync">> \in fresh', sync'[c].at \in {"put", "unmark"}
      PROVE  sync'[c].plan = plan' /\ sync'[c].hand = manual'
  BY <1>1 DEF Current
<1>2. ASSUME NEW t \in Tabs, <<t, "removal">> \in fresh', removal'[t].at = "read"
      PROVE  removal'[t].plan = Without(plan', removal'[t].sku)
  BY <1>2 DEF Current
<1> QED
  BY <1>1, <1>2 DEF Current

LEMMA CurrentStep ==
    ASSUME Shape, Current, [Next]_vars
    PROVE  Current'
<1>a. ServerShape /\ ScreenShape /\ SavingShape /\ TaskShape /\ BoundShape
  BY DEF Shape
<1>b. \A t \in Tabs : /\ removal[t] \in RemovalType /\ flight[t] \in FlightType /\ t \in Clients
                      /\ flight[t].edit.rows \in Plans /\ flight[t].edit.hand \in SUBSET Skus
                      /\ pending[t] \in Edits /\ timer[t] \in BOOLEAN /\ Back(t) \in Edits
  BY <1>a DEF TaskShape, SavingShape, FlightType, Edits, Clients, Back
<1>c. \A c \in Clients : /\ sync[c] \in SyncType /\ sync[c].plan \in Plans /\ sync[c].hand \in SUBSET Skus
                         /\ sync[c].hand \ {sync[c].sku} \in SUBSET Skus
  BY <1>a DEF TaskShape, SyncType
<1>d. NoEdit \in Edits /\ NoSync.at = "idle" /\ NoRemoval.at = "idle"
  BY NullTypes DEF NoSync, NoRemoval
<1>1. ASSUME NEW t \in Tabs, NEW edit \in Edits, NEW timing \in BOOLEAN, Land(t, edit, timing)
      PROVE  RemovalsKeep /\ SyncsKeep
  BY <1>1, LandTyped DEF RemovalsKeep, SyncsKeep
<1>2. ASSUME removal' = removal
      PROVE  RemovalsKeep
  BY <1>2 DEF RemovalsKeep
<1>3. ASSUME sync' = sync
      PROVE  SyncsKeep
  BY <1>3 DEF SyncsKeep
<1>4. ASSUME fresh' = fresh, plan' = plan, manual' = manual, RemovalsKeep, SyncsKeep
      PROVE  Current'
  BY <1>4, CurrentKept
<1>5. ASSUME NEW t \in Tabs, NEW x, removal' = [removal EXCEPT ![t] = x], x.at # "read"
      PROVE  RemovalsKeep
  BY <1>5, <1>a DEF RemovalsKeep, TaskShape
<1>6. ASSUME NEW c \in Clients, NEW x, sync' = [sync EXCEPT ![c] = x], x.at \notin {"put", "unmark"}
      PROVE  SyncsKeep
  BY <1>6, <1>a DEF SyncsKeep, TaskShape
<1>7. ASSUME NEW t \in Tabs, NEW quiet, removal' = [removal EXCEPT ![t].quiet = quiet]
      PROVE  RemovalsKeep
  BY <1>7, <1>a DEF RemovalsKeep, TaskShape, RemovalType
<1>8. ASSUME NEW t \in Tabs, NEW s \in Skus, NEW q \in 0..Stock, Click(t, s, q)
      PROVE  Current'
  BY <1>3, <1>4, <1>7, <1>8 DEF Click, server
<1>9. ASSUME NEW t \in Tabs, TimerFires(t)
      PROVE  Current'
  BY <1>2, <1>3, <1>4, <1>9 DEF TimerFires, server
<1>10. ASSUME NEW t \in Tabs, FlightGets(t)
       PROVE  Current'
  <2>1. /\ plan' = plan /\ manual' = manual /\ fresh' = fresh \cup {<<t, "flight">>}
        /\ removal' = removal /\ sync' = sync
    BY <1>10 DEF FlightGets, Read
  <2> QED
    BY <2>1, HoldersDiffer, CurrentRead
<1>11. ASSUME NEW t \in Tabs, FlightGetFails(t)
       PROVE  Current'
  <2>1. Land(t, Back(t), TRUE) \/ Land(t, NoEdit, timer[t])
    BY <1>11 DEF FlightGetFails
  <2>2. RemovalsKeep /\ SyncsKeep
    BY <1>1, <1>b, <1>d, <2>1
  <2> QED
    BY <1>4, <1>11, <2>2 DEF FlightGetFails, server
<1>12. ASSUME NEW t \in Tabs, FlightPuts(t) \/ FlightConflicts(t) \/ FlightFails(t)
       PROVE  Current'
  <2>1. Land(t, pending[t], timer[t]) \/ Land(t, Back(t), TRUE)
    BY <1>12 DEF FlightPuts, FlightConflicts, FlightFails
  <2>2. RemovalsKeep /\ SyncsKeep
    BY <1>1, <1>b, <2>1
  <2>3. \/ Put(<<t, "flight">>, flight[t].edit.rows, flight[t].edit.hand)
        \/ GivesUp(<<t, "flight">>)
    BY <1>12 DEF FlightPuts, FlightConflicts, FlightFails, Conflict, Broken
  <2>4. fresh' \subseteq fresh /\ (fresh' # {} => plan' = plan /\ manual' = manual)
    BY <1>a, <1>b, <2>3, PutStores DEF GivesUp
  <2> QED
    BY <2>2, <2>4, CurrentKept
<1>13. ASSUME NEW t \in Tabs, NEW s \in Skus, StartRemoval(t, s)
       PROVE  Current'
  <2>1. removal' = [removal EXCEPT ![t] = [NoRemoval EXCEPT !.at = "flush", !.sku = s, !.quiet = ~Unmarks(t, s)]]
        /\ UNCHANGED <<server, sync>>
    BY <1>13 DEF StartRemoval
  <2>2. [NoRemoval EXCEPT !.at = "flush", !.sku = s, !.quiet = ~Unmarks(t, s)].at = "flush"
    BY DEF NoRemoval
  <2>3. RemovalsKeep
    BY <1>5, <2>1, <2>2
  <2> QED
    BY <1>3, <1>4, <2>1, <2>3 DEF server
<1>14. ASSUME NEW t \in Tabs, RemovalFlushes(t)
       PROVE  Current'
  <2>1. \E at \in {"own", "post"} : removal' = [removal EXCEPT ![t].at = at]
    BY <1>14 DEF RemovalFlushes
  <2>2. RemovalsKeep
    BY <1>a, <2>1 DEF RemovalsKeep, TaskShape, RemovalType
  <2> QED
    BY <1>3, <1>4, <1>14, <2>2 DEF RemovalFlushes, server
<1>15. ASSUME NEW t \in Tabs, plan' = plan, manual' = manual, fresh' = fresh \cup {<<t, "removal">>},
              sync' = sync, \A s \in Tabs \ {t} : removal'[s] = removal[s],
              removal'[t].plan = Without(plan, removal'[t].sku)
       PROVE  Current'
  <2>1. \A c \in Clients : <<c, "sync">> # <<t, "removal">> /\ sync'[c] = sync[c]
    BY <1>15, HoldersDiffer
  <2>2. \A s \in Tabs : removal'[s].at = "read" =>
           \/ /\ <<s, "removal">> # <<t, "removal">> /\ removal[s].at = "read"
              /\ removal'[s].plan = removal[s].plan /\ removal'[s].sku = removal[s].sku
           \/ removal'[s].plan = Without(plan, removal'[s].sku)
    <3>1. \A s \in Tabs \ {t} : <<s, "removal">> # <<t, "removal">>
      BY HoldersDiffer
    <3> QED
      BY <1>15, <3>1
  <2> QED
    BY <1>15, <2>1, <2>2, CurrentRead
<1>16. ASSUME NEW t \in Clients, plan' = plan, manual' = manual, fresh' = fresh \cup {<<t, "sync">>},
              RemovalsKeep, \A d \in Clients \ {t} : sync'[d] = sync[d],
              sync'[t].plan = plan, sync'[t].hand = manual
       PROVE  Current'
  <2>1. \A c \in Clients :
           \/ /\ <<c, "sync">> # <<t, "sync">>
              /\ sync'[c] = sync[c]
           \/ /\ sync'[c].plan = plan
              /\ sync'[c].hand = manual
    <3>1. \A c \in Clients \ {t} : <<c, "sync">> # <<t, "sync">>
      BY HoldersDiffer
    <3> QED
      BY <1>16, <3>1
  <2>2. \A s \in Tabs : removal'[s].at = "read" =>
           /\ <<s, "removal">> # <<t, "sync">> /\ removal[s].at = "read"
           /\ removal'[s].plan = removal[s].plan /\ removal'[s].sku = removal[s].sku
    BY <1>16, HoldersDiffer DEF RemovalsKeep
  <2> QED
    BY <1>16, <2>1, <2>2, CurrentRead
<1>17. ASSUME NEW t \in Tabs, RemovalReads(t)
       PROVE  Current'
  <2>1. /\ plan' = plan /\ manual' = manual /\ fresh' = fresh \cup {<<t, "removal">>} /\ sync' = sync
        /\ removal' = [removal EXCEPT ![t] = [removal[t] EXCEPT !.at = "read",
                          !.plan = Without(plan, removal[t].sku), !.hand = manual]]
    BY <1>17 DEF RemovalReads, Read
  <2>2. /\ \A s \in Tabs \ {t} : removal'[s] = removal[s]
        /\ removal'[t].plan = Without(plan, removal'[t].sku)
    BY <1>a, <1>b, <2>1 DEF TaskShape, RemovalType
  <2> QED
    BY <1>15, <2>1, <2>2
<1>18. ASSUME NEW t \in Tabs, RemovalCommits(t)
       PROVE  Current'
  <2>1. sync' = sync
    BY <1>18 DEF RemovalCommits
  <2>2. CASE "remove" \in Windows \/ VersionHolds(<<t, "removal">>)
    <3>1. /\ plan' = removal[t].plan /\ manual' = removal[t].hand
          /\ fresh' = {<<t, "removal">>} \cup
                (IF removal[t].plan = plan /\ removal[t].hand = manual THEN fresh ELSE {})
          /\ removal' = [removal EXCEPT ![t].at = "put"]
      BY <1>18, <2>2 DEF RemovalCommits
    <3>2. removal'[t].at = "put" /\ \A s \in Tabs \ {t} : removal'[s] = removal[s]
      BY <1>a, <3>1 DEF TaskShape, RemovalType
    <3>3. ASSUME NEW c \in Clients, <<c, "sync">> \in fresh', sync'[c].at \in {"put", "unmark"}
          PROVE  sync'[c].plan = plan' /\ sync'[c].hand = manual'
      BY <2>1, <3>1, <3>3, HoldersDiffer DEF Current
    <3>4. ASSUME NEW s \in Tabs, <<s, "removal">> \in fresh', removal'[s].at = "read"
          PROVE  removal'[s].plan = Without(plan', removal'[s].sku)
      BY <3>1, <3>2, <3>4, HoldersDiffer DEF Current
    <3> QED
      BY <3>3, <3>4 DEF Current
  <2>3. CASE ~("remove" \in Windows \/ VersionHolds(<<t, "removal">>))
    <3>1. /\ plan' = plan /\ manual' = manual /\ fresh' = fresh \cup {<<t, "removal">>}
          /\ removal' = [removal EXCEPT ![t] = [removal[t] EXCEPT !.plan = Without(plan, removal[t].sku), !.hand = manual]]
      BY <1>18, <2>3 DEF RemovalCommits, Read
    <3>2. /\ \A s \in Tabs \ {t} : removal'[s] = removal[s]
          /\ removal'[t].plan = Without(plan, removal'[t].sku)
      BY <1>a, <1>b, <3>1 DEF TaskShape, RemovalType
    <3> QED
      BY <1>15, <2>1, <3>1, <3>2
  <2> QED
    BY <2>2, <2>3
<1>19. ASSUME NEW t \in Tabs, RemovalPuts(t) \/ RemovalFails(t)
       PROVE  Current'
  <2>1. /\ removal[t].at # "idle" /\ removal' = [removal EXCEPT ![t] = NoRemoval] /\ sync' = sync
        /\ \/ Put(<<t, "removal">>, removal[t].plan, removal[t].hand \cup {removal[t].sku})
           \/ GivesUp(<<t, "removal">>)
    BY <1>19 DEF RemovalPuts, RemovalFails, Conflict, Broken
  <2>2. removal[t].plan \in Plans /\ removal[t].hand \cup {removal[t].sku} \in SUBSET Skus
    BY <1>a, <1>b, <2>1 DEF TaskShape, RemovalType
  <2>3. fresh' \subseteq fresh /\ (fresh' # {} => plan' = plan /\ manual' = manual)
    BY <1>a, <2>1, <2>2, PutStores DEF GivesUp
  <2> QED
    BY <1>3, <1>5, <1>d, <2>1, <2>3, CurrentKept
<1>20. ASSUME NEW t \in Tabs, StartSync(t)
       PROVE  Current'
  <2>1. sync' = [sync EXCEPT ![t] = [sync[t] EXCEPT !.at = "flush"]] /\ UNCHANGED <<server, removal>>
    BY <1>20 DEF StartSync
  <2>2. [sync[t] EXCEPT !.at = "flush"].at = "flush"
    BY <1>b, <1>c DEF SyncType
  <2> QED
    BY <1>2, <1>4, <1>6, <1>b, <2>1, <2>2 DEF server
<1>21. ASSUME NEW t \in Tabs, SyncFlushes(t)
       PROVE  Current'
  <2>1. \E at \in {"own", "get"} : sync' = [sync EXCEPT ![t] = [sync[t] EXCEPT !.at = at]]
    BY <1>21 DEF SyncFlushes
  <2>2. \A at \in {"own", "get"} : [sync[t] EXCEPT !.at = at].at = at
    BY <1>b, <1>c DEF SyncType
  <2>3. SyncsKeep
    BY <1>6, <1>b, <2>1, <2>2
  <2> QED
    BY <1>2, <1>4, <1>21, <2>3 DEF SyncFlushes, server
<1>22. ASSUME NEW c \in Clients, SyncGets(c) \/ RunnerGets(c)
       PROVE  Current'
  <2>1. /\ plan' = plan /\ manual' = manual /\ fresh' = fresh \cup {<<c, "sync">>} /\ removal' = removal
        /\ sync' = [sync EXCEPT ![c] = [sync[c] EXCEPT !.at = "put", !.plan = plan, !.hand = manual]]
    BY <1>22 DEF SyncGets, RunnerGets, Reads, Read
  <2>2. /\ \A d \in Clients \ {c} : sync'[d] = sync[d]
        /\ sync'[c].plan = plan /\ sync'[c].hand = manual
    BY <1>a, <1>c, <2>1 DEF TaskShape, SyncType
  <2> QED
    BY <1>2, <1>16, <2>1, <2>2
<1>23. ASSUME NEW t \in Tabs, NEW s \in Skus, ReturnGets(t, s)
       PROVE  Current'
  <2>1. /\ plan' = plan /\ manual' = manual /\ fresh' = fresh \cup {<<t, "sync">>}
        /\ sync' = [sync EXCEPT ![t] = [at |-> "unmark", sku |-> s, plan |-> plan, hand |-> manual]]
    BY <1>23 DEF ReturnGets, Read
  <2>2. /\ \A d \in Clients \ {t} : sync'[d] = sync[d]
        /\ sync'[t].plan = plan /\ sync'[t].hand = manual
    BY <1>a, <1>b, <2>1 DEF TaskShape
  <2>3. RemovalsKeep
    <3>1. removal' = [removal EXCEPT ![t].quiet = removal[t].quiet /\ removal[t].sku # s]
      BY <1>23 DEF ReturnGets
    <3> QED
      BY <1>7, <3>1, Zenon
  <2> QED
    BY <1>16, <1>b, <2>1, <2>2, <2>3
<1>24. ASSUME NEW c \in Clients, NEW p \in Plans, NEW h \in SUBSET Skus,
              Put(<<c, "sync">>, p, h) \/ GivesUp(<<c, "sync">>)
       PROVE  fresh' \subseteq fresh /\ (fresh' # {} => plan' = plan /\ manual' = manual)
  BY <1>24, <1>a, PutStores DEF GivesUp
<1>25. ASSUME NEW c \in Clients, SyncPuts(c) \/ SyncEnds(c)
       PROVE  Current'
  <2>1. /\ sync' = [sync EXCEPT ![c] = NoSync] /\ removal' = removal
        /\ \/ \E calc \in Plans : Put(<<c, "sync">>, Calculated(c, calc), sync[c].hand)
           \/ Put(<<c, "sync">>, sync[c].plan, sync[c].hand \ {sync[c].sku})
           \/ GivesUp(<<c, "sync">>)
    BY <1>25 DEF SyncPuts, SyncEnds
  <2>2. fresh' \subseteq fresh /\ (fresh' # {} => plan' = plan /\ manual' = manual)
    <3>1. ASSUME NEW calc \in Plans, Put(<<c, "sync">>, Calculated(c, calc), sync[c].hand)
          PROVE  fresh' \subseteq fresh /\ (fresh' # {} => plan' = plan /\ manual' = manual)
      BY <1>24, <1>a, <3>1, CalculatedIsPlan
    <3> QED
      BY <1>24, <1>c, <2>1, <3>1
  <2> QED
    BY <1>2, <1>6, <1>d, <2>1, <2>2, CurrentKept
<1>26. ASSUME NEW t \in Tabs, ReturnPuts(t)
       PROVE  Current'
  <2>1. /\ Put(<<t, "sync">>, sync[t].plan, sync[t].hand \ {sync[t].sku}) /\ removal' = removal
        /\ sync' = [sync EXCEPT ![t] = [NoSync EXCEPT !.at = "flush"]]
    BY <1>26 DEF ReturnPuts
  <2>2. [NoSync EXCEPT !.at = "flush"].at = "flush"
    BY DEF NoSync
  <2> QED
    BY <1>2, <1>6, <1>24, <1>b, <1>c, <2>1, <2>2, CurrentKept
<1>27. ASSUME Clear \/ \E s \in Skus : Commit(s)
       PROVE  Current'
  BY <1>2, <1>3, <1>27, CurrentKept DEF Clear, Commit
<1>28. ASSUME NEW s \in Skus, OtherReads(s) \/ OtherStores(s)
       PROVE  Current'
  BY <1>2, <1>3, <1>4, <1>28 DEF OtherReads, OtherStores
<1>29. CASE UNCHANGED vars
  BY <1>2, <1>3, <1>4, <1>29 DEF vars
<1>30. ASSUME NEW t \in Tabs, TabStep(t)
       PROVE  Current'
  BY <1>8, <1>9, <1>10, <1>11, <1>12, <1>13, <1>14, <1>17, <1>18, <1>19, <1>20, <1>21, <1>22,
     <1>23, <1>26, <1>30 DEF TabStep, Save, Remove, Clients
<1> QED
  BY <1>22, <1>25, <1>27, <1>28, <1>29, <1>30 DEF Next, Clients

LEMMA AlwaysCurrent == Spec => []Current
<1>1. Init => Current
  BY DEF Init, Current
<1> QED
  BY <1>1, AlwaysShaped, CurrentStep, PTL DEF Spec

\* A synchronisation writes what it has read of the SKUs a person has decided on,
\* and writes only if nobody has written since: whatever its calculation says and
\* however transactions overlap, it changes neither their plan, but for the clamp,
\* nor the set of them.
THEOREM PersonsPlanKept == Spec => ManualIsSacred
<1>1. ASSUME Shape, Current, [Next]_vars
      PROVE  [SyncWrites => manual' = manual
                            /\ \A s \in manual : plan'[s] = Less(plan[s], Cap(s))]_vars
  <2> SUFFICES ASSUME NEW c \in Clients, SyncPuts(c)
               PROVE  manual' = manual /\ \A s \in manual : plan'[s] = Less(plan[s], Cap(s))
    BY DEF SyncWrites
  <2>1. PICK calc \in Plans : Put(<<c, "sync">>, Calculated(c, calc), sync[c].hand)
    BY DEF SyncPuts
  <2>2. <<c, "sync">> \in fresh /\ sync[c].plan = plan /\ sync[c].hand = manual
    BY <1>1, <2>1 DEF SyncPuts, Put, VersionHolds, Current
  <2>3. plan' = Stored(Calculated(c, calc), manual) /\ manual' = manual
    BY <2>1, <2>2 DEF Put, Written
  <2>4. ASSUME NEW s \in manual
        PROVE  plan'[s] = Less(plan[s], Cap(s))
    <3>1. s \in Skus
      BY <1>1 DEF Shape, ServerShape
    <3>2. Calculated(c, calc)[s] = plan[s]
      BY <2>2, <3>1 DEF Calculated
    <3> QED
      BY <2>3, <3>1, <3>2 DEF Stored, Clamp, NewGrowth
  <2> QED
    BY <2>3, <2>4
<1> QED
  BY <1>1, AlwaysShaped, AlwaysCurrent, PTL DEF Spec, ManualIsSacred

-----------------------------------------------------------------------------
(* No box is promised twice *)

\* The promise with what it rests on: no write of another draft is on its way, its
\* clamp done (there is none when its transaction is not overlapped).
Promise == NoDoublePromise /\ \A s \in Skus : claim[s] = 0

LEMMA PromiseFits ==
    ASSUME ServerShape, Promise, UNCHANGED others, plan' \in Plans,
           \A s \in Skus : plan'[s] <= plan[s] \/ plan'[s] <= Minus(Stock, moving[s] + reserve[s])
    PROVE  Promise'
<1>1. ASSUME NEW s \in Skus
      PROVE  plan'[s] + moving[s] + reserve[s] <= Stock
  <2>1. /\ plan[s] \in Nat /\ plan'[s] \in Nat /\ moving[s] \in Nat /\ reserve[s] \in Nat /\ Stock \in Nat
        /\ plan[s] + moving[s] + reserve[s] <= Stock
    BY StockAssumption DEF ServerShape, Plans, Promise, NoDoublePromise
  <2>2. moving[s] + reserve[s] <= Stock => Minus(Stock, moving[s] + reserve[s]) = Stock - (moving[s] + reserve[s])
    BY <2>1 DEF Minus
  <2> QED
    BY <2>1, <2>2
<1> QED
  BY <1>1 DEF Promise, NoDoublePromise, others

\* A plan that passed the server's gates fits; one that is left alone did before.
LEMMA PromiseStored ==
    ASSUME ServerShape, Promise, UNCHANGED others,
           plan' = plan \/ \E p \in Plans, hands \in SUBSET Skus : plan' = Stored(p, hands)
    PROVE  Promise'
<1>1. CASE plan' = plan
  <2>1. \A s \in Skus : plan[s] <= plan[s]
    BY StockAssumption DEF ServerShape, Plans
  <2> QED
    BY <1>1, <2>1, PromiseFits DEF ServerShape
<1>2. ASSUME NEW p \in Plans, NEW hands \in SUBSET Skus, plan' = Stored(p, hands)
      PROVE  Promise'
  BY <1>2, StoredFits, PromiseFits
<1> QED
  BY <1>1, <1>2

LEMMA PromiseStep ==
    ASSUME Windows = {}, Shape, Current, Promise, [Next]_vars
    PROVE  Promise'
<1>a. ServerShape /\ ScreenShape /\ SavingShape /\ TaskShape /\ BoundShape
  BY DEF Shape
<1>b. \A t \in Tabs : /\ flight[t].edit.rows \in Plans /\ flight[t].edit.hand \in SUBSET Skus
                      /\ removal[t].plan \in Plans
                      /\ removal[t].at = "put" => removal[t].hand \cup {removal[t].sku} \in SUBSET Skus
  BY <1>a DEF TaskShape, FlightType, RemovalType, Edits
<1>c. \A c \in Clients : /\ sync[c].plan \in Plans /\ sync[c].hand \in SUBSET Skus
                         /\ sync[c].hand \ {sync[c].sku} \in SUBSET Skus
  BY <1>a DEF TaskShape, SyncType
<1>1. ASSUME UNCHANGED others, plan' = plan
      PROVE  Promise'
  BY <1>1, <1>a, PromiseStored
<1>2. ASSUME UNCHANGED others, NEW holder, NEW p \in Plans, NEW hands \in SUBSET Skus, Broken(holder, p, hands)
      PROVE  Promise'
  BY <1>2, <1>a, PromiseStored DEF Broken, Put, Written, GivesUp
<1>3. ASSUME NEW t \in Tabs,
             \/ \E s \in Skus, q \in 0..Stock : Click(t, s, q)
             \/ TimerFires(t) \/ FlightGets(t) \/ FlightGetFails(t) \/ FlightConflicts(t)
             \/ \E s \in Skus : StartRemoval(t, s)
             \/ RemovalFlushes(t) \/ RemovalReads(t)
             \/ StartSync(t) \/ SyncFlushes(t) \/ SyncGets(t)
             \/ \E s \in Skus : ReturnGets(t, s)
      PROVE  Promise'
  <2>1. UNCHANGED others /\ plan' = plan
    BY <1>3 DEF Click, TimerFires, FlightGets, FlightGetFails, FlightConflicts, StartRemoval, RemovalFlushes,
                RemovalReads, StartSync, SyncFlushes, SyncGets, ReturnGets, Reads, Read, Conflict, GivesUp, server, others
  <2> QED
    BY <1>1, <2>1
<1>4. ASSUME NEW t \in Tabs, FlightPuts(t) \/ FlightFails(t)
      PROVE  Promise'
  <2>1. UNCHANGED others /\ Broken(<<t, "flight">>, flight[t].edit.rows, flight[t].edit.hand)
    BY <1>4 DEF FlightPuts, FlightFails, Broken
  <2> QED
    BY <1>2, <1>b, <2>1
<1>5. ASSUME NEW t \in Tabs, RemovalPuts(t) \/ RemovalFails(t)
      PROVE  Promise'
  <2>1. /\ UNCHANGED others
        /\ \/ plan' = plan
           \/ /\ removal[t].at = "put"
              /\ Broken(<<t, "removal">>, removal[t].plan, removal[t].hand \cup {removal[t].sku})
    BY <1>5 DEF RemovalPuts, RemovalFails, Broken, Conflict, GivesUp
  <2> QED
    BY <1>1, <1>2, <1>b, <2>1
<1>6. ASSUME NEW t \in Tabs, RemovalCommits(t)
      PROVE  Promise'
  <2>1. UNCHANGED others /\ (plan' = plan \/ plan' = Without(plan, removal[t].sku))
    <3>1. CASE VersionHolds(<<t, "removal">>)
      BY <1>6, <3>1 DEF RemovalCommits, VersionHolds, Current
    <3>2. CASE ~VersionHolds(<<t, "removal">>)
      BY <1>6, <3>2 DEF RemovalCommits, Read
    <3> QED
      BY <3>1, <3>2
  <2>2. plan \in Plans /\ Without(plan, removal[t].sku) \in Plans
    BY <1>a, WithoutIsPlan DEF ServerShape
  <2>3. \A s \in Skus : plan[s] <= plan[s] /\ Without(plan, removal[t].sku)[s] <= plan[s]
    BY <2>2, StockAssumption DEF Plans, Without
  <2> QED
    BY <1>a, <2>1, <2>2, <2>3, PromiseFits
<1>7. ASSUME NEW c \in Clients, SyncPuts(c) \/ SyncEnds(c)
      PROVE  Promise'
  <2>1. /\ UNCHANGED others
        /\ \/ \E calc \in Plans : Broken(<<c, "sync">>, Calculated(c, calc), sync[c].hand)
           \/ Broken(<<c, "sync">>, sync[c].plan, sync[c].hand \ {sync[c].sku})
    BY <1>7, ZeroIsPlan DEF SyncPuts, SyncEnds, Broken
  <2> QED
    BY <1>2, <1>a, <1>c, <2>1, CalculatedIsPlan
<1>8. ASSUME NEW t \in Tabs, ReturnPuts(t)
      PROVE  Promise'
  <2>1. t \in Clients /\ UNCHANGED others /\ Broken(<<t, "sync">>, sync[t].plan, sync[t].hand \ {sync[t].sku})
    BY <1>8 DEF ReturnPuts, Broken, Clients
  <2> QED
    BY <1>2, <1>c, <2>1
<1>9. ASSUME NEW c \in Runners, RunnerGets(c)
      PROVE  Promise'
  BY <1>1, <1>9 DEF RunnerGets, Reads, Read
<1>10. CASE Clear
  <2>1. \A s \in Skus : Zero[s] <= plan[s]
    BY <1>a, StockAssumption DEF ServerShape, Plans, Zero
  <2> QED
    BY <1>10, <1>a, <2>1, ZeroIsPlan, PromiseFits DEF Clear
<1>11. ASSUME NEW s \in Skus
       PROVE  /\ plan[s] \in Nat /\ moving[s] \in Nat /\ reserve[s] \in Nat /\ claim[s] = 0 /\ Stock \in Nat
              /\ plan[s] + moving[s] + reserve[s] <= Stock
  BY <1>a, StockAssumption DEF ServerShape, Plans, Promise, NoDoublePromise
<1>12. ASSUME NEW s \in Skus, Commit(s)
       PROVE  Promise'
  <2>1. /\ reserve' = reserve /\ claim' = claim
        /\ \A r \in Skus \ {s} : plan'[r] = plan[r] /\ moving'[r] = moving[r]
        /\ plan'[s] = 0 /\ moving'[s] = moving[s] + plan[s]
    BY <1>12, <1>a DEF Commit, Without, ServerShape, Plans
  <2> QED
    BY <1>11, <2>1 DEF Promise, NoDoublePromise
<1>13. ASSUME NEW s \in Skus, OtherReads(s)
       PROVE  Promise'
  <2>1. /\ plan' = plan /\ moving' = moving /\ claim' = claim
        /\ \A r \in Skus \ {s} : reserve'[r] = reserve[r]
        /\ reserve'[s] = Minus(Stock, moving[s] + plan[s])
    BY <1>13, <1>a DEF OtherReads, ServerShape
  <2>2. Minus(Stock, moving[s] + plan[s]) + plan[s] + moving[s] <= Stock
    BY <1>11 DEF Minus
  <2>3. ASSUME NEW r \in Skus
        PROVE  plan'[r] + moving'[r] + reserve'[r] <= Stock /\ claim'[r] = 0
    <3>1. CASE r = s
      <4>1. moving[s] + plan[s] \in Nat
        BY <1>11
      <4>2. Minus(Stock, moving[s] + plan[s]) \in Nat
        BY <4>1, <1>11, MinusBounds
      <4> QED
        BY <1>11, <2>1, <2>2, <3>1, <4>2
    <3>2. CASE r # s
      BY <1>11, <2>1, <3>2
    <3> QED
      BY <3>1, <3>2
  <2> QED
    BY <2>3 DEF Promise, NoDoublePromise
<1>14. ASSUME NEW s \in Skus, OtherStores(s)
       PROVE  Promise'
  <2>1. /\ plan' = plan /\ moving' = moving
        /\ \A r \in Skus : claim'[r] = 0 /\ (reserve'[r] = reserve[r] \/ reserve'[r] = 0)
    BY <1>14, <1>11, <1>a DEF OtherStores, ServerShape
  <2> QED
    BY <1>11, <2>1 DEF Promise, NoDoublePromise
<1>15. CASE UNCHANGED vars
  BY <1>1, <1>15 DEF vars, others
<1>16. ASSUME NEW t \in Tabs, TabStep(t)
       PROVE  Promise'
  BY <1>3, <1>4, <1>5, <1>6, <1>8, <1>16 DEF TabStep, Save, Remove
<1> QED
  BY <1>7, <1>9, <1>10, <1>12, <1>13, <1>14, <1>15, <1>16 DEF Next

LEMMA AlwaysPromise ==
    ASSUME Windows = {}
    PROVE  Spec => []Promise
<1>1. Init => Promise
  BY StockAssumption DEF Init, Promise, NoDoublePromise, Zero
<1>2. Shape /\ Current /\ Promise /\ [Next]_vars => Promise'
  BY PromiseStep
<1> QED
  BY <1>1, <1>2, AlwaysShaped, AlwaysCurrent, PTL DEF Spec

\* When no two transactions of the server overlap, drafts and requests together never
\* promise more of a SKU than the centre has, whatever versions the tabs hold, however
\* saves, removals and synchronisations interleave, fail or are repeated.
THEOREM PromiseKept ==
    ASSUME Windows = {}
    PROVE  Spec => []NoDoublePromise
<1>1. Promise => NoDoublePromise
  BY DEF Promise
<1> QED
  BY <1>1, AlwaysPromise, PTL

\* Every variable keeps its shape, and a save that an operation awaits is one that
\* operation began.
THEOREM TypeCorrect ==
    ASSUME Windows = {}
    PROVE  Spec => []TypeOK
<1>1. Shape /\ Promise => TypeOK
  <2> SUFFICES ASSUME Shape, Promise
               PROVE  TypeOK
    OBVIOUS
  <2>1. moving \in Plans /\ reserve \in Plans /\ claim \in Plans
    <3>1. ASSUME NEW s \in Skus
          PROVE  moving[s] \in 0..Stock /\ reserve[s] \in 0..Stock /\ claim[s] \in 0..Stock
      BY StockAssumption DEF Shape, ServerShape, Plans, Promise, NoDoublePromise
    <3> QED
      BY <3>1 DEF Shape, ServerShape, Plans
  <2>2. \A t \in Tabs : flight[t] \in FlightType
    BY DEF Shape, TaskShape
  <2> QED
    BY <2>1, <2>2 DEF Shape, ServerShape, ScreenShape, SavingShape, TaskShape, BoundShape, FlightType, TypeOK
<1> QED
  BY <1>1, AlwaysShaped, AlwaysPromise, PTL
-----------------------------------------------------------------------------
(* What was taken out stays out *)

OneTab == \A t, u \in Tabs : t = u

\* What remove_rows_by_nm has read, and what the tab holds of its answer, lacks the
\* SKU; while nobody has written since, it is what is stored.
Lacks(r) == r.plan[r.sku] = 0

ReadWell(t) ==
    /\ removal[t].at \in {"read", "put"} => Lacks(removal[t])
    /\ removal[t].at \in {"read", "put"} /\ <<t, "removal">> \in fresh => removal[t].hand = manual
    /\ removal[t].at = "put" /\ <<t, "removal">> \in fresh => removal[t].plan = plan

RemovalCurrent == \A t \in Tabs : ReadWell(t)

Free(e, s) == e.is => e.rows[s] = 0 /\ s \in e.hand

\* Nothing a tab has yet to save brings SKU s back.
Out(t, s) ==
    /\ Free(pending[t], s)
    /\ flight[t].at # "none" => flight[t].edit.rows[s] = 0 /\ s \in flight[t].edit.hand

NoReturn(s) == \A c \in Clients : sync[c].at = "unmark" => sync[c].sku # s

\* SKU s is out, and a person's decision everywhere.
Gone(s) ==
    /\ plan[s] = 0 /\ s \in manual /\ NoReturn(s)
    /\ \A t \in Tabs : rows[t][s] = 0 /\ s \in hand[t] /\ Out(t, s)

\* A removal during which the user has touched nothing: once its own save has
\* landed, no edit that waits holds its SKU.
QuietRemoval(t) ==
    removal[t].quiet =>
        /\ NoReturn(removal[t].sku)
        /\ removal[t].at = "own" => ~pending[t].is
        /\ removal[t].at \in {"post", "read", "put"} => Out(t, removal[t].sku)

Stays ==
    /\ \A c \in Clients : sync[c].at = "unmark" => c \in Tabs
    /\ \A s \in removed : Gone(s)
    /\ \A t \in Tabs : QuietRemoval(t)

LEMMA RemovalHeld ==
    ASSUME RemovalCurrent,
           \A t \in Tabs : <<t, "removal">> \in fresh' =>
               <<t, "removal">> \in fresh /\ plan' = plan /\ manual' = manual,
           \A t \in Tabs : removal'[t].at \in {"read", "put"} =>
               /\ removal'[t].at = removal[t].at /\ removal'[t].sku = removal[t].sku
               /\ removal'[t].plan = removal[t].plan /\ removal'[t].hand = removal[t].hand
    PROVE  RemovalCurrent'
<1>1. ASSUME NEW t \in Tabs, removal'[t].at \in {"read", "put"}
      PROVE  /\ Lacks(removal'[t])
             /\ <<t, "removal">> \in fresh' => removal'[t].hand = manual'
             /\ removal'[t].at = "put" /\ <<t, "removal">> \in fresh' => removal'[t].plan = plan'
  BY <1>1 DEF RemovalCurrent, ReadWell, Lacks
<1>2. ASSUME NEW t \in Tabs
      PROVE  ReadWell(t)'
  BY <1>1 DEF ReadWell
<1> QED
  BY <1>2, Zenon DEF RemovalCurrent

\* Only the removal itself takes part in what it has read.
LEMMA RemovalCurrentStep ==
    ASSUME "remove" \notin Windows, Shape, Current, RemovalCurrent, [Next]_vars
    PROVE  RemovalCurrent'
<1> DEFINE Apart == \A t \in Tabs : <<t, "removal">> \in fresh' =>
                        <<t, "removal">> \in fresh /\ plan' = plan /\ manual' = manual
           Kept == \A t \in Tabs : removal'[t].at \in {"read", "put"} =>
                        /\ removal'[t].at = removal[t].at /\ removal'[t].sku = removal[t].sku
                        /\ removal'[t].plan = removal[t].plan /\ removal'[t].hand = removal[t].hand
<1>a. ServerShape /\ ScreenShape /\ SavingShape /\ TaskShape /\ BoundShape
  BY DEF Shape
<1>b. \A t \in Tabs : /\ removal[t] \in RemovalType /\ flight[t] \in FlightType /\ t \in Clients
                      /\ flight[t].edit.rows \in Plans /\ flight[t].edit.hand \in SUBSET Skus
                      /\ pending[t] \in Edits /\ timer[t] \in BOOLEAN /\ Back(t) \in Edits
  BY <1>a DEF TaskShape, SavingShape, FlightType, Edits, Clients, Back
<1>c. \A c \in Clients : /\ sync[c] \in SyncType /\ sync[c].plan \in Plans /\ sync[c].hand \in SUBSET Skus
                         /\ sync[c].hand \ {sync[c].sku} \in SUBSET Skus
  BY <1>a DEF TaskShape, SyncType
<1>d. NoEdit \in Edits /\ NoRemoval.at = "idle"
  BY NullTypes DEF NoRemoval
<1>1. ASSUME Apart, Kept
      PROVE  RemovalCurrent'
  BY <1>1, RemovalHeld
<1>2. ASSUME removal' = removal
      PROVE  Kept
  BY <1>2
<1>3. ASSUME NEW t \in Tabs, NEW edit \in Edits, NEW timing \in BOOLEAN, Land(t, edit, timing)
      PROVE  Kept
  BY <1>3, LandTyped
<1>4. ASSUME NEW t \in Tabs, NEW x, removal' = [removal EXCEPT ![t] = x], x.at \notin {"read", "put"}
      PROVE  Kept
  BY <1>4, <1>a DEF TaskShape
<1>5. ASSUME NEW t \in Tabs, NEW quiet, removal' = [removal EXCEPT ![t].quiet = quiet]
      PROVE  Kept
  BY <1>5, <1>a DEF TaskShape, RemovalType
<1>6. ASSUME UNCHANGED <<plan, manual, fresh>>
      PROVE  Apart
  BY <1>6
<1>7. ASSUME fresh' = {}
      PROVE  Apart
  BY <1>7
<1>8. ASSUME NEW t, Read(<<t, "flight">>) \/ Read(<<t, "sync">>)
      PROVE  Apart
  BY <1>8, HoldersDiffer DEF Read
<1>9. ASSUME NEW holder, NEW p \in Plans, NEW hands \in SUBSET Skus, Broken(holder, p, hands)
      PROVE  Apart
  BY <1>9, <1>a, BrokenStores, PutStores DEF Broken, GivesUp
<1>10. ASSUME NEW holder, GivesUp(holder)
       PROVE  Apart
  BY <1>10 DEF GivesUp
<1> HIDE DEF Apart, Kept
<1>11. ASSUME NEW t \in Tabs, NEW s \in Skus, NEW q \in 0..Stock, Click(t, s, q)
       PROVE  RemovalCurrent'
  BY <1>1, <1>5, <1>6, <1>11 DEF Click, server
<1>12. ASSUME NEW t \in Tabs, TimerFires(t) \/ StartSync(t) \/ SyncFlushes(t)
       PROVE  RemovalCurrent'
  BY <1>1, <1>2, <1>6, <1>12 DEF TimerFires, StartSync, SyncFlushes, server
<1>13. ASSUME NEW t \in Tabs, FlightGets(t)
       PROVE  RemovalCurrent'
  BY <1>1, <1>2, <1>8, <1>13 DEF FlightGets
<1>14. ASSUME NEW t \in Tabs, FlightGetFails(t)
       PROVE  RemovalCurrent'
  <2>1. Land(t, Back(t), TRUE) \/ Land(t, NoEdit, timer[t])
    BY <1>14 DEF FlightGetFails
  <2>2. Kept
    BY <1>3, <1>b, <1>d, <2>1
  <2> QED
    BY <1>1, <1>6, <1>14, <2>2 DEF FlightGetFails, server
<1>15. ASSUME NEW t \in Tabs, FlightPuts(t) \/ FlightConflicts(t) \/ FlightFails(t)
       PROVE  RemovalCurrent'
  <2>1. Land(t, pending[t], timer[t]) \/ Land(t, Back(t), TRUE)
    BY <1>15 DEF FlightPuts, FlightConflicts, FlightFails
  <2>2. Kept
    BY <1>3, <1>b, <2>1
  <2>3. Broken(<<t, "flight">>, flight[t].edit.rows, flight[t].edit.hand)
    BY <1>15 DEF FlightPuts, FlightConflicts, FlightFails, Conflict, Broken
  <2> QED
    BY <1>1, <1>9, <1>b, <2>2, <2>3
<1>16. ASSUME NEW t \in Tabs, NEW s \in Skus, StartRemoval(t, s)
       PROVE  RemovalCurrent'
  <2>1. removal' = [removal EXCEPT ![t] = [NoRemoval EXCEPT !.at = "flush", !.sku = s, !.quiet = ~Unmarks(t, s)]]
        /\ UNCHANGED server
    BY <1>16 DEF StartRemoval
  <2>2. [NoRemoval EXCEPT !.at = "flush", !.sku = s, !.quiet = ~Unmarks(t, s)].at = "flush"
    BY DEF NoRemoval
  <2>3. Kept
    BY <1>4, <2>1, <2>2
  <2> QED
    BY <1>1, <1>6, <2>1, <2>3 DEF server
<1>17. ASSUME NEW t \in Tabs, RemovalFlushes(t)
       PROVE  RemovalCurrent'
  <2>1. UNCHANGED server /\ \E at \in {"own", "post"} : removal' = [removal EXCEPT ![t].at = at]
    BY <1>17 DEF RemovalFlushes
  <2>2. Kept
    BY <1>a, <2>1 DEF Kept, TaskShape, RemovalType
  <2> QED
    BY <1>1, <1>6, <2>1, <2>2 DEF server
<1>18. ASSUME NEW t \in Tabs, plan' = plan, manual' = manual, fresh' = fresh \cup {<<t, "removal">>},
              \A u \in Tabs \ {t} : removal'[u] = removal[u], removal'[t].at = "read",
              removal'[t].plan = Without(plan, removal'[t].sku), removal'[t].hand = manual,
              removal'[t].sku \in Skus
       PROVE  RemovalCurrent'
  <2>1. Without(plan, removal'[t].sku)[removal'[t].sku] = 0
    BY <1>18, <1>a DEF Without, ServerShape, Plans
  <2>2. ASSUME NEW u \in Tabs, removal'[u].at \in {"read", "put"}
        PROVE  /\ Lacks(removal'[u])
               /\ <<u, "removal">> \in fresh' => removal'[u].hand = manual'
               /\ removal'[u].at = "put" /\ <<u, "removal">> \in fresh' => removal'[u].plan = plan'
    <3>1. CASE u = t
      BY <1>18, <2>1, <3>1 DEF Lacks
    <3>2. CASE u # t
      <4>1. removal'[u] = removal[u]
        BY <1>18, <3>2
      <4>2. <<u, "removal">> \in fresh' => <<u, "removal">> \in fresh
        BY <1>18, <3>2, HoldersDiffer
      <4> QED
        BY <1>18, <2>2, <4>1, <4>2 DEF RemovalCurrent, ReadWell
    <3> QED
      BY <3>1, <3>2
  <2>3. ASSUME NEW u \in Tabs
        PROVE  ReadWell(u)'
    BY <2>2 DEF ReadWell
  <2> QED
    BY <2>3, Zenon DEF RemovalCurrent
<1>19. ASSUME NEW t \in Tabs, RemovalReads(t)
       PROVE  RemovalCurrent'
  <2>1. /\ plan' = plan /\ manual' = manual /\ fresh' = fresh \cup {<<t, "removal">>} /\ removal[t].at = "post"
        /\ removal' = [removal EXCEPT ![t] = [removal[t] EXCEPT !.at = "read",
                          !.plan = Without(plan, removal[t].sku), !.hand = manual]]
    BY <1>19 DEF RemovalReads, Read
  <2>2. /\ \A u \in Tabs \ {t} : removal'[u] = removal[u]
        /\ removal'[t].at = "read" /\ removal'[t].sku = removal[t].sku
        /\ removal'[t].plan = Without(plan, removal[t].sku) /\ removal'[t].hand = manual
    BY <1>a, <1>b, <2>1 DEF TaskShape, RemovalType
  <2> QED
    BY <1>18, <1>a, <2>1, <2>2 DEF TaskShape
<1>20. ASSUME NEW t \in Tabs, RemovalCommits(t)
       PROVE  RemovalCurrent'
  <2>1. CASE VersionHolds(<<t, "removal">>)
    <3>1. /\ removal[t].at = "read" /\ plan' = removal[t].plan /\ manual' = removal[t].hand
          /\ fresh' = {<<t, "removal">>} \cup
                (IF removal[t].plan = plan /\ removal[t].hand = manual THEN fresh ELSE {})
          /\ removal' = [removal EXCEPT ![t].at = "put"]
      BY <1>20, <2>1 DEF RemovalCommits
    <3>2. /\ \A u \in Tabs \ {t} : removal'[u] = removal[u]
          /\ removal'[t].at = "put" /\ removal'[t].sku = removal[t].sku
          /\ removal'[t].plan = removal[t].plan /\ removal'[t].hand = removal[t].hand
      BY <1>a, <1>b, <3>1 DEF TaskShape, RemovalType
    <3>3. Lacks(removal[t])
      BY <3>1 DEF RemovalCurrent, ReadWell
    <3>4. ASSUME NEW u \in Tabs, removal'[u].at \in {"read", "put"}
          PROVE  /\ Lacks(removal'[u])
                 /\ <<u, "removal">> \in fresh' => removal'[u].hand = manual'
                 /\ removal'[u].at = "put" /\ <<u, "removal">> \in fresh' => removal'[u].plan = plan'
      <4>1. CASE u = t
        BY <3>1, <3>2, <3>3, <4>1 DEF Lacks
      <4>2. CASE u # t
        <5>1. removal'[u] = removal[u]
          BY <3>2, <4>2
        <5>2. <<u, "removal">> \in fresh' => <<u, "removal">> \in fresh /\ plan' = plan /\ manual' = manual
          BY <3>1, <4>2, HoldersDiffer
        <5> QED
          BY <3>4, <5>1, <5>2 DEF RemovalCurrent, ReadWell
      <4> QED
        BY <4>1, <4>2
    <3>5. ASSUME NEW u \in Tabs
          PROVE  ReadWell(u)'
      BY <3>4 DEF ReadWell
    <3> QED
      BY <3>5, Zenon DEF RemovalCurrent
  <2>2. CASE ~VersionHolds(<<t, "removal">>)
    <3>1. /\ plan' = plan /\ manual' = manual /\ fresh' = fresh \cup {<<t, "removal">>} /\ removal[t].at = "read"
          /\ removal' = [removal EXCEPT ![t] = [removal[t] EXCEPT !.plan = Without(plan, removal[t].sku), !.hand = manual]]
      BY <1>20, <2>2 DEF RemovalCommits, Read
    <3>2. /\ \A u \in Tabs \ {t} : removal'[u] = removal[u]
          /\ removal'[t].at = "read" /\ removal'[t].sku = removal[t].sku
          /\ removal'[t].plan = Without(plan, removal[t].sku) /\ removal'[t].hand = manual
      BY <1>a, <1>b, <3>1 DEF TaskShape, RemovalType
    <3> QED
      BY <1>18, <1>a, <3>1, <3>2 DEF TaskShape
  <2> QED
    BY <2>1, <2>2
<1>21. ASSUME NEW t \in Tabs, RemovalPuts(t) \/ RemovalFails(t)
       PROVE  RemovalCurrent'
  <2>1. /\ removal[t].at # "idle" /\ removal' = [removal EXCEPT ![t] = NoRemoval]
        /\ Broken(<<t, "removal">>, removal[t].plan, removal[t].hand \cup {removal[t].sku})
    BY <1>21 DEF RemovalPuts, RemovalFails, Conflict, Broken
  <2>2. removal[t].plan \in Plans /\ removal[t].hand \cup {removal[t].sku} \in SUBSET Skus
    BY <1>a, <1>b, <2>1 DEF TaskShape, RemovalType
  <2> QED
    BY <1>1, <1>4, <1>9, <1>d, <2>1, <2>2
<1>22. ASSUME NEW c \in Clients, SyncGets(c) \/ RunnerGets(c)
       PROVE  RemovalCurrent'
  BY <1>1, <1>2, <1>8, <1>22 DEF SyncGets, RunnerGets, Reads
<1>23. ASSUME NEW t \in Tabs, NEW s \in Skus, ReturnGets(t, s)
       PROVE  RemovalCurrent'
  <2>1. removal' = [removal EXCEPT ![t].quiet = removal[t].quiet /\ removal[t].sku # s]
    BY <1>23 DEF ReturnGets
  <2>2. Kept
    BY <1>5, <2>1, Zenon
  <2> QED
    BY <1>1, <1>8, <1>23, <2>2 DEF ReturnGets
<1>24. ASSUME NEW c \in Clients, SyncPuts(c) \/ SyncEnds(c)
       PROVE  RemovalCurrent'
  <2>1. /\ removal' = removal
        /\ \/ \E calc \in Plans : Broken(<<c, "sync">>, Calculated(c, calc), sync[c].hand)
           \/ Broken(<<c, "sync">>, sync[c].plan, sync[c].hand \ {sync[c].sku})
    BY <1>24 DEF SyncPuts, SyncEnds, Broken
  <2>2. Apart
    BY <1>9, <1>a, <1>c, <2>1, CalculatedIsPlan
  <2> QED
    BY <1>1, <1>2, <2>1, <2>2
<1>25. ASSUME NEW t \in Tabs, ReturnPuts(t)
       PROVE  RemovalCurrent'
  <2>1. removal' = removal /\ Broken(<<t, "sync">>, sync[t].plan, sync[t].hand \ {sync[t].sku})
    BY <1>25 DEF ReturnPuts, Broken
  <2> QED
    BY <1>1, <1>2, <1>9, <1>b, <1>c, <2>1
<1>26. ASSUME Clear \/ \E s \in Skus : Commit(s)
       PROVE  RemovalCurrent'
  BY <1>1, <1>2, <1>7, <1>26 DEF Clear, Commit
<1>27. ASSUME NEW s \in Skus, OtherReads(s) \/ OtherStores(s)
       PROVE  RemovalCurrent'
  BY <1>1, <1>2, <1>6, <1>27 DEF OtherReads, OtherStores
<1>28. CASE UNCHANGED vars
  BY <1>1, <1>2, <1>6, <1>28 DEF vars
<1>29. ASSUME NEW t \in Tabs, TabStep(t)
       PROVE  RemovalCurrent'
  BY <1>11, <1>12, <1>13, <1>14, <1>15, <1>16, <1>17, <1>19, <1>20, <1>21, <1>22, <1>23, <1>25, <1>29
     DEF TabStep, Save, Remove, Clients
<1> QED
  BY <1>22, <1>24, <1>26, <1>27, <1>28, <1>29 DEF Next, Clients

LEMMA AlwaysRemovalCurrent ==
    ASSUME "remove" \notin Windows
    PROVE  Spec => []RemovalCurrent
<1>1. Init => RemovalCurrent
  BY DEF Init, RemovalCurrent, ReadWell, NoRemoval
<1>2. Shape /\ Current /\ RemovalCurrent /\ [Next]_vars => RemovalCurrent'
  BY RemovalCurrentStep
<1> QED
  BY <1>1, <1>2, AlwaysShaped, AlwaysCurrent, PTL DEF Spec

\* A plan without a SKU is stored without it.
LEMMA StoredZero ==
    ASSUME ServerShape, NEW p \in Plans, NEW hands, NEW s \in Skus, p[s] = 0
    PROVE  Stored(p, hands)[s] = 0
<1>1. moving[s] \in Nat /\ reserve[s] \in Nat /\ moving[s] + reserve[s] \in Nat /\ plan[s] \in Nat
  BY StockAssumption DEF ServerShape, Plans
<1>2. Minus(0, plan[s]) = 0
  BY <1>1 DEF Minus
<1>3. Less(moving[s], 0) = 0
  BY <1>1 DEF Less
<1>4. NewGrowth(s, 0, hands) = 0
  BY <1>2, <1>3 DEF NewGrowth
<1>5. Minus(Stock, moving[s] + reserve[s]) \in Nat
  BY <1>1, StockAssumption, MinusBounds
<1>6. Clamp(s, 0) = 0
  BY <1>5 DEF Clamp, Cap, Less
<1> QED
  BY <1>4, <1>6 DEF Stored

LEMMA StripFrees ==
    ASSUME NEW e \in Edits, NEW u \in Skus, NEW s \in Skus
    PROVE  /\ Free(Stripped(e, s), s)
           /\ Free(e, s) => Free(Stripped(e, u), s)
<1>1. CASE e.is
  <2>1. \A r \in Skus : /\ Stripped(e, r).rows = [e.rows EXCEPT ![r] = 0]
                        /\ Stripped(e, r).hand = e.hand \cup {r}
    BY <1>1 DEF Stripped, Edit, Without
  <2>2. e.rows \in [Skus -> 0..Stock]
    BY DEF Edits, Plans
  <2>3. Stripped(e, s).rows[s] = 0 /\ s \in Stripped(e, s).hand
    BY <2>1, <2>2
  <2>4. ASSUME e.rows[s] = 0, s \in e.hand
        PROVE  Stripped(e, u).rows[s] = 0 /\ s \in Stripped(e, u).hand
    BY <2>1, <2>2, <2>4
  <2> QED
    BY <1>1, <2>3, <2>4 DEF Free
<1>2. CASE ~e.is
  BY <1>2 DEF Stripped, Free
<1> QED
  BY <1>1, <1>2 DEF Edits

LEMMA TakeOut ==
    ASSUME Shape, NEW t \in Tabs, NEW owner, Take(t, pending[t], owner), pending[t].is
    PROVE  /\ ~pending'[t].is
           /\ \A s \in Skus : Out(t, s) => Out(t, s)'
<1>1. pending'[t] = NoEdit /\ flight'[t] = Flight(pending[t], owner)
  BY DEF Take, Shape, SavingShape, TaskShape
<1>2. ~NoEdit.is /\ Flight(pending[t], owner).edit = pending[t]
  BY DEF NoEdit, Flight
<1> QED
  BY <1>1, <1>2 DEF Out, Free

\* However a save ends, nothing that was out comes back by it; and the removal that
\* awaited it goes on with a tab that has nothing of its SKU left to save.
LEMMA LandOut ==
    ASSUME Shape, NEW t \in Tabs, NEW edit \in {Back(t), pending[t], NoEdit}, NEW timing \in BOOLEAN,
           Land(t, edit, timing), flight[t].at # "none", edit.is /\ ~timing => edit = pending[t],
           QuietRemoval(t)
    PROVE  /\ \A s \in Skus : Out(t, s) => Out(t, s)'
           /\ QuietRemoval(t)'
<1> DEFINE again == edit.is /\ ~timing
           rest == IF again THEN NoEdit ELSE edit
<1>a. /\ pending[t] \in Edits /\ flight[t] \in FlightType /\ flight[t].edit \in Edits
      /\ removal[t] \in RemovalType /\ edit \in Edits /\ rest \in Edits
      /\ removal[t].at # "idle" => removal[t].sku \in Skus
      /\ removal[t].at = "own" <=> flight[t].owner = "removal"
  BY NullTypes DEF Shape, TaskShape, SavingShape, FlightType, Back
<1>b. \A s \in Skus : Free(NoEdit, s)
  BY DEF Free, NoEdit
<1>c. \A s \in Skus : Out(t, s) => Free(edit, s)
  BY <1>b DEF Out, Free, Back
<1>d. /\ flight'[t] = (IF again THEN Flight(edit, "none") ELSE NoFlight)
      /\ pending'[t] = (IF flight[t].owner = "removal" THEN Stripped(rest, removal[t].sku) ELSE rest)
  BY DEF Land, Shape, TaskShape, SavingShape
<1>e. NoFlight.at = "none" /\ Flight(edit, "none").edit = edit
  BY DEF NoFlight, Flight
<1>f. \A s \in Skus : Free(edit, s) => Free(rest, s)
  BY <1>b
<1>1. ASSUME NEW s \in Skus, Free(edit, s)
      PROVE  Out(t, s)'
  <2>1. Free(pending'[t], s)
    <3>1. CASE flight[t].owner = "removal"
      BY <1>1, <1>a, <1>d, <1>f, <3>1, StripFrees
    <3>2. CASE flight[t].owner # "removal"
      BY <1>1, <1>d, <1>f, <3>2
    <3> QED
      BY <3>1, <3>2
  <2>2. flight'[t].at # "none" => flight'[t].edit.rows[s] = 0 /\ s \in flight'[t].edit.hand
    BY <1>1, <1>d, <1>e DEF Free
  <2> QED
    BY <2>1, <2>2 DEF Out
<1>2. ASSUME NEW k, NoReturn(k)
      PROVE  NoReturn(k)'
  <2>1. \A c \in Clients : sync'[c] = sync[c] \/ sync'[c].at \in {"idle", "get"}
    BY <1>a, LandTyped
  <2> QED
    BY <1>2, <2>1 DEF NoReturn
<1>3. ASSUME removal'[t].quiet, NEW k, k = removal'[t].sku
      PROVE  /\ NoReturn(k)'
             /\ removal'[t].at = "own" => ~pending'[t].is
             /\ removal'[t].at \in {"post", "read", "put"} => Out(t, k)'
  <2>1. CASE flight[t].owner = "removal"
    <3>1. removal' = [removal EXCEPT ![t].at = "post"]
      BY <2>1 DEF Land
    <3>2. removal'[t].at = "post" /\ removal[t].sku = k /\ removal[t].quiet
      BY <1>3, <1>a, <3>1 DEF Shape, TaskShape, RemovalType
    <3>3. NoReturn(k)
      BY <3>2 DEF QuietRemoval
    <3>4. ~again
      BY <1>a, <2>1, <3>2 DEF QuietRemoval
    <3>5. k \in Skus
      BY <1>a, <2>1, <3>2
    <3>6. Free(pending'[t], k) /\ flight'[t] = NoFlight
      BY <1>a, <1>d, <2>1, <3>2, <3>4, <3>5, StripFrees
    <3>7. Out(t, k)'
      BY <1>e, <3>6 DEF Out
    <3> QED
      BY <1>2, <3>2, <3>3, <3>7
  <2>2. CASE flight[t].owner # "removal"
    <3>1. removal'[t] = removal[t] /\ removal[t].at # "own" /\ removal[t].sku = k /\ removal[t].quiet
      BY <1>3, <1>a, <2>2 DEF Land
    <3>2. NoReturn(k)
      BY <3>1 DEF QuietRemoval
    <3>3. ASSUME removal[t].at \in {"post", "read", "put"}
          PROVE  Out(t, k)'
      <4>1. Out(t, k) /\ k \in Skus
        BY <1>a, <3>1, <3>3 DEF QuietRemoval
      <4> QED
        BY <1>1, <1>c, <4>1
    <3> QED
      BY <1>2, <3>1, <3>2, <3>3
  <2> QED
    BY <2>1, <2>2
<1>4. QuietRemoval(t)'
  BY <1>3 DEF QuietRemoval
<1>5. \A s \in Skus : Out(t, s) => Out(t, s)'
  BY <1>1, <1>c
<1> QED
  BY <1>4, <1>5, Zenon

LEMMA QuietKept ==
    ASSUME Shape, NEW t \in Tabs, QuietRemoval(t),
           \A c \in Clients : sync'[c].at = "unmark" => sync[c].at = "unmark" /\ sync'[c].sku = sync[c].sku,
           removal'[t].quiet => removal[t].quiet /\ removal'[t].sku = removal[t].sku
                                /\ removal'[t].at = removal[t].at,
           removal[t].at = "own" => pending'[t] = pending[t],
           \A s \in Skus : Out(t, s) => Out(t, s)'
    PROVE  QuietRemoval(t)'
<1>1. ASSUME removal'[t].quiet, NEW k, k = removal'[t].sku
      PROVE  /\ NoReturn(k)'
             /\ removal'[t].at = "own" => ~pending'[t].is
             /\ removal'[t].at \in {"post", "read", "put"} => Out(t, k)'
  <2>1. removal[t].quiet /\ removal[t].sku = k /\ removal'[t].at = removal[t].at
    BY <1>1
  <2>2. /\ NoReturn(k)
        /\ removal[t].at = "own" => ~pending[t].is
        /\ removal[t].at \in {"post", "read", "put"} => Out(t, k)
    BY <2>1 DEF QuietRemoval
  <2>3. NoReturn(k)'
    BY <2>2 DEF NoReturn
  <2>4. removal[t].at \in {"post", "read", "put"} => k \in Skus
    BY <2>1 DEF Shape, TaskShape
  <2>5. removal'[t].at \in {"post", "read", "put"} => Out(t, k)'
    BY <2>1, <2>2, <2>4
  <2> QED
    BY <2>1, <2>2, <2>3, <2>5
<1> QED
  BY <1>1 DEF QuietRemoval

LEMMA StaysKept ==
    ASSUME Stays, removed' \subseteq removed,
           \A c \in Clients : sync'[c].at = "unmark" => sync[c].at = "unmark" /\ sync'[c].sku = sync[c].sku,
           \A s \in removed' : plan'[s] = 0 /\ s \in manual',
           \A t \in Tabs, s \in removed' : rows'[t][s] = 0 /\ s \in hand'[t] /\ Out(t, s)',
           \A t \in Tabs : QuietRemoval(t)'
    PROVE  Stays'
<1>1. \A c \in Clients : sync'[c].at = "unmark" => c \in Tabs
  BY DEF Stays
<1>2. ASSUME NEW s \in removed'
      PROVE  Gone(s)'
  <2>1. NoReturn(s)
    BY DEF Stays, Gone
  <2>2. NoReturn(s)'
    BY <2>1 DEF NoReturn
  <2> QED
    BY <2>2 DEF Gone
<1> QED
  BY <1>1, <1>2 DEF Stays

\* In a browser with one tab on the draft, and when the transaction of a removal
\* is not overlapped, no step of anybody brings back what was taken out.
LEMMA StaysStep ==
    ASSUME OneTab, "remove" \notin Windows, Shape, Current, RemovalCurrent, Stays, [Next]_vars
    PROVE  Stays'
<1> DEFINE SyncFrame == \A c \in Clients :
               sync'[c].at = "unmark" => sync[c].at = "unmark" /\ sync'[c].sku = sync[c].sku
           ServerOut == \A s \in removed' : plan'[s] = 0 /\ s \in manual'
           ScreenOut == \A t \in Tabs, s \in removed' : rows'[t][s] = 0 /\ s \in hand'[t]
           SavingOut == \A t \in Tabs, s \in Skus : Out(t, s) => Out(t, s)'
           Quiet == \A t \in Tabs : QuietRemoval(t)'
<1>a. ServerShape /\ ScreenShape /\ SavingShape /\ TaskShape /\ BoundShape
  BY DEF Shape
<1>b. \A t \in Tabs : /\ removal[t] \in RemovalType /\ flight[t] \in FlightType /\ t \in Clients
                      /\ flight[t].edit.rows \in Plans /\ flight[t].edit.hand \in SUBSET Skus
                      /\ pending[t] \in Edits /\ timer[t] \in BOOLEAN /\ Back(t) \in Edits
                      /\ \A u \in Tabs : u = t
  BY <1>a DEF TaskShape, SavingShape, FlightType, Edits, Clients, Back, OneTab
<1>c. \A c \in Clients : /\ sync[c] \in SyncType /\ sync[c].plan \in Plans /\ sync[c].hand \in SUBSET Skus
                         /\ sync[c].hand \ {sync[c].sku} \in SUBSET Skus
  BY <1>a DEF TaskShape, SyncType
<1>d. /\ NoEdit \in Edits /\ NoSync.at = "idle" /\ NoSync \in SyncType
      /\ NoRemoval.at = "idle" /\ NoRemoval \in RemovalType /\ ~NoRemoval.quiet
  BY NullTypes DEF NoSync, NoRemoval
<1>e. \A s \in removed : /\ s \in Skus /\ plan[s] = 0 /\ s \in manual /\ NoReturn(s)
                         /\ \A t \in Tabs : rows[t][s] = 0 /\ s \in hand[t] /\ Out(t, s)
  BY <1>a DEF Stays, Gone, BoundShape
<1>f. \A t \in Tabs : QuietRemoval(t)
  BY DEF Stays
<1>1. ASSUME removed' \subseteq removed, SyncFrame, ServerOut, ScreenOut, SavingOut, Quiet
      PROVE  Stays'
  <2>1. \A t \in Tabs, s \in removed' : Out(t, s)'
    BY <1>1, <1>e
  <2> QED
    BY <1>1, <2>1, StaysKept
<1>2. ASSUME sync' = sync
      PROVE  SyncFrame
  BY <1>2
<1>3. ASSUME NEW c \in Clients, NEW y, sync' = [sync EXCEPT ![c] = y], y.at # "unmark"
      PROVE  SyncFrame
  BY <1>3, <1>a DEF TaskShape
<1>4. ASSUME UNCHANGED <<plan, manual>>, removed' \subseteq removed
      PROVE  ServerOut
  BY <1>4, <1>e
<1>5. ASSUME UNCHANGED screen, removed' \subseteq removed
      PROVE  ScreenOut
  BY <1>5, <1>e DEF screen
<1>6. ASSUME UNCHANGED <<pending, flight>>
      PROVE  SavingOut
  BY <1>6 DEF Out
<1>7. ASSUME SyncFrame, SavingOut, UNCHANGED <<pending, removal>>
      PROVE  Quiet
  BY <1>7, <1>f, QuietKept
<1>8. ASSUME NEW t \in Tabs, Adopt(t), ServerOut
      PROVE  ScreenOut
  <2>1. rows'[t] = plan' /\ hand'[t] = manual'
    BY <1>8, <1>a DEF Adopt, ScreenShape
  <2> QED
    BY <1>8, <1>b, <2>1
<1>9. ASSUME NEW holder, NEW p \in Plans, NEW hands \in SUBSET Skus, Broken(holder, p, hands),
             removed' \subseteq removed, \A s \in removed : p[s] = 0 /\ s \in hands
      PROVE  ServerOut
  <2>1. CASE Put(holder, p, hands)
    <3>1. plan' = Stored(p, hands) /\ manual' = hands
      BY <1>a, <2>1, <1>9, PutStores
    <3> QED
      BY <1>9, <1>a, <1>e, <3>1, StoredZero
  <2>2. CASE GivesUp(holder)
    BY <1>4, <1>9, <2>2 DEF GivesUp
  <2> QED
    BY <1>9, <2>1, <2>2 DEF Broken
<1>10. ASSUME NEW t \in Tabs, NEW edit \in {Back(t), pending[t], NoEdit}, NEW timing \in BOOLEAN,
              Land(t, edit, timing), flight[t].at # "none", edit.is /\ ~timing => edit = pending[t]
       PROVE  SyncFrame /\ SavingOut /\ Quiet
  <2>1. edit \in Edits
    BY <1>b, <1>d
  <2>2. \A c \in Clients : sync'[c] = sync[c] \/ sync'[c].at \in {"idle", "get"}
    BY <1>10, <2>1, LandTyped
  <2>3. (\A s \in Skus : Out(t, s) => Out(t, s)') /\ QuietRemoval(t)'
    BY <1>10, <1>f, LandOut
  <2>4. SavingOut /\ Quiet
    BY <1>b, <2>3, Zenon
  <2> QED
    BY <2>2, <2>4
<1> HIDE DEF SyncFrame, ServerOut, ScreenOut, SavingOut, Quiet
<1>11. ASSUME NEW t \in Tabs, NEW s \in Skus, NEW q \in 0..Stock, Click(t, s, q)
       PROVE  Stays'
  <2>1. /\ rows' = [rows EXCEPT ![t][s] = q] /\ hand' = [hand EXCEPT ![t] = hand[t] \cup {s}]
        /\ pending' = [pending EXCEPT ![t] = Edit(rows'[t], hand'[t])]
        /\ removed' = removed \ {s} /\ removal' = [removal EXCEPT ![t].quiet = FALSE]
        /\ UNCHANGED <<plan, manual, flight, sync>>
    BY <1>11 DEF Click, server
  <2>2. \A r \in removed' : rows'[t][r] = 0 /\ r \in hand'[t]
    BY <1>a, <1>e, <2>1 DEF ScreenShape, Plans
  <2>3. pending'[t] = Edit(rows'[t], hand'[t])
    BY <1>a, <2>1 DEF SavingShape
  <2>4. \A r \in removed' : Out(t, r)'
    <3>1. \A r \in removed' : Free(pending'[t], r)
      BY <2>2, <2>3 DEF Free, Edit
    <3>2. \A r \in removed' : Out(t, r)
      BY <1>e, <2>1
    <3> QED
      BY <2>1, <3>1, <3>2 DEF Out
  <2>5. QuietRemoval(t)'
    <3>1. ~removal'[t].quiet
      BY <1>a, <1>b, <2>1 DEF TaskShape, RemovalType
    <3> QED
      BY <3>1 DEF QuietRemoval
  <2>6. /\ \A u \in Tabs, r \in removed' : rows'[u][r] = 0 /\ r \in hand'[u] /\ Out(u, r)'
        /\ \A u \in Tabs : QuietRemoval(u)'
    BY <1>b, <2>2, <2>4, <2>5, Zenon
  <2>7. SyncFrame /\ ServerOut /\ removed' \subseteq removed
    BY <1>2, <1>4, <2>1
  <2> QED
    BY <2>6, <2>7, StaysKept DEF SyncFrame, ServerOut
<1>12. ASSUME NEW t \in Tabs, NEW owner, Take(t, pending[t], owner), pending[t].is
       PROVE  SavingOut /\ ~pending'[t].is
  <2>1. \A s \in Skus : Out(t, s) => Out(t, s)'
    BY <1>12, TakeOut
  <2>2. SavingOut
    BY <1>b, <2>1, Zenon DEF SavingOut
  <2> QED
    BY <1>12, <2>2, TakeOut
<1>13. ASSUME NEW t \in Tabs, removal'[t] = removal[t], removal[t].at # "own", SyncFrame, SavingOut
       PROVE  Quiet
  <2>1. QuietRemoval(t)'
    BY <1>13, <1>f, QuietKept DEF SyncFrame, SavingOut
  <2> QED
    BY <1>b, <2>1, Zenon DEF Quiet
<1>14. ASSUME NEW t \in Tabs, TimerFires(t)
       PROVE  Stays'
  <2>1. UNCHANGED <<plan, manual, screen, removal, sync, removed>>
    BY <1>14 DEF TimerFires, server
  <2>2. SyncFrame /\ ServerOut /\ ScreenOut
    BY <1>2, <1>4, <1>5, <2>1
  <2>3. CASE pending[t].is /\ flight[t].at = "none"
    <3>1. SavingOut
      BY <1>12, <1>14, <2>3 DEF TimerFires
    <3>2. removal[t].at # "own"
      BY <1>a, <2>3 DEF TaskShape
    <3>3. Quiet
      BY <1>13, <2>1, <2>2, <3>1, <3>2
    <3> QED
      BY <1>1, <2>1, <2>2, <3>1, <3>3
  <2>4. CASE ~(pending[t].is /\ flight[t].at = "none")
    <3>1. UNCHANGED <<pending, flight>>
      BY <1>14, <2>4 DEF TimerFires
    <3> QED
      BY <1>1, <1>6, <1>7, <2>1, <2>2, <3>1
  <2> QED
    BY <2>3, <2>4
<1>15. ASSUME NEW t \in Tabs, FlightGets(t)
       PROVE  Stays'
  <2>1. /\ UNCHANGED <<plan, manual, screen, pending, removal, sync, removed>>
        /\ flight[t].at = "get" /\ flight' = [flight EXCEPT ![t].at = "put"]
    BY <1>15 DEF FlightGets, Read
  <2>2. flight'[t].edit = flight[t].edit
    BY <1>a, <2>1 DEF TaskShape, FlightType
  <2>3. \A s \in Skus : Out(t, s) => Out(t, s)'
    BY <2>1, <2>2 DEF Out
  <2>4. SavingOut
    BY <1>b, <2>3, Zenon DEF SavingOut
  <2> QED
    BY <1>1, <1>2, <1>4, <1>5, <1>7, <2>1, <2>4
<1>16. ASSUME NEW t \in Tabs, FlightGetFails(t)
       PROVE  Stays'
  <2>1. flight[t].at # "none" /\ UNCHANGED <<plan, manual, screen, removed>>
        /\ (Land(t, Back(t), TRUE) \/ Land(t, NoEdit, timer[t]))
    BY <1>16 DEF FlightGetFails, server
  <2>2. ~NoEdit.is
    BY DEF NoEdit
  <2>3. SyncFrame /\ SavingOut /\ Quiet
    BY <1>10, <1>b, <2>1, <2>2
  <2> QED
    BY <1>1, <1>4, <1>5, <2>1, <2>3
<1>17. ASSUME NEW t \in Tabs, FlightPuts(t) \/ FlightConflicts(t) \/ FlightFails(t)
       PROVE  Stays'
  <2>1. /\ flight[t].at # "none" /\ removed' = removed
        /\ Land(t, pending[t], timer[t]) \/ Land(t, Back(t), TRUE)
        /\ UNCHANGED screen \/ Adopt(t)
        /\ Broken(<<t, "flight">>, flight[t].edit.rows, flight[t].edit.hand)
    BY <1>17 DEF FlightPuts, FlightConflicts, FlightFails, Conflict, Broken
  <2>2. SyncFrame /\ SavingOut /\ Quiet
    BY <1>10, <1>b, <2>1
  <2>3. \A s \in removed : flight[t].edit.rows[s] = 0 /\ s \in flight[t].edit.hand
    BY <1>e, <2>1 DEF Out
  <2>4. ServerOut
    BY <1>9, <1>b, <2>1, <2>3
  <2>5. ScreenOut
    BY <1>5, <1>8, <2>1, <2>4
  <2> QED
    BY <1>1, <2>1, <2>2, <2>4, <2>5
<1>18. ASSUME NEW t \in Tabs, NEW s \in Skus, StartRemoval(t, s)
       PROVE  Stays'
  <2>1. /\ UNCHANGED <<plan, manual, screen, pending, flight, sync, removed>>
        /\ removal' = [removal EXCEPT ![t] = [NoRemoval EXCEPT !.at = "flush", !.sku = s, !.quiet = ~Unmarks(t, s)]]
    BY <1>18 DEF StartRemoval, server
  <2>2. removal'[t].at = "flush" /\ removal'[t].sku = s /\ removal'[t].quiet = ~Unmarks(t, s)
    BY <1>a, <2>1 DEF NoRemoval, TaskShape
  <2>3. ASSUME removal'[t].quiet
        PROVE  NoReturn(s)'
    <3>1. \A c \in Clients : sync[c].at = "unmark" => c = t
      BY <1>b DEF Stays
    <3>2. ~(sync[t].at = "unmark" /\ sync[t].sku = s)
      BY <2>2, <2>3 DEF Unmarks
    <3> QED
      BY <2>1, <3>1, <3>2 DEF NoReturn
  <2>4. QuietRemoval(t)'
    BY <2>2, <2>3 DEF QuietRemoval
  <2>5. Quiet
    BY <1>b, <2>4, Zenon DEF Quiet
  <2> QED
    BY <1>1, <1>2, <1>4, <1>5, <1>6, <2>1, <2>5
<1>19. ASSUME NEW t \in Tabs, RemovalFlushes(t)
       PROVE  Stays'
  <2>1. UNCHANGED <<plan, manual, screen, sync, removed>> /\ removal[t].at = "flush" /\ flight[t].at = "none"
    BY <1>19 DEF RemovalFlushes, NothingInFlight, server
  <2>2. NoReturn(removal[t].sku) \/ ~removal[t].quiet
    BY <1>f DEF QuietRemoval
  <2>3. PICK k : k = removal[t].sku
    OBVIOUS
  <2>4. removal[t].quiet => NoReturn(k)'
    BY <2>1, <2>2, <2>3 DEF NoReturn
  <2>5. CASE pending[t].is
    <3>1. Take(t, pending[t], "removal") /\ removal' = [removal EXCEPT ![t].at = "own"]
      BY <1>19, <2>5 DEF RemovalFlushes
    <3>2. SavingOut /\ ~pending'[t].is
      BY <1>12, <2>5, <3>1
    <3>3. removal'[t].at = "own" /\ removal'[t].sku = k /\ removal'[t].quiet = removal[t].quiet
      BY <1>a, <2>3, <3>1 DEF TaskShape, RemovalType
    <3>4. QuietRemoval(t)'
      BY <2>4, <3>2, <3>3 DEF QuietRemoval
    <3>5. Quiet
      BY <1>b, <3>4, Zenon DEF Quiet
    <3> QED
      BY <1>1, <1>2, <1>4, <1>5, <2>1, <3>2, <3>5
  <2>6. CASE ~pending[t].is
    <3>1. removal' = [removal EXCEPT ![t].at = "post"] /\ UNCHANGED <<flight, pending>>
      BY <1>19, <2>6 DEF RemovalFlushes
    <3>2. removal'[t].at = "post" /\ removal'[t].sku = k /\ removal'[t].quiet = removal[t].quiet
      BY <1>a, <2>3, <3>1 DEF TaskShape, RemovalType
    <3>3. Out(t, k)'
      BY <2>1, <2>6, <3>1 DEF Out, Free
    <3>4. QuietRemoval(t)'
      BY <2>4, <3>2, <3>3 DEF QuietRemoval
    <3>5. Quiet
      BY <1>b, <3>4, Zenon DEF Quiet
    <3> QED
      BY <1>1, <1>2, <1>4, <1>5, <1>6, <2>1, <3>1, <3>5
  <2> QED
    BY <2>5, <2>6
<1>20. ASSUME NEW t \in Tabs, removal[t].at \in {"post", "read"}, removal'[t].at \in {"post", "read", "put"},
              removal'[t].sku = removal[t].sku, removal'[t].quiet = removal[t].quiet,
              UNCHANGED <<sync, pending, flight>>
       PROVE  Quiet
  <2>1. PICK k : k = removal[t].sku
    OBVIOUS
  <2>2. removal[t].quiet => NoReturn(k) /\ Out(t, k)
    BY <1>20, <1>f, <2>1 DEF QuietRemoval
  <2>3. removal[t].quiet => NoReturn(k)' /\ Out(t, k)'
    BY <1>20, <2>2 DEF NoReturn, Out
  <2>4. QuietRemoval(t)'
    BY <1>20, <2>1, <2>3 DEF QuietRemoval
  <2> QED
    BY <1>b, <2>4, Zenon DEF Quiet
<1>21. ASSUME NEW t \in Tabs, RemovalReads(t)
       PROVE  Stays'
  <2>1. /\ UNCHANGED <<plan, manual, screen, pending, flight, sync, removed>> /\ removal[t].at = "post"
        /\ removal' = [removal EXCEPT ![t] = [removal[t] EXCEPT !.at = "read",
                          !.plan = Without(plan, removal[t].sku), !.hand = manual]]
    BY <1>21 DEF RemovalReads, Read, saving
  <2>2. removal'[t].at = "read" /\ removal'[t].sku = removal[t].sku /\ removal'[t].quiet = removal[t].quiet
    BY <1>a, <1>b, <2>1 DEF TaskShape, RemovalType
  <2>3. Quiet
    BY <1>20, <2>1, <2>2
  <2> QED
    BY <1>1, <1>2, <1>4, <1>5, <1>6, <2>1, <2>3
<1>22. ASSUME NEW t \in Tabs, RemovalCommits(t)
       PROVE  Stays'
  <2>1. UNCHANGED <<screen, pending, flight, sync, removed>> /\ removal[t].at = "read"
    BY <1>22 DEF RemovalCommits, saving
  <2>2. CASE VersionHolds(<<t, "removal">>)
    <3>1. /\ plan' = removal[t].plan /\ manual' = removal[t].hand
          /\ removal' = [removal EXCEPT ![t].at = "put"]
      BY <1>22, <2>2 DEF RemovalCommits
    <3>2. /\ removal'[t].at = "put" /\ removal'[t].sku = removal[t].sku
          /\ removal'[t].quiet = removal[t].quiet
      BY <1>a, <1>b, <3>1 DEF TaskShape, RemovalType
    <3>3. plan' = Without(plan, removal[t].sku) /\ manual' = manual
      BY <2>1, <2>2, <3>1 DEF VersionHolds, Current, RemovalCurrent, ReadWell
    <3>4. \A s \in removed : plan'[s] = 0
      BY <1>a, <1>e, <3>3 DEF Without, ServerShape, Plans
    <3>5. ServerOut
      BY <1>e, <2>1, <3>3, <3>4 DEF ServerOut
    <3>6. Quiet
      BY <1>20, <2>1, <3>2
    <3> QED
      BY <1>1, <1>2, <1>5, <1>6, <2>1, <3>5, <3>6
  <2>3. CASE ~VersionHolds(<<t, "removal">>)
    <3>1. /\ UNCHANGED <<plan, manual>>
          /\ removal' = [removal EXCEPT ![t] = [removal[t] EXCEPT !.plan = Without(plan, removal[t].sku), !.hand = manual]]
      BY <1>22, <2>3 DEF RemovalCommits, Read
    <3>2. removal'[t].at = "read" /\ removal'[t].sku = removal[t].sku /\ removal'[t].quiet = removal[t].quiet
      BY <1>a, <1>b, <2>1, <3>1 DEF TaskShape, RemovalType
    <3>3. Quiet
      BY <1>20, <2>1, <3>2
    <3> QED
      BY <1>1, <1>2, <1>4, <1>5, <1>6, <2>1, <3>1, <3>3
  <2> QED
    BY <2>2, <2>3
<1>23. ASSUME NEW t \in Tabs, removal' = [removal EXCEPT ![t] = NoRemoval]
       PROVE  Quiet
  <2>1. ~removal'[t].quiet
    BY <1>23, <1>a, <1>d DEF TaskShape
  <2>2. QuietRemoval(t)'
    BY <2>1 DEF QuietRemoval
  <2> QED
    BY <1>b, <2>2, Zenon DEF Quiet
<1>24. ASSUME NEW t \in Tabs, removal[t].at = "put", <<t, "removal">> \in fresh
       PROVE  /\ removal[t].plan = plan /\ removal[t].hand = manual
              /\ removal[t].plan[removal[t].sku] = 0
  BY <1>24 DEF RemovalCurrent, ReadWell, Lacks
<1>25. ASSUME NEW t \in Tabs, RemovalFails(t)
       PROVE  Stays'
  <2>1. /\ UNCHANGED <<screen, pending, flight, sync, removed>>
        /\ removal' = [removal EXCEPT ![t] = NoRemoval]
        /\ \/ GivesUp(<<t, "removal">>)
           \/ /\ removal[t].at = "put"
              /\ Put(<<t, "removal">>, removal[t].plan, removal[t].hand \cup {removal[t].sku})
    BY <1>25 DEF RemovalFails, Conflict, Broken, saving
  <2>2. ServerOut
    <3>1. CASE GivesUp(<<t, "removal">>)
      BY <1>4, <2>1, <3>1 DEF GivesUp
    <3>2. CASE /\ removal[t].at = "put"
               /\ Put(<<t, "removal">>, removal[t].plan, removal[t].hand \cup {removal[t].sku})
      <4>1. removal[t].plan = plan /\ removal[t].hand = manual
        BY <1>24, <3>2 DEF Put, VersionHolds
      <4>2. removal[t].plan \in Plans /\ removal[t].hand \cup {removal[t].sku} \in SUBSET Skus
        BY <1>a, <1>b, <3>2 DEF TaskShape, RemovalType
      <4>3. \A s \in removed : removal[t].plan[s] = 0 /\ s \in removal[t].hand \cup {removal[t].sku}
        BY <1>e, <4>1
      <4> QED
        BY <1>9, <2>1, <3>2, <4>2, <4>3 DEF Broken
    <3> QED
      BY <2>1, <3>1, <3>2
  <2> QED
    BY <1>1, <1>2, <1>5, <1>6, <1>23, <2>1, <2>2
<1>26. ASSUME NEW t \in Tabs, RemovalPuts(t)
       PROVE  Stays'
  <2>1. /\ UNCHANGED <<pending, flight, sync>> /\ removal[t].at = "put" /\ Adopt(t)
        /\ removal' = [removal EXCEPT ![t] = NoRemoval]
        /\ removed' = IF removal[t].quiet THEN removed \cup {removal[t].sku} ELSE removed
        /\ Put(<<t, "removal">>, removal[t].plan, removal[t].hand \cup {removal[t].sku})
    BY <1>26 DEF RemovalPuts, saving
  <2>2. PICK k : k = removal[t].sku
    OBVIOUS
  <2>3. removal[t].plan = plan /\ removal[t].hand = manual /\ plan[k] = 0 /\ k \in Skus
    BY <1>24, <1>a, <2>1, <2>2 DEF Put, VersionHolds, TaskShape
  <2>4. plan' = Stored(plan, manual \cup {k}) /\ manual' = manual \cup {k}
    BY <2>1, <2>2, <2>3 DEF Put, Written
  <2>5. ASSUME NEW s \in removed \cup {k}
        PROVE  plan'[s] = 0 /\ s \in manual'
    <3>1. s \in Skus /\ plan[s] = 0 /\ s \in manual \cup {k}
      BY <1>e, <2>3
    <3>2. plan \in Plans
      BY <1>a DEF ServerShape
    <3> QED
      BY <1>a, <2>4, <3>1, <3>2, StoredZero
  <2>6. ServerOut
    BY <2>1, <2>2, <2>5 DEF ServerOut
  <2>7. ScreenOut
    BY <1>8, <2>1, <2>6
  <2>8. ASSUME NEW s \in removed'
        PROVE  NoReturn(s) /\ \A u \in Tabs : Out(u, s)
    <3>1. CASE s \in removed
      BY <1>e, <3>1
    <3>2. CASE removal[t].quiet /\ s = k
      <4>1. NoReturn(s) /\ Out(t, s)
        BY <1>f, <2>1, <2>2, <3>2 DEF QuietRemoval
      <4> QED
        BY <1>b, <4>1, Zenon
    <3> QED
      BY <2>1, <2>2, <3>1, <3>2
  <2>9. ASSUME NEW s \in removed'
        PROVE  Gone(s)'
    <3>1. NoReturn(s)'
      BY <2>1, <2>8 DEF NoReturn
    <3>2. \A u \in Tabs : Out(u, s)'
      BY <2>1, <2>8 DEF Out
    <3> QED
      BY <2>6, <2>7, <3>1, <3>2 DEF Gone, ServerOut, ScreenOut
  <2>10. \A c \in Clients : sync'[c].at = "unmark" => c \in Tabs
    BY <2>1 DEF Stays
  <2> QED
    BY <1>23, <2>1, <2>9, <2>10 DEF Stays, Quiet
<1>27. ASSUME NEW t \in Tabs, StartSync(t)
       PROVE  Stays'
  <2>1. /\ UNCHANGED <<plan, manual, screen, pending, flight, removal, removed>>
        /\ sync' = [sync EXCEPT ![t] = [sync[t] EXCEPT !.at = "flush"]]
    BY <1>27 DEF StartSync, server
  <2>2. [sync[t] EXCEPT !.at = "flush"].at # "unmark"
    BY <1>b, <1>c DEF SyncType
  <2>3. SyncFrame
    BY <1>3, <1>b, <2>1, <2>2
  <2> QED
    BY <1>1, <1>4, <1>5, <1>6, <1>7, <2>1, <2>3
<1>28. ASSUME NEW t \in Tabs, SyncFlushes(t)
       PROVE  Stays'
  <2>1. UNCHANGED <<plan, manual, screen, removal, removed>> /\ flight[t].at = "none"
    BY <1>28 DEF SyncFlushes, NothingInFlight, server
  <2>2. SyncFrame
    <3>1. \E at \in {"own", "get"} : sync' = [sync EXCEPT ![t] = [sync[t] EXCEPT !.at = at]]
      BY <1>28 DEF SyncFlushes
    <3>2. \A at \in {"own", "get"} : [sync[t] EXCEPT !.at = at].at # "unmark"
      BY <1>b, <1>c DEF SyncType
    <3> QED
      BY <1>3, <1>b, <3>1, <3>2
  <2>3. SavingOut
    <3>1. CASE pending[t].is
      BY <1>12, <1>28, <3>1 DEF SyncFlushes
    <3>2. CASE ~pending[t].is
      BY <1>6, <1>28, <3>2 DEF SyncFlushes
    <3> QED
      BY <3>1, <3>2
  <2>4. removal[t].at # "own"
    BY <1>a, <2>1 DEF TaskShape
  <2> QED
    BY <1>1, <1>4, <1>5, <1>13, <2>1, <2>2, <2>3, <2>4
<1>29. ASSUME NEW c \in Clients, SyncGets(c) \/ RunnerGets(c)
       PROVE  Stays'
  <2>1. /\ UNCHANGED <<plan, manual, screen, pending, flight, removal, removed>>
        /\ sync' = [sync EXCEPT ![c] = [sync[c] EXCEPT !.at = "put", !.plan = plan, !.hand = manual]]
    BY <1>29 DEF SyncGets, RunnerGets, Reads, Read, saving
  <2>2. [sync[c] EXCEPT !.at = "put", !.plan = plan, !.hand = manual].at # "unmark"
    BY <1>c DEF SyncType
  <2>3. SyncFrame
    BY <1>3, <2>1, <2>2
  <2> QED
    BY <1>1, <1>4, <1>5, <1>6, <1>7, <2>1, <2>3
<1>30. ASSUME NEW c \in Clients, SyncPuts(c) \/ SyncEnds(c)
       PROVE  Stays'
  <2>1. /\ UNCHANGED <<pending, flight, removal, removed>>
        /\ sync' = [sync EXCEPT ![c] = NoSync]
        /\ UNCHANGED screen \/ (c \in Tabs /\ Adopt(c))
        /\ \/ GivesUp(<<c, "sync">>)
           \/ /\ sync[c].at = "put"
              /\ \E calc \in Plans : Put(<<c, "sync">>, Calculated(c, calc), sync[c].hand)
           \/ /\ sync[c].at = "unmark"
              /\ Put(<<c, "sync">>, sync[c].plan, sync[c].hand \ {sync[c].sku})
    BY <1>30 DEF SyncPuts, SyncEnds, saving
  <2>2. SyncFrame
    BY <1>3, <1>d, <2>1
  <2>3. ServerOut
    <3>1. CASE GivesUp(<<c, "sync">>)
      BY <1>4, <2>1, <3>1 DEF GivesUp
    <3>2. ASSUME NEW calc \in Plans, sync[c].at = "put", Put(<<c, "sync">>, Calculated(c, calc), sync[c].hand)
          PROVE  ServerOut
      <4>1. sync[c].plan = plan /\ sync[c].hand = manual
        BY <3>2 DEF Put, VersionHolds, Current
      <4>2. \A s \in removed : Calculated(c, calc)[s] = 0 /\ s \in sync[c].hand
        BY <1>e, <4>1 DEF Calculated
      <4>3. Calculated(c, calc) \in Plans
        BY <1>a, <3>2, CalculatedIsPlan
      <4> QED
        BY <1>9, <1>c, <2>1, <3>2, <4>2, <4>3 DEF Broken
    <3>3. CASE sync[c].at = "unmark" /\ Put(<<c, "sync">>, sync[c].plan, sync[c].hand \ {sync[c].sku})
      <4>1. sync[c].plan = plan /\ sync[c].hand = manual
        BY <3>3 DEF Put, VersionHolds, Current
      <4>2. \A s \in removed : sync[c].plan[s] = 0 /\ s \in sync[c].hand \ {sync[c].sku}
        BY <1>e, <3>3, <4>1 DEF NoReturn
      <4> QED
        BY <1>9, <1>c, <2>1, <3>3, <4>2 DEF Broken
    <3> QED
      BY <2>1, <3>1, <3>2, <3>3
  <2>4. ScreenOut
    BY <1>5, <1>8, <2>1, <2>3
  <2> QED
    BY <1>1, <1>6, <1>7, <2>1, <2>2, <2>3, <2>4
<1>31. ASSUME NEW t \in Tabs, NEW s \in Skus, ReturnGets(t, s)
       PROVE  Stays'
  <2>1. /\ UNCHANGED <<plan, manual, screen, pending, flight>> /\ removed' = removed \ {s}
        /\ sync' = [sync EXCEPT ![t] = [at |-> "unmark", sku |-> s, plan |-> plan, hand |-> manual]]
        /\ removal' = [removal EXCEPT ![t].quiet = removal[t].quiet /\ removal[t].sku # s]
    BY <1>31 DEF ReturnGets, Read, saving
  <2>2. /\ \A c \in Clients \ {t} : sync'[c] = sync[c]
        /\ sync'[t].at = "unmark" /\ sync'[t].sku = s
    BY <1>a, <1>b, <2>1 DEF TaskShape
  <2>3. ASSUME NEW k, NoReturn(k), k # s
        PROVE  NoReturn(k)'
    BY <2>2, <2>3 DEF NoReturn
  <2>4. \A u \in Tabs, k \in Skus : Out(u, k) => Out(u, k)'
    BY <2>1 DEF Out
  <2>5. \A k \in removed' : Gone(k)'
    BY <1>e, <2>1, <2>3, <2>4 DEF Gone, screen
  <2>6. \A c \in Clients : sync'[c].at = "unmark" => c \in Tabs
    BY <2>2 DEF Stays
  <2>7. QuietRemoval(t)'
    <3>1. PICK k : k = removal[t].sku
      OBVIOUS
    <3>2. PICK quiet \in BOOLEAN : quiet = (removal[t].quiet /\ removal[t].sku # s)
      OBVIOUS
    <3>3. removal' = [removal EXCEPT ![t].quiet = quiet]
      BY <2>1, <3>2, Zenon
    <3>4. removal'[t].at = removal[t].at /\ removal'[t].sku = k /\ removal'[t].quiet = quiet
      BY <1>a, <1>b, <3>1, <3>3 DEF TaskShape, RemovalType
    <3>5. quiet => removal[t].quiet /\ k # s
      BY <3>1, <3>2
    <3>6. removal[t].quiet => /\ NoReturn(k)
                              /\ removal[t].at = "own" => ~pending[t].is
                              /\ removal[t].at \in {"post", "read", "put"} => k \in Skus /\ Out(t, k)
      BY <1>a, <1>f, <3>1 DEF QuietRemoval, TaskShape
    <3>7. quiet => NoReturn(k)'
      BY <2>3, <3>5, <3>6
    <3>8. quiet /\ removal[t].at \in {"post", "read", "put"} => Out(t, k)'
      BY <2>4, <3>5, <3>6
    <3> QED
      BY <2>1, <3>4, <3>5, <3>6, <3>7, <3>8 DEF QuietRemoval
  <2>8. \A u \in Tabs : QuietRemoval(u)'
    BY <1>b, <2>7, Zenon
  <2> QED
    BY <2>5, <2>6, <2>8 DEF Stays
<1>32. ASSUME NEW t \in Tabs, ReturnPuts(t)
       PROVE  Stays'
  <2>1. /\ UNCHANGED <<rows, pending, flight, removal, removed>> /\ sync[t].at = "unmark"
        /\ hand' = [hand EXCEPT ![t] = manual'] /\ sync' = [sync EXCEPT ![t] = [NoSync EXCEPT !.at = "flush"]]
        /\ Put(<<t, "sync">>, sync[t].plan, sync[t].hand \ {sync[t].sku})
    BY <1>32 DEF ReturnPuts
  <2>2. SyncFrame
    <3>1. [NoSync EXCEPT !.at = "flush"].at # "unmark"
      BY DEF NoSync
    <3> QED
      BY <1>3, <1>b, <2>1, <3>1
  <2>3. sync[t].plan = plan /\ sync[t].hand = manual
    BY <1>b, <2>1 DEF Put, VersionHolds, Current
  <2>4. \A s \in removed : sync[t].plan[s] = 0 /\ s \in sync[t].hand \ {sync[t].sku}
    BY <1>b, <1>e, <2>1, <2>3 DEF NoReturn
  <2>5. ServerOut
    BY <1>9, <1>b, <1>c, <2>1, <2>4 DEF Broken
  <2>6. ScreenOut
    <3>1. hand'[t] = manual'
      BY <1>a, <2>1 DEF ScreenShape
    <3>2. \A s \in removed' : rows'[t][s] = 0 /\ s \in hand'[t]
      BY <1>e, <2>1, <2>5, <3>1 DEF ServerOut
    <3> QED
      BY <1>b, <3>2, Zenon DEF ScreenOut
  <2> QED
    BY <1>1, <1>6, <1>7, <2>1, <2>2, <2>5, <2>6
<1>33. ASSUME NEW s \in Skus, Commit(s)
       PROVE  Stays'
  <2>1. /\ plan' = Without(plan, s) /\ manual' = manual
        /\ UNCHANGED <<screen, pending, flight, removal, sync, removed>>
    BY <1>33 DEF Commit, saving
  <2>2. ServerOut
    BY <1>a, <1>e, <2>1 DEF ServerOut, Without, ServerShape, Plans
  <2> QED
    BY <1>1, <1>2, <1>5, <1>6, <1>7, <2>1, <2>2
<1>34. CASE Clear
  <2>1. removed' = {} /\ UNCHANGED <<screen, pending, flight, removal, sync>>
    BY <1>34 DEF Clear, saving
  <2>2. removed' \subseteq removed /\ ServerOut /\ ScreenOut
    BY <2>1 DEF ServerOut, ScreenOut
  <2> QED
    BY <1>1, <1>2, <1>6, <1>7, <2>1, <2>2
<1>35. ASSUME \/ UNCHANGED vars
              \/ \E s \in Skus : OtherReads(s) \/ OtherStores(s)
       PROVE  Stays'
  <2>1. UNCHANGED <<plan, manual, screen, pending, flight, removal, sync, removed>>
    BY <1>35 DEF vars, OtherReads, OtherStores, saving, screen
  <2> QED
    BY <1>1, <1>2, <1>4, <1>5, <1>6, <1>7, <2>1
<1>36. ASSUME NEW t \in Tabs, TabStep(t)
       PROVE  Stays'
  BY <1>11, <1>14, <1>15, <1>16, <1>17, <1>18, <1>19, <1>21, <1>22, <1>25, <1>26, <1>27, <1>28, <1>29,
     <1>31, <1>32, <1>36 DEF TabStep, Save, Remove, Clients
<1> QED
  BY <1>29, <1>30, <1>33, <1>34, <1>35, <1>36 DEF Next, Clients

\* With one tab on the draft, and a removal's transaction not overlapped by another,
\* what a person took out with the cross stays out until a person touches it again:
\* through saves that fail, wait and are retried, edits still under way when the
\* cross was clicked, synchronisations of any number of other pages, requests made
\* of the draft and other drafts.
THEOREM RemovedStays ==
    ASSUME OneTab, "remove" \notin Windows
    PROVE  Spec => []RemovedStaysOut
<1>1. Init => Stays
  BY DEF Init, Stays, QuietRemoval, NoRemoval, NoSync
<1>2. Shape /\ Current /\ RemovalCurrent /\ Stays /\ [Next]_vars => Stays'
  BY StaysStep
<1>3. Stays => RemovedStaysOut
  BY DEF Stays, Gone, RemovedStaysOut
<1> QED
  BY <1>1, <1>2, <1>3, AlwaysShaped, AlwaysCurrent, AlwaysRemovalCurrent, PTL DEF Spec
=============================================================================
