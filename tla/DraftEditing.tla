---------------------------- MODULE DraftEditing ----------------------------
(***************************************************************************)
(* One assembly draft and those who write it: tabs that edit it as a matrix *)
(* (frontend-react, warehouse/assembly/distribute/components/              *)
(* DraftMatrixView.tsx), the background synchronisation of other pages      *)
(* (lib/assembly/draftAutoSyncRunner.ts), and the service that stores it    *)
(* (backend/services/assembly_draft_service.py).                            *)
(*                                                                         *)
(* The plan of an article (SKU) is the number of boxes in its rows and its  *)
(* pre-bookings together; warehouses, packages and pallets are left out, so *)
(* a normalisation, which moves boxes between rows and pre-bookings, and    *)
(* the merging of two warehouses are too.  A version of the draft is        *)
(* whether its holder would pass the comparison with updated_at: `fresh`.   *)
(* In a tab everything up to the next await is one step; it has at most one *)
(* synchronisation or return to automatic, and one removal, under way.  The *)
(* queries of the server's two gates succeed (when one fails, the code lets *)
(* the plan through).                                                       *)
(***************************************************************************)
EXTENDS Naturals, FiniteSets

CONSTANTS
    Skus,
    Tabs,        \* tabs with the matrix open
    Runners,     \* pages of other tabs that synchronise the draft
    Stock,       \* boxes of every SKU at the centre
    MaxClicks,   \* clicks and crosses in all
    MaxSyncs,    \* synchronisations and returns to automatic started in all
    MaxRetry,    \* retries of a save whose reading of the draft fails (3)
    Shared,      \* SKUs another draft may hold, too
    LateClicks,  \* may a click be repeated after a check of WB's acceptance?
    Windows      \* which transactions of the server may overlap others

ASSUME StockAssumption == Stock \in Nat
ASSUME BoundsAssumption == {MaxClicks, MaxSyncs, MaxRetry} \subseteq Nat
ASSUME ClientsAssumption == Tabs \cap Runners = {}
ASSUME OptionsAssumption == Shared \subseteq Skus /\ LateClicks \in BOOLEAN /\ Windows \subseteq {"remove", "clamp"}

VARIABLES
    plan, manual,    \* distribution.rows and prebook, manual_nms
    moving,          \* boxes of a SKU in active assembly requests
    reserve, claim,  \* boxes another draft holds; what it is about to write
    fresh,           \* those about to write who read the current version
    rows, hand,      \* draftRows and draftPrebook, manualNms of a tab
    pending,         \* pendingSaveRef: a plan and its manual SKUs, or NoEdit
    timer,           \* saveTimerRef is set
    retry,           \* saveRetryRef
    clicked,         \* editGenRef has moved since the save under way began
    flight,          \* the save under way: saveInFlightRef
    removal,         \* removeFromDraft
    sync,            \* runAutoSync or returnToAuto of a tab, or a runner's pass
    removed,         \* SKUs taken out for good (history)
    clicks, syncs    \* bounds

server == <<plan, manual, moving, reserve, claim, fresh>>
screen == <<rows, hand>>
saving == <<pending, timer, retry, clicked, flight>>
others == <<moving, reserve, claim>>
bounds == <<clicks, syncs>>
vars == <<plan, manual, moving, reserve, claim, fresh, rows, hand, pending, timer,
          retry, clicked, flight, removal, sync, removed, clicks, syncs>>

Clients == Tabs \cup Runners
Plans   == [Skus -> 0..Stock]
Zero    == [s \in Skus |-> 0]

Less(a, b) == IF a < b THEN a ELSE b
Minus(a, b) == IF a > b THEN a - b ELSE 0

NoEdit    == [rows |-> Zero, hand |-> {}, is |-> FALSE]
Edit(p, m) == [rows |-> p, hand |-> m, is |-> TRUE]
NoFlight  == [at |-> "none", edit |-> NoEdit, owner |-> "none"]
NoRemoval == [at |-> "idle", sku |-> "none", plan |-> Zero, hand |-> {}, quiet |-> FALSE]
NoSync    == [at |-> "idle", sku |-> "none", plan |-> Zero, hand |-> {}]

Init ==
    /\ plan = [s \in Skus |-> Stock] /\ manual = {}
    /\ moving = Zero /\ reserve = Zero /\ claim = Zero
    /\ fresh = {}
    /\ rows = [t \in Tabs |-> plan] /\ hand = [t \in Tabs |-> {}]
    /\ pending = [t \in Tabs |-> NoEdit] /\ timer = [t \in Tabs |-> FALSE]
    /\ retry = [t \in Tabs |-> 0] /\ clicked = [t \in Tabs |-> FALSE]
    /\ flight = [t \in Tabs |-> NoFlight]
    /\ removal = [t \in Tabs |-> NoRemoval]
    /\ sync = [c \in Clients |-> NoSync]
    /\ removed = {} /\ clicks = 0 /\ syncs = 0

-----------------------------------------------------------------------------
(* update_draft *)

\* Mutant: what moves already is left to the gate before, which lets manual SKUs
\* through.
CapOfDrafts(s) == Minus(Stock, reserve[s])

Cap(s) == Minus(Stock, moving[s] + reserve[s])

\* _subtract_in_transit: growth over the stored plan gives way to what already
\* moves; SKUs of the incoming manual_nms are let through.
NewGrowth(s, q, hands) ==
    IF s \in hands THEN q ELSE q - Less(moving[s], Minus(q, plan[s]))

\* _clamp_to_ff_capacity
Clamp(s, q) == Less(q, Cap(s))

Stored(p, hands) == [s \in Skus |-> Clamp(s, NewGrowth(s, p[s], hands))]

\* A write of equal content gives no new version.
Written(holder, p, hands) ==
    /\ plan' = p /\ manual' = hands
    /\ fresh' = IF p = plan /\ hands = manual THEN fresh \ {holder} ELSE {}

\* Mutant: the comparison with updated_at is left out.
NoComparison(holder) == TRUE

VersionHolds(holder) == holder \in fresh

\* PUT with base_updated_at, which the matrix and the runner always send.
Put(holder, p, hands) == VersionHolds(holder) /\ Written(holder, Stored(p, hands), hands)

Read(holder) == fresh' = fresh \cup {holder} /\ UNCHANGED <<plan, manual>>

\* The holder gives up: a conflict, or an error.
GivesUp(holder) == fresh' = fresh \ {holder} /\ UNCHANGED <<plan, manual>>

Conflict(holder) == ~VersionHolds(holder) /\ GivesUp(holder)

\* The answer is lost, or the request was.
Broken(holder, p, hands) ==
    Put(holder, p, hands) \/ GivesUp(holder)

-----------------------------------------------------------------------------
(* The save of a tab: flushDraftSave *)

Flight(edit, owner) == [at |-> "get", edit |-> edit, owner |-> owner]

\* The edit waiting is taken and its save begins.
Take(t, edit, owner) ==
    /\ flight' = [flight EXCEPT ![t] = Flight(edit, owner)]
    /\ pending' = [pending EXCEPT ![t] = NoEdit]
    /\ clicked' = [clicked EXCEPT ![t] = FALSE]

Without(p, s) == [p EXCEPT ![s] = 0]

\* Mutant: the edit that could not be saved keeps the SKU.
NotStripped(edit, s) == edit

Stripped(edit, s) == IF edit.is THEN Edit(Without(edit.rows, s), edit.hand \cup {s}) ELSE edit

\* The `finally`: an edit that waits with no timer set is saved at once.  Then
\* the operation that awaited this save goes on: a removal takes its SKU from the
\* edit that still waits, a synchronisation is put off by one.
Land(t, edit, timing) ==
    LET again == edit.is /\ ~timing
        owner == flight[t].owner
        rest  == IF again THEN NoEdit ELSE edit
    IN
    /\ timer' = [timer EXCEPT ![t] = timing]
    /\ flight' = [flight EXCEPT ![t] = IF again THEN Flight(edit, "none") ELSE NoFlight]
    /\ clicked' = [clicked EXCEPT ![t] = FALSE]
    /\ pending' = [pending EXCEPT ![t] = IF owner = "removal" THEN Stripped(rest, removal[t].sku) ELSE rest]
    /\ removal' = IF owner = "removal" THEN [removal EXCEPT ![t].at = "post"] ELSE removal
    /\ sync' = IF owner = "sync"
               THEN [sync EXCEPT ![t] = IF rest.is THEN NoSync ELSE [@ EXCEPT !.at = "get"]]
               ELSE sync

\* The edit goes back unless a newer one has come.
Back(t) == IF pending[t].is THEN pending[t] ELSE flight[t].edit

\* Mutant: the retries are not counted.
RetriesForever(t) == TRUE

RetriesLeft(t) == retry[t] < MaxRetry

Writing(t) == sync[t].at \in {"flush", "own", "get", "put"}

\* editDraftCell, a leftover handed out, or a click repeated once WB's acceptance
\* is known: the SKU becomes manual, the tab's whole plan waits to be saved.
Click(t, s, q) ==
    /\ clicks < MaxClicks /\ clicks' = clicks + 1
    /\ ~Writing(t) \/ LateClicks
    /\ q \in 0..Stock /\ (q = rows[t][s] + 1 \/ q + 1 = rows[t][s])
    /\ rows' = [rows EXCEPT ![t][s] = q]
    /\ hand' = [hand EXCEPT ![t] = @ \cup {s}]
    /\ pending' = [pending EXCEPT ![t] = Edit(rows'[t], hand'[t])]
    /\ clicked' = [clicked EXCEPT ![t] = flight[t].at # "none"]
    /\ timer' = [timer EXCEPT ![t] = TRUE]
    /\ removed' = removed \ {s}
    /\ removal' = [removal EXCEPT ![t].quiet = FALSE]
    /\ UNCHANGED <<server, retry, flight, sync, syncs>>

\* The timer of an edit or a retry; finishManual and leaving the page do the same.
TimerFires(t) ==
    /\ timer[t]
    /\ timer' = [timer EXCEPT ![t] = FALSE]
    /\ IF pending[t].is /\ flight[t].at = "none"
       THEN Take(t, pending[t], "none")
       ELSE UNCHANGED <<pending, clicked, flight>>
    /\ UNCHANGED <<server, screen, retry, removal, sync, removed, bounds>>

FlightGets(t) ==
    /\ flight[t].at = "get"
    /\ Read(<<t, "flight">>)
    /\ flight' = [flight EXCEPT ![t].at = "put"]
    /\ retry' = [retry EXCEPT ![t] = 0]
    /\ UNCHANGED <<others, screen, pending, timer, clicked, removal, sync, removed, bounds>>

FlightGetFails(t) ==
    /\ flight[t].at = "get"
    /\ IF RetriesLeft(t)
       THEN Land(t, Back(t), TRUE) /\ retry' = [retry EXCEPT ![t] = Less(@ + 1, MaxRetry)]
       ELSE Land(t, NoEdit, timer[t]) /\ UNCHANGED retry
    /\ UNCHANGED <<server, screen, removed, bounds>>

Adopt(t) == rows' = [rows EXCEPT ![t] = plan'] /\ hand' = [hand EXCEPT ![t] = manual']

FlightPuts(t) ==
    LET edit == flight[t].edit IN
    /\ flight[t].at = "put"
    /\ Put(<<t, "flight">>, edit.rows, edit.hand)
    /\ IF clicked[t] THEN UNCHANGED screen ELSE Adopt(t)
    /\ Land(t, pending[t], timer[t])
    /\ UNCHANGED <<others, retry, removed, bounds>>

FlightConflicts(t) ==
    /\ flight[t].at = "put" /\ Conflict(<<t, "flight">>)
    /\ Land(t, Back(t), TRUE)
    /\ UNCHANGED <<others, screen, retry, removed, bounds>>

\* Any other error: the user is told that the edit was not saved.
FlightFails(t) ==
    /\ flight[t].at = "put"
    /\ Broken(<<t, "flight">>, flight[t].edit.rows, flight[t].edit.hand)
    /\ Land(t, pending[t], timer[t])
    /\ UNCHANGED <<others, screen, retry, removed, bounds>>

-----------------------------------------------------------------------------
(* removeFromDraft *)

\* The user has just asked for the opposite: back to automatic.
Unmarks(t, s) == sync[t].at = "unmark" /\ sync[t].sku = s

StartRemoval(t, s) ==
    /\ removal[t].at = "idle" /\ rows[t][s] > 0
    /\ clicks < MaxClicks /\ clicks' = clicks + 1
    /\ removal' = [removal EXCEPT ![t] = [NoRemoval EXCEPT !.at = "flush", !.sku = s, !.quiet = ~Unmarks(t, s)]]
    /\ timer' = [timer EXCEPT ![t] = FALSE]
    /\ UNCHANGED <<server, screen, pending, retry, clicked, flight, sync, removed, syncs>>

\* Mutant: a save under way is not waited for.
WaitsForNothing(t) == TRUE

NothingInFlight(t) == flight[t].at = "none"

\* `await flushDraftSave()`: after the save under way, and the one it begins.
RemovalFlushes(t) ==
    /\ removal[t].at = "flush" /\ NothingInFlight(t)
    /\ IF pending[t].is
       THEN Take(t, pending[t], "removal") /\ removal' = [removal EXCEPT ![t].at = "own"]
       ELSE removal' = [removal EXCEPT ![t].at = "post"] /\ UNCHANGED <<flight, pending, clicked>>
    /\ UNCHANGED <<server, screen, timer, retry, sync, removed, bounds>>

\* remove_rows_by_nm reads the draft.
RemovalReads(t) ==
    /\ removal[t].at = "post"
    /\ Read(<<t, "removal">>)
    /\ removal' = [removal EXCEPT ![t] = [@ EXCEPT !.at = "read", !.plan = Without(plan, removal[t].sku), !.hand = manual]]
    /\ UNCHANGED <<others, screen, saving, sync, removed, bounds>>

\* It holds no lock: a write since the reading is overwritten.
RemovalCommits(t) ==
    LET r == removal[t] IN
    /\ r.at = "read"
    /\ IF "remove" \in Windows \/ VersionHolds(<<t, "removal">>)
       THEN /\ plan' = r.plan /\ manual' = r.hand
            /\ fresh' = {<<t, "removal">>} \cup (IF r.plan = plan /\ r.hand = manual THEN fresh ELSE {})
            /\ removal' = [removal EXCEPT ![t].at = "put"]
       ELSE /\ removal' = [removal EXCEPT ![t] = [@ EXCEPT !.plan = Without(plan, r.sku), !.hand = manual]]
            /\ Read(<<t, "removal">>)
    /\ UNCHANGED <<others, screen, saving, sync, removed, bounds>>

\* The SKU is made manual, so that no synchronisation brings it back.
RemovalPuts(t) ==
    LET r == removal[t] IN
    /\ r.at = "put"
    /\ Put(<<t, "removal">>, r.plan, r.hand \cup {r.sku})
    /\ Adopt(t)
    /\ removed' = IF r.quiet THEN removed \cup {r.sku} ELSE removed
    /\ removal' = [removal EXCEPT ![t] = NoRemoval]
    /\ UNCHANGED <<others, saving, sync, bounds>>

RemovalFails(t) ==
    LET r == removal[t] IN
    /\ \/ r.at \in {"post", "read"} /\ GivesUp(<<t, "removal">>)
       \/ r.at = "put" /\ Conflict(<<t, "removal">>)
       \/ r.at = "put" /\ Broken(<<t, "removal">>, r.plan, r.hand \cup {r.sku})
    /\ removal' = [removal EXCEPT ![t] = NoRemoval]
    /\ UNCHANGED <<others, screen, saving, sync, removed, bounds>>

-----------------------------------------------------------------------------
(* runAutoSync, returnToAuto and a runner's runDraftAutoSync *)

StartSync(t) ==
    /\ sync[t].at = "idle" /\ syncs < MaxSyncs /\ syncs' = syncs + 1
    /\ sync' = [sync EXCEPT ![t].at = "flush"]
    /\ timer' = [timer EXCEPT ![t] = FALSE]
    /\ UNCHANGED <<server, screen, pending, retry, clicked, flight, removal, removed, clicks>>

SyncFlushes(t) ==
    /\ sync[t].at = "flush" /\ NothingInFlight(t)
    /\ IF pending[t].is
       THEN Take(t, pending[t], "sync") /\ sync' = [sync EXCEPT ![t].at = "own"]
       ELSE sync' = [sync EXCEPT ![t].at = "get"] /\ UNCHANGED <<flight, pending, clicked>>
    /\ UNCHANGED <<server, screen, timer, retry, removal, removed, bounds>>

Reads(c, at) ==
    /\ Read(<<c, "sync">>)
    /\ sync' = [sync EXCEPT ![c] = [@ EXCEPT !.at = at, !.plan = plan, !.hand = manual]]

SyncGets(t) ==
    /\ sync[t].at = "get"
    /\ Reads(t, "put")
    /\ UNCHANGED <<others, screen, saving, removal, removed, bounds>>

RunnerGets(c) ==
    /\ sync[c].at = "idle" /\ syncs < MaxSyncs /\ syncs' = syncs + 1
    /\ Reads(c, "put")
    /\ UNCHANGED <<others, screen, saving, removal, removed, clicks>>

\* Mutant: the calculation takes manual SKUs, too.
CalculatesAll(c, calc) == calc

\* buildAutoSyncPlan: the calculation replaces the plan of SKUs that are not manual.
Calculated(c, calc) == [s \in Skus |-> IF s \in sync[c].hand THEN sync[c].plan[s] ELSE calc[s]]

SyncPuts(c) ==
    /\ sync[c].at = "put"
    /\ \E calc \in Plans :
          /\ Calculated(c, calc) # sync[c].plan
          /\ Put(<<c, "sync">>, Calculated(c, calc), sync[c].hand)
    /\ IF c \in Tabs THEN Adopt(c) ELSE UNCHANGED screen
    /\ sync' = [sync EXCEPT ![c] = NoSync]
    /\ UNCHANGED <<others, saving, removal, removed, bounds>>

\* No difference, a conflict, or an error whose write may have been made.
SyncEnds(c) ==
    /\ sync[c].at \in {"get", "put", "unmark"}
    /\ \/ GivesUp(<<c, "sync">>)
       \/ /\ sync[c].at = "put"
          /\ \E calc \in Plans : Put(<<c, "sync">>, Calculated(c, calc), sync[c].hand)
       \/ /\ sync[c].at = "unmark"
          /\ Put(<<c, "sync">>, sync[c].plan, sync[c].hand \ {sync[c].sku})
    /\ sync' = [sync EXCEPT ![c] = NoSync]
    /\ UNCHANGED <<others, screen, saving, removal, removed, bounds>>

\* Back to automatic: the mark is taken off a fresh reading, then a synchronisation
\* runs.
ReturnGets(t, s) ==
    /\ sync[t].at = "idle" /\ s \in hand[t] /\ syncs < MaxSyncs /\ syncs' = syncs + 1
    /\ Read(<<t, "sync">>)
    /\ sync' = [sync EXCEPT ![t] = [at |-> "unmark", sku |-> s, plan |-> plan, hand |-> manual]]
    /\ removed' = removed \ {s}
    /\ removal' = [removal EXCEPT ![t].quiet = @ /\ removal[t].sku # s]
    /\ UNCHANGED <<others, screen, saving, clicks>>

ReturnPuts(t) ==
    LET y == sync[t] IN
    /\ y.at = "unmark"
    /\ Put(<<t, "sync">>, y.plan, y.hand \ {y.sku})
    /\ hand' = [hand EXCEPT ![t] = manual']
    /\ sync' = [sync EXCEPT ![t] = [NoSync EXCEPT !.at = "flush"]]
    /\ timer' = [timer EXCEPT ![t] = FALSE]
    /\ UNCHANGED <<others, rows, pending, retry, clicked, flight, removal, removed, bounds>>

-----------------------------------------------------------------------------
(* Other writers *)

\* commit_draft: the rows of a SKU become requests.
Commit(s) ==
    /\ plan[s] > 0
    /\ moving' = [moving EXCEPT ![s] = @ + plan[s]]
    /\ plan' = Without(plan, s) /\ fresh' = {}
    /\ UNCHANGED <<manual, reserve, claim, screen, saving, removal, sync, removed, bounds>>

\* clear_draft
Clear ==
    /\ plan # Zero \/ manual # {}
    /\ plan' = Zero /\ manual' = {} /\ fresh' = {}
    /\ removed' = {}
    /\ UNCHANGED <<others, screen, saving, removal, sync, bounds>>

\* update_draft of another draft: its clamp reads this one, then it is stored.
OtherReads(s) ==
    /\ s \in Shared /\ claim[s] = 0 /\ reserve[s] = 0
    /\ Minus(Stock, moving[s] + plan[s]) > 0
    /\ IF "clamp" \in Windows
       THEN claim' = [claim EXCEPT ![s] = Minus(Stock, moving[s] + plan[s])] /\ UNCHANGED reserve
       ELSE reserve' = [reserve EXCEPT ![s] = Minus(Stock, moving[s] + plan[s])] /\ UNCHANGED claim
    /\ UNCHANGED <<plan, manual, moving, fresh, screen, saving, removal, sync, removed, bounds>>

OtherStores(s) ==
    /\ claim[s] > 0 \/ reserve[s] > 0
    /\ reserve' = [reserve EXCEPT ![s] = claim[s]]
    /\ claim' = [claim EXCEPT ![s] = 0]
    /\ UNCHANGED <<plan, manual, moving, fresh, screen, saving, removal, sync, removed, bounds>>

-----------------------------------------------------------------------------
Save(t) ==
    FlightGets(t) \/ FlightGetFails(t) \/ FlightPuts(t) \/ FlightConflicts(t) \/ FlightFails(t)

Remove(t) ==
    \/ \E s \in Skus : StartRemoval(t, s)
    \/ RemovalFlushes(t) \/ RemovalReads(t) \/ RemovalCommits(t) \/ RemovalPuts(t) \/ RemovalFails(t)

TabStep(t) ==
    \/ \E s \in Skus, q \in 0..Stock : Click(t, s, q)
    \/ TimerFires(t) \/ Save(t) \/ Remove(t)
    \/ StartSync(t) \/ SyncFlushes(t) \/ SyncGets(t)
    \/ \E s \in Skus : ReturnGets(t, s)
    \/ ReturnPuts(t)

Next ==
    \/ \E t \in Tabs : TabStep(t)
    \/ \E c \in Runners : RunnerGets(c)
    \/ \E c \in Clients : SyncPuts(c) \/ SyncEnds(c)
    \/ \E s \in Skus : Commit(s) \/ OtherReads(s) \/ OtherStores(s)
    \/ Clear

Spec == Init /\ [][Next]_vars

\* Timers fire, what awaits a save goes on, and every request is answered or fails.
Fairness ==
    \A t \in Tabs :
        WF_vars(TimerFires(t) \/ RemovalFlushes(t) \/ SyncFlushes(t)) /\ WF_vars(Save(t))

FairSpec == Spec /\ Fairness

-----------------------------------------------------------------------------
(* Properties *)

Edits == [rows : Plans, hand : SUBSET Skus, is : BOOLEAN]

\* Every variable has its shape; a save awaited by an operation is that operation's.
TypeOK ==
    /\ plan \in Plans /\ manual \subseteq Skus
    /\ moving \in Plans /\ reserve \in Plans /\ claim \in Plans
    /\ fresh \subseteq Clients \X {"flight", "removal", "sync"}
    /\ rows \in [Tabs -> Plans] /\ hand \in [Tabs -> SUBSET Skus]
    /\ pending \in [Tabs -> Edits] /\ timer \in [Tabs -> BOOLEAN]
    /\ retry \in [Tabs -> 0..MaxRetry] /\ clicked \in [Tabs -> BOOLEAN]
    /\ \A t \in Tabs :
          /\ flight[t].at \in {"none", "get", "put"} /\ flight[t].edit \in Edits
          /\ removal[t].at = "own" <=> flight[t].owner = "removal"
          /\ sync[t].at = "own" <=> flight[t].owner = "sync"
    /\ removed \subseteq Skus /\ clicks \in 0..MaxClicks /\ syncs \in 0..MaxSyncs

\* What drafts promise and what already moves never exceed the stock of the centre
\* (_clamp_to_ff_capacity: a phantom is cut, manual or not).
NoDoublePromise == \A s \in Skus : plan[s] + moving[s] + reserve[s] <= Stock

\* A SKU taken out with the cross stays out until the user touches it again, whatever
\* failed saves, their retries and synchronisations were under way (removeFromDraft).
RemovedStaysOut == \A s \in removed : plan[s] = 0

SyncWrites == \E c \in Clients : SyncPuts(c)

\* A synchronisation never changes a SKU a person has decided on, but for the clamp,
\* nor the set of such SKUs (buildAutoSyncPlan).
ManualIsSacred ==
    [][SyncWrites => manual' = manual
                     /\ \A s \in manual : plan'[s] = Less(plan[s], Cap(s))]_vars

Busy(t) == pending[t].is \/ flight[t].at # "none"

\* A save comes to an end, stored or reported as lost, however often the reading of
\* the draft fails.
EveryEditEnds == \A t \in Tabs : Busy(t) ~> ~Busy(t)

\* A mark of a person's decision goes only when the user takes it off or clears the
\* draft (flushDraftSave: a save must not overwrite the edits of another tab).
MarksStay ==
    [][\A s \in manual \ manual' :
          Clear \/ \E t \in Tabs : sync[t].at = "unmark" /\ sync[t].sku = s /\ sync'[t] # sync[t]]_vars
=============================================================================
