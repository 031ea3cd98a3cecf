----------------------------- MODULE FbsWriteoff -----------------------------
(***************************************************************************)
(* The write-off of delivered FBS orders (writeoff_completed_orders of     *)
(* backend/services/wb_fbs/orders_service.py) under the Redis lock of      *)
(* backend/services/wb_fbs/locks.py.                                       *)
(*                                                                         *)
(* Two processes call it: the five-minute job of the worker, cut off by a  *)
(* budget shorter than the lock's TTL, and "hand the supply over" in the   *)
(* API container, which nothing cuts off.  Before its write-off the job    *)
(* learns of cancelled orders and takes back what was written off for them, *)
(* without the lock (_revert_writeoff_on_cancel).  One linked warehouse.   *)
(* The locks of the stock rows only delay a step here and are left out:    *)
(* the literals of StockSessions are written whenever the lock is got.     *)
(***************************************************************************)
EXTENDS Integers, FiniteSets, FiniteSetsExt, Tallies

CONSTANTS
    Runs,         \* callers of the write-off
    Bounded,      \* those with a budget: the job
    Job,          \* the one that also polls the orders' statuses
    LastOrder,    \* orders are 1..LastOrder, the newest has the greatest id
    SKUs, SKUOf,
    Linked,       \* orders with a product card and a linked warehouse
    Cancellable,  \* orders the carrier or the buyer may cancel
    Opening,
    Cap,          \* _WRITEOFF_MAX_ORDERS
    Sold,         \* bound: SKUs of which another handler may take one unit
    MaxMishaps    \* bound: aborts, crashes and rollbacks, and failures of Redis

Orders == 1..LastOrder

ASSUME OrdersAssumption ==
    LastOrder \in Nat /\ SKUOf \in [Orders -> SKUs] /\ Linked \subseteq Orders
    /\ Cancellable \subseteq Orders
ASSUME OpeningAssumption == Opening \in [SKUs -> Nat]
ASSUME BoundsAssumption ==
    Sold \subseteq SKUs /\ Cap \in Nat /\ MaxMishaps \in Nat

VARIABLES
    complete,   \* orders in status complete: their supply has been handed over
    cancelled,  \* orders in a terminal status, which is never polled again
    written,    \* orders with written_off_at
    moves,      \* OUTBOUND movements of each order
    back,       \* INBOUND movements of each order
    row,        \* WarehouseStock.quantity
    taken,      \* SKUs of which other handlers took a unit
    redis,      \* is Redis reachable
    lock,       \* whose token the key holds
    run,
    poll,       \* the job's poll: what it knows of a cancelled order
    mishaps,
    faulty,     \* Redis has failed some time (history)
    overran     \* the key has expired under a run that was still at work (history)

cancelVars == <<cancelled, back, poll>>
luck == <<mishaps, faulty, overran>>
vars == <<complete, written, moves, row, taken, redis, lock, run, luck, cancelVars>>

Free == "free"
ASSUME RunsAssumption == Bounded \subseteq Runs /\ Job \in Bounded /\ Free \notin Runs

Idle == [phase |-> "idle"]

Phase(w)  == run[w].phase
Owns(w)   == Phase(w) # "idle" /\ run[w].token
Inside(w) == Phase(w) \in {"read", "book"}

\* The batch as it is read, before any order of it is booked.
Entered(hasToken) ==
    [phase |-> "read", token |-> hasToken, batch |-> {}, done |-> {},
     qty |-> Opening, read |-> {}, own |-> Opening]

Init ==
    /\ complete = {} /\ written = {}
    /\ moves = [o \in Orders |-> 0]
    /\ row = Opening
    /\ taken = {}
    /\ redis = TRUE
    /\ lock = Free
    /\ run = [w \in Runs |-> Idle]
    /\ cancelled = {} /\ back = [o \in Orders |-> 0] /\ poll = {}
    /\ mishaps = 0 /\ faulty = FALSE /\ overran = FALSE

Spent  == mishaps < MaxMishaps /\ mishaps' = mishaps + 1 /\ UNCHANGED overran
Mishap == Spent /\ UNCHANGED faulty
Fault  == Spent /\ faulty' = TRUE

-----------------------------------------------------------------------------
(* The lock *)

\* Mutant: the key is set whether it is there or not (no NX).
Overwrites == TRUE

SetsTheKey == lock = Free

\* acquire_lock: SET NX EX; with no Redis the run goes on without a lock.
Acquire(w) ==
    /\ Phase(w) = "idle"
    /\ w = Job => poll = {}
    /\ \/ redis /\ SetsTheKey /\ lock' = w
       \/ ~redis /\ UNCHANGED lock
    /\ run' = [run EXCEPT ![w] = Entered(redis)]
    /\ UNCHANGED <<complete, written, moves, row, taken, redis, luck, cancelVars>>

\* The SET is done and its answer is lost: the same as no Redis for the caller.
AcquireUnheard(w) ==
    /\ Fault
    /\ Phase(w) = "idle" /\ redis /\ SetsTheKey
    /\ w = Job => poll = {}
    /\ lock' = w
    /\ run' = [run EXCEPT ![w] = Entered(FALSE)]
    /\ UNCHANGED <<complete, written, moves, row, taken, redis, cancelVars>>

\* Mutant: the key is deleted whoever holds it.
Unlocked(w) == Free

\* release_lock: compare and delete.
LockAfterRelease(w) == IF lock = w THEN Free ELSE lock

Release(w) ==
    /\ Phase(w) = "out"
    /\ lock' = IF run[w].token /\ redis THEN LockAfterRelease(w) ELSE lock
    /\ run' = [run EXCEPT ![w] = Idle]
    /\ UNCHANGED <<complete, written, moves, row, taken, redis, luck, cancelVars>>

\* The TTL runs out, never under a run whose budget is shorter.
MayExpire == lock # Free /\ ~(lock \in Bounded /\ Owns(lock))

Expire ==
    /\ MayExpire
    /\ lock' = Free
    /\ overran' = (overran \/ Owns(lock))
    /\ UNCHANGED <<complete, written, moves, row, taken, redis, run, mishaps, faulty, cancelVars>>

-----------------------------------------------------------------------------
(* The run *)

Writable == (complete \ written) \cap Linked

\* Mutant: orders that can never be written off take places in the batch.
BatchOfAll ==
    {o \in Writable : Cardinality({p \in complete \ written : p > o}) < Cap}

\* The newest of the writable orders, at most Cap.
Batch ==
    {o \in Writable : Cardinality({p \in Writable : p > o}) < Cap}

\* The batch and the quantities of its rows.
Read(w) ==
    /\ Phase(w) = "read"
    /\ run' = [run EXCEPT ![w] = [@ EXCEPT !.phase = "book", !.batch = Batch, !.qty = row]]
    /\ UNCHANGED <<complete, written, moves, row, taken, redis, lock, luck, cancelVars>>

\* Mutant: the guard of _update_stock is gone.
NeverShort(have) == FALSE

Short(have) == have = 0

\* The next order of the batch, newest first: passed over when its row had
\* nothing left, booked by _update_stock otherwise, which looks at the row anew
\* and fails the whole run when it is short.
Book(w) ==
    LET x    == run[w]
        o    == Max(x.batch)
        s    == SKUOf[o]
        have == IF s \in x.read THEN x.own[s] ELSE row[s]
        rest == [x EXCEPT !.batch = @ \ {o}]
    IN  /\ Phase(w) = "book" /\ x.batch # {}
        /\ run' = [run EXCEPT ![w] =
             IF x.qty[s] = 0 THEN rest
             ELSE IF Short(have) THEN [x EXCEPT !.phase = "out"]
             ELSE [rest EXCEPT !.read = @ \cup {s}, !.done = @ \cup {o},
                               !.own = [x.own EXCEPT ![s] = have - 1],
                               !.qty = [x.qty EXCEPT ![s] = x.qty[s] - 1]]]
        /\ UNCHANGED <<complete, written, moves, row, taken, redis, lock, luck, cancelVars>>

\* The UPDATE of an order waits for the poll that holds its row, and then
\* marks it without another look at its status.
Commit(w) ==
    LET x == run[w] IN
    /\ Phase(w) = "book" /\ x.batch = {}
    /\ \A p \in poll : p.order \notin x.done
    /\ row' = [s \in SKUs |-> IF s \in x.read THEN x.own[s] ELSE row[s]]
    /\ written' = written \cup x.done
    /\ moves' = [o \in Orders |-> moves[o] + IF o \in x.done THEN 1 ELSE 0]
    /\ run' = [run EXCEPT ![w] = [@ EXCEPT !.phase = "out"]]
    /\ UNCHANGED <<complete, taken, redis, lock, luck, cancelVars>>

\* An exception, the budget of the job, a cancelled request: rolled back, and
\* the lock is released by the finally clause.
Abort(w) ==
    /\ Mishap
    /\ Inside(w)
    /\ run' = [run EXCEPT ![w] = [@ EXCEPT !.phase = "out"]]
    /\ UNCHANGED <<complete, written, moves, row, taken, redis, lock, cancelVars>>

\* The process is killed: rolled back, the lock stays until its TTL.
Crash(w) ==
    /\ Mishap
    /\ Phase(w) # "idle"
    /\ run' = [run EXCEPT ![w] = Idle]
    /\ UNCHANGED <<complete, written, moves, row, taken, redis, lock, cancelVars>>

-----------------------------------------------------------------------------
(* Cancelled orders *)

\* The poll learns that WB has cancelled o and loads it and its row.
PollCancel(o) ==
    /\ o \in Cancellable \ cancelled
    /\ poll = {} /\ Phase(Job) = "idle"
    /\ poll' = {[order |-> o, marked |-> o \in written, qty |-> row[SKUOf[o]]]}
    /\ UNCHANGED <<complete, written, moves, row, taken, redis, lock, run, luck, cancelled, back>>

\* Mutant: the unit is taken back and the mark stays.
MarksKept(o) == written

MarksAfterReturn(o) == written \ {o}

\* The commit of _apply_statuses: the terminal status, and for a written-off
\* order its unit back and the mark gone (_revert_writeoff_on_cancel).
CommitCancel ==
    \E p \in poll :
        LET o == p.order
            s == SKUOf[o]
        IN  /\ complete' = complete \ {o}
            /\ cancelled' = cancelled \cup {o}
            /\ IF p.marked
               THEN /\ row' = [row EXCEPT ![s] = p.qty + 1]
                    /\ back' = [back EXCEPT ![o] = @ + 1]
                    /\ written' = MarksAfterReturn(o)
               ELSE UNCHANGED <<row, back, written>>
            /\ poll' = {}
            /\ UNCHANGED <<moves, taken, redis, lock, run, luck>>

\* The job's transaction is rolled back; the order is polled again.
CancelFails ==
    /\ Mishap
    /\ poll # {} /\ poll' = {}
    /\ UNCHANGED <<complete, written, moves, row, taken, redis, lock, run, cancelled, back>>

-----------------------------------------------------------------------------
(* The rest of the system *)

\* deliver_supply: every order of the supply that has no terminal status.
HandOver(o) ==
    /\ o \notin complete \cup cancelled
    /\ complete' = complete \cup {o}
    /\ UNCHANGED <<written, moves, row, taken, redis, lock, run, luck, cancelVars>>

\* Another handler takes a unit.
Take(s) ==
    /\ s \notin taken /\ row[s] > 0
    /\ row' = [row EXCEPT ![s] = @ - 1]
    /\ taken' = taken \cup {s}
    /\ UNCHANGED <<complete, written, moves, redis, lock, run, luck, cancelVars>>

RedisFails ==
    /\ Fault
    /\ redis /\ redis' = FALSE
    /\ UNCHANGED <<complete, written, moves, row, taken, lock, run, cancelVars>>

RedisReturns ==
    /\ ~redis /\ redis' = TRUE
    /\ UNCHANGED <<complete, written, moves, row, taken, lock, run, luck, cancelVars>>

RunStep(w) ==
    \/ Acquire(w) \/ AcquireUnheard(w) \/ Release(w)
    \/ Read(w) \/ Book(w) \/ Commit(w)
    \/ Abort(w) \/ Crash(w)

Next ==
    \/ \E w \in Runs : RunStep(w)
    \/ \E o \in Orders : HandOver(o) \/ PollCancel(o)
    \/ CommitCancel \/ CancelFails
    \/ \E s \in Sold : Take(s)
    \/ Expire \/ RedisFails \/ RedisReturns

Spec == Init /\ [][Next]_vars

\* The job is started every five minutes, a run goes on unless it fails, and
\* failures (MaxMishaps) come to an end.
Fairness ==
    /\ \A w \in Bounded : SF_vars(Acquire(w))
    /\ \A w \in Runs : WF_vars(Read(w) \/ Book(w) \/ Commit(w) \/ Release(w))
    /\ WF_vars(CommitCancel)
    /\ WF_vars(Expire)

FairSpec == Spec /\ Fairness

-----------------------------------------------------------------------------
(* Properties *)

TypeOK ==
    /\ complete \subseteq Orders /\ written \subseteq Orders /\ cancelled \subseteq Orders
    /\ moves \in [Orders -> Nat] /\ back \in [Orders -> Nat]
    /\ poll \subseteq [order : Orders, marked : BOOLEAN, qty : Nat]
    /\ row \in [SKUs -> Nat]
    /\ taken \subseteq Sold /\ mishaps \in 0..MaxMishaps
    /\ redis \in BOOLEAN /\ overran \in BOOLEAN /\ faulty \in BOOLEAN
    /\ lock \in Runs \cup {Free}
    /\ \A w \in Runs :
          Phase(w) # "idle" => /\ run[w].batch \cup run[w].done \subseteq Orders
                               /\ run[w].own \in [SKUs -> Nat]

\* The lock did what it is for: Redis never failed, and no run outlived its key.
Locked == ~faulty /\ ~overran

\* written_off_at says what the ledger says: a marked order has left the stock
\* once more than it came back, an unmarked one as often.
LedgerTells(o) == moves[o] = back[o] + IF o \in written THEN 1 ELSE 0

\* Runs that follow each other, die half-way and start again, and polls of
\* cancellations in between, write an order off once: as long as the lock holds.
WrittenOffOnce == Locked => \A o \in Orders : LedgerTells(o)

\* The claim without that proviso ("strictly idempotent by written_off_at").
StrictlyIdempotent == \A o \in Orders : LedgerTells(o)

\* The orders of a product.
Mine(s) == {o \in Orders : SKUOf[o] = s}

\* The row has lost what the movements say, the lost update the lock is for.
\* It keeps out only those who take it: other handlers, and the return of a
\* cancelled order, write the row without it.
RowTellsMoves ==
    Locked => \A s \in SKUs :
        Mine(s) \cap Cancellable = {} /\ s \notin taken =>
            row[s] + Total([o \in Mine(s) |-> moves[o]])
              = Opening[s] + Total([o \in Mine(s) |-> back[o]])

\* What was written off for an order that is cancelled comes back, whichever of
\* the write-off and the poll is first: a terminal status is not polled again.
CancelledIsReturned ==
    \A o \in cancelled : moves[o] = back[o]

\* A run that outlived its lock does not release the next owner's.
ReleaseSparesOthers ==
    [][\A w \in Runs : (Phase(w) = "out" /\ run'[w] = Idle) => lock' = lock \/ lock = w]_vars

\* There is stock for every pending order of this order's product.
Covered(o) ==
    row[SKUOf[o]] >= Cardinality({p \in Writable : SKUOf[p] = SKUOf[o]})

AllCovered == \A o \in Writable : Covered(o)

\* While there is stock for all that is pending, every pending order is written
\* off by some run, whatever else is in the queue (orders with no product card
\* or warehouse, which never can be), or it is cancelled.
QueuedIsWritten ==
    \A o \in Linked : (o \in Writable /\ AllCovered) ~> (o \notin Writable \/ ~AllCovered)

\* The claim without that proviso ("the tail goes with the next one").
TailIsWritten ==
    \A o \in Linked : (o \in Writable /\ Covered(o)) ~> (o \notin Writable \/ ~Covered(o))
=============================================================================
