-------------------------- MODULE FbsWriteoffProofs --------------------------
(***************************************************************************)
(* What is proved of the write-off, for any number of callers, orders,     *)
(* products and mishaps: the books are well formed, an order is written    *)
(* off once and the rows tell it as long as the lock holds, and a run      *)
(* never releases the lock of another.                                     *)
(*                                                                         *)
(* RowTellsMoves speaks of committed books; that a commit keeps them needs *)
(* RunTold, what the literals of a run under way will make of a row.       *)
(***************************************************************************)
EXTENDS FbsWriteoff, TLAPS, WellFoundedInduction, FiniteSetTheorems

\* A run at work: what it holds between the lock and its commit.
AtWork == [phase : {"read", "book", "out"}, token : BOOLEAN, batch : SUBSET Orders,
           done : SUBSET Orders, qty : [SKUs -> Nat], read : SUBSET SKUs,
           own : [SKUs -> Nat]]

Typed == TypeOK /\ run \in [Runs -> {Idle} \cup AtWork]

\* A working lock has one run at work, its owner.
Exclusive ==
    Locked => /\ redis
              /\ \A w \in Runs : Phase(w) # "idle" => run[w].token /\ lock = w

\* No order of a run's batch is marked by anybody else.
Fresh ==
    Locked => \A w \in Runs : Inside(w) =>
                 (run[w].batch \cup run[w].done) \cap written = {}

\* The poll's word on the mark of its order is still true when it commits.
PollTells == \A p \in poll : p.marked <=> p.order \in written

IInv == Typed /\ Exclusive /\ Fresh /\ PollTells /\ WrittenOffOnce

-----------------------------------------------------------------------------
(* Operators *)

\* The newest order of a batch is one of the batch.
LEMMA NewestIsThere ==
    ASSUME NEW T \in SUBSET Orders, T # {}
    PROVE  Max(T) \in T
<1> DEFINE U == {LastOrder - x : x \in T}
<1>0. LastOrder \in Nat
  BY OrdersAssumption
<1>1. U \subseteq Nat /\ U # {}
  <2>1. \A x \in T : LastOrder - x \in Nat
    BY <1>0 DEF Orders
  <2>2. PICK t \in T : TRUE
    OBVIOUS
  <2>3. LastOrder - t \in U
    BY <2>2
  <2>4. \A v \in U : \E x \in T : v = LastOrder - x
    OBVIOUS
  <2> HIDE DEF U
  <2> QED BY <2>1, <2>3, <2>4
<1>2. PICK u \in U : \A v \in U : ~(<<v, u>> \in OpToRel(<, Nat))
  <2> HIDE DEF U
  <2> QED BY <1>1, NatLessThanWellFounded, WFMin
<1>3. \A v \in U : ~(v < u)
  BY <1>1, <1>2 DEF OpToRel
<1>4. PICK x \in T : u = LastOrder - x
  OBVIOUS
<1>5. \A y \in T : x >= y
  <2>1. SUFFICES ASSUME NEW y \in T PROVE x >= y
    OBVIOUS
  <2>2. LastOrder - y \in U
    BY <2>1
  <2>3. ~(LastOrder - y < LastOrder - x)
    BY <1>3, <1>4, <2>2
  <2> QED BY <1>0, <2>3 DEF Orders
<1> QED BY <1>5 DEF Max

\* A batch is read from the orders that are not marked yet.
LEMMA BatchIsUnmarked ==
    /\ complete \subseteq Orders => Batch \subseteq Orders
    /\ Batch \cap written = {}
BY DEF Batch, Writable

\* A mishap never makes a lock trustworthy that was not.
LEMMA LockedBefore ==
    ASSUME Typed, Next, Locked'
    PROVE  Locked
BY DEF Typed, TypeOK, Next, RunStep, Locked, Acquire, AcquireUnheard, Release, Read, Book,
       Commit, Abort, Crash, HandOver, PollCancel, CommitCancel, CancelFails, Take, Expire,
       RedisFails, RedisReturns, luck, cancelVars, Mishap, Fault, Spent
-----------------------------------------------------------------------------
(* Types *)

LEMMA TypedInit == Init => Typed
<1> SUFFICES ASSUME Init PROVE Typed
  OBVIOUS
<1>1. run \in [Runs -> {Idle} \cup AtWork] /\ \A w \in Runs : Phase(w) = "idle"
  BY DEF Init, Phase, Idle
<1>2. moves \in [Orders -> Nat] /\ back \in [Orders -> Nat]
  BY DEF Init
<1>3. row \in [SKUs -> Nat] /\ mishaps \in 0..MaxMishaps
  BY OpeningAssumption, BoundsAssumption DEF Init
<1>4. /\ complete = {} /\ written = {} /\ cancelled = {} /\ poll = {} /\ taken = {}
      /\ redis = TRUE /\ overran = FALSE /\ faulty = FALSE /\ lock = Free
  BY DEF Init
<1> QED BY <1>1, <1>2, <1>3, <1>4 DEF Typed, TypeOK

\* A run that starts, goes on or ends leaves the others as they are.
LEMMA TypedRun ==
    ASSUME Typed, NEW w \in Runs, NEW x \in {Idle} \cup AtWork,
           run' = [run EXCEPT ![w] = x]
    PROVE  run' \in [Runs -> {Idle} \cup AtWork]
BY DEF Typed

\* What TypeOK says of runs follows from their type.
LEMMA RunsAreTyped ==
    ASSUME run \in [Runs -> {Idle} \cup AtWork]
    PROVE  \A w \in Runs : Phase(w) # "idle" =>
              /\ run[w] \in AtWork
              /\ run[w].batch \cup run[w].done \subseteq Orders
              /\ run[w].own \in [SKUs -> Nat]
BY DEF Phase, Idle, AtWork

\* What a step of a run at work leaves of it.
Onward(w, x) ==
    /\ x.token = run[w].token /\ x.phase # "read"
    /\ x.phase = "book" =>
          \/ Phase(w) = "read" /\ x.batch = Batch /\ x.done = run[w].done
          \/ Phase(w) = "book" /\ x.batch \cup x.done \subseteq run[w].batch \cup run[w].done

\* Booking an order: the run passes over it, fails, or takes a unit for it.
LEMMA BookGoesOn ==
    ASSUME Typed, NEW w \in Runs, Book(w)
    PROVE  \E x \in AtWork : Onward(w, x) /\ run' = [run EXCEPT ![w] = x]
<1> DEFINE x    == run[w]
           o    == Max(x.batch)
           s    == SKUOf[o]
           have == IF s \in x.read THEN x.own[s] ELSE row[s]
           rest == [x EXCEPT !.batch = @ \ {o}]
           more == [rest EXCEPT !.read = @ \cup {s}, !.done = @ \cup {o},
                                !.own = [x.own EXCEPT ![s] = have - 1],
                                !.qty = [x.qty EXCEPT ![s] = x.qty[s] - 1]]
           fail == [x EXCEPT !.phase = "out"]
<1>1. x \in AtWork /\ x.batch # {} /\ x.phase = "book"
  BY RunsAreTyped DEF Typed, Book, Phase
<1>2. o \in x.batch /\ o \in Orders
  BY <1>1, NewestIsThere DEF AtWork
<1>3. s \in SKUs
  BY <1>2, OrdersAssumption
<1>4. have \in Nat
  BY <1>1, <1>3 DEF Typed, TypeOK, AtWork
<1>5. run' = [run EXCEPT ![w] = IF x.qty[s] = 0 THEN rest ELSE IF Short(have) THEN fail ELSE more]
  BY DEF Book
<1>6. fail \in AtWork /\ fail.token = x.token /\ fail.phase = "out"
  BY <1>1 DEF AtWork
<1>7. /\ rest \in AtWork /\ rest.token = x.token /\ rest.phase = "book"
      /\ rest.batch = x.batch \ {o} /\ rest.done = x.done /\ rest.read = x.read
  <2> HIDE DEF o, s, have
  <2> QED BY <1>1 DEF AtWork
<1>8. ASSUME x.qty[s] # 0, ~Short(have)
      PROVE  /\ more \in AtWork /\ more.token = x.token /\ more.phase = "book"
             /\ more.batch = x.batch \ {o} /\ more.done = x.done \cup {o}
  <2>1. [x.own EXCEPT ![s] = have - 1] \in [SKUs -> Nat]
    <3>1. x.own \in [SKUs -> Nat] /\ have - 1 \in Nat
      BY <1>1, <1>4, <1>8 DEF AtWork, Short
    <3> QED BY <3>1
  <2>2. [x.qty EXCEPT ![s] = x.qty[s] - 1] \in [SKUs -> Nat]
    <3>1. x.qty \in [SKUs -> Nat] /\ x.qty[s] - 1 \in Nat
      BY <1>1, <1>3, <1>8 DEF AtWork
    <3> QED BY <3>1
  <2>3. rest.read \cup {s} \in SUBSET SKUs /\ rest.done \cup {o} \in SUBSET Orders
    BY <1>1, <1>2, <1>3, <1>7 DEF AtWork
  <2> HIDE DEF rest, have, s, o
  <2> QED BY <1>7, <2>1, <2>2, <2>3 DEF AtWork
<1>9. CASE x.qty[s] = 0
  <2>1. run' = [run EXCEPT ![w] = rest]
    BY <1>5, <1>9
  <2>2. Onward(w, rest)
    BY <1>1, <1>2, <1>7 DEF Onward, Phase
  <2> QED BY <1>7, <2>1, <2>2
<1>10. CASE x.qty[s] # 0 /\ Short(have)
  <2>1. run' = [run EXCEPT ![w] = fail]
    BY <1>5, <1>10
  <2> QED BY <1>6, <2>1 DEF Onward
<1>11. CASE x.qty[s] # 0 /\ ~Short(have)
  <2>1. run' = [run EXCEPT ![w] = more]
    BY <1>5, <1>11
  <2>2. Onward(w, more)
    <3> HIDE DEF more
    <3> QED BY <1>1, <1>2, <1>8, <1>11 DEF Onward, Phase
  <2> QED BY <1>8, <1>11, <2>1, <2>2
<1> QED BY <1>9, <1>10, <1>11

LEMMA RunGoesOn ==
    ASSUME Typed, NEW w \in Runs, Read(w) \/ Book(w) \/ Commit(w) \/ Abort(w)
    PROVE  \E x \in AtWork : Onward(w, x) /\ run' = [run EXCEPT ![w] = x]
<1>1. run[w] \in AtWork
  BY RunsAreTyped DEF Typed, Read, Book, Commit, Abort, Inside
<1>2. CASE Read(w)
  <2> DEFINE x == [run[w] EXCEPT !.phase = "book", !.batch = Batch, !.qty = row]
  <2>1. Batch \in SUBSET Orders /\ row \in [SKUs -> Nat] /\ Phase(w) = "read"
    BY <1>2, BatchIsUnmarked DEF Typed, TypeOK, Read
  <2>2. x \in AtWork /\ x.token = run[w].token /\ x.phase = "book"
        /\ x.batch = Batch /\ x.done = run[w].done
    BY <1>1, <2>1 DEF AtWork
  <2>3. run' = [run EXCEPT ![w] = x]
    BY <1>2 DEF Read
  <2> HIDE DEF x
  <2> QED BY <2>1, <2>2, <2>3 DEF Onward
<1>3. CASE Book(w)
  BY <1>3, BookGoesOn
<1>4. CASE Commit(w) \/ Abort(w)
  <2> DEFINE x == [run[w] EXCEPT !.phase = "out"]
  <2>1. x \in AtWork /\ x.token = run[w].token /\ x.phase = "out"
    BY <1>1 DEF AtWork
  <2>2. run' = [run EXCEPT ![w] = x]
    BY <1>4 DEF Commit, Abort
  <2> QED BY <2>1, <2>2 DEF Onward
<1> QED BY <1>2, <1>3, <1>4

LEMMA TypedStep ==
    ASSUME Typed, Next
    PROVE  Typed'
<1>1. ASSUME NEW w \in Runs, RunStep(w)
      PROVE  run' \in [Runs -> {Idle} \cup AtWork]
  <2>1. \A t \in BOOLEAN : Entered(t) \in AtWork
    BY OpeningAssumption DEF Entered, AtWork
  <2>2. CASE Acquire(w) \/ AcquireUnheard(w)
    BY <2>1, <2>2, TypedRun DEF Acquire, AcquireUnheard, Typed, TypeOK
  <2>3. CASE Release(w) \/ Crash(w)
    BY <2>3, TypedRun DEF Release, Crash
  <2>4. CASE Read(w) \/ Book(w) \/ Commit(w) \/ Abort(w)
    BY <2>4, RunGoesOn, TypedRun
  <2> QED BY <1>1, <2>2, <2>3, <2>4 DEF RunStep
<1>2. run' \in [Runs -> {Idle} \cup AtWork]
  BY <1>1 DEF Next, Typed, HandOver, PollCancel, CommitCancel, CancelFails, Take, Expire,
              RedisFails, RedisReturns
<1>3. row' \in [SKUs -> Nat]
  <2>1. ASSUME NEW w \in Runs, Commit(w) PROVE row' \in [SKUs -> Nat]
    <3>1. run[w] \in AtWork
      BY <2>1, RunsAreTyped DEF Typed, Commit
    <3> QED BY <2>1, <3>1 DEF Commit, Typed, TypeOK, AtWork
  <2>2. ASSUME CommitCancel PROVE row' \in [SKUs -> Nat]
    BY <2>2, OrdersAssumption DEF CommitCancel, Typed, TypeOK
  <2>3. ASSUME NEW s \in Sold, Take(s) PROVE row' \in [SKUs -> Nat]
    BY <2>3, BoundsAssumption DEF Take, Typed, TypeOK
  <2> QED BY <2>1, <2>2, <2>3 DEF Next, RunStep, Typed, TypeOK, Acquire, AcquireUnheard,
       Release, Read, Book, Abort, Crash, HandOver, PollCancel, CancelFails, Expire,
       RedisFails, RedisReturns
<1>4. written' \subseteq Orders /\ moves' \in [Orders -> Nat]
  <2>1. ASSUME NEW w \in Runs, Commit(w)
        PROVE  written' \subseteq Orders /\ moves' \in [Orders -> Nat]
    <3>1. run[w] \in AtWork
      BY <2>1, RunsAreTyped DEF Typed, Commit
    <3> QED BY <2>1, <3>1 DEF Commit, Typed, TypeOK, AtWork
  <2>2. ASSUME CommitCancel
        PROVE  written' \subseteq Orders /\ moves' \in [Orders -> Nat]
    BY <2>2 DEF CommitCancel, MarksAfterReturn, Typed, TypeOK
  <2> QED BY <2>1, <2>2 DEF Next, RunStep, Typed, TypeOK, Acquire, AcquireUnheard,
       Release, Read, Book, Abort, Crash, HandOver, PollCancel, CancelFails, Expire, Take,
       RedisFails, RedisReturns
<1>5. /\ complete' \subseteq Orders /\ cancelled' \subseteq Orders
      /\ back' \in [Orders -> Nat]
  <2>1. CASE CommitCancel
    BY <2>1 DEF CommitCancel, Typed, TypeOK
  <2>2. ASSUME NEW o \in Orders, HandOver(o) \/ PollCancel(o)
        PROVE  complete' \subseteq Orders /\ cancelled' \subseteq Orders /\ back' = back
    BY <2>2 DEF HandOver, PollCancel, cancelVars, Typed, TypeOK
  <2>3. ASSUME NEW w \in Runs, RunStep(w)
        PROVE  complete' = complete /\ cancelled' = cancelled /\ back' = back
    BY <2>3 DEF RunStep, Acquire, AcquireUnheard, Release, Read, Book, Commit, Abort, Crash,
                cancelVars
  <2>4. ASSUME CancelFails \/ Expire \/ RedisFails \/ RedisReturns \/ \E s \in Sold : Take(s)
        PROVE  complete' = complete /\ cancelled' = cancelled /\ back' = back
    BY <2>4 DEF CancelFails, Expire, Take, RedisFails, RedisReturns, cancelVars
  <2> QED BY <2>1, <2>2, <2>3, <2>4 DEF Next, Typed, TypeOK
<1>6. poll' \subseteq [order : Orders, marked : BOOLEAN, qty : Nat]
  <2>1. ASSUME NEW o \in Orders, PollCancel(o)
        PROVE  poll' \subseteq [order : Orders, marked : BOOLEAN, qty : Nat]
    <3>1. row[SKUOf[o]] \in Nat /\ (o \in written) \in BOOLEAN
      BY OrdersAssumption DEF Typed, TypeOK
    <3> QED BY <2>1, <3>1 DEF PollCancel
  <2>2. ASSUME CommitCancel \/ CancelFails PROVE poll' = {}
    BY <2>2 DEF CommitCancel, CancelFails
  <2>3. ASSUME NEW w \in Runs, RunStep(w) PROVE poll' = poll
    BY <2>3 DEF RunStep, Acquire, AcquireUnheard, Release, Read, Book, Commit, Abort, Crash,
                cancelVars
  <2>4. ASSUME \/ Expire \/ RedisFails \/ RedisReturns
               \/ \E s \in Sold : Take(s)
               \/ \E o \in Orders : HandOver(o)
        PROVE  poll' = poll
    BY <2>4 DEF HandOver, Expire, Take, RedisFails, RedisReturns, cancelVars
  <2> QED BY <2>1, <2>2, <2>3, <2>4 DEF Next, Typed, TypeOK
<1>8. taken' \subseteq Sold
  <2>1. ASSUME NEW w \in Runs, RunStep(w) PROVE taken' = taken
    BY <2>1 DEF RunStep, Acquire, AcquireUnheard, Release, Read, Book, Commit, Abort, Crash
  <2>2. ASSUME NEW s \in Sold, Take(s) PROVE taken' = taken \cup {s}
    BY <2>2 DEF Take
  <2>3. ASSUME \/ CommitCancel \/ CancelFails \/ Expire \/ RedisFails \/ RedisReturns
               \/ \E o \in Orders : HandOver(o) \/ PollCancel(o)
        PROVE  taken' = taken
    BY <2>3 DEF HandOver, PollCancel, CommitCancel, CancelFails, Expire, RedisFails, RedisReturns
  <2> QED BY <2>1, <2>2, <2>3 DEF Next, Typed, TypeOK
<1>9. lock' \in Runs \cup {Free} /\ redis' \in BOOLEAN
  BY DEF Next, RunStep, Typed, TypeOK, Acquire, AcquireUnheard, Release, LockAfterRelease,
         Read, Book, Commit, Abort, Crash, HandOver, PollCancel, CommitCancel, CancelFails,
         Expire, Take, RedisFails, RedisReturns
<1>10. mishaps' \in 0..MaxMishaps /\ overran' \in BOOLEAN /\ faulty' \in BOOLEAN
  <2>1. Spent => mishaps' \in 0..MaxMishaps
    BY BoundsAssumption DEF Spent, Typed, TypeOK
  <2>2. mishaps' = mishaps \/ Spent
    BY DEF Next, RunStep, Acquire, AcquireUnheard, Release, Read, Book, Commit, Abort, Crash,
           HandOver, PollCancel, CommitCancel, CancelFails, Expire, Take, RedisFails,
           RedisReturns, luck, Mishap, Fault
  <2>3. overran' \in BOOLEAN /\ faulty' \in BOOLEAN
    BY DEF Next, RunStep, Typed, TypeOK, Acquire, AcquireUnheard, Release, Read, Book, Commit,
           Abort, Crash, HandOver, PollCancel, CommitCancel, CancelFails, Expire, Take,
           RedisFails, RedisReturns, luck, Mishap, Fault, Spent, Owns
  <2> QED BY <2>1, <2>2, <2>3 DEF Typed, TypeOK
<1>7. \A w \in Runs : Phase(w)' # "idle" => /\ run'[w].batch \cup run'[w].done \subseteq Orders
                                            /\ run'[w].own \in [SKUs -> Nat]
  BY <1>2 DEF Phase, Idle, AtWork
<1> QED BY <1>2, <1>3, <1>4, <1>5, <1>6, <1>7, <1>8, <1>9, <1>10 DEF Typed, TypeOK

-----------------------------------------------------------------------------
(* The lock *)

\* While the lock works, the others are idle.
LEMMA OthersIdle ==
    ASSUME Exclusive, Locked, NEW w \in Runs, NEW v \in Runs, v # w, Phase(w) # "idle"
    PROVE  Phase(v) = "idle"
BY DEF Exclusive

LEMMA ExclusiveStep ==
    ASSUME Typed, Exclusive, Next
    PROVE  Exclusive'
<1> SUFFICES ASSUME Locked' PROVE redis' /\ \A w \in Runs : Phase(w)' # "idle" => run'[w].token /\ lock' = w
  BY DEF Exclusive
<1>1. Locked
  BY LockedBefore
<1>2. ASSUME NEW w \in Runs, RunStep(w)
      PROVE  redis' /\ \A v \in Runs : Phase(v)' # "idle" => run'[v].token /\ lock' = v
  <2>1. CASE Acquire(w)
    <3>1. redis /\ lock = Free /\ lock' = w
      BY <1>1, <2>1 DEF Acquire, Exclusive, SetsTheKey
    <3>2. \A v \in Runs : Phase(v) = "idle"
      BY <1>1, <3>1, RunsAssumption DEF Exclusive
    <3>3. run'[w].token
      BY <2>1, <3>1 DEF Acquire, Entered, Typed
    <3> QED BY <2>1, <3>1, <3>2, <3>3 DEF Acquire, Typed, Phase
  <2>2. CASE AcquireUnheard(w)
    BY <2>2 DEF AcquireUnheard, Fault, Locked
  <2>3. CASE Release(w) \/ Crash(w)
    <3>1. \A v \in Runs \ {w} : Phase(v) = "idle"
      BY <1>1, <2>3, OthersIdle DEF Release, Crash
    <3>2. Phase(w)' = "idle" /\ redis'
      <4>1. run' = [run EXCEPT ![w] = Idle] /\ redis' = redis
        BY <2>3 DEF Release, Crash
      <4> QED BY <1>1, <4>1 DEF Typed, Phase, Idle, Exclusive
    <3> QED BY <2>3, <3>1, <3>2 DEF Release, Crash, Typed, Phase
  <2>4. CASE Read(w) \/ Book(w) \/ Commit(w) \/ Abort(w)
    <3>1. Phase(w) # "idle" /\ lock' = lock /\ redis' = redis
      BY <2>4 DEF Read, Book, Commit, Abort, Inside
    <3>2. PICK x \in AtWork : Onward(w, x) /\ run' = [run EXCEPT ![w] = x]
      BY <2>4, RunGoesOn
    <3> QED BY <1>1, <3>1, <3>2 DEF Exclusive, Onward, Phase, Typed
  <2> QED BY <1>2, <2>1, <2>2, <2>3, <2>4 DEF RunStep
<1>3. CASE Expire
  <2>1. \A w \in Runs : Phase(w) = "idle"
    BY <1>1, <1>3 DEF Expire, MayExpire, Exclusive, Locked, Owns
  <2> QED BY <1>1, <1>3, <2>1 DEF Expire, Exclusive, Phase
<1>4. CASE RedisFails
  BY <1>4 DEF RedisFails, Fault, Locked
<1> QED BY <1>1, <1>2, <1>3, <1>4
    DEF Next, Exclusive, Phase, HandOver, PollCancel, CommitCancel, CancelFails, Take, RedisReturns

-----------------------------------------------------------------------------
(* The marks *)

\* Marks appear by a commit, and go by the return of a cancelled order's unit.
LEMMA MarksGrow ==
    ASSUME Next
    PROVE  \/ \E w \in Runs : Commit(w)
           \/ CommitCancel
           \/ written' = written /\ moves' = moves /\ back' = back
<1>1. ASSUME NEW w \in Runs, RunStep(w)
      PROVE  Commit(w) \/ (written' = written /\ moves' = moves /\ back' = back)
  BY <1>1 DEF RunStep, Acquire, AcquireUnheard, Release, Read, Book, Abort, Crash, cancelVars
<1> QED BY <1>1 DEF Next, HandOver, PollCancel, CancelFails, Take, Expire, RedisFails,
                    RedisReturns, cancelVars

LEMMA FreshStep ==
    ASSUME Typed, Exclusive, Fresh, Next
    PROVE  Fresh'
<1> SUFFICES ASSUME Locked', NEW w \in Runs, Inside(w)'
             PROVE  (run'[w].batch \cup run'[w].done) \cap written' = {}
  BY DEF Fresh
<1>1. Locked
  BY LockedBefore
<1>2. CASE \E v \in Runs : Commit(v)
  <2>1. PICK v \in Runs : Commit(v)
    BY <1>2
  <2>2. PICK x \in AtWork : run' = [run EXCEPT ![v] = x] /\ x.phase = "out"
    <3>1. run[v] \in AtWork
      BY <2>1, RunsAreTyped DEF Typed, Commit
    <3>2. [run[v] EXCEPT !.phase = "out"] \in AtWork
      BY <3>1 DEF AtWork
    <3>3. [run[v] EXCEPT !.phase = "out"].phase = "out"
      BY <3>1 DEF AtWork
    <3> QED BY <2>1, <3>2, <3>3 DEF Commit
  <2>3. w # v
    BY <2>2 DEF Typed, Inside, Phase
  <2>4. Phase(w) = "idle"
    BY <1>1, <2>1, <2>3, OthersIdle DEF Commit
  <2> QED BY <2>2, <2>3, <2>4 DEF Typed, Inside, Phase
<1>3. CASE ~\E v \in Runs : Commit(v)
  <2>1. written' \subseteq written
    BY <1>3, MarksGrow DEF CommitCancel, MarksAfterReturn
  <2>2. CASE run'[w] = run[w]
    BY <1>1, <2>1, <2>2 DEF Fresh, Inside, Phase
  <2>3. CASE run'[w] # run[w]
    <3>1. RunStep(w)
      <4>1. ASSUME NEW v \in Runs, RunStep(v), v # w PROVE run'[w] = run[w]
        <5>1. CASE Read(v) \/ Book(v) \/ Commit(v) \/ Abort(v)
          BY <4>1, <5>1, RunGoesOn DEF Typed
        <5> QED BY <4>1, <5>1 DEF RunStep, Acquire, AcquireUnheard, Release, Crash, Typed
      <4>2. \E v \in Runs : RunStep(v)
        BY <2>3 DEF Next, HandOver, PollCancel, CommitCancel, CancelFails, Take, Expire,
                    RedisFails, RedisReturns
      <4> QED BY <2>3, <4>1, <4>2
    <3>2. CASE Acquire(w) \/ AcquireUnheard(w)
      <4>1. \E t \in BOOLEAN : run'[w] = Entered(t)
        BY <3>2 DEF Acquire, AcquireUnheard, Typed, TypeOK
      <4> QED BY <4>1 DEF Entered
    <3>3. CASE Release(w) \/ Crash(w)
      <4>1. run'[w] = Idle
        BY <3>3 DEF Release, Crash, Typed
      <4> QED BY <4>1 DEF Inside, Phase, Idle
    <3>4. CASE Read(w) \/ Book(w) \/ Abort(w)
      <4>1. PICK x \in AtWork : Onward(w, x) /\ run' = [run EXCEPT ![w] = x]
        BY <3>4, RunGoesOn
      <4>2. x.phase = "book" /\ run'[w] = x
        BY <4>1 DEF Onward, Inside, Phase, Typed
      <4>3. (run[w].batch \cup run[w].done) \cap written = {}
        BY <1>1, <4>1, <4>2 DEF Fresh, Onward, Inside
      <4> QED BY <2>1, <4>1, <4>2, <4>3, BatchIsUnmarked DEF Onward
    <3> QED BY <1>3, <3>1, <3>2, <3>3, <3>4 DEF RunStep
  <2> QED BY <2>2, <2>3
<1> QED BY <1>2, <1>3

LEMMA PollTellsStep ==
    ASSUME Typed, PollTells, Next
    PROVE  PollTells'
<1>1. CASE \E w \in Runs : Commit(w)
  <2>1. PICK w \in Runs : Commit(w)
    BY <1>1
  <2>2. poll' = poll /\ written' = written \cup run[w].done
        /\ \A p \in poll : p.order \notin run[w].done
    BY <2>1 DEF Commit, cancelVars
  <2> QED BY <2>2 DEF PollTells
<1>2. ASSUME CommitCancel PROVE PollTells'
  <2>1. poll' = {}
    BY <1>2 DEF CommitCancel
  <2> QED BY <2>1 DEF PollTells
<1>3. ASSUME NEW o \in Orders, PollCancel(o)
      PROVE  PollTells'
  <2> DEFINE it == [order |-> o, marked |-> o \in written, qty |-> row[SKUOf[o]]]
  <2>1. poll' = {it} /\ written' = written
    BY <1>3 DEF PollCancel
  <2>2. it.order = o /\ it.marked = (o \in written)
    OBVIOUS
  <2> HIDE DEF it
  <2>3. ASSUME NEW p \in poll' PROVE p.marked <=> p.order \in written'
    <3>1. p = it
      BY <2>1, <2>3
    <3> QED BY <2>1, <2>2, <3>1
  <2> QED BY <2>3 DEF PollTells
<1>4. ASSUME NEW w \in Runs, RunStep(w), ~Commit(w)
      PROVE  PollTells'
  BY <1>4 DEF RunStep, Acquire, AcquireUnheard, Release, Read, Book, Abort, Crash, cancelVars,
              PollTells
<1>5. ASSUME \/ CancelFails \/ Expire \/ RedisFails \/ RedisReturns
             \/ \E s \in Sold : Take(s)
             \/ \E o \in Orders : HandOver(o)
      PROVE  PollTells'
  BY <1>5 DEF CancelFails, Expire, RedisFails, RedisReturns, Take, HandOver, cancelVars, PollTells
<1> QED BY <1>1, <1>2, <1>3, <1>4, <1>5 DEF Next

\* A commit books orders that had no mark; a return takes back one that had.
LEMMA LedgerStep ==
    ASSUME Typed, Fresh, PollTells, WrittenOffOnce, Next
    PROVE  WrittenOffOnce'
<1> SUFFICES ASSUME Locked', NEW o \in Orders
             PROVE  LedgerTells(o)'
  BY DEF WrittenOffOnce
<1>1. Locked /\ LedgerTells(o)
  BY LockedBefore DEF WrittenOffOnce
<1>2. moves[o] \in Nat /\ back[o] \in Nat
  BY DEF Typed, TypeOK
<1>3. ASSUME NEW w \in Runs, Commit(w)
      PROVE  LedgerTells(o)'
  <2>1. run[w].done \cap written = {}
    BY <1>1, <1>3 DEF Fresh, Commit, Inside
  <2>2. /\ moves'[o] = moves[o] + (IF o \in run[w].done THEN 1 ELSE 0)
        /\ back' = back /\ written' = written \cup run[w].done
    BY <1>3 DEF Commit, cancelVars
  <2> QED BY <1>1, <1>2, <2>1, <2>2 DEF LedgerTells
<1>4. CASE CommitCancel
  <2>1. PICK p \in poll :
          IF p.marked
          THEN back' = [back EXCEPT ![p.order] = @ + 1] /\ written' = written \ {p.order}
          ELSE back' = back /\ written' = written
    BY <1>4 DEF CommitCancel, MarksAfterReturn
  <2>2. moves' = moves /\ (p.marked <=> p.order \in written)
    BY <1>4 DEF CommitCancel, PollTells
  <2>3. back \in [Orders -> Nat]
    BY DEF Typed, TypeOK
  <2> QED BY <1>1, <1>2, <2>1, <2>2, <2>3 DEF LedgerTells
<1> QED BY <1>1, <1>3, <1>4, MarksGrow DEF LedgerTells

-----------------------------------------------------------------------------
(* What the rows have lost *)

\* A product whose row is written by runs alone.
Clean(s) == Mine(s) \cap Cancellable = {} /\ s \notin taken

\* The row of such a product has lost a unit for every mark.
RowTold ==
    Locked => \A s \in SKUs : Clean(s) => row[s] + Cardinality(Mine(s) \cap written) = Opening[s]

\* What a run will write to the row is the row less what it has booked.
RunTold ==
    Locked => \A w \in Runs :
        /\ Phase(w) = "read" => run[w].done = {} /\ run[w].read = {}
        /\ Phase(w) = "book" =>
             /\ run[w].done \cap run[w].batch = {}
             /\ \A s \in SKUs : Clean(s) =>
                  IF s \in run[w].read
                  THEN run[w].own[s] + Cardinality(Mine(s) \cap run[w].done) = row[s]
                  ELSE Mine(s) \cap run[w].done = {}

\* The poll asks about orders that may be cancelled, and no others.
PollAsks == \A p \in poll : p.order \in Cancellable

RowInv == RowTold /\ RunTold /\ PollAsks

\* Sets of orders are finite.
LEMMA OrdersAreFinite ==
    ASSUME NEW T \in SUBSET Orders
    PROVE  IsFiniteSet(T) /\ Cardinality(T) \in Nat
<1>1. IsFiniteSet(Orders)
  BY OrdersAssumption, FS_Interval DEF Orders
<1> QED
  BY <1>1, FS_Subset, FS_CardinalityType

\* Sets with nothing in common are counted apart.
LEMMA CountApart ==
    ASSUME NEW S \in SUBSET Orders, NEW T \in SUBSET Orders, S \cap T = {}
    PROVE  Cardinality(S \cup T) = Cardinality(S) + Cardinality(T)
<1>1. /\ IsFiniteSet(S) /\ Cardinality(S) \in Nat
      /\ IsFiniteSet(T) /\ Cardinality(T) \in Nat
  BY OrdersAreFinite
<1>2. Cardinality(S \cap T) = 0
  BY FS_EmptySet
<1>3. Cardinality(S \cup T) = Cardinality(S) + Cardinality(T) - Cardinality(S \cap T)
  BY <1>1, FS_Union
<1> QED
  BY <1>1, <1>2, <1>3

\* One more order of its product, of no other.
LEMMA CountOneMore ==
    ASSUME NEW D \in SUBSET Orders, NEW o \in Orders, o \notin D, NEW s \in SKUs
    PROVE  Cardinality(Mine(s) \cap (D \cup {o}))
             = Cardinality(Mine(s) \cap D) + IF SKUOf[o] = s THEN 1 ELSE 0
<1>1. Mine(s) \cap D \in SUBSET Orders /\ Cardinality(Mine(s) \cap D) \in Nat
  BY OrdersAreFinite
<1>2. CASE SKUOf[o] = s
  <2>1. Mine(s) \cap (D \cup {o}) = (Mine(s) \cap D) \cup {o}
    BY <1>2 DEF Mine
  <2>2. Cardinality({o}) = 1
    BY FS_Singleton
  <2>3. Cardinality((Mine(s) \cap D) \cup {o}) = Cardinality(Mine(s) \cap D) + Cardinality({o})
    BY <1>1, CountApart
  <2> QED
    BY <1>1, <1>2, <2>1, <2>2, <2>3
<1>3. CASE SKUOf[o] # s
  <2>1. Mine(s) \cap (D \cup {o}) = Mine(s) \cap D
    BY <1>3 DEF Mine
  <2> QED
    BY <1>1, <1>3, <2>1
<1> QED
  BY <1>2, <1>3

\* The rows of clean products stay as they are unless a run commits.
LEMMA RowsKept ==
    ASSUME Typed, RowInv, Next, \A w \in Runs : ~Commit(w), NEW s \in SKUs, Clean(s)'
    PROVE  Clean(s) /\ row'[s] = row[s] /\ Mine(s) \cap written' = Mine(s) \cap written
<1>1. CASE CommitCancel
  <2>1. PICK p \in poll :
          /\ p.order \in Orders
          /\ \/ row' = row /\ written' = written
             \/ row' = [row EXCEPT ![SKUOf[p.order]] = p.qty + 1] /\ written' = written \ {p.order}
    BY <1>1 DEF CommitCancel, MarksAfterReturn, Typed, TypeOK
  <2>2. taken' = taken /\ Clean(s)
    BY <1>1 DEF CommitCancel, Clean
  <2>3. p.order \notin Mine(s) /\ SKUOf[p.order] # s
    BY <2>1, <2>2 DEF RowInv, PollAsks, Clean, Mine
  <2> QED
    BY <2>1, <2>2, <2>3 DEF Typed, TypeOK
<1>2. ASSUME NEW z \in Sold, Take(z)
      PROVE  Clean(s) /\ row'[s] = row[s] /\ Mine(s) \cap written' = Mine(s) \cap written
  <2>1. s # z /\ Clean(s)
    BY <1>2 DEF Take, Clean
  <2> QED
    BY <1>2, <2>1 DEF Take, Typed, TypeOK
<1>3. ASSUME row' = row, written' = written, taken' = taken
      PROVE  Clean(s) /\ row'[s] = row[s] /\ Mine(s) \cap written' = Mine(s) \cap written
  BY <1>3 DEF Clean
<1>4. ASSUME NEW w \in Runs, RunStep(w)
      PROVE  row' = row /\ written' = written /\ taken' = taken
  BY <1>4 DEF RunStep, Acquire, AcquireUnheard, Release, Read, Book, Abort, Crash
<1>5. ASSUME \/ CancelFails \/ Expire \/ RedisFails \/ RedisReturns
             \/ \E o \in Orders : HandOver(o) \/ PollCancel(o)
      PROVE  row' = row /\ written' = written /\ taken' = taken
  BY <1>5 DEF CancelFails, Expire, RedisFails, RedisReturns, HandOver, PollCancel
<1> QED
  BY <1>1, <1>2, <1>3, <1>4, <1>5 DEF Next

\* Booking an order takes a unit off what the run will write, or nothing.
LEMMA BookTells ==
    ASSUME Typed, RowInv, Locked, NEW w \in Runs, Book(w), Phase(w)' = "book"
    PROVE  /\ run'[w].done \cap run'[w].batch = {}
           /\ \A s \in SKUs : Clean(s) =>
                IF s \in run'[w].read
                THEN run'[w].own[s] + Cardinality(Mine(s) \cap run'[w].done) = row[s]
                ELSE Mine(s) \cap run'[w].done = {}
<1> DEFINE x    == run[w]
           o    == Max(x.batch)
           z    == SKUOf[o]
           have == IF z \in x.read THEN x.own[z] ELSE row[z]
           rest == [x EXCEPT !.batch = @ \ {o}]
           more == [rest EXCEPT !.read = @ \cup {z}, !.done = @ \cup {o},
                                !.own = [x.own EXCEPT ![z] = have - 1],
                                !.qty = [x.qty EXCEPT ![z] = x.qty[z] - 1]]
           fail == [x EXCEPT !.phase = "out"]
<1>1. x \in AtWork /\ x.batch # {} /\ x.phase = "book"
  BY RunsAreTyped DEF Typed, Book, Phase
<1>2. o \in x.batch /\ o \in Orders /\ z \in SKUs
  BY <1>1, NewestIsThere, OrdersAssumption DEF AtWork
<1>3. have \in Nat
  BY <1>1, <1>2 DEF Typed, TypeOK, AtWork
<1>4. /\ x.done \cap x.batch = {} /\ o \notin x.done /\ x.done \in SUBSET Orders
      /\ \A s \in SKUs : Clean(s) =>
            IF s \in x.read THEN x.own[s] + Cardinality(Mine(s) \cap x.done) = row[s]
            ELSE Mine(s) \cap x.done = {}
  BY <1>1, <1>2 DEF RowInv, RunTold, Phase, AtWork
<1>5. /\ run' = [run EXCEPT ![w] = IF x.qty[z] = 0 THEN rest ELSE IF Short(have) THEN fail ELSE more]
      /\ run'[w] = IF x.qty[z] = 0 THEN rest ELSE IF Short(have) THEN fail ELSE more
  BY DEF Book, Typed
<1>6. fail.phase = "out"
  BY <1>1 DEF AtWork
<1>7. rest.batch = x.batch \ {o} /\ rest.done = x.done /\ rest.read = x.read /\ rest.own = x.own
  BY <1>1 DEF AtWork
<1>8. CASE x.qty[z] = 0
  <2>1. run'[w] = rest
    BY <1>5, <1>8
  <2> HIDE DEF rest, x, o
  <2> QED
    BY <1>4, <1>7, <2>1
<1>9. CASE x.qty[z] # 0 /\ Short(have)
  <2>1. run'[w] = fail
    BY <1>5, <1>9
  <2> HIDE DEF fail
  <2> QED
    BY <1>6, <2>1 DEF Phase
<1>10. CASE x.qty[z] # 0 /\ ~Short(have)
  <2>1. run'[w] = more
    BY <1>5, <1>10
  <2>2. /\ more.batch = x.batch \ {o} /\ more.done = x.done \cup {o}
        /\ more.read = x.read \cup {z} /\ more.own = [x.own EXCEPT ![z] = have - 1]
    <3> HIDE DEF o, z, have
    <3> QED
      BY <1>1 DEF AtWork
  <2>3. x.own \in [SKUs -> Nat] /\ row \in [SKUs -> Nat]
    BY <1>1 DEF AtWork, Typed, TypeOK
  <2>4. (x.done \cup {o}) \cap (x.batch \ {o}) = {}
    BY <1>4
  <2> HIDE DEF more, rest, fail
  <2>5. ASSUME NEW s \in SKUs, Clean(s)
        PROVE  IF s \in more.read
               THEN more.own[s] + Cardinality(Mine(s) \cap more.done) = row[s]
               ELSE Mine(s) \cap more.done = {}
    <3>1. Cardinality(Mine(s) \cap (x.done \cup {o}))
             = Cardinality(Mine(s) \cap x.done) + IF z = s THEN 1 ELSE 0
      BY <1>2, <1>4, CountOneMore
    <3>2. Cardinality(Mine(s) \cap x.done) \in Nat
      <4>1. Mine(s) \cap x.done \in SUBSET Orders
        BY <1>4
      <4> QED
        BY <4>1, OrdersAreFinite
    <3>3. IF s \in x.read THEN x.own[s] + Cardinality(Mine(s) \cap x.done) = row[s]
          ELSE Mine(s) \cap x.done = {}
      BY <1>4, <2>5
    <3>4. CASE z = s
      <4>1. have + Cardinality(Mine(s) \cap x.done) = row[s]
        <5>1. CASE s \in x.read
          BY <3>3, <3>4, <5>1
        <5>2. CASE s \notin x.read
          <6>1. Cardinality(Mine(s) \cap x.done) = 0
            BY <3>3, <5>2, FS_EmptySet
          <6>2. have = row[s] /\ row[s] \in Nat
            BY <2>3, <3>4, <5>2
          <6> QED
            BY <6>1, <6>2
        <5> QED
          BY <5>1, <5>2
      <4>2. more.own[s] = have - 1 /\ s \in more.read
        BY <2>2, <2>3, <3>4
      <4> HIDE DEF have, x, o, z
      <4>3. more.own[s] + (Cardinality(Mine(s) \cap x.done) + 1) = row[s]
        BY <1>3, <2>3, <3>2, <4>1, <4>2
      <4> QED
        BY <2>2, <3>1, <3>4, <4>2, <4>3
    <3>5. CASE z # s
      <4>1. more.own[s] = x.own[s] /\ (s \in more.read <=> s \in x.read)
        BY <2>2, <2>3, <3>5
      <4>2. Mine(s) \cap more.done = Mine(s) \cap x.done
        BY <2>2, <3>5 DEF Mine
      <4> HIDE DEF have, x, o, z
      <4> QED
        BY <3>3, <4>1, <4>2
    <3> QED
      BY <3>4, <3>5
  <2> HIDE DEF x, o, z, have
  <2> QED
    BY <2>1, <2>2, <2>4, <2>5
<1> QED
  BY <1>8, <1>9, <1>10

LEMMA RunToldStep ==
    ASSUME Typed, Exclusive, Fresh, RowInv, Next
    PROVE  RunTold'
<1> SUFFICES ASSUME Locked', NEW w \in Runs
             PROVE  /\ Phase(w)' = "read" => run'[w].done = {} /\ run'[w].read = {}
                    /\ Phase(w)' = "book" =>
                         /\ run'[w].done \cap run'[w].batch = {}
                         /\ \A s \in SKUs : Clean(s)' =>
                              IF s \in run'[w].read
                              THEN run'[w].own[s] + Cardinality(Mine(s) \cap run'[w].done) = row'[s]
                              ELSE Mine(s) \cap run'[w].done = {}
  BY DEF RunTold
<1>1. Locked
  BY LockedBefore
<1>2. CASE \E v \in Runs : Commit(v)
  <2>1. PICK v \in Runs : Commit(v)
    BY <1>2
  <2>2. run' = [run EXCEPT ![v] = [run[v] EXCEPT !.phase = "out"]] /\ run[v] \in AtWork
    BY <2>1, RunsAreTyped DEF Commit, Typed
  <2>3. CASE w = v
    <3>1. Phase(w)' = "out"
      BY <2>2, <2>3 DEF Typed, Phase, AtWork
    <3> QED
      BY <3>1
  <2>4. CASE w # v
    <3>1. Phase(w) = "idle" /\ run'[w] = run[w]
      BY <1>1, <2>1, <2>2, <2>4, OthersIdle DEF Commit, Typed
    <3> QED
      BY <3>1 DEF Phase
  <2> QED
    BY <2>3, <2>4
<1>3. CASE ~\E v \in Runs : Commit(v)
  <2>1. \A s \in SKUs : Clean(s)' => Clean(s) /\ row'[s] = row[s]
    BY <1>3, RowsKept
  <2>2. CASE run'[w] = run[w]
    BY <1>1, <2>1, <2>2 DEF RowInv, RunTold, Phase
  <2>3. CASE run'[w] # run[w]
    <3>1. RunStep(w)
      <4>1. ASSUME NEW v \in Runs, RunStep(v), v # w PROVE run'[w] = run[w]
        <5>1. CASE Read(v) \/ Book(v) \/ Commit(v) \/ Abort(v)
          BY <4>1, <5>1, RunGoesOn DEF Typed
        <5> QED BY <4>1, <5>1 DEF RunStep, Acquire, AcquireUnheard, Release, Crash, Typed
      <4>2. \E v \in Runs : RunStep(v)
        BY <2>3 DEF Next, HandOver, PollCancel, CommitCancel, CancelFails, Take, Expire,
                    RedisFails, RedisReturns
      <4> QED BY <2>3, <4>1, <4>2
    <3>2. CASE Acquire(w) \/ AcquireUnheard(w)
      <4>1. \E t \in BOOLEAN : run'[w] = Entered(t)
        BY <3>2 DEF Acquire, AcquireUnheard, Typed, TypeOK
      <4> QED BY <4>1 DEF Entered, Phase
    <3>3. CASE Release(w) \/ Crash(w)
      <4>1. run'[w] = Idle
        BY <3>3 DEF Release, Crash, Typed
      <4> QED BY <4>1 DEF Phase, Idle
    <3>4. CASE Abort(w)
      <4>1. run[w] \in AtWork
        BY <3>4, RunsAreTyped DEF Abort, Inside, Typed
      <4>2. run'[w].phase = "out"
        BY <3>4, <4>1 DEF Abort, Typed, AtWork
      <4> QED BY <4>2 DEF Phase
    <3>5. CASE Read(w)
      <4>1. run[w] \in AtWork /\ Phase(w) = "read"
        BY <3>5, RunsAreTyped DEF Read, Typed
      <4>2. run[w].done = {} /\ run[w].read = {}
        BY <1>1, <4>1 DEF RowInv, RunTold
      <4>3. run'[w].done = {} /\ run'[w].read = {} /\ run'[w].phase = "book"
        BY <3>5, <4>1, <4>2 DEF Read, Typed, AtWork
      <4> QED BY <4>3 DEF Phase
    <3>6. CASE Book(w)
      <4>1. CASE Phase(w)' = "book"
        BY <1>1, <2>1, <3>6, <4>1, BookTells
      <4>2. CASE Phase(w)' # "book"
        <5>1. PICK x \in AtWork : Onward(w, x) /\ run' = [run EXCEPT ![w] = x]
          BY <3>6, RunGoesOn
        <5>2. Phase(w)' # "read"
          BY <5>1 DEF Onward, Phase, Typed
        <5> QED
          BY <4>2, <5>2
      <4> QED BY <4>1, <4>2
    <3> QED BY <1>3, <3>1, <3>2, <3>3, <3>4, <3>5, <3>6 DEF RunStep
  <2> QED BY <2>2, <2>3
<1> QED BY <1>2, <1>3

LEMMA RowToldStep ==
    ASSUME Typed, Exclusive, Fresh, RowInv, Next
    PROVE  RowTold'
<1> SUFFICES ASSUME Locked', NEW s \in SKUs, Clean(s)'
             PROVE  row'[s] + Cardinality(Mine(s) \cap written') = Opening[s]
  BY DEF RowTold
<1>1. Locked
  BY LockedBefore
<1>2. CASE ~\E v \in Runs : Commit(v)
  BY <1>1, <1>2, RowsKept DEF RowInv, RowTold
<1>3. ASSUME NEW w \in Runs, Commit(w)
      PROVE  row'[s] + Cardinality(Mine(s) \cap written') = Opening[s]
  <2> DEFINE x == run[w]
  <2>1. x \in AtWork /\ Phase(w) = "book" /\ x.done \cap written = {}
    BY <1>1, <1>3, RunsAreTyped DEF Commit, Typed, Fresh, Inside
  <2>2. /\ row'[s] = IF s \in x.read THEN x.own[s] ELSE row[s]
        /\ written' = written \cup x.done /\ Clean(s)
    BY <1>3 DEF Commit, Clean
  <2>3. /\ row[s] \in Nat /\ x.own[s] \in Nat /\ x.done \in SUBSET Orders
        /\ written \in SUBSET Orders
    BY <2>1 DEF Typed, TypeOK, AtWork
  <2>4. row[s] + Cardinality(Mine(s) \cap written) = Opening[s]
    BY <1>1, <2>2 DEF RowInv, RowTold
  <2>5. IF s \in x.read THEN x.own[s] + Cardinality(Mine(s) \cap x.done) = row[s]
        ELSE Mine(s) \cap x.done = {}
    BY <1>1, <2>1, <2>2 DEF RowInv, RunTold
  <2> HIDE DEF x
  <2> DEFINE S == Mine(s) \cap written
             T == Mine(s) \cap x.done
  <2>6. /\ S \in SUBSET Orders /\ T \in SUBSET Orders /\ S \cap T = {}
        /\ Mine(s) \cap written' = S \cup T
    BY <2>1, <2>2, <2>3
  <2>7. /\ Cardinality(S \cup T) = Cardinality(S) + Cardinality(T)
        /\ Cardinality(S) \in Nat /\ Cardinality(T) \in Nat
    BY <2>6, CountApart, OrdersAreFinite
  <2>8. T = {} => Cardinality(T) = 0
    BY FS_EmptySet
  <2> HIDE DEF S, T
  <2>9. row'[s] + (Cardinality(S) + Cardinality(T)) = Opening[s]
    <3>1. CASE s \in x.read
      <4>1. x.own[s] + Cardinality(T) = row[s] /\ row'[s] = x.own[s]
        BY <2>2, <2>5, <3>1 DEF T
      <4>2. row[s] + Cardinality(S) = Opening[s]
        BY <2>4 DEF S
      <4> QED
        BY <2>3, <2>7, <4>1, <4>2
    <3>2. CASE s \notin x.read
      <4>1. T = {} /\ row'[s] = row[s]
        BY <2>2, <2>5, <3>2 DEF T
      <4>2. row[s] + Cardinality(S) = Opening[s]
        BY <2>4 DEF S
      <4> QED
        BY <2>3, <2>7, <2>8, <4>1, <4>2
    <3> QED
      BY <3>1, <3>2
  <2> QED
    BY <2>6, <2>7, <2>9
<1> QED
  BY <1>2, <1>3

LEMMA PollAsksStep ==
    ASSUME PollAsks, Next
    PROVE  PollAsks'
<1>1. ASSUME NEW o \in Orders, PollCancel(o) PROVE PollAsks'
  <2> DEFINE it == [order |-> o, marked |-> o \in written, qty |-> row[SKUOf[o]]]
  <2>1. poll' = {it} /\ it.order = o /\ o \in Cancellable
    BY <1>1 DEF PollCancel
  <2> HIDE DEF it
  <2> QED BY <2>1 DEF PollAsks
<1>2. ASSUME poll' \subseteq poll PROVE PollAsks'
  BY <1>2 DEF PollAsks
<1>3. ASSUME NEW w \in Runs, RunStep(w) PROVE poll' = poll
  BY <1>3 DEF RunStep, Acquire, AcquireUnheard, Release, Read, Book, Commit, Abort, Crash,
              cancelVars
<1>4. ASSUME \/ CommitCancel \/ CancelFails \/ Expire \/ RedisFails \/ RedisReturns
             \/ \E s \in Sold : Take(s)
             \/ \E o \in Orders : HandOver(o)
      PROVE  poll' \subseteq poll
  BY <1>4 DEF CommitCancel, CancelFails, HandOver, Expire, Take, RedisFails, RedisReturns, cancelVars
<1> QED BY <1>1, <1>2, <1>3, <1>4 DEF Next

LEMMA InitRows == Init => RowInv
<1> SUFFICES ASSUME Init PROVE RowInv
  OBVIOUS
<1>1. ASSUME NEW s \in SKUs
      PROVE  row[s] + Cardinality(Mine(s) \cap written) = Opening[s]
  <2>1. Mine(s) \cap written = {} /\ row[s] = Opening[s] /\ Opening[s] \in Nat
    BY OpeningAssumption DEF Init
  <2>2. Cardinality({}) = 0
    BY FS_EmptySet
  <2> QED
    BY <2>1, <2>2
<1>2. \A w \in Runs : Phase(w) = "idle"
  BY DEF Init, Phase, Idle
<1>3. poll = {}
  BY DEF Init
<1> QED
  BY <1>1, <1>2, <1>3 DEF RowInv, RowTold, RunTold, PollAsks

\* A total counts a unit more for every order that has one more.
LEMMA UnitsOfOne ==
    ASSUME NEW x, NEW n \in Nat
    PROVE  IsFiniteSet({x} \X (1..n)) /\ Cardinality({x} \X (1..n)) = n
<1> DEFINE h == [i \in 1..n |-> <<x, i>>]
<1>1. IsFiniteSet(1..n) /\ Cardinality(1..n) = n
  BY FS_Interval
<1>2. h \in Bijection(1..n, {x} \X (1..n))
  BY DEF Bijection, Injection, Surjection, IsInjective
<1>3. ExistsBijection(1..n, {x} \X (1..n))
  BY <1>2 DEF ExistsBijection
<1> QED
  BY <1>1, <1>3, FS_Bijection, FS_SameCardinalityBij

\* A total over finitely many orders is a number.
LEMMA TotalTyped ==
    ASSUME NEW D \in SUBSET Orders, NEW f \in [D -> Nat]
    PROVE  IsFiniteSet(UnitsIn(f)) /\ Total(f) \in Nat
<1> DEFINE Own(x) == {x} \X (1..f[x])
           All    == {Own(x) : x \in D}
           h      == [x \in D |-> Own(x)]
<1>1. IsFiniteSet(All)
  <2>1. h \in Surjection(D, All)
    BY DEF Surjection
  <2> QED
    BY <2>1, OrdersAreFinite, FS_Surjection
<1>2. ASSUME NEW T \in All
      PROVE  IsFiniteSet(T)
  <2>1. PICK x \in D : T = {x} \X (1..f[x])
    OBVIOUS
  <2>2. f[x] \in Nat
    OBVIOUS
  <2> QED
    BY <2>1, <2>2, UnitsOfOne
<1>3. IsFiniteSet(UNION All)
  BY <1>1, <1>2, FS_UNION
<1>4. UnitsIn(f) = UNION All
  BY DEF UnitsIn
<1> QED
  BY <1>3, <1>4, FS_CardinalityType DEF Total

\* The orders of S have one unit more in f than in g, the others as many.
LEMMA TotalMore ==
    ASSUME NEW D \in SUBSET Orders, NEW f \in [D -> Nat], NEW g \in [D -> Nat],
           NEW S \in SUBSET D, \A o \in D : f[o] = g[o] + IF o \in S THEN 1 ELSE 0
    PROVE  /\ Total(f) = Total(g) + Cardinality(S)
           /\ Total(g) \in Nat
<1> DEFINE tops == {<<o, f[o]>> : o \in S}
           h    == [o \in S |-> <<o, f[o]>>]
<1>1. IsFiniteSet(S) /\ Cardinality(S) \in Nat
  BY OrdersAreFinite
<1>2. IsFiniteSet(tops) /\ Cardinality(tops) = Cardinality(S)
  <2>1. h \in Bijection(S, tops)
    BY DEF Bijection, Injection, Surjection, IsInjective
  <2>2. ExistsBijection(S, tops)
    BY <2>1 DEF ExistsBijection
  <2> QED
    BY <1>1, <2>2, FS_Bijection, FS_SameCardinalityBij
<1>3. ASSUME NEW e \in [D -> Nat]
      PROVE  /\ UnitsIn(e) \subseteq D \X Nat
             /\ \A o \in D, i \in Nat : <<o, i>> \in UnitsIn(e) <=> i \in 1..e[o]
  BY DEF UnitsIn
<1>4. UnitsIn(f) = UnitsIn(g) \cup tops
  <2>1. ASSUME NEW o \in D, NEW i \in Nat
        PROVE  i \in 1..f[o] <=> i \in 1..g[o] \/ (o \in S /\ i = f[o])
    <3>1. f[o] \in Nat /\ g[o] \in Nat /\ f[o] = g[o] + IF o \in S THEN 1 ELSE 0
      OBVIOUS
    <3> QED
      BY <3>1
  <2>2. tops \subseteq D \X Nat /\ \A o \in D, i \in Nat : <<o, i>> \in tops <=> o \in S /\ i = f[o]
    OBVIOUS
  <2>3. /\ UnitsIn(f) \subseteq D \X Nat /\ UnitsIn(g) \subseteq D \X Nat
        /\ \A o \in D, i \in Nat : /\ <<o, i>> \in UnitsIn(f) <=> i \in 1..f[o]
                                   /\ <<o, i>> \in UnitsIn(g) <=> i \in 1..g[o]
    BY <1>3
  <2> HIDE DEF tops
  <2>4. \A o \in D, i \in Nat : <<o, i>> \in UnitsIn(f) <=> <<o, i>> \in UnitsIn(g) \cup tops
    BY <2>1, <2>2, <2>3
  <2> QED
    BY <2>2, <2>3, <2>4
<1>5. UnitsIn(g) \cap tops = {}
  <2>1. ASSUME NEW o \in S
        PROVE  f[o] \notin 1..g[o]
    <3>1. f[o] \in Nat /\ g[o] \in Nat /\ f[o] = g[o] + 1
      OBVIOUS
    <3> QED
      BY <3>1
  <2>2. \A o \in D, i \in Nat : <<o, i>> \in UnitsIn(g) <=> i \in 1..g[o]
    BY <1>3
  <2>3. \A o \in S : <<o, f[o]>> \notin UnitsIn(g)
    BY <2>1, <2>2
  <2> QED
    BY <2>3
<1>6. IsFiniteSet(UnitsIn(g)) /\ Total(g) \in Nat
  BY TotalTyped
<1> HIDE DEF tops
<1>7. Cardinality(UnitsIn(g) \cap tops) = 0
  BY <1>5, FS_EmptySet
<1>8. Cardinality(UnitsIn(g) \cup tops)
        = Cardinality(UnitsIn(g)) + Cardinality(tops) - Cardinality(UnitsIn(g) \cap tops)
  BY <1>2, <1>6, FS_Union
<1> QED
  BY <1>1, <1>2, <1>4, <1>6, <1>7, <1>8 DEF Total

\* Marks and movements tell the same, product by product.
LEMMA MarksTellMoves ==
    ASSUME Typed, \A o \in Orders : LedgerTells(o), NEW s \in SKUs
    PROVE  /\ Total([o \in Mine(s) |-> moves[o]])
                = Total([o \in Mine(s) |-> back[o]]) + Cardinality(Mine(s) \cap written)
           /\ Total([o \in Mine(s) |-> back[o]]) \in Nat
<1> DEFINE D == Mine(s)
           f == [o \in D |-> moves[o]]
           g == [o \in D |-> back[o]]
           S == D \cap written
<1>1. D \in SUBSET Orders /\ S \in SUBSET D
  BY DEF Mine
<1>2. f \in [D -> Nat] /\ g \in [D -> Nat]
  BY <1>1 DEF Typed, TypeOK
<1>3. \A o \in D : f[o] = g[o] + IF o \in S THEN 1 ELSE 0
  BY <1>1 DEF LedgerTells
<1> HIDE DEF D, f, g, S
<1>4. Total(f) = Total(g) + Cardinality(S) /\ Total(g) \in Nat
  BY <1>1, <1>2, <1>3, TotalMore
<1> QED
  BY <1>4 DEF D, f, g, S

-----------------------------------------------------------------------------
(* The theorems *)

LEMMA Inductive == Spec => []IInv
<1>1. Init => IInv
  BY TypedInit DEF Init, IInv, Exclusive, Fresh, PollTells, WrittenOffOnce, LedgerTells, Inside,
                   Phase, Idle
<1>2. IInv /\ [Next]_vars => IInv'
  <2> SUFFICES ASSUME IInv, [Next]_vars PROVE IInv'
    OBVIOUS
  <2>1. CASE Next
    BY <2>1, TypedStep, ExclusiveStep, FreshStep, PollTellsStep, LedgerStep DEF IInv
  <2>2. CASE UNCHANGED vars
    BY <2>2 DEF vars, luck, cancelVars, IInv, Typed, TypeOK, Exclusive, Fresh, PollTells,
                WrittenOffOnce, LedgerTells, Locked, Inside, Phase
  <2> QED BY <2>1, <2>2
<1> QED BY <1>1, <1>2, PTL DEF Spec

\* The books are well formed: no row is ever negative, whatever fails or expires,
\* and a batch holds nothing but orders (writeoff_completed_orders).
THEOREM TypeCorrect == Spec => []TypeOK
<1>1. IInv => TypeOK
  BY DEF IInv, Typed
<1> QED BY <1>1, Inductive, PTL

\* However many callers follow each other, fail and start again, and whatever
\* orders are cancelled meanwhile, an order has left the stock exactly as often
\* as its mark says, as long as Redis has not failed and no run has outlived
\* its key (written_off_at under the lock).
THEOREM WriteoffCorrect == Spec => []WrittenOffOnce
<1>1. IInv => WrittenOffOnce
  BY DEF IInv
<1> QED BY <1>1, Inductive, PTL

\* While the lock works, the row of a product nobody else writes has lost what
\* the movements of its orders say, whoever runs, fails or starts again: runs
\* never write a balance over each other's (the literals of _update_stock).
THEOREM RowsCorrect == Spec => []RowTellsMoves
<1>1. Init => RowInv
  BY InitRows
<1>2. IInv /\ RowInv /\ [Next]_vars => RowInv'
  <2> SUFFICES ASSUME IInv, RowInv, [Next]_vars PROVE RowInv'
    OBVIOUS
  <2>1. CASE Next
    BY <2>1, RowToldStep, RunToldStep, PollAsksStep DEF IInv, RowInv
  <2>2. CASE UNCHANGED vars
    BY <2>2 DEF vars, luck, cancelVars, RowInv, RowTold, RunTold, PollAsks, Locked, Phase, Clean
  <2> QED BY <2>1, <2>2
<1>3. IInv /\ RowInv => RowTellsMoves
  <2> SUFFICES ASSUME IInv, RowInv, Locked, NEW s \in SKUs, Clean(s)
               PROVE  row[s] + Total([o \in Mine(s) |-> moves[o]])
                        = Opening[s] + Total([o \in Mine(s) |-> back[o]])
    BY DEF RowTellsMoves, Clean
  <2>1. row[s] + Cardinality(Mine(s) \cap written) = Opening[s]
    BY DEF RowInv, RowTold
  <2>2. /\ Total([o \in Mine(s) |-> moves[o]])
             = Total([o \in Mine(s) |-> back[o]]) + Cardinality(Mine(s) \cap written)
        /\ Total([o \in Mine(s) |-> back[o]]) \in Nat
    BY MarksTellMoves DEF IInv, WrittenOffOnce
  <2>3. Mine(s) \cap written \in SUBSET Orders
    BY DEF Mine
  <2>4. row[s] \in Nat /\ Cardinality(Mine(s) \cap written) \in Nat
    BY <2>3, OrdersAreFinite DEF IInv, Typed, TypeOK
  <2> QED
    BY <2>1, <2>2, <2>4
<1> QED
  BY <1>1, <1>2, <1>3, Inductive, PTL DEF Spec

\* A run that ends leaves the key alone unless the key is its own, with or
\* without a working Redis (release_lock compares and deletes).
THEOREM ReleaseCorrect == Spec => ReleaseSparesOthers
<1> DEFINE Spared == \A w \in Runs : (Phase(w) = "out" /\ run'[w] = Idle) => lock' = lock \/ lock = w
<1>1. ASSUME IInv, [Next]_vars
      PROVE  Spared
  <2> SUFFICES ASSUME NEW w \in Runs, Phase(w) = "out", run'[w] = Idle, lock # w
               PROVE  lock' = lock
    OBVIOUS
  <2>1. RunStep(w)
    <3>1. ASSUME NEW v \in Runs, RunStep(v), v # w PROVE run'[w] = run[w]
      <4>1. CASE Read(v) \/ Book(v) \/ Commit(v) \/ Abort(v)
        BY <1>1, <3>1, <4>1, RunGoesOn DEF IInv, Typed
      <4> QED BY <1>1, <3>1, <4>1
              DEF RunStep, Acquire, AcquireUnheard, Release, Crash, IInv, Typed
    <3>2. run'[w] # run[w]
      BY DEF Phase, Idle
    <3>3. \E v \in Runs : RunStep(v)
      BY <1>1, <3>2 DEF Next, HandOver, PollCancel, CommitCancel, CancelFails, Take, Expire,
                  RedisFails, RedisReturns, vars
    <3> QED BY <3>1, <3>2, <3>3
  <2> QED BY <2>1 DEF RunStep, Acquire, AcquireUnheard, Release, LockAfterRelease, Read, Book,
                  Commit, Abort, Crash
<1>2. IInv /\ [Next]_vars => [Spared]_vars
  BY <1>1
<1> QED BY <1>2, Inductive, PTL DEF Spec, ReleaseSparesOthers
=============================================================================
