-------------------------- MODULE DesignTaskProofs --------------------------
(***************************************************************************)
(* What holds of a task of the design board for every set of designers and *)
(* of requests to hand in a version.                                       *)
(***************************************************************************)
EXTENDS DesignTask, TLAPS

\* A request that has reserved a version goes on with one that exists.
Reserved ==
    \A r \in Submissions :
        submission[r].phase \in {"uploading", "filed"} => submission[r].version \in DOMAIN versions

\* What is still to be reviewed has not been on review yet.
NewWork == status \notin {"REVIEW", "CANCELLED"} => Pending \cap reviewed = {}

Inv == TypeOK /\ OnePending /\ Reserved /\ ReviewHasFiles /\ NewWork

-----------------------------------------------------------------------------
(* Versions *)

\* A version that is pending exists.
LEMMA PendingExists ==
    ASSUME TypeOK
    PROVE  /\ DOMAIN versions = 1..Len(versions) /\ Len(versions) \in Nat
           /\ Pending \subseteq 1..Len(versions)
           /\ \A v \in DOMAIN versions : versions[v] \in Version
  BY DEF TypeOK, Pending

\* A verdict is on the newest version, or there is nothing it could be on.
LEMMA TargetIsNewest ==
    ASSUME TypeOK, OnePending, NEW only
    PROVE  /\ Pending \cap only = {} => Target(only) = 0
           /\ Pending \cap only # {} => Target(only) = Len(versions) /\ Len(versions) \in Pending
<1>1. Len(versions) \in Nat
  BY PendingExists
<1>2. CASE Pending \cap only # {}
  <2>1. Pending \cap only = {Len(versions)}
    BY <1>2 DEF OnePending
  <2>2. Target(only) = CHOOSE v \in {Len(versions)} : \A w \in {Len(versions)} : w <= v
    BY <2>1 DEF Target
  <2>3. \E v \in {Len(versions)} : \A w \in {Len(versions)} : w <= v
    BY <1>1
  <2> QED
    BY <2>1, <2>2, <2>3
<1> QED
  BY <1>2 DEF Target

\* A verdict changes one pending version, the newest, and nothing else of it but
\* the verdict; when it is on everything pending, nothing is pending any more.
LEMMA Judged ==
    ASSUME TypeOK, OnePending, NEW only, NEW verdict \in {"ACCEPTED", "REJECTED"},
           Judge(Target(only), verdict)
    PROVE  /\ versions' \in Seq(Version) /\ Len(versions') = Len(versions)
           /\ \A v \in DOMAIN versions : versions'[v].files = versions[v].files
           /\ Pending' \subseteq Pending
           /\ Pending \subseteq only => Pending' = {}
           /\ Pending \cap only # {} => versions'[Len(versions)].verdict = verdict
<1> DEFINE n == Len(versions)
<1>1. DOMAIN versions = 1..n /\ n \in Nat /\ \A v \in DOMAIN versions : versions[v] \in Version
  BY PendingExists
<1>2. CASE Pending \cap only = {}
  <2>1. versions' = versions
    BY <1>2, TargetIsNewest DEF Judge
  <2> QED
    BY <1>2, <2>1 DEF TypeOK, Pending
<1>3. CASE Pending \cap only # {}
  <2>1. n \in Pending /\ n \in 1..n /\ n # 0
    BY <1>1, <1>3, TargetIsNewest, PendingExists
  <2>2. versions' = [versions EXCEPT ![n].verdict = verdict]
    BY <1>3, <2>1, TargetIsNewest DEF Judge
  <2>3. [versions[n] EXCEPT !.verdict = verdict] \in Version
    BY <1>1, <2>1 DEF Version
  <2>4. versions' \in Seq(Version) /\ Len(versions') = n
    BY <2>1, <2>2, <2>3 DEF TypeOK
  <2>5. DOMAIN versions' = 1..n
    BY <1>1, <2>2
  <2>6. \A v \in 1..n : v # n => versions'[v] = versions[v]
    BY <1>1, <2>2
  <2>7. versions'[n].verdict = verdict /\ versions'[n].files = versions[n].files
    BY <1>1, <2>1, <2>2 DEF Version
  <2>8. Pending' = {}
    <3>1. \A v \in 1..n : versions'[v].verdict # "PENDING"
      BY <2>1, <2>6, <2>7, <1>1 DEF OnePending, Pending
    <3> QED
      BY <2>5, <3>1 DEF Pending
  <2> QED
    BY <1>1, <1>3, <2>4, <2>6, <2>7, <2>8
<1> QED
  BY <1>2, <1>3

-----------------------------------------------------------------------------
(* A change of status *)

\* Every change of status keeps the invariant, whoever asks for it, provided the
\* versions it judges are all those pending.
LEMMA TransitionKeeps ==
    ASSUME Inv, NEW u, NEW target \in DesignTaskStatus,
           NEW to \in Designers \cup {NoOne}, NEW only,
           ApplyTransition(u, target, to, only),
           target \in {"REVISION", "ACCEPTED"} => Pending \subseteq only
    PROVE  /\ status' \in DesignTaskStatus
           /\ assignee' \in Designers \cup {NoOne}
           /\ held' \in DESIGN_TASK_TRANSITIONS.ON_HOLD \cup {NotHeld}
           /\ deleted' \in BOOLEAN
           /\ versions' \in Seq(Version) /\ reviewed' \subseteq DOMAIN versions'
           /\ DOMAIN versions' = DOMAIN versions
           /\ OnePending' /\ ReviewHasFiles' /\ NewWork'
<1> DEFINE n == Len(versions)
<1>1. DOMAIN versions = 1..n /\ n \in Nat /\ Pending \subseteq 1..n
  BY PendingExists DEF Inv
<1>2. status \in DesignTaskStatus /\ target \in DESIGN_TASK_TRANSITIONS[status]
  BY DEF Inv, TypeOK, ApplyTransition, MayMove
<1>3. status' \in DesignTaskStatus /\ assignee' \in Designers \cup {NoOne} /\ deleted' \in BOOLEAN
  BY DEF Inv, TypeOK, ApplyTransition
<1>4. held' \in DESIGN_TASK_TRANSITIONS.ON_HOLD \cup {NotHeld}
  <2>1. target = "ON_HOLD" => status \in DESIGN_TASK_TRANSITIONS.ON_HOLD
    BY <1>2 DEF DesignTaskStatus, DESIGN_TASK_TRANSITIONS
  <2> QED
    BY <2>1 DEF Inv, TypeOK, ApplyTransition
<1>5. CASE target \in {"REVISION", "ACCEPTED"}
  <2> DEFINE verdict == IF target = "REVISION" THEN "REJECTED" ELSE "ACCEPTED"
  <2>1. Judge(Target(only), verdict)
    BY <1>5 DEF ApplyTransition, RejectPending, ClosePending
  <2>2. /\ versions' \in Seq(Version) /\ Len(versions') = n
        /\ \A v \in DOMAIN versions : versions'[v].files = versions[v].files
        /\ Pending' = {}
        /\ Pending \cap only # {} => versions'[n].verdict = verdict
    BY <1>5, <2>1, Judged DEF Inv
  <2>3. DOMAIN versions' = DOMAIN versions
    BY <1>1, <2>2
  <2>4. reviewed' \subseteq DOMAIN versions'
    BY <1>5, <2>3 DEF Inv, TypeOK, ApplyTransition
  <2>5. ReviewHasFiles'
    <3>1. CASE target = "ACCEPTED"
      <4>1. status = "REVIEW"
        BY <1>2, <3>1 DEF DesignTaskStatus, DESIGN_TASK_TRANSITIONS
      <4>2. n \in Pending /\ versions[n].files # {}
        BY <4>1 DEF Inv, ReviewHasFiles, HasPendingWithFiles, OnePending
      <4>3. versions'[n].verdict = "ACCEPTED" /\ versions'[n].files # {}
        BY <1>1, <1>5, <2>2, <3>1, <4>2
      <4> QED
        BY <2>2, <4>3, <3>1 DEF ReviewHasFiles, ApplyTransition
    <3>2. CASE target = "REVISION"
      BY <3>2 DEF ReviewHasFiles, ApplyTransition
    <3> QED
      BY <1>5, <3>1, <3>2
  <2> QED
    BY <1>3, <1>4, <2>2, <2>3, <2>4, <2>5 DEF OnePending, NewWork
<1>6. CASE target \notin {"REVISION", "ACCEPTED"}
  <2>1. versions' = versions /\ Pending' = Pending
    BY <1>6 DEF ApplyTransition, Pending
  <2>2. versions' \in Seq(Version) /\ DOMAIN versions' = DOMAIN versions /\ OnePending'
    BY <2>1 DEF Inv, TypeOK, OnePending
  <2>3. reviewed' \subseteq DOMAIN versions'
    BY <1>1, <2>1 DEF Inv, TypeOK, ApplyTransition
  <2>4. ReviewHasFiles'
    BY <1>6, <2>1 DEF ReviewHasFiles, HasPendingWithFiles, ApplyTransition
  <2>5. NewWork'
    <3>1. target # "CANCELLED" /\ target # "REVIEW" => status \notin {"REVIEW", "CANCELLED"}
      BY <1>2, <1>6 DEF DesignTaskStatus, DESIGN_TASK_TRANSITIONS
    <3> QED
      BY <2>1, <3>1 DEF Inv, NewWork, ApplyTransition
  <2> QED
    BY <1>3, <1>4, <2>2, <2>3, <2>4, <2>5
<1> QED
  BY <1>5, <1>6

\* Where a request stands keeps its shape when it moves on to a version.
LEMMA GoesTyped ==
    ASSUME TypeOK, NEW r \in Submissions, NEW u \in People \cup {NoOne}, NEW v \in Nat,
           NEW phase \in {"none", "uploading", "filed", "done"}, Goes(r, phase, u, v)
    PROVE  /\ submission' \in [Submissions -> [phase : {"none", "uploading", "filed", "done"},
                                               user : People \cup {NoOne}, version : Nat]]
           /\ submission'[r].phase = phase /\ submission'[r].version = v
           /\ \A q \in Submissions \ {r} : submission'[q] = submission[q]
  BY DEF TypeOK, Goes

-----------------------------------------------------------------------------
(* The invariant *)

\* Each handler keeps the invariant; a submission does so transaction by
\* transaction.
LEMMA InvStep ==
    ASSUME Inv, [Next]_vars
    PROVE  Inv'
<1> DEFINE n == Len(versions)
<1>n. DOMAIN versions = 1..n /\ n \in Nat /\ Pending \subseteq 1..n
      /\ \A v \in DOMAIN versions : versions[v] \in Version
  BY PendingExists DEF Inv
<1>a. assignee \in Designers \cup {NoOne}
  BY DEF Inv, TypeOK
<1>1. ASSUME NEW u \in People, NEW target \in DesignTaskStatus, ChangeStatus(u, target)
      PROVE  Inv'
  <2>1. Pending \subseteq DOMAIN versions
    BY DEF Pending
  <2>2. ApplyTransition(u, target, assignee, DOMAIN versions) /\ submission' = submission
    BY <1>1 DEF ChangeStatus
  <2> QED
    BY <1>a, <2>1, <2>2, TransitionKeeps DEF Inv, TypeOK, Reserved
<1>2. ASSUME NEW d \in Designers, Assign(d)
      PROVE  Inv'
  <2>1. CASE status = "NEW"
    <3>1. ApplyTransition(Lead, "ASSIGNED", d, {}) /\ submission' = submission
      BY <1>2, <2>1 DEF Assign
    <3>2. Lead \in People /\ "ASSIGNED" \in DesignTaskStatus
      BY DEF People, DesignTaskStatus
    <3> QED
      BY <3>1, <3>2, TransitionKeeps DEF Inv, TypeOK, Reserved
  <2>2. CASE status # "NEW"
    BY <1>2, <2>2 DEF Assign, Inv, TypeOK, OnePending, Reserved, ReviewHasFiles,
                      HasPendingWithFiles, NewWork, Pending
  <2> QED
    BY <2>1, <2>2
<1>3. ASSUME Unassign
      PROVE  Inv'
  <2>1. CASE status = "ASSIGNED" /\ ApplyTransition(Lead, "NEW", assignee, {})
    <3>1. submission' = submission /\ Lead \in People /\ "NEW" \in DesignTaskStatus
      BY <1>3 DEF Unassign, People, DesignTaskStatus
    <3> QED
      BY <1>a, <2>1, <3>1, TransitionKeeps DEF Inv, TypeOK, Reserved
  <2>2. CASE assignee' = NoOne /\ UNCHANGED <<status, held, deleted, versions, reviewed>>
    BY <1>3, <2>2 DEF Unassign, Inv, TypeOK, OnePending, Reserved, ReviewHasFiles,
                      HasPendingWithFiles, NewWork, Pending
  <2> QED
    BY <1>3, <2>1, <2>2 DEF Unassign
<1>4. ASSUME NEW u \in People, NEW v \in DOMAIN versions, NEW verdict \in {"ACCEPTED", "REJECTED"},
             SetVerdict(u, v, verdict)
      PROVE  Inv'
  <2> DEFINE target == IF verdict = "ACCEPTED" THEN "ACCEPTED" ELSE "REVISION"
  <2>1. Pending \subseteq {v}
    BY <1>4 DEF SetVerdict, Inv, OnePending
  <2>2. ApplyTransition(u, target, assignee, {v}) /\ submission' = submission
    BY <1>4 DEF SetVerdict
  <2>3. target \in DesignTaskStatus
    BY DEF DesignTaskStatus
  <2> QED
    BY <1>a, <2>1, <2>2, <2>3, TransitionKeeps DEF Inv, TypeOK, Reserved
<1>5. ASSUME Delete
      PROVE  Inv'
  BY <1>5 DEF Delete, Inv, TypeOK, OnePending, Reserved, ReviewHasFiles,
              HasPendingWithFiles, NewWork, Pending
<1>6. ASSUME NEW r \in Submissions, NEW u \in People, Reserve(r, u)
      PROVE  Inv'
  <2>1. status \in {"IN_PROGRESS", "REVISION"} /\ UNCHANGED <<status, assignee, held, deleted, reviewed>>
    BY <1>6 DEF Reserve
  <2>2. CASE Pending = {}
    <3> DEFINE new == [verdict |-> "PENDING", files |-> {}]
    <3>1. versions' = Append(versions, new) /\ Goes(r, "uploading", u, n + 1)
      BY <1>6, <2>2 DEF Reserve, ReserveVersion
    <3>2. new \in Version
      BY DEF Version
    <3>3. versions' \in Seq(Version) /\ Len(versions') = n + 1 /\ DOMAIN versions' = 1..(n + 1)
          /\ \A v \in 1..n : versions'[v] = versions[v]
      BY <3>1, <3>2 DEF Inv, TypeOK
    <3>4. Pending' \subseteq {n + 1}
      BY <1>n, <2>2, <3>3 DEF Pending
    <3>5. reviewed' \subseteq 1..n
      BY <1>n, <2>1 DEF Inv, TypeOK
    <3>6. TypeOK' /\ Reserved'
      <4>1. n + 1 \in Nat /\ u \in People \cup {NoOne} /\ TypeOK
        BY <1>n DEF Inv
      <4>2. /\ submission' \in [Submissions -> [phase : {"none", "uploading", "filed", "done"},
                                                user : People \cup {NoOne}, version : Nat]]
            /\ submission'[r].version = n + 1
            /\ \A q \in Submissions \ {r} : submission'[q] = submission[q]
        BY <3>1, <4>1, GoesTyped
      <4>3. reviewed' \subseteq DOMAIN versions' /\ n + 1 \in DOMAIN versions'
            /\ DOMAIN versions \subseteq DOMAIN versions'
        BY <1>n, <3>3, <3>5
      <4>4. TypeOK'
        BY <2>1, <3>3, <4>1, <4>2, <4>3 DEF TypeOK
      <4> QED
        BY <4>2, <4>3, <4>4 DEF Inv, Reserved
    <3>7. NewWork'
      BY <1>n, <3>4, <3>5 DEF NewWork
    <3> QED
      BY <2>1, <3>3, <3>4, <3>6, <3>7 DEF Inv, OnePending, ReviewHasFiles
  <2>3. CASE Pending # {}
    <3>1. versions' = versions /\ Goes(r, "uploading", u, LastPending)
      BY <1>6, <2>3 DEF Reserve, ReserveVersion
    <3>2. Pending = {n}
      BY <2>3 DEF Inv, OnePending
    <3>3. LastPending = n
      <4>1. \E v \in {n} : \A w \in {n} : w <= v
        BY <1>n
      <4> QED
        BY <3>2, <4>1 DEF LastPending
    <3>4. n \in DOMAIN versions
      BY <1>n, <3>2
    <3> QED
      BY <1>n, <2>1, <3>1, <3>3, <3>4, GoesTyped
         DEF Inv, TypeOK, OnePending, Reserved, ReviewHasFiles, NewWork, Pending
  <2> QED
    BY <2>2, <2>3
<1>7. ASSUME NEW r \in Submissions, File(r)
      PROVE  Inv'
  <2> DEFINE v == submission[r].version
  <2>1. v \in DOMAIN versions /\ v \in Nat
    BY <1>7, <1>n DEF File, Inv, Reserved
  <2>2. versions' = [versions EXCEPT ![v].files = @ \cup {r}] /\ Goes(r, "filed", submission[r].user, v)
        /\ UNCHANGED <<status, assignee, held, deleted, reviewed>>
    BY <1>7 DEF File
  <2>3. [versions[v] EXCEPT !.files = @ \cup {r}] \in Version
    BY <1>n, <2>1 DEF Version
  <2>4. versions' \in Seq(Version) /\ Len(versions') = n /\ DOMAIN versions' = DOMAIN versions
    BY <1>n, <2>1, <2>2, <2>3 DEF Inv, TypeOK
  <2>5. \A w \in DOMAIN versions : /\ versions'[w].verdict = versions[w].verdict
                                   /\ versions[w].files \subseteq versions'[w].files
    BY <1>n, <2>1, <2>2 DEF Version
  <2>6. Pending' = Pending
    BY <2>4, <2>5 DEF Pending
  <2>7. submission[r].user \in People \cup {NoOne}
    BY DEF Inv, TypeOK
  <2>8. ReviewHasFiles'
    <3>1. HasPendingWithFiles => HasPendingWithFiles'
      BY <2>5, <2>6 DEF HasPendingWithFiles, Pending
    <3>2. status = "ACCEPTED" => n \in DOMAIN versions
      BY <1>n, <2>1
    <3> QED
      BY <2>2, <2>4, <2>5, <2>6, <3>1, <3>2 DEF Inv, ReviewHasFiles
  <2> QED
    BY <2>1, <2>2, <2>4, <2>6, <2>7, <2>8, GoesTyped DEF Inv, TypeOK, OnePending, Reserved, NewWork
<1>8. ASSUME NEW r \in Submissions, HandIn(r)
      PROVE  Inv'
  <2>1. ApplyTransition(submission[r].user, "REVIEW", assignee, DOMAIN versions)
        /\ Goes(r, "done", submission[r].user, submission[r].version)
    BY <1>8 DEF HandIn
  <2>2. submission[r].user \in People \cup {NoOne} /\ submission[r].version \in Nat
        /\ "REVIEW" \in DesignTaskStatus
    BY DEF Inv, TypeOK, DesignTaskStatus
  <2> QED
    BY <1>a, <2>1, <2>2, TransitionKeeps, GoesTyped DEF Inv, TypeOK, Reserved
<1>9. ASSUME NEW r \in Submissions, Fail(r)
      PROVE  Inv'
  <2>1. Goes(r, "done", submission[r].user, submission[r].version)
        /\ submission[r].user \in People \cup {NoOne} /\ submission[r].version \in Nat
    BY <1>9 DEF Fail, Inv, TypeOK
  <2> QED
    BY <1>9, <2>1, GoesTyped DEF Fail, Inv, TypeOK, OnePending, Reserved, ReviewHasFiles,
                                 HasPendingWithFiles, NewWork, Pending
<1>10. CASE UNCHANGED vars
  BY <1>10 DEF vars, Inv, TypeOK, OnePending, Reserved, ReviewHasFiles,
               HasPendingWithFiles, NewWork, Pending
<1> QED
  BY <1>1, <1>2, <1>3, <1>4, <1>5, <1>6, <1>7, <1>8, <1>9, <1>10 DEF Next

\* A new task has no version and no submission.
LEMMA InitInv == Init => Inv
<1> SUFFICES ASSUME Init PROVE Inv
  OBVIOUS
<1>1. versions \in Seq(Version) /\ DOMAIN versions = {}
  BY DEF Init
<1>2. Pending = {}
  BY <1>1 DEF Pending
<1>3. TypeOK
  BY <1>1 DEF Init, TypeOK, DesignTaskStatus
<1> QED
  BY <1>2, <1>3 DEF Init, Inv, OnePending, Reserved, ReviewHasFiles, NewWork

-----------------------------------------------------------------------------
(* Theorems *)

LEMMA Invariance == Spec => []Inv
  BY InitInv, InvStep, PTL DEF Spec

\* Every variable keeps its shape, whoever works on the task.
THEOREM TypeCorrect == Spec => []TypeOK
<1>1. Inv => TypeOK
  BY DEF Inv
<1> QED
  BY <1>1, Invariance, PTL

\* However many requests hand in versions, and however their transactions overlap
\* and fail, one version is pending at most: a verdict is unambiguous.
THEOREM AtMostOnePending == Spec => []OnePending
<1>1. Inv => OnePending
  BY DEF Inv
<1> QED
  BY <1>1, Invariance, PTL

\* What is on review has files to look at, what is accepted was handed in.
THEOREM NothingReviewedUnseen == Spec => []ReviewHasFiles
<1>1. Inv => ReviewHasFiles
  BY DEF Inv
<1> QED
  BY <1>1, Invariance, PTL

\* No version goes to review twice, on whichever path the task comes back.
THEOREM RejectedStaysRejected == Spec => ReviewedOnce
<1>1. ASSUME Inv, [Next]_vars
      PROVE  [(status # "REVIEW" /\ status' = "REVIEW") => Pending \cap reviewed = {}]_vars
  <2> SUFFICES ASSUME status # "REVIEW", status' = "REVIEW", ~UNCHANGED vars
               PROVE  Pending \cap reviewed = {}
    OBVIOUS
  <2>1. ASSUME NEW u, NEW target, NEW to, NEW only, ApplyTransition(u, target, to, only)
        PROVE  status # "CANCELLED"
    BY <1>1, <2>1 DEF ApplyTransition, MayMove, DESIGN_TASK_TRANSITIONS
  <2>2. status # "CANCELLED"
    BY <1>1, <2>1 DEF Next, ChangeStatus, Assign, Unassign, SetVerdict, Delete,
                      Reserve, File, HandIn, Fail
  <2> QED
    BY <1>1, <2>2 DEF Inv, NewWork
<1> QED
  BY <1>1, Invariance, PTL DEF Spec, ReviewedOnce
=============================================================================
