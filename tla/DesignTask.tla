----------------------------- MODULE DesignTask -----------------------------
(***************************************************************************)
(* A task of the design board: its status machine, its assignee and the    *)
(* versions handed in for review (backend/services/design/state.py,        *)
(* crud.py and files.py, over backend/models/design.py).                   *)
(*                                                                         *)
(* Every handler but one holds the task's row FOR UPDATE to its commit and *)
(* is an action.  A submission is three transactions with the upload of    *)
(* the files between the first two, and takes the lock again in the first  *)
(* and the third only.                                                     *)
(*                                                                         *)
(* A comment the code asks for is taken as given.  Dragging a card         *)
(* (move_task) is a change of status to a column of the board.             *)
(***************************************************************************)
EXTENDS Integers, Sequences, FiniteSets

CONSTANTS
    Author,       \* the manager who set the task and accepts the work
    Lead,         \* an owner or admin of the project
    Designers,
    NoOne,        \* no assignee
    Submissions   \* requests to hand in a version, each made at most once

ASSUME PeopleAssumption ==
    /\ Author # Lead /\ {Author, Lead} \cap Designers = {}
    /\ NoOne \notin Designers

VARIABLES
    status,      \* DesignTask.status
    assignee,    \* DesignTask.assignee_user_id
    held,        \* DesignTask.held_from_status
    deleted,     \* DesignTask.is_deleted
    versions,    \* DesignSubmission by version_no, with the files of each
    submission,  \* where each request to hand in a version stands
    reviewed     \* versions that have been up for review (history)

vars == <<status, assignee, held, deleted, versions, submission, reviewed>>

-----------------------------------------------------------------------------
(* The table *)

DesignTaskStatus == {"NEW", "ASSIGNED", "IN_PROGRESS", "REVIEW", "REVISION",
                     "ON_HOLD", "ACCEPTED", "CANCELLED"}

DESIGN_TASK_TRANSITIONS ==
    [NEW         |-> {"ASSIGNED", "ON_HOLD", "CANCELLED"},
     ASSIGNED    |-> {"IN_PROGRESS", "NEW", "ON_HOLD", "CANCELLED"},
     IN_PROGRESS |-> {"REVIEW", "ON_HOLD", "CANCELLED"},
     REVIEW      |-> {"ACCEPTED", "REVISION", "CANCELLED"},
     REVISION    |-> {"REVIEW", "ON_HOLD", "CANCELLED"},
     ON_HOLD     |-> {"NEW", "ASSIGNED", "IN_PROGRESS", "REVISION", "CANCELLED"},
     ACCEPTED    |-> {},
     CANCELLED   |-> {}]

Terminal == {"ACCEPTED", "CANCELLED"}
NotHeld  == "NONE"
People   == {Author, Lead} \cup Designers

\* A version: the verdict on it, and the submissions whose files it holds.
Version == [verdict : {"PENDING", "ACCEPTED", "REJECTED"}, files : SUBSET Submissions]

\* can_user_transition
MayMove(u, target) ==
    /\ target \in DESIGN_TASK_TRANSITIONS[status]
    /\ \/ u = Lead
       \/ u = Author /\ \/ target = "CANCELLED"
                        \/ status = "REVIEW" /\ target \in {"REVISION", "ACCEPTED"}
       \/ u = assignee /\ \/ target = "ON_HOLD"
                          \/ status = "ON_HOLD" /\ target # "CANCELLED"
                          \/ status = "ASSIGNED" /\ target = "IN_PROGRESS"
                          \/ status \in {"IN_PROGRESS", "REVISION"} /\ target = "REVIEW"

-----------------------------------------------------------------------------
(* Versions *)

Pending     == {v \in DOMAIN versions : versions[v].verdict = "PENDING"}
LastPending == CHOOSE v \in Pending : \A w \in Pending : w <= v

\* Mutant: a version whose upload failed is good enough for review.
HasPending == Pending # {}

\* _has_pending_submission(with_files=True)
HasPendingWithFiles == \E v \in Pending : versions[v].files # {}

\* _pending_submission_row: the version a verdict names, or the last one.
Target(only) ==
    IF Pending \cap only = {} THEN 0
    ELSE CHOOSE v \in Pending \cap only : \A w \in Pending \cap only : w <= v

Judge(v, verdict) ==
    versions' = IF v = 0 THEN versions ELSE [versions EXCEPT ![v].verdict = verdict]

\* Mutant: only a verdict rejects, a change of status by itself does not.
RejectNamed(only) ==
    IF only = DOMAIN versions THEN UNCHANGED versions ELSE Judge(Target(only), "REJECTED")

\* _reject_pending_submission and _close_pending_submission
RejectPending(only) == Judge(Target(only), "REJECTED")

ClosePending(only) == Judge(Target(only), "ACCEPTED")

-----------------------------------------------------------------------------
Init ==
    /\ status = "NEW" /\ assignee = NoOne /\ held = NotHeld /\ deleted = FALSE
    /\ versions = <<>> /\ reviewed = {}
    /\ submission = [r \in Submissions |-> [phase |-> "none", user |-> NoOne, version |-> 0]]

\* apply_transition_locked: may it, the guards, the effects.  to is the assignee
\* the caller has just put in, only the versions a verdict is about.
ApplyTransition(u, target, to, only) ==
    /\ ~deleted
    /\ MayMove(u, target)
    /\ target \in {"ASSIGNED", "IN_PROGRESS"} => to # NoOne
    /\ target = "REVIEW" => HasPendingWithFiles
    /\ target = "ACCEPTED" => Pending # {}
    /\ status' = target
    /\ assignee' = IF target = "NEW" THEN NoOne ELSE to
    /\ held' = IF target = "ON_HOLD" THEN status
               ELSE IF status = "ON_HOLD" THEN NotHeld ELSE held
    /\ CASE target = "REVISION" -> RejectPending(only)
         [] target = "ACCEPTED" -> ClosePending(only)
         [] OTHER               -> UNCHANGED versions
    /\ reviewed' = IF target = "REVIEW" THEN reviewed \cup Pending ELSE reviewed
    /\ UNCHANGED deleted

\* change_status and move_task
ChangeStatus(u, target) ==
    /\ ApplyTransition(u, target, assignee, DOMAIN versions)
    /\ UNCHANGED submission

\* assign, to somebody (the lead may)
Assign(to) ==
    /\ ~deleted
    /\ status \notin Terminal
    /\ IF status = "NEW"
       THEN ApplyTransition(Lead, "ASSIGNED", to, {})
       ELSE assignee' = to /\ UNCHANGED <<status, held, deleted, versions, reviewed>>
    /\ UNCHANGED submission

\* assign, to nobody
Unassign ==
    /\ ~deleted
    /\ \/ status = "ASSIGNED" /\ ApplyTransition(Lead, "NEW", assignee, {})
       \/ /\ status \in {"NEW", "ON_HOLD"}
          /\ assignee' = NoOne
          /\ UNCHANGED <<status, held, deleted, versions, reviewed>>
    /\ UNCHANGED submission

\* set_verdict: on the version it names.
SetVerdict(u, v, verdict) ==
    /\ u \in {Author, Lead}
    /\ status = "REVIEW"
    /\ v \in Pending
    /\ ApplyTransition(u, IF verdict = "ACCEPTED" THEN "ACCEPTED" ELSE "REVISION",
                       assignee, {v})
    /\ UNCHANGED submission

\* delete_task, from any status
Delete ==
    /\ ~deleted /\ deleted' = TRUE
    /\ UNCHANGED <<status, assignee, held, versions, submission, reviewed>>

-----------------------------------------------------------------------------
(* Handing in a version: submit_version *)

Goes(r, phase, u, v) ==
    submission' = [submission EXCEPT ![r] = [phase |-> phase, user |-> u, version |-> v]]

\* Mutant: the version a failed upload left behind is not looked for.
ReserveAnew(r, u) ==
    /\ versions' = Append(versions, [verdict |-> "PENDING", files |-> {}])
    /\ Goes(r, "uploading", u, Len(versions) + 1)

\* An empty pending version is used again, one with files refuses the request.
ReserveVersion(r, u) ==
    IF Pending = {}
    THEN /\ versions' = Append(versions, [verdict |-> "PENDING", files |-> {}])
         /\ Goes(r, "uploading", u, Len(versions) + 1)
    ELSE /\ versions[LastPending].files = {}
         /\ Goes(r, "uploading", u, LastPending)
         /\ UNCHANGED versions

\* create_submission, the first transaction.
Reserve(r, u) ==
    /\ submission[r].phase = "none"
    /\ ~deleted
    /\ u = Lead \/ u = assignee
    /\ status \in {"IN_PROGRESS", "REVISION"}
    /\ ReserveVersion(r, u)
    /\ UNCHANGED <<status, assignee, held, deleted, reviewed>>

\* create_submission, the second one: nothing is read again.
File(r) ==
    LET s == submission[r] IN
    /\ s.phase = "uploading"
    /\ versions' = [versions EXCEPT ![s.version].files = @ \cup {r}]
    /\ Goes(r, "filed", s.user, s.version)
    /\ UNCHANGED <<status, assignee, held, deleted, reviewed>>

\* change_status to REVIEW, with the rights and the guards of that moment.
HandIn(r) ==
    LET s == submission[r] IN
    /\ s.phase = "filed"
    /\ ApplyTransition(s.user, "REVIEW", assignee, DOMAIN versions)
    /\ Goes(r, "done", s.user, s.version)

\* The upload fails, the last transaction is refused, or the process dies.
Fail(r) ==
    LET s == submission[r] IN
    /\ s.phase \in {"uploading", "filed"}
    /\ Goes(r, "done", s.user, s.version)
    /\ UNCHANGED <<status, assignee, held, deleted, versions, reviewed>>

-----------------------------------------------------------------------------
Next ==
    \/ \E u \in People, target \in DesignTaskStatus : ChangeStatus(u, target)
    \/ \E d \in Designers : Assign(d)
    \/ Unassign
    \/ \E u \in People, v \in DOMAIN versions, verdict \in {"ACCEPTED", "REJECTED"} :
          SetVerdict(u, v, verdict)
    \/ Delete
    \/ \E r \in Submissions :
          \/ \E u \in People : Reserve(r, u)
          \/ File(r) \/ HandIn(r) \/ Fail(r)

Spec == Init /\ [][Next]_vars

-----------------------------------------------------------------------------
(* Properties *)

TypeOK ==
    /\ status \in DesignTaskStatus
    /\ assignee \in Designers \cup {NoOne}
    /\ held \in DESIGN_TASK_TRANSITIONS.ON_HOLD \cup {NotHeld}
    /\ deleted \in BOOLEAN
    /\ versions \in Seq(Version) /\ reviewed \subseteq DOMAIN versions
    /\ submission \in [Submissions -> [phase : {"none", "uploading", "filed", "done"},
                                       user : People \cup {NoOne}, version : Nat]]

\* There is never a choice of what a verdict is about: one version is pending
\* at most, and it is the newest, whatever uploads failed, overlapped or came
\* late ("a second pending version is forbidden: the verdict is unambiguous").
OnePending == Pending \subseteq {Len(versions)}

\* Work on review can be looked at, and accepted work was handed in: REVIEW
\* has a pending version with files, ACCEPTED ends with an accepted one.
ReviewHasFiles ==
    /\ status = "REVIEW" => HasPendingWithFiles
    /\ status = "ACCEPTED" =>
          /\ Pending = {}
          /\ versions[Len(versions)].verdict = "ACCEPTED"
          /\ versions[Len(versions)].files # {}

\* Work sent back stays sent back: a version goes to review once, whichever of
\* a verdict, a change of status or a detour over ON_HOLD rejected it ("the
\* guard of REVISION -> REVIEW asks for a NEW version").
ReviewedOnce ==
    [][(status # "REVIEW" /\ status' = "REVIEW") => Pending \cap reviewed = {}]_vars

\* A verdict is on what was handed in: a version that has one gets no more
\* files.
JudgedVersionKept ==
    [][\A v \in DOMAIN versions :
          versions[v].verdict # "PENDING" => versions'[v].files = versions[v].files]_vars

\* A task that is assigned, in work or on review has an assignee.
WorkHasAssignee ==
    status \in {"ASSIGNED", "IN_PROGRESS", "REVIEW", "REVISION"} => assignee # NoOne
=============================================================================
