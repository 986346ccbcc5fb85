------------------------------ MODULE Findings ------------------------------
(***************************************************************************)
(* Findings and their review (apps/findings): creation, the edit form,     *)
(* collaborators, deletion, and the review state machine that decides      *)
(* whether a finding is seen by the whole team.                            *)
(*                                                                         *)
(* A view reads the row once, decides on that copy, and writes later.      *)
(* The review views write their three columns; the edit form writes every  *)
(* column of the copy it read.  Each statement commits on its own.         *)
(* The roles of the users are fixed here.                                  *)
(***************************************************************************)
CONSTANTS
    Users,
    Reviewers,    \* users whose is_reviewer flag is set
    Superadmins,  \* users whose role is superadmin
    Ids,          \* the primary keys of findings, which uuid7 never gives twice
    Vendors,
    Workers,      \* threads serving requests
    Faulty,       \* the workers that may be killed
    NoUser, NoVendor, NoId

ASSUME FindingsAssumption ==
    /\ Reviewers \subseteq Users
    /\ Superadmins \subseteq Users
    /\ Faulty \subseteq Workers
    /\ NoUser \notin Users /\ NoVendor \notin Vendors /\ NoId \notin Ids

VARIABLES
    row,          \* the Finding rows
    researchers,  \* the rows of assigned_researchers
    hosts,        \* the vendors of the hosts linked to each finding
    told,         \* the review state the newest audit row about it tells
    reporter,     \* history: the user each key was given to
    pc, actor, target,
    mine,         \* the row as the worker read it
    goal,         \* the review state the worker moves it to
    cut,          \* history: findings a killed request was working on
    shared        \* history: findings two requests worked on at once

tables == <<row, researchers, hosts, told>>
locals == <<pc, actor, target, mine, goal>>
history == <<cut, shared>>
vars == <<tables, reporter, locals, history>>

-----------------------------------------------------------------------------
(* Data and permissions.                                                   *)

\* ReviewState, and "absent" for a row that is not in the table.
States == {"absent", "pending", "under_review", "approved", "rejected"}

Row == [state : States, reportedBy : Users \cup {NoUser},
        reviewedBy : Users \cup {NoUser}, vendor : Vendors \cup {NoVendor}]

NoRow == [state |-> "absent", reportedBy |-> NoUser, reviewedBy |-> NoUser,
          vendor |-> NoVendor]

Labels == {"idle", "assign", "hosts", "edit", "review", "told", "deleted"}

\* What a finding's newest audit row tells, if it has one.
Tellings == States \cup {"silent"}

Exists(f) == row[f].state # "absent"

\* is_review_authority
Authority == Reviewers \cup Superadmins

\* The review state finding_new submits a finding of user u in: a reporter with
\* review authority approves by submitting.
Submitted(u) == IF u \in Authority THEN "approved" ELSE "pending"

\* can_user_edit
CanEdit(u, f) == u \in Superadmins \/ u \in researchers[f]

\* can_user_manage_collaborators
CanManage(u, f) == u \in Superadmins \/ row[f].reportedBy = u

\* Variant: the reporter is not kept from reviewing.
CanReview_OwnToo(u, x) == u \in Authority

\* can_user_review, on the row read
CanReview(u, x) == u \in Authority /\ (x.reportedBy # u \/ u \in Superadmins)

\* _ALLOWED_REVIEW_TRANSITIONS
Allowed(from) ==
    CASE from = "pending" -> {"under_review"}
      [] from = "under_review" -> {"approved", "rejected", "pending"}
      [] from \in {"approved", "rejected"} -> {"under_review"}
      [] OTHER -> {}

Init ==
    /\ row = [f \in Ids |-> NoRow]
    /\ researchers = [f \in Ids |-> {}]
    /\ hosts = [f \in Ids |-> {}]
    /\ told = [f \in Ids |-> "silent"]
    /\ reporter = [f \in Ids |-> NoUser]
    /\ pc = [w \in Workers |-> "idle"]
    /\ actor = [w \in Workers |-> NoUser]
    /\ target = [w \in Workers |-> NoId]
    /\ mine = [w \in Workers |-> NoRow]
    /\ goal = [w \in Workers |-> "absent"]
    /\ cut = {} /\ shared = {}

-----------------------------------------------------------------------------
(* Moving a worker.                                                        *)

Goto(w, label) ==
    /\ pc' = [pc EXCEPT ![w] = label]
    /\ UNCHANGED <<actor, target, mine, goal, history>>

Clear(w) ==
    /\ pc' = [pc EXCEPT ![w] = "idle"]
    /\ actor' = [actor EXCEPT ![w] = NoUser]
    /\ target' = [target EXCEPT ![w] = NoId]
    /\ mine' = [mine EXCEPT ![w] = NoRow]
    /\ goal' = [goal EXCEPT ![w] = "absent"]

Finish(w) == Clear(w) /\ UNCHANGED history

\* A request about finding f; u, x and next are what its later steps use of the
\* user, the row it read and the review state to set.
Take(w, u, f, x, next, label) ==
    /\ pc[w] = "idle"
    /\ pc' = [pc EXCEPT ![w] = label]
    /\ actor' = [actor EXCEPT ![w] = u]
    /\ target' = [target EXCEPT ![w] = f]
    /\ mine' = [mine EXCEPT ![w] = x]
    /\ goal' = [goal EXCEPT ![w] = next]
    /\ shared' = IF \E y \in Workers : target[y] = f THEN shared \cup {f} ELSE shared
    /\ UNCHANGED cut

\* What the steps after a save use of the row: its reporter and its vendor.
Saved(x) == [NoRow EXCEPT !.reportedBy = x.reportedBy, !.vendor = x.vendor]

-----------------------------------------------------------------------------
(* Creation: finding_new.                                                  *)

\* The INSERT, under a key nobody had before.  The audit log is not told.
Create(w, u, f, v) ==
    LET new == [state |-> Submitted(u), reportedBy |-> u, reviewedBy |-> NoUser,
                vendor |-> v] IN
    /\ reporter[f] = NoUser
    /\ Take(w, NoUser, f, Saved(new), "absent", "assign")
    /\ row' = [row EXCEPT ![f] = new]
    /\ reporter' = [reporter EXCEPT ![f] = u]
    /\ UNCHANGED <<researchers, hosts, told>>

\* ensure_reporter_assigned, sent after an INSERT; a row deleted meanwhile
\* makes the foreign key fail and ends the request.
AssignReporter(w) ==
    /\ pc[w] = "assign"
    /\ \/ /\ Exists(target[w])
          /\ researchers' = [researchers EXCEPT ![target[w]] = @ \cup {mine[w].reportedBy}]
          /\ Goto(w, "hosts")
       \/ ~Exists(target[w]) /\ Finish(w) /\ UNCHANGED researchers
    /\ UNCHANGED <<row, hosts, told, reporter>>

\* Variant: the links of the previous vendor are kept.
SyncHosts_Adds(w) ==
    /\ pc[w] = "hosts"
    /\ \E linked \in {{}, {mine[w].vendor}} :
          hosts' = [hosts EXCEPT ![target[w]] = @ \cup linked]
    /\ Finish(w)
    /\ UNCHANGED <<row, researchers, told, reporter>>

\* _sync_affected_hosts: the hosts typed into the form, if any, taken from the
\* vendor of the worker's own copy, replace the links.
SyncHosts(w) ==
    /\ pc[w] = "hosts"
    /\ \/ /\ Exists(target[w])
          /\ \E linked \in {{}, {mine[w].vendor}} :
                hosts' = [hosts EXCEPT ![target[w]] = linked]
       \/ ~Exists(target[w]) /\ UNCHANGED hosts
    /\ Finish(w)
    /\ UNCHANGED <<row, researchers, told, reporter>>

-----------------------------------------------------------------------------
(* The edit form: finding_edit.                                            *)

ReadForEdit(w, u, f) ==
    /\ Exists(f) /\ CanEdit(u, f)
    /\ Take(w, NoUser, f, row[f], "absent", "edit")
    /\ UNCHANGED <<tables, reporter>>

\* Variant: the form lets the reporter field through.
SaveEdit_TakesOver(w) ==
    /\ pc[w] = "edit"
    /\ \E u \in Users : row' = [row EXCEPT ![target[w]] = [mine[w] EXCEPT !.reportedBy = u]]
    /\ Goto(w, "hosts")
    /\ UNCHANGED <<researchers, hosts, told, reporter>>

\* form.save() writes every column.  Of a row deleted meanwhile Django's
\* save() makes a new one: its UPDATE finds none, and it inserts.
SaveEdit(w) ==
    /\ pc[w] = "edit"
    /\ \E v \in Vendors :
          LET new == [mine[w] EXCEPT !.vendor = v] IN
          /\ row' = [row EXCEPT ![target[w]] = new]
          /\ mine' = [mine EXCEPT ![w] = Saved(new)]
    /\ pc' = [pc EXCEPT ![w] = IF Exists(target[w]) THEN "hosts" ELSE "assign"]
    /\ UNCHANGED <<researchers, hosts, told, reporter, actor, target, goal, history>>

-----------------------------------------------------------------------------
(* Deletion and collaborators: finding_delete, collaborator_add / _remove. *)

\* finding.delete() in one transaction, the links with it.
Delete(w, u, f) ==
    /\ Exists(f) /\ CanManage(u, f)
    /\ Take(w, NoUser, f, NoRow, "absent", "deleted")
    /\ row' = [row EXCEPT ![f] = NoRow]
    /\ researchers' = [researchers EXCEPT ![f] = {}]
    /\ hosts' = [hosts EXCEPT ![f] = {}]
    /\ UNCHANGED <<told, reporter>>

\* FINDING_DELETED
AuditDeleted(w) ==
    /\ pc[w] = "deleted"
    /\ told' = [told EXCEPT ![target[w]] = "absent"]
    /\ Finish(w)
    /\ UNCHANGED <<row, researchers, hosts, reporter>>

AddCollaborator(u, f, x) ==
    /\ Exists(f) /\ CanManage(u, f)
    /\ researchers' = [researchers EXCEPT ![f] = @ \cup {x}]
    /\ UNCHANGED <<row, hosts, told, reporter, locals, history>>

\* Variant: the reporter can be taken off the list.
RemoveCollaborator_Anyone(u, f, x) ==
    /\ Exists(f) /\ CanManage(u, f)
    /\ researchers' = [researchers EXCEPT ![f] = @ \ {x}]
    /\ UNCHANGED <<row, hosts, told, reporter, locals, history>>

RemoveCollaborator(u, f, x) ==
    /\ Exists(f) /\ CanManage(u, f)
    /\ x # row[f].reportedBy
    /\ researchers' = [researchers EXCEPT ![f] = @ \ {x}]
    /\ UNCHANGED <<row, hosts, told, reporter, locals, history>>

-----------------------------------------------------------------------------
(* Review: review_start / approve / reject / resubmit.                     *)

\* _transition_review up to its save: permission, and the table, which a
\* superadmin need not follow.
ReadForReview(w, u, f, next) ==
    /\ Exists(f) /\ CanReview(u, row[f])
    /\ next \in Allowed(row[f].state) \/ u \in Superadmins
    /\ Take(w, u, f, NoRow, next, "review")
    /\ UNCHANGED <<tables, reporter>>

\* review_resubmit up to its save.
ReadForResubmit(w, u, f) ==
    /\ Exists(f) /\ CanManage(u, f)
    /\ row[f].state = "rejected"
    /\ Take(w, u, f, NoRow, "pending", "review")
    /\ UNCHANGED <<tables, reporter>>

\* UPDATE review_state, reviewed_by, reviewed_at; no row is an error.
SaveReview(w) ==
    /\ pc[w] = "review"
    /\ \/ /\ Exists(target[w])
          /\ row' = [row EXCEPT ![target[w]].state = goal[w],
                                ![target[w]].reviewedBy = actor[w]]
          /\ Goto(w, "told")
       \/ ~Exists(target[w]) /\ Finish(w) /\ UNCHANGED row
    /\ UNCHANGED <<researchers, hosts, told, reporter>>

\* Variant: one action code is missing from _audit_action_for.
AuditReview_Partial(w) ==
    /\ pc[w] = "told"
    /\ told' = [told EXCEPT ![target[w]] = IF goal[w] = "rejected" THEN @ ELSE goal[w]]
    /\ Finish(w)
    /\ UNCHANGED <<row, researchers, hosts, reporter>>

\* REVIEW_STARTED, _APPROVED, _REJECTED or _RESUBMITTED
AuditReview(w) ==
    /\ pc[w] = "told"
    /\ told' = [told EXCEPT ![target[w]] = goal[w]]
    /\ Finish(w)
    /\ UNCHANGED <<row, researchers, hosts, reporter>>

-----------------------------------------------------------------------------
\* The process is killed, or a statement fails: the rest is never run.
Crash(w) ==
    /\ w \in Faulty /\ pc[w] # "idle"
    /\ cut' = cut \cup {target[w]}
    /\ Clear(w)
    /\ UNCHANGED <<tables, reporter, shared>>

Step(w) ==
    \/ AssignReporter(w) \/ SyncHosts(w) \/ SaveEdit(w) \/ AuditDeleted(w)
    \/ SaveReview(w) \/ AuditReview(w)

Next ==
    \/ \E w \in Workers, u \in Users, f \in Ids :
          \/ \E v \in Vendors : Create(w, u, f, v)
          \/ ReadForEdit(w, u, f) \/ Delete(w, u, f) \/ ReadForResubmit(w, u, f)
          \/ \E next \in {"under_review", "approved", "rejected"} :
                ReadForReview(w, u, f, next)
    \/ \E w \in Workers : Step(w) \/ Crash(w)
    \/ \E u, x \in Users, f \in Ids :
          AddCollaborator(u, f, x) \/ RemoveCollaborator(u, f, x)

Spec == Init /\ [][Next]_vars

-----------------------------------------------------------------------------
(* Correctness.                                                            *)

\* The values the tables and the workers' variables range over.
TypeOK ==
    /\ row \in [Ids -> Row]
    /\ researchers \in [Ids -> SUBSET Users]
    /\ hosts \in [Ids -> SUBSET Vendors]
    /\ told \in [Ids -> Tellings]
    /\ reporter \in [Ids -> Users \cup {NoUser}]
    /\ pc \in [Workers -> Labels]
    /\ actor \in [Workers -> Users \cup {NoUser}]
    /\ target \in [Workers -> Ids \cup {NoId}]
    /\ mine \in [Workers -> Row]
    /\ goal \in [Workers -> States]
    /\ cut \subseteq Ids /\ shared \subseteq Ids

\* The state and the name on a row belong together: a claim or a verdict was
\* given by someone with review authority who did not review an own finding,
\* save for a superadmin; only a reporter with authority needs no reviewer.
Sound(x) ==
    x.state \in {"under_review", "approved", "rejected"} =>
        \/ x.reviewedBy \in Authority /\ (x.reviewedBy # x.reportedBy \/ x.reviewedBy \in Superadmins)
        \/ x.state = "approved" /\ x.reviewedBy = NoUser /\ x.reportedBy \in Authority

\* _transition_review and finding_edit: however stale edits, reviews and
\* deletions overlap, no finding is shown to the team, claimed or rejected
\* without such a name on its row.
VerdictNamesAuthority == \A f \in Ids : Exists(f) => Sound(row[f])

\* ensure_reporter_assigned and collaborator_remove: a finding never stays
\* without its reporter among those who may edit it, unless a request about
\* it was killed, which may be the one that inserted it.
ReporterCanEdit ==
    \A f \in Ids \ cut :
        Exists(f) => \/ row[f].reportedBy \in researchers[f]
                     \/ \E w \in Workers : pc[w] = "assign" /\ target[w] = f

\* Nobody else takes a finding over: through edits, reviews and deletions, and
\* when the save of a stale copy brings a deleted row back (finding_edit), a
\* finding names the user who submitted it.
ReporterKept == \A f \in Ids : Exists(f) => row[f].reportedBy = reporter[f]

Idle == \A w \in Workers : pc[w] = "idle"

\* The review state the audit log gives a finding.  A finding without an audit
\* row is as it was submitted, which finding_new does not record.
Logged(f) ==
    IF told[f] # "silent" THEN told[f]
    ELSE IF reporter[f] = NoUser THEN "absent" ELSE Submitted(reporter[f])

\* apps/audit/models.py, "each transition emits exactly one row so the
\* state-machine history is fully reconstructable from the audit log": between
\* requests the review state follows from the newest audit row about the
\* finding, or from who submitted it when there is none, unless requests about
\* it overlapped or were killed.
ReviewReconstructable ==
    Idle => \A f \in Ids \ (cut \cup shared) : row[f].state = Logged(f)

\* _sync_affected_hosts, "a value that also exists under another vendor never
\* links across vendors", unless requests about the finding overlapped or were
\* killed between the row and its links: creating, editing,
\* deleting and bringing back a finding one after another never leaves a host
\* of its previous vendor.
HostsMatchVendorUnlessShared ==
    Idle => \A f \in Ids \ (cut \cup shared) : hosts[f] \subseteq {row[f].vendor}

\* Decided findings are reopened by superadmins only.
OnlySuperadminsReopen ==
    [][\A f \in Ids :
          /\ row[f].state \in {"approved", "rejected"} /\ row'[f].state = "under_review"
          => row'[f].reviewedBy \in Superadmins]_vars
=============================================================================
