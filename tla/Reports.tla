------------------------------ MODULE Reports ------------------------------
(***************************************************************************)
(* Client reports (apps/reports): the edit forms, the findings a report    *)
(* includes, and the review that makes it visible and exportable.          *)
(*                                                                         *)
(* A view reads the report once, decides on that copy and writes later:    *)
(* the review views write three columns, the forms the whole row of the    *)
(* copy.  Each statement commits on its own; the reads a request makes     *)
(* before its first write are one step.  The engagement manager counts     *)
(* among the researchers, and texts, contacts and annexes are left out.    *)
(* No view deletes a report.                                               *)
(***************************************************************************)
CONSTANTS
    Users,
    Reviewers,    \* users whose is_reviewer flag is set
    Superadmins,  \* users whose role is superadmin
    Involved,     \* the users a form may name as researchers
    Ids,          \* the primary keys of reports
    FindingIds,   \* the primary keys of findings
    Vendors,
    Workers,      \* threads serving requests
    Faulty,       \* the workers that may be killed
    NoUser, NoVendor, Deleted, NoId, NoFinding

ASSUME ReportsAssumption ==
    /\ Reviewers \subseteq Users /\ Superadmins \subseteq Users
    /\ Involved \subseteq Users
    /\ Faulty \subseteq Workers
    /\ NoUser \notin Users /\ {NoVendor, Deleted} \cap Vendors = {}
    /\ NoVendor # Deleted
    /\ NoId \notin Ids /\ NoFinding \notin FindingIds

VARIABLES
    row,          \* the Report rows
    researchers,  \* the people involved besides the creator
    findings,     \* the findings each report includes
    vendor,       \* the vendor of each finding, NoVendor before it is created
    told,         \* the status the newest audit row about a report tells
    pc, target,
    actor,        \* the user a review is by
    finding,      \* the finding a worker's request is about
    mine,         \* the row as the worker read it
    goal,         \* the status the worker moves it to
    moved,        \* history: reports and findings that changed client
    contended     \* history: reports that overlapping or killed requests
                  \* were about

tables == <<row, researchers, findings, vendor, told>>
locals == <<pc, actor, target, finding, mine, goal>>
vars == <<row, researchers, findings, vendor, told,
          pc, actor, target, finding, mine, goal, moved, contended>>

-----------------------------------------------------------------------------
(* Data and permissions.                                                   *)

\* ReportStatus, and "absent" for a row that is not in the table.
States == {"absent", "draft", "in_review", "approved", "rejected"}

Row == [status : States, client : Vendors \cup {NoVendor},
        createdBy : Users \cup {NoUser}, reviewedBy : Users \cup {NoUser}]

NoRow == [status |-> "absent", client |-> NoVendor,
          createdBy |-> NoUser, reviewedBy |-> NoUser]

Labels == {"idle", "people", "edit", "content", "move", "told",
           "insert", "update", "link"}

Exists(r) == row[r].status # "absent"

\* is_review_authority
Authority == Reviewers \cup Superadmins

\* can_user_edit, _is_involved
CanEdit(u, r) ==
    u \in Superadmins \/ u = row[r].createdBy \/ u \in researchers[r]

\* Variant: the creator is not kept from reviewing.
CanReview_OwnToo(u, r) == u \in Authority

\* can_user_review
CanReview(u, r) == u \in Authority /\ (row[r].createdBy # u \/ u \in Superadmins)

Init ==
    /\ row = [r \in Ids |-> NoRow]
    /\ researchers = [r \in Ids |-> {}]
    /\ findings = [r \in Ids |-> {}]
    /\ vendor = [f \in FindingIds |-> NoVendor]
    /\ told = [r \in Ids |-> "absent"]
    /\ pc = [w \in Workers |-> "idle"]
    /\ actor = [w \in Workers |-> NoUser]
    /\ target = [w \in Workers |-> NoId]
    /\ finding = [w \in Workers |-> NoFinding]
    /\ mine = [w \in Workers |-> NoRow]
    /\ goal = [w \in Workers |-> "absent"]
    /\ moved = {}
    /\ contended = {}

-----------------------------------------------------------------------------
(* Moving a worker.                                                        *)

Goto(w, label) ==
    /\ pc' = [pc EXCEPT ![w] = label]
    /\ UNCHANGED <<actor, target, finding, mine, goal>>

Finish(w) ==
    /\ pc' = [pc EXCEPT ![w] = "idle"]
    /\ actor' = [actor EXCEPT ![w] = NoUser]
    /\ target' = [target EXCEPT ![w] = NoId]
    /\ finding' = [finding EXCEPT ![w] = NoFinding]
    /\ mine' = [mine EXCEPT ![w] = NoRow]
    /\ goal' = [goal EXCEPT ![w] = "absent"]

\* A request about report r; u, f, x and next are what its later steps use of
\* the user, the finding, the row it read and the status to set.
Take(w, u, r, f, x, next, label) ==
    /\ pc[w] = "idle"
    /\ pc' = [pc EXCEPT ![w] = label]
    /\ actor' = [actor EXCEPT ![w] = u]
    /\ target' = [target EXCEPT ![w] = r]
    /\ finding' = [finding EXCEPT ![w] = f]
    /\ mine' = [mine EXCEPT ![w] = x]
    /\ goal' = [goal EXCEPT ![w] = next]
    /\ contended' = IF \E y \in Workers : target[y] = r THEN contended \cup {r}
                    ELSE contended

-----------------------------------------------------------------------------
(* Creating and editing.                                                   *)

\* report_new: the INSERT.
Create(w, u, r, v) ==
    LET new == [NoRow EXCEPT !.status = "draft", !.client = v, !.createdBy = u] IN
    /\ ~Exists(r)
    /\ Take(w, NoUser, r, NoFinding, NoRow, "absent", "people")
    /\ row' = [row EXCEPT ![r] = new]
    /\ told' = [told EXCEPT ![r] = "draft"]
    /\ UNCHANGED <<researchers, findings, vendor, moved>>

\* report_edit and report_content_edit up to their save.
ReadForEdit(w, u, r) ==
    /\ Exists(r) /\ CanEdit(u, r)
    /\ \E label \in {"edit", "content"} : Take(w, NoUser, r, NoFinding, row[r], "absent", label)
    /\ UNCHANGED <<tables, moved>>

\* form.save() of report_edit: every column, the client among them.
SaveEdit(w) ==
    /\ pc[w] = "edit"
    /\ \E v \in Vendors :
          /\ row' = [row EXCEPT ![target[w]] = [mine[w] EXCEPT !.client = v]]
          /\ moved' = IF v = row[target[w]].client THEN moved ELSE moved \cup {target[w]}
    /\ pc' = [pc EXCEPT ![w] = "people"]
    /\ mine' = [mine EXCEPT ![w] = NoRow]
    /\ UNCHANGED <<actor, target, finding, goal>>
    /\ UNCHANGED <<researchers, findings, vendor, told, contended>>

\* form.save_m2m()
SavePeople(w) ==
    /\ pc[w] = "people"
    /\ \E team \in SUBSET Involved : researchers' = [researchers EXCEPT ![target[w]] = team]
    /\ Finish(w)
    /\ UNCHANGED <<row, findings, vendor, told, moved, contended>>

\* form.save() of report_content_edit: every column too.
SaveContent(w) ==
    /\ pc[w] = "content"
    /\ row' = [row EXCEPT ![target[w]] = mine[w]]
    /\ moved' = IF mine[w].client = row[target[w]].client THEN moved
                ELSE moved \cup {target[w]}
    /\ Finish(w)
    /\ UNCHANGED <<researchers, findings, vendor, told, contended>>

-----------------------------------------------------------------------------
(* Review.                                                                 *)

\* Variant: whoever may review may re-open.
MayMove_ReviewersReopen(u, r, next) ==
    \/ next = "in_review" /\ CanEdit(u, r) /\ row[r].status \in {"draft", "rejected"}
    \/ next = "in_review" /\ CanReview(u, r) /\ row[r].status = "approved"
    \/ next \in {"approved", "rejected"} /\ CanReview(u, r) /\ row[r].status = "in_review"

\* report_submit_review, report_reopen, report_approve and report_reject.
MayMove(u, r, next) ==
    \/ next = "in_review" /\ CanEdit(u, r) /\ row[r].status \in {"draft", "rejected"}
    \/ next = "in_review" /\ u \in Superadmins /\ row[r].status = "approved"
    \/ next \in {"approved", "rejected"} /\ CanReview(u, r) /\ row[r].status = "in_review"

ReadForMove(w, u, r, next) ==
    /\ Exists(r) /\ MayMove(u, r, next)
    /\ Take(w, u, r, NoFinding, NoRow, next, "move")
    /\ UNCHANGED <<tables, moved>>

\* _set_report_state: UPDATE status, reviewed_by, reviewed_at.
SaveMove(w) ==
    /\ pc[w] = "move"
    /\ row' = [row EXCEPT ![target[w]].status = goal[w], ![target[w]].reviewedBy = actor[w]]
    /\ Goto(w, "told")
    /\ UNCHANGED <<researchers, findings, vendor, told, moved, contended>>

\* Variant: only verdicts are audited.
AuditMove_VerdictsOnly(w) ==
    /\ pc[w] = "told"
    /\ told' = [told EXCEPT ![target[w]] = IF goal[w] = "in_review" THEN @ ELSE goal[w]]
    /\ Finish(w)
    /\ UNCHANGED <<row, researchers, findings, vendor, moved, contended>>

\* REVIEW_STARTED, _RESUBMITTED, _APPROVED or _REJECTED
AuditMove(w) ==
    /\ pc[w] = "told"
    /\ told' = [told EXCEPT ![target[w]] = goal[w]]
    /\ Finish(w)
    /\ UNCHANGED <<row, researchers, findings, vendor, moved, contended>>

-----------------------------------------------------------------------------
(* The findings of a report.                                               *)

\* Variant: only the dropdown filters by client.
ReadForAdd_AnyClient(w, u, r, f) ==
    /\ Exists(r) /\ CanEdit(u, r) /\ vendor[f] \in Vendors
    /\ Take(w, NoUser, r, f, NoRow, "absent", "link")
    /\ UNCHANGED <<tables, moved>>

\* report_add_finding up to its write: the finding is the client's.
ReadForAdd(w, u, r, f) ==
    /\ Exists(r) /\ CanEdit(u, r) /\ vendor[f] = row[r].client
    /\ Take(w, NoUser, r, f, NoRow, "absent", "link")
    /\ UNCHANGED <<tables, moved>>

\* What is used of the report: report.client.
Client(r) == [NoRow EXCEPT !.client = row[r].client]

\* report_create_finding up to its first write.
ReadForCreateFinding(w, u, r, f) ==
    /\ Exists(r) /\ CanEdit(u, r) /\ vendor[f] = NoVendor
    /\ \A x \in Workers : finding[x] # f
    /\ Take(w, NoUser, r, f, Client(r), "absent", "insert")
    /\ UNCHANGED <<tables, moved>>

\* The INSERT, with the client as vendor.
InsertFinding(w) ==
    /\ pc[w] = "insert"
    /\ vendor' = [vendor EXCEPT ![finding[w]] = mine[w].client]
    /\ Goto(w, "link")
    /\ UNCHANGED <<row, researchers, findings, told, moved, contended>>

\* report.findings.add(); a finding deleted meanwhile is a foreign key error.
Link(w) ==
    /\ pc[w] = "link"
    /\ findings' = IF vendor[finding[w]] = Deleted THEN findings
                   ELSE [findings EXCEPT ![target[w]] = @ \cup {finding[w]}]
    /\ Finish(w)
    /\ UNCHANGED <<row, researchers, vendor, told, moved, contended>>

\* report_edit_finding up to its save: the finding belongs to the report.
ReadForEditFinding(w, u, r, f) ==
    /\ Exists(r) /\ CanEdit(u, r) /\ f \in findings[r]
    /\ Take(w, NoUser, r, f, Client(r), "absent", "update")
    /\ UNCHANGED <<tables, moved>>

\* A finding is given another vendor, or comes back after it was deleted.
Moves(f, v) == vendor[f] \in {Deleted} \cup (Vendors \ {v})

\* updated.save(), the vendor kept to the client; a finding deleted meanwhile
\* is inserted again.
UpdateFinding(w) ==
    /\ pc[w] = "update"
    /\ vendor' = [vendor EXCEPT ![finding[w]] = mine[w].client]
    /\ moved' = IF Moves(finding[w], mine[w].client) THEN moved \cup {finding[w]} ELSE moved
    /\ Finish(w)
    /\ UNCHANGED <<row, researchers, findings, told, contended>>

\* report_remove_finding
RemoveFinding(u, r, f) ==
    /\ CanEdit(u, r) /\ f \in findings[r]
    /\ findings' = [findings EXCEPT ![r] = @ \ {f}]
    /\ UNCHANGED <<row, researchers, vendor, told, locals, moved, contended>>

\* finding_new and finding_edit give a finding any vendor, finding_edit one
\* that was deleted meanwhile too.
SetVendor(f, v) ==
    /\ \A x \in Workers : pc[x] = "insert" => finding[x] # f
    /\ vendor' = [vendor EXCEPT ![f] = v]
    /\ moved' = IF Moves(f, v) THEN moved \cup {f} ELSE moved
    /\ UNCHANGED <<row, researchers, findings, told, locals, contended>>

\* finding_delete: the links go with the row.
DeleteFinding(f) ==
    /\ vendor[f] \in Vendors
    /\ vendor' = [vendor EXCEPT ![f] = Deleted]
    /\ findings' = [r \in Ids |-> findings[r] \ {f}]
    /\ UNCHANGED <<row, researchers, told, locals, moved, contended>>

\* The process is killed, or a statement fails: the rest is never run.
Crash(w) ==
    /\ w \in Faulty /\ pc[w] # "idle"
    /\ contended' = contended \cup {target[w]}
    /\ Finish(w)
    /\ UNCHANGED <<tables, moved>>

-----------------------------------------------------------------------------
Next ==
    \/ \E w \in Workers, u \in Users, r \in Ids :
          \/ ReadForEdit(w, u, r)
          \/ \E v \in Vendors : Create(w, u, r, v)
          \/ \E next \in {"in_review", "approved", "rejected"} : ReadForMove(w, u, r, next)
          \/ \E f \in FindingIds :
                \/ ReadForAdd(w, u, r, f) \/ ReadForCreateFinding(w, u, r, f)
                \/ ReadForEditFinding(w, u, r, f)
    \/ \E w \in Workers :
          \/ SaveEdit(w) \/ SavePeople(w) \/ SaveContent(w)
          \/ SaveMove(w) \/ AuditMove(w)
          \/ InsertFinding(w) \/ Link(w) \/ UpdateFinding(w) \/ Crash(w)
    \/ \E f \in FindingIds :
          \/ DeleteFinding(f)
          \/ \E v \in Vendors : SetVendor(f, v)
          \/ \E u \in Users, r \in Ids : RemoveFinding(u, r, f)

Spec == Init /\ [][Next]_vars

-----------------------------------------------------------------------------
(* Correctness.                                                            *)

\* The values the tables and the workers' variables range over.
TypeOK ==
    /\ row \in [Ids -> Row]
    /\ researchers \in [Ids -> SUBSET Users]
    /\ findings \in [Ids -> SUBSET FindingIds]
    /\ vendor \in [FindingIds -> Vendors \cup {NoVendor, Deleted}]
    /\ told \in [Ids -> States]
    /\ pc \in [Workers -> Labels]
    /\ actor \in [Workers -> Users \cup {NoUser}]
    /\ target \in [Workers -> Ids \cup {NoId}]
    /\ finding \in [Workers -> FindingIds \cup {NoFinding}]
    /\ mine \in [Workers -> Row]
    /\ goal \in [Workers -> States]
    /\ moved \subseteq Ids \cup FindingIds
    /\ contended \subseteq Ids

\* _set_report_state and the forms: however stale forms and reviews overwrite
\* one another, a report that is approved (so visible and exportable) or
\* rejected carries the name of someone with review authority who did not
\* create it, save for a superadmin.
VerdictNamesReviewer ==
    \A r \in Ids :
        row[r].status \in {"approved", "rejected"} =>
            /\ row[r].reviewedBy \in Authority
            /\ row[r].reviewedBy # row[r].createdBy \/ row[r].reviewedBy \in Superadmins

\* report_reopen: an approved report stays approved until a superadmin
\* re-opens it, unless requests about it overlap or are killed.
ApprovalStands ==
    [][\A r \in Ids \ contended' :
          row[r].status = "approved" /\ row'[r].status # "approved" =>
              row'[r].status = "in_review" /\ row'[r].reviewedBy \in Superadmins]_vars

\* The audit rows tell the status of every report nobody works on, unless
\* requests about it overlapped or were killed.
StatusReconstructable ==
    \A r \in Ids \ contended :
        (\A w \in Workers : target[w] # r) => told[r] = row[r].status

\* report_add_finding, "a report can never reference another client's findings",
\* of every report and finding that never changed client, nor came back after
\* a deletion: whatever requests overlap or are killed, adding, creating and
\* editing a finding in a report never brings another client's finding into it.
NoForeignFindingsUnlessMoved ==
    \A r \in Ids \ moved : \A f \in findings[r] \ moved : vendor[f] = row[r].client
=============================================================================
