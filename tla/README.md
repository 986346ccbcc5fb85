# ZTOps in TLA+

ZTOps is a Django application in which a team of penetration testers records
findings, has them reviewed, and turns them into client reports. Its guarantees
are about people: nobody becomes a superadmin on one person's word, nobody
approves their own finding or report, a passkey is enrolled only through a link
made for its owner, a client's report holds that client's findings.

Each guarantee is decided in a few lines of a view. What makes them hard is
around those lines: requests run in parallel threads and processes, the database
runs in autocommit mode (`ATOMIC_REQUESTS` is not set, no statement uses
`select_for_update`), and a view decides on the row it read and writes later.
Sessions are in a cache, files on a disk, and neither takes part in a
transaction. The modules here take the code apart at exactly those points: every
statement or system call that another request can come between is an action.

## The system

| Component (`src/...`) | State it keeps | Operations | Interacts with |
| --- | --- | --- | --- |
| `apps/approvals` | `SuperAdminApproval` rows | `request_approval`, `approve` with `_execute`, `deny`, `sweep_expired` | handlers of `accounts`, `audit` |
| `apps/accounts` | `User` rows (role, `is_reviewer`) | `user_new`, `create_superadmin_user`, the admin site, `logout_view` | all: roles decide permissions |
| `apps/webauthn_auth` | `EnrollmentToken`, `WebAuthnCredential` rows | `registration_start/finish`, `login_*_usernameless`, `register_superadmin_passkey` | sessions, `accounts` |
| sessions (Django, Redis) | one record per session key | load, save back with the response, rotate, flush | the ceremonies |
| `apps/audit` | append-only rows | `audit()` | called after the writes of all others |
| `apps/findings` | `Finding` rows, collaborators, host links | create, edit, delete, collaborators, four review transitions, two signals | `vendors`, `attachments`, `reports` |
| the form of a new finding (`static/js/embed_image.js` and its views) | the page: finding it is about, text, pending uploads | drop an image, submit, answers, `promoteForm`; `finding_new_upload_image`, `upload_image` | `findings`, `attachments` |
| `apps/reports`: reports | `Report` rows, people, included findings | create, two edit forms, five finding operations, four review moves | `findings`, templates |
| `apps/reports`: templates and lists | `ReportTemplate`, `TemplateSection`, `Annex`, `ScopeCategory` rows | create, edit, remove, move up and down, set default | reports (foreign key) |
| the pages of a report (`static/js/report_autosave.js` and its views) | texts on screen, timers, what the page tells | type, autosave after a pause, submit, leave; `report_autosave`, two edit forms | reports |
| `apps/attachments` | `Attachment` rows; a directory per finding | `upload`, `upload_image`, `delete_attachment`, `download` | `findings` (cascade, signal) |
| `apps/vendors`, `apps/engagements` | plain tables | create, edit, delete | foreign keys |
| `core/security`, rendering, markdown, CVSS | none | pure functions and middleware | - |

What is hard in them, and what makes each correct:

- **approvals**: two decisions on one row, expiry against a decision, a kill
  between a save and its audit row or its handler, accounts edited meanwhile.
  Correct: an account comes only from a request a second superadmin endorsed, a
  row tells who decided it, the log tells no lies, an approved row is settled.
- **webauthn_auth**: a ceremony spans two requests and lives in a session that
  every response writes back whole. Correct: a session is signed in only by a
  credential of that user on a challenge of that browser, a link is burned only
  for a credential, challenges and links are used once, counters do not go back.
- **findings**: full-row saves of stale copies against reviews, deletion against
  edits (a save inserts a deleted row again), signals in autocommit mode.
  Correct: a visible finding carries the name of somebody entitled to show it,
  reporters keep their findings, the log tells the review state from the first
  review on, hosts are the vendor's.
  On a form that has no finding yet, the first image creates it in a request of
  its own; a form that was saved may be come back to and sent again. Correct: one
  page makes one finding, its links lead to its own images, and a refused image
  leaves nothing behind.
- **reports**: the same shape, and the client/vendor agreement between a report
  and its findings, which five views and two forms touch.
- **templates and lists**: orders are read, computed and written back in separate
  statements; the default flag takes two; a template is removed after a look at
  the reports. Correct: a new entry is last, a move exchanges neighbours and
  nothing else moves; there is one default; a used template stays.
- **autosave**: each field is its own request, requests overtake each other, and
  a form writes back columns its page does not show; a long text is cut without
  telling. Correct: what is typed is stored, as far as its cap allows, or the tab
  says it was not; what has settled is what was sent last.
- **attachments**: a row and a file that no transaction joins. Correct: bytes
  match the digest they are named by, a row has its bytes, bytes have a row.

## Modules

| Module | Models | Extended by |
| --- | --- | --- |
| `TwoPersonRule` | the abstract promise of `apps/approvals`: ask, endorse by another, perform | - |
| `Approvals` | `approvals/services.py`, the handler, the account rows, audit rows | `MCApprovals`, `ApprovalsProofs` |
| `Enrollment` | tokens, ceremonies, sessions, counters | `MCEnrollment`, `EnrollmentProofs` |
| `Findings` | finding rows, collaborators, host links, review | `MCFindings`, `FindingsProofs` |
| `Reports` | report rows, people, included findings, review | `MCReports`, `ReportsProofs` |
| `Attachments` | attachment rows, files, open file handles, deletion of a finding | `MCAttachments`, `AttachmentsProofs` |
| `OrderedLists` | the abstract promise of a list people reorder: append, drop, exchange neighbours | - |
| `Ordering` | the order columns of annexes, sections and scope categories | instantiated by `Templates` |
| `Templates` | templates, their default flag, their sections (an instance of `Ordering`), the reports that use them | `MCTemplates`, `TemplatesProofs` |
| `Drafts` | the text columns of a report, the tabs that edit them, autosaves and forms under way | `MCDrafts`, `DraftsProofs` |
| `NewFinding` | the form of a new finding and the images dropped into it | `MCNewFinding`, `NewFindingProofs` |
| `ApprovalsProofs` | theorems about `Approvals` and its refinement of `TwoPersonRule` | - |
| `FindingsProofs`, `ReportsProofs`, `AttachmentsProofs`, `EnrollmentProofs`, `DraftsProofs`, `NewFindingProofs` | theorems about the module each is named after | - |
| `TemplatesProofs` | theorems about `Templates`, and about its instance of `Ordering` with its refinement of `OrderedLists` | - |

Common form: a *worker* is a thread serving one request. `pc[w]` names what it
does next, the other worker variables are what the view holds in local
variables: the user, the row as it read it, the state to set. `Begin...`,
`ReadFor...` or `Take` starts a request with its guards, one action follows per
statement, `Finish` forgets the locals. `Crash(w)` stands for a killed process
and for a statement that raises: the rest is never run, and what was committed
stays. *History* variables (`performed`, `everSuper`, `shared`, `cut`, `moved`,
`contended`, `mishaps`, `issued`, `uses`, `by`, `owed`, `crossed`, `submitted`,
`reporter`) only say what happened, so that a property can tell apart "unless two
requests overlapped" from "always". Two of them are read by a guard: one bound
(see below), and `reporter`, which knows the keys that were given before.

Definitions whose name ends in `_Something` after the name of another, marked
*Variant*, are not part of a specification: they are how that definition would
look with a plausible mistake, and each breaks a property of a run.

### Approvals

`BeginRequest`, `BeginApprove`, `BeginDeny` are the views with
`@superadmin_required`; the user's role is that of the row loaded then. `Issue`
and `AuditIssued` are `request_approval`; `ReadForApprove`, `SaveApproved`,
`AuditApproved` are `approve()`, which goes on in `Execute`, `CreateUser`,
`AuditCreated`, `SaveExecuted` or `SaveFailed`, `AuditExecuted`: `_execute()`
with the handler's two writes. `ReadForDeny`, `SaveDenied`, `AuditDenied` are
`deny()`; `Sweep`, `SaveExpired`, `AuditExpired` are `sweep_expired()` and
`_expire()`. `HandlerRaises` is any other exception of the handler, which
`_execute` records as a failure even when the account was inserted;
`WriteRefused` is a foreign key that fails because an account was deleted.
`CreateRegular`, `EditAccount`, `DeleteAccount`, `RegisterSuperadminPasskey` are
the other code that writes accounts, as far as roles go. `log` is a set: order
and number of rows are left out. `REVOKE_USER` has no registered handler, so a
submission outside `Handled` ends as failed.

### Enrollment

`session[b]` is what the cache holds under the key browser `b` sends, `copy[w]`
the session object of a request, written back by `Respond` as
`SESSION_SAVE_EVERY_REQUEST` asks (`Visit` is any other request of the browser).
`Login` rotates the key, `Logout` flushes the record, and a copy whose key is
gone is not saved. `key` of a request says whether the session it came with is
still the one its browser `sent`, was `deleted`, or goes on under an `other` key, as
after a sign-in until its response names that key; only requests with the key that a
sign-in or sign-out deletes lose their session. What two requests with another key
would share is left out: each of them saves its own copy. The reads a request makes before its first write are one
step; signatures are unforgeable, so a response is a credential, a challenge and
a counter. Refusals by rate limits, `is_active` or `userHandle` change nothing
and are `Refuse` or a request that does not happen. Audit rows are left out.

### Findings

`row[f]` holds the columns that review and permissions depend on. The review
views write three columns of `row`, `SaveEdit` writes the whole copy and inserts
the row again if it was deleted. `AssignReporter` is the `post_save` signal,
`SyncHosts` is `_sync_affected_hosts`, whose vendor is that of the copy;
`hosts[f]` keeps the vendors of the linked hosts. `told[f]` is the review state
the newest audit row tells, "silent" until there is one: `finding_new` writes none,
and a finding starts as `Submitted` by its reporter, approved or pending. Keys are
given once; `reporter[f]` is whom key `f` was given to. `report_create_finding` and `report_edit_finding`
do to a finding what `finding_new` and `finding_edit` do. Roles are fixed;
notes, texts, severity and internal ids are left out.

### Reports

`SaveEdit` and `SaveContent` are the two forms: each writes the whole copy, the
first also the client. `SavePeople` is `save_m2m`; the engagement manager counts
among `researchers`, and `Involved` bounds whom a form names. `ReadForMove`,
`SaveMove`, `AuditMove` are the four review views over `_set_report_state`.
`ReadForAdd`/`Link`, `ReadForCreateFinding`/`InsertFinding`/`Link`,
`ReadForEditFinding`/`UpdateFinding` and `RemoveFinding` are the finding
operations, `SetVendor` and `DeleteFinding` what the finding views do meanwhile.
A finding deleted while `finding_edit` or `report_edit_finding` holds a copy of it
is inserted again by the save. Texts and contacts are left out here.

### Attachments

`file[f]` is the directory of finding `f`: temporary files named after the
upload's name (`Temp`) or the image's digest (`TempBytes`), and blobs. `handle[w]`
is where the file a worker has open is now: a rename moves it, an unlink leaves
it without a path, and what is written then is lost. That is what lets a second
upload write into a file the first has already renamed. `Write` mixes bytes when
somebody else has written or has the file open. `Open`, `Write`, `Place`/`Keep`,
`Clear`, `Look`, `Insert` are `hash_and_store` or `store_bytes` and the view
around them, `RemoveRow`, `Last`, `DeleteBlob` are `delete_attachment`.
Deletion of a finding is one transaction: `DeleteRows` (the cascade, unseen by
others), `Purge` (the finding's row, and the `post_delete` signal that removes
the directory inside the transaction) and `Commit`, which the deferred foreign
key refuses if a row was inserted after the cascade. `Insert` waits for such a
transaction, as the database makes it. Who may upload or delete is left out.

### OrderedLists and Ordering

Annexes of a report, sections of a template and scope categories have a column
`order` and three sets of views that treat it alike, so one module models them,
over `Lists`. `ReadForNew` reads the last order, `ReadForEdit` the row, which
`Save` writes with all its columns (and inserts again when it was removed);
`ReadForMove` reads two neighbours and computes the exchange, with the repair of
equal orders by positions, `Move` is `bulk_update`. `Remove` leaves a gap,
`Cascade` is the deletion of the owner. `request[w]` is what a worker is going to
write. `shared` is history: a list on which requests overlapped, until the last
of them has ended and left no equal orders.

`OrderedLists` knows no numbers: a list is a set of entries and an order relation.
The refinement mapping (`Listings`) reads the order columns as that relation, and
a shared list as `Unknown`. `ImplementsLists` is then the whole promise at once: a
new entry comes last, an exchange concerns neighbours, nothing else is reordered,
and a list is lost only by overlap and found again when its orders differ.

### Templates

The sections are the variables of an instance of `Ordering` with the templates as
lists; a worker is busy with a section (`request[w]`) or with a template or report
(`task[w]`). `ReadTemplate`, `SaveTemplate`, `ClearOthers` are `template_new`,
`template_edit` and the two statements of `ReportTemplate.save`;
`ReadForRemove`, `RemoveTemplate` are `template_remove` with its cascade, one
transaction; `ReadReport`, `SaveReport` the three views that save a report's
template, which the foreign key refuses when it has gone. `Init` is what an
administrator can have made of the seeded templates.

### Drafts

`text[t]` is what tab `t` shows, `timer[t]` its running timers, `failed` the tabs
whose status line tells of a failure. `Type`, `Fire`, `Submit`, `Close` are
`report_autosave.js` and the browser; `Autosave` is the view's UPDATE of one
column; `Read` and `Save` are the edit forms, which write every column of the row
they read. `requests` is a set, so anything overtakes anything; `Lose` is a
request that is lost, refused or killed, and the answer of `Autosave` may be lost
after the row is written. Texts are numbers, in the order they were typed; of a
text in `Long` an autosave stores what the cap of its field leaves (`Cut`), a number of
its own, and answers as always, while a form stores it whole (`Stored`). `owed`
is history: what the latest request for a column is to leave.

### NewFinding

One page and its requests. `DropImage` is `dispatchUpload`: without a finding it
sends the whole form, else the image alone. `BeginCreate` and `CommitCreate` are
the transaction of `finding_new_upload_image`, `Answer` is `promoteForm` (`Promote`)
and `replaceOnce`: the form is submitted to `target`, images are sent to `uploads`,
and a second answer changes only the former. `Submit`, `Save`, `Rerender` and
`Redirected` are the form, valid or not. `Save` commits; that the request fails
afterwards, that its answer is lost, or that the user does not wait for it, is
`GoBack`: the form is there again as it was sent (`Reopen`), while the request goes
on. The text of a form is what it says of each image. `Refuse` is any failure before
the COMMIT, `LoseAnswer` one after it.

## Runs

| Run | Question | Instance |
| --- | --- | --- |
| `approvals_overlap` | does the two-person rule hold, is every decision named, does the log tell the truth, does `approve()` settle its row, under overlap, expiry, account edits and a kill? | 1 founder, a second account that is created, promoted, demoted and deleted, a new user, 1 request, 2 workers, one of which may be killed |
| `approvals_serial` | do rows follow the documented flow and leave a complete audit trail, when calls come one after another? | 3 requests (two for one address, one without handler), 1 worker |
| `approvals_overwrite` | *violated*: are terminal states final? | 3 founders, 2 workers |
| `findings_overlap` | what survives two requests on one finding? | reporter, reviewer, superadmin; 2 vendors, 2 workers, kills |
| `findings_reopen` | *violated*: do only superadmins re-open decided findings? | 1 worker |
| `enrollment_overlap` | who ends up signed in, which links and challenges are used up? | 1 user, 1 token, 2 browsers, 2 credentials, 2 workers, kills |
| `reports_overlap` | what survives two requests on one report? | creator, reviewer, superadmin; 1 finding, 2 vendors, 2 workers, kills |
| `templates_overlap` | do sections stay in the order people gave them, is there one default template, does a report keep its template? | 2 templates, 3 sections, 1 report, 2 workers, kills |
| `drafts_overlap` | is what people type stored, or are they told? | 2 tabs, forms of 2 and 1 fields, 2 texts, one of which is too long for a field, 1 submitted form under way |
| `newfinding_overlap` | how many findings does a page make, where do its links lead, what does a refusal leave? | 3 images, 3 keys, 2 submitted forms under way, one of which was come back to |
| `attachments_overlap` | which promises about rows and bytes survive which overlap? | 1 finding, 2 names, 2 contents, 3 rows, 2 workers, one kill |
| `attachments_names` | *violated*: are bytes stored under their digest? | the same |

What the passing runs show:

- `EndorsedBySecondSuperadmin`, `ImplementsRule`: the two-person rule survives
  everything modelled. The rule speaks of users who *have held* the role: a
  demotion between the read of the user and the save is not seen by the code.
- `AuditNeverLies`, `DecisionOnRecord`, `ExecutedMeansCreated`,
  `ExpiredOnlyAfterDeadline`: rows and log stay truthful even where decisions
  overwrite one another. `AuditTrailComplete` and `FollowsLifecycle` hold only
  for calls that do not overlap, and are checked and proved there.
- `ApprovedSettles` holds for a worker that is not killed. A killed one leaves
  its row in `approved`, where no later call and no sweep picks it up.
- `VerdictNamesAuthority`, `VerdictNamesReviewer`: no overlap of stale saves and
  reviews makes a finding or report look reviewed without an entitled name.
  `ReporterCanEdit`, `ReporterKept`: nor does it take a finding from its reporter,
  not even when a save brings back a row that was deleted.
- `ReviewReconstructable`: the review state follows from the newest audit row, or,
  for a finding no row is about, from who reported it (`Logged`): the log alone does
  not tell the state of a finding that was never reviewed.
- `ReviewReconstructable`, `StatusReconstructable`, `ApprovalStands`,
  `HostsMatchVendorUnlessShared`, `NoForeignFindingsUnlessMoved`,
  `OneShotUnlessContended`, `ChallengeUsedOnce`, `CounterNeverBack` hold except
  in a named situation (an overlap, a kill, a change of client). The exception is
  part of the statement because without it the code violates it: overlapping
  edits link another vendor's hosts, one link registers two passkeys when two
  requests with it overlap, and editing a report's client leaves another
  client's findings in it.
- `SignedInByOwnCredential`, `UsedTokenRegistered` hold under every overlap.
- `BlobsMatchNamesUnlessCollided` excepts only uploads that share a temporary
  file; `RowsHaveBytes`, which says that there is a file and not whose bytes are in
  it, only removals and deletions that overlap something or are rolled back after
  the directory is gone; `NoBytesLeft` those and kills;
  `AttachedOnce` only overlapping uploads of the same bytes.
- `ImplementsLists`: gaps, equal orders and their repair keep a list in the order
  people gave it; overlapping requests lose it until a move repairs it.
- `AtMostOneDefault`, `DefaultKept`: the two statements of a save leave a second
  default only while one is under way or after a kill, and none only when two
  saves cleared each other. `TemplateKeptUnlessMet`: the look at the reports
  before the removal protects them except from a save that overlaps it.
- `TypedIsStoredOrTold` (liveness): a typed text is stored, whole or cut at the
  cap, or its tab says that it was not, or it is typed over or left. The cut is
  silent: the page says "Saved", and only submitting the form stores the whole
  text. `SettledTextStored`: what nothing is under way for is what was sent last,
  of an autosave what the cap leaves, except after overlaps, in which an older
  autosave or another form's save wins and nobody is told.
- `OneFindingUnlessCrossed`, `LinksLeadHome`: one page makes one finding, also when
  its form is sent again, unless it sends something before the answer that tells it
  the finding, that answer is lost, or the user goes back to a form without a finding
  that may have been saved. `finding_new` commits before it answers, so in the last
  case there are two findings. `NoPhantom`: a rejected image never leaves a finding.

What the violated ones show (`findings` in `PROJECT.json` quotes code and text):
two decisions on one approval overwrite a terminal state; any reviewer re-opens a
decided finding; two uploads of one file name share a temporary file.

### Bounds

- *One row under contention* (request, finding, report, directory): actions on
  different rows share no variable but the accounts and the log, whose entries
  carry the row's id. `approvals_serial` has three rows because an address ties
  them together.
- *Two workers*: each overlap property is about what one request does between
  two steps of another; a third worker repeats a role one of the two can play
  when it is done, since a worker takes one request after another.
- *Users*: one per role the guards tell apart, plus a second superadmin.
- *Clock* (`MaxClock`, `TTL` = 1): before and after the deadline.
- `MaxChallenge` = 2, `MaxCount` = 1: a stale and a fresh challenge; counters that
  stay 0, advance, and repeat.
- `Room` (attachments) refuses an upload when the keys would run out; three keys
  allow a pair of equal rows and one more. `NoneKilled` allows one kill at a
  finding, whose leftover file later uploads meet.
- `Editable` and `Faulty` bound who is edited and who is killed.
- Three sections: an entry between two neighbours, or a third that has the order a
  removed one left. Keys are not given twice, so a run sees three creations.
- A key of a finding is given once: with one key a run sees one finding created,
  edited, reviewed, deleted and brought back by a stale copy, after which nothing is
  left to do.
- `MaxVersion` = 2 and `MaxSubmits` = 1 (drafts): an older and a newer text, in one or
  two columns, and a form against autosaves of both tabs. Which text is too long
  matters only to an autosave of it; there is one such text for one field.
- Three images: one that creates, one that crosses it, one that finds the page
  promoted; three keys, so that images and a form can make a finding each.
  `MaxSubmits` = 2 forms under way, one of which is waited for: a form is come back
  to before it was handled and after, and two submissions of it overlap.

Symmetry is used only for sets whose members no action tells apart, and not in
runs with a liveness property. `CHECK_DEADLOCK FALSE` stands where the bounds
(no request, token or challenge left) let the system stop. Killed workers are
the only way for a request not to finish otherwise.

### Fairness

Two specifications state any.

`FairSpec` of `Approvals`: weak fairness of each worker's next step. The thread
that serves a request runs on unless it is killed, and no step of it waits for
another worker. Nothing is assumed of users starting requests, of kills, of the
clock, or of `sweep_expired`, which nothing in the source calls outside the
tests. So no property says that a pending request expires.

`Spec` of `Drafts`: weak fairness of each field's timer (`setTimeout` fires while
the page is open) and of the answer to each tab's autosave of a field, where the
answer may be that there is none: `fetch` settles with a response or an error.
Nothing is assumed of people, nor that any request succeeds.

## Proofs

Each theorem holds for all values of the constants that satisfy the assumption
its module names; each is stated on the specification TLC runs. The argument is
always an inductive invariant (`IInv` where it has no name of its own) that says
what the properties leave out: what a worker knows between two of its statements.

| Module | From | Theorems: property |
| --- | --- | --- |
| `ApprovalsProofs` | `ApprovalsAssumption` | `Invariant`; `TypeCorrect`; `SecondSuperadmin`: `EndorsedBySecondSuperadmin`; `NamesKept`: `DecisionOnRecord`; `ExecutedCreated`: `ExecutedMeansCreated`; `NoEarlyExpiry`: `ExpiredOnlyAfterDeadline`; `AuditTruthful`: `AuditNeverLies`; `Refinement`: `ImplementsRule`. With one worker: `SerialLifecycle`: `FollowsLifecycle`; `SerialTerminal`: `TerminalIsFinal`; and, not killed, `SerialTrail`: `AuditTrailComplete` |
| `FindingsProofs` | `FindingsAssumption` | `Invariant`; `TypeCorrect`; `VerdictsNamed`: `VerdictNamesAuthority`; `ReporterStays`: `ReporterKept`; `ReporterEdits`: `ReporterCanEdit`; `ReviewTold`: `ReviewReconstructable`; `HostsMatch`: `HostsMatchVendorUnlessShared` |
| `ReportsProofs` | `ReportsAssumption` | `Invariant`; `TypeCorrect`; `VerdictsNamed`: `VerdictNamesReviewer`; `StatusTold`: `StatusReconstructable`; `ApprovalsStand`: `ApprovalStands`; `NoForeignFindings`: `NoForeignFindingsUnlessMoved` |
| `AttachmentsProofs` | `AttachmentsAssumption` | `Invariant`; `TypeCorrect`: `TypeOK`; `BlobsMatch`: `BlobsMatchNamesUnlessCollided`; `BytesKept`: `RowsHaveBytes`; `NothingLeft`: `NoBytesLeft`; `AttachedAtMostOnce`: `AttachedOnce` |
| `TemplatesProofs` | `TemplatesAssumption` | of `Ordering`: `ListsInvariant`; `ListsTyped`; `ListsRefine`. Of `Templates`: `Invariant`; `TypeCorrect`; `DefaultUnique`: `AtMostOneDefault`; `DefaultStays`: `DefaultKept`; `TemplateStays`: `TemplateKeptUnlessMet`; `SectionsRefine`: `ImplementsLists` |
| `EnrollmentProofs` | `EnrollmentAssumption` | `Invariant`; `SeparateInvariant`; `TypeCorrect`: `TypeOK`; `SignedIn`: `SignedInByOwnCredential`; `UsedRegistered`: `UsedTokenRegistered`; `OneCredential`: `OneShotUnlessContended`; `OneUse`: `ChallengeUsedOnce`; `CounterForward`: `CounterNeverBack` |
| `NewFindingProofs` | `NewFindingAssumption` | `Invariant`; `TypeCorrect`: `TypeOK`; `NoPhantoms`: `NoPhantom`; `OneFinding`: `OneFindingUnlessCrossed`; `LinksHome`: `LinksLeadHome` |
| `DraftsProofs` | `DraftsAssumption` | `Invariant`; `TypeCorrect`: `TypeOK`; `Settled`: `SettledTextStored` |

**Approvals.** The properties are about rows and log and are not inductive: that
`SaveExecuted` may write "executed" depends on what this worker did three steps
ago, and on nobody having taken it back. `IInv` adds what each worker knows at
each label (`WorkerInv`: past `SaveApproved` the row names an approver who is not
the asker; past `CreateUser` the request is performed), that those facts are
stable under the other workers' writes (`RowInv`: names are set and replaced,
never cleared), that no two workers insert one row (`IssueInv`), and that log
entries are about inserted rows (`LogInv`). Stability is the point: the state
column can be overwritten by anyone, the facts the proof uses cannot. `RuleStep`
shows that `Issue`, `SaveApproved`, `CreateUser` and the account edits are
`Ask`, `Endorse`, `Perform`, `Appoint` or stutters, and everything else a stutter.

What overlap takes away is proved where there is none: for `Workers = {w}`, any
number of users and requests, and account edits in between. `SoloInv` says that the
state a guard read is still the state of the row when the worker writes, for each
row of a sweep's batch too. With it every write follows the flow (`SerialLifecycle`)
and none touches a terminal row (`SerialTerminal`), also when the worker may be
killed: two workers violate the latter (`approvals_overwrite`). `SerialTrail` needs
a worker that is not killed either. `TrailInv` says what the log holds at each label:
the trail of every row, less what the worker has yet to write about the row it is on.

**Findings.** A verdict is saved long after it was allowed, over a row others have
edited, deleted and brought back from a stale copy, so that the row is sound says
too little. `OriginInv` says that every row, and every copy that may be inserted again,
names the reporter its key was given to, which is `ReporterKept`. `IInv` adds that every copy an edit is about to save is sound
(`EditInv`), that a verdict about to be saved is by someone entitled to it
whichever copy is written before it (`ReviewInv`), and what both rest on: the row
and all copies of a finding name one reporter. `Elsewhere` is the lemma for the
steps that leave the rows alone. Two more invariants rest on it. `AssignInv`: a
request about to add the reporter has the reporter of the row, and of every copy that
may be inserted again, so that `ReporterCanEdit` is inductive. `Alone`: of a finding
no two requests share, what a request has read is what the row says (`Current`), and
log and links suit the row or a request is about to see to it; `AboutStep` carries
that through any step of one worker on one finding.

**Reports.** Two arguments in one invariant. `Rows` and `Jobs` hold under any
overlap, as for findings. `Contention` is about requests that have their report to
themselves: what they have read is what the table says (`Current`), and two
requests on one report are both on record in `contended`. `DoesStep` is the lemma
that carries both through any step of one worker on one report, so that each
action shows only what it does (`Does`) and what it leaves its worker with
(`Leaves`). `Clients` adds what the finding operations hold: a finding about to be
inserted has no row and one request, one about to be linked has the client's
vendor unless someone changed it.

**Attachments.** The properties are about rows and files; what keeps them is where each
worker's file is and who else is at the finding. `Duties` holds under any overlap: an
open file is where `handle` says, through other workers' renames and removals, a row
about to be removed is the one that was read or is gone, and a row a transaction has
deleted is there for the others until its COMMIT. The rest is per finding, each part
under the overlap it excepts: `Sole` (no shared temporary file: each upload finds there
its own bytes or nothing, so that a blob gets the right ones), `Once` (no overlapping
uploads of the same bytes: who is about to insert has looked and nobody can have
inserted since), `Apart` (nothing overlaps a removal or deletion: what it has seen is
still so), `Kept` (bytes before their row, row before its bytes) and `Owned` (every file
is the blob of a row, or some worker's to place or remove, `Mine`). A step of one worker
on one finding says nothing about the other findings (`Elsewhere`); `OnceStep`,
`SoleStep`, `ApartStep`, `KeptStep`, `OwnedStep` and `DutiesStep` state what each part
asks of a step, so that each action shows only what it does and that it does that.

**Ordering.** A request writes numbers computed from rows it read. `Homes` says
that entry and request agree on the list, under any overlap. `Settled` says that in
a list that is not shared orders differ and the one request under way `Fits`: it
saves an entry as it is, adds one beyond the last, or exchanges two orders with
nothing between them. From there each step maps to one of `OrderedLists`: a save to
`Append` or a stutter, a move to `Exchange`, a removal to `Drop`, a cascade to
`Empty`, and the beginning or end of an overlap to `Lose` or `Settle`, where the
listing has to be shown to be an order (`IsOrder`).

**Templates.** `Clearing` says that, unless a default was dropped, the template of a
request about to clear still has its flag, and there is one such request;
`Meeting` that a template about to be removed which a report uses, or is about
to, was met by that report's request. `SectionsRefine` needs no second proof about lists:
every step of `Templates` is, for the sections, a step of `Ordering` or none
(`SectionsSpec`), and the theorems about the lists are stated of the instance.

**Enrollment.** `Bound` holds under any overlap: every session, in the cache or in a
request's hands, is `Fair` to its browser, that is, has only challenges issued to it
and only a user whose credential answered one; every worker has what its next
statements need (`Task`). Nothing it rests on is ever undone (`Grows`), so saving
sessions over one another does no harm (`BoundStep`). `Separate` is about tokens,
browsers and credentials that are not `contended`: requests about the same one have
marked it (`Apart`), a credential's token is used or about to be (`OneShot`), no
worker saves or answers a challenge that has been answered, and a session holds such
a challenge only until its request has responded (`Once`), a counter about to be
saved has been checked against the row (`Counters`). Without the clause about
sessions `ChallengeUsedOnce` is not inductive: a popped challenge is still in the
cache while its request runs.

**NewFinding.** Keys in requests, page and texts are those of findings or of one open
transaction, which has its key alone (`Keys`), links lead to attached images
(`Texts`), answers are about attached images (`Uploads`): that gives `NoPhantom`
whatever crosses. `Single` is a second invariant, for pages on which nothing crossed.
Page, requests and table know one key at most. Who creates a finding, an image
(`SingleCreates`) or a form (`SingleSubmits`), is alone, and there is none yet. Of the
forms under way one at most is waited for, and all others are about a finding. An open
page sends form and images to the same finding, if there is one (`SinglePage`).

**Drafts.** `Orderly` says of a column whose requests did not overlap that one request
at most carries it, that the request leaves the text that is owed, cut if it is an
autosave of a long one, and that every full-row copy of the column is current: that is
why writing it back is harmless. `Awaited` is what lets a
page that is left orphan its autosaves.

Model-checked only:

- `ApprovedSettles` and `TypedIsStoredOrTold`: liveness is beyond the prover.

## Not modelled

- Rendering of reports, markdown, CVSS arithmetic, display names: conversions of
  text; what they promise is about characters.
- `core/security` and settings: stateless middleware, and rate-limit counters of a
  library. A limited request is one that does not happen.
- `vendors`, `engagements`: tables without behaviour of their own. That deleting a
  vendor with reports ends in an unhandled `ProtectedError` (`vendors/views.py:123`)
  is one statement that the database refuses.
- The dashboard, list filters, exports, notes, profile: they read, or write one
  column nobody decides on.
- Autosave of annexes and findings: the same view on other tables, whose forms save
  the same way as those of reports.
- Two images of one file name in one form: their placeholders are equal text and
  are replaced in the order of the answers.
- Files behind the image of a new finding: `Attachments` models how bytes are
  stored; in `NewFinding` an attachment is there or not.

## Order of construction

The most important guarantee first, each with its proofs where they are in reach:
`Approvals` with `TwoPersonRule`; `Findings`; `Enrollment`; `Reports`;
`Attachments`; `Ordering` with `OrderedLists` and `Templates`; `Drafts`;
`NewFinding`. What a continuation could add is a shared abstract review machine for
`Findings` and `Reports` without overlap.
