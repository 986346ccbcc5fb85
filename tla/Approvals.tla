----------------------------- MODULE Approvals -----------------------------
(***************************************************************************)
(* The two-person rule of apps/approvals, with the one handler the code    *)
(* registers (apps/accounts/handlers.py) and the account rows it works on. *)
(*                                                                         *)
(* A worker is one thread serving one web request, or one call of          *)
(* sweep_expired().  Django runs in autocommit mode: every SELECT, INSERT  *)
(* and UPDATE is a step of its own, and other workers run between any two. *)
(* No statement locks a row, so a worker decides on the row it read and    *)
(* writes by primary key whatever the row holds by then.                   *)
(***************************************************************************)
EXTENDS Naturals, FiniteSets

CONSTANTS
    Users,      \* e-mail addresses; a user row exists while role[u] # "none"
    Founders,   \* the superadmins present from the start
    Editable,   \* the accounts other code may create, edit or delete
    Requests,   \* submissions of the form, one approval row each
    Email,      \* [Requests -> Users], the payload
    Handled,    \* the submissions whose action has a registered handler
    Workers,
    Faulty,     \* the workers that may be killed or lose the database
    TTL,        \* DEFAULT_TTL_SECONDS, in ticks of the clock
    MaxClock,   \* bound on the clock
    NoUser, NoRequest

ASSUME ApprovalsAssumption ==
    /\ Founders \subseteq Users
    /\ Editable \subseteq Users
    /\ Email \in [Requests -> Users]
    /\ Handled \subseteq Requests
    /\ Faulty \subseteq Workers
    /\ TTL \in Nat /\ MaxClock \in Nat
    /\ NoUser \notin Users /\ NoRequest \notin Requests
    /\ Requests \cap Users = {}  \* an audit row's target_type tells them apart

VARIABLES
    role,       \* the user rows: role[u] \in Roles
    row,        \* the SuperAdminApproval rows
    log,        \* the audit rows, up to their number, text and time
    clock,      \* timezone.now()
    pc,         \* what a worker does next
    actor,      \* request.user, loaded when the request started
    target,     \* the approval a worker is working on
    batch,      \* approvals a worker has selected for expiry
    performed,  \* history: submissions whose handler created the account
    everSuper   \* history: users who have held the superadmin role

dbVars == <<role, row, log, clock>>
history == <<performed, everSuper>>
workerVars == <<pc, actor, target, batch>>
vars == <<role, row, log, clock, pc, actor, target, batch, performed, everSuper>>

-----------------------------------------------------------------------------
(* Data.                                                                   *)

Roles == {"none", "regular", "superadmin"}

\* "absent" is a row not yet inserted; the others are ApprovalState.
States == {"absent", "pending", "approved", "denied", "executed", "expired", "failed"}

\* TERMINAL_STATES
Terminal == {"denied", "executed", "expired", "failed"}

Row == [state : States, requestedBy : Users \cup {NoUser},
        approvedBy : Users \cup {NoUser}, deniedBy : Users \cup {NoUser},
        expiresAt : Nat]

NoRow == [state |-> "absent", requestedBy |-> NoUser, approvedBy |-> NoUser,
          deniedBy |-> NoUser, expiresAt |-> 0]

Events == {"requested", "approved", "denied", "expired", "executed", "failed",
           "user_created_via_approval", "user_created_direct",
           "role_granted", "token_issued"}

Entry(event, about, by) == [event |-> event, about |-> about, by |-> by]

Labels == {"idle", "issue", "issued", "approve", "approving", "approved",
           "execute", "create", "created", "executing", "executed",
           "failing", "failed", "deny", "denying", "denied",
           "expiring", "expired"}

Init ==
    /\ role = [u \in Users |-> IF u \in Founders THEN "superadmin" ELSE "none"]
    /\ row = [r \in Requests |-> NoRow]
    /\ log = {}
    /\ clock = 0
    /\ pc = [w \in Workers |-> "idle"]
    /\ actor = [w \in Workers |-> NoUser]
    /\ target = [w \in Workers |-> NoRequest]
    /\ batch = [w \in Workers |-> {}]
    /\ performed = {}
    /\ everSuper = Founders

-----------------------------------------------------------------------------
(* Moving a worker, and writing.                                           *)

Goto(w, label) ==
    /\ pc' = [pc EXCEPT ![w] = label]
    /\ UNCHANGED <<actor, target, batch>>

Finish(w) ==
    /\ pc' = [pc EXCEPT ![w] = "idle"]
    /\ actor' = [actor EXCEPT ![w] = NoUser]
    /\ target' = [target EXCEPT ![w] = NoRequest]
    /\ batch' = [batch EXCEPT ![w] = {}]

\* audit(): one INSERT, never an UPDATE or a DELETE.
Audit(event, about, by) == log' = log \cup {Entry(event, about, by)}

IsSuperadmin(u) == role[u] = "superadmin"
Exists(u) == role[u] # "none"

\* The foreign keys to the user table and the two CHECK constraints.
DatabaseAccepts(new) ==
    /\ \A u \in {new.requestedBy, new.approvedBy, new.deniedBy} \ {NoUser} : Exists(u)
    /\ new.approvedBy # new.requestedBy
    /\ new.deniedBy # new.requestedBy

\* An UPDATE or INSERT of approval r by worker w, and what w does next.
Save(w, r, new, label) ==
    /\ DatabaseAccepts(new)
    /\ row' = [row EXCEPT ![r] = new]
    /\ Goto(w, label)
    /\ UNCHANGED <<role, log, clock, performed, everSuper>>

-----------------------------------------------------------------------------
(* Guards of the service functions, on the row just read.                  *)

\* has_expired
HasExpired(r) == row[r].expiresAt <= clock

\* _ensure_not_self
NotSelf(u, r) == row[r].requestedBy # u

\* Variant: the check is dropped.
Pending_Unchecked(r) == row[r].state # "absent"

\* _ensure_pending
Pending(r) == row[r].state = "pending"

\* The guards approve() and deny() share; _require_superadmin reads the user
\* row loaded by Begin and passes whenever Begin did.
Actionable(w) == NotSelf(actor[w], target[w]) /\ Pending(target[w])

-----------------------------------------------------------------------------
(* Requests.                                                               *)

\* Variant: the decorator only asks for an account.
Authorised_AnyAccount(u) == Exists(u)

\* superadmin_required: the user row is loaded once, here.
Authorised(u) == IsSuperadmin(u)

\* UserCreateForm.clean_email
FormValid(r) == r \in Handled => ~Exists(Email[r])

Begin(w, u, r, label) ==
    /\ pc[w] = "idle"
    /\ Authorised(u)
    /\ pc' = [pc EXCEPT ![w] = label]
    /\ actor' = [actor EXCEPT ![w] = u]
    /\ target' = [target EXCEPT ![w] = r]
    /\ UNCHANGED <<dbVars, batch, history>>

\* user_new with role superadmin, up to request_approval().
BeginRequest(w, u, r) ==
    /\ row[r].state = "absent"
    /\ \A x \in Workers : target[x] # r
    /\ FormValid(r)
    /\ Begin(w, u, r, "issue")

BeginApprove(w, u, r) == row[r].state # "absent" /\ Begin(w, u, r, "approve")

BeginDeny(w, u, r) == row[r].state # "absent" /\ Begin(w, u, r, "deny")

\* SuperAdminApproval.issue
Issue(w) ==
    /\ pc[w] = "issue"
    /\ Save(w, target[w],
            [NoRow EXCEPT !.state = "pending", !.requestedBy = actor[w],
                          !.expiresAt = clock + TTL],
            "issued")

\* APPROVAL_REQUESTED
AuditIssued(w) ==
    /\ pc[w] = "issued"
    /\ Audit("requested", target[w], actor[w])
    /\ Finish(w)
    /\ UNCHANGED <<role, row, clock, history>>

-----------------------------------------------------------------------------
(* approve()                                                               *)

\* Variant: the handler runs before the approval is saved.
ReadForApprove_HandlerFirst(w) ==
    /\ pc[w] = "approve"
    /\ Goto(w, "execute")
    /\ UNCHANGED <<dbVars, history>>

\* The SELECT of approve_view and the guards of approve().
ReadForApprove(w) ==
    /\ pc[w] = "approve"
    /\ \/ /\ Actionable(w) /\ ~HasExpired(target[w])
          /\ Goto(w, "approving")
       \/ /\ Actionable(w) /\ HasExpired(target[w])
          /\ pc' = [pc EXCEPT ![w] = "expiring"]
          /\ batch' = [batch EXCEPT ![w] = {target[w]}]
          /\ UNCHANGED <<actor, target>>
       \/ ~Actionable(w) /\ Finish(w)
    /\ UNCHANGED <<dbVars, history>>

\* Variant: approved_by is missing from update_fields.
SaveApproved_NoName(w) ==
    /\ pc[w] = "approving"
    /\ Save(w, target[w], [row[target[w]] EXCEPT !.state = "approved"], "approved")

\* UPDATE state, approved_by, approved_at.
SaveApproved(w) ==
    /\ pc[w] = "approving"
    /\ Save(w, target[w],
            [row[target[w]] EXCEPT !.state = "approved", !.approvedBy = actor[w]],
            "approved")

\* Variant: the handler is not called.
AuditApproved_NoExecute(w) ==
    /\ pc[w] = "approved"
    /\ Audit("approved", target[w], actor[w])
    /\ Finish(w)
    /\ UNCHANGED <<role, row, clock, history>>

\* APPROVAL_APPROVED
AuditApproved(w) ==
    /\ pc[w] = "approved"
    /\ Audit("approved", target[w], actor[w])
    /\ Goto(w, "execute")
    /\ UNCHANGED <<role, row, clock, history>>

\* Variant: a handler that refuses is taken for one that succeeded.
Execute_Swallows(w) ==
    /\ pc[w] = "execute"
    /\ Goto(w, IF target[w] \notin Handled THEN "failing"
               ELSE IF Exists(Email[target[w]]) THEN "executing" ELSE "create")
    /\ UNCHANGED <<dbVars, history>>

\* _execute: the registry lookup, and the handler's test whether the address
\* is taken, which raises.
Execute(w) ==
    /\ pc[w] = "execute"
    /\ IF target[w] \in Handled /\ ~Exists(Email[target[w]])
       THEN Goto(w, "create")
       ELSE Goto(w, "failing")
    /\ UNCHANGED <<dbVars, history>>

\* The handler's INSERT; the unique index on email refuses a second one.
CreateUser(w) ==
    LET e == Email[target[w]] IN
    /\ pc[w] = "create"
    /\ \/ /\ ~Exists(e)
          /\ role' = [role EXCEPT ![e] = "superadmin"]
          /\ performed' = performed \cup {target[w]}
          /\ everSuper' = everSuper \cup {e}
          /\ Goto(w, "created")
       \/ /\ Exists(e)
          /\ Goto(w, "failing")
          /\ UNCHANGED <<role, history>>
    /\ UNCHANGED <<row, log, clock>>

\* USER_CREATED
AuditCreated(w) ==
    /\ pc[w] = "created"
    /\ Audit("user_created_via_approval", Email[target[w]], NoUser)
    /\ Goto(w, "executing")
    /\ UNCHANGED <<role, row, clock, history>>

\* UPDATE state, executed_at, or state, execution_error.
SaveExecuted(w) ==
    /\ pc[w] = "executing"
    /\ Save(w, target[w], [row[target[w]] EXCEPT !.state = "executed"], "executed")

SaveFailed(w) ==
    /\ pc[w] = "failing"
    /\ Save(w, target[w], [row[target[w]] EXCEPT !.state = "failed"], "failed")

\* Variant: the outcome of the handler is not looked at.
AuditExecuted_OneOutcome(w) ==
    /\ pc[w] \in {"executed", "failed"}
    /\ Audit("executed", target[w], NoUser)
    /\ Finish(w)
    /\ UNCHANGED <<role, row, clock, history>>

\* APPROVAL_EXECUTED, with its outcome.
AuditExecuted(w) ==
    /\ pc[w] \in {"executed", "failed"}
    /\ Audit(pc[w], target[w], NoUser)
    /\ Finish(w)
    /\ UNCHANGED <<role, row, clock, history>>

-----------------------------------------------------------------------------
(* deny()                                                                  *)

\* Variant: the audit row is written before the decision.
ReadForDeny_AuditFirst(w) ==
    /\ pc[w] = "deny"
    /\ Actionable(w) /\ Goto(w, "denying")
    /\ Audit("denied", target[w], actor[w])
    /\ UNCHANGED <<role, row, clock, history>>

\* The SELECT of deny_view and the guards of deny(), the empty reason among
\* the refusals.
ReadForDeny(w) ==
    /\ pc[w] = "deny"
    /\ \/ Actionable(w) /\ Goto(w, "denying")
       \/ Finish(w)
    /\ UNCHANGED <<dbVars, history>>

\* UPDATE state, denied_by, denied_at, denied_reason.
SaveDenied(w) ==
    /\ pc[w] = "denying"
    /\ Save(w, target[w],
            [row[target[w]] EXCEPT !.state = "denied", !.deniedBy = actor[w]],
            "denied")

\* APPROVAL_DENIED
AuditDenied(w) ==
    /\ pc[w] = "denied"
    /\ Audit("denied", target[w], actor[w])
    /\ Finish(w)
    /\ UNCHANGED <<role, row, clock, history>>

-----------------------------------------------------------------------------
(* Expiry.                                                                 *)

\* Variant: the filter on expires_at is missing.
Sweep_AllPending(w) ==
    /\ pc[w] = "idle"
    /\ \E r \in Requests : Pending(r)
    /\ pc' = [pc EXCEPT ![w] = "expiring"]
    /\ batch' = [batch EXCEPT ![w] = {r \in Requests : Pending(r)}]
    /\ UNCHANGED <<dbVars, actor, target, history>>

\* sweep_expired: the SELECT.
Sweep(w) ==
    LET due == {r \in Requests : Pending(r) /\ HasExpired(r)} IN
    /\ pc[w] = "idle"
    /\ due # {}
    /\ pc' = [pc EXCEPT ![w] = "expiring"]
    /\ batch' = [batch EXCEPT ![w] = due]
    /\ UNCHANGED <<dbVars, actor, target, history>>

\* _expire: UPDATE state.
SaveExpired(w) ==
    /\ pc[w] = "expiring"
    /\ \E r \in batch[w] :
          /\ row' = [row EXCEPT ![r].state = "expired"]
          /\ target' = [target EXCEPT ![w] = r]
          /\ batch' = [batch EXCEPT ![w] = @ \ {r}]
    /\ pc' = [pc EXCEPT ![w] = "expired"]
    /\ UNCHANGED <<role, log, clock, actor, history>>

\* APPROVAL_EXPIRED; then the next candidate, or the end of the call.
AuditExpired(w) ==
    /\ pc[w] = "expired"
    /\ Audit("expired", target[w], NoUser)
    /\ IF batch[w] = {} THEN Finish(w) ELSE Goto(w, "expiring")
    /\ UNCHANGED <<role, row, clock, history>>

-----------------------------------------------------------------------------
(* Failures.                                                               *)

\* A statement the database refuses ends the request with an error page:
\* the acting user's row was deleted meanwhile.
WriteRefused(w) ==
    /\ pc[w] \in {"issue", "approving", "denying"}
    /\ ~Exists(actor[w])
    /\ Finish(w)
    /\ UNCHANGED <<dbVars, history>>

\* Any exception of the handler is caught and recorded as a failure, one
\* raised after its INSERT included.
HandlerRaises(w) ==
    /\ w \in Faulty
    /\ pc[w] \in {"create", "created"}
    /\ Goto(w, "failing")
    /\ UNCHANGED <<dbVars, history>>

\* The process is killed, or a statement fails: the rest is never run.
Crash(w) ==
    /\ w \in Faulty
    /\ pc[w] # "idle"
    /\ Finish(w)
    /\ UNCHANGED <<dbVars, history>>

-----------------------------------------------------------------------------
(* The account rows, as the rest of the application changes them.          *)

\* user_new with role regular: the INSERT and its audit row.
CreateRegular(u, v) ==
    /\ Authorised(u) /\ ~Exists(v)
    /\ role' = [role EXCEPT ![v] = "regular"]
    /\ Audit("user_created_direct", v, u)
    /\ UNCHANGED <<row, clock, workerVars, history>>

\* UserAdmin, the change form.  "regular" stands for every account without
\* the role's authority, a deactivated superadmin included.
EditAccount(u, v, new) ==
    /\ Authorised(u) /\ Exists(v) /\ role[v] # new
    /\ role' = [role EXCEPT ![v] = new]
    /\ everSuper' = IF new = "superadmin" THEN everSuper \cup {v} ELSE everSuper
    /\ UNCHANGED <<row, log, clock, workerVars, performed>>

\* UserAdmin, the delete action; on_delete=PROTECT on the approval rows.
DeleteAccount(u, v) ==
    /\ Authorised(u) /\ Exists(v)
    /\ \A r \in Requests :
          v \notin {row[r].requestedBy, row[r].approvedBy, row[r].deniedBy}
    /\ role' = [role EXCEPT ![v] = "none"]
    /\ UNCHANGED <<row, log, clock, workerVars, history>>

\* The command register_superadmin_passkey, creating or elevating.
RegisterSuperadminPasskey(v) ==
    /\ ~IsSuperadmin(v)
    /\ role' = [role EXCEPT ![v] = "superadmin"]
    /\ everSuper' = everSuper \cup {v}
    /\ log' = log \cup {Entry("token_issued", v, NoUser)}
                  \cup IF Exists(v) THEN {Entry("role_granted", v, NoUser)} ELSE {}
    /\ UNCHANGED <<row, clock, workerVars, performed>>

Tick ==
    /\ clock < MaxClock
    /\ clock' = clock + 1
    /\ UNCHANGED <<role, row, log, workerVars, history>>

-----------------------------------------------------------------------------
(* What a worker that has begun goes on to do.                             *)
Step(w) ==
    \/ Issue(w) \/ AuditIssued(w)
    \/ ReadForApprove(w) \/ SaveApproved(w) \/ AuditApproved(w)
    \/ Execute(w) \/ CreateUser(w) \/ AuditCreated(w)
    \/ SaveExecuted(w) \/ SaveFailed(w) \/ AuditExecuted(w)
    \/ ReadForDeny(w) \/ SaveDenied(w) \/ AuditDenied(w)
    \/ SaveExpired(w) \/ AuditExpired(w)
    \/ WriteRefused(w)

Next ==
    \/ \E w \in Workers, u \in Users, r \in Requests :
          BeginRequest(w, u, r) \/ BeginApprove(w, u, r) \/ BeginDeny(w, u, r)
    \/ \E w \in Workers : Step(w) \/ Sweep(w) \/ HandlerRaises(w) \/ Crash(w)
    \/ \E u \in Users, v \in Editable :
          \/ CreateRegular(u, v) \/ DeleteAccount(u, v)
          \/ \E new \in {"regular", "superadmin"} : EditAccount(u, v, new)
    \/ \E v \in Editable : RegisterSuperadminPasskey(v)
    \/ Tick

Spec == Init /\ [][Next]_vars

\* A worker that has begun keeps running unless it is killed.
FairSpec == Spec /\ \A w \in Workers : WF_vars(Step(w))

-----------------------------------------------------------------------------
(* Correctness.                                                            *)

\* The values the tables and the workers' variables range over.
TypeOK ==
    /\ role \in [Users -> Roles]
    /\ row \in [Requests -> Row]
    /\ log \subseteq [event : Events, about : Requests \cup Users,
                      by : Users \cup {NoUser}]
    /\ clock \in Nat
    /\ pc \in [Workers -> Labels]
    /\ actor \in [Workers -> Users \cup {NoUser}]
    /\ target \in [Workers -> Requests \cup {NoRequest}]
    /\ batch \in [Workers -> SUBSET Requests]
    /\ performed \subseteq Requests
    /\ everSuper \subseteq Users

\* approve() and its handler: an account is created from a request only after
\* a superadmin other than the one who asked has approved that request,
\* whatever other workers, account edits and crashes come in between.
EndorsedBySecondSuperadmin ==
    \A r \in performed :
        /\ row[r].requestedBy \in everSuper
        /\ row[r].approvedBy \in everSuper
        /\ row[r].requestedBy # row[r].approvedBy

\* approve(), deny(): a row in a decided state names who decided, also when
\* several workers have written it one over another.
DecisionOnRecord ==
    \A r \in Requests :
        /\ row[r].state \in {"approved", "executed", "failed"} =>
              row[r].approvedBy # NoUser
        /\ row[r].state = "denied" => row[r].deniedBy # NoUser

\* _execute(): a row shown as executed is one whose own handler call created
\* the account, not a call for another request with the same address.
ExecutedMeansCreated ==
    \A r \in Requests : row[r].state = "executed" => r \in performed

\* _expire(), sweep_expired(): no request is expired before its deadline.
ExpiredOnlyAfterDeadline ==
    \A r \in Requests : row[r].state = "expired" => row[r].expiresAt <= clock

\* audit() comes after the write it reports: whatever is killed or overtaken
\* between the two, no audit row tells of something that did not happen.
AuditNeverLies ==
    \A e \in log :
        /\ e.event = "requested" =>
              row[e.about].requestedBy = e.by /\ e.by # NoUser
        /\ e.event = "approved" =>
              row[e.about].approvedBy # NoUser /\ e.by # row[e.about].requestedBy
        /\ e.event = "denied" =>
              row[e.about].deniedBy # NoUser /\ e.by # row[e.about].requestedBy
        /\ e.event = "expired" => row[e.about].expiresAt <= clock
        /\ e.event = "executed" => e.about \in performed
        /\ e.event = "user_created_via_approval" => e.about \in everSuper

\* The flow of apps/approvals/__init__.py.
Lifecycle ==
    {<<"absent", "pending">>, <<"pending", "approved">>, <<"pending", "denied">>,
     <<"pending", "expired">>, <<"approved", "executed">>, <<"approved", "failed">>}

\* A row changes its state only along the documented flow.
FollowsLifecycle ==
    [][\A r \in Requests :
          row'[r].state # row[r].state => <<row[r].state, row'[r].state>> \in Lifecycle]_vars

\* A row in one of TERMINAL_STATES keeps its state.
TerminalIsFinal ==
    [][\A r \in Requests :
          row[r].state \in Terminal => row'[r].state = row[r].state]_vars

\* What the audit rows about a request are when its history is complete.
Trail(r) ==
    LET requested == Entry("requested", r, row[r].requestedBy)
        approved == Entry("approved", r, row[r].approvedBy) IN
    CASE row[r].state = "absent" -> {}
      [] row[r].state = "pending" -> {requested}
      [] row[r].state = "denied" -> {requested, Entry("denied", r, row[r].deniedBy)}
      [] row[r].state = "expired" -> {requested, Entry("expired", r, NoUser)}
      [] row[r].state \in {"executed", "failed"} ->
            {requested, approved, Entry(row[r].state, r, NoUser)}
      [] OTHER -> {}

\* Once no call is under way, the audit rows about a request are exactly
\* those of its row's path through the flow, with the names the row shows.
AuditTrailComplete ==
    (\A w \in Workers : pc[w] = "idle") =>
        \A r \in Requests : {e \in log : e.about = r} = Trail(r)

\* approve() runs the handler itself: a row does not stay approved, unless the
\* worker that approved it is killed.
ApprovedSettles ==
    \A r \in Requests, w \in Workers \ Faulty :
        pc[w] = "approved" /\ target[w] = r ~> row[r].state # "approved"

-----------------------------------------------------------------------------
(* The two-person rule as an abstraction of this module.                   *)
Rule == INSTANCE TwoPersonRule WITH
            authority <- everSuper,
            asker <- [r \in Requests |-> row[r].requestedBy],
            endorser <- [r \in Requests |-> row[r].approvedBy]

\* Every behaviour of the service functions is one the rule allows.
ImplementsRule == Rule!RuleSpec
=============================================================================
