-------------------------- MODULE ApprovalsProofs --------------------------
(***************************************************************************)
(* Theorems about Approvals, for every set of users, requests and workers. *)
(***************************************************************************)
EXTENDS Approvals, TLAPS

-----------------------------------------------------------------------------
(* The inductive invariant.  The properties speak of rows and of the audit *)
(* log; what keeps them is what each worker knows of the row it is on.     *)

\* Labels of a worker that acts for a user on one approval.
Acting == {"issue", "issued", "approve", "approving", "approved",
           "deny", "denying", "denied"}

\* Labels reached only after this worker has saved its approval.
Endorsed == {"approved", "execute", "create", "created", "executing",
             "executed", "failing", "failed"}

\* Labels reached only after this worker's handler has created the account.
Performed == {"created", "executing", "executed"}

AuthorityInv == \A u \in Users : role[u] = "superadmin" => u \in everSuper

RowInv ==
    \A r \in Requests :
        /\ row[r].state = "absent" =>
              row[r].approvedBy = NoUser /\ row[r].deniedBy = NoUser
        /\ row[r].state = "absent" <=> row[r].requestedBy = NoUser
        /\ row[r].requestedBy # NoUser => row[r].requestedBy \in everSuper
        /\ row[r].approvedBy # NoUser =>
              row[r].approvedBy \in everSuper \ {row[r].requestedBy}
        /\ row[r].deniedBy # NoUser => row[r].deniedBy # row[r].requestedBy
        /\ row[r].state \in {"approved", "executed", "failed"} => row[r].approvedBy # NoUser
        /\ row[r].state = "denied" => row[r].deniedBy # NoUser
        /\ row[r].state = "executed" => r \in performed
        /\ row[r].state = "expired" => row[r].expiresAt <= clock
        /\ r \in performed => row[r].approvedBy # NoUser

WorkerInv ==
    \A w \in Workers :
        LET r == target[w] IN
        /\ pc[w] \in Acting => actor[w] \in everSuper
        /\ pc[w] \in Acting \cup Endorsed \cup {"expired"} => r \in Requests
        /\ pc[w] = "issue" => row[r].state = "absent"
        /\ pc[w] \in (Acting \cup Endorsed \cup {"expired"}) \ {"issue"} =>
              row[r].state # "absent"
        /\ pc[w] = "issued" => row[r].requestedBy = actor[w]
        /\ pc[w] \in {"approving", "approved", "denying", "denied"} =>
              row[r].requestedBy # actor[w]
        /\ pc[w] \in Endorsed => row[r].approvedBy # NoUser
        /\ pc[w] \in Performed => r \in performed /\ Email[r] \in everSuper
        /\ pc[w] = "denied" => row[r].deniedBy # NoUser
        /\ pc[w] = "expired" => row[r].expiresAt <= clock
        /\ \A q \in batch[w] : row[q].state # "absent" /\ row[q].expiresAt <= clock

\* No two workers are about to insert the same row.
IssueInv ==
    \A w, x \in Workers :
        pc[w] = "issue" /\ pc[x] = "issue" /\ target[w] = target[x] => w = x

\* The audit rows that carry an approval's id are about inserted rows.
LogInv ==
    \A e \in log :
        e.event \in {"requested", "approved", "denied", "expired", "executed", "failed"} =>
            e.about \in Requests /\ row[e.about].state # "absent"

IInv ==
    /\ TypeOK
    /\ AuthorityInv
    /\ RowInv
    /\ WorkerInv
    /\ IssueInv
    /\ LogInv
    /\ AuditNeverLies

-----------------------------------------------------------------------------
\* The empty tables satisfy the invariant.
LEMMA InvariantInit == Init => IInv
  BY ApprovalsAssumption DEF Init, IInv, TypeOK, AuthorityInv, RowInv, WorkerInv,
     IssueInv, LogInv, AuditNeverLies, NoRow, Row, Roles, States, Labels,
     Acting, Endorsed, Performed

\* What the UPDATE statements make of a row is a row.
LEMMA RowUpdate ==
    ASSUME NEW x \in Row, NEW s \in States, NEW u \in Users \cup {NoUser}
    PROVE  /\ [x EXCEPT !.state = s] \in Row
           /\ [x EXCEPT !.state = s, !.approvedBy = u] \in Row
           /\ [x EXCEPT !.state = s, !.deniedBy = u] \in Row
  BY DEF Row

\* The row request_approval inserts is sound.
LEMMA IssueRow ==
    ASSUME NEW u \in Users \cup {NoUser}, NEW t \in Nat
    PROVE  [NoRow EXCEPT !.state = "pending", !.requestedBy = u, !.expiresAt = t] \in Row
  BY DEF Row, NoRow, States

\* A worker past its first step is on an approval that exists in the table.
LEMMA OnRequest ==
    ASSUME IInv, NEW w \in Workers,
           pc[w] \in Acting \cup Endorsed \cup {"expired"}
    PROVE  target[w] \in Requests
  BY DEF IInv, WorkerInv

\* Every step keeps the invariant.
LEMMA InvariantStep == IInv /\ [Next]_vars => IInv'
<1> SUFFICES ASSUME IInv, [Next]_vars PROVE IInv'
  OBVIOUS
<1> USE ApprovalsAssumption
    DEF IInv, dbVars, history, workerVars, Begin, Save, Goto, Finish, Audit, Entry,
        Acting, Endorsed, Performed
<1>1. ASSUME NEW w \in Workers, NEW u \in Users, NEW r \in Requests,
             BeginRequest(w, u, r) PROVE IInv'
  <2>1. TypeOK'
    BY <1>1 DEF BeginRequest, TypeOK, Labels
  <2>2. WorkerInv'
    BY <1>1, <2>1 DEF BeginRequest, TypeOK, WorkerInv, RowInv, Row,
       IsSuperadmin, Authorised, AuthorityInv, IssueInv
  <2>3. IssueInv'
    BY <1>1, <2>1 DEF BeginRequest, TypeOK, IssueInv
  <2>4. (AuthorityInv /\ RowInv /\ LogInv /\ AuditNeverLies)'
    BY <1>1 DEF BeginRequest, AuthorityInv, RowInv, LogInv, AuditNeverLies
  <2> QED BY <2>1, <2>2, <2>3, <2>4
<1>2. ASSUME NEW w \in Workers, NEW u \in Users, NEW r \in Requests,
             BeginApprove(w, u, r) PROVE IInv'
  <2>1. TypeOK'
    BY <1>2 DEF BeginApprove, TypeOK, Labels
  <2>2. WorkerInv'
    BY <1>2, <2>1 DEF BeginApprove, TypeOK, WorkerInv, RowInv, Row,
       IsSuperadmin, Authorised, AuthorityInv, IssueInv
  <2>3. IssueInv'
    BY <1>2, <2>1 DEF BeginApprove, TypeOK, IssueInv
  <2>4. (AuthorityInv /\ RowInv /\ LogInv /\ AuditNeverLies)'
    BY <1>2 DEF BeginApprove, AuthorityInv, RowInv, LogInv, AuditNeverLies
  <2> QED BY <2>1, <2>2, <2>3, <2>4
<1>3. ASSUME NEW w \in Workers, NEW u \in Users, NEW r \in Requests,
             BeginDeny(w, u, r) PROVE IInv'
  <2>1. TypeOK'
    BY <1>3 DEF BeginDeny, TypeOK, Labels
  <2>2. WorkerInv'
    BY <1>3, <2>1 DEF BeginDeny, TypeOK, WorkerInv, RowInv, Row, IsSuperadmin,
       Authorised, AuthorityInv, IssueInv
  <2>3. IssueInv'
    BY <1>3, <2>1 DEF BeginDeny, TypeOK, IssueInv
  <2>4. (AuthorityInv /\ RowInv /\ LogInv /\ AuditNeverLies)'
    BY <1>3 DEF BeginDeny, AuthorityInv, RowInv, LogInv, AuditNeverLies
  <2> QED BY <2>1, <2>2, <2>3, <2>4
<1>4. ASSUME NEW w \in Workers, Issue(w) PROVE IInv'
  <2>1. target[w] \in Requests
    BY <1>4, OnRequest DEF Issue
  <2>2. clock + TTL \in Nat /\ actor[w] \in Users \cup {NoUser}
    BY DEF TypeOK
  <2>3. [NoRow EXCEPT !.state = "pending", !.requestedBy = actor[w],
                      !.expiresAt = clock + TTL] \in Row
    BY <2>2, IssueRow
  <2>4. row' \in [Requests -> Row]
    BY <1>4, <2>1, <2>3 DEF Issue, TypeOK
  <2>5. TypeOK'
    BY <1>4, <2>4 DEF Issue, DatabaseAccepts, NoRow, TypeOK, Labels
  <2>6. RowInv'
    BY <1>4, <2>1, <2>3, <2>5 DEF Issue, DatabaseAccepts, NoRow, TypeOK,
       RowInv, WorkerInv, Row
  <2>7. WorkerInv'
    BY <1>4, <2>1, <2>3, <2>5 DEF Issue, DatabaseAccepts, NoRow, TypeOK,
       WorkerInv, RowInv, Row, IssueInv
  <2>8. IssueInv'
    BY <1>4, <2>1, <2>3, <2>5 DEF Issue, DatabaseAccepts, NoRow, TypeOK,
       IssueInv
  <2>9. LogInv'
    BY <1>4, <2>1, <2>3, <2>5 DEF Issue, DatabaseAccepts, NoRow, TypeOK,
       LogInv, WorkerInv, Row
  <2>10. AuditNeverLies'
    BY <1>4, <2>1, <2>3, <2>5 DEF Issue, DatabaseAccepts, NoRow, TypeOK,
       AuditNeverLies, LogInv, RowInv, WorkerInv, Row
  <2>11. AuthorityInv'
    BY <1>4 DEF Issue, AuthorityInv
  <2> QED BY <2>5, <2>6, <2>7, <2>8, <2>9, <2>10, <2>11
<1>5. ASSUME NEW w \in Workers, AuditIssued(w) PROVE IInv'
  <2>1. target[w] \in Requests
    BY <1>5, OnRequest DEF AuditIssued
  <2>2. TypeOK'
    BY <1>5, <2>1 DEF AuditIssued, TypeOK, Labels, Events
  <2>3. WorkerInv'
    BY <1>5, <2>1, <2>2 DEF AuditIssued, TypeOK, WorkerInv, RowInv, Row
  <2>4. IssueInv'
    BY <1>5, <2>1, <2>2 DEF AuditIssued, TypeOK, IssueInv
  <2>5. LogInv'
    BY <1>5, <2>1, <2>2 DEF AuditIssued, TypeOK, LogInv, WorkerInv, Row
  <2>6. AuditNeverLies'
    BY <1>5, <2>1, <2>2 DEF AuditIssued, TypeOK, AuditNeverLies, LogInv,
       RowInv, WorkerInv, Row
  <2>7. (AuthorityInv /\ RowInv)'
    BY <1>5 DEF AuditIssued, AuthorityInv, RowInv
  <2> QED BY <2>2, <2>3, <2>4, <2>5, <2>6, <2>7
<1>6. ASSUME NEW w \in Workers, ReadForApprove(w) PROVE IInv'
  <2>1. target[w] \in Requests
    BY <1>6, OnRequest DEF ReadForApprove
  <2>2. TypeOK'
    BY <1>6, <2>1 DEF ReadForApprove, Actionable, NotSelf, Pending,
       HasExpired, TypeOK, Labels
  <2>3. WorkerInv'
    BY <1>6, <2>1, <2>2 DEF ReadForApprove, Actionable, NotSelf, Pending,
       HasExpired, TypeOK, WorkerInv, RowInv, Row
  <2>4. IssueInv'
    BY <1>6, <2>1, <2>2 DEF ReadForApprove, Actionable, NotSelf, Pending,
       HasExpired, TypeOK, IssueInv
  <2>5. (AuthorityInv /\ RowInv /\ LogInv /\ AuditNeverLies)'
    BY <1>6 DEF ReadForApprove, AuthorityInv, RowInv, LogInv, AuditNeverLies
  <2> QED BY <2>2, <2>3, <2>4, <2>5
<1>7. ASSUME NEW w \in Workers, SaveApproved(w) PROVE IInv'
  <2>1. target[w] \in Requests
    BY <1>7, OnRequest DEF SaveApproved
  <2>2. [row[target[w]] EXCEPT !.state = "approved", !.approvedBy = actor[w]] \in Row
    BY <1>7, <2>1, RowUpdate DEF TypeOK, States
  <2>3. row' \in [Requests -> Row]
    BY <1>7, <2>1, <2>2 DEF SaveApproved, TypeOK
  <2>4. TypeOK'
    BY <1>7, <2>3 DEF SaveApproved, TypeOK, Labels
  <2>5. RowInv'
    BY <1>7, <2>1, <2>2, <2>4 DEF SaveApproved, TypeOK, RowInv, WorkerInv, Row
  <2>6. WorkerInv'
    BY <1>7, <2>1, <2>2, <2>4 DEF SaveApproved, TypeOK, WorkerInv, RowInv, Row
  <2>7. IssueInv'
    BY <1>7, <2>1, <2>2, <2>4 DEF SaveApproved, TypeOK, IssueInv
  <2>8. LogInv'
    BY <1>7, <2>1, <2>2, <2>4 DEF SaveApproved, TypeOK, LogInv, WorkerInv, Row
  <2>9. AuditNeverLies'
    BY <1>7, <2>1, <2>2, <2>4 DEF SaveApproved, TypeOK, AuditNeverLies,
       LogInv, RowInv, WorkerInv, Row
  <2>10. AuthorityInv'
    BY <1>7 DEF SaveApproved, AuthorityInv
  <2> QED BY <2>4, <2>5, <2>6, <2>7, <2>8, <2>9, <2>10
<1>8. ASSUME NEW w \in Workers, AuditApproved(w) PROVE IInv'
  <2>1. target[w] \in Requests
    BY <1>8, OnRequest DEF AuditApproved
  <2>2. TypeOK'
    BY <1>8, <2>1 DEF AuditApproved, TypeOK, Labels, Events
  <2>3. WorkerInv'
    BY <1>8, <2>1, <2>2 DEF AuditApproved, TypeOK, WorkerInv, RowInv, Row
  <2>4. IssueInv'
    BY <1>8, <2>1, <2>2 DEF AuditApproved, TypeOK, IssueInv
  <2>5. LogInv'
    BY <1>8, <2>1, <2>2 DEF AuditApproved, TypeOK, LogInv, WorkerInv, Row
  <2>6. AuditNeverLies'
    BY <1>8, <2>1, <2>2 DEF AuditApproved, TypeOK, AuditNeverLies, LogInv,
       RowInv, WorkerInv, Row
  <2>7. (AuthorityInv /\ RowInv)'
    BY <1>8 DEF AuditApproved, AuthorityInv, RowInv
  <2> QED BY <2>2, <2>3, <2>4, <2>5, <2>6, <2>7
<1>9. ASSUME NEW w \in Workers, Execute(w) PROVE IInv'
  <2>1. TypeOK'
    BY <1>9 DEF Execute, TypeOK, Labels
  <2>2. WorkerInv'
    BY <1>9, <2>1 DEF Execute, TypeOK, WorkerInv, RowInv, Row
  <2>3. IssueInv'
    BY <1>9, <2>1 DEF Execute, TypeOK, IssueInv
  <2>4. (AuthorityInv /\ RowInv /\ LogInv /\ AuditNeverLies)'
    BY <1>9 DEF Execute, AuthorityInv, RowInv, LogInv, AuditNeverLies
  <2> QED BY <2>1, <2>2, <2>3, <2>4
<1>10. ASSUME NEW w \in Workers, CreateUser(w) PROVE IInv'
  <2>1. target[w] \in Requests
    BY <1>10, OnRequest DEF CreateUser
  <2>2. TypeOK'
    BY <1>10, <2>1 DEF CreateUser, Exists, TypeOK, Labels, Roles
  <2>3. AuthorityInv'
    BY <1>10, <2>1, <2>2 DEF CreateUser, Exists, TypeOK, AuthorityInv
  <2>4. RowInv'
    BY <1>10, <2>1, <2>2 DEF CreateUser, Exists, TypeOK, RowInv, WorkerInv,
       Row
  <2>5. WorkerInv'
    BY <1>10, <2>1, <2>2 DEF CreateUser, Exists, TypeOK, WorkerInv, RowInv,
       Row
  <2>6. IssueInv'
    BY <1>10, <2>1, <2>2 DEF CreateUser, Exists, TypeOK, IssueInv
  <2>7. AuditNeverLies'
    BY <1>10, <2>1, <2>2 DEF CreateUser, Exists, TypeOK, AuditNeverLies,
       LogInv, RowInv, WorkerInv, Row
  <2>8. LogInv'
    BY <1>10 DEF CreateUser, LogInv
  <2> QED BY <2>2, <2>3, <2>4, <2>5, <2>6, <2>7, <2>8
<1>11. ASSUME NEW w \in Workers, AuditCreated(w) PROVE IInv'
  <2>1. target[w] \in Requests
    BY <1>11, OnRequest DEF AuditCreated
  <2>2. TypeOK'
    BY <1>11, <2>1 DEF AuditCreated, TypeOK, Labels, Events
  <2>3. WorkerInv'
    BY <1>11, <2>1, <2>2 DEF AuditCreated, TypeOK, WorkerInv, RowInv, Row
  <2>4. IssueInv'
    BY <1>11, <2>1, <2>2 DEF AuditCreated, TypeOK, IssueInv
  <2>5. LogInv'
    BY <1>11, <2>1, <2>2 DEF AuditCreated, TypeOK, LogInv, WorkerInv, Row
  <2>6. AuditNeverLies'
    BY <1>11, <2>1, <2>2 DEF AuditCreated, TypeOK, AuditNeverLies, LogInv,
       RowInv, WorkerInv, Row
  <2>7. (AuthorityInv /\ RowInv)'
    BY <1>11 DEF AuditCreated, AuthorityInv, RowInv
  <2> QED BY <2>2, <2>3, <2>4, <2>5, <2>6, <2>7
<1>12. ASSUME NEW w \in Workers, SaveExecuted(w) PROVE IInv'
  <2>1. target[w] \in Requests
    BY <1>12, OnRequest DEF SaveExecuted
  <2>2. [row[target[w]] EXCEPT !.state = "executed"] \in Row
    BY <1>12, <2>1, RowUpdate DEF TypeOK, States
  <2>3. row' \in [Requests -> Row]
    BY <1>12, <2>1, <2>2 DEF SaveExecuted, TypeOK
  <2>4. TypeOK'
    BY <1>12, <2>3 DEF SaveExecuted, TypeOK, Labels
  <2>5. RowInv'
    BY <1>12, <2>1, <2>2, <2>4 DEF SaveExecuted, TypeOK, RowInv, WorkerInv,
       Row
  <2>6. WorkerInv'
    BY <1>12, <2>1, <2>2, <2>4 DEF SaveExecuted, TypeOK, WorkerInv, RowInv,
       Row
  <2>7. IssueInv'
    BY <1>12, <2>1, <2>2, <2>4 DEF SaveExecuted, TypeOK, IssueInv
  <2>8. LogInv'
    BY <1>12, <2>1, <2>2, <2>4 DEF SaveExecuted, TypeOK, LogInv, WorkerInv,
       Row
  <2>9. AuditNeverLies'
    BY <1>12, <2>1, <2>2, <2>4 DEF SaveExecuted, TypeOK, AuditNeverLies,
       LogInv, RowInv, WorkerInv, Row
  <2>10. AuthorityInv'
    BY <1>12 DEF SaveExecuted, AuthorityInv
  <2> QED BY <2>4, <2>5, <2>6, <2>7, <2>8, <2>9, <2>10
<1>13. ASSUME NEW w \in Workers, SaveFailed(w) PROVE IInv'
  <2>1. target[w] \in Requests
    BY <1>13, OnRequest DEF SaveFailed
  <2>2. [row[target[w]] EXCEPT !.state = "failed"] \in Row
    BY <1>13, <2>1, RowUpdate DEF TypeOK, States
  <2>3. row' \in [Requests -> Row]
    BY <1>13, <2>1, <2>2 DEF SaveFailed, TypeOK
  <2>4. TypeOK'
    BY <1>13, <2>3 DEF SaveFailed, TypeOK, Labels
  <2>5. RowInv'
    BY <1>13, <2>1, <2>2, <2>4 DEF SaveFailed, TypeOK, RowInv, WorkerInv, Row
  <2>6. WorkerInv'
    BY <1>13, <2>1, <2>2, <2>4 DEF SaveFailed, TypeOK, WorkerInv, RowInv, Row
  <2>7. IssueInv'
    BY <1>13, <2>1, <2>2, <2>4 DEF SaveFailed, TypeOK, IssueInv
  <2>8. LogInv'
    BY <1>13, <2>1, <2>2, <2>4 DEF SaveFailed, TypeOK, LogInv, WorkerInv, Row
  <2>9. AuditNeverLies'
    BY <1>13, <2>1, <2>2, <2>4 DEF SaveFailed, TypeOK, AuditNeverLies, LogInv,
       RowInv, WorkerInv, Row
  <2>10. AuthorityInv'
    BY <1>13 DEF SaveFailed, AuthorityInv
  <2> QED BY <2>4, <2>5, <2>6, <2>7, <2>8, <2>9, <2>10
<1>14. ASSUME NEW w \in Workers, AuditExecuted(w) PROVE IInv'
  <2>1. target[w] \in Requests
    BY <1>14, OnRequest DEF AuditExecuted
  <2>2. TypeOK'
    BY <1>14, <2>1 DEF AuditExecuted, TypeOK, Labels, Events
  <2>3. WorkerInv'
    BY <1>14, <2>1, <2>2 DEF AuditExecuted, TypeOK, WorkerInv, RowInv, Row
  <2>4. IssueInv'
    BY <1>14, <2>1, <2>2 DEF AuditExecuted, TypeOK, IssueInv
  <2>5. LogInv'
    BY <1>14, <2>1, <2>2 DEF AuditExecuted, TypeOK, LogInv, WorkerInv, Row
  <2>6. AuditNeverLies'
    BY <1>14, <2>1, <2>2 DEF AuditExecuted, TypeOK, AuditNeverLies, LogInv,
       RowInv, WorkerInv, Row
  <2>7. (AuthorityInv /\ RowInv)'
    BY <1>14 DEF AuditExecuted, AuthorityInv, RowInv
  <2> QED BY <2>2, <2>3, <2>4, <2>5, <2>6, <2>7
<1>15. ASSUME NEW w \in Workers, ReadForDeny(w) PROVE IInv'
  <2>1. TypeOK'
    BY <1>15 DEF ReadForDeny, Actionable, NotSelf, Pending, TypeOK, Labels
  <2>2. WorkerInv'
    BY <1>15, <2>1 DEF ReadForDeny, Actionable, NotSelf, Pending, TypeOK,
       WorkerInv, RowInv, Row
  <2>3. IssueInv'
    BY <1>15, <2>1 DEF ReadForDeny, Actionable, NotSelf, Pending, TypeOK,
       IssueInv
  <2>4. (AuthorityInv /\ RowInv /\ LogInv /\ AuditNeverLies)'
    BY <1>15 DEF ReadForDeny, AuthorityInv, RowInv, LogInv, AuditNeverLies
  <2> QED BY <2>1, <2>2, <2>3, <2>4
<1>16. ASSUME NEW w \in Workers, SaveDenied(w) PROVE IInv'
  <2>1. target[w] \in Requests
    BY <1>16, OnRequest DEF SaveDenied
  <2>2. [row[target[w]] EXCEPT !.state = "denied", !.deniedBy = actor[w]] \in Row
    BY <1>16, <2>1, RowUpdate DEF TypeOK, States
  <2>3. row' \in [Requests -> Row]
    BY <1>16, <2>1, <2>2 DEF SaveDenied, TypeOK
  <2>4. TypeOK'
    BY <1>16, <2>3 DEF SaveDenied, TypeOK, Labels
  <2>5. RowInv'
    BY <1>16, <2>1, <2>2, <2>4 DEF SaveDenied, TypeOK, RowInv, WorkerInv, Row
  <2>6. WorkerInv'
    BY <1>16, <2>1, <2>2, <2>4 DEF SaveDenied, TypeOK, WorkerInv, RowInv, Row
  <2>7. IssueInv'
    BY <1>16, <2>1, <2>2, <2>4 DEF SaveDenied, TypeOK, IssueInv
  <2>8. LogInv'
    BY <1>16, <2>1, <2>2, <2>4 DEF SaveDenied, TypeOK, LogInv, WorkerInv, Row
  <2>9. AuditNeverLies'
    BY <1>16, <2>1, <2>2, <2>4 DEF SaveDenied, TypeOK, AuditNeverLies, LogInv,
       RowInv, WorkerInv, Row
  <2>10. AuthorityInv'
    BY <1>16 DEF SaveDenied, AuthorityInv
  <2> QED BY <2>4, <2>5, <2>6, <2>7, <2>8, <2>9, <2>10
<1>17. ASSUME NEW w \in Workers, AuditDenied(w) PROVE IInv'
  <2>1. target[w] \in Requests
    BY <1>17, OnRequest DEF AuditDenied
  <2>2. TypeOK'
    BY <1>17, <2>1 DEF AuditDenied, TypeOK, Labels, Events
  <2>3. WorkerInv'
    BY <1>17, <2>1, <2>2 DEF AuditDenied, TypeOK, WorkerInv, RowInv, Row
  <2>4. IssueInv'
    BY <1>17, <2>1, <2>2 DEF AuditDenied, TypeOK, IssueInv
  <2>5. LogInv'
    BY <1>17, <2>1, <2>2 DEF AuditDenied, TypeOK, LogInv, WorkerInv, Row
  <2>6. AuditNeverLies'
    BY <1>17, <2>1, <2>2 DEF AuditDenied, TypeOK, AuditNeverLies, LogInv,
       RowInv, WorkerInv, Row
  <2>7. (AuthorityInv /\ RowInv)'
    BY <1>17 DEF AuditDenied, AuthorityInv, RowInv
  <2> QED BY <2>2, <2>3, <2>4, <2>5, <2>6, <2>7
<1>18. ASSUME NEW w \in Workers, SaveExpired(w) PROVE IInv'
  <2>1. \A r \in Requests : [row[r] EXCEPT !.state = "expired"] \in Row
    BY <1>18, RowUpdate DEF TypeOK, States
  <2>2. row' \in [Requests -> Row]
    BY <1>18, <2>1 DEF SaveExpired, TypeOK
  <2>3. TypeOK'
    BY <1>18, <2>2 DEF SaveExpired, TypeOK, Labels
  <2>4. RowInv'
    BY <1>18, <2>1, <2>3 DEF SaveExpired, TypeOK, RowInv, WorkerInv, Row
  <2>5. WorkerInv'
    BY <1>18, <2>1, <2>3 DEF SaveExpired, TypeOK, WorkerInv, RowInv, Row
  <2>6. IssueInv'
    BY <1>18, <2>1, <2>3 DEF SaveExpired, TypeOK, IssueInv
  <2>7. LogInv'
    BY <1>18, <2>1, <2>3 DEF SaveExpired, TypeOK, LogInv, WorkerInv, Row
  <2>8. AuditNeverLies'
    BY <1>18, <2>1, <2>3 DEF SaveExpired, TypeOK, AuditNeverLies, LogInv,
       RowInv, WorkerInv, Row
  <2>9. AuthorityInv'
    BY <1>18 DEF SaveExpired, AuthorityInv
  <2> QED BY <2>3, <2>4, <2>5, <2>6, <2>7, <2>8, <2>9
<1>19. ASSUME NEW w \in Workers, AuditExpired(w) PROVE IInv'
  <2>1. target[w] \in Requests
    BY <1>19, OnRequest DEF AuditExpired
  <2>2. TypeOK'
    BY <1>19, <2>1 DEF AuditExpired, TypeOK, Labels, Events
  <2>3. WorkerInv'
    BY <1>19, <2>1, <2>2 DEF AuditExpired, TypeOK, WorkerInv, RowInv, Row
  <2>4. IssueInv'
    BY <1>19, <2>1, <2>2 DEF AuditExpired, TypeOK, IssueInv
  <2>5. LogInv'
    BY <1>19, <2>1, <2>2 DEF AuditExpired, TypeOK, LogInv, WorkerInv, Row
  <2>6. AuditNeverLies'
    BY <1>19, <2>1, <2>2 DEF AuditExpired, TypeOK, AuditNeverLies, LogInv,
       RowInv, WorkerInv, Row
  <2>7. (AuthorityInv /\ RowInv)'
    BY <1>19 DEF AuditExpired, AuthorityInv, RowInv
  <2> QED BY <2>2, <2>3, <2>4, <2>5, <2>6, <2>7
<1>20. ASSUME NEW w \in Workers, WriteRefused(w) PROVE IInv'
  <2>1. TypeOK'
    BY <1>20 DEF WriteRefused, TypeOK, Labels
  <2>2. WorkerInv'
    BY <1>20, <2>1 DEF WriteRefused, TypeOK, WorkerInv, RowInv, Row
  <2>3. IssueInv'
    BY <1>20, <2>1 DEF WriteRefused, TypeOK, IssueInv
  <2>4. (AuthorityInv /\ RowInv /\ LogInv /\ AuditNeverLies)'
    BY <1>20 DEF WriteRefused, AuthorityInv, RowInv, LogInv, AuditNeverLies
  <2> QED BY <2>1, <2>2, <2>3, <2>4
<1>21. ASSUME NEW w \in Workers, Sweep(w) PROVE IInv'
  <2>1. TypeOK'
    BY <1>21 DEF Sweep, Pending, HasExpired, TypeOK, Labels
  <2>2. WorkerInv'
    BY <1>21, <2>1 DEF Sweep, Pending, HasExpired, TypeOK, WorkerInv, RowInv,
       Row
  <2>3. IssueInv'
    BY <1>21, <2>1 DEF Sweep, Pending, HasExpired, TypeOK, IssueInv
  <2>4. (AuthorityInv /\ RowInv /\ LogInv /\ AuditNeverLies)'
    BY <1>21 DEF Sweep, AuthorityInv, RowInv, LogInv, AuditNeverLies
  <2> QED BY <2>1, <2>2, <2>3, <2>4
<1>22. ASSUME NEW w \in Workers, HandlerRaises(w) PROVE IInv'
  <2>1. TypeOK'
    BY <1>22 DEF HandlerRaises, TypeOK, Labels
  <2>2. WorkerInv'
    BY <1>22, <2>1 DEF HandlerRaises, TypeOK, WorkerInv, RowInv, Row
  <2>3. IssueInv'
    BY <1>22, <2>1 DEF HandlerRaises, TypeOK, IssueInv
  <2>4. (AuthorityInv /\ RowInv /\ LogInv /\ AuditNeverLies)'
    BY <1>22 DEF HandlerRaises, AuthorityInv, RowInv, LogInv, AuditNeverLies
  <2> QED BY <2>1, <2>2, <2>3, <2>4
<1>23. ASSUME NEW w \in Workers, Crash(w) PROVE IInv'
  <2>1. TypeOK'
    BY <1>23 DEF Crash, TypeOK, Labels
  <2>2. WorkerInv'
    BY <1>23, <2>1 DEF Crash, TypeOK, WorkerInv, RowInv, Row
  <2>3. IssueInv'
    BY <1>23, <2>1 DEF Crash, TypeOK, IssueInv
  <2>4. (AuthorityInv /\ RowInv /\ LogInv /\ AuditNeverLies)'
    BY <1>23 DEF Crash, AuthorityInv, RowInv, LogInv, AuditNeverLies
  <2> QED BY <2>1, <2>2, <2>3, <2>4
<1>24. ASSUME NEW u \in Users, NEW v \in Editable, CreateRegular(u, v) PROVE IInv'
  <2>1. TypeOK'
    BY <1>24 DEF CreateRegular, TypeOK, Roles, Events
  <2>2. AuthorityInv'
    BY <1>24, <2>1 DEF CreateRegular, TypeOK, AuthorityInv
  <2>3. LogInv'
    BY <1>24, <2>1 DEF CreateRegular, TypeOK, LogInv, WorkerInv, Row
  <2>4. AuditNeverLies'
    BY <1>24, <2>1 DEF CreateRegular, TypeOK, AuditNeverLies, LogInv, RowInv,
       WorkerInv, Row
  <2>5. (RowInv /\ WorkerInv /\ IssueInv)'
    BY <1>24 DEF CreateRegular, RowInv, WorkerInv, IssueInv
  <2> QED BY <2>1, <2>2, <2>3, <2>4, <2>5
<1>25. ASSUME NEW u \in Users, NEW v \in Editable, DeleteAccount(u, v) PROVE IInv'
  <2>1. TypeOK'
    BY <1>25 DEF DeleteAccount, TypeOK, Roles
  <2>2. AuthorityInv'
    BY <1>25, <2>1 DEF DeleteAccount, TypeOK, AuthorityInv
  <2>3. (RowInv /\ WorkerInv /\ IssueInv /\ LogInv /\ AuditNeverLies)'
    BY <1>25 DEF DeleteAccount, RowInv, WorkerInv, IssueInv, LogInv,
       AuditNeverLies
  <2> QED BY <2>1, <2>2, <2>3
<1>26. ASSUME NEW u \in Users, NEW v \in Editable,
             NEW new \in {"regular", "superadmin"}, EditAccount(u, v, new) PROVE IInv'
  <2>1. TypeOK'
    BY <1>26 DEF EditAccount, TypeOK, Roles
  <2>2. AuthorityInv'
    BY <1>26, <2>1 DEF EditAccount, TypeOK, AuthorityInv
  <2>3. RowInv'
    BY <1>26, <2>1 DEF EditAccount, TypeOK, RowInv, WorkerInv, Row
  <2>4. WorkerInv'
    BY <1>26, <2>1 DEF EditAccount, TypeOK, WorkerInv, RowInv, Row
  <2>5. AuditNeverLies'
    BY <1>26, <2>1 DEF EditAccount, TypeOK, AuditNeverLies, LogInv, RowInv,
       WorkerInv, Row
  <2>6. (IssueInv /\ LogInv)'
    BY <1>26 DEF EditAccount, IssueInv, LogInv
  <2> QED BY <2>1, <2>2, <2>3, <2>4, <2>5, <2>6
<1>27. ASSUME NEW v \in Editable, RegisterSuperadminPasskey(v) PROVE IInv'
  <2>1. TypeOK'
    BY <1>27 DEF RegisterSuperadminPasskey, TypeOK, Roles, Events
  <2>2. AuthorityInv'
    BY <1>27, <2>1 DEF RegisterSuperadminPasskey, TypeOK, AuthorityInv
  <2>3. RowInv'
    BY <1>27, <2>1 DEF RegisterSuperadminPasskey, TypeOK, RowInv, WorkerInv,
       Row
  <2>4. WorkerInv'
    BY <1>27, <2>1 DEF RegisterSuperadminPasskey, TypeOK, WorkerInv, RowInv,
       Row
  <2>5. LogInv'
    BY <1>27, <2>1 DEF RegisterSuperadminPasskey, TypeOK, LogInv, WorkerInv,
       Row
  <2>6. AuditNeverLies'
    BY <1>27, <2>1 DEF RegisterSuperadminPasskey, TypeOK, AuditNeverLies,
       LogInv, RowInv, WorkerInv, Row
  <2>7. IssueInv'
    BY <1>27 DEF RegisterSuperadminPasskey, IssueInv
  <2> QED BY <2>1, <2>2, <2>3, <2>4, <2>5, <2>6, <2>7
<1>28. ASSUME Tick PROVE IInv'
  <2>1. TypeOK'
    BY <1>28 DEF Tick, TypeOK
  <2>2. RowInv'
    BY <1>28, <2>1 DEF Tick, TypeOK, RowInv, WorkerInv, Row
  <2>3. WorkerInv'
    BY <1>28, <2>1 DEF Tick, TypeOK, WorkerInv, RowInv, Row
  <2>4. AuditNeverLies'
    BY <1>28, <2>1 DEF Tick, TypeOK, AuditNeverLies, LogInv, RowInv,
       WorkerInv, Row
  <2>5. (AuthorityInv /\ IssueInv /\ LogInv)'
    BY <1>28 DEF Tick, AuthorityInv, IssueInv, LogInv
  <2> QED BY <2>1, <2>2, <2>3, <2>4, <2>5
<1>29. CASE UNCHANGED vars
  BY <1>29 DEF vars, TypeOK, AuthorityInv, RowInv, WorkerInv, IssueInv,
     LogInv, AuditNeverLies
<1> QED
  BY <1>1, <1>2, <1>3, <1>4, <1>5, <1>6, <1>7, <1>8, <1>9, <1>10, <1>11,
     <1>12, <1>13, <1>14, <1>15, <1>16, <1>17, <1>18, <1>19, <1>20, <1>21,
     <1>22, <1>23, <1>24, <1>25, <1>26, <1>27, <1>28, <1>29 DEF Next, Step

\* The invariant holds in every reachable state.
THEOREM Invariant == Spec => []IInv
  BY InvariantInit, InvariantStep, PTL DEF Spec

-----------------------------------------------------------------------------
(* What follows from it.                                                   *)

\* The tables and the workers' variables keep their types (all of services.py).
THEOREM TypeCorrect == Spec => []TypeOK
<1>1. IInv => TypeOK
  BY DEF IInv
<1> QED BY <1>1, Invariant, PTL

\* No account comes out of approve() without the endorsement of a superadmin
\* other than the one who asked, for any number of users and workers.
THEOREM SecondSuperadmin == Spec => []EndorsedBySecondSuperadmin
<1>1. IInv => EndorsedBySecondSuperadmin
  BY ApprovalsAssumption
     DEF IInv, TypeOK, Row, RowInv, EndorsedBySecondSuperadmin
<1> QED BY <1>1, Invariant, PTL

\* Overlapping approve(), deny() and _expire() leave the name behind every
\* decided state on the row.
THEOREM NamesKept == Spec => []DecisionOnRecord
<1>1. IInv => DecisionOnRecord
  BY DEF IInv, RowInv, DecisionOnRecord
<1> QED BY <1>1, Invariant, PTL

\* _execute() shows "executed" only on requests whose handler succeeded.
THEOREM ExecutedCreated == Spec => []ExecutedMeansCreated
<1>1. IInv => ExecutedMeansCreated
  BY DEF IInv, RowInv, ExecutedMeansCreated
<1> QED BY <1>1, Invariant, PTL

\* _expire() never runs ahead of the deadline.
THEOREM NoEarlyExpiry == Spec => []ExpiredOnlyAfterDeadline
<1>1. IInv => ExpiredOnlyAfterDeadline
  BY DEF IInv, RowInv, ExpiredOnlyAfterDeadline
<1> QED BY <1>1, Invariant, PTL

\* audit() reports only what happened.
THEOREM AuditTruthful == Spec => []AuditNeverLies
<1>1. IInv => AuditNeverLies
  BY DEF IInv
<1> QED BY <1>1, Invariant, PTL

-----------------------------------------------------------------------------
(* Approvals implements TwoPersonRule.                                     *)

\* The empty tables are those of the rule.
LEMMA RuleInitStep == Init => Rule!RuleInit
  BY DEF Init, NoRow, Rule!RuleInit

\* Every step is one of the two-person rule, or none.
LEMMA RuleStep == IInv /\ [Next]_vars => [Rule!RuleNext]_Rule!ruleVars
<1> SUFFICES ASSUME IInv, [Next]_vars PROVE [Rule!RuleNext]_Rule!ruleVars
  OBVIOUS
<1> USE ApprovalsAssumption DEF IInv, history, dbVars, workerVars, Rule!ruleVars
<1>0. row \in [Requests -> Row] /\ everSuper \subseteq Users
  BY DEF TypeOK
<1>1. ASSUME NEW w \in Workers, Issue(w) PROVE Rule!RuleNext
  <2>1. target[w] \in Requests /\ actor[w] \in everSuper
    BY <1>1, OnRequest DEF Issue, Acting, WorkerInv
  <2>2. row[target[w]].requestedBy = NoUser /\ row[target[w]].approvedBy = NoUser
    BY <1>1, <2>1 DEF Issue, WorkerInv, RowInv
  <2>3. row' = [row EXCEPT ![target[w]] =
                  [NoRow EXCEPT !.state = "pending", !.requestedBy = actor[w],
                                !.expiresAt = clock + TTL]]
        /\ UNCHANGED <<performed, everSuper>>
    BY <1>1 DEF Issue, Save
  <2>4. PICK u \in Users, r \in Requests : u = actor[w] /\ r = target[w]
    BY <1>0, <2>1
  <2>5. Rule!Ask(u, r)
    BY <1>0, <2>1, <2>2, <2>3, <2>4 DEF Rule!Ask, NoRow
  <2> QED BY <2>5 DEF Rule!RuleNext
<1>2. ASSUME NEW w \in Workers, SaveApproved(w) PROVE Rule!RuleNext
  <2>1. target[w] \in Requests /\ actor[w] \in everSuper
    BY <1>2, OnRequest DEF SaveApproved, Acting, WorkerInv
  <2>2. row[target[w]].requestedBy \notin {NoUser, actor[w]}
    BY <1>2, <2>1 DEF SaveApproved, Acting, WorkerInv, RowInv
  <2>3. row' = [row EXCEPT ![target[w]] =
                  [row[target[w]] EXCEPT !.state = "approved", !.approvedBy = actor[w]]]
        /\ UNCHANGED <<performed, everSuper>>
    BY <1>2 DEF SaveApproved, Save
  <2>4. PICK u \in Users, r \in Requests : u = actor[w] /\ r = target[w]
    BY <1>0, <2>1
  <2>5. Rule!Endorse(u, r)
    BY <1>0, <2>1, <2>2, <2>3, <2>4 DEF Rule!Endorse, Row
  <2> QED BY <2>5 DEF Rule!RuleNext
<1>3. ASSUME NEW w \in Workers, CreateUser(w)
      PROVE  Rule!RuleNext \/ UNCHANGED Rule!ruleVars
  <2>1. target[w] \in Requests /\ row[target[w]].approvedBy # NoUser
    BY <1>3, OnRequest DEF CreateUser, Endorsed, WorkerInv
  <2>2. Rule!Perform(target[w]) \/ UNCHANGED <<row, performed, everSuper>>
    BY <1>3, <2>1 DEF CreateUser, Rule!Perform
  <2> QED BY <2>1, <2>2 DEF Rule!RuleNext, Rule!ruleVars
<1>4. ASSUME NEW v \in Editable, everSuper' \in {everSuper, everSuper \cup {v}},
             UNCHANGED <<row, performed>>
      PROVE  Rule!RuleNext \/ UNCHANGED Rule!ruleVars
  <2>1. v \in Users
    OBVIOUS
  <2>2. Rule!Appoint(v) \/ UNCHANGED <<row, performed, everSuper>>
    BY <1>4 DEF Rule!Appoint
  <2> QED BY <2>1, <2>2 DEF Rule!RuleNext, Rule!ruleVars
<1>5. ASSUME NEW w \in Workers,
             SaveExecuted(w) \/ SaveFailed(w) \/ SaveDenied(w) \/ SaveExpired(w)
      PROVE  UNCHANGED Rule!ruleVars
  <2>1. \A r \in Requests : /\ row'[r].requestedBy = row[r].requestedBy
                            /\ row'[r].approvedBy = row[r].approvedBy
    <3>1. CASE SaveExecuted(w) \/ SaveFailed(w)
      BY <1>0, <3>1 DEF SaveExecuted, SaveFailed, Save, Row
    <3>2. CASE SaveDenied(w)
      BY <1>0, <3>2 DEF SaveDenied, Save, Row
    <3>3. CASE SaveExpired(w)
      BY <1>0, <3>3 DEF SaveExpired, Row
    <3> QED BY <1>5, <3>1, <3>2, <3>3
  <2>2. UNCHANGED <<performed, everSuper>>
    BY <1>5 DEF SaveExecuted, SaveFailed, SaveDenied, SaveExpired, Save
  <2> QED BY <2>1, <2>2 DEF Rule!ruleVars
<1>6. ASSUME UNCHANGED <<row, performed, everSuper>>
      PROVE  UNCHANGED Rule!ruleVars
  BY <1>6 DEF Rule!ruleVars
<1>7. ASSUME NEW w \in Workers, Step(w)
      PROVE  Rule!RuleNext \/ UNCHANGED Rule!ruleVars
  <2>1. CASE Issue(w) \/ SaveApproved(w) \/ CreateUser(w)
    BY <2>1, <1>1, <1>2, <1>3
  <2>2. CASE SaveExecuted(w) \/ SaveFailed(w) \/ SaveDenied(w) \/ SaveExpired(w)
    BY <2>2, <1>5
  <2>3. CASE AuditIssued(w) \/ AuditApproved(w) \/ AuditCreated(w) \/ AuditExecuted(w)
             \/ AuditDenied(w) \/ AuditExpired(w)
    BY <2>3, <1>6 DEF AuditIssued, AuditApproved, AuditCreated, AuditExecuted,
       AuditDenied, AuditExpired
  <2>4. CASE ReadForApprove(w) \/ Execute(w) \/ ReadForDeny(w) \/ WriteRefused(w)
    BY <2>4, <1>6 DEF ReadForApprove, Execute, ReadForDeny, WriteRefused
  <2> QED BY <1>7, <2>1, <2>2, <2>3, <2>4 DEF Step
<1>8. ASSUME NEW w \in Workers, Sweep(w) \/ HandlerRaises(w) \/ Crash(w)
      PROVE  UNCHANGED Rule!ruleVars
  BY <1>6, <1>8 DEF Sweep, HandlerRaises, Crash
<1>9. ASSUME NEW w \in Workers, NEW u \in Users, NEW r \in Requests,
             BeginRequest(w, u, r) \/ BeginApprove(w, u, r) \/ BeginDeny(w, u, r)
      PROVE  UNCHANGED Rule!ruleVars
  BY <1>6, <1>9 DEF BeginRequest, BeginApprove, BeginDeny, Begin
<1>10. ASSUME NEW u \in Users, NEW v \in Editable,
              CreateRegular(u, v) \/ DeleteAccount(u, v)
       PROVE  UNCHANGED Rule!ruleVars
  BY <1>6, <1>10 DEF CreateRegular, DeleteAccount
<1>11. ASSUME NEW u \in Users, NEW v \in Editable,
              NEW new \in {"regular", "superadmin"}, EditAccount(u, v, new)
       PROVE  Rule!RuleNext \/ UNCHANGED Rule!ruleVars
  BY <1>4, <1>11 DEF EditAccount
<1>12. ASSUME NEW v \in Editable, RegisterSuperadminPasskey(v)
       PROVE  Rule!RuleNext \/ UNCHANGED Rule!ruleVars
  BY <1>4, <1>12 DEF RegisterSuperadminPasskey
<1>13. CASE Tick
  BY <1>6, <1>13 DEF Tick
<1>14. CASE UNCHANGED vars
  BY <1>6, <1>14 DEF vars
<1> QED
  BY <1>7, <1>8, <1>9, <1>10, <1>11, <1>12, <1>13, <1>14 DEF Next

\* The service functions allow only what the two-person rule allows.
THEOREM Refinement == Spec => ImplementsRule
  BY Invariant, RuleInitStep, RuleStep, PTL
     DEF Spec, ImplementsRule, Rule!RuleSpec

-----------------------------------------------------------------------------
(* One worker.  What the guards of approve(), deny() and sweep_expired()   *)
(* read then still holds when the worker writes.                           *)

\* The state of the rows worker w is on or has selected.
SoloInv(w) ==
    LET r == target[w] IN
    /\ pc[w] \in {"issued", "approving", "denying"} => row[r].state = "pending"
    /\ pc[w] \in Endorsed \ {"executed", "failed"} => row[r].state = "approved"
    /\ pc[w] \in {"executed", "failed", "denied", "expired"} => row[r].state = pc[w]
    /\ pc[w] = "expired" => r \notin batch[w]
    /\ pc[w] \notin {"expiring", "expired"} => batch[w] = {}
    /\ \A q \in batch[w] : row[q].state = "pending"

\* The UPDATE or INSERT statements that write the state of row r.
Writes(w, r, s) ==
    /\ row' \in [Requests -> Row]
    /\ row'[r].state = s
    /\ \A q \in Requests \ {r} : row'[q] = row[q]

\* An idle worker is on no row.
LEMMA SoloInit == Init => \A w \in Workers : SoloInv(w)
  BY DEF Init, SoloInv, Endorsed

\* How each statement changes the rows.
LEMMA SaveWrites ==
    ASSUME IInv, TypeOK', NEW w \in Workers
    PROVE  /\ Issue(w) => Writes(w, target[w], "pending") /\ target[w] \in Requests
           /\ SaveApproved(w) => Writes(w, target[w], "approved") /\ target[w] \in Requests
           /\ SaveExecuted(w) => Writes(w, target[w], "executed") /\ target[w] \in Requests
           /\ SaveFailed(w) => Writes(w, target[w], "failed") /\ target[w] \in Requests
           /\ SaveDenied(w) => Writes(w, target[w], "denied") /\ target[w] \in Requests
<1>0. row \in [Requests -> Row] /\ row' \in [Requests -> Row]
  BY DEF IInv, TypeOK
<1>1. ASSUME Issue(w) PROVE Writes(w, target[w], "pending") /\ target[w] \in Requests
  <2>1. target[w] \in Requests
    BY <1>1, OnRequest DEF Issue, Acting
  <2> QED BY <1>0, <1>1, <2>1 DEF Issue, Save, Writes, NoRow
<1>2. ASSUME SaveApproved(w) PROVE Writes(w, target[w], "approved") /\ target[w] \in Requests
  <2>1. target[w] \in Requests
    BY <1>2, OnRequest DEF SaveApproved, Acting
  <2> QED BY <1>0, <1>2, <2>1 DEF SaveApproved, Save, Writes, Row
<1>3. ASSUME SaveExecuted(w) PROVE Writes(w, target[w], "executed") /\ target[w] \in Requests
  <2>1. target[w] \in Requests
    BY <1>3, OnRequest DEF SaveExecuted, Endorsed
  <2> QED BY <1>0, <1>3, <2>1 DEF SaveExecuted, Save, Writes, Row
<1>4. ASSUME SaveFailed(w) PROVE Writes(w, target[w], "failed") /\ target[w] \in Requests
  <2>1. target[w] \in Requests
    BY <1>4, OnRequest DEF SaveFailed, Endorsed
  <2> QED BY <1>0, <1>4, <2>1 DEF SaveFailed, Save, Writes, Row
<1>5. ASSUME SaveDenied(w) PROVE Writes(w, target[w], "denied") /\ target[w] \in Requests
  <2>1. target[w] \in Requests
    BY <1>5, OnRequest DEF SaveDenied, Acting
  <2> QED BY <1>0, <1>5, <2>1 DEF SaveDenied, Save, Writes, Row
<1> QED BY <1>1, <1>2, <1>3, <1>4, <1>5

\* One worker on its own keeps SoloInv, also one that may be killed.
LEMMA SoloStep ==
    ASSUME NEW w, Workers = {w}, IInv, IInv', SoloInv(w), [Next]_vars
    PROVE  SoloInv(w)'
<1> USE DEF dbVars, history, workerVars, Begin, Goto, Finish, Endorsed
<1>0. /\ TypeOK /\ TypeOK' /\ w \in Workers
      /\ pc[w] \in Acting \cup Endorsed \cup {"expired"} => target[w] \in Requests
  BY OnRequest DEF IInv
<1>1. CASE \E u \in Users, r \in Requests :
              BeginRequest(w, u, r) \/ BeginApprove(w, u, r) \/ BeginDeny(w, u, r)
  BY <1>0, <1>1 DEF BeginRequest, BeginApprove, BeginDeny, SoloInv, TypeOK
<1>2. CASE Issue(w)
  BY <1>0, <1>2, SaveWrites DEF Writes, Issue, Save, SoloInv, TypeOK
<1>3. CASE SaveApproved(w)
  BY <1>0, <1>3, SaveWrites DEF Writes, SaveApproved, Save, SoloInv, TypeOK
<1>4. CASE SaveExecuted(w)
  BY <1>0, <1>4, SaveWrites DEF Writes, SaveExecuted, Save, SoloInv, TypeOK
<1>5. CASE SaveFailed(w)
  BY <1>0, <1>5, SaveWrites DEF Writes, SaveFailed, Save, SoloInv, TypeOK
<1>6. CASE SaveDenied(w)
  BY <1>0, <1>6, SaveWrites DEF Writes, SaveDenied, Save, SoloInv, TypeOK
<1>7. CASE SaveExpired(w)
  <2>1. PICK r \in batch[w] : /\ row' = [row EXCEPT ![r].state = "expired"]
                              /\ target' = [target EXCEPT ![w] = r]
                              /\ batch' = [batch EXCEPT ![w] = @ \ {r}]
    BY <1>7 DEF SaveExpired
  <2>2. r \in Requests /\ row'[r].state = "expired" /\ target'[w] = r
        /\ batch'[w] = batch[w] \ {r} /\ \A q \in Requests \ {r} : row'[q] = row[q]
    BY <1>0, <2>1 DEF TypeOK, Row
  <2> QED BY <1>0, <1>7, <2>2 DEF SaveExpired, SoloInv, TypeOK
<1>8. CASE AuditIssued(w) \/ AuditApproved(w) \/ AuditCreated(w) \/ AuditExecuted(w)
           \/ AuditDenied(w) \/ AuditExpired(w)
  BY <1>0, <1>8 DEF AuditIssued, AuditApproved, AuditCreated, AuditExecuted,
     AuditDenied, AuditExpired, SoloInv, TypeOK
<1>9. CASE ReadForApprove(w)
  BY <1>0, <1>9 DEF ReadForApprove, Actionable, Pending, SoloInv, TypeOK
<1>10. CASE ReadForDeny(w)
  BY <1>0, <1>10 DEF ReadForDeny, Actionable, Pending, SoloInv, TypeOK
<1>11. CASE Execute(w) \/ CreateUser(w)
  BY <1>0, <1>11 DEF Execute, CreateUser, SoloInv, TypeOK
<1>12. CASE WriteRefused(w) \/ HandlerRaises(w) \/ Crash(w)
  BY <1>0, <1>12 DEF WriteRefused, HandlerRaises, Crash, SoloInv, TypeOK
<1>13. CASE Sweep(w)
  BY <1>0, <1>13 DEF Sweep, Pending, SoloInv, TypeOK
<1>14. CASE UNCHANGED <<row, workerVars>>
  BY <1>14 DEF SoloInv
<1>15. CASE \/ \E u \in Users, v \in Editable :
                 \/ CreateRegular(u, v) \/ DeleteAccount(u, v)
                 \/ \E new \in {"regular", "superadmin"} : EditAccount(u, v, new)
            \/ \E v \in Editable : RegisterSuperadminPasskey(v)
            \/ Tick \/ UNCHANGED vars
  BY <1>14, <1>15 DEF CreateRegular, DeleteAccount, EditAccount,
     RegisterSuperadminPasskey, Tick, vars
<1> QED
  BY <1>1, <1>2, <1>3, <1>4, <1>5, <1>6, <1>7, <1>8, <1>9, <1>10, <1>11,
     <1>12, <1>13, <1>15 DEF Next, Step

\* With one worker every write follows the documented flow.
LEMMA LifecycleStep ==
    ASSUME NEW w, Workers = {w}, IInv, IInv', SoloInv(w), [Next]_vars,
           NEW r \in Requests, row'[r].state # row[r].state
    PROVE  <<row[r].state, row'[r].state>> \in Lifecycle
<1> USE DEF Endorsed, Lifecycle
<1>0. /\ TypeOK /\ TypeOK' /\ w \in Workers /\ WorkerInv /\ row \in [Requests -> Row]
  BY DEF IInv, TypeOK
<1>1. CASE Issue(w)
  BY <1>0, <1>1, SaveWrites DEF Writes, Issue, WorkerInv
<1>2. CASE SaveApproved(w)
  BY <1>0, <1>2, SaveWrites DEF Writes, SaveApproved, SoloInv
<1>3. CASE SaveExecuted(w)
  BY <1>0, <1>3, SaveWrites DEF Writes, SaveExecuted, SoloInv
<1>4. CASE SaveFailed(w)
  BY <1>0, <1>4, SaveWrites DEF Writes, SaveFailed, SoloInv
<1>5. CASE SaveDenied(w)
  BY <1>0, <1>5, SaveWrites DEF Writes, SaveDenied, SoloInv
<1>6. CASE SaveExpired(w)
  <2>1. PICK q \in batch[w] : row' = [row EXCEPT ![q].state = "expired"]
    BY <1>6 DEF SaveExpired
  <2>2. q \in Requests /\ r = q /\ row'[r].state = "expired"
    BY <1>0, <2>1 DEF TypeOK, Row
  <2> QED BY <2>2 DEF SoloInv
<1>7. ~(UNCHANGED row)
  OBVIOUS
<1>8. Issue(w) \/ SaveApproved(w) \/ SaveExecuted(w) \/ SaveFailed(w)
      \/ SaveDenied(w) \/ SaveExpired(w)
  BY <1>0, <1>7 DEF Next, Step, vars, dbVars, Begin, BeginRequest, BeginApprove,
     BeginDeny, AuditIssued, ReadForApprove, AuditApproved, Execute, CreateUser,
     AuditCreated, AuditExecuted, ReadForDeny, AuditDenied, AuditExpired,
     WriteRefused, Sweep, HandlerRaises, Crash, CreateRegular, DeleteAccount,
     EditAccount, RegisterSuperadminPasskey, Tick
<1> QED BY <1>1, <1>2, <1>3, <1>4, <1>5, <1>6, <1>8

\* approve(), deny() and sweep_expired(), called one at a time, move a row
\* only along the flow of the package's docstring: for every number of users
\* and requests, with account edits and kills of the worker in between.
THEOREM SerialLifecycle ==
    ASSUME NEW w, Workers = {w}
    PROVE  Spec => FollowsLifecycle
<1>1. Init => SoloInv(w)
  BY SoloInit
<1>2. IInv /\ IInv' /\ SoloInv(w) /\ [Next]_vars => SoloInv(w)'
  BY SoloStep
<1>3. IInv /\ IInv' /\ SoloInv(w) /\ [Next]_vars =>
         [\A r \in Requests :
             row'[r].state # row[r].state =>
                <<row[r].state, row'[r].state>> \in Lifecycle]_vars
  BY LifecycleStep
<1> QED BY <1>1, <1>2, <1>3, Invariant, PTL DEF Spec, FollowsLifecycle

\* With one worker no write touches a row in one of TERMINAL_STATES: what
\* loses a decision needs two calls that overlap.
THEOREM SerialTerminal ==
    ASSUME NEW w, Workers = {w}
    PROVE  Spec => TerminalIsFinal
<1>1. Init => SoloInv(w)
  BY SoloInit
<1>2. IInv /\ IInv' /\ SoloInv(w) /\ [Next]_vars => SoloInv(w)'
  BY SoloStep
<1>3. \A r \in Requests, s \in States :
         row[r].state \in Terminal => <<row[r].state, s>> \notin Lifecycle
  BY DEF Terminal, Lifecycle
<1>4. IInv /\ IInv' /\ SoloInv(w) /\ [Next]_vars =>
         [\A r \in Requests :
             row[r].state \in Terminal => row'[r].state = row[r].state]_vars
  BY <1>3, LifecycleStep DEF IInv, TypeOK, Row
<1> QED BY <1>1, <1>2, <1>4, Invariant, PTL DEF Spec, TerminalIsFinal

-----------------------------------------------------------------------------
(* One worker that is not killed.  The audit rows lag behind the row it is *)
(* on by what it has yet to write.                                         *)

\* The audit rows about request r.
About(rows, r) == {e \in rows : e.about = r}

\* Trail(r) when x is the row of r.
Path(r, x) ==
    LET requested == Entry("requested", r, x.requestedBy)
        approved == Entry("approved", r, x.approvedBy) IN
    CASE x.state = "absent" -> {}
      [] x.state = "pending" -> {requested}
      [] x.state = "denied" -> {requested, Entry("denied", r, x.deniedBy)}
      [] x.state = "expired" -> {requested, Entry("expired", r, NoUser)}
      [] x.state \in {"executed", "failed"} ->
            {requested, approved, Entry(x.state, r, NoUser)}
      [] OTHER -> {}

\* What a worker at label has told of r, the request it is on.
Written(r, x, label) ==
    CASE label = "issued" -> {}
      [] label \in {"approved", "denied", "expired"} ->
            {Entry("requested", r, x.requestedBy)}
      [] label \in Endorsed \ {"approved"} ->
            {Entry("requested", r, x.requestedBy), Entry("approved", r, x.approvedBy)}
      [] OTHER -> Path(r, x)

\* The log is complete but for what worker w has yet to write.
TrailInv(w) ==
    /\ \A r \in Requests :
          /\ r = target[w] => About(log, r) = Written(r, row[r], pc[w])
          /\ r # target[w] => About(log, r) = Path(r, row[r])
          /\ row[r].state = "approved" => pc[w] \in Endorsed /\ r = target[w]
    /\ pc[w] = "approved" => row[target[w]].approvedBy = actor[w]
    /\ pc[w] = "denied" => row[target[w]].deniedBy = actor[w]

\* The empty log is the trail of empty tables.
LEMMA TrailInit == Init => \A w \in Workers : TrailInv(w)
  BY DEF Init, TrailInv, Endorsed, About, Written, Path, NoRow

\* audit() adds one row to what is told of the request it names.
LEMMA AuditAbout ==
    ASSUME NEW event, NEW about, NEW by, Audit(event, about, by)
    PROVE  /\ About(log', about) = About(log, about) \cup {Entry(event, about, by)}
           /\ \A r : r # about => About(log', r) = About(log, r)
  BY DEF Audit, About, Entry

\* One worker on its own that is not killed keeps TrailInv.
LEMMA TrailStep ==
    ASSUME NEW w, Workers = {w}, Faulty = {}, IInv, IInv', SoloInv(w), SoloInv(w)',
           TrailInv(w), [Next]_vars
    PROVE  TrailInv(w)'
<1> USE DEF dbVars, history, workerVars, Begin, Goto, Finish, Endorsed
<1>0. /\ TypeOK /\ TypeOK' /\ w \in Workers /\ WorkerInv
      /\ row \in [Requests -> Row] /\ row' \in [Requests -> Row]
      /\ NoRequest \notin Requests
      /\ pc[w] \in Acting \cup Endorsed \cup {"expired"} => target[w] \in Requests
  BY OnRequest, ApprovalsAssumption DEF IInv, TypeOK
<1>1. CASE \E u \in Users, r \in Requests :
              BeginRequest(w, u, r) \/ BeginApprove(w, u, r) \/ BeginDeny(w, u, r)
  BY <1>0, <1>1 DEF BeginRequest, BeginApprove, BeginDeny,
     TrailInv, TypeOK, Written
<1>2. CASE Issue(w)
  BY <1>0, <1>2, SaveWrites DEF Writes, Issue, Save, TrailInv,
     TypeOK, Written, WorkerInv, Path
<1>3. CASE SaveApproved(w)
  <2>1. row'[target[w]].approvedBy = actor[w]
    BY <1>0, <1>3 DEF SaveApproved, Save, Acting, Row
  <2>2. row'[target[w]].requestedBy = row[target[w]].requestedBy
    BY <1>0, <1>3 DEF SaveApproved, Save, Acting, Row
  <2> QED
    BY <1>0, <1>3, <2>1, <2>2, SaveWrites DEF Writes, SaveApproved,
       Save, TrailInv, TypeOK, Written, SoloInv, Path
<1>4. CASE SaveExecuted(w) \/ SaveFailed(w)
  <2>1. /\ row'[target[w]].approvedBy = row[target[w]].approvedBy
        /\ row'[target[w]].requestedBy = row[target[w]].requestedBy
    BY <1>0, <1>4 DEF SaveExecuted, SaveFailed, Save, Acting, Row
  <2> QED
    BY <1>0, <1>4, <2>1, SaveWrites DEF Writes, SaveExecuted, SaveFailed,
       Save, TrailInv, TypeOK, Written, SoloInv
<1>5. CASE SaveDenied(w)
  <2>1. row'[target[w]].deniedBy = actor[w]
    BY <1>0, <1>5 DEF SaveDenied, Save, Acting, Row
  <2>2. row'[target[w]].requestedBy = row[target[w]].requestedBy
    BY <1>0, <1>5 DEF SaveDenied, Save, Acting, Row
  <2> QED
    BY <1>0, <1>5, <2>1, <2>2, SaveWrites DEF Writes, SaveDenied,
       Save, TrailInv, TypeOK, Written, SoloInv, Path
<1>6. CASE SaveExpired(w)
  <2>1. PICK r \in batch[w] : /\ row' = [row EXCEPT ![r].state = "expired"]
                              /\ target' = [target EXCEPT ![w] = r]
    BY <1>6 DEF SaveExpired
  <2>2. /\ r \in Requests /\ row'[r].state = "expired" /\ target'[w] = r
        /\ row'[r].requestedBy = row[r].requestedBy
        /\ \A q \in Requests \ {r} : row'[q] = row[q]
        /\ row[r].state = "pending"
    BY <1>0, <2>1 DEF TypeOK, Row, SoloInv
  <2>3. \A q \in Requests : About(log, q) = Path(q, row[q])
    BY <1>0, <1>6, <2>2 DEF SaveExpired, TrailInv, Written
  <2> QED
    BY <1>0, <1>6, <2>2, <2>3 DEF SaveExpired, TrailInv, TypeOK,
       Written, Path
<1>7. CASE AuditIssued(w)
  <2>1. About(log', target[w]) = About(log, target[w]) \cup {Entry("requested", target[w], actor[w])}
        /\ \A r : r # target[w] => About(log', r) = About(log, r)
    BY <1>7, AuditAbout DEF AuditIssued
  <2>2. target[w] \in Requests /\ About(log, target[w]) = Written(target[w], row[target[w]], pc[w])
    BY <1>0, <1>7 DEF AuditIssued, TrailInv, Acting
  <2>3. About(log', target[w]) = Written(target[w], row[target[w]], pc'[w])
    BY <1>0, <1>7, <2>1, <2>2 DEF AuditIssued, TrailInv, SoloInv, TypeOK, Written, Path, WorkerInv, Acting
  <2> QED BY <1>0, <1>7, <2>1, <2>2, <2>3 DEF AuditIssued, TrailInv, SoloInv, TypeOK, Written
<1>8. CASE AuditApproved(w)
  <2>1. About(log', target[w]) = About(log, target[w]) \cup {Entry("approved", target[w], actor[w])}
        /\ \A r : r # target[w] => About(log', r) = About(log, r)
    BY <1>8, AuditAbout DEF AuditApproved
  <2>2. target[w] \in Requests /\ About(log, target[w]) = Written(target[w], row[target[w]], pc[w])
    BY <1>0, <1>8 DEF AuditApproved, TrailInv, Acting
  <2>3. About(log', target[w]) = Written(target[w], row[target[w]], pc'[w])
    BY <1>0, <1>8, <2>1, <2>2 DEF AuditApproved, TrailInv, SoloInv, TypeOK, Written, Path
  <2> QED BY <1>0, <1>8, <2>1, <2>2, <2>3 DEF AuditApproved, TrailInv, SoloInv, TypeOK, Written
<1>9. CASE AuditCreated(w)
  <2>1. \A r \in Requests : r # Email[target[w]]
    BY <1>0, <1>9, ApprovalsAssumption DEF AuditCreated
  <2>2. \A r \in Requests : About(log', r) = About(log, r)
    BY <1>9, <2>1, AuditAbout DEF AuditCreated
  <2> QED BY <1>0, <1>9, <2>2 DEF AuditCreated, TrailInv, TypeOK, Written
<1>10. CASE AuditExecuted(w)
  <2>1. About(log', target[w]) = About(log, target[w]) \cup {Entry(pc[w], target[w], NoUser)}
        /\ \A r : r # target[w] => About(log', r) = About(log, r)
    BY <1>10, AuditAbout DEF AuditExecuted
  <2>2. target[w] \in Requests /\ About(log, target[w]) = Written(target[w], row[target[w]], pc[w])
    BY <1>0, <1>10 DEF AuditExecuted, TrailInv, Acting
  <2>3. About(log', target[w]) = Written(target[w], row[target[w]], pc'[w])
    <3>1. row[target[w]].state = pc[w] /\ pc[w] \in {"executed", "failed"} /\ pc'[w] = "idle"
      BY <1>0, <1>10 DEF AuditExecuted, SoloInv, TypeOK
    <3>2. Written(target[w], row[target[w]], pc'[w]) = Path(target[w], row[target[w]])
      BY <3>1 DEF Written
    <3>3. Path(target[w], row[target[w]]) =
             Written(target[w], row[target[w]], pc[w]) \cup {Entry(pc[w], target[w], NoUser)}
      <4>1. CASE pc[w] = "executed"
        BY <3>1, <4>1 DEF Written, Path
      <4>2. CASE pc[w] = "failed"
        BY <3>1, <4>2 DEF Written, Path
      <4> QED BY <3>1, <4>1, <4>2
    <3> QED BY <2>1, <2>2, <3>2, <3>3
  <2> QED BY <1>0, <1>10, <2>1, <2>2, <2>3 DEF AuditExecuted, TrailInv, SoloInv, TypeOK, Written
<1>11. CASE AuditDenied(w)
  <2>1. About(log', target[w]) = About(log, target[w]) \cup {Entry("denied", target[w], actor[w])}
        /\ \A r : r # target[w] => About(log', r) = About(log, r)
    BY <1>11, AuditAbout DEF AuditDenied
  <2>2. target[w] \in Requests /\ About(log, target[w]) = Written(target[w], row[target[w]], pc[w])
    BY <1>0, <1>11 DEF AuditDenied, TrailInv, Acting
  <2>3. About(log', target[w]) = Written(target[w], row[target[w]], pc'[w])
    BY <1>0, <1>11, <2>1, <2>2 DEF AuditDenied, TrailInv, SoloInv, TypeOK, Written, Path
  <2> QED BY <1>0, <1>11, <2>1, <2>2, <2>3 DEF AuditDenied, TrailInv, SoloInv, TypeOK, Written
<1>12. CASE AuditExpired(w)
  <2>1. About(log', target[w]) = About(log, target[w]) \cup {Entry("expired", target[w], NoUser)}
        /\ \A r : r # target[w] => About(log', r) = About(log, r)
    BY <1>12, AuditAbout DEF AuditExpired
  <2>2. target[w] \in Requests /\ About(log, target[w]) = Written(target[w], row[target[w]], pc[w])
    BY <1>0, <1>12 DEF AuditExpired, TrailInv, Acting
  <2>3. About(log', target[w]) = Written(target[w], row[target[w]], pc'[w])
    BY <1>0, <1>12, <2>1, <2>2 DEF AuditExpired, TrailInv, SoloInv, TypeOK, Written, Path
  <2> QED BY <1>0, <1>12, <2>1, <2>2, <2>3 DEF AuditExpired, TrailInv, SoloInv, TypeOK, Written
<1>13. CASE ReadForApprove(w) \/ ReadForDeny(w)
  BY <1>0, <1>13 DEF ReadForApprove, ReadForDeny, TrailInv,
     TypeOK, Written
<1>14. CASE Execute(w) \/ CreateUser(w)
  BY <1>0, <1>14 DEF Execute, CreateUser, TrailInv, TypeOK,
     Written
<1>15. CASE WriteRefused(w)
  BY <1>0, <1>15 DEF WriteRefused, TrailInv, TypeOK, Written
<1>16. CASE Sweep(w)
  BY <1>0, <1>16 DEF Sweep, TrailInv, TypeOK, Written
<1>17. ASSUME UNCHANGED <<row, workerVars>>, \A r \in Requests : About(log', r) = About(log, r)
       PROVE  TrailInv(w)'
  BY <1>17 DEF TrailInv
<1>18. ASSUME NEW u \in Users, NEW v \in Editable, CreateRegular(u, v)
       PROVE  TrailInv(w)'
  <2>1. v \notin Requests
    BY ApprovalsAssumption
  <2>2. \A r \in Requests : About(log', r) = About(log, r)
    BY <1>18, <2>1, AuditAbout DEF CreateRegular
  <2> QED BY <1>17, <1>18, <2>2 DEF CreateRegular
<1>19. ASSUME NEW v \in Editable, RegisterSuperadminPasskey(v)
       PROVE  TrailInv(w)'
  <2>1. v \notin Requests
    BY ApprovalsAssumption
  <2>2. \A r \in Requests : About(log', r) = About(log, r)
    BY <1>19, <2>1 DEF RegisterSuperadminPasskey, About, Entry
  <2> QED BY <1>17, <1>19, <2>2 DEF RegisterSuperadminPasskey
<1>20. CASE \/ \E u \in Users, v \in Editable :
                 \/ DeleteAccount(u, v)
                 \/ \E new \in {"regular", "superadmin"} : EditAccount(u, v, new)
            \/ Tick \/ UNCHANGED vars
  BY <1>17, <1>20 DEF DeleteAccount, EditAccount, Tick, vars
<1> QED
  BY <1>1, <1>2, <1>3, <1>4, <1>5, <1>6, <1>7, <1>8, <1>9, <1>10, <1>11,
     <1>12, <1>13, <1>14, <1>15, <1>16, <1>18, <1>19, <1>20
     DEF Next, Step, HandlerRaises, Crash

\* request_approval(), approve(), deny() and sweep_expired(), called one at a
\* time and not killed, leave for every row exactly the audit rows of its path,
\* with the names the row shows: for every number of users and requests, with
\* account edits in between.
THEOREM SerialTrail ==
    ASSUME NEW w, Workers = {w}, Faulty = {}
    PROVE  Spec => []AuditTrailComplete
<1>1. Init => SoloInv(w) /\ TrailInv(w)
  BY SoloInit, TrailInit
<1>2. IInv /\ IInv' /\ SoloInv(w) /\ [Next]_vars => SoloInv(w)'
  BY SoloStep
<1>3. /\ IInv /\ IInv' /\ SoloInv(w) /\ SoloInv(w)' /\ TrailInv(w) /\ [Next]_vars
      => TrailInv(w)'
  BY TrailStep
<1>4. IInv /\ TrailInv(w) => AuditTrailComplete
  BY DEF IInv, TypeOK, TrailInv, AuditTrailComplete, About, Written, Path, Trail, Endorsed
<1> QED BY <1>1, <1>2, <1>3, <1>4, Invariant, PTL DEF Spec
=============================================================================
