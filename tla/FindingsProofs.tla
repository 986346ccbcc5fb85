--------------------------- MODULE FindingsProofs ---------------------------
(***************************************************************************)
(* Theorems about Findings, for every set of users, findings and workers.  *)
(***************************************************************************)
EXTENDS Findings, TLAPS

-----------------------------------------------------------------------------
(* The inductive invariant.  A verdict or a claim is saved long after it   *)
(* was allowed, over a row that may have been edited, deleted and brought  *)
(* back.  What the request that saves it relies on is that every row and   *)
(* every copy of the finding names one reporter.                           *)

\* u may review what r has reported.
Entitled(u, r) == r # u \/ u \in Superadmins

RowInv ==
    \A f \in Ids :
        /\ Exists(f) => Sound(row[f]) /\ row[f].reportedBy \in Users /\ row[f].vendor \in Vendors
        /\ ~Exists(f) => row[f].reportedBy = NoUser

\* The request is about a finding.
TargetInv == \A w \in Workers : pc[w] # "idle" => target[w] \in Ids

\* What a save or the steps after it use of the worker's copy.
CopyInv ==
    \A w \in Workers : pc[w] \in {"edit", "assign", "hosts"} =>
        mine[w].reportedBy \in Users /\ mine[w].vendor \in Vendors

\* The copy an edit is about to save is sound, and its reporter is that of the
\* row and of every other copy.
EditInv ==
    \A w \in Workers : pc[w] = "edit" =>
        /\ Sound(mine[w]) /\ mine[w].state # "absent"
        /\ Exists(target[w]) => row[target[w]].reportedBy = mine[w].reportedBy
        /\ \A x \in Workers :
              pc[x] = "edit" /\ target[x] = target[w] =>
                  mine[x].reportedBy = mine[w].reportedBy

\* A claim or verdict about to be saved is by someone entitled to it, as far as
\* the row and every copy an edit may bring back can tell.
ReviewInv ==
    \A w \in Workers : pc[w] = "review" =>
        /\ goal[w] \in {"pending", "under_review", "approved", "rejected"}
        /\ goal[w] # "pending" =>
              /\ actor[w] \in Authority
              /\ Exists(target[w]) => Entitled(actor[w], row[target[w]].reportedBy)
              /\ \A x \in Workers :
                    pc[x] = "edit" /\ target[x] = target[w] =>
                        Entitled(actor[w], mine[x].reportedBy)

\* Every row, and every copy an edit may bring a row back from, names the user
\* who submitted the finding; nobody works on a finding not yet submitted.
OriginInv ==
    /\ \A f \in Ids :
          /\ Exists(f) => row[f].reportedBy = reporter[f]
          /\ reporter[f] = NoUser => ~Exists(f) /\ \A w \in Workers : target[w] # f
    /\ \A w \in Workers : pc[w] = "edit" => mine[w].reportedBy = reporter[target[w]]

IInv ==
    /\ TypeOK
    /\ OriginInv
    /\ RowInv
    /\ TargetInv
    /\ CopyInv
    /\ EditInv
    /\ ReviewInv

-----------------------------------------------------------------------------
\* The empty tables satisfy it.
LEMMA InvariantInit == Init => IInv
  BY FindingsAssumption DEF Init, IInv, TypeOK, OriginInv, RowInv, TargetInv, CopyInv,
     EditInv, ReviewInv, NoRow, Row, States, Tellings, Labels, Exists

\* A worker that goes on to neither an edit nor a review of its own, and leaves
\* the rows alone, disturbs nobody.
LEMMA Elsewhere ==
    ASSUME IInv, NEW w \in Workers, UNCHANGED row,
           \A x \in Workers \ {w} :
              /\ pc'[x] = pc[x] /\ actor'[x] = actor[x] /\ target'[x] = target[x]
              /\ mine'[x] = mine[x] /\ goal'[x] = goal[x],
           pc'[w] \notin {"edit", "review"},
           pc'[w] # "idle" => target'[w] \in Ids,
           pc'[w] \in {"assign", "hosts"} =>
              mine'[w].reportedBy \in Users /\ mine'[w].vendor \in Vendors
    PROVE  (RowInv /\ TargetInv /\ CopyInv /\ EditInv /\ ReviewInv)'
<1>1. RowInv'
  BY DEF IInv, RowInv, Exists, Sound
<1>2. TargetInv'
  BY DEF IInv, TargetInv
<1>3. CopyInv'
  BY DEF IInv, CopyInv
<1>4. EditInv'
  BY DEF IInv, EditInv, Exists, Sound
<1>5. ReviewInv'
  BY DEF IInv, ReviewInv, Exists, Entitled
<1> QED BY <1>1, <1>2, <1>3, <1>4, <1>5

\* An idle worker's copy is the absent row.
LEMMA NoRowTyped == NoRow \in Row
  BY DEF NoRow, Row, States

\* finding_edit: what the save of a form makes of a row is a row, of the same
\* reporter.
LEMMA EditedRow ==
    ASSUME NEW x \in Row, NEW v \in Vendors
    PROVE  /\ [x EXCEPT !.vendor = v] \in Row /\ Saved([x EXCEPT !.vendor = v]) \in Row
           /\ Saved([x EXCEPT !.vendor = v]).reportedBy = x.reportedBy
           /\ Saved([x EXCEPT !.vendor = v]).vendor = v
           /\ [x EXCEPT !.vendor = v].vendor = v
           /\ [x EXCEPT !.vendor = v].state = x.state
           /\ [x EXCEPT !.vendor = v].reportedBy = x.reportedBy
           /\ [x EXCEPT !.vendor = v].reviewedBy = x.reviewedBy
  BY DEF Row, Saved, NoRow, States

\* A step that leaves the reporters and takes up no finding.
LEMMA OriginElsewhere ==
    ASSUME OriginInv, UNCHANGED reporter,
           \A f \in Ids : row'[f].state # "absent" =>
              Exists(f) /\ row'[f].reportedBy = row[f].reportedBy,
           \A x \in Workers : target'[x] = target[x] \/ target'[x] \notin Ids,
           \A x \in Workers : pc'[x] = "edit" =>
              pc[x] = "edit" /\ target'[x] = target[x] /\ mine'[x] = mine[x]
    PROVE  OriginInv'
  BY DEF OriginInv, Exists

\* A request takes up a finding that exists; an edit copies its row.
LEMMA OriginTaken ==
    ASSUME OriginInv, UNCHANGED reporter, NEW w \in Workers, NEW f \in Ids, Exists(f),
           \A g \in Ids : row'[g].state # "absent" =>
              Exists(g) /\ row'[g].reportedBy = row[g].reportedBy,
           target'[w] = f, pc'[w] = "edit" => mine'[w] = row[f],
           \A x \in Workers \ {w} :
              pc'[x] = pc[x] /\ target'[x] = target[x] /\ mine'[x] = mine[x]
    PROVE  OriginInv'
  BY DEF OriginInv, Exists

\* finding_new names the user, and every later step keeps that name.
LEMMA OriginStep == ASSUME IInv, [Next]_vars PROVE OriginInv'
<1> USE FindingsAssumption DEF IInv, tables, locals, history
<1>0. /\ row \in [Ids -> Row] /\ pc \in [Workers -> Labels]
      /\ target \in [Workers -> Ids \cup {NoId}] /\ mine \in [Workers -> Row]
      /\ reporter \in [Ids -> Users \cup {NoUser}]
  BY DEF TypeOK
<1>1. ASSUME NEW w \in Workers, NEW u \in Users, NEW f \in Ids, NEW v \in Vendors,
             Create(w, u, f, v)
      PROVE  OriginInv'
  <2>1. /\ ~Exists(f) /\ \A x \in Workers : target[x] # f
        /\ row'[f].reportedBy = u /\ \A g \in Ids \ {f} : row'[g] = row[g]
        /\ reporter'[f] = u /\ \A g \in Ids \ {f} : reporter'[g] = reporter[g]
        /\ pc'[w] = "assign" /\ target'[w] = f
        /\ \A x \in Workers \ {w} : pc'[x] = pc[x] /\ target'[x] = target[x] /\ mine'[x] = mine[x]
    BY <1>0, <1>1 DEF Create, Take, OriginInv
  <2>2. \A x \in Workers : pc[x] = "edit" => target[x] \in Ids
    BY DEF TargetInv
  <2> QED BY <2>1, <2>2 DEF OriginInv, Exists
<1>2. ASSUME NEW w \in Workers, NEW u \in Users, NEW f \in Ids,
             \/ ReadForEdit(w, u, f) \/ ReadForResubmit(w, u, f) \/ Delete(w, u, f)
             \/ \E next \in {"under_review", "approved", "rejected"} :
                   ReadForReview(w, u, f, next)
      PROVE  OriginInv'
  <2>1. /\ Exists(f) /\ UNCHANGED reporter
        /\ target'[w] = f /\ (pc'[w] = "edit" => mine'[w] = row[f])
        /\ \A x \in Workers \ {w} : pc'[x] = pc[x] /\ target'[x] = target[x] /\ mine'[x] = mine[x]
    BY <1>0, <1>2 DEF ReadForEdit, ReadForResubmit, Delete, ReadForReview, Take
  <2>2. \A g \in Ids : row'[g] \in {row[g], NoRow}
    BY <1>0, <1>2 DEF ReadForEdit, ReadForResubmit, Delete, ReadForReview
  <2>3. \A g \in Ids : row'[g].state # "absent" =>
              Exists(g) /\ row'[g].reportedBy = row[g].reportedBy
    BY <2>2 DEF NoRow, Exists
  <2> QED BY <2>1, <2>3, OriginTaken
<1>3. ASSUME NEW w \in Workers, SaveEdit(w)
      PROVE  OriginInv'
  <2>1. PICK f \in Ids : f = target[w]
    BY <1>3 DEF SaveEdit, TargetInv
  <2>2. /\ row'[f].reportedBy = mine[w].reportedBy /\ \A g \in Ids \ {f} : row'[g] = row[g]
        /\ \A x \in Workers \ {w} : pc'[x] = pc[x] /\ mine'[x] = mine[x]
        /\ pc[w] = "edit" /\ pc'[w] # "edit" /\ UNCHANGED <<target, reporter>>
    BY <1>0, <1>3, <2>1 DEF SaveEdit, Row
  <2>3. mine[w].reportedBy = reporter[f] /\ mine[w].reportedBy \in Users
    BY <2>1, <2>2 DEF OriginInv, CopyInv
  <2> QED BY <2>1, <2>2, <2>3 DEF OriginInv, Exists
<1>4. ASSUME NEW w \in Workers,
             \/ AssignReporter(w) \/ SyncHosts(w) \/ AuditDeleted(w)
             \/ SaveReview(w) \/ AuditReview(w) \/ Crash(w)
      PROVE  OriginInv'
  <2>1. /\ \A x \in Workers \ {w} : pc'[x] = pc[x] /\ target'[x] = target[x] /\ mine'[x] = mine[x]
        /\ pc'[w] # "edit" /\ target'[w] \in {target[w], NoId} /\ UNCHANGED reporter
    BY <1>0, <1>4 DEF AssignReporter, SyncHosts, AuditDeleted, SaveReview, AuditReview,
       Crash, Goto, Finish, Clear
  <2>2. \A f \in Ids : row'[f].state # "absent" =>
              Exists(f) /\ row'[f].reportedBy = row[f].reportedBy
    <3>1. CASE row' = row
      BY <3>1 DEF Exists
    <3>2. CASE /\ Exists(target[w])
               /\ row' = [row EXCEPT ![target[w]].state = goal[w],
                                     ![target[w]].reviewedBy = actor[w]]
      BY <1>0, <3>2 DEF Exists, Row
    <3> QED BY <1>4, <3>1, <3>2 DEF AssignReporter, SyncHosts, AuditDeleted, SaveReview,
               AuditReview, Crash
  <2> QED BY <2>1, <2>2, OriginElsewhere
<1>5. ASSUME UNCHANGED <<row, reporter, pc, target, mine>> PROVE OriginInv'
  BY <1>5 DEF OriginInv, Exists
<1>6. ASSUME NEW u \in Users, NEW x \in Users, NEW f \in Ids,
             AddCollaborator(u, f, x) \/ RemoveCollaborator(u, f, x)
      PROVE  UNCHANGED <<row, reporter, pc, target, mine>>
  BY <1>6 DEF AddCollaborator, RemoveCollaborator
<1>7. CASE UNCHANGED vars
  BY <1>5, <1>7 DEF vars
<1> QED BY <1>1, <1>2, <1>3, <1>4, <1>5, <1>6, <1>7 DEF Next, Step

\* Each statement of the views preserves the invariant, whoever comes between.
LEMMA InvariantStep == IInv /\ [Next]_vars => IInv'
<1> SUFFICES ASSUME IInv, [Next]_vars PROVE IInv'
  OBVIOUS
<1> USE FindingsAssumption
    DEF IInv, tables, locals, history, Goto, Clear, Finish, Take
<1>0. OriginInv'
  BY OriginStep
<1>1. ASSUME NEW w \in Workers, NEW u \in Users, NEW f \in Ids, NEW v \in Vendors,
            Create(w, u, f, v)
     PROVE  IInv'
  <2>0. ~Exists(f) /\ \A x \in Workers : target[x] # f
    BY <1>1 DEF Create, OriginInv
  <2>1. TypeOK'
    BY <1>1, <2>0 DEF Create, Submitted, TypeOK, Row, States, Tellings, Labels, Saved, NoRow
  <2>2. RowInv'
    BY <1>1, <2>0, <2>1 DEF Create, TypeOK, Row, Saved, Authority, Submitted, RowInv, Exists,
       Sound, NoRow
  <2>3. TargetInv'
    BY <1>1, <2>0, <2>1 DEF Create, TypeOK, Row, Saved, Authority, Submitted, TargetInv
  <2>4. CopyInv'
    BY <1>1, <2>0, <2>1 DEF Create, TypeOK, Row, Saved, Authority, Submitted, CopyInv, Exists,
       NoRow, RowInv
  <2>5. EditInv'
    BY <1>1, <2>0, <2>1 DEF Create, TypeOK, Row, Saved, Authority, Submitted, EditInv, Exists,
       Sound, RowInv, NoRow
  <2>6. ReviewInv'
    BY <1>1, <2>0, <2>1 DEF Create, TypeOK, Row, Saved, Authority, Submitted, ReviewInv, Exists,
       Entitled, EditInv, RowInv, NoRow
  <2> QED BY <1>0, <2>1, <2>2, <2>3, <2>4, <2>5, <2>6
<1>2. ASSUME NEW w \in Workers, NEW u \in Users, NEW f \in Ids, ReadForEdit(w, u, f)
     PROVE  IInv'
  <2>1. TypeOK'
    BY <1>2 DEF ReadForEdit, TypeOK, States, Labels
  <2>2. RowInv'
    BY <1>2, <2>1 DEF ReadForEdit, TypeOK, Row, RowInv, Exists, Sound, NoRow
  <2>3. TargetInv'
    BY <1>2, <2>1 DEF ReadForEdit, TypeOK, Row, TargetInv
  <2>4. CopyInv'
    BY <1>2, <2>1 DEF ReadForEdit, TypeOK, Row, CopyInv, Exists, NoRow, RowInv
  <2>5. EditInv'
    BY <1>2, <2>1 DEF ReadForEdit, TypeOK, Row, EditInv, Exists, Sound, RowInv,
       NoRow
  <2>6. ReviewInv'
    BY <1>2, <2>1 DEF ReadForEdit, TypeOK, Row, ReviewInv, Exists, Entitled,
       EditInv, RowInv, NoRow
  <2> QED BY <1>0, <2>1, <2>2, <2>3, <2>4, <2>5, <2>6
<1>3. ASSUME NEW w \in Workers, NEW u \in Users, NEW f \in Ids, Delete(w, u, f)
     PROVE  IInv'
  <2>1. TypeOK'
    BY <1>3 DEF Delete, TypeOK, Row, NoRow, States, Labels
  <2>2. RowInv'
    BY <1>3, <2>1 DEF Delete, TypeOK, Row, RowInv, Exists, Sound, NoRow
  <2>3. TargetInv'
    BY <1>3, <2>1 DEF Delete, TypeOK, Row, TargetInv
  <2>4. CopyInv'
    BY <1>3, <2>1 DEF Delete, TypeOK, Row, CopyInv, Exists, NoRow, RowInv
  <2>5. EditInv'
    BY <1>3, <2>1 DEF Delete, TypeOK, Row, EditInv, Exists, Sound, RowInv, NoRow
  <2>6. ReviewInv'
    BY <1>3, <2>1 DEF Delete, TypeOK, Row, ReviewInv, Exists, Entitled, EditInv,
       RowInv, NoRow
  <2> QED BY <1>0, <2>1, <2>2, <2>3, <2>4, <2>5, <2>6
<1>4. ASSUME NEW w \in Workers, NEW u \in Users, NEW f \in Ids, ReadForResubmit(w, u, f)
     PROVE  IInv'
  <2>1. TypeOK'
    BY <1>4 DEF ReadForResubmit, TypeOK, Row, NoRow, States, Labels
  <2>2. RowInv'
    BY <1>4, <2>1 DEF ReadForResubmit, TypeOK, Row, RowInv, Exists, Sound, NoRow
  <2>3. TargetInv'
    BY <1>4, <2>1 DEF ReadForResubmit, TypeOK, Row, TargetInv
  <2>4. CopyInv'
    BY <1>4, <2>1 DEF ReadForResubmit, TypeOK, Row, CopyInv, Exists, NoRow,
       RowInv
  <2>5. EditInv'
    BY <1>4, <2>1 DEF ReadForResubmit, TypeOK, Row, EditInv, Exists, Sound,
       RowInv, NoRow
  <2>6. ReviewInv'
    BY <1>4, <2>1 DEF ReadForResubmit, TypeOK, Row, ReviewInv, Exists, Entitled,
       EditInv, RowInv, NoRow
  <2> QED BY <1>0, <2>1, <2>2, <2>3, <2>4, <2>5, <2>6
<1>5. ASSUME NEW w \in Workers, NEW u \in Users, NEW f \in Ids,
            NEW next \in {"under_review", "approved", "rejected"},
            ReadForReview(w, u, f, next)
     PROVE  IInv'
  <2>1. TypeOK'
    BY <1>5 DEF ReadForReview, TypeOK, Row, NoRow, States, Labels
  <2>2. RowInv'
    BY <1>5, <2>1 DEF ReadForReview, TypeOK, Row, CanReview, RowInv, Exists,
       Sound, NoRow
  <2>3. TargetInv'
    BY <1>5, <2>1 DEF ReadForReview, TypeOK, Row, CanReview, TargetInv
  <2>4. CopyInv'
    BY <1>5, <2>1 DEF ReadForReview, TypeOK, Row, CanReview, CopyInv, Exists,
       NoRow, RowInv
  <2>5. EditInv'
    BY <1>5, <2>1 DEF ReadForReview, TypeOK, Row, CanReview, EditInv, Exists,
       Sound, RowInv, NoRow
  <2>6. ReviewInv'
    BY <1>5, <2>1 DEF ReadForReview, TypeOK, Row, CanReview, ReviewInv, Exists,
       Entitled, EditInv, RowInv, NoRow
  <2> QED BY <1>0, <2>1, <2>2, <2>3, <2>4, <2>5, <2>6
<1>6. ASSUME NEW w \in Workers, AssignReporter(w)
     PROVE  IInv'
  <2>1. TypeOK'
    <3>1. target[w] \in Ids /\ mine[w].reportedBy \in Users
      BY <1>6 DEF AssignReporter, TargetInv, CopyInv
    <3>2. researchers' \in [Ids -> SUBSET Users]
      BY <1>6, <3>1 DEF AssignReporter, TypeOK
    <3>3. pc' \in [Workers -> Labels] /\ mine' \in [Workers -> Row]
      BY <1>6, NoRowTyped DEF AssignReporter, TypeOK, Labels
    <3> QED BY <1>6, <3>2, <3>3 DEF AssignReporter, TypeOK, States
  <2>2. (RowInv /\ TargetInv /\ CopyInv /\ EditInv /\ ReviewInv)'
    BY <1>6, Elsewhere DEF AssignReporter, TypeOK, TargetInv, CopyInv
  <2> QED BY <1>0, <2>1, <2>2
<1>7. ASSUME NEW w \in Workers, SyncHosts(w)
     PROVE  IInv'
  <2>1. TypeOK'
    <3>1. target[w] \in Ids /\ mine[w].vendor \in Vendors
      BY <1>7 DEF SyncHosts, TargetInv, CopyInv
    <3>2. hosts' \in [Ids -> SUBSET Vendors]
      BY <1>7, <3>1 DEF SyncHosts, TypeOK
    <3>3. pc' \in [Workers -> Labels] /\ mine' \in [Workers -> Row]
      BY <1>7, NoRowTyped DEF SyncHosts, TypeOK, Labels
    <3> QED BY <1>7, <3>2, <3>3 DEF SyncHosts, TypeOK, States
  <2>2. (RowInv /\ TargetInv /\ CopyInv /\ EditInv /\ ReviewInv)'
    BY <1>7, Elsewhere DEF SyncHosts, TypeOK, TargetInv, CopyInv
  <2> QED BY <1>0, <2>1, <2>2
<1>8. ASSUME NEW w \in Workers, SaveEdit(w)
      PROVE  IInv'
  <2> DEFINE new(v) == [mine[w] EXCEPT !.vendor = v]
  <2>1. mine[w] \in Row /\ target[w] \in Ids
    BY <1>8 DEF SaveEdit, TypeOK, TargetInv
  <2>2. PICK v \in Vendors : /\ row' = [row EXCEPT ![target[w]] = new(v)]
                            /\ mine' = [mine EXCEPT ![w] = Saved(new(v))]
    BY <1>8 DEF SaveEdit
  <2>3. /\ new(v) \in Row /\ Saved(new(v)) \in Row
        /\ new(v).vendor = v /\ new(v).state = mine[w].state
        /\ new(v).reportedBy = mine[w].reportedBy /\ new(v).reviewedBy = mine[w].reviewedBy
        /\ Saved(new(v)).reportedBy = mine[w].reportedBy /\ Saved(new(v)).vendor = v
    BY <2>1, EditedRow
  <2> HIDE DEF new
  <2>4. TypeOK'
    <3>1. pc' \in [Workers -> Labels]
      BY <1>8 DEF SaveEdit, TypeOK, Labels
    <3> QED BY <1>8, <2>2, <2>3, <3>1 DEF SaveEdit, TypeOK
  <2>5. RowInv'
    <3>1. /\ Sound(mine[w]) /\ mine[w].state # "absent"
          /\ mine[w].reportedBy \in Users
      BY <1>8 DEF SaveEdit, EditInv, CopyInv
    <3>2. Sound(new(v))
      BY <2>3, <3>1 DEF Sound
    <3>3. \A f \in Ids : row'[f] = IF f = target[w] THEN new(v) ELSE row[f]
      BY <2>1, <2>2 DEF TypeOK
    <3> QED BY <2>3, <3>1, <3>2, <3>3 DEF RowInv, Exists, Sound
  <2>6. TargetInv'
    BY <1>8 DEF SaveEdit, TypeOK, TargetInv
  <2>7. CopyInv'
    BY <1>8, <2>2, <2>3 DEF SaveEdit, TypeOK, CopyInv
  <2>8. \A f \in Ids : Exists(f)' => row'[f].reportedBy =
                         IF f = target[w] THEN mine[w].reportedBy ELSE row[f].reportedBy
    BY <2>1, <2>2, <2>3 DEF TypeOK
  <2>9. \A f \in Ids : f # target[w] => (Exists(f)' <=> Exists(f))
    BY <2>1, <2>2 DEF TypeOK, Exists
  <2>10. \A x \in Workers : pc'[x] \in {"edit", "review"} =>
             /\ pc[x] = pc'[x] /\ x # w /\ mine'[x] = mine[x]
             /\ target[x] \in Ids
    BY <1>8, <2>2 DEF SaveEdit, TypeOK, TargetInv
  <2>11. EditInv'
    BY <1>8, <2>8, <2>9, <2>10 DEF SaveEdit, EditInv, Sound
  <2>12. ReviewInv'
    BY <1>8, <2>8, <2>9, <2>10 DEF SaveEdit, ReviewInv, Entitled
  <2> QED BY <1>0, <2>4, <2>5, <2>6, <2>7, <2>11, <2>12
<1>9. ASSUME NEW w \in Workers, AuditDeleted(w)
     PROVE  IInv'
  <2>1. TypeOK'
    BY <1>9 DEF AuditDeleted, TypeOK, Row, NoRow, States, Tellings, Labels, TargetInv,
       CopyInv
  <2>2. (RowInv /\ TargetInv /\ CopyInv /\ EditInv /\ ReviewInv)'
    BY <1>9, Elsewhere DEF AuditDeleted, TypeOK, TargetInv, CopyInv
  <2> QED BY <1>0, <2>1, <2>2
<1>10. ASSUME NEW w \in Workers, SaveReview(w)
       PROVE  IInv'
  <2> DEFINE new == [row[target[w]] EXCEPT !.state = goal[w], !.reviewedBy = actor[w]]
  <2>1. /\ target[w] \in Ids /\ row[target[w]] \in Row /\ goal[w] \in States \ {"absent"}
        /\ actor[w] \in Users \cup {NoUser}
    BY <1>10 DEF SaveReview, TypeOK, TargetInv, ReviewInv
  <2>2. /\ new \in Row /\ new.reviewedBy = actor[w] /\ new.state = goal[w]
        /\ new.reportedBy = row[target[w]].reportedBy /\ new.vendor = row[target[w]].vendor
    BY <2>1 DEF Row
  <2>3. \/ row' = row
        \/ Exists(target[w]) /\ row' = [row EXCEPT ![target[w]] = new]
    <3>1. CASE Exists(target[w]) /\ row' = [row EXCEPT ![target[w]].state = goal[w],
                                                     ![target[w]].reviewedBy = actor[w]]
      BY <2>1, <3>1 DEF TypeOK, Row
    <3>2. CASE row' = row
      BY <3>2, Zenon
    <3>3. \/ /\ Exists(target[w])
             /\ row' = [row EXCEPT ![target[w]].state = goal[w],
                                  ![target[w]].reviewedBy = actor[w]]
          \/ row' = row
      BY <1>10, Zenon DEF SaveReview
    <3> QED BY <3>1, <3>2, <3>3
  <2> HIDE DEF new
  <2>4. TypeOK'
    <3>1. pc' \in [Workers -> Labels] /\ mine' \in [Workers -> Row]
      BY <1>10, NoRowTyped DEF SaveReview, TypeOK, Labels
    <3>2. row' \in [Ids -> Row]
      BY <2>2, <2>3 DEF TypeOK
    <3> QED BY <1>10, <3>1, <3>2 DEF SaveReview, TypeOK, States
  <2>5. \A f \in Ids : /\ row'[f].reportedBy = row[f].reportedBy
                       /\ row'[f].vendor = row[f].vendor
                       /\ row'[f].state = "absent" <=> row[f].state = "absent"
    BY <2>1, <2>2, <2>3 DEF TypeOK, Exists
  <2>6. RowInv'
    <3>1. Exists(target[w]) => Sound(new)
      BY <1>10, <2>2 DEF SaveReview, ReviewInv, Entitled, Sound
    <3>2. \A f \in Ids : Exists(f) => Sound(row'[f])
      BY <2>1, <2>3, <3>1 DEF TypeOK, RowInv
    <3>3. ASSUME NEW f \in Ids
          PROVE  /\ Exists(f)' => Sound(row[f])' /\ row'[f].reportedBy \in Users
                                  /\ row'[f].vendor \in Vendors
                 /\ ~Exists(f)' => row'[f].reportedBy = NoUser
      <4>1. Sound(row[f])' <=> Sound(row'[f])
        BY DEF Sound, Authority
      <4>2. /\ Exists(f) => /\ row[f].reportedBy \in Users
                            /\ row[f].vendor \in Vendors
            /\ ~Exists(f) => row[f].reportedBy = NoUser
        BY DEF RowInv
      <4>3. /\ row'[f].reportedBy = row[f].reportedBy
            /\ row'[f].vendor = row[f].vendor
            /\ row'[f].state = "absent" <=> row[f].state = "absent"
        BY <2>5
      <4>4. Exists(f) => Sound(row'[f])
        BY <3>2
      <4>5. Exists(f)' => Sound(row[f])'
        BY <4>1, <4>3, <4>4 DEF Exists
      <4>6. /\ Exists(f)' => /\ row'[f].reportedBy \in Users
                             /\ row'[f].vendor \in Vendors
            /\ ~Exists(f)' => row'[f].reportedBy = NoUser
        BY <4>2, <4>3 DEF Exists
      <4> QED BY <4>5, <4>6
    <3> QED BY <3>3 DEF RowInv
  <2>7. (TargetInv /\ CopyInv)'
    BY <1>10 DEF SaveReview, TypeOK, TargetInv, CopyInv
  <2>8. EditInv'
    BY <1>10, <2>5 DEF SaveReview, TypeOK, TargetInv, EditInv, Sound, Exists
  <2>9. ReviewInv'
    BY <1>10, <2>5 DEF SaveReview, TypeOK, TargetInv, ReviewInv, Entitled, Exists
  <2> QED BY <1>0, <2>4, <2>6, <2>7, <2>8, <2>9
<1>11. ASSUME NEW w \in Workers, AuditReview(w)
      PROVE  IInv'
  <2>1. TypeOK'
    BY <1>11 DEF AuditReview, TypeOK, Row, NoRow, States, Tellings, Labels, TargetInv,
       CopyInv
  <2>2. (RowInv /\ TargetInv /\ CopyInv /\ EditInv /\ ReviewInv)'
    BY <1>11, Elsewhere DEF AuditReview, TypeOK, TargetInv, CopyInv
  <2> QED BY <1>0, <2>1, <2>2
<1>12. ASSUME NEW w \in Workers, Crash(w)
      PROVE  IInv'
  <2>1. TypeOK'
    BY <1>12 DEF Crash, TypeOK, Row, NoRow, States, Labels, TargetInv, CopyInv
  <2>2. (RowInv /\ TargetInv /\ CopyInv /\ EditInv /\ ReviewInv)'
    BY <1>12, Elsewhere DEF Crash, TypeOK, TargetInv, CopyInv
  <2> QED BY <1>0, <2>1, <2>2
<1>13. ASSUME NEW u \in Users, NEW x \in Users, NEW f \in Ids, AddCollaborator(u, f, x)
      PROVE  IInv'
  <2>1. TypeOK'
    BY <1>13 DEF AddCollaborator, TypeOK, Row, NoRow, States, Labels
  <2>2. (RowInv /\ TargetInv /\ CopyInv /\ EditInv /\ ReviewInv)'
    BY <1>13 DEF AddCollaborator, RowInv, TargetInv, CopyInv, EditInv,
       ReviewInv, Exists, Sound, Entitled
  <2> QED BY <1>0, <2>1, <2>2
<1>14. ASSUME NEW u \in Users, NEW x \in Users, NEW f \in Ids, RemoveCollaborator(u, f, x)
      PROVE  IInv'
  <2>1. TypeOK'
    BY <1>14 DEF RemoveCollaborator, TypeOK, Row, NoRow, States, Labels
  <2>2. (RowInv /\ TargetInv /\ CopyInv /\ EditInv /\ ReviewInv)'
    BY <1>14 DEF RemoveCollaborator, RowInv, TargetInv, CopyInv, EditInv,
       ReviewInv, Exists, Sound, Entitled
  <2> QED BY <1>0, <2>1, <2>2
<1>15. CASE UNCHANGED vars
  BY <1>0, <1>15 DEF vars, TypeOK, RowInv, TargetInv, CopyInv, EditInv, ReviewInv,
     Exists, Sound, Entitled
<1> QED
  BY <1>1, <1>2, <1>3, <1>4, <1>5, <1>6, <1>7, <1>8, <1>9, <1>10, <1>11, <1>12,
     <1>13, <1>14, <1>15 DEF Next, Step

\* The invariant holds in every reachable state.
THEOREM Invariant == Spec => []IInv
  BY InvariantInit, InvariantStep, PTL DEF Spec

-----------------------------------------------------------------------------
(* What follows from it.                                                   *)

\* The tables and the workers' variables keep their types (findings/views.py).
THEOREM TypeCorrect == Spec => []TypeOK
<1>1. IInv => TypeOK
  BY DEF IInv
<1> QED BY <1>1, Invariant, PTL

\* However the views of findings/views.py overlap, on however many findings, a
\* claim or verdict names someone entitled to it.
THEOREM VerdictsNamed == Spec => []VerdictNamesAuthority
<1>1. IInv => VerdictNamesAuthority
  BY DEF IInv, RowInv, VerdictNamesAuthority
<1> QED BY <1>1, Invariant, PTL

\* finding_edit and the other views never put another reporter on a row, also
\* when a stale copy brings a deleted row back.
THEOREM ReporterStays == Spec => []ReporterKept
<1>1. IInv => ReporterKept
  BY DEF IInv, OriginInv, ReporterKept
<1> QED BY <1>1, Invariant, PTL

-----------------------------------------------------------------------------
(* The reporter among those who may edit.                                  *)

\* A request that has inserted a row assigns the reporter of the row and of
\* every copy an edit may still bring back.
AssignInv ==
    \A w \in Workers : pc[w] = "assign" =>
        /\ Exists(target[w]) => row[target[w]].reportedBy = mine[w].reportedBy
        /\ \A x \in Workers :
              pc[x] = "edit" /\ target[x] = target[w] =>
                  mine[x].reportedBy = mine[w].reportedBy

\* A step that brings up neither an edit nor an assignment, and leaves every
\* reporter or takes the row away.
LEMMA AssignElsewhere ==
    ASSUME AssignInv, TargetInv,
           \A x \in Workers : pc'[x] \in {"assign", "edit"} =>
              /\ pc'[x] = pc[x] /\ target'[x] = target[x] /\ mine'[x] = mine[x],
           \A f \in Ids : row'[f].state # "absent" =>
              Exists(f) /\ row'[f].reportedBy = row[f].reportedBy
    PROVE  AssignInv'
<1> SUFFICES ASSUME NEW w \in Workers, pc'[w] = "assign"
             PROVE  /\ row'[target[w]].state # "absent" =>
                          row'[target[w]].reportedBy = mine[w].reportedBy
                    /\ \A x \in Workers :
                          pc'[x] = "edit" /\ target[x] = target[w] =>
                              mine[x].reportedBy = mine[w].reportedBy
  BY DEF AssignInv, Exists
<1>1. target[w] \in Ids
  BY DEF TargetInv
<1> QED BY <1>1 DEF AssignInv

\* The rows of researchers keep the reporter, or a request is about to add it.
LEMMA ReporterHeld ==
    ASSUME IInv, IInv', AssignInv, ReporterCanEdit, [Next]_vars
    PROVE  AssignInv' /\ ReporterCanEdit'
<1> USE FindingsAssumption DEF IInv, tables, locals, history
<1>0. /\ row \in [Ids -> Row] /\ researchers \in [Ids -> SUBSET Users]
      /\ pc \in [Workers -> Labels] /\ target \in [Workers -> Ids \cup {NoId}]
      /\ mine \in [Workers -> Row]
  BY DEF TypeOK
<1>1. ASSUME NEW w \in Workers, NEW u \in Users, NEW f \in Ids, NEW v \in Vendors,
            Create(w, u, f, v)
      PROVE  AssignInv' /\ ReporterCanEdit'
  <2>1. /\ \A x \in Workers : target[x] # f
        /\ \A x \in Workers \ {w} : pc'[x] = pc[x] /\ target'[x] = target[x] /\ mine'[x] = mine[x]
        /\ pc'[w] = "assign" /\ target'[w] = f /\ mine'[w].reportedBy = u
        /\ row'[f].reportedBy = u /\ \A g \in Ids \ {f} : row'[g] = row[g]
        /\ UNCHANGED <<researchers, cut>> /\ pc[w] = "idle"
    BY <1>0, <1>1 DEF Create, Take, Saved, NoRow, OriginInv
  <2>2. AssignInv'
    <3> SUFFICES ASSUME NEW x \in Workers, pc'[x] = "assign"
                 PROVE  /\ row'[target'[x]].state # "absent" =>
                              row'[target'[x]].reportedBy = mine'[x].reportedBy
                        /\ \A y \in Workers :
                              pc'[y] = "edit" /\ target'[y] = target'[x] =>
                                  mine'[y].reportedBy = mine'[x].reportedBy
      BY DEF AssignInv, Exists
    <3>1. CASE x = w
      BY <2>1, <3>1
    <3>2. CASE x # w
      BY <2>1, <3>2 DEF AssignInv, Exists, TargetInv
    <3> QED BY <3>1, <3>2
  <2>3. ReporterCanEdit'
    <3> SUFFICES ASSUME NEW g \in Ids \ cut, row'[g].state # "absent"
                 PROVE  \/ row'[g].reportedBy \in researchers[g]
                        \/ \E x \in Workers : pc'[x] = "assign" /\ target'[x] = g
      BY <2>1 DEF ReporterCanEdit, Exists
    <3>1. CASE g = f
      BY <2>1, <3>1
    <3>2. CASE g # f
      BY <2>1, <3>2 DEF ReporterCanEdit, Exists
    <3> QED BY <3>1, <3>2
  <2> QED BY <2>2, <2>3
<1>2. ASSUME NEW w \in Workers, NEW u \in Users, NEW f \in Ids, ReadForEdit(w, u, f)
      PROVE  AssignInv' /\ ReporterCanEdit'
  <2>1. /\ \A x \in Workers \ {w} : pc'[x] = pc[x] /\ target'[x] = target[x] /\ mine'[x] = mine[x]
        /\ pc'[w] = "edit" /\ target'[w] = f /\ mine'[w] = row[f] /\ Exists(f) /\ pc[w] = "idle"
        /\ UNCHANGED <<row, researchers, cut>>
    BY <1>0, <1>2 DEF ReadForEdit, Take
  <2> QED BY <2>1 DEF AssignInv, ReporterCanEdit, Exists
<1>3. ASSUME NEW w \in Workers, NEW u \in Users, NEW f \in Ids, Delete(w, u, f)
      PROVE  AssignInv' /\ ReporterCanEdit'
  <2>1. /\ \A x \in Workers \ {w} : pc'[x] = pc[x] /\ target'[x] = target[x] /\ mine'[x] = mine[x]
        /\ pc'[w] = "deleted" /\ pc[w] = "idle" /\ row'[f].state = "absent"
        /\ \A g \in Ids \ {f} : row'[g] = row[g] /\ researchers'[g] = researchers[g]
        /\ UNCHANGED cut
    BY <1>0, <1>3 DEF Delete, Take, NoRow
  <2>2. AssignInv'
    BY <2>1, AssignElsewhere DEF Exists
  <2>3. ReporterCanEdit'
    BY <2>1 DEF ReporterCanEdit, Exists
  <2> QED BY <2>2, <2>3
<1>4. ASSUME NEW w \in Workers, NEW u \in Users, NEW f \in Ids,
             \/ ReadForResubmit(w, u, f)
             \/ \E next \in {"under_review", "approved", "rejected"} :
                   ReadForReview(w, u, f, next)
      PROVE  AssignInv' /\ ReporterCanEdit'
  <2>1. /\ \A x \in Workers \ {w} : pc'[x] = pc[x] /\ target'[x] = target[x] /\ mine'[x] = mine[x]
        /\ pc'[w] = "review" /\ pc[w] = "idle"
        /\ UNCHANGED <<row, researchers, cut>>
    BY <1>0, <1>4 DEF ReadForResubmit, ReadForReview, Take
  <2>2. AssignInv'
    BY <2>1, AssignElsewhere DEF Exists
  <2>3. ReporterCanEdit'
    BY <2>1 DEF ReporterCanEdit, Exists
  <2> QED BY <2>2, <2>3
<1>5. ASSUME NEW w \in Workers, AssignReporter(w)
      PROVE  AssignInv' /\ ReporterCanEdit'
  <2>1. /\ \A x \in Workers \ {w} : pc'[x] = pc[x] /\ target'[x] = target[x] /\ mine'[x] = mine[x]
        /\ pc'[w] \in {"hosts", "idle"} /\ pc[w] = "assign"
        /\ UNCHANGED <<row, cut>>
    BY <1>0, <1>5 DEF AssignReporter, Goto, Finish, Clear
  <2>2. AssignInv'
    BY <2>1, AssignElsewhere DEF Exists
  <2>3. PICK f \in Ids : f = target[w]
    BY <2>1 DEF TargetInv
  <2>4. \A g \in Ids \ {f} : researchers'[g] = researchers[g]
    BY <1>0, <1>5, <2>3 DEF AssignReporter
  <2>5. Exists(f) => row[f].reportedBy \in researchers'[f]
    BY <1>0, <1>5, <2>1, <2>3 DEF AssignReporter, AssignInv
  <2>6. ReporterCanEdit'
    BY <2>1, <2>3, <2>4, <2>5 DEF ReporterCanEdit, Exists
  <2> QED BY <2>2, <2>6
<1>6. ASSUME NEW w \in Workers, SaveEdit(w)
      PROVE  AssignInv' /\ ReporterCanEdit'
  <2>1. PICK f \in Ids : f = target[w]
    BY <1>6 DEF SaveEdit, TargetInv
  <2>2. /\ \A x \in Workers \ {w} : pc'[x] = pc[x] /\ mine'[x] = mine[x]
        /\ pc[w] = "edit" /\ pc'[w] = (IF Exists(f) THEN "hosts" ELSE "assign")
        /\ UNCHANGED <<researchers, target, cut>>
    BY <1>0, <1>6, <2>1 DEF SaveEdit
  <2>3. /\ row'[f].reportedBy = mine[w].reportedBy /\ mine'[w].reportedBy = mine[w].reportedBy
        /\ \A g \in Ids \ {f} : row'[g] = row[g]
    BY <1>0, <1>6, <2>1 DEF SaveEdit, Saved, NoRow, Row
  <2>4. Exists(f) => row[f].reportedBy = mine[w].reportedBy
    BY <2>1, <2>2 DEF EditInv
  <2>5. AssignInv'
    <3> SUFFICES ASSUME NEW x \in Workers, pc'[x] = "assign"
                 PROVE  /\ row'[target[x]].state # "absent" =>
                              row'[target[x]].reportedBy = mine'[x].reportedBy
                        /\ \A y \in Workers :
                              pc'[y] = "edit" /\ target[y] = target[x] =>
                                  mine'[y].reportedBy = mine'[x].reportedBy
      BY <2>2 DEF AssignInv, Exists
    <3>1. CASE x = w
      BY <2>1, <2>2, <2>3, <3>1 DEF EditInv
    <3>2. CASE x # w
      <4>1. target[x] \in Ids /\ pc[x] = "assign"
        BY <2>2, <3>2 DEF TargetInv
      <4> QED BY <2>1, <2>2, <2>3, <3>2, <4>1 DEF AssignInv, Exists
    <3> QED BY <3>1, <3>2
  <2>6. ReporterCanEdit'
    BY <2>1, <2>2, <2>3, <2>4 DEF ReporterCanEdit, Exists
  <2> QED BY <2>5, <2>6
<1>7. ASSUME NEW w \in Workers,
             SyncHosts(w) \/ AuditDeleted(w) \/ AuditReview(w) \/ SaveReview(w)
      PROVE  AssignInv' /\ ReporterCanEdit'
  <2>1. /\ \A x \in Workers \ {w} : pc'[x] = pc[x] /\ target'[x] = target[x] /\ mine'[x] = mine[x]
        /\ pc'[w] \in {"told", "idle"} /\ pc[w] # "assign"
        /\ UNCHANGED <<researchers, cut>>
    BY <1>0, <1>7 DEF SyncHosts, AuditDeleted, AuditReview, SaveReview, Goto, Finish, Clear
  <2>2. \A f \in Ids : row'[f].state # "absent" =>
              Exists(f) /\ row'[f].reportedBy = row[f].reportedBy
    <3>1. CASE row' = row
      BY <3>1 DEF Exists
    <3>2. CASE /\ Exists(target[w])
               /\ row' = [row EXCEPT ![target[w]].state = goal[w],
                                     ![target[w]].reviewedBy = actor[w]]
      BY <1>0, <3>2 DEF Exists, Row
    <3> QED BY <1>7, <3>1, <3>2 DEF SyncHosts, AuditDeleted, AuditReview, SaveReview
  <2>3. AssignInv'
    BY <2>1, <2>2, AssignElsewhere
  <2>4. ReporterCanEdit'
    BY <2>1, <2>2 DEF ReporterCanEdit, Exists
  <2> QED BY <2>3, <2>4
<1>8. ASSUME NEW w \in Workers, Crash(w)
      PROVE  AssignInv' /\ ReporterCanEdit'
  <2>1. /\ \A x \in Workers \ {w} : pc'[x] = pc[x] /\ target'[x] = target[x] /\ mine'[x] = mine[x]
        /\ pc'[w] = "idle" /\ cut' = cut \cup {target[w]}
        /\ UNCHANGED <<row, researchers>>
    BY <1>0, <1>8 DEF Crash, Clear
  <2>2. AssignInv'
    BY <2>1, AssignElsewhere DEF Exists
  <2>3. ReporterCanEdit'
    BY <2>1 DEF ReporterCanEdit, Exists
  <2> QED BY <2>2, <2>3
<1>9. ASSUME NEW u \in Users, NEW x \in Users, NEW f \in Ids,
             AddCollaborator(u, f, x) \/ RemoveCollaborator(u, f, x)
      PROVE  AssignInv' /\ ReporterCanEdit'
  <2>1. UNCHANGED <<row, pc, target, mine, cut>>
    BY <1>9 DEF AddCollaborator, RemoveCollaborator
  <2>2. \A g \in Ids : row[g].reportedBy \in researchers[g] =>
                          row[g].reportedBy \in researchers'[g]
    BY <1>0, <1>9 DEF AddCollaborator, RemoveCollaborator
  <2>3. AssignInv'
    BY <2>1 DEF AssignInv, Exists
  <2>4. ReporterCanEdit'
    BY <2>1, <2>2 DEF ReporterCanEdit, Exists
  <2> QED BY <2>3, <2>4
<1>10. CASE UNCHANGED vars
  BY <1>10 DEF vars, AssignInv, ReporterCanEdit, Exists
<1> QED
  BY <1>1, <1>2, <1>3, <1>4, <1>5, <1>6, <1>7, <1>8, <1>9, <1>10 DEF Next, Step

\* ensure_reporter_assigned and collaborator_remove: unless a request about it
\* was killed, a finding's reporter is among those who may edit it, or about to be.
THEOREM ReporterEdits == Spec => []ReporterCanEdit
<1>1. Init => AssignInv /\ ReporterCanEdit
  BY DEF Init, AssignInv, ReporterCanEdit, Exists, NoRow
<1> QED BY <1>1, Invariant, ReporterHeld, PTL DEF Spec

-----------------------------------------------------------------------------
(* Requests that have their finding to themselves: what they have read is  *)
(* what the table says.                                                    *)

\* Two requests about one finding are on record.
Meet ==
    \A w, x \in Workers :
        w # x /\ target[w] = target[x] /\ target[w] \in Ids => target[w] \in shared

\* What worker w goes by is what the row says.
Current(w) ==
    /\ pc[w] = "edit" => mine[w] = row[target[w]]
    /\ pc[w] \in {"assign", "hosts"} =>
          Exists(target[w]) /\ mine[w].vendor = row[target[w]].vendor
    /\ pc[w] = "told" => goal[w] = row[target[w]].state
    /\ pc[w] = "deleted" => row[target[w]] = NoRow

\* The log and the links suit the row, or a request is about to see to it.
Told(f) ==
    \/ row[f].state = Logged(f)
    \/ \E w \in Workers : target[w] = f /\ pc[w] \in {"told", "deleted"}

Linked(f) ==
    \/ hosts[f] \subseteq {row[f].vendor}
    \/ \E w \in Workers : target[w] = f /\ pc[w] \in {"assign", "hosts"}

\* The log says nothing of a finding not yet submitted.
Unheard == \A f \in Ids : reporter[f] = NoUser => told[f] = "silent"

Alone ==
    /\ Meet
    /\ Unheard
    /\ \A w \in Workers : pc[w] # "idle" /\ target[w] \notin cut \cup shared => Current(w)
    /\ \A f \in Ids \ (cut \cup shared) : Told(f) /\ Linked(f)

\* A step of worker w in a request about finding f, which it begins, goes on
\* with or ends.
About(w, f) ==
    /\ target[w] = f \/ pc[w] = "idle"
    /\ target'[w] = f \/ target'[w] \notin Ids
    /\ \A x \in Workers \ {w} :
          /\ pc'[x] = pc[x] /\ target'[x] = target[x]
          /\ mine'[x] = mine[x] /\ goal'[x] = goal[x]
    /\ \A g \in Ids \ {f} :
          /\ row'[g] = row[g] /\ told'[g] = told[g]
          /\ hosts'[g] = hosts[g] /\ reporter'[g] = reporter[g]
    /\ reporter'[f] # NoUser
    /\ cut \subseteq cut' /\ shared \subseteq shared'
    /\ pc'[w] # "idle" => target'[w] = f

\* Such a step concerns its own finding only.
LEMMA AboutStep ==
    ASSUME Alone, TargetInv, NEW w \in Workers, NEW f \in Ids, About(w, f),
           target[w] # f => \A x \in Workers \ {w} : target[x] = f => f \in shared',
           f \notin cut' \cup shared' =>
              (pc'[w] # "idle" => Current(w)') /\ Told(f)' /\ Linked(f)'
    PROVE  Alone'
<1>1. Meet'
  BY DEF Alone, About, Meet
<1>2. ASSUME NEW x \in Workers \ {w}, pc'[x] # "idle", target'[x] \notin cut' \cup shared'
      PROVE  Current(x)'
  <2>1. target[x] # f /\ target[x] \in Ids /\ Current(x)
    BY <1>2 DEF Alone, About, Meet, TargetInv
  <2> QED BY <2>1 DEF About, Current, Exists
<1>3. ASSUME NEW g \in Ids \ {f}, g \notin cut' \cup shared' PROVE Told(g)' /\ Linked(g)'
  <2>1. Told(g) /\ Linked(g)
    BY <1>3 DEF Alone, About
  <2>2. \A x \in Workers : target[x] = g /\ pc[x] # "idle" => x # w
    BY <1>3 DEF About
  <2> QED BY <1>3, <2>1, <2>2 DEF About, Told, Linked, Logged, Submitted, Authority
<1>4. pc'[w] # "idle" /\ target'[w] \notin cut' \cup shared' => Current(w)'
  BY DEF About
<1>5. Unheard'
  BY DEF Alone, About, Unheard
<1> QED BY <1>1, <1>2, <1>3, <1>4, <1>5 DEF Alone

\* Every step keeps the log and the links of the findings nobody shares.
LEMMA AloneStep ==
    ASSUME IInv, Alone, [Next]_vars
    PROVE  Alone'
<1> USE FindingsAssumption DEF IInv, tables, locals, history
<1>0. /\ row \in [Ids -> Row] /\ hosts \in [Ids -> SUBSET Vendors]
      /\ told \in [Ids -> Tellings] /\ goal \in [Workers -> States]
      /\ pc \in [Workers -> Labels] /\ target \in [Workers -> Ids \cup {NoId}]
      /\ mine \in [Workers -> Row] /\ reporter \in [Ids -> Users \cup {NoUser}]
      /\ \A f \in Ids : reporter[f] = NoUser =>
            ~Exists(f) /\ \A w \in Workers : target[w] # f
  BY DEF TypeOK, OriginInv
<1>1. ASSUME NEW w \in Workers, NEW u \in Users, NEW f \in Ids, NEW v \in Vendors,
            Create(w, u, f, v)
      PROVE  Alone'
  <2>1. About(w, f) /\ \A x \in Workers : target[x] # f
    BY <1>0, <1>1 DEF Create, Take, About
  <2>2. /\ pc'[w] = "assign" /\ target'[w] = f /\ mine'[w].vendor = v
        /\ row'[f].vendor = v /\ row'[f].state = Submitted(u)
        /\ told'[f] = told[f] /\ reporter'[f] = u
    BY <1>0, <1>1 DEF Create, Take, Saved, NoRow
  <2>3. told[f] = "silent"
    BY <1>1 DEF Create, Alone, Unheard
  <2>4. Current(w)' /\ Told(f)' /\ Linked(f)'
    BY <2>2, <2>3 DEF Current, Told, Linked, Exists, Logged, Submitted, Authority
  <2> QED BY <2>1, <2>4, AboutStep
<1>2. ASSUME NEW w \in Workers, NEW u, NEW f \in Ids, NEW x, NEW n, NEW label,
             Take(w, u, f, x, n, label), UNCHANGED <<tables, reporter>>, Exists(f),
             label = "review" \/ (label = "edit" /\ x = row[f])
      PROVE  Alone'
  <2>1. About(w, f) /\ \A y \in Workers : target[y] = f => f \in shared'
    BY <1>0, <1>2 DEF Take, About
  <2>2. pc'[w] = label /\ target'[w] = f /\ mine'[w] = x /\ pc[w] = "idle"
    BY <1>0, <1>2 DEF Take
  <2>3. Current(w)'
    BY <1>2, <2>2 DEF Current
  <2>4. f \notin cut' \cup shared' => Told(f) /\ Linked(f)
    BY <2>1 DEF Alone, About
  <2>5. Told(f) /\ Linked(f) => Told(f)' /\ Linked(f)'
    BY <1>2, <2>1, <2>2 DEF Told, Linked, About, Logged, Submitted, Authority
  <2> QED BY <2>1, <2>3, <2>4, <2>5, AboutStep
<1>3. ASSUME NEW w \in Workers, NEW u \in Users, NEW f \in Ids, Delete(w, u, f)
      PROVE  Alone'
  <2>1. About(w, f) /\ \A y \in Workers : target[y] = f => f \in shared'
    BY <1>0, <1>3 DEF Delete, Take, About
  <2>2. /\ pc'[w] = "deleted" /\ target'[w] = f /\ row'[f] = NoRow /\ hosts'[f] = {}
    BY <1>0, <1>3 DEF Delete, Take
  <2>3. Current(w)' /\ Told(f)' /\ Linked(f)'
    BY <2>2 DEF Current, Told, Linked
  <2> QED BY <2>1, <2>3, AboutStep
<1>4. ASSUME NEW w \in Workers, Step(w) \/ Crash(w)
      PROVE  Alone'
  <2>1. PICK f \in Ids : f = target[w]
    BY <1>4 DEF Step, AssignReporter, SyncHosts, SaveEdit, AuditDeleted, SaveReview,
                AuditReview, Crash, TargetInv
  <2>0. reporter[f] # NoUser
    BY <1>0, <2>1
  <2>2. f \notin cut \cup shared => Current(w) /\ Told(f) /\ Linked(f)
    BY <1>4, <2>1 DEF Alone, Step, AssignReporter, SyncHosts, SaveEdit, AuditDeleted,
                SaveReview, AuditReview, Crash
  <2>3. f \notin cut \cup shared => \A x \in Workers \ {w} : target[x] # f
    BY <2>1 DEF Alone, Meet
  <2>4. CASE AssignReporter(w)
    <3>1. About(w, f)
      BY <1>0, <2>0, <2>1, <2>4 DEF AssignReporter, Goto, Finish, Clear, About
    <3>2. pc[w] = "assign" /\ UNCHANGED <<row, hosts, told, reporter, cut, shared>>
      BY <2>4 DEF AssignReporter, Goto, Finish
    <3>3. Exists(f) => pc'[w] = "hosts" /\ UNCHANGED <<target, mine>>
      BY <1>0, <2>0, <2>1, <2>4 DEF AssignReporter, Goto
    <3>4. f \notin cut \cup shared => Current(w)' /\ Told(f)' /\ Linked(f)'
      BY <2>1, <2>2, <2>3, <3>2, <3>3 DEF Current, Told, Logged, Submitted, Authority, Linked, Exists
    <3> QED BY <2>1, <3>1, <3>2, <3>4, AboutStep
  <2>5. CASE SyncHosts(w)
    <3>1. About(w, f) /\ pc'[w] = "idle"
      BY <1>0, <2>0, <2>1, <2>5 DEF SyncHosts, Finish, Clear, About
    <3>2. /\ pc[w] = "hosts" /\ UNCHANGED <<row, told, reporter, cut, shared>>
          /\ Exists(f) => hosts'[f] \subseteq {mine[w].vendor}
      BY <1>0, <2>0, <2>1, <2>5 DEF SyncHosts, Finish
    <3>3. f \notin cut \cup shared => Told(f)' /\ Linked(f)'
      BY <2>1, <2>2, <2>3, <3>2 DEF Current, Told, Logged, Submitted, Authority, Linked
    <3> QED BY <2>1, <3>1, <3>2, <3>3, AboutStep
  <2>6. CASE SaveEdit(w)
    <3>1. About(w, f)
      BY <1>0, <2>0, <2>1, <2>6 DEF SaveEdit, About
    <3>2. /\ pc[w] = "edit" /\ UNCHANGED <<hosts, told, target, reporter, cut, shared>>
          /\ pc'[w] \in {"assign", "hosts"}
      BY <1>0, <2>6 DEF SaveEdit
    <3>3. /\ row'[f].state = mine[w].state /\ mine'[w].vendor = row'[f].vendor
          /\ mine[w].state # "absent"
      BY <1>0, <2>0, <2>1, <2>6, <3>2 DEF SaveEdit, Saved, NoRow, Row, EditInv
    <3>4. f \notin cut \cup shared => Current(w)' /\ Told(f)' /\ Linked(f)'
      BY <2>1, <2>2, <2>3, <3>2, <3>3 DEF Current, Told, Logged, Submitted, Authority, Linked, Exists
    <3> QED BY <2>1, <3>1, <3>2, <3>4, AboutStep
  <2>7. CASE AuditDeleted(w) \/ AuditReview(w)
    <3>1. About(w, f) /\ pc'[w] = "idle"
      BY <1>0, <2>0, <2>1, <2>7 DEF AuditDeleted, AuditReview, Finish, Clear, About
    <3>2. /\ UNCHANGED <<row, hosts, reporter, cut, shared>>
          /\ \/ pc[w] = "deleted" /\ told'[f] = "absent"
             \/ pc[w] = "told" /\ told'[f] = goal[w] /\ goal[w] # "silent"
      BY <1>0, <2>0, <2>1, <2>7 DEF AuditDeleted, AuditReview, Finish, States
    <3>3. f \notin cut \cup shared => Told(f)' /\ Linked(f)'
      BY <2>1, <2>2, <2>3, <3>2 DEF Current, Told, Logged, Submitted, Authority, Linked, NoRow
    <3> QED BY <2>1, <3>1, <3>2, <3>3, AboutStep
  <2>8. CASE SaveReview(w)
    <3>1. About(w, f)
      BY <1>0, <2>0, <2>1, <2>8 DEF SaveReview, Goto, Finish, Clear, About
    <3>2. pc[w] = "review" /\ UNCHANGED <<hosts, told, reporter, cut, shared>>
      BY <2>8 DEF SaveReview, Goto, Finish
    <3>3. CASE Exists(f)
      <4>1. /\ row'[f].state = goal[w] /\ row'[f].vendor = row[f].vendor
            /\ pc'[w] = "told" /\ UNCHANGED <<target, goal>>
        BY <1>0, <2>0, <2>1, <2>8, <3>3 DEF SaveReview, Goto, Row
      <4>2. f \notin cut \cup shared => Current(w)' /\ Told(f)' /\ Linked(f)'
        BY <2>1, <2>2, <2>3, <3>2, <4>1 DEF Current, Told, Logged, Submitted, Authority, Linked
      <4> QED BY <2>1, <3>1, <3>2, <4>2, AboutStep
    <3>4. CASE ~Exists(f)
      <4>1. pc'[w] = "idle" /\ UNCHANGED row
        BY <1>0, <2>0, <2>1, <2>8, <3>4 DEF SaveReview, Finish, Clear
      <4>2. f \notin cut \cup shared => Told(f)' /\ Linked(f)'
        BY <2>1, <2>2, <2>3, <3>2, <4>1 DEF Current, Told, Logged, Submitted, Authority, Linked
      <4> QED BY <2>1, <3>1, <3>2, <4>1, <4>2, AboutStep
    <3> QED BY <3>3, <3>4
  <2>9. CASE Crash(w)
    <3>1. About(w, f) /\ pc'[w] = "idle" /\ f \in cut'
      BY <1>0, <2>0, <2>1, <2>9 DEF Crash, Clear, About
    <3> QED BY <2>1, <3>1, AboutStep
  <2> QED BY <1>4, <2>4, <2>5, <2>6, <2>7, <2>8, <2>9 DEF Step
<1>5. CASE UNCHANGED <<row, hosts, told, reporter, locals, history>>
  BY <1>5 DEF Alone, Meet, Unheard, Current, Told, Logged, Submitted, Authority, Linked, Exists
<1>6. ASSUME NEW w \in Workers, NEW u \in Users, NEW f \in Ids,
             \/ ReadForEdit(w, u, f) \/ ReadForResubmit(w, u, f)
             \/ \E next \in {"under_review", "approved", "rejected"} :
                   ReadForReview(w, u, f, next)
      PROVE  Alone'
  <2>1. /\ \E a, x, n, label :
              Take(w, a, f, x, n, label) /\ (label = "review" \/ (label = "edit" /\ x = row[f]))
        /\ UNCHANGED <<tables, reporter>> /\ Exists(f)
    BY <1>6 DEF ReadForEdit, ReadForResubmit, ReadForReview
  <2> QED BY <1>2, <2>1
<1>7. \A u, x \in Users, f \in Ids :
         AddCollaborator(u, f, x) \/ RemoveCollaborator(u, f, x)
             => UNCHANGED <<row, hosts, told, reporter, locals, history>>
  BY DEF AddCollaborator, RemoveCollaborator
<1> QED
  BY <1>1, <1>3, <1>4, <1>5, <1>6, <1>7 DEF Next, vars

\* A finding no two requests worked on at once and no kill touched: the log
\* tells its state, and its hosts are its vendor's.
LEMMA AloneInvariant == Spec => []Alone
<1>1. Init => Alone
  BY FindingsAssumption DEF Init, Alone, Meet, Unheard, Told, Logged, Linked, NoRow
<1> QED BY <1>1, Invariant, AloneStep, PTL DEF Spec

\* _transition_review and the other views: when nothing is under way, the review
\* state follows from the newest audit row, or from the reporter without one.
THEOREM ReviewTold == Spec => []ReviewReconstructable
<1>1. Alone => ReviewReconstructable
  BY DEF Alone, Told, ReviewReconstructable, Idle
<1> QED BY <1>1, AloneInvariant, PTL

\* _sync_affected_hosts: when nothing is under way, a finding is linked to hosts
\* of its own vendor only.
THEOREM HostsMatch == Spec => []HostsMatchVendorUnlessShared
<1>1. Alone => HostsMatchVendorUnlessShared
  BY DEF Alone, Linked, HostsMatchVendorUnlessShared, Idle
<1> QED BY <1>1, AloneInvariant, PTL
=============================================================================
