---------------------------- MODULE ReportsProofs ---------------------------
(***************************************************************************)
(* Theorems about Reports, for every set of users, reports, findings and   *)
(* workers.                                                                *)
(***************************************************************************)
EXTENDS Reports, TLAPS

-----------------------------------------------------------------------------
(* The inductive invariant.  Part one is about the rows and about what the *)
(* requests under way have read, however stale.                            *)

\* A verdict on x names somebody entitled to it.
Sound(x) ==
    x.status \in {"approved", "rejected"} =>
        /\ x.reviewedBy \in Authority
        /\ x.reviewedBy # x.createdBy \/ x.reviewedBy \in Superadmins

Rows == \A r \in Ids : Sound(row[r]) /\ (Exists(r) => row[r].client \in Vendors)

\* What worker w holds suits the statements it has yet to run.
Job(w) ==
    /\ pc[w] = "idle" => target[w] = NoId
    /\ pc[w] # "idle" => target[w] \in Ids /\ Exists(target[w])
    /\ pc[w] \in {"edit", "content"} =>
          /\ mine[w].status # "absent" /\ Sound(mine[w])
          /\ mine[w].createdBy = row[target[w]].createdBy
    /\ pc[w] \in {"edit", "content", "insert", "update"} => mine[w].client \in Vendors
    /\ pc[w] = "move" => goal[w] \in {"in_review", "approved", "rejected"}
    /\ pc[w] = "move" /\ goal[w] # "in_review" =>
          /\ actor[w] \in Authority
          /\ actor[w] # row[target[w]].createdBy \/ actor[w] \in Superadmins
    /\ pc[w] \in {"insert", "link", "update"} => finding[w] \in FindingIds

Jobs == \A w \in Workers : Job(w)

(* Part two is about requests that have their report to themselves: what   *)
(* they have read is what the table says.                                  *)

Current(w) ==
    /\ pc[w] \in {"edit", "content"} => mine[w] = row[target[w]]
    /\ pc[w] = "move" /\ row[target[w]].status = "approved" =>
          goal[w] = "in_review" /\ actor[w] \in Superadmins
    /\ pc[w] = "told" => goal[w] = row[target[w]].status
    /\ pc[w] # "told" => told[target[w]] = row[target[w]].status

Contention ==
    /\ \A w, x \in Workers :
          w # x /\ pc[w] # "idle" /\ target[w] = target[x] => target[w] \in contended
    /\ \A w \in Workers : pc[w] # "idle" /\ target[w] \notin contended => Current(w)

IInv == TypeOK /\ Rows /\ Jobs /\ Contention /\ StatusReconstructable

-----------------------------------------------------------------------------
(* A step of worker w, about report r.                                     *)

\* It leaves other workers and other reports alone, keeps the creator and
\* the vendor of r, and takes note when it finds others at work.
Does(w, r) ==
    /\ \A x \in Workers \ {w} :
          /\ pc'[x] = pc[x] /\ actor'[x] = actor[x] /\ target'[x] = target[x]
          /\ finding'[x] = finding[x] /\ mine'[x] = mine[x] /\ goal'[x] = goal[x]
    /\ \A q \in Ids \ {r} : row'[q] = row[q] /\ told'[q] = told[q]
    /\ Exists(r) => row'[r].createdBy = row[r].createdBy
    /\ row'[r].status # "absent" /\ Sound(row'[r]) /\ row'[r].client \in Vendors
    /\ pc[w] # "idle" => target[w] = r
    /\ pc'[w] = "idle" \/ target'[w] = r
    /\ contended \subseteq contended'
    /\ pc[w] = "idle" /\ (\E x \in Workers : target[x] = r) => r \in contended'

\* What w holds afterwards suits its statements, and r, if w is alone.
Leaves(w, r) ==
    /\ Job(w)'
    /\ r \notin contended' =>
          IF pc'[w] = "idle" THEN told'[r] = row'[r].status ELSE Current(w)'

\* Such a step keeps the invariant.
LEMMA DoesStep ==
    ASSUME IInv, TypeOK', NEW w \in Workers, NEW r \in Ids, Does(w, r), Leaves(w, r)
    PROVE  IInv'
<1>1. Rows'
  BY DEF IInv, Does, Rows, Exists, Sound
<1>2. \A q \in Ids : Exists(q) => Exists(q)' /\ row'[q].createdBy = row[q].createdBy
  BY DEF Does, Exists
<1>3. ASSUME NEW x \in Workers PROVE Job(x)'
  <2>1. CASE x = w
    BY <2>1 DEF Leaves
  <2>2. CASE x # w
    <3>1. Job(x)
      BY DEF IInv, Jobs
    <3>2. /\ pc'[x] = pc[x] /\ actor'[x] = actor[x] /\ target'[x] = target[x]
          /\ finding'[x] = finding[x] /\ mine'[x] = mine[x] /\ goal'[x] = goal[x]
      BY <2>2 DEF Does
    <3> QED BY <1>2, <3>1, <3>2 DEF Job, Sound, Exists
  <2> QED BY <2>1, <2>2
<1>4. Contention'
  <2>0. (\E x \in Workers \ {w} : target[x] = r) => r \in contended'
    BY DEF Does, IInv, Contention
  <2>1. ASSUME NEW x \in Workers, NEW y \in Workers, x # y, pc'[x] # "idle", target'[x] = target'[y]
        PROVE  target'[x] \in contended'
    <3>1. CASE x # w /\ y # w
      BY <2>1, <3>1 DEF Does, IInv, Contention
    <3>2. CASE x = w
      BY <2>0, <2>1, <3>2 DEF Does
    <3>3. CASE y = w
      <4>1. target'[x] # NoId
        BY <1>3, <2>1, ReportsAssumption DEF Job
      <4>2. pc'[w] # "idle"
        BY <1>3, <2>1, <3>3, <4>1 DEF Job
      <4> QED BY <2>1, <3>3, <4>2, <2>0 DEF Does
    <3> QED BY <3>1, <3>2, <3>3
  <2>2. ASSUME NEW x \in Workers, pc'[x] # "idle", target'[x] \notin contended'
        PROVE  Current(x)'
    <3>1. CASE x = w
      BY <2>2, <3>1 DEF Does, Leaves
    <3>2. CASE x # w
      BY <2>2, <3>2 DEF Does, IInv, Contention, Current, Jobs, Job
    <3> QED BY <3>1, <3>2
  <2> QED BY <2>1, <2>2 DEF Contention
<1>5. StatusReconstructable'
  <2> SUFFICES ASSUME NEW q \in Ids, q \notin contended', \A x \in Workers : target'[x] # q
               PROVE  told'[q] = row'[q].status
    BY DEF StatusReconstructable
  <2>1. CASE q = r
    BY <2>1 DEF Does, Leaves
  <2>2. CASE q # r
    <3>1. ASSUME NEW x \in Workers PROVE target[x] # q
      <4>1. CASE x # w
        BY <4>1 DEF Does
      <4>2. CASE x = w /\ pc[w] # "idle"
        BY <2>2, <4>2 DEF Does
      <4>3. CASE x = w /\ pc[w] = "idle"
        BY <4>3, ReportsAssumption DEF IInv, Jobs, Job
      <4> QED BY <4>1, <4>2, <4>3
    <3> QED BY <2>2, <3>1 DEF Does, IInv, StatusReconstructable
  <2> QED BY <2>1, <2>2
<1> QED BY <1>1, <1>3, <1>4, <1>5 DEF IInv, Jobs

-----------------------------------------------------------------------------
(* The actions.                                                            *)

\* The empty tables satisfy it.
LEMMA InitInv == Init => IInv
  BY ReportsAssumption DEF Init, IInv, TypeOK, Rows, Jobs, Job, Contention, StatusReconstructable,
     NoRow, Row, States, Labels, Exists, Sound

\* The copy of a worker that has read nothing is of the type of rows.
LEMMA NoRowTyped == NoRow \in Row
  BY DEF NoRow, Row, States

\* What a worker that takes on a request holds.
LEMMA TakeFacts ==
    ASSUME TypeOK, NEW w \in Workers, NEW u, NEW r, NEW f, NEW x, NEW next, NEW label,
           Take(w, u, r, f, x, next, label)
    PROVE  /\ pc[w] = "idle" /\ pc'[w] = label /\ actor'[w] = u /\ target'[w] = r
           /\ finding'[w] = f /\ mine'[w] = x /\ goal'[w] = next
           /\ \A y \in Workers \ {w} :
                 /\ pc'[y] = pc[y] /\ actor'[y] = actor[y] /\ target'[y] = target[y]
                 /\ finding'[y] = finding[y] /\ mine'[y] = mine[y] /\ goal'[y] = goal[y]
           /\ contended \subseteq contended'
           /\ (\E y \in Workers : target[y] = r) => r \in contended'
           /\ (\A y \in Workers : target[y] # r) => contended' = contended
  BY DEF TypeOK, Take

\* The types of a request.
LEMMA TakeTyped ==
    ASSUME TypeOK, NEW w \in Workers, NEW u \in Users \cup {NoUser}, NEW r \in Ids,
           NEW f \in FindingIds \cup {NoFinding}, NEW x \in Row, NEW next \in States,
           NEW label \in Labels, Take(w, u, r, f, x, next, label)
    PROVE  /\ pc' \in [Workers -> Labels]
           /\ actor' \in [Workers -> Users \cup {NoUser}]
           /\ target' \in [Workers -> Ids \cup {NoId}]
           /\ finding' \in [Workers -> FindingIds \cup {NoFinding}]
           /\ mine' \in [Workers -> Row]
           /\ goal' \in [Workers -> States]
           /\ contended' \subseteq Ids
  BY DEF TypeOK, Take

\* The views that read a report before they write.
LEMMA TakeStep ==
    ASSUME IInv, NEW w \in Workers, NEW u \in Users \cup {NoUser}, NEW r \in Ids, Exists(r),
           NEW f \in FindingIds \cup {NoFinding}, NEW x \in Row, NEW next \in States,
           NEW label \in Labels \ {"idle", "told"}, Take(w, u, r, f, x, next, label),
           label \in {"edit", "content"} => x = row[r],
           label \in {"insert", "update"} => x.client = row[r].client,
           label = "move" =>
              /\ next \in {"in_review", "approved", "rejected"}
              /\ next # "in_review" =>
                    /\ u \in Authority
                    /\ u # row[r].createdBy \/ u \in Superadmins
                    /\ row[r].status # "approved"
              /\ row[r].status = "approved" => u \in Superadmins,
           label \in {"insert", "link", "update"} => f \in FindingIds,
           UNCHANGED <<tables, moved>>
    PROVE  IInv'
<1>1. TypeOK /\ Rows /\ StatusReconstructable /\ UNCHANGED <<row, told, researchers, findings, vendor, moved>>
  BY DEF IInv, tables
<1>2. TypeOK'
  BY <1>1, TakeTyped DEF TypeOK
<1>3. row[r] \in Row /\ Sound(row[r]) /\ row[r].client \in Vendors /\ row[r].status # "absent"
  BY <1>1 DEF TypeOK, Rows, Exists
<1>4. /\ pc[w] = "idle" /\ pc'[w] = label /\ actor'[w] = u /\ target'[w] = r
      /\ finding'[w] = f /\ mine'[w] = x /\ goal'[w] = next
  BY <1>1, TakeFacts
<1>5. Does(w, r)
  BY <1>1, <1>3, TakeFacts DEF Does
<1>6. Job(w)'
  BY <1>1, <1>3, <1>4 DEF Job, Exists, Sound, Authority
<1>7. r \notin contended' => Current(w)'
  <2>1. r \notin contended' => told[r] = row[r].status
    BY <1>1, TakeFacts DEF StatusReconstructable
  <2> QED BY <1>1, <1>4, <2>1 DEF Current
<1> QED BY <1>2, <1>4, <1>5, <1>6, <1>7, DoesStep DEF Leaves

\* The INSERT of report_create.
LEMMA CreateStep ==
    ASSUME IInv, NEW w \in Workers, NEW u \in Users, NEW r \in Ids, NEW v \in Vendors,
           Create(w, u, r, v)
    PROVE  IInv'
<1> DEFINE new == [NoRow EXCEPT !.status = "draft", !.client = v, !.createdBy = u]
<1>1. /\ TypeOK /\ Jobs /\ ~Exists(r) /\ Take(w, NoUser, r, NoFinding, NoRow, "absent", "people")
      /\ row' = [row EXCEPT ![r] = new] /\ told' = [told EXCEPT ![r] = "draft"]
      /\ UNCHANGED <<researchers, findings, vendor, moved>>
  BY DEF Create, IInv
<1>2. new \in Row /\ new.status = "draft" /\ new.client = v
  BY DEF NoRow, Row, States
<1> HIDE DEF new
<1>3. row'[r] = new /\ told'[r] = "draft" /\ \A q \in Ids \ {r} : row'[q] = row[q] /\ told'[q] = told[q]
  BY <1>1 DEF TypeOK
<1>4. TypeOK'
  <2>1. "people" \in Labels /\ "absent" \in States /\ "draft" \in States
    BY DEF Labels, States
  <2>2. told' \in [Ids -> States] /\ row' \in [Ids -> Row]
    BY <1>1, <1>2, <2>1 DEF TypeOK
  <2> QED BY <1>1, <2>1, <2>2, TakeTyped, NoRowTyped DEF TypeOK
<1>5. pc'[w] = "people" /\ target'[w] = r
  BY <1>1, TakeFacts
<1>6. Does(w, r)
  BY <1>1, <1>2, <1>3, TakeFacts DEF Does, Sound
<1>7. Leaves(w, r)
  BY <1>2, <1>3, <1>5 DEF Leaves, Job, Current, Exists
<1> QED BY <1>4, <1>6, <1>7, DoesStep

\* A review is read.
LEMMA MoveStep ==
    ASSUME IInv, NEW w \in Workers, NEW u \in Users, NEW r \in Ids,
           NEW next \in {"in_review", "approved", "rejected"}, ReadForMove(w, u, r, next)
    PROVE  IInv'
<1>1. Exists(r) /\ MayMove(u, r, next) /\ Take(w, u, r, NoFinding, NoRow, next, "move")
      /\ UNCHANGED <<tables, moved>>
  BY DEF ReadForMove
<1>2. /\ next # "in_review" =>
           /\ u \in Authority
           /\ u # row[r].createdBy \/ u \in Superadmins
           /\ row[r].status # "approved"
      /\ row[r].status = "approved" => u \in Superadmins
  BY <1>1 DEF MayMove, CanReview
<1>3. next \in States /\ "move" \in Labels \ {"idle", "told"}
  BY DEF States, Labels
<1> QED BY <1>1, <1>2, <1>3, NoRowTyped, TakeStep

\* A form, or the request about a finding, is read.
LEMMA FormStep ==
    ASSUME IInv, NEW w \in Workers, NEW u \in Users, NEW r \in Ids,
           \/ ReadForEdit(w, u, r)
           \/ \E f \in FindingIds : \/ ReadForAdd(w, u, r, f) \/ ReadForCreateFinding(w, u, r, f)
                                    \/ ReadForEditFinding(w, u, r, f)
    PROVE  IInv'
<1>1. "absent" \in States /\ {"edit", "content", "link", "insert", "update"} \subseteq Labels \ {"idle", "told"}
  BY DEF States, Labels
<1>2. row[r] \in Row
  BY DEF IInv, TypeOK
<1>3. Client(r) \in Row /\ Client(r).client = row[r].client
  BY <1>2 DEF Client, NoRow, Row, States
<1>4. CASE ReadForEdit(w, u, r)
  <2>1. PICK label \in {"edit", "content"} : Take(w, NoUser, r, NoFinding, row[r], "absent", label)
    BY <1>4 DEF ReadForEdit
  <2>2. Exists(r) /\ UNCHANGED <<tables, moved>>
    BY <1>4 DEF ReadForEdit
  <2> QED BY <1>1, <1>2, <2>1, <2>2, TakeStep
<1>5. ASSUME NEW f \in FindingIds, ReadForAdd(w, u, r, f) PROVE IInv'
  <2>1. Exists(r) /\ Take(w, NoUser, r, f, NoRow, "absent", "link") /\ UNCHANGED <<tables, moved>>
    BY <1>5 DEF ReadForAdd
  <2> QED BY <1>1, <2>1, NoRowTyped, TakeStep
<1>6. ASSUME NEW f \in FindingIds, ReadForCreateFinding(w, u, r, f) PROVE IInv'
  <2>1. Exists(r) /\ Take(w, NoUser, r, f, Client(r), "absent", "insert") /\ UNCHANGED <<tables, moved>>
    BY <1>6 DEF ReadForCreateFinding
  <2> QED BY <1>1, <1>3, <2>1, TakeStep
<1>7. ASSUME NEW f \in FindingIds, ReadForEditFinding(w, u, r, f) PROVE IInv'
  <2>1. Exists(r) /\ Take(w, NoUser, r, f, Client(r), "absent", "update") /\ UNCHANGED <<tables, moved>>
    BY <1>7 DEF ReadForEditFinding
  <2> QED BY <1>1, <1>3, <2>1, TakeStep
<1> QED BY <1>4, <1>5, <1>6, <1>7

\* A worker is done, or goes on.
LEMMA FinishFacts ==
    ASSUME TypeOK, NEW w \in Workers, Finish(w)
    PROVE  /\ pc'[w] = "idle" /\ target'[w] = NoId
           /\ \A y \in Workers \ {w} :
                 /\ pc'[y] = pc[y] /\ actor'[y] = actor[y] /\ target'[y] = target[y]
                 /\ finding'[y] = finding[y] /\ mine'[y] = mine[y] /\ goal'[y] = goal[y]
           /\ pc' \in [Workers -> Labels]
           /\ actor' \in [Workers -> Users \cup {NoUser}]
           /\ target' \in [Workers -> Ids \cup {NoId}]
           /\ finding' \in [Workers -> FindingIds \cup {NoFinding}]
           /\ mine' \in [Workers -> Row]
           /\ goal' \in [Workers -> States]
<1>1. "idle" \in Labels /\ "absent" \in States
  BY DEF Labels, States
<1> QED BY <1>1, NoRowTyped DEF TypeOK, Finish

\* The last statement of a request that leaves the rows and the audit alone.
LEMMA FinishStep ==
    ASSUME IInv, NEW w \in Workers, pc[w] \notin {"idle", "told"}, Finish(w),
           UNCHANGED <<row, told, contended>>,
           researchers' \in [Ids -> SUBSET Users], findings' \in [Ids -> SUBSET FindingIds],
           vendor' \in [FindingIds -> Vendors \cup {NoVendor, Deleted}],
           moved' \subseteq Ids \cup FindingIds
    PROVE  IInv'
<1> DEFINE r == target[w]
<1>1. TypeOK /\ Rows /\ r \in Ids /\ Exists(r)
  BY DEF IInv, Jobs, Job
<1>2. r \notin contended => told[r] = row[r].status
  BY DEF IInv, Contention, Current
<1> HIDE DEF r
<1>3. TypeOK'
  BY <1>1, FinishFacts DEF TypeOK
<1>4. target[w] = r
  BY DEF r
<1>5. Does(w, r)
  BY <1>1, <1>4, FinishFacts DEF Does, Rows, Exists
<1>6. Leaves(w, r)
  BY <1>1, <1>2, FinishFacts DEF Leaves, Job
<1> QED BY <1>1, <1>3, <1>5, <1>6, DoesStep

\* form.save_m2m().
LEMMA SavePeopleStep ==
    ASSUME IInv, NEW w \in Workers, SavePeople(w)
    PROVE  IInv'
<1>1. PICK team \in SUBSET Involved : researchers' = [researchers EXCEPT ![target[w]] = team]
  BY DEF SavePeople
<1>2. researchers' \in [Ids -> SUBSET Users]
  BY <1>1, ReportsAssumption DEF IInv, TypeOK
<1> QED BY <1>2, FinishStep DEF SavePeople, IInv, TypeOK

\* report.findings.add().
LEMMA LinkStep ==
    ASSUME IInv, NEW w \in Workers, Link(w)
    PROVE  IInv'
<1>1. finding[w] \in FindingIds
  BY DEF Link, IInv, Jobs, Job
<1>2. findings' \in [Ids -> SUBSET FindingIds]
  BY <1>1 DEF Link, IInv, TypeOK
<1> QED BY <1>2, FinishStep DEF Link, IInv, TypeOK

\* report_edit_finding saves the finding with the client it read.
LEMMA UpdateFindingStep ==
    ASSUME IInv, NEW w \in Workers, UpdateFinding(w)
    PROVE  IInv'
<1>1. finding[w] \in FindingIds /\ mine[w].client \in Vendors
  BY DEF UpdateFinding, IInv, Jobs, Job
<1>2. /\ vendor' \in [FindingIds -> Vendors \cup {NoVendor, Deleted}]
      /\ moved' \subseteq Ids \cup FindingIds
  BY <1>1 DEF UpdateFinding, IInv, TypeOK
<1> QED BY <1>2, FinishStep DEF UpdateFinding, IInv, TypeOK

\* The save of a form: every column of the copy, the client perhaps changed.
LEMMA SaveEditStep ==
    ASSUME IInv, NEW w \in Workers, SaveEdit(w)
    PROVE  IInv'
<1> DEFINE r == target[w]
<1>1. /\ TypeOK /\ pc[w] = "edit" /\ r \in Ids /\ mine[w] \in Row /\ Sound(mine[w])
      /\ mine[w].status # "absent" /\ mine[w].createdBy = row[r].createdBy
      /\ r \notin contended => mine[w] = row[r] /\ told[r] = row[r].status
  BY DEF SaveEdit, IInv, TypeOK, Jobs, Job, Contention, Current
<1>2. PICK v \in Vendors :
         /\ row' = [row EXCEPT ![r] = [mine[w] EXCEPT !.client = v]]
         /\ moved' = IF v = row[r].client THEN moved ELSE moved \cup {r}
  BY DEF SaveEdit
<1> DEFINE new == [mine[w] EXCEPT !.client = v]
<1>3. /\ new \in Row /\ new.status = mine[w].status /\ new.createdBy = mine[w].createdBy
      /\ new.reviewedBy = mine[w].reviewedBy /\ new.client = v
  BY <1>1 DEF Row
<1> HIDE DEF new
<1>4. row'[r] = new /\ \A q \in Ids \ {r} : row'[q] = row[q]
  BY <1>1, <1>2 DEF TypeOK, new
<1>5. /\ pc' = [pc EXCEPT ![w] = "people"] /\ mine' = [mine EXCEPT ![w] = NoRow]
      /\ UNCHANGED <<actor, target, finding, goal, researchers, findings, vendor, told, contended>>
  BY DEF SaveEdit
<1>6. TypeOK'
  <2>1. row' \in [Ids -> Row] /\ moved' \subseteq Ids \cup FindingIds
    BY <1>1, <1>2, <1>3 DEF TypeOK, new
  <2>2. "people" \in Labels
    BY DEF Labels
  <2> QED BY <1>1, <1>5, <2>1, <2>2, NoRowTyped DEF TypeOK
<1>7. Does(w, target[w])
  BY <1>1, <1>3, <1>4, <1>5 DEF Does, Sound, TypeOK
<1>8. Leaves(w, target[w])
  BY <1>1, <1>3, <1>4, <1>5 DEF Leaves, Job, Current, Exists, TypeOK
<1> QED BY <1>1, <1>6, <1>7, <1>8, DoesStep

\* report_edit_content saves the copy it read.
LEMMA SaveContentStep ==
    ASSUME IInv, NEW w \in Workers, SaveContent(w)
    PROVE  IInv'
<1> DEFINE r == target[w]
<1>1. /\ TypeOK /\ pc[w] = "content" /\ r \in Ids /\ mine[w] \in Row /\ Sound(mine[w])
      /\ mine[w].status # "absent" /\ mine[w].createdBy = row[r].createdBy
      /\ mine[w].client \in Vendors
      /\ r \notin contended => mine[w] = row[r] /\ told[r] = row[r].status
  BY DEF SaveContent, IInv, TypeOK, Jobs, Job, Contention, Current
<1>2. /\ row' = [row EXCEPT ![r] = mine[w]] /\ Finish(w)
      /\ moved' = IF mine[w].client = row[r].client THEN moved ELSE moved \cup {r}
      /\ UNCHANGED <<researchers, findings, vendor, told, contended>>
  BY DEF SaveContent
<1>3. row'[r] = mine[w] /\ \A q \in Ids \ {r} : row'[q] = row[q]
  BY <1>1, <1>2 DEF TypeOK
<1>4. TypeOK'
  <2>1. row' \in [Ids -> Row] /\ moved' \subseteq Ids \cup FindingIds
    BY <1>1, <1>2 DEF TypeOK
  <2> QED BY <1>1, <1>2, <2>1, FinishFacts DEF TypeOK
<1>5. Does(w, target[w])
  BY <1>1, <1>2, <1>3, FinishFacts DEF Does, Sound
<1>6. Leaves(w, target[w])
  BY <1>1, <1>2, <1>3, FinishFacts DEF Leaves, Job
<1> QED BY <1>1, <1>4, <1>5, <1>6, DoesStep

\* The save of a review: the status and the reviewer.
LEMMA SaveMoveStep ==
    ASSUME IInv, NEW w \in Workers, SaveMove(w)
    PROVE  IInv'
<1> DEFINE r == target[w]
           new == [row[r] EXCEPT !.status = goal[w], !.reviewedBy = actor[w]]
<1>1. /\ TypeOK /\ Rows /\ pc[w] = "move" /\ r \in Ids /\ Exists(r)
      /\ goal[w] \in {"in_review", "approved", "rejected"} /\ actor[w] \in Users \cup {NoUser}
      /\ goal[w] # "in_review" =>
            /\ actor[w] \in Authority
            /\ actor[w] # row[r].createdBy \/ actor[w] \in Superadmins
  BY DEF SaveMove, IInv, TypeOK, Jobs, Job
<1>2. row[r] \in Row /\ row[r].client \in Vendors
  BY <1>1 DEF TypeOK, Rows
<1>3. /\ new \in Row /\ new.status = goal[w] /\ new.reviewedBy = actor[w]
      /\ new.createdBy = row[r].createdBy /\ new.client = row[r].client
  BY <1>1, <1>2 DEF Row, States
<1>4. /\ row' = [row EXCEPT ![r] = new] /\ pc' = [pc EXCEPT ![w] = "told"]
      /\ UNCHANGED <<actor, target, finding, mine, goal, researchers, findings, vendor, told,
                     moved, contended>>
  BY <1>1, <1>2 DEF SaveMove, Goto, TypeOK, Row
<1> HIDE DEF new
<1>5. row'[r] = new /\ \A q \in Ids \ {r} : row'[q] = row[q]
  BY <1>1, <1>4 DEF TypeOK
<1>6. TypeOK'
  <2>1. row' \in [Ids -> Row] /\ "told" \in Labels
    BY <1>1, <1>3, <1>4 DEF TypeOK, Labels
  <2> QED BY <1>1, <1>4, <2>1 DEF TypeOK
<1>7. Does(w, target[w])
  BY <1>1, <1>2, <1>3, <1>4, <1>5 DEF Does, Sound, TypeOK
<1>8. Leaves(w, target[w])
  BY <1>1, <1>3, <1>4, <1>5 DEF Leaves, Job, Current, Exists, TypeOK
<1> QED BY <1>1, <1>6, <1>7, <1>8, DoesStep

\* The audit row of a review.
LEMMA AuditMoveStep ==
    ASSUME IInv, NEW w \in Workers, AuditMove(w)
    PROVE  IInv'
<1> DEFINE r == target[w]
<1>1. /\ TypeOK /\ Rows /\ pc[w] = "told" /\ r \in Ids /\ Exists(r) /\ goal[w] \in States
      /\ r \notin contended => goal[w] = row[r].status
  BY DEF AuditMove, IInv, TypeOK, Jobs, Job, Contention, Current
<1>2. /\ told' = [told EXCEPT ![r] = goal[w]] /\ Finish(w)
      /\ UNCHANGED <<row, researchers, findings, vendor, moved, contended>>
  BY DEF AuditMove
<1>3. told'[r] = goal[w] /\ \A q \in Ids \ {r} : told'[q] = told[q]
  BY <1>1, <1>2 DEF TypeOK
<1>4. TypeOK'
  <2>1. told' \in [Ids -> States]
    BY <1>1, <1>2 DEF TypeOK
  <2> QED BY <1>1, <1>2, <2>1, FinishFacts DEF TypeOK
<1>5. Does(w, target[w])
  BY <1>1, <1>2, <1>3, FinishFacts DEF Does, Rows, Exists
<1>6. Leaves(w, target[w])
  BY <1>1, <1>2, <1>3, FinishFacts DEF Leaves, Job
<1> QED BY <1>1, <1>4, <1>5, <1>6, DoesStep

\* The INSERT of report_create_finding.
LEMMA InsertFindingStep ==
    ASSUME IInv, NEW w \in Workers, InsertFinding(w)
    PROVE  IInv'
<1> DEFINE r == target[w]
<1>1. /\ TypeOK /\ Rows /\ pc[w] = "insert" /\ r \in Ids /\ Exists(r)
      /\ finding[w] \in FindingIds /\ mine[w].client \in Vendors
      /\ r \notin contended => told[r] = row[r].status
  BY DEF InsertFinding, IInv, TypeOK, Jobs, Job, Contention, Current
<1>2. /\ vendor' = [vendor EXCEPT ![finding[w]] = mine[w].client]
      /\ pc' = [pc EXCEPT ![w] = "link"]
      /\ UNCHANGED <<row, researchers, findings, told, moved, contended,
                     actor, target, finding, mine, goal>>
  BY DEF InsertFinding, Goto
<1>3. TypeOK'
  <2>1. vendor' \in [FindingIds -> Vendors \cup {NoVendor, Deleted}] /\ "link" \in Labels
    BY <1>1, <1>2 DEF TypeOK, Labels
  <2> QED BY <1>1, <1>2, <2>1 DEF TypeOK
<1>4. Does(w, target[w])
  BY <1>1, <1>2 DEF Does, Rows, Exists, TypeOK
<1>5. Leaves(w, target[w])
  BY <1>1, <1>2 DEF Leaves, Job, Current, Exists, TypeOK
<1> QED BY <1>1, <1>3, <1>4, <1>5, DoesStep

\* A killed worker: what it wrote stays, and the report is contended from then on.
LEMMA CrashStep ==
    ASSUME IInv, NEW w \in Workers, Crash(w)
    PROVE  IInv'
<1> DEFINE r == target[w]
<1>1. TypeOK /\ Rows /\ pc[w] # "idle" /\ r \in Ids /\ Exists(r)
  BY DEF Crash, IInv, Jobs, Job
<1>2. /\ contended' = contended \cup {r} /\ Finish(w)
      /\ UNCHANGED <<row, told, researchers, findings, vendor, moved>>
  BY DEF Crash, tables
<1>3. TypeOK'
  BY <1>1, <1>2, FinishFacts DEF TypeOK
<1>4. Does(w, target[w])
  BY <1>1, <1>2, FinishFacts DEF Does, Rows, Exists
<1>5. Leaves(w, target[w])
  BY <1>1, <1>2, FinishFacts DEF Leaves, Job
<1> QED BY <1>1, <1>3, <1>4, <1>5, DoesStep

\* A step that leaves the reports, the audit and the workers alone.
LEMMA AsideStep ==
    ASSUME IInv, UNCHANGED <<row, told, pc, actor, target, finding, mine, goal, contended>>, TypeOK'
    PROVE  IInv'
  BY DEF IInv, Rows, Jobs, Job, Contention, Current, StatusReconstructable, Exists, Sound

\* Every step keeps the invariant.
LEMMA NextInv == IInv /\ [Next]_vars => IInv'
<1> SUFFICES ASSUME IInv, [Next]_vars PROVE IInv'
  OBVIOUS
<1>1. ASSUME NEW w \in Workers, NEW u \in Users, NEW r \in Ids,
             \/ ReadForEdit(w, u, r)
             \/ \E v \in Vendors : Create(w, u, r, v)
             \/ \E next \in {"in_review", "approved", "rejected"} : ReadForMove(w, u, r, next)
             \/ \E f \in FindingIds :
                   \/ ReadForAdd(w, u, r, f) \/ ReadForCreateFinding(w, u, r, f)
                   \/ ReadForEditFinding(w, u, r, f)
      PROVE  IInv'
  BY <1>1, CreateStep, MoveStep, FormStep
<1>2. ASSUME NEW w \in Workers,
             \/ SaveEdit(w) \/ SavePeople(w) \/ SaveContent(w) \/ SaveMove(w) \/ AuditMove(w)
             \/ InsertFinding(w) \/ Link(w) \/ UpdateFinding(w) \/ Crash(w)
      PROVE  IInv'
  BY <1>2, SaveEditStep, SavePeopleStep, SaveContentStep, SaveMoveStep, AuditMoveStep,
     InsertFindingStep, LinkStep, UpdateFindingStep, CrashStep
<1>3. ASSUME NEW f \in FindingIds,
             \/ DeleteFinding(f)
             \/ \E v \in Vendors : SetVendor(f, v)
             \/ \E u \in Users, r \in Ids : RemoveFinding(u, r, f)
      PROVE  IInv'
  <2>1. TypeOK'
    BY <1>3 DEF DeleteFinding, SetVendor, RemoveFinding, locals, IInv, TypeOK
  <2> QED BY <1>3, <2>1, AsideStep DEF DeleteFinding, SetVendor, RemoveFinding, locals
<1>4. CASE UNCHANGED vars
  <2>1. TypeOK'
    BY <1>4 DEF vars, IInv, TypeOK
  <2> QED BY <1>4, <2>1, AsideStep DEF vars
<1> QED BY <1>1, <1>2, <1>3, <1>4 DEF Next

\* The invariant holds in every reachable state.
THEOREM Invariant == Spec => []IInv
  BY InitInv, NextInv, PTL DEF Spec

-----------------------------------------------------------------------------
(* What follows from it.                                                   *)

\* The tables and the workers' variables keep their types (reports/views.py).
THEOREM TypeCorrect == Spec => []TypeOK
<1>1. IInv => TypeOK
  BY DEF IInv
<1> QED BY <1>1, Invariant, PTL

\* However the forms and reviews of reports/views.py overwrite one another, a
\* report approved or rejected names somebody entitled to it.
THEOREM VerdictsNamed == Spec => []VerdictNamesReviewer
<1>1. IInv => VerdictNamesReviewer
  BY DEF IInv, Rows, Sound, VerdictNamesReviewer
<1> QED BY <1>1, Invariant, PTL

\* The audit rows of _set_report_state tell the status of each report that one
\* request at a time was about.
THEOREM StatusTold == Spec => []StatusReconstructable
<1>1. IInv => StatusReconstructable
  BY DEF IInv
<1> QED BY <1>1, Invariant, PTL

\* The actions that change no row.
LEMMA RowsAlone ==
    ASSUME [Next]_vars,
           \A w \in Workers : ~SaveEdit(w) /\ ~SaveContent(w) /\ ~SaveMove(w),
           \A w \in Workers, u \in Users, r \in Ids, v \in Vendors : ~Create(w, u, r, v)
    PROVE  row' = row
<1>1. ASSUME NEW w \in Workers, NEW u \in Users, NEW r \in Ids,
             \/ ReadForEdit(w, u, r)
             \/ \E next \in {"in_review", "approved", "rejected"} : ReadForMove(w, u, r, next)
             \/ \E f \in FindingIds :
                   \/ ReadForAdd(w, u, r, f) \/ ReadForCreateFinding(w, u, r, f)
                   \/ ReadForEditFinding(w, u, r, f)
      PROVE  row' = row
  BY <1>1 DEF ReadForEdit, ReadForMove, ReadForAdd, ReadForCreateFinding, ReadForEditFinding, tables
<1>2. ASSUME NEW w \in Workers,
             \/ SavePeople(w) \/ AuditMove(w) \/ InsertFinding(w) \/ Link(w)
             \/ UpdateFinding(w) \/ Crash(w)
      PROVE  row' = row
  BY <1>2 DEF SavePeople, AuditMove, InsertFinding, Link, UpdateFinding, Crash, tables
<1>3. ASSUME NEW f \in FindingIds,
             \/ DeleteFinding(f)
             \/ \E v \in Vendors : SetVendor(f, v)
             \/ \E u \in Users, r \in Ids : RemoveFinding(u, r, f)
      PROVE  row' = row
  BY <1>3 DEF DeleteFinding, SetVendor, RemoveFinding
<1>4. CASE UNCHANGED vars
  BY <1>4 DEF vars
<1> QED BY <1>1, <1>2, <1>3, <1>4 DEF Next

\* Who takes an approval back.
LEMMA ApprovalStep ==
    ASSUME IInv, [Next]_vars, NEW r \in Ids \ contended',
           row[r].status = "approved", row'[r].status # "approved"
    PROVE  row'[r].status = "in_review" /\ row'[r].reviewedBy \in Superadmins
<1>1. row \in [Ids -> Row] /\ Exists(r)
  BY DEF IInv, TypeOK, Exists
<1>2. \A w \in Workers, u \in Users, q \in Ids, v \in Vendors : ~Create(w, u, q, v)
  BY <1>1 DEF Create, Exists
<1>3. ASSUME NEW w \in Workers, pc[w] # "idle", target[w] = r, contended' = contended
      PROVE  Current(w)
  BY <1>3 DEF IInv, Contention
<1>4. ASSUME NEW w \in Workers, SaveEdit(w) PROVE FALSE
  <2>1. target[w] \in Ids /\ mine[w] \in Row /\ pc[w] = "edit" /\ contended' = contended
    BY <1>4 DEF SaveEdit, IInv, Jobs, Job, TypeOK
  <2>2. PICK v \in Vendors : row' = [row EXCEPT ![target[w]] = [mine[w] EXCEPT !.client = v]]
    BY <1>4 DEF SaveEdit
  <2>3. target[w] = r
    BY <1>1, <2>1, <2>2
  <2>4. mine[w] = row[r]
    BY <1>3, <2>1, <2>3 DEF Current
  <2> QED BY <1>1, <2>1, <2>2, <2>3, <2>4 DEF Row
<1>5. ASSUME NEW w \in Workers, SaveContent(w) PROVE FALSE
  <2>1. /\ target[w] \in Ids /\ pc[w] = "content" /\ contended' = contended
        /\ row' = [row EXCEPT ![target[w]] = mine[w]]
    BY <1>5 DEF SaveContent, IInv, Jobs, Job
  <2>2. target[w] = r
    BY <1>1, <2>1
  <2>3. mine[w] = row[r]
    BY <1>3, <2>1, <2>2 DEF Current
  <2> QED BY <1>1, <2>1, <2>2, <2>3
<1>6. ASSUME NEW w \in Workers, SaveMove(w)
      PROVE  row'[r].status = "in_review" /\ row'[r].reviewedBy \in Superadmins
  <2>1. /\ target[w] \in Ids /\ pc[w] = "move" /\ contended' = contended
        /\ row' = [row EXCEPT ![target[w]].status = goal[w], ![target[w]].reviewedBy = actor[w]]
    BY <1>6 DEF SaveMove, IInv, Jobs, Job
  <2>2. target[w] = r
    BY <1>1, <2>1
  <2>3. goal[w] = "in_review" /\ actor[w] \in Superadmins
    BY <1>3, <2>1, <2>2 DEF Current
  <2> QED BY <1>1, <2>1, <2>2, <2>3 DEF Row
<1> QED BY <1>2, <1>4, <1>5, <1>6, RowsAlone

\* report_reopen: of reports that one request at a time was about, only a
\* superadmin takes an approval back.
THEOREM ApprovalsStand == Spec => ApprovalStands
<1>1. IInv /\ [Next]_vars =>
          [\A r \in Ids \ contended' :
              row[r].status = "approved" /\ row'[r].status # "approved" =>
                  row'[r].status = "in_review" /\ row'[r].reviewedBy \in Superadmins]_vars
  BY ApprovalStep
<1> QED BY <1>1, Invariant, PTL DEF Spec, ApprovalStands

-----------------------------------------------------------------------------
(* Part three is about the clients of findings.                            *)

\* f is no other client's finding than report r's, as far as the history goes.
Ours(r, f) == r \notin moved /\ f \notin moved => vendor[f] = row[r].client

Clients ==
    /\ \A r \in Ids : ~Exists(r) => findings[r] = {}
    /\ \A r \in Ids : \A f \in findings[r] : vendor[f] \in Vendors /\ Ours(r, f)
    /\ \A w \in Workers : pc[w] \in {"link", "update"} => vendor[finding[w]] # NoVendor
    /\ \A w \in Workers : pc[w] = "link" /\ vendor[finding[w]] # Deleted =>
          Ours(target[w], finding[w])
    /\ \A w \in Workers : pc[w] = "insert" =>
          /\ vendor[finding[w]] = NoVendor
          /\ target[w] \notin moved => mine[w].client = row[target[w]].client
          /\ \A x \in Workers \ {w} : finding[x] # finding[w]

\* There are no reports and no findings yet.
LEMMA ClientsInit == Init => Clients
  BY ReportsAssumption DEF Init, Clients, NoRow, Exists

\* The rows keep their client, or are in the history.
LEMMA ClientsRows ==
    ASSUME IInv, Clients, NEW r \in Ids, \A q \in Ids \ {r} : row'[q] = row[q],
           ~Exists(r) \/ row'[r].client = row[r].client \/ r \in moved',
           Exists(r) => row'[r].status # "absent", moved \subseteq moved',
           UNCHANGED <<findings, vendor>>,
           NEW w \in Workers, pc'[w] \notin {"insert", "link", "update"},
           \A x \in Workers \ {w} :
              /\ pc'[x] = pc[x] /\ target'[x] = target[x]
              /\ finding'[x] = finding[x] /\ mine'[x] = mine[x],
           finding'[w] \in {finding[w], NoFinding}
    PROVE  Clients'
<1>1. \A q \in Ids : ~Exists(q)' => ~Exists(q)
  BY DEF Exists
<1>2. \A q \in Ids : Exists(q) /\ q \notin moved' => row'[q].client = row[q].client
  OBVIOUS
<1>3. \A q \in Ids : \A f : f \in findings[q] => Exists(q) /\ vendor[f] \in Vendors /\ Ours(q, f)'
  BY <1>2 DEF Clients, Ours
<1>4. ASSUME NEW x \in Workers, pc'[x] \in {"insert", "link", "update"}
      PROVE  /\ x # w /\ pc[x] = pc'[x] /\ target'[x] = target[x] /\ finding'[x] = finding[x]
             /\ mine'[x] = mine[x] /\ target[x] \in Ids /\ Exists(target[x]) /\ finding[x] \in FindingIds
  BY <1>4 DEF IInv, Jobs, Job
<1>5. ASSUME NEW x \in Workers, pc'[x] \in {"link", "update"} PROVE vendor'[finding'[x]] # NoVendor
  BY <1>4, <1>5 DEF Clients
<1>6. ASSUME NEW x \in Workers, pc'[x] = "link", vendor'[finding'[x]] # Deleted
      PROVE  Ours(target[x], finding[x])'
  BY <1>2, <1>4, <1>6 DEF Clients, Ours
<1>7. ASSUME NEW x \in Workers, pc'[x] = "insert"
      PROVE  /\ vendor'[finding'[x]] = NoVendor
             /\ target'[x] \notin moved' => mine'[x].client = row'[target'[x]].client
             /\ \A y \in Workers \ {x} : finding'[y] # finding'[x]
  BY <1>2, <1>4, <1>7, ReportsAssumption DEF Clients
<1> QED BY <1>1, <1>3, <1>5, <1>6, <1>7 DEF Clients

\* A request that is over is about no finding.
LEMMA DoneFacts ==
    ASSUME TypeOK, NEW w \in Workers, Finish(w)
    PROVE  /\ pc'[w] = "idle" /\ finding'[w] = NoFinding
           /\ \A x \in Workers \ {w} :
                 /\ pc'[x] = pc[x] /\ target'[x] = target[x]
                 /\ finding'[x] = finding[x] /\ mine'[x] = mine[x]
  BY DEF TypeOK, Finish

\* The steps that change no finding's vendor and no report's findings.
LEMMA ClientsQuiet ==
    ASSUME IInv, Clients, NEW w \in Workers,
           \/ SaveEdit(w) \/ SavePeople(w) \/ SaveContent(w) \/ SaveMove(w) \/ AuditMove(w) \/ Crash(w)
           \/ \E u \in Users, r \in Ids :
                 \/ ReadForEdit(w, u, r)
                 \/ \E v \in Vendors : Create(w, u, r, v)
                 \/ \E next \in {"in_review", "approved", "rejected"} : ReadForMove(w, u, r, next)
    PROVE  Clients'
<1>1. TypeOK
  BY DEF IInv
<1>2. ASSUME pc[w] # "idle" PROVE target[w] \in Ids /\ Exists(target[w])
  BY <1>2 DEF IInv, Jobs, Job
<1>3. CASE SaveEdit(w)
  <2>1. pc[w] # "idle" /\ mine[w] \in Row /\ mine[w].status # "absent"
    BY <1>1, <1>3 DEF SaveEdit, IInv, Jobs, Job, TypeOK
  <2>2. PICK v \in Vendors :
           /\ row' = [row EXCEPT ![target[w]] = [mine[w] EXCEPT !.client = v]]
           /\ moved' = IF v = row[target[w]].client THEN moved ELSE moved \cup {target[w]}
    BY <1>3 DEF SaveEdit
  <2>3. /\ \A q \in Ids \ {target[w]} : row'[q] = row[q]
        /\ row'[target[w]].client = v /\ row'[target[w]].status = mine[w].status
    BY <1>1, <1>2, <2>1, <2>2 DEF TypeOK, Row
  <2>4. pc'[w] = "people" /\ \A x \in Workers \ {w} : pc'[x] = pc[x] /\ mine'[x] = mine[x]
    BY <1>1, <1>3 DEF SaveEdit, TypeOK
  <2> QED BY <1>2, <1>3, <2>1, <2>2, <2>3, <2>4, ClientsRows DEF SaveEdit
<1>4. CASE SaveContent(w)
  <2>1. /\ pc[w] # "idle" /\ mine[w].status # "absent" /\ row' = [row EXCEPT ![target[w]] = mine[w]]
        /\ moved' = IF mine[w].client = row[target[w]].client THEN moved ELSE moved \cup {target[w]}
        /\ UNCHANGED <<findings, vendor>> /\ Finish(w)
    BY <1>4 DEF SaveContent, IInv, Jobs, Job
  <2>2. row'[target[w]] = mine[w] /\ \A q \in Ids \ {target[w]} : row'[q] = row[q]
    BY <1>1, <1>2, <2>1 DEF TypeOK
  <2> QED BY <1>1, <1>2, <2>1, <2>2, DoneFacts, ClientsRows
<1>5. CASE SaveMove(w)
  <2>1. /\ pc[w] # "idle" /\ goal[w] # "absent"
        /\ row' = [row EXCEPT ![target[w]].status = goal[w], ![target[w]].reviewedBy = actor[w]]
        /\ UNCHANGED <<findings, vendor, moved, target, finding, mine>>
        /\ pc' = [pc EXCEPT ![w] = "told"]
    BY <1>5 DEF SaveMove, Goto, IInv, Jobs, Job
  <2>2. /\ \A q \in Ids \ {target[w]} : row'[q] = row[q]
        /\ row'[target[w]].client = row[target[w]].client /\ row'[target[w]].status = goal[w]
    BY <1>1, <1>2, <2>1 DEF TypeOK, Row
  <2>3. pc'[w] = "told" /\ \A x \in Workers \ {w} : pc'[x] = pc[x]
    BY <1>1, <2>1 DEF TypeOK
  <2> QED BY <1>2, <2>1, <2>2, <2>3, ClientsRows
<1>6. CASE SavePeople(w) \/ AuditMove(w) \/ Crash(w)
  <2>1. pc[w] # "idle" /\ UNCHANGED <<row, findings, vendor, moved>> /\ Finish(w)
    BY <1>6 DEF SavePeople, AuditMove, Crash, tables
  <2> QED BY <1>1, <1>2, <2>1, DoneFacts, ClientsRows DEF Exists
<1>7. ASSUME NEW u \in Users, NEW r \in Ids, NEW v \in Vendors, Create(w, u, r, v)
      PROVE  Clients'
  <2>1. /\ ~Exists(r) /\ UNCHANGED <<findings, vendor, moved>>
        /\ Take(w, NoUser, r, NoFinding, NoRow, "absent", "people")
        /\ \A q \in Ids \ {r} : row'[q] = row[q]
    BY <1>1, <1>7 DEF Create, TypeOK
  <2> QED BY <1>1, <2>1, TakeFacts, ClientsRows
<1>8. ASSUME NEW u \in Users, NEW r \in Ids,
             \/ ReadForEdit(w, u, r)
             \/ \E next \in {"in_review", "approved", "rejected"} : ReadForMove(w, u, r, next)
      PROVE  Clients'
  <2>1. /\ UNCHANGED <<row, findings, vendor, moved>>
        /\ \E a, x, next : \E label \in {"edit", "content", "move"} :
              Take(w, a, r, NoFinding, x, next, label)
    BY <1>8 DEF ReadForEdit, ReadForMove, tables
  <2>2. PICK a, x, next : \E label \in {"edit", "content", "move"} :
              Take(w, a, r, NoFinding, x, next, label)
    BY <2>1
  <2>3. PICK label \in {"edit", "content", "move"} : Take(w, a, r, NoFinding, x, next, label)
    BY <2>2
  <2>4. /\ pc'[w] = label /\ finding'[w] = NoFinding
        /\ \A y \in Workers \ {w} :
              /\ pc'[y] = pc[y] /\ target'[y] = target[y]
              /\ finding'[y] = finding[y] /\ mine'[y] = mine[y]
    BY <1>1, <2>3, TakeFacts
  <2> QED BY <2>1, <2>4, ClientsRows DEF Exists
<1> QED BY <1>3, <1>4, <1>5, <1>6, <1>7, <1>8

\* The requests about a finding are read.
LEMMA ClientsRead ==
    ASSUME IInv, Clients, NEW w \in Workers, NEW u \in Users, NEW r \in Ids, NEW f \in FindingIds,
           \/ ReadForAdd(w, u, r, f) \/ ReadForCreateFinding(w, u, r, f)
           \/ ReadForEditFinding(w, u, r, f)
    PROVE  Clients'
<1>1. TypeOK /\ Exists(r) /\ UNCHANGED <<row, findings, vendor, moved>>
  BY DEF IInv, ReadForAdd, ReadForCreateFinding, ReadForEditFinding, tables
<1>2. row[r].client \in Vendors
  BY <1>1 DEF IInv, Rows
<1>3. \E x, label :
         /\ Take(w, NoUser, r, f, x, "absent", label)
         /\ \/ label = "link" /\ vendor[f] = row[r].client
            \/ /\ label = "insert" /\ vendor[f] = NoVendor /\ x = Client(r)
               /\ \A y \in Workers : finding[y] # f
            \/ label = "update" /\ f \in findings[r]
  BY DEF ReadForAdd, ReadForCreateFinding, ReadForEditFinding
<1>4. PICK x, label :
         /\ Take(w, NoUser, r, f, x, "absent", label)
         /\ \/ label = "link" /\ vendor[f] = row[r].client
            \/ /\ label = "insert" /\ vendor[f] = NoVendor /\ x = Client(r)
               /\ \A y \in Workers : finding[y] # f
            \/ label = "update" /\ f \in findings[r]
  BY <1>3
<1>5. /\ pc'[w] = label /\ target'[w] = r /\ finding'[w] = f /\ mine'[w] = x
      /\ \A y \in Workers \ {w} :
            /\ pc'[y] = pc[y] /\ target'[y] = target[y]
            /\ finding'[y] = finding[y] /\ mine'[y] = mine[y]
  BY <1>1, <1>4, TakeFacts
<1>6. Client(r).client = row[r].client
  BY DEF Client, NoRow
<1>7. \A q \in Ids : ~Exists(q)' => findings'[q] = {}
  BY <1>1 DEF Clients, Exists
<1>8. \A q \in Ids : \A g \in findings'[q] : vendor'[g] \in Vendors /\ Ours(q, g)'
  BY <1>1 DEF Clients, Ours
<1>9. vendor[f] # NoVendor \/ label = "insert"
  BY <1>2, <1>4, ReportsAssumption DEF Clients
<1>10. ASSUME NEW y \in Workers, pc'[y] \in {"link", "update"} PROVE vendor'[finding'[y]] # NoVendor
  BY <1>1, <1>4, <1>5, <1>9, <1>10 DEF Clients
<1>11. ASSUME NEW y \in Workers, pc'[y] = "link", vendor'[finding'[y]] # Deleted
       PROVE  Ours(target[y], finding[y])'
  BY <1>1, <1>4, <1>5, <1>11 DEF Clients, Ours
<1>12. ASSUME NEW y \in Workers, pc'[y] = "insert"
       PROVE  /\ vendor'[finding'[y]] = NoVendor
              /\ target'[y] \notin moved' => mine'[y].client = row'[target'[y]].client
              /\ \A z \in Workers \ {y} : finding'[z] # finding'[y]
  <2>1. CASE y = w
    BY <1>1, <1>4, <1>5, <1>6, <1>12, <2>1
  <2>2. CASE y # w
    <3>1. vendor[finding[y]] = NoVendor /\ \A z \in Workers \ {y} : finding[z] # finding[y]
      BY <1>5, <1>12, <2>2 DEF Clients
    <3>2. f # finding[y]
      BY <1>4, <1>9, <2>2, <3>1
    <3>3. \A z \in Workers \ {y} : finding'[z] # finding'[y]
      BY <1>5, <2>2, <3>1, <3>2
    <3> QED BY <1>1, <1>5, <1>12, <2>2, <3>1, <3>3 DEF Clients
  <2> QED BY <2>1, <2>2
<1> QED BY <1>7, <1>8, <1>10, <1>11, <1>12 DEF Clients

\* A finding of vendor v is saved; it has it, or goes down in the history, or
\* is new.
LEMMA ClientsVendor ==
    ASSUME IInv, Clients, NEW f \in FindingIds, NEW v \in Vendors,
           vendor' = [vendor EXCEPT ![f] = v], UNCHANGED <<row, findings>>,
           vendor[f] = v \/ vendor[f] = NoVendor \/ f \in moved', moved \subseteq moved',
           \A x \in Workers : pc'[x] = "insert" => finding[x] # f,
           \A x \in Workers :
              \/ /\ target'[x] = target[x] /\ mine'[x] = mine[x]
                 /\ finding'[x] = finding[x] /\ pc'[x] = pc[x]
              \/ pc'[x] = "idle" /\ finding'[x] = NoFinding
    PROVE  Clients'
<1>1. /\ vendor'[f] = v /\ \A g \in FindingIds \ {f} : vendor'[g] = vendor[g]
      /\ v # NoVendor /\ v # Deleted
  BY ReportsAssumption DEF IInv, TypeOK
<1>2. \A q \in Ids : ~Exists(q)' => findings'[q] = {}
  BY DEF Clients, Exists
<1>3. ASSUME NEW q \in Ids, NEW g \in findings'[q] PROVE vendor'[g] \in Vendors /\ Ours(q, g)'
  <2>1. g \in FindingIds /\ vendor[g] \in Vendors /\ Ours(q, g)
    BY <1>3 DEF IInv, TypeOK, Clients
  <2> QED BY <1>1, <2>1, ReportsAssumption DEF Ours
<1>4. ASSUME NEW x \in Workers, pc'[x] \in {"insert", "link", "update"}
      PROVE  /\ finding[x] \in FindingIds /\ pc[x] = pc'[x] /\ finding'[x] = finding[x]
             /\ target'[x] = target[x] /\ mine'[x] = mine[x]
  BY <1>4 DEF IInv, Jobs, Job
<1>5. ASSUME NEW x \in Workers, pc'[x] \in {"link", "update"} PROVE vendor'[finding'[x]] # NoVendor
  BY <1>1, <1>4, <1>5 DEF Clients
<1>6. ASSUME NEW x \in Workers, pc'[x] = "link", vendor'[finding'[x]] # Deleted
      PROVE  Ours(target[x], finding[x])'
  <2>1. CASE finding[x] # f
    BY <1>1, <1>4, <1>6, <2>1 DEF Clients, Ours
  <2>2. CASE finding[x] = f
    <3>1. vendor[f] # NoVendor
      BY <1>4, <1>6, <2>2 DEF Clients
    <3> QED BY <1>1, <1>4, <1>6, <2>2, <3>1, ReportsAssumption DEF Clients, Ours
  <2> QED BY <2>1, <2>2
<1>7. ASSUME NEW x \in Workers, pc'[x] = "insert"
      PROVE  /\ vendor'[finding'[x]] = NoVendor
             /\ target'[x] \notin moved' => mine'[x].client = row'[target'[x]].client
             /\ \A y \in Workers \ {x} : finding'[y] # finding'[x]
  BY <1>1, <1>4, <1>7, ReportsAssumption DEF Clients
<1> QED BY <1>2, <1>3, <1>5, <1>6, <1>7 DEF Clients

\* The INSERT of report_create_finding.
LEMMA ClientsInsert ==
    ASSUME IInv, Clients, NEW w \in Workers, InsertFinding(w)
    PROVE  Clients'
<1> DEFINE f == finding[w]
           v == mine[w].client
<1>1. /\ TypeOK /\ pc[w] = "insert" /\ f \in FindingIds /\ v \in Vendors
      /\ vendor[f] = NoVendor
      /\ target[w] \notin moved => v = row[target[w]].client
      /\ \A x \in Workers \ {w} : finding[x] # f
  BY DEF InsertFinding, IInv, Jobs, Job, Clients
<1>2. /\ vendor' = [vendor EXCEPT ![f] = v] /\ pc' = [pc EXCEPT ![w] = "link"]
      /\ UNCHANGED <<row, findings, moved, target, finding, mine>>
  BY DEF InsertFinding, Goto
<1>3. /\ vendor'[f] = v /\ \A g \in FindingIds \ {f} : vendor'[g] = vendor[g]
      /\ pc'[w] = "link" /\ \A x \in Workers \ {w} : pc'[x] = pc[x]
      /\ v # NoVendor /\ v # Deleted
  BY <1>1, <1>2, ReportsAssumption DEF TypeOK
<1>4. \A q \in Ids : ~Exists(q)' => findings'[q] = {}
  BY <1>2 DEF Clients, Exists
<1>5. ASSUME NEW q \in Ids, NEW g \in findings'[q] PROVE vendor'[g] \in Vendors /\ Ours(q, g)'
  <2>1. g \in FindingIds /\ vendor[g] \in Vendors /\ Ours(q, g) /\ g # f
    BY <1>1, <1>2, <1>5, ReportsAssumption DEF TypeOK, Clients
  <2> QED BY <1>2, <1>3, <2>1 DEF Ours
<1>6. ASSUME NEW x \in Workers \ {w}, pc'[x] \in {"insert", "link", "update"}
      PROVE  pc[x] = pc'[x] /\ finding[x] \in FindingIds /\ finding[x] # f
  BY <1>1, <1>3, <1>6 DEF IInv, Jobs, Job
<1>7. ASSUME NEW x \in Workers, pc'[x] \in {"link", "update"} PROVE vendor'[finding'[x]] # NoVendor
  BY <1>2, <1>3, <1>6, <1>7 DEF Clients
<1>8. ASSUME NEW x \in Workers, pc'[x] = "link", vendor'[finding'[x]] # Deleted
      PROVE  Ours(target[x], finding[x])'
  BY <1>1, <1>2, <1>3, <1>6, <1>8 DEF Clients, Ours
<1>9. ASSUME NEW x \in Workers, pc'[x] = "insert"
      PROVE  /\ vendor'[finding'[x]] = NoVendor
             /\ target'[x] \notin moved' => mine'[x].client = row'[target'[x]].client
             /\ \A y \in Workers \ {x} : finding'[y] # finding'[x]
  BY <1>2, <1>3, <1>6, <1>9 DEF Clients
<1> QED BY <1>4, <1>5, <1>7, <1>8, <1>9 DEF Clients

\* finding_new, finding_edit and report_edit_finding.
LEMMA ClientsSet ==
    ASSUME IInv, Clients,
           \/ \E f \in FindingIds, v \in Vendors : SetVendor(f, v)
           \/ \E w \in Workers : UpdateFinding(w)
    PROVE  Clients'
<1>1. ASSUME NEW f \in FindingIds, NEW v \in Vendors, SetVendor(f, v) PROVE Clients'
  <2>1. vendor[f] = v \/ vendor[f] = NoVendor \/ f \in moved'
    BY <1>1 DEF SetVendor, Moves, IInv, TypeOK
  <2>2. moved \subseteq moved' /\ UNCHANGED <<pc, target, mine, finding>>
    BY <1>1 DEF SetVendor, locals
  <2> QED BY <1>1, <2>1, <2>2, ClientsVendor DEF SetVendor
<1>2. ASSUME NEW w \in Workers, UpdateFinding(w) PROVE Clients'
  <2>1. /\ finding[w] \in FindingIds /\ mine[w].client \in Vendors
        /\ vendor[finding[w]] # NoVendor /\ Finish(w) /\ TypeOK
    BY <1>2 DEF UpdateFinding, IInv, Jobs, Job, Clients
  <2>2. \A x \in Workers : pc'[x] = "insert" => finding[x] # finding[w]
    BY <2>1, DoneFacts DEF Clients
  <2>3. vendor[finding[w]] = mine[w].client \/ finding[w] \in moved'
    BY <1>2, <2>1 DEF UpdateFinding, Moves, TypeOK
  <2>4. moved \subseteq moved'
    BY <1>2 DEF UpdateFinding
  <2>5. \A x \in Workers :
           \/ /\ target'[x] = target[x] /\ mine'[x] = mine[x]
              /\ finding'[x] = finding[x] /\ pc'[x] = pc[x]
           \/ pc'[x] = "idle" /\ finding'[x] = NoFinding
    BY <2>1, DoneFacts
  <2> QED BY <1>2, <2>1, <2>2, <2>3, <2>4, <2>5, ClientsVendor DEF UpdateFinding
<1> QED BY <1>1, <1>2

\* The findings of reports change: report.findings.add, report_remove_finding.
LEMMA ClientsLinks ==
    ASSUME IInv, Clients,
           \/ \E w \in Workers : Link(w)
           \/ \E u \in Users, r \in Ids, f \in FindingIds : RemoveFinding(u, r, f)
           \/ \E f \in FindingIds : DeleteFinding(f)
    PROVE  Clients'
<1>1. ASSUME NEW w \in Workers, Link(w) PROVE Clients'
  <2>1. /\ finding[w] \in FindingIds /\ target[w] \in Ids /\ Exists(target[w]) /\ Finish(w) /\ TypeOK
        /\ vendor[finding[w]] # NoVendor
        /\ vendor[finding[w]] # Deleted => Ours(target[w], finding[w])
        /\ UNCHANGED <<row, vendor, moved>>
    BY <1>1 DEF Link, IInv, Jobs, Job, Clients
  <2>2. \A q \in Ids : \A g \in findings'[q] :
           \/ g \in findings[q]
           \/ q = target[w] /\ g = finding[w] /\ vendor[g] # Deleted
    BY <1>1, <2>1 DEF Link, TypeOK
  <2>3. \A q \in Ids : \A g \in findings'[q] : vendor'[g] \in Vendors /\ Ours(q, g)'
    BY <2>1, <2>2 DEF Clients, Ours, TypeOK
  <2>4. \A q \in Ids : ~Exists(q)' => findings'[q] = {}
    BY <2>1, <2>2 DEF Clients, Exists
  <2>5. \A x \in Workers : pc'[x] # "idle" =>
           /\ x # w /\ pc[x] = pc'[x] /\ target'[x] = target[x]
           /\ mine'[x] = mine[x] /\ finding'[x] = finding[x]
    BY <2>1, DoneFacts
  <2>6. \A x \in Workers : finding'[x] \in {finding[x], NoFinding}
    BY <2>1, DoneFacts
  <2>7. ASSUME NEW x \in Workers, pc'[x] = "insert"
        PROVE  /\ vendor'[finding'[x]] = NoVendor
               /\ target'[x] \notin moved' => mine'[x].client = row'[target'[x]].client
               /\ \A y \in Workers \ {x} : finding'[y] # finding'[x]
    <3>1. finding[x] \in FindingIds
      BY <2>5, <2>7 DEF IInv, Jobs, Job
    <3> QED BY <2>1, <2>5, <2>6, <2>7, <3>1, ReportsAssumption DEF Clients
  <2>8. ASSUME NEW x \in Workers, pc'[x] = "link", vendor'[finding'[x]] # Deleted
        PROVE  Ours(target[x], finding[x])'
    BY <2>1, <2>5, <2>8 DEF Clients, Ours
  <2>9. ASSUME NEW x \in Workers, pc'[x] \in {"link", "update"} PROVE vendor'[finding'[x]] # NoVendor
    BY <2>1, <2>5, <2>9 DEF Clients
  <2> QED BY <2>3, <2>4, <2>7, <2>8, <2>9 DEF Clients
<1>2. ASSUME NEW u \in Users, NEW r \in Ids, NEW f \in FindingIds, RemoveFinding(u, r, f)
      PROVE  Clients'
  <2>1. \A q \in Ids : findings'[q] \subseteq findings[q]
    BY <1>2 DEF RemoveFinding, IInv, TypeOK
  <2>2. UNCHANGED <<row, vendor, moved, pc, target, mine, finding>>
    BY <1>2 DEF RemoveFinding, locals
  <2>3. \A q \in Ids : ~Exists(q)' => findings'[q] = {}
    BY <2>1, <2>2 DEF Clients, Exists
  <2> QED BY <2>1, <2>2, <2>3 DEF Clients, Ours
<1>3. ASSUME NEW f \in FindingIds, DeleteFinding(f) PROVE Clients'
  <2>1. /\ vendor[f] \in Vendors /\ vendor'[f] = Deleted
        /\ \A g \in FindingIds \ {f} : vendor'[g] = vendor[g]
        /\ \A q \in Ids : findings'[q] = findings[q] \ {f}
        /\ UNCHANGED <<row, moved, pc, target, mine, finding>>
    BY <1>3 DEF DeleteFinding, locals, IInv, TypeOK
  <2>2. \A q \in Ids : ~Exists(q)' => findings'[q] = {}
    BY <2>1 DEF Clients, Exists
  <2>3. ASSUME NEW q \in Ids, NEW g \in findings'[q] PROVE vendor'[g] \in Vendors /\ Ours(q, g)'
    <3>1. g \in FindingIds /\ g # f /\ g \in findings[q]
      BY <2>1, <2>3 DEF IInv, TypeOK
    <3> QED BY <2>1, <3>1 DEF Clients, Ours
  <2>4. ASSUME NEW x \in Workers, pc'[x] \in {"insert", "link", "update"}
        PROVE  finding[x] \in FindingIds /\ pc[x] = pc'[x]
    BY <2>1, <2>4 DEF IInv, Jobs, Job
  <2>5. NoVendor # Deleted /\ NoVendor \notin Vendors
    BY ReportsAssumption
  <2>6. ASSUME NEW x \in Workers, pc'[x] \in {"link", "update"} PROVE vendor'[finding'[x]] # NoVendor
    BY <2>1, <2>4, <2>5, <2>6 DEF Clients
  <2>7. ASSUME NEW x \in Workers, pc'[x] = "link", vendor'[finding'[x]] # Deleted
        PROVE  Ours(target[x], finding[x])'
    <3>1. finding[x] # f /\ vendor[finding[x]] # Deleted /\ vendor'[finding[x]] = vendor[finding[x]]
      BY <2>1, <2>4, <2>7
    <3>2. Ours(target[x], finding[x])
      BY <2>4, <2>7, <3>1 DEF Clients
    <3> QED BY <2>1, <3>1, <3>2 DEF Ours
  <2>8. ASSUME NEW x \in Workers, pc'[x] = "insert"
        PROVE  /\ vendor'[finding'[x]] = NoVendor
               /\ target'[x] \notin moved' => mine'[x].client = row'[target'[x]].client
               /\ \A y \in Workers \ {x} : finding'[y] # finding'[x]
    BY <2>1, <2>4, <2>5, <2>8 DEF Clients
  <2> QED BY <2>2, <2>3, <2>6, <2>7, <2>8 DEF Clients
<1> QED BY <1>1, <1>2, <1>3

\* Every step keeps the findings of a report those of its client.
LEMMA ClientsNext == IInv /\ Clients /\ [Next]_vars => Clients'
<1> SUFFICES ASSUME IInv, Clients, [Next]_vars PROVE Clients'
  OBVIOUS
<1>1. CASE UNCHANGED vars
  BY <1>1 DEF vars, Clients, Ours, Exists
<1> QED BY <1>1, ClientsQuiet, ClientsRead, ClientsInsert, ClientsSet, ClientsLinks DEF Next

\* report_add_finding and the other views of a report's findings: whatever
\* requests overlap, a report has findings of its own client only, as long as
\* neither changed client nor came back after a deletion.
THEOREM NoForeignFindings == Spec => []NoForeignFindingsUnlessMoved
<1>1. Clients => NoForeignFindingsUnlessMoved
  BY DEF Clients, Ours, NoForeignFindingsUnlessMoved
<1> QED BY <1>1, Invariant, ClientsInit, ClientsNext, PTL DEF Spec
=============================================================================
