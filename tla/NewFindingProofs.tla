-------------------------- MODULE NewFindingProofs --------------------------
(***************************************************************************)
(* Theorems about NewFinding, for every set of images and of keys.         *)
(***************************************************************************)
EXTENDS NewFinding, FiniteSetTheorems, TLAPS

-----------------------------------------------------------------------------
(* The inductive invariant.                                                *)

\* The images a text links to are attached where the links lead.
Attached(x) == \A i \in Images : x[i] \in Findings => i \in attached[x[i]]

Texts ==
    /\ Attached(text)
    /\ \A r \in requests : Attached(r.text)
    /\ \A f \in Existing : Attached(row[f])

\* A key that a request or the page has is that of a finding, or of an open
\* transaction, which has it alone.
Keys ==
    /\ target # NoFinding => target \in Existing
    /\ uploads # NoFinding => uploads \in Existing
    /\ \A r \in requests :
          /\ r.kind = "upload" => r.to \in Existing
          /\ r.kind = "submit" /\ r.to # NoFinding => r.to \in Existing
          /\ r.kind = "create" /\ r.stage = "sent" => r.to = NoFinding
          /\ r.kind = "create" /\ r.stage = "begun" => r.to \in Findings /\ r.to \notin Existing
          /\ r.kind = "create" /\ r.stage = "done" => r.to \in Existing
    /\ \A r, q \in requests :
          r.stage = "begun" /\ q.stage = "begun" /\ r.to = q.to => r = q
    /\ \A f \in Findings \ Existing : attached[f] = {}

\* What requests about images, and their answers, are about.
Uploads ==
    \A r \in requests :
        /\ r.kind # "create" => r.stage # "begun"
        /\ r.kind # "submit" => r.image \in Images
        /\ r.kind = "create" => r.text[r.image] = "placeholder"
        /\ r.kind # "submit" /\ r.stage = "done" => r.image \in attached[r.to]

IInv == TypeOK /\ Texts /\ Keys /\ Uploads /\ NoPhantom

-----------------------------------------------------------------------------
(* Every step keeps it.                                                    *)

\* There is no finding yet.
LEMMA InitInv == Init => IInv
<1> SUFFICES ASSUME Init PROVE IInv
  OBVIOUS
<1>1. TypeOK
  BY DEF Init, TypeOK, Text, Blank
<1>2. Existing = {}
  BY DEF Init, Existing
<1>3. Attached(text)
  BY NewFindingAssumption DEF Init, Blank, Attached
<1> QED BY <1>1, <1>2, <1>3 DEF Init, IInv, Texts, Keys, Uploads, NoPhantom

\* Steps of the page: the tables stay, and requests are as before, forgotten,
\* or new.
LEMMA PageStep ==
    ASSUME IInv, TypeOK', UNCHANGED server, Attached(text'),
           target' # NoFinding => target' \in Existing,
           uploads' # NoFinding => uploads' \in Existing,
           \A q \in requests' :
              \/ q \in requests
              \/ \E r \in requests : q = [r EXCEPT !.waiting = FALSE]
              \/ /\ q.stage = "sent" /\ Attached(q.text)
                 /\ q.kind = "create" => q.to = NoFinding /\ q.text[q.image] = "placeholder"
                 /\ q.kind # "submit" => q.image \in Images
                 /\ q.kind = "upload" \/ (q.kind = "submit" /\ q.to # NoFinding) => q.to \in Existing,
           \A r, q \in requests' :
              r.stage = "begun" /\ q.stage = "begun" /\ r.to = q.to => r = q
    PROVE  IInv'
<1>1. UNCHANGED <<row, attached, submitted>> /\ Existing' = Existing
  BY DEF server, Existing
<1>2. ASSUME NEW q \in requests'
      PROVE  \/ \E r \in requests :
                   /\ q.kind = r.kind /\ q.stage = r.stage /\ q.image = r.image
                   /\ q.to = r.to /\ q.text = r.text
             \/ /\ q.stage = "sent" /\ Attached(q.text)
                /\ q.kind = "create" => q.to = NoFinding /\ q.text[q.image] = "placeholder"
                /\ q.kind # "submit" => q.image \in Images
                /\ q.kind = "upload" \/ (q.kind = "submit" /\ q.to # NoFinding) => q.to \in Existing
  BY <1>2 DEF IInv, TypeOK, Request
<1>3. Texts'
  BY <1>1, <1>2 DEF IInv, Texts, Attached
<1>4. Uploads'
  BY <1>1, <1>2 DEF IInv, Uploads
<1>5. Keys'
  BY <1>1, <1>2 DEF IInv, Keys
<1>6. NoPhantom'
  BY <1>1 DEF IInv, NoPhantom
<1> QED BY <1>3, <1>4, <1>5, <1>6 DEF IInv

\* What a new request of the page is.
LEMMA SendStep ==
    ASSUME IInv, TypeOK', UNCHANGED server, Attached(text'),
           target' # NoFinding => target' \in Existing,
           uploads' # NoFinding => uploads' \in Existing,
           NEW q, q.stage = "sent", Attached(q.text),
           q.kind = "create" => q.to = NoFinding /\ q.text[q.image] = "placeholder",
           q.kind # "submit" => q.image \in Images,
           q.kind = "upload" \/ (q.kind = "submit" /\ q.to # NoFinding) => q.to \in Existing,
           requests' = requests \cup {q} \/ requests' = Unheard \cup {q} \/ requests' = Unheard
    PROVE  IInv'
<1>1. \A r \in Unheard : \E p \in requests : r = [p EXCEPT !.waiting = FALSE]
  BY DEF Unheard
<1>2. \A r, p \in requests' : r.stage = "begun" /\ p.stage = "begun" /\ r.to = p.to => r = p
  BY <1>1 DEF IInv, TypeOK, Request, Keys
<1>3. \A p \in requests' : p \in requests \/ p = q \/ \E r \in requests : p = [r EXCEPT !.waiting = FALSE]
  BY <1>1
<1> QED BY <1>2, <1>3, PageStep

\* Images are dropped.
LEMMA DropStep ==
    ASSUME IInv, NEW i \in Images, DropImage(i)
    PROVE  IInv'
<1> DEFINE q == [kind |-> IF uploads = NoFinding THEN "create" ELSE "upload", stage |-> "sent",
                 image |-> i, to |-> uploads, waiting |-> TRUE,
                 text |-> IF uploads = NoFinding THEN text' ELSE Blank]
<1>1. /\ text' = [text EXCEPT ![i] = "placeholder"] /\ requests' = requests \cup {q}
      /\ crossed' \in BOOLEAN /\ UNCHANGED <<open, target, uploads>> /\ UNCHANGED server
  BY DEF DropImage, Send, IInv, TypeOK
<1>2. text' \in Text /\ text'[i] = "placeholder" /\ Blank \in Text
  BY <1>1 DEF IInv, TypeOK, Text, Blank
<1>3. Attached(text') /\ Attached(Blank)
  BY <1>1, NewFindingAssumption DEF IInv, TypeOK, Texts, Text, Blank, Attached
<1>4. q \in Request
  BY <1>2 DEF IInv, TypeOK, Request
<1>5. TypeOK'
  BY <1>1, <1>2, <1>4 DEF IInv, TypeOK, server
<1>6. q.kind = "create" => q.to = NoFinding /\ q.text[q.image] = "placeholder"
  BY <1>2
<1>7. q.kind # "submit" => q.image \in Images
  OBVIOUS
<1>8. /\ target # NoFinding => target \in Existing
      /\ uploads # NoFinding => uploads \in Existing
  BY DEF IInv, Keys
<1>9. q.kind = "upload" \/ (q.kind = "submit" /\ q.to # NoFinding) => q.to \in Existing
  BY <1>8
<1>10. q.stage = "sent" /\ Attached(q.text)
  BY <1>3
<1> HIDE DEF q
<1> QED BY <1>1, <1>3, <1>5, <1>6, <1>7, <1>8, <1>9, <1>10, SendStep

\* The page is left.
LEMMA LeaveStep ==
    ASSUME IInv, Submit \/ Close
    PROVE  IInv'
<1> DEFINE q == [kind |-> "submit", stage |-> "sent", image |-> NoImage, to |-> target,
                 waiting |-> TRUE, text |-> text]
<1>1. /\ open' = FALSE /\ target' = NoFinding /\ text' = Blank /\ crossed' \in BOOLEAN
      /\ UNCHANGED server /\ uploads' = uploads
      /\ requests' = Unheard \cup {q} \/ requests' = Unheard
  BY DEF Submit, Close, Send, Leave, IInv, TypeOK, server
<1>2. Blank \in Text /\ Attached(Blank)
  BY NewFindingAssumption DEF Text, Blank, Attached
<1>3. Unheard \subseteq Request
  BY DEF IInv, TypeOK, Unheard, Request
<1>4. q \in Request
  BY DEF IInv, TypeOK, Request
<1>5. TypeOK'
  BY <1>1, <1>2, <1>3, <1>4 DEF IInv, TypeOK, server
<1>6. /\ q.stage = "sent" /\ Attached(q.text) /\ q.kind = "submit"
      /\ q.to # NoFinding => q.to \in Existing
      /\ uploads # NoFinding => uploads \in Existing
  BY DEF IInv, Texts, Keys
<1> HIDE DEF q
<1> QED BY <1>1, <1>2, <1>5, <1>6, SendStep

\* A request gets an answer, or the page gets it.
LEMMA AnswerStep ==
    ASSUME IInv, NEW r \in requests, Answer(r) \/ Rerender(r) \/ Redirected(r)
    PROVE  IInv'
<1>1. /\ requests' = requests \ {r} /\ UNCHANGED server /\ crossed' = crossed /\ open' \in BOOLEAN
      /\ r \in Request
  BY DEF Answer, Rerender, Redirected, Reopen, server, IInv, TypeOK
<1>2. text' \in Text /\ Attached(text')
  <2>1. CASE Rerender(r) \/ Redirected(r)
    BY <1>1, <2>1 DEF Rerender, Redirected, Reopen, Request, IInv, TypeOK, Texts
  <2>2. CASE Answer(r) /\ ~r.waiting
    BY <2>2 DEF Answer, IInv, TypeOK, Texts
  <2>3. CASE Answer(r) /\ r.waiting
    <3>1. r.image \in Images /\ (r.stage = "done" => r.to \in Findings /\ r.image \in attached[r.to])
        BY <1>1, <2>3 DEF Answer, IInv, Request, Uploads, Keys, Existing
    <3>2. text' = [text EXCEPT ![r.image] = IF r.stage = "done" THEN r.to ELSE "failed"]
      BY <2>3 DEF Answer
    <3>3. text' \in Text
      BY <3>1, <3>2 DEF IInv, TypeOK, Text
    <3>4. text'[r.image] = IF r.stage = "done" THEN r.to ELSE "failed"
      BY <3>1, <3>2 DEF IInv, TypeOK, Text
    <3>5. \A i \in Images \ {r.image} : text'[i] = text[i]
      BY <3>2 DEF IInv, TypeOK, Text
    <3> QED BY <1>1, <3>1, <3>3, <3>4, <3>5, NewFindingAssumption DEF IInv, Texts, Attached, server
  <2> QED BY <2>1, <2>2, <2>3
<1>3. /\ target' # NoFinding => target' \in Existing
      /\ uploads' # NoFinding => uploads' \in Existing
  BY DEF Answer, Rerender, Redirected, Reopen, Promote, Submits, IInv, Keys
<1>4. TypeOK'
  BY <1>1, <1>2, <1>3 DEF IInv, TypeOK, server, Existing
<1> QED BY <1>1, <1>2, <1>3, <1>4, PageStep DEF IInv, Keys

\* The user has the form again.
LEMMA GoBackStep ==
    ASSUME IInv, NEW r \in requests, GoBack(r)
    PROVE  IInv'
<1> DEFINE q == [r EXCEPT !.waiting = FALSE]
<1>1. /\ requests' = (requests \ {r}) \cup {q} /\ UNCHANGED server /\ crossed' \in BOOLEAN
      /\ open' = TRUE /\ target' = r.to /\ text' = r.text /\ uploads' \in {uploads, r.to}
      /\ r \in Request /\ r.kind = "submit" /\ r.stage # "begun"
  BY DEF GoBack, Reopen, Replace, Submits, IInv, TypeOK
<1>2. q \in Request /\ q.stage # "begun"
  BY <1>1 DEF Request
<1>3. r.text \in Text /\ Attached(r.text)
  BY <1>1 DEF Request, IInv, Texts
<1>4. /\ target' # NoFinding => target' \in Existing
      /\ uploads' # NoFinding => uploads' \in Existing
  BY <1>1 DEF IInv, Keys
<1> HIDE DEF q
<1>5. TypeOK'
  BY <1>1, <1>2, <1>3, <1>4 DEF IInv, TypeOK, server, Existing
<1>6. \A s, p \in requests' : s.stage = "begun" /\ p.stage = "begun" /\ s.to = p.to => s = p
  BY <1>1, <1>2 DEF IInv, Keys
<1>7. \A s \in requests' : s \in requests \/ \E p \in requests : s = [p EXCEPT !.waiting = FALSE]
  BY <1>1 DEF q
<1> QED BY <1>1, <1>3, <1>4, <1>5, <1>6, <1>7, PageStep

\* A request that fails, or whose answer is lost.
LEMMA RefuseStep ==
    ASSUME IInv, NEW r \in requests, Refuse(r) \/ LoseAnswer(r)
    PROVE  IInv'
<1> DEFINE q == [r EXCEPT !.stage = "refused"]
<1>1. /\ requests' = (requests \ {r}) \cup {q} /\ UNCHANGED server /\ crossed' \in BOOLEAN
      /\ UNCHANGED <<open, target, uploads, text>> /\ r \in Request
  BY DEF Refuse, LoseAnswer, Replace, server, IInv, TypeOK
<1>2. /\ q \in Request /\ q.stage = "refused" /\ q.kind = r.kind /\ q.image = r.image
      /\ q.to = r.to /\ q.text = r.text
  BY <1>1 DEF Request
<1> HIDE DEF q
<1>3. UNCHANGED <<row, attached, submitted>> /\ Existing' = Existing
  BY <1>1 DEF server, Existing
<1>4. TypeOK'
  BY <1>1, <1>2, <1>3 DEF IInv, TypeOK
<1>5. Texts'
  BY <1>1, <1>2, <1>3 DEF IInv, Texts, Attached
<1>6. Keys'
  BY <1>1, <1>2, <1>3 DEF IInv, Keys
<1>7. Uploads'
  BY <1>1, <1>2, <1>3 DEF IInv, Uploads
<1> QED BY <1>3, <1>4, <1>5, <1>6, <1>7 DEF IInv, NoPhantom

\* The transaction of finding_new_upload_image begins.
LEMMA BeginStep ==
    ASSUME IInv, NEW r \in requests, BeginCreate(r)
    PROVE  IInv'
<1>1. PICK f \in Fresh : requests' = (requests \ {r}) \cup {[r EXCEPT !.to = f, !.stage = "begun"]}
  BY DEF BeginCreate, Replace
<1> DEFINE q == [r EXCEPT !.to = f, !.stage = "begun"]
<1>2. /\ UNCHANGED <<open, target, uploads, text, row, attached, submitted, crossed>>
      /\ Existing' = Existing /\ r \in Request /\ r.kind = "create"
  BY DEF BeginCreate, server, IInv, TypeOK, Existing
<1>3. f \in Findings /\ f \notin Existing /\ \A p \in requests : p.to # f
  BY DEF Fresh, Existing
<1>4. /\ q \in Request /\ q.stage = "begun" /\ q.kind = "create" /\ q.image = r.image
      /\ q.to = f /\ q.text = r.text
  BY <1>2, <1>3 DEF Request
<1> HIDE DEF q
<1>5. requests' = (requests \ {r}) \cup {q}
  BY <1>1 DEF q
<1>6. TypeOK'
  BY <1>2, <1>4, <1>5 DEF IInv, TypeOK
<1>7. Texts'
  BY <1>2, <1>4, <1>5 DEF IInv, Texts, Attached
<1>8. Keys'
  BY <1>2, <1>3, <1>4, <1>5 DEF IInv, Keys
<1>9. Uploads'
  BY <1>2, <1>4, <1>5 DEF IInv, Uploads
<1> QED BY <1>2, <1>6, <1>7, <1>8, <1>9 DEF IInv, NoPhantom

\* It commits.
LEMMA CommitStep ==
    ASSUME IInv, NEW r \in requests, CommitCreate(r)
    PROVE  IInv'
<1> DEFINE q == [r EXCEPT !.stage = "done"]
           f == r.to
<1>1. /\ requests' = (requests \ {r}) \cup {q} /\ UNCHANGED <<open, target, uploads, text, submitted, crossed>>
      /\ r \in Request /\ r.kind = "create" /\ r.stage = "begun"
      /\ row' = [row EXCEPT ![f] = r.text] /\ attached' = [attached EXCEPT ![f] = {r.image}]
  BY DEF CommitCreate, Replace, IInv, TypeOK
<1>2. /\ q \in Request /\ q.stage = "done" /\ q.kind = "create" /\ q.image = r.image
      /\ q.to = f /\ q.text = r.text
  BY <1>1 DEF Request
<1> HIDE DEF q
<1>3. f \in Findings /\ f \notin Existing /\ r.image \in Images /\ r.text[r.image] = "placeholder"
  BY <1>1 DEF IInv, Keys, Uploads
<1>4. r.text \in Text /\ r.text # NoRow
  BY <1>1, NewFindingAssumption DEF Request, Text
<1>5. /\ row'[f] = r.text /\ attached'[f] = {r.image} /\ Existing' = Existing \cup {f}
      /\ \A g \in Findings \ {f} : row'[g] = row[g] /\ attached'[g] = attached[g]
  BY <1>1, <1>3, <1>4 DEF IInv, TypeOK, Existing
<1> HIDE DEF f
<1>6. TypeOK'
  BY <1>1, <1>2, <1>3, <1>4 DEF IInv, TypeOK
<1>7. ASSUME NEW x \in Text, Attached(x) PROVE Attached(x)'
  <2>1. \A i \in Images : x[i] # f
    BY <1>3, <1>7 DEF Attached, IInv, Keys
  <2> QED BY <1>5, <1>7, <2>1 DEF Attached
<1>8. Texts'
  <2>1. text \in Text /\ Attached(text)
    BY DEF IInv, TypeOK, Texts
  <2>2. \A p \in requests : p.text \in Text /\ Attached(p.text)
    BY DEF IInv, TypeOK, Request, Texts
  <2>3. \A g \in Existing : row[g] \in Text /\ Attached(row[g])
    BY DEF IInv, TypeOK, Existing, Texts
  <2> HIDE DEF Attached
  <2>4. Attached(text)' /\ Attached(r.text)'
    BY <1>7, <2>1, <2>2, <1>1
  <2>5. \A p \in requests' : Attached(p.text)'
    BY <1>1, <1>2, <1>7, <2>2
  <2>6. ASSUME NEW g \in Existing' PROVE Attached(row[g])'
    <3>1. PICK x \in Text : x = row'[g] /\ Attached(x)
      BY <1>3, <1>4, <1>5, <2>2, <2>3, <2>6 DEF Existing
    <3>2. Attached(x)'
      BY <1>7, <3>1
    <3> QED BY <3>1, <3>2 DEF Attached
  <2> QED BY <2>4, <2>5, <2>6 DEF Texts
<1>9. Keys'
  BY <1>1, <1>2, <1>3, <1>5 DEF IInv, Keys, f
<1>10. Uploads'
  <2>1. \A p \in requests : p.kind # "submit" /\ p.stage = "done" => p.to \in Existing
    BY DEF IInv, TypeOK, Request, Keys, Uploads
  <2>2. Existing \subseteq Findings
    BY DEF Existing
  <2> QED BY <1>1, <1>2, <1>3, <1>5, <2>1, <2>2 DEF IInv, Uploads, f
<1>11. NoPhantom'
  BY <1>1, <1>3, <1>5 DEF IInv, NoPhantom
<1> QED BY <1>6, <1>8, <1>9, <1>10, <1>11 DEF IInv

\* upload_image.
LEMMA UploadStep ==
    ASSUME IInv, NEW r \in requests, Upload(r)
    PROVE  IInv'
<1> DEFINE q == [r EXCEPT !.stage = "done"]
<1>1. /\ requests' = (requests \ {r}) \cup {q} /\ UNCHANGED <<open, target, uploads, text, row, submitted, crossed>>
      /\ r \in Request /\ r.kind = "upload" /\ Existing' = Existing
      /\ attached' = [attached EXCEPT ![r.to] = @ \cup {r.image}]
  BY DEF Upload, Replace, IInv, TypeOK, Existing
<1>2. /\ q \in Request /\ q.stage = "done" /\ q.kind = "upload" /\ q.image = r.image
      /\ q.to = r.to /\ q.text = r.text
  BY <1>1 DEF Request
<1> HIDE DEF q
<1>3. r.to \in Existing /\ r.to \in Findings /\ r.image \in Images
  BY <1>1 DEF IInv, Keys, Uploads, Existing
<1>4. /\ attached' \in [Findings -> SUBSET Images] /\ r.image \in attached'[r.to]
      /\ \A f \in Findings : attached[f] \subseteq attached'[f]
      /\ \A f \in Findings \ Existing : attached'[f] = attached[f]
  BY <1>1, <1>3 DEF IInv, TypeOK
<1>5. TypeOK'
  BY <1>1, <1>2, <1>4 DEF IInv, TypeOK
<1>6. Texts'
  BY <1>1, <1>2, <1>4 DEF IInv, Texts, Attached
<1>7. Keys'
  BY <1>1, <1>2, <1>4 DEF IInv, Keys
<1>8. Uploads'
  <2>1. \A p \in requests : p.kind # "submit" /\ p.stage = "done" => p.to \in Findings
    BY DEF IInv, TypeOK, Request, Keys, Uploads, Existing
  <2> QED BY <1>1, <1>2, <1>3, <1>4, <2>1 DEF IInv, Uploads
<1>9. NoPhantom'
  BY <1>1, <1>4 DEF IInv, NoPhantom, Existing
<1> QED BY <1>5, <1>6, <1>7, <1>8, <1>9 DEF IInv

\* finding_new and finding_edit.
LEMMA SaveStep ==
    ASSUME IInv, NEW r \in requests, Save(r)
    PROVE  IInv'
<1>1. PICK f \in IF r.to = NoFinding THEN Fresh ELSE {r.to} :
         row' = [row EXCEPT ![f] = r.text] /\ submitted' = submitted \cup {f}
  BY DEF Save
<1> DEFINE q == [r EXCEPT !.stage = "done"]
<1>2. /\ requests' = (requests \ {r}) \cup {q}
      /\ UNCHANGED <<open, target, uploads, text, attached, crossed>>
      /\ r \in Request /\ r.kind = "submit"
  BY DEF Save, Replace, Submits, IInv, TypeOK
<1>3. /\ q \in Request /\ q.stage = "done" /\ q.kind = "submit" /\ q.to = r.to
       /\ q.text = r.text
  BY <1>2 DEF Request
<1> HIDE DEF q
<1>4. /\ f \in Findings /\ \A p \in requests : p.stage = "begun" => p.to # f
  BY <1>1, <1>2 DEF Fresh, Existing, IInv, TypeOK, Request, Keys, Uploads
<1>5. r.text \in Text /\ r.text # NoRow
  BY <1>2, NewFindingAssumption DEF Request, Text
<1>6. /\ row'[f] = r.text /\ Existing' = Existing \cup {f}
      /\ \A g \in Findings \ {f} : row'[g] = row[g]
  BY <1>1, <1>4, <1>5 DEF IInv, TypeOK, Existing
<1>7. TypeOK'
  BY <1>1, <1>2, <1>4, <1>5, <1>3 DEF IInv, TypeOK
<1>8. Texts'
  BY <1>2, <1>6, <1>3 DEF IInv, Texts, Attached, Existing
<1>9. Keys'
  BY <1>2, <1>4, <1>6, <1>3 DEF IInv, Keys
<1>10. Uploads'
  BY <1>2, <1>3 DEF IInv, Uploads
<1>11. NoPhantom'
  BY <1>1, <1>2, <1>6 DEF IInv, NoPhantom, Existing
<1> QED BY <1>7, <1>8, <1>9, <1>10, <1>11 DEF IInv

\* Every step keeps the invariant.
LEMMA NextInv == IInv /\ [Next]_vars => IInv'
<1>1. IInv /\ UNCHANGED vars => IInv'
  BY DEF vars, IInv, TypeOK, Texts, Attached, Existing, Keys, Uploads, NoPhantom
<1> QED BY <1>1, DropStep, LeaveStep, AnswerStep, GoBackStep, RefuseStep, BeginStep, CommitStep,
           UploadStep, SaveStep DEF Next

\* Every reachable state satisfies the invariant.
THEOREM Invariant == Spec => []IInv
  BY InitInv, NextInv, PTL DEF Spec

\* The types of the page, the requests and the tables.
THEOREM TypeCorrect == Spec => []TypeOK
<1>1. IInv => TypeOK
  BY DEF IInv
<1> QED BY <1>1, Invariant, PTL

\* finding_new_upload_image: a rejected image leaves no finding behind, for any
\* number of images, requests and forms that are refused.
THEOREM NoPhantoms == Spec => []NoPhantom
<1>1. IInv => NoPhantom
  BY DEF IInv
<1> QED BY <1>1, Invariant, PTL

-----------------------------------------------------------------------------
(* One finding.  Unless something crossed the request that creates it, the *)
(* page, its requests and the table know of one key.                       *)

\* The keys somebody has.
Known ==
    Existing \cup {f \in Findings : f \in {target, uploads}}
      \cup {f \in Findings : \E r \in requests : r.to = f /\ r.stage # "refused"}

\* A request with an image creates a finding only when there is none and no form
\* is under way, and then alone.
SingleCreates ==
    /\ \A r, q \in Creating : r = q
    /\ \A r \in Creating :
          /\ target = NoFinding /\ uploads = NoFinding
          /\ r.stage # "done" => Existing = {}
          /\ ~r.waiting => ~open

\* The user waits for the answer to one form at most, and for that of each form
\* that makes a finding.
SingleSubmits ==
    /\ \A r \in Submits :
          /\ r.waiting => ~open /\ Creating = {} /\ uploads = r.to
          /\ r.to = NoFinding => r.waiting /\ (r.stage # "done" => Existing = {})
    /\ \A r, q \in Submits : r.waiting /\ q.waiting => r = q

\* The form and its images go to the same finding, if there is one.
SinglePage ==
    open => uploads = target /\ (target = NoFinding => Existing = {} \/ Creating # {})

Single ==
    ~crossed =>
        (\A f, g \in Known : f = g) /\ SingleCreates /\ SingleSubmits /\ SinglePage

\* Hence one finding.
LEMMA SingleOne == Single => OneFindingUnlessCrossed
<1> SUFFICES ASSUME Single, ~crossed PROVE Cardinality(Existing) <= 1
  BY DEF OneFindingUnlessCrossed
<1>1. \A f, g \in Existing : f = g
  BY DEF Single, Known
<1>2. CASE Existing = {}
  BY <1>2, FS_EmptySet
<1>3. CASE \E f : Existing = {f}
  <2>1. PICK f : Existing = {f}
    BY <1>3
  <2>2. Cardinality({f}) = 1
    BY FS_Singleton
  <2> QED BY <2>1, <2>2
<1> QED BY <1>1, <1>2, <1>3

\* Nobody knows of a finding yet.
LEMMA SingleInit == Init => Single
  BY NewFindingAssumption DEF Init, Single, SingleCreates, SingleSubmits, SinglePage,
     Known, Existing, Creating, Submits

\* When there is no finding, only a transaction may have a key.
LEMMA KnownNone ==
    ASSUME IInv, Existing = {}, \A r \in requests : r.kind = "create" => r.stage # "begun"
    PROVE  Known = {}
<1>1. \A r \in requests : r.kind = "create" /\ r.stage = "sent" => r.to = NoFinding
  BY DEF IInv, Keys
<1>2. \A r \in requests : r.stage # "refused" => r.to = NoFinding
  BY <1>1, NewFindingAssumption DEF IInv, TypeOK, Request, Keys, Existing
<1>3. target = NoFinding /\ uploads = NoFinding
  BY DEF IInv, Keys
<1> QED BY <1>2, <1>3, NewFindingAssumption DEF Known, IInv

\* The form is sent.
LEMMA SingleSubmit ==
    ASSUME IInv, Single, Submit
    PROVE  Single'
<1> SUFFICES ASSUME ~crossed' PROVE Single'
  BY DEF Single
<1> DEFINE q == [kind |-> "submit", stage |-> "sent", image |-> NoImage, to |-> target,
                 waiting |-> TRUE, text |-> text]
<1>1. /\ requests' = Unheard \cup {q} /\ open /\ open' = FALSE /\ target' = NoFinding
      /\ uploads' = uploads /\ ~crossed /\ (target = NoFinding => Creating = {})
      /\ UNCHANGED row /\ Existing' = Existing
  BY DEF Submit, Send, Leave, server, Existing, IInv, TypeOK
<1>2. q.kind = "submit" /\ q.to = target /\ q.waiting /\ q.stage = "sent"
  OBVIOUS
<1> HIDE DEF q
<1>3. \A r \in Unheard : ~r.waiting /\ \E p \in requests :
         r.kind = p.kind /\ r.to = p.to /\ r.stage = p.stage
  BY DEF Unheard, IInv, TypeOK, Request
<1>4. Creating = {} /\ uploads = target /\ (target = NoFinding => Existing = {})
  BY <1>1 DEF Single, SingleCreates, SinglePage, Creating, IInv, Keys
<1>5. Creating' = {}
  BY <1>1, <1>2, <1>3, <1>4 DEF Creating
<1>6. \A r \in Submits' : r = q \/ (~r.waiting /\ \E p \in Submits : r.to = p.to /\ r.stage = p.stage)
  BY <1>1, <1>3 DEF Submits
<1>7. \A p \in Submits : p.to # NoFinding
  BY <1>1 DEF Single, SingleSubmits
<1>8. SingleSubmits'
  BY <1>1, <1>2, <1>4, <1>5, <1>6, <1>7 DEF SingleSubmits
<1>9. Known' \subseteq Known
  BY <1>1, <1>2, <1>3, NewFindingAssumption DEF Known
<1> QED BY <1>1, <1>5, <1>8, <1>9 DEF Single, SingleCreates, SinglePage

\* An image is dropped.
LEMMA SingleDrop ==
    ASSUME IInv, Single, NEW i \in Images, DropImage(i)
    PROVE  Single'
<1> SUFFICES ASSUME ~crossed' PROVE Single'
  BY DEF Single
<1> DEFINE q == [kind |-> IF uploads = NoFinding THEN "create" ELSE "upload", stage |-> "sent",
                 image |-> i, to |-> uploads, waiting |-> TRUE,
                 text |-> IF uploads = NoFinding THEN text' ELSE Blank]
<1>1. /\ requests' = requests \cup {q} /\ open /\ UNCHANGED <<open, target, uploads>>
      /\ ~crossed /\ (uploads = NoFinding => Creating = {})
      /\ UNCHANGED row /\ Existing' = Existing
  BY DEF DropImage, Send, server, Existing, IInv, TypeOK
<1>2. /\ q.to = uploads /\ q.waiting /\ q.stage = "sent"
      /\ q.kind = IF uploads = NoFinding THEN "create" ELSE "upload"
  OBVIOUS
<1> HIDE DEF q
<1>3. uploads = target /\ (uploads = NoFinding => Existing = {})
  BY <1>1 DEF Single, SinglePage
<1>4. Creating' = (IF uploads = NoFinding THEN {q} ELSE Creating) /\ Submits' = Submits
  BY <1>1, <1>2 DEF Creating, Submits
<1>5. \A r \in Submits : ~r.waiting
  BY <1>1 DEF Single, SingleSubmits
<1>6. Known' \subseteq Known
  BY <1>1, <1>2, NewFindingAssumption DEF Known
<1>7. SingleCreates'
  BY <1>1, <1>2, <1>3, <1>4 DEF Single, SingleCreates
<1>8. SingleSubmits'
  BY <1>1, <1>4, <1>5 DEF Single, SingleSubmits
<1>9. SinglePage'
  BY <1>1, <1>3, <1>4 DEF Single, SinglePage
<1> QED BY <1>1, <1>6, <1>7, <1>8, <1>9 DEF Single

\* The page is left.
LEMMA SingleClose ==
    ASSUME IInv, Single, Close
    PROVE  Single'
<1> SUFFICES ASSUME ~crossed' PROVE Single'
  BY DEF Single
<1>1. /\ requests' = Unheard /\ open' = FALSE /\ target' = NoFinding /\ open /\ ~crossed
      /\ uploads' = uploads /\ Existing' = Existing
  BY DEF Close, Leave, server, Existing
<1>2. \A r \in Unheard : \E p \in requests :
         /\ r = [p EXCEPT !.waiting = FALSE] /\ r.kind = p.kind /\ r.to = p.to /\ r.stage = p.stage
         /\ ~r.waiting
  BY DEF Unheard, IInv, TypeOK, Request
<1>3. Known' \subseteq Known
  BY <1>1, <1>2, NewFindingAssumption DEF Known
<1>4. ASSUME NEW r \in Creating', NEW q \in Creating' PROVE r = q
  <2>1. PICK p1 \in Creating : r = [p1 EXCEPT !.waiting = FALSE]
    BY <1>1, <1>2 DEF Creating
  <2>2. PICK p2 \in Creating : q = [p2 EXCEPT !.waiting = FALSE]
    BY <1>1, <1>2 DEF Creating
  <2>3. p1 = p2
    BY <1>1 DEF Single, SingleCreates
  <2> QED BY <2>1, <2>2, <2>3
<1>5. SingleCreates'
  BY <1>1, <1>2, <1>4 DEF Creating, Single, SingleCreates
<1>6. \A r \in Submits' : ~r.waiting /\ \E p \in Submits : r.to = p.to
  BY <1>1, <1>2 DEF Submits
<1>7. \A p \in Submits : p.to # NoFinding
  BY <1>1 DEF Single, SingleSubmits
<1>8. SingleSubmits'
  BY <1>6, <1>7 DEF SingleSubmits
<1> QED BY <1>1, <1>3, <1>5, <1>8 DEF Single, SinglePage

\* The page gets the answer to an image.
LEMMA SingleAnswer ==
    ASSUME IInv, Single, NEW r \in requests, Answer(r)
    PROVE  Single'
<1> SUFFICES ASSUME ~crossed' PROVE Single'
  BY DEF Single
<1>1. /\ requests' = requests \ {r} /\ open' = open /\ r.stage \in {"done", "refused"}
      /\ r.kind # "submit" /\ ~crossed /\ Existing' = Existing
      /\ IF r.waiting /\ r.kind = "create" /\ r.stage = "done"
         THEN target' = r.to /\ uploads' = IF uploads = NoFinding THEN r.to ELSE uploads
         ELSE UNCHANGED <<target, uploads>>
  BY DEF Answer, Promote, server, Existing
<1>2. Creating' = Creating \ {r} /\ Submits' = Submits
  BY <1>1 DEF Creating, Submits
<1>3. Known' \subseteq Known
  BY <1>1, NewFindingAssumption DEF Known
<1>4. CASE r.kind = "create"
  <2>1. /\ Creating' = {} /\ uploads = NoFinding /\ target = NoFinding
        /\ \A s \in Submits : ~s.waiting
    BY <1>1, <1>2, <1>4 DEF Single, SingleCreates, SingleSubmits, Creating
  <2>2. uploads' = target'
    BY <1>1, <2>1
  <2>3. open /\ target' = NoFinding => Existing = {}
    <3>1. CASE r.stage = "done" /\ r.waiting
      BY <1>1, <1>4, <3>1, NewFindingAssumption DEF IInv, Keys, Existing
    <3>2. CASE r.stage = "refused" \/ ~r.waiting
      BY <1>1, <1>4, <3>2 DEF Single, SingleCreates, Creating
    <3> QED BY <1>1, <3>1, <3>2 DEF IInv, TypeOK, Request
  <2>4. SingleSubmits'
    BY <1>1, <1>2, <2>1 DEF Single, SingleSubmits
  <2> QED BY <1>1, <1>3, <2>1, <2>2, <2>3, <2>4 DEF Single, SingleCreates, SinglePage
<1>5. CASE r.kind # "create"
  <2>1. Creating' = Creating /\ target' = target /\ uploads' = uploads
    BY <1>1, <1>5 DEF Creating
  <2> QED BY <1>1, <1>2, <1>3, <2>1 DEF Single, SingleCreates, SingleSubmits, SinglePage
<1> QED BY <1>4, <1>5

\* The page is shown again, or not.
LEMMA SingleReturn ==
    ASSUME IInv, Single, NEW r \in requests, Rerender(r) \/ Redirected(r) \/ GoBack(r)
    PROVE  Single'
<1> SUFFICES ASSUME ~crossed' PROVE Single'
  BY DEF Single
<1>1. /\ r.kind = "submit" /\ r \in Submits /\ ~crossed /\ Existing' = Existing /\ UNCHANGED row
      /\ r.waiting \in BOOLEAN /\ (GoBack(r) => r.waiting /\ r.to # NoFinding)
  BY DEF Rerender, Redirected, GoBack, Submits, server, Existing, IInv, TypeOK, Request
<1>2. /\ requests \ {r} \subseteq requests'
      /\ \A q \in requests' :
            \/ q \in requests \ {r}
            \/ /\ q.kind = r.kind /\ q.to = r.to /\ q.stage = r.stage
               /\ ~q.waiting /\ r.to # NoFinding
  <2>1. CASE Rerender(r) \/ Redirected(r)
    BY <2>1 DEF Rerender, Redirected
  <2>2. CASE GoBack(r)
    <3> DEFINE q == [r EXCEPT !.waiting = FALSE]
    <3>1. requests' = (requests \ {r}) \cup {q}
      BY <2>2 DEF GoBack, Replace
    <3>2. q.kind = r.kind /\ q.to = r.to /\ q.stage = r.stage /\ ~q.waiting
      BY <1>1 DEF IInv, TypeOK, Request
    <3> HIDE DEF q
    <3> QED BY <1>1, <2>2, <3>1, <3>2
  <2> QED BY <2>1, <2>2
<1>3. /\ Creating' = Creating
      /\ \A s \in Submits' : (s \in Submits /\ s # r) \/ (~s.waiting /\ s.to # NoFinding)
  BY <1>1, <1>2 DEF Creating, Submits
<1>4. ASSUME r.waiting, Rerender(r) \/ GoBack(r)
      PROVE  Single'
  <2>1. open' = TRUE /\ target' = r.to /\ uploads' \in {uploads, r.to}
    BY <1>4 DEF Rerender, GoBack, Reopen
  <2>2. /\ uploads = r.to /\ Creating = {} /\ \A s \in Submits : s.waiting => s = r
    BY <1>1, <1>4 DEF Single, SingleSubmits
  <2>3. r.to = NoFinding => Existing = {}
    BY <1>1, <1>4 DEF Single, SingleSubmits, Rerender
  <2>4. \A s \in Submits' : ~s.waiting /\ s.to # NoFinding
    BY <1>1, <1>3, <2>2 DEF Single, SingleSubmits
  <2>5. Known' \subseteq Known
    BY <1>1, <1>2, <2>1, <2>2 DEF Known
  <2>6. SinglePage' /\ SingleCreates' /\ SingleSubmits'
    BY <1>1, <1>3, <2>1, <2>2, <2>3, <2>4 DEF SinglePage, SingleCreates, SingleSubmits
  <2> QED BY <1>1, <2>5, <2>6 DEF Single
<1>5. ASSUME ~(r.waiting /\ (Rerender(r) \/ GoBack(r)))
      PROVE  Single'
  <2>1. UNCHANGED <<open, target, uploads>>
    BY <1>1, <1>5 DEF Rerender, Redirected
  <2>2. Known' \subseteq Known
    BY <1>1, <1>2, <2>1 DEF Known
  <2> QED BY <1>1, <1>3, <2>1, <2>2 DEF Single, SinglePage, SingleCreates, SingleSubmits
<1> QED BY <1>4, <1>5

\* A request moves on, and is not about a creation that gets committed.
LEMMA SingleMove ==
    ASSUME IInv, Single, NEW r \in requests,
           Refuse(r) \/ LoseAnswer(r) \/ Upload(r) \/ BeginCreate(r)
    PROVE  Single'
<1> SUFFICES ASSUME ~crossed' PROVE Single'
  BY DEF Single
<1>1. /\ ~crossed /\ Existing' = Existing /\ UNCHANGED <<open, target, uploads>> /\ r \in Request
  BY DEF Refuse, LoseAnswer, Upload, BeginCreate, server, Existing, IInv, TypeOK, Uploads
<1>2. PICK q : /\ requests' = (requests \ {r}) \cup {q}
               /\ q.kind = r.kind /\ q.waiting = r.waiting
               /\ \/ q.to = r.to /\ (q.stage = "refused" \/ q.stage = "done")
                  \/ q.stage = "begun" /\ q.to \in Fresh /\ r.stage = "sent" /\ r.kind = "create"
               /\ r.kind = "create" => r.stage \in {"sent", "begun"} /\ q.stage # "done"
               /\ r.stage # "refused" /\ (r.kind = "submit" => r.stage # "done")
  <2>1. CASE Refuse(r) \/ LoseAnswer(r)
    <3> DEFINE q == [r EXCEPT !.stage = "refused"]
    <3>1. q.kind = r.kind /\ q.waiting = r.waiting /\ q.to = r.to /\ q.stage = "refused"
      BY <1>1 DEF Request
    <3>2. requests' = (requests \ {r}) \cup {q}
      BY <2>1 DEF Refuse, LoseAnswer, Replace
    <3>3. /\ r.kind = "create" => r.stage \in {"sent", "begun"}
          /\ r.stage # "refused" /\ (r.kind = "submit" => r.stage # "done")
      BY <2>1 DEF Refuse, LoseAnswer
    <3> HIDE DEF q
    <3> QED BY <3>1, <3>2, <3>3
  <2>2. CASE Upload(r)
    <3> DEFINE q == [r EXCEPT !.stage = "done"]
    <3>1. q.kind = r.kind /\ q.waiting = r.waiting /\ q.to = r.to /\ q.stage = "done"
      BY <1>1 DEF Request
    <3>2. requests' = (requests \ {r}) \cup {q} /\ r.kind = "upload" /\ r.stage = "sent"
      BY <2>2 DEF Upload, Replace
    <3> HIDE DEF q
    <3> QED BY <3>1, <3>2
  <2>3. CASE BeginCreate(r)
    <3>1. PICK f \in Fresh : requests' = (requests \ {r}) \cup {[r EXCEPT !.to = f, !.stage = "begun"]}
      BY <2>3 DEF BeginCreate, Replace
    <3> DEFINE q == [r EXCEPT !.to = f, !.stage = "begun"]
    <3>2. q.kind = r.kind /\ q.waiting = r.waiting /\ q.to = f /\ q.stage = "begun"
      BY <1>1 DEF Request
    <3>3. requests' = (requests \ {r}) \cup {q} /\ r.stage = "sent" /\ r.kind = "create"
      BY <2>3, <3>1 DEF BeginCreate
    <3> HIDE DEF q
    <3> QED BY <3>2, <3>3
  <2> QED BY <2>1, <2>2, <2>3
<1>3. CASE r.kind = "create"
  <2>1. Creating = {r} /\ Creating' = {q}
    BY <1>1, <1>2, <1>3 DEF Creating, Single, SingleCreates
  <2>2. target = NoFinding /\ uploads = NoFinding /\ Existing = {} /\ (~r.waiting => ~open)
    BY <1>1, <1>2, <1>3, <2>1 DEF Single, SingleCreates
  <2>3. Submits = {}
    <3>1. ASSUME NEW p \in Submits PROVE FALSE
      <4>1. p.to = NoFinding
        BY <2>2 DEF Submits, IInv, Keys
      <4> QED BY <1>1, <2>1, <4>1 DEF Single, SingleSubmits
    <3> QED BY <3>1
  <2>4. \A p \in requests \ {r} : p.kind # "create" /\ p.kind # "upload"
    BY <2>1, <2>2 DEF Creating, IInv, Keys
  <2>5. requests' = {q} /\ Submits' = {}
    BY <1>2, <1>3, <2>3, <2>4 DEF Submits, IInv, TypeOK, Request
  <2>6. \A f, g \in Known' : f = g
    BY <1>1, <2>2, <2>5, NewFindingAssumption DEF Known
  <2> QED BY <1>1, <1>2, <1>3, <2>1, <2>2, <2>5, <2>6
             DEF Single, SingleCreates, SingleSubmits, SinglePage
<1>4. CASE r.kind # "create"
  <2>1. Creating' = Creating /\ q.to = r.to
    BY <1>2, <1>4 DEF Creating
  <2>2. Known' \subseteq Known
    BY <1>1, <1>2, <2>1 DEF Known
  <2>3. \A s \in Submits' :
           \/ s \in Submits /\ s # r
           \/ s = q /\ r \in Submits
    BY <1>2 DEF Submits
  <2>4. ASSUME NEW s \in Submits'
        PROVE  \E p \in Submits : /\ p.to = s.to /\ p.waiting = s.waiting
                                  /\ (s.stage # "done" => p.stage # "done")
    BY <1>2, <2>1, <2>3 DEF Submits
  <2>5. \A s, p \in Submits' : s.waiting /\ p.waiting => s = p
    BY <1>1, <1>2, <2>3 DEF Single, SingleSubmits
  <2>6. SingleSubmits'
    BY <1>1, <2>1, <2>4, <2>5 DEF Single, SingleSubmits
  <2> QED BY <1>1, <2>1, <2>2, <2>6 DEF Single, SingleCreates, SinglePage
<1> QED BY <1>3, <1>4

\* A finding is inserted, or saved.
LEMMA SingleSave ==
    ASSUME IInv, Single, NEW r \in requests, CommitCreate(r) \/ Save(r)
    PROVE  Single'
<1> SUFFICES ASSUME ~crossed' PROVE Single'
  BY DEF Single
<1>1. ~crossed /\ UNCHANGED <<open, target, uploads>> /\ r \in Request
  BY DEF CommitCreate, Save, IInv, TypeOK
<1>2. CASE CommitCreate(r)
  <2> DEFINE q == [r EXCEPT !.stage = "done"]
  <2>1. /\ requests' = (requests \ {r}) \cup {q} /\ r.kind = "create" /\ r.stage = "begun"
        /\ row' = [row EXCEPT ![r.to] = r.text]
    BY <1>2 DEF CommitCreate, Replace
  <2>2. q.kind = "create" /\ q.stage = "done" /\ q.to = r.to /\ q.waiting = r.waiting
    BY <1>1, <2>1 DEF Request
  <2> HIDE DEF q
  <2>3. /\ Creating = {r} /\ Creating' = {q} /\ target = NoFinding /\ uploads = NoFinding
        /\ Existing = {} /\ (~r.waiting => ~open)
    BY <1>1, <2>1, <2>2 DEF Creating, Single, SingleCreates
  <2>4. Submits = {}
    <3>1. ASSUME NEW p \in Submits PROVE FALSE
      <4>1. p.to = NoFinding
        BY <2>3 DEF Submits, IInv, Keys
      <4> QED BY <1>1, <2>3, <4>1 DEF Single, SingleSubmits
    <3> QED BY <3>1
  <2>5. Submits' = {}
    BY <2>1, <2>2, <2>4 DEF Submits
  <2>6. r.to \in Known /\ Existing' \subseteq Existing \cup {r.to}
    BY <2>1 DEF IInv, TypeOK, Keys, Known, Existing
  <2>7. Known' \subseteq Known
    BY <1>1, <2>1, <2>2, <2>6 DEF Known
  <2> QED BY <1>1, <2>1, <2>2, <2>3, <2>5, <2>7
             DEF Single, SingleCreates, SingleSubmits, SinglePage
<1>3. CASE Save(r)
  <2> DEFINE q == [r EXCEPT !.stage = "done"]
  <2>1. PICK f \in IF r.to = NoFinding THEN Fresh ELSE {r.to} : row' = [row EXCEPT ![f] = r.text]
    BY <1>3 DEF Save
  <2>2. /\ requests' = (requests \ {r}) \cup {q} /\ r.kind = "submit" /\ r.stage = "sent"
        /\ r \in Submits
    BY <1>3 DEF Save, Replace, Submits
  <2>3. q.kind = "submit" /\ q.stage = "done" /\ q.to = r.to /\ q.waiting = r.waiting
    BY <1>1, <2>2 DEF Request
  <2> HIDE DEF q
  <2>4. Creating' = Creating
    BY <2>2, <2>3 DEF Creating
  <2>5. \A s \in Submits' : (s \in Submits /\ s # r) \/ s = q
    BY <2>2 DEF Submits
  <2>6. f \in Findings /\ Existing' \subseteq Existing \cup {f}
    BY <1>1, <2>1, <2>2 DEF IInv, TypeOK, Existing, Fresh, Request
  <2>7. CASE r.to = NoFinding
    <3>1. /\ r.waiting /\ ~open /\ Creating = {} /\ uploads = NoFinding /\ Existing = {}
          /\ \A s \in Submits : s.waiting => s = r
      BY <1>1, <2>2, <2>7 DEF Single, SingleSubmits
    <3>2. \A s \in Submits' : s = q \/ (~s.waiting /\ s.to # NoFinding)
      BY <1>1, <2>5, <3>1 DEF Single, SingleSubmits
    <3>3. Known = {}
      BY <3>1, KnownNone DEF Creating
    <3>4. Known' \subseteq Known \cup {f}
      BY <1>1, <2>2, <2>3, <2>6, <2>7, NewFindingAssumption DEF Known
    <3>5. SingleSubmits'
      BY <1>1, <2>3, <2>4, <2>7, <3>1, <3>2 DEF SingleSubmits
    <3> QED BY <1>1, <2>4, <3>1, <3>3, <3>4, <3>5 DEF Single, SingleCreates, SinglePage
  <2>8. CASE r.to # NoFinding
    <3>1. f \in Existing /\ f \in Known
      BY <2>1, <2>2, <2>8 DEF IInv, Keys, Known
    <3>2. Existing' = Existing
      BY <1>1, <2>1, <2>6, <3>1, <1>3, NewFindingAssumption
         DEF IInv, TypeOK, Existing, Request, Text
    <3>3. Known' \subseteq Known
      BY <1>1, <2>2, <2>3, <3>2 DEF Known
    <3>4. \A s, p \in Submits' : s.waiting /\ p.waiting => s = p
      BY <1>1, <2>2, <2>3, <2>5 DEF Single, SingleSubmits
    <3>5. \A s \in Submits' : \E p \in Submits :
             p.to = s.to /\ p.waiting = s.waiting /\ (s.to = NoFinding => p = s)
      BY <2>2, <2>3, <2>5, <2>8
    <3>6. SingleSubmits'
      BY <1>1, <2>4, <3>2, <3>4, <3>5 DEF Single, SingleSubmits
    <3> QED BY <1>1, <2>4, <3>2, <3>3, <3>6 DEF Single, SingleCreates, SinglePage
  <2> QED BY <2>7, <2>8
<1> QED BY <1>2, <1>3

\* Every step keeps it.
LEMMA SingleNext == IInv /\ Single /\ [Next]_vars => Single'
<1>1. Single /\ UNCHANGED vars => Single'
  BY DEF vars, Single, SingleCreates, SingleSubmits, SinglePage, Known, Existing, Creating, Submits
<1> QED BY <1>1, SingleSubmit, SingleDrop, SingleClose, SingleAnswer, SingleReturn, SingleMove,
           SingleSave DEF Next

\* promoteForm: a page makes one finding, however many images are dropped and
\* forms refused, unless something crossed the request that creates it.
THEOREM OneFinding == Spec => []OneFindingUnlessCrossed
  BY SingleOne, SingleInit, SingleNext, Invariant, PTL DEF Spec

\* replaceOnce: links lead to attached images, and unless something crossed
\* that request to images of the finding the text is of.
THEOREM LinksHome == Spec => []LinksLeadHome
<1>1. IInv /\ Single => LinksLeadHome
  <2> SUFFICES ASSUME IInv, Single, NEW f \in Existing, NEW i \in Images, row[f][i] \in Findings
               PROVE  i \in attached[row[f][i]] /\ (crossed \/ row[f][i] = f)
    BY DEF LinksLeadHome
  <2>1. i \in attached[row[f][i]]
    BY DEF IInv, Texts, Attached
  <2>2. row[f][i] \in Existing
    BY <2>1 DEF IInv, Keys
  <2> QED BY <2>1, <2>2 DEF Single, Known
<1> QED BY <1>1, SingleInit, SingleNext, Invariant, PTL DEF Spec
=============================================================================
