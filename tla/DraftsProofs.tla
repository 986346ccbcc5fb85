---------------------------- MODULE DraftsProofs ----------------------------
(***************************************************************************)
(* Theorems about Drafts, for every set of fields, forms and tabs and any  *)
(* number of texts and submissions.                                        *)
(***************************************************************************)
EXTENDS Drafts, TLAPS

-----------------------------------------------------------------------------
(* The inductive invariant.  A full-row save writes back columns it was    *)
(* not asked to write.  That is harmless as long as its copy is current.   *)

\* The only request under way that carries column f, if there is one, leaves the
\* text that is owed, and all copies of column f are current.
Orderly(f) ==
    /\ \A r, q \in requests : Carries(r, f) /\ Carries(q, f) => r = q
    /\ \A r \in requests : Carries(r, f) => Stored(r, f) = owed[f]
    /\ \A r \in requests : r.kind = "submit" /\ r.copy # Unread => r.copy[f] = row[f]

\* The page that waits for an autosave is open.
Awaited ==
    \A r \in requests : r.kind = "autosave" /\ r.tab # Nobody => form[r.tab] # {}

IInv == TypeOK /\ Awaited /\ SettledTextStored /\ \A f \in Fields \ crossed : Orderly(f)

-----------------------------------------------------------------------------
(* Requests.                                                               *)

\* What the two kinds of requests are.
LEMMA Kinds ==
    ASSUME NEW r \in Request
    PROVE  /\ r.kind = "autosave" =>
                 /\ r.tab \in Tabs \cup {Nobody}
                 /\ \E f \in Fields : r.values \in [{f} -> Versions]
           /\ r.kind = "submit" =>
                 /\ \E s \in Forms : r.values \in [s -> Versions]
                 /\ r.copy \in [Fields -> Versions] \cup {Unread}
           /\ r.kind \in {"autosave", "submit"}
  BY DEF Request

\* What an autosave leaves of a text is a text.
LEMMA CutTyped ==
    ASSUME NEW f \in Fields, NEW v \in Versions
    PROVE  Cut(f, v) \in Versions
<1>1. <<f, v>> \in Long => v \in 1 .. MaxVersion
  BY DraftsAssumption
<1>2. MaxVersion \in Nat /\ v \in Int
  BY DraftsAssumption DEF Versions
<1> QED BY <1>1, <1>2 DEF Cut, Versions

\* What a request carries is texts of columns, and so is what is stored of it.
LEMMA Values ==
    ASSUME NEW r \in Request, NEW f, Carries(r, f)
    PROVE  f \in Fields /\ r.values[f] \in Versions /\ Stored(r, f) \in Versions
<1>1. \A s \in Forms : s \subseteq Fields
  BY DraftsAssumption
<1>2. ASSUME NEW g \in Fields, r.values \in [{g} -> Versions]
      PROVE  f \in Fields /\ r.values[f] \in Versions
  BY <1>2 DEF Carries
<1>3. ASSUME NEW s \in Forms, r.values \in [s -> Versions]
      PROVE  f \in Fields /\ r.values[f] \in Versions
  BY <1>1, <1>3 DEF Carries
<1>4. f \in Fields /\ r.values[f] \in Versions
  BY <1>2, <1>3, Kinds
<1> QED BY <1>4, CutTyped DEF Stored

\* A page that is left changes nothing about what its autosaves carry.
LEMMA Orphans ==
    ASSUME requests \subseteq Request, NEW t \in Tabs
    PROVE  /\ Orphaned(t) \subseteq Request
           /\ \A r \in requests : \E q \in Orphaned(t) : q.values = r.values
           /\ \A q \in Orphaned(t) : \E r \in requests :
                 /\ q = IF r.kind = "autosave" /\ r.tab = t THEN [r EXCEPT !.tab = Nobody] ELSE r
                 /\ q.kind = r.kind /\ q.values = r.values
                 /\ r.kind = "submit" => q.copy = r.copy
<1>1. ASSUME NEW r \in Request, r.kind = "autosave"
      PROVE  /\ [r EXCEPT !.tab = Nobody] \in Request
             /\ [r EXCEPT !.tab = Nobody].kind = r.kind
             /\ [r EXCEPT !.tab = Nobody].values = r.values
  <2>1. r \in [kind : {"autosave"}, tab : Tabs \cup {Nobody}, values : UNION {[{f} -> Versions] : f \in Fields}]
    BY <1>1 DEF Request
  <2>2. [r EXCEPT !.tab = Nobody] \in
           [kind : {"autosave"}, tab : Tabs \cup {Nobody}, values : UNION {[{f} -> Versions] : f \in Fields}]
    BY <2>1
  <2> QED BY <2>1, <2>2 DEF Request
<1>2. \A q \in Orphaned(t) : \E r \in requests :
         q = IF r.kind = "autosave" /\ r.tab = t THEN [r EXCEPT !.tab = Nobody] ELSE r
  BY DEF Orphaned
<1>3. ASSUME NEW q \in Orphaned(t)
      PROVE  q \in Request /\ \E r \in requests :
                 /\ q = IF r.kind = "autosave" /\ r.tab = t THEN [r EXCEPT !.tab = Nobody] ELSE r
                 /\ q.kind = r.kind /\ q.values = r.values
                 /\ r.kind = "submit" => q.copy = r.copy
  BY <1>1, <1>2
<1>4. ASSUME NEW r \in requests PROVE \E q \in Orphaned(t) : q.values = r.values
  <2>1. (IF r.kind = "autosave" /\ r.tab = t THEN [r EXCEPT !.tab = Nobody] ELSE r) \in Orphaned(t)
    BY DEF Orphaned
  <2> QED BY <1>1, <2>1
<1> QED BY <1>3, <1>4

\* The empty forms and no requests.
LEMMA InitInv == Init => IInv
  BY DraftsAssumption DEF Init, IInv, Awaited, TypeOK, SettledTextStored, Orderly, Versions

-----------------------------------------------------------------------------
(* The steps.                                                              *)

\* Requests that are known by others keep columns in order.
LEMMA SameRequests ==
    ASSUME IInv, UNCHANGED <<row, owed, crossed>>,
           \A q \in requests' : \E r \in requests :
              q.kind = r.kind /\ q.values = r.values /\ (r.kind = "submit" => q.copy = r.copy),
           \A r \in requests : \E q \in requests' : q.values = r.values,
           \A f \in Fields \ crossed : \A r, q \in requests' : Carries(r, f) /\ Carries(q, f) => r = q
    PROVE  SettledTextStored' /\ \A f \in Fields \ crossed' : Orderly(f)'
<1>1. SettledTextStored'
  BY DEF IInv, SettledTextStored, Carries
<1>2. ASSUME NEW f \in Fields \ crossed PROVE Orderly(f)'
  <2>1. Orderly(f)
    BY DEF IInv
  <2> QED BY <1>2, <2>1 DEF Orderly, Carries, Stored
<1> QED BY <1>1, <1>2

\* The form of a tab is opened, or typed into.
LEMMA TypeStep ==
    ASSUME IInv, NEW t \in Tabs,
           (\E s \in Forms : Open(t, s)) \/ (\E f \in Fields : Type(t, f))
    PROVE  IInv'
<1>1. UNCHANGED <<row, requests, owed, crossed, failed>>
  BY DEF Open, Type
<1>2. TypeOK' /\ Awaited'
  <2>1. ASSUME NEW s \in Forms, Open(t, s) PROVE TypeOK' /\ Awaited'
    <3>1. /\ form' = [form EXCEPT ![t] = s] /\ form[t] = {} /\ UNCHANGED <<typed, timer>>
          /\ text' = [text EXCEPT ![t] = [f \in Fields |-> IF f \in s THEN row[f] ELSE 0]]
      BY <2>1 DEF Open
    <3>2. [f \in Fields |-> IF f \in s THEN row[f] ELSE 0] \in [Fields -> Versions]
      BY DraftsAssumption DEF IInv, TypeOK, Versions
    <3>3. text' \in [Tabs -> [Fields -> Versions]]
      BY <3>1, <3>2 DEF IInv, TypeOK
    <3>4. form' \in [Tabs -> Forms \cup {{}}] /\ \A u \in Tabs : form[u] # {} => form'[u] = form[u]
      BY <3>1 DEF IInv, TypeOK
    <3>5. \A u \in Tabs : timer'[u] \subseteq form'[u]
      BY <3>1 DEF IInv, TypeOK
    <3>6. failed' \subseteq {u \in Tabs : form'[u] # {}}
      BY <1>1, <3>4 DEF IInv, TypeOK
    <3>7. TypeOK'
      BY <1>1, <3>1, <3>3, <3>4, <3>5, <3>6 DEF IInv, TypeOK
    <3>8. \A r \in requests : r.kind = "autosave" /\ r.tab # Nobody => r.tab \in Tabs
      BY Kinds DEF IInv, TypeOK
    <3> QED BY <1>1, <3>4, <3>7, <3>8 DEF IInv, Awaited
  <2>2. ASSUME NEW f \in Fields, Type(t, f) PROVE TypeOK' /\ Awaited'
    <3>1. /\ typed' = typed + 1 /\ typed < MaxVersion /\ UNCHANGED form /\ f \in form[t]
          /\ text' = [text EXCEPT ![t][f] = typed + 1]
          /\ timer' = [timer EXCEPT ![t] = @ \cup {f}]
      BY <2>2 DEF Type
    <3>2. typed + 1 \in Versions /\ typed + 1 \in 0 .. MaxVersion
      BY <3>1, DraftsAssumption DEF IInv, TypeOK, Versions
    <3>3. text' \in [Tabs -> [Fields -> Versions]]
      BY <3>1, <3>2 DEF IInv, TypeOK
    <3>4. timer' \in [Tabs -> SUBSET Fields] /\ \A u \in Tabs : timer'[u] \subseteq form'[u]
      BY <3>1 DEF IInv, TypeOK
    <3> QED BY <1>1, <3>1, <3>2, <3>3, <3>4 DEF IInv, TypeOK, Awaited
  <2> QED BY <2>1, <2>2
<1>3. SettledTextStored' /\ \A f \in Fields \ crossed' : Orderly(f)'
  BY <1>1 DEF IInv, SettledTextStored, Orderly, Carries, Stored
<1> QED BY <1>2, <1>3 DEF IInv

\* The types of a tab that is left.
LEMMA LeaveTyped ==
    ASSUME IInv, NEW t \in Tabs, Leave(t)
    PROVE  /\ form' \in [Tabs -> Forms \cup {{}}] /\ form'[t] = {}
           /\ \A u \in Tabs \ {t} : form'[u] = form[u]
           /\ text' \in [Tabs -> [Fields -> Versions]]
           /\ timer' \in [Tabs -> SUBSET Fields] /\ \A u \in Tabs : timer'[u] \subseteq form'[u]
           /\ failed' \subseteq {u \in Tabs : form'[u] # {}}
<1>1. [f \in Fields |-> 0] \in [Fields -> Versions]
  BY DraftsAssumption DEF Versions
<1>2. text' \in [Tabs -> [Fields -> Versions]]
  BY <1>1 DEF IInv, TypeOK, Leave
<1> QED BY <1>2 DEF IInv, TypeOK, Leave

\* Nobody waits in a tab that is left.
LEMMA OrphansAwaited ==
    ASSUME IInv, NEW t \in Tabs, Leave(t), NEW q \in Orphaned(t), q.kind = "autosave", q.tab # Nobody
    PROVE  form'[q.tab] # {}
<1>1. requests \subseteq Request
  BY DEF IInv, TypeOK
<1>2. PICK r \in requests :
         /\ q = IF r.kind = "autosave" /\ r.tab = t THEN [r EXCEPT !.tab = Nobody] ELSE r
         /\ q.kind = r.kind
  BY <1>1, Orphans
<1>3. CASE r.tab = t
  BY <1>1, <1>2, <1>3 DEF Request
<1>4. CASE r.tab # t
  BY <1>1, <1>2, <1>4, Kinds, LeaveTyped DEF IInv, Awaited
<1> QED BY <1>3, <1>4

\* The tab is closed.
LEMMA CloseStep ==
    ASSUME IInv, NEW t \in Tabs, Close(t)
    PROVE  IInv'
<1>1. requests' = Orphaned(t) /\ Leave(t) /\ UNCHANGED <<row, typed, owed, crossed>>
  BY DEF Close
<1>2. requests \subseteq Request
  BY DEF IInv, TypeOK
<1>3. TypeOK'
  BY <1>1, <1>2, Orphans, LeaveTyped DEF IInv, TypeOK
<1>4. Awaited'
  BY <1>1, OrphansAwaited DEF Awaited
<1>5. \A r \in requests : \E q \in requests' : q.values = r.values
  BY <1>1, <1>2, Orphans
<1>6. ASSUME NEW f \in Fields \ crossed, NEW q \in requests', NEW p \in requests', Carries(q, f), Carries(p, f)
      PROVE  q = p
  <2>1. PICK r \in requests :
           /\ q = IF r.kind = "autosave" /\ r.tab = t THEN [r EXCEPT !.tab = Nobody] ELSE r
           /\ q.values = r.values
    BY <1>1, <1>2, Orphans
  <2>2. PICK x \in requests :
           /\ p = IF x.kind = "autosave" /\ x.tab = t THEN [x EXCEPT !.tab = Nobody] ELSE x
           /\ p.values = x.values
    BY <1>1, <1>2, Orphans
  <2>3. r = x
    BY <1>6, <2>1, <2>2 DEF IInv, Orderly, Carries
  <2> QED BY <2>1, <2>2, <2>3
<1>7. SettledTextStored' /\ \A f \in Fields \ crossed' : Orderly(f)'
  BY <1>1, <1>2, <1>5, <1>6, Orphans, SameRequests
<1> QED BY <1>3, <1>4, <1>7 DEF IInv

\* Tab t sends r, which carries what is on screen.
LEMMA SendStep ==
    ASSUME IInv, NEW t \in Tabs, NEW r \in Request, Send(t, r), UNCHANGED row,
           \A f \in DOMAIN r.values : r.values[f] = text[t][f],
           r.kind = "submit" => r.copy = Unread
    PROVE  /\ SettledTextStored' /\ \A f \in Fields \ crossed' : Orderly(f)'
           /\ requests' \subseteq Request /\ owed' \in [Fields -> Versions] /\ crossed' \subseteq Fields
<1>1. requests \subseteq Request /\ text[t] \in [Fields -> Versions]
  BY DEF IInv, TypeOK
<1> DEFINE rest == IF r.kind = "submit" THEN Orphaned(t) ELSE requests
<1>2. /\ rest \subseteq Request
      /\ \A q \in rest : \E p \in requests :
            q.kind = p.kind /\ q.values = p.values /\ (p.kind = "submit" => q.copy = p.copy)
      /\ \A p \in requests : \E q \in rest : q.values = p.values
  BY <1>1, Orphans
<1>3. requests' = {r} \cup rest
  BY DEF Send
<1>4. /\ requests' \subseteq Request /\ owed' \in [Fields -> Versions] /\ crossed' \subseteq Fields
  BY <1>1, <1>2, <1>3, Values DEF Send, IInv, TypeOK
<1>5. ASSUME NEW q \in rest, NEW p \in rest, NEW f \in Fields \ crossed, Carries(q, f), Carries(p, f)
      PROVE  q = p
  <2>1. CASE r.kind # "submit"
    BY <1>5, <2>1 DEF IInv, Orderly
  <2>2. CASE r.kind = "submit"
    <3>1. PICK a \in requests :
             /\ q = IF a.kind = "autosave" /\ a.tab = t THEN [a EXCEPT !.tab = Nobody] ELSE a
             /\ q.values = a.values
      BY <1>1, <2>2, Orphans
    <3>2. PICK b \in requests :
             /\ p = IF b.kind = "autosave" /\ b.tab = t THEN [b EXCEPT !.tab = Nobody] ELSE b
             /\ p.values = b.values
      BY <1>1, <2>2, Orphans
    <3>3. a = b
      BY <1>5, <3>1, <3>2 DEF IInv, Orderly, Carries
    <3> QED BY <3>1, <3>2, <3>3
  <2> QED BY <2>1, <2>2
<1> HIDE DEF rest
<1>6. ASSUME NEW f \in Fields \ crossed', Carries(r, f)
      PROVE  Orderly(f)' /\ \E q \in requests' : Carries(q, f)
  <2>1. owed'[f] = Stored(r, f)
    BY <1>6 DEF Send, Carries, Stored
  <2>2. \A q \in requests : ~Writes(q, f)
    BY <1>6 DEF Send
  <2>3. \A q \in rest : ~Carries(q, f) /\ (q.kind = "submit" => q.copy = Unread)
    BY <1>2, <2>2 DEF Writes, Carries
  <2>4. \A q \in requests' : q = r \/ q \in rest
    BY <1>3
  <2>5. r \in requests'
    BY <1>3
  <2> QED BY <1>6, <2>1, <2>3, <2>4, <2>5 DEF Orderly, Carries, Stored
<1>7. ASSUME NEW f \in Fields \ crossed', ~Carries(r, f)
      PROVE  /\ Orderly(f)' /\ owed'[f] = owed[f] /\ f \notin crossed
             /\ (\A q \in requests' : ~Carries(q, f)) => \A q \in requests : ~Carries(q, f)
  <2>1. owed'[f] = owed[f] /\ f \notin crossed
    BY <1>7 DEF Send
  <2>2. Orderly(f)
    BY <2>1 DEF IInv
  <2>3. \A q \in requests' : Carries(q, f) => q \in rest
    BY <1>3, <1>7
  <2>4. \A q \in requests' : q.kind = "submit" /\ q.copy # Unread => q.copy[f] = row'[f]
    BY <1>2, <1>3, <2>2 DEF Orderly
  <2>5. \A q \in rest : Carries(q, f) => Stored(q, f) = owed[f]
    BY <1>2, <2>2 DEF Orderly, Carries, Stored
  <2>6. Orderly(f)'
    BY <1>5, <2>1, <2>3, <2>4, <2>5 DEF Orderly, Carries, Stored
  <2> QED BY <1>2, <1>3, <2>1, <2>6 DEF Carries
<1>8. SettledTextStored'
  <2> SUFFICES ASSUME NEW f \in Fields \ crossed', \A q \in requests' : ~Carries(q, f)
               PROVE  row'[f] = owed'[f]
    BY DEF SettledTextStored, Carries
  <2>1. ~Carries(r, f)
    BY <1>3
  <2> QED BY <1>7, <2>1 DEF IInv, SettledTextStored
<1> QED BY <1>4, <1>6, <1>7, <1>8

\* A timer runs out.
LEMMA FireStep ==
    ASSUME IInv, NEW t \in Tabs, NEW f \in Fields, Fire(t, f)
    PROVE  IInv'
<1> DEFINE r == [kind |-> "autosave", tab |-> t, values |-> [g \in {f} |-> text[t][f]]]
<1>1. /\ f \in timer[t] /\ timer' = [timer EXCEPT ![t] = @ \ {f}] /\ failed' = failed \ {t}
      /\ Send(t, r) /\ UNCHANGED <<row, typed, form, text>>
  BY DEF Fire
<1>2. r \in Request
  <2>1. [g \in {f} |-> text[t][f]] \in [{f} -> Versions]
    BY DEF IInv, TypeOK
  <2> QED BY <2>1 DEF Request
<1>3. /\ r.kind = "autosave" /\ r.tab = t /\ \A g \in DOMAIN r.values : r.values[g] = text[t][g]
  OBVIOUS
<1> HIDE DEF r
<1>4. requests' = {r} \cup requests
  BY <1>1, <1>3 DEF Send
<1>5. /\ SettledTextStored' /\ \A g \in Fields \ crossed' : Orderly(g)'
      /\ requests' \subseteq Request /\ owed' \in [Fields -> Versions] /\ crossed' \subseteq Fields
  BY <1>1, <1>2, <1>3, SendStep
<1>6. form[t] # {}
  BY <1>1 DEF IInv, TypeOK
<1>7. Awaited'
  BY <1>1, <1>3, <1>4, <1>6 DEF IInv, Awaited
<1>8. timer' \in [Tabs -> SUBSET Fields] /\ \A u \in Tabs : timer'[u] \subseteq form'[u]
  BY <1>1 DEF IInv, TypeOK
<1>9. TypeOK'
  BY <1>1, <1>5, <1>8 DEF IInv, TypeOK
<1> QED BY <1>5, <1>7, <1>9 DEF IInv

\* The form of a tab is submitted.
LEMMA SubmitStep ==
    ASSUME IInv, NEW t \in Tabs, Submit(t)
    PROVE  IInv'
<1> DEFINE r == [kind |-> "submit", values |-> [f \in form[t] |-> text[t][f]], copy |-> Unread]
<1>1. form[t] # {} /\ Send(t, r) /\ Leave(t) /\ UNCHANGED <<row, typed>>
  BY DEF Submit
<1>2. r \in Request
  <2>1. form[t] \in Forms /\ form[t] \subseteq Fields /\ text[t] \in [Fields -> Versions]
    BY <1>1, DraftsAssumption DEF IInv, TypeOK
  <2>2. [f \in form[t] |-> text[t][f]] \in [form[t] -> Versions]
    BY <2>1
  <2> QED BY <2>1, <2>2 DEF Request
<1>3. r.kind = "submit" /\ r.copy = Unread /\ \A g \in DOMAIN r.values : r.values[g] = text[t][g]
  OBVIOUS
<1> HIDE DEF r
<1>4. requests' = {r} \cup Orphaned(t)
  BY <1>1, <1>3 DEF Send
<1>5. /\ SettledTextStored' /\ \A g \in Fields \ crossed' : Orderly(g)'
      /\ requests' \subseteq Request /\ owed' \in [Fields -> Versions] /\ crossed' \subseteq Fields
  BY <1>1, <1>2, <1>3, SendStep
<1>6. Awaited'
  BY <1>1, <1>3, <1>4, OrphansAwaited DEF Awaited
<1>7. TypeOK'
  BY <1>1, <1>5, LeaveTyped DEF IInv, TypeOK
<1> QED BY <1>5, <1>6, <1>7 DEF IInv

\* What r lays over a row.
LEMMA OverlayTyped ==
    ASSUME NEW r \in Request, NEW x \in [Fields -> Versions]
    PROVE  Overlay(r, x) \in [Fields -> Versions]
  BY Values DEF Overlay

\* What an autosave tells is told to an open page.
LEMMA TellTyped ==
    ASSUME IInv, NEW r \in requests, NEW ok \in BOOLEAN, r.kind = "autosave", Tell(r, ok)
    PROVE  failed' \subseteq {t \in Tabs : form[t] # {}}
<1>1. r.tab # Nobody => r.tab \in Tabs /\ form[r.tab] # {}
  BY Kinds DEF IInv, TypeOK, Awaited
<1> QED BY <1>1 DEF Tell, IInv, TypeOK

\* Request r writes its columns, and others as they are unless crossed.
LEMMA WriteStep ==
    ASSUME IInv, NEW r \in requests, Written(r), Done(r), UNCHANGED owed,
           row' = Overlay(r, row) \/ (r.kind = "submit" /\ r.copy # Unread /\ row' = Overlay(r, r.copy))
    PROVE  /\ SettledTextStored' /\ \A f \in Fields \ crossed' : Orderly(f)'
           /\ row' \in [Fields -> Versions] /\ crossed' \subseteq Fields
<1>1. r \in Request /\ crossed \subseteq crossed' /\ requests' = requests \ {r}
  BY DEF IInv, TypeOK, Written, Done
<1>2. row' \in [Fields -> Versions] /\ crossed' \subseteq Fields
  BY <1>1, OverlayTyped, Kinds DEF IInv, TypeOK, Written
<1>3. ASSUME NEW f \in Fields \ crossed', Carries(r, f)
      PROVE  Orderly(f)' /\ row'[f] = owed'[f]
  <2>1. Orderly(f)
    BY <1>1 DEF IInv
  <2>2. row'[f] = owed'[f]
    BY <1>3, <2>1 DEF Overlay, Orderly
  <2>3. \A q \in requests \ {r} : ~Writes(q, f)
    BY <1>3 DEF Written
  <2> QED BY <1>1, <2>2, <2>3 DEF Orderly, Writes, Carries, Stored
<1>4. ASSUME NEW f \in Fields \ crossed', ~Carries(r, f)
      PROVE  Orderly(f)' /\ row'[f] = row[f]
  <2>1. Orderly(f)
    BY <1>1 DEF IInv
  <2>2. row'[f] = row[f]
    BY <1>4, <2>1 DEF Overlay, Orderly
  <2> QED BY <1>1, <2>1, <2>2 DEF Orderly, Carries, Stored
<1>5. SettledTextStored'
  <2> SUFFICES ASSUME NEW f \in Fields \ crossed', \A q \in requests' : ~Carries(q, f)
               PROVE  row'[f] = owed'[f]
    BY DEF SettledTextStored, Carries
  <2>1. CASE Carries(r, f)
    BY <1>3, <2>1
  <2>2. CASE ~Carries(r, f)
    BY <1>1, <1>4, <2>2 DEF IInv, SettledTextStored
  <2> QED BY <2>1, <2>2
<1> QED BY <1>2, <1>3, <1>4, <1>5

\* report_autosave, and the UPDATE of the forms.
LEMMA SaveStep ==
    ASSUME IInv, NEW r \in requests, Autosave(r) \/ Save(r)
    PROVE  IInv'
<1>1. /\ Written(r) /\ Done(r) /\ UNCHANGED <<typed, form, text, timer, owed>>
      /\ requests' = requests \ {r}
      /\ \/ row' = Overlay(r, row)
         \/ r.kind = "submit" /\ r.copy # Unread /\ row' = Overlay(r, r.copy)
  BY DEF Autosave, Save, Done
<1>2. failed' \subseteq {t \in Tabs : form[t] # {}}
  BY TellTyped DEF Autosave, Save, IInv, TypeOK
<1>3. /\ SettledTextStored' /\ \A f \in Fields \ crossed' : Orderly(f)'
      /\ row' \in [Fields -> Versions] /\ crossed' \subseteq Fields
  BY <1>1, WriteStep
<1>4. TypeOK' /\ Awaited'
  BY <1>1, <1>2, <1>3 DEF IInv, TypeOK, Awaited
<1> QED BY <1>3, <1>4 DEF IInv

\* A form's request reads the row.
LEMMA ReadStep ==
    ASSUME IInv, NEW r \in requests, Read(r)
    PROVE  IInv'
<1> DEFINE q == [r EXCEPT !.copy = row]
<1>1. /\ requests' = (requests \ {r}) \cup {q} /\ r \in Request /\ r.kind = "submit"
      /\ UNCHANGED <<row, typed, form, text, timer, failed, owed, crossed>>
  BY DEF Read, IInv, TypeOK
<1>2. q \in Request /\ q.kind = "submit" /\ q.values = r.values /\ q.copy = row
  <2>1. r \in [kind : {"submit"}, values : UNION {[s -> Versions] : s \in Forms},
               copy : [Fields -> Versions] \cup {Unread}]
    BY <1>1 DEF Request
  <2>2. q \in [kind : {"submit"}, values : UNION {[s -> Versions] : s \in Forms},
               copy : [Fields -> Versions] \cup {Unread}]
    BY <2>1 DEF IInv, TypeOK
  <2> QED BY <2>1, <2>2 DEF Request
<1> HIDE DEF q
<1>3. TypeOK' /\ Awaited'
  BY <1>1, <1>2 DEF IInv, TypeOK, Awaited
<1>4. SettledTextStored'
  BY <1>1, <1>2 DEF IInv, SettledTextStored, Carries
<1>5. ASSUME NEW f \in Fields \ crossed PROVE Orderly(f)'
  <2>1. Orderly(f)
    BY DEF IInv
  <2> QED BY <1>1, <1>2, <2>1 DEF Orderly, Carries, Stored
<1> QED BY <1>1, <1>3, <1>4, <1>5 DEF IInv

\* A request gets lost.
LEMMA LoseStep ==
    ASSUME IInv, NEW r \in requests, Lose(r)
    PROVE  IInv'
<1>1. /\ requests' = requests \ {r} /\ UNCHANGED <<row, typed, form, text, timer, crossed>>
      /\ owed' = [f \in Fields |-> IF Carries(r, f) THEN row[f] ELSE owed[f]]
  BY DEF Lose, Done
<1>2. failed' \subseteq {t \in Tabs : form[t] # {}}
  BY TellTyped DEF Lose, IInv, TypeOK
<1>3. TypeOK' /\ Awaited'
  BY <1>1, <1>2 DEF IInv, TypeOK, Awaited
<1>4. SettledTextStored'
  BY <1>1 DEF IInv, SettledTextStored, Carries
<1>5. ASSUME NEW f \in Fields \ crossed PROVE Orderly(f)'
  <2>1. Orderly(f)
    BY DEF IInv
  <2> QED BY <1>1, <2>1 DEF Orderly, Carries, Stored
<1> QED BY <1>1, <1>3, <1>4, <1>5 DEF IInv

\* Every step keeps the invariant.
LEMMA NextInv == IInv /\ [Next]_vars => IInv'
<1>1. IInv /\ UNCHANGED vars => IInv'
  BY DEF vars, IInv, TypeOK, Awaited, SettledTextStored, Orderly, Carries, Stored
<1> QED BY <1>1, TypeStep, CloseStep, FireStep, SubmitStep, SaveStep, ReadStep, LoseStep
        DEF Next, Handle

\* Every reachable state satisfies the invariant.
THEOREM Invariant == Spec => []IInv
  BY InitInv, NextInv, PTL DEF Spec

\* The types of the row, the tabs and the requests.
THEOREM TypeCorrect == Spec => []TypeOK
<1>1. IInv => TypeOK
  BY DEF IInv
<1> QED BY <1>1, Invariant, PTL

\* report_autosave and the edit forms: however requests are reordered and lost,
\* a column that has settled has the text that was sent last and not told to
\* have failed, unless requests for it overlapped.
THEOREM Settled == Spec => []SettledTextStored
<1>1. IInv => SettledTextStored
  BY DEF IInv
<1> QED BY <1>1, Invariant, PTL
=============================================================================
