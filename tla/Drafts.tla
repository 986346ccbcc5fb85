------------------------------- MODULE Drafts -------------------------------
(***************************************************************************)
(* The text columns of a report and the browser tabs they are edited in    *)
(* (static/js/report_autosave.js, report_autosave and the edit forms of    *)
(* apps/reports/views.py).  A tab saves a field some time after the last   *)
(* keystroke, and the whole form when it is submitted.  Requests are       *)
(* handled in any order and may get lost, on the way or on the way back.   *)
(*                                                                         *)
(* The view of autosave writes one column in one statement.  A form is     *)
(* saved with all columns of the row that its request has read.  Reports   *)
(* are never deleted.  Who may edit is left out: a refused request is one  *)
(* that fails.  A submitted form is valid.  Texts that differ in blanks    *)
(* around them or in their line ends, which forms drop, are one text.      *)
(***************************************************************************)
EXTENDS Integers, FiniteSets

CONSTANTS
    Fields,       \* columns with text
    Forms,        \* the forms, each a set of fields: ReportContentForm, ReportForm
    Tabs,         \* browser tabs, of any users
    MaxVersion,   \* bound: how many texts are typed
    Long,         \* the texts of columns that are longer than an autosave stores
    MaxSubmits,   \* bound: how many submitted forms are under way at a time
    Unread,       \* the row a request has not read yet
    Nobody        \* the page that sent an autosave is not open any more

ASSUME DraftsAssumption ==
    /\ Forms \subseteq SUBSET Fields
    /\ MaxVersion \in Nat /\ MaxSubmits \in Nat
    /\ Long \subseteq Fields \X (1 .. MaxVersion)
    /\ Unread \notin [Fields -> -MaxVersion .. MaxVersion] /\ Nobody \notin Tabs

VARIABLES
    row,       \* the text of each column, known by the number it was typed as
    typed,     \* how many texts were typed
    form,      \* the form a tab shows; closed tabs show the empty form
    text,      \* the text on screen
    timer,     \* the fields of a tab whose timer is running
    failed,    \* the tabs that tell that a save failed
    requests,  \* the requests under way
    owed,      \* history: the text the latest request for a column is to leave
    crossed    \* history: columns whose latest requests overlapped

vars == <<row, typed, form, text, timer, failed, requests, owed, crossed>>

-----------------------------------------------------------------------------
\* Text number v, and -v for what an autosave leaves of it if it is too long.
Versions == -MaxVersion .. MaxVersion

\* value[:cap], with the caps of _AUTOSAVE_FIELDS.
Cut(f, v) == IF <<f, v>> \in Long THEN -v ELSE v

\* An autosave has one field, a submitted form the fields of the form.
Request ==
    [kind : {"autosave"}, tab : Tabs \cup {Nobody}, values : UNION {[{f} -> Versions] : f \in Fields}]
      \cup [kind : {"submit"}, values : UNION {[s -> Versions] : s \in Forms},
            copy : [Fields -> Versions] \cup {Unread}]

Carries(r, f) == f \in DOMAIN r.values

\* What the server stores of the text r carries for column f.
Stored(r, f) == IF r.kind = "autosave" THEN Cut(f, r.values[f]) ELSE r.values[f]

\* Request r is going to write column f, as its own or as it has read it.
Writes(r, f) == Carries(r, f) \/ (r.kind = "submit" /\ r.copy # Unread)

Init ==
    /\ row = [f \in Fields |-> 0]
    /\ typed = 0
    /\ form = [t \in Tabs |-> {}]
    /\ text = [t \in Tabs |-> [f \in Fields |-> 0]]
    /\ timer = [t \in Tabs |-> {}]
    /\ failed = {}
    /\ requests = {}
    /\ owed = row
    /\ crossed = {}

-----------------------------------------------------------------------------
(* In the browser.                                                         *)

\* GET of report_edit or report_content_edit.
Open(t, s) ==
    /\ form[t] = {}
    /\ form' = [form EXCEPT ![t] = s]
    /\ text' = [text EXCEPT ![t] = [f \in Fields |-> IF f \in s THEN row[f] ELSE 0]]
    /\ UNCHANGED <<row, typed, timer, failed, requests, owed, crossed>>

\* Variant: the timers outlive the page.
Leave_KeepsTimers(t) ==
    /\ form' = [form EXCEPT ![t] = {}]
    /\ text' = [text EXCEPT ![t] = [f \in Fields |-> 0]]
    /\ failed' = failed \ {t}
    /\ UNCHANGED timer

\* Tab t shows no form any more: its timers are gone, and nobody sees answers.
Leave(t) ==
    /\ form' = [form EXCEPT ![t] = {}]
    /\ text' = [text EXCEPT ![t] = [f \in Fields |-> 0]]
    /\ timer' = [timer EXCEPT ![t] = {}]
    /\ failed' = failed \ {t}

Orphaned(t) ==
    {IF r.kind = "autosave" /\ r.tab = t THEN [r EXCEPT !.tab = Nobody] ELSE r : r \in requests}

\* The "input" event sets the timer of the field again.
Type(t, f) ==
    /\ f \in form[t] /\ typed < MaxVersion
    /\ typed' = typed + 1
    /\ text' = [text EXCEPT ![t][f] = typed + 1]
    /\ timer' = [timer EXCEPT ![t] = @ \cup {f}]
    /\ UNCHANGED <<row, form, failed, requests, owed, crossed>>

\* Tab t sends r.
Send(t, r) ==
    /\ requests' = {r} \cup IF r.kind = "submit" THEN Orphaned(t) ELSE requests
    /\ owed' = [f \in Fields |-> IF Carries(r, f) THEN Stored(r, f) ELSE owed[f]]
    /\ crossed' = {f \in Fields : IF Carries(r, f) THEN \E q \in requests : Writes(q, f)
                                                   ELSE f \in crossed}

\* Variant: nothing is sent while an earlier save of the tab is under way.
Fire_Skips(t, f) ==
    /\ f \in timer[t]
    /\ timer' = [timer EXCEPT ![t] = @ \ {f}]
    /\ failed' = failed \ {t}
    /\ IF \E r \in requests : r.kind = "autosave" /\ r.tab = t
       THEN UNCHANGED <<requests, owed, crossed>>
       ELSE Send(t, [kind |-> "autosave", tab |-> t, values |-> [g \in {f} |-> text[t][f]]])
    /\ UNCHANGED <<row, typed, form, text>>

\* save(): the timer has run out.  "Saving" replaces what the tab told.
Fire(t, f) ==
    /\ f \in timer[t]
    /\ timer' = [timer EXCEPT ![t] = @ \ {f}]
    /\ failed' = failed \ {t}
    /\ Send(t, [kind |-> "autosave", tab |-> t, values |-> [g \in {f} |-> text[t][f]]])
    /\ UNCHANGED <<row, typed, form, text>>

\* The form is submitted, which leaves the page.
Submit(t) ==
    /\ form[t] # {} /\ Cardinality({r \in requests : r.kind = "submit"}) < MaxSubmits
    /\ Send(t, [kind |-> "submit", values |-> [f \in form[t] |-> text[t][f]], copy |-> Unread])
    /\ Leave(t)
    /\ UNCHANGED <<row, typed>>

\* The tab is closed, or another page opened in it, without submitting.
Close(t) ==
    /\ form[t] # {}
    /\ Leave(t)
    /\ requests' = Orphaned(t)
    /\ UNCHANGED <<row, typed, owed, crossed>>

-----------------------------------------------------------------------------
(* On the server.                                                          *)

Done(r) == requests' = requests \ {r}

\* Request r writes its columns, and another is going to write one of them.
Written(r) ==
    crossed' = crossed \cup
        {f \in Fields : Carries(r, f) /\ \E q \in requests \ {r} : Writes(q, f)}

\* What the page that sent autosave r tells now.
Tell(r, ok) == failed' = IF ok \/ r.tab = Nobody THEN failed \ {r.tab} ELSE failed \cup {r.tab}

Overlay(r, other) == [f \in Fields |-> IF Carries(r, f) THEN Stored(r, f) ELSE other[f]]

\* report_autosave: UPDATE of one column, with a text that is cut off without
\* telling.  The answer may get lost.
Autosave(r) ==
    /\ r \in requests /\ r.kind = "autosave"
    /\ row' = Overlay(r, row)
    /\ Written(r)
    /\ \E ok \in BOOLEAN : Tell(r, ok)
    /\ Done(r)
    /\ UNCHANGED <<typed, form, text, timer, owed>>

\* report_edit, report_content_edit: the report is read.
Read(r) ==
    /\ r \in requests /\ r.kind = "submit" /\ r.copy = Unread
    /\ requests' = (requests \ {r}) \cup {[r EXCEPT !.copy = row]}
    /\ UNCHANGED <<row, typed, form, text, timer, failed, owed, crossed>>

\* Variant: the columns that are not in the form are blanked.
Save_Blank(r) ==
    /\ r \in requests /\ r.kind = "submit" /\ r.copy # Unread
    /\ row' = Overlay(r, [f \in Fields |-> 0])
    /\ Written(r)
    /\ Done(r)
    /\ UNCHANGED <<typed, form, text, timer, failed, owed>>

\* form.save(): UPDATE of all columns.
Save(r) ==
    /\ r \in requests /\ r.kind = "submit" /\ r.copy # Unread
    /\ row' = Overlay(r, r.copy)
    /\ Written(r)
    /\ Done(r)
    /\ UNCHANGED <<typed, form, text, timer, failed, owed>>

\* The request gets lost, is refused, or its worker is killed.  The column is
\* left as it is, and that is what the tab or the browser tells.
Lose(r) ==
    /\ r \in requests
    /\ owed' = [f \in Fields |-> IF Carries(r, f) THEN row[f] ELSE owed[f]]
    /\ IF r.kind = "autosave" THEN Tell(r, FALSE) ELSE UNCHANGED failed
    /\ Done(r)
    /\ UNCHANGED <<row, typed, form, text, timer, crossed>>

-----------------------------------------------------------------------------
Handle(r) == Autosave(r) \/ Read(r) \/ Save(r) \/ Lose(r)

Next ==
    \/ \E t \in Tabs :
          \/ Submit(t) \/ Close(t)
          \/ \E s \in Forms : Open(t, s)
          \/ \E f \in Fields : Type(t, f) \/ Fire(t, f)
    \/ \E r \in requests : Handle(r)

\* Timers run out, and each autosave is answered or given up.
Answer(t, f) ==
    \E r \in requests :
        /\ r.kind = "autosave" /\ r.tab = t /\ Carries(r, f)
        /\ Autosave(r) \/ Lose(r)

Fairness == \A t \in Tabs, f \in Fields : WF_vars(Fire(t, f)) /\ WF_vars(Answer(t, f))

Spec == Init /\ [][Next]_vars /\ Fairness

-----------------------------------------------------------------------------
(* Correctness.                                                            *)

\* The values of the row, the tabs and the requests.
TypeOK ==
    /\ row \in [Fields -> Versions] /\ owed \in [Fields -> Versions]
    /\ typed \in 0 .. MaxVersion
    /\ form \in [Tabs -> Forms \cup {{}}]
    /\ text \in [Tabs -> [Fields -> Versions]]
    /\ timer \in [Tabs -> SUBSET Fields] /\ \A t \in Tabs : timer[t] \subseteq form[t]
    /\ failed \subseteq {t \in Tabs : form[t] # {}}
    /\ requests \subseteq Request
    /\ crossed \subseteq Fields

\* report_autosave and the forms: a column without request under way has the
\* text that was on screen when the latest request for it was sent, or of an
\* autosaved text what its cap leaves, unless that was told to have failed, or
\* requests for it overlapped (an autosave and the submission of its own form,
\* two autosaves, another form's full-row save) and nothing has been saved since.
SettledTextStored ==
    \A f \in Fields \ crossed :
        (\A r \in requests : ~Carries(r, f)) => row[f] = owed[f]

\* report_autosave.js: text that was typed is in the row some time later, whole
\* or cut off at its cap, or the tab tells that its save failed, unless more is
\* typed or the form is left.
TypedIsStoredOrTold ==
    \A t \in Tabs, f \in Fields, v \in 1 .. MaxVersion :
        f \in timer[t] /\ text[t][f] = v ~>
            row[f] \in {v, Cut(f, v)} \/ t \in failed \/ text[t][f] # v
=============================================================================
