----------------------------- MODULE Templates ------------------------------
(***************************************************************************)
(* Report templates: their sections, which are lists of Ordering, the flag *)
(* of the default template, and the reports that use a template            *)
(* (apps/reports).  A template and its sections are written by several     *)
(* requests and statements in autocommit mode; only the deletion of a      *)
(* template is a transaction, which is a step here, and no lock orders     *)
(* requests.  Foreign keys are checked by the database.                    *)
(*                                                                         *)
(* Names, slugs, is_active and what a section contains are left out.       *)
(***************************************************************************)
EXTENDS Naturals, FiniteSets

CONSTANTS
    Templates,    \* the primary keys of templates, a bound
    Sections,     \* the primary keys of sections, a bound
    Reports,      \* the reports
    Workers,      \* threads serving requests
    Faulty,       \* the workers that may be killed between two statements
    NoTemplate,   \* a report without template
    NoRow, Idle, Unknown

VARIABLES
    entry, used, request, shared,   \* the sections, see Ordering
    flag,       \* the ReportTemplate rows: is_default, if there is a row
    uses,       \* the template of each report
    task,       \* what a worker does about a template or a report
    mishaps     \* history: what may have spoilt the default flags

sections == <<entry, used, request, shared>>
vars == <<sections, flag, uses, task, mishaps>>

O == INSTANCE Ordering WITH Lists <- Templates, Ids <- Sections

ASSUME TemplatesAssumption ==
    /\ O!OrderingAssumption
    /\ Faulty \subseteq Workers
    /\ NoTemplate \notin Templates
    /\ Idle \notin [step : {"save"}, template : Templates, flag : {"default", "plain"}]
    /\ Idle \notin [step : {"clear"}, template : Templates]
    /\ Idle \notin [step : {"remove"}, template : Templates, met : BOOLEAN]
    /\ Idle \notin [step : {"choose"}, template : Templates \cup {NoTemplate}, report : Reports]

-----------------------------------------------------------------------------
Flags == {"default", "plain", "unmade", "removed"}

Exists(t) == flag[t] \in {"default", "plain"}

Task == [step : {"save"}, template : Templates, flag : {"default", "plain"}]
          \cup [step : {"clear"}, template : Templates]
          \cup [step : {"remove"}, template : Templates, met : BOOLEAN]
          \cup [step : {"choose"}, template : Templates \cup {NoTemplate}, report : Reports]

Free(w) == task[w] = Idle /\ request[w] = Idle

\* Worker w is about to take the given step, about template t.
At(w, step) == task[w] # Idle /\ task[w].step = step
AtOn(w, step, t) == At(w, step) /\ task[w].template = t

Defaults == {t \in Templates : flag[t] = "default"}

\* What an administrator may have made of the seeded templates: the default
\* one is left, without sections, and no report uses it.
Init ==
    /\ O!Init
    /\ \E t \in Templates :
          flag = [u \in Templates |-> IF u = t THEN "default" ELSE "unmade"]
    /\ uses = [r \in Reports |-> NoTemplate]
    /\ task = [w \in Workers |-> Idle]
    /\ mishaps = {}

Begin(w, t) ==
    /\ Free(w)
    /\ task' = [task EXCEPT ![w] = t]
    /\ UNCHANGED <<sections, flag, uses, mishaps>>

End(w) == task' = [task EXCEPT ![w] = Idle]

-----------------------------------------------------------------------------
(* template_new and template_edit.                                         *)

\* A new row, or the form for the row t, with the flag d the form has.
ReadTemplate(w, t, d) ==
    /\ flag[t] # "removed" /\ \A x \in Workers : ~AtOn(x, "save", t) \/ Exists(t)
    /\ Begin(w, [step |-> "save", template |-> t, flag |-> d])

\* Variant: only a new template clears the flag of the others.
SaveTemplate_NewOnly(w) ==
    /\ At(w, "save")
    /\ LET t == task[w].template
           d == task[w].flag
           others == {x \in Workers \ {w} : At(x, "clear")}
       IN  /\ flag' = [flag EXCEPT ![t] = d]
           /\ task' = [task EXCEPT ![w] = IF d = "default" /\ ~Exists(t)
                                          THEN [step |-> "clear", template |-> t] ELSE Idle]
           /\ mishaps' = IF d = "default"
                         THEN (mishaps \ {"dropped"}) \cup IF others = {} THEN {} ELSE {"dropped"}
                         ELSE mishaps \cup IF flag[t] = "default" THEN {"dropped"} ELSE {}
    /\ UNCHANGED <<sections, uses>>

\* super().save(): INSERT, or UPDATE of every column, which brings back a row
\* that was removed.
SaveTemplate(w) ==
    /\ At(w, "save")
    /\ LET t == task[w].template
           d == task[w].flag
           others == {x \in Workers \ {w} : At(x, "clear")}
       IN  /\ flag' = [flag EXCEPT ![t] = d]
           /\ task' = [task EXCEPT ![w] = IF d = "default"
                                          THEN [step |-> "clear", template |-> t] ELSE Idle]
           /\ mishaps' = IF d = "default"
                         THEN (mishaps \ {"dropped"}) \cup IF others = {} THEN {} ELSE {"dropped"}
                         ELSE mishaps \cup IF flag[t] = "default" THEN {"dropped"} ELSE {}
    /\ UNCHANGED <<sections, uses>>

\* Variant: the flag of the saved template is cleared too.
ClearOthers_Own(w) ==
    /\ At(w, "clear")
    /\ flag' = [t \in Templates |-> IF flag[t] = "default" THEN "plain" ELSE flag[t]]
    /\ mishaps' = mishaps \ {"killed"}
    /\ End(w)
    /\ UNCHANGED <<sections, uses>>

\* The second statement of save(): all other default rows.
ClearOthers(w) ==
    /\ At(w, "clear")
    /\ flag' = [t \in Templates |-> IF flag[t] = "default" /\ t # task[w].template
                                    THEN "plain" ELSE flag[t]]
    /\ mishaps' = mishaps \ {"killed"}
    /\ End(w)
    /\ UNCHANGED <<sections, uses>>

-----------------------------------------------------------------------------
(* template_remove.                                                        *)

Removal(w, t) ==
    [step |-> "remove", template |-> t, met |-> \E x \in Workers : AtOn(x, "choose", t)]

\* Variant: reports are not looked for.
ReadForRemove_Used(w, t) ==
    /\ Exists(t)
    /\ Begin(w, Removal(w, t))

\* No report uses the template.
ReadForRemove(w, t) ==
    /\ Exists(t) /\ \A r \in Reports : uses[r] # t
    /\ Begin(w, Removal(w, t))

\* tpl.delete(): the sections go with it and reports that use it now are left
\* without template.
RemoveTemplate(w) ==
    /\ At(w, "remove")
    /\ LET t == task[w].template
       IN  /\ O!Cascade(t)
           /\ flag' = [flag EXCEPT ![t] = IF Exists(t) THEN "removed" ELSE @]
           /\ uses' = [r \in Reports |-> IF uses[r] = t THEN NoTemplate ELSE uses[r]]
           /\ mishaps' = mishaps \cup IF flag[t] = "default" THEN {"dropped"} ELSE {}
    /\ End(w)

-----------------------------------------------------------------------------
(* report_new, report_edit and report_content_edit.                        *)

\* The template the form has, or that of the row that was read.
ReadReport(w, r, t) ==
    /\ Free(w) /\ (t # NoTemplate => Exists(t))
    /\ task' = [x \in Workers |->
                  CASE x = w -> [step |-> "choose", template |-> t, report |-> r]
                    [] x # w /\ AtOn(x, "remove", t) -> [task[x] EXCEPT !.met = TRUE]
                    [] OTHER -> task[x]]
    /\ UNCHANGED <<sections, flag, uses, mishaps>>

\* form.save(), which the foreign key refuses when the template has gone.
SaveReport(w) ==
    /\ At(w, "choose")
    /\ LET t == task[w].template
       IN  uses' = IF t = NoTemplate \/ Exists(t)
                   THEN [uses EXCEPT ![task[w].report] = t] ELSE uses
    /\ End(w)
    /\ UNCHANGED <<sections, flag, mishaps>>

-----------------------------------------------------------------------------
(* The sections: actions of Ordering on templates that exist.              *)

rest == <<flag, uses, task, mishaps>>

EditSections ==
    /\ \/ \E w \in Workers :
             /\ task[w] = Idle
             /\ \/ \E t \in Templates, i \in Sections : Exists(t) /\ O!ReadForNew(w, t, i)
                \/ \E i \in Sections : O!ReadForEdit(w, i)
                \/ \E a, b \in Sections : O!ReadForMove(w, a, b)
       \/ \E i \in Sections : O!Remove(i)
    /\ UNCHANGED rest

\* The INSERT of a section fails when its template has gone.
SaveSections ==
    /\ \E w \in Workers :
          \/ request[w] # Idle /\ Exists(request[w].list) /\ O!Save(w)
          \/ O!Move(w)
          \/ O!Abandon(w)
    /\ UNCHANGED rest

\* The process is killed, or the database refuses a statement.
Crash(w) ==
    /\ w \in Faulty /\ task[w] # Idle
    /\ mishaps' = mishaps \cup IF At(w, "clear") THEN {"killed"} ELSE {}
    /\ End(w)
    /\ UNCHANGED <<sections, flag, uses>>

Next ==
    \/ EditSections \/ SaveSections
    \/ \E w \in Workers :
          \/ SaveTemplate(w) \/ ClearOthers(w) \/ RemoveTemplate(w) \/ SaveReport(w) \/ Crash(w)
          \/ \E t \in Templates :
                \/ ReadForRemove(w, t)
                \/ \E d \in {"default", "plain"} : ReadTemplate(w, t, d)
          \/ \E r \in Reports, t \in Templates \cup {NoTemplate} : ReadReport(w, r, t)

Spec == Init /\ [][Next]_vars

-----------------------------------------------------------------------------
(* Correctness.                                                            *)

\* The values of the tables, of what workers hold and of the history.
TypeOK ==
    /\ O!TypeOK
    /\ flag \in [Templates -> Flags]
    /\ uses \in [Reports -> Templates \cup {NoTemplate}]
    /\ task \in [Workers -> Task \cup {Idle}]
    /\ mishaps \subseteq {"dropped", "killed"}

\* The sections keep their order, see Ordering.
ImplementsLists == O!ImplementsLists

\* ReportTemplate.save, "Enforce a single default template": of two default
\* templates one was saved by a request that has yet to clear the others, or
\* that was killed before it did and nobody has set a default since.
AtMostOneDefault ==
    \A t, u \in Defaults :
        \/ t = u \/ "killed" \in mishaps
        \/ \E w \in Workers : AtOn(w, "clear", t) \/ AtOn(w, "clear", u)

\* There is a default template, unless somebody saved it without the flag or
\* removed it, or two requests that set a default overlapped: each clears the
\* flag of the other.
DefaultKept ==
    Defaults = {} => "dropped" \in mishaps

\* template_remove, "Cannot remove a template used by a report": a report
\* loses its template only by a save of its own, unless such a save overlapped
\* the removal.
TemplateKeptUnlessMet ==
    [][\A r \in Reports :
          uses[r] # NoTemplate /\ uses'[r] # uses[r] =>
              \E w \in Workers :
                 \/ AtOn(w, "remove", uses[r]) /\ task[w].met
                 \/ At(w, "choose") /\ task[w].report = r /\ task'[w] = Idle]_vars
=============================================================================
