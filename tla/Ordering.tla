------------------------------ MODULE Ordering ------------------------------
(***************************************************************************)
(* The lists that people reorder: the annexes of a report, the sections of *)
(* a template, the scope categories (apps/reports/views.py).  Each entry   *)
(* has a column "order", which the three sets of views read and write the  *)
(* same way, with no lock and no transaction: a request reads entries and  *)
(* later writes orders computed from them.                                 *)
(*                                                                         *)
(* The scope categories are one list.  Who may edit, titles, bodies and    *)
(* slugs are left out; entries of equal order come in any order, as those  *)
(* of sections do (annexes and categories of equal order come by title).   *)
(***************************************************************************)
EXTENDS Naturals, FiniteSets

CONSTANTS
    Lists,     \* the lists
    Ids,       \* the primary keys of entries, a bound: none is used twice
    Workers,   \* threads serving requests
    NoRow,     \* in entry: no such row
    Idle,      \* in request: nothing to do
    Unknown    \* see OrderedLists

\* What a module that uses this one, or a theorem about it, assumes.
OrderingAssumption ==
    /\ IsFiniteSet(Ids)
    /\ Unknown \notin [items : SUBSET Ids, before : SUBSET (Ids \X Ids)]
    /\ NoRow \notin [list : Lists, order : Nat]
    /\ Idle \notin [kind : {"save", "move"}, list : Lists, id : Ids, order : Nat,
                    other : Ids, otherOrder : Nat]

VARIABLES
    entry,     \* the rows: Annex, TemplateSection, ScopeCategory
    used,      \* the keys that were ever given
    request,   \* what a worker has read and is going to write
    shared     \* history: lists with requests that overlapped, until settled

vars == <<entry, used, request, shared>>

-----------------------------------------------------------------------------
Entry == [list : Lists, order : Nat]

\* A save of the entry id with order, or a move that gives order to id and
\* otherOrder to other.
Request == [kind : {"save", "move"}, list : Lists, id : Ids, order : Nat,
            other : Ids, otherOrder : Nat]

SaveOf(l, i, n) ==
    [kind |-> "save", list |-> l, id |-> i, order |-> n, other |-> i, otherOrder |-> n]

Exists(i) == entry[i] # NoRow

\* The entries of list l.
Members(l) == {i \in Ids : Exists(i) /\ entry[i].list = l}

Init ==
    /\ entry = [i \in Ids |-> NoRow]
    /\ used = {}
    /\ request = [w \in Workers |-> Idle]
    /\ shared = {}

-----------------------------------------------------------------------------
(* Beginning and ending a request.                                         *)

\* Some worker is between its read and its write of list l.
Busy(l) == \E w \in Workers : request[w] # Idle /\ request[w].list = l

\* A request reads or writes list l now.
Touch(l) == shared' = IF Busy(l) THEN shared \cup {l} ELSE shared

Begin(w, r) ==
    /\ request[w] = Idle
    /\ request' = [request EXCEPT ![w] = r]
    /\ Touch(r.list)
    /\ UNCHANGED entry

\* Every two entries of list l in the table rows have different orders.
Distinct(rows, l) ==
    \A i, j \in Ids :
        /\ rows[i] # NoRow /\ rows[j] # NoRow
        /\ rows[i].list = l /\ rows[j].list = l /\ rows[i].order = rows[j].order
        => i = j

\* The request of worker w is the only one under way on its list.
Alone(w) ==
    \A x \in Workers \ {w} : request[x] # Idle => request[x].list # request[w].list

\* The request of worker w ends with the table rows; the list is settled when
\* it was the last one and left no equal orders.
End(w, rows) ==
    /\ request' = [request EXCEPT ![w] = Idle]
    /\ entry' = rows
    /\ shared' = IF Alone(w) /\ Distinct(rows, request[w].list)
                 THEN shared \ {request[w].list} ELSE shared
    /\ UNCHANGED used

-----------------------------------------------------------------------------
(* report_annex_new, section_new, scope_category_new.                      *)

\* Variant: the new entry gets as order how many there are.
ReadForNew_Counts(w, l, i) ==
    /\ i \notin used
    /\ used' = used \cup {i}
    /\ Begin(w, SaveOf(l, i, Cardinality(Members(l))))

\* order_by("-order").first(): one more than the last, or zero.
ReadForNew(w, l, i) ==
    /\ i \notin used
    /\ used' = used \cup {i}
    /\ \E n \in {0} \cup {entry[j].order + 1 : j \in Members(l)} :
          /\ \A j \in Members(l) : entry[j].order < n
          /\ Begin(w, SaveOf(l, i, n))

(* report_annex_edit, section_edit, scope_category_edit.                   *)

\* The row that was read is saved with all its columns, order included.
ReadForEdit(w, i) ==
    /\ Exists(i)
    /\ Begin(w, SaveOf(entry[i].list, i, entry[i].order))
    /\ UNCHANGED used

\* save() of a new or edited entry: INSERT, or UPDATE and, when there is no
\* such row any more, INSERT.
Save(w) ==
    /\ request[w] # Idle /\ request[w].kind = "save"
    /\ LET r == request[w]
       IN  End(w, [entry EXCEPT ![r.id] = [list |-> r.list, order |-> r.order]])

(* report_annex_remove, section_remove, scope_category_remove.             *)

\* The row is read only to be deleted, unless it is a category in use.
Remove(i) ==
    /\ Exists(i)
    /\ entry' = [entry EXCEPT ![i] = NoRow]
    /\ Touch(entry[i].list)
    /\ UNCHANGED <<used, request>>

-----------------------------------------------------------------------------
(* report_annex_move, section_move, scope_category_move.                   *)

\* The entries of a's list with an order less than a's, and with a's order.
Before(a) == {c \in Members(entry[a].list) : entry[c].order < entry[a].order}
Ties(a) == {c \in Members(entry[a].list) : entry[c].order = entry[a].order}

\* In some listing by order, b comes right after a.
Neighbours(a, b) ==
    /\ Exists(a) /\ Exists(b) /\ a # b /\ entry[a].list = entry[b].list
    /\ entry[a].order <= entry[b].order
    /\ ~\E c \in Members(entry[a].list) :
          entry[a].order < entry[c].order /\ entry[c].order < entry[b].order

MoveOf(a, n, b, m) ==
    [kind |-> "move", list |-> entry[a].list, id |-> a, order |-> n,
     other |-> b, otherOrder |-> m]

\* a is moved down or b is moved up.  The two orders are exchanged, and equal
\* ones are replaced by the positions p and p + 1 the two are listed at.
ReadForMove(w, a, b) ==
    /\ Neighbours(a, b)
    /\ \/ /\ entry[a].order # entry[b].order
          /\ Begin(w, MoveOf(a, entry[b].order, b, entry[a].order))
       \/ /\ entry[a].order = entry[b].order
          /\ \E p \in Cardinality(Before(a)) .. Cardinality(Before(a)) + Cardinality(Ties(a)) - 2 :
                Begin(w, MoveOf(a, p + 1, b, p))
    /\ UNCHANGED used

\* bulk_update: one UPDATE of the column order of the rows still there.
Move(w) ==
    /\ request[w] # Idle /\ request[w].kind = "move"
    /\ LET r == request[w]
       IN  End(w, [i \in Ids |->
                     IF ~Exists(i) \/ i \notin {r.id, r.other} THEN entry[i]
                     ELSE [entry[i] EXCEPT !.order =
                             IF i = r.id THEN r.order ELSE r.otherOrder]])

-----------------------------------------------------------------------------
\* The worker is killed, or the database refuses the write.
Abandon(w) ==
    /\ request[w] # Idle
    /\ End(w, entry)

\* The owner of list l is deleted, and its entries with it (CASCADE).
Cascade(l) ==
    /\ entry' = [i \in Ids |-> IF i \in Members(l) THEN NoRow ELSE entry[i]]
    /\ Touch(l)
    /\ UNCHANGED <<used, request>>

Next ==
    \/ \E w \in Workers :
          \/ Save(w) \/ Move(w) \/ Abandon(w)
          \/ \E l \in Lists, i \in Ids : ReadForNew(w, l, i)
          \/ \E i \in Ids : ReadForEdit(w, i)
          \/ \E a, b \in Ids : ReadForMove(w, a, b)
    \/ \E i \in Ids : Remove(i)
    \/ \E l \in Lists : Cascade(l)

Spec == Init /\ [][Next]_vars

-----------------------------------------------------------------------------
(* Correctness.                                                            *)

\* The values of the table and of what workers hold.
TypeOK ==
    /\ entry \in [Ids -> Entry \cup {NoRow}]
    /\ used \subseteq Ids
    /\ request \in [Workers -> Request \cup {Idle}]
    /\ shared \subseteq Lists

\* The order columns, read as an order of the entries of list l.
Listing(l) ==
    [items |-> Members(l),
     before |-> {p \in Members(l) \X Members(l) : entry[p[1]].order < entry[p[2]].order}]

Listings == [l \in Lists |-> IF l \in shared THEN Unknown ELSE Listing(l)]

L == INSTANCE OrderedLists WITH list <- Listings

\* The views implement the lists of OrderedLists: new entries come last, a move
\* exchanges two neighbours ("Swap an annex's order with its neighbour", in
\* report_annex_move), and nothing else is reordered, with any gaps removals
\* leave, except in a list on which requests overlapped, until the last of
\* them has ended and left no equal orders.
ImplementsLists == L!Spec
=============================================================================
