---------------------------- MODULE OrderedLists ----------------------------
(***************************************************************************)
(* What a list that people reorder promises (annexes of a report, sections *)
(* of a template, scope categories): a new entry comes last, removing one  *)
(* leaves the others as they are, and a move exchanges two neighbours.     *)
(*                                                                         *)
(* A list is its entries and the order they come in, or Unknown while      *)
(* requests that overlap are changing it and until the mess is settled.    *)
(***************************************************************************)
CONSTANTS
    Lists,     \* the lists: one per report, one per template, the categories
    Ids,       \* the primary keys of entries
    Unknown    \* a list nothing is promised of

VARIABLE list

\* The relation before puts all items in one order.
IsOrder(items, before) ==
    /\ before \subseteq items \X items
    /\ \A i \in items : <<i, i>> \notin before
    /\ \A i, j \in items : i # j => <<i, j>> \in before \/ <<j, i>> \in before
    /\ \A i, j, k \in items :
          <<i, j>> \in before /\ <<j, k>> \in before => <<i, k>> \in before

Init == list = [l \in Lists |-> [items |-> {}, before |-> {}]]

Become(l, items, before) ==
    list' = [list EXCEPT ![l] = [items |-> items, before |-> before]]

Append(l, i) ==
    /\ list[l] # Unknown /\ i \notin list[l].items
    /\ Become(l, list[l].items \cup {i}, list[l].before \cup (list[l].items \X {i}))

Drop(l, i) ==
    /\ list[l] # Unknown /\ i \in list[l].items
    /\ Become(l, list[l].items \ {i},
              {p \in list[l].before : p[1] # i /\ p[2] # i})

\* a and b are neighbours, and b gets ahead of a.
Exchange(l, a, b) ==
    /\ list[l] # Unknown /\ <<a, b>> \in list[l].before
    /\ ~\E c \in list[l].items : <<a, c>> \in list[l].before /\ <<c, b>> \in list[l].before
    /\ Become(l, list[l].items, (list[l].before \ {<<a, b>>}) \cup {<<b, a>>})

\* The owner of the list is removed.
Empty(l) ==
    /\ list[l] # Unknown
    /\ Become(l, {}, {})

\* Requests on the list overlap.
Lose(l) == list' = [list EXCEPT ![l] = Unknown]

\* They are over, and the entries have an order again.
Settle(l) ==
    /\ list[l] = Unknown /\ list'[l] # Unknown
    /\ list'[l].items \subseteq Ids
    /\ IsOrder(list'[l].items, list'[l].before)
    /\ Become(l, list'[l].items, list'[l].before)

Next ==
    \E l \in {k \in Lists : list'[k] # list[k]} :
        \/ Empty(l) \/ Lose(l) \/ Settle(l)
        \/ \E i \in Ids : Append(l, i) \/ Drop(l, i)
        \/ \E a, b \in Ids : Exchange(l, a, b)

Spec == Init /\ [][Next]_list
=============================================================================
