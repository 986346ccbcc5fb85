--------------------------- MODULE TemplatesProofs --------------------------
(***************************************************************************)
(* Theorems about the lists of Ordering, for any set of lists, entries and *)
(* workers (the lists being called Templates and the entries Sections, as  *)
(* in the instance O), and about the templates whose sections they are.    *)
(***************************************************************************)
EXTENDS Templates, FiniteSetTheorems, TLAPS

\* The operators of FiniteSets mean the same in the instance of Ordering.
LEMMA SameCardinality ==
    /\ \A S : O!IsFiniteSet(S) <=> IsFiniteSet(S)
    /\ \A S : O!Cardinality(S) = Cardinality(S)
  BY DEF O!Cardinality, Cardinality, O!IsFiniteSet, IsFiniteSet

-----------------------------------------------------------------------------
(* The lists: their invariant.  A request writes what it computed from rows *)
(* it read earlier.  It writes what it should because those rows are still *)
(* the same, unless the list is shared.                                    *)

\* The entries r writes.
Writes(r) == {r.id, r.other}

\* An entry is in the list it was made for, and so is every request about it.
Homes ==
    /\ \A i \in Sections : O!Exists(i) => i \in used
    /\ \A w \in Workers : request[w] # Idle => Writes(request[w]) \subseteq used
    /\ \A w \in Workers : request[w] # Idle =>
          \A i \in Writes(request[w]) : O!Exists(i) => entry[i].list = request[w].list
    /\ \A w, x \in Workers :
          request[w] # Idle /\ request[x] # Idle =>
              \A i \in Writes(request[w]) \cap Writes(request[x]) :
                  request[w].list = request[x].list

\* What r was computed from is what the table says: r saves an entry as it is,
\* or adds one at the end, or exchanges two neighbours.
Fits(r) ==
    /\ r.kind = "save" =>
          \/ O!Exists(r.id) /\ entry[r.id] = [list |-> r.list, order |-> r.order]
          \/ ~O!Exists(r.id) /\ \A j \in O!Members(r.list) : entry[j].order < r.order
    /\ r.kind = "move" =>
          /\ O!Exists(r.id) /\ entry[r.id] = [list |-> r.list, order |-> r.otherOrder]
          /\ O!Exists(r.other) /\ entry[r.other] = [list |-> r.list, order |-> r.order]
          /\ r.otherOrder < r.order
          /\ ~\E c \in O!Members(r.list) :
                r.otherOrder < entry[c].order /\ entry[c].order < r.order

\* In a list that is not shared orders differ, and one request is under way.
Settled ==
    /\ \A l \in Templates \ shared : O!Distinct(entry, l)
    /\ \A w \in Workers : request[w] # Idle /\ request[w].list \notin shared =>
          O!Alone(w) /\ Fits(request[w])

ListsInv == O!TypeOK /\ Homes /\ Settled

-----------------------------------------------------------------------------
(* Requests.                                                               *)

\* The empty table satisfies it.
LEMMA ListsInitInv == O!OrderingAssumption /\ O!Init => ListsInv
  BY DEF O!OrderingAssumption, O!Init, ListsInv, O!TypeOK, Homes, Settled, O!Exists, O!Distinct, O!Entry, O!Request

\* What r has to satisfy when it is read.
Sound(r) ==
    /\ \A i \in Writes(r) : O!Exists(i) => entry[i].list = r.list
    /\ \A x \in Workers : request[x] # Idle =>
          \A i \in Writes(r) \cap Writes(request[x]) : request[x].list = r.list
    /\ r.list \notin shared /\ ~O!Busy(r.list) => Fits(r)

\* Beginning a request keeps the invariant.
LEMMA BeginStep ==
    ASSUME O!OrderingAssumption, ListsInv,
           NEW w \in Workers, NEW r \in O!Request, O!Begin(w, r), Sound(r),
           used' \subseteq Sections, used \subseteq used', Writes(r) \subseteq used'
    PROVE  ListsInv'
<1>1. /\ request[w] = Idle /\ request' = [request EXCEPT ![w] = r] /\ entry' = entry
      /\ shared' = IF O!Busy(r.list) THEN shared \cup {r.list} ELSE shared
  BY DEF O!Begin, O!Touch
<1>2. r # Idle /\ r.list \in Templates /\ request \in [Workers -> O!Request \cup {Idle}]
  BY DEF O!OrderingAssumption, O!Request, ListsInv, O!TypeOK
<1>3. request'[w] = r /\ \A x \in Workers \ {w} : request'[x] = request[x]
  BY <1>1, <1>2
<1>4. O!TypeOK'
  BY <1>1, <1>2 DEF ListsInv, O!TypeOK
<1>5. Homes'
  <2>1. \A i \in Sections : O!Exists(i)' => i \in used'
    BY <1>1 DEF ListsInv, Homes, O!Exists
  <2>2. ASSUME NEW x \in Workers, request'[x] # Idle
        PROVE  /\ Writes(request'[x]) \subseteq used'
               /\ \A i \in Writes(request'[x]) : O!Exists(i)' => entry'[i].list = request'[x].list
    <3>1. CASE x = w
      BY <1>1, <1>3, <3>1 DEF Sound, O!Exists
    <3>2. CASE x # w
      BY <1>1, <1>3, <2>2, <3>2 DEF ListsInv, Homes, O!Exists
    <3> QED BY <3>1, <3>2
  <2>3. ASSUME NEW x \in Workers, NEW y \in Workers, request'[x] # Idle, request'[y] # Idle,
               NEW i \in Writes(request'[x]) \cap Writes(request'[y])
        PROVE  request'[x].list = request'[y].list
    <3>1. CASE x = w /\ y = w
      BY <3>1
    <3>2. CASE x = w /\ y # w
      BY <1>3, <2>3, <3>2 DEF Sound
    <3>3. CASE x # w /\ y = w
      BY <1>3, <2>3, <3>3 DEF Sound
    <3>4. CASE x # w /\ y # w
      BY <1>3, <2>3, <3>4 DEF ListsInv, Homes
    <3> QED BY <3>1, <3>2, <3>3, <3>4
  <2> QED BY <2>1, <2>2, <2>3 DEF Homes, Writes
<1>6. Settled'
  <2>1. ASSUME NEW l \in Templates \ shared' PROVE O!Distinct(entry, l)'
    BY <1>1, <2>1 DEF ListsInv, Settled, O!Distinct
  <2>2. ASSUME NEW x \in Workers, request'[x] # Idle, request'[x].list \notin shared'
        PROVE  O!Alone(x)' /\ Fits(request[x])'
    <3>1. CASE x = w
      <4>1. ~O!Busy(r.list) /\ r.list \notin shared
        BY <1>1, <1>3, <2>2, <3>1
      <4>2. Fits(r)'
        BY <1>1, <4>1 DEF Sound, Fits, O!Exists, O!Members
      <4>3. O!Alone(w)'
        BY <1>3, <4>1 DEF O!Busy, O!Alone
      <4> QED BY <1>3, <3>1, <4>2, <4>3 DEF Fits, O!Exists, O!Members
    <3>2. CASE x # w
      <4>1. request'[x] = request[x] /\ request[x].list \notin shared
        BY <1>1, <1>3, <2>2, <3>2
      <4>2. O!Alone(x) /\ Fits(request[x])
        BY <2>2, <4>1 DEF ListsInv, Settled
      <4>3. r.list # request[x].list
        BY <1>1, <2>2, <4>1 DEF O!Busy
      <4>4. O!Alone(x)'
        BY <1>3, <4>1, <4>2, <4>3 DEF O!Alone
      <4> QED BY <1>1, <4>1, <4>2, <4>4 DEF Fits, O!Exists, O!Members
    <3> QED BY <3>1, <3>2
  <2> QED BY <2>1, <2>2 DEF Settled
<1> QED BY <1>4, <1>5, <1>6 DEF ListsInv

\* Ending a request keeps the invariant, if it writes its own entries only.
LEMMA EndStep ==
    ASSUME O!OrderingAssumption, ListsInv,
           NEW w \in Workers, request[w] # Idle,
           NEW rows \in [Sections -> O!Entry \cup {NoRow}], O!End(w, rows),
           \A i \in Sections :
              \/ rows[i] = entry[i]
              \/ /\ i \in Writes(request[w])
                 /\ rows[i] # NoRow => rows[i].list = request[w].list,
           request[w].list \notin shared => O!Distinct(rows, request[w].list)
    PROVE  ListsInv'
<1> DEFINE l == request[w].list
<1>1. /\ request' = [request EXCEPT ![w] = Idle] /\ entry' = rows /\ used' = used
      /\ shared' = IF O!Alone(w) /\ O!Distinct(rows, l) THEN shared \ {l} ELSE shared
  BY DEF O!End
<1>2. request \in [Workers -> O!Request \cup {Idle}] /\ l \in Templates
  BY DEF ListsInv, O!TypeOK, O!Request
<1>3. request'[w] = Idle /\ \A x \in Workers \ {w} : request'[x] = request[x]
  BY <1>1, <1>2
<1>4. O!TypeOK'
  BY <1>1, <1>2 DEF ListsInv, O!TypeOK
<1>5. ASSUME NEW i \in Sections, rows[i] # entry[i]
      PROVE  /\ i \in Writes(request[w]) /\ i \in used
             /\ rows[i] # NoRow => rows[i].list = l
             /\ entry[i] # NoRow => entry[i].list = l
  BY <1>5 DEF ListsInv, Homes, O!Exists
<1>6. Homes'
  <2>1. \A i \in Sections : O!Exists(i)' => i \in used'
    BY <1>1, <1>5 DEF ListsInv, Homes, O!Exists
  <2>2. ASSUME NEW x \in Workers, request'[x] # Idle
        PROVE  /\ Writes(request'[x]) \subseteq used'
               /\ \A i \in Writes(request'[x]) : O!Exists(i)' => entry'[i].list = request'[x].list
    <3>1. x # w /\ request'[x] = request[x]
      BY <1>3, <2>2
    <3>2. Writes(request[x]) \subseteq used
      BY <2>2, <3>1 DEF ListsInv, Homes
    <3>3. ASSUME NEW i \in Writes(request[x]), rows[i] # NoRow
          PROVE  rows[i].list = request[x].list
      <4>1. i \in Sections
        BY <3>2 DEF ListsInv, O!TypeOK
      <4>2. CASE rows[i] = entry[i]
        BY <2>2, <3>1, <3>3, <4>2 DEF ListsInv, Homes, O!Exists
      <4>3. CASE rows[i] # entry[i]
        BY <1>5, <2>2, <3>1, <3>3, <4>1, <4>3 DEF ListsInv, Homes
      <4> QED BY <4>2, <4>3
    <3> QED BY <1>1, <3>1, <3>2, <3>3 DEF O!Exists
  <2>3. \A x, y \in Workers :
           request'[x] # Idle /\ request'[y] # Idle =>
               \A i \in Writes(request'[x]) \cap Writes(request'[y]) :
                   request'[x].list = request'[y].list
    BY <1>3 DEF ListsInv, Homes
  <2> QED BY <2>1, <2>2, <2>3 DEF Homes, Writes
<1>7. ASSUME NEW k \in Templates, k # l, NEW i \in Sections
      PROVE  /\ rows[i] # NoRow /\ rows[i].list = k <=> entry[i] # NoRow /\ entry[i].list = k
             /\ rows[i] # NoRow /\ rows[i].list = k => rows[i] = entry[i]
  BY <1>5, <1>7
<1>8. Settled'
  <2>1. ASSUME NEW k \in Templates \ shared' PROVE O!Distinct(entry, k)'
    <3>1. CASE k = l
      BY <1>1, <2>1, <3>1 DEF O!Distinct
    <3>2. CASE k # l
      <4>1. O!Distinct(entry, k)
        BY <1>1, <2>1, <3>2 DEF ListsInv, Settled
      <4> QED BY <1>1, <1>7, <3>2, <4>1 DEF O!Distinct
    <3> QED BY <3>1, <3>2
  <2>2. ASSUME NEW x \in Workers, request'[x] # Idle, request'[x].list \notin shared'
        PROVE  O!Alone(x)' /\ Fits(request[x])'
    <3>1. x # w /\ request'[x] = request[x] /\ request[x] # Idle /\ request[x] \in O!Request
      BY <1>2, <1>3, <2>2
    <3>2. request[x].list # l /\ request[x].list \notin shared
      BY <1>1, <2>2, <3>1 DEF ListsInv, Settled, O!Alone
    <3>3. O!Alone(x) /\ Fits(request[x])
      BY <3>1, <3>2 DEF ListsInv, Settled
    <3>4. O!Alone(x)'
      BY <1>3, <3>1, <3>3 DEF O!Alone
    <3>5. request[x].list \in Templates /\ request[x].id \in Sections /\ request[x].other \in Sections
      BY <3>1 DEF O!Request
    <3>6. entry'[request[x].id] = entry[request[x].id] /\ entry'[request[x].other] = entry[request[x].other]
      BY <1>1, <1>5, <3>1, <3>2, <3>5 DEF ListsInv, Homes, Writes
    <3>7. O!Members(request[x].list)' = O!Members(request[x].list)
      BY <1>1, <1>7, <3>2, <3>5 DEF O!Members, O!Exists
    <3>8. \A j \in O!Members(request[x].list) : entry'[j] = entry[j]
      BY <1>1, <1>7, <3>2, <3>5 DEF O!Members, O!Exists
    <3>9. Fits(request[x])'
      BY <3>1, <3>3, <3>6, <3>7, <3>8 DEF Fits, O!Exists
    <3> QED BY <3>4, <3>9
  <2> QED BY <2>1, <2>2 DEF Settled
<1> QED BY <1>4, <1>6, <1>8 DEF ListsInv

\* Removing entries of one list keeps the invariant.
LEMMA RemoveStep ==
    ASSUME ListsInv, NEW l \in Templates, NEW D \in SUBSET O!Members(l),
           entry' = [i \in Sections |-> IF i \in D THEN NoRow ELSE entry[i]],
           O!Touch(l), UNCHANGED <<used, request>>
    PROVE  ListsInv'
<1>1. shared' = IF O!Busy(l) THEN shared \cup {l} ELSE shared
  BY DEF O!Touch
<1>2. O!TypeOK'
  BY <1>1 DEF ListsInv, O!TypeOK
<1>3. \A i \in Sections : O!Exists(i)' => O!Exists(i) /\ entry'[i] = entry[i]
  BY DEF O!Exists
<1>4. Homes'
  BY <1>3 DEF ListsInv, Homes, O!TypeOK
<1>5. ASSUME NEW k \in Templates \ shared' PROVE O!Distinct(entry, k)'
  <2>1. O!Distinct(entry, k)
    BY <1>1, <1>5 DEF ListsInv, Settled
  <2> QED BY <1>3, <2>1 DEF O!Distinct, O!Exists
<1>6. ASSUME NEW w \in Workers, request'[w] # Idle, request'[w].list \notin shared'
      PROVE  O!Alone(w)' /\ Fits(request[w])'
  <2>1. request[w].list # l /\ request[w].list \notin shared /\ request[w] \in O!Request
    BY <1>1, <1>6 DEF O!Busy, ListsInv, O!TypeOK
  <2>2. O!Alone(w) /\ Fits(request[w])
    BY <1>6, <2>1 DEF ListsInv, Settled
  <2>3. \A i \in Writes(request[w]) : i \notin D
    BY <1>6, <2>1 DEF ListsInv, Homes, O!Members
  <2>4. /\ O!Members(request[w].list)' = O!Members(request[w].list)
        /\ \A j \in O!Members(request[w].list) : entry'[j] = entry[j]
    BY <2>1 DEF O!Members, O!Exists
  <2>5. request[w].id \in Sections /\ request[w].other \in Sections
    BY <2>1 DEF O!Request
  <2>6. entry'[request[w].id] = entry[request[w].id] /\ entry'[request[w].other] = entry[request[w].other]
    BY <2>3, <2>5 DEF Writes
  <2>7. Fits(request[w])'
    BY <2>2, <2>4, <2>6 DEF Fits, O!Exists
  <2> QED BY <2>2, <2>7 DEF O!Alone
<1> QED BY <1>2, <1>4, <1>5, <1>6 DEF ListsInv, Settled

-----------------------------------------------------------------------------
(* The actions.                                                            *)

\* The request that each read begins is well formed and sound.
LEMMA NewSound ==
    ASSUME ListsInv, NEW w \in Workers, NEW l \in Templates, NEW i \in Sections, i \notin used,
           NEW n \in Nat, \A j \in O!Members(l) : entry[j].order < n
    PROVE  O!SaveOf(l, i, n) \in O!Request /\ Sound(O!SaveOf(l, i, n))
  BY DEF O!SaveOf, O!Request, Sound, Writes, Fits, ListsInv, Homes, O!Exists

\* So is that of an edit: it saves what it has read.
LEMMA EditSound ==
    ASSUME ListsInv, NEW i \in Sections, O!Exists(i)
    PROVE  /\ O!SaveOf(entry[i].list, i, entry[i].order) \in O!Request
           /\ Sound(O!SaveOf(entry[i].list, i, entry[i].order))
<1>1. entry[i] \in O!Entry
  BY DEF ListsInv, O!TypeOK, O!Exists
<1> QED BY <1>1 DEF O!SaveOf, O!Request, O!Entry, Sound, Writes, Fits, ListsInv, Homes, O!Exists

\* In a list that is not shared a move exchanges the orders it has read.
LEMMA MoveSound ==
    ASSUME ListsInv, NEW a \in Sections, NEW b \in Sections, O!Neighbours(a, b), NEW n \in Nat, NEW m \in Nat,
           \/ n = entry[b].order /\ m = entry[a].order /\ n # m
           \/ entry[a].order = entry[b].order
    PROVE  O!MoveOf(a, n, b, m) \in O!Request /\ Sound(O!MoveOf(a, n, b, m))
<1> DEFINE r == O!MoveOf(a, n, b, m)
<1>1. /\ entry[a] \in O!Entry /\ entry[b] \in O!Entry /\ entry[a].list = entry[b].list
      /\ O!Exists(a) /\ O!Exists(b) /\ a # b
  BY DEF ListsInv, O!TypeOK, O!Exists, O!Neighbours
<1>2. r \in O!Request /\ r.list = entry[a].list /\ r.list \in Templates
  BY <1>1 DEF O!MoveOf, O!Request, O!Entry
<1>3. \A i \in Writes(r) : O!Exists(i) /\ entry[i].list = r.list
  BY <1>1 DEF O!MoveOf, Writes
<1>4. \A x \in Workers : request[x] # Idle =>
          \A i \in Writes(r) \cap Writes(request[x]) : request[x].list = r.list
  BY <1>3 DEF ListsInv, Homes
<1>5. ASSUME r.list \notin shared PROVE Fits(r)
  <2>1. O!Distinct(entry, r.list)
    BY <1>2, <1>5 DEF ListsInv, Settled
  <2>2. entry[a].order # entry[b].order
    BY <1>1, <1>2, <2>1 DEF O!Distinct, O!Exists
  <2> QED BY <1>1, <2>2 DEF O!MoveOf, Fits, O!Neighbours, O!Entry
<1> QED BY <1>2, <1>3, <1>4, <1>5 DEF Sound

\* The positions of equal orders are numbers.
LEMMA Positions ==
    ASSUME O!OrderingAssumption, NEW a \in Sections,
           NEW p \in Cardinality(O!Before(a)) .. Cardinality(O!Before(a)) + Cardinality(O!Ties(a)) - 2
    PROVE  p \in Nat
<1>1. O!Before(a) \in SUBSET Sections /\ O!Ties(a) \in SUBSET Sections
  BY DEF O!Before, O!Ties, O!Members
<1>2. IsFiniteSet(O!Before(a)) /\ IsFiniteSet(O!Ties(a))
  BY <1>1, FS_Subset, SameCardinality DEF O!OrderingAssumption
<1>3. Cardinality(O!Before(a)) \in Nat /\ Cardinality(O!Ties(a)) \in Nat
  BY <1>2, FS_CardinalityType
<1> QED BY <1>3

\* What a save leaves of the table.
Saved(w) ==
    LET r == request[w]
    IN  [entry EXCEPT ![r.id] = [list |-> r.list, order |-> r.order]]

\* What a move leaves of it.
Moved(w) ==
    LET r == request[w]
    IN  [i \in Sections |->
           IF ~O!Exists(i) \/ i \notin {r.id, r.other} THEN entry[i]
           ELSE [entry[i] EXCEPT !.order = IF i = r.id THEN r.order ELSE r.otherOrder]]

\* Every entry of the request's list has the order it had, the new entry comes
\* last, and the orders of two neighbours are exchanged.
LEMMA SavedFits ==
    ASSUME ListsInv, NEW w \in Workers, request[w] # Idle, request[w].kind = "save"
    PROVE  /\ Saved(w) \in [Sections -> O!Entry \cup {NoRow}]
           /\ \A i \in Sections : i # request[w].id => Saved(w)[i] = entry[i]
           /\ Saved(w)[request[w].id] = [list |-> request[w].list, order |-> request[w].order]
           /\ request[w].list \notin shared => O!Distinct(Saved(w), request[w].list)
<1> DEFINE r == request[w]
<1>1. r \in O!Request /\ entry \in [Sections -> O!Entry \cup {NoRow}]
  BY DEF ListsInv, O!TypeOK
<1>2. r.id \in Sections /\ [list |-> r.list, order |-> r.order] \in O!Entry
  BY <1>1 DEF O!Request, O!Entry
<1>3. /\ Saved(w) \in [Sections -> O!Entry \cup {NoRow}]
      /\ \A i \in Sections : i # r.id => Saved(w)[i] = entry[i]
      /\ Saved(w)[r.id] = [list |-> r.list, order |-> r.order]
  BY <1>1, <1>2 DEF Saved
<1>4. ASSUME r.list \notin shared PROVE O!Distinct(Saved(w), r.list)
  <2>1. O!Distinct(entry, r.list) /\ Fits(r)
    BY <1>1, <1>4 DEF ListsInv, Settled, O!Request
  <2>2. CASE O!Exists(r.id) /\ entry[r.id] = [list |-> r.list, order |-> r.order]
    BY <1>2, <1>3, <2>1, <2>2 DEF O!Distinct, O!Exists
  <2>3. CASE ~O!Exists(r.id) /\ \A j \in O!Members(r.list) : entry[j].order < r.order
    <3>1. \A j \in Sections : entry[j] # NoRow /\ entry[j].list = r.list =>
             entry[j].order < r.order /\ entry[j].order \in Nat
      BY <1>1, <2>3 DEF O!Members, O!Exists, O!Entry
    <3>2. r.order \in Nat
      BY <1>1 DEF O!Request
    <3> QED BY <1>2, <1>3, <2>1, <3>1, <3>2 DEF O!Distinct
  <2> QED BY <2>1, <2>2, <2>3 DEF Fits
<1> QED BY <1>3, <1>4

\* The table after a move.
LEMMA MovedFits ==
    ASSUME O!OrderingAssumption, ListsInv,
           NEW w \in Workers, request[w] # Idle, request[w].kind = "move"
    PROVE  /\ Moved(w) \in [Sections -> O!Entry \cup {NoRow}]
           /\ \A i \in Sections : Moved(w)[i] # NoRow <=> O!Exists(i)
           /\ \A i \in Sections : O!Exists(i) => Moved(w)[i].list = entry[i].list
           /\ \A i \in Sections \ Writes(request[w]) : Moved(w)[i] = entry[i]
           /\ request[w].list \notin shared =>
                 /\ Moved(w)[request[w].id].order = request[w].order
                 /\ Moved(w)[request[w].other].order = request[w].otherOrder
                 /\ O!Distinct(Moved(w), request[w].list)
<1> DEFINE r == request[w]
<1>1. r \in O!Request /\ entry \in [Sections -> O!Entry \cup {NoRow}]
  BY DEF ListsInv, O!TypeOK
<1>2. r.id \in Sections /\ r.other \in Sections /\ r.order \in Nat /\ r.otherOrder \in Nat
  BY <1>1 DEF O!Request
<1>3. ASSUME NEW i \in Sections, O!Exists(i)
      PROVE  /\ Moved(w)[i] \in O!Entry /\ Moved(w)[i].list = entry[i].list
             /\ Moved(w)[i].order = IF i = r.id THEN r.order
                                    ELSE IF i = r.other THEN r.otherOrder ELSE entry[i].order
             /\ i \notin Writes(r) => Moved(w)[i] = entry[i]
  BY <1>1, <1>2, <1>3 DEF Moved, O!Exists, O!Entry, Writes
<1>4. ASSUME NEW i \in Sections, ~O!Exists(i) PROVE Moved(w)[i] = entry[i] /\ Moved(w)[i] = NoRow
  BY <1>4 DEF Moved, O!Exists
<1>5. NoRow \notin O!Entry
  BY DEF O!OrderingAssumption, O!Entry
<1>6. Moved(w) \in [Sections -> O!Entry \cup {NoRow}]
  BY <1>3, <1>4 DEF Moved
<1>7. \A i \in Sections : Moved(w)[i] # NoRow <=> O!Exists(i)
  BY <1>3, <1>4, <1>5
<1>8. \A i \in Sections \ Writes(r) : Moved(w)[i] = entry[i]
  BY <1>3, <1>4
<1>9. ASSUME r.list \notin shared
      PROVE  /\ Moved(w)[r.id].order = r.order /\ Moved(w)[r.other].order = r.otherOrder
             /\ O!Distinct(Moved(w), r.list)
  <2>1. O!Distinct(entry, r.list) /\ Fits(r)
    BY <1>1, <1>9 DEF ListsInv, Settled, O!Request
  <2>2. /\ O!Exists(r.id) /\ entry[r.id] = [list |-> r.list, order |-> r.otherOrder]
        /\ O!Exists(r.other) /\ entry[r.other] = [list |-> r.list, order |-> r.order]
        /\ r.otherOrder < r.order
    BY <2>1 DEF Fits
  <2>3. r.id # r.other
    BY <1>2, <2>2
  <2>4. Moved(w)[r.id].order = r.order /\ Moved(w)[r.other].order = r.otherOrder
    BY <1>2, <1>3, <2>2, <2>3
  <2>5. ASSUME NEW i \in Sections, NEW j \in Sections, Moved(w)[i] # NoRow, Moved(w)[j] # NoRow,
               Moved(w)[i].list = r.list, Moved(w)[j].list = r.list,
               Moved(w)[i].order = Moved(w)[j].order
        PROVE  i = j
    <3>1. O!Exists(i) /\ O!Exists(j) /\ entry[i].list = r.list /\ entry[j].list = r.list
      BY <1>3, <1>7, <2>5
    <3> QED BY <1>2, <1>3, <2>1, <2>2, <2>3, <2>5, <3>1 DEF O!Distinct, O!Exists
  <2> QED BY <2>4, <2>5 DEF O!Distinct
<1> QED BY <1>3, <1>6, <1>7, <1>8, <1>9

\* A move begins with two orders it has read, or with two positions.
LEMMA MoveReads ==
    ASSUME O!OrderingAssumption, ListsInv,
           NEW w \in Workers, NEW a \in Sections, NEW b \in Sections, O!ReadForMove(w, a, b)
    PROVE  /\ O!Neighbours(a, b)
           /\ \E n, m \in Nat :
                 /\ O!Begin(w, O!MoveOf(a, n, b, m))
                 /\ \/ n = entry[b].order /\ m = entry[a].order /\ n # m
                    \/ entry[a].order = entry[b].order
<1>1. O!Neighbours(a, b)
  BY DEF O!ReadForMove
<1>2. CASE /\ entry[a].order # entry[b].order
           /\ O!Begin(w, O!MoveOf(a, entry[b].order, b, entry[a].order))
  BY <1>1, <1>2 DEF O!Neighbours, O!Exists, ListsInv, O!TypeOK, O!Entry
<1>3. CASE /\ entry[a].order = entry[b].order
           /\ \E p \in Cardinality(O!Before(a)) .. Cardinality(O!Before(a)) + Cardinality(O!Ties(a)) - 2 :
                 O!Begin(w, O!MoveOf(a, p + 1, b, p))
  <2>1. \E n, m \in Nat : O!Begin(w, O!MoveOf(a, n, b, m))
    BY <1>3, Positions
  <2> QED BY <1>1, <1>3, <2>1
<1> QED BY <1>1, <1>2, <1>3, SameCardinality DEF O!ReadForMove

\* Every step keeps the invariant.
LEMMA ListsNextInv == O!OrderingAssumption /\ ListsInv /\ [O!Next]_(O!vars) => ListsInv'
<1> SUFFICES ASSUME O!OrderingAssumption, ListsInv, [O!Next]_(O!vars) PROVE ListsInv'
  OBVIOUS
<1>1. ASSUME NEW w \in Workers, NEW l \in Templates, NEW i \in Sections, O!ReadForNew(w, l, i)
      PROVE  ListsInv'
  <2>1. /\ i \notin used /\ used' = used \cup {i}
        /\ \E n \in Nat : (\A j \in O!Members(l) : entry[j].order < n) /\ O!Begin(w, O!SaveOf(l, i, n))
    BY <1>1 DEF O!ReadForNew, ListsInv, O!TypeOK, O!Entry, O!Members, O!Exists
  <2>2. PICK n \in Nat :
           (\A j \in O!Members(l) : entry[j].order < n) /\ O!Begin(w, O!SaveOf(l, i, n))
    BY <2>1
  <2>3. O!SaveOf(l, i, n) \in O!Request /\ Sound(O!SaveOf(l, i, n))
    BY <2>1, <2>2, NewSound
  <2>4. Writes(O!SaveOf(l, i, n)) \subseteq used' /\ used' \subseteq Sections
    BY <2>1 DEF O!SaveOf, Writes, ListsInv, O!TypeOK
  <2> QED BY <2>1, <2>2, <2>3, <2>4, BeginStep
<1>2. ASSUME NEW w \in Workers, NEW i \in Sections, O!ReadForEdit(w, i)
      PROVE  ListsInv'
  <2> DEFINE r == O!SaveOf(entry[i].list, i, entry[i].order)
  <2>1. O!Exists(i) /\ O!Begin(w, r) /\ used' = used
    BY <1>2 DEF O!ReadForEdit
  <2>2. r \in O!Request /\ Sound(r)
    BY <2>1, EditSound
  <2>3. Writes(r) \subseteq used' /\ used' \subseteq Sections
    BY <2>1 DEF O!SaveOf, Writes, ListsInv, Homes, O!TypeOK
  <2> HIDE DEF r
  <2> QED BY <2>1, <2>2, <2>3, BeginStep
<1>3. ASSUME NEW w \in Workers, NEW a \in Sections, NEW b \in Sections, O!ReadForMove(w, a, b)
      PROVE  ListsInv'
  <2>1. O!Neighbours(a, b) /\ used' = used
    BY <1>3 DEF O!ReadForMove
  <2>3. PICK n \in Nat, m \in Nat :
           /\ O!Begin(w, O!MoveOf(a, n, b, m))
           /\ \/ n = entry[b].order /\ m = entry[a].order /\ n # m
              \/ entry[a].order = entry[b].order
    BY <1>3, MoveReads
  <2>4. O!MoveOf(a, n, b, m) \in O!Request /\ Sound(O!MoveOf(a, n, b, m))
    BY <2>1, <2>3, MoveSound
  <2>5. Writes(O!MoveOf(a, n, b, m)) \subseteq used' /\ used' \subseteq Sections
    BY <2>1 DEF O!MoveOf, Writes, O!Neighbours, ListsInv, Homes, O!TypeOK
  <2> QED BY <2>1, <2>3, <2>4, <2>5, BeginStep
<1>4. ASSUME NEW w \in Workers, O!Save(w) PROVE ListsInv'
  <2>1. request[w] # Idle /\ request[w].kind = "save" /\ O!End(w, Saved(w))
    BY <1>4 DEF O!Save, Saved
  <2>2. /\ Saved(w) \in [Sections -> O!Entry \cup {NoRow}]
        /\ \A i \in Sections : i # request[w].id => Saved(w)[i] = entry[i]
        /\ Saved(w)[request[w].id] = [list |-> request[w].list, order |-> request[w].order]
        /\ request[w].list \notin shared => O!Distinct(Saved(w), request[w].list)
    BY <2>1, SavedFits
  <2>3. Saved(w)[request[w].id].list = request[w].list
    BY <2>2
  <2>4. \A i \in Sections :
           \/ Saved(w)[i] = entry[i]
           \/ /\ i \in Writes(request[w])
              /\ Saved(w)[i] # NoRow => Saved(w)[i].list = request[w].list
    BY <2>2, <2>3 DEF Writes
  <2> QED BY <2>1, <2>2, <2>4, EndStep
<1>5. ASSUME NEW w \in Workers, O!Move(w) PROVE ListsInv'
  <2>1. request[w] # Idle /\ request[w].kind = "move" /\ O!End(w, Moved(w))
    BY <1>5 DEF O!Move, Moved
  <2>2. \A i \in Sections :
           \/ Moved(w)[i] = entry[i]
           \/ /\ i \in Writes(request[w])
              /\ Moved(w)[i] # NoRow => Moved(w)[i].list = request[w].list
    BY <2>1, MovedFits DEF ListsInv, Homes
  <2> QED BY <2>1, <2>2, MovedFits, EndStep
<1>6. ASSUME NEW w \in Workers, O!Abandon(w) PROVE ListsInv'
  <2>1. request[w] # Idle /\ O!End(w, entry) /\ entry \in [Sections -> O!Entry \cup {NoRow}]
    BY <1>6 DEF O!Abandon, ListsInv, O!TypeOK
  <2>2. request[w].list \notin shared => O!Distinct(entry, request[w].list)
    BY <2>1 DEF ListsInv, Settled, O!TypeOK, O!Request
  <2> QED BY <2>1, <2>2, EndStep
<1>7. ASSUME NEW i \in Sections, O!Remove(i) PROVE ListsInv'
  <2>1. entry[i].list \in Templates /\ {i} \in SUBSET O!Members(entry[i].list)
    BY <1>7 DEF O!Remove, ListsInv, O!TypeOK, O!Entry, O!Members, O!Exists
  <2>2. entry' = [j \in Sections |-> IF j \in {i} THEN NoRow ELSE entry[j]]
    BY <1>7 DEF O!Remove, ListsInv, O!TypeOK
  <2> QED BY <1>7, <2>1, <2>2, RemoveStep DEF O!Remove
<1>8. ASSUME NEW l \in Templates, O!Cascade(l) PROVE ListsInv'
  BY <1>8, RemoveStep DEF O!Cascade
<1>9. CASE UNCHANGED O!vars
  BY <1>9 DEF O!vars, ListsInv, O!TypeOK, Homes, Settled, O!Exists, O!Members, O!Distinct, O!Alone, Fits, Writes
<1> QED BY <1>1, <1>2, <1>3, <1>4, <1>5, <1>6, <1>7, <1>8, <1>9 DEF O!Next

\* The order columns, the requests and the history keep their types, and a
\* request that shares its list with no other works on what it has read.
THEOREM ListsInvariant == O!OrderingAssumption => (O!Spec => []ListsInv)
<1> SUFFICES ASSUME O!OrderingAssumption PROVE O!Spec => []ListsInv
  OBVIOUS
<1> QED BY ListsInitInv, ListsNextInv, PTL DEF O!Spec

\* The tables and the workers' requests keep their types (reports/views.py).
THEOREM ListsTyped == O!OrderingAssumption => (O!Spec => []O!TypeOK)
<1>1. ListsInv => O!TypeOK
  BY DEF ListsInv
<1> QED BY <1>1, ListsInvariant, PTL

-----------------------------------------------------------------------------
(* The views implement the lists of OrderedLists.                          *)

\* The entries of list l in the table t, and their listing.
MembersOf(t, l) == {i \in Sections : t[i] # NoRow /\ t[i].list = l}

Less(t, i, j) == t[i].order < t[j].order

ListingOf(t, l) ==
    [items |-> MembersOf(t, l),
     before |-> {p \in MembersOf(t, l) \X MembersOf(t, l) : Less(t, p[1], p[2])}]

Table == [Sections -> O!Entry \cup {NoRow}]

\* A list is its listing in the table, unless it is shared.
LEMMA ListingsAre ==
    ASSUME NEW l \in Templates
    PROVE  /\ O!Listings[l] = IF l \in shared THEN Unknown ELSE ListingOf(entry, l)
           /\ O!Listings'[l] = IF l \in shared' THEN Unknown ELSE ListingOf(entry', l)
  BY DEF O!Listings, O!Listing, O!Members, O!Exists, ListingOf, MembersOf, Less

\* A listing is a value of its own.
LEMMA Known ==
    ASSUME O!OrderingAssumption, NEW t, NEW l PROVE ListingOf(t, l) # Unknown
<1>1. /\ MembersOf(t, l) \subseteq Sections
      /\ {p \in MembersOf(t, l) \X MembersOf(t, l) : Less(t, p[1], p[2])}
            \subseteq Sections \X Sections
  BY DEF MembersOf
<1> QED BY <1>1 DEF O!OrderingAssumption, ListingOf

\* What a listing says of its entries.
LEMMA Pairs ==
    ASSUME NEW t, NEW l
    PROVE  /\ \A i, j : <<i, j>> \in ListingOf(t, l).before <=> i \in MembersOf(t, l) /\ j \in MembersOf(t, l) /\ Less(t, i, j)
           /\ ListingOf(t, l).before \subseteq MembersOf(t, l) \X MembersOf(t, l)
           /\ ListingOf(t, l).items = MembersOf(t, l)
  BY DEF ListingOf

\* How to tell the listing of list l in the table u.
LEMMA ListingIs ==
    ASSUME NEW u, NEW l, NEW M, NEW B, M = MembersOf(u, l), B \subseteq M \X M,
           \A i, j \in M : <<i, j>> \in B <=> Less(u, i, j)
    PROVE  ListingOf(u, l) = [items |-> M, before |-> B]
<1>1. {p \in M \X M : Less(u, p[1], p[2])} = B
  OBVIOUS
<1> QED BY <1>1 DEF ListingOf

\* Tables that agree on list l have one listing of it.
LEMMA SameListing ==
    ASSUME NEW t, NEW u, NEW l,
           \A i \in Sections : t[i] # NoRow /\ t[i].list = l <=> u[i] # NoRow /\ u[i].list = l,
           \A i \in Sections : t[i] # NoRow /\ t[i].list = l => u[i].order = t[i].order
    PROVE  ListingOf(u, l) = ListingOf(t, l)
<1> DEFINE M == MembersOf(t, l)
           B == ListingOf(t, l).before
<1>1. M = MembersOf(u, l)
  BY DEF MembersOf
<1>2. \A i \in M : u[i].order = t[i].order
  BY DEF MembersOf
<1>3. \A i, j \in M : <<i, j>> \in B <=> Less(u, i, j)
  <2>1. \A i, j \in M : <<i, j>> \in B <=> Less(t, i, j)
    BY Pairs
  <2> QED BY <1>2, <2>1 DEF Less
<1>4. B \subseteq M \X M
  BY Pairs
<1>5. ListingOf(t, l) = [items |-> M, before |-> B]
  BY DEF ListingOf
<1> HIDE DEF M, B
<1> QED BY <1>1, <1>3, <1>4, <1>5, ListingIs

\* An entry with a greater order than all others comes last.
LEMMA AppendListing ==
    ASSUME NEW l \in Templates, NEW t \in Table, NEW i \in Sections, t[i] = NoRow, NEW n \in Nat,
           \A j \in MembersOf(t, l) : t[j].order < n,
           NoRow \notin O!Entry,
           NEW u, u[i] = [list |-> l, order |-> n], \A j \in Sections \ {i} : u[j] = t[j]
    PROVE  ListingOf(u, l) =
               [items |-> ListingOf(t, l).items \cup {i},
                before |-> ListingOf(t, l).before \cup (ListingOf(t, l).items \X {i})]
<1> DEFINE M == MembersOf(t, l)
           A == ListingOf(t, l).before
           N == M \cup {i}
           B == A \cup (M \X {i})
<1>1. [list |-> l, order |-> n] \in O!Entry /\ [list |-> l, order |-> n] # NoRow
  BY DEF O!Entry
<1>2. N = MembersOf(u, l) /\ i \notin M
  BY <1>1 DEF MembersOf
<1>3. \A j \in M : u[j].order = t[j].order /\ t[j].order \in Nat /\ t[j].order < n
  BY <1>2 DEF MembersOf, Table, O!Entry
<1>4. u[i].order = n
  OBVIOUS
<1>5. /\ A \subseteq M \X M
      /\ \A j, k \in M : <<j, k>> \in A <=> Less(t, j, k)
      /\ ListingOf(t, l).items = M
  BY Pairs
<1> HIDE DEF M, A
<1>6. B \subseteq N \X N
  BY <1>5
<1>7. ASSUME NEW j \in N, NEW k \in N
      PROVE  <<j, k>> \in B <=> Less(u, j, k)
  <2>1. CASE j \in M /\ k \in M
    BY <1>2, <1>3, <1>5, <2>1 DEF Less
  <2>2. CASE j \in M /\ k = i
    BY <1>2, <1>3, <1>4, <2>2 DEF Less
  <2>3. CASE j = i /\ k \in M
    BY <1>2, <1>3, <1>4, <1>5, <2>3 DEF Less
  <2>4. CASE j = i /\ k = i
    BY <1>2, <1>4, <1>5, <2>4 DEF Less
  <2> QED BY <2>1, <2>2, <2>3, <2>4
<1>8. ListingOf(u, l) = [items |-> N, before |-> B]
  <2>1. \A j, k \in N : <<j, k>> \in B <=> Less(u, j, k)
    BY <1>7
  <2>2. N = MembersOf(u, l)
    BY <1>2
  <2> HIDE DEF N, B
  <2>3. {p \in N \X N : Less(u, p[1], p[2])} = B
    BY <1>6, <2>1
  <2> QED BY <2>2, <2>3 DEF ListingOf
<1> QED BY <1>5, <1>8 DEF A

\* Without entry i the others keep their order.
LEMMA DropListing ==
    ASSUME NEW l \in Templates, NEW t \in Table, NEW i \in Sections,
           NEW u, u[i] = NoRow, \A j \in Sections \ {i} : u[j] = t[j]
    PROVE  ListingOf(u, l) =
               [items |-> ListingOf(t, l).items \ {i},
                before |-> {p \in ListingOf(t, l).before : p[1] # i /\ p[2] # i}]
<1> DEFINE M == MembersOf(t, l)
           A == ListingOf(t, l).before
           N == M \ {i}
           B == {p \in A : p[1] # i /\ p[2] # i}
<1>1. N = MembersOf(u, l) /\ \A j \in N : u[j] = t[j]
  BY DEF MembersOf
<1>2. /\ A \subseteq M \X M
      /\ \A j, k \in M : <<j, k>> \in A <=> Less(t, j, k)
      /\ ListingOf(t, l).items = M
  BY Pairs
<1> HIDE DEF M, A
<1>3. B \subseteq N \X N
  BY <1>2
<1>4. ASSUME NEW j \in N, NEW k \in N
      PROVE  <<j, k>> \in B <=> Less(u, j, k)
  BY <1>1, <1>2 DEF Less
<1>5. ListingOf(u, l) = [items |-> N, before |-> B]
  <2> HIDE DEF N, B
  <2> QED BY <1>1, <1>3, <1>4, ListingIs
<1> QED BY <1>2, <1>5 DEF A

\* Neighbours that exchange their orders change places.
LEMMA ExchangeListing ==
    ASSUME NEW l \in Templates, NEW t \in Table, NEW a \in MembersOf(t, l), NEW b \in MembersOf(t, l),
           t[a].order < t[b].order,
           ~\E c \in MembersOf(t, l) : t[a].order < t[c].order /\ t[c].order < t[b].order,
           \A i, j \in MembersOf(t, l) : t[i].order = t[j].order => i = j,
           NEW u, MembersOf(u, l) = MembersOf(t, l),
           u[a].order = t[b].order, u[b].order = t[a].order,
           \A i \in MembersOf(t, l) \ {a, b} : u[i].order = t[i].order
    PROVE  ListingOf(u, l) =
               [items |-> ListingOf(t, l).items,
                before |-> (ListingOf(t, l).before \ {<<a, b>>}) \cup {<<b, a>>}]
<1> DEFINE M == MembersOf(t, l)
           A == ListingOf(t, l).before
           B == (A \ {<<a, b>>}) \cup {<<b, a>>}
<1>1. \A i \in M : t[i].order \in Nat
  <2> SUFFICES ASSUME NEW i \in M PROVE t[i].order \in Nat
    OBVIOUS
  <2>1. t[i] \in O!Entry
    BY DEF MembersOf, Table
  <2> QED BY <2>1 DEF O!Entry
<1>2. /\ A \subseteq M \X M
      /\ \A j, k \in M : <<j, k>> \in A <=> Less(t, j, k)
      /\ ListingOf(t, l).items = M
  BY Pairs
<1> HIDE DEF M, A
<1>3. a \in M /\ b \in M /\ a # b
  BY <1>1 DEF M
<1>4. B \subseteq M \X M
  BY <1>2, <1>3
<1>5. ASSUME NEW j \in M, NEW k \in M
      PROVE  <<j, k>> \in B <=> Less(u, j, k)
  <2>1. /\ u[j].order = IF j = a THEN t[b].order ELSE IF j = b THEN t[a].order ELSE t[j].order
        /\ u[k].order = IF k = a THEN t[b].order ELSE IF k = b THEN t[a].order ELSE t[k].order
    BY <1>3 DEF M
  <2>2. <<j, k>> \in B <=> (t[j].order < t[k].order /\ ~(j = a /\ k = b)) \/ (j = b /\ k = a)
    BY <1>2 DEF Less
  <2>3. /\ t[j].order = t[a].order => j = a
        /\ t[j].order = t[b].order => j = b
        /\ t[k].order = t[a].order => k = a
        /\ t[k].order = t[b].order => k = b
        /\ ~(t[a].order < t[j].order /\ t[j].order < t[b].order)
        /\ ~(t[a].order < t[k].order /\ t[k].order < t[b].order)
    BY <1>3 DEF M
  <2> QED BY <1>1, <1>3, <2>1, <2>2, <2>3 DEF Less
<1>6. ListingOf(u, l) = [items |-> M, before |-> B]
  <2>1. M = MembersOf(u, l)
    BY DEF M
  <2>2. \A j, k \in M : <<j, k>> \in B <=> Less(u, j, k)
    BY <1>5
  <2> HIDE DEF B
  <2>3. {p \in M \X M : Less(u, p[1], p[2])} = B
    BY <1>4, <2>2
  <2> QED BY <2>1, <2>3 DEF ListingOf
<1> QED BY <1>2, <1>6 DEF A

\* Different orders put the entries of a list in an order.
LEMMA DistinctIsOrder ==
    ASSUME NEW l \in Templates, NEW t \in Table, O!Distinct(t, l)
    PROVE  O!L!IsOrder(ListingOf(t, l).items, ListingOf(t, l).before)
<1> DEFINE M == MembersOf(t, l)
           A == ListingOf(t, l).before
<1>1. \A i \in M : t[i].order \in Nat
  <2> SUFFICES ASSUME NEW i \in M PROVE t[i].order \in Nat
    OBVIOUS
  <2>1. t[i] \in O!Entry
    BY DEF MembersOf, Table
  <2> QED BY <2>1 DEF O!Entry
<1>2. \A i, j \in M : t[i].order = t[j].order => i = j
  BY DEF O!Distinct, MembersOf
<1>3. /\ A \subseteq M \X M
      /\ \A j, k \in M : <<j, k>> \in A <=> Less(t, j, k)
      /\ ListingOf(t, l).items = M
  BY Pairs
<1> HIDE DEF M, A
<1>4. O!L!IsOrder(M, A)
  <2>1. \A i \in M : <<i, i>> \notin A
    BY <1>1, <1>3 DEF Less
  <2>2. \A i, j \in M : i # j => <<i, j>> \in A \/ <<j, i>> \in A
    BY <1>1, <1>2, <1>3 DEF Less
  <2>3. \A i, j, k \in M : <<i, j>> \in A /\ <<j, k>> \in A => <<i, k>> \in A
    BY <1>1, <1>3 DEF Less
  <2> QED BY <1>3, <2>1, <2>2, <2>3 DEF O!L!IsOrder
<1> QED BY <1>3, <1>4 DEF A

\* A step that changes one list only, as OrderedLists allows.
LEMMA Lift ==
    ASSUME NEW l \in Templates, \A k \in Templates \ {l} : O!Listings'[k] = O!Listings[k],
           \/ O!Listings'[l] = O!Listings[l]
           \/ O!L!Empty(l) \/ O!L!Lose(l) \/ O!L!Settle(l)
           \/ \E i \in Sections : O!L!Append(l, i) \/ O!L!Drop(l, i)
           \/ \E a, b \in Sections : O!L!Exchange(l, a, b)
    PROVE  [O!L!Next]_(O!Listings)
<1>1. CASE O!Listings'[l] = O!Listings[l]
  <2>1. O!Listings' = O!Listings
    BY <1>1 DEF O!Listings, O!Listing, O!Members, O!Exists
  <2> QED BY <2>1
<1>2. CASE O!Listings'[l] # O!Listings[l]
  BY <1>2 DEF O!L!Next
<1> QED BY <1>1, <1>2

\* What a list becomes.
LEMMA BecomeOne ==
    ASSUME NEW l \in Templates, \A k \in Templates \ {l} : O!Listings'[k] = O!Listings[k],
           NEW v, O!Listings'[l] = v
    PROVE  O!Listings' = [O!Listings EXCEPT ![l] = v]
<1>1. O!Listings = [k \in Templates |-> O!Listings[k]]
  BY DEF O!Listings, O!Listing, O!Members, O!Exists
<1>2. O!Listings' = [k \in Templates |-> O!Listings'[k]]
  BY DEF O!Listings, O!Listing, O!Members, O!Exists
<1> QED BY <1>1, <1>2

\* A list nothing is promised of any more.
LEMMA LoseStep ==
    ASSUME NEW l \in Templates, \A k \in Templates \ {l} : O!Listings'[k] = O!Listings[k],
           O!Listings'[l] = Unknown
    PROVE  [O!L!Next]_(O!Listings)
<1>1. O!L!Lose(l)
  BY BecomeOne DEF O!L!Lose
<1> QED BY <1>1, Lift

\* Beginning a request changes no list, or loses one.
LEMMA BeginRefines ==
    ASSUME NEW w \in Workers, NEW r \in O!Request, O!Begin(w, r)
    PROVE  [O!L!Next]_(O!Listings)
<1> DEFINE l == r.list
<1>1. l \in Templates /\ entry' = entry /\ shared' = IF O!Busy(l) THEN shared \cup {l} ELSE shared
  BY DEF O!Begin, O!Touch, O!Request
<1>2. \A k \in Templates \ {l} : O!Listings'[k] = O!Listings[k]
  BY <1>1, ListingsAre
<1>3. O!Listings'[l] = O!Listings[l] \/ O!Listings'[l] = Unknown
  BY <1>1, ListingsAre
<1> HIDE DEF l
<1> QED BY <1>1, <1>2, <1>3, Lift, LoseStep

\* Ending a request changes no other list, and its own one in the given way,
\* or settles it.
LEMMA EndRefines ==
    ASSUME O!OrderingAssumption, ListsInv,
           NEW w \in Workers, request[w] # Idle, NEW rows \in Table, O!End(w, rows),
           \A i \in Sections :
              \/ rows[i] = entry[i]
              \/ /\ i \in Writes(request[w])
                 /\ rows[i] # NoRow => rows[i].list = request[w].list,
           request[w].list \notin shared /\ O!Listings'[request[w].list] # O!Listings[request[w].list] =>
              \/ \E i \in Sections : O!L!Append(request[w].list, i)
              \/ \E a, b \in Sections : O!L!Exchange(request[w].list, a, b)
    PROVE  [O!L!Next]_(O!Listings)
<1> DEFINE l == request[w].list
<1>1. /\ l \in Templates /\ entry' = rows
      /\ shared' = IF O!Alone(w) /\ O!Distinct(rows, l) THEN shared \ {l} ELSE shared
  BY DEF O!End, ListsInv, O!TypeOK, O!Request
<1>2. ASSUME NEW i \in Sections, rows[i] # entry[i]
      PROVE  /\ rows[i] # NoRow => rows[i].list = l
             /\ entry[i] # NoRow => entry[i].list = l
  BY <1>2 DEF ListsInv, Homes, O!Exists
<1>3. ASSUME NEW k \in Templates, k # l
      PROVE  O!Listings'[k] = O!Listings[k]
  <2>1. ListingOf(rows, k) = ListingOf(entry, k)
    BY <1>2, <1>3, SameListing
  <2> QED BY <1>1, <1>3, <2>1, ListingsAre
<1>4. CASE l \notin shared
  BY <1>1, <1>3, <1>4, Lift
<1>5. CASE l \in shared /\ l \in shared'
  BY <1>1, <1>3, <1>5, ListingsAre, Lift
<1>6. CASE l \in shared /\ l \notin shared'
  <2> DEFINE v == ListingOf(rows, l)
  <2>1. O!Listings[l] = Unknown /\ O!Listings'[l] = v /\ v # Unknown
    BY <1>1, <1>6, ListingsAre, Known
  <2>2. O!L!IsOrder(v.items, v.before)
    BY <1>1, <1>6, DistinctIsOrder
  <2>3. v.items \subseteq Sections /\ v = [items |-> v.items, before |-> v.before]
    BY DEF ListingOf, MembersOf
  <2> HIDE DEF v
  <2>4. O!Listings' = [O!Listings EXCEPT ![l] = v]
    BY <1>1, <1>3, <2>1, BecomeOne
  <2>5. O!L!Become(l, O!Listings'[l].items, O!Listings'[l].before)
    BY <2>1, <2>3, <2>4 DEF O!L!Become
  <2>6. O!L!Settle(l)
    BY <2>1, <2>2, <2>3, <2>5 DEF O!L!Settle
  <2> QED BY <1>1, <1>3, <2>6, Lift
<1> QED BY <1>4, <1>5, <1>6

\* A save appends, or changes nothing.
LEMMA SaveRefines ==
    ASSUME O!OrderingAssumption, ListsInv, NEW w \in Workers, O!Save(w)
    PROVE  [O!L!Next]_(O!Listings)
<1> DEFINE r == request[w]
           l == r.list
           i == r.id
           u == Saved(w)
<1>1. r # Idle /\ r.kind = "save" /\ O!End(w, u)
  BY DEF O!Save, Saved
<1>2. r \in O!Request /\ entry \in Table /\ NoRow \notin O!Entry
  BY <1>1 DEF ListsInv, O!TypeOK, Table, O!OrderingAssumption, O!Entry
<1>3. l \in Templates /\ i \in Sections /\ r.order \in Nat /\ i \in Writes(r)
  BY <1>2 DEF O!Request, Writes
<1>4. /\ u \in Table
      /\ \A j \in Sections \ {i} : u[j] = entry[j]
      /\ u[i] = [list |-> l, order |-> r.order]
  BY <1>1, SavedFits DEF Table
<1>5. u[i].list = l
  BY <1>4
<1> HIDE DEF u
<1>6. \A j \in Sections : u[j] = entry[j] \/ (j \in Writes(r) /\ (u[j] # NoRow => u[j].list = l))
  BY <1>3, <1>4, <1>5
<1>7. \A j \in Sections : O!Exists(j) /\ j \in Writes(r) => entry[j].list = l
  BY <1>1 DEF ListsInv, Homes
<1>8. l \notin shared => Fits(r)
  BY <1>1 DEF ListsInv, Settled
<1>9. entry' = u /\ shared' \subseteq shared /\ \A k \in Templates \ {l} : k \in shared' <=> k \in shared
  BY <1>1 DEF O!End
<1> HIDE DEF r, l, i
<1>10. ASSUME l \notin shared, O!Listings'[l] # O!Listings[l]
       PROVE  O!L!Append(l, i)
  <2>1. O!Listings[l] = ListingOf(entry, l) /\ O!Listings'[l] = ListingOf(u, l)
    BY <1>3, <1>9, <1>10, ListingsAre
  <2>2. entry[i] = NoRow /\ \A j \in MembersOf(entry, l) : entry[j].order < r.order
    <3>1. CASE O!Exists(i) /\ entry[i] = [list |-> l, order |-> r.order]
      <4>1. \A j \in Sections : u[j] = entry[j]
        BY <1>4, <3>1
      <4>2. ListingOf(u, l) = ListingOf(entry, l)
        BY <4>1, SameListing
      <4> QED BY <1>10, <2>1, <4>2
    <3>2. CASE ~O!Exists(i) /\ \A j \in O!Members(l) : entry[j].order < r.order
      BY <3>2 DEF O!Exists, O!Members, MembersOf
    <3> QED BY <1>1, <1>8, <1>10, <3>1, <3>2 DEF Fits, l, i
  <2>3. ListingOf(u, l) =
           [items |-> ListingOf(entry, l).items \cup {i},
            before |-> ListingOf(entry, l).before \cup (ListingOf(entry, l).items \X {i})]
    BY <1>2, <1>3, <1>4, <2>2, AppendListing
  <2>4. i \notin ListingOf(entry, l).items
    BY <2>2 DEF ListingOf, MembersOf
  <2>5. ListingOf(entry, l) # Unknown
    BY Known
  <2>6. ASSUME NEW k \in Templates \ {l} PROVE O!Listings'[k] = O!Listings[k]
    <3>1. \A j \in Sections \ {i} : u[j] = entry[j]
      BY <1>4
    <3>2. ListingOf(u, k) = ListingOf(entry, k)
      BY <1>5, <2>2, <3>1, SameListing
    <3> QED BY <1>9, <3>2, ListingsAre
  <2>7. O!Listings' = [O!Listings EXCEPT ![l] = ListingOf(u, l)]
    BY <1>3, <2>1, <2>6, BecomeOne
  <2> QED BY <2>1, <2>3, <2>4, <2>5, <2>7 DEF O!L!Append, O!L!Become
<1> QED BY <1>1, <1>2, <1>3, <1>4, <1>6, <1>10, EndRefines DEF r, l

\* A move exchanges two neighbours.
LEMMA MoveRefines ==
    ASSUME O!OrderingAssumption, ListsInv, NEW w \in Workers, O!Move(w)
    PROVE  [O!L!Next]_(O!Listings)
<1> DEFINE r == request[w]
           l == r.list
           a == r.id
           b == r.other
           u == Moved(w)
<1>1. r # Idle /\ r.kind = "move" /\ O!End(w, u)
  BY DEF O!Move, Moved
<1>2. r \in O!Request /\ entry \in Table
  BY <1>1 DEF ListsInv, O!TypeOK, Table
<1>3. l \in Templates /\ a \in Sections /\ b \in Sections /\ r.order \in Nat /\ r.otherOrder \in Nat
  BY <1>2 DEF O!Request
<1>4. /\ u \in Table
      /\ \A j \in Sections : u[j] # NoRow <=> O!Exists(j)
      /\ \A j \in Sections : O!Exists(j) => u[j].list = entry[j].list
      /\ \A j \in Sections \ Writes(r) : u[j] = entry[j]
      /\ l \notin shared => u[a].order = r.order /\ u[b].order = r.otherOrder
  BY <1>1, MovedFits DEF Table
<1>5. \A j \in Sections : O!Exists(j) /\ j \in Writes(r) => entry[j].list = l
  BY <1>1 DEF ListsInv, Homes
<1>6. l \notin shared => Fits(r) /\ O!Distinct(entry, l)
  BY <1>1, <1>3 DEF ListsInv, Settled
<1>7. entry' = u /\ shared' \subseteq shared /\ \A k \in Templates \ {l} : k \in shared' <=> k \in shared
  BY <1>1 DEF O!End
<1>8. Writes(r) = {a, b}
  BY DEF Writes
<1> HIDE DEF r, l, a, b, u
<1>9. \A j \in Sections : u[j] = entry[j] \/ (j \in Writes(r) /\ (u[j] # NoRow => u[j].list = l))
  BY <1>4, <1>5
<1>10. ASSUME l \notin shared, O!Listings'[l] # O!Listings[l]
       PROVE  O!L!Exchange(l, a, b)
  <2>1. O!Listings[l] = ListingOf(entry, l) /\ O!Listings'[l] = ListingOf(u, l)
    BY <1>3, <1>7, <1>10, ListingsAre
  <2>2. /\ O!Exists(a) /\ entry[a] = [list |-> l, order |-> r.otherOrder]
        /\ O!Exists(b) /\ entry[b] = [list |-> l, order |-> r.order]
        /\ r.otherOrder < r.order
        /\ ~\E c \in O!Members(l) : r.otherOrder < entry[c].order /\ entry[c].order < r.order
    BY <1>1, <1>6, <1>10 DEF Fits, l, a, b
  <2>3. /\ a \in MembersOf(entry, l) /\ b \in MembersOf(entry, l)
        /\ entry[a].order = r.otherOrder /\ entry[b].order = r.order
    BY <1>3, <2>2 DEF MembersOf, O!Exists
  <2>4. ~\E c \in MembersOf(entry, l) : entry[a].order < entry[c].order /\ entry[c].order < entry[b].order
    BY <2>2, <2>3 DEF O!Members, MembersOf, O!Exists
  <2>5. MembersOf(u, l) = MembersOf(entry, l)
    BY <1>4 DEF MembersOf, O!Exists
  <2>6. \A j \in MembersOf(entry, l) \ {a, b} : u[j].order = entry[j].order
    BY <1>4, <1>8 DEF MembersOf
  <2>7. \A j, k \in MembersOf(entry, l) : entry[j].order = entry[k].order => j = k
    BY <1>6, <1>10 DEF MembersOf, O!Distinct
  <2>8. ListingOf(u, l) =
           [items |-> ListingOf(entry, l).items,
            before |-> (ListingOf(entry, l).before \ {<<a, b>>}) \cup {<<b, a>>}]
    BY <1>2, <1>3, <1>4, <1>10, <2>2, <2>3, <2>4, <2>5, <2>6, <2>7, ExchangeListing
  <2>9. <<a, b>> \in ListingOf(entry, l).before
    BY <2>2, <2>3, Pairs DEF Less
  <2>10. ~\E c \in ListingOf(entry, l).items :
              <<a, c>> \in ListingOf(entry, l).before /\ <<c, b>> \in ListingOf(entry, l).before
    BY <2>4, Pairs DEF Less
  <2>11. ListingOf(entry, l) # Unknown
    BY Known
  <2>12. ASSUME NEW k \in Templates \ {l} PROVE O!Listings'[k] = O!Listings[k]
    <3>1. ListingOf(u, k) = ListingOf(entry, k)
      BY <1>4, <1>5, <1>9, SameListing DEF O!Exists
    <3> QED BY <1>7, <3>1, ListingsAre
  <2>13. O!Listings' = [O!Listings EXCEPT ![l] = ListingOf(u, l)]
    BY <1>3, <2>1, <2>12, BecomeOne
  <2> QED BY <2>1, <2>8, <2>9, <2>10, <2>11, <2>13 DEF O!L!Exchange, O!L!Become
<1> QED BY <1>1, <1>2, <1>3, <1>4, <1>9, <1>10, EndRefines DEF r, l

\* A request given up changes nothing.
LEMMA AbandonRefines ==
    ASSUME O!OrderingAssumption, ListsInv, NEW w \in Workers, O!Abandon(w)
    PROVE  [O!L!Next]_(O!Listings)
<1> DEFINE l == request[w].list
<1>1. request[w] # Idle /\ O!End(w, entry) /\ entry \in Table /\ l \in Templates
  BY DEF O!Abandon, ListsInv, O!TypeOK, Table, O!Request
<1>2. l \notin shared => O!Listings'[l] = O!Listings[l]
  BY <1>1, ListingsAre DEF O!End
<1> QED BY <1>1, <1>2, EndRefines

\* What Remove and Cascade do to a list no request is working on, and to one
\* that some request is.
LEMMA TouchRefines ==
    ASSUME NEW l \in Templates, O!Touch(l),
           \A i \in Sections : entry'[i] = entry[i] \/ (O!Exists(i) /\ entry[i].list = l /\ entry'[i] = NoRow),
           l \notin shared /\ l \notin shared' =>
              \/ O!Listings' = [O!Listings EXCEPT ![l] = ListingOf(entry', l)] => O!L!Empty(l)
              \/ \E i \in Sections :
                    O!Listings' = [O!Listings EXCEPT ![l] = ListingOf(entry', l)] => O!L!Drop(l, i)
    PROVE  [O!L!Next]_(O!Listings)
<1>1. shared' = IF O!Busy(l) THEN shared \cup {l} ELSE shared
  BY DEF O!Touch
<1>2. ASSUME NEW k \in Templates \ {l} PROVE O!Listings'[k] = O!Listings[k]
  <2>1. ListingOf(entry', k) = ListingOf(entry, k)
    BY SameListing DEF O!Exists
  <2> QED BY <1>1, <2>1, ListingsAre
<1>3. CASE l \in shared'
  BY <1>2, <1>3, ListingsAre, LoseStep
<1>4. CASE l \notin shared'
  <2>1. l \notin shared /\ O!Listings'[l] = ListingOf(entry', l)
    BY <1>1, <1>4, ListingsAre
  <2>2. O!Listings' = [O!Listings EXCEPT ![l] = ListingOf(entry', l)]
    BY <1>2, <2>1, BecomeOne
  <2> QED BY <1>2, <1>4, <2>1, <2>2, Lift
<1> QED BY <1>3, <1>4

\* A removal drops the entry.
LEMMA RemoveRefines ==
    ASSUME O!OrderingAssumption, ListsInv, NEW i \in Sections, O!Remove(i)
    PROVE  [O!L!Next]_(O!Listings)
<1> DEFINE l == entry[i].list
<1>1. /\ l \in Templates /\ entry \in Table /\ i \in MembersOf(entry, l) /\ O!Touch(l)
      /\ entry'[i] = NoRow /\ \A j \in Sections \ {i} : entry'[j] = entry[j]
      /\ O!Exists(i)
  BY DEF O!Remove, ListsInv, O!TypeOK, O!Entry, Table, MembersOf, O!Exists
<1>2. \A j \in Sections : entry'[j] = entry[j] \/ (O!Exists(j) /\ entry[j].list = l /\ entry'[j] = NoRow)
  BY <1>1
<1> HIDE DEF l
<1>3. ASSUME l \notin shared, O!Listings' = [O!Listings EXCEPT ![l] = ListingOf(entry', l)]
      PROVE  O!L!Drop(l, i)
  <2>1. O!Listings[l] = ListingOf(entry, l)
    BY <1>1, <1>3, ListingsAre
  <2>2. ListingOf(entry', l) =
           [items |-> ListingOf(entry, l).items \ {i},
            before |-> {p \in ListingOf(entry, l).before : p[1] # i /\ p[2] # i}]
    BY <1>1, DropListing
  <2>3. i \in ListingOf(entry, l).items /\ ListingOf(entry, l) # Unknown
    BY <1>1, Known, Pairs
  <2> QED BY <1>3, <2>1, <2>2, <2>3 DEF O!L!Drop, O!L!Become
<1> QED BY <1>1, <1>2, <1>3, TouchRefines

\* With its owner a list is emptied.
LEMMA CascadeRefines ==
    ASSUME O!OrderingAssumption, ListsInv, NEW l \in Templates, O!Cascade(l)
    PROVE  [O!L!Next]_(O!Listings)
<1>1. /\ O!Touch(l)
      /\ \A i \in Sections : entry'[i] = IF O!Exists(i) /\ entry[i].list = l THEN NoRow ELSE entry[i]
  BY DEF O!Cascade, O!Members
<1>2. \A i \in Sections : entry'[i] = entry[i] \/ (O!Exists(i) /\ entry[i].list = l /\ entry'[i] = NoRow)
  BY <1>1
<1>3. ASSUME l \notin shared, O!Listings' = [O!Listings EXCEPT ![l] = ListingOf(entry', l)]
      PROVE  O!L!Empty(l)
  <2>1. MembersOf(entry', l) = {}
    BY <1>1 DEF MembersOf, O!Exists
  <2>2. ListingOf(entry', l) = [items |-> {}, before |-> {}]
    BY <2>1, ListingIs
  <2>3. O!Listings[l] # Unknown
    BY <1>3, ListingsAre, Known
  <2> QED BY <1>3, <2>2, <2>3 DEF O!L!Empty, O!L!Become
<1> QED BY <1>1, <1>2, <1>3, TouchRefines

\* Every step of the views is a step of OrderedLists, or changes no list.
LEMMA NextRefines == O!OrderingAssumption /\ ListsInv /\ [O!Next]_(O!vars) => [O!L!Next]_(O!Listings)
<1> SUFFICES ASSUME O!OrderingAssumption, ListsInv, [O!Next]_(O!vars) PROVE [O!L!Next]_(O!Listings)
  OBVIOUS
<1>1. ASSUME NEW w \in Workers, NEW l \in Templates, NEW i \in Sections, O!ReadForNew(w, l, i)
      PROVE  [O!L!Next]_(O!Listings)
  <2>1. PICK n \in Nat :
           (\A j \in O!Members(l) : entry[j].order < n) /\ O!Begin(w, O!SaveOf(l, i, n)) /\ i \notin used
    BY <1>1 DEF O!ReadForNew, ListsInv, O!TypeOK, O!Entry, O!Members, O!Exists
  <2>2. O!SaveOf(l, i, n) \in O!Request
    BY <2>1, NewSound
  <2> QED BY <2>1, <2>2, BeginRefines
<1>2. ASSUME NEW w \in Workers, NEW i \in Sections, O!ReadForEdit(w, i)
      PROVE  [O!L!Next]_(O!Listings)
  <2> DEFINE r == O!SaveOf(entry[i].list, i, entry[i].order)
  <2>1. O!Begin(w, r) /\ r \in O!Request
    BY <1>2, EditSound DEF O!ReadForEdit
  <2> HIDE DEF r
  <2> QED BY <2>1, BeginRefines
<1>3. ASSUME NEW w \in Workers, NEW a \in Sections, NEW b \in Sections, O!ReadForMove(w, a, b)
      PROVE  [O!L!Next]_(O!Listings)
  <2>1. PICK n \in Nat, m \in Nat : O!Begin(w, O!MoveOf(a, n, b, m)) /\ O!Neighbours(a, b)
    BY <1>3, MoveReads
  <2>2. entry[a].list \in Templates
    BY <2>1 DEF O!Neighbours, O!Exists, ListsInv, O!TypeOK, O!Entry
  <2>3. O!MoveOf(a, n, b, m) \in O!Request
    BY <2>2 DEF O!MoveOf, O!Request
  <2> QED BY <2>1, <2>3, BeginRefines
<1>4. ASSUME NEW w \in Workers, O!Save(w) PROVE [O!L!Next]_(O!Listings)
  BY <1>4, SaveRefines
<1>5. ASSUME NEW w \in Workers, O!Move(w) PROVE [O!L!Next]_(O!Listings)
  BY <1>5, MoveRefines
<1>6. ASSUME NEW w \in Workers, O!Abandon(w) PROVE [O!L!Next]_(O!Listings)
  BY <1>6, AbandonRefines
<1>7. ASSUME NEW i \in Sections, O!Remove(i) PROVE [O!L!Next]_(O!Listings)
  BY <1>7, RemoveRefines
<1>8. ASSUME NEW l \in Templates, O!Cascade(l) PROVE [O!L!Next]_(O!Listings)
  BY <1>8, CascadeRefines
<1>9. CASE UNCHANGED O!vars
  BY <1>9 DEF O!vars, O!Listings, O!Listing, O!Members, O!Exists
<1> QED BY <1>1, <1>2, <1>3, <1>4, <1>5, <1>6, <1>7, <1>8, <1>9 DEF O!Next

\* No list has entries at first.
LEMMA InitRefines == O!Init => O!L!Init
<1> SUFFICES ASSUME O!Init PROVE O!Listings = [l \in Templates |-> [items |-> {}, before |-> {}]]
  BY DEF O!L!Init
<1>1. \A l \in Templates : MembersOf(entry, l) = {}
  BY DEF O!Init, MembersOf
<1>2. \A l \in Templates : ListingOf(entry, l) = [items |-> {}, before |-> {}]
  BY <1>1, ListingIs
<1>3. \A l \in Templates : O!Listings[l] = [items |-> {}, before |-> {}]
  <2> SUFFICES ASSUME NEW l \in Templates PROVE O!Listings[l] = [items |-> {}, before |-> {}]
    OBVIOUS
  <2>1. l \notin shared
    BY DEF O!Init
  <2> QED BY <1>2, <2>1, ListingsAre
<1>4. O!Listings = [l \in Templates |-> O!Listings[l]]
  BY DEF O!Listings, O!Listing, O!Members, O!Exists
<1> QED BY <1>3, <1>4

\* The views that reorder annexes, sections and categories (reports/views.py)
\* implement the lists of OrderedLists, whatever the requests on other lists do
\* meanwhile, and except for a list on which requests overlap.
THEOREM ListsRefine == O!OrderingAssumption => (O!Spec => O!ImplementsLists)
<1> SUFFICES ASSUME O!OrderingAssumption PROVE O!Spec => O!ImplementsLists
  OBVIOUS
<1> QED BY ListsInvariant, InitRefines, NextRefines, PTL DEF O!Spec, O!ImplementsLists, O!L!Spec

-----------------------------------------------------------------------------
(* The inductive invariant, but for the sections.                          *)

\* The values of the tables of templates and reports and of the tasks.
Typed ==
    /\ flag \in [Templates -> Flags]
    /\ uses \in [Reports -> Templates \cup {NoTemplate}]
    /\ task \in [Workers -> Task \cup {Idle}]
    /\ mishaps \subseteq {"dropped", "killed"}

\* Of requests that have yet to clear the other flags, all have set a flag
\* that is still there and there is one only, or the default may be lost.
Clearing ==
    "dropped" \notin mishaps =>
        /\ \A w \in Workers : At(w, "clear") => flag[task[w].template] = "default"
        /\ \A w, x \in Workers : At(w, "clear") /\ At(x, "clear") => w = x

\* A removal that meets a report that uses the template, or is about to, has
\* met such a request.
Meeting ==
    \A w \in Workers : At(w, "remove") =>
        /\ \A x \in Workers : AtOn(x, "choose", task[w].template) => task[w].met
        /\ \A r \in Reports : uses[r] = task[w].template => task[w].met

IInv == Typed /\ AtMostOneDefault /\ DefaultKept /\ Clearing /\ Meeting

-----------------------------------------------------------------------------
(* Tasks.                                                                  *)

\* The step of a task says what it holds.
LEMMA Tasks ==
    ASSUME Typed, NEW w \in Workers, task[w] # Idle
    PROVE  /\ task[w].step \in {"save", "clear", "remove", "choose"}
           /\ At(w, "save") => task[w].template \in Templates /\ task[w].flag \in {"default", "plain"}
           /\ At(w, "clear") => task[w].template \in Templates
           /\ At(w, "remove") => task[w].template \in Templates /\ task[w].met \in BOOLEAN
           /\ At(w, "choose") => /\ task[w].template \in Templates \cup {NoTemplate}
                                 /\ task[w].report \in Reports
  BY DEF Typed, Task, At

\* Tasks are no task.
LEMMA NotIdle == \A t \in Task : t # Idle
  BY TemplatesAssumption DEF Task

-----------------------------------------------------------------------------
(* The actions.                                                            *)

\* The initial states satisfy it.
LEMMA InitInv == Init => IInv
<1> SUFFICES ASSUME Init PROVE IInv
  OBVIOUS
<1>1. PICK t \in Templates :
         flag = [u \in Templates |-> IF u = t THEN "default" ELSE "unmade"]
  BY DEF Init
<1>2. Typed
  BY <1>1 DEF Init, Typed, Flags
<1>3. flag[t] = "default" /\ \A u \in Templates : flag[u] = "default" => u = t
  BY <1>1
<1>4. AtMostOneDefault /\ DefaultKept
  BY <1>3 DEF AtMostOneDefault, DefaultKept, Defaults
<1>5. Clearing /\ Meeting
  BY DEF Init, Clearing, Meeting, At, AtOn
<1> QED BY <1>2, <1>4, <1>5 DEF IInv

\* What does not touch templates, reports and tasks.
LEMMA RestStep == IInv /\ UNCHANGED rest => IInv'
  BY DEF IInv, rest, Typed, AtMostOneDefault, DefaultKept, Clearing, Meeting, Defaults, At, AtOn

\* A worker takes on a task.
LEMMA ReadTemplateStep ==
    ASSUME IInv, NEW w \in Workers, NEW t \in Templates, NEW d \in {"default", "plain"},
           ReadTemplate(w, t, d)
    PROVE  IInv'
<1> DEFINE k == [step |-> "save", template |-> t, flag |-> d]
<1>1. /\ task[w] = Idle /\ task' = [task EXCEPT ![w] = k]
      /\ flag' = flag /\ uses' = uses /\ mishaps' = mishaps
  BY DEF ReadTemplate, Begin, Free
<1>2. k \in Task /\ k.step = "save"
  BY DEF Task
<1> HIDE DEF k
<1>3. task'[w] = k /\ \A x \in Workers \ {w} : task'[x] = task[x]
  BY <1>1 DEF IInv, Typed
<1>4. Typed'
  BY <1>1, <1>2 DEF IInv, Typed
<1>5. AtMostOneDefault' /\ DefaultKept'
  BY <1>1, <1>3 DEF IInv, AtMostOneDefault, DefaultKept, Defaults, At, AtOn
<1>6. Clearing' /\ Meeting'
  BY <1>1, <1>2, <1>3 DEF IInv, Clearing, Meeting, At, AtOn
<1> QED BY <1>4, <1>5, <1>6 DEF IInv

\* A removal begins when no report uses the template.
LEMMA ReadForRemoveStep ==
    ASSUME IInv, NEW w \in Workers, NEW t \in Templates, ReadForRemove(w, t)
    PROVE  IInv'
<1> DEFINE k == Removal(w, t)
<1>1. /\ task[w] = Idle /\ task' = [task EXCEPT ![w] = k]
      /\ flag' = flag /\ uses' = uses /\ mishaps' = mishaps
      /\ \A r \in Reports : uses[r] # t
  BY DEF ReadForRemove, Begin, Free
<1>2. /\ k \in Task /\ k.step = "remove" /\ k.template = t
      /\ k.met <=> \E x \in Workers : AtOn(x, "choose", t)
  BY DEF Task, Removal
<1> HIDE DEF k
<1>3. task'[w] = k /\ \A x \in Workers \ {w} : task'[x] = task[x]
  BY <1>1 DEF IInv, Typed
<1>4. Typed'
  BY <1>1, <1>2 DEF IInv, Typed
<1>5. AtMostOneDefault' /\ DefaultKept'
  BY <1>1, <1>3 DEF IInv, AtMostOneDefault, DefaultKept, Defaults, At, AtOn
<1>6. Clearing'
  BY <1>1, <1>2, <1>3 DEF IInv, Clearing, At
<1>7. Meeting'
  <2>1. ASSUME NEW x \in Workers, NEW u, AtOn(x, "choose", u)'
        PROVE  x # w /\ AtOn(x, "choose", u)
    BY <1>2, <1>3, <2>1 DEF At, AtOn
  <2>2. ASSUME NEW x \in Workers, At(x, "remove")'
        PROVE  /\ \A y \in Workers : AtOn(y, "choose", task[x].template)' => task'[x].met
               /\ \A r \in Reports : uses'[r] = task'[x].template => task'[x].met
    <3>1. CASE x = w
      BY <1>1, <1>2, <1>3, <2>1, <3>1 DEF AtOn
    <3>2. CASE x # w
      <4>1. At(x, "remove") /\ task'[x] = task[x]
        BY <1>3, <2>2, <3>2 DEF At
      <4>2. \A y \in Workers : AtOn(y, "choose", task[x].template)' => AtOn(y, "choose", task[x].template)
        BY <1>2, <1>3, <4>1 DEF At, AtOn
      <4> QED BY <1>1, <4>1, <4>2 DEF IInv, Meeting
    <3> QED BY <3>1, <3>2
  <2> QED BY <2>2 DEF Meeting
<1> QED BY <1>4, <1>5, <1>6, <1>7 DEF IInv

\* A form of a report is read, and removals under way meet it.
LEMMA ReadReportStep ==
    ASSUME IInv, NEW w \in Workers, NEW r \in Reports, NEW t \in Templates \cup {NoTemplate},
           ReadReport(w, r, t)
    PROVE  IInv'
<1> DEFINE k == [step |-> "choose", template |-> t, report |-> r]
<1>1. /\ task[w] = Idle /\ flag' = flag /\ uses' = uses /\ mishaps' = mishaps
      /\ task' = [x \in Workers |->
                    CASE x = w -> k
                      [] x # w /\ AtOn(x, "remove", t) -> [task[x] EXCEPT !.met = TRUE]
                      [] OTHER -> task[x]]
  BY DEF ReadReport, Free
<1>2. k \in Task /\ k.step = "choose" /\ k.template = t
  BY DEF Task
<1> HIDE DEF k
<1>3. task'[w] = k
  BY <1>1
<1>4. ASSUME NEW x \in Workers \ {w}, ~AtOn(x, "remove", t) PROVE task'[x] = task[x]
  BY <1>1, <1>4
<1>5. ASSUME NEW x \in Workers \ {w}, AtOn(x, "remove", t)
      PROVE  /\ task'[x] \in Task /\ task'[x].step = "remove" /\ task'[x].met
             /\ task'[x].template = task[x].template
  <2>1. task'[x] = [task[x] EXCEPT !.met = TRUE]
    BY <1>1, <1>5
  <2>2. task[x] \in [step : {"remove"}, template : Templates, met : BOOLEAN]
    BY <1>5 DEF IInv, Typed, Task, AtOn, At
  <2> QED BY <2>1, <2>2 DEF Task
<1>6. Typed'
  <2>1. \A x \in Workers : task'[x] \in Task \cup {Idle}
    BY <1>2, <1>3, <1>4, <1>5 DEF IInv, Typed
  <2> QED BY <1>1, <2>1 DEF IInv, Typed
<1>7. ASSUME NEW x \in Workers
      PROVE  /\ At(x, "clear")' <=> At(x, "clear")
             /\ At(x, "clear") => task'[x].template = task[x].template
  BY <1>1, <1>2, <1>3, <1>4, <1>5 DEF At, AtOn
<1>8. AtMostOneDefault' /\ DefaultKept' /\ Clearing'
  BY <1>1, <1>7 DEF IInv, AtMostOneDefault, DefaultKept, Clearing, Defaults, AtOn
<1>9. Meeting'
  <2> SUFFICES ASSUME NEW x \in Workers, At(x, "remove")', ~task'[x].met
               PROVE  /\ \A y \in Workers : ~AtOn(y, "choose", task[x].template)'
                      /\ \A q \in Reports : uses'[q] # task'[x].template
    BY DEF Meeting
  <2>1. x # w /\ ~AtOn(x, "remove", t) /\ task'[x] = task[x]
    BY <1>2, <1>3, <1>4, <1>5 DEF At
  <2>2. At(x, "remove") /\ task[x].template # t
    BY <2>1 DEF At, AtOn
  <2>3. \A y \in Workers : AtOn(y, "choose", task[x].template)' => AtOn(y, "choose", task[x].template)
    BY <1>2, <1>3, <1>4, <1>5, <2>1, <2>2 DEF At, AtOn
  <2> QED BY <1>1, <2>1, <2>2, <2>3 DEF IInv, Meeting
<1> QED BY <1>6, <1>8, <1>9 DEF IInv

\* A worker saves a template.
LEMMA SaveTemplateStep ==
    ASSUME IInv, NEW w \in Workers, SaveTemplate(w)
    PROVE  IInv'
<1> DEFINE t == task[w].template
           d == task[w].flag
           k == IF d = "default" THEN [step |-> "clear", template |-> t] ELSE Idle
<1>1. /\ task[w] # Idle /\ t \in Templates /\ d \in {"default", "plain"} /\ At(w, "save")
  BY Tasks DEF IInv, SaveTemplate, At
<1>2. /\ flag' = [flag EXCEPT ![t] = d] /\ task' = [task EXCEPT ![w] = k] /\ uses' = uses
      /\ mishaps' = IF d = "default"
                    THEN (mishaps \ {"dropped"}) \cup
                         IF {x \in Workers \ {w} : At(x, "clear")} = {} THEN {} ELSE {"dropped"}
                    ELSE mishaps \cup IF flag[t] = "default" THEN {"dropped"} ELSE {}
  BY DEF SaveTemplate
<1>3. /\ d = "default" => k \in Task /\ k.step = "clear" /\ k.template = t
      /\ d = "plain" => k = Idle
  BY <1>1 DEF Task
<1> HIDE DEF t, d, k
<1>4. /\ task'[w] = k /\ \A x \in Workers \ {w} : task'[x] = task[x]
      /\ flag'[t] = d /\ \A u \in Templates \ {t} : flag'[u] = flag[u]
  BY <1>1, <1>2 DEF IInv, Typed
<1>5. Typed'
  <2>1. mishaps' \subseteq {"dropped", "killed"}
    BY <1>2 DEF IInv, Typed
  <2> QED BY <1>1, <1>2, <1>3, <2>1 DEF IInv, Typed, Flags
<1>6. "killed" \in mishaps => "killed" \in mishaps'
  BY <1>1, <1>2
<1>7. ASSUME NEW x \in Workers
      PROVE  /\ At(x, "clear")' <=> IF x = w THEN d = "default" ELSE At(x, "clear")
             /\ x # w => task'[x] = task[x]
             /\ d = "default" => task'[w].template = t
  BY <1>1, <1>3, <1>4, NotIdle DEF At
<1>8. ~At(w, "clear")
  BY <1>1 DEF At
<1>9. AtMostOneDefault'
  <2> SUFFICES ASSUME NEW u \in Templates, NEW v \in Templates, u # v,
                      flag'[u] = "default", flag'[v] = "default", "killed" \notin mishaps'
               PROVE  \E x \in Workers : AtOn(x, "clear", u)' \/ AtOn(x, "clear", v)'
    BY DEF AtMostOneDefault, Defaults
  <2>1. CASE u = t \/ v = t
    BY <1>4, <1>7, <2>1 DEF AtOn
  <2>2. CASE u # t /\ v # t
    <3>1. flag[u] = "default" /\ flag[v] = "default" /\ "killed" \notin mishaps
      BY <1>4, <1>6, <2>2
    <3>2. PICK x \in Workers : AtOn(x, "clear", u) \/ AtOn(x, "clear", v)
      BY <3>1 DEF IInv, AtMostOneDefault, Defaults
    <3>3. x # w
      BY <1>8, <3>2 DEF AtOn
    <3> QED BY <1>7, <3>2, <3>3 DEF AtOn
  <2> QED BY <2>1, <2>2
<1>10. DefaultKept'
  <2>1. CASE d = "default"
    BY <1>1, <1>4, <2>1 DEF DefaultKept, Defaults
  <2>2. CASE d = "plain" /\ flag[t] = "default"
    BY <1>2, <2>2 DEF DefaultKept
  <2>3. CASE d = "plain" /\ flag[t] # "default"
    BY <1>2, <1>4, <2>3 DEF IInv, DefaultKept, Defaults
  <2> QED BY <1>1, <2>1, <2>2, <2>3
<1>11. Clearing'
  <2>1. CASE d = "default"
    <3>1. "dropped" \notin mishaps' => \A x \in Workers \ {w} : ~At(x, "clear")
      BY <1>2, <2>1
    <3> QED BY <1>4, <1>7, <2>1, <3>1 DEF Clearing
  <2>2. CASE d = "plain"
    <3> SUFFICES ASSUME "dropped" \notin mishaps' PROVE Clearing'
      BY DEF Clearing
    <3>1. "dropped" \notin mishaps /\ flag[t] # "default"
      BY <1>2, <2>2
    <3>2. ASSUME NEW x \in Workers, At(x, "clear")' PROVE flag'[task'[x].template] = "default"
      <4>1. x # w /\ At(x, "clear") /\ task'[x] = task[x]
        BY <1>7, <2>2, <3>2
      <4>2. flag[task[x].template] = "default" /\ task[x].template \in Templates
        BY <3>1, <4>1, Tasks DEF IInv, Clearing, At
      <4> QED BY <1>4, <3>1, <4>1, <4>2
    <3>3. \A x, y \in Workers : At(x, "clear")' /\ At(y, "clear")' => x = y
      BY <1>7, <2>2, <3>1 DEF IInv, Clearing
    <3> QED BY <3>2, <3>3 DEF Clearing
  <2> QED BY <1>1, <2>1, <2>2
<1>12. Meeting'
  BY <1>1, <1>2, <1>3, <1>4 DEF IInv, Meeting, At, AtOn
<1> QED BY <1>5, <1>9, <1>10, <1>11, <1>12 DEF IInv

\* A worker clears the other flags.
LEMMA ClearOthersStep ==
    ASSUME IInv, NEW w \in Workers, ClearOthers(w)
    PROVE  IInv'
<1> DEFINE t == task[w].template
<1>1. At(w, "clear") /\ t \in Templates
  BY Tasks DEF IInv, ClearOthers, At
<1>2. /\ flag' = [u \in Templates |-> IF flag[u] = "default" /\ u # t THEN "plain" ELSE flag[u]]
      /\ task' = [task EXCEPT ![w] = Idle] /\ uses' = uses /\ mishaps' = mishaps \ {"killed"}
  BY DEF ClearOthers, End
<1> HIDE DEF t
<1>3. task'[w] = Idle /\ \A x \in Workers \ {w} : task'[x] = task[x]
  BY <1>2 DEF IInv, Typed
<1>4. \A u \in Templates : flag'[u] = "default" <=> u = t /\ flag[u] = "default"
  BY <1>2
<1>5. Typed'
  BY <1>2 DEF IInv, Typed, Flags
<1>6. AtMostOneDefault'
  BY <1>4 DEF AtMostOneDefault, Defaults
<1>7. ASSUME "dropped" \notin mishaps'
      PROVE  flag'[t] = "default" /\ \A x \in Workers : ~At(x, "clear")'
  <2>1. flag[t] = "default" /\ \A x \in Workers : At(x, "clear") => x = w
    BY <1>1, <1>2, <1>7 DEF IInv, Clearing, t
  <2> QED BY <1>1, <1>3, <1>4, <2>1 DEF At
<1>8. DefaultKept' /\ Clearing'
  BY <1>1, <1>7 DEF DefaultKept, Clearing, Defaults
<1>9. Meeting'
  BY <1>2, <1>3 DEF IInv, Meeting, At, AtOn
<1> QED BY <1>5, <1>6, <1>8, <1>9 DEF IInv

\* A worker removes a template.
LEMMA RemoveTemplateStep ==
    ASSUME IInv, NEW w \in Workers, RemoveTemplate(w)
    PROVE  IInv'
<1> DEFINE t == task[w].template
<1>1. At(w, "remove") /\ t \in Templates
  BY Tasks DEF IInv, RemoveTemplate, At
<1>2. /\ flag' = [flag EXCEPT ![t] = IF Exists(t) THEN "removed" ELSE @]
      /\ uses' = [r \in Reports |-> IF uses[r] = t THEN NoTemplate ELSE uses[r]]
      /\ task' = [task EXCEPT ![w] = Idle]
      /\ mishaps' = mishaps \cup IF flag[t] = "default" THEN {"dropped"} ELSE {}
  BY DEF RemoveTemplate, End
<1> HIDE DEF t
<1>3. task'[w] = Idle /\ \A x \in Workers \ {w} : task'[x] = task[x]
  BY <1>2 DEF IInv, Typed
<1>4. \A u \in Templates : flag'[u] = "default" <=> u # t /\ flag[u] = "default"
  BY <1>1, <1>2 DEF IInv, Typed, Exists
<1>5. Typed'
  BY <1>1, <1>2 DEF IInv, Typed, Flags
<1>6. \A x \in Workers : At(x, "clear")' <=> At(x, "clear") /\ x # w
  BY <1>1, <1>3 DEF At
<1>7. AtMostOneDefault'
  <2> SUFFICES ASSUME NEW u \in Templates, NEW v \in Templates, u # v,
                      flag'[u] = "default", flag'[v] = "default", "killed" \notin mishaps'
               PROVE  \E x \in Workers : AtOn(x, "clear", u)' \/ AtOn(x, "clear", v)'
    BY DEF AtMostOneDefault, Defaults
  <2>1. PICK x \in Workers : AtOn(x, "clear", u) \/ AtOn(x, "clear", v)
    BY <1>2, <1>4 DEF IInv, AtMostOneDefault, Defaults
  <2>2. x # w
    BY <1>1, <2>1 DEF At, AtOn
  <2> QED BY <1>3, <2>1, <2>2 DEF At, AtOn
<1>8. DefaultKept'
  BY <1>2, <1>4 DEF IInv, DefaultKept, Defaults
<1>9. Clearing'
  <2> SUFFICES ASSUME "dropped" \notin mishaps' PROVE Clearing'
    BY DEF Clearing
  <2>1. "dropped" \notin mishaps /\ flag[t] # "default"
    BY <1>2
  <2>2. \A x \in Workers : At(x, "clear") =>
           flag[task[x].template] = "default" /\ task[x].template \in Templates
    BY <2>1, Tasks DEF IInv, Clearing, At
  <2>3. \A x, y \in Workers : At(x, "clear") /\ At(y, "clear") => x = y
    BY <2>1 DEF IInv, Clearing
  <2>4. ASSUME NEW x \in Workers, At(x, "clear")' PROVE flag'[task'[x].template] = "default"
    <3>1. At(x, "clear") /\ task'[x] = task[x]
      BY <1>3, <1>6, <2>4
    <3> QED BY <1>4, <2>1, <2>2, <3>1
  <2> QED BY <1>6, <2>3, <2>4 DEF Clearing
<1>10. Meeting'
  <2> SUFFICES ASSUME NEW x \in Workers, At(x, "remove")', ~task'[x].met
               PROVE  /\ \A y \in Workers : ~AtOn(y, "choose", task[x].template)'
                      /\ \A q \in Reports : uses'[q] # task'[x].template
    BY DEF Meeting
  <2>1. x # w /\ At(x, "remove") /\ task'[x] = task[x]
    BY <1>3 DEF At
  <2>2. task[x].template # NoTemplate
    BY <2>1, Tasks, TemplatesAssumption DEF IInv, At
  <2>3. \A y \in Workers : AtOn(y, "choose", task[x].template)' => AtOn(y, "choose", task[x].template)
    BY <1>3, <2>1 DEF At, AtOn
  <2> QED BY <1>2, <2>1, <2>2, <2>3 DEF IInv, Meeting
<1> QED BY <1>5, <1>7, <1>8, <1>9, <1>10 DEF IInv

\* A worker saves a report.
LEMMA SaveReportStep ==
    ASSUME IInv, NEW w \in Workers, SaveReport(w)
    PROVE  IInv'
<1> DEFINE t == task[w].template
<1>1. At(w, "choose") /\ t \in Templates \cup {NoTemplate} /\ task[w].report \in Reports
  BY Tasks DEF IInv, SaveReport, At
<1>2. /\ uses' = [uses EXCEPT ![task[w].report] = t] \/ uses' = uses
      /\ task' = [task EXCEPT ![w] = Idle] /\ flag' = flag /\ mishaps' = mishaps
  BY DEF SaveReport, End
<1> HIDE DEF t
<1>3. task'[w] = Idle /\ \A x \in Workers \ {w} : task'[x] = task[x]
  BY <1>2 DEF IInv, Typed
<1>4. Typed'
  BY <1>1, <1>2 DEF IInv, Typed
<1>5. \A x \in Workers : /\ At(x, "clear")' <=> At(x, "clear")
                         /\ At(x, "clear") => task'[x] = task[x]
  BY <1>1, <1>3 DEF At
<1>6. AtMostOneDefault' /\ DefaultKept' /\ Clearing'
  BY <1>2, <1>5 DEF IInv, AtMostOneDefault, DefaultKept, Clearing, Defaults, AtOn
<1>7. Meeting'
  <2> SUFFICES ASSUME NEW x \in Workers, At(x, "remove")', ~task'[x].met
               PROVE  /\ \A y \in Workers : ~AtOn(y, "choose", task[x].template)'
                      /\ \A q \in Reports : uses'[q] # task'[x].template
    BY DEF Meeting
  <2>1. x # w /\ At(x, "remove") /\ task'[x] = task[x]
    BY <1>3 DEF At
  <2>2. t # task[x].template
    BY <1>1, <2>1 DEF IInv, Meeting, At, AtOn, t
  <2>3. \A y \in Workers : AtOn(y, "choose", task[x].template)' => AtOn(y, "choose", task[x].template)
    BY <1>3, <2>1 DEF At, AtOn
  <2>4. \A q \in Reports : uses'[q] = uses[q] \/ uses'[q] = t
    BY <1>2 DEF IInv, Typed
  <2> QED BY <2>1, <2>2, <2>3, <2>4 DEF IInv, Meeting
<1> QED BY <1>4, <1>6, <1>7 DEF IInv

\* A worker is killed.
LEMMA CrashStep ==
    ASSUME IInv, NEW w \in Workers, Crash(w)
    PROVE  IInv'
<1>1. /\ task' = [task EXCEPT ![w] = Idle] /\ flag' = flag /\ uses' = uses
      /\ mishaps' = mishaps \cup IF At(w, "clear") THEN {"killed"} ELSE {}
  BY DEF Crash, End
<1>2. task'[w] = Idle /\ \A x \in Workers \ {w} : task'[x] = task[x]
  BY <1>1 DEF IInv, Typed
<1>3. Typed'
  BY <1>1 DEF IInv, Typed
<1>4. ASSUME NEW x \in Workers, NEW step
      PROVE  At(x, step)' <=> At(x, step) /\ x # w
  BY <1>2 DEF At
<1>5. AtMostOneDefault'
  BY <1>1, <1>2, <1>4 DEF IInv, AtMostOneDefault, Defaults, AtOn
<1>6. DefaultKept' /\ Clearing'
  BY <1>1, <1>2, <1>4 DEF IInv, DefaultKept, Clearing, Defaults
<1>7. Meeting'
  BY <1>1, <1>2, <1>4 DEF IInv, Meeting, AtOn
<1> QED BY <1>3, <1>5, <1>6, <1>7 DEF IInv

\* Every step keeps the invariant.
LEMMA NextInv == IInv /\ [Next]_vars => IInv'
<1> SUFFICES ASSUME IInv, [Next]_vars PROVE IInv'
  OBVIOUS
<1>1. ASSUME EditSections \/ SaveSections \/ UNCHANGED vars PROVE IInv'
  BY <1>1, RestStep DEF EditSections, SaveSections, vars, rest
<1>2. ASSUME NEW w \in Workers,
             \/ SaveTemplate(w) \/ ClearOthers(w) \/ RemoveTemplate(w)
             \/ SaveReport(w) \/ Crash(w)
      PROVE  IInv'
  BY <1>2, SaveTemplateStep, ClearOthersStep, RemoveTemplateStep, SaveReportStep, CrashStep
<1>3. ASSUME NEW w \in Workers, NEW t \in Templates,
             ReadForRemove(w, t) \/ \E d \in {"default", "plain"} : ReadTemplate(w, t, d)
      PROVE  IInv'
  BY <1>3, ReadForRemoveStep, ReadTemplateStep
<1>4. ASSUME NEW w \in Workers, NEW r \in Reports, NEW t \in Templates \cup {NoTemplate},
             ReadReport(w, r, t)
      PROVE  IInv'
  BY <1>4, ReadReportStep
<1> QED BY <1>1, <1>2, <1>3, <1>4 DEF Next

\* The invariant holds in every reachable state.
THEOREM Invariant == Spec => []IInv
  BY InitInv, NextInv, PTL DEF Spec

\* ReportTemplate.save: however many templates are saved at once, two of them
\* are the default only while one of the saves has yet to clear the other's
\* flag, or after one was killed there.
THEOREM DefaultUnique == Spec => []AtMostOneDefault
<1>1. IInv => AtMostOneDefault
  BY DEF IInv
<1> QED BY <1>1, Invariant, PTL

\* The default template goes only with a save or a removal that takes it away
\* or with saves that overlap (ReportTemplate.save, template_remove).
THEOREM DefaultStays == Spec => []DefaultKept
<1>1. IInv => DefaultKept
  BY DEF IInv
<1> QED BY <1>1, Invariant, PTL

-----------------------------------------------------------------------------
(* What a report uses.                                                     *)

\* A step takes a template from a report only as template_remove promises.
LEMMA TemplateStep ==
    ASSUME IInv, [Next]_vars, NEW r \in Reports, uses[r] # NoTemplate, uses'[r] # uses[r]
    PROVE  \E w \in Workers :
              \/ AtOn(w, "remove", uses[r]) /\ task[w].met
              \/ At(w, "choose") /\ task[w].report = r /\ task'[w] = Idle
<1>1. ASSUME NEW w \in Workers, RemoveTemplate(w)
      PROVE  AtOn(w, "remove", uses[r]) /\ task[w].met
  BY <1>1 DEF RemoveTemplate, IInv, Meeting, AtOn
<1>2. ASSUME NEW w \in Workers, SaveReport(w)
      PROVE  At(w, "choose") /\ task[w].report = r /\ task'[w] = Idle
  BY <1>2 DEF SaveReport, End, IInv, Typed
<1>3. uses' # uses
  OBVIOUS
<1>4. ~EditSections /\ ~SaveSections /\ ~UNCHANGED vars
  BY <1>3 DEF EditSections, SaveSections, rest, vars
<1>5. \A w \in Workers : ~SaveTemplate(w) /\ ~ClearOthers(w) /\ ~Crash(w)
  BY <1>3 DEF SaveTemplate, ClearOthers, Crash
<1>6. \A w \in Workers : \A t : ~ReadForRemove(w, t) /\ \A d : ~ReadTemplate(w, t, d)
  BY <1>3 DEF ReadForRemove, ReadTemplate, Begin
<1>7. \A w \in Workers : \A q, t : ~ReadReport(w, q, t)
  BY <1>3 DEF ReadReport
<1> QED BY <1>1, <1>2, <1>4, <1>5, <1>6, <1>7 DEF Next

\* template_remove: a report keeps its template until it is saved with another
\* one, unless a save of that report meets the removal.
THEOREM TemplateStays == Spec => TemplateKeptUnlessMet
<1>1. IInv /\ [Next]_vars =>
          [\A r \in Reports :
              uses[r] # NoTemplate /\ uses'[r] # uses[r] =>
                  \E w \in Workers :
                     \/ AtOn(w, "remove", uses[r]) /\ task[w].met
                     \/ At(w, "choose") /\ task[w].report = r /\ task'[w] = Idle]_vars
  BY TemplateStep
<1> QED BY <1>1, Invariant, PTL DEF Spec, TemplateKeptUnlessMet

-----------------------------------------------------------------------------
(* The sections are lists of Ordering.                                     *)

\* There are no sections at first.
LEMMA SectionsInit == Init => O!Init
  BY DEF Init

\* A step edits, saves or removes sections as Ordering does, or not at all.
LEMMA SectionsStep == Typed /\ [Next]_vars => [O!Next]_(O!vars)
<1> SUFFICES ASSUME Typed, [Next]_vars PROVE O!Next \/ UNCHANGED sections
  BY DEF O!vars, sections
<1>1. CASE EditSections
  BY <1>1 DEF EditSections, O!Next
<1>2. CASE SaveSections
  BY <1>2 DEF SaveSections, O!Next
<1>3. ASSUME NEW w \in Workers, RemoveTemplate(w)
      PROVE  O!Next
  <2>1. O!Cascade(task[w].template) /\ task[w].template \in Templates
    BY <1>3, Tasks DEF RemoveTemplate, At
  <2> QED BY <2>1 DEF O!Next
<1>4. ASSUME NEW w \in Workers, SaveTemplate(w) \/ ClearOthers(w) \/ SaveReport(w) \/ Crash(w)
      PROVE  UNCHANGED sections
  BY <1>4 DEF SaveTemplate, ClearOthers, SaveReport, Crash
<1>5. ASSUME NEW w \in Workers, NEW t \in Templates,
             ReadForRemove(w, t) \/ \E d \in {"default", "plain"} : ReadTemplate(w, t, d)
      PROVE  UNCHANGED sections
  BY <1>5 DEF ReadForRemove, ReadTemplate, Begin
<1>6. ASSUME NEW w \in Workers, NEW r \in Reports, NEW t \in Templates \cup {NoTemplate},
             ReadReport(w, r, t)
      PROVE  UNCHANGED sections
  BY <1>6 DEF ReadReport
<1>7. CASE UNCHANGED vars
  BY <1>7 DEF vars
<1> QED BY <1>1, <1>2, <1>3, <1>4, <1>5, <1>6, <1>7 DEF Next

\* Templates with their sections implement Ordering.
LEMMA SectionsSpec == Spec => O!Spec
<1>1. IInv => Typed
  BY DEF IInv
<1> QED BY <1>1, SectionsInit, SectionsStep, Invariant, PTL DEF Spec, O!Spec

\* The tables and the tasks of templates, sections and reports keep their
\* types (reports/views.py).
THEOREM TypeCorrect == Spec => []TypeOK
<1>1. O!Spec => []O!TypeOK
  BY TemplatesAssumption, ListsTyped
<1>2. IInv /\ O!TypeOK => TypeOK
  BY DEF IInv, Typed, TypeOK
<1> QED BY <1>1, <1>2, Invariant, SectionsSpec, PTL

\* The sections of every template implement the lists of OrderedLists, whatever
\* becomes of templates meanwhile (section_move, template_remove).
THEOREM SectionsRefine == Spec => ImplementsLists
<1>1. O!Spec => O!ImplementsLists
  BY TemplatesAssumption, ListsRefine
<1> QED BY <1>1, SectionsSpec, PTL DEF ImplementsLists
=============================================================================
