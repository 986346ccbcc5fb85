------------------------- MODULE AttachmentsProofs --------------------------
(***************************************************************************)
(* Theorems about Attachments, for every set of findings, names, contents, *)
(* keys and workers.                                                       *)
(***************************************************************************)
EXTENDS Attachments, FiniteSetTheorems, TLAPS

-----------------------------------------------------------------------------
(* The inductive invariant.  The properties speak of rows and files; what  *)
(* keeps them is where each worker's file is, and who is on a finding.     *)

Removing == {"remove", "last", "unlink"}
Closing == {"purge", "commit"}

\* The names of the temporary file an upload of c may use.
Temps(c) == {Temp(n) : n \in Names} \cup {TempBytes(c)}

On(w, f) == job[w].finding = f

\* Under any overlap, what a worker holds suits its label: a row about to be
\* removed is the one that was read or is gone, an open file is where handle
\* says, and rows that a transaction has deleted are there for all others.
Duty(w) ==
    /\ pc[w] = "idle" <=> On(w, NoFinding)
    /\ pc[w] \in Storing => job[w].content \in Contents /\ job[w].temp \in Temps(job[w].content)
    /\ pc[w] \in Removing => job[w].content \in Contents /\ job[w].id \in Ids
    /\ pc[w] = "remove" =>
          row[job[w].id] \in {NoRow, [finding |-> job[w].finding, digest |-> job[w].content]}
    /\ handle[w] # NoPath => pc[w] = "write" /\ At(w, handle[w]) # Absent
    /\ \A i \in doomed[w] : pc[w] \in Closing /\ row[i] # NoRow /\ On(w, row[i].finding)

\* The deletions of a finding go one after the other.
Duties ==
    /\ \A w \in Workers : Duty(w)
    /\ \A w, x \in Workers :
          {pc[w], pc[x]} \subseteq Closing /\ On(x, job[w].finding) => w = x

\* Uploads of the same bytes that do not overlap: nobody inserts a second row.
Once(f) ==
    "doubled" \notin mishaps[f] =>
        /\ \A c \in Contents : \A i, j \in Attached(f, c) : i = j
        /\ \A w \in Workers : On(w, f) /\ pc[w] = "insert" => Attached(f, job[w].content) = {}
        /\ \A w, x \in Workers :
              /\ On(w, f) /\ On(x, f) /\ {pc[w], pc[x]} \subseteq Storing
              /\ job[w].content = job[x].content
              => w = x

\* Uploads that share no temporary file: each finds there what it has written,
\* or nothing.
Sole(f) ==
    "collided" \notin mishaps[f] =>
        /\ \A w, x \in Workers :
              /\ On(w, f) /\ On(x, f) /\ {pc[w], pc[x]} \subseteq Storing
              /\ job[w].temp = job[x].temp
              => w = x
        /\ \A w \in Workers : On(w, f) /\ pc[w] = "write" =>
              \/ handle[w] = job[w].temp /\ At(w, job[w].temp) = Empty
              \/ handle[w] = NoPath /\ At(w, job[w].temp) = Absent
        /\ \A w \in Workers : On(w, f) /\ pc[w] \in {"place", "keep"} =>
              At(w, job[w].temp) \in {Absent, job[w].content}
        /\ \A c \in Contents : file[f][Blob(c)] \in {Absent, c}

\* Removals and deletions that overlap nothing: what they have looked at is
\* still so.
Apart(f) ==
    "raced" \notin mishaps[f] =>
        /\ \A w, x \in Workers :
              On(w, f) /\ On(x, f) => w = x \/ {pc[w], pc[x]} \subseteq Storing
        /\ \A w \in Workers : On(w, f) =>
              /\ f \in existing
              /\ pc[w] = "unlink" => Attached(f, job[w].content) = {}
              /\ pc[w] \in Closing =>
                    \A i \in Ids : row[i] # NoRow /\ row[i].finding = f => i \in doomed[w]
              /\ pc[w] = "commit" => \A p \in Paths : file[f][p] = Absent

\* The bytes of a row are there, and those of a row about to be inserted.
Kept(f) ==
    mishaps[f] \cap {"raced", "undone"} = {} =>
        /\ \A c \in Contents : Attached(f, c) # {} => file[f][Blob(c)] # Absent \/ Deleting(f)
        /\ \A w \in Workers : On(w, f) /\ pc[w] \in {"look", "insert"} =>
              At(w, Final(w)) # Absent

\* A worker is on its way to give the file at p a row, or to remove it.
Mine(w, p) ==
    \/ p = Final(w) /\ pc[w] \in {"look", "insert", "last", "unlink"}
    \/ p = job[w].temp /\ pc[w] \in {"write", "place", "keep", "clear"}

\* Every file is the blob of a row, or some worker's to deal with.
Owned(f) ==
    mishaps[f] \cap {"raced", "killed"} = {} =>
        \A p \in Paths : file[f][p] # Absent =>
            \/ \E c \in Contents : p = Blob(c) /\ Attached(f, c) # {}
            \/ \E w \in Workers : On(w, f) /\ Mine(w, p)

Local(f) == Once(f) /\ Sole(f) /\ Apart(f) /\ Kept(f) /\ Owned(f)

IInv == TypeOK /\ Duties /\ \A f \in FindingIds : Local(f)

-----------------------------------------------------------------------------
(* Paths, files and workers.                                               *)

\* Temporary files and blobs have different names.
LEMMA Disjoint ==
    /\ \A c \in Contents : Blob(c) \in Paths /\ Temps(c) \subseteq Paths
    /\ \A c, d : \A t \in Temps(c) : t # Blob(d)
    /\ \A c, d : Blob(c) = Blob(d) => c = d
    /\ NoPath \notin Paths
  BY AttachmentsAssumption DEF Paths, Temps, Temp, TempBytes, Blob

\* The values a file may have.
LEMMA Different ==
    /\ Absent # Empty /\ Absent # Mixed /\ Empty # Mixed
    /\ \A c \in Contents : c \notin {Absent, Empty, Mixed}
  BY AttachmentsAssumption

\* Who is on a finding, and what a worker that stores something has.
LEMMA Busy ==
    ASSUME TypeOK, Duties, NEW w \in Workers
    PROVE  /\ pc[w] # "idle" => job[w].finding \in FindingIds
           /\ pc[w] \in Storing =>
                 /\ job[w].content \in Contents /\ Final(w) \in Paths
                 /\ job[w].temp \in Paths /\ \A c \in Contents : job[w].temp # Blob(c)
           /\ handle[w] # NoPath => handle[w] \in Paths
<1>1. job[w] \in Job /\ handle[w] \in Paths \cup {NoPath}
  BY DEF TypeOK
<1>2. pc[w] # "idle" => job[w].finding \in FindingIds
  BY <1>1 DEF Duties, Duty, On, Job
<1>3. pc[w] \in Storing => job[w].content \in Contents /\ job[w].temp \in Temps(job[w].content)
  BY DEF Duties, Duty
<1> QED BY <1>1, <1>2, <1>3, Disjoint DEF Final

\* Removing the file at p.
Unlinked(f, p) ==
    /\ \A r \in Paths : file'[f][r] = IF r = p THEN Absent ELSE file[f][r]
    /\ \A x \in Workers : handle'[x] = IF On(x, f) /\ handle[x] = p THEN NoPath ELSE handle[x]

LEMMA UnlinkDoes ==
    ASSUME TypeOK, NEW w \in Workers, NEW f \in FindingIds, On(w, f), NEW p \in Paths, Unlink(w, p)
    PROVE  /\ file' \in [FindingIds -> [Paths -> Values]]
           /\ handle' \in [Workers -> Paths \cup {NoPath}]
           /\ \A g \in FindingIds \ {f} : file'[g] = file[g]
           /\ Unlinked(f, p)
  BY DEF Unlink, Store, TypeOK, Values, On, Unlinked

\* Renaming the file at p to q.
Renamed(f, p, q) ==
    /\ \A r \in Paths : file'[f][r] = IF r = q THEN file[f][p]
                                      ELSE IF r = p THEN Absent ELSE file[f][r]
    /\ \A x \in Workers : handle'[x] = IF ~On(x, f) THEN handle[x]
                                       ELSE IF handle[x] = p THEN q
                                       ELSE IF handle[x] = q THEN NoPath ELSE handle[x]

LEMMA RenameDoes ==
    ASSUME TypeOK, NEW w \in Workers, NEW f \in FindingIds, On(w, f),
           NEW p \in Paths, NEW q \in Paths, p # q, Rename(w, p, q)
    PROVE  /\ file' \in [FindingIds -> [Paths -> Values]]
           /\ handle' \in [Workers -> Paths \cup {NoPath}]
           /\ \A g \in FindingIds \ {f} : file'[g] = file[g]
           /\ Renamed(f, p, q)
  BY DEF Rename, Store, TypeOK, Values, On, Renamed

\* What a purge leaves.
LEMMA PurgeDoes ==
    ASSUME TypeOK, NEW w \in Workers, NEW f \in FindingIds, On(w, f),
           Store(w, [p \in Paths |-> Absent], LAMBDA h : NoPath)
    PROVE  /\ file' \in [FindingIds -> [Paths -> Values]]
           /\ handle' \in [Workers -> Paths \cup {NoPath}]
           /\ \A g \in FindingIds \ {f} : file'[g] = file[g]
           /\ \A r \in Paths : file'[f][r] = Absent
           /\ \A x \in Workers : handle'[x] = IF On(x, f) THEN NoPath ELSE handle[x]
  BY DEF Store, TypeOK, Values, On

-----------------------------------------------------------------------------
(* A step of one worker: what the others' findings, labels and duties keep. *)

\* Worker w's step: nobody else's request moves, and nothing but what belongs
\* to the finding it is on changes.
Moves(w) ==
    LET f == job[w].finding IN
    /\ f \in FindingIds /\ pc[w] # "idle"
    /\ \A x \in Workers \ {w} : pc'[x] = pc[x] /\ job'[x] = job[x] /\ doomed'[x] = doomed[x]
    /\ \/ pc'[w] = "idle" /\ job'[w] = NoJob
       \/ pc'[w] # "idle" /\ job'[w] = job[w]
    /\ \A x \in Workers : ~On(x, f) => handle'[x] = handle[x]
    /\ \A g \in FindingIds \ {f} : file'[g] = file[g] /\ mishaps'[g] = mishaps[g]
    /\ mishaps[f] \subseteq mishaps'[f]
    /\ existing' \cup {f} = existing \cup {f}
    /\ \A i \in Ids : row'[i] = row[i] \/ {row[i], row'[i]} \subseteq {NoRow} \cup {r \in Row : r.finding = f}

\* What is known of a finding whose requests, rows and files a step leaves alone.
LEMMA Elsewhere ==
    ASSUME TypeOK, TypeOK', NEW g \in FindingIds, Local(g),
           file'[g] = file[g], mishaps'[g] = mishaps[g], g \in existing => g \in existing',
           \A i \in Ids, r \in Row : r.finding = g => (row'[i] = r <=> row[i] = r),
           \A x \in Workers : On(x, g)' <=> On(x, g),
           \A x \in Workers : On(x, g) =>
              pc'[x] = pc[x] /\ job'[x] = job[x] /\ handle'[x] = handle[x] /\ doomed'[x] = doomed[x]
    PROVE  Local(g)'
<1>1. \A c : Attached(g, c)' = Attached(g, c)
  BY AttachmentsAssumption DEF Attached, TypeOK, Row
<1>b. \A x \in Workers : job'[x].finding = g =>
         /\ job[x].finding = g /\ pc'[x] = pc[x] /\ job'[x] = job[x]
         /\ handle'[x] = handle[x] /\ doomed'[x] = doomed[x]
  BY DEF On
<1>2. Deleting(g)' <=> Deleting(g)
  BY DEF Deleting, On
<1>3. Once(g)'
  <2>1. SUFFICES ASSUME "doubled" \notin mishaps[g] PROVE Once(g)'
    BY DEF Once
  <2>2. Once(g)
    BY DEF Local
  <2>3. ASSUME NEW x \in Workers, job'[x].finding = g, pc'[x] = "insert", NEW c, job'[x].content = c
        PROVE  Attached(g, c)' = {}
    <3>1. On(x, g) /\ pc[x] = "insert" /\ job[x].content = c
      BY <1>b, <2>3 DEF On
    <3>2. Attached(g, job[x].content) = {}
      BY <2>1, <2>2, <3>1 DEF Once
    <3> QED BY <1>1, <3>1, <3>2
  <2>4. ASSUME NEW x \in Workers, NEW y \in Workers, job'[x].finding = g, job'[y].finding = g,
               {pc'[x], pc'[y]} \subseteq Storing, job'[x].content = job'[y].content
        PROVE  x = y
    BY <1>b, <2>1, <2>2, <2>4 DEF Once, On
  <2>5. \A c \in Contents : \A i, j \in Attached(g, c)' : i = j
    BY <1>1, <2>1, <2>2 DEF Once
  <2> QED BY <2>3, <2>4, <2>5 DEF Once, On
<1>4. Sole(g)'
  BY <1>1 DEF Sole, Local, On, At
<1>a. \A i \in Ids : row'[i] # NoRow /\ row'[i].finding = g => row'[i] = row[i]
  BY AttachmentsAssumption DEF TypeOK, Row
<1>5. Apart(g)'
  <2>1. SUFFICES ASSUME "raced" \notin mishaps[g] PROVE Apart(g)'
    BY DEF Apart
  <2>2. Apart(g)
    BY DEF Local
  <2>3. ASSUME NEW x \in Workers, NEW y \in Workers, job'[x].finding = g, job'[y].finding = g, x # y
        PROVE  {pc'[x], pc'[y]} \subseteq Storing
    BY <1>b, <2>1, <2>2, <2>3 DEF Apart, On
  <2>4. ASSUME NEW x \in Workers, job'[x].finding = g, pc'[x] = "unlink", NEW c, job'[x].content = c
        PROVE  Attached(g, c)' = {}
    <3>1. On(x, g) /\ pc[x] = "unlink" /\ job[x].content = c
      BY <1>b, <2>4 DEF On
    <3>2. Attached(g, job[x].content) = {}
      BY <2>1, <2>2, <3>1 DEF Apart
    <3> QED BY <1>1, <3>1, <3>2
  <2>5. ASSUME NEW x \in Workers, job'[x].finding = g
        PROVE  /\ g \in existing'
               /\ pc'[x] \in Closing =>
                     \A i \in Ids : row'[i] # NoRow /\ row'[i].finding = g => i \in doomed'[x]
               /\ pc'[x] = "commit" => \A p \in Paths : file'[g][p] = Absent
    BY <1>a, <1>b, <2>1, <2>2, <2>5 DEF Apart, On
  <2>6. \A x, y \in Workers : On(x, g)' /\ On(y, g)' => x = y \/ {pc'[x], pc'[y]} \subseteq Storing
    BY <2>3 DEF On
  <2> QED BY <2>4, <2>5, <2>6 DEF Apart, On
<1>6. Kept(g)'
  BY <1>1, <1>2 DEF Kept, Local, On, At, Final
<1>7. Owned(g)'
  BY <1>1 DEF Owned, Local, On, Mine, Final
<1> QED BY <1>3, <1>4, <1>5, <1>6, <1>7 DEF Local

\* A step on one finding says nothing about the others.
LEMMA OthersKeep ==
    ASSUME IInv, TypeOK', NEW w \in Workers, Moves(w), NEW g \in FindingIds, g # job[w].finding
    PROVE  Local(g)'
<1>1. \A i \in Ids, r \in Row : r.finding = g => (row'[i] = r <=> row[i] = r)
  BY AttachmentsAssumption DEF Moves, Row
<1>2. \A x \in Workers : On(x, g)' <=> On(x, g)
  BY AttachmentsAssumption DEF Moves, On, NoJob
<1>3. \A x \in Workers : On(x, g) =>
         pc'[x] = pc[x] /\ job'[x] = job[x] /\ handle'[x] = handle[x] /\ doomed'[x] = doomed[x]
  BY DEF Moves, On
<1> QED BY <1>1, <1>2, <1>3, Elsewhere DEF IInv, Moves

\* Duties are each worker's own, but for rows and files that others touch.
LEMMA DutiesStep ==
    ASSUME IInv, TypeOK', NEW w \in Workers, Moves(w), Duty(w)',
           \A x \in Workers \ {w} : pc[x] = "remove" =>
              row'[job[x].id] \in {row[job[x].id], NoRow},
           \A x \in Workers \ {w} : \A i \in doomed[x] : row'[i] = row[i],
           \A x \in Workers \ {w} : handle'[x] # NoPath =>
              pc[x] = "write" /\ file'[job[x].finding][handle'[x]] # Absent,
           pc'[w] \in Closing => pc[w] \in Closing \/
              \A x \in Workers : On(x, job[w].finding) => pc[x] \notin Closing
    PROVE  Duties'
<1>1. ASSUME NEW x \in Workers, x # w PROVE Duty(x)'
  <2>1. Duty(x) /\ pc'[x] = pc[x] /\ job'[x] = job[x] /\ doomed'[x] = doomed[x]
    BY <1>1 DEF IInv, Duties, Moves
  <2>2. row[job[x].id] = NoRow /\ pc[x] = "remove" => row'[job[x].id] = NoRow
    BY <1>1
  <2> QED BY <1>1, <2>1, <2>2 DEF Duty, On, At
<1>2. ASSUME NEW x \in Workers, NEW y \in Workers,
             {pc'[x], pc'[y]} \subseteq Closing, job'[y].finding = job'[x].finding
      PROVE  x = y
  BY <1>2 DEF IInv, Duties, Moves, On, Closing
<1> QED BY <1>1, <1>2 DEF Duties, On

\* Moving on, and finishing.
LEMMA GotoDoes ==
    ASSUME TypeOK, NEW w \in Workers, NEW l \in Labels \ {"idle"}, Goto(w, l)
    PROVE  /\ pc' \in [Workers -> Labels] /\ job' \in [Workers -> Job]
           /\ pc'[w] = l /\ job' = job
           /\ \A x \in Workers \ {w} : pc'[x] = pc[x]
  BY DEF Goto, TypeOK

LEMMA FinishDoes ==
    ASSUME TypeOK, NEW w \in Workers, Finish(w)
    PROVE  /\ pc' \in [Workers -> Labels] /\ job' \in [Workers -> Job]
           /\ pc'[w] = "idle" /\ job'[w] = NoJob
           /\ \A x \in Workers \ {w} : pc'[x] = pc[x] /\ job'[x] = job[x]
<1>1. NoJob \in Job /\ "idle" \in Labels
  BY DEF NoJob, Job, Labels
<1> QED BY <1>1 DEF Finish, TypeOK

\* What a worker has besides its request.
LEMMA Holds ==
    ASSUME IInv, NEW x \in Workers
    PROVE  /\ handle[x] # NoPath =>
                 pc[x] = "write" /\ handle[x] \in Paths /\ file[job[x].finding][handle[x]] # Absent
           /\ \A i \in doomed[x] : pc[x] \in Closing /\ row[i] # NoRow /\ i \in Ids
                                   /\ row[i].finding = job[x].finding
           /\ pc[x] \notin Closing => doomed[x] = {}
           /\ pc[x] \in Removing => job[x].content \in Contents /\ job[x].id \in Ids
           /\ pc[x] = "remove" => row[job[x].id] \in
                 {NoRow, [finding |-> job[x].finding, digest |-> job[x].content]}
<1>1. Duty(x) /\ handle[x] \in Paths \cup {NoPath} /\ doomed[x] \subseteq Ids
  BY DEF IInv, Duties, TypeOK
<1> QED BY <1>1 DEF Duty, At, On

\* Somebody who has finished has nothing.
LEMMA Rests ==
    ASSUME NEW w, pc'[w] = "idle", job'[w] = NoJob, handle'[w] = NoPath, doomed'[w] = {}
    PROVE  Duty(w)'
  BY DEF Duty, On, NoJob, Storing, Removing, Closing

\* A step that leaves the rows alone and keeps, at its finding, the files that
\* others have open.
LEMMA Unshared ==
    ASSUME IInv, TypeOK', NEW w \in Workers, Moves(w), Duty(w)', row' = row,
           pc'[w] \notin Closing, NEW f \in FindingIds, On(w, f),
           \A x \in Workers \ {w} : On(x, f) /\ handle'[x] # NoPath =>
              pc[x] = "write" /\ file'[f][handle'[x]] # Absent
    PROVE  Duties'
<1>1. ASSUME NEW x \in Workers, x # w, handle'[x] # NoPath
      PROVE  pc[x] = "write" /\ file'[job[x].finding][handle'[x]] # Absent
  <2>1. CASE On(x, f)
    BY <1>1, <2>1 DEF On
  <2>2. CASE ~On(x, f)
    <3>0. handle'[x] = handle[x]
      BY <2>2 DEF Moves, On
    <3>1. handle'[x] = handle[x] /\ pc[x] = "write" /\ file[job[x].finding][handle'[x]] # Absent
      BY <1>1, <3>0, Holds
    <3>2. job[x].finding \in FindingIds
      BY <3>1, Busy DEF IInv
    <3> QED BY <2>2, <3>1, <3>2 DEF Moves, On
  <2> QED BY <2>1, <2>2
<1> QED BY <1>1, DutiesStep

\* The same when the files do not change.
LEMMA Untouched ==
    ASSUME IInv, TypeOK', NEW w \in Workers, Moves(w), Duty(w)', row' = row, file' = file,
           pc'[w] \notin Closing, \A x \in Workers \ {w} : handle'[x] = handle[x]
    PROVE  Duties'
<1>1. \A x \in Workers \ {w} : handle'[x] # NoPath =>
         pc[x] = "write" /\ file'[job[x].finding][handle'[x]] # Absent
  BY Holds
<1> QED BY <1>1, DutiesStep

\* What a removed file means to those who have it open.
LEMMA UnlinkStep ==
    ASSUME IInv, NEW f \in FindingIds, NEW p \in Paths, Unlinked(f, p), NEW x \in Workers, On(x, f)
    PROVE  /\ handle'[x] # NoPath => pc[x] = "write" /\ file'[f][handle'[x]] # Absent
           /\ Sole(f) /\ "collided" \notin mishaps[f] /\ pc[x] = "write" =>
                 handle'[x] = IF file'[f][job[x].temp] = file[f][job[x].temp]
                              THEN handle[x] ELSE NoPath
<1>1. handle'[x] # NoPath => pc[x] = "write" /\ file'[f][handle'[x]] # Absent
  <2>1. handle[x] # NoPath =>
           pc[x] = "write" /\ handle[x] \in Paths /\ file[f][handle[x]] # Absent
    BY Holds DEF On
  <2> QED BY <2>1 DEF Unlinked
<1>2. ASSUME Sole(f), "collided" \notin mishaps[f], pc[x] = "write"
      PROVE  handle'[x] = IF file'[f][job[x].temp] = file[f][job[x].temp]
                              THEN handle[x] ELSE NoPath
  <2>1. job[x].temp \in Paths
    BY <1>2, Busy DEF IInv, Storing
  <2>2. \/ handle[x] = job[x].temp /\ file[f][job[x].temp] = Empty
        \/ handle[x] = NoPath /\ file[f][job[x].temp] = Absent
    BY <1>2 DEF Sole, At, On
  <2> QED BY <2>1, <2>2, Different, Disjoint DEF Unlinked
<1> QED BY <1>1, <1>2

\* Where rows only go, no more are attached.
LEMMA Shrinks ==
    ASSUME NEW f, \A i \in Ids : row'[i] \in {row[i], NoRow}
    PROVE  \A c : Attached(f, c)' \subseteq Attached(f, c)
  BY DEF Attached

\* What Once asks of a step that inserts no row: it looked before "insert".
LEMMA OnceStep ==
    ASSUME IInv, TypeOK', NEW w \in Workers, Moves(w), NEW f \in FindingIds, On(w, f),
           \A i \in Ids : row'[i] \in {row[i], NoRow},
           pc'[w] \in Storing => pc[w] \in Storing,
           pc'[w] = "insert" => pc[w] = "insert" \/ Attached(f, job[w].content) = {}
    PROVE  Once(f)'
<1>1. \A c : Attached(f, c)' \subseteq Attached(f, c)
  BY Shrinks
<1>2. Once(f)
  BY DEF IInv, Local
<1>3. ASSUME NEW x \in Workers, job'[x].finding = f
      PROVE  /\ On(x, f) /\ job'[x] = job[x]
             /\ pc'[x] \in Storing => pc[x] \in Storing
             /\ pc'[x] = "insert" => pc[x] = "insert" \/ Attached(f, job[x].content) = {}
  BY <1>3, AttachmentsAssumption DEF Moves, On, NoJob
<1>4. SUFFICES ASSUME "doubled" \notin mishaps'[f] PROVE Once(f)'
  BY DEF Once
<1>5. "doubled" \notin mishaps[f]
  BY <1>4 DEF Moves, On
<1>6. \A c \in Contents : \A i, j \in Attached(f, c)' : i = j
  BY <1>1, <1>2, <1>5 DEF Once
<1>7. ASSUME NEW x \in Workers, job'[x].finding = f, pc'[x] = "insert", NEW c, job'[x].content = c
      PROVE  Attached(f, c)' = {}
  BY <1>1, <1>2, <1>3, <1>5, <1>7 DEF Once
<1>8. ASSUME NEW x \in Workers, NEW y \in Workers, job'[x].finding = f, job'[y].finding = f,
             {pc'[x], pc'[y]} \subseteq Storing, job'[x].content = job'[y].content
      PROVE  x = y
  BY <1>2, <1>3, <1>5, <1>8 DEF Once
<1> QED BY <1>6, <1>7, <1>8 DEF Once, On

\* What Apart asks: a storing step ends in storing, and the others have looked
\* at the rows, or emptied the directory, in the step that says so.
LEMMA ApartStep ==
    ASSUME IInv, TypeOK', NEW w \in Workers, Moves(w), NEW f \in FindingIds, On(w, f),
           \/ /\ pc[w] \in Storing /\ pc'[w] \in Storing \cup {"idle"}
              /\ existing' = existing
           \/ /\ pc[w] \notin Storing /\ pc'[w] \notin Storing
              /\ \A i \in Ids : row'[i] \in {row[i], NoRow}
              /\ pc'[w] # "idle" => existing' = existing,
           pc'[w] = "unlink" => Attached(f, job[w].content) = {},
           pc'[w] \in Closing =>
              \A i \in Ids : row'[i] # NoRow /\ row'[i].finding = f => i \in doomed'[w],
           pc'[w] = "commit" => \A p \in Paths : file'[f][p] = Absent
    PROVE  Apart(f)'
<1>a. \A x \in Workers : On(x, f) => pc[x] # "idle"
  <2>1. \A x \in Workers : Duty(x)
    BY DEF IInv, Duties
  <2> QED BY <2>1, AttachmentsAssumption DEF On, Duty
<1>1. \A x \in Workers : job'[x].finding = f => On(x, f) /\ job'[x] = job[x] /\ pc'[x] # "idle"
  BY <1>a, AttachmentsAssumption DEF Moves, On, NoJob
<1>2. SUFFICES ASSUME "raced" \notin mishaps'[f] PROVE Apart(f)'
  BY DEF Apart
<1>3. /\ \A x, y \in Workers : On(x, f) /\ On(y, f) => x = y \/ {pc[x], pc[y]} \subseteq Storing
      /\ \A x \in Workers : On(x, f) => f \in existing
  BY <1>2 DEF Moves, On, IInv, Local, Apart
<1>4. CASE pc[w] \in Storing
  <2>1. /\ pc'[w] \in Storing \cup {"idle"} /\ existing' = existing
    BY <1>4
  <2>2. \A x \in Workers : job'[x].finding = f => pc'[x] \in Storing
    BY <1>1, <1>3, <1>4, <2>1 DEF Moves
  <2> QED BY <1>1, <1>3, <2>1, <2>2 DEF Apart, On, Storing, Closing
<1>5. CASE pc[w] \notin Storing
  <2>1. \A x \in Workers : job'[x].finding = f => x = w
    BY <1>1, <1>3, <1>5
  <2>2. \A c : Attached(f, c)' \subseteq Attached(f, c)
    BY <1>5, Shrinks
  <2>3. ASSUME job'[w].finding = f, pc'[w] = "unlink", NEW c, job'[w].content = c
        PROVE  Attached(f, c)' = {}
    BY <1>1, <2>2, <2>3
  <2>4. job'[w].finding = f => f \in existing'
    BY <1>1, <1>3, <1>5
  <2> QED BY <2>1, <2>3, <2>4 DEF Apart, On
<1> QED BY <1>4, <1>5

\* What Kept asks: blobs stay, and a row comes after its blob.
LEMMA KeptStep ==
    ASSUME IInv, TypeOK', NEW w \in Workers, Moves(w), NEW f \in FindingIds, On(w, f),
           pc[w] # "commit",
           \A c \in Contents : file[f][Blob(c)] # Absent => file'[f][Blob(c)] # Absent,
           mishaps[f] \cap {"raced", "undone"} = {} =>
              /\ \A c \in Contents : Attached(f, c)' # {} =>
                    Attached(f, c) # {} \/ file[f][Blob(c)] # Absent
              /\ pc'[w] \in {"look", "insert"} => file'[f][Final(w)] # Absent
    PROVE  Kept(f)'
<1>1. \A x \in Workers : job'[x].finding = f => On(x, f) /\ job'[x] = job[x]
  BY AttachmentsAssumption DEF Moves, On, NoJob
<1>2. SUFFICES ASSUME mishaps'[f] \cap {"raced", "undone"} = {} PROVE Kept(f)'
  BY DEF Kept
<1>3. mishaps[f] \cap {"raced", "undone"} = {} /\ Kept(f)
  BY <1>2 DEF Moves, On, IInv, Local
<1>4. Deleting(f) => Deleting(f)'
  BY DEF Deleting, Moves, On
<1>5. ASSUME NEW c \in Contents, Attached(f, c)' # {}
      PROVE  file'[f][Blob(c)] # Absent \/ Deleting(f)'
  BY <1>3, <1>4, <1>5 DEF Kept
<1>6. ASSUME NEW x \in Workers, job'[x].finding = f, pc'[x] \in {"look", "insert"}
      PROVE  file'[f][Blob(job'[x].content)] # Absent
  <2>1. CASE x = w
    BY <1>1, <1>3, <1>6, <2>1 DEF Final
  <2>2. CASE x # w
    <3>1. pc[x] = pc'[x] /\ On(x, f) /\ job'[x] = job[x] /\ job[x].content \in Contents
      <4>1. pc[x] = pc'[x] /\ On(x, f) /\ job'[x] = job[x]
        BY <1>1, <1>6, <2>2 DEF Moves
      <4> QED BY <1>6, <4>1, Busy DEF IInv, Storing
    <3> QED BY <1>3, <1>6, <3>1 DEF Kept, At, Final, On
  <2> QED BY <2>1, <2>2
<1> QED BY <1>5, <1>6 DEF Kept, On, At, Final

\* What Owned asks: a file that w has left is gone or has its row.
LEMMA OwnedStep ==
    ASSUME IInv, TypeOK', NEW w \in Workers, Moves(w), NEW f \in FindingIds, On(w, f),
           mishaps'[f] \cap {"raced", "killed"} = {} =>
              \A p \in Paths : file'[f][p] # Absent =>
                 \/ \E c \in Contents : p = Blob(c) /\ Attached(f, c)' # {}
                 \/ pc'[w] # "idle" /\ Mine(w, p)'
                 \/ /\ file[f][p] # Absent /\ ~Mine(w, p)
                    /\ \A c \in Contents : p = Blob(c) /\ Attached(f, c) # {} => Attached(f, c)' # {}
    PROVE  Owned(f)'
<1>1. SUFFICES ASSUME mishaps'[f] \cap {"raced", "killed"} = {},
                      NEW p \in Paths, file'[f][p] # Absent
               PROVE  \/ \E c \in Contents : p = Blob(c) /\ Attached(f, c)' # {}
                      \/ \E x \in Workers : On(x, f)' /\ Mine(x, p)'
  BY DEF Owned
<1>2. mishaps[f] \cap {"raced", "killed"} = {} /\ Owned(f)
  BY <1>1 DEF Moves, On, IInv, Local
<1>3. CASE pc'[w] # "idle" /\ Mine(w, p)'
  BY <1>3 DEF Moves, On
<1>4. CASE /\ file[f][p] # Absent /\ ~Mine(w, p)
           /\ \A c \in Contents : p = Blob(c) /\ Attached(f, c) # {} => Attached(f, c)' # {}
  <2>1. CASE \E c \in Contents : p = Blob(c) /\ Attached(f, c) # {}
    BY <1>4, <2>1
  <2>2. CASE \E x \in Workers : On(x, f) /\ Mine(x, p)
    <3>1. PICK x \in Workers : On(x, f) /\ Mine(x, p)
      BY <2>2
    <3>2. x # w
      BY <1>4, <3>1
    <3> QED BY <3>1, <3>2 DEF Moves, On, Mine, Final
  <2> QED BY <1>2, <1>4, <2>1, <2>2 DEF Owned
<1> QED BY <1>1, <1>3, <1>4

\* What Sole asks: w touches its own temporary file, removes files, or puts
\* the right bytes under a digest.
LEMMA SoleStep ==
    ASSUME IInv, TypeOK', NEW w \in Workers, Moves(w), NEW f \in FindingIds, On(w, f),
           pc'[w] \in Storing => pc[w] \in Storing,
           Sole(f) /\ "collided" \notin mishaps[f] =>
              /\ \A p \in Paths :
                    \/ file'[f][p] \in {file[f][p], Absent}
                    \/ pc[w] \in Storing /\ p = job[w].temp
                    \/ \E c \in Contents : p = Blob(c) /\ file'[f][p] = c
              /\ pc'[w] = "write" => handle'[w] = job[w].temp /\ file'[f][job[w].temp] = Empty
              /\ pc'[w] \in {"place", "keep"} => file'[f][job[w].temp] \in {Absent, job[w].content}
              /\ \A x \in Workers \ {w} : On(x, f) /\ pc[x] = "write" =>
                    handle'[x] = IF file'[f][job[x].temp] = file[f][job[x].temp]
                                 THEN handle[x] ELSE NoPath
    PROVE  Sole(f)'
<1>1. \A x \in Workers : job'[x].finding = f =>
         /\ On(x, f) /\ job'[x] = job[x]
         /\ pc'[x] \in Storing => pc[x] \in Storing
         /\ x # w => pc'[x] = pc[x]
  BY AttachmentsAssumption DEF Moves, On, NoJob
<1>2. SUFFICES ASSUME "collided" \notin mishaps'[f] PROVE Sole(f)'
  BY DEF Sole
<1>3. "collided" \notin mishaps[f] /\ Sole(f)
  BY <1>2 DEF Moves, On, IInv, Local
<1>4. ASSUME NEW x \in Workers, NEW y \in Workers, job'[x].finding = f, job'[y].finding = f,
             {pc'[x], pc'[y]} \subseteq Storing, job'[x].temp = job'[y].temp
      PROVE  x = y
  BY <1>1, <1>3, <1>4 DEF Sole
<1>5. ASSUME NEW x \in Workers \ {w}, job'[x].finding = f, pc'[x] \in {"write", "place", "keep"}
      PROVE  /\ pc'[x] = pc[x] /\ On(x, f) /\ job'[x] = job[x]
             /\ file'[f][job[x].temp] \in {file[f][job[x].temp], Absent}
  <2>1. /\ pc'[x] = pc[x] /\ On(x, f) /\ job'[x] = job[x] /\ pc[x] \in Storing
        /\ job[x].temp \in Paths /\ \A c \in Contents : job[x].temp # Blob(c)
    BY <1>1, <1>5, Busy DEF IInv, Storing
  <2>2. pc[w] \in Storing => job[x].temp # job[w].temp
    BY <1>3, <2>1 DEF Sole
  <2> QED BY <1>3, <2>1, <2>2
<1>6. ASSUME NEW x \in Workers, job'[x].finding = f, pc'[x] = "write"
      PROVE  \/ handle'[x] = job[x].temp /\ file'[f][job[x].temp] = Empty
             \/ handle'[x] = NoPath /\ file'[f][job[x].temp] = Absent
  BY <1>3, <1>5, <1>6, Different DEF Sole, At, On
<1>7. ASSUME NEW x \in Workers, job'[x].finding = f, pc'[x] \in {"place", "keep"}
      PROVE  file'[f][job[x].temp] \in {Absent, job[x].content}
  BY <1>3, <1>5, <1>7 DEF Sole, At, On
<1>8. ASSUME NEW c \in Contents PROVE file'[f][Blob(c)] \in {Absent, c}
  <2>1. Blob(c) \in Paths /\ \A d \in Contents : Blob(c) = Blob(d) => c = d
    BY Disjoint
  <2>2. pc[w] \in Storing => Blob(c) # job[w].temp
    BY Busy DEF IInv
  <2> QED BY <1>3, <2>1, <2>2 DEF Sole
<1> QED BY <1>1, <1>4, <1>6, <1>7, <1>8 DEF Sole, On, At

-----------------------------------------------------------------------------
(* The steps, each with what it does and, one by one, what it keeps.       *)

\* What a step of w on f has to keep.
LEMMA Suffices ==
    ASSUME IInv, TypeOK', NEW w \in Workers, Moves(w), NEW f \in FindingIds, On(w, f),
           Duties', Local(f)'
    PROVE  IInv'
<1>1. \A g \in FindingIds : Local(g)'
  BY OthersKeep DEF On
<1> QED BY <1>1 DEF IInv

LEMMA CheckImageStep ==
    ASSUME IInv, NEW w \in Workers, CheckImage(w) PROVE IInv'
<1>1. PICK f \in FindingIds : On(w, f)
  BY Busy DEF IInv, CheckImage, On
<1>2. TypeOK'
  BY DEF IInv, TypeOK, CheckImage, Goto, tables, Labels, Storing
<1>3. Moves(w)
  BY <1>1 DEF IInv, TypeOK, CheckImage, Goto, tables, Moves, On
<1>4. /\ pc'[w] \in {"open", "look"}
      /\ pc'[w] = "look" => At(w, Final(w)) # Absent
      /\ UNCHANGED <<row, existing, file, handle, doomed, mishaps, job>>
  BY DEF IInv, TypeOK, CheckImage, Goto, tables
<1>5. Duty(w)'
  BY <1>4 DEF IInv, Duties, Duty, CheckImage, On, At, Storing, Removing, Closing
<1>6. Duties'
  BY <1>2, <1>3, <1>4, <1>5, DutiesStep DEF IInv, Duties, Duty, At, Closing
<1>7. Once(f)'
  BY <1>1, <1>2, <1>3, <1>4, OnceStep DEF CheckImage, Storing
<1>8. Sole(f)'
  BY <1>1, <1>2, <1>3, <1>4, SoleStep DEF CheckImage, Storing
<1>9. Apart(f)'
  BY <1>1, <1>2, <1>3, <1>4, ApartStep DEF CheckImage, Storing, Closing
<1>10. Kept(f)'
  <2>1. \A c \in Contents : Attached(f, c)' = Attached(f, c)
    BY <1>4 DEF Attached
  <2> QED BY <1>1, <1>2, <1>3, <1>4, <2>1, KeptStep DEF CheckImage, At, On
<1>11. Owned(f)'
  <2>1. \A c \in Contents : Attached(f, c)' = Attached(f, c)
    BY <1>4 DEF Attached
  <2> QED BY <1>1, <1>2, <1>3, <1>4, <2>1, OwnedStep DEF CheckImage, Mine
<1> QED BY <1>1, <1>2, <1>3, <1>6, <1>7, <1>8, <1>9, <1>10, <1>11, Suffices DEF Local

LEMMA WriteFailsStep ==
    ASSUME IInv, NEW w \in Workers, WriteFails(w) PROVE IInv'
<1>1. PICK f \in FindingIds : On(w, f)
  BY Busy DEF IInv, WriteFails, On, Storing
<1>2. /\ pc' \in [Workers -> Labels] /\ job' \in [Workers -> Job]
      /\ \A x \in Workers \ {w} : pc'[x] = pc[x] /\ job'[x] = job[x]
      /\ pc'[w] = "clear" /\ job'[w] = job[w]
      /\ handle' \in [Workers -> Paths \cup {NoPath}] /\ handle'[w] = NoPath
      /\ \A x \in Workers \ {w} : handle'[x] = handle[x]
      /\ UNCHANGED <<row, existing, file, doomed, mishaps>>
  BY GotoDoes DEF IInv, TypeOK, WriteFails, tables, Labels, Storing
<1>3. TypeOK'
  BY <1>2 DEF IInv, TypeOK
<1>4. Moves(w)
  BY <1>1, <1>2 DEF WriteFails, Moves, On, NoJob
<1>5. Duty(w)'
  BY <1>1, <1>2, Holds DEF IInv, Duties, Duty, On, WriteFails, Storing, Removing, Closing
<1>6. Duties'
  BY <1>1, <1>2, <1>3, <1>4, <1>5, Untouched DEF Closing
<1>7. Once(f)'
  BY <1>1, <1>2, <1>3, <1>4, OnceStep DEF WriteFails, Storing
<1>8. Sole(f)'
  BY <1>1, <1>2, <1>3, <1>4, SoleStep DEF WriteFails, Storing
<1>9. Apart(f)'
  BY <1>1, <1>2, <1>3, <1>4, ApartStep DEF WriteFails, Storing, Closing
<1>10. Kept(f)'
  <2>1. \A c \in Contents : Attached(f, c)' = Attached(f, c)
    BY <1>2 DEF Attached
  <2> QED BY <1>1, <1>2, <1>3, <1>4, <2>1, KeptStep DEF WriteFails, At, On
<1>11. Owned(f)'
  <2>1. \A c \in Contents : Attached(f, c)' = Attached(f, c)
    BY <1>2 DEF Attached
  <2> QED BY <1>1, <1>2, <1>3, <1>4, <2>1, OwnedStep DEF WriteFails, Mine, Final
<1> QED BY <1>1, <1>3, <1>4, <1>6, <1>7, <1>8, <1>9, <1>10, <1>11, Suffices DEF Local

LEMMA LookStep ==
    ASSUME IInv, NEW w \in Workers, Look(w) PROVE IInv'
<1>1. PICK f \in FindingIds : On(w, f)
  BY Busy DEF IInv, Look, On, Storing
<1>2. /\ pc' \in [Workers -> Labels] /\ job' \in [Workers -> Job]
      /\ \A x \in Workers \ {w} : pc'[x] = pc[x] /\ job'[x] = job[x]
      /\ \/ pc'[w] = "insert" /\ job'[w] = job[w] /\ Attached(f, job[w].content) = {}
         \/ pc'[w] = "idle" /\ job'[w] = NoJob /\ Attached(f, job[w].content) # {}
      /\ UNCHANGED <<row, existing, file, handle, doomed, mishaps>>
  BY <1>1, GotoDoes, FinishDoes DEF IInv, Look, tables, On, Labels, Storing
<1>3. TypeOK'
  BY <1>2 DEF IInv, TypeOK
<1>4. Moves(w)
  BY <1>1, <1>2 DEF Look, Moves, On, NoJob
<1>5. Duty(w)'
  <2>1. CASE pc'[w] = "idle"
    BY <1>2, <2>1, Holds, Rests DEF Look, Closing
  <2>2. CASE pc'[w] = "insert"
    BY <1>2, <2>2, Holds DEF IInv, Duties, Duty, On, Look, Storing, Removing, Closing
  <2> QED BY <1>2, <2>1, <2>2
<1>6. Duties'
  BY <1>1, <1>2, <1>3, <1>4, <1>5, Untouched DEF Closing
<1>7. Once(f)'
  BY <1>1, <1>2, <1>3, <1>4, OnceStep DEF Look, Storing
<1>8. Sole(f)'
  BY <1>1, <1>2, <1>3, <1>4, SoleStep DEF Look, Storing
<1>9. Apart(f)'
  BY <1>1, <1>2, <1>3, <1>4, ApartStep DEF Look, Storing, Closing
<1>10. Kept(f)'
  <2>1. \A c \in Contents : Attached(f, c)' = Attached(f, c)
    BY <1>2 DEF Attached
  <2>2. mishaps[f] \cap {"raced", "undone"} = {} /\ pc[w] = "look" => file[f][Final(w)] # Absent
    BY <1>1 DEF IInv, Local, Kept, At, On
  <2> QED BY <1>1, <1>2, <1>3, <1>4, <2>1, <2>2, KeptStep DEF Look
<1>11. Owned(f)'
  <2>1. \A c \in Contents : Attached(f, c)' = Attached(f, c)
    BY <1>2 DEF Attached
  <2>2. job[w].content \in Contents
    BY Holds, Busy DEF IInv, Look, Storing, Removing
  <2> QED BY <1>1, <1>2, <1>3, <1>4, <2>1, <2>2, OwnedStep DEF Look, Mine, Final
<1> QED BY <1>1, <1>3, <1>4, <1>6, <1>7, <1>8, <1>9, <1>10, <1>11, Suffices DEF Local

LEMMA LastStep ==
    ASSUME IInv, NEW w \in Workers, Last(w) PROVE IInv'
<1>1. PICK f \in FindingIds : On(w, f)
  BY Busy DEF IInv, Last, On, Storing
<1>2. /\ pc' \in [Workers -> Labels] /\ job' \in [Workers -> Job]
      /\ \A x \in Workers \ {w} : pc'[x] = pc[x] /\ job'[x] = job[x]
      /\ \/ pc'[w] = "unlink" /\ job'[w] = job[w] /\ Attached(f, job[w].content) = {}
         \/ pc'[w] = "idle" /\ job'[w] = NoJob /\ Attached(f, job[w].content) # {}
      /\ UNCHANGED <<row, existing, file, handle, doomed, mishaps>>
  BY <1>1, GotoDoes, FinishDoes DEF IInv, Last, tables, On, Labels, Storing
<1>3. TypeOK'
  BY <1>2 DEF IInv, TypeOK
<1>4. Moves(w)
  BY <1>1, <1>2 DEF Last, Moves, On, NoJob
<1>5. Duty(w)'
  <2>1. CASE pc'[w] = "idle"
    BY <1>2, <2>1, Holds, Rests DEF Last, Closing
  <2>2. CASE pc'[w] = "unlink"
    BY <1>2, <2>2, Holds DEF IInv, Duties, Duty, On, Last, Storing, Removing, Closing
  <2> QED BY <1>2, <2>1, <2>2
<1>6. Duties'
  BY <1>1, <1>2, <1>3, <1>4, <1>5, Untouched DEF Closing
<1>7. Once(f)'
  BY <1>1, <1>2, <1>3, <1>4, OnceStep DEF Last, Storing
<1>8. Sole(f)'
  BY <1>1, <1>2, <1>3, <1>4, SoleStep DEF Last, Storing
<1>9. Apart(f)'
  BY <1>1, <1>2, <1>3, <1>4, ApartStep DEF Last, Storing, Closing
<1>10. Kept(f)'
  <2>1. \A c \in Contents : Attached(f, c)' = Attached(f, c)
    BY <1>2 DEF Attached
  <2>2. mishaps[f] \cap {"raced", "undone"} = {} /\ pc[w] = "look" => file[f][Final(w)] # Absent
    BY <1>1 DEF IInv, Local, Kept, At, On
  <2> QED BY <1>1, <1>2, <1>3, <1>4, <2>1, <2>2, KeptStep DEF Last
<1>11. Owned(f)'
  <2>1. \A c \in Contents : Attached(f, c)' = Attached(f, c)
    BY <1>2 DEF Attached
  <2>2. job[w].content \in Contents
    BY Holds, Busy DEF IInv, Last, Storing, Removing
  <2> QED BY <1>1, <1>2, <1>3, <1>4, <2>1, <2>2, OwnedStep DEF Last, Mine, Final
<1> QED BY <1>1, <1>3, <1>4, <1>6, <1>7, <1>8, <1>9, <1>10, <1>11, Suffices DEF Local

LEMMA RemoveRowStep ==
    ASSUME IInv, NEW w \in Workers, RemoveRow(w) PROVE IInv'
<1>1. PICK f \in FindingIds : On(w, f)
  BY Busy DEF IInv, RemoveRow, On, Storing
<1>a. /\ job[w].id \in Ids /\ job[w].content \in Contents
      /\ row[job[w].id] \in {NoRow, [finding |-> f, digest |-> job[w].content]}
      /\ \A x \in Workers : job[w].id \notin doomed[x]
  BY <1>1, Holds DEF RemoveRow, Removing, On
<1>c. [finding |-> f, digest |-> job[w].content] \in Row
  BY <1>a DEF Row
<1>b. \A i \in Ids : row'[i] \in {row[i], NoRow}
  BY <1>a DEF RemoveRow, IInv, TypeOK
<1>2. /\ pc' \in [Workers -> Labels] /\ job' \in [Workers -> Job]
      /\ \A x \in Workers \ {w} : pc'[x] = pc[x] /\ job'[x] = job[x]
      /\ pc'[w] = "last" /\ job'[w] = job[w]
      /\ row' \in [Ids -> Row \cup {NoRow}] /\ row'[job[w].id] = NoRow
      /\ \A i \in Ids : i # job[w].id => row'[i] = row[i]
      /\ UNCHANGED <<existing, file, handle, doomed, mishaps>>
  BY <1>a, GotoDoes DEF IInv, TypeOK, RemoveRow, Labels
<1>3. TypeOK'
  BY <1>2 DEF IInv, TypeOK
<1>4. Moves(w)
  BY <1>1, <1>2, <1>a, <1>c DEF RemoveRow, Moves, On, NoJob
<1>5. Duty(w)'
  BY <1>1, <1>2, <1>a, Holds DEF IInv, Duties, Duty, On, RemoveRow, Storing, Removing, Closing
<1>6. Duties'
  <2>1. \A x \in Workers \ {w} : handle'[x] # NoPath =>
           pc[x] = "write" /\ file'[job[x].finding][handle'[x]] # Absent
    BY <1>2, Holds
  <2>2. \A x \in Workers \ {w} : pc[x] = "remove" => row'[job[x].id] \in {row[job[x].id], NoRow}
    BY <1>b, Holds DEF Removing
  <2>3. \A x \in Workers \ {w} : \A i \in doomed[x] : row'[i] = row[i]
    BY <1>2, <1>a, Holds DEF RemoveRow
  <2> QED BY <1>2, <1>3, <1>4, <1>5, <2>1, <2>2, <2>3, DutiesStep DEF Closing
<1>7. Once(f)'
  BY <1>1, <1>2, <1>3, <1>4, <1>b, OnceStep DEF RemoveRow, Storing
<1>8. Sole(f)'
  BY <1>1, <1>2, <1>3, <1>4, SoleStep DEF RemoveRow, Storing
<1>9. Apart(f)'
  BY <1>1, <1>2, <1>3, <1>4, <1>b, ApartStep DEF RemoveRow, Storing, Closing
<1>10. Kept(f)'
  <2>1. \A c : Attached(f, c)' \subseteq Attached(f, c)
    BY <1>b, Shrinks
  <2> QED BY <1>1, <1>2, <1>3, <1>4, <2>1, KeptStep DEF RemoveRow
<1>11. Owned(f)'
  <2>1. ASSUME NEW c \in Contents, Attached(f, c) # {}, Attached(f, c)' = {}
        PROVE  c = job[w].content
    <3>1. PICK i \in Ids : row[i] = [finding |-> f, digest |-> c]
      BY <2>1 DEF Attached
    <3>2. i = job[w].id
      BY <1>2, <2>1, <3>1, AttachmentsAssumption DEF Attached
    <3> QED BY <1>a, <3>1, <3>2, AttachmentsAssumption
  <2> QED BY <1>1, <1>2, <1>3, <1>4, <2>1, OwnedStep DEF RemoveRow, Mine, Final
<1> QED BY <1>1, <1>3, <1>4, <1>6, <1>7, <1>8, <1>9, <1>10, <1>11, Suffices DEF Local

LEMMA DeleteRowsStep ==
    ASSUME IInv, NEW w \in Workers, DeleteRows(w) PROVE IInv'
<1>1. PICK f \in FindingIds : On(w, f)
  BY Busy DEF IInv, DeleteRows, On, Storing
<1>2. /\ pc' \in [Workers -> Labels] /\ job' \in [Workers -> Job]
      /\ \A x \in Workers \ {w} : pc'[x] = pc[x] /\ job'[x] = job[x]
      /\ pc'[w] = "purge" /\ job'[w] = job[w]
      /\ doomed' \in [Workers -> SUBSET Ids]
      /\ doomed'[w] = {i \in Ids : row[i] # NoRow /\ row[i].finding = f}
      /\ \A x \in Workers \ {w} : doomed'[x] = doomed[x]
      /\ \A x \in Workers : On(x, f) => pc[x] \notin Closing
      /\ UNCHANGED <<row, existing, file, handle, mishaps>>
  BY <1>1, GotoDoes DEF IInv, TypeOK, DeleteRows, tables, On, Others, Closing, Labels
<1>3. TypeOK'
  BY <1>2 DEF IInv, TypeOK
<1>4. Moves(w)
  BY <1>1, <1>2 DEF DeleteRows, Moves, On, NoJob
<1>5. Duty(w)'
  BY <1>1, <1>2, Holds DEF IInv, Duties, Duty, On, DeleteRows, Storing, Removing, Closing
<1>6. Duties'
  <2>1. \A x \in Workers \ {w} : handle'[x] # NoPath =>
           pc[x] = "write" /\ file'[job[x].finding][handle'[x]] # Absent
    BY <1>2, Holds
  <2> QED BY <1>1, <1>2, <1>3, <1>4, <1>5, <2>1, DutiesStep DEF On
<1>7. Once(f)'
  BY <1>1, <1>2, <1>3, <1>4, OnceStep DEF DeleteRows, Storing
<1>8. Sole(f)'
  BY <1>1, <1>2, <1>3, <1>4, SoleStep DEF DeleteRows, Storing
<1>9. Apart(f)'
  BY <1>1, <1>2, <1>3, <1>4, ApartStep DEF DeleteRows, Storing, Closing
<1>10. Kept(f)'
  <2>1. \A c \in Contents : Attached(f, c)' = Attached(f, c)
    BY <1>2 DEF Attached
  <2> QED BY <1>1, <1>2, <1>3, <1>4, <2>1, KeptStep DEF DeleteRows, At, On
<1>11. Owned(f)'
  <2>1. \A c \in Contents : Attached(f, c)' = Attached(f, c)
    BY <1>2 DEF Attached
  <2> QED BY <1>1, <1>2, <1>3, <1>4, <2>1, OwnedStep DEF DeleteRows, Mine, Final
<1> QED BY <1>1, <1>3, <1>4, <1>6, <1>7, <1>8, <1>9, <1>10, <1>11, Suffices DEF Local

LEMMA ClearStep ==
    ASSUME IInv, NEW w \in Workers, Clear(w) PROVE IInv'
<1>1. PICK f \in FindingIds : On(w, f)
  BY Busy DEF IInv, Clear, On, Storing
<1>a. PICK p \in Paths : p = job[w].temp /\ \A c \in Contents : p # Blob(c)
  BY Busy DEF IInv, Clear, Storing
<1>2. /\ pc' \in [Workers -> Labels] /\ job' \in [Workers -> Job]
      /\ \A x \in Workers \ {w} : pc'[x] = pc[x] /\ job'[x] = job[x]
      /\ file' \in [FindingIds -> [Paths -> Values]]
      /\ handle' \in [Workers -> Paths \cup {NoPath}]
      /\ \A g \in FindingIds \ {f} : file'[g] = file[g]
      /\ Unlinked(f, p)
      /\ pc'[w] = "idle" /\ job'[w] = NoJob
      /\ UNCHANGED <<row, existing, doomed, mishaps>>
  BY <1>1, <1>a, FinishDoes, UnlinkDoes DEF IInv, Clear, tables, On
<1>3. TypeOK'
  BY <1>2 DEF IInv, TypeOK
<1>4. Moves(w)
  BY <1>1, <1>2 DEF Clear, Moves, On, NoJob, Unlinked
<1>5. Duty(w)'
  <2>1. handle'[w] = NoPath /\ doomed[w] = {}
    BY <1>2, Holds DEF Unlinked, Clear, Closing
  <2> QED BY <1>2, <2>1, Rests
<1>6. Duties'
  BY <1>1, <1>2, <1>3, <1>4, <1>5, UnlinkStep, Unshared DEF Closing
<1>7. Once(f)'
  BY <1>1, <1>2, <1>3, <1>4, OnceStep DEF Clear, Storing
<1>8. Sole(f)'
  <2>1. \A r \in Paths : file'[f][r] \in {file[f][r], Absent}
    BY <1>2 DEF Unlinked
  <2> QED BY <1>1, <1>2, <1>3, <1>4, <2>1, UnlinkStep, SoleStep DEF Clear, Storing
<1>9. Apart(f)'
  BY <1>1, <1>2, <1>3, <1>4, ApartStep DEF Clear, Storing, Closing
<1>10. Kept(f)'
  <2>1. \A c \in Contents : Attached(f, c)' = Attached(f, c)
    BY <1>2 DEF Attached
  <2>2. \A c \in Contents : file[f][Blob(c)] # Absent => file'[f][Blob(c)] # Absent
    BY <1>a, <1>2, Disjoint DEF Unlinked
  <2> QED BY <1>1, <1>2, <1>3, <1>4, <2>1, <2>2, KeptStep DEF Clear
<1>11. Owned(f)'
  <2>1. \A c \in Contents : Attached(f, c)' = Attached(f, c)
    BY <1>2 DEF Attached
  <2> QED BY <1>a, <1>1, <1>2, <1>3, <1>4, <2>1, OwnedStep DEF Clear, Mine, Final, Unlinked
<1> QED BY <1>1, <1>3, <1>4, <1>6, <1>7, <1>8, <1>9, <1>10, <1>11, Suffices DEF Local

LEMMA DeleteBlobStep ==
    ASSUME IInv, NEW w \in Workers, DeleteBlob(w) PROVE IInv'
<1>1. PICK f \in FindingIds : On(w, f)
  BY Busy DEF IInv, DeleteBlob, On, Storing
<1>a. PICK p \in Paths : p = Final(w) /\ p = Blob(job[w].content) /\ job[w].content \in Contents
  BY Holds, Disjoint DEF DeleteBlob, Removing, Final
<1>2. /\ pc' \in [Workers -> Labels] /\ job' \in [Workers -> Job]
      /\ \A x \in Workers \ {w} : pc'[x] = pc[x] /\ job'[x] = job[x]
      /\ file' \in [FindingIds -> [Paths -> Values]]
      /\ handle' \in [Workers -> Paths \cup {NoPath}]
      /\ \A g \in FindingIds \ {f} : file'[g] = file[g]
      /\ Unlinked(f, p)
      /\ pc'[w] = "idle" /\ job'[w] = NoJob
      /\ UNCHANGED <<row, existing, doomed, mishaps>>
  BY <1>1, <1>a, FinishDoes, UnlinkDoes DEF IInv, DeleteBlob, tables, On
<1>3. TypeOK'
  BY <1>2 DEF IInv, TypeOK
<1>4. Moves(w)
  BY <1>1, <1>2 DEF DeleteBlob, Moves, On, NoJob, Unlinked
<1>5. Duty(w)'
  <2>1. handle'[w] = NoPath /\ doomed[w] = {}
    BY <1>2, Holds DEF Unlinked, DeleteBlob, Closing
  <2> QED BY <1>2, <2>1, Rests
<1>6. Duties'
  BY <1>1, <1>2, <1>3, <1>4, <1>5, UnlinkStep, Unshared DEF Closing
<1>7. Once(f)'
  BY <1>1, <1>2, <1>3, <1>4, OnceStep DEF DeleteBlob, Storing
<1>8. Sole(f)'
  <2>1. \A r \in Paths : file'[f][r] \in {file[f][r], Absent}
    BY <1>2 DEF Unlinked
  <2> QED BY <1>1, <1>2, <1>3, <1>4, <2>1, UnlinkStep, SoleStep DEF DeleteBlob, Storing
<1>9. Apart(f)'
  BY <1>1, <1>2, <1>3, <1>4, ApartStep DEF DeleteBlob, Storing, Closing
<1>10. Kept(f)'
  <2>1. SUFFICES ASSUME mishaps'[f] \cap {"raced", "undone"} = {} PROVE Kept(f)'
    BY DEF Kept
  <2>2. Kept(f) /\ Apart(f) /\ mishaps[f] \cap {"raced", "undone"} = {}
    BY <1>2, <2>1 DEF IInv, Local
  <2>3. \A c \in Contents : Attached(f, c)' = Attached(f, c) /\ Deleting(f)' = Deleting(f)
    BY <1>2 DEF Attached, Deleting, DeleteBlob
  <2>4. Attached(f, job[w].content) = {} /\ \A x \in Workers : On(x, f) => x = w
    BY <1>1, <2>2 DEF Apart, DeleteBlob, Storing
  <2>5. ASSUME NEW c \in Contents, Attached(f, c)' # {}
        PROVE  file'[f][Blob(c)] # Absent \/ Deleting(f)'
    BY <1>a, <1>2, <2>2, <2>3, <2>4, <2>5, Disjoint DEF Kept, Unlinked
  <2>6. \A x \in Workers : job'[x].finding # f
    BY <1>1, <1>2, <2>4, AttachmentsAssumption DEF On, NoJob
  <2> QED BY <2>5, <2>6 DEF Kept, On
<1>11. Owned(f)'
  <2>1. \A c \in Contents : Attached(f, c)' = Attached(f, c)
    BY <1>2 DEF Attached
  <2> QED BY <1>a, <1>1, <1>2, <1>3, <1>4, <2>1, OwnedStep DEF DeleteBlob, Mine, Final, Unlinked
<1> QED BY <1>1, <1>3, <1>4, <1>6, <1>7, <1>8, <1>9, <1>10, <1>11, Suffices DEF Local

LEMMA PlaceStep ==
    ASSUME IInv, NEW w \in Workers, Place(w) PROVE IInv'
<1>1. PICK f \in FindingIds : On(w, f)
  BY Busy DEF IInv, Place, On, Storing
<1>a. PICK p \in Paths : p = job[w].temp /\ \A c \in Contents : p # Blob(c)
  BY Busy DEF IInv, Place, Storing
<1>b. job[w].content \in Contents
  BY Busy DEF IInv, Place, Storing
<1>2. /\ pc' \in [Workers -> Labels] /\ job' \in [Workers -> Job]
      /\ \A x \in Workers \ {w} : pc'[x] = pc[x] /\ job'[x] = job[x]
      /\ file' \in [FindingIds -> [Paths -> Values]]
      /\ handle' \in [Workers -> Paths \cup {NoPath}]
      /\ \A g \in FindingIds \ {f} : file'[g] = file[g]
      /\ job'[w] = job[w]
      /\ \/ pc'[w] = "keep" /\ file' = file /\ handle' = handle
         \/ pc'[w] = "clear" /\ Unlinked(f, p)
         \/ pc'[w] = "look" /\ Unlinked(f, p) /\ file[f][Final(w)] # Absent
      /\ UNCHANGED <<row, existing, doomed, mishaps>>
  BY <1>1, <1>a, GotoDoes, UnlinkDoes DEF IInv, TypeOK, Place, tables, On, At, Labels, Storing
<1>3. TypeOK'
  BY <1>2 DEF IInv, TypeOK
<1>4. Moves(w)
  BY <1>1, <1>2 DEF Place, Moves, On, NoJob, Unlinked
<1>5. Duty(w)'
  <2>1. handle'[w] = NoPath
    BY <1>2, Holds DEF Unlinked, Place
  <2> QED BY <1>2, <2>1, Holds DEF IInv, Duties, Duty, On, Place, Storing, Removing, Closing
<1>6. Duties'
  <2>1. CASE Unlinked(f, p)
    BY <1>1, <1>2, <1>3, <1>4, <1>5, <2>1, UnlinkStep, Unshared DEF Closing
  <2>2. CASE file' = file /\ handle' = handle
    BY <1>2, <1>3, <1>4, <1>5, <2>2, Untouched DEF Closing
  <2> QED BY <1>2, <2>1, <2>2
<1>7. Once(f)'
  BY <1>1, <1>2, <1>3, <1>4, OnceStep DEF Place, Storing
<1>8. Sole(f)'
  <2>1. CASE Unlinked(f, p)
    <3>1. \A r \in Paths : file'[f][r] \in {file[f][r], Absent}
      BY <2>1 DEF Unlinked
    <3>2. file'[f][job[w].temp] = Absent
      BY <1>a, <2>1 DEF Unlinked
    <3> QED BY <1>1, <1>2, <1>3, <1>4, <2>1, <3>1, <3>2, UnlinkStep, SoleStep DEF Place, Storing
  <2>2. CASE pc'[w] = "keep" /\ file' = file /\ handle' = handle
    <3>1. Sole(f) /\ "collided" \notin mishaps[f] => file[f][job[w].temp] \in {Absent, job[w].content}
      BY <1>1 DEF Sole, Place, At, On
    <3> QED BY <1>1, <1>2, <1>3, <1>4, <2>2, <3>1, SoleStep DEF Place, Storing
  <2> QED BY <1>2, <2>1, <2>2
<1>9. Apart(f)'
  BY <1>1, <1>2, <1>3, <1>4, ApartStep DEF Place, Storing, Closing
<1>10. Kept(f)'
  <2>1. \A c \in Contents : Attached(f, c)' = Attached(f, c)
    BY <1>2 DEF Attached
  <2>2. \A c \in Contents : file'[f][Blob(c)] = file[f][Blob(c)]
    BY <1>a, <1>2, Disjoint DEF Unlinked
  <2>3. file'[f][Final(w)] = file[f][Final(w)]
    BY <1>b, <2>2 DEF Final
  <2> QED BY <1>1, <1>2, <1>3, <1>4, <2>1, <2>2, <2>3, KeptStep DEF Place
<1>11. Owned(f)'
  <2>1. \A c \in Contents : Attached(f, c)' = Attached(f, c)
    BY <1>2 DEF Attached
  <2> QED BY <1>a, <1>1, <1>2, <1>3, <1>4, <2>1, OwnedStep DEF Place, Mine, Final, Unlinked
<1> QED BY <1>1, <1>3, <1>4, <1>6, <1>7, <1>8, <1>9, <1>10, <1>11, Suffices DEF Local

LEMMA KeepStep ==
    ASSUME IInv, NEW w \in Workers, Keep(w) PROVE IInv'
<1>1. PICK f \in FindingIds : On(w, f)
  BY Busy DEF IInv, Keep, On, Storing
<1>a. PICK p \in Paths, q \in Paths :
         /\ p = job[w].temp /\ (\A c \in Contents : p # Blob(c))
         /\ q = Final(w) /\ q = Blob(job[w].content) /\ job[w].content \in Contents /\ p # q
  BY Busy DEF IInv, Keep, Storing, Final
<1>2. /\ pc' \in [Workers -> Labels] /\ job' \in [Workers -> Job]
      /\ \A x \in Workers \ {w} : pc'[x] = pc[x] /\ job'[x] = job[x]
      /\ file' \in [FindingIds -> [Paths -> Values]]
      /\ handle' \in [Workers -> Paths \cup {NoPath}]
      /\ \A g \in FindingIds \ {f} : file'[g] = file[g]
      /\ job'[w] = job[w]
      /\ \/ pc'[w] = "clear" /\ file' = file /\ handle' = handle /\ file[f][p] = Absent
         \/ pc'[w] = "look" /\ Renamed(f, p, q) /\ file[f][p] # Absent
      /\ UNCHANGED <<row, existing, doomed, mishaps>>
  BY <1>1, <1>a, GotoDoes, RenameDoes DEF IInv, TypeOK, Keep, tables, On, At, Labels, Storing
<1>3. TypeOK'
  BY <1>2 DEF IInv, TypeOK
<1>4. Moves(w)
  BY <1>1, <1>2 DEF Keep, Moves, On, NoJob, Renamed
<1>5. Duty(w)'
  <2>1. handle[w] = NoPath
    BY Holds DEF Keep
  <2>2. handle'[w] = NoPath
    BY <1>a, <1>2, <2>1, Disjoint DEF Renamed
  <2> QED BY <1>2, <2>2, Holds DEF IInv, Duties, Duty, On, Keep, Storing, Removing, Closing
<1>6. Duties'
  <2>1. CASE Renamed(f, p, q) /\ file[f][p] # Absent
    <3>1. ASSUME NEW x \in Workers, On(x, f), handle'[x] # NoPath
          PROVE  pc[x] = "write" /\ file'[f][handle'[x]] # Absent
      <4>1. handle[x] # NoPath => pc[x] = "write" /\ handle[x] \in Paths /\ file[f][handle[x]] # Absent
        BY <3>1, Holds DEF On
      <4>2. handle[x] # NoPath
        BY <2>1, <3>1, Disjoint DEF Renamed
      <4> QED BY <2>1, <3>1, <4>1, <4>2 DEF Renamed
    <3> QED BY <1>1, <1>2, <1>3, <1>4, <1>5, <3>1, Unshared DEF Closing
  <2>2. CASE file' = file /\ handle' = handle
    BY <1>2, <1>3, <1>4, <1>5, <2>2, Untouched DEF Closing
  <2> QED BY <1>2, <2>1, <2>2
<1>7. Once(f)'
  BY <1>1, <1>2, <1>3, <1>4, OnceStep DEF Keep, Storing
<1>8. Sole(f)'
  <2>1. CASE Renamed(f, p, q)
    <3> SUFFICES ASSUME Sole(f), "collided" \notin mishaps[f]
                 PROVE  /\ \A r \in Paths :
                              \/ file'[f][r] \in {file[f][r], Absent}
                              \/ \E c \in Contents : r = Blob(c) /\ file'[f][r] = c
                        /\ \A x \in Workers \ {w} : On(x, f) /\ pc[x] = "write" =>
                              handle'[x] = IF file'[f][job[x].temp] = file[f][job[x].temp]
                                           THEN handle[x] ELSE NoPath
      BY <1>1, <1>2, <1>3, <1>4, SoleStep DEF Keep, Storing
    <3>1. file[f][p] \in {Absent, job[w].content}
      BY <1>1, <1>a DEF Sole, Keep, At, On
    <3>2. ASSUME NEW x \in Workers \ {w}, On(x, f), pc[x] = "write"
          PROVE  handle'[x] = handle[x] /\ file'[f][job[x].temp] = file[f][job[x].temp]
      <4>1. /\ job[x].temp \in Paths /\ job[x].temp # p /\ job[x].temp # q
            /\ handle[x] \in {job[x].temp, NoPath}
        BY <1>1, <1>a, <3>2, Busy DEF IInv, Sole, Keep, Storing
      <4> QED BY <1>a, <2>1, <3>2, <4>1, Disjoint DEF Renamed
    <3> QED BY <1>a, <2>1, <3>1, <3>2 DEF Renamed
  <2>2. CASE file' = file /\ handle' = handle
    BY <1>1, <1>2, <1>3, <1>4, <2>2, SoleStep DEF Keep, Storing
  <2> QED BY <1>2, <2>1, <2>2
<1>9. Apart(f)'
  BY <1>1, <1>2, <1>3, <1>4, ApartStep DEF Keep, Storing, Closing
<1>10. Kept(f)'
  <2>1. \A c \in Contents : Attached(f, c)' = Attached(f, c)
    BY <1>2 DEF Attached
  <2>2. \A c \in Contents : file[f][Blob(c)] # Absent => file'[f][Blob(c)] # Absent
    BY <1>a, <1>2, Disjoint DEF Renamed
  <2>3. pc'[w] = "look" => file'[f][Final(w)] # Absent
    BY <1>a, <1>2 DEF Renamed
  <2> QED BY <1>1, <1>2, <1>3, <1>4, <2>1, <2>2, <2>3, KeptStep DEF Keep
<1>11. Owned(f)'
  <2>1. \A c \in Contents : Attached(f, c)' = Attached(f, c)
    BY <1>2 DEF Attached
  <2>2. Final(w)' = q
    BY <1>a, <1>2 DEF Final
  <2> QED BY <1>a, <1>1, <1>2, <1>3, <1>4, <2>1, <2>2, OwnedStep DEF Keep, Mine, Renamed
<1> QED BY <1>1, <1>3, <1>4, <1>6, <1>7, <1>8, <1>9, <1>10, <1>11, Suffices DEF Local

LEMMA OpenStep ==
    ASSUME IInv, NEW w \in Workers, Open(w) PROVE IInv'
<1>1. PICK f \in FindingIds : On(w, f)
  BY Busy DEF IInv, Open, On, Storing
<1>a. PICK p \in Paths : p = job[w].temp /\ \A c \in Contents : p # Blob(c)
  BY Busy DEF IInv, Open, Storing
<1>2. /\ pc' \in [Workers -> Labels] /\ job' \in [Workers -> Job]
      /\ \A x \in Workers \ {w} : pc'[x] = pc[x] /\ job'[x] = job[x]
      /\ file' \in [FindingIds -> [Paths -> Values]]
      /\ handle' \in [Workers -> Paths \cup {NoPath}]
      /\ \A g \in FindingIds \ {f} : file'[g] = file[g]
      /\ \A x \in Workers \ {w} : handle'[x] = handle[x]
      /\ \/ /\ pc'[w] = "write" /\ job'[w] = job[w] /\ handle'[w] = p
            /\ \A r \in Paths : file'[f][r] = IF r = p THEN Empty ELSE file[f][r]
         \/ /\ pc'[w] = "idle" /\ job'[w] = NoJob /\ file' = file /\ handle' = handle
            /\ f \notin existing
      /\ UNCHANGED <<row, existing, doomed, mishaps>>
  <2>1. ASSUME file' = [file EXCEPT ![job[w].finding][job[w].temp] = Empty],
               handle' = [handle EXCEPT ![w] = job[w].temp]
        PROVE  /\ file' \in [FindingIds -> [Paths -> Values]]
               /\ handle' \in [Workers -> Paths \cup {NoPath}]
               /\ \A g \in FindingIds \ {f} : file'[g] = file[g]
               /\ \A x \in Workers \ {w} : handle'[x] = handle[x]
               /\ handle'[w] = p /\ \A r \in Paths : file'[f][r] = IF r = p THEN Empty ELSE file[f][r]
    BY <1>1, <1>a, <2>1 DEF IInv, TypeOK, On, Values
  <2>2. UNCHANGED <<row, existing, doomed, mishaps>>
    BY DEF Open, tables
  <2>3. CASE Goto(w, "write") /\ file' = [file EXCEPT ![job[w].finding][job[w].temp] = Empty]
             /\ handle' = [handle EXCEPT ![w] = job[w].temp]
    BY <2>1, <2>2, <2>3, GotoDoes DEF IInv, Labels, Storing
  <2>4. CASE Finish(w) /\ f \notin existing /\ UNCHANGED <<file, handle>>
    BY <2>2, <2>4, FinishDoes DEF IInv, TypeOK
  <2> QED BY <1>1, <2>3, <2>4 DEF Open, On
<1>3. TypeOK'
  BY <1>2 DEF IInv, TypeOK
<1>4. Moves(w)
  BY <1>1, <1>2 DEF Open, Moves, On, NoJob
<1>5. Duty(w)'
  <2>1. CASE pc'[w] = "idle"
    BY <1>2, <2>1, Holds, Rests DEF Open, Closing
  <2>2. CASE pc'[w] = "write"
    <3>1. handle'[w] = p => At(w, handle[w])' = Empty
      BY <1>1, <1>a, <1>2, <2>2 DEF At, On
    <3> QED BY <1>2, <2>2, <3>1, Different, Holds DEF IInv, Duties, Duty, On, Open, Storing, Removing, Closing
  <2> QED BY <1>2, <2>1, <2>2
<1>6. Duties'
  <2>1. CASE pc'[w] = "idle"
    BY <1>2, <1>3, <1>4, <1>5, <2>1, Untouched DEF Closing
  <2>2. CASE pc'[w] = "write"
    <3>1. ASSUME NEW x \in Workers \ {w}, On(x, f), handle'[x] # NoPath
          PROVE  pc[x] = "write" /\ file'[f][handle'[x]] # Absent
      <4>1. handle'[x] = handle[x] /\ job[x].finding = f
        BY <1>2, <3>1 DEF On
      <4>2. pc[x] = "write" /\ handle[x] \in Paths /\ file[f][handle[x]] # Absent
        BY <3>1, <4>1, Holds
      <4> QED BY <1>2, <2>2, <4>1, <4>2, Different
    <3> QED BY <1>1, <1>2, <1>3, <1>4, <1>5, <2>2, <3>1, Unshared DEF Closing
  <2> QED BY <1>2, <2>1, <2>2
<1>7. Once(f)'
  BY <1>1, <1>2, <1>3, <1>4, OnceStep DEF Open, Storing
<1>8. Sole(f)'
  <2>1. CASE pc'[w] = "idle"
    BY <1>1, <1>2, <1>3, <1>4, <2>1, SoleStep DEF Open, Storing
  <2>2. CASE pc'[w] = "write"
    <3>1. \A x \in Workers \ {w} : Sole(f) /\ "collided" \notin mishaps[f] /\ On(x, f) /\ pc[x] = "write" =>
             file'[f][job[x].temp] = file[f][job[x].temp]
      BY <1>1, <1>a, <1>2, <2>2, Busy DEF IInv, Open, Sole, Storing
    <3> QED BY <1>1, <1>a, <1>2, <1>3, <1>4, <2>2, <3>1, SoleStep DEF Open, Storing
  <2> QED BY <1>2, <2>1, <2>2
<1>9. Apart(f)'
  BY <1>1, <1>2, <1>3, <1>4, ApartStep DEF Open, Storing, Closing
<1>10. Kept(f)'
  <2>1. \A c \in Contents : Attached(f, c)' = Attached(f, c)
    BY <1>2 DEF Attached
  <2>2. \A c \in Contents : file[f][Blob(c)] # Absent => file'[f][Blob(c)] # Absent
    BY <1>a, <1>2, Disjoint
  <2> QED BY <1>1, <1>2, <1>3, <1>4, <2>1, <2>2, KeptStep DEF Open
<1>11. Owned(f)'
  <2>1. \A c \in Contents : Attached(f, c)' = Attached(f, c)
    BY <1>2 DEF Attached
  <2>2. CASE pc'[w] = "idle"
    <3>1. "raced" \in mishaps'[f]
      BY <1>1, <1>2, <2>2 DEF IInv, Local, Apart
    <3> QED BY <3>1 DEF Owned
  <2>3. CASE pc'[w] = "write"
    BY <1>a, <1>1, <1>2, <1>3, <1>4, <2>1, <2>3, OwnedStep DEF Open, Mine
  <2> QED BY <1>2, <2>2, <2>3
<1> QED BY <1>1, <1>3, <1>4, <1>6, <1>7, <1>8, <1>9, <1>10, <1>11, Suffices DEF Local

LEMMA WriteStep ==
    ASSUME IInv, NEW w \in Workers, Write(w) PROVE IInv'
<1>1. PICK f \in FindingIds : On(w, f)
  BY Busy DEF IInv, Write, On, Storing
<1>a. job[w].content \in Contents
  BY Busy DEF IInv, Write, Storing
<1>2. /\ pc' \in [Workers -> Labels] /\ job' \in [Workers -> Job]
      /\ \A x \in Workers \ {w} : pc'[x] = pc[x] /\ job'[x] = job[x]
      /\ file' \in [FindingIds -> [Paths -> Values]]
      /\ handle' \in [Workers -> Paths \cup {NoPath}]
      /\ \A g \in FindingIds \ {f} : file'[g] = file[g]
      /\ job'[w] = job[w] /\ pc'[w] \in {"place", "keep"} /\ handle'[w] = NoPath
      /\ \A x \in Workers \ {w} : handle'[x] = handle[x]
      /\ \/ handle[w] = NoPath /\ file' = file
         \/ /\ handle[w] # NoPath
            /\ \E v \in {job[w].content} \cup (IF Shares(w) THEN {Mixed} ELSE {}) :
                  \A r \in Paths : file'[f][r] = IF r = handle[w] THEN v ELSE file[f][r]
      /\ UNCHANGED <<row, existing, doomed, mishaps>>
  <2>1. ASSUME NEW v \in Values, handle[w] # NoPath, file' = [file EXCEPT ![job[w].finding][handle[w]] = v]
        PROVE  /\ file' \in [FindingIds -> [Paths -> Values]]
               /\ \A g \in FindingIds \ {f} : file'[g] = file[g]
               /\ \A r \in Paths : file'[f][r] = IF r = handle[w] THEN v ELSE file[f][r]
    BY <1>1, <2>1, Holds DEF IInv, TypeOK, On
  <2>2. /\ handle' \in [Workers -> Paths \cup {NoPath}] /\ handle'[w] = NoPath
        /\ \A x \in Workers \ {w} : handle'[x] = handle[x]
        /\ UNCHANGED <<row, existing, doomed, mishaps>>
    BY DEF IInv, TypeOK, Write, tables
  <2>3. \E l \in {"place", "keep"} : Goto(w, l)
    BY DEF Write
  <2>4. /\ pc' \in [Workers -> Labels] /\ job' \in [Workers -> Job]
        /\ \A x \in Workers \ {w} : pc'[x] = pc[x] /\ job'[x] = job[x]
        /\ job'[w] = job[w] /\ pc'[w] \in {"place", "keep"}
    BY <2>3, GotoDoes DEF IInv, Labels, Storing
  <2>5. CASE handle[w] = NoPath
    BY <2>2, <2>4, <2>5 DEF IInv, TypeOK, Write
  <2>6. CASE handle[w] # NoPath
    <3>1. PICK v \in {job[w].content} \cup (IF Shares(w) THEN {Mixed} ELSE {}) :
             file' = [file EXCEPT ![job[w].finding][handle[w]] = v]
      BY <2>6 DEF Write
    <3>2. v \in Values
      BY <1>a DEF Values
    <3> QED BY <2>1, <2>2, <2>4, <2>6, <3>1, <3>2
  <2> QED BY <2>5, <2>6
<1>3. TypeOK'
  BY <1>2 DEF IInv, TypeOK
<1>4. Moves(w)
  BY <1>1, <1>2 DEF Write, Moves, On
<1>5. Duty(w)'
  BY <1>1, <1>2, Holds DEF IInv, Duties, Duty, On, Write, Storing, Removing, Closing
<1>6. Duties'
  <2>1. ASSUME NEW x \in Workers \ {w}, On(x, f), handle'[x] # NoPath
        PROVE  pc[x] = "write" /\ file'[f][handle'[x]] # Absent
    <3>1. pc[x] = "write" /\ handle'[x] \in Paths /\ file[f][handle'[x]] # Absent
      <4>1. handle'[x] = handle[x] /\ job[x].finding = f
        BY <1>2, <2>1 DEF On
      <4> QED BY <2>1, <4>1, Holds
    <3> QED BY <1>a, <1>2, <3>1, Different
  <2> QED BY <1>1, <1>2, <1>3, <1>4, <1>5, <2>1, Unshared DEF Closing
<1>7. Once(f)'
  BY <1>1, <1>2, <1>3, <1>4, OnceStep DEF Write, Storing
<1>8. Sole(f)'
  <2> SUFFICES ASSUME Sole(f), "collided" \notin mishaps[f]
               PROVE  /\ \A r \in Paths : file'[f][r] = file[f][r] \/ r = job[w].temp
                      /\ file'[f][job[w].temp] \in {Absent, job[w].content}
                      /\ \A x \in Workers \ {w} : On(x, f) /\ pc[x] = "write" =>
                            file'[f][job[x].temp] = file[f][job[x].temp]
    BY <1>1, <1>2, <1>3, <1>4, SoleStep DEF Write, Storing
  <2>1. \/ handle[w] = job[w].temp /\ file[f][job[w].temp] = Empty
        \/ handle[w] = NoPath /\ file[f][job[w].temp] = Absent
    BY <1>1 DEF Sole, Write, At, On
  <2>2. job[w].temp \in Paths
    BY Busy DEF IInv, Write, Storing
  <2>3. \A x \in Workers \ {w} : On(x, f) /\ pc[x] \in Storing => job[x].temp # job[w].temp
    BY <1>1 DEF Sole, Write, Storing
  <2>4. \A x \in Workers \ {w} : On(x, f) /\ pc[x] = "write" => job[x].temp \in Paths
    BY Busy DEF IInv, Storing
  <2>5. handle[w] = job[w].temp => ~Shares(w)
    <3>1. ASSUME NEW x \in Workers \ {w}, On(x, f), handle[x] = job[w].temp PROVE FALSE
      <4>1. pc[x] = "write"
        BY <2>2, <3>1, Disjoint, Holds
      <4>2. handle[x] = job[x].temp
        BY <2>2, <3>1, <4>1, Disjoint DEF Sole
      <4> QED BY <2>3, <3>1, <4>1, <4>2 DEF Storing
    <3> QED BY <1>1, <2>1, <2>2, <3>1, Disjoint DEF Shares, At, On
  <2> QED BY <1>2, <2>1, <2>2, <2>3, <2>4, <2>5, Disjoint DEF Storing
<1>9. Apart(f)'
  BY <1>1, <1>2, <1>3, <1>4, ApartStep DEF Write, Storing, Closing
<1>10. Kept(f)'
  <2>1. \A c \in Contents : Attached(f, c)' = Attached(f, c)
    BY <1>2 DEF Attached
  <2>2. \A c \in Contents : file[f][Blob(c)] # Absent => file'[f][Blob(c)] # Absent
    BY <1>a, <1>2, Disjoint, Different
  <2> QED BY <1>1, <1>2, <1>3, <1>4, <2>1, <2>2, KeptStep DEF Write
<1>11. Owned(f)'
  <2>1. \A c \in Contents : Attached(f, c)' = Attached(f, c)
    BY <1>2 DEF Attached
  <2>2. \A r \in Paths : file'[f][r] # Absent => file[f][r] # Absent
    BY <1>1, <1>2, Holds DEF On
  <2> QED BY <1>1, <1>2, <1>3, <1>4, <2>1, <2>2, OwnedStep DEF Write, Mine
<1> QED BY <1>1, <1>3, <1>4, <1>6, <1>7, <1>8, <1>9, <1>10, <1>11, Suffices DEF Local

LEMMA PurgeStep ==
    ASSUME IInv, NEW w \in Workers, Purge(w) PROVE IInv'
<1>1. PICK f \in FindingIds : On(w, f)
  BY Busy DEF IInv, Purge, On, Storing
<1>2. /\ pc' \in [Workers -> Labels] /\ job' \in [Workers -> Job]
      /\ \A x \in Workers \ {w} : pc'[x] = pc[x] /\ job'[x] = job[x]
      /\ file' \in [FindingIds -> [Paths -> Values]]
      /\ handle' \in [Workers -> Paths \cup {NoPath}]
      /\ \A g \in FindingIds \ {f} : file'[g] = file[g]
      /\ job'[w] = job[w] /\ pc'[w] = "commit"
      /\ \A r \in Paths : file'[f][r] = Absent
      /\ \A x \in Workers : handle'[x] = IF On(x, f) THEN NoPath ELSE handle[x]
      /\ UNCHANGED <<row, existing, doomed, mishaps>>
  BY <1>1, GotoDoes, PurgeDoes DEF IInv, Purge, tables, Labels
<1>3. TypeOK'
  BY <1>2 DEF IInv, TypeOK
<1>4. Moves(w)
  BY <1>1, <1>2 DEF Purge, Moves, On
<1>5. Duty(w)'
  <2>1. handle'[w] = NoPath
    BY <1>1, <1>2
  <2>2. Duty(w) /\ pc[w] = "purge"
    BY DEF IInv, Duties, Purge
  <2> QED BY <1>2, <2>1, <2>2 DEF Duty, On, Storing, Removing, Closing
<1>6. Duties'
  <2>1. ASSUME NEW x \in Workers \ {w}, handle'[x] # NoPath
        PROVE  pc[x] = "write" /\ file'[job[x].finding][handle'[x]] # Absent
    <3>1. handle'[x] = handle[x] /\ job[x].finding # f
      BY <1>2, <2>1 DEF On
    <3>2. /\ pc[x] = "write" /\ file[job[x].finding][handle[x]] # Absent
          /\ job[x].finding \in FindingIds
      BY <2>1, <3>1, Holds, Busy DEF IInv
    <3> QED BY <1>2, <3>1, <3>2
  <2> QED BY <1>2, <1>3, <1>4, <1>5, <2>1, Holds, DutiesStep DEF Purge, Closing
<1>7. Once(f)'
  BY <1>1, <1>2, <1>3, <1>4, OnceStep DEF Purge, Storing
<1>8. Sole(f)'
  <2>1. \A x \in Workers \ {w} : Sole(f) /\ "collided" \notin mishaps[f] /\ On(x, f) /\ pc[x] = "write" =>
           /\ file'[f][job[x].temp] = Absent
           /\ file[f][job[x].temp] = Absent => handle[x] = NoPath
    BY <1>2, Busy, Different DEF IInv, Sole, At, On, Storing
  <2> QED BY <1>1, <1>2, <1>3, <1>4, <2>1, SoleStep DEF Purge, Storing
<1>9. Apart(f)'
  <2>1. SUFFICES ASSUME "raced" \notin mishaps'[f] PROVE Apart(f)'
    BY DEF Apart
  <2>2. \A i \in Ids : row[i] # NoRow /\ row[i].finding = f => i \in doomed[w]
    BY <1>1, <1>2, <2>1 DEF IInv, Local, Apart, Purge, Closing
  <2> QED BY <1>1, <1>2, <1>3, <1>4, <2>2, ApartStep DEF Purge, Storing, Closing
<1>10. Kept(f)'
  <2>1. Deleting(f)'
    BY <1>1, <1>2 DEF Deleting, On
  <2>2. "raced" \notin mishaps[f] => \A x \in Workers : On(x, f) => x = w
    BY <1>1 DEF IInv, Local, Apart, Purge, Storing
  <2>3. "raced" \notin mishaps'[f] => \A x \in Workers : job'[x].finding = f => pc'[x] = "commit"
    BY <1>2, <2>2 DEF On
  <2> QED BY <2>1, <2>3 DEF Kept, On
<1>11. Owned(f)'
  BY <1>1, <1>2, <1>3, <1>4, OwnedStep
<1> QED BY <1>1, <1>3, <1>4, <1>6, <1>7, <1>8, <1>9, <1>10, <1>11, Suffices DEF Local

LEMMA CommitStep ==
    ASSUME IInv, NEW w \in Workers, Commit(w) PROVE IInv'
<1>1. PICK f \in FindingIds : On(w, f)
  BY Busy DEF IInv, Commit, On, Storing
<1>2. /\ pc' \in [Workers -> Labels] /\ job' \in [Workers -> Job]
      /\ \A x \in Workers \ {w} : pc'[x] = pc[x] /\ job'[x] = job[x]
      /\ pc'[w] = "idle" /\ job'[w] = NoJob
      /\ doomed' \in [Workers -> SUBSET Ids] /\ doomed'[w] = {}
      /\ \A x \in Workers \ {w} : doomed'[x] = doomed[x]
      /\ row' \in [Ids -> Row \cup {NoRow}]
      /\ \A i \in Ids : row'[i] = row[i] \/ (i \in doomed[w] /\ row'[i] = NoRow)
      /\ \/ row' = row /\ \E i \in Ids \ doomed[w] : row[i] # NoRow /\ row[i].finding = f
         \/ \A i \in doomed[w] : row'[i] = NoRow
      /\ existing' \subseteq existing /\ existing \subseteq existing' \cup {f}
      /\ UNCHANGED <<file, handle, mishaps>>
  <2>1. /\ doomed' \in [Workers -> SUBSET Ids] /\ doomed'[w] = {}
        /\ \A x \in Workers \ {w} : doomed'[x] = doomed[x]
        /\ doomed[w] \subseteq Ids /\ UNCHANGED <<file, handle, mishaps>>
    BY DEF IInv, TypeOK, Commit
  <2>0. /\ pc' \in [Workers -> Labels] /\ job' \in [Workers -> Job]
        /\ \A x \in Workers \ {w} : pc'[x] = pc[x] /\ job'[x] = job[x]
        /\ pc'[w] = "idle" /\ job'[w] = NoJob
    BY FinishDoes DEF IInv, Commit
  <2>2. CASE UNCHANGED tables /\ \E i \in Ids \ doomed[w] : row[i] # NoRow /\ row[i].finding = job[w].finding
    BY <1>1, <2>0, <2>1, <2>2 DEF IInv, TypeOK, tables, On
  <2>3. CASE /\ row' = [i \in Ids |-> IF i \in doomed[w] THEN NoRow ELSE row[i]]
             /\ existing' = existing \ {job[w].finding}
    <3>1. row' \in [Ids -> Row \cup {NoRow}]
      BY <2>3 DEF IInv, TypeOK
    <3>2. \A i \in Ids : row'[i] = IF i \in doomed[w] THEN NoRow ELSE row[i]
      BY <2>3
    <3> QED BY <1>1, <2>0, <2>1, <2>3, <3>1, <3>2 DEF On
  <2> QED BY <2>2, <2>3 DEF Commit
<1>3. TypeOK'
  BY <1>2 DEF IInv, TypeOK
<1>4. Moves(w)
  <2>1. \A i \in doomed[w] : row[i] # NoRow /\ i \in Ids /\ row[i].finding = f
    BY <1>1, Holds DEF On
  <2>2. \A i \in Ids : row'[i] = row[i] \/ {row[i], row'[i]} \subseteq {NoRow} \cup {r \in Row : r.finding = f}
    BY <1>2, <2>1 DEF IInv, TypeOK
  <2> QED BY <1>1, <1>2, <2>2 DEF Commit, Moves, On
<1>5. Duty(w)'
  BY <1>2, Holds, Rests DEF Commit, Closing
<1>6. Duties'
  <2>1. ASSUME NEW x \in Workers \ {w}, NEW i \in doomed[x] PROVE row'[i] = row[i]
    <3>1. pc[x] \in Closing /\ i \in Ids /\ row[i].finding = job[x].finding
      BY <2>1, Holds
    <3>2. i \notin doomed[w]
      <4>1. SUFFICES ASSUME i \in doomed[w] PROVE FALSE
        OBVIOUS
      <4>2. job[w].finding = job[x].finding
        BY <3>1, <4>1, Holds
      <4> QED BY <2>1, <3>1, <4>2 DEF IInv, Duties, On, Commit, Closing
    <3> QED BY <1>2, <3>1, <3>2
  <2>2. \A x \in Workers \ {w} : handle'[x] # NoPath =>
           pc[x] = "write" /\ file'[job[x].finding][handle'[x]] # Absent
    BY <1>2, Holds
  <2>3. \A x \in Workers \ {w} : pc[x] = "remove" => row'[job[x].id] \in {row[job[x].id], NoRow}
    BY <1>2, Holds DEF Removing
  <2> QED BY <1>2, <1>3, <1>4, <1>5, <2>1, <2>2, <2>3, DutiesStep DEF Closing
<1>7. Once(f)'
  BY <1>1, <1>2, <1>3, <1>4, OnceStep DEF Commit, Storing
<1>8. Sole(f)'
  BY <1>1, <1>2, <1>3, <1>4, SoleStep DEF Commit, Storing
<1>9. Apart(f)'
  BY <1>1, <1>2, <1>3, <1>4, ApartStep DEF Commit, Storing, Closing
<1>10. Kept(f)'
  <2>1. SUFFICES ASSUME mishaps'[f] \cap {"raced", "undone"} = {} PROVE Kept(f)'
    BY DEF Kept
  <2>2. /\ \A i \in Ids : row[i] # NoRow /\ row[i].finding = f => i \in doomed[w]
        /\ \A x \in Workers : On(x, f) => x = w
    BY <1>1, <1>2, <2>1 DEF IInv, Local, Apart, Commit, Closing, Storing
  <2>3. \A i \in doomed[w] : row'[i] = NoRow
    BY <1>1, <1>2, <2>2, Holds
  <2>4. \A c : Attached(f, c)' = {}
    BY <1>2, <2>2, <2>3 DEF Attached
  <2>5. \A x \in Workers : job'[x].finding # f
    BY <1>1, <1>2, <2>2, AttachmentsAssumption DEF On, NoJob
  <2> QED BY <2>4, <2>5 DEF Kept, On
<1>11. Owned(f)'
  <2>1. "raced" \notin mishaps'[f] => \A p \in Paths : file'[f][p] = Absent
    BY <1>1, <1>2 DEF IInv, Local, Apart, Commit
  <2> QED BY <1>1, <1>2, <1>3, <1>4, <2>1, OwnedStep
<1> QED BY <1>1, <1>3, <1>4, <1>6, <1>7, <1>8, <1>9, <1>10, <1>11, Suffices DEF Local

LEMMA InsertStep ==
    ASSUME IInv, NEW w \in Workers, Insert(w) PROVE IInv'
<1>1. PICK f \in FindingIds : On(w, f)
  BY Busy DEF IInv, Insert, On, Storing
<1>a. PICK c \in Contents : c = job[w].content
  BY Busy DEF IInv, Insert, Storing
<1>2. /\ pc' \in [Workers -> Labels] /\ job' \in [Workers -> Job]
      /\ \A x \in Workers \ {w} : pc'[x] = pc[x] /\ job'[x] = job[x]
      /\ pc'[w] = "idle" /\ job'[w] = NoJob
      /\ row' \in [Ids -> Row \cup {NoRow}]
      /\ \/ row' = row /\ f \notin existing
         \/ \E i \in Ids : /\ row[i] = NoRow /\ row'[i] = [finding |-> f, digest |-> c]
                           /\ \A k \in Ids \ {i} : row'[k] = row[k]
                           /\ \A x \in Workers : job[x].id # i
      /\ UNCHANGED <<existing, file, handle, doomed, mishaps>>
  <2>1. /\ pc' \in [Workers -> Labels] /\ job' \in [Workers -> Job]
        /\ \A x \in Workers \ {w} : pc'[x] = pc[x] /\ job'[x] = job[x]
        /\ pc'[w] = "idle" /\ job'[w] = NoJob
        /\ UNCHANGED <<existing, file, handle, doomed, mishaps>>
    BY FinishDoes DEF IInv, Insert
  <2>2. CASE f \notin existing
    BY <1>1, <2>1, <2>2 DEF Insert, On, IInv, TypeOK
  <2>3. CASE f \in existing
    <3>1. PICK i \in Ids : /\ row[i] = NoRow /\ \A x \in Workers : job[x].id # i
                           /\ row' = [row EXCEPT ![i] = [finding |-> f, digest |-> c]]
      BY <1>1, <1>a, <2>3 DEF Insert, On
    <3> QED BY <1>a, <2>1, <3>1 DEF IInv, TypeOK, Row
  <2> QED BY <2>2, <2>3
<1>3. TypeOK'
  BY <1>2 DEF IInv, TypeOK
<1>4. Moves(w)
  BY <1>1, <1>2, AttachmentsAssumption DEF Insert, Moves, On, Row
<1>5. Duty(w)'
  BY <1>2, Holds, Rests DEF Insert, Closing
<1>6. Duties'
  <2>1. \A x \in Workers \ {w} : handle'[x] # NoPath =>
           pc[x] = "write" /\ file'[job[x].finding][handle'[x]] # Absent
    BY <1>2, Holds
  <2>2. \A x \in Workers \ {w} : pc[x] = "remove" => row'[job[x].id] \in {row[job[x].id], NoRow}
    BY <1>2, Holds DEF Removing
  <2>3. ASSUME NEW x \in Workers \ {w}, NEW i \in doomed[x] PROVE row'[i] = row[i]
    <3>1. i \in Ids /\ row[i] # NoRow
      BY <2>3, Holds
    <3> QED BY <1>2, <3>1
  <2> QED BY <1>2, <1>3, <1>4, <1>5, <2>1, <2>2, <2>3, DutiesStep DEF Closing
<1>7. Once(f)'
  <2>1. CASE row' = row
    BY <1>1, <1>2, <1>3, <1>4, <2>1, OnceStep DEF Insert, Storing
  <2>2. CASE \E i \in Ids : /\ row[i] = NoRow /\ row'[i] = [finding |-> f, digest |-> c]
                            /\ \A k \in Ids \ {i} : row'[k] = row[k]
    <3>1. SUFFICES ASSUME "doubled" \notin mishaps[f] PROVE Once(f)'
      BY <1>2 DEF Once
    <3>2. Once(f)
      BY DEF IInv, Local
    <3>3. PICK i \in Ids : /\ row[i] = NoRow /\ row'[i] = [finding |-> f, digest |-> c]
                           /\ \A k \in Ids \ {i} : row'[k] = row[k]
      BY <2>2
    <3>4. Attached(f, c)' = {i} /\ \A d \in Contents \ {c} : Attached(f, d)' = Attached(f, d)
      <4>1. Attached(f, c) = {}
        BY <1>1, <1>a, <3>1, <3>2 DEF Once, Insert
      <4>2. [finding |-> f, digest |-> c] # NoRow
        BY <1>a, AttachmentsAssumption
      <4>3. ASSUME NEW k \in Ids PROVE k \in Attached(f, c)' <=> k = i
        BY <3>3, <4>1, <4>2, <4>3 DEF Attached
      <4>4. ASSUME NEW d \in Contents \ {c}, NEW k \in Ids
            PROVE  k \in Attached(f, d)' <=> k \in Attached(f, d)
        BY <3>3, <4>4 DEF Attached
      <4> QED BY <4>3, <4>4 DEF Attached
    <3>5. \A d \in Contents : \A j, k \in Attached(f, d)' : j = k
      BY <3>1, <3>2, <3>4 DEF Once
    <3>6. ASSUME NEW x \in Workers, job'[x].finding = f
          PROVE  x # w /\ On(x, f) /\ job'[x] = job[x] /\ pc'[x] = pc[x]
      BY <1>2, <3>6, AttachmentsAssumption DEF On, NoJob
    <3>7. ASSUME NEW x \in Workers, job'[x].finding = f, pc'[x] = "insert"
          PROVE  \A d : d = job'[x].content => Attached(f, d)' = {}
      <4>1. job[x].content # c
        BY <1>1, <1>a, <3>1, <3>2, <3>6, <3>7 DEF Once, Insert, Storing
      <4>2. job[x].content \in Contents /\ Attached(f, job[x].content) = {}
        BY <3>1, <3>2, <3>6, <3>7, Busy DEF Once, IInv, Storing
      <4> QED BY <3>4, <3>6, <3>7, <4>1, <4>2
    <3> QED BY <3>1, <3>2, <3>5, <3>6, <3>7 DEF Once, On
  <2> QED BY <1>2, <2>1, <2>2
<1>8. Sole(f)'
  BY <1>1, <1>2, <1>3, <1>4, SoleStep DEF Insert, Storing
<1>9. Apart(f)'
  BY <1>1, <1>2, <1>3, <1>4, ApartStep DEF Insert, Storing, Closing
<1>10. Kept(f)'
  <2>1. ASSUME NEW d \in Contents \ {c} PROVE Attached(f, d)' \subseteq Attached(f, d)
    BY <1>2, <2>1 DEF Attached
  <2>2. mishaps[f] \cap {"raced", "undone"} = {} => file[f][Blob(c)] # Absent
    BY <1>1, <1>a DEF IInv, Local, Kept, Insert, At, On, Final
  <2> QED BY <1>1, <1>2, <1>3, <1>4, <2>1, <2>2, KeptStep DEF Insert
<1>11. Owned(f)'
  <2> SUFFICES ASSUME mishaps'[f] \cap {"raced", "killed"} = {} PROVE Owned(f)'
    BY DEF Owned
  <2>1. f \in existing
    BY <1>1, <1>2 DEF IInv, Local, Apart
  <2>2. Attached(f, c)' # {}
    <3>1. [finding |-> f, digest |-> c] # NoRow
      BY <1>a, AttachmentsAssumption
    <3> QED BY <1>2, <2>1, <3>1 DEF Attached
  <2>3. ASSUME NEW d \in Contents, Attached(f, d) # {} PROVE Attached(f, d)' # {}
    BY <1>2, <2>1, <2>3 DEF Attached
  <2> QED BY <1>a, <1>1, <1>2, <1>3, <1>4, <2>2, <2>3, OwnedStep DEF Insert, Mine, Final
<1> QED BY <1>1, <1>3, <1>4, <1>6, <1>7, <1>8, <1>9, <1>10, <1>11, Suffices DEF Local

LEMMA CrashStep ==
    ASSUME IInv, NEW w \in Workers, Crash(w) PROVE IInv'
<1>1. PICK f \in FindingIds : On(w, f)
  BY Busy DEF IInv, Crash, On, Storing
<1>2. /\ pc' \in [Workers -> Labels] /\ job' \in [Workers -> Job]
      /\ \A x \in Workers \ {w} : pc'[x] = pc[x] /\ job'[x] = job[x]
      /\ pc[w] # "idle" /\ pc'[w] = "idle" /\ job'[w] = NoJob
      /\ handle' \in [Workers -> Paths \cup {NoPath}] /\ handle'[w] = NoPath
      /\ doomed' \in [Workers -> SUBSET Ids] /\ doomed'[w] = {}
      /\ \A x \in Workers \ {w} : handle'[x] = handle[x] /\ doomed'[x] = doomed[x]
      /\ mishaps' \in [FindingIds -> SUBSET {"raced", "collided", "doubled", "killed", "undone"}]
      /\ mishaps[f] \subseteq mishaps'[f] /\ "killed" \in mishaps'[f]
      /\ \A g \in FindingIds \ {f} : mishaps'[g] = mishaps[g]
      /\ pc[w] = "commit" => "undone" \in mishaps'[f]
      /\ UNCHANGED <<row, existing, file>>
  <2>1. /\ pc' \in [Workers -> Labels] /\ job' \in [Workers -> Job]
        /\ \A x \in Workers \ {w} : pc'[x] = pc[x] /\ job'[x] = job[x]
        /\ pc'[w] = "idle" /\ job'[w] = NoJob
    BY FinishDoes DEF IInv, Crash
  <2>2. /\ mishaps' \in [FindingIds -> SUBSET {"raced", "collided", "doubled", "killed", "undone"}]
        /\ mishaps[f] \subseteq mishaps'[f] /\ "killed" \in mishaps'[f]
        /\ \A g \in FindingIds \ {f} : mishaps'[g] = mishaps[g]
        /\ pc[w] = "commit" => "undone" \in mishaps'[f]
    <3>1. mishaps' = [mishaps EXCEPT ![f] = @ \cup {"killed"} \cup IF pc[w] = "commit" THEN {"undone"} ELSE {}]
      BY <1>1 DEF Crash, On
    <3>2. CASE pc[w] = "commit"
      BY <3>1, <3>2 DEF IInv, TypeOK
    <3>3. CASE pc[w] # "commit"
      BY <3>1, <3>3 DEF IInv, TypeOK
    <3> QED BY <3>2, <3>3
  <2> QED BY <2>1, <2>2 DEF IInv, TypeOK, Crash, tables
<1>3. TypeOK'
  BY <1>2 DEF IInv, TypeOK
<1>4. Moves(w)
  BY <1>1, <1>2 DEF Crash, Moves, On
<1>5. Duty(w)'
  BY <1>2, Rests
<1>6. Duties'
  BY <1>2, <1>3, <1>4, <1>5, Untouched DEF Closing
<1>7. Once(f)'
  BY <1>1, <1>2, <1>3, <1>4, OnceStep DEF Crash, Storing
<1>8. Sole(f)'
  BY <1>1, <1>2, <1>3, <1>4, SoleStep DEF Crash, Storing
<1>9. Apart(f)'
  BY <1>1, <1>2, <1>3, <1>4, ApartStep DEF Crash, Storing, Closing
<1>10. Kept(f)'
  <2>1. CASE pc[w] = "commit"
    BY <1>2, <2>1 DEF Kept
  <2>2. CASE pc[w] # "commit"
    <3>1. \A c \in Contents : Attached(f, c)' = Attached(f, c)
      BY <1>2 DEF Attached
    <3> QED BY <1>1, <1>2, <1>3, <1>4, <2>2, <3>1, KeptStep
  <2> QED BY <2>1, <2>2
<1>11. Owned(f)'
  BY <1>2 DEF Owned
<1> QED BY <1>1, <1>3, <1>4, <1>6, <1>7, <1>8, <1>9, <1>10, <1>11, Suffices DEF Local

\* Beginning a request: what it overlaps is written down.
LEMMA TakeDoes ==
    ASSUME TypeOK, NEW w \in Workers, NEW j \in Job, NEW f \in FindingIds, j.finding = f,
           NEW l \in Labels \ {"idle"}, Take(w, j, l)
    PROVE  /\ pc' \in [Workers -> Labels] /\ job' \in [Workers -> Job]
           /\ pc[w] = "idle" /\ pc'[w] = l /\ job'[w] = j /\ f \in existing
           /\ \A x \in Workers \ {w} : pc'[x] = pc[x] /\ job'[x] = job[x]
           /\ UNCHANGED <<row, existing, file, handle, doomed>>
           /\ mishaps' \in [FindingIds -> SUBSET {"raced", "collided", "doubled", "killed", "undone"}]
           /\ \A g \in FindingIds \ {f} : mishaps'[g] = mishaps[g]
           /\ mishaps[f] \subseteq mishaps'[f]
           /\ \A x \in Workers : On(x, f) /\ pc[x] # "idle" =>
                 /\ {pc[x], l} \ Storing # {} => "raced" \in mishaps'[f]
                 /\ {pc[x], l} \subseteq Storing /\ job[x].temp = j.temp =>
                       "collided" \in mishaps'[f]
                 /\ {pc[x], l} \subseteq Storing /\ job[x].content = j.content =>
                       "doubled" \in mishaps'[f]
<1>1. /\ pc' = [pc EXCEPT ![w] = l] /\ job' = [job EXCEPT ![w] = j]
      /\ mishaps' = [mishaps EXCEPT ![f] = @ \cup Overlaps(j, l)]
      /\ pc[w] = "idle" /\ f \in existing
      /\ UNCHANGED <<row, existing, file, handle, doomed>>
  BY DEF Take, tables
<1>2. Overlaps(j, l) \subseteq {"raced", "collided", "doubled"}
  BY DEF Overlaps
<1>3. ASSUME NEW x \in Workers, On(x, f), pc[x] # "idle"
      PROVE  /\ {pc[x], l} \ Storing # {} => "raced" \in Overlaps(j, l)
             /\ {pc[x], l} \subseteq Storing /\ job[x].temp = j.temp => "collided" \in Overlaps(j, l)
             /\ {pc[x], l} \subseteq Storing /\ job[x].content = j.content => "doubled" \in Overlaps(j, l)
  <2>1. x \in Others(j)
    BY <1>3 DEF Others, On
  <2> QED BY <2>1 DEF Overlaps
<1>4. mishaps'[f] = mishaps[f] \cup Overlaps(j, l)
  BY <1>1 DEF TypeOK
<1> QED BY <1>1, <1>2, <1>3, <1>4 DEF TypeOK

\* The four beginnings, by the label they begin with.
LEMMA TakeStep ==
    ASSUME IInv, NEW w \in Workers, NEW j \in Job, NEW f \in FindingIds, j.finding = f,
           NEW l \in {"open", "check", "remove", "delete"}, Take(w, j, l),
           l \in {"open", "check"} => j.content \in Contents /\ j.temp \in Temps(j.content),
           l = "remove" =>
              /\ j.content \in Contents /\ j.id \in Ids
              /\ row[j.id] = [finding |-> f, digest |-> j.content]
    PROVE  IInv'
<1>a. l \in Labels \ {"idle"} /\ TypeOK
  BY DEF Labels, Storing, IInv
<1>1. /\ pc' \in [Workers -> Labels] /\ job' \in [Workers -> Job]
      /\ pc[w] = "idle" /\ pc'[w] = l /\ job'[w] = j /\ f \in existing
      /\ \A x \in Workers \ {w} : pc'[x] = pc[x] /\ job'[x] = job[x]
      /\ UNCHANGED <<row, existing, file, handle, doomed>>
      /\ mishaps' \in [FindingIds -> SUBSET {"raced", "collided", "doubled", "killed", "undone"}]
      /\ \A g \in FindingIds \ {f} : mishaps'[g] = mishaps[g]
      /\ mishaps[f] \subseteq mishaps'[f]
  BY <1>a, TakeDoes, SMTT(30)
<1>2. \A x \in Workers : On(x, f) /\ pc[x] # "idle" =>
         /\ {pc[x], l} \ Storing # {} => "raced" \in mishaps'[f]
         /\ {pc[x], l} \subseteq Storing /\ job[x].temp = j.temp => "collided" \in mishaps'[f]
         /\ {pc[x], l} \subseteq Storing /\ job[x].content = j.content => "doubled" \in mishaps'[f]
  BY <1>a, TakeDoes, SMTT(30)
<1>3. TypeOK'
  BY <1>1 DEF IInv, TypeOK
<1>4. job[w].finding = NoFinding /\ \A x \in Workers : On(x, f) => pc[x] # "idle" /\ x # w
  <2>1. \A x \in Workers : pc[x] = "idle" <=> job[x].finding = NoFinding
    BY DEF IInv, Duties, Duty, On
  <2> QED BY <1>1, <2>1, AttachmentsAssumption DEF On
<1>5. ASSUME NEW g \in FindingIds, g # f PROVE Local(g)'
  <2>1. \A x \in Workers : On(x, g)' <=> On(x, g)
    BY <1>1, <1>4, <1>5, AttachmentsAssumption DEF On
  <2>2. \A x \in Workers : On(x, g) => x # w
    BY <1>4, AttachmentsAssumption DEF On
  <2> QED BY <1>1, <1>3, <1>5, <2>1, <2>2, Elsewhere DEF IInv
<1>6. Duties'
  <2>1. ASSUME NEW x \in Workers \ {w} PROVE Duty(x)'
    BY <1>1 DEF IInv, Duties, Duty, On, At
  <2>2. Duty(w)'
    <3>1. handle[w] = NoPath /\ doomed[w] = {}
      BY <1>1, Holds DEF Closing
    <3>2. l \notin Closing /\ (l \in Storing => l \in {"open", "check"}) /\ (l \in Removing => l = "remove")
      BY DEF Storing, Removing, Closing
    <3> QED BY <1>1, <3>1, <3>2, AttachmentsAssumption DEF Duty, On
  <2>3. \A x, y \in Workers :
           {pc'[x], pc'[y]} \subseteq Closing /\ job'[y].finding = job'[x].finding => x = y
    BY <1>1 DEF IInv, Duties, On, Closing
  <2> QED BY <2>1, <2>2, <2>3 DEF Duties, On
<1>7. \A c : Attached(f, c)' = Attached(f, c)
  BY <1>1 DEF Attached
<1>8. \A x \in Workers : job'[x].finding = f /\ x # w => On(x, f) /\ pc'[x] = pc[x] /\ job'[x] = job[x]
  BY <1>1 DEF On
<1>9. Once(f)'
  <2>1. SUFFICES ASSUME "doubled" \notin mishaps'[f] PROVE Once(f)'
    BY DEF Once
  <2>2. Once(f) /\ "doubled" \notin mishaps[f]
    BY <1>1, <2>1 DEF IInv, Local
  <2>3. ASSUME NEW x \in Workers, job'[x].finding = f, pc'[x] = "insert", NEW c, job'[x].content = c
        PROVE  Attached(f, c)' = {}
    <3>1. On(x, f) /\ pc[x] = "insert" /\ job[x].content = c
      BY <1>1, <1>8, <2>3
    <3>2. Attached(f, job[x].content) = {}
      BY <2>2, <3>1 DEF Once
    <3> QED BY <1>7, <3>1, <3>2
  <2>4. ASSUME NEW x \in Workers, NEW y \in Workers, job'[x].finding = f, job'[y].finding = f,
               {pc'[x], pc'[y]} \subseteq Storing, job'[x].content = job'[y].content
        PROVE  x = y
    BY <1>1, <1>2, <1>4, <1>8, <2>1, <2>2, <2>4 DEF Once
  <2> QED BY <1>7, <2>1, <2>2, <2>3, <2>4 DEF Once, On
<1>10. Sole(f)'
  <2>1. SUFFICES ASSUME "collided" \notin mishaps'[f] PROVE Sole(f)'
    BY DEF Sole
  <2>2. Sole(f) /\ "collided" \notin mishaps[f]
    BY <1>1, <2>1 DEF IInv, Local
  <2>3. ASSUME NEW x \in Workers, NEW y \in Workers, job'[x].finding = f, job'[y].finding = f,
               {pc'[x], pc'[y]} \subseteq Storing, job'[x].temp = job'[y].temp
        PROVE  x = y
    BY <1>1, <1>2, <1>4, <1>8, <2>1, <2>2, <2>3 DEF Sole
  <2> QED BY <1>1, <1>8, <2>2, <2>3 DEF Sole, On, At
<1>11. Apart(f)'
  <2>1. SUFFICES ASSUME "raced" \notin mishaps'[f] PROVE Apart(f)'
    BY DEF Apart
  <2>2. Apart(f) /\ "raced" \notin mishaps[f]
    BY <1>1, <2>1 DEF IInv, Local
  <2>3. ASSUME NEW x \in Workers, NEW y \in Workers, job'[x].finding = f, job'[y].finding = f, x # y
        PROVE  {pc'[x], pc'[y]} \subseteq Storing
    BY <1>1, <1>2, <1>4, <1>8, <2>1, <2>2, <2>3 DEF Apart
  <2>4. ASSUME NEW x \in Workers, job'[x].finding = f, pc'[x] = "unlink", NEW c, job'[x].content = c
        PROVE  Attached(f, c)' = {}
    <3>1. On(x, f) /\ pc[x] = "unlink" /\ job[x].content = c
      BY <1>1, <1>8, <2>4
    <3>2. Attached(f, job[x].content) = {}
      BY <2>2, <3>1 DEF Apart
    <3> QED BY <1>7, <3>1, <3>2
  <2>5. ASSUME NEW x \in Workers, job'[x].finding = f
        PROVE  /\ pc'[x] \in Closing =>
                     \A i \in Ids : row'[i] # NoRow /\ row'[i].finding = f => i \in doomed'[x]
               /\ pc'[x] = "commit" => \A p \in Paths : file'[f][p] = Absent
    BY <1>1, <1>8, <2>2, <2>5 DEF Apart, Closing
  <2>6. \A x, y \in Workers : On(x, f)' /\ On(y, f)' => x = y \/ {pc'[x], pc'[y]} \subseteq Storing
    BY <2>3 DEF On
  <2> QED BY <1>1, <2>4, <2>5, <2>6 DEF Apart, On
<1>12. Kept(f)'
  <2>1. Deleting(f)' <=> Deleting(f)
    BY <1>1, <1>4 DEF Deleting, On
  <2> QED BY <1>1, <1>7, <1>8, <2>1 DEF IInv, Local, Kept, On, At, Final
<1>13. Owned(f)'
  <2>1. ASSUME NEW p, NEW x \in Workers, On(x, f), Mine(x, p) PROVE On(x, f)' /\ Mine(x, p)'
    BY <1>1, <1>4, <2>1 DEF On, Mine, Final
  <2> QED BY <1>1, <1>7, <2>1 DEF IInv, Local, Owned
<1> QED BY <1>3, <1>5, <1>6, <1>9, <1>10, <1>11, <1>12, <1>13 DEF IInv, Local

LEMMA BeginUploadStep ==
    ASSUME IInv, NEW w \in Workers, NEW f \in FindingIds, NEW n \in Names, NEW c \in Contents,
           BeginUpload(w, f, n, c)
    PROVE  IInv'
<1> DEFINE j == [NoJob EXCEPT !.finding = f, !.content = c, !.temp = Temp(n)]
<1>1. Temp(n) \in Temps(c) /\ Temp(n) \in Paths
  BY Disjoint DEF Temps
<1>2. j \in Job /\ j.finding = f /\ j.content = c /\ j.temp = Temp(n)
  BY <1>1 DEF NoJob, Job
<1>3. Take(w, j, "open")
  BY DEF BeginUpload
<1> HIDE DEF j
<1> QED BY <1>1, <1>2, <1>3, TakeStep

LEMMA BeginImageStep ==
    ASSUME IInv, NEW w \in Workers, NEW f \in FindingIds, NEW c \in Contents, BeginImage(w, f, c)
    PROVE  IInv'
<1> DEFINE j == [NoJob EXCEPT !.finding = f, !.content = c, !.temp = TempBytes(c)]
<1>1. TempBytes(c) \in Temps(c) /\ TempBytes(c) \in Paths
  BY Disjoint DEF Temps
<1>2. j \in Job /\ j.finding = f /\ j.content = c /\ j.temp = TempBytes(c)
  BY <1>1 DEF NoJob, Job
<1>3. Take(w, j, "check")
  BY DEF BeginImage
<1> HIDE DEF j
<1> QED BY <1>1, <1>2, <1>3, TakeStep

LEMMA BeginRemoveStep ==
    ASSUME IInv, NEW w \in Workers, NEW i \in Ids, BeginRemove(w, i)
    PROVE  IInv'
<1>1. PICK f \in FindingIds, c \in Contents : row[i] = [finding |-> f, digest |-> c]
  BY DEF BeginRemove, IInv, TypeOK, Row
<1> DEFINE j == [NoJob EXCEPT !.finding = f, !.content = c, !.id = i]
<1>2. j \in Job /\ j.finding = f /\ j.content = c /\ j.id = i
  BY DEF NoJob, Job
<1>3. Take(w, j, "remove")
  BY <1>1 DEF BeginRemove
<1> HIDE DEF j
<1> QED BY <1>1, <1>2, <1>3, TakeStep

LEMMA BeginDeleteStep ==
    ASSUME IInv, NEW w \in Workers, NEW f \in FindingIds, BeginDelete(w, f)
    PROVE  IInv'
<1> DEFINE j == [NoJob EXCEPT !.finding = f]
<1>1. j \in Job /\ j.finding = f
  BY DEF NoJob, Job
<1>2. Take(w, j, "delete")
  BY DEF BeginDelete
<1> HIDE DEF j
<1> QED BY <1>1, <1>2, TakeStep

LEMMA SaveFindingStep ==
    ASSUME IInv, NEW f \in FindingIds, SaveFinding(f)
    PROVE  IInv'
<1>1. UNCHANGED <<row, file, pc, job, handle, doomed, mishaps>> /\ existing' = existing \cup {f}
  BY DEF SaveFinding
<1>2. TypeOK'
  BY <1>1 DEF IInv, TypeOK
<1>3. Duties'
  BY <1>1 DEF IInv, Duties, Duty, On, At
<1>4. ASSUME NEW g \in FindingIds PROVE Local(g)'
  <2>1. \A x \in Workers : On(x, g)' <=> On(x, g)
    BY <1>1 DEF On
  <2> QED BY <1>1, <1>2, <2>1, Elsewhere DEF IInv
<1> QED BY <1>2, <1>3, <1>4 DEF IInv

-----------------------------------------------------------------------------
(* The invariant.                                                          *)

LEMMA InitInv ==
    ASSUME Init PROVE IInv
<1>1. TypeOK
  BY DEF Init, TypeOK, NoJob, Job, Labels, Values
<1>2. Duties
  BY AttachmentsAssumption DEF Init, Duties, Duty, On, NoJob, Storing, Removing, Closing
<1>3. ASSUME NEW f \in FindingIds PROVE Local(f)
  <2>1. \A w \in Workers : ~On(w, f)
    BY AttachmentsAssumption DEF Init, On, NoJob
  <2>2. \A c : Attached(f, c) = {}
    BY DEF Init, Attached
  <2>3. \A p \in Paths : file[f][p] = Absent
    BY DEF Init
  <2>4. Once(f) /\ Sole(f) /\ Apart(f)
    BY <2>1, <2>2, <2>3, Disjoint DEF Once, Sole, Apart
  <2>5. Kept(f) /\ Owned(f)
    BY <2>1, <2>2, <2>3 DEF Kept, Owned
  <2> QED BY <2>4, <2>5 DEF Local
<1> QED BY <1>1, <1>2, <1>3 DEF IInv

LEMMA StutterInv ==
    ASSUME IInv, UNCHANGED vars PROVE IInv'
<1>1. UNCHANGED <<row, existing, file, pc, job, handle, doomed, mishaps>>
  BY DEF vars
<1>2. TypeOK'
  BY <1>1 DEF IInv, TypeOK
<1>3. Duties'
  BY <1>1 DEF IInv, Duties, Duty, On, At
<1>4. ASSUME NEW g \in FindingIds PROVE Local(g)'
  <2>1. \A x \in Workers : On(x, g)' <=> On(x, g)
    BY <1>1 DEF On
  <2> QED BY <1>1, <1>2, <2>1, Elsewhere DEF IInv
<1> QED BY <1>2, <1>3, <1>4 DEF IInv

LEMMA NextInv ==
    ASSUME IInv, [Next]_vars PROVE IInv'
<1>1. ASSUME NEW w \in Workers, NEW f \in FindingIds,
             \/ BeginDelete(w, f)
             \/ \E c \in Contents : BeginImage(w, f, c) \/ \E n \in Names : BeginUpload(w, f, n, c)
      PROVE  IInv'
  BY <1>1, BeginDeleteStep, BeginImageStep, BeginUploadStep
<1>2. ASSUME NEW w \in Workers,
             \/ CheckImage(w) \/ Open(w) \/ Write(w) \/ WriteFails(w) \/ Place(w) \/ Keep(w)
             \/ Clear(w) \/ Look(w) \/ Insert(w)
      PROVE  IInv'
  BY <1>2, CheckImageStep, OpenStep, WriteStep, WriteFailsStep, PlaceStep, KeepStep, ClearStep,
     LookStep, InsertStep
<1>3. ASSUME NEW w \in Workers,
             \/ RemoveRow(w) \/ Last(w) \/ DeleteBlob(w) \/ DeleteRows(w) \/ Purge(w) \/ Commit(w)
             \/ Crash(w) \/ \E i \in Ids : BeginRemove(w, i)
      PROVE  IInv'
  BY <1>3, RemoveRowStep, LastStep, DeleteBlobStep, DeleteRowsStep, PurgeStep, CommitStep,
     CrashStep, BeginRemoveStep
<1>4. ASSUME NEW f \in FindingIds, SaveFinding(f) PROVE IInv'
  BY <1>4, SaveFindingStep
<1>5. CASE UNCHANGED vars
  BY <1>5, StutterInv
<1> QED BY <1>1, <1>2, <1>3, <1>4, <1>5 DEF Next

\* The invariant, and under it the properties of Attachments.
THEOREM Invariant == Spec => []IInv
  BY InitInv, NextInv, PTL DEF Spec

\* The values the tables, the directories and the workers' variables take.
THEOREM TypeCorrect == Spec => []TypeOK
<1>1. IInv => TypeOK
  BY DEF IInv
<1> QED BY <1>1, Invariant, PTL

\* hash_and_store and store_bytes: whatever fails, is killed or deleted, the
\* bytes under a digest are those it is made from, at every finding where no
\* two uploads have used one temporary file at a time.
THEOREM BlobsMatch == Spec => []BlobsMatchNamesUnlessCollided
<1>1. IInv => BlobsMatchNamesUnlessCollided
  BY DEF IInv, Local, Sole, BlobsMatchNamesUnlessCollided
<1> QED BY <1>1, Invariant, PTL

\* download: the bytes of an attachment's row are there, however many uploads
\* overlap, unless a removal or a deletion of the finding overlapped another
\* request or did not commit.
THEOREM BytesKept == Spec => []RowsHaveBytes
<1>1. ASSUME IInv, NEW i \in Ids, row[i] # NoRow
      PROVE  \/ file[row[i].finding][Blob(row[i].digest)] # Absent
             \/ Deleting(row[i].finding)
             \/ mishaps[row[i].finding] \cap {"raced", "undone"} # {}
  <2>1. PICK f \in FindingIds, c \in Contents : row[i] = [finding |-> f, digest |-> c]
    BY <1>1 DEF IInv, TypeOK, Row
  <2>2. i \in Attached(f, c) /\ row[i].finding = f /\ row[i].digest = c
    BY <1>1, <2>1 DEF Attached
  <2> QED BY <1>1, <2>2 DEF IInv, Local, Kept
<1>2. IInv => RowsHaveBytes
  BY <1>1 DEF RowsHaveBytes
<1> QED BY <1>2, Invariant, PTL

\* delete_attachment, purge_finding_bucket and the handlers of failed writes:
\* at a finding that nobody works on no bytes stay without a row, unless a
\* removal or a deletion overlapped something or a request was killed.
THEOREM NothingLeft == Spec => []NoBytesLeft
<1>1. IInv => NoBytesLeft
  BY DEF IInv, Local, Owned, NoBytesLeft, On
<1> QED BY <1>1, Invariant, PTL

\* upload and attach_inline_image: a finding has the same bytes attached at
\* most once, unless two uploads of them have overlapped.
THEOREM AttachedAtMostOnce == Spec => []AttachedOnce
<1>1. ASSUME IInv, NEW f \in FindingIds, NEW c \in Contents, "doubled" \notin mishaps[f]
      PROVE  Cardinality(Attached(f, c)) <= 1
  <2>1. \A i, j \in Attached(f, c) : i = j
    BY <1>1 DEF IInv, Local, Once
  <2>2. CASE Attached(f, c) = {}
    BY <2>2, FS_EmptySet
  <2>3. CASE Attached(f, c) # {}
    <3>1. PICK i : Attached(f, c) = {i}
      BY <2>1, <2>3
    <3> QED BY <3>1, FS_Singleton
  <2> QED BY <2>2, <2>3
<1>2. IInv => AttachedOnce
  BY <1>1 DEF AttachedOnce
<1> QED BY <1>2, Invariant, PTL
=============================================================================
