---------------------------- MODULE Attachments ----------------------------
(***************************************************************************)
(* The artifacts of findings (apps/attachments): rows in the database, and *)
(* bytes in a directory per finding, under the sha256 they are named by.   *)
(* No transaction joins the two, and no lock orders two requests.          *)
(*                                                                         *)
(* Each system call and each statement is a step, except that reading the  *)
(* finding begins a request and making its directory belongs to the first  *)
(* use of a file.  An open file keeps its identity when it is renamed and  *)
(* loses its path when it is unlinked.  An upload of several files is as   *)
(* many requests here.  Sizes, types, scans, who may upload or delete, and *)
(* the views that only read are left out.                                  *)
(***************************************************************************)
EXTENDS Naturals, FiniteSets

CONSTANTS
    FindingIds,   \* the primary keys of findings
    Names,        \* the names uploaded files come with
    Contents,     \* the bytes uploaded, which also stand for their digests
    Ids,          \* the primary keys of attachments, a bound
    Workers,      \* threads serving requests
    Faulty,       \* the workers that may be killed
    Absent,       \* no file
    Empty,        \* a file just opened for writing
    Mixed,        \* bytes that are nobody's upload
    NoPath, NoFinding, NoContent, NoId, NoRow

ASSUME AttachmentsAssumption ==
    /\ Faulty \subseteq Workers
    /\ Absent # Empty /\ Absent # Mixed /\ Empty # Mixed
    /\ {Absent, Empty, Mixed, NoContent} \cap Contents = {}
    /\ NoFinding \notin FindingIds /\ NoId \notin Ids
    /\ NoRow \notin [finding : FindingIds, digest : Contents]
    /\ NoPath \notin ({"tmp"} \X Names) \cup ({"bytes", "blob"} \X Contents)

VARIABLES
    row,       \* the Attachment rows
    existing,  \* the findings that have a row
    file,      \* the directory of each finding
    pc,
    job,       \* what a worker's request is about
    handle,    \* the path of the file a worker has open for writing
    doomed,    \* the rows a worker's open transaction has deleted
    mishaps    \* history: what overlapped or went wrong at each finding

tables == <<row, existing>>
vars == <<row, existing, file, pc, job, handle, doomed, mishaps>>

-----------------------------------------------------------------------------
(* Data.                                                                   *)

Temp(n) == <<"tmp", n>>          \* hash_and_store: .tmp-<hash of the name>
TempBytes(c) == <<"bytes", c>>   \* store_bytes: .tmp-bytes-<digest>
Blob(c) == <<"blob", c>>         \* path_for
Paths == {Temp(n) : n \in Names} \cup {TempBytes(c) : c \in Contents}
             \cup {Blob(c) : c \in Contents}

Values == Contents \cup {Absent, Empty, Mixed}

Row == [finding : FindingIds, digest : Contents]

Job == [finding : FindingIds \cup {NoFinding}, content : Contents \cup {NoContent},
        temp : Paths \cup {NoPath}, id : Ids \cup {NoId}]

NoJob == [finding |-> NoFinding, content |-> NoContent, temp |-> NoPath, id |-> NoId]

Storing == {"check", "open", "write", "place", "keep", "clear", "look", "insert"}
Labels == Storing \cup {"idle", "remove", "last", "unlink", "delete", "purge", "commit"}

\* attachments.filter(finding=f, sha256_hash=c)
Attached(f, c) == {i \in Ids : row[i] # NoRow /\ row[i] = [finding |-> f, digest |-> c]}

\* The file named by path p, and by the blob of the job's content.
At(w, p) == file[job[w].finding][p]
Final(w) == Blob(job[w].content)

Init ==
    /\ row = [i \in Ids |-> NoRow]
    /\ existing = FindingIds
    /\ file = [f \in FindingIds |-> [p \in Paths |-> Absent]]
    /\ pc = [w \in Workers |-> "idle"]
    /\ job = [w \in Workers |-> NoJob]
    /\ handle = [w \in Workers |-> NoPath]
    /\ doomed = [w \in Workers |-> {}]
    /\ mishaps = [f \in FindingIds |-> {}]

-----------------------------------------------------------------------------
(* Moving a worker.                                                        *)

Goto(w, label) ==
    /\ pc' = [pc EXCEPT ![w] = label]
    /\ UNCHANGED job

Finish(w) ==
    /\ pc' = [pc EXCEPT ![w] = "idle"]
    /\ job' = [job EXCEPT ![w] = NoJob]

\* The requests under way on the finding of job j.
Others(j) == {w \in Workers : pc[w] # "idle" /\ job[w].finding = j.finding}

\* What is remarkable about starting job j, whose first step is label, now.
Overlaps(j, label) ==
    {m \in {"raced", "collided", "doubled"} :
        \E w \in Others(j) :
            CASE m = "raced" -> {pc[w], label} \ Storing # {}
              [] m = "collided" -> {pc[w], label} \subseteq Storing /\ job[w].temp = j.temp
              [] m = "doubled" -> {pc[w], label} \subseteq Storing /\ job[w].content = j.content}

Take(w, j, label) ==
    /\ pc[w] = "idle" /\ j.finding \in existing
    /\ pc' = [pc EXCEPT ![w] = label]
    /\ job' = [job EXCEPT ![w] = j]
    /\ mishaps' = [mishaps EXCEPT ![j.finding] = @ \cup Overlaps(j, label)]
    /\ UNCHANGED <<tables, file, handle, doomed>>

\* The bound on rows: enough keys are left for every upload under way.
Room ==
    Cardinality({w \in Workers : pc[w] \in Storing}) < Cardinality({i \in Ids : row[i] = NoRow})

-----------------------------------------------------------------------------
(* The file system.                                                        *)

\* Worker w's directory becomes d, and open files get the paths new gives.
Store(w, d, new(_)) ==
    /\ file' = [file EXCEPT ![job[w].finding] = d]
    /\ handle' = [x \in Workers |->
                    IF job[x].finding = job[w].finding THEN new(handle[x]) ELSE handle[x]]

Unlink(w, p) ==
    Store(w, [file[job[w].finding] EXCEPT ![p] = Absent],
          LAMBDA h : IF h = p THEN NoPath ELSE h)

\* The file at p replaces what is at q.
Rename(w, p, q) ==
    Store(w, [file[job[w].finding] EXCEPT ![p] = Absent, ![q] = file[job[w].finding][p]],
          LAMBDA h : IF h = p THEN q ELSE IF h = q THEN NoPath ELSE h)

-----------------------------------------------------------------------------
(* Storing an upload.                                                      *)

\* upload, one of its files: hash_and_store begins.
BeginUpload(w, f, n, c) ==
    /\ Room
    /\ Take(w, [NoJob EXCEPT !.finding = f, !.content = c, !.temp = Temp(n)], "open")

\* upload_image and attach_inline_image: store_bytes begins.
BeginImage(w, f, c) ==
    /\ Room
    /\ Take(w, [NoJob EXCEPT !.finding = f, !.content = c, !.temp = TempBytes(c)], "check")

\* store_bytes: nothing is written when the blob is there.
CheckImage(w) ==
    /\ pc[w] = "check"
    /\ Goto(w, IF At(w, Final(w)) = Absent THEN "open" ELSE "look")
    /\ UNCHANGED <<tables, file, handle, doomed, mishaps>>

\* Variant: the temporary file is opened for appending.
Open_Append(w) ==
    /\ pc[w] = "open"
    /\ file' = [file EXCEPT ![job[w].finding][job[w].temp] = IF @ = Absent THEN Empty ELSE @]
    /\ handle' = [handle EXCEPT ![w] = job[w].temp]
    /\ Goto(w, "write")
    /\ UNCHANGED <<tables, doomed, mishaps>>

\* open("wb"): the file is made or truncated.  It fails when the directory was
\* removed with the finding after it was made.
Open(w) ==
    /\ pc[w] = "open"
    /\ \/ /\ file' = [file EXCEPT ![job[w].finding][job[w].temp] = Empty]
          /\ handle' = [handle EXCEPT ![w] = job[w].temp]
          /\ Goto(w, "write")
       \/ /\ job[w].finding \notin existing
          /\ Finish(w)
          /\ UNCHANGED <<file, handle>>
    /\ UNCHANGED <<tables, doomed, mishaps>>

\* Somebody else has written, or may yet write, to the file w has open.
Shares(w) ==
    \/ At(w, handle[w]) # Empty
    \/ \E x \in Workers \ {w} : job[x].finding = job[w].finding /\ handle[x] = handle[w]

\* The chunks are written and the file is closed; chunks of two writers mix.
Write(w) ==
    /\ pc[w] = "write"
    /\ IF handle[w] = NoPath THEN UNCHANGED file
       ELSE \E value \in {job[w].content} \cup (IF Shares(w) THEN {Mixed} ELSE {}) :
               file' = [file EXCEPT ![job[w].finding][handle[w]] = value]
    /\ handle' = [handle EXCEPT ![w] = NoPath]
    /\ Goto(w, IF job[w].temp = TempBytes(job[w].content) THEN "keep" ELSE "place")
    /\ UNCHANGED <<tables, doomed, mishaps>>

\* The disk refuses the bytes.
WriteFails(w) ==
    /\ pc[w] = "write"
    /\ handle' = [handle EXCEPT ![w] = NoPath]
    /\ Goto(w, "clear")
    /\ UNCHANGED <<tables, file, doomed, mishaps>>

\* hash_and_store: bytes already stored are dropped; an error if they are gone.
Place(w) ==
    /\ pc[w] = "place"
    /\ IF At(w, Final(w)) = Absent
       THEN Goto(w, "keep") /\ UNCHANGED <<file, handle>>
       ELSE /\ Unlink(w, job[w].temp)
            /\ Goto(w, IF At(w, job[w].temp) = Absent THEN "clear" ELSE "look")
    /\ UNCHANGED <<tables, doomed, mishaps>>

\* tmp.rename(final); an error if the temporary file is gone.
Keep(w) ==
    /\ pc[w] = "keep"
    /\ IF At(w, job[w].temp) = Absent
       THEN Goto(w, "clear") /\ UNCHANGED <<file, handle>>
       ELSE Rename(w, job[w].temp, Final(w)) /\ Goto(w, "look")
    /\ UNCHANGED <<tables, doomed, mishaps>>

\* except: the temporary file is removed, whoever made it, and the error raised.
Clear(w) ==
    /\ pc[w] = "clear"
    /\ Unlink(w, job[w].temp)
    /\ Finish(w)
    /\ UNCHANGED <<tables, doomed, mishaps>>

\* Variant: the row of an attachment already there is not looked for.
Look_Always(w) ==
    /\ pc[w] = "look"
    /\ Goto(w, "insert")
    /\ UNCHANGED <<tables, file, handle, doomed, mishaps>>

\* Bytes already attached to the finding get no second row.
Look(w) ==
    /\ pc[w] = "look"
    /\ IF Attached(job[w].finding, job[w].content) = {} THEN Goto(w, "insert") ELSE Finish(w)
    /\ UNCHANGED <<tables, file, handle, doomed, mishaps>>

\* A deletion of the finding is about to commit.
Deleting(f) == \E w \in Workers : pc[w] = "commit" /\ job[w].finding = f

\* Variant: the row names the temporary file.
Insert_Temp(w) ==
    /\ pc[w] = "insert" /\ ~Deleting(job[w].finding)
    /\ \E i \in Ids :
          /\ row[i] = NoRow
          /\ row' = [row EXCEPT ![i] = [finding |-> job[w].finding, digest |-> job[w].temp]]
    /\ Finish(w)
    /\ UNCHANGED <<existing, file, handle, doomed, mishaps>>

\* The INSERT, whose foreign key waits for a deletion of the finding and fails
\* when that has committed.  Keys are never used twice.
Insert(w) ==
    /\ pc[w] = "insert" /\ ~Deleting(job[w].finding)
    /\ IF job[w].finding \in existing
       THEN \E i \in Ids :
               /\ row[i] = NoRow /\ \A x \in Workers : job[x].id # i
               /\ row' = [row EXCEPT ![i] = [finding |-> job[w].finding,
                                             digest |-> job[w].content]]
       ELSE UNCHANGED row
    /\ Finish(w)
    /\ UNCHANGED <<existing, file, handle, doomed, mishaps>>

-----------------------------------------------------------------------------
(* Removing an attachment.                                                 *)

BeginRemove(w, i) ==
    /\ row[i] # NoRow
    /\ Take(w, [NoJob EXCEPT !.finding = row[i].finding, !.content = row[i].digest, !.id = i],
            "remove")

\* att.delete(), which waits for a transaction that has deleted the row.
RemoveRow(w) ==
    /\ pc[w] = "remove" /\ \A x \in Workers : job[w].id \notin doomed[x]
    /\ row' = [row EXCEPT ![job[w].id] = NoRow]
    /\ Goto(w, "last")
    /\ UNCHANGED <<existing, file, handle, doomed, mishaps>>

\* Variant: the bytes are not kept for another row.
Last_Always(w) ==
    /\ pc[w] = "last"
    /\ Goto(w, "unlink")
    /\ UNCHANGED <<tables, file, handle, doomed, mishaps>>

\* Does another row of the finding have the same bytes?
Last(w) ==
    /\ pc[w] = "last"
    /\ IF Attached(job[w].finding, job[w].content) = {} THEN Goto(w, "unlink") ELSE Finish(w)
    /\ UNCHANGED <<tables, file, handle, doomed, mishaps>>

\* delete_blob
DeleteBlob(w) ==
    /\ pc[w] = "unlink"
    /\ Unlink(w, Final(w))
    /\ Finish(w)
    /\ UNCHANGED <<tables, doomed, mishaps>>

-----------------------------------------------------------------------------
(* Deleting a finding: one transaction, and a signal sent inside it.       *)

BeginDelete(w, f) == Take(w, [NoJob EXCEPT !.finding = f], "delete")

\* The cascade: DELETE of the rows there are, unseen by others until COMMIT.
\* It waits for another deletion of the finding.
DeleteRows(w) ==
    /\ pc[w] = "delete"
    /\ \A x \in Others(job[w]) : pc[x] \notin {"purge", "commit"}
    /\ doomed' = [doomed EXCEPT ![w] = {i \in Ids : /\ row[i] # NoRow
                                                    /\ row[i].finding = job[w].finding}]
    /\ Goto(w, "purge")
    /\ UNCHANGED <<tables, file, handle, mishaps>>

\* Variant: the signal leaves the bytes.
Purge_RowsOnly(w) ==
    /\ pc[w] = "purge"
    /\ Goto(w, "commit")
    /\ UNCHANGED <<tables, file, handle, doomed, mishaps>>

\* DELETE of the finding, then post_delete: purge_finding_bucket.
Purge(w) ==
    /\ pc[w] = "purge"
    /\ Store(w, [p \in Paths |-> Absent], LAMBDA h : NoPath)
    /\ Goto(w, "commit")
    /\ UNCHANGED <<tables, doomed, mishaps>>

\* COMMIT, refused if a row was inserted after the cascade.
Commit(w) ==
    /\ pc[w] = "commit"
    /\ IF \E i \in Ids \ doomed[w] : row[i] # NoRow /\ row[i].finding = job[w].finding
       THEN UNCHANGED tables
       ELSE /\ row' = [i \in Ids |-> IF i \in doomed[w] THEN NoRow ELSE row[i]]
            /\ existing' = existing \ {job[w].finding}
    /\ doomed' = [doomed EXCEPT ![w] = {}]
    /\ Finish(w)
    /\ UNCHANGED <<file, handle, mishaps>>

\* finding_edit: save() inserts a finding again that was deleted meanwhile.
SaveFinding(f) ==
    /\ f \notin existing
    /\ existing' = existing \cup {f}
    /\ UNCHANGED <<row, file, pc, job, handle, doomed, mishaps>>

\* The bound on kills: one at a finding.
NoneKilled(f) == "killed" \notin mishaps[f]

\* The process is killed, or a statement fails: the rest is never run and the
\* transaction is rolled back; files stay as they are.
Crash(w) ==
    /\ w \in Faulty /\ pc[w] # "idle" /\ NoneKilled(job[w].finding)
    /\ mishaps' = [mishaps EXCEPT ![job[w].finding] =
                     @ \cup {"killed"} \cup IF pc[w] = "commit" THEN {"undone"} ELSE {}]
    /\ handle' = [handle EXCEPT ![w] = NoPath]
    /\ doomed' = [doomed EXCEPT ![w] = {}]
    /\ Finish(w)
    /\ UNCHANGED <<tables, file>>

-----------------------------------------------------------------------------
Next ==
    \/ \E w \in Workers, f \in FindingIds :
          \/ BeginDelete(w, f)
          \/ \E c \in Contents : BeginImage(w, f, c) \/ \E n \in Names : BeginUpload(w, f, n, c)
    \/ \E w \in Workers :
          \/ CheckImage(w) \/ Open(w) \/ Write(w) \/ WriteFails(w) \/ Place(w) \/ Keep(w)
          \/ Clear(w) \/ Look(w) \/ Insert(w)
          \/ RemoveRow(w) \/ Last(w) \/ DeleteBlob(w)
          \/ DeleteRows(w) \/ Purge(w) \/ Commit(w) \/ Crash(w)
          \/ \E i \in Ids : BeginRemove(w, i)
    \/ \E f \in FindingIds : SaveFinding(f)

Spec == Init /\ [][Next]_vars

-----------------------------------------------------------------------------
(* Correctness.                                                            *)

\* The values the tables, the directories and the workers' variables take.
TypeOK ==
    /\ row \in [Ids -> Row \cup {NoRow}]
    /\ existing \subseteq FindingIds
    /\ file \in [FindingIds -> [Paths -> Values]]
    /\ pc \in [Workers -> Labels]
    /\ job \in [Workers -> Job]
    /\ handle \in [Workers -> Paths \cup {NoPath}]
    /\ doomed \in [Workers -> SUBSET Ids]
    /\ mishaps \in [FindingIds -> SUBSET {"raced", "collided", "doubled", "killed", "undone"}]

\* storage.py: a file is stored under the sha256 of its bytes, and the comment
\* in hash_and_store has the temporary name avoid collisions of uploads.
BlobsMatchNames ==
    \A f \in FindingIds, c \in Contents : file[f][Blob(c)] \in {Absent, c}

\* The same unless two uploads used one temporary file at a time: no other
\* overlap, failed write, deletion or kill puts wrong bytes under a digest.
BlobsMatchNamesUnlessCollided ==
    \A f \in FindingIds, c \in Contents :
        "collided" \notin mishaps[f] => file[f][Blob(c)] \in {Absent, c}

\* download: the bytes of every attachment are there, unless a removal or
\* deletion overlapped something or was killed before its COMMIT.  Uploads
\* may overlap, collide and be killed.
RowsHaveBytes ==
    \A i \in Ids :
        row[i] # NoRow =>
            \/ file[row[i].finding][Blob(row[i].digest)] # Absent
            \/ Deleting(row[i].finding)
            \/ mishaps[row[i].finding] \cap {"raced", "undone"} # {}

\* hash_and_store, delete_attachment, purge_finding_bucket: at a finding that
\* nobody works on, every file is the blob of a row, unless a removal or
\* deletion overlapped something or a request was killed.
NoBytesLeft ==
    \A f \in FindingIds :
        mishaps[f] \cap {"raced", "killed"} = {} /\ (\A w \in Workers : job[w].finding # f) =>
            \A p \in Paths : file[f][p] # Absent =>
                \E c \in Contents : p = Blob(c) /\ Attached(f, c) # {}

\* upload and attach_inline_image: a finding has bytes attached once, unless
\* two uploads of them overlapped.
AttachedOnce ==
    \A f \in FindingIds, c \in Contents :
        "doubled" \notin mishaps[f] => Cardinality(Attached(f, c)) <= 1
=============================================================================
