----------------------------- MODULE NewFinding -----------------------------
(***************************************************************************)
(* The form of a new finding, and the images pasted or dropped into it     *)
(* (static/js/embed_image.js, finding_new, finding_new_upload_image and    *)
(* finding_edit of apps/findings/views.py, upload_image of                 *)
(* apps/attachments/views.py).  The first image creates the finding; the   *)
(* answer tells the page, which then works on that finding.                *)
(*                                                                         *)
(* One page, whose requests are handled and answered in any order.  The    *)
(* user may go back to a form that was sent, whether it was saved or not,  *)
(* and send it again.  The text of the form is what it says of each image: *)
(* nothing, a placeholder, that the upload failed, or a link to the image  *)
(* at some finding.  Other fields, hosts, the files behind attachments and *)
(* the deletion of findings are left out.                                  *)
(***************************************************************************)
EXTENDS Naturals, FiniteSets

CONSTANTS
    Images,      \* the images that are dropped, each once
    Findings,    \* the primary keys of findings, a bound
    MaxSubmits,  \* bound: how many submitted forms are under way at a time
    NoFinding, NoImage, NoRow

ASSUME NewFindingAssumption ==
    /\ NoFinding \notin Findings /\ NoImage \notin Images /\ MaxSubmits \in Nat
    /\ NoRow \notin [Images -> Findings \cup {"none", "placeholder", "failed"}]
    /\ Findings \cap {"none", "placeholder", "failed"} = {}

VARIABLES
    open,       \* the page shows the form
    target,     \* the finding the form is submitted to, once the page knows it
    uploads,    \* the finding its images are sent to, once the page knows it
    text,       \* the text in the form
    requests,   \* the requests and answers under way
    row,        \* the text of each finding, if there is a row
    attached,   \* the images attached to each finding
    submitted,  \* history: the findings a form was submitted for
    crossed     \* history: the page may not have known of its finding

vars == <<open, target, uploads, text, requests, row, attached, submitted, crossed>>

-----------------------------------------------------------------------------
Text == [Images -> Findings \cup {"none", "placeholder", "failed"}]

Blank == [i \in Images |-> "none"]

\* A request to create a finding with an image, to upload an image to a
\* finding, or with the whole form; later its answer.  A creation that has
\* "begun" has an open transaction.  The page may not be waiting any more.
Request ==
    [kind : {"create", "upload", "submit"}, stage : {"sent", "begun", "done", "refused"},
     image : Images \cup {NoImage}, to : Findings \cup {NoFinding}, text : Text,
     waiting : BOOLEAN]

Existing == {f \in Findings : row[f] # NoRow}

Creating == {r \in requests : r.kind = "create"}

Init ==
    /\ open = TRUE /\ target = NoFinding /\ uploads = NoFinding /\ text = Blank
    /\ requests = {}
    /\ row = [f \in Findings |-> NoRow]
    /\ attached = [f \in Findings |-> {}]
    /\ submitted = {}
    /\ crossed = FALSE

server == <<row, attached, submitted>>

\* Request r moves on as q.
Replace(r, q) == requests' = (requests \ {r}) \cup {q}

-----------------------------------------------------------------------------
(* The page.                                                               *)

\* The page sends r while others are under way; r creates a finding unless the
\* page has got one.
Send(r, others) ==
    /\ requests' = others \cup {r}
    /\ crossed' = (crossed \/ (r.to = NoFinding /\ Creating # {}))

\* Variant: promoteForm leaves the upload URL as it was.
DropImage_Creates(i) ==
    /\ open /\ text[i] = "none"
    /\ text' = [text EXCEPT ![i] = "placeholder"]
    /\ Send([kind |-> "create", stage |-> "sent", image |-> i, to |-> NoFinding,
             waiting |-> TRUE, text |-> text'], requests)
    /\ UNCHANGED <<open, target, uploads, server>>

\* dispatchUpload: the placeholder is inserted, then the image is sent.
DropImage(i) ==
    /\ open /\ text[i] = "none"
    /\ text' = [text EXCEPT ![i] = "placeholder"]
    /\ Send([kind |-> IF uploads = NoFinding THEN "create" ELSE "upload", stage |-> "sent",
             image |-> i, to |-> uploads, waiting |-> TRUE,
             text |-> IF uploads = NoFinding THEN text' ELSE Blank], requests)
    /\ UNCHANGED <<open, target, uploads, server>>

\* The page is left, and nobody waits for answers about images.
Leave == open' = FALSE /\ target' = NoFinding /\ text' = Blank

Unheard == {[r EXCEPT !.waiting = FALSE] : r \in requests}

Submits == {r \in requests : r.kind = "submit"}

\* The form is submitted to finding_new or finding_edit.
Submit ==
    /\ open /\ Cardinality(Submits) < MaxSubmits
    /\ Send([kind |-> "submit", stage |-> "sent", image |-> NoImage, to |-> target,
             waiting |-> TRUE, text |-> text], Unheard)
    /\ Leave
    /\ UNCHANGED <<uploads, server>>

\* The page is left without submitting.
Close ==
    /\ open
    /\ Leave
    /\ requests' = Unheard
    /\ UNCHANGED <<uploads, server, crossed>>

\* Variant: promoteForm replaces the upload URL and leaves the form's action.
Answer_NotPromoted(r) ==
    /\ r \in requests /\ r.kind # "submit" /\ r.stage \in {"done", "refused"}
    /\ requests' = requests \ {r}
    /\ IF r.waiting
       THEN /\ text' = [text EXCEPT ![r.image] = IF r.stage = "done" THEN r.to ELSE "failed"]
            /\ uploads' = IF r.kind = "create" /\ r.stage = "done" THEN r.to ELSE uploads
       ELSE UNCHANGED <<text, uploads>>
    /\ UNCHANGED <<open, target, server, crossed>>

\* Variant: an error is taken for the answer to an upload.
Answer_Any(r) ==
    /\ r \in requests /\ r.kind # "submit" /\ r.stage \in {"done", "refused"}
    /\ requests' = requests \ {r}
    /\ IF r.waiting
       THEN /\ text' = [text EXCEPT ![r.image] = r.to]
            /\ target' = IF r.kind = "create" THEN r.to ELSE target
       ELSE UNCHANGED <<text, target>>
    /\ UNCHANGED <<open, uploads, server, crossed>>

\* promoteForm: the form is submitted to the finding that was created; images
\* are sent to it unless they already go to a finding, which another answer
\* has told.
Promote(f) == target' = f /\ uploads' = IF uploads = NoFinding THEN f ELSE uploads

\* The answer to an image: promoteForm and replaceOnce.
Answer(r) ==
    /\ r \in requests /\ r.kind # "submit" /\ r.stage \in {"done", "refused"}
    /\ requests' = requests \ {r}
    /\ IF r.waiting
       THEN text' = [text EXCEPT ![r.image] = IF r.stage = "done" THEN r.to ELSE "failed"]
       ELSE UNCHANGED text
    /\ IF r.waiting /\ r.kind = "create" /\ r.stage = "done"
       THEN Promote(r.to)
       ELSE UNCHANGED <<target, uploads>>
    /\ UNCHANGED <<open, server, crossed>>

\* The answer gets lost: the page takes the upload as failed.
LoseAnswer(r) ==
    /\ r \in requests /\ r.kind # "submit" /\ r.stage = "done"
    /\ Replace(r, [r EXCEPT !.stage = "refused"])
    /\ crossed' = (crossed \/ r.kind = "create")
    /\ UNCHANGED <<open, target, uploads, text, server>>

\* The page shows the form that was sent with r: rendered by the server it sends
\* images where it is submitted to; come back to it is as it was.
Reopen(r) ==
    /\ open' = TRUE /\ target' = r.to /\ text' = r.text
    /\ uploads' \in {uploads, r.to}

\* The submitted form is invalid and rendered again, or the user goes back to it
\* after a request that failed before it has saved anything.
Rerender(r) ==
    /\ r \in Submits /\ r.stage = "refused"
    /\ requests' = requests \ {r}
    /\ IF r.waiting THEN Reopen(r) ELSE UNCHANGED <<open, target, uploads, text>>
    /\ UNCHANGED <<server, crossed>>

\* The redirect to the finding that was saved, which leaves the form.
Redirected(r) ==
    /\ r \in Submits /\ r.stage = "done"
    /\ requests' = requests \ {r}
    /\ UNCHANGED <<open, target, uploads, text, server, crossed>>

\* The user stops waiting and has the form again: before the request is handled,
\* or when it has saved the finding but failed afterwards or its answer was lost.
GoBack(r) ==
    /\ r \in Submits /\ r.waiting /\ r.stage \in {"sent", "done"}
    /\ Replace(r, [r EXCEPT !.waiting = FALSE])
    /\ Reopen(r)
    /\ crossed' = (crossed \/ r.to = NoFinding)
    /\ UNCHANGED server

-----------------------------------------------------------------------------
(* The server.                                                             *)

\* A key no finding and no transaction has.
Fresh == {f \in Findings : row[f] = NoRow /\ \A r \in requests : r.to # f}

\* finding_new_upload_image: the transaction has inserted the finding.
BeginCreate(r) ==
    /\ r \in requests /\ r.kind = "create" /\ r.stage = "sent"
    /\ \E f \in Fresh : Replace(r, [r EXCEPT !.to = f, !.stage = "begun"])
    /\ UNCHANGED <<open, target, uploads, text, server, crossed>>

\* attach_inline_image, and COMMIT.
CommitCreate(r) ==
    /\ r \in requests /\ r.kind = "create" /\ r.stage = "begun"
    /\ row' = [row EXCEPT ![r.to] = r.text]
    /\ attached' = [attached EXCEPT ![r.to] = {r.image}]
    /\ Replace(r, [r EXCEPT !.stage = "done"])
    /\ UNCHANGED <<open, target, uploads, text, submitted, crossed>>

\* Variant: the finding is not in a transaction with its image.
Refuse_KeepsRow(r) ==
    /\ r \in requests /\ r.stage \in {"sent", "begun"}
    /\ row' = IF r.stage = "begun" THEN [row EXCEPT ![r.to] = r.text] ELSE row
    /\ Replace(r, [r EXCEPT !.stage = "refused"])
    /\ UNCHANGED <<open, target, uploads, text, attached, submitted, crossed>>

\* The form is invalid, the image is rejected, the request gets lost, or the
\* process is killed: a transaction is rolled back.
Refuse(r) ==
    /\ r \in requests /\ r.stage \in {"sent", "begun"}
    /\ Replace(r, [r EXCEPT !.stage = "refused"])
    /\ UNCHANGED <<open, target, uploads, text, server, crossed>>

\* upload_image
Upload(r) ==
    /\ r \in requests /\ r.kind = "upload" /\ r.stage = "sent"
    /\ attached' = [attached EXCEPT ![r.to] = @ \cup {r.image}]
    /\ Replace(r, [r EXCEPT !.stage = "done"])
    /\ UNCHANGED <<open, target, uploads, text, row, submitted, crossed>>

\* finding_new, when there is no finding the form is about, and finding_edit:
\* save() commits, whatever becomes of the rest of the request.
Save(r) ==
    /\ r \in Submits /\ r.stage = "sent"
    /\ \E f \in IF r.to = NoFinding THEN Fresh ELSE {r.to} :
          /\ row' = [row EXCEPT ![f] = r.text]
          /\ submitted' = submitted \cup {f}
    /\ Replace(r, [r EXCEPT !.stage = "done"])
    /\ UNCHANGED <<open, target, uploads, text, attached, crossed>>

-----------------------------------------------------------------------------
Next ==
    \/ Submit \/ Close
    \/ \E i \in Images : DropImage(i)
    \/ \E r \in requests :
          \/ Answer(r) \/ LoseAnswer(r) \/ Refuse(r)
          \/ Rerender(r) \/ Redirected(r) \/ GoBack(r)
          \/ BeginCreate(r) \/ CommitCreate(r) \/ Upload(r) \/ Save(r)

Spec == Init /\ [][Next]_vars

-----------------------------------------------------------------------------
(* Correctness.                                                            *)

\* The values of the page, the requests and the tables.
TypeOK ==
    /\ open \in BOOLEAN /\ text \in Text
    /\ target \in Findings \cup {NoFinding} /\ uploads \in Findings \cup {NoFinding}
    /\ requests \subseteq Request
    /\ row \in [Findings -> Text \cup {NoRow}]
    /\ attached \in [Findings -> SUBSET Images]
    /\ submitted \subseteq Findings /\ crossed \in BOOLEAN

\* embed_image.js, "From that point on the create form behaves exactly like the
\* edit form": a page makes one finding, unless it sent a second image or the
\* form before the answer to the image that creates it, or that answer got lost,
\* or the user went back to a form sent to finding_new that may have been saved.
OneFindingUnlessCrossed == ~crossed => Cardinality(Existing) <= 1

\* The links in a finding lead to images that are attached, and, under the same
\* condition, attached to that finding.
LinksLeadHome ==
    \A f \in Existing, i \in Images :
        row[f][i] \in Findings =>
            /\ i \in attached[row[f][i]]
            /\ crossed \/ row[f][i] = f

\* finding_new_upload_image, "a rejected image cannot leave a phantom Finding
\* behind": a finding that no form was submitted for has the image whose upload
\* created it, and the placeholder of the image in its text.
NoPhantom ==
    \A f \in Existing \ submitted :
        \E i \in attached[f] : row[f][i] = "placeholder"
=============================================================================
