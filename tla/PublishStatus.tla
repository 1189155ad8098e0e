--------------------------- MODULE PublishStatus ---------------------------
(***************************************************************************)
(* The two statuses that are to decide whether searches show an AI model   *)
(* or a data bank (the exclusion in QueryDecoder): dataUploadStatus, here  *)
(* "uploaded", and publishStatus, here "published".                        *)
(*                                                                         *)
(* POST and PUT item compute both before they write (validateAiModel and   *)
(* validateDataBank of ItemExistenceValidator, which are the same code),   *)
(* from the item found under the name in the body: by a search, thus in    *)
(* the index as last refreshed, and by name, thus not always the item of   *)
(* the request's id.  A client may send both itself: a PUT whose lookup    *)
(* finds no item writes them as they came.  The approval of an item and    *)
(* the upload of its data are written by services outside this repository. *)
(*                                                                         *)
(* The documents are those of one item type.  What a request is answered,  *)
(* and which writes the hit tests let through, is module ItemService's     *)
(* subject: here the tests may go either way.                              *)
(***************************************************************************)
EXTENDS Naturals

CONSTANTS
    Requests,   \* POST and PUT requests
    Ids,        \* document ids
    Names,      \* item names
    Bodies,     \* the bodies clients send (of Body)
    Seeds,      \* the documents the server starts with
    NoId,       \* no document id
    NoDoc       \* no document

Doc == [name : Names, media : BOOLEAN, uploaded : BOOLEAN, published : BOOLEAN]

\* A field of a JSON body that may be left out.
Optional == {"absent", "no", "yes"}

\* "media" is a mediaURL that is present and not blank.
Body == [name : Names, media : BOOLEAN, uploaded : Optional, published : Optional]

ASSUME StatusAssumption ==
    /\ Bodies \subseteq Body
    /\ Seeds \subseteq [Ids -> Doc \cup {NoDoc}]
    /\ NoDoc \notin Doc
    /\ NoId \notin Ids

VARIABLES
    docs,       \* the documents of the index, current
    visible,    \* and as searches see them, at the last refresh
    req,        \* the requests; "body" is completed by the validator
    pc,         \* where each request's handler stands
    hit,        \* the item the lookup by name found
    approved,   \* history: the ids whose item was approved
    borrowed,   \* history: the ids that took over that another one is published
    sent        \* history: the ids that a client's own body published

vars == <<docs, visible, req, pc, hit, approved, borrowed, sent>>
Index_vars == <<docs, visible>>
History == <<approved, borrowed, sent>>

NoRequest == [op |-> "none", id |-> NoId]
NoHit == [id |-> NoId, doc |-> NoDoc]

----------------------------------------------------------------------------
\* Helpers

Put(b) == IF b THEN "yes" ELSE "no"

\* The visible items of this name.
Namesakes(name) == {i \in Ids : visible[i] # NoDoc /\ visible[i].name = name}

\* Mutants: publishStatus is left to the client; a new item is published.
NewBody_NoStatus(b) == [b EXCEPT !.uploaded = Put(b.media)]

NewBody_Published(b) == [b EXCEPT !.uploaded = Put(b.media), !.published = "yes"]

\* What a POST stores.
NewBody(b) == [b EXCEPT !.uploaded = Put(b.media), !.published = "no"]

\* Mutants: the statuses are those of every new item; the upload of an item
\* without media is forgotten.
ChangedBody_AsNew(b, found) == [b EXCEPT !.uploaded = Put(b.media), !.published = "no"]

ChangedBody_NoUpload(b, found) ==
    [b EXCEPT !.uploaded = Put(b.media), !.published = Put(found.published)]

\* What a PUT stores when the lookup found an item.
ChangedBody(b, found) ==
    [b EXCEPT !.uploaded = Put(b.media \/ (found.uploaded /\ ~found.media)),
              !.published = Put(found.published)]

\* A document written whole, and one updated in part: Elasticsearch keeps what
\* the body leaves out.
Written(b) == [name |-> b.name, media |-> b.media,
               uploaded |-> b.uploaded = "yes", published |-> b.published = "yes"]

Merged(d, b) ==
    [name |-> b.name,
     media |-> b.media \/ d.media,
     uploaded |-> IF b.uploaded = "absent" THEN d.uploaded ELSE b.uploaded = "yes",
     published |-> IF b.published = "absent" THEN d.published ELSE b.published = "yes"]

Goto(r, place) == pc' = [pc EXCEPT ![r] = place]

----------------------------------------------------------------------------
\* POST and PUT item

Receive(r) ==
    /\ pc[r] = "idle"
    /\ \E op \in {"create", "update"}, i \in Ids, b \in Bodies :
          req' = [req EXCEPT ![r] = [op |-> op, id |-> i, body |-> b]]
    /\ Goto(r, "looking")
    /\ UNCHANGED <<Index_vars, hit, History>>

\* The lookup by name finds an item, any one of that name: a POST is refused,
\* a PUT takes its statuses over.
NameFound(r) ==
    /\ pc[r] = "looking"
    /\ \E i \in Namesakes(req[r].body.name) :
          /\ hit' = [hit EXCEPT ![r] = [id |-> i, doc |-> visible[i]]]
          /\ IF req[r].op = "create"
             THEN Goto(r, "done") /\ UNCHANGED req
             ELSE /\ req' = [req EXCEPT ![r].body = ChangedBody(@, visible[i])]
                  /\ Goto(r, "testing")
    /\ UNCHANGED <<Index_vars, History>>

\* It finds none: a PUT goes on with the body as the client sent it.
NameNotFound(r) ==
    /\ pc[r] = "looking"
    /\ Namesakes(req[r].body.name) = {}
    /\ req' = [req EXCEPT ![r].body = IF req[r].op = "create" THEN NewBody(@) ELSE @]
    /\ Goto(r, "testing")
    /\ UNCHANGED <<Index_vars, hit, History>>

\* The tests on the number of hits of the search for the id: the number is a
\* static that other requests overwrite, so they may go either way.
HitsTested(r) ==
    /\ pc[r] = "testing"
    /\ \E place \in {"writing", "done"} : Goto(r, place)
    /\ UNCHANGED <<Index_vars, req, hit, History>>

CreateItem(r) ==
    /\ pc[r] = "writing"
    /\ req[r].op = "create"
    /\ docs' = [docs EXCEPT ![req[r].id] = Written(req[r].body)]
    /\ Goto(r, "done")
    /\ UNCHANGED <<visible, req, hit, History>>

UpdateItem(r) ==
    /\ pc[r] = "writing"
    /\ req[r].op = "update"
    /\ docs[req[r].id] # NoDoc
    /\ docs' = [docs EXCEPT ![req[r].id] = Merged(@, req[r].body)]
    /\ borrowed' = IF hit[r].id \notin {NoId, req[r].id} /\ hit[r].doc.published
                   THEN borrowed \cup {req[r].id} ELSE borrowed
    /\ sent' = IF hit[r].id = NoId /\ req[r].body.published = "yes"
               THEN sent \cup {req[r].id} ELSE sent
    /\ Goto(r, "done")
    /\ UNCHANGED <<visible, req, hit, approved>>

\* A call fails, or the document to update does not exist.
Fail(r) ==
    /\ pc[r] \in {"looking", "testing", "writing"}
    /\ Goto(r, "done")
    /\ UNCHANGED <<Index_vars, req, hit, History>>

Handle(r) ==
    \/ Receive(r) \/ NameFound(r) \/ NameNotFound(r) \/ HitsTested(r)
    \/ CreateItem(r) \/ UpdateItem(r) \/ Fail(r)

----------------------------------------------------------------------------
\* Other writers of the index

\* DELETE item.
DeleteItem(i) ==
    /\ docs[i] # NoDoc
    /\ docs' = [docs EXCEPT ![i] = NoDoc]
    /\ UNCHANGED <<visible, req, pc, hit, History>>

\* A moderator publishes the item.
Approve(i) ==
    /\ docs[i] # NoDoc /\ ~docs[i].published
    /\ docs' = [docs EXCEPT ![i].published = TRUE]
    /\ approved' = approved \cup {i}
    /\ UNCHANGED <<visible, req, pc, hit, borrowed, sent>>

\* The storage service reports the upload of the item's data.
Upload(i) ==
    /\ docs[i] # NoDoc /\ ~docs[i].uploaded
    /\ docs' = [docs EXCEPT ![i].uploaded = TRUE]
    /\ UNCHANGED <<visible, req, pc, hit, History>>

Refresh(i) ==
    /\ visible[i] # docs[i]
    /\ visible' = [visible EXCEPT ![i] = docs[i]]
    /\ UNCHANGED <<docs, req, pc, hit, History>>

----------------------------------------------------------------------------
Init ==
    /\ docs \in Seeds
    /\ visible = docs
    /\ req = [r \in Requests |-> NoRequest]
    /\ pc = [r \in Requests |-> "idle"]
    /\ hit = [r \in Requests |-> NoHit]
    /\ approved = {i \in Ids : docs[i] # NoDoc /\ docs[i].published}
    /\ borrowed = {}
    /\ sent = {}

\* Every request of this instance has been handled and no more will arrive.
Quiet == (\A r \in Requests : pc[r] = "done") /\ UNCHANGED vars

Next ==
    \/ \E r \in Requests : Handle(r)
    \/ \E i \in Ids : DeleteItem(i) \/ Approve(i) \/ Upload(i) \/ Refresh(i)
    \/ Quiet

Spec == Init /\ [][Next]_vars

----------------------------------------------------------------------------
\* Properties

Request == [op : {"create", "update"}, id : Ids, body : Body]

\* Every variable has its type, and what the validator hands on carries both
\* statuses, except the body of a PUT whose lookup found nothing.
TypeOK ==
    /\ docs \in [Ids -> Doc \cup {NoDoc}]
    /\ visible \in [Ids -> Doc \cup {NoDoc}]
    /\ req \in [Requests -> Request \cup {NoRequest}]
    /\ pc \in [Requests -> {"idle", "looking", "testing", "writing", "done"}]
    /\ hit \in [Requests -> [id : Ids \cup {NoId}, doc : Doc \cup {NoDoc}]]
    /\ \A r \in Requests :
          pc[r] \in {"testing", "writing"} /\ (req[r].op = "create" \/ hit[r] # NoHit) =>
             req[r].body.uploaded # "absent" /\ req[r].body.published # "absent"
    /\ approved \subseteq Ids
    /\ borrowed \subseteq Ids
    /\ sent \subseteq Ids

IsPublished(d) == d # NoDoc /\ d.published

\* An item is published only if it was approved, or an update took the status
\* of another item of its name (a renamed item, or two items of one name), or an
\* update that renamed it to a name nobody has in the index as last refreshed
\* carried the status itself.  What was taken over goes back to one of the other
\* two.  A creation never publishes, and neither does an update of an item that
\* its lookup finds, whatever they send (ItemExistenceValidator sets and copies
\* publishStatus).
PublicationExplained ==
    /\ \A i \in Ids :
          IsPublished(docs[i]) \/ IsPublished(visible[i]) =>
             i \in approved \cup borrowed \cup sent
    /\ approved \cup sent = {} => \A i \in Ids : ~IsPublished(docs[i])

\* The request whose write this step is, if it is one to document i.
WritesTo(r, i) == pc[r] = "writing" /\ pc'[r] = "done" /\ req[r].id = i

\* The lookup of r found document i, published.
SawPublished(r, i) == hit[r].id = i /\ hit[r].doc.published

\* The lookup of r found no item, and the client's own body says no.
SaysNo(r, status) == hit[r].id = NoId /\ status = "no"

\* An approval is not taken back by an update (validateAiModel and
\* validateDataBank copy publishStatus) unless the update's lookup found
\* another item, or this one as it was before the approval, or found none and
\* the body takes it back; a POST may overwrite the item, as ItemService allows.
ApprovalIsKept ==
    [][\A i \in Ids :
        IsPublished(docs[i]) /\ docs'[i] # NoDoc /\ ~docs'[i].published =>
            \E r \in Requests :
                /\ WritesTo(r, i)
                /\ req[r].op = "update" =>
                      \/ hit[r].id # NoId /\ ~SawPublished(r, i)
                      \/ SaysNo(r, req[r].body.published)]_vars

\* The lookup of r found an item that makes an update without a media URL
\* forget the upload: one that has a media URL (the second half of the
\* validator's condition), or one that was not uploaded, be it another item or
\* this one as it was before the upload.
SawNoUpload(r) == hit[r].id # NoId /\ (hit[r].doc.media \/ ~hit[r].doc.uploaded)

\* An upload is not forgotten by an update unless it came without a media URL
\* and its lookup saw no upload that counts, or its lookup found no item and the
\* body says so; nor by a creation with a media URL.
UploadIsKept ==
    [][\A i \in Ids :
        docs[i] # NoDoc /\ docs[i].uploaded /\ docs'[i] # NoDoc /\ ~docs'[i].uploaded =>
            \E r \in Requests :
                /\ WritesTo(r, i)
                /\ \/ /\ ~req[r].body.media
                      /\ req[r].op = "update" => SawNoUpload(r)
                   \/ req[r].op = "update" /\ SaysNo(r, req[r].body.uploaded)]_vars
============================================================================
