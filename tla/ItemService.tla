---------------------------- MODULE ItemService ----------------------------
(***************************************************************************)
(* The item API of the catalogue server: ItemController, the validator it  *)
(* calls (ItemExistenceValidator), ItemServiceImpl, and the Elasticsearch  *)
(* service they reach over the event bus (ElasticsearchServiceImpl).       *)
(*                                                                         *)
(* A request is a chain of continuations.  Each one runs on an event loop  *)
(* without interruption, issues at most one call to the Elasticsearch      *)
(* service and ends; the next one runs when the reply arrives, or when the *)
(* event bus gives up on it after 30 s.  A call lives on after its chain   *)
(* gave up: it may still reach Elasticsearch and change the index.         *)
(*                                                                         *)
(* Elasticsearch reads and writes by id act on the index itself (docs);    *)
(* a search sees a document as it was at the last refresh (visible).       *)
(*                                                                         *)
(* The number of hits of a search is not part of its reply.  The service   *)
(* stores it in a static field of ElasticsearchResponse, one for the whole *)
(* JVM (totalHits), and the continuation reads it from there.              *)
(***************************************************************************)
EXTENDS Naturals, FiniteSets

CONSTANTS
    Requests,   \* requests; one model value per HTTP request
    Ids,        \* document ids
    Users,      \* subjects of bearer tokens
    Names,      \* item names
    Bodies,     \* the request bodies clients send (of [type, name, private, link])
    Ops,        \* the operations clients use
    Seeds,      \* the indexes the server may start with
    Anon,       \* the caller of a request without a token
    NoId,       \* no document id
    NoItem      \* no document

ItemTypes == {"AiModel", "DataBank", "Apps"}

\* What an item holds that the API's decisions depend on.  "link" stands for
\* the fields resourceGroup, provider, resourceServer and cos; "by" names the
\* request the rest of the content came from (NoId for a seeded document).
Body == [type : ItemTypes, name : Names, private : BOOLEAN, link : Ids \cup {NoId}]
Item == [type : ItemTypes, name : Names, private : BOOLEAN, link : Ids \cup {NoId},
         owner : Users, by : Requests \cup {NoId}]

Index == [Ids -> Item \cup {NoItem}]

ASSUME ItemAssumption ==
    /\ IsFiniteSet(Ids)
    /\ Bodies \subseteq Body
    /\ Ops \subseteq {"create", "update", "delete", "get", "search"}
    /\ Seeds \subseteq Index
    /\ NoId \notin Ids
    /\ NoItem \notin Item
    /\ Anon \notin Users

VARIABLES
    docs,       \* the item index, as operations by id see it
    visible,    \* the item index, as searches see it
    totalHits,  \* ElasticsearchResponse.totalHits
    req,        \* the requests received
    pc,         \* where each request's chain of continuations stands
    call,       \* each request's latest call to the Elasticsearch service
    resp,       \* the HTTP responses
    effect,     \* history: has the request changed the index
    intruded,   \* history: totalHits was overwritten between the callback of
                \* the request's own search and the continuation that reads it
    standing    \* history: ids whose visible document did not change since
                \* the request arrived

vars == <<docs, visible, totalHits, req, pc, call, resp, effect, intruded, standing>>

Index_vars == <<docs, visible>>
History == <<effect, intruded, standing>>

NoRequest == [op |-> "none", id |-> NoId, user |-> Anon, item |-> NoItem]
NoCall == [kind |-> "none", stage |-> "none", hits |-> 0, hit |-> NoId, source |-> NoItem]
NoResponse == [status |-> 0, why |-> "none", item |-> NoItem, total |-> 0]

SearchKinds == {"name", "id", "idAndType", "links", "listing"}
WriteKinds == {"index", "exists", "update", "delete"}

\* A call is issued, answered by Elasticsearch (searches only), and then
\* replied to, failed, or lost: nothing is ever sent back.
Stages == {"issued", "answered", "replied", "failed", "lost"}

\* A chain waits for the reply to its call, is between the two tests of
\* deleteItem, is hung on an exception nobody handles, or has ended.
Waiting == {"validating", "searching", "writing"}
Places == Waiting \cup {"idle", "rechecking", "hung", "done"}

----------------------------------------------------------------------------
\* Helpers

CallOf(kind) == [NoCall EXCEPT !.kind = kind, !.stage = "issued"]

\* Issue the next call of r's chain and wait for it.
Issue(r, c, place) ==
    /\ call' = [call EXCEPT ![r] = c]
    /\ pc' = [pc EXCEPT ![r] = place]

\* Answer r and end its chain.
Respond(r, status, why, item, total) ==
    /\ resp' = [resp EXCEPT ![r] = [status |-> status, why |-> why,
                                    item |-> item, total |-> total]]
    /\ pc' = [pc EXCEPT ![r] = "done"]

Refuse(r, status) == Respond(r, status, "refused", NoItem, 0)

\* handleOperationError and its like answer 400, getItem and the search 500.
FailureStatus(r) == IF req[r].op \in {"get", "search"} THEN 500 ELSE 400

Fail(r) == Respond(r, FailureStatus(r), "failed", NoItem, 0)

\* Mutant: the test for a missing subject is left out of ownershipCheck.
MayRead_Anonymous(user, item) == item.private => (user = Anon \/ user = item.owner)

MayRead(user, item) == item.private => (user # Anon /\ user = item.owner)

\* Document i answers the query of r's call.
Matching(r, i) ==
    LET q == req[r] IN
    \/ /\ call[r].kind = "name"
       /\ visible[i].type = q.item.type
       /\ visible[i].name = q.item.name
    \/ call[r].kind = "id" /\ i = q.id
    \/ call[r].kind = "idAndType" /\ i = q.id /\ visible[i].type = q.item.type
    \/ call[r].kind = "links" /\ (i = q.id \/ visible[i].link = q.id)
    \/ call[r].kind = "listing" /\ MayRead(q.user, visible[i])

Matches(r) == {i \in Ids : visible[i] # NoItem /\ Matching(r, i)}

\* What r's call can find: a listing narrows the documents further, by the
\* client's criteria and by their publish status.
Results(r) == IF call[r].kind = "listing" THEN SUBSET Matches(r) ELSE {Matches(r)}

\* Mutant: a field the request leaves out disappears from the document.
Merged_Replaces(old, new) ==
    IF new.link = NoId THEN [f \in DOMAIN new \ {"link"} |-> new[f]] ELSE new

\* A partial update keeps the fields the request leaves out: the encoder drops
\* nulls and empty values.  Of the modelled fields only "link" is optional.
Merged(old, new) == [new EXCEPT !.link = IF @ = NoId THEN old.link ELSE @]

----------------------------------------------------------------------------
\* The API server: a request arrives

Receive(r, q) ==
    /\ pc[r] = "idle"
    /\ req' = [req EXCEPT ![r] = q]
    /\ standing' = [standing EXCEPT ![r] = Ids]
    /\ UNCHANGED <<docs, visible, totalHits, effect, intruded>>

\* POST and PUT item: the owner is the caller; the name is looked up first.
\* An ill-formed id is answered at once, while the lookup goes on.
WriteRequest(r, op, i, u, b) ==
    [op |-> op, id |-> i, user |-> u,
     item |-> [type |-> b.type, name |-> b.name, private |-> b.private,
               link |-> b.link, owner |-> u, by |-> r]]

ReceiveWrite(r) ==
    \E op \in Ops \cap {"create", "update"}, i \in Ids, u \in Users, b \in Bodies :
      /\ Receive(r, WriteRequest(r, op, i, u, b))
      /\ call' = [call EXCEPT ![r] = CallOf("name")]
      /\ \/ pc' = [pc EXCEPT ![r] = "validating"] /\ UNCHANGED resp
         \/ Refuse(r, 400)

ReceiveDelete(r) ==
    \E i \in Ids, u \in Users :
      /\ "delete" \in Ops
      /\ Receive(r, [NoRequest EXCEPT !.op = "delete", !.id = i, !.user = u])
      /\ Issue(r, CallOf("links"), "searching")
      /\ UNCHANGED resp

ReceiveGet(r) ==
    \E i \in Ids, u \in Users \cup {Anon} :
      /\ "get" \in Ops
      /\ Receive(r, [NoRequest EXCEPT !.op = "get", !.id = i, !.user = u])
      /\ Issue(r, CallOf("id"), "searching")
      /\ UNCHANGED resp

ReceiveSearch(r) ==
    \E u \in Users \cup {Anon} :
      /\ "search" \in Ops
      /\ Receive(r, [NoRequest EXCEPT !.op = "search", !.user = u])
      /\ Issue(r, CallOf("listing"), "searching")
      /\ UNCHANGED resp

----------------------------------------------------------------------------
\* The API server: a reply arrives.  What the reply does not hold, the number
\* of hits, is read from totalHits.

At(r, place, kind) ==
    /\ pc[r] = place
    /\ call[r].kind = kind
    /\ call[r].stage = "replied"

\* Mutant: every validator trusts the static number of hits.
NameTaken_ByHits(r) == req[r].op = "create" /\ totalHits > 0

\* onSuccess of itemWithTheNameExists means the search found an item.
NameTaken(r) ==
    /\ req[r].op = "create"
    /\ call[r].hit # NoId
    /\ req[r].item.type = "Apps" => totalHits > 0

NameChecked(r) ==
    /\ At(r, "validating", "name")
    /\ IF NameTaken(r)
       THEN Refuse(r, 400) /\ UNCHANGED call
       ELSE /\ Issue(r, CallOf(IF req[r].op = "create" THEN "id" ELSE "idAndType"), "searching")
            /\ UNCHANGED resp
    /\ UNCHANGED <<Index_vars, totalHits, req, History>>

\* Mutants of createItem: the test is off by one; the refusal does not return.
CreateItem_OffByOne(r) ==
    /\ At(r, "searching", "id")
    /\ req[r].op = "create"
    /\ IF totalHits > 1
       THEN Refuse(r, 400) /\ UNCHANGED call
       ELSE Issue(r, CallOf("index"), "writing") /\ UNCHANGED resp
    /\ UNCHANGED <<Index_vars, totalHits, req, History>>

CreateItem_NoReturn(r) ==
    /\ At(r, "searching", "id")
    /\ req[r].op = "create"
    /\ IF totalHits > 0
       THEN Refuse(r, 400) /\ call' = [call EXCEPT ![r] = CallOf("index")]
       ELSE Issue(r, CallOf("index"), "writing") /\ UNCHANGED resp
    /\ UNCHANGED <<Index_vars, totalHits, req, History>>

CreateItem(r) ==
    /\ At(r, "searching", "id")
    /\ req[r].op = "create"
    /\ IF totalHits > 0
       THEN Refuse(r, 400) /\ UNCHANGED call
       ELSE Issue(r, CallOf("index"), "writing") /\ UNCHANGED resp
    /\ UNCHANGED <<Index_vars, totalHits, req, History>>

UpdateItem(r) ==
    /\ At(r, "searching", "idAndType")
    /\ IF totalHits = 0
       THEN Refuse(r, 400) /\ UNCHANGED call
       ELSE Issue(r, CallOf("exists"), "writing") /\ UNCHANGED resp
    /\ UNCHANGED <<Index_vars, totalHits, req, History>>

\* Mutant: two hits are taken for one.
DeleteTestMany_OffByOne(r) ==
    /\ At(r, "searching", "links")
    /\ IF totalHits > 2
       THEN Refuse(r, 400)
       ELSE pc' = [pc EXCEPT ![r] = "rechecking"] /\ UNCHANGED resp
    /\ UNCHANGED <<Index_vars, totalHits, req, call, History>>

\* deleteItem reads totalHits twice, and callbacks run on other threads.
DeleteTestMany(r) ==
    /\ At(r, "searching", "links")
    /\ IF totalHits > 1
       THEN Refuse(r, 400)
       ELSE pc' = [pc EXCEPT ![r] = "rechecking"] /\ UNCHANGED resp
    /\ UNCHANGED <<Index_vars, totalHits, req, call, History>>

\* Without a hit of its own the id to delete is null, which is refused.
DeleteTestFew(r) ==
    /\ At(r, "rechecking", "links")
    /\ IF totalHits < 1 \/ call[r].hit = NoId
       THEN Refuse(r, 400) /\ UNCHANGED call
       ELSE /\ Issue(r, [CallOf("delete") EXCEPT !.hit = call[r].hit], "writing")
            /\ UNCHANGED resp
    /\ UNCHANGED <<Index_vars, totalHits, req, History>>

\* A hit counted by somebody else's search leaves the source null: the
\* ownership check throws and the request's promise is never completed.
GetItem(r) ==
    /\ At(r, "searching", "id")
    /\ req[r].op = "get"
    /\ \/ totalHits = 0 /\ Refuse(r, 404)
       \/ /\ totalHits # 0 /\ call[r].hit = NoId
          /\ pc' = [pc EXCEPT ![r] = "hung"] /\ UNCHANGED resp
       \/ /\ totalHits # 0 /\ call[r].hit # NoId
          /\ IF MayRead(req[r].user, call[r].source)
             THEN Respond(r, 200, "ok", call[r].source, totalHits)
             ELSE Refuse(r, 500)
    /\ UNCHANGED <<Index_vars, totalHits, req, call, History>>

SearchItems(r) ==
    /\ At(r, "searching", "listing")
    /\ Respond(r, 200, "ok", NoItem, totalHits)
    /\ UNCHANGED <<Index_vars, totalHits, req, call, History>>

\* Mutant: the promise is completed when the write is issued.
WriteAcknowledged_Early(r) ==
    /\ pc[r] = "writing"
    /\ call[r].stage \in {"issued", "replied"}
    /\ Respond(r, IF req[r].op = "create" THEN 201 ELSE 200, "ok", NoItem, 0)
    /\ UNCHANGED <<Index_vars, totalHits, req, call, History>>

WriteAcknowledged(r) ==
    /\ pc[r] = "writing"
    /\ call[r].stage = "replied"
    /\ Respond(r, IF req[r].op = "create" THEN 201 ELSE 200, "ok", NoItem, 0)
    /\ UNCHANGED <<Index_vars, totalHits, req, call, History>>

CallFailed(r) ==
    /\ pc[r] \in Waiting
    /\ call[r].stage = "failed"
    /\ Fail(r)
    /\ UNCHANGED <<Index_vars, totalHits, req, call, History>>

\* The event bus stops waiting for the reply; the call itself goes on.
CallTimedOut(r) ==
    /\ pc[r] \in Waiting
    /\ Fail(r)
    /\ UNCHANGED <<Index_vars, totalHits, req, call, History>>

\* Mutant: the TimeoutHandler is not installed on the router.
RequestTimedOut_Absent(r) == pc[r] = "hung" /\ UNCHANGED vars

\* The router's TimeoutHandler; three calls of 30 s end before its 100 s.
RequestTimedOut(r) ==
    /\ pc[r] = "hung"
    /\ Respond(r, 408, "failed", NoItem, 0)
    /\ UNCHANGED <<Index_vars, totalHits, req, call, History>>

Continue(r) ==
    \/ NameChecked(r) \/ CreateItem(r) \/ UpdateItem(r)
    \/ DeleteTestMany(r) \/ DeleteTestFew(r)
    \/ GetItem(r) \/ SearchItems(r)
    \/ WriteAcknowledged(r) \/ CallFailed(r)

----------------------------------------------------------------------------
\* The Elasticsearch service

Pending(r, kind) == call[r].kind = kind /\ call[r].stage = "issued"

SetStage(r, stage) == call' = [call EXCEPT ![r].stage = stage]

API_vars == <<req, pc, resp>>

\* Elasticsearch evaluates a search and returns any one of the documents found
\* with their number (of a listing, the others matter to no decision).
EsSearch(r) ==
    /\ call[r].kind \in SearchKinds /\ call[r].stage = "issued"
    /\ \E found \in Results(r) :
       \E i \in (IF found = {} THEN {NoId} ELSE found) :
          call' = [call EXCEPT ![r] =
                     [@ EXCEPT !.stage = "answered", !.hit = i,
                               !.hits = Cardinality(found),
                               !.source = IF i = NoId THEN NoItem ELSE visible[i]]]
    /\ UNCHANGED <<Index_vars, totalHits, API_vars, History>>

\* Mutant: an empty result leaves the number of hits as it was.
EsSearchCallback_NoReset(r) ==
    /\ call[r].stage = "answered"
    /\ totalHits' = IF call[r].hits = 0 THEN totalHits ELSE call[r].hits
    /\ SetStage(r, "replied")
    /\ intruded' = [s \in Requests |->
                      \/ intruded[s]
                      \/ s # r /\ call[s].stage = "replied"]
    /\ UNCHANGED <<Index_vars, API_vars, effect, standing>>

\* The client's callback thread stores the number of hits, then replies.
EsSearchCallback(r) ==
    /\ call[r].stage = "answered"
    /\ totalHits' = call[r].hits
    /\ SetStage(r, "replied")
    /\ intruded' = [s \in Requests |->
                      \/ intruded[s]
                      \/ s # r /\ call[s].stage = "replied"]
    /\ UNCHANGED <<Index_vars, API_vars, effect, standing>>

\* The documents change by r's call; the reply arrives or is lost on the way.
Apply(r, i, item, stages) ==
    /\ docs' = [docs EXCEPT ![i] = item]
    /\ effect' = [effect EXCEPT ![r] = TRUE]
    /\ \E s \in stages : SetStage(r, s)
    /\ UNCHANGED <<visible, totalHits, API_vars, intruded, standing>>

\* A bulk request whose response does not arrive throws in the callback, and
\* nothing is sent back.
EsIndex(r) ==
    /\ Pending(r, "index")
    /\ Apply(r, req[r].id, req[r].item, {"replied", "lost"})

EsExists(r) ==
    /\ Pending(r, "exists")
    /\ IF docs[req[r].id] # NoItem
       THEN call' = [call EXCEPT ![r].kind = "update"]
       ELSE SetStage(r, "failed")
    /\ UNCHANGED <<Index_vars, totalHits, API_vars, History>>

\* Mutant: an upsert instead of an update.
EsUpdate_Upsert(r) ==
    /\ Pending(r, "update")
    /\ Apply(r, req[r].id, req[r].item, {"replied", "failed"})

EsUpdate(r) ==
    /\ Pending(r, "update")
    /\ docs[req[r].id] # NoItem
    /\ Apply(r, req[r].id, Merged(docs[req[r].id], req[r].item), {"replied", "failed"})

EsDelete(r) ==
    /\ Pending(r, "delete")
    /\ docs[call[r].hit] # NoItem
    /\ Apply(r, call[r].hit, NoItem, {"replied", "failed"})

\* Elasticsearch rejects the call, does not find the document, or cannot be
\* reached; only a bulk request can go unanswered.
EsFails(r) ==
    /\ call[r].stage = "issued"
    /\ \E s \in (IF call[r].kind = "index" THEN {"failed", "lost"} ELSE {"failed"}) :
          SetStage(r, s)
    /\ UNCHANGED <<Index_vars, totalHits, API_vars, History>>

\* Elasticsearch refreshes: searches see the current version of document i.
Refresh(i) ==
    /\ visible[i] # docs[i]
    /\ visible' = [visible EXCEPT ![i] = docs[i]]
    /\ standing' = [s \in Requests |-> standing[s] \ {i}]
    /\ UNCHANGED <<docs, totalHits, API_vars, call, effect, intruded>>

EsStep(r) ==
    \/ EsSearch(r) \/ EsSearchCallback(r)
    \/ EsIndex(r) \/ EsExists(r) \/ EsUpdate(r) \/ EsDelete(r) \/ EsFails(r)

----------------------------------------------------------------------------
Init ==
    /\ docs \in Seeds
    /\ visible = docs
    /\ totalHits = 0
    /\ req = [r \in Requests |-> NoRequest]
    /\ pc = [r \in Requests |-> "idle"]
    /\ call = [r \in Requests |-> NoCall]
    /\ resp = [r \in Requests |-> NoResponse]
    /\ effect = [r \in Requests |-> FALSE]
    /\ intruded = [r \in Requests |-> FALSE]
    /\ standing = [r \in Requests |-> {}]

\* Every request of this instance has been answered and no more will arrive.
Quiet == (\A r \in Requests : pc[r] = "done") /\ UNCHANGED vars

Arrive(r) == ReceiveWrite(r) \/ ReceiveDelete(r) \/ ReceiveGet(r) \/ ReceiveSearch(r)

Next ==
    \/ \E r \in Requests :
          Arrive(r) \/ Continue(r) \/ CallTimedOut(r) \/ RequestTimedOut(r) \/ EsStep(r)
    \/ \E i \in Ids : Refresh(i)
    \/ Quiet

\* Event loops keep running and timers fire.  Elasticsearch owes nothing.
Fairness ==
    \A r \in Requests :
       WF_vars(Continue(r)) /\ WF_vars(CallTimedOut(r)) /\ WF_vars(RequestTimedOut(r))

Spec == Init /\ [][Next]_vars
FairSpec == Spec /\ Fairness
----------------------------------------------------------------------------
\* Properties

Call == [kind : SearchKinds \cup WriteKinds \cup {"none"}, stage : Stages \cup {"none"},
         hits : Nat, hit : Ids \cup {NoId}, source : Item \cup {NoItem}]
Request == [op : {"none", "create", "update", "delete", "get", "search"},
            id : Ids \cup {NoId}, user : Users \cup {Anon}, item : Item \cup {NoItem}]
Response == [status : {0, 200, 201, 400, 404, 408, 500},
             why : {"none", "ok", "refused", "failed"},
             item : Item \cup {NoItem}, total : Nat]

\* Every variable has its type: the state ElasticsearchServiceImpl and the item
\* controller keep about a request is well formed whatever the interleaving.
TypeOK ==
    /\ docs \in Index
    /\ visible \in Index
    /\ totalHits \in Nat
    /\ req \in [Requests -> Request]
    /\ pc \in [Requests -> Places]
    /\ call \in [Requests -> Call]
    /\ resp \in [Requests -> Response]
    /\ effect \in [Requests -> BOOLEAN]
    /\ intruded \in [Requests -> BOOLEAN]
    /\ standing \in [Requests -> SUBSET Ids]

Writers == {"create", "update", "delete"}

\* Document i was in the search index, unchanged, since r arrived.
Stood(r, i) == i \in standing[r] /\ visible[i] # NoItem

\* validateAiModel, validateDataBank, validateApps: an item is not created
\* while another one of its type and name stands in the search index, whatever
\* the other requests do.  Only validateApps can be misled by their searches.
CreateRespectsNames ==
    \A r \in Requests :
        effect[r] /\ req[r].op = "create" /\ (req[r].item.type = "Apps" => ~intruded[r])
        => \A i \in Ids : Stood(r, i) => \/ visible[i].type # req[r].item.type
                                         \/ visible[i].name # req[r].item.name

\* createItem: an item that stands in the search index is never overwritten by
\* the creation of another one under its id, unless a concurrent search
\* replaced the number of hits before createItem read it.
CreateRespectsIds ==
    \A r \in Requests :
        effect[r] /\ req[r].op = "create" /\ ~intruded[r] => ~Stood(r, req[r].id)

\* updateItem: if the document stood in the search index it had the type the
\* request names, and an id that stood absent is not updated.
UpdateRespectsType ==
    \A r \in Requests :
        effect[r] /\ req[r].op = "update" /\ ~intruded[r] /\ req[r].id \in standing[r]
        => /\ visible[req[r].id] # NoItem
           /\ visible[req[r].id].type = req[r].item.type

\* deleteItem: nothing is deleted on behalf of an id while two documents of
\* the search index are it or link to it ("Item has associated entities").
DeleteRespectsLinks ==
    \A r \in Requests :
        effect[r] /\ req[r].op = "delete" /\ ~intruded[r]
        => \A i, j \in Ids :
             /\ Stood(r, i) /\ (i = req[r].id \/ visible[i].link = req[r].id)
             /\ Stood(r, j) /\ (j = req[r].id \/ visible[j].link = req[r].id)
             => i = j

\* getItem and handleGetItem: 404 is not the answer for an item that stands in
\* the search index, and 408 (a chain hung on the null source) is not the
\* answer at all, unless a concurrent search replaced the number of hits.
GetAnswersJustified ==
    \A r \in Requests :
        req[r].op = "get" /\ ~intruded[r]
        => /\ resp[r].status # 408
           /\ resp[r].status = 404 => ~Stood(r, req[r].id)

\* ownershipCheck: whatever search result a concurrent request leaves in
\* totalHits, a private item is returned to its owner only, and what is
\* returned is a document.
PrivateItemsToOwners ==
    \A r \in Requests :
        req[r].op = "get" /\ resp[r].status = 200
        => /\ resp[r].item # NoItem
           /\ resp[r].item.private => req[r].user = resp[r].item.owner

\* Success of a create, update or delete is only reported after its effect on
\* the index; a request refused for what the search found has no effect, not
\* even through a call that is still under way.
AnswersTellTheEffect ==
    \A r \in Requests :
        /\ resp[r].why = "ok" /\ req[r].op \in Writers => effect[r]
        /\ resp[r].why = "refused" =>
             /\ ~effect[r]
             /\ ~(call[r].kind \in WriteKinds /\ call[r].stage = "issued")

\* executeUpdate after executeExistenceCheck: a document that a concurrent
\* delete removed is not brought back; documents appear by creations only.
OnlyCreatesCreate ==
    [][\A i \in Ids :
         docs[i] = NoItem /\ docs'[i] # NoItem
         => \E r \in Requests : /\ ~effect[r] /\ effect'[r]
                                /\ req[r].op = "create" /\ req[r].id = i]_vars

\* Every request is answered: by its chain, by the 30 s of the event bus, or
\* by the TimeoutHandler when the chain hung on an exception.
EveryRequestAnswered ==
    \A r \in Requests : pc[r] # "idle" ~> resp[r].status # 0

\* docs/openapi.yaml of GET item: 404 means "Didn't find the item."
NotFoundMeansAbsent ==
    \A r \in Requests :
        req[r].op = "get" /\ resp[r].status = 404 => ~Stood(r, req[r].id)

\* docs/openapi.yaml of DELETE item: the item deleted is the one of the id.
DeletesTheNamedItem ==
    [][\A i \in Ids :
         docs[i] # NoItem /\ docs'[i] = NoItem
         => \E r \in Requests : /\ ~effect[r] /\ effect'[r]
                                /\ req[r].op = "delete" /\ req[r].id = i]_vars

\* The abstract store this module implements: writes and reads by what the
\* client asked, answers by why they were given.
RequestKind ==
    [r \in Requests |-> IF req[r].op = "none" THEN "none"
                        ELSE IF req[r].op \in Writers THEN "write" ELSE "read"]
Answered == [r \in Requests |-> resp[r].why]

Store == INSTANCE ItemStore WITH
    Contents <- Item,
    Absent <- NoItem,
    store <- docs,
    kind <- RequestKind,
    answer <- Answered

\* Every request takes effect at most once and in one step; what the client is
\* told of it is true (ItemStore).
ImplementsStore == Store!Spec
============================================================================
