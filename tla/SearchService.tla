--------------------------- MODULE SearchService ---------------------------
(***************************************************************************)
(* The discovery API: POST search, myassets, count and list, from their    *)
(* handlers (SearchController, ListController) through the query they      *)
(* build (PostSearchRequestBuilder, QueryDecoder and its decorators) to    *)
(* the Elasticsearch service and back (ResponseModel).                     *)
(*                                                                         *)
(* A reply holds the documents of the page.  The number of hits and the    *)
(* aggregations travel through two static fields of ElasticsearchResponse, *)
(* totalHits and aggregations, one pair for the whole JVM: the callback of *)
(* a search stores them, the continuation that builds the response reads   *)
(* them later, and other requests come between.                            *)
(*                                                                         *)
(* The search index changes by the item API (module ItemService), whose    *)
(* own searches also overwrite totalHits.                                  *)
(***************************************************************************)
EXTENDS Naturals, FiniteSets

CONSTANTS
    Requests,   \* requests; one model value per HTTP request
    Ids,        \* document ids
    Users,      \* subjects of bearer tokens
    Alike,      \* for each user, those whose id shares a token with his
    StatusMapped,   \* whether the index maps the two statuses of an item
    Ops,        \* the operations clients use
    Forms,      \* the forms of request bodies clients send (of Form)
    Sizes,      \* page sizes clients ask for (100 unless they do)
    Pages,      \* page numbers clients ask for (1 unless they do)
    Window,     \* how far Elasticsearch counts and pages (10,000)
    Indexes,    \* the contents the search index takes
    Anon,       \* the caller of a request without a token
    NoDoc       \* no document

ItemTypes == {"AiModel", "DataBank", "Apps"}

\* What a document holds that decides who finds it.  "ready" stands for
\* dataUploadStatus # false and publishStatus # PENDING.
Doc == [type : ItemTypes, policy : {"OPEN", "RESTRICTED", "PRIVATE"},
        owner : Users, ready : BOOLEAN]

\* What a body holds that decides its fate: the searchCriteria array ("bad":
\* a range without its two values), a text query q, a filter array, and a sort
\* parameter that does not parse.
Form == [criteria : {"absent", "empty", "bad", "given"}, text : BOOLEAN,
         filter : BOOLEAN, badSort : BOOLEAN]

AllOps == {"search", "assets", "count", "list"}

ASSUME SearchAssumption ==
    /\ IsFiniteSet(Ids)
    /\ Alike \in [Users -> SUBSET Users]
    /\ \A u \in Users : u \in Alike[u]
    /\ StatusMapped \in BOOLEAN
    /\ Ops \subseteq AllOps
    /\ Forms \subseteq Form
    /\ Sizes \subseteq Nat \ {0}
    /\ Pages \subseteq Nat \ {0}
    /\ Window \in Nat \ {0}
    /\ Indexes \subseteq [Ids -> Doc \cup {NoDoc}]
    /\ NoDoc \notin Doc
    /\ Anon \notin Users

VARIABLES
    visible,        \* the search index
    totalHits,      \* ElasticsearchResponse.totalHits
    aggregations,   \* ElasticsearchResponse.aggregations
    req,            \* the requests received
    pc,             \* where each request's handler stands
    call,           \* each request's search: what Elasticsearch answered
    resp,           \* the HTTP responses
    intruded        \* history: the static that the request reads was written
                    \* by another one after the request's own callback

vars == <<visible, totalHits, aggregations, req, pc, call, resp, intruded>>
Statics == <<totalHits, aggregations>>

Zeros == [t \in ItemTypes |-> 0]

\* The aggregations of a count ("counts", per type) or of a list ("keys", the
\* types that occur); the static is null before the first one.
NullAggs == [kind |-> "null", of |-> Zeros]

NoForm == [criteria |-> "absent", text |-> FALSE, filter |-> FALSE, badSort |-> FALSE]
NoRequest == [op |-> "none", user |-> Anon, form |-> NoForm, size |-> 1, page |-> 1]
NoCall == [stage |-> "none", found |-> {}, docs |-> {}, aggs |-> NullAggs]
NoResponse == [status |-> 0, docs |-> {}, total |-> 0, hasNext |-> FALSE,
               aggs |-> NullAggs]

----------------------------------------------------------------------------
\* Helpers

Least(a, b) == IF a < b THEN a ELSE b

\* The number of documents on the given page of n results.
OnPage(n, size, page) ==
    IF n <= (page - 1) * size THEN 0 ELSE Least(size, n - (page - 1) * size)

\* build() throws: no criterion, text or filter is given, the criteria are an
\* empty array, or the sort parameter does not parse.
Malformed(f) ==
    \/ f.criteria = "empty"
    \/ f.criteria = "absent" /\ ~f.text /\ ~f.filter
    \/ f.badSort

\* The bodies the OpenAPI router lets through to each handler.
Admitted(op, f) ==
    /\ op = "search" => f.criteria # "absent" \/ f.text
    /\ op \in {"assets", "count"} => f.criteria # "absent" /\ ~f.text
    /\ op = "list" => ~f.text

\* The search criteria that the query decoder cannot translate.
Undecodable(f) == f.criteria = "bad"

\* Mutant: data banks are not excluded.
Hidden_AiModelsOnly(d) == StatusMapped /\ d.type = "AiModel" /\ ~d.ready

\* An AI model or data bank is hidden until uploaded and published, if the index
\* maps the two statuses: a query on a field that is not mapped finds nothing,
\* and the exclusion of what it finds excludes nothing.
Hidden(d) == StatusMapped /\ d.type \in {"AiModel", "DataBank"} /\ ~d.ready

\* ownerUserId is matched, not compared: it is an analysed field, and a match
\* query finds every value that shares a token with the one asked for.
OwnedBy(d, user) == d.owner \in Alike[user]

\* Mutant: the owner clause is not paired with the private policy.
Permitted_NoOwner(op, user, d) ==
    IF op = "assets" THEN OwnedBy(d, user) ELSE user = Anon => d.policy # "PRIVATE"

\* The access policy clause of the query.
Permitted(op, user, d) ==
    IF op = "assets"
    THEN OwnedBy(d, user)
    ELSE d.policy = "PRIVATE" => user # Anon /\ OwnedBy(d, user)

\* The documents the query of r can find; criteria and text narrow them down.
Findable(r) ==
    {h \in [id : Ids, doc : {visible[i] : i \in Ids} \ {NoDoc}] :
        /\ visible[h.id] = h.doc
        /\ ~Hidden(h.doc)
        /\ Permitted(req[r].op, req[r].user, h.doc)}

TypeCounts(found) ==
    [t \in ItemTypes |-> Cardinality({h \in found : h.doc.type = t})]

\* The keys of a terms aggregation of at most n buckets.
TypeKeys(found, n) ==
    LET present == {h.doc.type : h \in found} IN
    {[t \in ItemTypes |-> IF t \in keys THEN 1 ELSE 0] :
        keys \in {k \in SUBSET present : Cardinality(k) = Least(n, Cardinality(present))}}

Respond(r, answer) ==
    /\ resp' = [resp EXCEPT ![r] = answer]
    /\ pc' = [pc EXCEPT ![r] = "done"]

Refuse(r, status) == Respond(r, [NoResponse EXCEPT !.status = status])

----------------------------------------------------------------------------
\* The handlers: a request arrives, and is searched for, refused or dropped.

\* Mutant: pages are numbered from 0.
Receive_PageZero(r, op) ==
    /\ pc[r] = "idle" /\ op \in Ops
    /\ \E user \in Users, form \in {f \in Forms : Admitted(op, f)},
          size \in Sizes, page \in Pages :
          req' = [req EXCEPT ![r] = [op |-> op, user |-> user, form |-> form,
                                     size |-> size, page |-> page - 1]]
    /\ UNCHANGED <<visible, Statics, intruded>>

Receive(r, op) ==
    /\ pc[r] = "idle" /\ op \in Ops
    /\ \E user \in (IF op = "assets" THEN Users ELSE Users \cup {Anon}),
          form \in {f \in Forms : Admitted(op, f)}, size \in Sizes, page \in Pages :
          req' = [req EXCEPT ![r] = [op |-> op, user |-> user, form |-> form,
                                     size |-> size, page |-> page]]
    /\ UNCHANGED <<visible, Statics, intruded>>

Issue(r) ==
    /\ call' = [call EXCEPT ![r].stage = "issued"]
    /\ pc' = [pc EXCEPT ![r] = "searching"]
    /\ UNCHANGED resp

\* handleSearch and handleAsset log what build() throws and do nothing else;
\* postSearch turns what the decoder throws into a bad request.
ReceiveSearch(r) ==
    \E op \in {"search", "assets"} :
      /\ Receive(r, op)
      /\ LET form == req'[r].form IN
         \/ Malformed(form) /\ pc' = [pc EXCEPT ![r] = "hung"] /\ UNCHANGED <<resp, call>>
         \/ ~Malformed(form) /\ Undecodable(form) /\ Refuse(r, 400) /\ UNCHANGED call
         \/ ~Malformed(form) /\ ~Undecodable(form) /\ Issue(r)

\* So does postCount, and a count does not take a filter of fields to return.
ReceiveCount(r) ==
    /\ Receive(r, "count")
    /\ LET form == req'[r].form IN
       IF Malformed(form) \/ Undecodable(form) \/ form.filter
       THEN Refuse(r, 400) /\ UNCHANGED call
       ELSE Issue(r)

\* A list needs a filter, and (SearchCriteriaQueryDecorator dereferences the
\* null request) criteria as well; what the decoder throws is a server error.
ReceiveList(r) ==
    /\ Receive(r, "list")
    /\ LET form == req'[r].form IN
       \/ Malformed(form) /\ Refuse(r, 400) /\ UNCHANGED call
       \/ /\ ~Malformed(form)
          /\ ~form.filter \/ form.criteria = "absent" \/ Undecodable(form)
          /\ Refuse(r, 500) /\ UNCHANGED call
       \/ ~Malformed(form) /\ form.filter /\ form.criteria = "given" /\ Issue(r)

----------------------------------------------------------------------------
\* The Elasticsearch service

AggregationsOf(op, found, size) ==
    CASE op = "count" -> {[kind |-> "counts", of |-> TypeCounts(found)]}
      [] op = "list" -> {[kind |-> "keys", of |-> k] : k \in TypeKeys(found, size)}
      [] OTHER -> {NullAggs}

\* Elasticsearch evaluates the query and returns a page of what it finds (the
\* ranking is its own), with the aggregations asked for.  It does not page
\* beyond its result window; a list asks for no documents.
EsSearch(r) ==
    LET q == req[r] IN
    /\ call[r].stage = "issued"
    /\ q.op # "list" => q.page * q.size <= Window
    /\ \E found \in SUBSET Findable(r) :
       \E docs \in {d \in SUBSET found :
                      Cardinality(d) = IF q.op = "list" THEN 0
                                       ELSE OnPage(Cardinality(found), q.size, q.page)},
          aggs \in AggregationsOf(q.op, found, q.size) :
          call' = [call EXCEPT ![r] = [stage |-> "answered", found |-> found,
                                       docs |-> docs, aggs |-> aggs]]
    /\ UNCHANGED <<visible, Statics, req, pc, resp, intruded>>

\* hits().total() counts up to the window.
Hits(r) == Least(Cardinality(call[r].found), Window)

StoresHits(r) == req[r].op # "list"

\* A count without buckets parses into an empty object, which is not stored.
StoresAggregations(r) ==
    \/ req[r].op = "list"
    \/ req[r].op = "count" /\ call[r].aggs.of # Zeros

ReadsHits(r) == req[r].op \in {"search", "assets"}

Intrudes(r, s) ==
    /\ s # r /\ call[s].stage = "replied"
    /\ IF ReadsHits(s) THEN StoresHits(r) ELSE StoresAggregations(r)

Reply(r) ==
    /\ call' = [call EXCEPT ![r].stage = "replied"]
    /\ intruded' = [s \in Requests |-> intruded[s] \/ Intrudes(r, s)]
    /\ UNCHANGED <<visible, req, pc, resp>>

\* Mutants: a list stores its number of hits, too; a list without buckets
\* leaves the aggregations as they were.
EsSearchCallback_ListHits(r) ==
    /\ call[r].stage = "answered"
    /\ totalHits' = Hits(r)
    /\ aggregations' = IF StoresAggregations(r) THEN call[r].aggs ELSE aggregations
    /\ Reply(r)

EsSearchCallback_EmptyList(r) ==
    /\ call[r].stage = "answered"
    /\ totalHits' = IF StoresHits(r) THEN Hits(r) ELSE totalHits
    /\ aggregations' = IF StoresAggregations(r) /\ call[r].aggs.of # Zeros
                       THEN call[r].aggs ELSE aggregations
    /\ Reply(r)

\* The callback stores the statics and replies.
EsSearchCallback(r) ==
    /\ call[r].stage = "answered"
    /\ totalHits' = IF StoresHits(r) THEN Hits(r) ELSE totalHits
    /\ aggregations' = IF StoresAggregations(r) THEN call[r].aggs ELSE aggregations
    /\ Reply(r)

\* The search is rejected, also for its window, or Elasticsearch is away.
EsFails(r) ==
    /\ call[r].stage = "issued"
    /\ call' = [call EXCEPT ![r].stage = "failed"]
    /\ UNCHANGED <<visible, Statics, req, pc, resp, intruded>>

\* A search of the item API stores its number of hits.
ItemSearchCallback ==
    /\ \E n \in 0..Least(Cardinality(Ids), Window) : totalHits' = n
    /\ intruded' = [s \in Requests |->
                      intruded[s] \/ (call[s].stage = "replied" /\ ReadsHits(s))]
    /\ UNCHANGED <<visible, aggregations, req, pc, call, resp>>

\* The item API changes documents, and Elasticsearch refreshes.
IndexChanges ==
    /\ visible' \in Indexes
    /\ UNCHANGED <<Statics, req, pc, call, resp, intruded>>

----------------------------------------------------------------------------
\* The continuations: ResponseModel is built from the reply and the statics.

Replied(r) == pc[r] = "searching" /\ call[r].stage = "replied"

\* Mutant: the last page announces another one.
HasNext_OffByOne(total, size, page) == page <= (total + size - 1) \div size

\* page < totalPages, the number of hits divided by the size, rounded up.
HasNext(total, size, page) == page < (total + size - 1) \div size

SearchAnswered(r) ==
    /\ Replied(r) /\ ReadsHits(r)
    /\ Respond(r, [NoResponse EXCEPT !.status = 200, !.docs = call[r].docs,
                                     !.total = totalHits,
                                     !.hasNext = HasNext(totalHits, req[r].size, req[r].page)])
    /\ UNCHANGED <<visible, Statics, req, call, intruded>>

AggregationsAnswered(r) ==
    /\ Replied(r) /\ ~ReadsHits(r)
    /\ Respond(r, [NoResponse EXCEPT !.status = 200, !.aggs = aggregations])
    /\ UNCHANGED <<visible, Statics, req, call, intruded>>

\* The search failed, or the event bus gave up on its reply after 30 s.
SearchFailed(r) ==
    /\ pc[r] = "searching"
    /\ Refuse(r, 500)
    /\ UNCHANGED <<visible, Statics, req, call, intruded>>

\* The router's TimeoutHandler answers what no handler did.
RequestTimedOut(r) ==
    /\ pc[r] = "hung"
    /\ Refuse(r, 408)
    /\ UNCHANGED <<visible, Statics, req, call, intruded>>

----------------------------------------------------------------------------
Init ==
    /\ visible \in Indexes
    /\ totalHits = 0
    /\ aggregations = NullAggs
    /\ req = [r \in Requests |-> NoRequest]
    /\ pc = [r \in Requests |-> "idle"]
    /\ call = [r \in Requests |-> NoCall]
    /\ resp = [r \in Requests |-> NoResponse]
    /\ intruded = [r \in Requests |-> FALSE]

Handle(r) == ReceiveSearch(r) \/ ReceiveCount(r) \/ ReceiveList(r)
EsStep(r) == EsSearch(r) \/ EsSearchCallback(r) \/ EsFails(r)
Answer(r) ==
    SearchAnswered(r) \/ AggregationsAnswered(r) \/ SearchFailed(r) \/ RequestTimedOut(r)

Next ==
    \/ \E r \in Requests : Handle(r) \/ EsStep(r) \/ Answer(r)
    \/ ItemSearchCallback
    \/ IndexChanges

Spec == Init /\ [][Next]_vars
----------------------------------------------------------------------------
\* Properties

Hit == [id : Ids, doc : Doc]
Aggs == [kind : {"null", "counts", "keys"}, of : [ItemTypes -> Nat]]
Call == [stage : {"none", "issued", "answered", "replied", "failed"},
         found : SUBSET Hit, docs : SUBSET Hit, aggs : Aggs]
Request == [op : AllOps \cup {"none"}, user : Users \cup {Anon}, form : Form,
            size : Nat \ {0}, page : Nat \ {0}]
Response == [status : {0, 200, 400, 408, 500}, docs : SUBSET Hit, total : Nat,
             hasNext : BOOLEAN, aggs : Aggs]

\* Every variable has its type: what the handlers and the Elasticsearch service
\* keep about a request is well formed whatever the interleaving.
TypeOK ==
    /\ visible \in [Ids -> Doc \cup {NoDoc}]
    /\ totalHits \in Nat
    /\ aggregations \in Aggs
    /\ req \in [Requests -> Request]
    /\ pc \in [Requests -> {"idle", "searching", "hung", "done"}]
    /\ call \in [Requests -> Call]
    /\ resp \in [Requests -> Response]
    /\ intruded \in [Requests -> BOOLEAN]

Succeeded(r) == resp[r].status = 200

\* AccessPolicyQueryDecorator, QueryDecoder: whatever statics other requests
\* leave behind and however the index changes after the search, a private
\* document is shown to no anonymous caller and to no user but one whose id
\* shares a token with the owner's, myassets shows nothing but the items of
\* such owners; and if the index maps the statuses, an AI model or data bank is
\* shown only when it is uploaded and published.
OnlyPermittedShown ==
    \A r \in Requests : \A h \in resp[r].docs :
        /\ h.doc.policy = "PRIVATE" => req[r].user # Anon /\ OwnedBy(h.doc, req[r].user)
        /\ req[r].op = "assets" => OwnedBy(h.doc, req[r].user)
        /\ StatusMapped => h.doc.ready \/ h.doc.type = "Apps"

\* ResponseModel: unless another search came between, the total is the number
\* of documents the caller's own query found, as far as Elasticsearch counts.
TotalIsOwn ==
    \A r \in Requests :
        Succeeded(r) /\ ReadsHits(r) /\ ~intruded[r]
        => resp[r].total = Least(Cardinality(call[r].found), Window)

\* PaginationInfo: a client that follows hasNext sees everything: the pages up
\* to this one hold all results, or more is announced, or the next page ends
\* outside the result window; and nothing is announced that does not exist.
PagesReachTheEnd ==
    \A r \in Requests :
        Succeeded(r) /\ ReadsHits(r) /\ ~intruded[r]
        => LET n == Cardinality(call[r].found)
               size == req[r].size
               page == req[r].page
           IN /\ resp[r].hasNext => n > page * size
              /\ ~resp[r].hasNext => n <= page * size \/ (page + 1) * size > Window

\* parseAggregations and setAggregations: unless another request's aggregations
\* came between, a list, and a count that found anything, answers with its own.
AggregationsAreOwn ==
    \A r \in Requests :
        /\ Succeeded(r) /\ ~ReadsHits(r) /\ ~intruded[r]
        /\ req[r].op = "count" => call[r].found # {}
        => resp[r].aggs = call[r].aggs

\* docs/openapi.yaml of POST count: the response is the count of what was found,
\* aggregated by type.
CountIsOwn ==
    \A r \in Requests :
        Succeeded(r) /\ req[r].op = "count" /\ ~intruded[r]
        => resp[r].aggs.kind = "counts" /\ resp[r].aggs.of = call[r].aggs.of
============================================================================
