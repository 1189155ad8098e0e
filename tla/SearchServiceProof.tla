------------------------- MODULE SearchServiceProof -------------------------
(***************************************************************************)
(* Proofs about SearchService, for any number of requests, any users,      *)
(* documents and contents of the search index, and any result window: the  *)
(* caller is shown only what his query lets through, and what travels      *)
(* through the two static fields is the request's own unless another one   *)
(* intruded.                                                               *)
(***************************************************************************)
EXTENDS SearchService, FiniteSetTheorems, TLAPS

\* The types; what a search found is finite, since the index is; and myassets
\* has a token.
Types ==
    /\ TypeOK
    /\ \A r \in Requests : IsFiniteSet(call[r].found)
    /\ \A r \in Requests : req[r].op = "assets" => req[r].user # Anon

\* A request has a search only after it was received, and an answer only after
\* its handler is done; an answer with status 200 had a reply.
StageOK(r) ==
    /\ pc[r] = "idle" => call[r].stage = "none"
    /\ pc[r] # "idle" => req[r].op \in AllOps
    /\ pc[r] # "done" => resp[r].status = 0
    /\ resp[r].status = 200 => call[r].stage = "replied"
    /\ resp[r].status # 200 => resp[r].docs = {}

\* What a caller may see of the index, whatever it held when it was searched.
MayBeShown(r, h) ==
    /\ h.doc.policy = "PRIVATE" => req[r].user # Anon /\ OwnedBy(h.doc, req[r].user)
    /\ req[r].op = "assets" => OwnedBy(h.doc, req[r].user)
    /\ StatusMapped => h.doc.ready \/ h.doc.type = "Apps"

\* Everything found, returned and shown may be shown.
ShownOK(r) ==
    /\ call[r].stage = "none" => call[r].found = {}
    /\ call[r].docs \subseteq call[r].found
    /\ resp[r].docs \subseteq call[r].found
    /\ \A h \in call[r].found : MayBeShown(r, h)

\* The aggregations of a count are those of what it found.
CountOK(r) ==
    call[r].stage \in {"answered", "replied"} /\ req[r].op = "count"
    => call[r].aggs.of = TypeCounts(call[r].found)

\* From a request's callback until another one writes it, the static it reads
\* holds its own number of hits or aggregations.
HitsOK(r) ==
    call[r].stage = "replied" /\ ReadsHits(r) /\ ~intruded[r] => totalHits = Hits(r)

AggregationsOK(r) ==
    /\ call[r].stage = "replied" /\ ~ReadsHits(r) /\ ~intruded[r]
    /\ req[r].op = "count" => call[r].found # {}
    => aggregations = call[r].aggs

\* And so does its answer.
AnswerOK(r) ==
    Succeeded(r) /\ ~intruded[r] =>
        /\ ReadsHits(r) =>
              /\ resp[r].total = Hits(r)
              /\ resp[r].hasNext = HasNext(Hits(r), req[r].size, req[r].page)
        /\ ~ReadsHits(r) /\ (req[r].op = "count" => call[r].found # {}) =>
              resp[r].aggs = call[r].aggs

RequestOK(r) ==
    StageOK(r) /\ ShownOK(r) /\ CountOK(r) /\ HitsOK(r) /\ AggregationsOK(r) /\ AnswerOK(r)

SInv == Types /\ \A r \in Requests : RequestOK(r)

----------------------------------------------------------------------------
\* What the operators return

\* A search finds documents of the index, finitely many, that may be shown to
\* the caller.
LEMMA FindableLemma ==
    ASSUME Types, NEW r \in Requests
    PROVE  /\ Findable(r) \subseteq Hit
           /\ IsFiniteSet(Findable(r))
           /\ \A h \in Findable(r) : MayBeShown(r, h)
<1>1. \A h \in Findable(r) :
         /\ h \in [id : Ids, doc : Doc] /\ h.doc = visible[h.id]
         /\ ~Hidden(h.doc) /\ Permitted(req[r].op, req[r].user, h.doc)
  BY DEF Findable, Types, TypeOK
<1>2. IsFiniteSet(Findable(r))
  <2> DEFINE f == [h \in Findable(r) |-> h.id]
  <2>1. f \in [Findable(r) -> Ids]
    BY <1>1
  <2>2. ASSUME NEW g \in Findable(r), NEW h \in Findable(r), f[g] = f[h] PROVE g = h
    <3>1. g.id = h.id /\ g.doc = h.doc
      BY <1>1, <2>2
    <3> QED BY <1>1, <3>1
  <2>3. f \in Injection(Findable(r), Ids)
    BY <2>1, <2>2 DEF Injection, IsInjective
  <2>4. IsFiniteSet(Ids)
    BY SearchAssumption
  <2> HIDE DEF f
  <2> QED BY <2>3, <2>4, FS_Injection
<1>3. \A h \in Findable(r) : MayBeShown(r, h)
  BY <1>1 DEF MayBeShown, Hidden, Permitted, Doc, ItemTypes, Types
<1> QED BY <1>1, <1>2, <1>3 DEF Hit

\* The counts of a finite set are numbers, and not all 0 unless it is empty.
LEMMA TypeCountsLemma ==
    ASSUME NEW found \in SUBSET Hit, IsFiniteSet(found)
    PROVE  /\ TypeCounts(found) \in [ItemTypes -> Nat]
           /\ found # {} => TypeCounts(found) # Zeros
<1> DEFINE Of(t) == {h \in found : h.doc.type = t}
<1>1. ASSUME NEW t \in ItemTypes
      PROVE  IsFiniteSet(Of(t)) /\ Cardinality(Of(t)) \in Nat
  <2>1. IsFiniteSet(Of(t))
    BY FS_Subset
  <2> QED BY <2>1, FS_CardinalityType
<1>2. TypeCounts(found) \in [ItemTypes -> Nat]
  BY <1>1 DEF TypeCounts
<1>3. ASSUME found # {} PROVE TypeCounts(found) # Zeros
  <2>1. PICK h \in found : TRUE
    BY <1>3
  <2>2. h.doc.type \in ItemTypes
    BY <2>1 DEF Hit, Doc
  <2>3. h \in Of(h.doc.type)
    BY <2>1
  <2>4. Cardinality(Of(h.doc.type)) # 0
    BY <1>1, <2>2, <2>3, FS_EmptySet
  <2>5. TypeCounts(found)[h.doc.type] # 0
    BY <2>2, <2>4 DEF TypeCounts
  <2>6. Zeros[h.doc.type] = 0
    BY <2>2 DEF Zeros
  <2> QED BY <2>5, <2>6
<1> QED BY <1>2, <1>3

LEMMA AggregationsLemma ==
    ASSUME NEW found \in SUBSET Hit, IsFiniteSet(found), NEW op, NEW size,
           NEW aggs \in AggregationsOf(op, found, size)
    PROVE  /\ aggs \in Aggs
           /\ op = "count" => aggs.of = TypeCounts(found)
<1>1. CASE op = "count"
  <2>1. aggs = [kind |-> "counts", of |-> TypeCounts(found)]
    BY <1>1 DEF AggregationsOf
  <2> QED BY <2>1, TypeCountsLemma DEF Aggs
<1>2. CASE op = "list"
  <2>1. PICK k \in TypeKeys(found, size) : aggs = [kind |-> "keys", of |-> k]
    BY <1>2 DEF AggregationsOf
  <2>2. k \in [ItemTypes -> Nat]
    <3> DEFINE key(keys) == [t \in ItemTypes |-> IF t \in keys THEN 1 ELSE 0]
    <3>1. \E keys : k = key(keys)
      BY <2>1, Zenon DEF TypeKeys
    <3>2. \A keys : key(keys) \in [ItemTypes -> Nat]
      OBVIOUS
    <3> HIDE DEF key
    <3> QED BY <3>1, <3>2
  <2> QED BY <1>2, <2>1, <2>2 DEF Aggs
<1>3. CASE op # "count" /\ op # "list"
  <2>1. aggs = NullAggs
    BY <1>3 DEF AggregationsOf
  <2> QED BY <1>3, <2>1 DEF NullAggs, Aggs, Zeros
<1> QED BY <1>1, <1>2, <1>3

\* The number of hits is a number.
LEMMA HitsLemma ==
    ASSUME Types, NEW r \in Requests
    PROVE  /\ Cardinality(call[r].found) \in Nat
           /\ Hits(r) \in Nat /\ Hits(r) = Least(Cardinality(call[r].found), Window)
<1>1. Cardinality(call[r].found) \in Nat
  BY FS_CardinalityType DEF Types
<1> QED BY <1>1, SearchAssumption DEF Hits, Least

\* HasNext announces the next page exactly if this one is not the last.
LEMMA HasNextLemma ==
    ASSUME NEW total \in Nat, NEW size \in Nat \ {0}, NEW page \in Nat \ {0}
    PROVE  HasNext(total, size, page) <=> page * size < total
<1> DEFINE q == (total + size - 1) \div size
           m == (total + size - 1) % size
<1>1. total + size - 1 \in Nat /\ q \in Nat
  OBVIOUS
<1>2. m \in Nat /\ m < size /\ total + size - 1 = q * size + m
  OBVIOUS
<1> HIDE DEF q, m
<1>3. ASSUME page < q PROVE page * size < total
  <2>1. PICK k \in Nat : q = page + 1 + k
    <3>1. q - page - 1 \in Nat
      BY <1>1, <1>3
    <3> QED BY <1>1, <3>1
  <2>2. q * size = page * size + size + k * size
    BY <2>1
  <2>3. k * size \in Nat /\ page * size \in Nat
    OBVIOUS
  <2> QED BY <1>2, <2>2, <2>3
<1>4. ASSUME ~(page < q) PROVE ~(page * size < total)
  <2>1. PICK k \in Nat : page = q + k
    <3>1. page - q \in Nat
      BY <1>1, <1>4
    <3> QED BY <1>1, <3>1
  <2>2. page * size = q * size + k * size
    BY <1>1, <2>1
  <2>3. k * size \in Nat /\ q * size \in Nat
    BY <1>1
  <2> QED BY <1>2, <2>2, <2>3
<1> QED BY <1>3, <1>4 DEF HasNext, q

LEMMA NoneTypes ==
    NullAggs \in Aggs /\ NoCall \in Call /\ NoResponse \in Response /\ NoRequest \in Request
<1>1. NullAggs \in Aggs
  BY DEF NullAggs, Aggs, Zeros
<1> QED BY <1>1 DEF NoCall, Call, NoResponse, Response, NoRequest, Request, NoForm, Form

----------------------------------------------------------------------------
\* The parts of the actions

\* A request is received: nothing but its own record changes.
LEMMA ReceiveLemma ==
    ASSUME TypeOK, NEW r \in Requests, NEW op \in AllOps, Receive(r, op)
    PROVE  /\ req' \in [Requests -> Request]
           /\ req'[r] \in Request /\ req'[r].op = op
           /\ op = "assets" => req'[r].user # Anon
           /\ \A s \in Requests \ {r} : req'[s] = req[s]
           /\ pc[r] = "idle" /\ UNCHANGED <<visible, totalHits, aggregations, intruded>>
<1> DEFINE callers == IF op = "assets" THEN Users ELSE Users \cup {Anon}
<1>1. PICK user \in callers, form \in Forms, size \in Sizes, page \in Pages :
         req' = [req EXCEPT ![r] = [op |-> op, user |-> user, form |-> form,
                                    size |-> size, page |-> page]]
  BY Zenon DEF Receive
<1>2. user \in Users \cup {Anon} /\ (op = "assets" => user # Anon)
  BY SearchAssumption
<1> HIDE DEF callers
<1>3. [op |-> op, user |-> user, form |-> form, size |-> size, page |-> page] \in Request
  BY <1>2, SearchAssumption DEF Request
<1> QED BY <1>1, <1>2, <1>3 DEF Receive, TypeOK, Statics

LEMMA IssueLemma ==
    ASSUME TypeOK, NEW r \in Requests, Issue(r)
    PROVE  /\ call' \in [Requests -> Call] /\ pc' \in [Requests -> {"idle", "searching", "hung", "done"}]
           /\ call'[r].stage = "issued" /\ call'[r].found = call[r].found
           /\ call'[r].docs = call[r].docs /\ pc'[r] = "searching"
           /\ \A s \in Requests \ {r} : call'[s] = call[s] /\ pc'[s] = pc[s]
           /\ resp' = resp
  BY DEF Issue, TypeOK, Call

LEMMA RespondLemma ==
    ASSUME TypeOK, NEW r \in Requests, NEW answer \in Response, Respond(r, answer)
    PROVE  /\ resp' \in [Requests -> Response] /\ pc' \in [Requests -> {"idle", "searching", "hung", "done"}]
           /\ resp'[r] = answer /\ pc'[r] = "done"
           /\ \A s \in Requests \ {r} : resp'[s] = resp[s] /\ pc'[s] = pc[s]
  BY DEF Respond, TypeOK

\* Responses are made by overwriting the empty one: an error, a page of
\* documents, aggregations.
ErrorOf(empty, status) == [empty EXCEPT !.status = status]
PageOf(empty, docs, total, hasNext) ==
    [empty EXCEPT !.status = 200, !.docs = docs, !.total = total, !.hasNext = hasNext]
AggregatesOf(empty, aggs) == [empty EXCEPT !.status = 200, !.aggs = aggs]

LEMMA ErrorLemma ==
    ASSUME NEW empty \in Response, NEW status \in {400, 408, 500}
    PROVE  /\ ErrorOf(empty, status) \in Response
           /\ ErrorOf(empty, status).status = status
           /\ ErrorOf(empty, status).docs = empty.docs
  BY DEF Response, ErrorOf

LEMMA PageLemma ==
    ASSUME NEW S, NEW D, NEW T, NEW H, NEW A,
           NEW empty \in [status : S, docs : D, total : T, hasNext : H, aggs : A],
           200 \in S, NEW docs \in D, NEW total \in T, NEW hasNext \in H
    PROVE  /\ PageOf(empty, docs, total, hasNext) \in
                 [status : S, docs : D, total : T, hasNext : H, aggs : A]
           /\ PageOf(empty, docs, total, hasNext).status = 200
           /\ PageOf(empty, docs, total, hasNext).docs = docs
           /\ PageOf(empty, docs, total, hasNext).total = total
           /\ PageOf(empty, docs, total, hasNext).hasNext = hasNext
  BY DEF PageOf

LEMMA AggregatesLemma ==
    ASSUME NEW empty \in Response, NEW aggs \in Aggs
    PROVE  /\ AggregatesOf(empty, aggs) \in Response
           /\ AggregatesOf(empty, aggs).status = 200
           /\ AggregatesOf(empty, aggs).docs = empty.docs
           /\ AggregatesOf(empty, aggs).aggs = aggs
  BY DEF Response, AggregatesOf

\* An error is answered without documents.
LEMMA RefuseLemma ==
    ASSUME TypeOK, NEW r \in Requests, NEW status \in {400, 408, 500}, Refuse(r, status)
    PROVE  /\ resp' \in [Requests -> Response] /\ pc' \in [Requests -> {"idle", "searching", "hung", "done"}]
           /\ resp'[r].status = status /\ resp'[r].docs = {} /\ pc'[r] = "done"
           /\ \A s \in Requests \ {r} : resp'[s] = resp[s] /\ pc'[s] = pc[s]
<1>1. NoResponse \in Response /\ NoResponse.docs = {}
  BY NoneTypes DEF NoResponse
<1>2. Respond(r, ErrorOf(NoResponse, status))
  BY Zenon DEF Refuse, ErrorOf
<1>3. /\ ErrorOf(NoResponse, status) \in Response
      /\ ErrorOf(NoResponse, status).status = status
      /\ ErrorOf(NoResponse, status).docs = {}
  BY <1>1, ErrorLemma
<1> QED BY <1>2, <1>3, RespondLemma

\* What the continuations answer.
LEMMA SearchAnsweredLemma ==
    ASSUME TypeOK, NEW r \in Requests, SearchAnswered(r)
    PROVE  /\ resp' \in [Requests -> Response] /\ pc' \in [Requests -> {"idle", "searching", "hung", "done"}]
           /\ resp'[r].status = 200 /\ resp'[r].docs = call[r].docs
           /\ resp'[r].total = totalHits
           /\ resp'[r].hasNext = HasNext(totalHits, req[r].size, req[r].page)
           /\ pc'[r] = "done" /\ \A s \in Requests \ {r} : resp'[s] = resp[s] /\ pc'[s] = pc[s]
<1> DEFINE next == HasNext(totalHits, req[r].size, req[r].page)
           answer == PageOf(NoResponse, call[r].docs, totalHits, next)
           S == {0, 200, 400, 408, 500}
           D == SUBSET Hit
           H == BOOLEAN
<1>1. next \in H /\ 200 \in S
  BY DEF HasNext
<1>2. Respond(r, answer)
  BY Zenon DEF SearchAnswered, PageOf
<1>3. call[r].docs \in D /\ totalHits \in Nat
  BY DEF TypeOK, Call
<1>4. Response = [status : S, docs : D, total : Nat, hasNext : H, aggs : Aggs]
  BY DEF Response
<1> HIDE DEF next, S, D, H
<1>5. NoResponse \in [status : S, docs : D, total : Nat, hasNext : H, aggs : Aggs]
  BY <1>4, NoneTypes
<1>6. /\ answer \in Response /\ answer.status = 200 /\ answer.docs = call[r].docs
      /\ answer.total = totalHits /\ answer.hasNext = next
  BY <1>1, <1>3, <1>4, <1>5, PageLemma
<1> HIDE DEF answer
<1> QED BY <1>2, <1>6, RespondLemma DEF next

LEMMA AggregationsAnsweredLemma ==
    ASSUME TypeOK, NEW r \in Requests, AggregationsAnswered(r)
    PROVE  /\ resp' \in [Requests -> Response] /\ pc' \in [Requests -> {"idle", "searching", "hung", "done"}]
           /\ resp'[r].status = 200 /\ resp'[r].docs = {} /\ resp'[r].aggs = aggregations
           /\ pc'[r] = "done" /\ \A s \in Requests \ {r} : resp'[s] = resp[s] /\ pc'[s] = pc[s]
<1> DEFINE answer == AggregatesOf(NoResponse, aggregations)
<1>1. NoResponse \in Response /\ NoResponse.docs = {}
  BY NoneTypes DEF NoResponse
<1>2. Respond(r, answer)
  BY Zenon DEF AggregationsAnswered, AggregatesOf
<1>3. /\ answer \in Response /\ answer.status = 200 /\ answer.docs = {}
      /\ answer.aggs = aggregations
  BY <1>1, AggregatesLemma DEF TypeOK
<1> HIDE DEF answer
<1> QED BY <1>2, <1>3, RespondLemma

\* The handlers: a request is received; its search is issued, or it is refused,
\* or it hangs.
LEMMA HandleLemma ==
    ASSUME TypeOK, NEW r \in Requests, Handle(r)
    PROVE  /\ \E op \in AllOps : Receive(r, op)
           /\ \/ Issue(r)
              \/ (Refuse(r, 400) \/ Refuse(r, 500)) /\ UNCHANGED call
              \/ pc' = [pc EXCEPT ![r] = "hung"] /\ UNCHANGED <<resp, call>>
  BY DEF Handle, ReceiveSearch, ReceiveCount, ReceiveList, AllOps

\* The search: what is returned was found, and what was found may be shown.
LEMMA SearchLemma ==
    ASSUME Types, NEW r \in Requests, EsSearch(r)
    PROVE  /\ call' \in [Requests -> Call]
           /\ call'[r].stage = "answered"
           /\ IsFiniteSet(call'[r].found) /\ call'[r].docs \subseteq call'[r].found
           /\ \A h \in call'[r].found : MayBeShown(r, h)
           /\ req[r].op = "count" => call'[r].aggs.of = TypeCounts(call'[r].found)
           /\ \A s \in Requests \ {r} : call'[s] = call[s]
           /\ call[r].stage = "issued"
           /\ UNCHANGED <<visible, totalHits, aggregations, req, pc, resp, intruded>>
<1>0. TypeOK
  BY DEF Types
<1>1. PICK found \in SUBSET Findable(r) :
         \E docs \in SUBSET found, aggs \in AggregationsOf(req[r].op, found, req[r].size) :
            call' = [call EXCEPT ![r] = [stage |-> "answered", found |-> found,
                                         docs |-> docs, aggs |-> aggs]]
  BY Zenon DEF EsSearch
<1>2. PICK docs \in SUBSET found, aggs \in AggregationsOf(req[r].op, found, req[r].size) :
         call' = [call EXCEPT ![r] = [stage |-> "answered", found |-> found,
                                      docs |-> docs, aggs |-> aggs]]
  BY <1>1
<1>3. /\ found \subseteq Hit /\ IsFiniteSet(found)
      /\ \A h \in found : MayBeShown(r, h)
  BY FindableLemma, FS_Subset
<1>4. aggs \in Aggs /\ (req[r].op = "count" => aggs.of = TypeCounts(found))
  BY <1>3, AggregationsLemma
<1>5. [stage |-> "answered", found |-> found, docs |-> docs, aggs |-> aggs] \in Call
  BY <1>3, <1>4 DEF Call
<1>6. /\ call' \in [Requests -> Call]
      /\ call'[r] = [stage |-> "answered", found |-> found, docs |-> docs, aggs |-> aggs]
      /\ \A s \in Requests \ {r} : call'[s] = call[s]
  BY <1>0, <1>2, <1>5 DEF TypeOK
<1>7. /\ call[r].stage = "issued"
      /\ UNCHANGED <<visible, totalHits, aggregations, req, pc, resp, intruded>>
  BY DEF EsSearch, Statics
<1> QED BY <1>3, <1>4, <1>6, <1>7

\* The callback and the failure of a search change nothing but its stage, and
\* the statics.
LEMMA StageLemma ==
    ASSUME TypeOK, NEW r \in Requests, NEW stage \in {"replied", "failed"},
           call' = [call EXCEPT ![r].stage = stage]
    PROVE  /\ call' \in [Requests -> Call]
           /\ call'[r].stage = stage /\ call'[r].found = call[r].found
           /\ call'[r].docs = call[r].docs /\ call'[r].aggs = call[r].aggs
           /\ \A s \in Requests \ {r} : call'[s] = call[s]
  BY DEF TypeOK, Call

LEMMA NextTypes == Types /\ [Next]_vars => Types'
<1> SUFFICES ASSUME Types, [Next]_vars PROVE Types'
  OBVIOUS
<1>0. /\ TypeOK /\ \A r \in Requests : IsFiniteSet(call[r].found)
      /\ \A r \in Requests : req[r].op = "assets" => req[r].user # Anon
  BY DEF Types
<1>1. ASSUME NEW r \in Requests, Handle(r) PROVE Types'
  <2>0. PICK op \in AllOps : Receive(r, op)
    BY <1>0, <1>1, HandleLemma
  <2>1. /\ req' \in [Requests -> Request]
        /\ \A s \in Requests : req'[s].op = "assets" => req'[s].user # Anon
        /\ UNCHANGED <<visible, totalHits, aggregations, intruded>>
    BY <1>0, <2>0, ReceiveLemma
  <2>2. CASE Issue(r)
    <3>1. /\ call' \in [Requests -> Call] /\ resp' = resp
          /\ pc' \in [Requests -> {"idle", "searching", "hung", "done"}]
      BY <1>0, <2>2, IssueLemma
    <3>2. ASSUME NEW s \in Requests PROVE call'[s].found = call[s].found
      <4>1. CASE s = r
        BY <1>0, <2>2, <4>1, IssueLemma
      <4>2. CASE s # r
        BY <1>0, <2>2, <4>2, IssueLemma
      <4> QED BY <4>1, <4>2
    <3> QED BY <1>0, <2>1, <3>1, <3>2 DEF TypeOK, Types
  <2>3. CASE (Refuse(r, 400) \/ Refuse(r, 500)) /\ UNCHANGED call
    <3>1. /\ resp' \in [Requests -> Response]
          /\ pc' \in [Requests -> {"idle", "searching", "hung", "done"}]
      BY <1>0, <2>3, RefuseLemma
    <3> QED BY <1>0, <2>1, <2>3, <3>1 DEF TypeOK, Types
  <2>4. CASE pc' = [pc EXCEPT ![r] = "hung"] /\ UNCHANGED <<resp, call>>
    BY <1>0, <2>1, <2>4 DEF TypeOK, Types
  <2> QED BY <1>0, <1>1, <2>2, <2>3, <2>4, HandleLemma
<1>2. ASSUME NEW r \in Requests, EsSearch(r) PROVE Types'
  <2>1. /\ call' \in [Requests -> Call] /\ IsFiniteSet(call'[r].found)
        /\ \A s \in Requests \ {r} : call'[s] = call[s]
        /\ UNCHANGED <<visible, totalHits, aggregations, req, pc, resp, intruded>>
    BY <1>2, SearchLemma
  <2>2. \A s \in Requests : IsFiniteSet(call'[s].found)
    BY <1>0, <2>1
  <2> QED BY <1>0, <2>1, <2>2 DEF TypeOK, Types
<1>3. ASSUME NEW r \in Requests, EsSearchCallback(r) PROVE Types'
  <2>1. /\ call' \in [Requests -> Call]
        /\ \A s \in Requests : call'[s].found = call[s].found
    BY <1>0, <1>3, StageLemma DEF EsSearchCallback, Reply
  <2>2. totalHits' \in Nat
    BY <1>0, <1>3, HitsLemma DEF EsSearchCallback, TypeOK
  <2>3. aggregations' \in Aggs
    BY <1>0, <1>3 DEF EsSearchCallback, TypeOK, Call
  <2>4. intruded' \in [Requests -> BOOLEAN]
    BY <1>0, <1>3 DEF EsSearchCallback, Reply, TypeOK
  <2>5. UNCHANGED <<visible, req, pc, resp>>
    BY <1>3 DEF EsSearchCallback, Reply
  <2> QED BY <1>0, <2>1, <2>2, <2>3, <2>4, <2>5 DEF TypeOK, Types
<1>4. ASSUME NEW r \in Requests, EsFails(r) PROVE Types'
  <2>1. /\ call' \in [Requests -> Call]
        /\ \A s \in Requests : call'[s].found = call[s].found
    BY <1>0, <1>4, StageLemma DEF EsFails
  <2> QED BY <1>0, <1>4, <2>1 DEF EsFails, TypeOK, Types, Statics
<1>5. ASSUME NEW r \in Requests, SearchAnswered(r) PROVE Types'
  <2>1. /\ resp' \in [Requests -> Response]
        /\ pc' \in [Requests -> {"idle", "searching", "hung", "done"}]
    BY <1>0, <1>5, SearchAnsweredLemma
  <2> QED BY <1>0, <1>5, <2>1 DEF SearchAnswered, TypeOK, Types, Statics
<1>6. ASSUME NEW r \in Requests, AggregationsAnswered(r) PROVE Types'
  <2>1. /\ resp' \in [Requests -> Response]
        /\ pc' \in [Requests -> {"idle", "searching", "hung", "done"}]
    BY <1>0, <1>6, AggregationsAnsweredLemma
  <2> QED BY <1>0, <1>6, <2>1 DEF AggregationsAnswered, TypeOK, Types, Statics
<1>7. ASSUME NEW r \in Requests, SearchFailed(r) \/ RequestTimedOut(r) PROVE Types'
  <2>1. /\ resp' \in [Requests -> Response]
        /\ pc' \in [Requests -> {"idle", "searching", "hung", "done"}]
    BY <1>0, <1>7, RefuseLemma DEF SearchFailed, RequestTimedOut
  <2> QED BY <1>0, <1>7, <2>1 DEF SearchFailed, RequestTimedOut, TypeOK, Types, Statics
<1>8. ASSUME ItemSearchCallback PROVE Types'
  <2>1. totalHits' \in Nat
    BY <1>8 DEF ItemSearchCallback
  <2> QED BY <1>0, <1>8, <2>1 DEF ItemSearchCallback, TypeOK, Types
<1>9. ASSUME IndexChanges PROVE Types'
  BY <1>0, <1>9, SearchAssumption DEF IndexChanges, TypeOK, Types, Statics
<1>10. CASE UNCHANGED vars
  BY <1>0, <1>10 DEF vars, TypeOK, Types
<1> QED BY <1>1, <1>2, <1>3, <1>4, <1>5, <1>6, <1>7, <1>8, <1>9, <1>10
        DEF Next, EsStep, Answer

----------------------------------------------------------------------------
\* The invariant of each request

LEMMA InitSearch == Init => SInv
<1> SUFFICES ASSUME Init PROVE SInv
  OBVIOUS
<1>1. TypeOK
  BY NoneTypes, SearchAssumption DEF Init, TypeOK
<1>2. \A r \in Requests : IsFiniteSet(call[r].found)
  BY FS_EmptySet DEF Init, NoCall
<1>4. \A r \in Requests : req[r].op # "assets"
  BY DEF Init, NoRequest
<1>3. ASSUME NEW r \in Requests PROVE RequestOK(r)
  <2>1. /\ pc[r] = "idle" /\ call[r] = NoCall /\ resp[r].status = 0 /\ resp[r].docs = {}
        /\ call[r].found = {} /\ call[r].docs = {} /\ call[r].stage = "none"
    BY DEF Init, NoCall, NoResponse
  <2> QED BY <2>1 DEF RequestOK, StageOK, ShownOK, CountOK, HitsOK, AggregationsOK, AnswerOK,
                      Succeeded
<1> QED BY <1>1, <1>2, <1>3, <1>4 DEF SInv, Types

\* A step of others that leaves a request alone keeps what is known of it, if it
\* marks the request as intruded upon when it writes the static that it reads.
LEMMA RequestFrame ==
    ASSUME NEW s \in Requests, RequestOK(s),
           req'[s] = req[s], pc'[s] = pc[s], call'[s] = call[s], resp'[s] = resp[s],
           intruded[s] => intruded'[s],
           call[s].stage = "replied" /\ ReadsHits(s) => intruded'[s] \/ totalHits' = totalHits,
           call[s].stage = "replied" /\ ~ReadsHits(s) =>
              intruded'[s] \/ aggregations' = aggregations
    PROVE  RequestOK(s)'
<1>1. ReadsHits(s)' = ReadsHits(s) /\ Hits(s)' = Hits(s)
  BY DEF ReadsHits, Hits
<1>2. (StageOK(s) /\ ShownOK(s) /\ CountOK(s))'
  BY DEF RequestOK, StageOK, ShownOK, CountOK, MayBeShown
<1>3. HitsOK(s)'
  BY <1>1 DEF RequestOK, HitsOK
<1>4. AggregationsOK(s)'
  BY <1>1 DEF RequestOK, AggregationsOK
<1>5. AnswerOK(s)'
  BY <1>1 DEF RequestOK, AnswerOK, Succeeded
<1> QED BY <1>2, <1>3, <1>4, <1>5 DEF RequestOK

\* Until the reply, nothing is known of the statics, or of the response.
LEMMA BeforeReply ==
    ASSUME NEW r \in Requests, (StageOK(r) /\ ShownOK(r) /\ CountOK(r))',
           call'[r].stage # "replied"
    PROVE  RequestOK(r)'
  BY DEF RequestOK, StageOK, HitsOK, AggregationsOK, AnswerOK, Succeeded

LEMMA NextRequests == SInv /\ [Next]_vars => \A s \in Requests : RequestOK(s)'
<1> SUFFICES ASSUME SInv, [Next]_vars, NEW s \in Requests PROVE RequestOK(s)'
  OBVIOUS
<1>0. /\ Types /\ TypeOK /\ RequestOK(s) /\ StageOK(s) /\ ShownOK(s) /\ CountOK(s)
      /\ HitsOK(s) /\ AggregationsOK(s) /\ AnswerOK(s)
  BY DEF SInv, Types, RequestOK
<1>1. ASSUME NEW r \in Requests, Handle(r) PROVE RequestOK(s)'
  <2>1. PICK op \in AllOps : Receive(r, op)
    BY <1>0, <1>1, HandleLemma
  <2>2. /\ req'[r].op = op /\ \A t \in Requests \ {r} : req'[t] = req[t]
        /\ pc[r] = "idle" /\ UNCHANGED <<visible, totalHits, aggregations, intruded>>
    BY <1>0, <2>1, ReceiveLemma
  <2>3. CASE s # r
    <3>1. pc'[s] = pc[s] /\ call'[s] = call[s] /\ resp'[s] = resp[s]
      <4>1. CASE Issue(r)
        BY <1>0, <2>3, <4>1, IssueLemma
      <4>2. CASE (Refuse(r, 400) \/ Refuse(r, 500)) /\ UNCHANGED call
        BY <1>0, <2>3, <4>2, RefuseLemma
      <4>3. CASE pc' = [pc EXCEPT ![r] = "hung"] /\ UNCHANGED <<resp, call>>
        BY <1>0, <2>3, <4>3 DEF TypeOK
      <4> QED BY <1>0, <1>1, <4>1, <4>2, <4>3, HandleLemma
    <3> QED BY <1>0, <2>2, <2>3, <3>1, RequestFrame
  <2>4. CASE s = r
    <3>1. /\ call[s].stage = "none" /\ call[s].found = {} /\ call[s].docs = {}
          /\ resp[s].status = 0 /\ resp[s].docs = {} /\ req'[s].op \in AllOps
      BY <1>0, <2>2, <2>4 DEF StageOK, ShownOK
    <3>2. /\ call'[s].found = {} /\ call'[s].docs = {}
          /\ call'[s].stage \in {"none", "issued"}
          /\ resp'[s].docs = {} /\ resp'[s].status # 200
          /\ pc'[s] # "done" => resp'[s].status = 0
          /\ pc'[s] # "idle"
      <4>1. CASE Issue(r)
        BY <1>0, <2>4, <3>1, <4>1, IssueLemma
      <4>2. CASE (Refuse(r, 400) \/ Refuse(r, 500)) /\ UNCHANGED call
        BY <1>0, <2>4, <3>1, <4>2, RefuseLemma
      <4>3. CASE pc' = [pc EXCEPT ![r] = "hung"] /\ UNCHANGED <<resp, call>>
        BY <1>0, <2>4, <3>1, <4>3 DEF TypeOK
      <4> QED BY <1>0, <1>1, <4>1, <4>2, <4>3, HandleLemma
    <3>3. (StageOK(s) /\ ShownOK(s) /\ CountOK(s))'
      BY <3>1, <3>2 DEF StageOK, ShownOK, CountOK
    <3> QED BY <3>2, <3>3, BeforeReply
  <2> QED BY <2>3, <2>4
<1>2. ASSUME NEW r \in Requests, EsSearch(r) PROVE RequestOK(s)'
  <2>1. /\ call'[r].stage = "answered" /\ call'[r].docs \subseteq call'[r].found
        /\ \A h \in call'[r].found : MayBeShown(r, h)
        /\ req[r].op = "count" => call'[r].aggs.of = TypeCounts(call'[r].found)
        /\ \A t \in Requests \ {r} : call'[t] = call[t]
        /\ call[r].stage = "issued"
        /\ UNCHANGED <<visible, totalHits, aggregations, req, pc, resp, intruded>>
    BY <1>0, <1>2, SearchLemma
  <2>2. CASE s # r
    BY <1>0, <2>1, <2>2, RequestFrame
  <2>3. CASE s = r
    <3>1. resp[s].status # 200 /\ resp[s].docs = {} /\ pc[s] # "idle"
      BY <1>0, <2>1, <2>3 DEF StageOK
    <3>2. StageOK(s)'
      BY <1>0, <2>1, <2>3, <3>1 DEF StageOK
    <3>3. ShownOK(s)'
      BY <2>1, <2>3, <3>1 DEF ShownOK, MayBeShown
    <3>4. CountOK(s)'
      BY <2>1, <2>3 DEF CountOK
    <3> QED BY <2>1, <2>3, <3>2, <3>3, <3>4, BeforeReply
  <2> QED BY <2>2, <2>3
<1>3. ASSUME NEW r \in Requests, EsSearchCallback(r) PROVE RequestOK(s)'
  <2>1. /\ call[r].stage = "answered" /\ call'[r].stage = "replied"
        /\ call'[r].found = call[r].found /\ call'[r].docs = call[r].docs
        /\ call'[r].aggs = call[r].aggs
        /\ \A t \in Requests \ {r} : call'[t] = call[t]
    BY <1>0, <1>3, StageLemma DEF EsSearchCallback, Reply
  <2>2. /\ totalHits' = IF StoresHits(r) THEN Hits(r) ELSE totalHits
        /\ aggregations' = IF StoresAggregations(r) THEN call[r].aggs ELSE aggregations
        /\ intruded'[s] = (intruded[s] \/ Intrudes(r, s))
        /\ UNCHANGED <<visible, req, pc, resp>>
    BY <1>3 DEF EsSearchCallback, Reply
  <2>3. CASE s # r
    <3>1. call[s].stage = "replied" /\ ReadsHits(s) => intruded'[s] \/ totalHits' = totalHits
      BY <2>2, <2>3 DEF Intrudes
    <3>2. call[s].stage = "replied" /\ ~ReadsHits(s) =>
             intruded'[s] \/ aggregations' = aggregations
      BY <2>2, <2>3 DEF Intrudes
    <3> QED BY <1>0, <2>1, <2>2, <2>3, <3>1, <3>2, RequestFrame
  <2>4. CASE s = r
    <3>1. resp[s].status # 200 /\ resp[s].docs = {} /\ pc[s] # "idle" /\ req[s].op \in AllOps
      BY <1>0, <2>1, <2>4 DEF StageOK
    <3>2. StageOK(s)' /\ ShownOK(s)' /\ CountOK(s)'
      BY <1>0, <2>1, <2>2, <2>4, <3>1 DEF StageOK, ShownOK, CountOK, MayBeShown
    <3>3. ReadsHits(s)' = ReadsHits(s) /\ Hits(s)' = Hits(s)
      BY <2>1, <2>2, <2>4 DEF ReadsHits, Hits
    <3>4. HitsOK(s)'
      BY <2>2, <2>4, <3>3 DEF HitsOK, StoresHits, ReadsHits
    <3>5. AggregationsOK(s)'
      <4>1. SUFFICES ASSUME ~ReadsHits(s), req[s].op = "count" => call[s].found # {}
                     PROVE  aggregations' = call[s].aggs
        BY <2>1, <2>2, <2>4, <3>3 DEF AggregationsOK
      <4>2. CASE req[s].op = "list"
        BY <2>2, <2>4, <4>2 DEF StoresAggregations
      <4>3. CASE req[s].op = "count"
        <5>1. call[s].aggs.of = TypeCounts(call[s].found)
          BY <1>0, <2>1, <2>4, <4>3 DEF CountOK
        <5>2. call[s].found \in SUBSET Hit /\ IsFiniteSet(call[s].found)
          BY <1>0 DEF TypeOK, Call, Types
        <5>3. call[s].aggs.of # Zeros
          BY <4>1, <4>3, <5>1, <5>2, TypeCountsLemma
        <5> QED BY <2>2, <2>4, <4>3, <5>3 DEF StoresAggregations
      <4> QED BY <3>1, <4>1, <4>2, <4>3 DEF ReadsHits, AllOps
    <3>6. AnswerOK(s)'
      BY <2>2, <3>1 DEF AnswerOK, Succeeded
    <3> QED BY <3>2, <3>4, <3>5, <3>6 DEF RequestOK
  <2> QED BY <2>3, <2>4
<1>4. ASSUME NEW r \in Requests, EsFails(r) PROVE RequestOK(s)'
  <2>1. /\ call[r].stage = "issued" /\ call'[r].stage = "failed"
        /\ call'[r].found = call[r].found /\ call'[r].docs = call[r].docs
        /\ \A t \in Requests \ {r} : call'[t] = call[t]
        /\ UNCHANGED <<visible, totalHits, aggregations, req, pc, resp, intruded>>
    BY <1>0, <1>4, StageLemma DEF EsFails, Statics
  <2>2. CASE s # r
    BY <1>0, <2>1, <2>2, RequestFrame
  <2>3. CASE s = r
    <3>1. (StageOK(s) /\ ShownOK(s) /\ CountOK(s))'
      BY <1>0, <2>1, <2>3 DEF StageOK, ShownOK, CountOK, MayBeShown
    <3> QED BY <2>1, <2>3, <3>1, BeforeReply
  <2> QED BY <2>2, <2>3
<1>5. ASSUME NEW r \in Requests, SearchAnswered(r) PROVE RequestOK(s)'
  <2>1. /\ Replied(r) /\ ReadsHits(r)
        /\ UNCHANGED <<totalHits, aggregations, req, call, intruded>>
    BY <1>5 DEF SearchAnswered, Statics
  <2>2. /\ resp'[r].status = 200 /\ resp'[r].docs = call[r].docs
        /\ resp'[r].total = totalHits
        /\ resp'[r].hasNext = HasNext(totalHits, req[r].size, req[r].page)
        /\ pc'[r] = "done" /\ \A t \in Requests \ {r} : resp'[t] = resp[t] /\ pc'[t] = pc[t]
    BY <1>0, <1>5, SearchAnsweredLemma
  <2>3. CASE s # r
    BY <1>0, <2>1, <2>2, <2>3, RequestFrame
  <2>4. CASE s = r
    <3>1. call[s].stage = "replied" /\ pc[s] # "idle"
      BY <2>1, <2>4 DEF Replied
    <3>2. ReadsHits(s)' /\ ReadsHits(s) /\ Hits(s)' = Hits(s)
      BY <2>1, <2>4 DEF ReadsHits, Hits
    <3>3. StageOK(s)' /\ ShownOK(s)' /\ CountOK(s)'
      BY <1>0, <2>1, <2>2, <2>4, <3>1 DEF StageOK, ShownOK, CountOK, MayBeShown
    <3>4. HitsOK(s)' /\ AggregationsOK(s)'
      BY <1>0, <2>1, <3>2 DEF HitsOK, AggregationsOK
    <3>5. ~intruded[s] => totalHits = Hits(s)
      BY <1>0, <3>1, <3>2 DEF HitsOK
    <3>6. AnswerOK(s)'
      BY <2>1, <2>2, <2>4, <3>2, <3>5 DEF AnswerOK
    <3> QED BY <3>3, <3>4, <3>6 DEF RequestOK
  <2> QED BY <2>3, <2>4
<1>6. ASSUME NEW r \in Requests, AggregationsAnswered(r) PROVE RequestOK(s)'
  <2>1. /\ Replied(r) /\ ~ReadsHits(r)
        /\ UNCHANGED <<totalHits, aggregations, req, call, intruded>>
    BY <1>6 DEF AggregationsAnswered, Statics
  <2>2. /\ resp'[r].status = 200 /\ resp'[r].docs = {} /\ resp'[r].aggs = aggregations
        /\ pc'[r] = "done" /\ \A t \in Requests \ {r} : resp'[t] = resp[t] /\ pc'[t] = pc[t]
    BY <1>0, <1>6, AggregationsAnsweredLemma
  <2>3. CASE s # r
    BY <1>0, <2>1, <2>2, <2>3, RequestFrame
  <2>4. CASE s = r
    <3>1. call[s].stage = "replied" /\ pc[s] # "idle"
      BY <2>1, <2>4 DEF Replied
    <3>2. ~ReadsHits(s)' /\ ~ReadsHits(s)
      BY <2>1, <2>4 DEF ReadsHits
    <3>3. StageOK(s)' /\ ShownOK(s)' /\ CountOK(s)'
      BY <1>0, <2>1, <2>2, <2>4, <3>1 DEF StageOK, ShownOK, CountOK, MayBeShown
    <3>4. HitsOK(s)' /\ AggregationsOK(s)'
      BY <1>0, <2>1, <3>2 DEF HitsOK, AggregationsOK
    <3>5. ~intruded[s] /\ (req[s].op = "count" => call[s].found # {}) =>
             aggregations = call[s].aggs
      BY <1>0, <3>1, <3>2 DEF AggregationsOK
    <3>6. AnswerOK(s)'
      BY <2>1, <2>2, <2>4, <3>2, <3>5 DEF AnswerOK
    <3> QED BY <3>3, <3>4, <3>6 DEF RequestOK
  <2> QED BY <2>3, <2>4
<1>7. ASSUME NEW r \in Requests, SearchFailed(r) \/ RequestTimedOut(r) PROVE RequestOK(s)'
  <2>1. /\ pc[r] \in {"searching", "hung"}
        /\ UNCHANGED <<totalHits, aggregations, req, call, intruded>>
    BY <1>7 DEF SearchFailed, RequestTimedOut, Statics
  <2>2. /\ resp'[r].status \in {408, 500} /\ resp'[r].docs = {}
        /\ pc'[r] = "done" /\ \A t \in Requests \ {r} : resp'[t] = resp[t] /\ pc'[t] = pc[t]
    BY <1>0, <1>7, RefuseLemma DEF SearchFailed, RequestTimedOut
  <2>3. CASE s # r
    BY <1>0, <2>1, <2>2, <2>3, RequestFrame
  <2>4. CASE s = r
    <3>1. ReadsHits(s)' = ReadsHits(s) /\ Hits(s)' = Hits(s)
      BY <2>1 DEF ReadsHits, Hits
    <3>2. StageOK(s)' /\ ShownOK(s)' /\ CountOK(s)'
      BY <1>0, <2>1, <2>2, <2>4 DEF StageOK, ShownOK, CountOK, MayBeShown
    <3>3. HitsOK(s)' /\ AggregationsOK(s)'
      BY <1>0, <2>1, <3>1 DEF HitsOK, AggregationsOK
    <3>4. AnswerOK(s)'
      BY <2>2, <2>4 DEF AnswerOK, Succeeded
    <3> QED BY <3>2, <3>3, <3>4 DEF RequestOK
  <2> QED BY <2>3, <2>4
<1>8. CASE ItemSearchCallback
  <2>1. /\ intruded'[s] = (intruded[s] \/ (call[s].stage = "replied" /\ ReadsHits(s)))
        /\ UNCHANGED <<aggregations, req, pc, call, resp>>
    BY <1>8 DEF ItemSearchCallback
  <2> QED BY <1>0, <2>1, RequestFrame
<1>9. CASE IndexChanges
  BY <1>0, <1>9, RequestFrame DEF IndexChanges, Statics
<1>10. CASE UNCHANGED vars
  BY <1>0, <1>10, RequestFrame DEF vars
<1> QED BY <1>1, <1>2, <1>3, <1>4, <1>5, <1>6, <1>7, <1>8, <1>9, <1>10
        DEF Next, EsStep, Answer

----------------------------------------------------------------------------
\* The theorems

LEMMA SInvHolds == Spec => []SInv
<1>1. SInv /\ [Next]_vars => SInv'
  BY NextTypes, NextRequests DEF SInv
<1> QED BY <1>1, InitSearch, PTL DEF Spec

\* Whatever the interleaving of requests, searches and changes of the index, what
\* is kept of a request, and what it is answered, is well formed
\* (SearchController, ListController, ElasticsearchServiceImpl).
THEOREM TypeCorrect == Spec => []TypeOK
<1>1. SInv => TypeOK
  BY DEF SInv, Types
<1> QED BY <1>1, SInvHolds, PTL

\* No caller is shown a private document, or by myassets any, of an owner whose id
\* shares no token with his own, whatever tokens ids share; and where the index
\* maps the statuses, nobody is shown an AI model or data bank that is not
\* uploaded or published (AccessPolicyQueryDecorator, QueryDecoder).
THEOREM ShownIsPermitted == Spec => []OnlyPermittedShown
<1>1. SInv => OnlyPermittedShown
  BY DEF SInv, RequestOK, ShownOK, MayBeShown, OnlyPermittedShown
<1> QED BY <1>1, SInvHolds, PTL

\* The total of a search is its own number of hits, as far as Elasticsearch
\* counts, unless another search wrote the static totalHits in between
\* (ElasticsearchServiceImpl, ResponseModel).
THEOREM TotalsAreOwn == Spec => []TotalIsOwn
<1>1. SInv => TotalIsOwn
  BY HitsLemma DEF SInv, RequestOK, AnswerOK, TotalIsOwn
<1> QED BY <1>1, SInvHolds, PTL

\* The pages announced by hasNext are those that hold results, up to the result
\* window, for any number of results, page size and window (PaginationInfo).
THEOREM PagesEnd == Spec => []PagesReachTheEnd
<1>1. SInv => PagesReachTheEnd
  <2> SUFFICES ASSUME SInv, NEW r \in Requests, Succeeded(r), ReadsHits(r), ~intruded[r]
               PROVE  LET n == Cardinality(call[r].found)
                          size == req[r].size
                          page == req[r].page
                      IN /\ resp[r].hasNext => n > page * size
                         /\ ~resp[r].hasNext => n <= page * size \/ (page + 1) * size > Window
    BY DEF PagesReachTheEnd
  <2> DEFINE n == Cardinality(call[r].found)
             size == req[r].size
             page == req[r].page
             total == Least(n, Window)
  <2>1. Types /\ resp[r].hasNext = HasNext(total, size, page)
    BY HitsLemma DEF SInv, RequestOK, AnswerOK
  <2>2. n \in Nat /\ total \in Nat /\ Window \in Nat \ {0}
    BY <2>1, HitsLemma, SearchAssumption
  <2>3. size \in Nat \ {0} /\ page \in Nat \ {0}
    BY <2>1 DEF Types, TypeOK, Request
  <2>4. total <= n /\ (total = n \/ total = Window)
    BY <2>2 DEF Least
  <2> HIDE DEF n, size, page, total
  <2>5. resp[r].hasNext <=> page * size < total
    BY <2>1, <2>2, <2>3, HasNextLemma
  <2> DEFINE shown == page * size
             next == (page + 1) * size
  <2>6. shown \in Nat /\ next \in Nat /\ next > shown
    <3>1. shown \in Nat /\ next = shown + size
      BY <2>3
    <3> HIDE DEF shown, next
    <3> QED BY <2>3, <3>1
  <2>7. /\ resp[r].hasNext => n > shown
        /\ ~resp[r].hasNext => n <= shown \/ next > Window
    <3>1. resp[r].hasNext <=> shown < total
      BY <2>5
    <3> HIDE DEF shown, next
    <3>2. CASE shown < total
      BY <2>2, <2>4, <2>6, <3>1, <3>2
    <3>3. CASE total <= shown
      BY <2>2, <2>4, <2>6, <3>1, <3>3
    <3> QED BY <2>2, <2>6, <3>2, <3>3
  <2> QED BY <2>7 DEF n, size, page
<1> QED BY <1>1, SInvHolds, PTL

\* A list, and a count that found anything, answers with its own aggregations,
\* unless another request stored some in between (parseAggregations,
\* setAggregations).
THEOREM OwnAggregations == Spec => []AggregationsAreOwn
<1>1. SInv => AggregationsAreOwn
  BY DEF SInv, RequestOK, AnswerOK, AggregationsAreOwn
<1> QED BY <1>1, SInvHolds, PTL
=============================================================================
