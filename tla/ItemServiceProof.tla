------------------------- MODULE ItemServiceProof -------------------------
(***************************************************************************)
(* Proofs about ItemService, for every set of requests, ids, users, names, *)
(* bodies and operations and every initial index.                          *)
(***************************************************************************)
EXTENDS ItemServiceInv, FiniteSetTheorems, TLAPS

USE ItemAssumption

----------------------------------------------------------------------------
\* What a search finds is a finite set of ids: its number of hits is a number,
\* zero exactly when it finds nothing.
LEMMA ResultsLemma ==
    ASSUME NEW r \in Requests, NEW found \in Results(r)
    PROVE  /\ found \subseteq Matches(r) /\ found \subseteq Ids
           /\ Cardinality(found) \in Nat
           /\ Cardinality(found) = 0 <=> found = {}
           /\ call[r].kind # "listing" => found = Matches(r)
<1>1. /\ found \subseteq Matches(r) /\ found \subseteq Ids
      /\ call[r].kind # "listing" => found = Matches(r)
  BY DEF Results, Matches
<1>2. IsFiniteSet(found)
  BY <1>1, FS_Subset
<1>. QED
  BY <1>1, <1>2, FS_CardinalityType, FS_EmptySet

\* Initially no request has arrived.
LEMMA InitInv == Init => IndInv
<1>. SUFFICES ASSUME Init PROVE IndInv
  OBVIOUS
<1>1. TypeOK
  BY DEF Init, TypeOK, NoRequest, NoCall, NoResponse, Request, Call, Response, Places,
         SearchKinds, WriteKinds, Stages, Waiting, Index
<1>2. ASSUME NEW r \in Requests PROVE Coherent(r)
  BY DEF Init, Coherent, IdleClean, ChainShape, CallShape, EffectShape, AnswerShape,
         HitsOwn, NameEvidence, IdEvidence, NoRequest, NoCall, NoResponse, SearchKinds, WriteKinds
<1>. QED
  BY <1>1, <1>2 DEF IndInv
----------------------------------------------------------------------------
\* A step that leaves a request, the search index and the number of hits alone
\* leaves the request coherent.
LEMMA Frame ==
    ASSUME NEW s \in Requests, Coherent(s),
           visible' = visible, totalHits' = totalHits,
           standing'[s] = standing[s], intruded'[s] = intruded[s], effect'[s] = effect[s],
           req'[s] = req[s], pc'[s] = pc[s], call'[s] = call[s], resp'[s] = resp[s]
    PROVE  Coherent(s)'
  BY DEF Coherent, IdleClean, ChainShape, CallShape, EffectShape, AnswerShape,
         HitsOwn, NameEvidence, IdEvidence, NoNameStood, Stood

\* What the steps of a chain are made of: a new call, an answer.
LEMMA CallOfLemma ==
    ASSUME NEW k \in SearchKinds \cup WriteKinds
    PROVE  /\ CallOf(k) \in Call
           /\ CallOf(k).kind = k /\ CallOf(k).stage = "issued" /\ CallOf(k).hit = NoId
  BY DEF CallOf, NoCall, Call, Stages

LEMMA MoveLemma ==
    ASSUME TypeOK, NEW r \in Requests, NEW p \in Places, pc' = [pc EXCEPT ![r] = p]
    PROVE  pc' \in [Requests -> Places] /\ pc'[r] = p /\ \A s \in Requests \ {r} : pc'[s] = pc[s]
  BY DEF TypeOK

LEMMA CallLemma ==
    ASSUME TypeOK, NEW r \in Requests, NEW c \in Call, call' = [call EXCEPT ![r] = c]
    PROVE  call' \in [Requests -> Call] /\ call'[r] = c /\ \A s \in Requests \ {r} : call'[s] = call[s]
  BY DEF TypeOK

LEMMA RespondLemma ==
    ASSUME TypeOK, NEW r \in Requests,
           NEW status \in {200, 201, 400, 404, 408, 500}, NEW why \in {"ok", "refused", "failed"},
           NEW item \in Item \cup {NoItem}, NEW total \in Nat,
           Respond(r, status, why, item, total)
    PROVE  /\ resp' \in [Requests -> Response] /\ pc' \in [Requests -> Places]
           /\ resp'[r].why = why /\ pc'[r] = "done"
           /\ \A s \in Requests \ {r} : resp'[s] = resp[s] /\ pc'[s] = pc[s]
  BY DEF Respond, TypeOK, Response, Places

LEMMA RefuseLemma ==
    ASSUME TypeOK, NEW r \in Requests, NEW status \in {200, 201, 400, 404, 408, 500},
           Refuse(r, status)
    PROVE  /\ resp' \in [Requests -> Response] /\ pc' \in [Requests -> Places]
           /\ resp'[r].why = "refused" /\ pc'[r] = "done"
           /\ \A s \in Requests \ {r} : resp'[s] = resp[s] /\ pc'[s] = pc[s]
  BY RespondLemma DEF Refuse

\* The arrival of a request.
LEMMA ArriveInv ==
    ASSUME IndInv, NEW r \in Requests, Arrive(r) PROVE IndInv'
<1>. USE DEF IndInv
<1>1. PICK q \in Request, k \in SearchKinds :
        /\ Receive(r, q)
        /\ call' = [call EXCEPT ![r] = CallOf(k)]
        /\ q.op # "none" /\ Makes(q.op, k) /\ (q.op = "create" => k = "name")
        /\ q.op \in {"create", "update"} => q.item \in Item
        /\ q.op # "search" => q.id \in Ids
        /\ \/ /\ pc' = [pc EXCEPT ![r] = IF k = "name" THEN "validating" ELSE "searching"]
              /\ UNCHANGED resp
           \/ Refuse(r, 400)
  <2>1. CASE ReceiveWrite(r)
    <3>. PICK op \in Ops \cap {"create", "update"}, i \in Ids, u \in Users, b \in Bodies :
           /\ Receive(r, WriteRequest(r, op, i, u, b))
           /\ call' = [call EXCEPT ![r] = CallOf("name")]
           /\ \/ pc' = [pc EXCEPT ![r] = "validating"] /\ UNCHANGED resp
              \/ Refuse(r, 400)
      BY <2>1 DEF ReceiveWrite
    <3>1. /\ WriteRequest(r, op, i, u, b) \in Request
          /\ WriteRequest(r, op, i, u, b).op = op
          /\ WriteRequest(r, op, i, u, b).item \in Item
          /\ WriteRequest(r, op, i, u, b).id = i
      BY DEF WriteRequest, Request, Item, Body
    <3>. QED
      BY <3>1 DEF SearchKinds, Makes
  <2>2. CASE ReceiveDelete(r)
    BY <2>2 DEF ReceiveDelete, NoRequest, Request, Issue, SearchKinds, Makes
  <2>3. CASE ReceiveGet(r)
    BY <2>3 DEF ReceiveGet, NoRequest, Request, Issue, SearchKinds, Makes
  <2>4. CASE ReceiveSearch(r)
    BY <2>4 DEF ReceiveSearch, NoRequest, Request, Issue, SearchKinds, Makes
  <2>. QED
    BY <2>1, <2>2, <2>3, <2>4 DEF Arrive
<1>2. /\ call' \in [Requests -> Call] /\ call'[r].kind = k /\ call'[r].stage = "issued"
      /\ \A s \in Requests \ {r} : call'[s] = call[s]
  <2>. DEFINE c == CallOf(k)
  <2>1. c \in Call /\ c.kind = k /\ c.stage = "issued"
    BY CallOfLemma
  <2>2. call' = [call EXCEPT ![r] = c]
    BY <1>1
  <2>. HIDE DEF c
  <2>. QED
    BY <2>1, <2>2, CallLemma
<1>3. /\ req' \in [Requests -> Request] /\ req'[r] = q
      /\ \A s \in Requests \ {r} : req'[s] = req[s]
      /\ standing' \in [Requests -> SUBSET Ids]
      /\ \A s \in Requests \ {r} : standing'[s] = standing[s]
  BY <1>1 DEF TypeOK, Receive
<1>4. /\ pc' \in [Requests -> Places] /\ resp' \in [Requests -> Response]
      /\ \/ /\ pc'[r] = IF k = "name" THEN "validating" ELSE "searching"
            /\ resp'[r] = resp[r]
         \/ pc'[r] = "done" /\ resp'[r].why = "refused"
      /\ \A s \in Requests \ {r} : resp'[s] = resp[s] /\ pc'[s] = pc[s]
  <2>1. CASE Refuse(r, 400)
    BY <2>1, RefuseLemma
  <2>2. CASE /\ pc' = [pc EXCEPT ![r] = IF k = "name" THEN "validating" ELSE "searching"]
             /\ UNCHANGED resp
    BY <2>2 DEF TypeOK, Places, Waiting
  <2>. QED
    BY <1>1, <2>1, <2>2
<1>5. UNCHANGED <<docs, visible, totalHits, effect, intruded>> /\ pc[r] = "idle"
  BY <1>1 DEF Receive
<1>6. TypeOK'
  BY <1>2, <1>3, <1>4, <1>5 DEF TypeOK
<1>7. Coherent(r)'
  <2>1. /\ resp[r] = NoResponse /\ ~effect[r] /\ ~intruded[r]
    BY <1>5 DEF Coherent, IdleClean
  <2>2. ChainShape(r)'
    BY <1>1, <1>2, <1>3, <1>4, <2>1 DEF ChainShape, Makes, NoResponse, SearchKinds
  <2>3. (IdleClean(r) /\ CallShape(r) /\ EffectShape(r) /\ AnswerShape(r) /\ HitsOwn(r))'
    BY <1>1, <1>2, <1>3, <1>4, <1>5, <2>1
    DEF IdleClean, CallShape, EffectShape, AnswerShape, HitsOwn, NoResponse, SearchKinds, WriteKinds
  <2>4. (NameEvidence(r) /\ IdEvidence(r))'
    BY <1>1, <1>2, <1>3 DEF NameEvidence, IdEvidence, Makes, SearchKinds
  <2>. QED
    BY <2>2, <2>3, <2>4 DEF Coherent
<1>8. ASSUME NEW s \in Requests \ {r} PROVE Coherent(s)'
  BY <1>2, <1>3, <1>4, <1>5, Frame
<1>. QED
  BY <1>6, <1>7, <1>8
----------------------------------------------------------------------------
\* A chain that answers and ends: refusals come while a search is the latest
\* call, successes of writes after their effect.
LEMMA EndInv ==
    ASSUME IndInv, NEW r \in Requests, pc[r] \notin {"idle", "done"},
           NEW status \in {200, 201, 400, 404, 408, 500}, NEW why \in {"ok", "refused", "failed"},
           NEW item \in Item \cup {NoItem}, NEW total \in Nat,
           Respond(r, status, why, item, total),
           UNCHANGED <<docs, visible, totalHits, req, call, effect, intruded, standing>>,
           why = "refused" => call[r].kind \in SearchKinds,
           why = "ok" /\ req[r].op \in Writers => effect[r]
    PROVE  IndInv'
<1>. USE DEF IndInv
<1>1. /\ resp' \in [Requests -> Response] /\ pc' \in [Requests -> Places]
      /\ resp'[r].why = why /\ pc'[r] = "done"
      /\ \A s \in Requests \ {r} : resp'[s] = resp[s] /\ pc'[s] = pc[s]
  BY RespondLemma
<1>2. TypeOK'
  BY <1>1 DEF TypeOK
<1>3. Coherent(r)'
  <2>1. ChainShape(r)'
    BY <1>1 DEF Coherent, ChainShape
  <2>2. (IdleClean(r) /\ CallShape(r) /\ EffectShape(r) /\ AnswerShape(r) /\ HitsOwn(r))'
    BY <1>1 DEF Coherent, IdleClean, CallShape, EffectShape, AnswerShape, HitsOwn
  <2>3. (NameEvidence(r) /\ IdEvidence(r))'
    BY DEF Coherent, NameEvidence, IdEvidence, NoNameStood, Stood
  <2>. QED
    BY <2>1, <2>2, <2>3 DEF Coherent
<1>4. ASSUME NEW s \in Requests \ {r} PROVE Coherent(s)'
  BY <1>1, Frame
<1>. QED
  BY <1>2, <1>3, <1>4

\* A chain that issues its next call, with the evidence the call needs.
LEMMA IssueInv ==
    ASSUME IndInv, NEW r \in Requests, pc[r] \notin {"idle", "done"},
           NEW c \in Call, NEW place \in Waiting, Issue(r, c, place),
           UNCHANGED <<docs, visible, totalHits, req, resp, effect, intruded, standing>>,
           c.stage = "issued", Makes(req[r].op, c.kind), ~effect[r],
           \/ place = "searching" /\ c.kind \in {"id", "idAndType"}
           \/ place = "writing" /\ c.kind \in WriteKinds,
           c.kind = "delete" => c.hit \in Ids,
           /\ req[r].op = "create" /\ c.kind \in {"id", "index"}
           /\ req[r].item.type = "Apps" => ~intruded[r]
           => NoNameStood(r),
           c.kind = "index" /\ ~intruded[r] => ~Stood(r, req[r].id)
    PROVE  IndInv'
<1>. USE DEF IndInv
<1>1. /\ call' \in [Requests -> Call] /\ call'[r] = c
      /\ \A s \in Requests \ {r} : call'[s] = call[s]
  BY CallLemma DEF Issue
<1>2. /\ pc' \in [Requests -> Places] /\ pc'[r] = place
      /\ \A s \in Requests \ {r} : pc'[s] = pc[s]
  BY MoveLemma DEF Issue, Places
<1>3. TypeOK'
  BY <1>1, <1>2 DEF TypeOK
<1>4. Coherent(r)'
  <2>1. ChainShape(r)'
    BY <1>1, <1>2 DEF Coherent, ChainShape, Waiting, WriteKinds, NoResponse
  <2>2. (IdleClean(r) /\ CallShape(r) /\ EffectShape(r) /\ HitsOwn(r))'
    BY <1>1, <1>2 DEF IdleClean, CallShape, EffectShape, HitsOwn, Waiting, Makes
  <2>3. AnswerShape(r)'
    BY DEF Coherent, ChainShape, AnswerShape, NoResponse
  <2>4. (NameEvidence(r) /\ IdEvidence(r))'
    BY <1>1 DEF NameEvidence, IdEvidence, NoNameStood, Stood, WriteKinds
  <2>. QED
    BY <2>1, <2>2, <2>3, <2>4 DEF Coherent
<1>5. ASSUME NEW s \in Requests \ {r} PROVE Coherent(s)'
  BY <1>1, <1>2, Frame
<1>. QED
  BY <1>3, <1>4, <1>5

\* A chain that moves on without a call: to the second test of deleteItem, or
\* to hang on an exception.
LEMMA MoveInv ==
    ASSUME IndInv, NEW r \in Requests, pc[r] = "searching", NEW place \in {"rechecking", "hung"},
           pc' = [pc EXCEPT ![r] = place],
           UNCHANGED <<docs, visible, totalHits, req, call, resp, effect, intruded, standing>>,
           place = "rechecking" => call[r].kind = "links" /\ call[r].stage = "replied",
           place = "hung" => req[r].op = "get"
    PROVE  IndInv'
<1>. USE DEF IndInv
<1>1. /\ pc' \in [Requests -> Places] /\ pc'[r] = place
      /\ \A s \in Requests \ {r} : pc'[s] = pc[s]
  BY MoveLemma DEF Places
<1>2. TypeOK'
  BY <1>1 DEF TypeOK
<1>3. Coherent(r)'
  <2>1. ChainShape(r)'
    BY <1>1 DEF Coherent, ChainShape
  <2>2. (IdleClean(r) /\ CallShape(r) /\ EffectShape(r) /\ AnswerShape(r) /\ HitsOwn(r))'
    BY <1>1 DEF Coherent, IdleClean, CallShape, EffectShape, AnswerShape, HitsOwn
  <2>3. (NameEvidence(r) /\ IdEvidence(r))'
    BY DEF Coherent, NameEvidence, IdEvidence, NoNameStood, Stood
  <2>. QED
    BY <2>1, <2>2, <2>3 DEF Coherent
<1>4. ASSUME NEW s \in Requests \ {r} PROVE Coherent(s)'
  BY <1>1, Frame
<1>. QED
  BY <1>2, <1>3, <1>4
----------------------------------------------------------------------------
\* The continuations of the API server.
LEMMA ContinueInv ==
    ASSUME IndInv, NEW r \in Requests, Continue(r) PROVE IndInv'
<1>. USE DEF IndInv
<1>a. /\ Coherent(r) /\ ChainShape(r) /\ CallShape(r) /\ EffectShape(r) /\ HitsOwn(r)
      /\ NameEvidence(r) /\ IdEvidence(r)
      /\ totalHits \in Nat /\ call[r] \in Call /\ call[r].hits \in Nat
  BY DEF Coherent, TypeOK, Call
<1>1. CASE NameChecked(r)
  <2>1. /\ pc[r] = "validating" /\ call[r].kind = "name" /\ call[r].stage = "replied"
        /\ req[r].op \in {"create", "update"} /\ ~effect[r]
    BY <1>1, <1>a DEF NameChecked, At, ChainShape, EffectShape, Makes
  <2>2. CASE NameTaken(r)
    BY <1>1, <2>1, <2>2, EndInv DEF NameChecked, Refuse, Index_vars, History, SearchKinds, Writers
  <2>3. CASE ~NameTaken(r)
    <3>. DEFINE k == IF req[r].op = "create" THEN "id" ELSE "idAndType"
    <3>1. /\ CallOf(k) \in Call /\ CallOf(k).kind = k /\ CallOf(k).stage = "issued"
      BY CallOfLemma DEF SearchKinds
    <3>2. Makes(req[r].op, k)
      BY <2>1 DEF Makes
    <3>3. req[r].op = "create" /\ (req[r].item.type = "Apps" => ~intruded[r]) => NoNameStood(r)
      <4>. SUFFICES ASSUME req[r].op = "create", req[r].item.type = "Apps" => ~intruded[r]
                    PROVE  NoNameStood(r)
        OBVIOUS
      <4>1. CASE call[r].hit = NoId
        BY <1>a, <2>1, <4>1 DEF NameEvidence
      <4>2. CASE call[r].hit # NoId
        <5>1. req[r].item.type = "Apps" /\ ~(totalHits > 0)
          BY <2>3, <4>2 DEF NameTaken
        <5>2. totalHits = call[r].hits /\ call[r].hits # 0
          BY <1>a, <2>1, <4>2, <5>1 DEF HitsOwn, CallShape, SearchKinds
        <5>. QED
          BY <5>1, <5>2, <1>a
      <4>. QED
        BY <4>1, <4>2
    <3>4. Issue(r, CallOf(k), "searching") /\ UNCHANGED resp
      BY <1>1, <2>3 DEF NameChecked
    <3>5. UNCHANGED <<docs, visible, totalHits, req, effect, intruded, standing>>
      BY <1>1 DEF NameChecked, Index_vars, History
    <3>. HIDE DEF k
    <3>6. k \in {"id", "idAndType"}
      BY DEF k
    <3>. QED
      BY <2>1, <3>1, <3>2, <3>3, <3>4, <3>5, <3>6, IssueInv DEF Waiting
  <2>. QED
    BY <2>2, <2>3
<1>2. CASE CreateItem(r)
  <2>1. /\ pc[r] = "searching" /\ call[r].kind = "id" /\ call[r].stage = "replied"
        /\ req[r].op = "create" /\ ~effect[r]
    BY <1>2, <1>a DEF CreateItem, At, EffectShape
  <2>2. CASE totalHits > 0
    BY <1>2, <2>1, <2>2, EndInv DEF CreateItem, Refuse, Index_vars, History, SearchKinds, Writers
  <2>3. CASE ~(totalHits > 0)
    <3>1. /\ CallOf("index") \in Call /\ CallOf("index").kind = "index"
          /\ CallOf("index").stage = "issued"
      BY CallOfLemma DEF WriteKinds
    <3>2. (req[r].item.type = "Apps" => ~intruded[r]) => NoNameStood(r)
      BY <1>a, <2>1 DEF NameEvidence
    <3>3. ~intruded[r] => ~Stood(r, req[r].id)
      BY <1>a, <2>1, <2>3 DEF IdEvidence, HitsOwn, CallShape, SearchKinds
    <3>4. Issue(r, CallOf("index"), "writing") /\ UNCHANGED resp
      BY <1>2, <2>3 DEF CreateItem
    <3>5. UNCHANGED <<docs, visible, totalHits, req, effect, intruded, standing>>
      BY <1>2 DEF CreateItem, Index_vars, History
    <3>. QED
      BY <2>1, <3>1, <3>2, <3>3, <3>4, <3>5, IssueInv DEF Makes, Waiting, WriteKinds
  <2>. QED
    BY <2>2, <2>3
<1>3. CASE UpdateItem(r)
  <2>1. /\ pc[r] = "searching" /\ call[r].kind = "idAndType" /\ req[r].op = "update" /\ ~effect[r]
    BY <1>3, <1>a DEF UpdateItem, At, EffectShape, ChainShape, Makes
  <2>2. CASE totalHits = 0
    BY <1>3, <2>1, <2>2, EndInv DEF UpdateItem, Refuse, Index_vars, History, SearchKinds, Writers
  <2>3. CASE totalHits # 0
    <3>1. /\ CallOf("exists") \in Call /\ CallOf("exists").kind = "exists"
          /\ CallOf("exists").stage = "issued"
      BY CallOfLemma DEF WriteKinds
    <3>4. Issue(r, CallOf("exists"), "writing") /\ UNCHANGED resp
      BY <1>3, <2>3 DEF UpdateItem
    <3>5. UNCHANGED <<docs, visible, totalHits, req, effect, intruded, standing>>
      BY <1>3 DEF UpdateItem, Index_vars, History
    <3>. QED
      BY <2>1, <3>1, <3>4, <3>5, IssueInv DEF Makes, Waiting, WriteKinds
  <2>. QED
    BY <2>2, <2>3
<1>4. CASE DeleteTestMany(r)
  <2>1. /\ pc[r] = "searching" /\ call[r].kind = "links" /\ call[r].stage = "replied"
    BY <1>4 DEF DeleteTestMany, At
  <2>2. CASE totalHits > 1
    BY <1>4, <2>1, <2>2, EndInv DEF DeleteTestMany, Refuse, Index_vars, History, SearchKinds
  <2>3. CASE ~(totalHits > 1)
    BY <1>4, <2>1, <2>3, MoveInv DEF DeleteTestMany, Index_vars, History
  <2>. QED
    BY <2>2, <2>3
<1>5. CASE DeleteTestFew(r)
  <2>1. /\ pc[r] = "rechecking" /\ call[r].kind = "links" /\ call[r].stage = "replied"
        /\ req[r].op = "delete" /\ ~effect[r]
    BY <1>5, <1>a DEF DeleteTestFew, At, EffectShape, ChainShape, Makes
  <2>2. CASE totalHits < 1 \/ call[r].hit = NoId
    BY <1>5, <2>1, <2>2, EndInv DEF DeleteTestFew, Refuse, Index_vars, History, SearchKinds
  <2>3. CASE ~(totalHits < 1 \/ call[r].hit = NoId)
    <3>. DEFINE c == [CallOf("delete") EXCEPT !.hit = call[r].hit]
    <3>1. c \in Call /\ c.kind = "delete" /\ c.stage = "issued" /\ c.hit \in Ids
      BY <1>a, <2>3 DEF CallOf, NoCall, Call, SearchKinds, WriteKinds, Stages
    <3>4. Issue(r, c, "writing") /\ UNCHANGED resp
      BY <1>5, <2>3 DEF DeleteTestFew
    <3>5. UNCHANGED <<docs, visible, totalHits, req, effect, intruded, standing>>
      BY <1>5 DEF DeleteTestFew, Index_vars, History
    <3>. HIDE DEF c
    <3>. QED
      BY <2>1, <3>1, <3>4, <3>5, IssueInv DEF Makes, Waiting, WriteKinds
  <2>. QED
    BY <2>2, <2>3
<1>6. CASE GetItem(r)
  <2>1. /\ pc[r] = "searching" /\ call[r].kind = "id" /\ call[r].stage = "replied"
        /\ req[r].op = "get" /\ call[r].source \in Item \cup {NoItem}
    BY <1>6, <1>a DEF GetItem, At, Call
  <2>2. CASE /\ pc' = [pc EXCEPT ![r] = "hung"]
             /\ UNCHANGED resp
    BY <1>6, <2>1, <2>2, MoveInv DEF GetItem, Index_vars, History
  <2>3. CASE Refuse(r, 404) \/ Refuse(r, 500)
    BY <1>6, <2>1, <2>3, EndInv DEF GetItem, Refuse, Index_vars, History, SearchKinds
  <2>4. CASE Respond(r, 200, "ok", call[r].source, totalHits)
    BY <1>6, <1>a, <2>1, <2>4, EndInv DEF GetItem, Index_vars, History, Writers
  <2>. QED
    BY <1>6, <2>2, <2>3, <2>4 DEF GetItem
<1>7. CASE SearchItems(r)
  <2>1. pc[r] = "searching" /\ req[r].op = "search"
    BY <1>7, <1>a DEF SearchItems, At, ChainShape, Makes
  <2>. QED
    BY <1>7, <1>a, <2>1, EndInv DEF SearchItems, Index_vars, History, Writers
<1>8. CASE WriteAcknowledged(r)
  <2>1. effect[r] /\ pc[r] = "writing"
    BY <1>8, <1>a DEF WriteAcknowledged, ChainShape, EffectShape, CallShape, WriteKinds
  <2>. DEFINE status == IF req[r].op = "create" THEN 201 ELSE 200
  <2>2. Respond(r, status, "ok", NoItem, 0)
    BY <1>8 DEF WriteAcknowledged
  <2>3. status \in {200, 201}
    OBVIOUS
  <2>. HIDE DEF status
  <2>. QED
    BY <1>8, <2>1, <2>2, <2>3, EndInv DEF WriteAcknowledged, Index_vars, History
<1>9. CASE CallFailed(r)
  <2>1. pc[r] \notin {"idle", "done"} /\ FailureStatus(r) \in {400, 500}
    BY <1>9 DEF CallFailed, Waiting, FailureStatus
  <2>. QED
    BY <1>9, <2>1, EndInv DEF CallFailed, Fail, Index_vars, History
<1>. QED
  BY <1>1, <1>2, <1>3, <1>4, <1>5, <1>6, <1>7, <1>8, <1>9 DEF Continue

\* The two timers.
LEMMA TimeoutInv ==
    ASSUME IndInv, NEW r \in Requests, CallTimedOut(r) \/ RequestTimedOut(r) PROVE IndInv'
<1>1. CASE CallTimedOut(r)
  <2>1. pc[r] \notin {"idle", "done"} /\ FailureStatus(r) \in {400, 500}
    BY <1>1 DEF CallTimedOut, Waiting, FailureStatus
  <2>. QED
    BY <1>1, <2>1, EndInv DEF CallTimedOut, Fail, Index_vars, History
<1>2. CASE RequestTimedOut(r)
  BY <1>2, EndInv DEF RequestTimedOut, Index_vars, History
<1>. QED
  BY <1>1, <1>2
----------------------------------------------------------------------------
\* A call that moves to another stage keeps what it is and what it found.
LEMMA StageLemma ==
    ASSUME TypeOK, NEW r \in Requests, NEW stage \in Stages, SetStage(r, stage)
    PROVE  /\ call' \in [Requests -> Call]
           /\ call'[r].stage = stage /\ call'[r].kind = call[r].kind
           /\ call'[r].hits = call[r].hits /\ call'[r].hit = call[r].hit
           /\ call'[r].source = call[r].source
           /\ \A s \in Requests \ {r} : call'[s] = call[s]
  BY DEF TypeOK, SetStage, Call, Stages

\* A search is evaluated: what it did not find does not stand in the index.
LEMMA SearchInv ==
    ASSUME IndInv, NEW r \in Requests, EsSearch(r) PROVE IndInv'
<1>. USE DEF IndInv
<1>1. PICK d \in Call :
        /\ call' = [call EXCEPT ![r] = d]
        /\ d.kind = call[r].kind /\ d.stage = "answered"
        /\ d.hits = 0 <=> d.hit = NoId
        /\ d.hit # NoId => d.source \in Item
        /\ d.hit = NoId /\ call[r].kind # "listing" => Matches(r) = {}
  <2>1. PICK found \in Results(r) : \E i \in (IF found = {} THEN {NoId} ELSE found) :
          call' = [call EXCEPT ![r] = [@ EXCEPT !.stage = "answered", !.hit = i,
                      !.hits = Cardinality(found),
                      !.source = IF i = NoId THEN NoItem ELSE visible[i]]]
    BY DEF EsSearch
  <2>2. PICK i \in (IF found = {} THEN {NoId} ELSE found) :
          call' = [call EXCEPT ![r] = [@ EXCEPT !.stage = "answered", !.hit = i,
                      !.hits = Cardinality(found),
                      !.source = IF i = NoId THEN NoItem ELSE visible[i]]]
    BY <2>1
  <2>. DEFINE n == Cardinality(found)
              source == IF i = NoId THEN NoItem ELSE visible[i]
              c == call[r]
              d == [c EXCEPT !.stage = "answered", !.hit = i, !.hits = n, !.source = source]
  <2>3. n \in Nat /\ (n = 0 <=> found = {})
    BY ResultsLemma
  <2>4. i \in Ids \cup {NoId} /\ (i = NoId <=> found = {})
    BY ResultsLemma
  <2>5. source \in Item \cup {NoItem} /\ (i # NoId => source \in Item)
    <3>1. CASE i = NoId
      BY <3>1
    <3>2. CASE i # NoId
      <4>1. i \in Matches(r)
        BY <2>4, <3>2, ResultsLemma
      <4>. QED
        BY <4>1, <3>2 DEF Matches, TypeOK, Index
    <3>. QED
      BY <3>1, <3>2
  <2>6. call' = [call EXCEPT ![r] = d]
    BY <2>2 DEF TypeOK
  <2>7. c \in Call
    BY DEF TypeOK
  <2>. HIDE DEF n, source, c
  <2>8. /\ d \in Call /\ d.kind = c.kind /\ d.stage = "answered"
        /\ d.hits = n /\ d.hit = i /\ d.source = source
    BY <2>3, <2>4, <2>5, <2>7 DEF Call, Stages
  <2>9. i = NoId /\ call[r].kind # "listing" => Matches(r) = {}
    BY <2>4, ResultsLemma
  <2>. HIDE DEF d
  <2>. QED
    BY <2>3, <2>4, <2>5, <2>6, <2>8, <2>9 DEF c
<1>2. /\ call' \in [Requests -> Call] /\ call'[r] = d
      /\ \A s \in Requests \ {r} : call'[s] = call[s]
  BY <1>1, CallLemma
<1>3. /\ UNCHANGED <<docs, visible, totalHits, req, pc, resp, effect, intruded, standing>>
      /\ call[r].kind \in SearchKinds /\ call[r].stage = "issued"
  BY DEF EsSearch, Index_vars, API_vars, History
<1>4. TypeOK'
  BY <1>2, <1>3 DEF TypeOK
<1>5. Coherent(r)'
  <2>1. IdleClean(r)'
    BY <1>3 DEF Coherent, IdleClean, NoCall
  <2>2. ChainShape(r)'
    BY <1>1, <1>2, <1>3 DEF Coherent, ChainShape
  <2>3. (CallShape(r) /\ EffectShape(r) /\ AnswerShape(r) /\ HitsOwn(r))'
    BY <1>1, <1>2, <1>3
    DEF Coherent, CallShape, EffectShape, AnswerShape, HitsOwn, SearchKinds, WriteKinds
  <2>4. NameEvidence(r)'
    <3>1. CASE call[r].kind = "name" /\ d.hit = NoId
      <4>1. \A j \in Ids : visible[j] # NoItem => ~Matching(r, j)
        BY <1>1, <3>1 DEF Matches
      <4>2. NoNameStood(r)
        BY <3>1, <4>1 DEF NoNameStood, Stood, Matching
      <4>. QED
        BY <1>3, <4>2 DEF NameEvidence, NoNameStood, Stood
    <3>2. CASE ~(call[r].kind = "name" /\ d.hit = NoId)
      BY <1>1, <1>2, <1>3, <3>2 DEF Coherent, NameEvidence, NoNameStood, Stood
    <3>. QED
      BY <3>1, <3>2
  <2>5. IdEvidence(r)'
    <3>1. CASE call[r].kind = "id" /\ d.hit = NoId
      <4>1. \A j \in Ids : visible[j] # NoItem => ~Matching(r, j)
        BY <1>1, <3>1 DEF Matches
      <4>2. ~Stood(r, req[r].id)
        BY <3>1, <4>1 DEF Stood, Matching, TypeOK
      <4>. QED
        BY <1>3, <4>2 DEF IdEvidence, Stood
    <3>2. CASE ~(call[r].kind = "id" /\ d.hit = NoId)
      BY <1>1, <1>2, <1>3, <3>2 DEF Coherent, IdEvidence, Stood, SearchKinds
    <3>. QED
      BY <3>1, <3>2
  <2>. QED
    BY <2>1, <2>2, <2>3, <2>4, <2>5 DEF Coherent
<1>6. ASSUME NEW s \in Requests \ {r} PROVE Coherent(s)'
  BY <1>2, <1>3, Frame
<1>. QED
  BY <1>4, <1>5, <1>6

\* A search's callback stores the number of hits: every other search that has
\* been replied to and is not read yet has been intruded upon.
LEMMA SearchCallbackInv ==
    ASSUME IndInv, NEW r \in Requests, EsSearchCallback(r) PROVE IndInv'
<1>. USE DEF IndInv
<1>1. /\ call' \in [Requests -> Call]
      /\ call'[r].stage = "replied" /\ call'[r].kind = call[r].kind
      /\ call'[r].hits = call[r].hits /\ call'[r].hit = call[r].hit
      /\ call'[r].source = call[r].source
      /\ \A s \in Requests \ {r} : call'[s] = call[s]
  BY StageLemma DEF EsSearchCallback, Stages
<1>2. /\ UNCHANGED <<docs, visible, req, pc, resp, effect, standing>>
      /\ call[r].stage = "answered" /\ totalHits' = call[r].hits
  BY DEF EsSearchCallback, Index_vars, API_vars
<1>3. /\ intruded' \in [Requests -> BOOLEAN]
      /\ intruded'[r] = intruded[r]
      /\ \A s \in Requests \ {r} : /\ intruded[s] => intruded'[s]
                                   /\ call[s].stage = "replied" => intruded'[s]
                                   /\ call[s].stage # "replied" => intruded'[s] = intruded[s]
  BY DEF EsSearchCallback, TypeOK
<1>4. TypeOK'
  BY <1>1, <1>2, <1>3 DEF TypeOK, Call
<1>5. Coherent(r)'
  <2>1. call[r].kind \in SearchKinds
    BY <1>2 DEF Coherent, CallShape, TypeOK, Call
  <2>2. (IdleClean(r) /\ ChainShape(r))'
    BY <1>1, <1>2, <1>3 DEF Coherent, IdleClean, ChainShape, NoCall
  <2>3. (CallShape(r) /\ EffectShape(r) /\ AnswerShape(r) /\ HitsOwn(r))'
    BY <1>1, <1>2, <1>3, <2>1
    DEF Coherent, CallShape, EffectShape, AnswerShape, HitsOwn, SearchKinds, WriteKinds
  <2>4. (NameEvidence(r) /\ IdEvidence(r))'
    BY <1>1, <1>2, <1>3 DEF Coherent, NameEvidence, IdEvidence, NoNameStood, Stood
  <2>. QED
    BY <2>2, <2>3, <2>4 DEF Coherent
<1>6. ASSUME NEW s \in Requests \ {r} PROVE Coherent(s)'
  <2>1. (IdleClean(s) /\ ChainShape(s))'
    BY <1>1, <1>2, <1>3 DEF Coherent, IdleClean, ChainShape, NoCall
  <2>2. (CallShape(s) /\ EffectShape(s) /\ AnswerShape(s) /\ HitsOwn(s))'
    BY <1>1, <1>2, <1>3 DEF Coherent, CallShape, EffectShape, AnswerShape, HitsOwn
  <2>3. (NameEvidence(s) /\ IdEvidence(s))'
    BY <1>1, <1>2, <1>3 DEF Coherent, NameEvidence, IdEvidence, NoNameStood, Stood
  <2>. QED
    BY <2>1, <2>2, <2>3 DEF Coherent
<1>. QED
  BY <1>4, <1>5, <1>6

\* A write call reaches the index, whatever becomes of its reply.
LEMMA ApplyInv ==
    ASSUME IndInv, NEW r \in Requests, NEW i \in Ids, NEW item \in Item \cup {NoItem},
           NEW stage \in {"replied", "failed", "lost"},
           call[r].kind \in {"index", "update", "delete"},
           docs' = [docs EXCEPT ![i] = item], effect' = [effect EXCEPT ![r] = TRUE],
           SetStage(r, stage),
           UNCHANGED <<visible, totalHits, req, pc, resp, intruded, standing>>
    PROVE  IndInv'
<1>. USE DEF IndInv
<1>1. /\ call' \in [Requests -> Call]
      /\ call'[r].stage = stage /\ call'[r].kind = call[r].kind
      /\ call'[r].hits = call[r].hits /\ call'[r].hit = call[r].hit
      /\ call'[r].source = call[r].source
      /\ \A s \in Requests \ {r} : call'[s] = call[s]
  BY StageLemma DEF Stages
<1>2. /\ effect' \in [Requests -> BOOLEAN] /\ effect'[r]
      /\ \A s \in Requests \ {r} : effect'[s] = effect[s]
      /\ docs' \in Index
  BY DEF TypeOK, Index
<1>3. TypeOK'
  BY <1>1, <1>2 DEF TypeOK
<1>4. Coherent(r)'
  <2>1. (IdleClean(r) /\ ChainShape(r))'
    BY <1>1 DEF Coherent, IdleClean, ChainShape, NoCall
  <2>2. (CallShape(r) /\ EffectShape(r) /\ AnswerShape(r) /\ HitsOwn(r))'
    BY <1>1, <1>2 DEF Coherent, CallShape, EffectShape, AnswerShape, HitsOwn, SearchKinds
  <2>3. (NameEvidence(r) /\ IdEvidence(r))'
    BY <1>1 DEF Coherent, NameEvidence, IdEvidence, NoNameStood, Stood
  <2>. QED
    BY <2>1, <2>2, <2>3 DEF Coherent
<1>5. ASSUME NEW s \in Requests \ {r} PROVE Coherent(s)'
  BY <1>1, <1>2, Frame
<1>. QED
  BY <1>3, <1>4, <1>5

\* A call that fails, or an existence check that turns into the update, changes
\* nothing but the call.
LEMMA FailsInv ==
    ASSUME IndInv, NEW r \in Requests, EsFails(r) PROVE IndInv'
<1>. USE DEF IndInv
<1>1. PICK stage \in {"failed", "lost"} : SetStage(r, stage)
  BY DEF EsFails
<1>2. /\ call' \in [Requests -> Call]
      /\ call'[r].stage = stage /\ call'[r].kind = call[r].kind
      /\ call'[r].hits = call[r].hits /\ call'[r].hit = call[r].hit
      /\ call'[r].source = call[r].source
      /\ \A s \in Requests \ {r} : call'[s] = call[s]
  BY <1>1, StageLemma DEF Stages
<1>3. /\ UNCHANGED <<docs, visible, totalHits, req, pc, resp, effect, intruded, standing>>
      /\ call[r].stage = "issued"
  BY DEF EsFails, Index_vars, API_vars, History
<1>4. TypeOK'
  BY <1>2, <1>3 DEF TypeOK
<1>5. Coherent(r)'
  <2>1. (IdleClean(r) /\ ChainShape(r))'
    BY <1>2, <1>3 DEF Coherent, IdleClean, ChainShape, NoCall
  <2>2. (CallShape(r) /\ EffectShape(r) /\ AnswerShape(r) /\ HitsOwn(r))'
    BY <1>2, <1>3 DEF Coherent, CallShape, EffectShape, AnswerShape, HitsOwn
  <2>3. (NameEvidence(r) /\ IdEvidence(r))'
    BY <1>2, <1>3 DEF Coherent, NameEvidence, IdEvidence, NoNameStood, Stood
  <2>. QED
    BY <2>1, <2>2, <2>3 DEF Coherent
<1>6. ASSUME NEW s \in Requests \ {r} PROVE Coherent(s)'
  BY <1>2, <1>3, Frame
<1>. QED
  BY <1>4, <1>5, <1>6

LEMMA ExistsInv ==
    ASSUME IndInv, NEW r \in Requests, EsExists(r) PROVE IndInv'
<1>. USE DEF IndInv
<1>1. CASE SetStage(r, "failed")
  <2>1. EsFails(r)
    BY <1>1 DEF EsExists, EsFails, Pending
  <2>. QED
    BY <2>1, FailsInv
<1>2. CASE call' = [call EXCEPT ![r].kind = "update"]
  <2>1. /\ UNCHANGED <<docs, visible, totalHits, req, pc, resp, effect, intruded, standing>>
        /\ call[r].stage = "issued" /\ call[r].kind = "exists"
    BY DEF EsExists, Pending, Index_vars, API_vars, History
  <2>2. /\ call' \in [Requests -> Call]
        /\ call'[r].stage = "issued" /\ call'[r].kind = "update"
        /\ \A s \in Requests \ {r} : call'[s] = call[s]
    BY <1>2, <2>1 DEF TypeOK, Call, WriteKinds
  <2>3. TypeOK'
    BY <2>1, <2>2 DEF TypeOK
  <2>4. Coherent(r)'
    <3>1. (IdleClean(r) /\ ChainShape(r))'
      BY <2>1, <2>2 DEF Coherent, IdleClean, ChainShape, NoCall, Makes, WriteKinds
    <3>2. (CallShape(r) /\ EffectShape(r) /\ AnswerShape(r) /\ HitsOwn(r))'
      BY <2>1, <2>2
      DEF Coherent, CallShape, EffectShape, AnswerShape, HitsOwn, SearchKinds, WriteKinds
    <3>3. (NameEvidence(r) /\ IdEvidence(r))'
      BY <2>2 DEF NameEvidence, IdEvidence
    <3>. QED
      BY <3>1, <3>2, <3>3 DEF Coherent
  <2>5. ASSUME NEW s \in Requests \ {r} PROVE Coherent(s)'
    BY <2>1, <2>2, Frame
  <2>. QED
    BY <2>3, <2>4, <2>5
<1>. QED
  BY <1>1, <1>2 DEF EsExists

\* The steps of the Elasticsearch service.
LEMMA EsStepInv ==
    ASSUME IndInv, NEW r \in Requests, EsStep(r) PROVE IndInv'
<1>. USE DEF IndInv
<1>1. /\ call[r] \in Call /\ req[r] \in Request /\ call[r].hit \in Ids \cup {NoId}
      /\ docs \in Index /\ Coherent(r)
  BY DEF TypeOK, Call
<1>2. CASE EsIndex(r)
  <2>1. /\ call[r].kind = "index" /\ pc[r] # "idle"
        /\ req[r].id \in Ids /\ req[r].item \in Item
    BY <1>1, <1>2 DEF EsIndex, Pending, Coherent, IdleClean, ChainShape, NoCall, Makes
  <2>2. PICK stage \in {"replied", "lost"} : SetStage(r, stage)
    BY <1>2 DEF EsIndex, Apply
  <2>. QED
    BY <1>2, <2>1, <2>2, ApplyInv DEF EsIndex, Apply, API_vars
<1>3. CASE EsUpdate(r)
  <2>. DEFINE item == Merged(docs[req[r].id], req[r].item)
  <2>1. /\ call[r].kind = "update" /\ pc[r] # "idle"
        /\ req[r].id \in Ids /\ req[r].item \in Item /\ docs[req[r].id] \in Item
    BY <1>1, <1>3
    DEF EsUpdate, Pending, Coherent, IdleClean, ChainShape, NoCall, Makes, Index
  <2>2. item \in Item
    BY <2>1 DEF Merged, Item
  <2>3. PICK stage \in {"replied", "failed"} : SetStage(r, stage)
    BY <1>3 DEF EsUpdate, Apply
  <2>4. Apply(r, req[r].id, item, {"replied", "failed"})
    BY <1>3 DEF EsUpdate
  <2>. HIDE DEF item
  <2>. QED
    BY <2>1, <2>2, <2>3, <2>4, ApplyInv DEF Apply, API_vars
<1>4. CASE EsDelete(r)
  <2>1. call[r].kind = "delete" /\ call[r].hit \in Ids
    BY <1>1, <1>4 DEF EsDelete, Pending, Coherent, CallShape
  <2>2. PICK stage \in {"replied", "failed"} : SetStage(r, stage)
    BY <1>4 DEF EsDelete, Apply
  <2>. QED
    BY <1>4, <2>1, <2>2, ApplyInv DEF EsDelete, Apply, API_vars
<1>. QED
  BY <1>2, <1>3, <1>4, SearchInv, SearchCallbackInv, ExistsInv, FailsInv DEF EsStep

\* A refresh can only take documents away from those that stood.
LEMMA RefreshInv ==
    ASSUME IndInv, NEW i \in Ids, Refresh(i) PROVE IndInv'
<1>. USE DEF IndInv
<1>1. /\ UNCHANGED <<docs, totalHits, req, pc, call, resp, effect, intruded>>
      /\ visible' \in Index /\ \A j \in Ids \ {i} : visible'[j] = visible[j]
      /\ standing' \in [Requests -> SUBSET Ids]
      /\ \A s \in Requests : standing'[s] = standing[s] \ {i}
  BY DEF Refresh, API_vars, TypeOK, Index
<1>2. TypeOK'
  BY <1>1 DEF TypeOK
<1>3. ASSUME NEW s \in Requests PROVE Coherent(s)'
  <2>1. ASSUME NEW j \in Ids, Stood(s, j)'
        PROVE  Stood(s, j) /\ visible'[j] = visible[j]
    BY <1>1, <2>1 DEF Stood
  <2>2. NoNameStood(s) => NoNameStood(s)'
    BY <1>1, <2>1 DEF NoNameStood
  <2>3. ASSUME Stood(s, req[s].id)' PROVE Stood(s, req[s].id)
    <3>1. req[s].id \in Ids
      BY <1>1, <2>3 DEF Stood, TypeOK
    <3>. QED
      BY <1>1, <2>1, <2>3, <3>1
  <2>4. (IdleClean(s) /\ ChainShape(s))'
    BY <1>1 DEF Coherent, IdleClean, ChainShape
  <2>5. (CallShape(s) /\ EffectShape(s) /\ AnswerShape(s) /\ HitsOwn(s))'
    BY <1>1 DEF Coherent, CallShape, EffectShape, AnswerShape, HitsOwn
  <2>6. NameEvidence(s)' /\ IdEvidence(s)'
    BY <1>1, <2>2, <2>3 DEF Coherent, NameEvidence, IdEvidence
  <2>. QED
    BY <2>4, <2>5, <2>6 DEF Coherent
<1>. QED
  BY <1>2, <1>3
----------------------------------------------------------------------------
\* Every step of the server preserves the invariant.
LEMMA StepInv ==
    ASSUME IndInv, [Next]_vars PROVE IndInv'
<1>1. CASE UNCHANGED vars
  <2>1. TypeOK'
    BY <1>1 DEF IndInv, TypeOK, vars
  <2>2. ASSUME NEW s \in Requests PROVE Coherent(s)'
    BY <1>1, Frame DEF IndInv, vars
  <2>. QED
    BY <2>1, <2>2 DEF IndInv
<1>2. ASSUME NEW r \in Requests,
             Arrive(r) \/ Continue(r) \/ CallTimedOut(r) \/ RequestTimedOut(r) \/ EsStep(r)
      PROVE  IndInv'
  BY <1>2, ArriveInv, ContinueInv, TimeoutInv, EsStepInv
<1>3. ASSUME NEW i \in Ids, Refresh(i) PROVE IndInv'
  BY <1>3, RefreshInv
<1>. QED
  BY <1>1, <1>2, <1>3 DEF Next, Quiet

\* The chains of ItemServiceImpl stay coherent: the inductive invariant.
THEOREM Invariance == Spec => []IndInv
  BY InitInv, StepInv, PTL DEF Spec

\* Every variable of the item service always has its type.
THEOREM TypeCorrect == Spec => []TypeOK
<1>1. IndInv => TypeOK
  BY DEF IndInv
<1>. QED
  BY <1>1, Invariance, PTL

\* The validators' promise: no creation takes effect while an item of the same
\* type and name stands in the search index.
THEOREM NamesRespected == Spec => []CreateRespectsNames
<1>1. IndInv => CreateRespectsNames
  <2>. SUFFICES ASSUME IndInv, NEW r \in Requests,
                       effect[r], req[r].op = "create", req[r].item.type = "Apps" => ~intruded[r]
                PROVE  NoNameStood(r)
    BY DEF CreateRespectsNames, NoNameStood
  <2>1. pc[r] # "idle" /\ ChainShape(r) /\ EffectShape(r) /\ NameEvidence(r)
    BY DEF IndInv, Coherent, IdleClean
  <2>. QED
    BY <2>1 DEF ChainShape, EffectShape, NameEvidence, Makes
<1>. QED
  BY <1>1, Invariance, PTL

\* createItem: an item that stands in the search index is not overwritten by a
\* creation whose number of hits was its own.
THEOREM IdsRespected == Spec => []CreateRespectsIds
<1>1. IndInv => CreateRespectsIds
  <2>. SUFFICES ASSUME IndInv, NEW r \in Requests,
                       effect[r], req[r].op = "create", ~intruded[r]
                PROVE  ~Stood(r, req[r].id)
    BY DEF CreateRespectsIds
  <2>1. pc[r] # "idle" /\ ChainShape(r) /\ EffectShape(r) /\ IdEvidence(r)
    BY DEF IndInv, Coherent, IdleClean
  <2>. QED
    BY <2>1 DEF ChainShape, EffectShape, IdEvidence, Makes
<1>. QED
  BY <1>1, Invariance, PTL

\* What a client is told about a write is what happened to the index.
THEOREM AnswersTrue == Spec => []AnswersTellTheEffect
<1>1. IndInv => AnswersTellTheEffect
  <2>. SUFFICES ASSUME IndInv, NEW r \in Requests
                PROVE  /\ resp[r].why = "ok" /\ req[r].op \in Writers => effect[r]
                       /\ resp[r].why = "refused" =>
                            /\ ~effect[r]
                            /\ ~(call[r].kind \in WriteKinds /\ call[r].stage = "issued")
    BY DEF AnswersTellTheEffect, Writers
  <2>1. EffectShape(r) /\ AnswerShape(r)
    BY DEF IndInv, Coherent
  <2>. QED
    BY <2>1 DEF EffectShape, AnswerShape, SearchKinds, WriteKinds
<1>. QED
  BY <1>1, Invariance, PTL
----------------------------------------------------------------------------
\* The refinement: how each step looks to a client of the abstract store.
LEMMA AnswerLemma ==
    ASSUME NEW r \in Requests, NEW why,
           resp'[r].why = why, \A s \in Requests \ {r} : resp'[s] = resp[s]
    PROVE  Answered' = [Answered EXCEPT ![r] = why]
  BY DEF Answered

LEMMA AnswerStep ==
    ASSUME IndInv, NEW r \in Requests, pc[r] \notin {"idle", "done"},
           NEW status \in {200, 201, 400, 404, 408, 500}, NEW why \in {"ok", "refused", "failed"},
           NEW item \in Item \cup {NoItem}, NEW total \in Nat,
           Respond(r, status, why, item, total),
           UNCHANGED <<docs, req, effect>>,
           why = "refused" => ~effect[r],
           why = "ok" /\ req[r].op \in Writers => effect[r]
    PROVE  Store!Next
<1>1. resp'[r].why = why /\ \A s \in Requests \ {r} : resp'[s] = resp[s]
  BY RespondLemma DEF IndInv
<1>2. Answered' = [Answered EXCEPT ![r] = why]
  BY <1>1, AnswerLemma
<1>3. RequestKind[r] # "none" /\ Answered[r] = "none"
      /\ (RequestKind[r] = "write" => req[r].op \in Writers)
  BY DEF IndInv, Coherent, ChainShape, RequestKind, Answered, NoResponse
<1>4. UNCHANGED RequestKind
  BY DEF RequestKind
<1>5. CASE why = "ok"
  BY <1>2, <1>3, <1>4, <1>5 DEF Store!Next, Store!Succeed
<1>6. CASE why = "refused"
  BY <1>2, <1>3, <1>4, <1>6 DEF Store!Next, Store!Refuse
<1>7. CASE why = "failed"
  BY <1>2, <1>3, <1>4, <1>7 DEF Store!Next, Store!Fail
<1>. QED
  BY <1>5, <1>6, <1>7

LEMMA SilentStep ==
    ASSUME UNCHANGED <<docs, req, resp, effect>> PROVE UNCHANGED Store!vars
  BY DEF Store!vars, RequestKind, Answered

LEMMA SendStep ==
    ASSUME IndInv, NEW r \in Requests, Arrive(r) PROVE Store!Next
<1>1. PICK q \in Request :
        /\ Receive(r, q) /\ q.op # "none"
        /\ Refuse(r, 400) \/ UNCHANGED resp
  <2>1. CASE ReceiveWrite(r)
    <3>. PICK op \in Ops \cap {"create", "update"}, i \in Ids, u \in Users, b \in Bodies :
           /\ Receive(r, WriteRequest(r, op, i, u, b))
           /\ Refuse(r, 400) \/ UNCHANGED resp
      BY <2>1 DEF ReceiveWrite
    <3>1. WriteRequest(r, op, i, u, b) \in Request /\ WriteRequest(r, op, i, u, b).op = op
      BY DEF WriteRequest, Request, Item, Body
    <3>. QED
      BY <3>1
  <2>2. CASE ReceiveDelete(r)
    BY <2>2 DEF ReceiveDelete, NoRequest, Request
  <2>3. CASE ReceiveGet(r)
    BY <2>3 DEF ReceiveGet, NoRequest, Request
  <2>4. CASE ReceiveSearch(r)
    BY <2>4 DEF ReceiveSearch, NoRequest, Request
  <2>. QED
    BY <2>1, <2>2, <2>3, <2>4 DEF Arrive
<1>2. req[r].op = "none" /\ Answered[r] = "none" /\ UNCHANGED <<docs, effect>>
      /\ req' = [req EXCEPT ![r] = q] /\ req \in [Requests -> Request]
  BY <1>1 DEF Receive, IndInv, TypeOK, Coherent, IdleClean, NoRequest, NoResponse, Answered
<1>3. RequestKind[r] = "none"
  BY <1>2 DEF RequestKind
<1>4. \E k \in {"read", "write"} : RequestKind' = [RequestKind EXCEPT ![r] = k]
  <2>. DEFINE k == IF q.op \in Writers THEN "write" ELSE "read"
  <2>1. RequestKind' = [RequestKind EXCEPT ![r] = k]
    BY <1>1, <1>2 DEF RequestKind
  <2>. QED
    BY <2>1
<1>5. \E a \in {"none", "refused"} : Answered' = [Answered EXCEPT ![r] = a]
  <2>1. CASE UNCHANGED resp
    <3>1. Answered' = [Answered EXCEPT ![r] = "none"]
      BY <1>2, <2>1 DEF Answered
    <3>. QED
      BY <3>1
  <2>2. CASE Refuse(r, 400)
    <3>1. /\ resp'[r].why = "refused"
          /\ \A s \in Requests \ {r} : resp'[s] = resp[s]
      BY <2>2, RefuseLemma DEF IndInv
    <3>2. Answered' = [Answered EXCEPT ![r] = "refused"]
      BY <3>1 DEF Answered
    <3>. QED
      BY <3>2
  <2>. QED
    BY <1>1, <2>1, <2>2
<1>. QED
  BY <1>2, <1>3, <1>4, <1>5 DEF Store!Next, Store!Send

LEMMA EffectStep ==
    ASSUME IndInv, NEW r \in Requests, NEW i \in Ids, NEW item \in Item \cup {NoItem},
           call[r].kind \in {"index", "update", "delete"}, call[r].stage = "issued",
           docs' = [docs EXCEPT ![i] = item], effect' = [effect EXCEPT ![r] = TRUE],
           UNCHANGED <<req, resp>>
    PROVE  Store!Next
<1>1. /\ pc[r] # "idle" /\ ChainShape(r) /\ EffectShape(r) /\ AnswerShape(r)
      /\ resp[r].why \in {"none", "ok", "refused", "failed"}
  BY DEF IndInv, TypeOK, Response, Coherent, IdleClean, NoCall
<1>2. ~effect[r] /\ req[r].op \in Writers
  BY <1>1 DEF EffectShape, ChainShape, Makes, Writers
<1>3. RequestKind[r] = "write"
  BY <1>2 DEF RequestKind, Writers
<1>4. Answered[r] \in {"none", "failed"}
  BY <1>1, <1>2 DEF Answered, AnswerShape, SearchKinds
<1>5. UNCHANGED <<RequestKind, Answered>>
  BY DEF RequestKind, Answered
<1>. QED
  BY <1>2, <1>3, <1>4, <1>5 DEF Store!Next, Store!TakeEffect

\* The steps of a chain: an answer, or nothing a client can see.
LEMMA ChainStep ==
    ASSUME IndInv, NEW r \in Requests, Continue(r) \/ CallTimedOut(r) \/ RequestTimedOut(r)
    PROVE  Store!Next \/ UNCHANGED Store!vars
<1>1. /\ Coherent(r) /\ ChainShape(r) /\ CallShape(r) /\ EffectShape(r)
      /\ totalHits \in Nat /\ call[r] \in Call /\ call[r].source \in Item \cup {NoItem}
  BY DEF IndInv, Coherent, TypeOK, Call
<1>2. UNCHANGED <<docs, req, effect>>
  BY DEF Continue, NameChecked, CreateItem, UpdateItem, DeleteTestMany, DeleteTestFew, GetItem,
         SearchItems, WriteAcknowledged, CallFailed, CallTimedOut, RequestTimedOut,
         Index_vars, History
<1>3. pc[r] \notin {"idle", "done"}
  BY DEF Continue, NameChecked, CreateItem, UpdateItem, DeleteTestMany, DeleteTestFew, GetItem,
         SearchItems, WriteAcknowledged, CallFailed, CallTimedOut, RequestTimedOut, At, Waiting
<1>4. CASE UNCHANGED resp
  BY <1>2, <1>4, SilentStep
<1>5. CASE /\ call[r].kind \in SearchKinds
           /\ Refuse(r, 400) \/ Refuse(r, 404) \/ Refuse(r, 500)
  <2>1. ~effect[r]
    BY <1>1, <1>5 DEF EffectShape, SearchKinds
  <2>. QED
    BY <1>2, <1>3, <1>5, <2>1, AnswerStep DEF Refuse
<1>6. CASE Fail(r) \/ Respond(r, 408, "failed", NoItem, 0)
  <2>1. FailureStatus(r) \in {400, 500}
    BY DEF FailureStatus
  <2>. QED
    BY <1>2, <1>3, <1>6, <2>1, AnswerStep DEF Fail
<1>7. CASE /\ Respond(r, 200, "ok", call[r].source, totalHits) \/ Respond(r, 200, "ok", NoItem, totalHits)
           /\ req[r].op \notin Writers
  BY <1>1, <1>2, <1>3, <1>7, AnswerStep
<1>8. CASE WriteAcknowledged(r)
  <2>1. effect[r]
    BY <1>1, <1>8 DEF WriteAcknowledged, ChainShape, EffectShape, CallShape, WriteKinds
  <2>. DEFINE status == IF req[r].op = "create" THEN 201 ELSE 200
  <2>2. Respond(r, status, "ok", NoItem, 0) /\ status \in {200, 201}
    BY <1>8 DEF WriteAcknowledged
  <2>. HIDE DEF status
  <2>. QED
    BY <1>2, <1>3, <2>1, <2>2, AnswerStep
<1>9. QED
  <2>1. CASE NameChecked(r)
    BY <1>4, <1>5, <2>1 DEF NameChecked, At, SearchKinds
  <2>2. CASE CreateItem(r)
    BY <1>4, <1>5, <2>2 DEF CreateItem, At, SearchKinds
  <2>3. CASE UpdateItem(r)
    BY <1>4, <1>5, <2>3 DEF UpdateItem, At, SearchKinds
  <2>4. CASE DeleteTestMany(r)
    BY <1>4, <1>5, <2>4 DEF DeleteTestMany, At, SearchKinds
  <2>5. CASE DeleteTestFew(r)
    BY <1>4, <1>5, <2>5 DEF DeleteTestFew, At, SearchKinds
  <2>6. CASE GetItem(r)
    <3>1. req[r].op \notin Writers /\ call[r].kind \in SearchKinds
      BY <2>6 DEF GetItem, At, Writers, SearchKinds
    <3>. QED
      BY <1>4, <1>5, <1>7, <2>6, <3>1 DEF GetItem
  <2>7. CASE SearchItems(r)
    <3>1. req[r].op \notin Writers
      BY <1>1, <2>7 DEF SearchItems, At, ChainShape, Makes, Writers
    <3>. QED
      BY <1>7, <2>7, <3>1 DEF SearchItems
  <2>8. CASE CallFailed(r) \/ CallTimedOut(r) \/ RequestTimedOut(r)
    BY <1>6, <2>8 DEF CallFailed, CallTimedOut, RequestTimedOut
  <2>. QED
    BY <1>8, <2>1, <2>2, <2>3, <2>4, <2>5, <2>6, <2>7, <2>8 DEF Continue

\* The steps of Elasticsearch: an effect, or nothing a client can see.
LEMMA IndexStep ==
    ASSUME IndInv, NEW r \in Requests, EsStep(r)
    PROVE  Store!Next \/ UNCHANGED Store!vars
<1>1. /\ call[r] \in Call /\ req[r] \in Request /\ docs \in Index /\ Coherent(r)
  BY DEF IndInv, TypeOK
<1>2. CASE EsIndex(r)
  <2>1. /\ call[r].kind = "index" /\ call[r].stage = "issued"
        /\ req[r].id \in Ids /\ req[r].item \in Item
    BY <1>1, <1>2 DEF EsIndex, Pending, Coherent, IdleClean, ChainShape, NoCall, Makes
  <2>. QED
    BY <1>2, <2>1, EffectStep DEF EsIndex, Apply, API_vars
<1>3. CASE EsUpdate(r)
  <2>. DEFINE item == Merged(docs[req[r].id], req[r].item)
  <2>1. /\ call[r].kind = "update" /\ call[r].stage = "issued"
        /\ req[r].id \in Ids /\ req[r].item \in Item /\ docs[req[r].id] \in Item
    BY <1>1, <1>3
    DEF EsUpdate, Pending, Coherent, IdleClean, ChainShape, NoCall, Makes, Index
  <2>2. item \in Item
    BY <2>1 DEF Merged, Item
  <2>3. Apply(r, req[r].id, item, {"replied", "failed"})
    BY <1>3 DEF EsUpdate
  <2>. HIDE DEF item
  <2>. QED
    BY <2>1, <2>2, <2>3, EffectStep DEF Apply, API_vars
<1>4. CASE EsDelete(r)
  <2>1. call[r].kind = "delete" /\ call[r].stage = "issued" /\ call[r].hit \in Ids
    BY <1>1, <1>4 DEF EsDelete, Pending, Coherent, CallShape
  <2>. QED
    BY <1>4, <2>1, EffectStep DEF EsDelete, Apply, API_vars
<1>5. CASE EsSearch(r) \/ EsSearchCallback(r) \/ EsExists(r) \/ EsFails(r)
  BY <1>5, SilentStep
  DEF EsSearch, EsSearchCallback, EsExists, EsFails, Index_vars, API_vars, History
<1>. QED
  BY <1>2, <1>3, <1>4, <1>5 DEF EsStep

LEMMA InitStore == Init => Store!Init
<1>. SUFFICES ASSUME Init PROVE Store!Init
  OBVIOUS
<1>1. docs \in [Ids -> Item \cup {NoItem}]
  BY DEF Init, Index
<1>2. RequestKind = [r \in Requests |-> "none"] /\ Answered = [r \in Requests |-> "none"]
  BY DEF Init, RequestKind, Answered, NoRequest, NoResponse
<1>. QED
  BY <1>1, <1>2 DEF Init, Store!Init

\* The item service implements the abstract store: each of its steps is an
\* allowed step of the store or changes nothing its clients can see.
THEOREM Refinement == Spec => ImplementsStore
<1>1. ASSUME IndInv, [Next]_vars PROVE [Store!Next]_Store!vars
  <2>1. CASE UNCHANGED vars
    BY <2>1, SilentStep DEF vars
  <2>2. ASSUME NEW r \in Requests,
               Arrive(r) \/ Continue(r) \/ CallTimedOut(r) \/ RequestTimedOut(r) \/ EsStep(r)
        PROVE  Store!Next \/ UNCHANGED Store!vars
    BY <1>1, <2>2, SendStep, ChainStep, IndexStep
  <2>3. ASSUME NEW i \in Ids, Refresh(i) PROVE UNCHANGED Store!vars
    BY <2>3, SilentStep DEF Refresh, API_vars
  <2>. QED
    BY <1>1, <2>1, <2>2, <2>3 DEF Next, Quiet
<1>. QED
  BY <1>1, InitStore, Invariance, PTL DEF Spec, Store!Spec, ImplementsStore
============================================================================
