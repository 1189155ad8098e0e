------------------------- MODULE ItemEvidenceProof -------------------------
(***************************************************************************)
(* More proofs about ItemService, for the operations that read what a      *)
(* search left behind: updates, deletions and reads of an item.  Each      *)
(* keeps the evidence that its search gave it for as long as the answer,   *)
(* or the call that acts on it, is under way.                              *)
(***************************************************************************)
EXTENDS ItemServiceProof

Searched(r) == call[r].stage \in {"answered", "replied"}

\* An update that found its item, or is past the test, found it with the type
\* that the request names; it still has it if it did not change.
TypeEvidence(r) ==
    /\ req[r].op = "update" /\ req[r].id \in standing[r]
    /\ \/ call[r].kind = "idAndType" /\ Searched(r) /\ call[r].hit # NoId
       \/ call[r].kind \in {"exists", "update"} /\ ~intruded[r]
    => visible[req[r].id] # NoItem /\ visible[req[r].id].type = req[r].item.type

\* A document that stood in the search index and is r's item or links to it.
Linked(r, i) == Stood(r, i) /\ (i = req[r].id \/ visible[i].link = req[r].id)

AtMostOneLinked(r) == \A i, j \in Ids : Linked(r, i) /\ Linked(r, j) => i = j

\* A deletion that found one document at most, or is past both tests, has one
\* document at most that stood.
LinksEvidence(r) ==
    req[r].op = "delete" =>
        /\ call[r].kind = "links" /\ Searched(r) /\ call[r].hits <= 1 => AtMostOneLinked(r)
        /\ call[r].kind = "delete" /\ ~intruded[r] => AtMostOneLinked(r)
        /\ pc[r] = "rechecking" /\ ~intruded[r] => call[r].hits <= 1

\* A read that found nothing has no item that stood; only an intrusion hangs it;
\* and what it returned could be read.
ReadEvidence(r) ==
    req[r].op = "get" =>
        /\ call[r].kind = "id" /\ Searched(r) /\ call[r].hit = NoId => ~Stood(r, req[r].id)
        /\ pc[r] = "hung" \/ resp[r].status = 408 => intruded[r]
        /\ resp[r].status = 404 /\ ~intruded[r] =>
              call[r].kind = "id" /\ Searched(r) /\ call[r].hit = NoId
        /\ resp[r].status = 200 =>
              resp[r].item # NoItem /\ MayRead(req[r].user, resp[r].item)

Evidence(r) == TypeEvidence(r) /\ LinksEvidence(r) /\ ReadEvidence(r)

EvidenceInv == \A r \in Requests : Evidence(r)

----------------------------------------------------------------------------
\* What keeps the evidence

\* The request is not answered, or not with what a search found or missed.
NothingRead(s) ==
    \/ resp'[s] = resp[s]
    \/ resp'[s].status \in {400, 500}
    \/ req[s].op # "get" /\ resp'[s].status \in {200, 201}

\* A step that leaves a request's search and the search index alone keeps its
\* evidence, also if it ends the chain or another search intrudes.
LEMMA EvidenceKept ==
    ASSUME NEW s \in Requests, Evidence(s),
           visible' = visible, standing'[s] = standing[s], req'[s] = req[s],
           intruded[s] => intruded'[s],
           call'[s].kind = call[s].kind, call'[s].hit = call[s].hit,
           call'[s].hits = call[s].hits,
           call[s].kind \in SearchKinds =>
              (call'[s].stage \in {"answered", "replied"} <=>
               call[s].stage \in {"answered", "replied"}),
           pc'[s] = pc[s] \/ pc'[s] = "done",
           NothingRead(s)
    PROVE  Evidence(s)'
<1>0. call[s].kind \in SearchKinds => (Searched(s)' <=> Searched(s))
  BY DEF Searched
<1>1. \A i \in Ids : (Stood(s, i)' <=> Stood(s, i)) /\ (Linked(s, i)' <=> Linked(s, i))
  BY DEF Stood, Linked
<1>2. AtMostOneLinked(s) => AtMostOneLinked(s)'
  BY <1>1 DEF AtMostOneLinked
<1>3. TypeEvidence(s)'
  BY <1>0 DEF Evidence, TypeEvidence, SearchKinds
<1>4. LinksEvidence(s)'
  BY <1>0, <1>2 DEF Evidence, LinksEvidence, SearchKinds
<1>5. ReadEvidence(s)'
  <2>1. SUFFICES ASSUME req[s].op = "get" PROVE ReadEvidence(s)'
    BY DEF ReadEvidence
  <2>2. /\ call[s].kind = "id" /\ Searched(s) /\ call[s].hit = NoId => ~Stood(s, req[s].id)
        /\ pc[s] = "hung" \/ resp[s].status = 408 => intruded[s]
        /\ resp[s].status = 404 /\ ~intruded[s] =>
              call[s].kind = "id" /\ Searched(s) /\ call[s].hit = NoId
        /\ resp[s].status = 200 => resp[s].item # NoItem /\ MayRead(req[s].user, resp[s].item)
        /\ resp'[s] = resp[s] \/ resp'[s].status \in {400, 500}
    BY <2>1 DEF Evidence, ReadEvidence, NothingRead
  <2>3. Stood(s, req[s].id)' <=> Stood(s, req[s].id)
    BY DEF Stood
  <2>4. /\ call'[s].kind = "id" /\ Searched(s)' /\ call'[s].hit = NoId => ~Stood(s, req[s].id)'
        /\ pc'[s] = "hung" \/ resp'[s].status = 408 => intruded'[s]
        /\ resp'[s].status = 404 /\ ~intruded'[s] =>
              call'[s].kind = "id" /\ Searched(s)' /\ call'[s].hit = NoId
    BY <1>0, <2>1, <2>2, <2>3 DEF SearchKinds
  <2>5. resp'[s].status = 200 => resp'[s].item # NoItem /\ MayRead(req[s].user, resp'[s].item)
    BY <2>1, <2>2
  <2> QED BY <2>4, <2>5 DEF ReadEvidence, MayRead
<1> QED BY <1>3, <1>4, <1>5 DEF Evidence

\* Of a search that has just been issued nothing is known.
LEMMA NoEvidence ==
    ASSUME NEW s \in Requests, call'[s].stage = "issued", call'[s].kind \in SearchKinds,
           pc'[s] \notin {"hung", "rechecking"}, resp'[s].status \notin {200, 404, 408}
    PROVE  Evidence(s)'
  BY DEF Evidence, TypeEvidence, LinksEvidence, ReadEvidence, Searched, SearchKinds

\* Creations and listings keep no evidence here.
LEMMA OtherOps ==
    ASSUME NEW s \in Requests, req'[s].op \notin {"update", "delete", "get"}
    PROVE  Evidence(s)'
  BY DEF Evidence, TypeEvidence, LinksEvidence, ReadEvidence

LEMMA AnswerFields ==
    ASSUME TypeOK, NEW r \in Requests, NEW status, NEW why, NEW item, NEW total,
           Respond(r, status, why, item, total)
    PROVE  /\ resp'[r].status = status /\ resp'[r].item = item /\ pc'[r] = "done"
           /\ \A s \in Requests \ {r} : resp'[s] = resp[s] /\ pc'[s] = pc[s]
  BY DEF Respond, TypeOK

LEMMA RefuseFields ==
    ASSUME TypeOK, NEW r \in Requests, NEW status, Refuse(r, status)
    PROVE  /\ resp'[r].status = status /\ pc'[r] = "done"
           /\ \A s \in Requests \ {r} : resp'[s] = resp[s] /\ pc'[s] = pc[s]
  BY AnswerFields DEF Refuse

\* What is known of a request that has arrived (IndInv).
LEMMA CoherentFacts ==
    ASSUME IndInv, NEW r \in Requests, pc[r] # "idle"
    PROVE  /\ TypeOK /\ ChainShape(r) /\ CallShape(r) /\ HitsOwn(r) /\ EffectShape(r)
           /\ req[r].op \in {"create", "update", "delete", "get", "search"}
           /\ Makes(req[r].op, call[r].kind)
           /\ pc[r] # "done" => resp[r].status = 0
           /\ call[r].kind \in SearchKinds \cup WriteKinds
           /\ call[r].hits \in Nat /\ totalHits \in Nat
<1>1. /\ TypeOK /\ ChainShape(r) /\ CallShape(r) /\ HitsOwn(r) /\ EffectShape(r)
      /\ Makes(req[r].op, call[r].kind) /\ (pc[r] # "done" => resp[r] = NoResponse)
  BY DEF IndInv, Coherent, ChainShape
<1>2. req[r].op \in {"create", "update", "delete", "get", "search"}
  BY <1>1 DEF Makes
<1>3. call[r].kind \in SearchKinds \cup WriteKinds
  BY <1>1 DEF Makes, SearchKinds, WriteKinds
<1>4. call[r].hits \in Nat /\ totalHits \in Nat
  BY <1>1 DEF TypeOK, Call
<1> QED BY <1>1, <1>2, <1>3, <1>4 DEF NoResponse

----------------------------------------------------------------------------
\* The steps

\* A continuation that answers an error, or reports a write.
LEMMA EndEvidence ==
    ASSUME IndInv, EvidenceInv, NEW r \in Requests, NEW status, NEW why, NEW item, NEW total,
           Respond(r, status, why, item, total),
           status \in {400, 500} \/ (req[r].op # "get" /\ status \in {200, 201}),
           UNCHANGED <<visible, req, standing, intruded, call>>
    PROVE  EvidenceInv'
<1> SUFFICES ASSUME NEW s \in Requests PROVE Evidence(s)'
  BY DEF EvidenceInv
<1>1. TypeOK /\ Evidence(s)
  BY DEF IndInv, EvidenceInv
<1>2. /\ resp'[r].status = status /\ pc'[r] = "done"
      /\ \A t \in Requests \ {r} : resp'[t] = resp[t] /\ pc'[t] = pc[t]
  BY <1>1, AnswerFields
<1>3. call'[s] = call[s] /\ standing'[s] = standing[s] /\ req'[s] = req[s]
      /\ intruded'[s] = intruded[s] /\ visible' = visible
  OBVIOUS
<1>4. NothingRead(s) /\ (pc'[s] = pc[s] \/ pc'[s] = "done")
  BY <1>2 DEF NothingRead
<1> QED BY <1>1, <1>3, <1>4, EvidenceKept

\* A step of others.
LEMMA OthersEvidence ==
    ASSUME IndInv, EvidenceInv, NEW s \in Requests,
           visible' = visible, standing'[s] = standing[s], req'[s] = req[s],
           intruded[s] => intruded'[s],
           call'[s] = call[s], pc'[s] = pc[s], resp'[s] = resp[s]
    PROVE  Evidence(s)'
<1>1. Evidence(s) /\ NothingRead(s)
  BY DEF EvidenceInv, NothingRead
<1> QED BY <1>1, EvidenceKept

LEMMA ArriveEvidence ==
    ASSUME IndInv, EvidenceInv, NEW r \in Requests, Arrive(r) PROVE EvidenceInv'
<1> SUFFICES ASSUME NEW s \in Requests PROVE Evidence(s)'
  BY DEF EvidenceInv
<1>1. /\ pc[r] = "idle" /\ UNCHANGED <<visible, intruded>>
      /\ \A t \in Requests \ {r} : req'[t] = req[t] /\ standing'[t] = standing[t]
  <2>1. ASSUME NEW q, Receive(r, q)
        PROVE  /\ pc[r] = "idle" /\ UNCHANGED <<visible, intruded>>
               /\ \A t \in Requests \ {r} : req'[t] = req[t] /\ standing'[t] = standing[t]
    BY <2>1 DEF Receive, IndInv, TypeOK
  <2> QED BY <2>1, Zenon DEF Arrive, ReceiveWrite, ReceiveDelete, ReceiveGet, ReceiveSearch
<1>2. PICK k \in {"name", "links", "id", "listing"} :
        /\ call' = [call EXCEPT ![r] = CallOf(k)]
        /\ \/ (\E p \in {"validating", "searching"} : pc' = [pc EXCEPT ![r] = p]) /\ UNCHANGED resp
           \/ Refuse(r, 400)
  BY DEF Arrive, ReceiveWrite, ReceiveDelete, ReceiveGet, ReceiveSearch, Issue
<1>3. TypeOK /\ resp[r].status = 0
  BY <1>1 DEF IndInv, Coherent, IdleClean, NoResponse
<1>4. /\ call'[r].stage = "issued" /\ call'[r].kind = k
      /\ \A t \in Requests \ {r} : call'[t] = call[t]
  BY <1>3, <1>2 DEF TypeOK, CallOf, NoCall
<1>5. /\ pc'[r] \in {"validating", "searching", "done"} /\ resp'[r].status \in {0, 400}
      /\ \A t \in Requests \ {r} : resp'[t] = resp[t] /\ pc'[t] = pc[t]
  <2>1. CASE Refuse(r, 400)
    BY <1>3, <2>1, RefuseFields
  <2>2. CASE (\E p \in {"validating", "searching"} : pc' = [pc EXCEPT ![r] = p]) /\ UNCHANGED resp
    BY <1>3, <2>2 DEF TypeOK
  <2> QED BY <1>2, <2>1, <2>2
<1>6. CASE s = r
  <2>1. call'[s].kind \in SearchKinds
    BY <1>4, <1>6 DEF SearchKinds
  <2> QED BY <1>4, <1>5, <1>6, <2>1, NoEvidence
<1>7. CASE s # r
  BY <1>1, <1>4, <1>5, <1>7, OthersEvidence
<1> QED BY <1>6, <1>7

\* A continuation that issues a call keeps others' evidence.
LEMMA IssueOthers ==
    ASSUME IndInv, EvidenceInv, NEW r \in Requests, NEW c, NEW p, Issue(r, c, p),
           UNCHANGED <<visible, req, standing, intruded, resp>>
    PROVE  /\ call'[r] = c /\ pc'[r] = p
           /\ \A s \in Requests \ {r} : Evidence(s)'
<1>1. /\ call'[r] = c /\ pc'[r] = p
      /\ \A s \in Requests \ {r} : call'[s] = call[s] /\ pc'[s] = pc[s]
  BY DEF Issue, IndInv, TypeOK
<1> QED BY <1>1, OthersEvidence

\* A continuation of a read has no other evidence to keep.
LEMMA ReadOnly ==
    ASSUME NEW r \in Requests, req'[r].op = "get", ReadEvidence(r)' PROVE Evidence(r)'
  BY DEF Evidence, TypeEvidence, LinksEvidence

LEMMA GetEvidence ==
    ASSUME IndInv, EvidenceInv, NEW r \in Requests, GetItem(r) PROVE EvidenceInv'
<1>1. /\ TypeOK /\ pc[r] = "searching" /\ call[r].kind = "id" /\ call[r].stage = "replied"
      /\ req[r].op = "get" /\ UNCHANGED <<visible, req, call, intruded, standing>>
  BY DEF GetItem, At, IndInv, History, Index_vars
<1>2. /\ CallShape(r) /\ HitsOwn(r) /\ resp[r].status = 0 /\ Searched(r)
      /\ call[r].hit = NoId => ~Stood(r, req[r].id)
  BY <1>1, CoherentFacts DEF EvidenceInv, Evidence, ReadEvidence, Searched
<1>3. /\ call[r].hits = 0 <=> call[r].hit = NoId
      /\ call[r].hit # NoId => call[r].source \in Item
      /\ ~intruded[r] => totalHits = call[r].hits
  BY <1>1, <1>2 DEF CallShape, HitsOwn, SearchKinds
<1>4. Stood(r, req[r].id)' <=> Stood(r, req[r].id)
  BY <1>1 DEF Stood
<1>5. Searched(r)'
  BY <1>1 DEF Searched
<1>6. ASSUME \A s \in Requests \ {r} : resp'[s] = resp[s] /\ pc'[s] = pc[s], Evidence(r)'
      PROVE  EvidenceInv'
  BY <1>1, <1>6, OthersEvidence DEF EvidenceInv
<1>7. CASE totalHits = 0 /\ Refuse(r, 404)
  <2>1. /\ resp'[r].status = 404 /\ pc'[r] = "done"
        /\ \A s \in Requests \ {r} : resp'[s] = resp[s] /\ pc'[s] = pc[s]
    BY <1>1, <1>7, RefuseFields
  <2>2. ReadEvidence(r)'
    BY <1>1, <1>2, <1>3, <1>4, <1>5, <1>7, <2>1 DEF ReadEvidence
  <2> QED BY <1>1, <1>6, <2>1, <2>2, ReadOnly
<1>8. CASE /\ totalHits # 0 /\ call[r].hit = NoId
           /\ pc' = [pc EXCEPT ![r] = "hung"] /\ UNCHANGED resp
  <2>1. /\ resp'[r].status = 0
        /\ \A s \in Requests \ {r} : resp'[s] = resp[s] /\ pc'[s] = pc[s]
    BY <1>1, <1>2, <1>8 DEF TypeOK
  <2>2. ReadEvidence(r)'
    BY <1>1, <1>2, <1>3, <1>4, <1>8, <2>1 DEF ReadEvidence
  <2> QED BY <1>1, <1>6, <2>1, <2>2, ReadOnly
<1>9. CASE call[r].hit # NoId /\ MayRead(req[r].user, call[r].source)
           /\ Respond(r, 200, "ok", call[r].source, totalHits)
  <2>1. /\ resp'[r].status = 200 /\ resp'[r].item = call[r].source /\ pc'[r] = "done"
        /\ \A s \in Requests \ {r} : resp'[s] = resp[s] /\ pc'[s] = pc[s]
    BY <1>1, <1>9, AnswerFields
  <2>2. resp'[r].item # NoItem
    BY <1>3, <1>9, <2>1, ItemAssumption
  <2>3. MayRead(req'[r].user, resp'[r].item)
    BY <1>1, <1>9, <2>1
  <2>4. ReadEvidence(r)'
    BY <1>1, <1>2, <1>4, <2>1, <2>2, <2>3 DEF ReadEvidence, MayRead
  <2> QED BY <1>1, <1>6, <2>1, <2>4, ReadOnly
<1>10. CASE Refuse(r, 500)
  BY <1>1, <1>10, EndEvidence DEF Refuse
<1> QED BY <1>7, <1>8, <1>9, <1>10 DEF GetItem

LEMMA UpdateEvidence ==
    ASSUME IndInv, EvidenceInv, NEW r \in Requests, UpdateItem(r) PROVE EvidenceInv'
<1>1. /\ pc[r] = "searching" /\ call[r].kind = "idAndType" /\ call[r].stage = "replied"
      /\ UNCHANGED <<visible, req, intruded, standing>>
  BY DEF UpdateItem, At, History, Index_vars
<1>2. /\ CallShape(r) /\ HitsOwn(r) /\ req[r].op = "update" /\ TypeEvidence(r)
  BY <1>1, CoherentFacts DEF Makes, EvidenceInv, Evidence
<1>3. /\ call[r].hits = 0 <=> call[r].hit = NoId
      /\ ~intruded[r] => totalHits = call[r].hits
  BY <1>1, <1>2 DEF CallShape, HitsOwn, SearchKinds
<1>4. CASE totalHits = 0
  BY <1>1, <1>4, EndEvidence DEF UpdateItem, Refuse
<1>5. CASE totalHits # 0
  <2>1. Issue(r, CallOf("exists"), "writing") /\ UNCHANGED resp
    BY <1>5 DEF UpdateItem
  <2>2. /\ call'[r].kind = "exists" /\ call'[r].stage = "issued"
        /\ \A s \in Requests \ {r} : Evidence(s)'
    <3>1. call'[r] = CallOf("exists") /\ \A s \in Requests \ {r} : Evidence(s)'
      BY <1>1, <2>1, IssueOthers
    <3> QED BY <3>1 DEF CallOf, NoCall
  <2>3. TypeEvidence(r)'
    BY <1>1, <1>2, <1>3, <1>5, <2>2 DEF TypeEvidence, Searched
  <2>4. Evidence(r)'
    BY <1>1, <1>2, <2>3 DEF Evidence, LinksEvidence, ReadEvidence
  <2> QED BY <2>2, <2>4 DEF EvidenceInv
<1> QED BY <1>4, <1>5

LEMMA DeleteManyEvidence ==
    ASSUME IndInv, EvidenceInv, NEW r \in Requests, DeleteTestMany(r) PROVE EvidenceInv'
<1>1. /\ TypeOK /\ pc[r] = "searching" /\ call[r].kind = "links" /\ call[r].stage = "replied"
      /\ UNCHANGED <<visible, req, call, intruded, standing>>
  BY DEF DeleteTestMany, At, IndInv, History, Index_vars
<1>2. /\ HitsOwn(r) /\ req[r].op = "delete" /\ LinksEvidence(r)
      /\ call[r].hits \in Nat /\ totalHits \in Nat
  BY <1>1, CoherentFacts DEF Makes, EvidenceInv, Evidence
<1>3. CASE totalHits > 1
  BY <1>1, <1>3, EndEvidence DEF DeleteTestMany, Refuse
<1>4. CASE ~(totalHits > 1)
  <2>1. /\ pc'[r] = "rechecking" /\ resp' = resp
        /\ \A s \in Requests \ {r} : pc'[s] = pc[s]
    BY <1>1, <1>4 DEF DeleteTestMany, TypeOK
  <2>2. ~intruded[r] => call[r].hits <= 1
    BY <1>1, <1>2, <1>4 DEF HitsOwn, SearchKinds
  <2>3. AtMostOneLinked(r) => AtMostOneLinked(r)'
    BY <1>1 DEF AtMostOneLinked, Linked, Stood
  <2>4. LinksEvidence(r)'
    BY <1>1, <1>2, <2>1, <2>2, <2>3 DEF LinksEvidence, Searched
  <2>5. Evidence(r)'
    BY <1>1, <1>2, <2>4 DEF Evidence, TypeEvidence, ReadEvidence
  <2> QED BY <1>1, <2>1, <2>5, OthersEvidence DEF EvidenceInv
<1> QED BY <1>3, <1>4

LEMMA DeleteFewEvidence ==
    ASSUME IndInv, EvidenceInv, NEW r \in Requests, DeleteTestFew(r) PROVE EvidenceInv'
<1>1. /\ pc[r] = "rechecking" /\ call[r].kind = "links" /\ call[r].stage = "replied"
      /\ UNCHANGED <<visible, req, intruded, standing>>
  BY DEF DeleteTestFew, At, History, Index_vars
<1>2. /\ req[r].op = "delete" /\ LinksEvidence(r)
  BY <1>1, CoherentFacts DEF Makes, EvidenceInv, Evidence
<1>3. CASE totalHits < 1 \/ call[r].hit = NoId
  BY <1>1, <1>3, EndEvidence DEF DeleteTestFew, Refuse
<1>4. CASE ~(totalHits < 1 \/ call[r].hit = NoId)
  <2>1. Issue(r, [CallOf("delete") EXCEPT !.hit = call[r].hit], "writing") /\ UNCHANGED resp
    BY <1>4 DEF DeleteTestFew
  <2>2. /\ call'[r].kind = "delete" /\ pc'[r] = "writing"
        /\ \A s \in Requests \ {r} : Evidence(s)'
    <3> DEFINE c == [CallOf("delete") EXCEPT !.hit = call[r].hit]
    <3>1. c.kind = "delete" /\ Issue(r, c, "writing")
      BY <2>1 DEF CallOf, NoCall
    <3> HIDE DEF c
    <3>2. /\ call'[r] = c /\ pc'[r] = "writing"
          /\ \A s \in Requests \ {r} : Evidence(s)'
      BY <1>1, <2>1, <3>1, IssueOthers
    <3> QED BY <3>1, <3>2
  <2>3. ~intruded[r] => AtMostOneLinked(r)
    BY <1>1, <1>2 DEF LinksEvidence, Searched
  <2>4. AtMostOneLinked(r) => AtMostOneLinked(r)'
    BY <1>1 DEF AtMostOneLinked, Linked, Stood
  <2>5. LinksEvidence(r)'
    BY <1>1, <2>2, <2>3, <2>4 DEF LinksEvidence
  <2>6. Evidence(r)'
    BY <1>1, <1>2, <2>5 DEF Evidence, TypeEvidence, ReadEvidence
  <2> QED BY <2>2, <2>6 DEF EvidenceInv
<1> QED BY <1>3, <1>4

LEMMA CreateEvidence ==
    ASSUME IndInv, EvidenceInv, NEW r \in Requests, NameChecked(r) \/ CreateItem(r)
    PROVE  EvidenceInv'
<1>1. /\ pc[r] \in {"validating", "searching"} /\ pc[r] # "idle" /\ pc[r] # "done"
      /\ UNCHANGED <<visible, req, intruded, standing>>
  BY DEF NameChecked, CreateItem, At, History, Index_vars
<1>2. CASE Refuse(r, 400) /\ UNCHANGED call
  BY <1>1, <1>2, EndEvidence DEF Refuse
<1>3. CASE /\ \E k \in {"id", "idAndType"} : Issue(r, CallOf(k), "searching")
           /\ UNCHANGED resp
  <2>1. PICK k \in {"id", "idAndType"} : Issue(r, CallOf(k), "searching")
    BY <1>3
  <2>2. call'[r] = CallOf(k) /\ pc'[r] = "searching" /\ \A s \in Requests \ {r} : Evidence(s)'
    BY <1>1, <1>3, <2>1, IssueOthers
  <2>3. call'[r].stage = "issued" /\ call'[r].kind \in SearchKinds
    BY <2>2 DEF CallOf, NoCall, SearchKinds
  <2>4. resp'[r].status = 0
    BY <1>1, <1>3, CoherentFacts
  <2> QED BY <2>2, <2>3, <2>4, NoEvidence DEF EvidenceInv
<1>4. CASE req[r].op = "create" /\ Issue(r, CallOf("index"), "writing") /\ UNCHANGED resp
  <2>1. \A s \in Requests \ {r} : Evidence(s)'
    BY <1>1, <1>4, IssueOthers
  <2>2. Evidence(r)'
    BY <1>1, <1>4, OtherOps
  <2> QED BY <2>1, <2>2 DEF EvidenceInv
<1>5. CASE NameChecked(r)
  BY <1>2, <1>3, <1>5 DEF NameChecked
<1>6. CASE CreateItem(r)
  BY <1>2, <1>4, <1>6 DEF CreateItem
<1> QED BY <1>5, <1>6

LEMMA ChainEvidence ==
    ASSUME IndInv, EvidenceInv, NEW r \in Requests,
           Continue(r) \/ CallTimedOut(r) \/ RequestTimedOut(r)
    PROVE  EvidenceInv'
<1>1. CASE SearchItems(r)
  <2>1. req[r].op # "get"
    BY <1>1, CoherentFacts DEF SearchItems, At, Makes
  <2> QED BY <1>1, <2>1, EndEvidence DEF SearchItems, History, Index_vars
<1>2. CASE WriteAcknowledged(r)
  <2>1. req[r].op # "get"
    BY <1>2, CoherentFacts DEF WriteAcknowledged, ChainShape, Makes, WriteKinds
  <2>2. PICK status \in {200, 201} : Respond(r, status, "ok", NoItem, 0)
    BY <1>2 DEF WriteAcknowledged
  <2> QED BY <1>2, <2>1, <2>2, EndEvidence DEF WriteAcknowledged, History, Index_vars
<1>3. CASE CallFailed(r) \/ CallTimedOut(r)
  <2>1. PICK status \in {400, 500} : Respond(r, status, "failed", NoItem, 0)
    BY <1>3 DEF CallFailed, CallTimedOut, Fail, FailureStatus
  <2> QED BY <1>3, <2>1, EndEvidence DEF CallFailed, CallTimedOut, History, Index_vars
<1>4. CASE RequestTimedOut(r)
  <2>1. /\ pc[r] = "hung" /\ Respond(r, 408, "failed", NoItem, 0)
        /\ UNCHANGED <<visible, req, call, intruded, standing>>
    BY <1>4 DEF RequestTimedOut, History, Index_vars
  <2>2. TypeOK /\ req[r].op = "get" /\ ReadEvidence(r)
    BY <2>1, CoherentFacts DEF ChainShape, EvidenceInv, Evidence
  <2>3. /\ resp'[r].status = 408 /\ pc'[r] = "done"
        /\ \A s \in Requests \ {r} : resp'[s] = resp[s] /\ pc'[s] = pc[s]
    BY <2>1, <2>2, AnswerFields
  <2>4. (Stood(r, req[r].id)' <=> Stood(r, req[r].id)) /\ (Searched(r)' <=> Searched(r))
    BY <2>1 DEF Stood, Searched
  <2>5. ReadEvidence(r)'
    BY <2>1, <2>2, <2>3, <2>4 DEF ReadEvidence
  <2> QED BY <2>1, <2>2, <2>3, <2>5, ReadOnly, OthersEvidence DEF EvidenceInv
<1> QED BY <1>1, <1>2, <1>3, <1>4, CreateEvidence, UpdateEvidence, DeleteManyEvidence,
           DeleteFewEvidence, GetEvidence DEF Continue

\* A call's stage changes, and nothing else of it; a search, if it is one, was
\* answered before and still is, or was not and is not.
LEMMA StageEvidence ==
    ASSUME IndInv, EvidenceInv, NEW r \in Requests, NEW stage \in Stages, SetStage(r, stage),
           call[r].kind \in SearchKinds =>
              (stage \in {"answered", "replied"} <=> call[r].stage \in {"answered", "replied"}),
           \A s \in Requests : intruded[s] => intruded'[s],
           UNCHANGED <<visible, req, pc, resp, standing>>
    PROVE  EvidenceInv'
<1> SUFFICES ASSUME NEW s \in Requests PROVE Evidence(s)'
  BY DEF EvidenceInv
<1>1. /\ call'[r].stage = stage /\ call'[r].kind = call[r].kind
      /\ call'[r].hits = call[r].hits /\ call'[r].hit = call[r].hit
      /\ \A t \in Requests \ {r} : call'[t] = call[t]
  BY StageLemma DEF IndInv
<1>2. CASE s # r
  BY <1>1, <1>2, OthersEvidence
<1>3. CASE s = r
  <2>1. Evidence(s) /\ NothingRead(s)
    BY DEF EvidenceInv, NothingRead
  <2> QED BY <1>1, <1>3, <2>1, EvidenceKept
<1> QED BY <1>2, <1>3

\* A search is evaluated on the index as it is visible: this is where evidence
\* comes from.
LEMMA SearchEvidence ==
    ASSUME IndInv, EvidenceInv, NEW r \in Requests, EsSearch(r) PROVE EvidenceInv'
<1>1. /\ TypeOK /\ call[r].kind \in SearchKinds /\ call[r].stage = "issued"
      /\ UNCHANGED <<visible, req, pc, resp, intruded, standing>>
  BY DEF EsSearch, IndInv, Index_vars, API_vars, History
<1>2. PICK found \in Results(r) : \E i \in (IF found = {} THEN {NoId} ELSE found) :
          call' = [call EXCEPT ![r] =
                     [@ EXCEPT !.stage = "answered", !.hit = i,
                               !.hits = Cardinality(found),
                               !.source = IF i = NoId THEN NoItem ELSE visible[i]]]
  BY DEF EsSearch
<1>3. PICK i \in (IF found = {} THEN {NoId} ELSE found) :
          call' = [call EXCEPT ![r] =
                     [@ EXCEPT !.stage = "answered", !.hit = i,
                               !.hits = Cardinality(found),
                               !.source = IF i = NoId THEN NoItem ELSE visible[i]]]
  BY <1>2
<1>4. /\ call'[r].stage = "answered" /\ call'[r].kind = call[r].kind /\ call'[r].hit = i
      /\ call'[r].hits = Cardinality(found)
      /\ \A s \in Requests \ {r} : call'[s] = call[s]
  BY <1>1, <1>3 DEF TypeOK, Call
<1>5. /\ found \subseteq Matches(r) /\ found \subseteq Ids
      /\ call[r].kind # "listing" => found = Matches(r)
  BY ResultsLemma
<1>6. IsFiniteSet(found)
  BY <1>5, ItemAssumption, FS_Subset
<1>7. \A s \in Requests \ {r} : Evidence(s)'
  BY <1>1, <1>4, OthersEvidence
<1>8. pc[r] # "idle"
  BY <1>1 DEF IndInv, Coherent, IdleClean, NoCall
<1>9. /\ req[r].op # "search" => req[r].id \in Ids
      /\ Makes(req[r].op, call[r].kind) /\ Evidence(r)
  BY <1>8, CoherentFacts DEF ChainShape, EvidenceInv
<1>10. TypeEvidence(r)'
  <2> SUFFICES ASSUME req[r].op = "update", call[r].kind = "idAndType", i # NoId
               PROVE  visible[req[r].id] # NoItem /\ visible[req[r].id].type = req[r].item.type
    BY <1>1, <1>4, <1>9 DEF TypeEvidence, Makes, SearchKinds
  <2>1. i \in Matches(r)
    BY <1>5
  <2> QED BY <2>1 DEF Matches, Matching
<1>11. LinksEvidence(r)'
  <2> SUFFICES ASSUME req[r].op = "delete", call[r].kind = "links"
               PROVE  /\ Cardinality(found) <= 1 => AtMostOneLinked(r)'
                      /\ pc[r] # "rechecking"
    BY <1>1, <1>4, <1>9 DEF LinksEvidence, Makes, SearchKinds
  <2>1. pc[r] # "rechecking"
    BY <1>1, <1>8, CoherentFacts DEF ChainShape
  <2>2. ASSUME Cardinality(found) <= 1, NEW j \in Ids, NEW k \in Ids,
               Linked(r, j), Linked(r, k)
        PROVE  j = k
    <3>1. j \in found /\ k \in found
      BY <1>5, <2>2 DEF Linked, Stood, Matches, Matching
    <3>2. IsFiniteSet(found \ {j}) /\ Cardinality(found \ {j}) = Cardinality(found) - 1
      BY <1>6, <3>1, FS_RemoveElement
    <3>3. Cardinality(found) \in Nat /\ Cardinality(found \ {j}) \in Nat
      BY <1>6, <3>2, FS_CardinalityType
    <3>4. Cardinality(found \ {j}) = 0
      BY <2>2, <3>2, <3>3
    <3>5. found \ {j} = {}
      BY <3>2, <3>4, FS_EmptySet
    <3> QED BY <3>1, <3>5
  <2>3. \A j \in Ids : Linked(r, j)' <=> Linked(r, j)
    BY <1>1 DEF Linked, Stood
  <2>4. Cardinality(found) <= 1 => AtMostOneLinked(r)'
    BY <2>2, <2>3 DEF AtMostOneLinked
  <2> QED BY <2>1, <2>4
<1>12. ReadEvidence(r)'
  <2>1. SUFFICES ASSUME req[r].op = "get" PROVE ReadEvidence(r)'
    BY <1>1 DEF ReadEvidence
  <2>2. call[r].kind = "id" /\ req[r].id \in Ids
    BY <1>1, <1>9, <2>1 DEF Makes
  <2>3. i = NoId => ~Stood(r, req[r].id)
    <3> SUFFICES ASSUME i = NoId, Stood(r, req[r].id) PROVE FALSE
      OBVIOUS
    <3>1. found = {}
      BY <1>5, ItemAssumption
    <3> QED BY <1>5, <2>2, <3>1 DEF Stood, Matches, Matching
  <2>4. Stood(r, req[r].id)' <=> Stood(r, req[r].id)
    BY <1>1 DEF Stood
  <2>5. /\ pc[r] = "hung" \/ resp[r].status = 408 => intruded[r]
        /\ resp[r].status = 404 => intruded[r]
        /\ resp[r].status = 200 => resp[r].item # NoItem /\ MayRead(req[r].user, resp[r].item)
    BY <1>1, <1>9, <2>1 DEF Evidence, ReadEvidence, Searched
  <2> QED BY <1>1, <1>4, <2>2, <2>3, <2>4, <2>5 DEF ReadEvidence, MayRead
<1> QED BY <1>7, <1>10, <1>11, <1>12 DEF EvidenceInv, Evidence

LEMMA EsEvidence ==
    ASSUME IndInv, EvidenceInv, NEW r \in Requests, EsStep(r) PROVE EvidenceInv'
<1>1. CASE EsSearchCallback(r)
  <2>1. \A s \in Requests : intruded[s] => intruded'[s]
    BY <1>1 DEF EsSearchCallback
  <2>2. "replied" \in Stages
    BY DEF Stages
  <2>3. /\ SetStage(r, "replied") /\ call[r].stage = "answered"
        /\ UNCHANGED <<visible, req, pc, resp, standing>>
    BY <1>1 DEF EsSearchCallback, API_vars, Index_vars
  <2>4. "replied" \in {"answered", "replied"} <=> call[r].stage \in {"answered", "replied"}
    BY <2>3
  <2> QED BY <2>1, <2>2, <2>3, <2>4, StageEvidence
<1>2. CASE EsIndex(r) \/ EsUpdate(r) \/ EsDelete(r)
  <2>1. /\ call[r].kind \in {"index", "update", "delete"}
        /\ \E s \in Stages : SetStage(r, s)
        /\ UNCHANGED <<visible, req, pc, resp, intruded, standing>>
    BY <1>2 DEF EsIndex, EsUpdate, EsDelete, Pending, Apply, API_vars, Stages
  <2>2. call[r].kind \notin SearchKinds
    BY <2>1 DEF SearchKinds
  <2> QED BY <2>1, <2>2, StageEvidence
<1>3. CASE EsFails(r)
  <2>1. /\ call[r].stage = "issued" /\ UNCHANGED <<visible, req, pc, resp, intruded, standing>>
        /\ \E s \in {"failed", "lost"} : SetStage(r, s)
    BY <1>3 DEF EsFails, Index_vars, API_vars, History
  <2> QED BY <2>1, StageEvidence DEF Stages
<1>4. CASE EsExists(r)
  <2>1. /\ call[r].kind = "exists" /\ call[r].stage = "issued" /\ TypeOK
        /\ UNCHANGED <<visible, req, pc, resp, intruded, standing>>
    BY <1>4 DEF EsExists, Pending, IndInv, Index_vars, API_vars, History
  <2>2. CASE SetStage(r, "failed")
    BY <2>1, <2>2, StageEvidence DEF Stages, SearchKinds
  <2>3. CASE call' = [call EXCEPT ![r].kind = "update"]
    <3>1. call'[r].kind = "update" /\ \A s \in Requests \ {r} : call'[s] = call[s]
      BY <2>1, <2>3 DEF TypeOK, Call
    <3>2. pc[r] # "idle"
      BY <2>1 DEF IndInv, Coherent, IdleClean, NoCall
    <3>3. req[r].op = "update" /\ TypeEvidence(r)
      BY <2>1, <3>2, CoherentFacts DEF Makes, EvidenceInv, Evidence
    <3>4. Evidence(r)'
      BY <2>1, <3>1, <3>3 DEF Evidence, TypeEvidence, LinksEvidence, ReadEvidence
    <3> QED BY <2>1, <3>1, <3>4, OthersEvidence DEF EvidenceInv
  <2> QED BY <1>4, <2>2, <2>3 DEF EsExists
<1> QED BY <1>1, <1>2, <1>3, <1>4, SearchEvidence DEF EsStep

\* The index is refreshed: what changed no longer stands.
LEMMA RefreshEvidence ==
    ASSUME IndInv, EvidenceInv, NEW i \in Ids, Refresh(i) PROVE EvidenceInv'
<1> SUFFICES ASSUME NEW s \in Requests PROVE Evidence(s)'
  BY DEF EvidenceInv
<1>1. /\ Evidence(s) /\ UNCHANGED <<req, pc, call, resp, intruded>>
      /\ \A j \in Ids : j \in standing'[s] => j \in standing[s] /\ visible'[j] = visible[j]
      /\ standing'[s] \subseteq Ids
  BY DEF IndInv, TypeOK, Index, EvidenceInv, Refresh, API_vars
<1>2. \A j \in Ids : (Stood(s, j)' => Stood(s, j)) /\ (Linked(s, j)' => Linked(s, j))
  BY <1>1 DEF Stood, Linked
<1>3. Searched(s)' <=> Searched(s)
  BY <1>1 DEF Searched
<1>4. TypeEvidence(s)'
  BY <1>1, <1>3 DEF Evidence, TypeEvidence
<1>5. LinksEvidence(s)'
  <2>1. AtMostOneLinked(s) => AtMostOneLinked(s)'
    BY <1>2 DEF AtMostOneLinked
  <2> QED BY <1>1, <1>3, <2>1 DEF Evidence, LinksEvidence
<1>6. ReadEvidence(s)'
  <2>1. Stood(s, req[s].id)' => Stood(s, req[s].id)
    BY <1>1 DEF Stood
  <2> QED BY <1>1, <1>3, <2>1 DEF Evidence, ReadEvidence, MayRead
<1> QED BY <1>4, <1>5, <1>6 DEF Evidence

LEMMA NextEvidence == IndInv /\ EvidenceInv /\ [Next]_vars => EvidenceInv'
<1> SUFFICES ASSUME IndInv, EvidenceInv, [Next]_vars PROVE EvidenceInv'
  OBVIOUS
<1>1. CASE UNCHANGED vars
  BY <1>1, OthersEvidence DEF vars, EvidenceInv
<1>2. CASE Next
  BY <1>1, <1>2, ArriveEvidence, ChainEvidence, EsEvidence, RefreshEvidence DEF Next, Quiet
<1> QED BY <1>1, <1>2

----------------------------------------------------------------------------
\* The theorems

LEMMA EvidenceHolds == Spec => [](IndInv /\ EvidenceInv)
<1>1. Init => EvidenceInv
  BY DEF Init, EvidenceInv, Evidence, TypeEvidence, LinksEvidence, ReadEvidence, NoRequest
<1> QED BY <1>1, InitInv, StepInv, NextEvidence, PTL DEF Spec

\* An update whose number of hits was its own changed a document of the type it
\* names, if that document stood in the search index all along (updateItem).
THEOREM TypesRespected == Spec => []UpdateRespectsType
<1>1. IndInv /\ EvidenceInv => UpdateRespectsType
  <2> SUFFICES ASSUME IndInv, EvidenceInv, NEW r \in Requests, effect[r],
                      req[r].op = "update", ~intruded[r], req[r].id \in standing[r]
               PROVE  visible[req[r].id] # NoItem /\ visible[req[r].id].type = req[r].item.type
    BY DEF UpdateRespectsType
  <2>1. pc[r] # "idle"
    BY DEF IndInv, Coherent, IdleClean
  <2>2. call[r].kind = "update" /\ TypeEvidence(r)
    BY <2>1, CoherentFacts DEF EffectShape, Makes, EvidenceInv, Evidence
  <2> QED BY <2>2 DEF TypeEvidence
<1> QED BY <1>1, EvidenceHolds, PTL

\* A deletion whose number of hits was its own took place only if no two documents
\* that are its item or link to it stood in the search index (deleteItem).
THEOREM LinksRespected == Spec => []DeleteRespectsLinks
<1>1. IndInv /\ EvidenceInv => DeleteRespectsLinks
  <2> SUFFICES ASSUME IndInv, EvidenceInv, NEW r \in Requests, effect[r],
                      req[r].op = "delete", ~intruded[r]
               PROVE  AtMostOneLinked(r)
    BY DEF DeleteRespectsLinks, AtMostOneLinked, Linked
  <2>1. pc[r] # "idle"
    BY DEF IndInv, Coherent, IdleClean
  <2>2. call[r].kind = "delete" /\ LinksEvidence(r)
    BY <2>1, CoherentFacts DEF EffectShape, Makes, EvidenceInv, Evidence
  <2> QED BY <2>2 DEF LinksEvidence
<1> QED BY <1>1, EvidenceHolds, PTL

\* A read is answered "not found" for an item that stands in the search index, or
\* hangs until the TimeoutHandler answers it, only if another search replaced the
\* number of hits (getItem, handleGetItem).
THEOREM GetAnswersAreJustified == Spec => []GetAnswersJustified
<1>1. IndInv /\ EvidenceInv => GetAnswersJustified
  BY DEF EvidenceInv, Evidence, ReadEvidence, GetAnswersJustified
<1> QED BY <1>1, EvidenceHolds, PTL

\* A private item is returned to its owner only (ownershipCheck).
THEOREM PrivateItemsKept == Spec => []PrivateItemsToOwners
<1>1. IndInv /\ EvidenceInv => PrivateItemsToOwners
  BY DEF EvidenceInv, Evidence, ReadEvidence, MayRead, PrivateItemsToOwners
<1> QED BY <1>1, EvidenceHolds, PTL

\* A document appears in the index only by the creation that names its id, in the
\* one step in which it takes effect; an update that lost its document to a
\* deletion brings nothing back (executeExistenceCheck, executeUpdate).
THEOREM CreationsCreate == Spec => OnlyCreatesCreate
<1> DEFINE Created(i) == \E r \in Requests : /\ ~effect[r] /\ effect'[r]
                                             /\ req[r].op = "create" /\ req[r].id = i
<1>1. IndInv /\ [Next]_vars =>
         [\A i \in Ids : docs[i] = NoItem /\ docs'[i] # NoItem => Created(i)]_vars
  <2> SUFFICES ASSUME IndInv, Next, NEW i \in Ids, docs[i] = NoItem, docs'[i] # NoItem
               PROVE  Created(i)
    BY DEF vars
  <2>1. docs' # docs /\ TypeOK
    BY DEF IndInv
  <2>2. ASSUME NEW r \in Requests, EsIndex(r) PROVE Created(i)
    <3>1. /\ call[r].kind = "index" /\ call[r].stage = "issued"
          /\ docs' = [docs EXCEPT ![req[r].id] = req[r].item]
          /\ effect' = [effect EXCEPT ![r] = TRUE]
      BY <2>2 DEF EsIndex, Pending, Apply
    <3>2. pc[r] # "idle"
      BY <3>1 DEF IndInv, Coherent, IdleClean, NoCall
    <3>3. req[r].op = "create" /\ ~effect[r]
      BY <3>1, <3>2, CoherentFacts DEF Makes, EffectShape
    <3>4. effect'[r] /\ req[r].id = i
      BY <2>1, <3>1 DEF TypeOK, Index
    <3> QED BY <3>3, <3>4
  <2>3. ASSUME NEW r \in Requests, EsUpdate(r) \/ EsDelete(r) PROVE FALSE
    BY <2>1, <2>3 DEF EsUpdate, EsDelete, Apply, TypeOK, Index
  <2>4. ASSUME NEW r \in Requests,
               Arrive(r) \/ Continue(r) \/ CallTimedOut(r) \/ RequestTimedOut(r)
               \/ EsSearch(r) \/ EsSearchCallback(r) \/ EsExists(r) \/ EsFails(r)
        PROVE  docs' = docs
    <3>1. CASE Arrive(r)
      BY <3>1 DEF Arrive, ReceiveWrite, ReceiveDelete, ReceiveGet, ReceiveSearch, Receive
    <3>2. CASE Continue(r)
      BY <3>2 DEF Continue, NameChecked, CreateItem, UpdateItem, DeleteTestMany, DeleteTestFew,
                  GetItem, SearchItems, WriteAcknowledged, CallFailed, Index_vars
    <3>3. CASE CallTimedOut(r) \/ RequestTimedOut(r)
      BY <3>3 DEF CallTimedOut, RequestTimedOut, Index_vars
    <3>4. CASE EsSearch(r) \/ EsSearchCallback(r) \/ EsExists(r) \/ EsFails(r)
      BY <3>4 DEF EsSearch, EsSearchCallback, EsExists, EsFails, Index_vars
    <3> QED BY <2>4, <3>1, <3>2, <3>3, <3>4
  <2>5. ASSUME NEW j \in Ids, Refresh(j) PROVE docs' = docs
    BY <2>5 DEF Refresh
  <2>6. Quiet => docs' = docs
    BY DEF Quiet, vars
  <2> QED BY <2>1, <2>2, <2>3, <2>4, <2>5, <2>6 DEF Next, EsStep
<1> QED BY <1>1, Invariance, PTL DEF Spec, OnlyCreatesCreate
=============================================================================
