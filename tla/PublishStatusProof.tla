------------------------- MODULE PublishStatusProof -------------------------
(***************************************************************************)
(* Proofs about PublishStatus: what the validator has made of a request's  *)
(* body at each place of its handler, and from it that updates neither     *)
(* publish an item nor lose an approval or an upload but in the ways the   *)
(* properties name, whatever statuses the clients' bodies carry.           *)
(***************************************************************************)
EXTENDS PublishStatus, TLAPS

\* What a request is about to write.
BodyShape(r) ==
    LET b == req[r].body
        found == hit[r].doc
    IN \/ /\ req[r].op = "create"
          /\ b.published = "no" /\ b.uploaded = Put(b.media)
       \/ /\ req[r].op = "update" /\ hit[r] = NoHit
          /\ b \in Bodies
       \/ /\ req[r].op = "update" /\ hit[r].id \in Ids /\ found \in Doc
          /\ b.published = Put(found.published)
          /\ b.uploaded = Put(b.media \/ (found.uploaded /\ ~found.media))

\* A request's body and what its lookup found, at each place of its handler.
HandlerInv ==
    \A r \in Requests :
        /\ pc[r] # "idle" => req[r] \in Request
        /\ pc[r] \in {"idle", "looking"} => hit[r] = NoHit
        /\ pc[r] = "looking" => req[r].body \in Bodies
        /\ pc[r] \in {"testing", "writing"} => BodyShape(r)

\* Whatever was seen published was approved, borrowed or sent, and borrowed only
\* after one of the other two.
ApprovalInv ==
    /\ PublicationExplained
    /\ \A r \in Requests : IsPublished(hit[r].doc) => hit[r].id \in approved \cup borrowed \cup sent
    /\ approved \cup sent = {} =>
          /\ \A i \in Ids : ~IsPublished(visible[i])
          /\ \A r \in Requests : ~IsPublished(hit[r].doc)

----------------------------------------------------------------------------
\* Types and the handler

\* The two operations that make what is stored.
LEMMA StoredDocs ==
    ASSUME NEW b \in Body, NEW d \in Doc
    PROVE  Written(b) \in Doc /\ Merged(d, b) \in Doc
  BY DEF Body, Doc, Optional, Written, Merged

\* The two that complete a body.
LEMMA CompletedBodies ==
    ASSUME NEW b \in Body, NEW found \in Doc
    PROVE  /\ NewBody(b) \in Body
           /\ NewBody(b).published = "no" /\ NewBody(b).uploaded = Put(b.media)
           /\ NewBody(b).media = b.media
           /\ ChangedBody(b, found) \in Body
           /\ ChangedBody(b, found).published = Put(found.published)
           /\ ChangedBody(b, found).uploaded =
                 Put(b.media \/ (found.uploaded /\ ~found.media))
           /\ ChangedBody(b, found).media = b.media
<1>1. /\ Put(b.media) \in Optional /\ Put(found.published) \in Optional
      /\ Put(b.media \/ (found.uploaded /\ ~found.media)) \in Optional
  BY DEF Put, Optional
<1> QED BY <1>1 DEF Body, Optional, NewBody, ChangedBody

LEMMA InitHandler == Init => TypeOK /\ HandlerInv
<1> SUFFICES ASSUME Init PROVE TypeOK /\ HandlerInv
  OBVIOUS
<1>1. docs \in [Ids -> Doc \cup {NoDoc}]
  BY StatusAssumption DEF Init
<1> QED BY <1>1 DEF Init, TypeOK, HandlerInv, NoRequest, NoHit

\* The type invariant without what it says of bodies, which follows from
\* HandlerInv.
Types ==
    /\ docs \in [Ids -> Doc \cup {NoDoc}]
    /\ visible \in [Ids -> Doc \cup {NoDoc}]
    /\ req \in [Requests -> Request \cup {NoRequest}]
    /\ pc \in [Requests -> {"idle", "looking", "testing", "writing", "done"}]
    /\ hit \in [Requests -> [id : Ids \cup {NoId}, doc : Doc \cup {NoDoc}]]
    /\ approved \subseteq Ids
    /\ borrowed \subseteq Ids
    /\ sent \subseteq Ids

LEMMA BodiesComplete == Types /\ HandlerInv => TypeOK
<1> SUFFICES ASSUME Types, HandlerInv PROVE TypeOK
  OBVIOUS
<1>1. ASSUME NEW r \in Requests, pc[r] \in {"testing", "writing"},
             req[r].op = "create" \/ hit[r] # NoHit
      PROVE  req[r].body.uploaded # "absent" /\ req[r].body.published # "absent"
  <2>1. BodyShape(r)
    BY <1>1 DEF HandlerInv
  <2> QED BY <1>1, <2>1 DEF BodyShape, Put
<1> QED BY <1>1 DEF TypeOK, Types

LEMMA HandleKeepsTypes ==
    ASSUME Types, HandlerInv, NEW r \in Requests, Handle(r)
    PROVE  Types'
<1>1. CASE Receive(r)
  <2>1. req' \in [Requests -> Request \cup {NoRequest}]
    BY <1>1, StatusAssumption DEF Receive, Types, Request
  <2> QED BY <1>1, <2>1 DEF Receive, Types, Goto, Index_vars, History
<1>2. CASE NameFound(r)
  <2>1. PICK i \in Namesakes(req[r].body.name) :
           /\ hit' = [hit EXCEPT ![r] = [id |-> i, doc |-> visible[i]]]
           /\ IF req[r].op = "create"
              THEN Goto(r, "done") /\ UNCHANGED req
              ELSE /\ req' = [req EXCEPT ![r].body = ChangedBody(@, visible[i])]
                   /\ Goto(r, "testing")
    BY <1>2 DEF NameFound
  <2>2. i \in Ids /\ visible[i] \in Doc
    BY <2>1 DEF Namesakes, Types
  <2>3. req[r] \in Request
    BY <1>2 DEF NameFound, HandlerInv
  <2>4. ChangedBody(req[r].body, visible[i]) \in Body
    BY <2>2, <2>3, CompletedBodies DEF Request
  <2>5. req' \in [Requests -> Request \cup {NoRequest}]
    BY <2>1, <2>3, <2>4 DEF Types, Request
  <2> QED BY <1>2, <2>1, <2>2, <2>5 DEF NameFound, Types, Goto, Index_vars, History
<1>3. CASE NameNotFound(r)
  <2>1. req[r] \in Request
    BY <1>3 DEF NameNotFound, HandlerInv
  <2>2. NewBody(req[r].body) \in Body
    BY <2>1 DEF Request, NewBody, Body, Put, Optional
  <2>3. req' \in [Requests -> Request \cup {NoRequest}]
    BY <1>3, <2>1, <2>2 DEF NameNotFound, Types, Request
  <2> QED BY <1>3, <2>3 DEF NameNotFound, Types, Goto, Index_vars, History
<1>4. CASE HitsTested(r)
  BY <1>4 DEF HitsTested, Types, Goto, Index_vars, History
<1>5. CASE CreateItem(r)
  <2>1. req[r] \in Request
    BY <1>5 DEF CreateItem, HandlerInv
  <2>2. Written(req[r].body) \in Doc /\ req[r].id \in Ids
    BY <2>1 DEF Request, Written, Body, Doc
  <2>3. docs' \in [Ids -> Doc \cup {NoDoc}]
    BY <1>5, <2>2 DEF CreateItem, Types
  <2> QED BY <1>5, <2>3 DEF CreateItem, Types, Goto, History
<1>6. CASE UpdateItem(r)
  <2>1. req[r] \in Request
    BY <1>6 DEF UpdateItem, HandlerInv
  <2>2. req[r].id \in Ids /\ req[r].body \in Body
    BY <2>1 DEF Request
  <2>3. docs[req[r].id] \in Doc
    BY <1>6, <2>2 DEF UpdateItem, Types
  <2>4. docs' \in [Ids -> Doc \cup {NoDoc}]
    BY <1>6, <2>2, <2>3, StoredDocs DEF UpdateItem, Types
  <2>5. borrowed' \subseteq Ids /\ sent' \subseteq Ids
    BY <1>6, <2>2 DEF UpdateItem, Types
  <2> QED BY <1>6, <2>4, <2>5 DEF UpdateItem, Types, Goto
<1>7. CASE Fail(r)
  BY <1>7 DEF Fail, Types, Goto, Index_vars, History
<1> QED BY <1>1, <1>2, <1>3, <1>4, <1>5, <1>6, <1>7 DEF Handle

LEMMA OthersKeepTypes ==
    ASSUME Types, NEW i \in Ids,
           DeleteItem(i) \/ Approve(i) \/ Upload(i) \/ Refresh(i)
    PROVE  Types' /\ UNCHANGED <<req, pc, hit>>
<1>1. CASE DeleteItem(i)
  BY <1>1 DEF DeleteItem, Types, History
<1>2. CASE Approve(i)
  <2>1. [docs[i] EXCEPT !.published = TRUE] \in Doc
    BY <1>2 DEF Approve, Types, Doc
  <2> QED BY <1>2, <2>1 DEF Approve, Types
<1>3. CASE Upload(i)
  <2>1. [docs[i] EXCEPT !.uploaded = TRUE] \in Doc
    BY <1>3 DEF Upload, Types, Doc
  <2> QED BY <1>3, <2>1 DEF Upload, Types, History
<1>4. CASE Refresh(i)
  BY <1>4 DEF Refresh, Types, History
<1> QED BY <1>1, <1>2, <1>3, <1>4

\* One request's share of HandlerInv.
HandlerOk(r) ==
    /\ pc[r] # "idle" => req[r] \in Request
    /\ pc[r] \in {"idle", "looking"} => hit[r] = NoHit
    /\ pc[r] = "looking" => req[r].body \in Bodies
    /\ pc[r] \in {"testing", "writing"} => BodyShape(r)

\* What is not touched stays so.
LEMMA HandlerFrame ==
    ASSUME NEW r \in Requests, HandlerOk(r),
           UNCHANGED <<req[r], pc[r], hit[r]>>
    PROVE  HandlerOk(r)'
  BY DEF HandlerOk, BodyShape

LEMMA HandleKeepsOwn ==
    ASSUME Types, NEW r \in Requests, HandlerOk(r), Handle(r)
    PROVE  HandlerOk(r)'
<1>1. CASE Receive(r)
  <2>1. PICK op \in {"create", "update"}, i \in Ids, b \in Bodies :
           req' = [req EXCEPT ![r] = [op |-> op, id |-> i, body |-> b]]
    BY <1>1 DEF Receive
  <2>2. req'[r] = [op |-> op, id |-> i, body |-> b] /\ pc'[r] = "looking"
    BY <1>1, <2>1 DEF Receive, Types, Goto
  <2>3. req'[r] \in Request /\ req'[r].body \in Bodies
    BY <2>2, StatusAssumption DEF Request
  <2> QED BY <1>1, <2>2, <2>3 DEF Receive, HandlerOk
<1>2. CASE NameFound(r)
  <2>1. PICK i \in Namesakes(req[r].body.name) :
           /\ hit' = [hit EXCEPT ![r] = [id |-> i, doc |-> visible[i]]]
           /\ IF req[r].op = "create"
              THEN Goto(r, "done") /\ UNCHANGED req
              ELSE /\ req' = [req EXCEPT ![r].body = ChangedBody(@, visible[i])]
                   /\ Goto(r, "testing")
    BY <1>2 DEF NameFound
  <2>2. i \in Ids /\ visible[i] \in Doc
    BY <2>1 DEF Namesakes, Types
  <2>3. req[r] \in Request
    BY <1>2 DEF NameFound, HandlerOk
  <2>4. hit'[r].id = i /\ hit'[r].doc = visible[i]
    BY <2>1 DEF Types
  <2>5. CASE req[r].op = "create"
    BY <2>1, <2>3, <2>5 DEF Goto, HandlerOk, Types
  <2>6. CASE req[r].op # "create"
    <3> DEFINE new == ChangedBody(req[r].body, visible[i])
    <3>1. req'[r] = [req[r] EXCEPT !.body = new] /\ pc'[r] = "testing"
      BY <2>1, <2>6 DEF Types, Goto
    <3>2. /\ new \in Body /\ new.published = Put(visible[i].published)
          /\ new.uploaded = Put(new.media \/ (visible[i].uploaded /\ ~visible[i].media))
      BY <2>2, <2>3, CompletedBodies DEF Request
    <3> HIDE DEF new
    <3>3. req'[r] \in Request /\ req'[r].op = "update" /\ req'[r].body = new
      BY <2>3, <2>6, <3>1, <3>2 DEF Request
    <3>4. BodyShape(r)'
      BY <2>2, <2>4, <3>2, <3>3 DEF BodyShape
    <3> QED BY <3>1, <3>3, <3>4 DEF HandlerOk
  <2> QED BY <2>5, <2>6
<1>3. CASE NameNotFound(r)
  <2>1. req[r] \in Request /\ hit[r] = NoHit /\ req[r].body \in Bodies
    BY <1>3 DEF NameNotFound, HandlerOk
  <2>2. hit'[r] = NoHit /\ pc'[r] = "testing"
    BY <1>3, <2>1 DEF NameNotFound, Goto, Types
  <2>3. CASE req[r].op = "create"
    <3> DEFINE new == NewBody(req[r].body)
    <3>1. req'[r] = [req[r] EXCEPT !.body = new]
      BY <1>3, <2>3 DEF NameNotFound, Types
    <3>2. new \in Body /\ new.published = "no" /\ new.uploaded = Put(new.media)
      BY <2>1 DEF Request, NewBody, Body, Put, Optional
    <3> HIDE DEF new
    <3>3. req'[r] \in Request /\ req'[r].op = "create" /\ req'[r].body = new
      BY <2>1, <2>3, <3>1, <3>2 DEF Request
    <3> QED BY <2>2, <3>2, <3>3 DEF HandlerOk, BodyShape
  <2>4. CASE req[r].op # "create"
    <3>1. req'[r] = req[r] /\ req[r].op = "update"
      BY <1>3, <2>1, <2>4 DEF NameNotFound, Types, Request
    <3> QED BY <2>1, <2>2, <3>1 DEF HandlerOk, BodyShape
  <2> QED BY <2>3, <2>4
<1>4. CASE HitsTested(r)
  <2>1. PICK place \in {"writing", "done"} : Goto(r, place)
    BY <1>4 DEF HitsTested
  <2>2. pc'[r] \in {"writing", "done"} /\ req[r] \in Request /\ BodyShape(r)
    BY <1>4, <2>1 DEF HitsTested, Goto, Types, HandlerOk
  <2>3. BodyShape(r)'
    BY <1>4, <2>2 DEF HitsTested, BodyShape
  <2> QED BY <1>4, <2>2, <2>3 DEF HitsTested, HandlerOk
<1>5. CASE CreateItem(r) \/ UpdateItem(r) \/ Fail(r)
  BY <1>5 DEF CreateItem, UpdateItem, Fail, Goto, Types, HandlerOk
<1> QED BY <1>1, <1>2, <1>3, <1>4, <1>5 DEF Handle

\* A handler's step touches its own request only.
LEMMA HandleTouchesOwn ==
    ASSUME Types, NEW r \in Requests, Handle(r), NEW s \in Requests, s # r
    PROVE  UNCHANGED <<req[s], pc[s], hit[s]>>
<1>1. CASE Receive(r)
  BY <1>1 DEF Receive, Goto, Types
<1>2. CASE NameFound(r)
  BY <1>2 DEF NameFound, Goto, Types
<1>3. CASE NameNotFound(r)
  BY <1>3 DEF NameNotFound, Goto, Types
<1>4. CASE HitsTested(r)
  BY <1>4 DEF HitsTested, Goto, Types
<1>5. CASE CreateItem(r) \/ UpdateItem(r) \/ Fail(r)
  BY <1>5 DEF CreateItem, UpdateItem, Fail, Goto, Types
<1> QED BY <1>1, <1>2, <1>3, <1>4, <1>5 DEF Handle

LEMMA NextHandler ==
    Types /\ HandlerInv /\ [Next]_vars => Types' /\ HandlerInv'
<1> SUFFICES ASSUME Types, HandlerInv, [Next]_vars PROVE Types' /\ HandlerInv'
  OBVIOUS
<1>0. \A s \in Requests : HandlerOk(s)
  BY DEF HandlerInv, HandlerOk
<1>a. SUFFICES Types' /\ \A s \in Requests : HandlerOk(s)'
  BY DEF HandlerInv, HandlerOk
<1>1. ASSUME NEW r \in Requests, Handle(r) PROVE Types' /\ \A s \in Requests : HandlerOk(s)'
  <2>1. Types'
    BY <1>1, HandleKeepsTypes
  <2>2. ASSUME NEW s \in Requests PROVE HandlerOk(s)'
    <3>1. CASE s = r
      BY <1>0, <1>1, <3>1, HandleKeepsOwn
    <3>2. CASE s # r
      BY <1>0, <1>1, <3>2, HandleTouchesOwn, HandlerFrame
    <3> QED BY <3>1, <3>2
  <2> QED BY <2>1, <2>2
<1>2. ASSUME NEW i \in Ids, DeleteItem(i) \/ Approve(i) \/ Upload(i) \/ Refresh(i)
      PROVE  Types' /\ \A s \in Requests : HandlerOk(s)'
  <2>1. Types' /\ UNCHANGED <<req, pc, hit>>
    BY <1>2, OthersKeepTypes
  <2> QED BY <1>0, <2>1, HandlerFrame
<1>3. CASE UNCHANGED vars
  <2>1. Types'
    BY <1>3 DEF Types, vars
  <2> QED BY <1>0, <1>3, <2>1, HandlerFrame DEF vars
<1> QED BY <1>1, <1>2, <1>3 DEF Next, Quiet

\* Every variable keeps its type, and a body is complete when it is written
\* (ItemExistenceValidator hands on both statuses).
THEOREM TypeCorrect == Spec => []TypeOK
<1>1. Init => Types /\ HandlerInv
  BY InitHandler DEF TypeOK, Types
<1>2. Types /\ HandlerInv /\ [Next]_vars => (Types /\ HandlerInv)'
  BY NextHandler
<1> QED BY <1>1, <1>2, BodiesComplete, PTL DEF Spec

----------------------------------------------------------------------------
\* Approvals

LEMMA InitApproval == Init => ApprovalInv
<1> SUFFICES ASSUME Init PROVE ApprovalInv
  OBVIOUS
<1>1. \A r \in Requests : ~IsPublished(hit[r].doc)
  BY DEF Init, NoHit, IsPublished
<1>2. PublicationExplained
  BY DEF Init, PublicationExplained, IsPublished
<1> QED BY <1>1, <1>2 DEF Init, ApprovalInv, IsPublished

\* What an update takes over from its lookup, or leaves to its client.
LEMMA MergedPublished ==
    ASSUME Types, NEW r \in Requests, HandlerOk(r), UpdateItem(r), NEW d \in Doc
    PROVE  LET new == Merged(d, req[r].body).published IN
           /\ hit[r] # NoHit => hit[r].id \in Ids /\ new = hit[r].doc.published
           /\ hit[r] = NoHit /\ new => d.published \/ req[r].body.published = "yes"
           /\ hit[r] = NoHit /\ d.published /\ ~new => req[r].body.published = "no"
<1>1. req[r].op = "update" /\ req[r] \in Request /\ BodyShape(r)
  BY DEF UpdateItem, HandlerOk
<1>2. CASE hit[r] = NoHit
  <2>1. req[r].body.published \in Optional
    BY <1>1 DEF Request, Body
  <2> QED BY <1>2, <2>1 DEF Merged, Optional
<1>3. CASE hit[r] # NoHit
  <2>1. /\ hit[r].id \in Ids /\ hit[r].doc \in Doc
        /\ req[r].body.published = Put(hit[r].doc.published)
    BY <1>1, <1>3 DEF BodyShape
  <2>2. hit[r].doc.published \in BOOLEAN
    BY <2>1 DEF Doc
  <2> QED BY <1>3, <2>1, <2>2 DEF Merged, Put
<1> QED BY <1>2, <1>3

LEMMA HandleApproval ==
    ASSUME Types, HandlerInv, ApprovalInv, NEW r \in Requests, Handle(r)
    PROVE  ApprovalInv'
<1>0. HandlerOk(r)
  BY DEF HandlerInv, HandlerOk
<1>1. CASE Receive(r) \/ NameNotFound(r) \/ HitsTested(r) \/ Fail(r)
  <2>1. UNCHANGED <<docs, visible, hit, approved, borrowed, sent>>
    BY <1>1 DEF Receive, NameNotFound, HitsTested, Fail, Index_vars, History
  <2> QED BY <2>1 DEF ApprovalInv, PublicationExplained, IsPublished
<1>2. CASE NameFound(r)
  <2>1. PICK i \in Namesakes(req[r].body.name) :
           hit' = [hit EXCEPT ![r] = [id |-> i, doc |-> visible[i]]]
    BY <1>2 DEF NameFound
  <2>2. i \in Ids
    BY <2>1 DEF Namesakes
  <2>3. UNCHANGED <<docs, visible, approved, borrowed, sent>>
    BY <1>2 DEF NameFound, Index_vars, History
  <2>4. PublicationExplained'
    BY <2>3 DEF ApprovalInv, PublicationExplained, IsPublished
  <2>5. ASSUME NEW s \in Requests, IsPublished(hit'[s].doc)
        PROVE  hit'[s].id \in approved \cup borrowed \cup sent /\ approved \cup sent # {}
    <3>1. CASE s = r
      <4>1. hit'[s].id = i /\ hit'[s].doc = visible[i]
        BY <2>1, <3>1 DEF Types
      <4>2. IsPublished(visible[i])
        BY <2>5, <4>1
      <4> QED BY <2>2, <4>1, <4>2 DEF ApprovalInv, PublicationExplained
    <3>2. CASE s # r
      <4>1. hit'[s] = hit[s]
        BY <2>1, <3>2 DEF Types
      <4> QED BY <2>5, <4>1 DEF ApprovalInv
    <3> QED BY <3>1, <3>2
  <2> QED BY <2>3, <2>4, <2>5 DEF ApprovalInv, IsPublished
<1>3. CASE CreateItem(r)
  <2>1. req[r] \in Request /\ BodyShape(r) /\ req[r].op = "create"
    BY <1>0, <1>3 DEF CreateItem, HandlerOk
  <2>2. req[r].id \in Ids /\ req[r].body.published = "no"
    BY <2>1 DEF Request, BodyShape
  <2>3. ~IsPublished(Written(req[r].body))
    BY <2>2 DEF IsPublished, Written
  <2>4. UNCHANGED <<visible, hit, approved, borrowed, sent>>
    BY <1>3 DEF CreateItem, History
  <2>5. ASSUME NEW i \in Ids, IsPublished(docs'[i]) PROVE IsPublished(docs[i])
    BY <1>3, <2>3, <2>5 DEF CreateItem, Types
  <2> QED BY <2>4, <2>5 DEF ApprovalInv, PublicationExplained, IsPublished
<1>4. CASE UpdateItem(r)
  <2> DEFINE i == req[r].id
  <2>1. req[r] \in Request /\ BodyShape(r) /\ req[r].op = "update"
    BY <1>0, <1>4 DEF UpdateItem, HandlerOk
  <2>2. i \in Ids /\ docs[i] \in Doc
    BY <1>4, <2>1 DEF UpdateItem, Request, Types
  <2>3. docs' = [docs EXCEPT ![i] = Merged(docs[i], req[r].body)]
    BY <1>4 DEF UpdateItem
  <2>4. UNCHANGED <<visible, hit, approved>>
    BY <1>4 DEF UpdateItem
  <2>5. borrowed \subseteq borrowed' /\ sent \subseteq sent'
    BY <1>4 DEF UpdateItem
  <2> DEFINE new == Merged(docs[i], req[r].body)
  <2>6. /\ hit[r] # NoHit => new.published = hit[r].doc.published
        /\ hit[r] = NoHit /\ new.published => docs[i].published \/ req[r].body.published = "yes"
    BY <1>0, <1>4, <2>2, MergedPublished
  <2>7. ASSUME NEW j \in Ids, IsPublished(docs'[j])
        PROVE  j \in approved \cup borrowed' \cup sent' /\ approved \cup sent' # {}
    <3>1. CASE j # i
      <4>1. docs'[j] = docs[j]
        BY <2>3, <3>1 DEF Types
      <4> QED BY <2>5, <2>7, <4>1 DEF ApprovalInv, PublicationExplained
    <3>2. CASE j = i /\ hit[r] = NoHit
      <4>1. docs'[i] = Merged(docs[i], req[r].body)
        BY <2>2, <2>3 DEF Types
      <4>2. docs[i].published \/ req[r].body.published = "yes"
        BY <2>6, <2>7, <3>2, <4>1 DEF IsPublished
      <4>3. CASE docs[i].published
        <5>1. IsPublished(docs[i])
          BY <1>4, <4>3 DEF UpdateItem, IsPublished
        <5> QED BY <2>2, <2>5, <3>2, <5>1 DEF ApprovalInv, PublicationExplained
      <4>4. CASE req[r].body.published = "yes"
        <5>1. i \in sent'
          BY <1>4, <3>2, <4>4 DEF UpdateItem, NoHit
        <5> QED BY <3>2, <5>1
      <4> QED BY <4>2, <4>3, <4>4
    <3>3. CASE j = i /\ hit[r] # NoHit
      <4>1. docs'[i] = Merged(docs[i], req[r].body)
        BY <2>2, <2>3 DEF Types
      <4>2. hit[r].doc.published
        BY <2>6, <2>7, <3>3, <4>1 DEF IsPublished
      <4>3. hit[r].id \in Ids /\ hit[r].doc \in Doc
        BY <2>1, <3>3 DEF BodyShape
      <4>4. IsPublished(hit[r].doc)
        BY <4>2, <4>3, StatusAssumption DEF IsPublished
      <4>5. hit[r].id \in approved \cup borrowed \cup sent /\ approved \cup sent # {}
        BY <4>4 DEF ApprovalInv
      <4>6. CASE hit[r].id = i
        BY <2>5, <3>3, <4>5, <4>6
      <4>7. CASE hit[r].id # i
        <5>1. hit[r].id \notin {NoId, i}
          BY <4>3, <4>7, StatusAssumption
        <5>2. i \in borrowed'
          BY <1>4, <4>2, <5>1 DEF UpdateItem
        <5> QED BY <2>5, <3>3, <4>5, <5>2
      <4> QED BY <4>6, <4>7
    <3> QED BY <3>1, <3>2, <3>3
  <2>8. PublicationExplained'
    BY <2>4, <2>5, <2>7 DEF ApprovalInv, PublicationExplained, IsPublished
  <2> QED BY <2>4, <2>5, <2>8 DEF ApprovalInv, IsPublished
<1> QED BY <1>1, <1>2, <1>3, <1>4 DEF Handle

LEMMA OthersApproval ==
    ASSUME Types, ApprovalInv, NEW i \in Ids,
           DeleteItem(i) \/ Approve(i) \/ Upload(i) \/ Refresh(i)
    PROVE  ApprovalInv'
<1>1. CASE DeleteItem(i)
  <2>1. \A j \in Ids : IsPublished(docs'[j]) => IsPublished(docs[j])
    BY <1>1 DEF DeleteItem, Types, IsPublished
  <2>2. UNCHANGED <<visible, hit, approved, borrowed, sent>>
    BY <1>1 DEF DeleteItem, History
  <2> QED BY <2>1, <2>2 DEF ApprovalInv, PublicationExplained, IsPublished
<1>2. CASE Approve(i)
  <2>1. \A j \in Ids : j # i => docs'[j] = docs[j]
    BY <1>2 DEF Approve, Types
  <2>2. approved' = approved \cup {i} /\ UNCHANGED <<visible, hit, borrowed, sent>>
    BY <1>2 DEF Approve
  <2> QED BY <2>1, <2>2 DEF ApprovalInv, PublicationExplained, IsPublished
<1>3. CASE Upload(i)
  <2>1. docs[i] \in Doc /\ docs' = [docs EXCEPT ![i] = [docs[i] EXCEPT !.uploaded = TRUE]]
    BY <1>3 DEF Upload, Types
  <2>2. docs'[i].published = docs[i].published /\ docs[i] # NoDoc
    BY <1>3, <2>1 DEF Upload, Types, Doc
  <2>3. \A j \in Ids : IsPublished(docs'[j]) => IsPublished(docs[j])
    BY <2>1, <2>2 DEF Types, IsPublished
  <2>4. UNCHANGED <<visible, hit, approved, borrowed, sent>>
    BY <1>3 DEF Upload, History
  <2> QED BY <2>3, <2>4 DEF ApprovalInv, PublicationExplained, IsPublished
<1>4. CASE Refresh(i)
  <2>1. \A j \in Ids : visible'[j] \in {visible[j], docs[j]}
    BY <1>4 DEF Refresh, Types
  <2>2. UNCHANGED <<docs, hit, approved, borrowed, sent>>
    BY <1>4 DEF Refresh, History
  <2> QED BY <2>1, <2>2 DEF ApprovalInv, PublicationExplained, IsPublished
<1> QED BY <1>1, <1>2, <1>3, <1>4

LEMMA NextApproval ==
    Types /\ HandlerInv /\ ApprovalInv /\ [Next]_vars => ApprovalInv'
<1> SUFFICES ASSUME Types, HandlerInv, ApprovalInv, [Next]_vars
             PROVE  ApprovalInv'
  OBVIOUS
<1>1. CASE UNCHANGED vars
  BY <1>1 DEF ApprovalInv, PublicationExplained, IsPublished, vars
<1> QED BY <1>1, HandleApproval, OthersApproval DEF Next, Quiet

\* An item is published by an approval, by taking the status of another one of its
\* name, or by an update to a name the lookup does not find whose body says so; in
\* no other way, whatever clients send (ItemExistenceValidator).
THEOREM PublicationsExplained ==
    Spec => []PublicationExplained
<1> DEFINE Inv == Types /\ HandlerInv /\ ApprovalInv
<1>1. Init => Inv
  BY InitHandler, InitApproval DEF TypeOK, Types
<1>2. Inv /\ [Next]_vars => Inv'
  BY NextHandler, NextApproval
<1>3. Inv => PublicationExplained
  BY DEF ApprovalInv
<1> QED BY <1>1, <1>2, <1>3, PTL DEF Spec

----------------------------------------------------------------------------
\* Steps that take a status away

\* Only a creation or an update takes a status away from a document that stays.
LEMMA WhoTakesAway ==
    ASSUME Types, NEW i \in Ids, Next, docs[i] \in Doc, docs'[i] # NoDoc,
           \/ docs[i].published /\ ~docs'[i].published
           \/ docs[i].uploaded /\ ~docs'[i].uploaded
    PROVE  \E r \in Requests :
              /\ CreateItem(r) \/ UpdateItem(r)
              /\ req[r].id = i
<1>1. docs' # docs
  OBVIOUS
<1>2. ASSUME NEW r \in Requests, Handle(r) PROVE CreateItem(r) \/ UpdateItem(r)
  BY <1>1, <1>2
     DEF Handle, Receive, NameFound, NameNotFound, HitsTested, Fail, Index_vars
<1>3. ASSUME NEW r \in Requests, CreateItem(r) \/ UpdateItem(r) PROVE req[r].id = i
  BY <1>3 DEF CreateItem, UpdateItem, Types
<1>4. ASSUME NEW j \in Ids, DeleteItem(j) PROVE FALSE
  BY <1>4 DEF DeleteItem, Types
<1>5. ASSUME NEW j \in Ids, Approve(j) PROVE FALSE
  <2>1. docs[j] \in Doc /\ docs' = [docs EXCEPT ![j] = [docs[j] EXCEPT !.published = TRUE]]
    BY <1>5 DEF Approve, Types
  <2>2. docs'[j].uploaded = docs[j].uploaded /\ docs'[j].published = TRUE
    BY <2>1 DEF Types, Doc
  <2>3. j # i => docs'[i] = docs[i]
    BY <2>1 DEF Types
  <2> QED BY <2>2, <2>3
<1>6. ASSUME NEW j \in Ids, Upload(j) PROVE FALSE
  <2>1. docs[j] \in Doc /\ docs' = [docs EXCEPT ![j] = [docs[j] EXCEPT !.uploaded = TRUE]]
    BY <1>6 DEF Upload, Types
  <2>2. docs'[j].published = docs[j].published /\ docs'[j].uploaded = TRUE
    BY <2>1 DEF Types, Doc
  <2>3. j # i => docs'[i] = docs[i]
    BY <2>1 DEF Types
  <2> QED BY <2>2, <2>3
<1>7. ASSUME NEW j \in Ids, Refresh(j) PROVE FALSE
  BY <1>1, <1>7 DEF Refresh
<1>8. CASE Quiet
  BY <1>1, <1>8 DEF Quiet, vars
<1> QED BY <1>2, <1>3, <1>4, <1>5, <1>6, <1>7, <1>8 DEF Next

\* The step of either is the request's write.
LEMMA WriteIsWrite ==
    ASSUME Types, NEW r \in Requests, CreateItem(r) \/ UpdateItem(r)
    PROVE  WritesTo(r, req[r].id)
  BY DEF CreateItem, UpdateItem, Goto, WritesTo, Types

LEMMA ApprovalKept ==
    ASSUME Types, HandlerInv, Next, NEW i \in Ids,
           IsPublished(docs[i]), docs'[i] # NoDoc, ~docs'[i].published
    PROVE  \E r \in Requests :
              /\ WritesTo(r, i)
              /\ req[r].op = "update" =>
                    \/ hit[r].id # NoId /\ ~SawPublished(r, i)
                    \/ SaysNo(r, req[r].body.published)
<1>1. docs[i] \in Doc /\ docs[i].published
  BY DEF IsPublished, Types
<1>2. PICK r \in Requests : (CreateItem(r) \/ UpdateItem(r)) /\ req[r].id = i
  BY <1>1, WhoTakesAway
<1>3. WritesTo(r, i)
  BY <1>2, WriteIsWrite
<1>4. ASSUME req[r].op = "update"
      PROVE  \/ hit[r].id # NoId /\ ~SawPublished(r, i)
             \/ SaysNo(r, req[r].body.published)
  <2>1. UpdateItem(r) /\ HandlerOk(r)
    BY <1>2, <1>4 DEF CreateItem, HandlerInv, HandlerOk
  <2>2. docs'[i] = Merged(docs[i], req[r].body)
    BY <1>2, <2>1 DEF UpdateItem, Types
  <2>3. CASE hit[r] = NoHit
    <3>1. req[r].body.published = "no"
      BY <1>1, <2>1, <2>2, <2>3, MergedPublished
    <3> QED BY <2>3, <3>1 DEF SaysNo, NoHit
  <2>4. CASE hit[r] # NoHit
    <3>1. hit[r].id \in Ids /\ ~hit[r].doc.published
      BY <1>1, <2>1, <2>2, <2>4, MergedPublished
    <3> QED BY <3>1, StatusAssumption DEF SawPublished
  <2> QED BY <2>3, <2>4
<1> QED BY <1>3, <1>4

\* The upload status that is stored.
LEMMA StoredUploads ==
    ASSUME NEW b \in Body, NEW d \in Doc
    PROVE  /\ Written(b).uploaded <=> b.uploaded = "yes"
           /\ d.uploaded /\ ~Merged(d, b).uploaded
                 => b.uploaded = "no"
  BY DEF Written, Merged, Doc, Body, Optional

LEMMA UploadKept ==
    ASSUME Types, HandlerInv, Next, NEW i \in Ids,
           docs[i] # NoDoc, docs[i].uploaded, docs'[i] # NoDoc, ~docs'[i].uploaded
    PROVE  \E r \in Requests :
              /\ WritesTo(r, i)
              /\ \/ /\ ~req[r].body.media
                    /\ req[r].op = "update" => SawNoUpload(r)
                 \/ req[r].op = "update" /\ SaysNo(r, req[r].body.uploaded)
<1>1. docs[i] \in Doc /\ docs[i].uploaded
  BY DEF Types
<1>2. PICK r \in Requests : (CreateItem(r) \/ UpdateItem(r)) /\ req[r].id = i
  BY <1>1, WhoTakesAway
<1>3. WritesTo(r, i)
  BY <1>2, WriteIsWrite
<1>4. HandlerOk(r)
  BY DEF HandlerInv, HandlerOk
<1>5. req[r] \in Request /\ BodyShape(r)
  BY <1>2, <1>4 DEF CreateItem, UpdateItem, HandlerOk
<1>6. CASE CreateItem(r)
  <2>1. docs'[i] = Written(req[r].body) /\ req[r].op = "create"
    BY <1>2, <1>6 DEF CreateItem, Types
  <2>2. req[r].body.uploaded = Put(req[r].body.media) /\ req[r].body.uploaded # "yes"
    BY <1>1, <1>5, <2>1, StoredUploads DEF BodyShape, Request
  <2>3. ~req[r].body.media
    BY <2>2 DEF Put
  <2> QED BY <1>3, <2>1, <2>3
<1>7. CASE UpdateItem(r)
  <2>1. docs'[i] = Merged(docs[i], req[r].body) /\ req[r].op = "update"
    BY <1>2, <1>7 DEF UpdateItem, Types
  <2>2. req[r].body.uploaded = "no"
    BY <1>1, <1>5, <2>1, StoredUploads DEF Request
  <2>3. CASE hit[r] = NoHit
    BY <1>3, <2>1, <2>2, <2>3 DEF SaysNo, NoHit
  <2>4. CASE hit[r] # NoHit
    <3>1. /\ hit[r].id \in Ids
          /\ req[r].body.uploaded
                = Put(req[r].body.media \/ (hit[r].doc.uploaded /\ ~hit[r].doc.media))
      BY <1>5, <2>1, <2>4 DEF BodyShape
    <3>2. ~(req[r].body.media \/ (hit[r].doc.uploaded /\ ~hit[r].doc.media))
      BY <2>2, <3>1 DEF Put
    <3> QED BY <1>3, <2>1, <3>1, <3>2, StatusAssumption DEF SawNoUpload
  <2> QED BY <2>3, <2>4
<1> QED BY <1>2, <1>6, <1>7

\* An update takes an approval back only if its lookup found another item, or
\* this one as it was before, or none and its body says so
\* (ItemExistenceValidator copies publishStatus).
THEOREM ApprovalSurvives ==
    Spec => ApprovalIsKept
<1> DEFINE Inv == Types /\ HandlerInv
<1>1. Init => Inv
  BY InitHandler DEF TypeOK, Types
<1>2. Inv /\ [Next]_vars => Inv'
  BY NextHandler
<1>3. Inv /\ [Next]_vars =>
        [\A i \in Ids :
            IsPublished(docs[i]) /\ docs'[i] # NoDoc /\ ~docs'[i].published =>
                \E r \in Requests :
                    /\ WritesTo(r, i)
                    /\ req[r].op = "update" =>
                          \/ hit[r].id # NoId /\ ~SawPublished(r, i)
                          \/ SaysNo(r, req[r].body.published)]_vars
  BY ApprovalKept
<1> QED BY <1>1, <1>2, <1>3, PTL DEF Spec, ApprovalIsKept

\* Likewise for an upload, which also gives way to an item found with a media
\* URL (the second half of the validator's condition).
THEOREM UploadSurvives ==
    Spec => UploadIsKept
<1> DEFINE Inv == Types /\ HandlerInv
<1>1. Init => Inv
  BY InitHandler DEF TypeOK, Types
<1>2. Inv /\ [Next]_vars => Inv'
  BY NextHandler
<1>3. Inv /\ [Next]_vars =>
        [\A i \in Ids :
            docs[i] # NoDoc /\ docs[i].uploaded /\ docs'[i] # NoDoc /\ ~docs'[i].uploaded =>
                \E r \in Requests :
                    /\ WritesTo(r, i)
                    /\ \/ /\ ~req[r].body.media
                          /\ req[r].op = "update" => SawNoUpload(r)
                       \/ req[r].op = "update" /\ SaysNo(r, req[r].body.uploaded)]_vars
  BY UploadKept
<1> QED BY <1>1, <1>2, <1>3, PTL DEF Spec, UploadIsKept
=============================================================================
