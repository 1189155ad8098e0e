-------------------------- MODULE ItemServiceInv --------------------------
(***************************************************************************)
(* The inductive invariant of ItemService: where a request's chain stands, *)
(* what its call is doing and what the answers of its searches entitle it  *)
(* to.  The properties of ItemService follow from it (ItemServiceProof).   *)
(***************************************************************************)
EXTENDS ItemService

\* Operation op makes calls of this kind.
Makes(op, kind) ==
    \/ op = "create" /\ kind \in {"name", "id", "index"}
    \/ op = "update" /\ kind \in {"name", "idAndType", "exists", "update"}
    \/ op = "delete" /\ kind \in {"links", "delete"}
    \/ op = "get" /\ kind = "id"
    \/ op = "search" /\ kind = "listing"

\* A request that has not arrived has left no trace.
IdleClean(r) ==
    pc[r] = "idle" =>
        /\ req[r] = NoRequest /\ call[r] = NoCall /\ resp[r] = NoResponse
        /\ ~effect[r] /\ ~intruded[r]

\* The chain of a request that has arrived waits for a call of its operation,
\* of the kind its place in the chain says; it has answered iff it has ended.
ChainShape(r) ==
    pc[r] # "idle" =>
        /\ req[r].op # "none"
        /\ req[r].op \in {"create", "update"} => req[r].item \in Item
        /\ req[r].op # "search" => req[r].id \in Ids
        /\ Makes(req[r].op, call[r].kind)
        /\ pc[r] = "validating" => call[r].kind = "name"
        /\ pc[r] = "searching" => call[r].kind \in {"id", "idAndType", "links", "listing"}
        /\ pc[r] = "rechecking" => call[r].kind = "links" /\ call[r].stage = "replied"
        /\ pc[r] = "hung" => req[r].op = "get"
        /\ pc[r] = "writing" => call[r].kind \in WriteKinds
        /\ pc[r] = "done" <=> resp[r].why # "none"
        /\ pc[r] # "done" => resp[r] = NoResponse

\* A call has a stage, and what a search found belongs together.
CallShape(r) ==
    /\ call[r].kind = "none" <=> call[r].stage = "none"
    /\ call[r].kind \in WriteKinds => call[r].stage # "answered"
    /\ call[r].kind = "exists" => call[r].stage # "replied"
    /\ call[r].kind \in SearchKinds /\ call[r].stage \in {"answered", "replied"} =>
         /\ call[r].hits = 0 <=> call[r].hit = NoId
         /\ call[r].hit # NoId => call[r].source \in Item
    /\ call[r].kind = "delete" => call[r].hit \in Ids

\* The index is changed by a write call only, and a write call that is
\* replied to has changed it.
EffectShape(r) ==
    /\ effect[r] => /\ call[r].kind \in {"index", "update", "delete"}
                    /\ call[r].stage \in {"replied", "failed", "lost"}
    /\ call[r].kind \in {"index", "update", "delete"} /\ call[r].stage = "replied" => effect[r]

\* A refusal is sent before any write call, a success after its reply.
AnswerShape(r) ==
    /\ resp[r].why = "refused" => call[r].kind \in SearchKinds
    /\ resp[r].why = "ok" /\ req[r].op \in Writers => effect[r]

\* Between the callback of a search and its continuation the number of hits is
\* the search's own, unless another callback came in between.
HitsOwn(r) ==
    call[r].kind \in SearchKinds /\ call[r].stage = "replied" /\ ~intruded[r]
        => totalHits = call[r].hits

NoNameStood(r) ==
    \A i \in Ids : Stood(r, i) => \/ visible[i].type # req[r].item.type
                                  \/ visible[i].name # req[r].item.name

\* A creation that is past the name lookup, or whose lookup found nothing,
\* has no item of its name standing in the search index.
NameEvidence(r) ==
    /\ req[r].op = "create"
    /\ \/ /\ call[r].kind = "name"
          /\ call[r].stage \in {"answered", "replied"} /\ call[r].hit = NoId
       \/ /\ call[r].kind \in {"id", "index"}
          /\ req[r].item.type = "Apps" => ~intruded[r]
    => NoNameStood(r)

\* A creation that is past the id lookup, or whose lookup found nothing, has
\* no item of its id standing in the search index.
IdEvidence(r) ==
    /\ req[r].op = "create"
    /\ \/ /\ call[r].kind = "id"
          /\ call[r].stage \in {"answered", "replied"} /\ call[r].hit = NoId
       \/ call[r].kind = "index" /\ ~intruded[r]
    => ~Stood(r, req[r].id)

Coherent(r) ==
    /\ IdleClean(r) /\ ChainShape(r) /\ CallShape(r)
    /\ EffectShape(r) /\ AnswerShape(r) /\ HitsOwn(r)
    /\ NameEvidence(r) /\ IdEvidence(r)

\* Every request's chain, call, answer and evidence agree with each other and
\* with the search index (the continuations of ItemServiceImpl.createItem).
IndInv ==
    /\ TypeOK
    /\ \A r \in Requests : Coherent(r)
============================================================================
