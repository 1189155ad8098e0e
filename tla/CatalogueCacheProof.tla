------------------------- MODULE CatalogueCacheProof -------------------------
(***************************************************************************)
(* Proofs about CatalogueCache, for any number of requests and refreshes   *)
(* under way at once, any ids and any number of changes: a caller gets the *)
(* answer to its own call, what is called not found was missing, and the   *)
(* cache goes back to an older version only by an answer that was          *)
(* overtaken.                                                              *)
(***************************************************************************)
EXTENDS CatalogueCache, TLAPS

\* The type invariant without what it says of requests, which CallerInv has.
Types ==
    /\ remote \in [Ids -> [version : Versions, state : States]]
    /\ cache \in [Ids -> Versions]
    /\ owners \in [Ids -> Versions]
    /\ req \in [Requests -> [op : {"info", "owner"}, id : Ids] \cup {NoRequest}]
    /\ resp \in [Requests -> [status : {"none", "ok", "null", "badRequest", "timeout"},
                              version : Versions]]
    /\ call \in [Calls -> [stage : Stages, found : [Ids -> Versions]]]
    /\ overtaken \in [Calls -> BOOLEAN]
    /\ missing \in [Requests -> BOOLEAN]

\* A caller's request, call and answer: nothing is left of a request that was
\* forgotten; one that is under way is unanswered or was given up; and one
\* whose call was dealt with has its answer, its own if there was something to
\* find.
CallerOK(r) ==
    /\ req[r] = NoRequest => call[r] = NoCall /\ resp[r] = NoResponse
    /\ UnderWay(r) => resp[r].status \in {"none", "timeout"}
    /\ resp[r].status = "ok" <=> resp[r].version # 0
    /\ call[r].stage = "over" => resp[r] # NoResponse
    /\ /\ resp[r].status = "ok" /\ call[r].stage = "over"
       /\ call[r].found[req[r].id] # 0
       => resp[r].version = call[r].found[req[r].id]

CallerInv == \A r \in Requests : CallerOK(r)

\* A request that was sent on while its item was absent, or found nothing, knows
\* that the item was missing.
MissingOK(r) ==
    /\ call[r].stage = "sent" /\ remote[req[r].id].state = "absent" => missing[r]
    /\ call[r].stage = "served" /\ call[r].found[req[r].id] = 0 => missing[r]
    /\ resp[r].status = "badRequest" => missing[r] \/ call[r].stage = "rejected"

\* So does every request; and an item that never changed is absent.
MissingInv ==
    /\ \A i \in Ids : remote[i].version = 0 => remote[i].state = "absent"
    /\ \A r \in Requests : MissingOK(r)

\* Nothing cached or found is newer than the catalogue server's; and what a call
\* found is at least as new as what is cached, unless it was overtaken.
AgeInv ==
    /\ \A i \in Ids : cache[i] <= remote[i].version
    /\ \A c \in Calls, i \in Ids :
          call[c].stage = "served" =>
              /\ call[c].found[i] <= remote[i].version
              /\ call[c].found[i] # 0 /\ ~overtaken[c] => cache[i] <= call[c].found[i]

----------------------------------------------------------------------------
\* Types and callers

\* An answer reaches the caller unless it was answered before.
LEMMA AnswerLemma ==
    ASSUME Types, NEW r \in Requests, NEW status \in {"ok", "null", "badRequest", "timeout"},
           NEW version \in Versions, Answer(r, status, version)
    PROVE  /\ resp' \in [Requests -> [status : {"none", "ok", "null", "badRequest", "timeout"},
                                      version : Versions]]
           /\ resp'[r] = IF resp[r] = NoResponse
                         THEN [status |-> status, version |-> version] ELSE resp[r]
           /\ resp'[r] # NoResponse
           /\ \A s \in Requests \ {r} : resp'[s] = resp[s]
  BY DEF Answer, Types, NoResponse

\* What dealing with the answer of a call changes.
LEMMA OverLemma ==
    ASSUME Types, NEW c \in Calls, NEW stage \in {"over", "rejected", "dropped"},
           NEW applied \in BOOLEAN, Over(c, stage, applied)
    PROVE  /\ call' \in [Calls -> [stage : Stages, found : [Ids -> Versions]]]
           /\ call'[c].stage = stage /\ call'[c].found = call[c].found
           /\ \A d \in Calls \ {c} : call'[d] = call[d]
           /\ overtaken' \in [Calls -> BOOLEAN]
           /\ \A d \in Calls : overtaken[d] => overtaken'[d]
           /\ \A d \in Calls \ {c} : applied /\ UnderWay(d) => overtaken'[d]
           /\ missing' = missing
  BY DEF Over, Types, Stages

LEMMA NothingTypes ==
    /\ Nothing \in [Ids -> Versions] /\ 0 \in Versions
    /\ NoCall \in [stage : Stages, found : [Ids -> Versions]]
    /\ Sent \in [stage : Stages, found : [Ids -> Versions]]
<1>1. 0 \in Versions
  BY CacheAssumption DEF Versions
<1> QED BY <1>1 DEF Nothing, NoCall, Sent, Stages

\* What the catalogue server finds is what it has.
LEMMA FoundLemma ==
    ASSUME Types, NEW c \in Calls
    PROVE  /\ Found(c) \in [Ids -> Versions]
           /\ \A i \in Ids : Found(c)[i] \in {0, remote[i].version}
<1>1. \A i \in Ids : remote[i].version \in Versions
  BY DEF Types
<1> QED BY <1>1, NothingTypes DEF Found

\* A request is not NoRequest, since its operation is one.
LEMMA RequestLemma ==
    ASSUME Types, NEW r \in Requests, req[r].op \in {"info", "owner"} \/ req[r] # NoRequest
    PROVE  req[r] # NoRequest /\ req[r].id \in Ids /\ req[r].op \in {"info", "owner"}
  BY DEF Types, NoRequest

LEMMA InitCache == Init => Types /\ CallerInv /\ MissingInv /\ AgeInv
<1> SUFFICES ASSUME Init PROVE Types /\ CallerInv /\ MissingInv /\ AgeInv
  OBVIOUS
<1>1. Types
  BY NothingTypes DEF Init, Types, States, NoResponse
<1>2. CallerInv
  BY DEF Init, CallerInv, CallerOK, UnderWay, NoCall, NoResponse, Calls
<1>3. MissingInv
  BY DEF Init, MissingInv, MissingOK, NoCall, NoResponse, Calls
<1>4. AgeInv
  BY DEF Init, AgeInv, NoCall, Nothing, Calls
<1> QED BY <1>1, <1>2, <1>3, <1>4

LEMMA NextTypes == Types /\ [Next]_vars => Types'
<1> SUFFICES ASSUME Types, [Next]_vars PROVE Types'
  OBVIOUS
<1>0. Requests \subseteq Calls /\ Refreshes \subseteq Calls
  BY DEF Calls
<1>1. ASSUME NEW r \in Requests, Hit(r) PROVE Types'
  <2>1. PICK op \in {"info", "owner"}, i \in Ids :
          /\ Cached(op, i) # 0
          /\ req' = [req EXCEPT ![r] = [op |-> op, id |-> i]]
          /\ \/ Answer(r, "ok", Cached(op, i)) /\ UNCHANGED Caches
             \/ /\ Answer(r, "null", 0)
                /\ IF op = "info" THEN cache' = [cache EXCEPT ![i] = 0] /\ UNCHANGED owners
                   ELSE owners' = [owners EXCEPT ![i] = 0] /\ UNCHANGED cache
    BY <1>1 DEF Hit
  <2>2. Cached(op, i) \in Versions
    BY DEF Cached, Types
  <2>3. resp' \in [Requests -> [status : {"none", "ok", "null", "badRequest", "timeout"},
                                version : Versions]]
    BY <2>1, <2>2, AnswerLemma, NothingTypes
  <2>4. cache' \in [Ids -> Versions] /\ owners' \in [Ids -> Versions]
    <3>1. [cache EXCEPT ![i] = 0] \in [Ids -> Versions]
      BY NothingTypes DEF Types
    <3>2. [owners EXCEPT ![i] = 0] \in [Ids -> Versions]
      BY NothingTypes DEF Types
    <3> QED BY <2>1, <3>1, <3>2 DEF Types, Caches
  <2>5. req' \in [Requests -> [op : {"info", "owner"}, id : Ids] \cup {NoRequest}]
    BY <2>1 DEF Types
  <2> QED BY <1>1, <2>3, <2>4, <2>5 DEF Hit, Types, History
<1>2. ASSUME NEW r \in Requests, Miss(r) PROVE Types'
  BY <1>0, <1>2, NothingTypes DEF Miss, Types, Caches
<1>3. ASSUME NEW r \in Requests, InfoServed(r) PROVE Types'
  <2>1. req[r].id \in Ids
    BY <1>3, RequestLemma DEF InfoServed
  <2> DEFINE i == req[r].id
             entry == IF call[r].found[i] = 0 THEN cache[i] ELSE call[r].found[i]
  <2>2. entry \in Versions
    BY <1>0, <2>1 DEF Types
  <2>3. /\ cache' = [cache EXCEPT ![i] = entry]
        /\ Answer(r, "badRequest", 0) \/ Answer(r, "ok", entry)
        /\ Over(r, "over", call[r].found[i] # 0)
        /\ UNCHANGED <<remote, owners, req>>
    BY <1>3 DEF InfoServed
  <2> HIDE DEF entry
  <2>4. resp' \in [Requests -> [status : {"none", "ok", "null", "badRequest", "timeout"},
                                version : Versions]]
    BY <2>2, <2>3, AnswerLemma, NothingTypes
  <2>5. cache' \in [Ids -> Versions]
    BY <2>1, <2>2, <2>3 DEF Types
  <2> QED BY <1>0, <2>3, <2>4, <2>5, OverLemma DEF Types
<1>4. ASSUME NEW r \in Requests, InfoWithoutResults(r) PROVE Types'
  <2>1. resp' \in [Requests -> [status : {"none", "ok", "null", "badRequest", "timeout"},
                                version : Versions]]
    BY <1>4, AnswerLemma, NothingTypes DEF InfoWithoutResults
  <2> QED BY <1>0, <1>4, <2>1, OverLemma DEF InfoWithoutResults, Types, Caches
<1>5. ASSUME NEW r \in Requests, OwnerServed(r) PROVE Types'
  <2>1. req[r].id \in Ids
    BY <1>5, RequestLemma DEF OwnerServed
  <2>2. call[r].found[req[r].id] \in Versions
    BY <1>0, <2>1 DEF Types
  <2>3. resp' \in [Requests -> [status : {"none", "ok", "null", "badRequest", "timeout"},
                                version : Versions]]
    BY <1>5, <2>2, AnswerLemma DEF OwnerServed
  <2>4. owners' \in [Ids -> Versions]
    BY <1>5, <2>1, <2>2 DEF OwnerServed, Types
  <2> QED BY <1>0, <1>5, <2>3, <2>4, OverLemma DEF OwnerServed, Types
<1>6. ASSUME NEW r \in Requests, Dropped(r) PROVE Types'
  BY <1>0, <1>6, OverLemma DEF Dropped, Types, Caches, Callers
<1>7. ASSUME NEW r \in Requests, TimedOut(r) PROVE Types'
  BY <1>7, AnswerLemma, NothingTypes DEF TimedOut, Types, Caches, History
<1>8. ASSUME NEW r \in Requests, Forget(r) PROVE Types'
  BY <1>0, <1>8, NothingTypes DEF Forget, Types, Caches, NoResponse
<1>9. ASSUME NEW f \in Refreshes, StartRefresh(f) PROVE Types'
  BY <1>0, <1>9, NothingTypes DEF StartRefresh, Types, Caches, Callers
<1>10. ASSUME NEW f \in Refreshes, RefreshServed(f) PROVE Types'
  BY <1>0, <1>10, OverLemma DEF RefreshServed, Types, Callers
<1>11. ASSUME NEW f \in Refreshes, RefreshWithoutResults(f) PROVE Types'
  BY <1>0, <1>11, OverLemma DEF RefreshWithoutResults, Types, Caches, Callers
<1>12. ASSUME NEW c \in Calls, Serve(c) \/ ServeNot(c) PROVE Types'
  <2>1. call' \in [Calls -> [stage : Stages, found : [Ids -> Versions]]]
    <3>1. CASE Serve(c)
      <4>1. [stage |-> "served", found |-> Found(c)] \in [stage : Stages, found : [Ids -> Versions]]
        BY FoundLemma DEF Stages
      <4> QED BY <3>1, <4>1 DEF Serve, Types
    <3>2. CASE ServeNot(c)
      BY <3>2 DEF ServeNot, Types, Stages
    <3> QED BY <1>12, <3>1, <3>2
  <2> QED BY <1>12, <2>1 DEF Serve, ServeNot, Types, Caches, Callers, History
<1>13. ASSUME NEW i \in Ids, Change(i) PROVE Types'
  BY <1>13, CacheAssumption DEF Change, Types, Caches, Callers, Versions, States
<1>14. ASSUME NEW i \in Ids, Expire(i) PROVE Types'
  <2>1. /\ [cache EXCEPT ![i] = 0] \in [Ids -> Versions]
        /\ [owners EXCEPT ![i] = 0] \in [Ids -> Versions]
    BY NothingTypes DEF Types
  <2>2. cache' \in [Ids -> Versions] /\ owners' \in [Ids -> Versions]
    BY <1>14, <2>1 DEF Expire, Types
  <2> QED BY <1>14, <2>2 DEF Expire, Types, Callers, History
<1>15. CASE UNCHANGED vars
  BY <1>15 DEF Types, vars
<1> QED BY <1>1, <1>2, <1>3, <1>4, <1>5, <1>6, <1>7, <1>8, <1>9, <1>10, <1>11, <1>12,
           <1>13, <1>14, <1>15 DEF Next, Handle, HandleRefresh

----------------------------------------------------------------------------
\* Callers and what was missing

Inv == Types /\ CallerInv /\ MissingInv /\ AgeInv

\* A step that leaves a request's record, answer and call alone, and forgets of
\* no request that its item was missing, keeps what is known of it.
LEMMA CallerFrame ==
    ASSUME NEW s \in Requests, CallerOK(s), MissingOK(s),
           req'[s] = req[s], resp'[s] = resp[s], call'[s] = call[s],
           missing[s] => missing'[s], remote' = remote
    PROVE  (CallerOK(s) /\ MissingOK(s))'
  BY DEF CallerOK, MissingOK, UnderWay

\* A request with a call was received.
LEMMA CallerFacts ==
    ASSUME Inv, NEW r \in Requests
    PROVE  /\ r \in Calls /\ CallerOK(r) /\ MissingOK(r)
           /\ call[r].stage # "none" =>
                 req[r] # NoRequest /\ req[r].id \in Ids /\ req[r].op \in {"info", "owner"}
           /\ call[r] \in [stage : Stages, found : [Ids -> Versions]]
<1>1. r \in Calls /\ CallerOK(r) /\ MissingOK(r)
  BY DEF Inv, CallerInv, MissingInv, Calls
<1>2. call[r].stage # "none" => req[r] # NoRequest
  BY <1>1 DEF CallerOK, NoCall
<1> QED BY <1>1, <1>2, RequestLemma DEF Inv, Types

\* The answer of a request's call is dealt with, and answered if it was not too
\* late.
LEMMA AnswerStep ==
    ASSUME Inv, NEW r \in Requests,
           NEW status \in {"ok", "badRequest"}, NEW version \in Versions,
           NEW stage \in {"over", "rejected"}, NEW applied \in BOOLEAN,
           UnderWay(r), Answer(r, status, version), Over(r, stage, applied),
           UNCHANGED <<remote, req>>,
           status = "ok" <=> version # 0,
           status = "ok" => stage = "over",
           call[r].found[req[r].id] # 0 /\ stage = "over" =>
              status = "ok" /\ version = call[r].found[req[r].id],
           status = "badRequest" => missing[r] \/ stage = "rejected"
    PROVE  (CallerInv /\ MissingInv)'
<1>0. /\ r \in Calls /\ CallerOK(r) /\ MissingOK(r) /\ req[r] # NoRequest /\ Types
      /\ call[r].stage # "none"
  BY CallerFacts DEF UnderWay, Inv
<1>1. /\ resp'[r] = IF resp[r] = NoResponse
                    THEN [status |-> status, version |-> version] ELSE resp[r]
      /\ resp'[r] # NoResponse
      /\ \A s \in Requests \ {r} : resp'[s] = resp[s]
  BY <1>0, AnswerLemma
<1>2. /\ call'[r].stage = stage /\ call'[r].found = call[r].found
      /\ \A d \in Calls \ {r} : call'[d] = call[d]
      /\ missing' = missing
  BY <1>0, OverLemma
<1>3. resp[r] = NoResponse \/ resp[r].status = "timeout" \/ resp[r].status = "none"
  BY <1>0 DEF CallerOK
<1>4. resp[r].status = "none" => resp[r] = NoResponse
  <2>1. resp[r] \in [status : {"none", "ok", "null", "badRequest", "timeout"}, version : Versions]
    BY <1>0 DEF Types
  <2> QED BY <1>0, <2>1 DEF CallerOK, NoResponse
<1>5. CallerOK(r)' /\ MissingOK(r)'
  <2>1. \/ resp'[r] = [status |-> status, version |-> version]
        \/ resp'[r] = resp[r] /\ resp[r].status = "timeout"
    BY <1>1, <1>3, <1>4
  <2> QED BY <1>0, <1>1, <1>2, <2>1 DEF CallerOK, MissingOK, UnderWay
<1>6. ASSUME NEW s \in Requests \ {r} PROVE CallerOK(s)' /\ MissingOK(s)'
  BY <1>1, <1>2, CallerFacts, CallerFrame
<1> QED BY <1>5, <1>6 DEF Inv, CallerInv, MissingInv

LEMMA NextCaller == Inv /\ [Next]_vars => (CallerInv /\ MissingInv)'
<1> SUFFICES ASSUME Inv, [Next]_vars PROVE (CallerInv /\ MissingInv)'
  OBVIOUS
<1>0. /\ Types /\ Requests \subseteq Calls /\ Refreshes \subseteq Calls
      /\ \A f \in Refreshes : f \notin Requests
      /\ \A i \in Ids : remote[i].version = 0 => remote[i].state = "absent"
  BY CacheAssumption DEF Inv, Calls, MissingInv
<1>1. ASSUME NEW r \in Requests, Hit(r) PROVE (CallerInv /\ MissingInv)'
  <2>1. PICK op \in {"info", "owner"}, i \in Ids :
          /\ Cached(op, i) # 0
          /\ req' = [req EXCEPT ![r] = [op |-> op, id |-> i]]
          /\ Answer(r, "ok", Cached(op, i)) \/ Answer(r, "null", 0)
    BY <1>1 DEF Hit
  <2>2. Cached(op, i) \in Versions /\ 0 \in Versions
    BY <1>0, NothingTypes DEF Cached, Types
  <2>3. resp[r] = NoResponse /\ call[r] = NoCall /\ UNCHANGED <<remote, call, missing>>
    BY <1>1, CallerFacts DEF Hit, CallerOK, History
  <2>4. /\ resp'[r] \in {[status |-> "ok", version |-> Cached(op, i)],
                         [status |-> "null", version |-> 0]}
        /\ resp'[r] # NoResponse
        /\ \A s \in Requests \ {r} : resp'[s] = resp[s]
    BY <1>0, <2>1, <2>2, <2>3, AnswerLemma
  <2>5. /\ req'[r] = [op |-> op, id |-> i] /\ req'[r] # NoRequest
        /\ \A s \in Requests \ {r} : req'[s] = req[s]
    BY <1>0, <2>1 DEF Types, NoRequest
  <2>6. CallerOK(r)' /\ MissingOK(r)'
    BY <2>1, <2>3, <2>4, <2>5 DEF CallerOK, MissingOK, UnderWay, NoCall
  <2>7. ASSUME NEW s \in Requests \ {r} PROVE CallerOK(s)' /\ MissingOK(s)'
    BY <2>3, <2>4, <2>5, CallerFacts, CallerFrame
  <2> QED BY <1>0, <2>3, <2>6, <2>7 DEF CallerInv, MissingInv
<1>2. ASSUME NEW r \in Requests, Miss(r) PROVE (CallerInv /\ MissingInv)'
  <2>1. PICK op \in {"info", "owner"}, i \in Ids :
          /\ req' = [req EXCEPT ![r] = [op |-> op, id |-> i]]
          /\ missing' = [missing EXCEPT ![r] = remote[i].state = "absent"]
    BY <1>2 DEF Miss
  <2>2. resp[r] = NoResponse /\ UNCHANGED <<remote, resp>>
    BY <1>2, CallerFacts DEF Miss, CallerOK
  <2>3. /\ call'[r] = Sent /\ missing'[r] = (remote[i].state = "absent")
        /\ req'[r] = [op |-> op, id |-> i] /\ req'[r] # NoRequest
        /\ \A s \in Requests \ {r} :
              call'[s] = call[s] /\ missing'[s] = missing[s] /\ req'[s] = req[s]
    BY <1>0, <1>2, <2>1 DEF Miss, Types, NoRequest
  <2>4. CallerOK(r)' /\ MissingOK(r)'
    <3>1. /\ call'[r].stage = "sent" /\ resp'[r].status = "none" /\ resp'[r].version = 0
          /\ req'[r].id = i /\ req'[r] # NoRequest /\ remote' = remote
      BY <2>2, <2>3 DEF Sent, NoResponse
    <3>2. remote[i].state = "absent" => missing'[r]
      BY <2>3
    <3>3. CallerOK(r)'
      BY <3>1 DEF CallerOK, UnderWay
    <3>4. MissingOK(r)'
      BY <3>1, <3>2 DEF MissingOK
    <3> QED BY <3>3, <3>4
  <2>5. ASSUME NEW s \in Requests \ {r} PROVE CallerOK(s)' /\ MissingOK(s)'
    BY <2>2, <2>3, CallerFacts, CallerFrame
  <2> QED BY <1>0, <2>2, <2>4, <2>5 DEF CallerInv, MissingInv
<1>3. ASSUME NEW r \in Requests, InfoServed(r) PROVE (CallerInv /\ MissingInv)'
  <2> DEFINE i == req[r].id
             entry == IF call[r].found[i] = 0 THEN cache[i] ELSE call[r].found[i]
  <2>1. i \in Ids /\ UnderWay(r) /\ MissingOK(r) /\ call[r].stage = "served"
    BY <1>3, CallerFacts DEF InfoServed, UnderWay
  <2>2. entry \in Versions /\ 0 \in Versions
    BY <1>0, <2>1, NothingTypes DEF Types
  <2>3. /\ IF entry = 0 THEN Answer(r, "badRequest", 0) ELSE Answer(r, "ok", entry)
        /\ Over(r, "over", call[r].found[i] # 0)
        /\ UNCHANGED <<remote, req>>
    BY <1>3 DEF InfoServed
  <2>4. entry = 0 => call[r].found[i] = 0 /\ missing[r]
    BY <2>1 DEF MissingOK
  <2>5. call[r].found[i] # 0 => entry = call[r].found[i]
    OBVIOUS
  <2> HIDE DEF entry
  <2>6. CASE entry = 0
    BY <2>1, <2>2, <2>3, <2>4, <2>6, AnswerStep
  <2>7. CASE entry # 0
    BY <2>1, <2>2, <2>3, <2>5, <2>7, AnswerStep
  <2> QED BY <2>6, <2>7
<1>4. ASSUME NEW r \in Requests, InfoWithoutResults(r) PROVE (CallerInv /\ MissingInv)'
  <2>1. UnderWay(r) /\ 0 \in Versions /\ Answer(r, "badRequest", 0)
        /\ Over(r, "rejected", FALSE) /\ UNCHANGED <<remote, req>>
    BY <1>4, NothingTypes DEF InfoWithoutResults, UnderWay
  <2> QED BY <2>1, AnswerStep
<1>5. ASSUME NEW r \in Requests, OwnerServed(r) PROVE (CallerInv /\ MissingInv)'
  <2> DEFINE owner == call[r].found[req[r].id]
  <2>1. UnderWay(r) /\ owner \in Versions /\ owner # 0
    BY <1>5, CallerFacts DEF OwnerServed, UnderWay
  <2>2. Answer(r, "ok", owner) /\ Over(r, "over", FALSE) /\ UNCHANGED <<remote, req>>
    BY <1>5 DEF OwnerServed
  <2> QED BY <2>1, <2>2, AnswerStep
<1>6. ASSUME NEW c \in Calls, Over(c, "over", TRUE) \/ Over(c, "over", FALSE) \/ Over(c, "dropped", FALSE),
             c \in Requests => Over(c, "dropped", FALSE),
             UNCHANGED <<remote, req, resp>>, UnderWay(c)
      PROVE  (CallerInv /\ MissingInv)'
  <2>1. /\ missing' = missing /\ call'[c].found = call[c].found
        /\ \A d \in Calls \ {c} : call'[d] = call[d]
        /\ c \in Requests => call'[c].stage = "dropped"
    BY <1>0, <1>6, OverLemma
  <2>2. ASSUME NEW s \in Requests PROVE CallerOK(s)' /\ MissingOK(s)'
    <3>1. CASE s # c
      BY <1>0, <1>6, <2>1, <3>1, CallerFacts, CallerFrame
    <3>2. CASE s = c
      <4>1. /\ req[s] # NoRequest /\ CallerOK(s) /\ MissingOK(s)
            /\ resp[s].status \in {"none", "timeout"}
        BY <1>6, <3>2, CallerFacts DEF UnderWay, CallerOK
      <4> QED BY <1>6, <2>1, <3>2, <4>1 DEF CallerOK, MissingOK, UnderWay
    <3> QED BY <3>1, <3>2
  <2> QED BY <1>0, <1>6, <2>2 DEF CallerInv, MissingInv
<1>7. ASSUME NEW r \in Requests, Dropped(r) PROVE (CallerInv /\ MissingInv)'
  <2>1. UnderWay(r)
    BY <1>7 DEF Dropped, UnderWay
  <2> QED BY <1>0, <1>6, <1>7, <2>1 DEF Dropped, Callers
<1>8. ASSUME NEW f \in Refreshes, RefreshServed(f) \/ RefreshWithoutResults(f)
      PROVE  (CallerInv /\ MissingInv)'
  <2>1. UnderWay(f)
    BY <1>8 DEF RefreshServed, RefreshWithoutResults, UnderWay
  <2> QED BY <1>0, <1>6, <1>8, <2>1 DEF RefreshServed, RefreshWithoutResults, Callers
<1>9. ASSUME NEW f \in Refreshes, StartRefresh(f) PROVE (CallerInv /\ MissingInv)'
  <2>1. \A s \in Requests : call'[s] = call[s]
    BY <1>0, <1>9 DEF StartRefresh, Types
  <2>2. UNCHANGED <<remote, req, resp, missing>>
    BY <1>9 DEF StartRefresh, Callers
  <2> QED BY <1>0, <2>1, <2>2, CallerFacts, CallerFrame DEF CallerInv, MissingInv
<1>10. ASSUME NEW r \in Requests, TimedOut(r) PROVE (CallerInv /\ MissingInv)'
  <2>1. /\ resp[r] = NoResponse /\ req[r] # NoRequest
        /\ UNCHANGED <<remote, req, call, missing>>
    BY <1>10 DEF TimedOut, History
  <2>2. /\ resp'[r] = [status |-> "timeout", version |-> 0] /\ resp'[r] # NoResponse
        /\ \A s \in Requests \ {r} : resp'[s] = resp[s]
    BY <1>0, <1>10, <2>1, AnswerLemma, NothingTypes DEF TimedOut
  <2>3. CallerOK(r)' /\ MissingOK(r)'
    BY <2>1, <2>2, CallerFacts DEF CallerOK, MissingOK, UnderWay
  <2>4. ASSUME NEW s \in Requests \ {r} PROVE CallerOK(s)' /\ MissingOK(s)'
    BY <2>1, <2>2, CallerFacts, CallerFrame
  <2> QED BY <1>0, <2>1, <2>3, <2>4 DEF CallerInv, MissingInv
<1>11. ASSUME NEW r \in Requests, Forget(r) PROVE (CallerInv /\ MissingInv)'
  <2>1. /\ req'[r] = NoRequest /\ resp'[r] = NoResponse /\ call'[r] = NoCall
        /\ \A s \in Requests \ {r} :
              /\ req'[s] = req[s] /\ resp'[s] = resp[s] /\ call'[s] = call[s]
              /\ missing'[s] = missing[s]
        /\ remote' = remote
    BY <1>0, <1>11 DEF Forget, Types
  <2>2. CallerOK(r)' /\ MissingOK(r)'
    BY <2>1 DEF CallerOK, MissingOK, UnderWay, NoCall, NoResponse
  <2>3. ASSUME NEW s \in Requests \ {r} PROVE CallerOK(s)' /\ MissingOK(s)'
    BY <2>1, CallerFacts, CallerFrame
  <2> QED BY <1>0, <2>1, <2>2, <2>3 DEF CallerInv, MissingInv
<1>12. ASSUME NEW c \in Calls, Serve(c) \/ ServeNot(c) PROVE (CallerInv /\ MissingInv)'
  <2>1. /\ call[c].stage = "sent" /\ UNCHANGED <<remote, req, resp, missing>>
        /\ \A d \in Calls \ {c} : call'[d] = call[d]
        /\ \/ call'[c].stage = "served" /\ call'[c].found = Found(c)
           \/ call'[c].stage \in {"noResults", "failed"}
    BY <1>0, <1>12 DEF Serve, ServeNot, Types, Callers, History
  <2>2. ASSUME NEW s \in Requests PROVE CallerOK(s)' /\ MissingOK(s)'
    <3>1. CASE s # c
      BY <1>0, <2>1, <3>1, CallerFacts, CallerFrame
    <3>2. CASE s = c
      <4>1. /\ req[s] # NoRequest /\ req[s].id \in Ids /\ CallerOK(s) /\ MissingOK(s)
        BY <2>1, <3>2, CallerFacts
      <4>2. Found(c)[req[s].id] = 0 => missing[s]
        BY <1>0, <2>1, <3>2, <4>1 DEF Found, MissingOK
      <4>3. resp[s].status \in {"none", "timeout"}
        BY <2>1, <3>2, <4>1 DEF CallerOK, UnderWay
      <4> QED BY <2>1, <3>2, <4>1, <4>2, <4>3 DEF CallerOK, MissingOK, UnderWay
    <3> QED BY <3>1, <3>2
  <2> QED BY <1>0, <2>1, <2>2 DEF CallerInv, MissingInv
<1>13. ASSUME NEW i \in Ids, Change(i) PROVE (CallerInv /\ MissingInv)'
  <2>1. PICK st \in States :
          /\ remote' = [remote EXCEPT ![i] = [version |-> @.version + 1, state |-> st]]
          /\ missing' = [s \in Requests |-> missing[s] \/ (st = "absent" /\ req[s].id = i)]
    BY <1>13 DEF Change
  <2>2. /\ remote'[i].version # 0 /\ remote'[i].state = st
        /\ \A j \in Ids \ {i} : remote'[j] = remote[j]
    BY <1>0, <2>1 DEF Types, Versions
  <2>3. UNCHANGED <<req, resp, call>>
    BY <1>13 DEF Change, Callers
  <2>4. ASSUME NEW s \in Requests PROVE CallerOK(s)' /\ MissingOK(s)'
    <3>1. CallerOK(s) /\ MissingOK(s) /\ (call[s].stage # "none" => req[s].id \in Ids)
      BY CallerFacts
    <3>2. missing[s] => missing'[s]
      BY <2>1
    <3>3. call[s].stage = "sent" /\ remote'[req[s].id].state = "absent" => missing'[s]
      BY <2>1, <2>2, <3>1 DEF MissingOK
    <3> QED BY <2>3, <3>1, <3>2, <3>3 DEF CallerOK, MissingOK, UnderWay
  <2> QED BY <1>0, <2>2, <2>4 DEF CallerInv, MissingInv
<1>14. ASSUME UNCHANGED <<remote, req, resp, call, missing>> PROVE (CallerInv /\ MissingInv)'
  BY <1>0, <1>14, CallerFacts, CallerFrame DEF CallerInv, MissingInv
<1>15. ASSUME NEW i \in Ids, Expire(i) PROVE (CallerInv /\ MissingInv)'
  BY <1>14, <1>15 DEF Expire, Callers, History
<1> QED BY <1>1, <1>2, <1>3, <1>4, <1>5, <1>7, <1>8, <1>9, <1>10, <1>11, <1>12,
           <1>13, <1>14, <1>15 DEF Next, Handle, HandleRefresh, vars

----------------------------------------------------------------------------
\* The age of what is cached

\* Versions are numbers.
LEMMA VersionsAreNumbers ==
    ASSUME Types, NEW i \in Ids
    PROVE  /\ remote[i].version \in Nat /\ cache[i] \in Nat
           /\ \A c \in Calls : call[c].found[i] \in Nat
  BY CacheAssumption DEF Types, Versions

\* A step that only takes entries out of the cache, and brings no answer of the
\* catalogue server, keeps AgeInv.
LEMMA AgeFrame ==
    ASSUME Types, AgeInv, remote' = remote,
           \A i \in Ids : cache'[i] \in {0, cache[i]},
           \A c \in Calls : call'[c].stage = "served" =>
              call'[c] = call[c] /\ (overtaken[c] => overtaken'[c])
    PROVE  AgeInv'
<1>1. ASSUME NEW i \in Ids PROVE cache'[i] <= remote'[i].version
  BY <1>1, VersionsAreNumbers DEF AgeInv
<1>2. ASSUME NEW c \in Calls, NEW i \in Ids, call'[c].stage = "served"
      PROVE  /\ call'[c].found[i] <= remote'[i].version
             /\ call'[c].found[i] # 0 /\ ~overtaken'[c] => cache'[i] <= call'[c].found[i]
  <2>1. /\ call'[c] = call[c] /\ call[c].stage = "served"
        /\ ~overtaken'[c] => ~overtaken[c]
    BY <1>2
  <2>2. /\ call[c].found[i] <= remote[i].version
        /\ call[c].found[i] # 0 /\ ~overtaken[c] => cache[i] <= call[c].found[i]
    BY <2>1 DEF AgeInv
  <2>3. cache'[i] \in {0, cache[i]} /\ cache[i] \in Nat /\ call[c].found[i] \in Nat
    BY VersionsAreNumbers
  <2> QED BY <2>1, <2>2, <2>3
<1> QED BY <1>1, <1>2 DEF AgeInv

\* An answer that is put into the cache overtakes every other one.
LEMMA AgePut ==
    ASSUME Types, AgeInv, NEW c \in Calls, call[c].stage = "served",
           Over(c, "over", TRUE), remote' = remote,
           \A i \in Ids : cache'[i] \in {cache[i], call[c].found[i]}
    PROVE  AgeInv'
<1>1. /\ call'[c].stage = "over" /\ \A d \in Calls \ {c} : call'[d] = call[d]
      /\ \A d \in Calls \ {c} : UnderWay(d) => overtaken'[d]
  BY OverLemma
<1>2. ASSUME NEW i \in Ids PROVE cache'[i] <= remote'[i].version
  BY <1>2 DEF AgeInv
<1>3. ASSUME NEW d \in Calls, NEW i \in Ids, call'[d].stage = "served"
      PROVE  /\ call'[d].found[i] <= remote'[i].version
             /\ call'[d].found[i] # 0 /\ ~overtaken'[d] => cache'[i] <= call'[d].found[i]
  <2>1. d # c
    BY <1>1, <1>3
  <2>2. call'[d] = call[d] /\ overtaken'[d]
    BY <1>1, <1>3, <2>1 DEF UnderWay
  <2> QED BY <1>3, <2>2 DEF AgeInv
<1> QED BY <1>2, <1>3 DEF AgeInv

LEMMA NextAge == Inv /\ [Next]_vars => AgeInv'
<1> SUFFICES ASSUME Inv, [Next]_vars PROVE AgeInv'
  OBVIOUS
<1>0. Types /\ AgeInv /\ Requests \subseteq Calls /\ Refreshes \subseteq Calls
  BY DEF Inv, Calls
<1>1. ASSUME NEW r \in Requests, Hit(r) PROVE AgeInv'
  <2>1. \A i \in Ids : cache'[i] \in {0, cache[i]}
    BY <1>0, <1>1 DEF Hit, Types, Caches
  <2> QED BY <1>0, <1>1, <2>1, AgeFrame DEF Hit, History
<1>2. ASSUME NEW r \in Requests, Miss(r) PROVE AgeInv'
  <2>1. \A c \in Calls : call'[c].stage = "served" => call'[c] = call[c]
    BY <1>0, <1>2 DEF Miss, Types, Sent
  <2> QED BY <1>0, <1>2, <2>1, AgeFrame DEF Miss, Caches
<1>3. ASSUME NEW c \in Calls, NEW stage \in {"over", "rejected", "dropped"},
             Over(c, stage, FALSE), UNCHANGED <<remote, cache>>
      PROVE  AgeInv'
  <2>1. \A d \in Calls : call'[d].stage = "served" =>
           call'[d] = call[d] /\ (overtaken[d] => overtaken'[d])
    BY <1>0, <1>3, OverLemma
  <2> QED BY <1>0, <1>3, <2>1, AgeFrame
<1>4. ASSUME NEW r \in Requests, InfoServed(r) PROVE AgeInv'
  <2> DEFINE i == req[r].id
  <2>1. /\ i \in Ids /\ call[r].stage = "served" /\ Over(r, "over", call[r].found[i] # 0)
        /\ remote' = remote
        /\ cache' = [cache EXCEPT ![i] = IF call[r].found[i] = 0 THEN cache[i]
                                         ELSE call[r].found[i]]
    BY <1>4, <1>0, RequestLemma DEF InfoServed
  <2>2. CASE call[r].found[i] = 0
    <3>1. cache' = cache
      BY <1>0, <2>1, <2>2 DEF Types
    <3>2. Over(r, "over", FALSE)
      BY <2>1, <2>2 DEF Over
    <3> QED BY <1>0, <1>3, <2>1, <3>1, <3>2
  <2>3. CASE call[r].found[i] # 0
    <3>1. \A j \in Ids : cache'[j] \in {cache[j], call[r].found[j]}
      BY <1>0, <2>1, <2>3 DEF Types
    <3>2. Over(r, "over", TRUE)
      BY <2>1, <2>3 DEF Over
    <3> QED BY <1>0, <2>1, <3>1, <3>2, AgePut
  <2> QED BY <2>2, <2>3
<1>5. ASSUME NEW r \in Requests,
             InfoWithoutResults(r) \/ OwnerServed(r) \/ Dropped(r) PROVE AgeInv'
  BY <1>0, <1>3, <1>5 DEF InfoWithoutResults, OwnerServed, Dropped, Caches
<1>6. ASSUME NEW r \in Requests, TimedOut(r) PROVE AgeInv'
  BY <1>0, <1>6, AgeFrame DEF TimedOut, Caches, History
<1>7. ASSUME NEW r \in Requests, Forget(r) PROVE AgeInv'
  <2>1. \A c \in Calls : call'[c].stage = "served" =>
           call'[c] = call[c] /\ overtaken'[c] = overtaken[c]
    BY <1>0, <1>7 DEF Forget, Types, NoCall
  <2> QED BY <1>0, <1>7, <2>1, AgeFrame DEF Forget, Caches
<1>8. ASSUME NEW f \in Refreshes, StartRefresh(f) PROVE AgeInv'
  <2>1. \A c \in Calls : call'[c].stage = "served" =>
           call'[c] = call[c] /\ overtaken'[c] = overtaken[c]
    BY <1>0, <1>8 DEF StartRefresh, Types, Sent
  <2> QED BY <1>0, <1>8, <2>1, AgeFrame DEF StartRefresh, Caches
<1>9. ASSUME NEW f \in Refreshes, RefreshServed(f) PROVE AgeInv'
  BY <1>0, <1>9, AgePut DEF RefreshServed
<1>10. ASSUME NEW f \in Refreshes, RefreshWithoutResults(f) PROVE AgeInv'
  BY <1>0, <1>3, <1>10 DEF RefreshWithoutResults, Caches
<1>11. ASSUME NEW c \in Calls, Serve(c) PROVE AgeInv'
  <2>1. /\ call'[c].stage = "served" /\ call'[c].found = Found(c)
        /\ \A d \in Calls \ {c} : call'[d] = call[d]
        /\ UNCHANGED <<remote, cache, overtaken>>
    BY <1>0, <1>11 DEF Serve, Types, Caches, History
  <2>2. ASSUME NEW d \in Calls, NEW i \in Ids, call'[d].stage = "served"
        PROVE  /\ call'[d].found[i] <= remote'[i].version
               /\ call'[d].found[i] # 0 /\ ~overtaken'[d] => cache'[i] <= call'[d].found[i]
    <3>1. CASE d # c
      BY <1>0, <2>1, <2>2, <3>1 DEF AgeInv
    <3>2. CASE d = c
      <4>1. Found(c)[i] \in {0, remote[i].version} /\ cache[i] <= remote[i].version
        BY <1>0, FoundLemma DEF AgeInv
      <4>2. remote[i].version \in Nat
        BY <1>0, VersionsAreNumbers
      <4> QED BY <2>1, <3>2, <4>1, <4>2
    <3> QED BY <3>1, <3>2
  <2> QED BY <1>0, <2>1, <2>2 DEF AgeInv
<1>12. ASSUME NEW c \in Calls, ServeNot(c) PROVE AgeInv'
  <2>1. \A d \in Calls : call'[d].stage = "served" => call'[d] = call[d]
    BY <1>0, <1>12 DEF ServeNot, Types
  <2> QED BY <1>0, <1>12, <2>1, AgeFrame DEF ServeNot, Caches, History
<1>13. ASSUME NEW i \in Ids, Change(i) PROVE AgeInv'
  <2>1. UNCHANGED <<cache, call, overtaken>>
    BY <1>13 DEF Change, Caches
  <2>2. ASSUME NEW j \in Ids
        PROVE  remote[j].version <= remote'[j].version /\ remote'[j].version \in Nat
    <3>1. remote[j].version \in Nat
      BY <1>0, VersionsAreNumbers
    <3>2. remote'[j].version \in {remote[j].version, remote[j].version + 1}
      BY <1>0, <1>13 DEF Change, Types
    <3> QED BY <3>1, <3>2
  <2>3. ASSUME NEW j \in Ids PROVE cache'[j] <= remote'[j].version
    BY <1>0, <2>1, <2>2, VersionsAreNumbers DEF AgeInv
  <2>4. ASSUME NEW c \in Calls, NEW j \in Ids, call'[c].stage = "served"
        PROVE  /\ call'[c].found[j] <= remote'[j].version
               /\ call'[c].found[j] # 0 /\ ~overtaken'[c] => cache'[j] <= call'[c].found[j]
    <3>1. /\ call[c].found[j] <= remote[j].version
          /\ call[c].found[j] # 0 /\ ~overtaken[c] => cache[j] <= call[c].found[j]
      BY <1>0, <2>1, <2>4 DEF AgeInv
    <3>2. call[c].found[j] \in Nat /\ remote[j].version \in Nat
      BY <1>0, VersionsAreNumbers
    <3> QED BY <2>1, <2>2, <3>1, <3>2
  <2> QED BY <2>3, <2>4 DEF AgeInv
<1>14. ASSUME NEW i \in Ids, Expire(i) PROVE AgeInv'
  <2>1. \A j \in Ids : cache'[j] \in {0, cache[j]}
    BY <1>0, <1>14 DEF Expire, Types
  <2> QED BY <1>0, <1>14, <2>1, AgeFrame DEF Expire, History
<1>15. CASE UNCHANGED vars
  BY <1>0, <1>15, AgeFrame DEF vars
<1> QED BY <1>1, <1>2, <1>4, <1>5, <1>6, <1>7, <1>8, <1>9, <1>10, <1>11, <1>12,
           <1>13, <1>14, <1>15 DEF Next, Handle, HandleRefresh

----------------------------------------------------------------------------
\* The theorems

LEMMA InvHolds == Spec => []Inv
<1>1. Init => Inv
  BY InitCache DEF Inv
<1>2. Inv /\ [Next]_vars => Inv'
  BY NextTypes, NextCaller, NextAge DEF Inv
<1> QED BY <1>1, <1>2, PTL DEF Spec

\* Every variable keeps its type, and a call of a request that is under way is
\* the call of a request that was received and not answered, unless with the
\* time-out of the event bus (CatalogueServiceImpl, CatalogueClientImpl).
THEOREM TypeCorrect == Spec => []TypeOK
<1>1. Inv => TypeOK
  <2> SUFFICES ASSUME Inv PROVE TypeOK
    OBVIOUS
  <2>1. ASSUME NEW r \in Requests
        PROVE  /\ resp[r].status = "ok" <=> resp[r].version # 0
               /\ UnderWay(r) => req[r] # NoRequest /\ resp[r].status \in {"none", "timeout"}
    BY CallerFacts DEF CallerOK, UnderWay
  <2> QED BY <2>1 DEF Inv, Types, TypeOK
<1> QED BY <1>1, InvHolds, PTL

\* A caller whose request was sent on gets the item found for it, not one that a
\* refresh or another request put meanwhile (fetchCatalogueInfo looks the item up
\* again after idCatalogueInfo has put it, in the same step of the event loop).
THEOREM OwnAnswers == Spec => []OwnAnswerWins
<1>1. Inv => OwnAnswerWins
  BY DEF Inv, CallerInv, CallerOK, OwnAnswerWins
<1> QED BY <1>1, InvHolds, PTL

\* An id is rejected as not found only if its item was missing at some time since
\* the request was received, or the reply had no "results" (fetchCatalogueInfo).
THEOREM NotFoundIsTrue == Spec => []NotFoundMeansMissing
<1>1. Inv => NotFoundMeansMissing
  BY DEF Inv, MissingInv, MissingOK, NotFoundMeansMissing
<1> QED BY <1>1, InvHolds, PTL

\* Only the answers of calls to the catalogue server put older versions into the
\* cache (idCatalogueInfo, refreshCatalogue), and only when another answer was
\* applied while they were under way.
THEOREM NothingElseGoesBack == Spec => OlderOnlyIfOvertaken
<1> DEFINE Back(i) == 0 < cache'[i] /\ cache'[i] < cache[i]
           ByOvertaken == \E c \in Calls :
              call[c].stage = "served" /\ call'[c].stage = "over" /\ overtaken[c]
<1>1. Inv /\ [Next]_vars => [\A i \in Ids : Back(i) => ByOvertaken]_vars
  <2> SUFFICES ASSUME Inv, Next, NEW i \in Ids, Back(i) PROVE ByOvertaken
    BY DEF vars
  <2>0. Types /\ AgeInv /\ Requests \subseteq Calls /\ Refreshes \subseteq Calls
    BY DEF Inv, Calls
  <2>1. cache'[i] # cache[i] /\ cache'[i] # 0
    BY <2>0, VersionsAreNumbers
  <2>2. ASSUME NEW c \in Calls, call[c].stage = "served", call'[c].stage = "over",
               cache'[i] = call[c].found[i]
        PROVE  ByOvertaken
    <3>1. call[c].found[i] # 0 /\ ~(cache[i] <= call[c].found[i])
      BY <2>0, <2>1, <2>2, VersionsAreNumbers
    <3>2. overtaken[c]
      BY <2>0, <2>2, <3>1 DEF AgeInv
    <3> QED BY <2>2, <3>2
  <2> HIDE DEF ByOvertaken
  <2>3. ASSUME NEW r \in Requests, InfoServed(r) PROVE ByOvertaken
    <3>1. /\ req[r].id \in Ids /\ call[r].stage = "served"
          /\ cache' = [cache EXCEPT ![req[r].id] =
                         IF call[r].found[req[r].id] = 0 THEN cache[req[r].id]
                         ELSE call[r].found[req[r].id]]
      BY <2>0, <2>3, RequestLemma DEF InfoServed
    <3>2. call'[r].stage = "over"
      BY <2>0, <2>3, OverLemma DEF InfoServed
    <3>3. cache'[i] = call[r].found[i]
      BY <2>0, <2>1, <3>1 DEF Types
    <3> QED BY <2>0, <2>2, <3>1, <3>2, <3>3
  <2>4. ASSUME NEW f \in Refreshes, RefreshServed(f) PROVE ByOvertaken
    <3>1. call[f].stage = "served" /\ cache'[i] = call[f].found[i]
      BY <2>4 DEF RefreshServed
    <3>2. call'[f].stage = "over"
      BY <2>0, <2>4, OverLemma DEF RefreshServed
    <3> QED BY <2>0, <2>2, <3>1, <3>2
  <2>5. ASSUME NEW r \in Requests, Hit(r) PROVE cache'[i] \in {0, cache[i]}
    BY <2>0, <2>5 DEF Hit, Types, Caches
  <2>6. ASSUME NEW j \in Ids, Expire(j) PROVE cache'[i] \in {0, cache[i]}
    BY <2>0, <2>6 DEF Expire, Types
  <2>7. ASSUME NEW r \in Requests,
               Miss(r) \/ InfoWithoutResults(r) \/ OwnerServed(r) \/ Dropped(r)
               \/ TimedOut(r) \/ Forget(r)
        PROVE  cache'[i] = cache[i]
    BY <2>7 DEF Miss, InfoWithoutResults, OwnerServed, Dropped, TimedOut, Forget, Caches
  <2>8. ASSUME NEW f \in Refreshes, StartRefresh(f) \/ RefreshWithoutResults(f)
        PROVE  cache'[i] = cache[i]
    BY <2>8 DEF StartRefresh, RefreshWithoutResults, Caches
  <2>9. ASSUME NEW c \in Calls, Serve(c) \/ ServeNot(c) PROVE cache'[i] = cache[i]
    BY <2>9 DEF Serve, ServeNot, Caches
  <2>10. ASSUME NEW j \in Ids, Change(j) PROVE cache'[i] = cache[i]
    BY <2>10 DEF Change, Caches
  <2> QED BY <2>1, <2>3, <2>4, <2>5, <2>6, <2>7, <2>8, <2>9, <2>10
          DEF Next, Handle, HandleRefresh
<1> QED BY <1>1, InvHolds, PTL DEF Spec, OlderOnlyIfOvertaken
=============================================================================
