--------------------------- MODULE CatalogueCache ---------------------------
(***************************************************************************)
(* The catalogue service: two caches in front of another catalogue server, *)
(* of items (filled by id on a miss, and wholly by a refresh at the start  *)
(* and every hour) and of the owners of providers.  Its handlers run on    *)
(* the event loop of CatalogueVerticle, each without interruption, but any *)
(* number of calls to the other server can be under way at once and their  *)
(* answers arrive in any order (CatalogueServiceImpl, CatalogueClientImpl).*)
(*                                                                         *)
(* The other server's items are known by the number of their changes: an   *)
(* item or an owner is the version that was read, and 0 is none.           *)
(***************************************************************************)
EXTENDS Naturals

CONSTANTS
    Requests,   \* bound: requests over the event bus at once
    Refreshes,  \* bound: calls of refreshCatalogue under way at once
    Ids,        \* item ids
    MaxVersion, \* bound: changes of an item
    NoId        \* no id

ASSUME CacheAssumption ==
    /\ MaxVersion \in Nat \ {0}
    /\ Requests \cap Refreshes = {}
    /\ NoId \notin Ids

VARIABLES
    remote,     \* the items of the catalogue server
    cache,      \* catalogueCache
    owners,     \* providerOwnerCache
    req,        \* the requests received
    resp,       \* what their callers were answered
    call,       \* the call to the catalogue server of a request or a refresh
    overtaken,  \* history: an answer was applied since this call was sent
    missing     \* history: the catalogue server did not have or show the
                \* item at some time since the request was received

vars == <<remote, cache, owners, req, resp, call, overtaken, missing>>
Caches == <<cache, owners>>
Callers == <<req, resp>>
History == <<overtaken, missing>>

Calls == Requests \cup Refreshes
Versions == 0 .. MaxVersion
States == {"active", "inactive", "absent"}

Nothing == [i \in Ids |-> 0]
NoRequest == [op |-> "none", id |-> NoId]
NoResponse == [status |-> "none", version |-> 0]
NoCall == [stage |-> "none", found |-> Nothing]
Sent == [stage |-> "sent", found |-> Nothing]

----------------------------------------------------------------------------
\* Helpers

\* The cache that serves a request.
Cached(op, i) == IF op = "info" THEN cache[i] ELSE owners[i]

\* What the catalogue server finds for a call: the item asked for, or all
\* active ones.
Found(c) ==
    [i \in Ids |->
        IF (IF c \in Refreshes THEN remote[i].state = "active"
            ELSE i = req[c].id /\ remote[i].state # "absent")
        THEN remote[i].version ELSE 0]

\* The promise of r is completed; after the event bus has given up on it the
\* answer reaches nobody.
Answer(r, status, version) ==
    resp' = IF resp[r] # NoResponse THEN resp
            ELSE [resp EXCEPT ![r] = [status |-> status, version |-> version]]

UnderWay(c) == call[c].stage \in {"sent", "served", "noResults", "failed"}

\* The answer of call c is dealt with; calls still under way are overtaken if
\* it changed the cache.
Over(c, stage, applied) ==
    /\ call' = [call EXCEPT ![c].stage = stage]
    /\ overtaken' = [d \in Calls |->
                        overtaken[d] \/ (applied /\ d # c /\ UnderWay(d))]
    /\ UNCHANGED missing

----------------------------------------------------------------------------
\* CatalogueServiceImpl

\* fetchCatalogueInfo and getProviderOwnerId, when the id is cached.  It is
\* looked up twice: it can expire in between, and the caller is given null.
Hit(r) ==
    /\ req[r] = NoRequest
    /\ \E op \in {"info", "owner"}, i \in Ids :
          /\ Cached(op, i) # 0
          /\ req' = [req EXCEPT ![r] = [op |-> op, id |-> i]]
          /\ \/ Answer(r, "ok", Cached(op, i)) /\ UNCHANGED Caches
             \/ /\ Answer(r, "null", 0)
                /\ IF op = "info" THEN cache' = [cache EXCEPT ![i] = 0] /\ UNCHANGED owners
                   ELSE owners' = [owners EXCEPT ![i] = 0] /\ UNCHANGED cache
    /\ UNCHANGED <<remote, call, History>>

\* When it is not: the catalogue server is asked.
Miss(r) ==
    /\ req[r] = NoRequest
    /\ \E op \in {"info", "owner"}, i \in Ids :
          /\ Cached(op, i) = 0
          /\ req' = [req EXCEPT ![r] = [op |-> op, id |-> i]]
          /\ missing' = [missing EXCEPT ![r] = remote[i].state = "absent"]
    /\ call' = [call EXCEPT ![r] = Sent]
    /\ UNCHANGED <<remote, Caches, resp, overtaken>>

\* Mutants of InfoServed: an entry that is there already is left alone; the
\* entry is looked up before it is put.
InfoServed_PutIfAbsent(r) ==
    /\ call[r].stage = "served" /\ req[r].op = "info"
    /\ LET i == req[r].id
           entry == IF cache[i] = 0 THEN call[r].found[i] ELSE cache[i]
       IN /\ cache' = [cache EXCEPT ![i] = entry]
          /\ IF entry = 0 THEN Answer(r, "badRequest", 0) ELSE Answer(r, "ok", entry)
          /\ Over(r, "over", call[r].found[i] # 0)
    /\ UNCHANGED <<remote, owners, req>>

InfoServed_TestFirst(r) ==
    /\ call[r].stage = "served" /\ req[r].op = "info"
    /\ LET i == req[r].id
           entry == IF call[r].found[i] = 0 THEN cache[i] ELSE call[r].found[i]
       IN /\ cache' = [cache EXCEPT ![i] = entry]
          /\ IF cache[i] = 0 THEN Answer(r, "badRequest", 0) ELSE Answer(r, "ok", entry)
          /\ Over(r, "over", call[r].found[i] # 0)
    /\ UNCHANGED <<remote, owners, req>>

\* idCatalogueInfo puts the item found, if any; fetchCatalogueInfo then looks
\* in the cache once more.
InfoServed(r) ==
    /\ call[r].stage = "served" /\ req[r].op = "info"
    /\ LET i == req[r].id
           entry == IF call[r].found[i] = 0 THEN cache[i] ELSE call[r].found[i]
       IN /\ cache' = [cache EXCEPT ![i] = entry]
          /\ IF entry = 0 THEN Answer(r, "badRequest", 0) ELSE Answer(r, "ok", entry)
          /\ Over(r, "over", call[r].found[i] # 0)
    /\ UNCHANGED <<remote, owners, req>>

\* A JSON reply without "results", whatever its status, means not found.
InfoWithoutResults(r) ==
    /\ call[r].stage = "noResults" /\ req[r].op = "info"
    /\ Answer(r, "badRequest", 0)
    /\ Over(r, "rejected", FALSE)
    /\ UNCHANGED <<remote, Caches, req>>

\* Mutant: a provider without an owner is answered like any other.
OwnerServed_None(r) ==
    /\ call[r].stage = "served" /\ req[r].op = "owner"
    /\ owners' = [owners EXCEPT ![req[r].id] = call[r].found[req[r].id]]
    /\ Answer(r, "ok", call[r].found[req[r].id])
    /\ Over(r, "over", FALSE)
    /\ UNCHANGED <<remote, cache, req>>

\* The owner found is put and answered.
OwnerServed(r) ==
    /\ call[r].stage = "served" /\ req[r].op = "owner"
    /\ call[r].found[req[r].id] # 0
    /\ owners' = [owners EXCEPT ![req[r].id] = call[r].found[req[r].id]]
    /\ Answer(r, "ok", call[r].found[req[r].id])
    /\ Over(r, "over", FALSE)
    /\ UNCHANGED <<remote, cache, req>>

\* No owner, or an owner that is null, or a reply without "results": the
\* promise is not completed, or the handler throws before it is.  So does the
\* handler of any call that failed: it asks the missing response its status.
Dropped(r) ==
    /\ \/ req[r].op = "owner" /\ call[r].stage \in {"served", "noResults"}
       \/ call[r].stage = "failed"
    /\ Over(r, "dropped", FALSE)
    /\ UNCHANGED <<remote, Caches, Callers>>

\* Mutant: a refresh joins one that is under way already.
StartRefresh_Joins(f) ==
    /\ ~UnderWay(f)
    /\ call' = [call EXCEPT ![f] =
                  IF \E g \in Refreshes : UnderWay(g)
                  THEN call[CHOOSE g \in Refreshes : UnderWay(g)] ELSE Sent]
    /\ overtaken' = [overtaken EXCEPT ![f] = FALSE]
    /\ UNCHANGED <<remote, Caches, Callers, missing>>

\* The request is over and forgotten; another one may come.
Forget(r) ==
    /\ resp[r] # NoResponse /\ ~UnderWay(r)
    /\ req' = [req EXCEPT ![r] = NoRequest]
    /\ resp' = [resp EXCEPT ![r] = NoResponse]
    /\ call' = [call EXCEPT ![r] = NoCall]
    /\ overtaken' = [overtaken EXCEPT ![r] = FALSE]
    /\ missing' = [missing EXCEPT ![r] = FALSE]
    /\ UNCHANGED <<remote, Caches>>

\* refreshCatalogue: at the start and every hour, even if the last one has not
\* been answered.
StartRefresh(f) ==
    /\ ~UnderWay(f)
    /\ call' = [call EXCEPT ![f] = Sent]
    /\ overtaken' = [overtaken EXCEPT ![f] = FALSE]
    /\ UNCHANGED <<remote, Caches, Callers, missing>>

\* Mutant: the entries that are not in the answer stay.
RefreshServed_NoInvalidate(f) ==
    /\ call[f].stage = "served"
    /\ cache' = [i \in Ids |-> IF call[f].found[i] = 0 THEN cache[i] ELSE call[f].found[i]]
    /\ Over(f, "over", TRUE)
    /\ UNCHANGED <<remote, owners, Callers>>

\* Its answer replaces the whole cache.
RefreshServed(f) ==
    /\ call[f].stage = "served"
    /\ cache' = call[f].found
    /\ Over(f, "over", TRUE)
    /\ UNCHANGED <<remote, owners, Callers>>

\* No results, or a failure, which is logged: the cache stays as it is.
RefreshWithoutResults(f) ==
    /\ call[f].stage \in {"noResults", "failed"}
    /\ Over(f, "over", FALSE)
    /\ UNCHANGED <<remote, Caches, Callers>>

\* Entries expire a day after they were written, or make room for others.
Expire(i) ==
    /\ \/ cache[i] # 0 /\ cache' = [cache EXCEPT ![i] = 0] /\ UNCHANGED owners
       \/ owners[i] # 0 /\ owners' = [owners EXCEPT ![i] = 0] /\ UNCHANGED cache
    /\ UNCHANGED <<remote, Callers, call, History>>

----------------------------------------------------------------------------
\* The catalogue server, and the event bus of the callers

Serve(c) ==
    /\ call[c].stage = "sent"
    /\ call' = [call EXCEPT ![c] = [stage |-> "served", found |-> Found(c)]]
    /\ UNCHANGED <<remote, Caches, Callers, History>>

\* An error in JSON; or no reply, or one that is not JSON.
ServeNot(c) ==
    /\ call[c].stage = "sent"
    /\ \E s \in {"noResults", "failed"} : call' = [call EXCEPT ![c].stage = s]
    /\ UNCHANGED <<remote, Caches, Callers, History>>

Change(i) ==
    /\ remote[i].version < MaxVersion
    /\ \E s \in States :
          /\ remote' = [remote EXCEPT ![i] = [version |-> @.version + 1, state |-> s]]
          /\ missing' = [r \in Requests |->
                            missing[r] \/ (s = "absent" /\ req[r].id = i)]
    /\ UNCHANGED <<Caches, Callers, call, overtaken>>

\* The caller waits for 30 s.
TimedOut(r) ==
    /\ req[r] # NoRequest /\ resp[r] = NoResponse
    /\ Answer(r, "timeout", 0)
    /\ UNCHANGED <<remote, Caches, req, call, History>>

----------------------------------------------------------------------------
Init ==
    /\ remote = [i \in Ids |-> [version |-> 0, state |-> "absent"]]
    /\ cache = Nothing
    /\ owners = Nothing
    /\ req = [r \in Requests |-> NoRequest]
    /\ resp = [r \in Requests |-> NoResponse]
    /\ call = [c \in Calls |-> NoCall]
    /\ overtaken = [c \in Calls |-> FALSE]
    /\ missing = [r \in Requests |-> FALSE]

Handle(r) ==
    Hit(r) \/ Miss(r) \/ InfoServed(r) \/ InfoWithoutResults(r) \/ OwnerServed(r) \/ Dropped(r)

HandleRefresh(f) == StartRefresh(f) \/ RefreshServed(f) \/ RefreshWithoutResults(f)

Next ==
    \/ \E r \in Requests : Handle(r) \/ TimedOut(r) \/ Forget(r)
    \/ \E f \in Refreshes : HandleRefresh(f)
    \/ \E c \in Calls : Serve(c) \/ ServeNot(c)
    \/ \E i \in Ids : Change(i) \/ Expire(i)

Spec == Init /\ [][Next]_vars

\* The refresh timer keeps firing, the event loop keeps running, and the
\* catalogue server answers one of the refreshes that are repeated for ever.
Fairness ==
    \A f \in Refreshes :
       WF_vars(StartRefresh(f)) /\ WF_vars(RefreshServed(f))
       /\ WF_vars(RefreshWithoutResults(f)) /\ SF_vars(Serve(f))

FairSpec == Spec /\ Fairness

----------------------------------------------------------------------------
\* Properties

Stages == {"none", "sent", "served", "noResults", "failed", "over", "rejected", "dropped"}

\* Every variable has its type; in particular what is cached or answered is a
\* version, and a request under way is one that was received and not a hit.
TypeOK ==
    /\ remote \in [Ids -> [version : Versions, state : States]]
    /\ cache \in [Ids -> Versions]
    /\ owners \in [Ids -> Versions]
    /\ req \in [Requests -> [op : {"info", "owner"}, id : Ids] \cup {NoRequest}]
    /\ resp \in [Requests -> [status : {"none", "ok", "null", "badRequest", "timeout"},
                              version : Versions]]
    /\ call \in [Calls -> [stage : Stages, found : [Ids -> Versions]]]
    /\ overtaken \in [Calls -> BOOLEAN]
    /\ missing \in [Requests -> BOOLEAN]
    /\ \A r \in Requests :
          /\ resp[r].status = "ok" <=> resp[r].version # 0
          /\ UnderWay(r) => req[r] # NoRequest /\ resp[r].status \in {"none", "timeout"}

\* A caller whose request was sent on is answered the item that the catalogue
\* server found for it, whatever refreshes and other requests put into the
\* cache meanwhile (fetchCatalogueInfo looks the item up again after putting
\* it).
OwnAnswerWins ==
    \A r \in Requests :
        /\ resp[r].status = "ok" /\ call[r].stage = "over"
        /\ call[r].found[req[r].id] # 0
        => resp[r].version = call[r].found[req[r].id]

\* An item is called not found only if the catalogue server lacked it at some
\* time since the request, or replied without "results" (fetchCatalogueInfo).
NotFoundMeansMissing ==
    \A r \in Requests :
        resp[r].status = "badRequest" => missing[r] \/ call[r].stage = "rejected"

\* An entry is replaced by an older one only by the answer of a call that was
\* under way while another answer was applied: a late refresh after a fetch by
\* id, a late fetch after a refresh, or overlapping refreshes.
OlderOnlyIfOvertaken ==
    [][\A i \in Ids :
        0 < cache'[i] /\ cache'[i] < cache[i] =>
            \E c \in Calls : call[c].stage = "served" /\ call'[c].stage = "over" /\ overtaken[c]]_vars

\* Whatever fails, expires or overtakes, the cache shows each item as the
\* catalogue server lists it again and again: new versions arrive, and items
\* that are no longer active leave (refreshCatalogue).
CacheCatchesUp ==
    \A i \in Ids :
        []<>(cache[i] = IF remote[i].state = "active" THEN remote[i].version ELSE 0)
============================================================================
