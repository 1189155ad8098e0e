----------------------------- MODULE Moderation -----------------------------
(***************************************************************************)
(* The rating moderator, a Python process beside the server: it takes the  *)
(* messages of a RabbitMQ queue, has a model judge each comment, and       *)
(* writes the verdict to the pending rating in Elasticsearch (main.py,     *)
(* RabbitMq.py, ProfanityCheck.py, UpdateDatabase.py).                     *)
(*                                                                         *)
(* It consumes with auto_ack: a message counts as handled as soon as the   *)
(* broker has sent it, and the broker sends whatever it has.  An exception *)
(* ends the process, which its container restarts.  Ratings and messages   *)
(* come from another service, one message for each rating.                 *)
(***************************************************************************)
EXTENDS Naturals, Sequences, SequencesExt, FiniteSets

CONSTANTS
    Ratings,    \* ratings, by their ratingID
    Profane,    \* those whose comment the model rejects
    Poison,     \* messages that the callback cannot handle
    Alike,      \* the ratings that a match query for a ratingID finds: those
                \* whose ids have a token in common
    MaxHits,    \* how many ratings a search returns (Elasticsearch's default is 10)
    None,       \* no message
    MaxCrashes  \* bound: crashes that no message is to blame for

Messages == Ratings \cup Poison

ASSUME ModerationAssumption ==
    /\ Profane \subseteq Ratings
    /\ Ratings \cap Poison = {}
    /\ Alike \in [Ratings -> SUBSET Ratings]
    /\ \A m \in Ratings : m \in Alike[m]
    /\ None \notin Messages
    /\ MaxHits \in Nat \ {0}
    /\ MaxCrashes \in Nat

VARIABLES
    queue,      \* the broker's queue
    buffer,     \* messages delivered to the process and not looked at yet
    job,        \* the message in the callback
    step,       \* where the callback stands
    hits,       \* the ratings found that are not updated yet
    proc,       \* "waiting" for the schedule, "consuming", or "down"
    status,     \* the status of each rating in Elasticsearch
    visible,    \* the same as searches see it
    crashes,    \* how often the process crashed without reason
    lost,       \* history: messages that were in the process when it ended
    skipped     \* history: messages whose rating the search did not return

vars == <<queue, buffer, job, step, hits, proc, status, visible, crashes, lost, skipped>>
Callback_vars == <<job, step, hits>>
Rating_vars == <<status, visible>>

Verdict(m) == IF m \in Profane THEN "Denied" ELSE "Approved"
Delivered == ToSet(buffer) \cup ({job} \ {None})

----------------------------------------------------------------------------
\* The service that ratings come from

Submit(m) ==
    /\ m \notin ToSet(queue) \cup Delivered \cup lost
    /\ m \in Ratings => status[m] = "absent"
    /\ queue' = Append(queue, m)
    /\ status' = IF m \in Ratings THEN [status EXCEPT ![m] = "pending"] ELSE status
    /\ UNCHANGED <<buffer, Callback_vars, proc, visible, crashes, lost, skipped>>

----------------------------------------------------------------------------
\* The moderator

\* Mutant: the test for an empty queue is off by one.
RunMain_OffByOne ==
    /\ proc = "waiting"
    /\ proc' = IF Len(queue) <= 1 THEN "waiting" ELSE "consuming"
    /\ UNCHANGED <<queue, buffer, Callback_vars, Rating_vars, crashes, lost, skipped>>

\* The schedule runs main: nothing is consumed from an empty queue; once it
\* consumes, it does so for ever.
RunMain ==
    /\ proc = "waiting"
    /\ proc' = IF queue = <<>> THEN "waiting" ELSE "consuming"
    /\ UNCHANGED <<queue, buffer, Callback_vars, Rating_vars, crashes, lost, skipped>>

\* Mutant: the broker keeps what it has sent.
Deliver_Keeps ==
    /\ proc = "consuming"
    /\ queue # <<>>
    /\ buffer' = Append(buffer, Head(queue))
    /\ UNCHANGED <<queue, Callback_vars, proc, Rating_vars, crashes, lost, skipped>>

\* The broker sends the next message, without waiting for the last one to be
\* handled, and forgets it.
Deliver ==
    /\ proc = "consuming"
    /\ queue # <<>>
    /\ buffer' = Append(buffer, Head(queue))
    /\ queue' = Tail(queue)
    /\ UNCHANGED <<Callback_vars, proc, Rating_vars, crashes, lost, skipped>>

\* callback: the comment is judged.
Callback ==
    /\ proc = "consuming"
    /\ job = None /\ buffer # <<>>
    /\ Head(buffer) \in Ratings
    /\ job' = Head(buffer)
    /\ buffer' = Tail(buffer)
    /\ step' = "checking"
    /\ UNCHANGED <<queue, hits, proc, Rating_vars, crashes, lost, skipped>>

\* A search returns what there is up to its page, which of it is a matter of scores.
Page(found) ==
    {hs \in SUBSET found : Cardinality(hs) <= MaxHits
                           /\ (hs = found \/ Cardinality(hs) = MaxHits)}

Pending == {x \in Ratings : visible[x] = "pending"}

\* Mutant: whatever is pending is found.
SearchPending_AnyId ==
    /\ proc = "consuming" /\ step = "checking"
    /\ hits' \in Page(Pending)
    /\ skipped' = IF job \in hits' THEN skipped ELSE skipped \cup {job}
    /\ step' = "updating"
    /\ UNCHANGED <<queue, buffer, job, proc, Rating_vars, crashes, lost>>

\* update: the pending ratings of this id, as searches see them after 5 s.
SearchPending ==
    /\ proc = "consuming" /\ step = "checking"
    /\ hits' \in Page(Alike[job] \cap Pending)
    /\ skipped' = IF job \in hits' THEN skipped ELSE skipped \cup {job}
    /\ step' = "updating"
    /\ UNCHANGED <<queue, buffer, job, proc, Rating_vars, crashes, lost>>

\* Each one found is given the verdict, whatever its status is by now.
UpdateHit ==
    /\ proc = "consuming" /\ step = "updating"
    /\ \E x \in hits :
          /\ status' = [status EXCEPT ![x] = Verdict(job)]
          /\ hits' = hits \ {x}
    /\ UNCHANGED <<queue, buffer, job, step, proc, visible, crashes, lost, skipped>>

\* Mutant: the connection is closed after every message.
CallbackDone_Closes ==
    /\ proc = "consuming" /\ step = "updating" /\ hits = {}
    /\ job' = None /\ step' = "none"
    /\ proc' = "waiting"
    /\ buffer' = <<>>
    /\ UNCHANGED <<queue, hits, Rating_vars, crashes, lost, skipped>>

CallbackDone ==
    /\ proc = "consuming" /\ step = "updating" /\ hits = {}
    /\ job' = None /\ step' = "none"
    /\ UNCHANGED <<queue, buffer, hits, proc, Rating_vars, crashes, lost, skipped>>

\* Whatever the process has been sent is gone with it.
Down ==
    /\ proc' = "down"
    /\ lost' = lost \cup Delivered
    /\ job' = None /\ step' = "none" /\ hits' = {} /\ buffer' = <<>>
    /\ UNCHANGED <<queue, Rating_vars, skipped>>

\* A message that is not JSON, or has no comment, raises an exception.
CallbackRaises ==
    /\ proc = "consuming"
    /\ job = None /\ buffer # <<>>
    /\ Head(buffer) \in Poison
    /\ Down
    /\ UNCHANGED crashes

\* Elasticsearch or the broker cannot be reached or refuses, or the machine
\* fails.
Crash ==
    /\ proc # "down"
    /\ crashes < MaxCrashes
    /\ Down
    /\ crashes' = crashes + 1

\* restart: on-failure
Restart ==
    /\ proc = "down"
    /\ proc' = "waiting"
    /\ UNCHANGED <<queue, buffer, Callback_vars, Rating_vars, crashes, lost, skipped>>

\* start_consuming waits for the next message.
Idle ==
    /\ proc = "consuming"
    /\ queue = <<>> /\ Delivered = {}
    /\ UNCHANGED vars

Refresh(x) ==
    /\ visible[x] # status[x]
    /\ visible' = [visible EXCEPT ![x] = status[x]]
    /\ UNCHANGED <<queue, buffer, Callback_vars, proc, status, crashes, lost, skipped>>

----------------------------------------------------------------------------
Init ==
    /\ queue = <<>>
    /\ buffer = <<>>
    /\ job = None
    /\ step = "none"
    /\ hits = {}
    /\ proc = "waiting"
    /\ status = [x \in Ratings |-> "absent"]
    /\ visible = [x \in Ratings |-> "absent"]
    /\ crashes = 0
    /\ lost = {}
    /\ skipped = {}

Moderate ==
    \/ RunMain \/ Callback \/ SearchPending \/ UpdateHit \/ CallbackDone
    \/ CallbackRaises

Next ==
    \/ \E m \in Messages : Submit(m)
    \/ Moderate \/ Idle \/ Deliver \/ Restart \/ Crash
    \/ \E x \in Ratings : Refresh(x)

Spec == Init /\ [][Next]_vars

\* The process keeps running, its container restarts it, and the broker sends
\* what it has.  Elasticsearch need not refresh.
FairSpec == Spec /\ WF_vars(Moderate) /\ WF_vars(Deliver) /\ WF_vars(Restart)

----------------------------------------------------------------------------
\* Properties

\* Every variable has its type, and no message is in two places: the queue and
\* the process hold each message once (RabbitMq.consume_messages).
TypeOK ==
    /\ queue \in Seq(Messages)
    /\ buffer \in Seq(Messages)
    /\ IsInjective(queue \o buffer)
    /\ job \in Ratings \cup {None}
    /\ job \notin ToSet(queue \o buffer)
    /\ step \in {"none", "checking", "updating"}
    /\ (step = "none") = (job = None)
    /\ hits \subseteq Ratings
    /\ proc \in {"waiting", "consuming", "down"}
    /\ proc # "consuming" => Delivered = {}
    /\ status \in [Ratings -> {"absent", "pending", "Approved", "Denied"}]
    /\ visible \in [Ratings -> {"absent", "pending", "Approved", "Denied"}]
    /\ crashes \in 0 .. MaxCrashes
    /\ lost \subseteq Messages
    /\ skipped \subseteq Ratings

\* The ratings whose message has left the queue and does not wait in the process.
HandedOver == {m \in Ratings : status[m] # "absent"} \ (ToSet(queue) \cup ToSet(buffer))

\* A verdict is that of the rating's own comment, or of the comment of a rating
\* whose id is alike, and one that has been handed over: nobody else's verdict is
\* written to it, and none before its time (the query of UpdateDatabase.update).
VerdictsAreOwn ==
    \A x \in Ratings :
        status[x] \in {"Approved", "Denied"} =>
            \E m \in HandedOver : x \in Alike[m] /\ status[x] = Verdict(m)

\* A pending rating is on its way to a verdict, or its message was in the
\* process when that ended, or its search did not return it, because Elasticsearch
\* did not show it yet or there were too many alike: an idle or busy moderator
\* loses nothing (RabbitMq.consume_messages).
PendingIsAccountedFor ==
    \A x \in Ratings :
        status[x] = "pending" =>
            \/ x \in ToSet(queue) \cup Delivered
            \/ x \in lost \cup skipped

\* Every submitted rating gets a verdict, unless its message was in the process
\* when that ended or its search did not return it.  A message that cannot be
\* handled does not keep the ones in the queue from it: auto_ack has removed it
\* before it ends the process.
EveryRatingJudged ==
    \A x \in Ratings :
        status[x] = "pending" ~> (status[x] # "pending" \/ x \in lost \cup skipped)
============================================================================
