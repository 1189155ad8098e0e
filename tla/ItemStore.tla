----------------------------- MODULE ItemStore -----------------------------
(***************************************************************************)
(* What the item API promises its clients about the catalogue's documents: *)
(* every request that changes an item takes effect at most once and in one *)
(* indivisible step, a success is only reported for an effect that took    *)
(* place, and a refusal is only reported for a request that never has one. *)
(* A request answered with a technical failure promises nothing: its       *)
(* effect may have happened, or may still happen after the answer.         *)
(*                                                                         *)
(* ItemService implements this specification (ItemServiceProof, runs       *)
(* item_create and item_change).                                           *)
(***************************************************************************)
CONSTANTS
    Requests,   \* the requests a client sends
    Ids,        \* document ids of the item index
    Contents,   \* what a document can hold
    Absent      \* stands for "no document"

VARIABLES
    store,      \* store[i]: the content of document i, or Absent
    kind,       \* kind[r]: "none" before r is sent, then "read" or "write"
    effect,     \* effect[r]: has r changed the store
    answer      \* answer[r]: what the client was told

vars == <<store, kind, effect, answer>>

Answers == {"none", "ok", "refused", "failed"}

Init ==
    /\ store \in [Ids -> Contents \cup {Absent}]
    /\ kind = [r \in Requests |-> "none"]
    /\ effect = [r \in Requests |-> FALSE]
    /\ answer = [r \in Requests |-> "none"]

\* A client sends a request; one that is malformed is refused on the spot.
Send(r) ==
    /\ kind[r] = "none"
    /\ \E k \in {"read", "write"} : kind' = [kind EXCEPT ![r] = k]
    /\ \E a \in {"none", "refused"} : answer' = [answer EXCEPT ![r] = a]
    /\ UNCHANGED <<store, effect>>

\* A write takes effect on one document, whatever its client was told,
\* unless it was refused.
TakeEffect(r) ==
    /\ kind[r] = "write"
    /\ ~effect[r]
    /\ answer[r] \in {"none", "failed"}
    /\ \E i \in Ids, c \in Contents \cup {Absent} :
          store' = [store EXCEPT ![i] = c]
    /\ effect' = [effect EXCEPT ![r] = TRUE]
    /\ UNCHANGED <<kind, answer>>

Succeed(r) ==
    /\ kind[r] # "none" /\ answer[r] = "none"
    /\ kind[r] = "write" => effect[r]
    /\ answer' = [answer EXCEPT ![r] = "ok"]
    /\ UNCHANGED <<store, kind, effect>>

Refuse(r) ==
    /\ kind[r] # "none" /\ answer[r] = "none"
    /\ ~effect[r]
    /\ answer' = [answer EXCEPT ![r] = "refused"]
    /\ UNCHANGED <<store, kind, effect>>

Fail(r) ==
    /\ kind[r] # "none" /\ answer[r] = "none"
    /\ answer' = [answer EXCEPT ![r] = "failed"]
    /\ UNCHANGED <<store, kind, effect>>

Next ==
    \E r \in Requests :
        Send(r) \/ TakeEffect(r) \/ Succeed(r) \/ Refuse(r) \/ Fail(r)

Spec == Init /\ [][Next]_vars
============================================================================
