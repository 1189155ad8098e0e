-------------------------- MODULE MCSearchService --------------------------
(***************************************************************************)
(* Small instances of SearchService for TLC: the bodies clients send and   *)
(* the contents the search index takes.                                    *)
(***************************************************************************)
EXTENDS SearchService, TLC

CONSTANTS i1, i2, i3, i4, u1, u2, u3

Symmetry == Permutations(Requests)

F(criteria, text, filter, badSort) ==
    [criteria |-> criteria, text |-> text, filter |-> filter, badSort |-> badSort]
D(type, policy, owner, ready) ==
    [type |-> type, policy |-> policy, owner |-> owner, ready |-> ready]

Empty == [i \in Ids |-> NoDoc]

\* Criteria with a filter, which a search and a list take.
OneForm == {F("given", FALSE, TRUE, FALSE)}

\* And without a filter, which a count takes, an empty array of criteria, and
\* criteria that cannot be decoded.
SomeForms ==
    OneForm \cup {F("given", FALSE, FALSE, FALSE), F("empty", FALSE, FALSE, FALSE),
                  F("bad", FALSE, TRUE, FALSE)}

\* The ids of the first two users share a token, the third one's does not.
SomeAlike == [u \in Users |-> IF u = u3 THEN {u3} ELSE Users \ {u3}]

\* Nothing, and two documents of different types and owners, the one private
\* and neither uploaded nor published.
SomeIndexes ==
    {Empty,
     [Empty EXCEPT ![i1] = D("AiModel", "PRIVATE", u1, FALSE),
                   ![i2] = D("Apps", "OPEN", u3, TRUE)]}

\* Every id has a data bank, and all but one are ready.
FullIndex == {[i \in Ids |-> D("DataBank", "RESTRICTED", u1, i # i1)]}
============================================================================
