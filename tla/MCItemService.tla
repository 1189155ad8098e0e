-------------------------- MODULE MCItemService --------------------------
(***************************************************************************)
(* Small instances of ItemService for TLC: which operations clients use,   *)
(* which bodies they send and which indexes the server starts with.        *)
(***************************************************************************)
EXTENDS ItemServiceInv, TLC

CONSTANTS i1, i2, u1, u2, n1, n2

Symmetry == Permutations(Requests)

B(type, name, private, link) ==
    [type |-> type, name |-> name, private |-> private, link |-> link]
Seed(type, name, private, link, owner) ==
    [type |-> type, name |-> name, private |-> private, link |-> link,
     owner |-> owner, by |-> NoId]

Empty == [i \in Ids |-> NoItem]

\* Creations of items of the same or different names, and of an App.
CreateBodies == {B("AiModel", n1, FALSE, NoId), B("Apps", n1, FALSE, NoId)}
CreateSeeds == {Empty, [Empty EXCEPT ![i1] = Seed("AiModel", n1, FALSE, NoId, u1)]}

\* Updates of a model, of its own type and of another one, that send a link or
\* leave it out; or the creation of a document that links to another one.
ChangeBodies == {B("AiModel", n2, TRUE, NoId), B("DataBank", n1, TRUE, i1)}

\* No document, a private one, one that links to an absent id, and both.
ChangeSeeds ==
    {Empty,
     [Empty EXCEPT ![i1] = Seed("AiModel", n1, TRUE, i2, u1)],
     [Empty EXCEPT ![i2] = Seed("AiModel", n2, TRUE, i1, u1)],
     [Empty EXCEPT ![i1] = Seed("AiModel", n1, FALSE, NoId, u1),
                   ![i2] = Seed("AiModel", n2, TRUE, i1, u1)]}
============================================================================
