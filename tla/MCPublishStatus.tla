-------------------------- MODULE MCPublishStatus --------------------------
(***************************************************************************)
(* A small instance of PublishStatus for TLC.                              *)
(***************************************************************************)
EXTENDS PublishStatus, TLC

CONSTANTS i1, i2, n1, n2

Symmetry == Permutations(Requests)

\* Bodies with and without a media URL, and without the statuses or with both
\* as a client may have read them.
SomeBodies ==
    {b \in Body : b.uploaded = b.published}

Empty == [i \in Ids |-> NoDoc]
D(name, media, uploaded, published) ==
    [name |-> name, media |-> media, uploaded |-> uploaded, published |-> published]

\* Nothing; an uploaded, published item; and one of its name besides that is
\* neither.
SomeSeeds ==
    {Empty,
     [Empty EXCEPT ![i1] = D(n1, FALSE, TRUE, TRUE)],
     [Empty EXCEPT ![i1] = D(n1, TRUE, TRUE, TRUE),
                   ![i2] = D(n2, FALSE, FALSE, FALSE)]}
============================================================================
