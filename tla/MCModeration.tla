---------------------------- MODULE MCModeration ----------------------------
(***************************************************************************)
(* A small instance of Moderation for TLC: the id of x2 shares a token     *)
(* with each of the others, which share none, and a search returns two     *)
(* ratings at most.                                                        *)
(***************************************************************************)
EXTENDS Moderation

CONSTANTS x1, x2, x3

SomeAlike ==
    [x \in Ratings |-> CASE x = x1 -> {x1, x2}
                         [] x = x2 -> {x1, x2, x3}
                         [] x = x3 -> {x2, x3}]
============================================================================
