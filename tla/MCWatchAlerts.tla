---------------------------- MODULE MCWatchAlerts ----------------------------
(***************************************************************************)
(* Instances of WatchAlerts for TLC.                                       *)
(***************************************************************************)
EXTENDS WatchAlerts

\* A target that both prices reach, and the return as well; the return alone.
MCTerms ==
    {[target |-> 2, immediate |-> TRUE, restock |-> TRUE],
     [target |-> 0, immediate |-> FALSE, restock |-> TRUE]}

\* For sale or sold, at either price.
MCStart == [listed : {TRUE}, price : {1, 2}, sold : BOOLEAN]

\* A target that the higher price does not reach.
MCLower ==
    {[target |-> 1, immediate |-> TRUE, restock |-> TRUE],
     [target |-> 0, immediate |-> FALSE, restock |-> TRUE]}
=============================================================================
