------------------------------- MODULE MCRefGen -------------------------------
(***************************************************************************)
(* A model, its maker and its caliber, and two threads of one process.      *)
(***************************************************************************)
EXTENDS RefGen

CONSTANTS m, f, k, a, b, web, scan

MCCarries == [x \in Models |-> {f, k}]

MCText == [r \in Rows |-> IF r = m THEN {a} ELSE {a, b}]
\* An approved model of an approved maker, in a caliber that discovery has proposed.
MCSeeded == [r \in Rows |-> {[status |-> IF r = k THEN "pending" ELSE "approved", text |-> a]}]
=============================================================================
