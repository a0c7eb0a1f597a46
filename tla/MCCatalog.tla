------------------------------- MODULE MCCatalog -------------------------------
(***************************************************************************)
(* A shop of two sections, the first of two pages; a gun, and a product     *)
(* page that sells two more, one of which the catalog does not carry.      *)
(***************************************************************************)
EXTENDS Catalog

CONSTANTS g, p, a, b

MCChoices == [c \in Cards |-> IF c = p THEN {a, b} ELSE {}]
MCPages == [s \in Sections |-> IF s = 1 THEN 2 ELSE 1]
=============================================================================
