----------------------------- MODULE MCPhotoQueue -----------------------------
(***************************************************************************)
(* Two listings that share a picture.                                      *)
(***************************************************************************)
EXTENDS PhotoQueue

CONSTANTS i, j, u, g, scan, button, command

MCShared == [p \in Photo |-> u]
MCTwoItems == [p \in Photo |-> IF p = 1 THEN i ELSE j]
MCOneHost == [x \in Url |-> g]
=============================================================================
