------------------------------- MODULE MCDigest -------------------------------
(***************************************************************************)
(* Instances of Digest for TLC.                                            *)
(***************************************************************************)
EXTENDS Digest, TLC

CONSTANTS l1, l2, s1

\* Every listing at one site, where the limit counts them.
MCShop == [l \in Listings |-> s1]

Symmetry == Permutations(Listings)
=============================================================================
