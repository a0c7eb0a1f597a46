------------------------------ MODULE MCHostRest ------------------------------
(***************************************************************************)
(* Instances of HostRest for TLC: which shops, and which fetchers, are     *)
(* alike.                                                                  *)
(***************************************************************************)
EXTENDS HostRest, TLC

Alike == {f @@ g : f \in Permutations(Hosts), g \in Permutations(Threads)}
=============================================================================
