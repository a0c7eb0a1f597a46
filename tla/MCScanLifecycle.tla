--------------------------- MODULE MCScanLifecycle ---------------------------
(* Instances of ScanLifecycle: the web application with two workers beside   *)
(* the command line with one, on one machine.                                *)
EXTENDS ScanLifecycle, TLC

CONSTANTS web1, web2, cli1

MCWorkers == {web1, web2, cli1}
SmallWorkers == {web1, cli1}
MCHome == [w \in Workers |-> IF w = cli1 THEN "cli" ELSE "web"]
OneHost == [p \in Procs |-> "server"]

\* Pids are told apart only by equality, and the two web workers not at all.
Symmetry == {f @@ g : f \in Permutations(Pids), g \in Permutations({web1, web2})}
=============================================================================
