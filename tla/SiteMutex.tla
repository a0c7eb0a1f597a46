------------------------------ MODULE SiteMutex ------------------------------
(***************************************************************************)
(* What scan_service promises about concurrency inside one process: a      *)
(* worker takes a site only while no other worker of its process holds it. *)
(* The detailed specification, ScanLifecycle, is shown to implement this   *)
(* one with `holding' read off its workers' program counters.              *)
(***************************************************************************)
CONSTANTS
    Sites,      \* the vendors, rows of the sites table
    Procs,      \* operating-system processes that call run_scan
    Workers,    \* threads that call run_scan
    Home,       \* Home[w]: the process worker w runs in
    NoSite      \* "holds nothing"

VARIABLE holding    \* holding[w]: the site w is scanning, or NoSite

Init == holding = [w \in Workers |-> NoSite]

\* Two workers share a registry exactly when they share a process.
Peers(w) == {v \in Workers \ {w} : Home[v] = Home[w]}

Acquire(w, s) ==
    /\ holding[w] = NoSite
    /\ \A v \in Peers(w) : holding[v] # s
    /\ holding' = [holding EXCEPT ![w] = s]

Release(w) ==
    /\ holding[w] # NoSite
    /\ holding' = [holding EXCEPT ![w] = NoSite]

\* A process that dies lets go of everything its workers held.
Die(p) ==
    holding' = [w \in Workers |-> IF Home[w] = p THEN NoSite ELSE holding[w]]

Next ==
    \/ \E w \in Workers : Release(w) \/ \E s \in Sites : Acquire(w, s)
    \/ \E p \in Procs : Die(p)

Spec == Init /\ [][Next]_holding
=============================================================================
