---------------------------- MODULE ScanLifecycle ----------------------------
(***************************************************************************)
(* One scan of one site, from the request to the release of its claim, as  *)
(* backend/app/services/scan_service.py runs it: the web process with its  *)
(* scheduler and its request threads, and the command line beside it, each *)
(* with a registry of its own, sharing only the scan_runs table.           *)
(***************************************************************************)
EXTENDS Naturals, FiniteSets

CONSTANTS
    Sites,          \* rows of the sites table
    Unregistered,   \* sites whose scraper has left the registry
    Procs,          \* processes that may run a scan
    Schedulers,     \* those that are the web application
    Workers,        \* threads that call run_scan
    Home,           \* Home[w]: the process of worker w
    HostOf,         \* HostOf[p]: the machine process p runs on
    Pids,           \* process ids an operating system may hand out
    PidReuse,       \* may a new process get the pid a RUNNING row still names
    Rows,           \* slots for scan_runs rows
    DbErrors,       \* commits that may fail: subset of ErrorPoints
    MaxDbErrors,    \* bound: failing commits in a behaviour
    MaxCrashes,     \* bound: crashes in a behaviour
    NoSite, NoPid, NoRow

ErrorPoints == {"claim", "open", "stream", "close"}

ASSUME ConstantsAssumption ==
    /\ Unregistered \subseteq Sites
    /\ Schedulers \subseteq Procs
    /\ Home \in [Workers -> Procs]
    /\ PidReuse \in BOOLEAN
    /\ DbErrors \subseteq ErrorPoints
    /\ MaxDbErrors \in Nat
    /\ MaxCrashes \in Nat
    /\ NoSite \notin Sites
    /\ NoPid \notin Pids
    /\ NoRow \notin Rows

VARIABLES
    pid,        \* pid[p]: its process id while it is up, else NoPid
    reaped,     \* reaped[p]: its scheduler loop has run reap_stale_runs
    registry,   \* registry[p]: keys of _running, this process's claims
    cancels,    \* cancels[p]: sites whose _cancel_flags event is set
    task,       \* task[w]: where worker w is in run_scan
    rows,       \* the scan_runs table
    due,        \* due[s]: next_scan_at is null or past
    dbErrors,   \* failing commits so far
    crashes     \* crashes so far

vars == <<pid, reaped, registry, cancels, task, rows, due, dbErrors, crashes>>

(***************************************************************************)
(* The data.                                                               *)
(***************************************************************************)
\* "success" stands for SUCCESS and PARTIAL, which nothing here tells apart.
Closed == {"success", "failed", "canceled"}
Status == Closed \union {"none", "running"}

\* `aged' abstracts started_at: the run began more than
\* scheduler.scan_timeout_minutes ago.
Row == [site : Sites \union {NoSite}, host : {HostOf[p] : p \in Procs} \union {NoSite},
        pid : Pids \union {NoPid}, status : Status, aged : BOOLEAN]

NewRow(s, p) ==
    [site |-> s, host |-> HostOf[p], pid |-> pid[p], status |-> "running", aged |-> FALSE]

BlankRow == [site |-> NoSite, host |-> NoSite, pid |-> NoPid, status |-> "none", aged |-> FALSE]

\* Nothing here reads another column of a row once it is closed, nor the row at
\* all once its worker has let go of it: it leaves the slot.
ClosedAs(status) == [BlankRow EXCEPT !.status = status]

\* queued: submitted to the pool or to a new thread, run_scan not begun.
\* From claim to release the worker holds its site in the registry.
Scanning == {"claim", "open", "stream", "broken", "close", "release"}
Task == [pc : Scanning \union {"idle", "queued"}, site : Sites \union {NoSite},
         row : Rows \union {NoRow}, scheduled : BOOLEAN, verdict : Closed \union {"none"}]

Idle == [pc |-> "idle", site |-> NoSite, row |-> NoRow, scheduled |-> FALSE, verdict |-> "none"]

Queued(s, scheduled) ==
    [pc |-> "queued", site |-> s, row |-> NoRow, scheduled |-> scheduled, verdict |-> "none"]

\* The two moves that change more of a worker's record than where it is.
Opened(t, r) == [t EXCEPT !.pc = "stream", !.row = r]
Concluded(t, verdict) == [t EXCEPT !.pc = "close", !.verdict = verdict]

Up(p) == pid[p] # NoPid
Active(w) == task[w].pc \in Scanning
Running(r) == rows[r].status = "running"
Held(r) == \E w \in Workers : task[w].row = r

\* A row as somebody other than its worker leaves it.
Abandoned(r) == IF Held(r) THEN ClosedAs("failed") ELSE BlankRow

\* _owner_is_alive, asked by process p: a pid means nothing on another host.
OwnerIsAlive(p, r) ==
    /\ rows[r].host = HostOf[p]
    /\ \E q \in Procs : HostOf[q] = rows[r].host /\ Up(q) /\ pid[q] = rows[r].pid

\* Faults: only this process's registry is asked; the timeout is not.
ClaimedHereOnly(p, r) == rows[r].site \in registry[p] /\ ~rows[r].aged
ClaimedForever(p, r) == OwnerIsAlive(p, r)

\* A RUNNING row that still counts as somebody's claim, to process p.
Claimed(p, r) == OwnerIsAlive(p, r) /\ ~rows[r].aged

\* Scheduler._inflight: the futures this process has not seen finish.
InFlight(p, s) ==
    \E w \in Workers : /\ Home[w] = p
                       /\ task[w].pc # "idle"
                       /\ task[w].scheduled
                       /\ task[w].site = s

TypeOK ==
    /\ pid \in [Procs -> Pids \union {NoPid}]
    /\ reaped \in [Procs -> BOOLEAN]
    /\ registry \in [Procs -> SUBSET Sites]
    /\ cancels \in [Procs -> SUBSET Sites]
    /\ task \in [Workers -> Task]
    /\ rows \in [Rows -> Row]
    /\ due \in [Sites -> BOOLEAN]
    /\ dbErrors \in 0..MaxDbErrors
    /\ crashes \in 0..MaxCrashes

\* Nothing runs yet, and every site is due: next_scan_at starts out NULL.
Init ==
    /\ pid = [p \in Procs |-> NoPid]
    /\ reaped = [p \in Procs |-> FALSE]
    /\ registry = [p \in Procs |-> {}]
    /\ cancels = [p \in Procs |-> {}]
    /\ task = [w \in Workers |-> Idle]
    /\ rows = [r \in Rows |-> BlankRow]
    /\ due = [s \in Sites |-> TRUE]
    /\ dbErrors = 0
    /\ crashes = 0

(***************************************************************************)
(* Processes come and go.                                                  *)
(***************************************************************************)
PidsInUse(p) == {pid[q] : q \in {q \in Procs : HostOf[q] = HostOf[p]}}
PidsOnRows == {rows[r].pid : r \in {r \in Rows : Running(r)}}

Start(p) ==
    /\ ~Up(p)
    /\ \E i \in Pids \ PidsInUse(p) :
         /\ PidReuse \/ i \notin PidsOnRows
         /\ pid' = [pid EXCEPT ![p] = i]
    /\ UNCHANGED <<reaped, registry, cancels, task, rows, due, dbErrors, crashes>>

\* Everything in memory goes; what was committed stays.
Vanish(p) ==
    /\ Up(p)
    /\ pid' = [pid EXCEPT ![p] = NoPid]
    /\ reaped' = [reaped EXCEPT ![p] = FALSE]
    /\ registry' = [registry EXCEPT ![p] = {}]
    /\ cancels' = [cancels EXCEPT ![p] = {}]
    /\ task' = [w \in Workers |-> IF Home[w] = p THEN Idle ELSE task[w]]
    /\ UNCHANGED <<rows, due, dbErrors>>

\* A crash, a kill, or a restart: stop() does not wait for scans.
Crash(p) == crashes < MaxCrashes /\ crashes' = crashes + 1 /\ Vanish(p)

\* The command line returns once its scans are done.
Exit(p) ==
    /\ p \notin Schedulers
    /\ \A w \in Workers : Home[w] = p => task[w].pc = "idle"
    /\ crashes' = crashes
    /\ Vanish(p)

\* reap_stale_runs, first thing on the scheduler's thread. Request threads may
\* already be scanning.
Reap(p) ==
    /\ p \in Schedulers /\ Up(p) /\ ~reaped[p]
    /\ rows' = [r \in Rows |->
         IF /\ Running(r)
            /\ ~(rows[r].site \in registry[p] /\ ~rows[r].aged)
            /\ ~Claimed(p, r)
         THEN Abandoned(r) ELSE rows[r]]
    /\ reaped' = [reaped EXCEPT ![p] = TRUE]
    /\ UNCHANGED <<pid, registry, cancels, task, due, dbErrors, crashes>>

(***************************************************************************)
(* A scan is asked for.                                                    *)
(***************************************************************************)
\* Scheduler._dispatch_scans: a due site with no future of its own yet. It may
\* wait in the pool until after somebody else has scanned the site.
Dispatch(w, s) ==
    /\ Home[w] \in Schedulers /\ Up(Home[w]) /\ reaped[Home[w]]
    /\ task[w].pc = "idle"
    /\ s \notin Unregistered /\ due[s] /\ ~InFlight(Home[w], s)
    /\ task' = [task EXCEPT ![w] = Queued(s, TRUE)]
    /\ UNCHANGED <<pid, reaped, registry, cancels, rows, due, dbErrors, crashes>>

\* "Scan now" answers 409 for a site that is unavailable or already running;
\* the command line calls run_scan unconditionally.
Request(w, s) ==
    /\ Up(Home[w]) /\ task[w].pc = "idle"
    /\ Home[w] \in Schedulers => s \notin Unregistered \union registry[Home[w]]
    /\ task' = [task EXCEPT ![w] = Queued(s, FALSE)]
    /\ UNCHANGED <<pid, reaped, registry, cancels, rows, due, dbErrors, crashes>>

\* request_cancel finds the event only while the site is registered.
RequestCancel(p, s) ==
    /\ s \in registry[p]
    /\ cancels' = [cancels EXCEPT ![p] = @ \union {s}]
    /\ UNCHANGED <<pid, reaped, registry, task, rows, due, dbErrors, crashes>>

(***************************************************************************)
(* run_scan.                                                               *)
(***************************************************************************)
\* Drop the site from _running and _cancel_flags, as every way out but one does.
Unregister(w) ==
    /\ registry' = [registry EXCEPT ![Home[w]] = @ \ {task[w].site}]
    /\ cancels' = [cancels EXCEPT ![Home[w]] = @ \ {task[w].site}]

Goto(w, pc) == task' = [task EXCEPT ![w].pc = pc]

Stop(w) == task' = [task EXCEPT ![w] = Idle]

\* Fault: the registry is written without being read.
RegisterUnchecked(w) ==
    /\ task[w].pc = "queued"
    /\ registry' = [registry EXCEPT ![Home[w]] = @ \union {task[w].site}]
    /\ cancels' = [cancels EXCEPT ![Home[w]] = @ \ {task[w].site}]
    /\ Goto(w, "claim")
    /\ UNCHANGED <<pid, reaped, rows, due, dbErrors, crashes>>

\* The check and the registration are one critical section under _lock.
Register(w) ==
    /\ task[w].pc = "queued"
    /\ task[w].site \notin registry[Home[w]]
    /\ registry' = [registry EXCEPT ![Home[w]] = @ \union {task[w].site}]
    /\ cancels' = [cancels EXCEPT ![Home[w]] = @ \ {task[w].site}]
    /\ Goto(w, "claim")
    /\ UNCHANGED <<pid, reaped, rows, due, dbErrors, crashes>>

\* Fault: the refusal is raised inside the try whose finally unregisters.
RefuseUnregisters(w) ==
    /\ task[w].pc = "queued"
    /\ task[w].site \in registry[Home[w]]
    /\ Unregister(w)
    /\ Stop(w)
    /\ UNCHANGED <<pid, reaped, rows, due, dbErrors, crashes>>

\* ScanBusy from the registry: nothing has been taken, nothing is given back.
Refuse(w) ==
    /\ task[w].pc = "queued"
    /\ task[w].site \in registry[Home[w]]
    /\ Stop(w)
    /\ UNCHANGED <<pid, reaped, registry, cancels, rows, due, dbErrors, crashes>>

RunningRowsOf(s) == {r \in Rows : Running(r) /\ rows[r].site = s}

\* Fault: a busy site is refused without giving the registration back.
ClaimBusyStaysRegistered(w) ==
    /\ task[w].pc = "claim"
    /\ \E r \in RunningRowsOf(task[w].site) : Claimed(Home[w], r)
    /\ Stop(w)
    /\ UNCHANGED <<pid, reaped, registry, cancels, rows, due, dbErrors, crashes>>

\* _claim_site: one transaction, rolled back when it raises ScanBusy.
ClaimBusy(w) ==
    /\ task[w].pc = "claim"
    /\ \E r \in RunningRowsOf(task[w].site) : Claimed(Home[w], r)
    /\ Unregister(w)
    /\ Stop(w)
    /\ UNCHANGED <<pid, reaped, rows, due, dbErrors, crashes>>

Claim(w) ==
    /\ task[w].pc = "claim"
    /\ \A r \in RunningRowsOf(task[w].site) : ~Claimed(Home[w], r)
    /\ rows' = [r \in Rows |-> IF r \in RunningRowsOf(task[w].site)
                               THEN Abandoned(r) ELSE rows[r]]
    /\ Goto(w, "open")
    /\ UNCHANGED <<pid, reaped, registry, cancels, due, dbErrors, crashes>>

\* A database error at one of the commits that may meet one.
DbError(point) ==
    /\ point \in DbErrors
    /\ dbErrors < MaxDbErrors
    /\ dbErrors' = dbErrors + 1

\* Raised outside run_scan's try: the registration is not taken back.
ClaimError(w) ==
    /\ task[w].pc = "claim"
    /\ DbError("claim")
    /\ Stop(w)
    /\ UNCHANGED <<pid, reaped, registry, cancels, rows, due, crashes>>

FreeRows == {r \in Rows : ~Running(r) /\ ~Held(r)}

\* A second transaction inserts the run and commits it.
Open(w) ==
    /\ task[w].pc = "open"
    /\ FreeRows # {}
    /\ LET r == CHOOSE r \in FreeRows : TRUE
       IN  /\ rows' = [rows EXCEPT ![r] = NewRow(task[w].site, Home[w])]
           /\ task' = [task EXCEPT ![w] = Opened(@, r)]
    /\ UNCHANGED <<pid, reaped, registry, cancels, due, dbErrors, crashes>>

OpenError(w) ==
    /\ task[w].pc = "open"
    /\ DbError("open")
    /\ Unregister(w)
    /\ Stop(w)
    /\ UNCHANGED <<pid, reaped, rows, due, crashes>>

SetStatus(w, status) == rows' = [rows EXCEPT ![task[w].row] = ClosedAs(status)]

\* No scraper is registered: failed in a commit of its own, next_scan_at kept.
CloseUnregistered(w) ==
    /\ task[w].pc = "stream" /\ task[w].site \in Unregistered
    /\ SetStatus(w, "failed")
    /\ Goto(w, "release")
    /\ UNCHANGED <<pid, reaped, registry, cancels, due, dbErrors, crashes>>

\* Fault: the handler keeps the status the run began with.
StreamRaisesRunning(w) ==
    /\ task[w].pc = "stream" /\ task[w].site \notin Unregistered
    /\ task' = [task EXCEPT ![w] = Concluded(@, "running")]
    /\ UNCHANGED <<pid, reaped, registry, cancels, rows, due, dbErrors, crashes>>

\* The stream ends early: the scraper or the host register raised, or check_stop
\* saw the cancel event. The verdict is set on the object, and committed by the
\* handler's own log line if a flush was due. (Should that flush fail, the rest
\* is as after StreamError.)
StreamRaises(w) ==
    /\ task[w].pc = "stream" /\ task[w].site \notin Unregistered
    /\ \E v \in {"failed", "canceled"} :
         /\ v = "canceled" => task[w].site \in cancels[Home[w]]
         /\ task' = [task EXCEPT ![w] = Concluded(@, v)]
         /\ UNCHANGED rows \/ SetStatus(w, v)
    /\ UNCHANGED <<pid, reaped, registry, cancels, due, dbErrors, crashes>>

\* The stream ends, the catalog is reconciled, and the verdict is committed.
Conclude(w) ==
    /\ task[w].pc = "stream" /\ task[w].site \notin Unregistered
    /\ SetStatus(w, "success")
    /\ task' = [task EXCEPT ![w] = Concluded(@, "success")]
    /\ UNCHANGED <<pid, reaped, registry, cancels, due, dbErrors, crashes>>

\* A failing flush leaves the session deactivated until it is rolled back.
StreamError(w) ==
    /\ task[w].pc = "stream" /\ task[w].site \notin Unregistered
    /\ DbError("stream")
    /\ Goto(w, "broken")
    /\ UNCHANGED <<pid, reaped, registry, cancels, rows, due, crashes>>

\* The handler's log line was due a flush: that rolls the session back, the
\* verdict with it, and the close-out then commits everything but a status.
BrokenFlushed(w) ==
    /\ task[w].pc = "broken"
    /\ due' = [due EXCEPT ![task[w].site] = FALSE]
    /\ Goto(w, "release")
    /\ UNCHANGED <<pid, reaped, registry, cancels, rows, dbErrors, crashes>>

\* It was not: schedule_next reads an expired attribute of the deactivated
\* session and raises out of the finally.
BrokenRaises(w) ==
    /\ task[w].pc = "broken"
    /\ Goto(w, "release")
    /\ UNCHANGED <<pid, reaped, registry, cancels, rows, due, dbErrors, crashes>>

\* The finally: status, finished_at and next_scan_at in one commit.
Close(w) ==
    /\ task[w].pc = "close"
    /\ SetStatus(w, task[w].verdict)
    /\ due' = [due EXCEPT ![task[w].site] = FALSE]
    /\ Goto(w, "release")
    /\ UNCHANGED <<pid, reaped, registry, cancels, dbErrors, crashes>>

\* _RunLog.flush swallows the error and rolls all of it back; so too where no
\* scraper is registered.
CloseError(w) ==
    /\ \/ task[w].pc = "close"
       \/ task[w].pc = "stream" /\ task[w].site \in Unregistered
    /\ DbError("close")
    /\ Goto(w, "release")
    /\ UNCHANGED <<pid, reaped, registry, cancels, rows, due, crashes>>

\* The outer finally, once the session is closed.
Release(w) ==
    /\ task[w].pc = "release"
    /\ Unregister(w)
    /\ Stop(w)
    /\ rows' = IF Running(task[w].row) THEN rows ELSE [rows EXCEPT ![task[w].row] = BlankRow]
    /\ UNCHANGED <<pid, reaped, due, dbErrors, crashes>>

(***************************************************************************)
(* Time.                                                                   *)
(***************************************************************************)
\* A run passes scan_timeout_minutes. Nothing interrupts it.
Age(r) ==
    /\ Running(r) /\ ~rows[r].aged
    /\ rows' = [rows EXCEPT ![r].aged = TRUE]
    /\ UNCHANGED <<pid, reaped, registry, cancels, task, due, dbErrors, crashes>>

\* The site's interval, or the shorter retry after a resting host, elapses.
ComeDue(s) ==
    /\ ~due[s]
    /\ due' = [due EXCEPT ![s] = TRUE]
    /\ UNCHANGED <<pid, reaped, registry, cancels, task, rows, dbErrors, crashes>>

Advance(w) ==
    \/ Register(w) \/ Refuse(w)
    \/ ClaimBusy(w) \/ Claim(w) \/ ClaimError(w)
    \/ Open(w) \/ OpenError(w)
    \/ CloseUnregistered(w) \/ StreamRaises(w) \/ Conclude(w) \/ StreamError(w)
    \/ BrokenFlushed(w) \/ BrokenRaises(w)
    \/ Close(w) \/ CloseError(w)
    \/ Release(w)

Next ==
    \/ \E p \in Procs : \/ Start(p) \/ Crash(p) \/ Exit(p) \/ Reap(p)
                        \/ \E s \in Sites : RequestCancel(p, s)
    \/ \E w \in Workers : \/ Advance(w)
                          \/ \E s \in Sites : Dispatch(w, s) \/ Request(w, s)
    \/ \E r \in Rows : Age(r)
    \/ \E s \in Sites : ComeDue(s)

Spec == Init /\ [][Next]_vars

\* A worker thread keeps running and every scrape ends (requests time out); the
\* service manager restarts the web application; its loop reaps and ticks; time
\* passes. Nobody is obliged to press a button or to run the command line.
Fairness ==
    /\ \A w \in Workers : WF_vars(Advance(w))
    /\ \A p \in Schedulers : WF_vars(Start(p)) /\ WF_vars(Reap(p))
    /\ \A s \in Sites : WF_vars(ComeDue(s)) /\ WF_vars(\E w \in Workers : Dispatch(w, s))
    /\ \A r \in Rows : WF_vars(Age(r))

FairSpec == Spec /\ Fairness

(***************************************************************************)
(* What the code owes.                                                     *)
(***************************************************************************)
\* One scan per site inside a process, whatever times out, fails or is left
\* behind: the registry refuses the second one (_running under _lock).
InProcessExclusion ==
    \A w, v \in Workers :
        (w # v /\ Home[w] = Home[v] /\ Active(w) /\ Active(v)) => task[w].site # task[v].site

\* The registry forgets a site on every way out of run_scan: an entry without a
\* scan behind it would refuse that site until the process restarts.
NoLeakedClaim ==
    \A p \in Procs : \A s \in registry[p] :
        \E w \in Workers : Home[w] = p /\ Active(w) /\ task[w].site = s

\* Nobody but the worker running it ends a live run before its timeout: not
\* another process's claim, not the reaper of one that has just started.
LiveRunLeftAlone ==
    [][\A w \in Workers : \A r \in Rows :
         (task[w].row = r /\ Running(r) /\ ~rows[r].aged /\ rows'[r].status # "running")
            => task'[w] # task[w]]_vars

\* "Only one scan per site runs at a time", across the processes that share the
\* database, as the module docstring has it.
OneScanPerSite ==
    \A w, v \in Workers :
        (w # v /\ task[w].pc = "stream" /\ task[v].pc = "stream") => task[w].site # task[v].site

\* A row does not stay RUNNING: its worker closes it, or the next scan of the
\* site fails it once its owner is gone or its time is up.
EveryRunCloses ==
    \A r \in Rows : (Running(r) /\ rows[r].site \notin Unregistered) ~> ~Running(r)

\* A due site is scanned and scheduled again: a refused request is "picked up by
\* the next tick".
NextTickPicksItUp == \A s \in Sites \ Unregistered : due[s] ~> ~due[s]

(***************************************************************************)
(* The strengthening that makes exclusion and LiveRunLeftAlone inductive.  *)
(***************************************************************************)
\* What a worker's program counter says of the rest of its record.
TaskOK ==
    \A w \in Workers :
        /\ task[w].pc # "idle" => task[w].site \in Sites /\ Up(Home[w])
        /\ task[w].pc = "close" => task[w].verdict \in Closed
        /\ task[w].row \in Rows <=> task[w].pc \in {"stream", "broken", "close", "release"}

\* A scanning worker's site is registered with its process.
RegistryOK == \A w \in Workers : Active(w) => task[w].site \in registry[Home[w]]

\* No two workers write one row, and a RUNNING row names its worker's process.
OwnerOK ==
    \A w \in Workers : \A r \in Rows : task[w].row = r =>
        /\ \A v \in Workers : task[v].row = r => v = w
        /\ Running(r) => rows[r].host = HostOf[Home[w]] /\ rows[r].pid = pid[Home[w]]

IndInv == TypeOK /\ TaskOK /\ RegistryOK /\ InProcessExclusion /\ OwnerOK

\* Each process's registry implements a mutex over sites.
Holding == [w \in Workers |-> IF Active(w) THEN task[w].site ELSE NoSite]

Mutex == INSTANCE SiteMutex WITH holding <- Holding

\* Every step of a scan takes one site, lets one go, or does neither.
RefinesSiteMutex == Mutex!Spec
=============================================================================
