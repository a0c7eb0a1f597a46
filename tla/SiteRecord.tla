------------------------------ MODULE SiteRecord ------------------------------
(***************************************************************************)
(* The schedule and the alert state a sites row carries, and the four that *)
(* write it: a scan (scan_service.run_scan and scanalerts.consider), the   *)
(* scheduler's tick (scanalerts.report_overdue), an administrator          *)
(* (api/sites.update_site) and the inbox reader (queue_scan).              *)
(*                                                                         *)
(* Sessions are opened with expire_on_commit=False, so a scan and a tick   *)
(* go on reading the row as they loaded it, and a commit writes only the   *)
(* columns they have changed.                                              *)
(***************************************************************************)
EXTENDS Naturals

CONSTANTS
    Sites,
    Intervals,      \* scan_interval_minutes an administrator chooses between
    MaxFailures,    \* bound: failures that begin at one site in a behaviour
    MaxCrashes,     \* bound: restarts of the web application
    MaxEdits,       \* bound: changes of an interval
    NoSite

ASSUME ConstantsAssumption ==
    /\ MaxFailures \in Nat
    /\ MaxCrashes \in Nat
    /\ MaxEdits \in Nat
    /\ Intervals # {}
    /\ Intervals \intersect {"null", "asked", "elapsed", "retry"} = {}
    /\ NoSite \notin Sites

VARIABLES
    site,       \* the sites table
    scan,       \* scan[s]: the scan of s under way, with the row as it loaded it
    resting,    \* sites whose platform rests
    todo,       \* todo[s]: the failure the tick has s on its list for, 0 for none
    saying,     \* the site whose "stopped scraping" mail the tick is sending
    failures,   \* failures[s]: failures of s that have begun
    crashes,
    edits,
    mailed,     \* history: mailed[s][e] "stopped" mails attempted about failure e of s
    blips,      \* history: blips[s] failures of s that ended inside the grace
    told        \* history: told[s] the last mail attempted about s

vars == <<site, scan, resting, todo, saying, failures, crashes, edits, mailed, blips, told>>

(***************************************************************************)
(* The data.                                                               *)
(***************************************************************************)
\* next_scan_at: NULL; brought forward by somebody who wants a scan; passed;
\* after a resting host's pause; or one interval after the last scan.
Waiting == {"retry"} \union Intervals
When == {"null", "asked", "elapsed"} \union Waiting

\* scan_failing_since, as the number of the failure; 0 is NULL.
Failure == 0..MaxFailures

\* lasted: scan_failing_since is older than scan_alert_grace_minutes.
SiteRow == [enabled : BOOLEAN, interval : Intervals, next : When,
            failing : Failure, lasted : BOOLEAN, reported : BOOLEAN]

\* HEALTHY is SUCCESS or PARTIAL; a rested run failed on a host of ours that rests.
Verdicts == {"healthy", "failed", "rested", "canceled"}

Scan == [pc : {"idle", "running", "alert"}, row : SiteRow, verdict : Verdicts \union {"none"}]

NewSite(interval) == [enabled |-> TRUE, interval |-> interval, next |-> "null",
                      failing |-> 0, lasted |-> FALSE, reported |-> FALSE]

\* What is written to a row, and to a scan's record, in one go.
Failing(row, e) == [row EXCEPT !.failing = e, !.lasted = FALSE]
Switched(row, on) == [row EXCEPT !.enabled = on, !.next = IF on THEN "asked" ELSE "null"]
Rebased(row, i, w) == [row EXCEPT !.interval = i, !.next = IF row.enabled THEN w ELSE @]
Ended(sc, v) == [sc EXCEPT !.pc = "alert", !.verdict = v]

\* Of a failure that ended, only what differs from the row as it was loaded.
Working(row, seen) ==
    LET calm == IF seen.failing # 0 THEN Failing(row, 0) ELSE row
    IN  IF seen.reported THEN [calm EXCEPT !.reported = FALSE] ELSE calm

\* Fault: a site that was never scheduled is not due.
DueIfScheduled(s) == site[s].next \in {"asked", "elapsed"}

\* due_site_ids: a NULL is due, as is a date that has come.
Due(s) == site[s].next \in {"null", "asked", "elapsed"}

TypeOK ==
    /\ site \in [Sites -> SiteRow]
    /\ scan \in [Sites -> Scan]
    /\ resting \subseteq Sites
    /\ todo \in [Sites -> Failure]
    /\ saying \in Sites \union {NoSite}
    /\ failures \in [Sites -> Failure]
    /\ crashes \in 0..MaxCrashes
    /\ edits \in 0..MaxEdits
    /\ mailed \in [Sites -> [1..MaxFailures -> Nat]]
    /\ blips \in [Sites -> SUBSET (1..MaxFailures)]
    /\ told \in [Sites -> {"nothing", "stopped", "again"}]

NotScanning(row) == [pc |-> "idle", row |-> row, verdict |-> "none"]

\* seed_sites: every shop enabled, never scanned.
Init ==
    /\ \E i \in Intervals :
         /\ site = [s \in Sites |-> NewSite(i)]
         /\ scan = [s \in Sites |-> NotScanning(NewSite(i))]
    /\ resting = {}
    /\ todo = [s \in Sites |-> 0]
    /\ saying = NoSite
    /\ failures = [s \in Sites |-> 0]
    /\ crashes = 0
    /\ edits = 0
    /\ mailed = [s \in Sites |-> [e \in 1..MaxFailures |-> 0]]
    /\ blips = [s \in Sites |-> {}]
    /\ told = [s \in Sites |-> "nothing"]

(***************************************************************************)
(* A scan. At most one per site: ScanLifecycle has how that is kept.       *)
(***************************************************************************)
Load(s) ==
    /\ scan[s].pc = "idle"
    /\ scan' = [scan EXCEPT ![s] = [pc |-> "running", row |-> site[s], verdict |-> "none"]]
    /\ UNCHANGED <<site, resting, todo, saying, failures, crashes, edits, mailed, blips, told>>

\* The tick submits what due_site_ids returns.
Dispatch(s) == site[s].enabled /\ Due(s) /\ s \notin resting /\ Load(s)

\* "Scan now" and the command line ask neither the schedule nor the switch.
ScanNow(s) == Load(s)

\* The finally of run_scan: schedule_next from the row as it was loaded.
\* A new failure is counted against its bound here, where it begins.
Finish(s) ==
    /\ scan[s].pc = "running"
    /\ \E v \in Verdicts :
         /\ v \in {"failed", "rested"} =>
              scan[s].row.failing # 0 \/ failures[s] < MaxFailures
         /\ scan' = [scan EXCEPT ![s] = Ended(@, v)]
         /\ site' = [site EXCEPT ![s].next = IF v = "rested" THEN "retry" ELSE scan[s].row.interval]
    /\ UNCHANGED <<resting, todo, saying, failures, crashes, edits, mailed, blips, told>>

EndScan(s) == scan' = [scan EXCEPT ![s] = NotScanning(site[s])]

\* consider, for a run that was canceled.
Ignore(s) ==
    /\ scan[s].pc = "alert" /\ scan[s].verdict = "canceled"
    /\ EndScan(s)
    /\ UNCHANGED <<site, resting, todo, saying, failures, crashes, edits, mailed, blips, told>>

\* Fault: every failed scan is dated a failure of its own.
EveryFailureIsNew(s) ==
    /\ scan[s].pc = "alert" /\ scan[s].verdict \in {"failed", "rested"}
    /\ EndScan(s)
    /\ failures' = [failures EXCEPT ![s] = @ + 1]
    /\ site' = [site EXCEPT ![s] = Failing(@, failures[s] + 1)]
    /\ UNCHANGED <<resting, todo, saying, crashes, edits, mailed, blips, told>>

\* Fault: a failed scan restarts the clock of the failure it belongs to.
FailureRestartsClock(s) ==
    /\ scan[s].pc = "alert" /\ scan[s].verdict \in {"failed", "rested"}
    /\ EndScan(s)
    /\ IF scan[s].row.failing = 0
       THEN /\ failures' = [failures EXCEPT ![s] = @ + 1]
            /\ site' = [site EXCEPT ![s] = Failing(@, failures[s] + 1)]
       ELSE /\ failures' = failures
            /\ site' = [site EXCEPT ![s].lasted = FALSE]
    /\ UNCHANGED <<resting, todo, saying, crashes, edits, mailed, blips, told>>

\* consider, for a run that failed: the clock starts at the first one.
RecordFailure(s) ==
    /\ scan[s].pc = "alert" /\ scan[s].verdict \in {"failed", "rested"}
    /\ EndScan(s)
    /\ IF scan[s].row.failing = 0
       THEN /\ failures' = [failures EXCEPT ![s] = @ + 1]
            /\ site' = [site EXCEPT ![s] = Failing(@, failures[s] + 1)]
       ELSE UNCHANGED <<failures, site>>
    /\ UNCHANGED <<resting, todo, saying, crashes, edits, mailed, blips, told>>

\* A failure that ends before it has outlasted the grace.
EndFailure(s) ==
    blips' = [blips EXCEPT ![s] =
        @ \union (IF site[s].lasted THEN {} ELSE {site[s].failing} \ {0})]

Answer(s) == told' = [told EXCEPT ![s] = IF scan[s].row.reported THEN "again" ELSE @]

\* Fault: the clock is stopped only for a failure that was reported.
RecoveryOfReportedOnly(s) ==
    /\ scan[s].pc = "alert" /\ scan[s].verdict = "healthy"
    /\ EndScan(s)
    /\ site' = IF scan[s].row.reported
               THEN [site EXCEPT ![s] = Working(@, scan[s].row)]
               ELSE site
    /\ EndFailure(s) /\ Answer(s)
    /\ UNCHANGED <<resting, todo, saying, failures, crashes, edits, mailed>>

\* consider, for a healthy run: stop the clock, and say so to those who were
\* told. Both columns are compared with the row as the scan loaded it, and only
\* one that differs from that is written.
RecordRecovery(s) ==
    /\ scan[s].pc = "alert" /\ scan[s].verdict = "healthy"
    /\ EndScan(s)
    /\ site' = [site EXCEPT ![s] = Working(@, scan[s].row)]
    /\ EndFailure(s) /\ Answer(s)
    /\ UNCHANGED <<resting, todo, saying, failures, crashes, edits, mailed>>

Consider(s) == Ignore(s) \/ RecordFailure(s) \/ RecordRecovery(s)

(***************************************************************************)
(* report_overdue, on the scheduler's tick.                                *)
(***************************************************************************)
Overdue(s) ==
    /\ site[s].enabled /\ ~site[s].reported
    /\ site[s].failing # 0 /\ site[s].lasted
    /\ s \notin resting

\* Every overdue site is loaded at once, and mailed one after another.
ListOverdue ==
    /\ saying = NoSite /\ \A s \in Sites : todo[s] = 0
    /\ todo' = [s \in Sites |-> IF Overdue(s) THEN site[s].failing ELSE 0]
    /\ UNCHANGED <<site, scan, resting, saying, failures, crashes, edits, mailed, blips, told>>

\* Fault: the mark is set on the object and never committed.
MarkUncommitted(s) ==
    /\ saying = NoSite /\ todo[s] # 0
    /\ saying' = s
    /\ UNCHANGED <<site, scan, resting, todo, failures, crashes, edits, mailed, blips, told>>

\* Marked, committed, and only then mailed.
Mark(s) ==
    /\ saying = NoSite /\ todo[s] # 0
    /\ site' = [site EXCEPT ![s].reported = TRUE]
    /\ saying' = s
    /\ UNCHANGED <<scan, resting, todo, failures, crashes, edits, mailed, blips, told>>

\* One attempt: a mail that cannot be sent, or has nobody to go to, is not tried again.
Mail(s) ==
    /\ saying = s
    /\ mailed' = [mailed EXCEPT ![s][todo[s]] = @ + 1]
    /\ told' = [told EXCEPT ![s] = "stopped"]
    /\ todo' = [todo EXCEPT ![s] = 0]
    /\ saying' = NoSite
    /\ UNCHANGED <<site, scan, resting, failures, crashes, edits, blips>>

(***************************************************************************)
(* An administrator, and the inbox reader.                                 *)
(***************************************************************************)
SetNext(s, w) == site' = [site EXCEPT ![s].next = w]

Disable(s) ==
    /\ site' = [site EXCEPT ![s] = Switched(@, FALSE)]
    /\ UNCHANGED <<scan, resting, todo, saying, failures, crashes, edits, mailed, blips, told>>

\* Only turning it on schedules it at once.
Enable(s) ==
    /\ ~site[s].enabled
    /\ site' = [site EXCEPT ![s] = Switched(@, TRUE)]
    /\ UNCHANGED <<scan, resting, todo, saying, failures, crashes, edits, mailed, blips, told>>

\* An enabled site is rescheduled from its last scan, which may be long ago.
SetInterval(s, i) ==
    /\ edits < MaxEdits
    /\ edits' = edits + 1
    /\ \E w \in {i, "elapsed"} : site' = [site EXCEPT ![s] = Rebased(@, i, w)]
    /\ UNCHANGED <<scan, resting, todo, saying, failures, crashes, mailed, blips, told>>

\* queue_scan: an email points at pages we do not hold. Whether the last scan is too recent for
\* another, unless it is forced, is left open.
QueueScan(s) ==
    /\ site[s].enabled
    /\ site[s].next \notin {"asked", "elapsed"}
    /\ SetNext(s, "asked")
    /\ UNCHANGED <<scan, resting, todo, saying, failures, crashes, edits, mailed, blips, told>>

(***************************************************************************)
(* Time, platform rests, and restarts.                                     *)
(***************************************************************************)
ComeDue(s) ==
    /\ site[s].next \in Waiting
    /\ SetNext(s, "elapsed")
    /\ UNCHANGED <<scan, resting, todo, saying, failures, crashes, edits, mailed, blips, told>>

\* The failure outlasts the grace.
Last(s) ==
    /\ site[s].failing # 0 /\ ~site[s].lasted
    /\ site' = [site EXCEPT ![s].lasted = TRUE]
    /\ UNCHANGED <<scan, resting, todo, saying, failures, crashes, edits, mailed, blips, told>>

RestBegins(s) ==
    /\ s \notin resting
    /\ resting' = resting \union {s}
    /\ UNCHANGED <<site, scan, todo, saying, failures, crashes, edits, mailed, blips, told>>

RestEnds(s) ==
    /\ s \in resting
    /\ resting' = resting \ {s}
    /\ UNCHANGED <<site, scan, todo, saying, failures, crashes, edits, mailed, blips, told>>

\* The web application restarts: scans and the tick's list are gone.
Crash ==
    /\ crashes < MaxCrashes
    /\ crashes' = crashes + 1
    /\ scan' = [s \in Sites |-> NotScanning(site[s])]
    /\ todo' = [s \in Sites |-> 0]
    /\ saying' = NoSite
    /\ UNCHANGED <<site, resting, failures, edits, mailed, blips, told>>

Next ==
    \/ \E s \in Sites :
         \/ Dispatch(s) \/ ScanNow(s) \/ Finish(s) \/ Consider(s)
         \/ Mark(s) \/ Mail(s)
         \/ Disable(s) \/ Enable(s) \/ QueueScan(s)
         \/ \E i \in Intervals : SetInterval(s, i)
         \/ ComeDue(s) \/ Last(s) \/ RestBegins(s) \/ RestEnds(s)
    \/ ListOverdue
    \/ Crash

Spec == Init /\ [][Next]_vars

\* Ticks recur, scans end, mail is sent or given up on, and time passes. Strong
\* for the dispatch, because a platform may rest again and again: a tick falls
\* between two rests.
Fairness ==
    /\ WF_vars(ListOverdue)
    /\ \A s \in Sites :
         /\ SF_vars(Dispatch(s)) /\ WF_vars(Finish(s)) /\ WF_vars(Consider(s))
         /\ WF_vars(Mark(s)) /\ WF_vars(Mail(s))
         /\ WF_vars(ComeDue(s)) /\ WF_vars(Last(s)) /\ WF_vars(RestEnds(s))

FairSpec == Spec /\ Fairness

(***************************************************************************)
(* What the code owes.                                                     *)
(***************************************************************************)
\* "A site broken for a fortnight must not mail every night for a fortnight": a
\* failure is mailed at most once, whatever restarts or overlaps. The mark comes first, so that
\* the one attempt may be lost, and is never repeated (scanalerts.report_overdue).
OnceForEachFailure == \A s \in Sites : \A e \in 1..MaxFailures : mailed[s][e] <= 1

\* "A blip that recovers inside the grace says nothing at all."
BlipSaysNothing == \A s \in Sites : \A e \in blips[s] : mailed[s][e] = 0

\* An enabled site goes on being scanned, whatever is done to its schedule.
EnabledIsScanned ==
    \A s \in Sites : site[s].enabled ~> (scan[s].pc # "idle" \/ ~site[s].enabled)

\* A failure that lasts comes to its mail: unless it ends, or the shop is switched off or
\* rests, or a restart comes between the mark and the mail, one is attempted that says it
\* stopped. Whether it arrives is the mail server's (scanalerts.report_overdue).
LastingFailureIsMailed ==
    \A s \in Sites : \A e \in 1..MaxFailures : \A n \in 0..MaxCrashes :
        (site[s].failing = e /\ ~site[s].reported /\ crashes = n)
            ~> (\/ told[s] = "stopped" \/ site[s].failing # e
                \/ ~site[s].enabled \/ s \in resting \/ crashes > n)

(***************************************************************************)
(* The strengthening that makes the two promises about mail inductive.     *)
(***************************************************************************)
\* Nobody but the scan under way moves the clock, so the scan's copy of it is
\* never stale; and a scan that failed has a number left for its failure.
ScanOK(s) ==
    /\ scan[s].pc # "idle" => scan[s].row.failing = site[s].failing
    /\ scan[s].pc = "alert" => scan[s].verdict \in Verdicts
    /\ (/\ scan[s].pc = "alert" /\ scan[s].verdict \in {"failed", "rested"}
        /\ scan[s].row.failing = 0) => failures[s] < MaxFailures

\* A failure that has not begun is nowhere on record.
FreshOK(s) ==
    /\ site[s].failing <= failures[s]
    /\ todo[s] <= failures[s]
    /\ \A e \in 1..MaxFailures :
         e > failures[s] => mailed[s][e] = 0 /\ e \notin blips[s]

\* The tick lists failures that outlast the grace and have not been mailed, and
\* mails one only once its mark is committed.
ListOK(s) ==
    /\ todo[s] # 0 =>
         /\ mailed[s][todo[s]] = 0 /\ todo[s] \notin blips[s]
         /\ site[s].failing = todo[s] => site[s].lasted
    /\ saying = s =>
         /\ todo[s] # 0
         /\ site[s].failing = todo[s] => site[s].reported

\* A failure is mailed once and a blip never; a mailed failure that goes on is
\* marked, and is no blip.
MailOK(s) ==
    \A e \in 1..MaxFailures :
        /\ mailed[s][e] <= 1
        /\ e \in blips[s] => mailed[s][e] = 0
        /\ site[s].failing = e =>
             /\ mailed[s][e] # 0 => site[s].reported /\ site[s].lasted
             /\ e \notin blips[s]

SiteOK(s) == ScanOK(s) /\ FreshOK(s) /\ ListOK(s) /\ MailOK(s)

IndInv == TypeOK /\ \A s \in Sites : SiteOK(s)
=============================================================================
