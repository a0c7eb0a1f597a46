# milsurp: a verification project

milsurp scrapes the catalogs of about a hundred military-surplus dealers on a
schedule, keeps what it finds in one SQL database, and tells its readers what is
new, cheaper or gone. This directory holds TLA+ models of the parts of it where
threads, processes, restarts and other people's servers meet, the TLC runs that
check them, and TLAPS proofs of what matters most.

Paths are relative to `src/backend/app/` unless they begin with `tests/` or
`backend/`.

- [The system](#the-system) - the inventory
- [The modules](#the-modules) - what models what
- [The runs](#the-runs) - what is checked, within which bounds, and what it shows
- [Fairness](#fairness)
- [The proofs](#the-proofs)
- [Disagreements between the code and its documentation](#disagreements)
- [Not modelled, and the plan](#the-plan)

## The system

One *web application* process: request threads, one scheduler thread
(`scheduler.py`) and a pool of scan workers. Beside it, any number of *command
line* processes (`backend/cli.py`) that run one operation and exit. They share the
database and nothing else; inside a process, threads share a few dictionaries
under locks. There are no messages: everything meets in a row or in a dictionary.

| Component | State | Operations | What makes it hard | What makes it correct |
|---|---|---|---|---|
| Scan lifecycle: `services/scan_service.py` (run_scan, _claim_site, reap_stale_runs), `scheduler.py` | per process `_running`, `_cancel_flags`, `_inflight`; the `scan_runs` table | register, claim, open, stream, close, release, cancel, reap, dispatch | two processes, two transactions to one claim, crashes, pids handed out again, commits that fail half-way | one scan per site; no live run ended by a stranger; every run closed; a due site scanned |
| Site schedule and scan alerts: `scan_service.schedule_next`, `due_site_ids`, `services/scanalerts.py`, `api/sites.py`, `inbox.queue_scan` | seven columns of `sites` | load, finish, consider, list overdue, mark, mail, enable, disable, change interval, ask for a scan | a scan works for minutes from a row that others change meanwhile; a restart between a mark and its mail | a failure mailed once, a blip never, a lasting failure always; an enabled site goes on being scanned |
| Host cooldown register: `services/cooldown.py`; platform rests: `services/platform_rest.py`; the request loop: `scrapers/base.py` | `host_cooldowns`, `platform_refusals`, a cache per process | ask, answer, retry, succeed, 429, rest, refuse, lapse, clear | every fetcher reads a row in one transaction and writes it in another; a rest is six transactions, each of which may fail | a rest is earned, covers the platform, and is ended by no request that has seen it |
| Catalog reconciliation: `scan_service` (upsert, retire, stale, shrink guard, close), `scrapers/woocommerce.py`, `collectors_firearms.py`, `choices.py` | `items`, `sites.last_success_at`; of a run `seen_keys`, `split_parents`, `unread_categories`, `warnings`; the scraper's `seen` | walk, skip, stop, read, split, upsert, retire, reconcile, finish | a shop that sells while it is read; a section or a product page that cannot be read; a walk that ends in silence; runs cut off anywhere | what is de-listed is what was looked for; a success is the truth of what its walk came to; no page twice |
| Prices: `scan_service`, `services/watchpoll.py`, `inbox.recheck`, `services/pricing.py` | `items.price`, `lowest_price`, `is_sold`, `price_history` | record, poll, re-check, delete | a poll writes from rows loaded before up to sixty pages were read, and another may run beside it; a scan stamps all it stores with its start | the row comes to say what the shop shows |
| Photo queue: `scan_service._download_photos`, `delete_items`, `services/image_store.py`, `scheduler.py` | `item_photos` (file, `attempts`), the image root, `_photo_runs` | queue, take down, drain (a scan's, the scheduler's, the button's, the command line's), rest, prune, delete | drains over one queue whose batch was read before; a file is there before its row says so; two listings share one file | what is stored has its file; given up on only for answers that last |
| Alerts to readers: `services/watchlist.py`, `wishlist.py`, `renotify.py`, `pushnotify.py` | `alerted_price`, `alerted_at`, `restock_alerted_at` | gather, send, mark, expire, edit | a restart or a lost commit between send and mark; stamps of a scan that are older than the alert | what is due is told; what a reader knows is not |
| Digest: `services/digest.py` | `email_preferences.last_digest_cutoff`, `next_send_at` | list, load, cut off, query, send, mark, skip, fail | scans that store under an older stamp; two digests at once; a failure before there is a watermark | what the watermark has passed was told, and once |
| Inbox and offers: `services/inbox.py`, `offers.py` | `inbox_messages`, `offers` | poll, match, queue a scan | the same message read twice | an offer is recorded once |
| Background jobs: `services/makerjobs.py`, `ammunition.py` | `*_jobs` | claim, progress, cancel, interrupt | a restart in the middle | one at a time; none RUNNING for ever |
| Reference generation: `services/refgen.py` and the registries | one counter in the database; per process `_seen`, `_checked_at` and the compiled copy | bump, look, drop, compile, invalidate | a process that compiled while another wrote; a look inside a transaction that may roll back | a stale copy is found out |
| Armory, undo: `services/armory.py`, `armoryundo.py` | `firearms`, an undo record | edit, bulk edit, undo | an undo of rows edited since | undo restores what it replaced and nothing else |
| Sessions and sign-in: `services/usersessions.py`, `sessions.py`, `api/auth.py`, `services/twofactor.py`, `passwordreset.py`, `ratelimit.py` | `user_sessions`, codes, counters | issue, renew, revoke, expire, consume | a code used by two requests at once | single use; revoked means revoked |
| Canary: `services/canary.py` | consecutive failures per shop | probe, report | a rest between two probes | reported once |
| Hot deals, market: `services/hotdeals.py`, `market.py` | none of their own | recompute | - | arithmetic |
| Scrapers: `scrapers/*.py` | none | parse one shop's pages | text | text |
| Search, web API, front end, migrations, packaging | none of their own | - | - | - |

How they interact: the scheduler's tick asks `due_site_ids` (schedule), which
excludes sites whose platform rests (register), and submits `run_scan` (lifecycle)
to its pool; `run_scan` reads pages through `ScrapeContext._request` (register),
reconciles the catalog, and in its `finally` writes the schedule and calls
`scanalerts.consider`; the next tick's `report_overdue` reads what `consider` wrote
and the register. An administrator's request can write the schedule, start or
cancel a scan, and clear a pause at any point of that. At its end a scan drains the
photo queue of its site; other ticks drain it too, poll the watched listings, mail
what is due to readers from the rows scans and polls have stored, and mail digests of
what scans have stored since the last. Whatever matches a title reads a compiled copy
of the reference tables, and looks at the generation before it does.

## The modules

| Module | Models | Lines it follows |
|---|---|---|
| `SiteMutex` | what the lifecycle promises inside one process: a worker takes a site only while no other worker of its process holds it | abstract |
| `ScanLifecycle` | one scan of one site, from the request to the release of its claim, over several processes | `scan_service.py` 98-106, 260-302, 1388-1578, 1812-1882; `scheduler.py` 100-184, 584-609; `api/sites.py` 369-448; `backend/cli.py` 385-425 |
| `SiteRecord` | the schedule and the alert state a `sites` row carries, and the four that write it | `scanalerts.py` 120-227; `scan_service.py` 1505-1566, 1839-1866, 1931-1952; `api/sites.py` 287-306; `inbox.py` 546-558 |
| `HostRest` | the register of hosts to be left alone, platform rests, and the requests that use both | `cooldown.py` 56-331, 375-390; `platform_rest.py` 57-216; `base.py` 536-607 |
| `Catalog` | one scan after another of one shop: what the scraper reads and what the scan makes of it | `scan_service.py` 901-1021, 1629-1690, 1692-1866; `woocommerce.py` 273-436; `collectors_firearms.py` 286-337; `choices.py` 138-168; the loop calls `_upsert_item`, 510-642 |
| `PhotoQueue` | the photographs of a site that wait for a file, every drain that fetches them, and the two that unlink files | `scan_service.py` 109-118, 868-887, 996-1037, 1141-1152, 1183-1385; `image_store.py` 213-248, 408-489, 529-613, 783-797; `api/sites.py` 202-210; `scheduler.py` 612-632; `backend/cli.py` 606-611, 1503-1519 |
| `RefGen` | the compiled copy of the reference tables in one process, kept in step with edits here and elsewhere | `refgen.py` 55-192; `armory.py` 616-669, 724-761; `api/manufacturers.py` 145-166; `manufacturers.py` 291-297; `database.py` 84-110 |
| `WatchAlerts` | one listing, one reader's watch on it, what stores the listing and what mails the reader | `watchpoll.py` 60-188; `renotify.py` 54-110; `watchlist.py` 155-265; `scheduler.py` 662-744; `api/watchlist.py` 72-114; `inbox.py` 469-544, 679-714; `scan_service.py` 510-597, 996-1020, 1648-1728 |
| `Digest` | one reader's digest: its watermark, its schedule, and what is new by it | `digest.py` 209-244, 854-881, 924-1013, 1370-1386; `api/preferences.py` 121-185; `scheduler.py` 635-660; `backend/cli.py` 555-583; `scan_service.py` 491-526 |
| `*Proofs` | theorems about the module they extend | |
| `MC*` | instances for TLC | |

**ScanLifecycle.** `registry[p]` is `_running` of process `p`, `cancels[p]` the set
events of `_cancel_flags`, `rows` the `scan_runs` table, `task[w]` where worker
`w` is in `run_scan`: *queued* (submitted, not begun), *claim* (registered,
1547), *open* (claimed in the database, 1554), *stream* (row inserted, 1574),
*broken* (a failed flush has deactivated the session), *close* (the inner
`finally`), *release* (the outer one). The transaction boundaries are the code's:
`Claim` and `Open` are two steps because they are two transactions, `Register` is
one because it is under `_lock`. A row keeps its site, host, pid and status, and of
its start only whether `scan_timeout_minutes` have passed (`aged`). What the scraper
yields is abstracted to how the stream ends. A commit that may fail is an action of
its own (`ClaimError`, `OpenError`, `StreamError`, `CloseError`), enabled by the
constant `DbErrors`; `_RunLog.flush` swallowing such an error, and what its rollback
takes with it, is in `BrokenFlushed`, `BrokenRaises` and `CloseError`; a verdict may also be
flushed early by the line the error handler logs (`StreamRaises`).

**SiteRecord.** The sessions of this code base keep objects unexpired after a
commit, so a scan and a tick go on reading the row as they loaded it and write only
the columns they change: `scan[s].row` is that copy, and `Working` writes against
it. `next_scan_at` is kept as *why* it has its value: NULL, asked for, passed, the
short retry after a resting host, or one interval after a scan. `lasted` says
that `scan_failing_since` is older than the grace. A failure is numbered when it
begins, so that the history variables `mailed` and `blips` can speak of it. A mail is one
that is *attempted*: `_mail_admins` swallows a MailError, sends nothing where no admin has an
address, and the failure stays marked either way.

**HostRest.** One platform and its shops. `call[t].seen` is what a request's earlier
transaction read; the later one writes from it (`cooldown.refused` and `succeeded`,
`_rest`), and nothing keeps two fetchers from each other in between: every interleaving
is explored. A 429 is six steps, because `saw_429` reads and writes six times: `TooMany`
(the refusal), `Count`, `Look` (is a rest running?), `ReadRows`, `Rest` and `Spend`, and
`Unrecorded` is its broad `except` at any of them, among them between the rest's
commit and the spending of its evidence. An INSERT that meets a row, or an UPDATE that
meets none, undoes its transaction, which the callers swallow. Time is three facts about
`until`: past, at most an hour ahead, a week ahead. `Quiet` says that no request outlasts a
day. `LastCount` is the last refusal whose doubled pause a `timedelta` can hold (41 with
the code's numbers). `heard`, `passed` and `cut` are history: who answered 429 since a
rest last began, which counts a rest has overtaken, and whose share of it was ended early.

**Catalog.** `shelf` is the shop, which is not part of the program: `Move` lists,
moves or withdraws a product at any page boundary, and for the shop with a sitemap
dates the sections it touched (`edited`). `scan` is what one run keeps: the walk's
section and page, the scraper's `seen` (`met`), and of `run_scan` `seen_keys`,
`split_parents`, `unread_categories` and whether `warnings` is empty. `found` and
`pending` are the page and the product being handed over; `Upsert` is one turn of the
loop with its commit, so that a run can be cut off between any two. `skips` chooses
between the WooCommerce walker and the one shop's `_stream` that skips what its
category sitemap calls unchanged, and that does not raise when every section rests.
`NoNext` is the walk that ends in silence before its last page: at the cap on pages, at a
link it has followed already, or at one to another host. `cut` and `steady` are history:
the pages a section that was begun was left without, and which cards the shop has not
touched since the run began. A stored listing keeps whether it is active
and its section; price, text, photographs and what is sold are other components'.

**PhotoQueue.** A file is named after its site and its source URL, so a URL stands for
its file and two listings that show one URL share it. `drains[d]` is where a drain is
in `_download_photos`: the rest of its batch, and the `attempts` it loaded, from which
it counts on. `Answered` puts the file in its place; `Record` is the commit of that one
photograph. `Interrupted` stops a drain anywhere, and `RecordNothing` is the UPDATE that
matches no row because another deleted it. The button's drain claims
`_photo_runs`; the others claim nothing. `Press` starts again what was given up on, for the
button and for `fetch-photos --retry-failed`. A scan's drain works in the scan's own session,
whose objects no commit expires: `Holds` leaves it the photographs of its last listing
as they were before it, and `Take` loads that copy where there is one.
Housekeeping reads what is referenced, unlinks and commits in steps of their own, as
`prune_orphans` and `delete_items` do. `heard`, `handed` and `torn` are history: the
lasting answers about each photograph (a press does not reset it: a count from before the
press may be written after it), the files a drain stored since housekeeping
looked, and those it unlinked all the same or whose row outlived them.

**RefGen.** The registries are one copy, each being compiled under its lock. `tx` is the
one write transaction open in this process, with the rows as it sees them; other processes
are `Elsewhere`. `Carries[m]` are the maker and the caliber whose names a model's rule has
in it, whatever their own status (`Carried`, `Names`). A thread that matches goes through
`Look`, `ReadGeneration`, `Same` or `Moved`, `Drop` and `Fetch`, because `check` releases
its lock before it queries; a writer either matches inside its transaction, after its
flush, or commits first and invalidates then. `excuses` is history: the four ways in which
the code takes a generation, or a copy, for committed when it is not (see
[below](#disagreements)).

**WatchAlerts.** Times are only ever compared here, so no clock is kept: `rose`, `old`
and `back` say how stamps of the listing compare with those of the watch, and `early`
that what a scan or a poll is about to store carries a stamp older than the last alert.
Everybody who stores loads first: `scan.copy` and `poll[p].copy` are the row as its session
holds it, `Stored` and `Polled` compute from that and write only what comes out other than it
was loaded. There are two pollers, because `inbox.start_check` runs a check in a thread of
its own beside the scheduler's (`Tick`), which polls and mails by turns. `ScanDeletes` is
`delete_items`, which takes the watch with the listing. The mailer gathers, sends and marks
in three steps; any commit of a mark may fail (`MarkFails`), and must if a watch it tells of
is gone (`mail.gone`): the marks of all are lost. `said` is history: what the reader
was mailed and what happened since. A listing that one check names twice is asked once.

**Digest.** Likewise without a clock: a stamp is on which side it falls of the watermark
(`new`), of the `since` of each digest under way (`fresh`) and of its cutoff (`cut`).
`stamp[s]` of a site is when its scan began, and what the scan stores inherits it, or that
of the page it was split from (`_first_seen`). A run is listed (*picked*), has loaded the
preferences in a session of its own (*loaded*), has read `cutoff = utcnow()` (*cut*), has
queried (*built*) and has mailed (*sent*). A send that failed and one that was skipped
move the schedule and not the watermark. The sites a digest looks at are any, because
readers choose and shops are disabled at any time. `told`, `missed`, `failed` and `loose`
are history: every reason for which a listing may be passed over (`missed`), or mailed and
yet held by no watermark (`loose`), is at the assignment.

## The runs

A *pass* run is explored to the end. A *violation* run states what a comment or a
docstring says, and TLC finds the behaviour of the code that contradicts it.

| Run | Module | Properties | Shows | Bounds, and why they are enough |
|---|---|---|---|---|
| `safety` | ScanLifecycle | TypeOK, InProcessExclusion, RefinesSiteMutex | each process's registry is a mutex over sites, whatever fails | two sites, one without a scraper; a web application with two workers beside a command line with one; any one commit failing; pids reused. Two workers and one error are what an exclusion can be lost with; the theorems have no bound |
| `live` | ScanLifecycle | NoLeakedClaim, LiveRunLeftAlone, EveryRunCloses, NextTickPicksItUp | no claim outlives its scan; nobody ends another's live run; rows are closed and due sites scanned after a crash and a failing commit | one site, one worker in each process, one crash, one error in the stream or the close-out: the recovery of one orphan needs no more |
| `site` | SiteRecord | TypeOK, OnceForEachFailure, BlipSaysNothing, EnabledIsScanned, LastingFailureIsMailed | at most one mail attempted for each failure, none for a blip, one for a lasting failure; an enabled site is scanned | one site (sites share only the tick's turn to mail), two failures so that one can be taken for another, one restart, one edit |
| `rest` | HostRest | TypeOK, RestIsKept, RestIsEarned, RestCoversThePlatform | no request ends a rest it has read; a rest is earned by two shops since the last one, but for the two ways that are named; it covers all | two shops, as many as a rest takes, and two fetchers in every interleaving of their transactions, which is what a lost update and a second count need; counts to 2. The theorems have no bound. 2.7 million states |
| `catalog` | Catalog | TypeOK, SuccessIsTheTruth, ListedOnce, HeldWhereItIs | a success that read every section leaves the catalog as the shop is, but for the pages its walk never came to; a page is never in it both as itself and as its choices; what stayed where it is filed is de-listed only by a run that left out the page it is on | two sections, one of two pages, so that a section can be refused, left half way with a warning or without, or skipped beside one that was read; one plain product and one page with two choices, of which one is unwanted; the shrink guard from two listings and a half, which both answers of it need; no product moved twice in a run. The theorems have no bound. 3.1 million states |
| `photos` | PhotoQueue | TypeOK, RowHasItsFile, GiveUpIsEarned, OnlyForward | a listing's photograph is on disk unless housekeeping met a drain that was handing in that file, or lost its own commit; none is given up on for a passing failure; none comes back once it went | two listings that share one picture, one host, a limit of one so that the queue outlasts a batch; a scan's drain, the button's and the command line's, with one press of either; one attempt, so that a lasting answer gives up and a press begins again; two lasting answers for each photograph; a prune or a deletion at any point. Two drains are what a stale count needs; the theorems have no bound. 2.9 million states |
| `refgen` | RefGen | TypeOK, StaleIsNoticed, EditsMoveIt, EditArrives | an edit that changes what is compiled moves the generation, unless it is of a pending maker or caliber; a stale copy is found out and replaced, but for the named ways | an approved model of an approved maker, in a caliber that is pending; one thread that edits and one that matches; one edit, in this process or another, restarts: every way in `excuses` needs only one edit. The theorems have no bound. 0.36 million states |
| `alerts` | WatchAlerts | TypeOK, NeverTwice, OneReturnOneMail | no price a reader knows is mailed again; one return is one mail | two prices that a target of 2 admits, one change of the shop, so that a price falls or comes back; two edits (the reader's, or a listing deleted), which is what a deleted and replaced watch needs; a scan, two polls and the mailer overlapping, restarts. The theorems have no bound. 3.8 million states |
| `told` | WatchAlerts | DueIsTold, CatchesUp | what stays due is mailed; the row comes to say what the shop shows | two prices about a target of 1, one change and one edit, the scheduler's poll, under `FairSpec`. 0.09 million states |
| `digest` | Digest | TypeOK, Accounted, NothingTwice | what the watermark has passed was mailed, or was left out for a reason that is named; a listing is mailed as new twice only if the digest that had mailed it stopped before its mark, if it was stored after the cutoff of the one that found it, or if two had it in hand, and only until a watermark holds it | two listings of one site and a limit of one, so that one is cut off; one digest that is due and one that is asked for, so that two overlap; any number of scans, failures, skips and stops. The theorems have no bound. 1.8 million states |
| `exclusion` | ScanLifecycle | OneScanPerSite | violated: two processes scan one site | |
| `lost` | Digest | FailureLosesNothing | violated by a first digest that could not be delivered | one listing is enough |

Deadlock is checked in every run. Symmetry is used only in runs without liveness
properties: process ids and workers of one process in `safety` and `exclusion`, shops
and fetchers in `rest`, listings in `digest`.

## Fairness

`FairSpec` in ScanLifecycle: a worker thread that can go on does (`Advance`); a
scrape ends because every request of it times out; the service manager restarts the
web application (`Start`), whose loop reaps once and then ticks (`Reap`,
`Dispatch`); time passes (`Age`, `ComeDue`). Nothing is assumed of a person: neither
`Request`, nor `RequestCancel`, nor a command line that is started.

`FairSpec` in SiteRecord: ticks recur, scans end and are considered, a marked mail
is sent, time passes, and rests end. `Dispatch` is strongly fair because a platform
may rest again and again: `_dispatch_scans` runs every tick, so one falls between
two rests unless they touch.

`FairSpec` in RefGen: a thread that is in the middle goes on, and a transaction ends;
titles are matched all day, so that among all threads looks recur (`Look` of some thread
is strongly fair, because each one takes it away from the others for `CHECK_SECONDS`);
not every look fails (`ReadGeneration` is strongly fair: a failed one may be repeated,
not for ever); the seconds pass (`Tick`).

`FairSpec` in WatchAlerts: scans are started every day, and a pass ends; polls end;
whatever is due is gathered, and not every mail fails (`Sends` strongly fair), because
the tick comes back every minute; a sent mail is marked or the commit fails. Not every
scan is cut off before it reads and stores the listing. Nothing is assumed of the shop,
nor of the reader.

HostRest, Catalog, PhotoQueue and Digest are safety only: whether a shop is ever asked
again depends on its owner; when a site is scanned again is SiteRecord's; a photo queue
whose head is at a resting host does not move until the rest is over; and what a digest
may leave out is left out for good.

## The proofs

TLC checks the instances above; TLAPS proves these for every value of the
constants.

| Module | Theorem | Says |
|---|---|---|
| `ScanLifecycleProofs` | `TypeCorrect` | `Spec => []TypeOK` |
| | `Exclusion` | `Spec => []InProcessExclusion` |
| | `Invariant` | `Spec => []IndInv` |
| | `LiveRuns` | on one machine, `Spec => LiveRunLeftAlone` |
| | `Refinement` | `Spec => Mutex!Spec`: ScanLifecycle implements SiteMutex |
| | `NoLeak` | `Spec => [](dbErrors = 0 => NoLeakedClaim)`, and `Spec => []NoLeakedClaim` where claims cannot fail |
| | `LeaksLast` | a leak begins with a `ClaimError` and lasts as long as its process |
| | `OneProcess` | all workers in one process `=> (Spec => []OneScanPerSite)` |
| | `ClaimSeesLiveRuns` | on one machine, no `Claim` beside a live run of the site |
| | `OnlyTheGap` | on one machine, `Spec /\ []NoTwoInTheGap /\ []NoneOverdue => []OneScanPerSite` |
| | `CancelsAreCurrent` | `Spec => [](\A p : cancels[p] \subseteq registry[p])` |
| `SiteRecordProofs` | `TypeCorrect`, `MailInvariant` | `Spec => []TypeOK`, `Spec => []IndInv` |
| | `OncePerFailure` | `Spec => []OnceForEachFailure` |
| | `BlipsAreSilent` | `Spec => []BlipSaysNothing` |
| `HostRestProofs` | `TypeCorrect` | `Spec => []TypeOK` |
| | `WholePlatform` | `Spec => RestCoversThePlatform` |
| | `RestsKept` | `Spec => RestIsKept` |
| | `RestsEarned` | `Spec => RestIsEarned` |
| `CatalogProofs` | `TypeCorrect`, `Invariant` | `Spec => []TypeOK`, `Spec => []IndInv` |
| | `Held` | `Spec => HeldWhereItIs` |
| | `Truth` | `Spec => SuccessIsTheTruth` |
| | `Once` | `Spec => ListedOnce` |
| `PhotoQueueProofs` | `TypeCorrect`, `Invariant` | `Spec => []TypeOK`, `Spec => []IndInv` |
| | `FileKept` | `Spec => []RowHasItsFile` |
| | `Earned` | `Spec => []GiveUpIsEarned` |
| | `OneWay` | `Spec => OnlyForward` |
| | `Undisturbed` | `Spec /\ []HandsOff /\ [][~DeleteFails]_vars => []PictureKept` |
| | `OneButton` | `Spec => []ButtonOK`: one drain of the Sites page, whose claim ends with it |
| `RefGenProofs` | `TypeCorrect`, `Invariant` | `Spec => []TypeOK`, `Spec => []IndInv` |
| | `FoundOut` | `Spec => []StaleIsNoticed` |
| | `EditsMove` | `Spec => EditsMoveIt` |
| | `ReaderProcess` | in a process that edits nothing, StaleIsNoticed with two of its four excuses |
| `WatchAlertsProofs` | `TypeCorrect`, `Invariant` | `Spec => []TypeOK`, `Spec => []IndInv` |
| | `NotTwice` | `Spec => NeverTwice` |
| | `OneMail` | `Spec => OneReturnOneMail` |
| `DigestProofs` | `TypeCorrect`, `Invariant` | `Spec => []TypeOK`, `Spec => []IndInv` |
| | `NothingLost` | `Spec => []Accounted` |
| | `Once` | `Spec => []NothingTwice` |
| | `OnlyTheInterval` | `Spec /\ [][\A x : ~Ages(x)]_vars => []FailureLosesNothing` |

Some of them have a hypothesis on the behaviour (`[]NoTwoInTheGap`, `[]HandsOff`,
`[][~Ages(x)]_vars`). Those are not assumptions about the code: the code does not see to
them, and the theorem says that nothing else can go wrong. Each was checked first on the
instance of its run, under the hypothesis and, where the property fails without it, without.

*The lifecycle.* Exclusion alone is not inductive: two workers could be scanning one
site already, one of them unregistered. `IndInv` adds that every scanning worker's
site is in its process's registry (`RegistryOK`), what a program counter says of the
rest of a worker's record (`TaskOK`), and that no two workers write one row and a
RUNNING row names its worker's own process (`OwnerOK`). The last is what
`LiveRunLeftAlone` rests on: a stranger that fails a row has asked whether its pid
is alive on its host, and on one machine the worker's own process answers. With two
machines `_owner_is_alive` answers before it looks, and the property fails: the
assumption is needed.

A registration without a scan behind it (`Leaked`) can begin in one way only, and
`LeaksLast` is the price: no scan, refusal, end or reaping frees the site before the
process is gone, which is why NextTickPicksItUp leaves that error out. "One scan per
site" is settled from both sides. In one process it follows from the registry
(`OneProcess`), which is also what SiteRecord takes for granted. Across processes a claim
does see every live row (`ClaimSeesLiveRuns`, from `RowSiteOK`: a row under way names
its worker's own site), so that what is missing is the time between the claim and the
row, and the timeout: `ClaimsApart` carries "no two claims in the database on one site"
through every step but those two (`OnlyTheGap`).

*The mails.* "At most once" is not inductive: a failure already mailed might be
listed again, or take the number of one that was. `IndInv` adds that the copy of the
failure clock in a scan under way is never stale, because nobody but that scan moves
the clock (`ScanOK`); that a failure which has not begun is nowhere on record
(`FreshOK`); that what the tick lists outlasts the grace, is unmailed, and is marked
before its mail goes out (`ListOK`); and that a mailed failure which goes on is marked
and no blip (`MailOK`). It needs no assumption about how often a restart comes.

*The rests.* The types need that a request under way is to a host (`CallOK`), and that
each rest covers the platform needs no more, whatever the fetchers do. No assumption is made
of how they interleave; what the properties say is what survives of it. RestIsKept does,
because both writers decide by what they *read*: `succeeded` writes nothing for a row it
read in a platform's rest, and `refused` keeps the longer pause it read (`WriteBack`), so
that only a reading from before the rest can undo it. RestIsEarned follows the evidence:
refusals from before the last rest are on record only while that rest runs on for everybody
(`OldNewsOK`), so that who looks finds it running, whether or not the evidence was spent.
What gets past the look is a request the rest overtook after it (`passed`), and one to a shop
whose share was ended early (`cut`); `CountOK` carries that to the write.

*The catalog.* What a run de-lists is what it did not see, so the theorems are about
what it saw. `PassedOK` is the heart: a card that the shop has not touched since the
run began has been met once the walk is past its place, unless its section was left
out (`unread`) or the page it is on was (`cut`); `Behind` is the arithmetic of sections and
pages under it. `HandedOK` carries that from the scraper to
the scan: what was met is still in hand, or handed over as itself or as its choices,
never as both. `FinishOK` says that a run about to close with nothing to warn about
has kept exactly what it saw, which is where the shrink guard and the held-back run
come in: both leave a warning. That nothing but the reconcile takes a plain listing out
of the catalog is a lemma of its own (`OnlyReconcile`), and needs that only pages with
choices are retired (`ParentsOK`).

*The photographs.* That a count is earned is not inductive while a drain, or a scan's
session, holds an older count: `DrainsOK` says that what a drain loaded had been heard,
and that an answer it is about to record has been heard on top of that. That a file is
kept needs both sides of the hand-over: a file in a drain's hand is on disk, or was torn
(`HandOK`); and what housekeeping may still unlink, of a row that will stay, was handed in
while it worked (`CleanerOK`), which is why a prune or a deletion that no drain overlaps
takes nothing that a listing shows. `Undisturbed` is that last clause as a theorem: while
no drain has a file in hand and no deletion loses its commit, `handed` and `torn` stay
empty, so that the statement no longer speaks of history. `OneWay` needs that an UPDATE of
a row that is gone matches none, which is the guard of `Record`. `OneButton` is an
invariant of its own: the claim is there exactly as long as some drain of the page is.

*The reference copy.* `TxOK` and `ReadOK` say what an open transaction and a generation
that was read have in common with the committed ones; `SeenOK` that without an excuse
`_seen` is never ahead of them; `FromTxOK` that a copy made of an open transaction
is what the transaction would commit; and `CopyOK`, the heart, that a copy compiled under
a generation is what that generation's rows compile to, unless somebody is about to
find out. The lemma `MattersEnough` is where `_matters` is looked at: an edit it waves
through changes nothing that is compiled, but for the one of `Silent`. Where nobody edits,
no transaction is ever open (`ReadsOnly`), and of the four excuses those that take a
transaction's own rows or bump for committed cannot arise.

*The alerts.* "Not twice" needs that the row of the watch says what was mailed unless the
mark was lost (`MarkedOK`), that what the mailer has gathered is still news when it goes
(`SendingOK`), and that a return is on the row only while it has not been told (`BackOK`).
Both theorems except a mail whose mark was lost: a commit may fail for any cause. They
assume nothing of who stores the listing, nor from how old a copy: any number of polls may
overlap, because what they store is news or not by the watch's own stamps.

*The digest.* `Accounted` speaks of the watermark, which a mark moves to a cutoff, so the
accounting has to be carried from the queries to the mark: while a digest is being built,
what it will not look at is told or missed already (`LoadedOK`); once it is built,
whatever its cutoff has passed is in it, told or missed (`BuiltOK`); once it is sent, what
is in it is told (`SentOK`). `FreshOK` says that nobody else's `since` is left behind on a
stamp. For `NothingTwice`, `LooseOK` says that what was told is behind the watermark, or
in a mail that has not been marked, or `loose`, and that the same holds of each digest's
own `since`: a digest that finds it again finds it loose. FailureLosesNothing is false of
the code; `OnlyTheInterval` is its other half: while there is no watermark everything is
new, and stays so until it is older than the interval (`FirstOK`), so that growing older
is the only thing that loses what failed.

The constants are assumed to be sets with the obvious sizes (each module's
`ConstantsAssumption`), and TLC evaluates those assumptions in every run.

Model-checked only: liveness (EveryRunCloses, NextTickPicksItUp, EnabledIsScanned,
LastingFailureIsMailed, EditArrives, DueIsTold, CatchesUp), because the prover does not
reason about fairness. Every safety property of every
passing run is a theorem; NoLeakedClaim where no commit of a claim fails, and LiveRunLeftAlone
on one machine, which is how their run has them.

## Disagreements

Two runs show a behaviour of the code that a comment, a docstring or a test denies;
`PROJECT.json` quotes both sides.

1. **One scan per site** (`exclusion`). `_claim_site` commits that nobody is
   scanning before `run_scan` inserts the row that says it is. Two processes that
   claim together both scan. On one machine that, and a run past its timeout, are the
   only ways (`OnlyTheGap`).
2. **A failed mail loses nothing** (`lost`). While there is no watermark, a digest that
   could not be delivered sets `next_send_at` one interval on and leaves the watermark
   NULL; the next one looks back one interval from its own start, and what the failed one
   was to tell was first seen before that. Nothing else loses it (`OnlyTheInterval`).

The following were seen in the same models, or in the lines they translate, and are not
runs of their own.

*Lifecycle.* With two machines on one database, each fails the other's live runs at once,
where `scan_service.py` 1391-1393 says that such a run is left to the timeout. A database
error in `_claim_site`, which is called between the registration and the `try` that undoes
it (1547-1559), leaves the site registered for the life of the process, so that no later
tick scans it (`LeaksLast`). A failing flush in the stream or the close-out is swallowed
with the verdict it was to write (285-302), so that the row stays RUNNING under a live
process until the site is scanned again after the timeout.

*Schedule and alerts of a site.* A scan under way when "stopped scraping" is mailed ends
the failure without saying so, because its copy of the row has no mark, and leaves the
mark set, so that the next failure is not mailed either. The end of a scan overwrites a
request to scan soon that came while it ran, and likewise a changed interval.

*Register.* `models.py` 1328-1330 says that a success does not lift a platform's pause early.
A request that read its row before a rest began writes it back afterwards, so that with two
fetchers a week's pause is lifted, or shortened to an ordinary one; nothing else of a request
does (`RestsKept`). Likewise a success and a refusal that overlap write their counts from the
same reading, and the later one wins: a refusal goes unrecorded, or all of them do, when the
success had read the last one and deletes the row. So trust may come back faster than one
refusal at a time. The 42nd refusal in a row raises OverflowError inside a broad
`except`, and nothing is paused any more (`LastCount`). With two fetchers refused at once a
rest can begin, and be announced, twice (`platform_rest.py` 136; the mail promises "once"):
the second count has looked already. When the evidence cannot be deleted after the rest is
committed (142-148), it stays, and a shop whose rest an administrator has stopped begins
the next rest with its own next 429. The request whose 429 began a rest is sent again to the
resting shop by its own retry loop (`base.py` 554-594), while the mail says nothing will ask
it. The mark of a platform's rest stays on a row when the week is over, so that the shop's
own next pause is taken for a platform's (`platform_rest.py` 195).

*Catalog.* The walk of a section ends in silence at the cap on its pages (`woocommerce.py`
325), at a next link it has followed already (327-329) and at one to another host
(434-436): no warning, no `not_read`, so that a run that reports success de-lists what is
on the pages behind, or never lists it. A section left half way is reconciled as if it had
been read whole, for only a refused first page calls `not_read` (`woocommerce.py` 341,
365), while the docstring of `_stale_items` counts "cut short by an error" among the
sections it spares; a warning and the shrink guard are what stands between that and the
shelf. `SuccessIsTheTruth` and `HeldWhereItIs` except both by name (`cut`).
`last_success_at` moves on at the end of such a run, and past the edits made while it ran,
so that the one shop that reads by its sitemap then skips the section as unchanged with
listings in it that nobody has read. When a product page that sells several guns cannot be
read, its listings are de-listed and the combined one that had been retired comes back.
And that shop's own `_stream` lacks the close of the one it overrides: a run whose every
section rests ends as PARTIAL and not as a resting host.

*Photo queue.* A batch stops at the first photograph whose host rests (`scan_service.py`
1280-1285), although those behind it may be on a host that answers, and the queue's order
puts the same one first again: one unreachable host holds up the site for as long as it
is unreachable. `_photo_runs` says "one at a time, whatever the scope" (109-117), but the
drains of scans, of the scheduler and of the command line never claim it. A prune beside a
drain unlinks a file whose row has not been committed, and the row then says that it is
there; a deletion whose commit fails has unlinked already (`torn`). A row that is deleted
while its photograph is fetched ends the whole drain with StaleDataError.

*Reference generation.* The four of `excuses`. A look inside a transaction takes that
transaction's own bump for the committed one (`refgen.py` 159), so that a rollback leaves
the process ahead and the next bump is not noticed, or another process's edit under the
same number is. The first look adopts a generation over a copy that may be older. Rules
compiled from a transaction that rolls back stay, though nobody has ever committed them.
And an edit of a pending maker or caliber of an approved model moves nothing (`refgen.py`
20-24, 79-86), though the model's rule carries the names of both (`armory.py` 655, 661).

*Alerts.* A scan stamps what it stores with its start (`scan_service.py` 594, 1653), so
that a rise stored after an alert by a scan begun before it is older than the alert, and
`peaks_since` (`renotify.py` 82) does not see it: the fall that follows is not news.
Likewise a return. A poll that computes from a stale copy does not store a price that equals
its copy, and the lowest price is not a floor: where a scheduler's poll and a check from the
inbox page overlap, one may store a price below the lowest that the other has left on record
(a row at 400, of which a scan stores 100 and one poll 300
with its own lowest, is left at 200 with a lowest of 300 by a check that had loaded 100).
Deleting one watch between send and mark loses the marks of all that the mail told of, and so
do a scan that deletes its listing, a commit that fails for any other cause and a restart
there: they are mailed again.

*Digest.* A listing that a scan stores under a start which is before a cutoff is before
the watermark, and never appears; more than the limit of one site are left out for good
(`missed`). Two digests at once may move the watermark back, and what is after it is
mailed again; so does a process that stops between the mail and its mark. A reader who turns
the digest off after the tick has listed them is still mailed. Saving preferences with an
interval in them starts the schedule from now each time. A digest whose reader watches a
listing that has come back for sale raises KeyError: the order in `watchlist.updates` (275,
284) has no place for `News.BACK`. The digest ends there, with neither mail nor schedule
moved (`Dies`), and again at every tick for as long as the return is news.

## The plan

Done, in this order because a scan is what the program is for and everything else
reads what it wrote: ScanLifecycle with SiteMutex, SiteRecord, HostRest and Catalog; then
what stands between the catalog and its readers, PhotoQueue, WatchAlerts and Digest, and
RefGen, on which every matched title rests. Each has its proofs.

Not modelled, of what has state:

- background jobs (`makerjobs.py`, `ammunition.py`): one row each, claimed and progressed by
  one worker and failed by the next start;
- sessions, codes and counters (`usersessions.py`, `twofactor.py`, `passwordreset.py`): one
  statement on one row each, apart from the work of the program;
- the undo record of the armory, the inbox and its offers, the canary and backups: matching
  of text, mailboxes and files, with little state of their own;
- want lists, wishlists, saved searches and price drops, which repeat the patterns of
  WatchAlerts and Digest over other queries; web push, one more channel of the same send;
- the lowest and the highest price of a listing, which the code does not keep as bounds
  ([above](#disagreements));
- of a scan, the walk of a store API (`_walk_api`, `woocommerce.py` 312-314),
  `report_unchanged` and rows adopted under a replaced key (`_stored_item`);
- the composition of SiteRecord with ScanLifecycle, where "one scan per site", which the
  first assumes, is a theorem of the second inside a process (`OneProcess`) and fails across
  processes.

Not modelled because there is nothing for a model checker in it, and it is most of the
source by lines: what a scraper reads out of a page, classification and text analysis,
the layout of mails, market statistics, search, serialisation, migrations, the front end
and packaging. They are functions of their input, or text and markup, with no state that
survives a call, and the repository tests them directly on recorded pages. The models
follow the small part of the code in which actors meet.
