-------------------------------- MODULE Digest --------------------------------
(***************************************************************************)
(* One reader's digest: what is new is what was first seen after a          *)
(* watermark, and the watermark moves when a mail has gone out (digest.py). *)
(* The scheduler's tick, the command line and "send now" build and send it, *)
(* beside scans that store listings under the time they began.              *)
(*                                                                         *)
(* Times are compared, never read: a stamp is on which side it falls of     *)
(* each time it will be compared with.                                      *)
(***************************************************************************)
EXTENDS FiniteSets, Naturals

CONSTANTS
    Listings,
    Sites,
    Shop,       \* the site of a listing
    Ticks,      \* those who mail whoever is due: the scheduler, the command line
    Asked,      \* those told whom to mail, now and even if it is empty
    Limit       \* new_items_per_site_limit

Runners == Ticks \union Asked

ASSUME ConstantsAssumption ==
    /\ Listings \intersect Sites = {}
    /\ Shop \in [Listings -> Sites]
    /\ Limit \in Nat \ {0}

VARIABLES
    pref,       \* the reader's preferences
    item,       \* the rows of the listings
    scanning,   \* the sites being scanned
    stamp,      \* first_seen_at of a listing; of a scan, when it began
    run,        \* a digest under way
    told,       \* history: listings that were in a mail
    missed,     \* history: those a digest may leave out, and why is where it is assigned
    failed,     \* history: those of a mail that failed, before any was sent
    loose       \* history: those that were mailed and that no watermark holds, and why is where it
                \* is assigned

vars == <<pref, item, scanning, stamp, run, told, missed, failed, loose>>

\* new: after the since of a digest that began now. fresh: after that of these, under way.
\* cut: not after the cutoff of these.
Stamp == [new : BOOLEAN, fresh : SUBSET Runners, cut : SUBSET Runners]

JustNow == [new |-> TRUE, fresh |-> {}, cut |-> {}]

Idle == [pc |-> "idle", found |-> {}]

Stored == {l \in Listings : item[l] # "none"}

Dated == Stored \union scanning

\* first: there is no last_digest_cutoff yet. next: next_send_at, NULL, to come or passed.
TypeOK ==
    /\ pref \in [on : BOOLEAN, first : BOOLEAN, next : {"none", "later", "passed"}]
    /\ item \in [Listings -> {"none", "sale", "off"}]
    /\ scanning \subseteq Sites
    /\ stamp \in [Listings \union Sites -> Stamp]
    /\ run \in [Runners -> [pc : {"idle", "picked", "loaded", "cut", "built", "sent"},
                            found : SUBSET Listings]]
    /\ \A r \in Runners : run[r].found \subseteq IF run[r].pc \in {"built", "sent"} THEN Stored ELSE {}
    /\ told \union missed \union failed \subseteq Stored
    /\ loose \subseteq told

-----------------------------------------------------------------------------
\* A reader who has just turned the digest on, and scans that have not begun.
Init ==
    /\ pref = [on |-> TRUE, first |-> TRUE, next |-> "later"]
    /\ item = [l \in Listings |-> "none"]
    /\ stamp = [x \in Listings \union Sites |-> JustNow]
    /\ run = [r \in Runners |-> Idle]
    /\ scanning = {}
    /\ told = {} /\ missed = {} /\ failed = {} /\ loose = {}

(***************************************************************************)
(* Scans (scan_service).                                                   *)
(***************************************************************************)
Building == {r \in Runners : run[r].pc \in {"loaded", "cut"}}

\* The time is read once, for all that the scan will find.
Begins(s) ==
    /\ s \notin scanning
    /\ scanning' = scanning \union {s}
    /\ stamp' = [stamp EXCEPT ![s] = [JustNow EXCEPT !.fresh = Building]]
    /\ UNCHANGED <<pref, item, run, told, missed, failed, loose>>

\* The row will say it was first seen before the watermark, or before a time that a digest under
\* way has read.
Late(x) == ~stamp[x].new \/ stamp[x].cut # {} \/ Building \ stamp[x].fresh # {}

\* A listing is inserted, and committed by itself: first seen when the scan began, or when the
\* listing of the page was that it is one of the choices of (_first_seen).
Stores(l) ==
    /\ Shop[l] \in scanning
    /\ item[l] = "none"
    /\ item' = [item EXCEPT ![l] = "sale"]
    /\ \E x \in {Shop[l]} \union {page \in Stored : Shop[page] = Shop[l]} :
         /\ stamp' = [stamp EXCEPT ![l] = stamp[x]]
         /\ missed' = IF Late(x) THEN missed \union {l} ELSE missed
    /\ UNCHANGED <<pref, scanning, run, told, failed, loose>>

\* Sold or gone, for a scan or for the watch poll; and back. Neither is first seen again.
Goes(l) ==
    /\ item[l] = "sale"
    /\ item' = [item EXCEPT ![l] = "off"]
    /\ UNCHANGED <<pref, scanning, stamp, run, told, missed, failed, loose>>

Returns(l) ==
    /\ Shop[l] \in scanning
    /\ item[l] = "off"
    /\ item' = [item EXCEPT ![l] = "sale"]
    /\ UNCHANGED <<pref, scanning, stamp, run, told, missed, failed, loose>>

Ends(s) ==
    /\ s \in scanning
    /\ scanning' = scanning \ {s}
    /\ stamp' = [stamp EXCEPT ![s] = JustNow]
    /\ UNCHANGED <<pref, item, run, told, missed, failed, loose>>

\* Where there is no watermark yet, a digest looks one interval back, and the interval has passed.
Ages(x) ==
    /\ pref.first /\ stamp[x].new
    /\ x \in Dated
    /\ stamp' = [stamp EXCEPT ![x].new = FALSE]
    /\ missed' = IF x \in Stored \ told THEN missed \union {x} ELSE missed
    /\ UNCHANGED <<pref, item, scanning, run, told, failed, loose>>

(***************************************************************************)
(* The preferences (api/preferences.py).                                   *)
(***************************************************************************)
TurnsOff ==
    /\ pref.on
    /\ pref' = [pref EXCEPT !.on = FALSE, !.next = "none"]
    /\ UNCHANGED <<item, scanning, stamp, run, told, missed, failed, loose>>

\* On, or on and with another cadence: the schedule starts from now.
TurnsOn ==
    /\ pref' = [pref EXCEPT !.on = TRUE, !.next = "later"]
    /\ UNCHANGED <<item, scanning, stamp, run, told, missed, failed, loose>>

ComesDue ==
    /\ pref.next = "later"
    /\ pref' = [pref EXCEPT !.next = "passed"]
    /\ UNCHANGED <<item, scanning, stamp, run, told, missed, failed, loose>>

(***************************************************************************)
(* The digest.                                                             *)
(***************************************************************************)
At(r, pc) == run[r].pc = pc

Goto(r, pc) == run' = [run EXCEPT ![r].pc = pc]

\* due_user_ids.
IsDue == pref.on /\ pref.next # "later"

\* The reader is listed; their turn comes when those before them have been mailed.
Picks(r) ==
    /\ r \in Ticks /\ At(r, "idle")
    /\ IsDue
    /\ Goto(r, "picked")
    /\ UNCHANGED <<pref, item, scanning, stamp, told, missed, failed, loose>>

\* Mailed by a digest that has not yet moved the watermark.
Unmarked == UNION {run[q].found : q \in {o \in Runners : At(o, "sent")}}

\* The reader and the preferences are loaded, in a session of their own; since is computed from them.
\* Loose: what another digest has mailed, and not marked.
Loads(r) ==
    /\ At(r, IF r \in Ticks THEN "picked" ELSE "idle")
    /\ Goto(r, "loaded")
    /\ stamp' = [x \in Listings \union Sites |->
                   IF x \in Dated /\ stamp[x].new THEN [stamp[x] EXCEPT !.fresh = @ \union {r}]
                   ELSE stamp[x]]
    /\ loose' = loose \union Unmarked
    /\ UNCHANGED <<pref, item, scanning, told, missed, failed>>

\* cutoff = utcnow(), before anything is queried.
Cuts(r) ==
    /\ At(r, "loaded")
    /\ Goto(r, "cut")
    /\ stamp' = [x \in Listings \union Sites |->
                   IF x \in Dated THEN [stamp[x] EXCEPT !.cut = @ \union {r}]
                   ELSE stamp[x]]
    /\ UNCHANGED <<pref, item, scanning, told, missed, failed, loose>>

New(r) == {l \in Stored : r \in stamp[l].fresh}

Of(s, listings) == {l \in listings : Shop[l] = s}

\* What of the shown a digest tells of: at each site all, or of too many the newest, and which those
\* are is left open.
Within(found, shown) ==
    \A s \in Sites : \/ Of(s, found) = Of(s, shown) /\ Cardinality(Of(s, found)) <= Limit
                     \/ Cardinality(Of(s, found)) = Limit

\* collect_new_items: what is new and for sale at the sites of the reader, the enabled ones of those
\* they chose, and none where new listings are not asked for. Readers choose others and shops are
\* disabled at any time, so that any sites may be those.
Collects(r) ==
    /\ At(r, "cut")
    /\ \E sites \in SUBSET Sites :
         LET shown == {l \in New(r) : item[l] = "sale" /\ Shop[l] \in sites}
         IN  \E found \in SUBSET shown :
               /\ Within(found, shown)
               /\ run' = [run EXCEPT ![r] = [Idle EXCEPT !.pc = "built", !.found = found]]
               /\ missed' = missed \union (New(r) \ (found \union told))
    /\ stamp' = [x \in Listings \union Sites |-> [stamp[x] EXCEPT !.fresh = @ \ {r}]]
    /\ UNCHANGED <<pref, item, scanning, told, failed, loose>>

\* Mutant of Done: the next digest starts from what this one found.
DoneKeeps(r) == Goto(r, "idle")

\* The end of a digest, whatever it came to.
Done(r) == run' = [run EXCEPT ![r] = Idle]

Forgotten(st, r) == [st EXCEPT !.fresh = @ \ {r}, !.cut = @ \ {r}]

\* No new listing. Whether the reader wants an empty digest, and whether prices fell or something fits
\* their guns, is left open: it may be sent all the same.
HasNothing(r) == r \in Ticks /\ run[r].found = {}

\* Nothing to tell, or no sites, searches and lists to tell of, asked for or not: the schedule moves on
\* and the watermark stays.
Skips(r) ==
    /\ At(r, "loaded") \/ (At(r, "built") /\ HasNothing(r))
    /\ pref' = [pref EXCEPT !.next = "later"]
    /\ stamp' = [x \in Listings \union Sites |-> Forgotten(stamp[x], r)]
    /\ Done(r)
    /\ UNCHANGED <<item, scanning, told, missed, failed, loose>>

\* Likewise when it cannot be sent.
SendFails(r) ==
    /\ At(r, "built")
    /\ pref' = [pref EXCEPT !.next = "later"]
    /\ stamp' = [x \in Listings \union Sites |-> Forgotten(stamp[x], r)]
    /\ failed' = IF pref.first THEN failed \union (run[r].found \ told) ELSE failed
    /\ Done(r)
    /\ UNCHANGED <<item, scanning, told, missed, loose>>

\* What a digest under way found new, or will.
InHand(q) == run[q].found \union {l \in Stored : q \in stamp[l].fresh}

\* Loose: what others have in hand.
Sends(r) ==
    /\ At(r, "built")
    /\ Goto(r, "sent")
    /\ told' = told \union run[r].found
    /\ loose' = loose \union (run[r].found \intersect UNION {InHand(q) : q \in Runners \ {r}})
    /\ missed' = missed \ run[r].found
    /\ failed' = failed \ run[r].found
    /\ UNCHANGED <<pref, item, scanning, stamp>>

\* Mutant of Passed: the watermark is the time at which the mail had gone out.
PassedWhenSent(r) == Dated

\* Mutant of Passed: a digest that was asked for does not count.
PassedUnasked(r) == {x \in Listings \union Sites : IF r \in Asked THEN ~stamp[x].new ELSE r \in stamp[x].cut}

\* What is no longer new once the cutoff of a digest is the watermark.
Passed(r) == {x \in Listings \union Sites : r \in stamp[x].cut}

\* It went out: last_digest_cutoff is this digest's cutoff, whatever another has written meanwhile.
\* Loose: what was mailed and is after it, stored after the cutoff or mailed by another. What is
\* before it no longer is, unless others have it in hand.
Marks(r) ==
    /\ At(r, "sent")
    /\ pref' = [pref EXCEPT !.first = FALSE, !.next = "later"]
    /\ stamp' = [x \in Listings \union Sites |->
                   [Forgotten(stamp[x], r) EXCEPT !.new = x \notin Passed(r)]]
    /\ failed' = {}
    /\ loose' = {l \in told : r \notin stamp[l].cut}
                \union (loose \intersect UNION {InHand(q) : q \in Runners \ {r}})
    /\ Done(r)
    /\ UNCHANGED <<item, scanning, told, missed>>

\* The process stops, or a statement of the digest fails. Loose: what it has mailed and not marked.
Dies(r) ==
    /\ ~At(r, "idle")
    /\ stamp' = [x \in Listings \union Sites |-> Forgotten(stamp[x], r)]
    /\ loose' = IF At(r, "sent") THEN loose \union run[r].found ELSE loose
    /\ Done(r)
    /\ UNCHANGED <<pref, item, scanning, told, missed, failed>>

-----------------------------------------------------------------------------
Scan ==
    \/ \E s \in Sites : Begins(s) \/ Ends(s)
    \/ \E l \in Listings : Stores(l) \/ Goes(l) \/ Returns(l)

Digests(r) ==
    Picks(r) \/ Loads(r) \/ Cuts(r) \/ Collects(r) \/ Skips(r) \/ SendFails(r) \/ Sends(r) \/ Marks(r)

Next ==
    \/ Scan
    \/ \E x \in Listings \union Sites : Ages(x)
    \/ TurnsOff \/ TurnsOn \/ ComesDue
    \/ \E r \in Runners : Digests(r) \/ Dies(r)

Spec == Init /\ [][Next]_vars

-----------------------------------------------------------------------------
(***************************************************************************)
(* Properties.                                                             *)
(***************************************************************************)
\* What the watermark has passed was mailed, in whatever order digests and scans overlap, fail and
\* stop: or it was one of several too many, not for sale when it was looked for, of a site that was
\* not looked at, older than a first digest looks back, or stored under a time before a digest
\* (digest.build_digest).
Accounted == \A l \in Stored : stamp[l].new \/ l \in told \/ l \in missed

\* Nothing is mailed as new a second time, by a digest that is due or one that is asked for: but what
\* a digest mailed that stopped before its mark, what it found that was stored after its cutoff, and
\* what two that overlap have both in hand; and these only until a watermark holds them
\* (digest.send_digest_for_user).
NothingTwice == \A r \in Runners : At(r, "built") => run[r].found \intersect told \subseteq loose

\* "The watermark must not advance, or those listings are lost forever" (tests/test_digest.py:242),
\* of a first digest that could not be delivered: what it was to tell is still new.
FailureLosesNothing == \A l \in failed : item[l] = "sale" => l \in told \/ stamp[l].new
=============================================================================
