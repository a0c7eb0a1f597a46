-------------------------------- MODULE Catalog --------------------------------
(***************************************************************************)
(* One scan after another of one shop: what the scraper reads, section by  *)
(* section and page by page, and what the scan makes of it                 *)
(* (services/scan_service.py, _run_scan_claimed), while the shop goes on   *)
(* moving its listings about. The scrapers are the WooCommerce walker and  *)
(* the one shop's that skips the sections its sitemap calls unchanged.     *)
(*                                                                         *)
(* A card is a product on the shop's shelf. A product page that sells      *)
(* several guns is a card with choices, and each choice is a listing of    *)
(* its own.                                                                *)
(***************************************************************************)
EXTENDS Naturals, FiniteSets

CONSTANTS
    Cards,
    Choices,        \* the listings each card's product page sells, none or several
    Sections,       \* 1..n, in the order they are walked
    Pages,          \* how many pages each section has
    Unwanted,       \* listings the catalog does not carry
    MinActive,      \* MIN_ACTIVE_FOR_SHRINK_GUARD: 20
    Num, Den,       \* max_delist_share: 3/10
    NoRow, Off      \* no such listing; not on the shelf

Keys == Cards \union UNION {Choices[c] : c \in Cards}

ASSUME ConstantsAssumption ==
    /\ IsFiniteSet(Keys)
    /\ IsFiniteSet(Sections) /\ Sections = 1..Cardinality(Sections)
    /\ Pages \in [Sections -> Nat \ {0}]
    /\ Choices \in [Cards -> SUBSET (Keys \ Cards)]
    /\ \A c, d \in Cards : Cardinality(Choices[c]) # 1 /\ (c # d => Choices[c] \cap Choices[d] = {})
    /\ MinActive \in Nat /\ Num \in Nat /\ Den \in Nat \ {0}

\* External: what stands for the shop is shelf and Move. The choices of a page do not
\* change, and an edit of a section dates it in the shop's sitemap.
VARIABLES
    shelf,          \* where each card is in the shop
    edited,         \* sections whose lastmod is later than last_success_at
    skips,          \* the scraper is the one that skips unchanged sections
    items,          \* items[k]: NoRow or the stored listing
    succeeded,      \* last_success_at is set
    verdict,        \* the last run's status
    scan,           \* the run under way
    steady          \* history: cards that have not been moved since it began

vars == <<shelf, edited, skips, items, succeeded, verdict, scan, steady>>

Places == UNION {{s} \X (1..Pages[s]) : s \in Sections}
Row == [active : BOOLEAN, category : Sections]
\* NoRow and Off are none of the others.
ASSUME ValuesAssumption == NoRow \notin Row /\ Off \notin Places

Verdicts == {"none", "running", "success", "partial", "failed"}

Scan == [pc : {"idle", "walk", "page", "retire", "reconcile", "finish"},
         section : Nat \ {0}, page : Nat,
         skip : SUBSET Sections,     \* not changed since the last success
         found : SUBSET Cards,       \* on the page just read, and not yet handed over
         pending : SUBSET Keys,      \* the listings of the card being handed over
         met : SUBSET Cards,         \* the scraper's `seen`
         seen : SUBSET Keys,         \* seen_keys
         parents : SUBSET Cards,     \* split_parents
         unread : SUBSET Sections,   \* unread_categories
         cut : SUBSET Places,        \* history: pages left out of a section that was begun
         warned : BOOLEAN,
         resting : BOOLEAN]          \* _sections_resting, of the scraper that consults it

TypeOK ==
    /\ shelf \in [Cards -> Places \union {Off}]
    /\ edited \subseteq Sections
    /\ skips \in BOOLEAN /\ succeeded \in BOOLEAN
    /\ items \in [Keys -> Row \union {NoRow}]
    /\ verdict \in Verdicts
    /\ scan \in Scan
    /\ scan.section \in Sections => scan.page \in 1..Pages[scan.section]
    /\ steady \subseteq Cards

Idle == [pc |-> "idle", section |-> 1, page |-> 1, skip |-> {}, found |-> {}, pending |-> {},
         met |-> {}, seen |-> {}, parents |-> {}, unread |-> {}, cut |-> {},
         warned |-> FALSE, resting |-> FALSE]

Init ==
    /\ shelf \in [Cards -> Places \union {Off}]
    /\ edited = {}
    /\ skips \in BOOLEAN
    /\ items = [k \in Keys |-> NoRow]
    /\ succeeded = FALSE
    /\ verdict = "none"
    /\ scan = Idle
    /\ steady = {}

At(stage) == scan.pc = stage
Active(k) == items[k] # NoRow /\ items[k].active
Stored == {items[k].category : k \in {j \in Keys : items[j] # NoRow}}

\* How a run ends.
Ended(status) ==
    /\ scan' = Idle
    /\ steady' = {}
    /\ verdict' = status

\* The pages of a section from one on.
From(section, page) == {section} \X (page..Pages[section])

\* Where a card is, or is not.
Section(place) == IF place = Off THEN {} ELSE {place[1]}

(***************************************************************************)
(* The shop.                                                               *)
(***************************************************************************)
\* Bound: no card is moved twice in a run. Only the reading of a page looks at the
\* shelf, so that a move in between may as well wait for the next.
Move(c, place) ==
    /\ shelf[c] # place
    /\ At("idle") \/ (At("walk") /\ c \in steady)
    /\ shelf' = [shelf EXCEPT ![c] = place]
    /\ steady' = steady \ {c}
    /\ edited' = IF skips THEN edited \union Section(shelf[c]) \union Section(place)
                 ELSE edited
    /\ UNCHANGED <<skips, items, succeeded, verdict, scan>>

(***************************************************************************)
(* The scraper.                                                            *)
(***************************************************************************)
\* _changed_since: nothing is skipped before a first success, nor when the sitemap
\* does not load.
Start(skip) ==
    /\ At("idle")
    /\ skip \in {{}, IF skips /\ succeeded THEN (Sections \ edited) \cap Stored ELSE {}}
    /\ scan' = [Idle EXCEPT !.pc = "walk", !.skip = skip]
    /\ steady' = Cards
    /\ verdict' = "running"
    /\ UNCHANGED <<shelf, edited, skips, items, succeeded>>

\* The walker is about to ask for a page of a section it has not skipped.
Asking == At("walk") /\ scan.section \in Sections \ scan.skip

\* Fault: a section is begun where the last one was left.
NextSectionSamePage(s) == [s EXCEPT !.section = @ + 1]

NextSection(s) == [s EXCEPT !.section = @ + 1, !.page = 1]

\* Fault: the last page of a section is left out.
AllButTheLast(s) ==
    IF s.page + 1 >= Pages[s.section] THEN NextSection(s) ELSE [s EXCEPT !.page = @ + 1]

NextPage(s) == IF s.page = Pages[s.section] THEN NextSection(s) ELSE [s EXCEPT !.page = @ + 1]

\* "Unchanged since the last scan; skipping it."
SkipSection ==
    /\ At("walk") /\ scan.section \in scan.skip
    /\ scan' = [NextSection(scan) EXCEPT !.unread = @ \union {scan.section}]
    /\ UNCHANGED <<shelf, edited, skips, items, succeeded, verdict, steady>>

\* robots.txt disallows the page, or the register says the host is resting. Only a
\* first page makes the section one that was not read.
NotAsked(resting) ==
    /\ Asking
    /\ scan' = [NextSection(scan) EXCEPT
                  !.warned = TRUE,
                  !.resting = @ \/ (resting /\ ~skips),
                  !.unread = IF scan.page = 1 THEN @ \union {scan.section} ELSE @,
                  !.cut = IF scan.page = 1 THEN @ ELSE @ \union From(scan.section, scan.page)]
    /\ UNCHANGED <<shelf, edited, skips, items, succeeded, verdict, steady>>

\* A later page that cannot be read ends the section, a first one the run: Abandon.
CutShort ==
    /\ Asking /\ scan.page > 1
    /\ scan' = [NextSection(scan) EXCEPT
                  !.warned = TRUE, !.cut = @ \union From(scan.section, scan.page)]
    /\ UNCHANGED <<shelf, edited, skips, items, succeeded, verdict, steady>>

ReadPage ==
    LET found == {c \in Cards : shelf[c] = <<scan.section, scan.page>>} \ scan.met
    IN  /\ Asking
        /\ scan' = [scan EXCEPT !.pc = "page", !.found = found, !.met = @ \union found]
        /\ UNCHANGED <<shelf, edited, skips, items, succeeded, verdict, steady>>

\* with_detail and splits: a product page that sells several guns is handed over as
\* its choices, and one that cannot be read as the card alone. A refusal is logged
\* or warned about by what the shop answered.
ReadProduct(c, read, warned) ==
    /\ At("page") /\ scan.pending = {} /\ c \in scan.found
    /\ read => ~warned
    /\ scan' = [scan EXCEPT
                  !.found = @ \ {c},
                  !.pending = IF read /\ Choices[c] # {} THEN Choices[c] ELSE {c},
                  !.warned = @ \/ warned]
    /\ UNCHANGED <<shelf, edited, skips, items, succeeded, verdict, steady>>

PageDone ==
    /\ At("page") /\ scan.pending = {} /\ scan.found = {}
    /\ scan' = [NextPage(scan) EXCEPT !.pc = "walk"]
    /\ UNCHANGED <<shelf, edited, skips, items, succeeded, verdict, steady>>

\* The walk of a section may also stop in silence: at the cap on its pages, or at a
\* page without a link to one of this shop's that was not read yet.
NoNext ==
    /\ At("page") /\ scan.pending = {} /\ scan.found = {}
    /\ scan.page < Pages[scan.section]
    /\ scan' = [NextSection(scan) EXCEPT
                  !.pc = "walk", !.cut = @ \union From(scan.section, scan.page + 1)]
    /\ UNCHANGED <<shelf, edited, skips, items, succeeded, verdict, steady>>

(***************************************************************************)
(* The scan.                                                               *)
(***************************************************************************)
\* Fault: the page a choice was split from counts as read.
PageCountsAsRead(k) ==
    LET page == {c \in Cards : k \in Choices[c]}
    IN  /\ At("page") /\ k \in scan.pending
        /\ items' = [items EXCEPT ![k] = [active |-> TRUE, category |-> scan.section]]
        /\ scan' = [scan EXCEPT !.pending = @ \ {k},
                      !.seen = @ \union {k} \union page,
                      !.parents = @ \union page]
        /\ UNCHANGED <<shelf, edited, skips, succeeded, verdict, steady>>

\* _upsert_item, and the deletion of what the catalog does not carry. Committed
\* before the next is asked for.
Upsert(k) ==
    /\ At("page") /\ k \in scan.pending
    /\ IF k \in Unwanted
       THEN /\ items' = [items EXCEPT ![k] = NoRow]
            /\ scan' = [scan EXCEPT !.pending = @ \ {k}]
       ELSE /\ items' = [items EXCEPT ![k] = [active |-> TRUE, category |-> scan.section]]
            /\ scan' = [scan EXCEPT !.pending = @ \ {k},
                          !.seen = @ \union {k},
                          !.parents = @ \union {c \in Cards : k \in Choices[c]}]
    /\ UNCHANGED <<shelf, edited, skips, succeeded, verdict, steady>>

\* The stream is at its end. One that never asked, because of our own register,
\* fails the run - but not in the scraper that skips.
StreamEnds ==
    /\ At("walk") /\ scan.section \notin Sections
    /\ IF scan.resting /\ scan.met = {} /\ ~skips
       THEN Ended("failed")
       ELSE scan' = [scan EXCEPT !.pc = "retire"] /\ UNCHANGED <<verdict, steady>>
    /\ UNCHANGED <<shelf, edited, skips, items, succeeded>>

\* _retire_split_parents: deleted, not de-listed.
Retire ==
    /\ At("retire")
    /\ items' = [k \in Keys |-> IF k \in scan.parents \ scan.seen THEN NoRow ELSE items[k]]
    /\ scan' = [scan EXCEPT !.pc = "reconcile"]
    /\ UNCHANGED <<shelf, edited, skips, succeeded, verdict, steady>>

\* Fault: a section that was not read is taken for an empty one.
UnseenGoes == {k \in Keys : Active(k) /\ k \notin scan.seen}

\* _stale_items
Going == {k \in Keys : Active(k) /\ k \notin scan.seen /\ items[k].category \notin scan.unread}

\* _shrink_warning
Shrunk(going, accept) ==
    LET active == Cardinality({k \in Keys : Active(k)})
    IN  ~accept /\ active >= MinActive /\ Den * Cardinality(going) > Num * active

\* A run that warned and read nothing has not observed an empty shop.
HeldBack == scan.warned /\ scan.seen = {}

\* Nor has one that would de-list too much, unless it was started to do so.
Reconcile(accept) ==
    LET shrunk == ~HeldBack /\ Shrunk(Going, accept)
        delisted == IF HeldBack \/ shrunk THEN {} ELSE Going
    IN  /\ At("reconcile")
        /\ items' = [k \in Keys |->
                       IF k \in delisted THEN [items[k] EXCEPT !.active = FALSE] ELSE items[k]]
        /\ scan' = [scan EXCEPT !.pc = "finish", !.warned = @ \/ shrunk]
        /\ UNCHANGED <<shelf, edited, skips, succeeded, verdict, steady>>

\* Everything the sitemap dates up to now is, from here on, unchanged.
Finish ==
    /\ At("finish")
    /\ succeeded' = TRUE
    /\ edited' = {}
    /\ Ended(IF scan.warned THEN "partial" ELSE "success")
    /\ UNCHANGED <<shelf, skips, items>>

\* A cancellation, an error or a crash: what has been committed stays.
Abandon ==
    /\ ~At("idle")
    /\ Ended("failed")
    /\ UNCHANGED <<shelf, edited, skips, items, succeeded>>

Next ==
    \/ \E c \in Cards, place \in Places \union {Off} : Move(c, place)
    \/ \E skip \in SUBSET Sections : Start(skip)
    \/ SkipSection \/ CutShort \/ ReadPage \/ PageDone \/ NoNext
    \/ \E resting \in BOOLEAN : NotAsked(resting)
    \/ \E c \in Cards, read, warned \in BOOLEAN : ReadProduct(c, read, warned)
    \/ \E k \in Keys : Upsert(k)
    \/ \E accept \in BOOLEAN : Reconcile(accept)
    \/ StreamEnds \/ Retire \/ Finish \/ Abandon

Spec == Init /\ [][Next]_vars

(***************************************************************************)
(* What the code owes.                                                     *)
(***************************************************************************)
\* A run closes with nothing to warn about.
Success == At("finish") /\ At("idle")' /\ verdict' = "success"

\* A listing of its own that the catalog carries.
Plain(c) == Choices[c] = {} /\ c \notin Unwanted
OnShelf(c) == shelf[c] # Off

\* "Anything it omits is treated as de-listed", and so a run that reports success and
\* names no section it did not read leaves the catalog as the shop is: what stayed off
\* the shelf is not active, and what stayed on it is - but on the pages the walk never
\* came to, which a success may leave out without a word (NoNext).
SuccessIsTheTruth ==
    [][(Success /\ scan.unread = {}) =>
         \A c \in steady : Plain(c) =>
             /\ Active(c) => OnShelf(c)
             /\ (OnShelf(c) /\ shelf[c] \notin scan.cut) => Active(c)]_vars

\* "Now each choice is a listing": after such a run no page is in the catalog both as
\* itself and as its choices, whatever earlier runs made of it.
ListedOnce ==
    [][(Success /\ scan.unread = {}) =>
         \A c \in Cards : Active(c) => \A k \in Choices[c] : ~Active(k)]_vars

\* A listing filed under a section that was not read "was not omitted from the
\* inventory": one that stayed where it is filed is de-listed only by a run that began
\* its section and left out the page it is on.
HeldWhereItIs ==
    [][\A c \in steady :
         (/\ Plain(c) /\ OnShelf(c) /\ Active(c)
          /\ items[c].category = shelf[c][1]
          /\ shelf[c] \notin scan.cut) => Active(c)']_vars

(***************************************************************************)
(* The strengthenings.                                                     *)
(***************************************************************************)
\* Between runs nothing is left of the last, and only a page being read is in hand.
StageOK ==
    /\ At("idle") => scan = Idle /\ steady = {}
    /\ At("page") => scan.section \in Sections
    /\ ~At("page") => scan.found = {} /\ scan.pending = {}

Handed == scan.pending \union scan.seen

\* What the scraper has met is in hand or handed over, itself or as its choices.
HandedOK ==
    /\ scan.found \subseteq scan.met
    /\ scan.seen \cap Unwanted = {}
    /\ \A k \in scan.seen : Active(k)
    /\ \A c \in Cards :
         /\ c \in Handed => c \in scan.met \ scan.found
         /\ c \in scan.met /\ Plain(c) => c \in scan.found \union Handed
         /\ \A k \in Choices[c] : k \in Handed => c \in scan.met \ scan.found /\ c \notin Handed

\* The walk is past the place a card is at.
Passed(place) ==
    \/ scan.pc \in {"retire", "reconcile", "finish"}
    \/ scan.section > place[1]
    \/ scan.section = place[1] /\ scan.page > place[2]
    \/ scan.section = place[1] /\ scan.page = place[2] /\ At("page")

\* Not read on purpose, not asked for, or not come to.
LeftOut(place) == place[1] \in scan.unread \/ place \in scan.cut

\* A card that stays where it is has been met by then, or its section or its page left
\* out.
PassedOK ==
    ~At("idle") =>
        \A c \in steady :
            IF OnShelf(c)
            THEN Passed(shelf[c]) => c \in scan.met \/ LeftOut(shelf[c])
            ELSE c \notin scan.met

\* A run with nothing to warn about and nothing left unread has kept what it saw.
FinishOK ==
    (At("finish") /\ ~scan.warned /\ scan.unread = {}) =>
        \A k \in Keys : Active(k) <=> k \in scan.seen

\* What is retired was split.
ParentsOK == \A c \in scan.parents : Choices[c] # {}

IndInv == TypeOK /\ StageOK /\ HandedOK /\ PassedOK /\ FinishOK
=============================================================================
