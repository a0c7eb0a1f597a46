------------------------------ MODULE PhotoQueue ------------------------------
(***************************************************************************)
(* The photographs of one site: rows of item_photos that wait for a file,   *)
(* the drains that fetch them (scan_service._download_photos, at the end of *)
(* a scan, from the scheduler's photo worker, from the Sites page and from  *)
(* the command line), and the two that unlink files, prune_orphans and      *)
(* delete_items.                                                           *)
(*                                                                         *)
(* A file is named after its site and its source URL, so two rows with one  *)
(* URL have one file, and a URL stands here for its file.  The thumbnail    *)
(* comes and goes with the file.  A full disk stops a batch as a resting    *)
(* host does, and is not kept apart from one.                              *)
(***************************************************************************)
EXTENDS Naturals, FiniteSets

CONSTANTS
    Photo,          \* ids of rows, numbered as they are made
    Url, UrlOf,     \* source_url
    Item, ItemOf,
    Host, HostOf,   \* the host a URL is fetched from
    Drain,
    Buttons,        \* drains started from the Sites page, which retry what was given up on
    Commands,       \* drains of the command line that retry it too, and claim nothing
    Scans,          \* drains at the end of a scan, which a cancellation stops
    Limit,          \* max_photo_downloads_per_scan
    MaxAttempts,    \* MAX_PHOTO_ATTEMPTS
    MaxPresses,     \* bound: retries asked for
    MaxHeard,       \* bound: lasting answers about one photograph
    Housekeeping    \* whether prune-images and delete_items run

NoPhoto == 0

ASSUME ConstantsAssumption ==
    /\ Photo \subseteq Nat \ {NoPhoto}
    /\ IsFiniteSet(Photo)
    /\ UrlOf \in [Photo -> Url]
    /\ ItemOf \in [Photo -> Item]
    /\ HostOf \in [Url -> Host]
    /\ Buttons \subseteq Drain
    /\ Commands \subseteq Drain
    /\ Scans \subseteq Drain
    /\ Scans \intersect (Buttons \union Commands) = {}
    /\ Limit \in Nat \ {0}
    /\ MaxAttempts \in Nat \ {0}
    /\ MaxPresses \in Nat
    /\ MaxHeard \in Nat
    /\ Housekeeping \in BOOLEAN

VARIABLES
    rows,       \* the item_photos table
    disk,       \* the files under the image root
    resting,    \* hosts whose photo lane rests
    drains,     \* where each drain is in _download_photos
    claimed,    \* _photo_runs is not empty
    cleaner,    \* the prune or the deletion under way
    presses,
    heard,      \* history: answers about a photo that will still be true tomorrow
    handed,     \* history: files stored for a drain's row since the cleaner looked, or then in hand
    torn        \* history: files unlinked though handed, or whose row outlived them

vars == <<rows, disk, resting, drains, claimed, cleaner, presses, heard, handed, torn>>

Row == [state : {"none", "queued", "stored", "gone"}, attempts : Nat]

Answers == {"stored", "permanent", "passing", "discard"}

\* begin: about to read its batch, with the rows its session holds; next: about to fetch another;
\* record: about to commit what came of photo at.
DrainState == [pc : {"idle", "begin", "next", "record"}, left : SUBSET Photo,
               loaded : [Photo -> Nat], at : Photo \union {NoPhoto},
               answer : Answers]

\* files: what a prune found referenced, and what a deletion is to unlink.
Cleaner == [pc : {"idle", "prune", "delete", "unlinked"}, files : SUBSET Url, items : SUBSET Item]

IdleDrain == [pc |-> "idle", left |-> {}, loaded |-> [p \in Photo |-> 0], at |-> NoPhoto,
              answer |-> "passing"]

\* With these photographs of its batch left.
Fetching(left, loaded) == [pc |-> "next", left |-> left, loaded |-> loaded, at |-> NoPhoto,
                           answer |-> "passing"]

IdleCleaner == [pc |-> "idle", files |-> {}, items |-> {}]

TypeOK ==
    /\ rows \in [Photo -> Row]
    /\ disk \subseteq Url
    /\ resting \subseteq Host
    /\ drains \in [Drain -> DrainState]
    /\ claimed \in BOOLEAN
    /\ cleaner \in Cleaner
    /\ presses \in 0..MaxPresses
    /\ heard \in [Photo -> Nat]
    /\ handed \subseteq Url
    /\ torn \subseteq Url

Init ==
    /\ rows = [p \in Photo |-> [state |-> "none", attempts |-> 0]]
    /\ disk = {}
    /\ resting = {}
    /\ drains = [d \in Drain |-> IdleDrain]
    /\ claimed = FALSE
    /\ cleaner = IdleCleaner
    /\ presses = 0
    /\ heard = [p \in Photo |-> 0]
    /\ handed = {}
    /\ torn = {}

(***************************************************************************)
(* The queue.                                                              *)
(***************************************************************************)
Exists(p) == rows[p].state \in {"queued", "stored"}

\* Waiting for a file and not given up on.
Live(p) == rows[p].state = "queued" /\ rows[p].attempts < MaxAttempts

\* ORDER BY attempts, id.
Before(attempts, q, p) == attempts[q] < attempts[p] \/ (attempts[q] = attempts[p] /\ q < p)

Attempts == [p \in Photo |-> rows[p].attempts]

\* LIMIT: the first of the rows that wait.
Batch == {p \in Photo : Live(p)
            /\ Cardinality({q \in Photo : Live(q) /\ Before(Attempts, q, p)}) < Limit}

First(d, p) == /\ p \in drains[d].left
               /\ \A q \in drains[d].left \ {p} : Before(drains[d].loaded, p, q)

\* The drain is over; the button's thread releases its claim.
Idles(d) == /\ drains' = [drains EXCEPT ![d] = IdleDrain]
            /\ claimed' = (claimed /\ d \notin Buttons)

(***************************************************************************)
(* A scan's reconcile of a gallery: a row for a photograph the shop shows,   *)
(* none any more for one it has taken down.  Its file stays.               *)
(***************************************************************************)
Queue(p) ==
    /\ rows[p].state = "none"
    /\ \A q \in Photo : /\ q < p => rows[q].state # "none"
                        /\ Exists(q) => <<ItemOf[q], UrlOf[q]>> # <<ItemOf[p], UrlOf[p]>>
    /\ rows' = [rows EXCEPT ![p].state = "queued"]
    /\ UNCHANGED <<disk, resting, drains, claimed, cleaner, presses, heard, handed, torn>>

TakeDown(p) ==
    /\ Exists(p)
    /\ rows' = [rows EXCEPT ![p].state = "gone"]
    /\ UNCHANGED <<disk, resting, drains, claimed, cleaner, presses, heard, handed, torn>>

(***************************************************************************)
(* A drain.                                                                *)
(***************************************************************************)
Of(items) == {p \in Photo : ItemOf[p] \in items}

\* Mutant of Retried: as many tries are given back as there are.
RetriedByMax(row) == [row EXCEPT !.attempts = @ - MaxAttempts]

Retried(row) == [row EXCEPT !.attempts = 0]

\* What was given up on is tried again: "Fetch photographs" on the Sites page, one at a time, or
\* fetch-photos --retry-failed.
Press(d) ==
    /\ d \in Buttons \union Commands
    /\ drains[d].pc = "idle"
    /\ d \in Buttons => ~claimed
    /\ presses < MaxPresses
    /\ \E p \in Photo : rows[p].state = "queued"
    /\ presses' = presses + 1
    /\ claimed' = (claimed \/ d \in Buttons)
    /\ rows' = [p \in Photo |-> IF rows[p].state = "queued" THEN Retried(rows[p]) ELSE rows[p]]
    /\ drains' = [drains EXCEPT ![d] = [IdleDrain EXCEPT !.pc = "begin"]]
    /\ UNCHANGED <<disk, resting, cleaner, heard, handed, torn>>

\* The session of a scan holds the last listing it stored, with the photographs that waited
\* as they were.
Holds(d, i) ==
    /\ d \in Scans
    /\ drains[d].pc = "idle"
    /\ LET held == {p \in Of({i}) : rows[p].state = "queued"}
       IN  drains' = [drains EXCEPT ![d] = [IdleDrain EXCEPT !.pc = "begin", !.left = held,
                         !.loaded = [p \in Photo |-> IF p \in held THEN rows[p].attempts ELSE 0]]]
    /\ UNCHANGED <<rows, disk, resting, claimed, cleaner, presses, heard, handed, torn>>

\* A row the session holds already is not read again.
Loaded(d, p) == IF p \in drains[d].left THEN drains[d].loaded[p] ELSE rows[p].attempts

\* The batch: which rows wait is asked of the database.
Take(d) ==
    /\ drains[d].pc = "begin" \/ (drains[d].pc = "idle" /\ d \notin Buttons \union Commands)
    /\ Batch # {}
    /\ drains' = [drains EXCEPT ![d] = Fetching(Batch,
                         [p \in Photo |-> IF p \in Batch THEN Loaded(d, p) ELSE 0])]
    /\ UNCHANGED <<rows, disk, resting, claimed, cleaner, presses, heard, handed, torn>>

\* Nothing waits.
TakeNothing(d) ==
    /\ drains[d].pc = "begin"
    /\ Batch = {}
    /\ Idles(d)
    /\ UNCHANGED <<rows, disk, resting, cleaner, presses, heard, handed, torn>>

\* The batch is through, cancelled, or at a photograph whose host rests.
Leave(d) ==
    /\ drains[d].pc = "next"
    /\ \/ drains[d].left = {}
       \/ d \in Scans
       \/ \E p \in Photo : First(d, p) /\ HostOf[UrlOf[p]] \in resting
    /\ Idles(d)
    /\ UNCHANGED <<rows, disk, resting, cleaner, presses, heard, handed, torn>>

Asks(d, p) ==
    /\ drains[d].pc = "next"
    /\ First(d, p)
    /\ HostOf[UrlOf[p]] \notin resting

\* An answer about the photograph. A file that arrives is in its place before its row says so.
Answered(d, p, a) ==
    /\ Asks(d, p)
    /\ a = "permanent" => heard[p] < MaxHeard
    /\ drains' = [drains EXCEPT ![d] = [pc |-> "record", left |-> drains[d].left \ {p},
                         loaded |-> drains[d].loaded, at |-> p, answer |-> a]]
    /\ disk' = IF a = "stored" THEN disk \union {UrlOf[p]} ELSE disk
    /\ handed' = IF a = "stored" /\ cleaner.pc # "idle" THEN handed \union {UrlOf[p]} ELSE handed
    /\ heard' = IF a = "permanent" THEN [heard EXCEPT ![p] = @ + 1] ELSE heard
    /\ UNCHANGED <<rows, resting, claimed, cleaner, presses, torn>>

\* A host that cannot be reached or keeps answering 429: its photo lane rests, and the batch is over.
Refused(d, p) ==
    /\ Asks(d, p)
    /\ resting' = resting \union {HostOf[UrlOf[p]]}
    /\ Idles(d)
    /\ UNCHANGED <<rows, disk, cleaner, presses, heard, handed, torn>>

\* Mutant of Recorded: an answer that may be better tomorrow counts too.
RecordedAlways(p, loaded, a) ==
    CASE a = "stored"    -> [state |-> "stored", attempts |-> loaded + 1]
      [] a \in {"permanent", "passing"} -> [rows[p] EXCEPT !.attempts = loaded + 1]
      [] a = "discard"   -> [rows[p] EXCEPT !.state = "gone"]

\* The row as the answer leaves it; attempts counts from what was loaded.
Recorded(p, loaded, a) ==
    CASE a = "stored"    -> [state |-> "stored", attempts |-> loaded + 1]
      [] a = "permanent" -> [rows[p] EXCEPT !.attempts = loaded + 1]
      [] a = "passing"   -> rows[p]
      [] a = "discard"   -> [rows[p] EXCEPT !.state = "gone"]

\* Mutant of Record: the row is merged back when it is gone.
RecordMerges(d) ==
    LET p == drains[d].at
    IN  /\ drains[d].pc = "record"
        /\ rows' = [rows EXCEPT ![p] = Recorded(p, drains[d].loaded[p], drains[d].answer)]
        /\ drains' = [drains EXCEPT ![d] = Fetching(drains[d].left, [drains[d].loaded EXCEPT ![p] = 0])]
        /\ UNCHANGED <<disk, resting, claimed, cleaner, presses, heard, handed, torn>>

Record(d) ==
    LET p == drains[d].at
        a == drains[d].answer
    IN  /\ drains[d].pc = "record"
        /\ Exists(p) \/ a = "discard"
        /\ rows' = [rows EXCEPT ![p] = Recorded(p, drains[d].loaded[p], a)]
        /\ drains' = [drains EXCEPT ![d] = Fetching(drains[d].left, [drains[d].loaded EXCEPT ![p] = 0])]
        /\ UNCHANGED <<disk, resting, claimed, cleaner, presses, heard, handed, torn>>

\* The row is gone: the UPDATE matches none, which raises out of the drain.
RecordNothing(d) ==
    /\ drains[d].pc = "record"
    /\ ~Exists(drains[d].at)
    /\ drains[d].answer # "discard"
    /\ Idles(d)
    /\ UNCHANGED <<rows, disk, resting, cleaner, presses, heard, handed, torn>>

RestEnds(h) ==
    /\ h \in resting
    /\ resting' = resting \ {h}
    /\ UNCHANGED <<rows, disk, drains, claimed, cleaner, presses, heard, handed, torn>>

\* Any process stops where it is.
Interrupted(d) ==
    /\ drains[d].pc # "idle"
    /\ Idles(d)
    /\ UNCHANGED <<rows, disk, resting, cleaner, presses, heard, handed, torn>>

(***************************************************************************)
(* Housekeeping: what is referenced is read, then files are unlinked.       *)
(***************************************************************************)
\* Files some drain has stored for a row it has not committed.
InHand == {UrlOf[drains[d].at] : d \in {d \in Drain : drains[d].pc = "record"
                                                       /\ drains[d].answer = "stored"}}

Referenced(photos) == {UrlOf[p] : p \in {p \in photos : rows[p].state = "stored"}}

PruneLooks ==
    /\ Housekeeping
    /\ cleaner.pc = "idle"
    /\ cleaner' = [pc |-> "prune", files |-> Referenced(Photo), items |-> {}]
    /\ handed' = InHand
    /\ UNCHANGED <<rows, disk, resting, drains, claimed, presses, heard, torn>>

PruneUnlinks(u) ==
    /\ cleaner.pc = "prune"
    /\ u \in disk \ cleaner.files
    /\ disk' = disk \ {u}
    /\ torn' = torn \union ({u} \intersect handed)
    /\ UNCHANGED <<rows, resting, drains, claimed, cleaner, presses, heard, handed>>

CleanerIdles ==
    /\ cleaner' = IdleCleaner
    /\ handed' = {}

PruneEnds ==
    /\ cleaner.pc = "prune"
    /\ CleanerIdles
    /\ UNCHANGED <<rows, disk, resting, drains, claimed, presses, heard, torn>>

\* Mutant of DeleteLooks: without asking which files another listing uses.
DeleteLooksAtItsOwn(i) ==
    /\ Housekeeping
    /\ cleaner.pc = "idle"
    /\ \E p \in Of({i}) : Exists(p)
    /\ cleaner' = [pc |-> "delete", items |-> {i}, files |-> Referenced(Of({i}))]
    /\ handed' = InHand
    /\ UNCHANGED <<rows, disk, resting, drains, claimed, presses, heard, torn>>

\* The files of the listings that go, but those another listing's row points at.
DeleteLooks(i) ==
    /\ Housekeeping
    /\ cleaner.pc = "idle"
    /\ \E p \in Of({i}) : Exists(p)
    /\ cleaner' = [pc |-> "delete", items |-> {i},
                   files |-> Referenced(Of({i})) \ Referenced(Photo \ Of({i}))]
    /\ handed' = InHand
    /\ UNCHANGED <<rows, disk, resting, drains, claimed, presses, heard, torn>>

DeleteUnlinks ==
    /\ cleaner.pc = "delete"
    /\ disk' = disk \ cleaner.files
    /\ torn' = torn \union (cleaner.files \intersect handed)
    /\ cleaner' = [cleaner EXCEPT !.pc = "unlinked"]
    /\ UNCHANGED <<rows, resting, drains, claimed, presses, heard, handed>>

DeleteCommits ==
    /\ cleaner.pc = "unlinked"
    /\ rows' = [p \in Photo |-> IF p \in Of(cleaner.items) /\ Exists(p)
                                THEN [rows[p] EXCEPT !.state = "gone"] ELSE rows[p]]
    /\ CleanerIdles
    /\ UNCHANGED <<disk, resting, drains, claimed, presses, heard, torn>>

\* The commit fails, or the process stops before it: the files are gone and the rows are not.
DeleteFails ==
    /\ cleaner.pc = "unlinked"
    /\ torn' = torn \union cleaner.files
    /\ CleanerIdles
    /\ UNCHANGED <<rows, disk, resting, drains, claimed, presses, heard>>

-----------------------------------------------------------------------------
DrainSteps(d) ==
    \/ Press(d) \/ (\E i \in Item : Holds(d, i)) \/ Take(d) \/ TakeNothing(d) \/ Leave(d)
    \/ \E p \in Photo : \/ \E a \in Answers : Answered(d, p, a)
                        \/ Refused(d, p)
    \/ Record(d) \/ RecordNothing(d) \/ Interrupted(d)

Cleans ==
    \/ PruneLooks \/ PruneEnds \/ DeleteUnlinks \/ DeleteCommits \/ DeleteFails
    \/ \E u \in Url : PruneUnlinks(u)
    \/ \E i \in Item : DeleteLooks(i)

Next ==
    \/ \E d \in Drain : DrainSteps(d)
    \/ \E p \in Photo : Queue(p) \/ TakeDown(p)
    \/ \E h \in Host : RestEnds(h)
    \/ Cleans

Spec == Init /\ [][Next]_vars

-----------------------------------------------------------------------------
(***************************************************************************)
(* Properties.                                                             *)
(***************************************************************************)
\* A listing's photograph is on disk, unless housekeeping unlinked the file while a drain was
\* handing in that very photograph, or lost its own transaction afterwards. So a prune and a
\* deletion that no drain overlaps never take a picture a listing still shows, whichever
\* listings share it (image_store.prune_orphans, scan_service.delete_items).
RowHasItsFile ==
    \A p \in Photo : rows[p].state = "stored" =>
        \/ UrlOf[p] \in disk \union torn
        \/ cleaner.pc = "unlinked" /\ UrlOf[p] \in cleaner.files /\ ItemOf[p] \in cleaner.items

\* A photograph is given up on only for answers that will still be true tomorrow: rests, 429s,
\* timeouts and interruptions, however many and through however many drains, strand none. Heard
\* counts from when the photograph was queued, for a retry that was asked for is undone by a drain
\* that writes from a row it loaded before (scan_service._download_photos).
GiveUpIsEarned ==
    \A p \in Photo : rows[p].state = "queued" => rows[p].attempts <= heard[p]

\* A photograph waits, is stored, and goes: one that was taken down or deleted while a drain was
\* fetching it stays away, and one that was stored never waits again, though each drain records
\* from the rows it loaded when its batch began (scan_service._download_photos).
OnlyForward ==
    [][\A p \in Photo : rows'[p].state # rows[p].state =>
         \/ rows[p].state = "none"
         \/ rows[p].state = "queued" /\ rows'[p].state = "stored"
         \/ rows'[p].state = "gone"]_vars
=============================================================================
