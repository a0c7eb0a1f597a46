------------------------------ MODULE WatchAlerts ------------------------------
(***************************************************************************)
(* One listing, one reader's watch on it, and the mail that tells them: the *)
(* scan, the watch poll and the checks of the inbox that store what the     *)
(* shop shows (scan_service, watchpoll, inbox), the rule for what is news   *)
(* (watchlist, renotify) and the dispatch that sends and then marks         *)
(* (scheduler).                                                            *)
(*                                                                         *)
(* Times are compared, never read, so no clock is kept: a stamp is whether  *)
(* it is older than the one it will be compared with.                       *)
(***************************************************************************)
EXTENDS Naturals

CONSTANTS
    Pollers,        \* threads that read a listing again: the scheduler's, and those the page starts
    Tick,           \* the scheduler's thread, which mails as well
    Prices,         \* what a listing may cost, in cents
    Terms,          \* what a reader may ask for: a target, or none; at once; on its return
    Start,          \* what the shop may show at the start
    MaxMoves,       \* bound: how often the shop changes
    MaxEdits        \* bound: how often a watch is changed, or the listing taken out

ASSUME ConstantsAssumption ==
    /\ Tick \in Pollers
    /\ Prices \subseteq Nat \ {0}
    /\ Terms \subseteq [target : Prices \union {0}, immediate : BOOLEAN, restock : BOOLEAN]
    /\ Start \subseteq [listed : BOOLEAN, price : Prices, sold : BOOLEAN]
    /\ MaxMoves \in Nat /\ MaxEdits \in Nat

VARIABLES
    shop,   \* what the shop shows
    moves,  \* bound: how often it has changed
    item,   \* the row of the listing
    watch,  \* the row of the watch, and how the stamps of the listing compare with its own
    edits,  \* bound: how often it was changed, or the listing taken out
    scan,   \* a scan of the shop
    poll,   \* of every poller: a watch poll, or the re-check an email from the shop starts
    mail,   \* the dispatch of the reader's alerts
    said    \* history: what the reader was mailed, and what happened since

vars == <<shop, moves, item, watch, edits, scan, poll, mail, said>>

None == 0

Known == Prices \union {None}

\* No row: the listing is not in the catalog.
NoRow == [price |-> None, sold |-> FALSE, active |-> FALSE]

\* What a session has read of a row, or nothing.
NoCopy == [price |-> None, sold |-> FALSE]

Copy(row) == [price |-> row.price, sold |-> row.sold]

NoScan == [pc |-> "idle", found |-> FALSE, early |-> FALSE, earlyBack |-> FALSE, copy |-> NoCopy,
           price |-> None, sold |-> FALSE]

NoPoll == [pc |-> "idle", early |-> FALSE, copy |-> NoCopy, price |-> None, sold |-> FALSE]

NoMail == [pc |-> "idle", news |-> "target", gone |-> FALSE, price |-> None, told |-> None]

\* told, rose, old: alerted_price, a history row above it since alerted_at, renotify_after_days
\* have passed since. back: restocked_at is after restock_alerted_at and created_at.
\* early: its stamp is older than alerted_at. earlyBack: than restock_alerted_at or created_at.
\* gone: a watch that the mail tells of is deleted.
TypeOK ==
    /\ shop \in [listed : BOOLEAN, price : Prices, sold : BOOLEAN]
    /\ moves \in 0..MaxMoves
    /\ item \in [price : Known, sold : BOOLEAN, active : BOOLEAN]
    /\ item.active => item.price \in Prices
    /\ watch \in [on : BOOLEAN, target : Known, immediate : BOOLEAN, restock : BOOLEAN, told : Known,
                  rose : BOOLEAN, old : BOOLEAN, back : BOOLEAN]
    /\ edits \in 0..MaxEdits
    /\ scan \in [pc : {"idle", "walking", "met", "storing"}, found : BOOLEAN, early : BOOLEAN,
                 earlyBack : BOOLEAN, copy : [price : Known, sold : BOOLEAN], price : Known,
                 sold : BOOLEAN]
    /\ scan.pc \in {"met", "storing"} => scan.price \in Prices
    /\ poll \in [Pollers -> [pc : {"idle", "begun", "asking", "storing"}, early : BOOLEAN,
                             copy : [price : Known, sold : BOOLEAN], price : Known, sold : BOOLEAN]]
    /\ \A p \in Pollers : poll[p].pc = "storing" => poll[p].price \in Prices
    /\ mail \in [pc : {"idle", "sending", "sent"}, news : {"target", "back"}, gone : BOOLEAN,
                 price : Known, told : Known]
    /\ mail.pc # "idle" => mail.price \in Prices
    /\ said \in [price : Known, lost : BOOLEAN, rise : BOOLEAN, returned : BOOLEAN, lostBack : BOOLEAN]

-----------------------------------------------------------------------------
(***************************************************************************)
(* What is news.                                                           *)
(***************************************************************************)
\* Mutant of IsNews: any other price, as it once was.
IsNewsIfOther(price) == watch.told = None \/ price # watch.told \/ watch.rose \/ watch.old

\* renotify.is_news.
IsNews(price) ==
    \/ watch.told = None
    \/ watch.old
    \/ price < watch.told
    \/ watch.rose /\ price <= watch.told

ForSale == item.active /\ ~item.sold

RestockIsDue == watch.on /\ watch.restock /\ ForSale /\ watch.back

TargetIsDue ==
    /\ watch.on /\ watch.immediate /\ ForSale
    /\ watch.target # None /\ item.price <= watch.target
    /\ IsNews(item.price)

Due == RestockIsDue \/ TargetIsDue

-----------------------------------------------------------------------------
NoWatch == [on |-> FALSE, target |-> None, immediate |-> FALSE, restock |-> FALSE, told |-> None,
            rose |-> FALSE, old |-> FALSE, back |-> FALSE]

NewWatch(terms) ==
    [NoWatch EXCEPT !.on = TRUE, !.target = terms.target, !.restock = terms.restock,
                    !.immediate = terms.immediate /\ terms.target # None]

NothingSaid == [price |-> None, lost |-> FALSE, rise |-> FALSE, returned |-> FALSE, lostBack |-> FALSE]

Init ==
    /\ shop \in Start
    /\ item = [price |-> shop.price, sold |-> shop.sold, active |-> shop.listed]
    /\ \/ watch = NoWatch
       \/ \E terms \in Terms : watch = NewWatch(terms)
    /\ moves = 0 /\ edits = 0
    /\ scan = NoScan /\ poll = [p \in Pollers |-> NoPoll] /\ mail = NoMail
    /\ said = NothingSaid

\* The shop, which is not ours.
Moves ==
    /\ moves < MaxMoves
    /\ moves' = moves + 1
    /\ shop' \in [listed : BOOLEAN, price : Prices, sold : BOOLEAN]
    /\ shop' # shop
    /\ UNCHANGED <<item, watch, edits, scan, poll, mail, said>>

(***************************************************************************)
(* A new price in price_history, if there is one, under the stamp of the    *)
(* one who saw it; and a return.                                           *)
(***************************************************************************)
Remembers(price, early, back) ==
    /\ watch' = [watch EXCEPT !.rose = @ \/ (watch.told # None /\ price > watch.told /\ ~early),
                              !.back = back]
    /\ said' = [said EXCEPT !.rise = @ \/ (said.price # None /\ price > said.price),
                            !.returned = @ \/ (back /\ ~watch.back)]

(***************************************************************************)
(* The scan (scan_service).  All that it stores is stamped with its start. *)
(***************************************************************************)
ScanStarts ==
    /\ scan.pc = "idle"
    /\ scan' = [NoScan EXCEPT !.pc = "walking"]
    /\ UNCHANGED <<shop, moves, item, watch, edits, poll, mail, said>>

\* A listing may be met on more than one page.
ScanReads ==
    /\ scan.pc = "walking"
    /\ shop.listed
    /\ scan' = [scan EXCEPT !.pc = "met", !.found = TRUE, !.price = shop.price, !.sold = shop.sold]
    /\ UNCHANGED <<shop, moves, item, watch, edits, poll, mail, said>>

\* The row as it is, or the copy that the session kept of it: a commit does not expire it.
ScanLoads ==
    /\ scan.pc = "met"
    /\ \/ scan' = [scan EXCEPT !.pc = "storing", !.copy = Copy(item)]
       \/ scan.copy # NoCopy /\ scan' = [scan EXCEPT !.pc = "storing"]
    /\ UNCHANGED <<shop, moves, item, watch, edits, poll, mail, said>>

\* Mutant of Stored: a price that rises is left to the watch poll.
StoredIfLower(row, copy, price, sold) ==
    [price |-> IF copy.price = None \/ price < copy.price THEN price ELSE row.price, sold |-> sold,
     active |-> TRUE]

\* Mutant of Stored: what is sold has no price.
StoredUnpriced(row, copy, price, sold) ==
    [price |-> IF sold THEN None ELSE price, sold |-> sold, active |-> TRUE]

\* _upsert_item: the price, whether it is sold, and that it is there. What comes out as it was
\* loaded is not written: the row keeps what a poll has stored since.
Stored(row, copy, price, sold) ==
    [price |-> IF price # copy.price THEN price ELSE row.price,
     sold |-> IF sold # copy.sold THEN sold ELSE row.sold, active |-> TRUE]

ScanStores ==
    /\ scan.pc = "storing"
    /\ item' = Stored(item, scan.copy, scan.price, scan.sold)
    /\ scan' = [scan EXCEPT !.pc = "walking", !.copy = [price |-> scan.price, sold |-> scan.sold],
                            !.price = None, !.sold = FALSE]
    /\ Remembers(IF scan.price # scan.copy.price THEN scan.price ELSE None, scan.early,
                 IF scan.copy.sold /\ ~scan.sold THEN watch.on /\ ~scan.earlyBack ELSE watch.back)
    /\ UNCHANGED <<shop, moves, edits, poll, mail>>

\* delete_items: what the owner leaves out as it is stored, or a page whose choices are listings
\* now. The watches on it go with it, and what a poll has loaded of it can no longer be stored.
ScanDeletes ==
    /\ scan.pc \in {"walking", "storing"}
    /\ item # NoRow
    /\ edits < MaxEdits
    /\ edits' = edits + 1
    /\ item' = NoRow
    /\ watch' = NoWatch
    /\ said' = NothingSaid
    /\ scan' = [scan EXCEPT !.pc = "walking", !.copy = NoCopy, !.price = None, !.sold = FALSE]
    /\ poll' = [p \in Pollers |-> IF poll[p].pc \in {"asking", "storing"} THEN NoPoll ELSE poll[p]]
    /\ mail' = [mail EXCEPT !.gone = mail.pc # "idle"]
    /\ UNCHANGED <<shop, moves>>

\* The end of the run: a listing it did not meet is gone. A run that failed says nothing of it.
ScanEnds ==
    /\ scan.pc = "walking"
    /\ scan' = NoScan
    /\ \/ ~scan.found /\ item' = [item EXCEPT !.active = FALSE]
       \/ UNCHANGED item
    /\ UNCHANGED <<shop, moves, watch, edits, poll, mail, said>>

(***************************************************************************)
(* A poll: the watch poll (watchpoll.run), and the re-check of what an email *)
(* from the shop names (inbox.recheck), which does the same for any listing, *)
(* watched and for sale or not.  The scheduler's thread does both, one after *)
(* the other and before its mail; the page starts a check beside it.        *)
(***************************************************************************)
\* The stamp is of now; a watch poll's is of when it asks, but nothing is marked until it ends.
PollStarts(p) ==
    /\ poll[p].pc = "idle"
    /\ p = Tick => mail.pc = "idle"
    /\ poll' = [poll EXCEPT ![p] = [NoPoll EXCEPT !.pc = "begun"]]
    /\ UNCHANGED <<shop, moves, item, watch, edits, scan, mail, said>>

\* Only a sale that has ended names what is no longer listed, and the scheduler settles those.
PollLoads(p) ==
    /\ poll[p].pc = "begun"
    /\ item # NoRow
    /\ p # Tick => item.active
    /\ poll' = [poll EXCEPT ![p] = [@ EXCEPT !.pc = "asking", !.copy = Copy(item)]]
    /\ UNCHANGED <<shop, moves, item, watch, edits, scan, mail, said>>

\* The page of the listing, read in its turn.
PollAsks(p) ==
    /\ poll[p].pc = "asking"
    /\ shop.listed
    /\ poll' = [poll EXCEPT ![p] = [@ EXCEPT !.pc = "storing", !.price = shop.price,
                                            !.sold = shop.sold]]
    /\ UNCHANGED <<shop, moves, item, watch, edits, scan, mail, said>>

\* No answer, one that cannot be read, nothing to read again, or a commit that fails for another
\* listing of the pass.
PollFails(p) ==
    /\ poll[p].pc # "idle"
    /\ poll' = [poll EXCEPT ![p] = NoPoll]
    /\ UNCHANGED <<shop, moves, item, watch, edits, scan, mail, said>>

\* record_price, computed from the row as it was loaded. What comes out as it was loaded is not
\* written: the row keeps what was stored since.
Polled(row, copy, price, sold) ==
    [price |-> IF price # copy.price THEN price ELSE row.price,
     sold |-> row.sold \/ (sold /\ ~copy.sold), active |-> row.active]

PollStores(p) ==
    /\ poll[p].pc = "storing"
    /\ item' = Polled(item, poll[p].copy, poll[p].price, poll[p].sold)
    /\ poll' = [poll EXCEPT ![p] = NoPoll]
    /\ Remembers(IF poll[p].price # poll[p].copy.price THEN poll[p].price ELSE None, poll[p].early,
                 watch.back)
    /\ UNCHANGED <<shop, moves, edits, scan, mail>>

(***************************************************************************)
(* The reader (api/watchlist.py).                                          *)
(***************************************************************************)
\* A star, or other terms of one; a star is of now, and what came back before it is not news.
Watches(terms) ==
    /\ edits < MaxEdits
    /\ item # NoRow
    /\ edits' = edits + 1
    /\ watch.on /\ watch.target = terms.target =>
         /\ watch' = [watch EXCEPT !.immediate = NewWatch(terms).immediate, !.restock = terms.restock]
         /\ said' = said
    /\ ~(watch.on /\ watch.target = terms.target) =>
         /\ watch' = [NewWatch(terms) EXCEPT !.back = watch.back]
         /\ said' = [said EXCEPT !.price = None, !.lost = FALSE, !.rise = FALSE]
    /\ scan' = [scan EXCEPT !.earlyBack = (@ \/ ~watch.on) /\ scan.pc # "idle"]
    /\ UNCHANGED <<shop, moves, item, poll, mail>>

Unwatches ==
    /\ edits < MaxEdits
    /\ watch.on
    /\ edits' = edits + 1
    /\ watch' = NoWatch
    /\ said' = NothingSaid
    /\ mail' = [mail EXCEPT !.gone = mail.pc # "idle"]
    /\ UNCHANGED <<shop, moves, item, scan, poll>>

\* Another watch that the same mail tells of.
UnwatchesOther ==
    /\ mail.pc # "idle"
    /\ edits < MaxEdits
    /\ edits' = edits + 1
    /\ mail' = [mail EXCEPT !.gone = TRUE]
    /\ UNCHANGED <<shop, moves, item, watch, scan, poll, said>>

\* renotify_after_days have passed since alerted_at.
Expires ==
    /\ watch.told # None /\ ~watch.old
    /\ watch' = [watch EXCEPT !.old = TRUE]
    /\ UNCHANGED <<shop, moves, item, edits, scan, poll, mail, said>>

(***************************************************************************)
(* The dispatch: what is due is read, sent, and marked once it is sent.     *)
(***************************************************************************)
Gathers ==
    /\ mail.pc = "idle" /\ poll[Tick].pc = "idle"
    /\ Due
    /\ mail' = [pc |-> "sending", news |-> IF RestockIsDue THEN "back" ELSE "target",
                gone |-> FALSE, price |-> item.price, told |-> watch.told]
    /\ UNCHANGED <<shop, moves, item, watch, edits, scan, poll, said>>

\* By mail or to a browser: either is enough.
Sends ==
    /\ mail.pc = "sending"
    /\ mail' = [mail EXCEPT !.pc = "sent"]
    /\ said' = IF ~watch.on THEN said
               ELSE IF mail.news = "back"
                    THEN [said EXCEPT !.returned = FALSE, !.lostBack = TRUE]
                    ELSE [said EXCEPT !.price = mail.price, !.lost = TRUE, !.rise = FALSE]
    /\ UNCHANGED <<shop, moves, item, watch, edits, scan, poll>>

SendFails ==
    /\ mail.pc = "sending"
    /\ mail' = NoMail
    /\ UNCHANGED <<shop, moves, item, watch, edits, scan, poll, said>>

\* mark_alerted: the price that was mailed, which is not written where it is the one that was
\* loaded, and when.
Marked(w) ==
    [w EXCEPT !.told = IF mail.price # mail.told THEN mail.price ELSE @, !.rose = FALSE, !.old = FALSE]

\* mark_update, for the target.
MarksTarget ==
    /\ mail.pc = "sent" /\ mail.news = "target" /\ ~mail.gone
    /\ watch' = Marked(watch)
    /\ scan' = [scan EXCEPT !.early = scan.pc # "idle"]
    /\ poll' = [p \in Pollers |-> [poll[p] EXCEPT !.early = poll[p].pc # "idle"]]
    /\ said' = [said EXCEPT !.lost = watch'.told # mail.price, !.rise = FALSE]
    /\ mail' = NoMail
    /\ UNCHANGED <<shop, moves, item, edits>>

\* Mutant of Answered: the return is left on the row.
AnsweredNever(w) == w

Answered(w) == [w EXCEPT !.back = FALSE]

\* mark_update, for a return.
MarksBack ==
    /\ mail.pc = "sent" /\ mail.news = "back" /\ ~mail.gone
    /\ watch' = Answered(watch)
    /\ scan' = [scan EXCEPT !.earlyBack = scan.pc # "idle"]
    /\ said' = [said EXCEPT !.returned = FALSE, !.lostBack = FALSE]
    /\ mail' = NoMail
    /\ UNCHANGED <<shop, moves, item, edits, poll>>

\* Mutant of MarkFails: the exception ends the thread of the tick.
MarkFailsForAll ==
    /\ mail.pc = "sent"
    /\ UNCHANGED vars

\* The commit fails, or finds a row that is gone, and marks none of those the mail told of.
MarkFails ==
    /\ mail.pc = "sent"
    /\ mail' = NoMail
    /\ UNCHANGED <<shop, moves, item, watch, edits, scan, poll, said>>

\* The process stops; the next one starts with nothing under way.
Restart ==
    /\ scan' = NoScan /\ poll' = [p \in Pollers |-> NoPoll] /\ mail' = NoMail
    /\ UNCHANGED <<shop, moves, item, watch, edits, said>>

-----------------------------------------------------------------------------
Scan == ScanStarts \/ ScanReads \/ ScanLoads \/ ScanStores \/ ScanDeletes \/ ScanEnds

PollGoesOn(p) == PollLoads(p) \/ PollAsks(p) \/ PollFails(p) \/ PollStores(p)

Poll == \E p \in Pollers : PollStarts(p) \/ PollGoesOn(p)

Reader ==
    \/ \E terms \in Terms : Watches(terms)
    \/ Unwatches \/ UnwatchesOther

Mailer == Gathers \/ Sends \/ SendFails \/ MarksTarget \/ MarksBack \/ MarkFails

Next == Moves \/ Scan \/ Poll \/ Reader \/ Expires \/ Mailer \/ Restart

Spec == Init /\ [][Next]_vars

\* Scans are started every day, go on and end, polls and ticks end, and not every mail fails nor
\* every page. A restart does not for ever come before the mark.
FairSpec ==
    /\ Spec
    /\ WF_vars(Scan)
    /\ SF_vars(ScanReads) /\ SF_vars(ScanLoads) /\ SF_vars(ScanStores) /\ SF_vars(ScanEnds)
    /\ \A p \in Pollers : WF_vars(PollGoesOn(p))
    /\ SF_vars(Gathers) /\ SF_vars(Sends)
    /\ SF_vars(MarksTarget \/ MarksBack \/ MarkFails)

-----------------------------------------------------------------------------
(***************************************************************************)
(* Properties.                                                             *)
(***************************************************************************)
\* A price is mailed to a reader who knows one only if it is lower, or no higher after a rise: unless
\* the notice has expired, or what was mailed could not be marked. A rise is never news
\* (renotify.is_news).
NeverTwice ==
    [][Sends /\ mail.news = "target" /\ watch.on /\ said.price # None /\ ~said.lost =>
         \/ mail.price < said.price
         \/ said.rise /\ mail.price <= said.price
         \/ watch.old]_vars

\* One return is one mail (watchlist.restock_is_due), unless the mark was lost.
OneReturnOneMail ==
    [][Sends /\ mail.news = "back" /\ ~mail.gone => said.returned \/ said.lostBack]_vars

\* What stays due is mailed, and again where the mark was lost: no failure of a mail, a commit or
\* a poll stops the dispatch (scheduler._dispatch_watch_alerts).
DueIsTold == <>[]Due => []<><<Sends>>_vars

\* The row comes to say what the shop shows (scan_service._upsert_item), whatever a poll stores.
CatchesUp == <>[](shop.listed => item.price = shop.price /\ item.sold = shop.sold)
=============================================================================
