--------------------------- MODULE WatchAlertsProofs ---------------------------
(***************************************************************************)
(* What a reader is mailed, proved for any pollers, prices, terms and       *)
(* bounds.                                                                 *)
(***************************************************************************)
EXTENDS WatchAlerts, TLAPS

(***************************************************************************)
(* The inductive invariant.                                                *)
(***************************************************************************)
\* What the variables hold.
ItemType == [price : Known, sold : BOOLEAN, active : BOOLEAN]

CopyType == [price : Known, sold : BOOLEAN]

WatchType == [on : BOOLEAN, target : Known, immediate : BOOLEAN, restock : BOOLEAN, told : Known,
              rose : BOOLEAN, old : BOOLEAN, back : BOOLEAN]

ScanType == [pc : {"idle", "walking", "met", "storing"}, found : BOOLEAN, early : BOOLEAN,
             earlyBack : BOOLEAN, copy : CopyType, price : Known, sold : BOOLEAN]

PollType == [pc : {"idle", "begun", "asking", "storing"}, early : BOOLEAN, copy : CopyType,
             price : Known, sold : BOOLEAN]

MailType == [pc : {"idle", "sending", "sent"}, news : {"target", "back"}, gone : BOOLEAN,
             price : Known, told : Known]

SaidType == [price : Known, lost : BOOLEAN, rise : BOOLEAN, returned : BOOLEAN, lostBack : BOOLEAN]

\* A poll that will store has a price to store.
PollOK(q) == q \in PollType /\ (q.pc = "storing" => q.price \in Prices)

Types ==
    /\ shop \in [listed : BOOLEAN, price : Prices, sold : BOOLEAN]
    /\ moves \in 0..MaxMoves
    /\ item \in ItemType
    /\ item.active => item.price \in Prices
    /\ watch \in WatchType
    /\ edits \in 0..MaxEdits
    /\ scan \in ScanType
    /\ scan.pc \in {"met", "storing"} => scan.price \in Prices
    /\ poll \in [Pollers -> PollType]
    /\ \A p \in Pollers : PollOK(poll[p])
    /\ mail \in MailType
    /\ mail.pc # "idle" => mail.price \in Prices
    /\ said \in SaidType

\* What was mailed and marked is what the row of the watch says.
MarkedOK ==
    /\ ~watch.on => said.price = None
    /\ watch.on /\ said.price # None /\ ~said.lost =>
         watch.told = said.price /\ (watch.rose => said.rise)
    /\ mail.pc = "sent" /\ mail.news = "target" /\ ~mail.gone /\ said.price # None =>
         said.price = mail.price

\* A mail that is on its way is still news when it goes.
SendingOK ==
    mail.pc = "sending" /\ mail.news = "target" /\ watch.on /\ said.price # None /\ ~said.lost =>
        \/ mail.price < said.price
        \/ said.rise /\ mail.price <= said.price
        \/ watch.old

\* A return on the row was stored since the last one that was mailed and marked.
BackOK ==
    /\ watch.back => said.returned \/ said.lostBack
    /\ mail.pc = "sending" /\ mail.news = "back" /\ ~mail.gone => said.returned \/ said.lostBack

\* What the scan keeps a copy of is a row still: it alone deletes rows.
RowOK == scan.copy.price # None => item.price # None

IndInv == Types /\ RowOK /\ MarkedOK /\ SendingOK /\ BackOK

LEMMA PricesAreNumbers == Prices \subseteq Nat /\ None \notin Prices /\ None \in Nat
  BY ConstantsAssumption DEF ConstantsAssumption, None

\* Nothing under way, and nothing said, are of their types.
LEMMA Nothing ==
    /\ NoRow \in ItemType /\ ~NoRow.active
    /\ NoCopy \in CopyType
    /\ NoScan \in ScanType /\ NoScan.pc = "idle"
    /\ PollOK(NoPoll) /\ NoPoll.pc = "idle"
    /\ NoMail \in MailType /\ NoMail.pc = "idle"
    /\ NoWatch \in WatchType /\ ~NoWatch.on /\ ~NoWatch.back
    /\ NothingSaid \in SaidType /\ NothingSaid.price = None
  BY DEF NoRow, NoCopy, NoScan, NoPoll, NoMail, NoWatch, NothingSaid, Known, ItemType, CopyType,
         ScanType, PollType, PollOK, MailType, WatchType, SaidType

LEMMA CopyOfARow == ASSUME item \in ItemType PROVE Copy(item) \in CopyType
  BY DEF Copy, ItemType, CopyType

LEMMA NewWatchType ==
    ASSUME NEW terms \in Terms
    PROVE  /\ NewWatch(terms) \in WatchType
           /\ NewWatch(terms).on /\ NewWatch(terms).told = None
           /\ ~NewWatch(terms).rose /\ ~NewWatch(terms).back
<1>1. terms \in [target : Known, immediate : BOOLEAN, restock : BOOLEAN]
  BY ConstantsAssumption DEF ConstantsAssumption, Known, None
<1>2. QED
  BY <1>1 DEF NewWatch, NoWatch, Known, WatchType

LEMMA InitInv == Init => IndInv
<1> SUFFICES ASSUME Init PROVE IndInv
  OBVIOUS
<1>1. shop \in [listed : BOOLEAN, price : Prices, sold : BOOLEAN]
  BY ConstantsAssumption DEF Init, ConstantsAssumption
<1>2. item \in ItemType /\ (item.active => item.price \in Prices)
  BY <1>1 DEF Init, ItemType, Known
<1>3. /\ watch \in WatchType
      /\ ~watch.back
  <2>1. NoWatch.back = FALSE
    BY DEF NoWatch
  <2>2. CASE watch = NoWatch
    BY <2>1, <2>2, Nothing
  <2>3. CASE \E terms \in Terms : watch = NewWatch(terms)
    BY <2>3, NewWatchType
  <2>4. QED
    BY <2>2, <2>3 DEF Init
<1>4. moves \in 0..MaxMoves /\ edits \in 0..MaxEdits
  BY ConstantsAssumption DEF Init, ConstantsAssumption
<1>5. /\ scan = NoScan /\ poll = [p \in Pollers |-> NoPoll] /\ mail = NoMail /\ said = NothingSaid
      /\ said.price = None
  BY Nothing DEF Init
<1>6. poll \in [Pollers -> PollType] /\ \A p \in Pollers : PollOK(poll[p])
  <2>1. NoPoll \in PollType
    BY Nothing DEF PollOK
  <2>2. QED
    BY <1>5, <2>1, Nothing
<1>7. Types
  BY <1>1, <1>2, <1>3, <1>4, <1>5, <1>6, Nothing DEF Types
<1>9. RowOK
  BY <1>5 DEF RowOK, NoScan, NoCopy
<1>10. MarkedOK /\ SendingOK /\ BackOK
  BY <1>3, <1>5, Nothing DEF MarkedOK, SendingOK, BackOK
<1>8. QED
  BY <1>7, <1>9, <1>10 DEF IndInv

(***************************************************************************)
(* The steps, one by one.                                                  *)
(***************************************************************************)
\* Steps that leave the row, the watch, the mail and what was said alone.
LEMMA AsideInv ==
    ASSUME IndInv, UNCHANGED <<item, watch, mail, said, edits>>,
           shop' \in [listed : BOOLEAN, price : Prices, sold : BOOLEAN] /\ moves' \in 0..MaxMoves,
           scan' \in ScanType, scan'.pc \in {"met", "storing"} => scan'.price \in Prices,
           scan'.copy.price # None => item.price # None,
           poll' \in [Pollers -> PollType], \A p \in Pollers : PollOK(poll'[p])
    PROVE  IndInv'
<1>1. Types'
  BY DEF IndInv, Types
<1>2. MarkedOK' /\ SendingOK' /\ BackOK'
  BY DEF IndInv, MarkedOK, SendingOK, BackOK
<1>3. RowOK'
  BY DEF RowOK
<1>4. QED
  BY <1>1, <1>2, <1>3 DEF IndInv

LEMMA MovesInv == ASSUME IndInv, Moves PROVE IndInv'
<1>1. moves' \in 0..MaxMoves
  BY ConstantsAssumption DEF Moves, IndInv, Types, ConstantsAssumption
<1>2. /\ shop' \in [listed : BOOLEAN, price : Prices, sold : BOOLEAN]
      /\ UNCHANGED <<item, watch, mail, said, edits, scan, poll>>
  BY DEF Moves
<1>3. QED
  BY <1>1, <1>2, AsideInv DEF IndInv, Types, RowOK

LEMMA ScanAsideInv == ASSUME IndInv, ScanStarts \/ ScanReads \/ ScanLoads PROVE IndInv'
<1>1. UNCHANGED <<item, watch, mail, said, edits, shop, moves, poll>>
  BY DEF ScanStarts, ScanReads, ScanLoads
<1>2. /\ scan' \in ScanType
      /\ scan'.pc \in {"met", "storing"} => scan'.price \in Prices
      /\ scan'.copy.price # None => item.price # None
  <2>1. CASE ScanStarts
    <3>1. NoScan.copy.price = None
      BY DEF NoScan, NoCopy
    <3>2. scan' = [NoScan EXCEPT !.pc = "walking"]
      BY <2>1 DEF ScanStarts
    <3>3. QED
      BY <3>1, <3>2, Nothing DEF ScanType
  <2>2. CASE ScanReads
    BY <2>2 DEF ScanReads, IndInv, Types, RowOK, ScanType, Known
  <2>3. CASE ScanLoads
    <3>1. Copy(item) \in CopyType /\ Copy(item).price = item.price
      BY CopyOfARow DEF IndInv, Types, Copy
    <3>2. \/ scan' = [scan EXCEPT !.pc = "storing", !.copy = Copy(item)]
          \/ scan' = [scan EXCEPT !.pc = "storing"]
      BY <2>3 DEF ScanLoads
    <3>3. scan \in ScanType /\ scan.price \in Prices
      BY <2>3 DEF ScanLoads, IndInv, Types
    <3>4. QED
      BY <3>1, <3>2, <3>3 DEF ScanType, IndInv, RowOK
  <2>4. QED
    BY <2>1, <2>2, <2>3
<1>3. QED
  BY <1>1, <1>2, AsideInv DEF IndInv, Types

\* One poll goes on, the others stay as they are.
LEMMA PollGoes ==
    ASSUME IndInv, NEW p \in Pollers, NEW q, PollOK(q), poll' = [poll EXCEPT ![p] = q]
    PROVE  poll' \in [Pollers -> PollType] /\ \A o \in Pollers : PollOK(poll'[o])
<1>1. poll \in [Pollers -> PollType] /\ \A o \in Pollers : PollOK(poll[o])
  BY DEF IndInv, Types
<1>2. q \in PollType
  BY DEF PollOK
<1>3. QED
  BY <1>1, <1>2

LEMMA PollAsideInv ==
    ASSUME IndInv, NEW p \in Pollers, PollStarts(p) \/ PollLoads(p) \/ PollAsks(p) \/ PollFails(p)
    PROVE  IndInv'
<1>1. UNCHANGED <<item, watch, mail, said, edits, shop, moves, scan>>
  BY DEF PollStarts, PollLoads, PollAsks, PollFails
<1>2. poll[p] \in PollType /\ NoPoll \in PollType
  BY Nothing DEF IndInv, Types, PollOK
<1>3. \E q : PollOK(q) /\ poll' = [poll EXCEPT ![p] = q]
  <2>1. CASE PollStarts(p)
    <3>1. PollOK([NoPoll EXCEPT !.pc = "begun"])
      BY <1>2 DEF PollOK, PollType
    <3>2. QED
      BY <2>1, <3>1 DEF PollStarts
  <2>2. CASE PollLoads(p)
    <3> DEFINE c == Copy(item)
               q == [poll[p] EXCEPT !.pc = "asking", !.copy = c]
    <3>1. c \in CopyType
      BY CopyOfARow DEF IndInv, Types
    <3>2. poll' = [poll EXCEPT ![p] = q]
      BY <2>2 DEF PollLoads
    <3> HIDE DEF c
    <3>3. PollOK(q)
      BY <1>2, <3>1 DEF PollOK, PollType
    <3>4. QED
      BY <3>2, <3>3
  <2>3. CASE PollAsks(p)
    <3> DEFINE q == [poll[p] EXCEPT !.pc = "storing", !.price = shop.price, !.sold = shop.sold]
    <3>1. poll' = [poll EXCEPT ![p] = q]
      BY <2>3 DEF PollAsks
    <3>2. PollOK(q)
      BY <1>2 DEF PollOK, PollType, IndInv, Types, Known
    <3>3. QED
      BY <3>1, <3>2
  <2>4. CASE PollFails(p)
    BY <2>4, Nothing DEF PollFails
  <2>5. QED
    BY <2>1, <2>2, <2>3, <2>4
<1>4. poll' \in [Pollers -> PollType] /\ \A o \in Pollers : PollOK(poll'[o])
  BY <1>3, PollGoes
<1>5. QED
  BY <1>1, <1>4, AsideInv DEF IndInv, Types, RowOK

\* A new price, or none, and a return: what the reader knows stays what the watch says.
LEMMA RemembersInv ==
    ASSUME IndInv, NEW price \in Known, NEW early \in BOOLEAN, NEW back \in BOOLEAN,
           Remembers(price, early, back), UNCHANGED mail
    PROVE  /\ watch' \in WatchType
           /\ said' \in SaidType
           /\ MarkedOK' /\ SendingOK' /\ BackOK'
<1> DEFINE r == watch.told # None /\ price > watch.told /\ ~early
           s == said.price # None /\ price > said.price
<1>1. /\ watch' = [watch EXCEPT !.rose = @ \/ r, !.back = back]
      /\ said' = [said EXCEPT !.rise = @ \/ s, !.returned = @ \/ (back /\ ~watch.back)]
  BY DEF Remembers
<1>2. r \in BOOLEAN /\ s \in BOOLEAN
  OBVIOUS
<1>3. watch.told = said.price => (r => s)
  OBVIOUS
<1> HIDE DEF r, s
<1>4. /\ watch' \in WatchType
      /\ watch'.on = watch.on /\ watch'.told = watch.told /\ watch'.old = watch.old
      /\ watch'.rose = (watch.rose \/ r) /\ watch'.back = back
  <2>1. watch \in WatchType
    BY DEF IndInv, Types
  <2> DEFINE rose == watch.rose \/ r
  <2>2. rose \in BOOLEAN
    OBVIOUS
  <2>3. watch' = [watch EXCEPT !.rose = rose, !.back = back]
    BY <1>1, <2>1
  <2> HIDE DEF rose
  <2>4. /\ watch' \in WatchType
        /\ watch'.on = watch.on /\ watch'.told = watch.told /\ watch'.old = watch.old
        /\ watch'.rose = rose /\ watch'.back = back
    BY <2>1, <2>2, <2>3 DEF WatchType
  <2>5. QED
    BY <2>4 DEF rose
<1>5. /\ said' \in SaidType
      /\ said'.price = said.price /\ said'.lost = said.lost /\ said'.lostBack = said.lostBack
      /\ said'.rise = (said.rise \/ s) /\ said'.returned = (said.returned \/ (back /\ ~watch.back))
  <2>1. said \in SaidType
    BY DEF IndInv, Types
  <2> DEFINE rise == said.rise \/ s
             returned == said.returned \/ (back /\ ~watch.back)
  <2>2. rise \in BOOLEAN /\ returned \in BOOLEAN
    OBVIOUS
  <2>3. said' = [said EXCEPT !.rise = rise, !.returned = returned]
    BY <1>1, <2>1
  <2> HIDE DEF rise, returned
  <2>4. /\ said' \in SaidType
        /\ said'.price = said.price /\ said'.lost = said.lost /\ said'.lostBack = said.lostBack
        /\ said'.rise = rise /\ said'.returned = returned
    BY <2>1, <2>2, <2>3 DEF SaidType
  <2>5. QED
    BY <2>4 DEF rise, returned
<1>6. MarkedOK'
  BY <1>3, <1>4, <1>5 DEF IndInv, MarkedOK
<1>7. SendingOK'
  BY <1>4, <1>5 DEF IndInv, SendingOK
<1>8. BackOK'
  BY <1>4, <1>5 DEF IndInv, BackOK
<1>9. QED
  BY <1>4, <1>5, <1>6, <1>7, <1>8

LEMMA ScanStoresInv == ASSUME IndInv, ScanStores PROVE IndInv'
<1> DEFINE price == IF scan.price # scan.copy.price THEN scan.price ELSE None
           back == IF scan.copy.sold /\ ~scan.sold THEN watch.on /\ ~scan.earlyBack ELSE watch.back
<1>1. price \in Known /\ scan.early \in BOOLEAN /\ back \in BOOLEAN
  BY DEF IndInv, Types, ScanType, WatchType, Known
<1>2. Remembers(price, scan.early, back) /\ UNCHANGED <<shop, moves, edits, poll, mail>>
  BY DEF ScanStores
<1> HIDE DEF price, back
<1>3. watch' \in WatchType /\ said' \in SaidType /\ MarkedOK' /\ SendingOK' /\ BackOK'
  BY <1>1, <1>2, RemembersInv
<1>4. item' \in ItemType /\ item'.price \in Prices
  <2>1. /\ scan.price \in Prices /\ scan.sold \in BOOLEAN
        /\ item.price \in Known /\ item.sold \in BOOLEAN
    BY DEF ScanStores, IndInv, Types, ScanType, ItemType
  <2>2. item' = Stored(item, scan.copy, scan.price, scan.sold)
    BY DEF ScanStores
  <2>3. scan.price = scan.copy.price => item.price \in Prices
    BY <2>1, PricesAreNumbers DEF IndInv, RowOK, Known
  <2>4. QED
    BY <2>1, <2>2, <2>3 DEF Stored, ItemType, Known
<1>5. scan' \in ScanType /\ scan'.pc = "walking"
  <2> DEFINE c == [price |-> scan.price, sold |-> scan.sold]
  <2>1. c \in CopyType
    BY DEF IndInv, Types, ScanType, CopyType
  <2>2. scan' = [scan EXCEPT !.pc = "walking", !.copy = c, !.price = None, !.sold = FALSE]
    BY DEF ScanStores
  <2> HIDE DEF c
  <2>3. QED
    BY <2>1, <2>2 DEF IndInv, Types, ScanType, Known
<1>6. Types'
  BY <1>2, <1>3, <1>4, <1>5 DEF IndInv, Types
<1>7. RowOK'
  BY <1>4, PricesAreNumbers DEF RowOK
<1>8. QED
  BY <1>3, <1>6, <1>7 DEF IndInv

LEMMA ScanEndsInv == ASSUME IndInv, ScanEnds PROVE IndInv'
<1>1. /\ item' \in ItemType /\ item'.price = item.price /\ (item'.active => item.active)
      /\ scan' = NoScan /\ UNCHANGED <<shop, moves, watch, edits, poll, mail, said>>
  BY DEF ScanEnds, IndInv, Types, ItemType
<1>2. Types'
  BY <1>1, Nothing DEF IndInv, Types
<1>3. RowOK'
  BY <1>1 DEF RowOK, NoScan, NoCopy
<1>4. MarkedOK' /\ SendingOK' /\ BackOK'
  BY <1>1 DEF IndInv, MarkedOK, SendingOK, BackOK
<1>5. QED
  BY <1>2, <1>3, <1>4 DEF IndInv

LEMMA ScanDeletesInv == ASSUME IndInv, ScanDeletes PROVE IndInv'
<1>1. /\ item' = NoRow /\ watch' = NoWatch /\ said' = NothingSaid /\ UNCHANGED <<shop, moves>>
      /\ edits' \in 0..MaxEdits
  BY ConstantsAssumption DEF ScanDeletes, IndInv, Types, ConstantsAssumption
<1>2. scan' \in ScanType /\ scan'.pc = "walking" /\ scan'.copy = NoCopy
  BY Nothing DEF ScanDeletes, IndInv, Types, ScanType, Known
<1>3. poll' \in [Pollers -> PollType] /\ \A p \in Pollers : PollOK(poll'[p])
  <2>1. poll' = [p \in Pollers |-> IF poll[p].pc \in {"asking", "storing"} THEN NoPoll ELSE poll[p]]
    BY DEF ScanDeletes
  <2>2. \A p \in Pollers : PollOK(poll[p]) /\ PollOK(NoPoll)
    BY Nothing DEF IndInv, Types
  <2>3. \A p \in Pollers : PollOK(poll'[p]) /\ poll'[p] \in PollType
    BY <2>1, <2>2 DEF PollOK
  <2>4. QED
    BY <2>1, <2>3
<1>4. /\ mail' \in MailType /\ mail'.pc = mail.pc /\ mail'.news = mail.news /\ mail'.price = mail.price
      /\ mail.pc # "idle" => mail'.gone
  BY DEF ScanDeletes, IndInv, Types, MailType
<1>5. Types'
  BY <1>1, <1>2, <1>3, <1>4, Nothing DEF IndInv, Types
<1>6. RowOK'
  BY <1>2 DEF RowOK, NoCopy
<1>7. MarkedOK' /\ SendingOK' /\ BackOK'
  BY <1>1, <1>4, Nothing DEF MarkedOK, SendingOK, BackOK
<1>8. QED
  BY <1>5, <1>6, <1>7 DEF IndInv

LEMMA PollStoresInv == ASSUME IndInv, NEW p \in Pollers, PollStores(p) PROVE IndInv'
<1> DEFINE q == poll[p]
           price == IF q.price # q.copy.price THEN q.price ELSE None
<1>1. q \in PollType /\ q.price \in Prices
  BY DEF PollStores, PollOK, IndInv, Types
<1>2. price \in Known /\ q.early \in BOOLEAN /\ watch.back \in BOOLEAN
  BY <1>1 DEF IndInv, Types, PollType, WatchType, Known
<1>3. /\ Remembers(price, q.early, watch.back) /\ UNCHANGED <<shop, moves, edits, scan, mail>>
      /\ poll' = [poll EXCEPT ![p] = NoPoll]
      /\ item' = Polled(item, q.copy, q.price, q.sold)
  BY DEF PollStores
<1> HIDE DEF q, price
<1>4. watch' \in WatchType /\ said' \in SaidType /\ MarkedOK' /\ SendingOK' /\ BackOK'
  BY <1>2, <1>3, RemembersInv
<1>5. /\ item' \in ItemType /\ (item'.active => item'.price \in Prices)
      /\ item.price # None => item'.price # None
  BY <1>1, <1>3, PricesAreNumbers DEF Polled, IndInv, Types, ItemType, PollType, CopyType, Known
<1>6. poll' \in [Pollers -> PollType] /\ \A o \in Pollers : PollOK(poll'[o])
  BY <1>3, Nothing, PollGoes
<1>7. Types'
  BY <1>3, <1>4, <1>5, <1>6 DEF IndInv, Types
<1>8. RowOK'
  BY <1>3, <1>5 DEF IndInv, RowOK
<1>9. QED
  BY <1>4, <1>7, <1>8 DEF IndInv

LEMMA WatchesInv == ASSUME IndInv, NEW terms \in Terms, Watches(terms) PROVE IndInv'
<1> DEFINE same == watch.on /\ watch.target = terms.target
<1>0. edits' \in 0..MaxEdits
  BY ConstantsAssumption DEF Watches, IndInv, Types, ConstantsAssumption
<1>1. /\ UNCHANGED <<shop, moves, item, poll, mail>>
      /\ scan' \in ScanType
      /\ scan'.pc = scan.pc /\ scan'.price = scan.price /\ scan'.copy = scan.copy
  <2> DEFINE b == (scan.earlyBack \/ ~watch.on) /\ scan.pc # "idle"
  <2>1. scan' = [scan EXCEPT !.earlyBack = b] /\ b \in BOOLEAN
    BY DEF Watches, IndInv, Types
  <2>2. UNCHANGED <<shop, moves, item, poll, mail>>
    BY DEF Watches
  <2> HIDE DEF b
  <2>3. QED
    BY <2>1, <2>2 DEF IndInv, Types, ScanType
<1>2. /\ watch' \in WatchType
      /\ watch'.on /\ watch'.back = watch.back
      /\ same => watch'.told = watch.told /\ watch'.rose = watch.rose /\ watch'.old = watch.old
  <2>1. terms.restock \in BOOLEAN
    BY ConstantsAssumption DEF ConstantsAssumption
  <2>2. CASE same
    <3> DEFINE i == NewWatch(terms).immediate
    <3>1. i \in BOOLEAN
      BY NewWatchType DEF WatchType
    <3>2. watch' = [watch EXCEPT !.immediate = i, !.restock = terms.restock]
      BY <2>2 DEF Watches
    <3> HIDE DEF i
    <3>3. QED
      BY <2>1, <2>2, <3>1, <3>2 DEF IndInv, Types, WatchType
  <2>3. CASE ~same
    <3> DEFINE n == NewWatch(terms)
    <3>1. watch' = [n EXCEPT !.back = watch.back] /\ watch.back \in BOOLEAN
      BY <2>3 DEF Watches, IndInv, Types, WatchType
    <3>2. /\ n \in WatchType
          /\ n.on
      BY NewWatchType
    <3> HIDE DEF n
    <3>3. QED
      BY <2>3, <3>1, <3>2 DEF WatchType
  <2>4. QED
    BY <2>2, <2>3
<1>3. /\ said' \in SaidType
      /\ said'.returned = said.returned /\ said'.lostBack = said.lostBack
      /\ same => said' = said
      /\ ~same => said'.price = None
  <2>1. CASE same
    BY <2>1 DEF Watches, IndInv, Types
  <2>2. CASE ~same
    <3>1. said' = [said EXCEPT !.price = None, !.lost = FALSE, !.rise = FALSE]
      BY <2>2 DEF Watches
    <3>2. QED
      BY <2>2, <3>1 DEF IndInv, Types, SaidType, Known
  <2>3. QED
    BY <2>1, <2>2
<1>4. same => watch.on
  OBVIOUS
<1> HIDE DEF same
<1>5. Types'
  BY <1>0, <1>1, <1>2, <1>3 DEF IndInv, Types
<1>6. RowOK'
  BY <1>1 DEF IndInv, RowOK
<1>7. MarkedOK' /\ SendingOK' /\ BackOK'
  BY <1>1, <1>2, <1>3, <1>4 DEF IndInv, MarkedOK, SendingOK, BackOK
<1>8. QED
  BY <1>5, <1>6, <1>7 DEF IndInv

LEMMA UnwatchesInv == ASSUME IndInv, Unwatches \/ UnwatchesOther PROVE IndInv'
<1>0. edits' \in 0..MaxEdits
  BY ConstantsAssumption DEF Unwatches, UnwatchesOther, IndInv, Types, ConstantsAssumption
<1>1. /\ UNCHANGED <<shop, moves, item, scan, poll>>
      /\ mail' \in MailType
      /\ mail'.pc = mail.pc /\ mail'.news = mail.news /\ mail'.price = mail.price
      /\ mail.pc # "idle" => mail'.gone
  <2> DEFINE g == IF Unwatches THEN mail.pc # "idle" ELSE TRUE
  <2>1. mail' = [mail EXCEPT !.gone = g] /\ g \in BOOLEAN /\ (mail.pc # "idle" => g)
    BY DEF Unwatches, UnwatchesOther
  <2>2. UNCHANGED <<shop, moves, item, scan, poll>>
    BY DEF Unwatches, UnwatchesOther
  <2> HIDE DEF g
  <2>3. QED
    BY <2>1, <2>2 DEF IndInv, Types, MailType
<1>2. \/ watch' = NoWatch /\ said' = NothingSaid
      \/ watch' = watch /\ said' = said
  BY DEF Unwatches, UnwatchesOther
<1>3. NothingSaid.price = None /\ ~NoWatch.on /\ ~NoWatch.back
  BY DEF NothingSaid, NoWatch
<1>4. Types'
  BY <1>0, <1>1, <1>2, Nothing DEF IndInv, Types
<1>5. RowOK'
  BY <1>1 DEF IndInv, RowOK
<1>6. MarkedOK' /\ SendingOK' /\ BackOK'
  BY <1>1, <1>2, <1>3 DEF IndInv, MarkedOK, SendingOK, BackOK
<1>7. QED
  BY <1>4, <1>5, <1>6 DEF IndInv

LEMMA ExpiresInv == ASSUME IndInv, Expires PROVE IndInv'
<1>1. /\ watch' \in WatchType
      /\ watch'.on = watch.on /\ watch'.told = watch.told /\ watch'.rose = watch.rose
      /\ watch'.back = watch.back /\ watch'.old
      /\ UNCHANGED <<shop, moves, item, edits, scan, poll, mail, said>>
  BY DEF Expires, IndInv, Types, WatchType
<1>2. Types' /\ RowOK'
  BY <1>1 DEF IndInv, Types, RowOK
<1>3. MarkedOK' /\ SendingOK' /\ BackOK'
  BY <1>1 DEF IndInv, MarkedOK, SendingOK, BackOK
<1>4. QED
  BY <1>2, <1>3 DEF IndInv

LEMMA GathersInv == ASSUME IndInv, Gathers PROVE IndInv'
<1>1. /\ UNCHANGED <<shop, moves, item, watch, edits, scan, poll, said>>
      /\ mail' \in MailType
      /\ mail'.pc = "sending" /\ mail'.price = item.price /\ mail'.price \in Prices
      /\ mail'.news = "back" => RestockIsDue
      /\ mail'.news = "target" => TargetIsDue
  <2>1. item.price \in Prices
    BY DEF Gathers, Due, RestockIsDue, TargetIsDue, ForSale, IndInv, Types
  <2>2. watch.told \in Known
    BY DEF IndInv, Types, WatchType
  <2>3. /\ UNCHANGED <<shop, moves, item, watch, edits, scan, poll, said>>
        /\ mail' = [pc |-> "sending", news |-> IF RestockIsDue THEN "back" ELSE "target",
                    gone |-> FALSE, price |-> item.price, told |-> watch.told]
        /\ RestockIsDue \/ TargetIsDue
    BY DEF Gathers, Due
  <2>4. QED
    BY <2>1, <2>2, <2>3 DEF MailType, Known
<1>2. Types' /\ RowOK'
  BY <1>1 DEF IndInv, Types, RowOK
<1>3. MarkedOK' /\ BackOK'
  BY <1>1 DEF IndInv, MarkedOK, BackOK, RestockIsDue
<1>4. SendingOK'
  <2>1. TargetIsDue /\ watch.on /\ said.price # None /\ ~said.lost =>
          \/ item.price < said.price
          \/ said.rise /\ item.price <= said.price
          \/ watch.old
    BY DEF TargetIsDue, IsNews, IndInv, MarkedOK
  <2>2. QED
    BY <1>1, <2>1 DEF SendingOK
<1>5. QED
  BY <1>2, <1>3, <1>4 DEF IndInv

LEMMA SendsInv == ASSUME IndInv, Sends PROVE IndInv'
<1>1. /\ UNCHANGED <<shop, moves, item, watch, edits, scan, poll>>
      /\ mail' \in MailType
      /\ mail'.pc = "sent" /\ mail'.news = mail.news /\ mail'.gone = mail.gone
      /\ mail'.price = mail.price /\ mail.price \in Prices /\ mail.news \in {"target", "back"}
  BY DEF Sends, IndInv, Types, MailType
<1>2. said' \in SaidType
  BY <1>1 DEF Sends, IndInv, Types, SaidType, Known
<1>3. /\ ~watch.on => said' = said
      /\ watch.on /\ mail.news = "back" => said'.price = said.price /\ said'.lost = said.lost
                                           /\ said'.rise = said.rise /\ said'.lostBack
      /\ watch.on /\ mail.news = "target" => said'.price = mail.price /\ said'.lost
                                             /\ said'.returned = said.returned
                                             /\ said'.lostBack = said.lostBack
  BY <1>1 DEF Sends, IndInv, Types, SaidType
<1>4. Types' /\ RowOK'
  BY <1>1, <1>2 DEF IndInv, Types, RowOK
<1>5. MarkedOK' /\ SendingOK' /\ BackOK'
  BY <1>1, <1>3 DEF IndInv, MarkedOK, SendingOK, BackOK
<1>6. QED
  BY <1>4, <1>5 DEF IndInv

LEMMA GivesUpInv == ASSUME IndInv, SendFails \/ MarkFails PROVE IndInv'
<1>1. mail' = NoMail /\ UNCHANGED <<shop, moves, item, watch, edits, scan, poll, said>>
  BY DEF SendFails, MarkFails
<1>2. Types' /\ RowOK'
  BY <1>1, Nothing DEF IndInv, Types, RowOK
<1>3. MarkedOK' /\ SendingOK' /\ BackOK'
  BY <1>1, Nothing DEF IndInv, MarkedOK, SendingOK, BackOK
<1>4. QED
  BY <1>2, <1>3 DEF IndInv

LEMMA MarksTargetInv == ASSUME IndInv, MarksTarget PROVE IndInv'
<1>1. /\ UNCHANGED <<shop, moves, item, edits>> /\ mail' = NoMail
      /\ mail.pc = "sent" /\ mail.news = "target" /\ ~mail.gone /\ mail.price \in Prices
  BY DEF MarksTarget, IndInv, Types
<1>2. /\ watch' \in WatchType
      /\ watch'.on = watch.on /\ watch'.back = watch.back /\ ~watch'.rose
  BY <1>1 DEF MarksTarget, Marked, IndInv, Types, WatchType, Known
<1>3. /\ said' \in SaidType
      /\ said'.price = said.price /\ said'.lost = (watch'.told # mail.price)
      /\ said'.returned = said.returned /\ said'.lostBack = said.lostBack
  BY DEF MarksTarget, IndInv, Types, SaidType
<1>4. /\ scan' \in ScanType
      /\ scan'.pc = scan.pc /\ scan'.price = scan.price /\ scan'.copy = scan.copy
  BY DEF MarksTarget, IndInv, Types, ScanType
<1>5. poll' \in [Pollers -> PollType] /\ \A p \in Pollers : PollOK(poll'[p])
  <2>1. poll' = [p \in Pollers |-> [poll[p] EXCEPT !.early = poll[p].pc # "idle"]]
    BY DEF MarksTarget
  <2>2. ASSUME NEW p \in Pollers PROVE PollOK([poll[p] EXCEPT !.early = poll[p].pc # "idle"])
    <3> DEFINE e == poll[p].pc # "idle"
    <3>1. PollOK(poll[p]) /\ e \in BOOLEAN
      BY DEF IndInv, Types
    <3> HIDE DEF e
    <3>2. PollOK([poll[p] EXCEPT !.early = e])
      BY <3>1 DEF PollOK, PollType
    <3>3. QED
      BY <3>2 DEF e
  <2>3. QED
    BY <2>1, <2>2 DEF PollOK
<1>6. Types'
  BY <1>1, <1>2, <1>3, <1>4, <1>5, Nothing DEF IndInv, Types
<1>7. RowOK'
  BY <1>1, <1>4 DEF IndInv, RowOK
<1>8. MarkedOK' /\ SendingOK' /\ BackOK'
  BY <1>1, <1>2, <1>3, Nothing DEF IndInv, MarkedOK, SendingOK, BackOK
<1>9. QED
  BY <1>6, <1>7, <1>8 DEF IndInv

LEMMA MarksBackInv == ASSUME IndInv, MarksBack PROVE IndInv'
<1>1. UNCHANGED <<shop, moves, item, edits, poll>> /\ mail' = NoMail
  BY DEF MarksBack
<1>2. /\ watch' \in WatchType
      /\ watch'.on = watch.on /\ ~watch'.back /\ watch'.rose = watch.rose /\ watch'.told = watch.told
  BY DEF MarksBack, Answered, IndInv, Types, WatchType
<1>3. /\ said' \in SaidType
      /\ said'.price = said.price /\ said'.lost = said.lost /\ said'.rise = said.rise
  BY DEF MarksBack, IndInv, Types, SaidType
<1>4. /\ scan' \in ScanType
      /\ scan'.pc = scan.pc /\ scan'.price = scan.price /\ scan'.copy = scan.copy
  BY DEF MarksBack, IndInv, Types, ScanType
<1>5. Types' /\ RowOK'
  BY <1>1, <1>2, <1>3, <1>4, Nothing DEF IndInv, Types, RowOK
<1>6. MarkedOK' /\ SendingOK' /\ BackOK'
  BY <1>1, <1>2, <1>3, Nothing DEF IndInv, MarkedOK, SendingOK, BackOK
<1>7. QED
  BY <1>5, <1>6 DEF IndInv

LEMMA RestartInv == ASSUME IndInv, Restart PROVE IndInv'
<1>1. /\ scan' = NoScan /\ poll' = [p \in Pollers |-> NoPoll] /\ mail' = NoMail
      /\ UNCHANGED <<shop, moves, item, watch, edits, said>>
  BY DEF Restart
<1>2. Types' /\ RowOK'
  <2>1. poll' \in [Pollers -> PollType] /\ \A p \in Pollers : PollOK(poll'[p])
    BY <1>1, Nothing DEF PollOK
  <2>2. NoScan.copy.price = None
    BY DEF NoScan, NoCopy
  <2>3. Types'
    BY <1>1, <2>1, Nothing DEF IndInv, Types
  <2>4. QED
    BY <1>1, <2>2, <2>3 DEF RowOK
<1>3. MarkedOK' /\ SendingOK' /\ BackOK'
  BY <1>1, Nothing DEF IndInv, MarkedOK, SendingOK, BackOK
<1>4. QED
  BY <1>2, <1>3 DEF IndInv

LEMMA NextInv == ASSUME IndInv, [Next]_vars PROVE IndInv'
<1>1. CASE Scan
  BY <1>1, ScanAsideInv, ScanStoresInv, ScanDeletesInv, ScanEndsInv DEF Scan
<1>2. CASE Poll
  BY <1>2, PollAsideInv, PollStoresInv DEF Poll, PollGoesOn
<1>3. CASE Reader
  BY <1>3, WatchesInv, UnwatchesInv DEF Reader
<1>4. CASE Mailer
  BY <1>4, GathersInv, SendsInv, GivesUpInv, MarksTargetInv, MarksBackInv DEF Mailer
<1>5. CASE UNCHANGED vars
  <2>1. UNCHANGED <<shop, moves, item, watch, edits, scan, poll, mail, said>>
    BY <1>5 DEF vars
  <2>2. Types' /\ RowOK'
    BY <2>1 DEF IndInv, Types, RowOK
  <2>3. MarkedOK' /\ SendingOK' /\ BackOK'
    BY <2>1 DEF IndInv, MarkedOK, SendingOK, BackOK
  <2>4. QED
    BY <2>2, <2>3 DEF IndInv
<1>6. QED
  BY <1>1, <1>2, <1>3, <1>4, <1>5, MovesInv, ExpiresInv, RestartInv DEF Next

\* The inductive invariant: what the watch says of the mails, and that one on its way is news when
\* it goes (watchlist.due_alerts, mark_alerted, restock_is_due).
THEOREM Invariant == Spec => []IndInv
<1>1. Init => IndInv
  BY InitInv
<1>2. IndInv /\ [Next]_vars => IndInv'
  BY NextInv
<1>3. QED
  BY <1>1, <1>2, PTL DEF Spec

\* Every row and everything under way stays of its type (models.Item, models.WatchedItem).
THEOREM TypeCorrect == Spec => []TypeOK
<1>1. IndInv => TypeOK
  BY DEF IndInv, Types, ItemType, CopyType, WatchType, ScanType, PollType, PollOK, MailType, SaidType,
         TypeOK
<1>2. QED
  BY <1>1, Invariant, PTL

\* A reader who knows a price is mailed a lower one, or one no higher after a rise, or anything after
\* the expiry or a lost mark, and nothing else (renotify.is_news).
THEOREM NotTwice == Spec => NeverTwice
<1>1. ASSUME IndInv, [Next]_vars
      PROVE  [Sends /\ mail.news = "target" /\ watch.on /\ said.price # None /\ ~said.lost =>
                \/ mail.price < said.price
                \/ said.rise /\ mail.price <= said.price
                \/ watch.old]_vars
  BY <1>1 DEF IndInv, SendingOK, Sends
<1>2. QED
  BY <1>1, Invariant, PTL DEF Spec, NeverTwice

\* One return is one mail, unless its mark was lost (watchlist.restock_is_due).
THEOREM OneMail == Spec => OneReturnOneMail
<1>1. ASSUME IndInv, [Next]_vars
      PROVE  [Sends /\ mail.news = "back" /\ ~mail.gone => said.returned \/ said.lostBack]_vars
  BY <1>1 DEF IndInv, BackOK, Sends
<1>2. QED
  BY <1>1, Invariant, PTL DEF Spec, OneReturnOneMail
=============================================================================
