----------------------------- MODULE CatalogProofs -----------------------------
(***************************************************************************)
(* What a scan may do to the catalog, proved for every shop: whatever its  *)
(* sections, pages, cards and choices, and whatever share of them a scan   *)
(* is allowed to take off the shelf.                                       *)
(***************************************************************************)
EXTENDS Catalog, FiniteSetTheorems, TLAPS

(***************************************************************************)
(* The constants.                                                          *)
(***************************************************************************)
\* The sections are numbered from 1.
LEMMA SectionsType == Cardinality(Sections) \in Nat /\ Sections \subseteq Nat \ {0}
<1>1. Cardinality(Sections) \in Nat
  BY ConstantsAssumption, FS_CardinalityType DEF ConstantsAssumption
<1>2. QED
  BY <1>1, ConstantsAssumption DEF ConstantsAssumption

\* A place is a page of a section.
LEMMA PlaceType ==
    ASSUME NEW q \in Places
    PROVE  /\ q[1] \in Sections /\ q[2] \in 1..Pages[q[1]]
           /\ q[2] \in Nat /\ q = <<q[1], q[2]>> /\ q # Off
  BY ConstantsAssumption, ValuesAssumption DEF Places, ConstantsAssumption, ValuesAssumption

LEMMA PagesType == ASSUME NEW s \in Sections PROVE Pages[s] \in Nat /\ 1 \in 1..Pages[s]
  BY ConstantsAssumption DEF ConstantsAssumption

\* The pages of a section from one on are places.
LEMMA FromType ==
    ASSUME NEW s \in Sections, NEW n \in Nat \ {0}
    PROVE  From(s, n) \subseteq Places
<1>1. Pages[s] \in Nat
  BY PagesType
<1>2. n..Pages[s] \subseteq 1..Pages[s]
  BY <1>1
<1>3. QED
  BY <1>2 DEF From, Places

LEMMA KeysType ==
    /\ Cards \subseteq Keys
    /\ \A c \in Cards : Choices[c] \subseteq Keys /\ Choices[c] \cap Cards = {}
  BY ConstantsAssumption DEF ConstantsAssumption, Keys

\* No two pages sell the same choice.
LEMMA OneParent ==
    ASSUME NEW c \in Cards, NEW d \in Cards, NEW k \in Choices[c], k \in Choices[d]
    PROVE  c = d
  BY ConstantsAssumption DEF ConstantsAssumption

(***************************************************************************)
(* The walk.                                                               *)
(***************************************************************************)
\* A scan at another stage and place, with the rest of it as it was.
Moved(s, t) ==
    /\ t \in Scan
    /\ t.skip = s.skip /\ t.found = s.found /\ t.pending = s.pending /\ t.met = s.met
    /\ t.seen = s.seen /\ t.parents = s.parents /\ t.unread = s.unread /\ t.cut = s.cut
    /\ t.warned = s.warned /\ t.resting = s.resting

LEMMA NextSectionMoves ==
    ASSUME NEW s \in Scan
    PROVE  /\ Moved(s, NextSection(s)) /\ NextSection(s).pc = s.pc
           /\ NextSection(s).section = s.section + 1 /\ NextSection(s).page = 1
<1> DEFINE next == s.section + 1
<1>1. next \in Nat \ {0} /\ 1 \in Nat
  BY DEF Scan
<1>2. NextSection(s) = [s EXCEPT !.section = next, !.page = 1]
  BY DEF NextSection
<1> HIDE DEF next
<1>3. [s EXCEPT !.section = next, !.page = 1] \in Scan
  BY <1>1 DEF Scan
<1>4. QED
  BY <1>2, <1>3 DEF Scan, Moved, next

LEMMA NextPageMoves ==
    ASSUME NEW s \in Scan, s.section \in Sections, s.page \in 1..Pages[s.section]
    PROVE  /\ Moved(s, NextPage(s)) /\ NextPage(s).pc = s.pc
           /\ IF s.page = Pages[s.section]
              THEN NextPage(s).section = s.section + 1 /\ NextPage(s).page = 1
              ELSE /\ NextPage(s).section = s.section /\ NextPage(s).page = s.page + 1
                   /\ s.page + 1 \in 1..Pages[s.section]
<1>1. CASE s.page = Pages[s.section]
  BY <1>1, NextSectionMoves DEF NextPage
<1>2. CASE s.page # Pages[s.section]
  <2>1. Pages[s.section] \in Nat
    BY PagesType
  <2>2. NextPage(s) = [s EXCEPT !.page = s.page + 1]
    BY <1>2 DEF NextPage
  <2>3. s.page + 1 \in 1..Pages[s.section]
    BY <1>2, <2>1
  <2>4. QED
    BY <1>2, <2>1, <2>2, <2>3 DEF Scan, Moved
<1>3. QED
  BY <1>1, <1>2

\* A page ahead is one the walk has passed only if it was left out.
LEMMA PassedType ==
    ASSUME TypeOK, NEW c \in Cards, OnShelf(c)
    PROVE  shelf[c] \in Places /\ shelf[c][1] \in Sections /\ shelf[c][2] \in Nat
  BY PlaceType DEF TypeOK, OnShelf

\* The steps that only move the walk: everything but where it is, what it leaves
\* out and whether it warns is as it was.
Walked ==
    /\ UNCHANGED <<shelf, edited, skips, items, succeeded, verdict, steady>>
    /\ scan' \in Scan /\ scan'.pc = "walk" /\ scan.found = {} /\ scan.pending = {}
    /\ scan'.found = scan.found /\ scan'.pending = scan.pending
    /\ scan'.met = scan.met /\ scan'.seen = scan.seen
    /\ scan'.section \in Sections => scan'.page \in 1..Pages[scan'.section]

LEMMA WalkedInv ==
    ASSUME IndInv, Walked, ~At("idle"), PassedOK'
    PROVE  IndInv'
<1>1. TypeOK'
  BY DEF IndInv, TypeOK, Walked
<1>2. StageOK'
  BY DEF StageOK, Walked, At
<1>3. HandedOK'
  BY DEF IndInv, HandedOK, Handed, Walked, Active, Plain
<1>4. FinishOK'
  BY DEF FinishOK, Walked, At
<1>5. QED
  BY <1>1, <1>2, <1>3, <1>4 DEF IndInv

\* The walk goes on to the next section, and what it leaves behind it leaves out: the
\* pages from the one it was to ask for, or from the one after the page it has read.
LEMMA Behind ==
    ASSUME IndInv, scan.section \in Sections, NEW page \in Nat \ {0},
           \/ At("walk") /\ page = scan.page
           \/ At("page") /\ page = scan.page + 1,
           UNCHANGED <<shelf, steady>>,
           scan' \in Scan, scan'.pc = "walk", scan'.met = scan.met,
           scan'.section = scan.section + 1, scan'.page = 1,
           scan.unread \subseteq scan'.unread, scan.cut \subseteq scan'.cut,
           scan.section \in scan'.unread \/ From(scan.section, page) \subseteq scan'.cut
    PROVE  PassedOK'
<1> SUFFICES ASSUME NEW c \in steady, OnShelf(c), Passed(shelf[c])',
                    c \notin scan.met
             PROVE  LeftOut(shelf[c])'
  BY DEF PassedOK, OnShelf, LeftOut, IndInv, At
<1> DEFINE s == shelf[c][1]
           n == shelf[c][2]
<1>1. c \in Cards /\ shelf[c] \in Places
  <2>1. c \in Cards
    BY DEF IndInv, TypeOK
  <2>2. QED
    BY <2>1, PassedType DEF IndInv
<1>2. s \in Sections /\ n \in 1..Pages[s] /\ Pages[s] \in Nat /\ shelf[c] = <<s, n>>
  BY <1>1, PlaceType, PagesType
<1>3. s \in Nat /\ n \in Nat /\ n >= 1 /\ scan.section \in Nat /\ scan.page \in Nat
  <2>1. Sections \subseteq Nat
    BY SectionsType
  <2> HIDE DEF s, n
  <2>2. n \in Nat /\ n >= 1
    BY <1>2
  <2>3. s \in Nat /\ scan.section \in Nat
    BY <1>2, <2>1
  <2>4. scan.page \in Nat
    BY DEF IndInv, TypeOK, Scan
  <2>5. QED
    BY <2>2, <2>3, <2>4
<1>4. scan.section + 1 > s \/ (scan.section + 1 = s /\ 1 > n)
  BY DEF Passed, At
<1>5. ASSUME Passed(shelf[c]) PROVE LeftOut(shelf[c])'
  <2>1. ~At("idle") /\ PassedOK
    BY DEF IndInv, At
  <2>2. LeftOut(shelf[c])
    BY <1>5, <2>1 DEF PassedOK
  <2>3. QED
    BY <2>2 DEF LeftOut
<1>6. CASE scan.section > s
  <2>1. Passed(shelf[c])
    BY <1>6 DEF Passed
  <2>2. QED
    BY <1>5, <2>1
<1>7. CASE scan.section = s /\ n < page
  <2>1. \/ scan.page > n
        \/ scan.page = n /\ At("page")
    BY <1>3, <1>7
  <2>2. Passed(shelf[c])
    BY <1>7, <2>1 DEF Passed
  <2>3. QED
    BY <1>5, <2>2
<1>8. CASE scan.section = s /\ ~(n < page)
  <2>1. s \in scan'.unread \/ From(s, page) \subseteq scan'.cut
    BY <1>8
  <2> HIDE DEF s, n
  <2>2. n \in page..Pages[s]
    BY <1>2, <1>3, <1>8
  <2>3. <<s, n>> \in From(s, page)
    BY <2>2 DEF From
  <2>4. shelf[c] \in From(s, page)
    BY <1>2, <2>3
  <2>5. shelf[c][1] \in scan'.unread \/ shelf[c] \in scan'.cut
    BY <2>1, <2>4 DEF s
  <2>6. QED
    BY <2>5 DEF LeftOut
<1>9. QED
  BY <1>3, <1>4, <1>6, <1>7, <1>8

\* Asking for a page of a section, or not.
LEMMA WalkType ==
    ASSUME IndInv, At("walk"), scan.section \in Sections
    PROVE  /\ scan \in Scan /\ scan.pc = "walk" /\ ~At("idle")
           /\ scan.found = {} /\ scan.pending = {}
           /\ scan.page \in 1..Pages[scan.section]
           /\ scan.section \in Nat \ {0} /\ scan.page \in Nat \ {0}
           /\ (1 \in Sections => 1 \in 1..Pages[1])
           /\ (scan.section + 1 \in Sections => 1 \in 1..Pages[scan.section + 1])
  BY PagesType DEF IndInv, TypeOK, StageOK, At, Scan

LEMMA SkipSectionInv == ASSUME IndInv, SkipSection PROVE IndInv'
<1> DEFINE next == NextSection(scan)
<1>1. /\ At("walk") /\ scan.section \in Sections
      /\ scan' = [next EXCEPT !.unread = next.unread \union {scan.section}]
  BY DEF SkipSection, IndInv, TypeOK, Scan
<1>2. /\ next \in Scan /\ Moved(scan, next) /\ next.pc = "walk"
      /\ next.section = scan.section + 1 /\ next.page = 1
  BY <1>1, WalkType, NextSectionMoves DEF Moved
<1> HIDE DEF next
<1>3. /\ scan' \in Scan /\ scan'.pc = "walk" /\ scan'.met = scan.met
      /\ scan'.section = scan.section + 1 /\ scan'.page = 1
      /\ scan'.unread = scan.unread \union {scan.section} /\ scan'.cut = scan.cut
      /\ scan'.found = scan.found /\ scan'.pending = scan.pending
      /\ scan'.seen = scan.seen /\ scan'.warned = scan.warned
  BY <1>1, <1>2 DEF Scan, Moved
<1>4. Walked
  BY <1>1, <1>3, WalkType DEF SkipSection, Walked
<1>5. PassedOK'
  <2>1. UNCHANGED <<shelf, steady>>
    BY DEF SkipSection
  <2>2. QED
    BY <1>1, <1>3, <2>1, WalkType, Behind
<1>6. QED
  BY <1>1, <1>4, <1>5, WalkType, WalkedInv

LEMMA NotAskedInv ==
    ASSUME IndInv, NEW resting \in BOOLEAN, NotAsked(resting)
    PROVE  IndInv'
<1> DEFINE next == NextSection(scan)
           left == {scan.section}
           rest == From(scan.section, scan.page)
           unread == IF scan.page = 1 THEN next.unread \union left ELSE next.unread
           cut == IF scan.page = 1 THEN next.cut ELSE next.cut \union rest
           refused == next.resting \/ (resting /\ ~skips)
<1>1. /\ At("walk") /\ scan.section \in Sections
      /\ scan' = [next EXCEPT !.warned = TRUE, !.resting = refused,
                              !.unread = unread, !.cut = cut]
  BY DEF NotAsked, Asking
<1>2. /\ next \in Scan /\ Moved(scan, next) /\ next.pc = "walk"
      /\ next.section = scan.section + 1 /\ next.page = 1
  BY <1>1, WalkType, NextSectionMoves DEF Moved
<1>3. /\ unread \subseteq Sections /\ cut \subseteq Places
      /\ scan.section \in unread \/ rest \subseteq cut
      /\ scan.unread \subseteq unread /\ scan.cut \subseteq cut
  <2>1. rest \subseteq Places
    BY <1>1, WalkType, FromType
  <2> HIDE DEF rest, next
  <2>2. QED
    BY <1>1, <1>2, <2>1 DEF Scan, Moved
<1>4. refused \in BOOLEAN
  OBVIOUS
<1> HIDE DEF next, unread, cut, refused
<1>5. /\ scan' \in Scan /\ scan'.pc = "walk" /\ scan'.met = scan.met
      /\ scan'.section = scan.section + 1 /\ scan'.page = 1
      /\ scan'.unread = unread /\ scan'.cut = cut /\ scan'.warned = TRUE
      /\ scan'.found = scan.found /\ scan'.pending = scan.pending
      /\ scan'.seen = scan.seen
  BY <1>1, <1>2, <1>3, <1>4 DEF Scan, Moved
<1>6. Walked
  BY <1>1, <1>5, WalkType DEF NotAsked, Walked
<1>7. PassedOK'
  <2>1. UNCHANGED <<shelf, steady>>
    BY DEF NotAsked
  <2>2. QED
    BY <1>1, <1>3, <1>5, <2>1, WalkType, Behind
<1>8. QED
  BY <1>1, <1>6, <1>7, WalkType, WalkedInv

LEMMA CutShortInv == ASSUME IndInv, CutShort PROVE IndInv'
<1> DEFINE next == NextSection(scan)
           rest == From(scan.section, scan.page)
           cut == next.cut \union rest
<1>1. /\ At("walk") /\ scan.section \in Sections
      /\ scan' = [next EXCEPT !.warned = TRUE, !.cut = cut]
  BY DEF CutShort, Asking
<1>2. /\ next \in Scan /\ Moved(scan, next) /\ next.pc = "walk"
      /\ next.section = scan.section + 1 /\ next.page = 1
  BY <1>1, WalkType, NextSectionMoves DEF Moved
<1>3. cut \subseteq Places /\ scan.cut \subseteq cut /\ rest \subseteq cut
  <2>1. rest \subseteq Places
    BY <1>1, WalkType, FromType
  <2> HIDE DEF rest, next
  <2>2. QED
    BY <1>2, <2>1 DEF Scan, Moved
<1> HIDE DEF next, cut
<1>4. /\ scan' \in Scan /\ scan'.pc = "walk" /\ scan'.met = scan.met
      /\ scan'.section = scan.section + 1 /\ scan'.page = 1
      /\ scan'.unread = scan.unread /\ scan'.cut = cut /\ scan'.warned = TRUE
      /\ scan'.found = scan.found /\ scan'.pending = scan.pending
      /\ scan'.seen = scan.seen
  BY <1>1, <1>2, <1>3 DEF Scan, Moved
<1>5. Walked
  BY <1>1, <1>4, WalkType DEF CutShort, Walked
<1>6. PassedOK'
  <2>1. UNCHANGED <<shelf, steady>>
    BY DEF CutShort
  <2>2. QED
    BY <1>1, <1>3, <1>4, <2>1, WalkType, Behind
<1>7. QED
  BY <1>1, <1>5, <1>6, WalkType, WalkedInv

LEMMA PageDoneInv == ASSUME IndInv, PageDone PROVE IndInv'
<1> DEFINE next == NextPage(scan)
<1>1. /\ scan.pc = "page" /\ scan.found = {} /\ scan.pending = {} /\ ~At("idle")
      /\ scan' = [next EXCEPT !.pc = "walk"]
      /\ UNCHANGED <<shelf, edited, skips, items, succeeded, verdict, steady>>
  BY DEF PageDone, At
<1>2. /\ scan \in Scan /\ scan.section \in Sections /\ scan.page \in 1..Pages[scan.section]
      /\ PassedOK
  BY <1>1 DEF IndInv, TypeOK, StageOK, At
<1>3. /\ next \in Scan /\ Moved(scan, next)
      /\ IF scan.page = Pages[scan.section]
         THEN next.section = scan.section + 1 /\ next.page = 1
         ELSE /\ next.section = scan.section /\ next.page = scan.page + 1
              /\ scan.page + 1 \in 1..Pages[scan.section]
  BY <1>2, NextPageMoves DEF Moved
<1> HIDE DEF next
<1>4. /\ scan' \in Scan /\ scan'.pc = "walk" /\ scan'.met = scan.met
      /\ scan'.section = next.section /\ scan'.page = next.page
      /\ scan'.unread = scan.unread /\ scan'.cut = scan.cut /\ scan'.warned = scan.warned
      /\ scan'.found = scan.found /\ scan'.pending = scan.pending
      /\ scan'.seen = scan.seen
  BY <1>1, <1>3 DEF Scan, Moved
<1>5. scan'.section \in Sections => scan'.page \in 1..Pages[scan'.section]
  BY <1>3, <1>4, PagesType
<1>6. Walked
  BY <1>1, <1>2, <1>4, <1>5 DEF Walked
<1>7. PassedOK'
  <2> SUFFICES ASSUME NEW c \in steady, OnShelf(c), Passed(shelf[c])'
               PROVE  Passed(shelf[c])
    BY <1>1, <1>2, <1>4 DEF PassedOK, OnShelf, LeftOut
  <2> DEFINE s == shelf[c][1]
             n == shelf[c][2]
  <2>1. c \in Cards
    BY DEF IndInv, TypeOK
  <2>2. s \in Sections /\ n \in 1..Pages[s] /\ n \in Nat
    BY <2>1, PassedType, PlaceType DEF IndInv
  <2>3. Pages[s] \in Nat
    BY <2>2, PagesType
  <2>4. s \in Nat /\ scan.section \in Nat /\ scan.page \in Nat
    BY <1>2, <2>2, SectionsType DEF Scan
  <2>5. next.section > s \/ (next.section = s /\ next.page > n)
    BY <1>1, <1>4 DEF Passed, At
  <2> HIDE DEF s, n
  <2>6. scan.section > s \/ (scan.section = s /\ (scan.page > n \/ scan.page = n))
    <3>1. CASE scan.page = Pages[scan.section]
      <4>1. scan.section + 1 > s \/ (scan.section + 1 = s /\ 1 > n)
        BY <1>3, <2>5, <3>1
      <4>2. scan.section > s \/ scan.section = s
        BY <2>2, <2>4, <4>1
      <4>3. scan.section = s => scan.page >= n
        BY <2>2, <2>3, <3>1
      <4>4. QED
        BY <2>2, <2>4, <4>2, <4>3
    <3>2. CASE scan.page # Pages[scan.section]
      BY <1>3, <2>2, <2>4, <2>5, <3>2
    <3>3. QED
      BY <3>1, <3>2
  <2>7. QED
    BY <1>1, <2>6 DEF Passed, At, s, n
<1>8. QED
  BY <1>1, <1>6, <1>7, WalkedInv

LEMMA NoNextInv == ASSUME IndInv, NoNext PROVE IndInv'
<1> DEFINE next == NextSection(scan)
           after == scan.page + 1
           rest == From(scan.section, after)
           cut == next.cut \union rest
<1>1. /\ scan.pc = "page" /\ scan.found = {} /\ scan.pending = {} /\ ~At("idle")
      /\ scan' = [next EXCEPT !.pc = "walk", !.cut = cut]
      /\ UNCHANGED <<shelf, edited, skips, items, succeeded, verdict, steady>>
  BY DEF NoNext, At
<1>2. /\ scan \in Scan /\ scan.section \in Sections /\ scan.page \in 1..Pages[scan.section]
      /\ after \in Nat \ {0}
  BY <1>1 DEF IndInv, TypeOK, StageOK, At, Scan
<1>3. /\ next \in Scan /\ Moved(scan, next)
      /\ next.section = scan.section + 1 /\ next.page = 1
  BY <1>2, NextSectionMoves DEF Moved
<1>4. cut \subseteq Places /\ scan.cut \subseteq cut /\ rest \subseteq cut
  <2>1. rest \subseteq Places
    BY <1>2, FromType
  <2> HIDE DEF rest, next
  <2>2. QED
    BY <1>3, <2>1 DEF Scan, Moved
<1> HIDE DEF next, cut, after
<1>5. /\ scan' \in Scan /\ scan'.pc = "walk" /\ scan'.met = scan.met
      /\ scan'.section = scan.section + 1 /\ scan'.page = 1
      /\ scan'.unread = scan.unread /\ scan'.cut = cut /\ scan'.warned = scan.warned
      /\ scan'.found = scan.found /\ scan'.pending = scan.pending
      /\ scan'.seen = scan.seen
  BY <1>1, <1>3, <1>4 DEF Scan, Moved
<1>6. scan'.section \in Sections => scan'.page \in 1..Pages[scan'.section]
  BY <1>5, PagesType
<1>7. Walked
  BY <1>1, <1>5, <1>6 DEF Walked
<1>8. PassedOK'
  <2>1. UNCHANGED <<shelf, steady>> /\ At("page")
    BY <1>1 DEF At
  <2>2. after = scan.page + 1
    BY DEF after
  <2>3. QED
    BY <1>2, <1>4, <1>5, <2>1, <2>2, Behind
<1>9. QED
  BY <1>1, <1>7, <1>8, WalkedInv

LEMMA ReadPageInv == ASSUME IndInv, ReadPage PROVE IndInv'
<1> DEFINE found == {c \in Cards : shelf[c] = <<scan.section, scan.page>>} \ scan.met
           met == scan.met \union found
<1>1. /\ At("walk") /\ scan.section \in Sections
      /\ scan' = [scan EXCEPT !.pc = "page", !.found = found, !.met = met]
      /\ UNCHANGED <<shelf, edited, skips, items, succeeded, verdict, steady>>
  BY DEF ReadPage, Asking
<1>2. /\ scan \in Scan /\ ~At("idle") /\ scan.found = {} /\ scan.pending = {}
      /\ scan.page \in 1..Pages[scan.section]
  BY <1>1, WalkType
<1>3. found \subseteq Cards /\ met \subseteq Cards /\ found \cap scan.met = {}
  BY <1>2 DEF Scan
<1> HIDE DEF found, met
<1>4. /\ scan' \in Scan /\ scan'.pc = "page" /\ scan'.met = met /\ scan'.found = found
      /\ scan'.section = scan.section /\ scan'.page = scan.page
      /\ scan'.unread = scan.unread /\ scan'.cut = scan.cut /\ scan'.warned = scan.warned
      /\ scan'.pending = scan.pending /\ scan'.seen = scan.seen
  BY <1>1, <1>2, <1>3 DEF Scan
<1>5. TypeOK'
  BY <1>1, <1>2, <1>4 DEF IndInv, TypeOK
<1>6. StageOK'
  BY <1>1, <1>2, <1>4 DEF StageOK, At
<1>7. HandedOK'
  <2>1. HandedOK
    BY DEF IndInv
  <2> USE <1>1, <1>2, <1>3, <1>4, <2>1 DEF HandedOK, Handed
  <2>2. (scan.found \subseteq scan.met)' /\ (scan.seen \cap Unwanted = {})'
    BY DEF met
  <2>3. (\A k \in scan.seen : Active(k))'
    BY DEF Active
  <2>4. ASSUME NEW c \in Cards
        PROVE  /\ (c \in Handed => c \in scan.met \ scan.found)'
               /\ (c \in scan.met /\ Plain(c) => c \in scan.found \union Handed)'
               /\ \A k \in Choices[c] :
                    (k \in Handed => c \in scan.met \ scan.found /\ c \notin Handed)'
    BY <2>4 DEF Plain, met
  <2>5. QED
    BY <2>2, <2>3, <2>4
<1>8. PassedOK'
  <2> SUFFICES ASSUME NEW c \in steady
               PROVE  IF OnShelf(c)
                      THEN Passed(shelf[c])' => c \in met \/ LeftOut(shelf[c])
                      ELSE c \notin met
    BY <1>1, <1>4 DEF PassedOK, OnShelf, LeftOut
  <2>1. c \in Cards /\ PassedOK
    BY DEF IndInv, TypeOK
  <2>2. CASE ~OnShelf(c)
    <3>1. <<scan.section, scan.page>> # Off
      BY <1>1, <1>2, ValuesAssumption DEF ValuesAssumption, Places
    <3>2. QED
      BY <1>2, <2>1, <2>2, <3>1 DEF PassedOK, OnShelf, met, found
  <2>3. CASE OnShelf(c)
    <3>1. shelf[c] = <<shelf[c][1], shelf[c][2]>>
      BY <2>1, <2>3, PassedType, PlaceType DEF IndInv
    <3> SUFFICES ASSUME Passed(shelf[c])'
                 PROVE  c \in met \/ LeftOut(shelf[c])
      BY <2>3
    <3>2. Passed(shelf[c]) \/ shelf[c] = <<scan.section, scan.page>>
      BY <1>1, <1>4, <3>1 DEF Passed, At
    <3>3. CASE Passed(shelf[c])
      BY <1>2, <2>1, <2>3, <3>3 DEF PassedOK, met
    <3>4. CASE shelf[c] = <<scan.section, scan.page>>
      BY <2>1, <3>4 DEF met, found
    <3>5. QED
      BY <3>2, <3>3, <3>4
  <2>4. QED
    BY <2>2, <2>3
<1>9. FinishOK'
  BY <1>4 DEF FinishOK, At
<1>10. QED
  BY <1>5, <1>6, <1>7, <1>8, <1>9 DEF IndInv

\* The steps within a page: the walk stays where it is.
LEMMA InPageInv ==
    ASSUME IndInv, At("page"), HandedOK',
           UNCHANGED <<shelf, edited, skips, succeeded, verdict, steady>>,
           items' \in [Keys -> Row \union {NoRow}],
           scan' \in Scan, scan'.pc = "page", scan'.met = scan.met,
           scan'.section = scan.section, scan'.page = scan.page,
           scan'.unread = scan.unread, scan'.cut = scan.cut,
           scan.warned => scan'.warned
    PROVE  IndInv'
<1>1. TypeOK'
  BY DEF IndInv, TypeOK
<1>2. StageOK'
  BY DEF IndInv, StageOK, At
<1>3. PassedOK'
  <2> SUFFICES ASSUME NEW c \in steady
               PROVE  IF OnShelf(c)
                      THEN Passed(shelf[c])' => c \in scan.met \/ LeftOut(shelf[c])
                      ELSE c \notin scan.met
    BY DEF PassedOK, OnShelf, LeftOut
  <2>1. PassedOK /\ ~At("idle")
    BY DEF IndInv, At
  <2>2. Passed(shelf[c])' <=> Passed(shelf[c])
    BY DEF Passed, At
  <2>3. QED
    BY <2>1, <2>2 DEF PassedOK
<1>4. FinishOK'
  BY DEF FinishOK, At
<1>5. QED
  BY <1>1, <1>2, <1>3, <1>4 DEF IndInv

LEMMA ReadProductInv ==
    ASSUME IndInv, NEW c \in Cards, NEW read \in BOOLEAN, NEW warned \in BOOLEAN,
           ReadProduct(c, read, warned)
    PROVE  IndInv'
<1> DEFINE found == scan.found \ {c}
           pending == IF read /\ Choices[c] # {} THEN Choices[c] ELSE {c}
           told == scan.warned \/ warned
<1>1. /\ At("page") /\ scan.pending = {} /\ c \in scan.found
      /\ scan' = [scan EXCEPT !.found = found, !.pending = pending, !.warned = told]
      /\ UNCHANGED <<shelf, edited, skips, items, succeeded, verdict, steady>>
  BY DEF ReadProduct
<1>2. scan \in Scan /\ items \in [Keys -> Row \union {NoRow}] /\ HandedOK
  BY DEF IndInv, TypeOK
<1>3. found \subseteq Cards /\ pending \subseteq Keys
  BY <1>2, KeysType DEF Scan
<1>4. told \in BOOLEAN /\ (scan.warned => told)
  BY <1>2 DEF Scan
<1> HIDE DEF found, pending, told
<1>5. /\ scan' \in Scan /\ scan'.pc = "page" /\ scan'.met = scan.met
      /\ scan'.section = scan.section /\ scan'.page = scan.page
      /\ scan'.unread = scan.unread /\ scan'.cut = scan.cut /\ scan'.warned = told
      /\ scan'.found = found /\ scan'.pending = pending /\ scan'.seen = scan.seen
  BY <1>1, <1>2, <1>3, <1>4 DEF Scan, At
<1>6. HandedOK'
  <2> USE <1>1, <1>2, <1>5 DEF HandedOK, Handed
  <2>1. (scan.found \subseteq scan.met)' /\ (scan.seen \cap Unwanted = {})'
    BY DEF found
  <2>2. (\A k \in scan.seen : Active(k))'
    BY DEF Active
  <2>3. ASSUME NEW d \in Cards
        PROVE  (d \in Handed => d \in scan.met \ scan.found)'
    <3>1. d \in pending => d = c
      BY KeysType, <2>3 DEF pending
    <3>2. QED
      BY <2>3, <3>1 DEF found
  <2>4. ASSUME NEW d \in Cards
        PROVE  (d \in scan.met /\ Plain(d) => d \in scan.found \union Handed)'
    <3>1. Plain(d)' => Choices[d] = {}
      BY DEF Plain
    <3>2. d = c /\ Choices[d] = {} => d \in pending
      BY DEF pending
    <3>3. QED
      BY <2>4, <3>1, <3>2 DEF found, Plain
  <2>5. ASSUME NEW d \in Cards, NEW k \in Choices[d]
        PROVE  (k \in Handed => d \in scan.met \ scan.found /\ d \notin Handed)'
    <3>1. k \notin Cards
      BY KeysType, <2>5
    <3>2. CASE k \in scan.seen
      <4>1. d \in scan.met \ scan.found /\ d \notin scan.seen /\ d # c
        BY <2>5, <3>2
      <4>2. d \notin pending
        BY KeysType, <2>5, <4>1 DEF pending
      <4>3. QED
        BY <4>1, <4>2 DEF found
    <3>3. CASE k \in pending
      <4>1. k \in Choices[c] /\ pending = Choices[c]
        BY <3>1, <3>3, <2>5 DEF pending
      <4>2. d = c
        BY <2>5, <4>1, OneParent
      <4>3. c \notin scan.seen /\ c \notin pending
        BY <4>1, KeysType
      <4>4. QED
        BY <4>2, <4>3 DEF found
    <3>4. QED
      BY <3>2, <3>3
  <2>6. QED
    BY <2>1, <2>2, <2>3, <2>4, <2>5
<1>7. QED
  BY <1>1, <1>2, <1>4, <1>5, <1>6, InPageInv

LEMMA UpsertInv == ASSUME IndInv, NEW k \in Keys, Upsert(k) PROVE IndInv'
<1> DEFINE pending == scan.pending \ {k}
           seen == IF k \in Unwanted THEN scan.seen ELSE scan.seen \union {k}
           parents == IF k \in Unwanted THEN scan.parents
                      ELSE scan.parents \union {c \in Cards : k \in Choices[c]}
           row == IF k \in Unwanted THEN NoRow ELSE [active |-> TRUE, category |-> scan.section]
<1>1. /\ At("page") /\ k \in scan.pending
      /\ items' = [items EXCEPT ![k] = row]
      /\ UNCHANGED <<shelf, edited, skips, succeeded, verdict, steady>>
  BY DEF Upsert
<1>2. /\ scan \in Scan /\ items \in [Keys -> Row \union {NoRow}] /\ HandedOK
      /\ scan.section \in Sections
  BY <1>1 DEF IndInv, TypeOK, StageOK
<1>3. scan' = [scan EXCEPT !.pending = pending, !.seen = seen, !.parents = parents]
  <2>1. CASE k \in Unwanted
    <3>1. scan' = [scan EXCEPT !.pending = pending]
      BY <2>1 DEF Upsert
    <3>2. QED
      BY <1>2, <2>1, <3>1 DEF Scan
  <2>2. CASE k \notin Unwanted
    BY <2>2 DEF Upsert
  <2>3. QED
    BY <2>1, <2>2
<1>4. /\ pending \subseteq Keys /\ seen \subseteq Keys /\ parents \subseteq Cards
      /\ row \in Row \union {NoRow}
  BY <1>2 DEF Scan, Row
<1>5. k \notin Unwanted => row # NoRow /\ row.active
  <2> DEFINE stored == [active |-> TRUE, category |-> scan.section]
  <2>1. stored \in Row /\ stored.active
    BY <1>2 DEF Row
  <2>2. NoRow \notin Row
    BY ValuesAssumption DEF ValuesAssumption
  <2>3. k \notin Unwanted => row = stored
    OBVIOUS
  <2> HIDE DEF stored, row
  <2>4. QED
    BY <2>1, <2>2, <2>3
<1>6. pending \union seen \subseteq scan.pending \union scan.seen
  BY <1>1
<1>7. (k \notin Unwanted => k \in seen) /\ seen \subseteq scan.seen \union {k}
      /\ scan.seen \subseteq seen /\ (k \in seen /\ k \in Unwanted => k \in scan.seen)
      /\ scan.pending \ {k} \subseteq pending
  OBVIOUS
<1> HIDE DEF pending, seen, parents, row
<1>8. /\ scan' \in Scan /\ scan'.pc = "page" /\ scan'.met = scan.met
      /\ scan'.section = scan.section /\ scan'.page = scan.page
      /\ scan'.unread = scan.unread /\ scan'.cut = scan.cut /\ scan'.warned = scan.warned
      /\ scan'.found = scan.found /\ scan'.pending = pending /\ scan'.seen = seen
  BY <1>1, <1>2, <1>3, <1>4 DEF Scan, At
<1>9. items' \in [Keys -> Row \union {NoRow}]
  BY <1>1, <1>2, <1>4
<1>10. HandedOK'
  <2> USE <1>2, <1>8 DEF HandedOK, Handed
  <2>1. (scan.found \subseteq scan.met)' /\ (scan.seen \cap Unwanted = {})'
    BY <1>7
  <2>2. (\A j \in scan.seen : Active(j))'
    <3> SUFFICES ASSUME NEW j \in seen PROVE items'[j] # NoRow /\ items'[j].active
      BY DEF Active
    <3>1. j \in Keys
      BY <1>4
    <3>2. CASE j = k
      <4>1. k \notin Unwanted
        BY <1>7, <3>2
      <4>2. QED
        BY <1>1, <1>2, <1>5, <3>2, <4>1
    <3>3. CASE j # k
      BY <1>1, <1>2, <1>7, <3>1, <3>3 DEF Active
    <3>4. QED
      BY <3>2, <3>3
  <2>3. ASSUME NEW d \in Cards
        PROVE  (d \in Handed => d \in scan.met \ scan.found)'
    BY <1>6, <2>3
  <2>4. ASSUME NEW d \in Cards
        PROVE  (d \in scan.met /\ Plain(d) => d \in scan.found \union Handed)'
    BY <1>7, <2>4 DEF Plain
  <2>5. ASSUME NEW d \in Cards, NEW j \in Choices[d]
        PROVE  (j \in Handed => d \in scan.met \ scan.found /\ d \notin Handed)'
    BY <1>6, <2>5
  <2>6. QED
    BY <2>1, <2>2, <2>3, <2>4, <2>5
<1>11. QED
  BY <1>1, <1>8, <1>9, <1>10, InPageInv

(***************************************************************************)
(* The close of a run, and the shop.                                       *)
(***************************************************************************)
\* Between runs there is nothing to keep.
LEMMA EndedInv ==
    ASSUME IndInv, NEW status \in Verdicts, Ended(status),
           UNCHANGED <<shelf, skips, items>>,
           edited' \subseteq Sections, succeeded' \in BOOLEAN
    PROVE  IndInv'
<1>1. scan' = Idle /\ steady' = {} /\ verdict' = status
  BY DEF Ended
<1>2. /\ scan'.pc = "idle" /\ scan'.section = 1 /\ scan'.page = 1
      /\ scan'.found = {} /\ scan'.pending = {} /\ scan'.met = {} /\ scan'.seen = {}
      /\ scan'.cut = {}
  BY <1>1 DEF Idle
<1>3. scan' \in Scan
  BY <1>1 DEF Idle, Scan
<1>4. TypeOK'
  BY <1>1, <1>2, <1>3, PagesType DEF IndInv, TypeOK
<1>5. StageOK'
  BY <1>1, <1>2 DEF StageOK, At, Idle
<1>6. HandedOK'
  BY <1>2 DEF HandedOK, Handed
<1>7. PassedOK' /\ FinishOK'
  BY <1>2 DEF PassedOK, FinishOK, At
<1>8. QED
  BY <1>4, <1>5, <1>6, <1>7 DEF IndInv

LEMMA AbandonInv == ASSUME IndInv, Abandon PROVE IndInv'
<1>1. "failed" \in Verdicts
  BY DEF Verdicts
<1>2. /\ Ended("failed") /\ UNCHANGED <<shelf, skips, items>>
      /\ edited' \subseteq Sections /\ succeeded' \in BOOLEAN
  BY DEF Abandon, IndInv, TypeOK
<1>3. QED
  BY <1>1, <1>2, EndedInv

LEMMA FinishInv == ASSUME IndInv, Finish PROVE IndInv'
<1> DEFINE status == IF scan.warned THEN "partial" ELSE "success"
<1>1. status \in Verdicts
  BY DEF Verdicts
<1>2. /\ Ended(status) /\ UNCHANGED <<shelf, skips, items>>
      /\ edited' \subseteq Sections /\ succeeded' \in BOOLEAN
  BY DEF Finish
<1> HIDE DEF status
<1>3. QED
  BY <1>1, <1>2, EndedInv

\* The steps after the walk: every card has been passed before and after.
LEMMA AfterWalkInv ==
    ASSUME IndInv, ~At("idle"), ~At("page"), HandedOK', FinishOK',
           At("walk") => scan.section \notin Sections,
           UNCHANGED <<shelf, edited, skips, succeeded, verdict, steady>>,
           items' \in [Keys -> Row \union {NoRow}],
           scan' \in Scan, scan'.pc \in {"retire", "reconcile", "finish"},
           scan'.met = scan.met, scan'.found = scan.found, scan'.pending = scan.pending,
           scan'.section = scan.section, scan'.page = scan.page,
           scan'.unread = scan.unread, scan'.cut = scan.cut,
           scan.warned => scan'.warned
    PROVE  IndInv'
<1>1. TypeOK'
  BY DEF IndInv, TypeOK
<1>2. StageOK'
  BY DEF IndInv, StageOK, At
<1>3. PassedOK'
  <2> SUFFICES ASSUME NEW c \in steady
               PROVE  IF OnShelf(c)
                      THEN c \in scan.met \/ LeftOut(shelf[c])
                      ELSE c \notin scan.met
    BY DEF PassedOK, OnShelf, LeftOut
  <2>1. c \in Cards /\ PassedOK
    BY DEF IndInv, TypeOK
  <2>2. CASE ~OnShelf(c)
    BY <2>1, <2>2 DEF PassedOK
  <2>3. CASE OnShelf(c)
    <3>1. shelf[c][1] \in Sections
      BY <2>1, <2>3, PassedType DEF IndInv
    <3>2. CASE At("walk")
      <4>1. scan.section \in Nat \ {0} /\ scan.section \notin Sections
        BY <3>2 DEF IndInv, TypeOK, Scan
      <4> DEFINE s == shelf[c][1]
                 last == Cardinality(Sections)
      <4>2. last \in Nat /\ Sections = 1..last
        BY SectionsType, ConstantsAssumption DEF ConstantsAssumption
      <4> HIDE DEF s, last
      <4>3. s \in Sections
        BY <3>1 DEF s
      <4>4. scan.section > s
        BY <4>1, <4>2, <4>3
      <4>5. Passed(shelf[c])
        BY <4>4 DEF Passed, s
      <4>6. QED
        BY <2>1, <2>3, <4>5 DEF PassedOK
    <3>3. CASE ~At("walk")
      <4>1. scan.pc \in {"retire", "reconcile", "finish"}
        BY <3>3 DEF IndInv, TypeOK, Scan, At
      <4>2. Passed(shelf[c])
        BY <4>1 DEF Passed
      <4>3. QED
        BY <2>1, <2>3, <4>2 DEF PassedOK
    <3>4. QED
      BY <3>2, <3>3
  <2>4. QED
    BY <2>2, <2>3
<1>4. QED
  BY <1>1, <1>2, <1>3 DEF IndInv

LEMMA StreamEndsInv == ASSUME IndInv, StreamEnds PROVE IndInv'
<1>1. CASE scan.resting /\ scan.met = {} /\ ~skips
  <2>1. "failed" \in Verdicts
    BY DEF Verdicts
  <2>2. /\ Ended("failed") /\ UNCHANGED <<shelf, skips, items>>
        /\ edited' \subseteq Sections /\ succeeded' \in BOOLEAN
    BY <1>1 DEF StreamEnds, IndInv, TypeOK
  <2>3. QED
    BY <2>1, <2>2, EndedInv
<1>2. CASE ~(scan.resting /\ scan.met = {} /\ ~skips)
  <2>1. /\ scan.pc = "walk" /\ scan.section \notin Sections /\ ~At("idle") /\ ~At("page")
        /\ scan' = [scan EXCEPT !.pc = "retire"]
        /\ UNCHANGED <<shelf, edited, skips, items, succeeded, verdict, steady>>
    BY <1>2 DEF StreamEnds, At
  <2>2. scan \in Scan /\ items \in [Keys -> Row \union {NoRow}] /\ HandedOK
    BY DEF IndInv, TypeOK
  <2>3. /\ scan' \in Scan /\ scan'.pc = "retire" /\ scan'.met = scan.met
        /\ scan'.section = scan.section /\ scan'.page = scan.page
        /\ scan'.unread = scan.unread /\ scan'.cut = scan.cut /\ scan'.warned = scan.warned
        /\ scan'.found = scan.found /\ scan'.pending = scan.pending /\ scan'.seen = scan.seen
    BY <2>1, <2>2 DEF Scan
  <2>4. HandedOK'
    BY <2>1, <2>2, <2>3 DEF HandedOK, Handed, Active, Plain
  <2>5. FinishOK'
    BY <2>3 DEF FinishOK, At
  <2>6. QED
    BY <2>1, <2>2, <2>3, <2>4, <2>5, AfterWalkInv
<1>3. QED
  BY <1>1, <1>2

LEMMA RetireInv == ASSUME IndInv, Retire PROVE IndInv'
<1>1. /\ scan.pc = "retire" /\ ~At("idle") /\ ~At("page") /\ ~At("walk")
      /\ items' = [k \in Keys |-> IF k \in scan.parents \ scan.seen THEN NoRow ELSE items[k]]
      /\ scan' = [scan EXCEPT !.pc = "reconcile"]
      /\ UNCHANGED <<shelf, edited, skips, succeeded, verdict, steady>>
  BY DEF Retire, At
<1>2. scan \in Scan /\ items \in [Keys -> Row \union {NoRow}] /\ HandedOK /\ scan.seen \subseteq Keys
  BY DEF IndInv, TypeOK, Scan
<1>3. /\ scan' \in Scan /\ scan'.pc = "reconcile" /\ scan'.met = scan.met
      /\ scan'.section = scan.section /\ scan'.page = scan.page
      /\ scan'.unread = scan.unread /\ scan'.cut = scan.cut /\ scan'.warned = scan.warned
      /\ scan'.found = scan.found /\ scan'.pending = scan.pending /\ scan'.seen = scan.seen
  BY <1>1, <1>2 DEF Scan
<1>4. items' \in [Keys -> Row \union {NoRow}] /\ \A k \in scan.seen : items'[k] = items[k]
  BY <1>1, <1>2
<1>5. HandedOK'
  BY <1>2, <1>3, <1>4 DEF HandedOK, Handed, Active, Plain
<1>6. FinishOK'
  BY <1>3 DEF FinishOK, At
<1>7. QED
  BY <1>1, <1>2, <1>3, <1>4, <1>5, <1>6, AfterWalkInv

\* What a run de-lists: nothing, or what is active and was neither seen nor left out.
LEMMA ReconcileItems ==
    ASSUME IndInv, NEW accept \in BOOLEAN, Reconcile(accept)
    PROVE  /\ items' \in [Keys -> Row \union {NoRow}]
           /\ \A k \in Keys : k \notin Going => items'[k] = items[k]
           /\ \A k \in Going : Active(k)' => scan'.warned
           /\ scan' \in Scan /\ scan'.pc = "finish" /\ scan'.met = scan.met
           /\ scan'.section = scan.section /\ scan'.page = scan.page
           /\ scan'.unread = scan.unread /\ scan'.cut = scan.cut
           /\ scan'.found = scan.found /\ scan'.pending = scan.pending
           /\ scan'.seen = scan.seen /\ (scan.warned => scan'.warned)
<1> DEFINE shrunk == ~HeldBack /\ Shrunk(Going, accept)
           delisted == IF HeldBack \/ shrunk THEN {} ELSE Going
           told == scan.warned \/ shrunk
<1>1. /\ items' = [k \in Keys |->
                     IF k \in delisted THEN [items[k] EXCEPT !.active = FALSE] ELSE items[k]]
      /\ scan' = [scan EXCEPT !.pc = "finish", !.warned = told]
  BY DEF Reconcile
<1>2. scan \in Scan /\ items \in [Keys -> Row \union {NoRow}]
  BY DEF IndInv, TypeOK
<1>3. delisted \subseteq Going /\ Going \subseteq Keys /\ \A k \in Going : items[k] \in Row
  BY <1>2 DEF Going, Active
<1>4. \A k \in Going : k \notin delisted => told
  BY DEF HeldBack
<1>5. told \in BOOLEAN /\ (scan.warned => told)
  BY <1>2 DEF Scan
<1> HIDE DEF delisted, told
<1>6. \A k \in Keys : items'[k] = IF k \in delisted THEN [items[k] EXCEPT !.active = FALSE]
                                  ELSE items[k]
  BY <1>1
<1>7. \A r \in Row : [r EXCEPT !.active = FALSE] \in Row /\ ~[r EXCEPT !.active = FALSE].active
  BY DEF Row
<1>8. items' \in [Keys -> Row \union {NoRow}]
  BY <1>1, <1>2, <1>3, <1>7
<1>9. \A k \in Keys : k \notin Going => items'[k] = items[k]
  BY <1>3, <1>6
<1>10. /\ scan' \in Scan /\ scan'.pc = "finish" /\ scan'.met = scan.met
       /\ scan'.section = scan.section /\ scan'.page = scan.page
       /\ scan'.unread = scan.unread /\ scan'.cut = scan.cut
       /\ scan'.found = scan.found /\ scan'.pending = scan.pending
       /\ scan'.seen = scan.seen /\ scan'.warned = told
  BY <1>1, <1>2, <1>5 DEF Scan
<1>11. \A k \in Going : Active(k)' => scan'.warned
  <2> SUFFICES ASSUME NEW k \in Going, k \in delisted PROVE ~items'[k].active
    BY <1>4, <1>10 DEF Active
  <2>1. items'[k] = [items[k] EXCEPT !.active = FALSE] /\ items[k] \in Row
    BY <1>3, <1>6
  <2>2. QED
    BY <1>7, <2>1
<1>12. QED
  BY <1>5, <1>8, <1>9, <1>10, <1>11

LEMMA ReconcileInv ==
    ASSUME IndInv, NEW accept \in BOOLEAN, Reconcile(accept)
    PROVE  IndInv'
<1>1. /\ scan.pc = "reconcile" /\ ~At("idle") /\ ~At("page") /\ ~At("walk")
      /\ UNCHANGED <<shelf, edited, skips, succeeded, verdict, steady>>
  BY DEF Reconcile, At
<1>2. /\ scan \in Scan /\ HandedOK /\ scan.seen \subseteq Keys
      /\ items \in [Keys -> Row \union {NoRow}]
      /\ scan.found = {} /\ scan.pending = {}
  BY <1>1 DEF IndInv, TypeOK, Scan, StageOK, At
<1>3. \A k \in scan.seen : items'[k] = items[k]
  BY <1>2, ReconcileItems DEF Going
<1>4. HandedOK'
  BY <1>1, <1>2, <1>3, ReconcileItems DEF HandedOK, Handed, Active, Plain
<1>5. FinishOK'
  <2> SUFFICES ASSUME ~scan'.warned, scan'.unread = {}, NEW k \in Keys
               PROVE  Active(k)' <=> k \in scan'.seen
    BY DEF FinishOK
  <2>1. scan'.seen = scan.seen /\ scan.unread = {}
    BY ReconcileItems
  <2>2. CASE k \in scan.seen
    BY <1>2, <1>3, <2>1, <2>2 DEF HandedOK, Active
  <2>3. CASE k \notin scan.seen
    <3>1. CASE k \in Going
      BY <2>1, <2>3, <3>1, ReconcileItems
    <3>2. CASE k \notin Going
      <4>1. ~Active(k)
        BY <2>1, <2>3, <3>2 DEF Going
      <4>2. items'[k] = items[k]
        BY <3>2, ReconcileItems
      <4>3. QED
        BY <2>1, <2>3, <4>1, <4>2 DEF Active
    <3>3. QED
      BY <3>1, <3>2
  <2>4. QED
    BY <2>2, <2>3
<1>6. QED
  BY <1>1, <1>4, <1>5, ReconcileItems, AfterWalkInv

\* The shop moves a card, and the scan no longer answers for it.
LEMMA MoveInv ==
    ASSUME IndInv, NEW c \in Cards, NEW place \in Places \union {Off}, Move(c, place)
    PROVE  IndInv'
<1>1. /\ shelf' = [shelf EXCEPT ![c] = place]
      /\ steady' = steady \ {c}
      /\ edited' = IF skips THEN edited \union Section(shelf[c]) \union Section(place) ELSE edited
      /\ UNCHANGED <<skips, items, succeeded, verdict, scan>>
  BY DEF Move
<1>2. /\ shelf \in [Cards -> Places \union {Off}] /\ edited \subseteq Sections
      /\ steady \subseteq Cards /\ (At("idle") => steady = {})
  BY DEF IndInv, TypeOK, StageOK
<1>3. \A q \in Places \union {Off} : Section(q) \subseteq Sections
  BY PlaceType DEF Section
<1>4. edited' \subseteq Sections
  BY <1>1, <1>2, <1>3
<1>5. shelf' \in [Cards -> Places \union {Off}]
  BY <1>1, <1>2
<1>6. TypeOK'
  BY <1>1, <1>2, <1>4, <1>5 DEF IndInv, TypeOK
<1>7. StageOK'
  BY <1>1, <1>2 DEF IndInv, StageOK, At
<1>8. HandedOK'
  BY <1>1 DEF IndInv, HandedOK, Handed, Active, Plain
<1>9. FinishOK'
  BY <1>1 DEF IndInv, FinishOK, At, Active
<1>10. PassedOK'
  <2>1. \A d \in steady' : d \in steady /\ shelf'[d] = shelf[d]
    BY <1>1, <1>2
  <2>2. PassedOK
    BY DEF IndInv
  <2>3. QED
    BY <1>1, <2>1, <2>2 DEF PassedOK, OnShelf, Passed, LeftOut, At
<1>11. QED
  BY <1>6, <1>7, <1>8, <1>9, <1>10 DEF IndInv

\* A run begins before the first page, with everything still to be read.
LEMMA StartInv ==
    ASSUME IndInv, NEW skip \in SUBSET Sections, Start(skip)
    PROVE  IndInv'
<1>1. /\ scan' = [Idle EXCEPT !.pc = "walk", !.skip = skip]
      /\ steady' = Cards /\ verdict' = "running"
      /\ UNCHANGED <<shelf, edited, skips, items, succeeded>>
  BY DEF Start
<1>2. /\ scan' \in Scan /\ scan'.pc = "walk" /\ scan'.section = 1 /\ scan'.page = 1
      /\ scan'.found = {} /\ scan'.pending = {} /\ scan'.met = {} /\ scan'.seen = {}
      /\ scan'.unread = {} /\ scan'.cut = {} /\ scan'.warned = FALSE
  <2>1. /\ Idle \in Scan /\ Idle.section = 1 /\ Idle.page = 1
        /\ Idle.found = {} /\ Idle.pending = {} /\ Idle.met = {} /\ Idle.seen = {}
        /\ Idle.unread = {} /\ Idle.cut = {} /\ Idle.warned = FALSE
    BY DEF Idle, Scan
  <2>2. QED
    BY <1>1, <2>1 DEF Scan
<1>3. TypeOK'
  BY <1>1, <1>2, PagesType DEF IndInv, TypeOK, Verdicts
<1>4. StageOK' /\ FinishOK'
  BY <1>2 DEF StageOK, FinishOK, At
<1>5. HandedOK'
  BY <1>2 DEF HandedOK, Handed
<1>6. PassedOK'
  <2> SUFFICES ASSUME NEW c \in Cards, OnShelf(c) PROVE ~Passed(shelf[c])'
    BY <1>1, <1>2 DEF PassedOK, OnShelf
  <2> DEFINE s == shelf[c][1]
             n == shelf[c][2]
  <2>1. s \in Sections /\ n \in 1..Pages[s] /\ Pages[s] \in Nat
    BY PassedType, PlaceType, PagesType DEF IndInv
  <2>2. s \in Nat \ {0}
    BY <2>1, SectionsType
  <2> HIDE DEF s, n
  <2>3. ~(1 > s) /\ ~(1 = s /\ 1 > n)
    BY <2>1, <2>2
  <2>4. QED
    BY <1>1, <1>2, <2>3 DEF Passed, At, s, n
<1>7. QED
  BY <1>3, <1>4, <1>5, <1>6 DEF IndInv

LEMMA InitInv == ASSUME Init PROVE IndInv
<1>1. /\ scan = Idle /\ steady = {} /\ scan \in Scan
      /\ scan.pc = "idle" /\ scan.section = 1 /\ scan.page = 1
      /\ scan.found = {} /\ scan.pending = {} /\ scan.met = {} /\ scan.seen = {}
      /\ scan.cut = {}
  BY DEF Init, Idle, Scan
<1>2. TypeOK
  BY <1>1, PagesType DEF Init, TypeOK, Verdicts
<1>3. StageOK /\ HandedOK
  BY <1>1 DEF StageOK, HandedOK, Handed, At
<1>4. PassedOK /\ FinishOK
  BY <1>1 DEF PassedOK, FinishOK, At
<1>5. QED
  BY <1>2, <1>3, <1>4 DEF IndInv

LEMMA NextInv == ASSUME IndInv, [Next]_vars PROVE IndInv'
<1>1. CASE UNCHANGED vars
  BY <1>1 DEF vars, IndInv, TypeOK, StageOK, HandedOK, Handed, PassedOK, Passed, LeftOut, FinishOK,
              At, Active, Plain, OnShelf
<1>2. ASSUME NEW c \in Cards, NEW place \in Places \union {Off}, Move(c, place) PROVE IndInv'
  BY <1>2, MoveInv
<1>3. ASSUME NEW skip \in SUBSET Sections, Start(skip) PROVE IndInv'
  BY <1>3, StartInv
<1>4. ASSUME NEW resting \in BOOLEAN, NotAsked(resting) PROVE IndInv'
  BY <1>4, NotAskedInv
<1>5. ASSUME NEW c \in Cards, NEW read \in BOOLEAN, NEW warned \in BOOLEAN,
             ReadProduct(c, read, warned)
      PROVE  IndInv'
  BY <1>5, ReadProductInv
<1>6. ASSUME NEW k \in Keys, Upsert(k) PROVE IndInv'
  BY <1>6, UpsertInv
<1>7. ASSUME NEW accept \in BOOLEAN, Reconcile(accept) PROVE IndInv'
  BY <1>7, ReconcileInv
<1>8. CASE SkipSection \/ CutShort \/ ReadPage \/ PageDone \/ NoNext
  BY <1>8, SkipSectionInv, CutShortInv, ReadPageInv, PageDoneInv, NoNextInv
<1>9. CASE StreamEnds \/ Retire \/ Finish \/ Abandon
  BY <1>9, StreamEndsInv, RetireInv, FinishInv, AbandonInv
<1>10. QED
  BY <1>1, <1>2, <1>3, <1>4, <1>5, <1>6, <1>7, <1>8, <1>9 DEF Next

(***************************************************************************)
(* The theorems.                                                           *)
(***************************************************************************)
\* The invariant the others rest on: between runs nothing is left of the last; what
\* the scraper has met is in hand or handed over; a card the walk is past has been met
\* unless its section, or the page it is on, was left out; and a run that closes
\* without a warning has kept exactly what it saw (_run_scan_claimed, and the walk of
\* the scrapers).
THEOREM Invariant == Spec => []IndInv
<1>1. Init => IndInv
  BY InitInv
<1>2. IndInv /\ [Next]_vars => IndInv'
  BY NextInv
<1>3. QED
  BY <1>1, <1>2, PTL DEF Spec

\* Every variable keeps its type, and a scan asks only for pages its section has
\* (woocommerce.py, _walk_pages).
THEOREM TypeCorrect == Spec => []TypeOK
<1>1. IndInv => TypeOK
  BY DEF IndInv
<1>2. QED
  BY <1>1, Invariant, PTL

(***************************************************************************)
(* What a step may do to a listing.                                        *)
(***************************************************************************)
\* Only a page with choices is retired.
LEMMA ParentsInv == ASSUME TypeOK, ParentsOK, [Next]_vars PROVE ParentsOK'
<1> SUFFICES ASSUME scan'.parents # scan.parents, NEW c \in scan'.parents, Choices[c] = {}
             PROVE  c \in scan.parents
  BY DEF ParentsOK
<1>1. scan \in Scan
  BY DEF TypeOK
<1>2. CASE scan' = scan \/ scan' = Idle
  BY <1>2 DEF Idle
<1>3. ASSUME NEW skip \in SUBSET Sections, Start(skip) PROVE FALSE
  <2>1. Idle \in Scan /\ Idle.parents = {}
    BY DEF Idle, Scan
  <2>2. scan'.parents = {}
    BY <1>3, <2>1 DEF Start, Scan
  <2>3. QED
    BY <2>2
<1>4. CASE SkipSection \/ CutShort \/ NoNext \/ (\E resting \in BOOLEAN : NotAsked(resting))
  <2> DEFINE next == NextSection(scan)
  <2>1. next \in Scan /\ next.parents = scan.parents
    BY <1>1, NextSectionMoves DEF Moved
  <2>2. CASE SkipSection
    <3>1. scan' = [next EXCEPT !.unread = next.unread \union {scan.section}]
      BY <2>2 DEF SkipSection
    <3> HIDE DEF next
    <3>2. QED
      BY <2>1, <3>1 DEF Scan
  <2>3. CASE CutShort
    <3> DEFINE cut == next.cut \union From(scan.section, scan.page)
    <3>1. scan' = [next EXCEPT !.warned = TRUE, !.cut = cut]
      BY <2>3 DEF CutShort
    <3> HIDE DEF next, cut
    <3>2. QED
      BY <2>1, <3>1 DEF Scan
  <2>4. ASSUME NEW resting \in BOOLEAN, NotAsked(resting) PROVE scan'.parents = next.parents
    <3> DEFINE left == {scan.section}
               rest == From(scan.section, scan.page)
               unread == IF scan.page = 1 THEN next.unread \union left ELSE next.unread
               cut == IF scan.page = 1 THEN next.cut ELSE next.cut \union rest
               refused == next.resting \/ (resting /\ ~skips)
    <3>1. scan' = [next EXCEPT !.warned = TRUE, !.resting = refused, !.unread = unread,
                               !.cut = cut]
      BY <2>4 DEF NotAsked
    <3> HIDE DEF next, unread, cut, refused
    <3>2. QED
      BY <2>1, <3>1 DEF Scan
  <2>5. CASE NoNext
    <3> DEFINE cut == next.cut \union From(scan.section, scan.page + 1)
    <3>1. scan' = [next EXCEPT !.pc = "walk", !.cut = cut]
      BY <2>5 DEF NoNext
    <3> HIDE DEF next, cut
    <3>2. QED
      BY <2>1, <3>1 DEF Scan
  <2> HIDE DEF next
  <2>6. QED
    BY <1>4, <2>1, <2>2, <2>3, <2>4, <2>5
<1>5. CASE PageDone
  <2> DEFINE next == NextPage(scan)
  <2>1. next.parents = scan.parents /\ next \in Scan
    <3>1. At("page") /\ scan.page \in Nat
      BY <1>1, <1>5 DEF PageDone, Scan
    <3>2. CASE scan.page = Pages[scan.section]
      BY <1>1, <3>2, NextSectionMoves DEF NextPage, Moved
    <3>3. CASE scan.page # Pages[scan.section]
      <4> DEFINE on == scan.page + 1
      <4>1. on \in Nat /\ next = [scan EXCEPT !.page = on]
        BY <3>1, <3>3 DEF NextPage
      <4> HIDE DEF on, next
      <4>2. QED
        BY <1>1, <4>1 DEF Scan
    <3>4. QED
      BY <3>2, <3>3
  <2>2. scan' = [next EXCEPT !.pc = "walk"]
    BY <1>5 DEF PageDone
  <2> HIDE DEF next
  <2>3. QED
    BY <2>1, <2>2 DEF Scan
<1>6. CASE ReadPage
  BY <1>1, <1>6 DEF ReadPage, Scan
<1>7. ASSUME NEW d \in Cards, NEW read \in BOOLEAN, NEW warned \in BOOLEAN,
             ReadProduct(d, read, warned)
      PROVE  FALSE
  BY <1>1, <1>7 DEF ReadProduct, Scan
<1>8. ASSUME NEW k \in Keys, Upsert(k) PROVE c \in scan.parents
  <2> DEFINE split == {d \in Cards : k \in Choices[d]}
             parents == scan.parents \union split
             seen == scan.seen \union {k}
             pending == scan.pending \ {k}
  <2>1. \/ scan' = [scan EXCEPT !.pending = pending]
        \/ scan' = [scan EXCEPT !.pending = pending, !.seen = seen, !.parents = parents]
    BY <1>8 DEF Upsert
  <2>2. c \notin split
    OBVIOUS
  <2>3. c \in parents => c \in scan.parents
    BY <2>2
  <2> HIDE DEF parents, seen, pending
  <2>4. QED
    BY <1>1, <2>1, <2>3 DEF Scan
<1>9. ASSUME NEW accept \in BOOLEAN, Reconcile(accept) PROVE FALSE
  BY <1>1, <1>9 DEF Reconcile, Scan
<1>10. CASE StreamEnds \/ Finish \/ Abandon
  BY <1>1, <1>2, <1>10 DEF StreamEnds, Finish, Abandon, Ended, Scan
<1>11. CASE Retire
  BY <1>1, <1>11 DEF Retire, Scan
<1>12. ASSUME NEW d \in Cards, NEW place \in Places \union {Off}, Move(d, place) PROVE FALSE
  BY <1>2, <1>12 DEF Move
<1>13. CASE UNCHANGED vars
  BY <1>2, <1>13 DEF vars
<1>14. QED
  BY <1>3, <1>4, <1>5, <1>6, <1>7, <1>8, <1>9, <1>10, <1>11, <1>12, <1>13 DEF Next

\* A listing of its own leaves the catalog in one place: where the scan reconciles it
\* with what the shop no longer lists.
LEMMA OnlyReconcile ==
    ASSUME IndInv, ParentsOK, [Next]_vars, NEW c \in Cards, Plain(c), Active(c), ~Active(c)'
    PROVE  At("reconcile") /\ c \in Going
<1>1. /\ c \in Keys /\ c \in DOMAIN items /\ items[c] # NoRow /\ items[c].active
      /\ items \in [Keys -> Row \union {NoRow}]
  BY KeysType DEF IndInv, TypeOK, Active
<1>2. items'[c] # items[c]
  BY DEF Active
<1>3. ASSUME NEW k \in Keys, Upsert(k) PROVE FALSE
  <2> DEFINE row == [active |-> TRUE, category |-> scan.section]
  <2>1. k = c /\ k \notin Unwanted
    BY <1>1, <1>2, <1>3 DEF Upsert, Plain
  <2>2. items' = [items EXCEPT ![k] = row] /\ scan.section \in Sections
    BY <1>3, <2>1 DEF Upsert, IndInv, StageOK
  <2>3. row \in Row /\ row.active
    BY <2>2 DEF Row
  <2> HIDE DEF row
  <2>4. items'[c] = row /\ row # NoRow
    BY <1>1, <2>1, <2>2, <2>3, ValuesAssumption DEF ValuesAssumption
  <2>5. QED
    BY <2>3, <2>4 DEF Active
<1>4. ASSUME Retire PROVE FALSE
  <2>1. c \notin scan.parents
    BY DEF ParentsOK, Plain
  <2>2. QED
    BY <1>1, <1>2, <1>4, <2>1 DEF Retire
<1>5. ASSUME NEW accept \in BOOLEAN, Reconcile(accept) PROVE At("reconcile") /\ c \in Going
  BY <1>1, <1>2, <1>5, ReconcileItems DEF Reconcile
<1>6. CASE UNCHANGED items
  BY <1>2, <1>6
<1>7. QED
  BY <1>3, <1>4, <1>5, <1>6
     DEF Next, vars, Move, Start, SkipSection, NotAsked, CutShort, ReadPage, ReadProduct,
         PageDone, NoNext, StreamEnds, Finish, Abandon

\* Only Finish reports success, and it does so when nothing was warned about.
LEMMA SuccessStep ==
    ASSUME IndInv, [Next]_vars, Success
    PROVE  ~scan.warned /\ UNCHANGED <<items, shelf>>
<1>1. scan.pc = "finish" /\ scan'.pc = "idle"
  BY DEF Success, At
<1>2. Finish
  BY <1>1 DEF Success, Next, vars, Move, Start, SkipSection, NotAsked, Asking, CutShort, At,
              ReadPage, ReadProduct, PageDone, NoNext, Upsert, StreamEnds, Retire, Reconcile,
              Abandon, Ended
<1>3. ~scan.warned
  BY <1>2 DEF Finish, Ended, Success
<1>4. QED
  BY <1>2, <1>3 DEF Finish

\* At the end of a run a card that was not moved was met if it is on the shelf and was
\* not left out, and was not if it is off it.
LEMMA MetIfOnShelf ==
    ASSUME IndInv, At("reconcile") \/ At("finish"), NEW c \in steady, Plain(c)
    PROVE  /\ OnShelf(c) /\ ~LeftOut(shelf[c]) => c \in scan.seen
           /\ ~OnShelf(c) => c \notin scan.seen
<1>1. c \in Cards /\ ~At("idle") /\ ~At("page") /\ Passed(shelf[c])
  BY DEF IndInv, TypeOK, At, Passed
<1>2. scan.found = {} /\ scan.pending = {}
  BY <1>1 DEF IndInv, StageOK
<1>3. c \in scan.met <=> c \in scan.seen
  BY <1>1, <1>2 DEF IndInv, HandedOK, Handed
<1>4. QED
  BY <1>1, <1>3 DEF IndInv, PassedOK

(***************************************************************************)
(* The promises.                                                           *)
(***************************************************************************)
LEMMA Safe == Spec => [](IndInv /\ ParentsOK)
<1>1. Init => IndInv /\ ParentsOK
  <2>1. Idle.parents = {}
    BY DEF Idle
  <2>2. Init => scan = Idle
    BY DEF Init
  <2>3. QED
    BY <2>1, <2>2, InitInv DEF ParentsOK
<1>2. IndInv /\ ParentsOK /\ [Next]_vars => (IndInv /\ ParentsOK)'
  BY NextInv, ParentsInv DEF IndInv
<1>3. QED
  BY <1>1, <1>2, PTL DEF Spec

\* A listing that stayed where the catalog files it is taken off the shelf only by a
\* run that began its section and left out the page it is on: not by one that skipped the section, could not
\* ask for it, was cancelled or crashed (_stale_items, _run_scan_claimed).
THEOREM Held == Spec => HeldWhereItIs
<1> DEFINE Keeps(c) ==
             (/\ Plain(c) /\ OnShelf(c) /\ Active(c)
              /\ items[c].category = shelf[c][1]
              /\ shelf[c] \notin scan.cut) => Active(c)'
<1>1. IndInv /\ ParentsOK /\ [Next]_vars => \A c \in steady : Keeps(c)
  <2> SUFFICES ASSUME IndInv, ParentsOK, [Next]_vars, NEW c \in steady, Plain(c),
                      OnShelf(c), Active(c), ~Active(c)',
                      items[c].category = shelf[c][1], shelf[c] \notin scan.cut
               PROVE  FALSE
    OBVIOUS
  <2>1. c \in Cards
    BY DEF IndInv, TypeOK
  <2>2. At("reconcile") /\ c \in Going
    BY <2>1, OnlyReconcile
  <2>3. c \notin scan.seen /\ ~LeftOut(shelf[c])
    BY <2>2 DEF Going, LeftOut
  <2>4. QED
    BY <2>2, <2>3, MetIfOnShelf
<1>2. IndInv /\ ParentsOK /\ [Next]_vars => [\A c \in steady : Keeps(c)]_vars
  BY <1>1
<1>3. QED
  BY <1>2, Safe, PTL DEF Spec, HeldWhereItIs

\* After a run that reports success and names no section it did not read, what stayed
\* off the shelf is not active, and what stayed on it is, unless it is on a page that
\* the walk of its section never came to (_run_scan_claimed, _walk_pages).
THEOREM Truth == Spec => SuccessIsTheTruth
<1> DEFINE Told == (Success /\ scan.unread = {}) =>
                     \A c \in steady : Plain(c) =>
                         /\ Active(c) => OnShelf(c)
                         /\ (OnShelf(c) /\ shelf[c] \notin scan.cut) => Active(c)
<1>1. IndInv /\ [Next]_vars => Told
  <2> SUFFICES ASSUME IndInv, [Next]_vars, Success, scan.unread = {}, NEW c \in steady, Plain(c)
               PROVE  /\ Active(c) => OnShelf(c)
                      /\ (OnShelf(c) /\ shelf[c] \notin scan.cut) => Active(c)
    OBVIOUS
  <2>1. c \in Cards /\ c \in Keys /\ At("finish")
    BY KeysType DEF IndInv, TypeOK, Success
  <2>2. ~scan.warned
    BY SuccessStep
  <2>3. Active(c) <=> c \in scan.seen
    BY <2>1, <2>2 DEF IndInv, FinishOK
  <2>4. shelf[c] \notin scan.cut => ~LeftOut(shelf[c])
    BY DEF LeftOut
  <2>5. QED
    BY <2>1, <2>3, <2>4, MetIfOnShelf
<1>2. IndInv /\ [Next]_vars => [Told]_vars
  BY <1>1
<1>3. QED
  BY <1>2, Invariant, PTL DEF Spec, SuccessIsTheTruth

\* After such a run no product page is in the catalog both as itself and as its choices
\* (_split_parents, _retire_split_parents).
THEOREM Once == Spec => ListedOnce
<1> DEFINE Single == (Success /\ scan.unread = {}) =>
                       \A c \in Cards : Active(c) => \A k \in Choices[c] : ~Active(k)
<1>1. IndInv /\ [Next]_vars => Single
  <2> SUFFICES ASSUME IndInv, [Next]_vars, Success, scan.unread = {},
                      NEW c \in Cards, Active(c), NEW k \in Choices[c], Active(k)
               PROVE  FALSE
    OBVIOUS
  <2>1. c \in Keys /\ k \in Keys /\ At("finish")
    BY KeysType DEF Success
  <2>2. ~scan.warned
    BY SuccessStep
  <2>3. c \in scan.seen /\ k \in scan.seen
    BY <2>1, <2>2 DEF IndInv, FinishOK
  <2>4. QED
    BY <2>3 DEF IndInv, HandedOK, Handed
<1>2. IndInv /\ [Next]_vars => [Single]_vars
  BY <1>1
<1>3. QED
  BY <1>2, Invariant, PTL DEF Spec, ListedOnce
=============================================================================
