----------------------------- MODULE DigestProofs -----------------------------
(***************************************************************************)
(* What the watermark of a digest passes was mailed, and nothing twice,     *)
(* proved for any listings, sites, runners and limit.                      *)
(***************************************************************************)
EXTENDS Digest, TLAPS

Stamped == Listings \union Sites

Settled == told \union missed

(***************************************************************************)
(* The inductive invariant.                                                *)
(***************************************************************************)
\* A digest has taken note of what is new only until it has queried it.
FreshOK == \A x \in Stamped : stamp[x].fresh \subseteq Building

\* What a digest that is being built will not look at is settled.
LoadedOK == \A r \in Building, l \in Stored : r \in stamp[l].fresh \/ l \in Settled

\* What its cutoff has passed is in it, or settled.
BuiltOK ==
    \A r \in Runners, l \in Stored :
        run[r].pc \in {"built", "sent"} /\ r \in stamp[l].cut => l \in run[r].found \union Settled

SentOK == \A r \in Runners : run[r].pc = "sent" => run[r].found \subseteq told

\* What was mailed and may be found new again is loose, or its mark is to come.
LooseOK ==
    /\ \A l \in told : stamp[l].new => l \in loose \union Unmarked
    /\ \A l \in told, r \in Runners : r \in stamp[l].fresh => l \in loose
    /\ \A r \in Runners : run[r].pc = "built" => run[r].found \intersect told \subseteq loose

IndInv ==
    TypeOK /\ FreshOK /\ Accounted /\ LoadedOK /\ BuiltOK /\ SentOK /\ LooseOK

PCs == {"idle", "picked", "loaded", "cut", "built", "sent"}

RunType == [pc : PCs, found : SUBSET Listings]

\* The parts of the type invariant that the steps below rest on.
LEMMA Types ==
    ASSUME TypeOK
    PROVE  /\ stamp \in [Stamped -> Stamp]
           /\ \A x \in Stamped : stamp[x] \in Stamp
           /\ run \in [Runners -> RunType]
           /\ told \subseteq Stored /\ missed \subseteq Stored /\ failed \subseteq Stored
           /\ Stored \subseteq Stamped /\ Stored \subseteq Listings /\ scanning \subseteq Stamped
           /\ loose \subseteq told
           /\ \A r \in Runners : run[r].found \subseteq Stored
           /\ \A r \in Runners : run[r].pc \notin {"built", "sent"} => run[r].found = {}
  BY DEF TypeOK, Stamped, Stored, PCs, RunType

LEMMA UnmarkedIs ==
    \A l : l \in Unmarked <=> \E q \in Runners : run[q].pc = "sent" /\ l \in run[q].found
  BY DEF Unmarked, At

LEMMA InHandIs ==
    \A r \in Runners : \A l :
        l \in UNION {InHand(q) : q \in Runners \ {r}}
        <=> \E q \in Runners \ {r} : l \in run[q].found \/ (l \in Stored /\ q \in stamp[l].fresh)
  BY DEF InHand

LEMMA InitInv == Init => IndInv
<1> SUFFICES ASSUME Init PROVE IndInv
  OBVIOUS
<1>1. JustNow \in Stamp /\ JustNow.fresh = {} /\ JustNow.new = TRUE
  BY DEF JustNow, Stamp
<1>2. /\ stamp \in [Stamped -> Stamp] /\ \A x \in Stamped : stamp[x] = JustNow
      /\ Stored = {} /\ told = {} /\ missed = {} /\ failed = {} /\ loose = {}
  BY <1>1 DEF Init, Stored, Stamped
<1>3. \A r \in Runners : run[r].pc = "idle" /\ run[r].found = {}
  BY DEF Init, Idle
<1>4. run \in [Runners -> RunType]
  BY DEF Init, Idle, PCs, RunType
<1>5. TypeOK
  BY <1>2, <1>3, <1>4 DEF Init, TypeOK, Stamped, PCs, RunType
<1>6. FreshOK /\ Accounted /\ LoadedOK /\ BuiltOK /\ SentOK
  BY <1>1, <1>2, <1>3 DEF FreshOK, Accounted, LoadedOK, BuiltOK, SentOK, Building
<1>7. LooseOK
  BY <1>2, <1>3 DEF LooseOK
<1>8. QED
  BY <1>5, <1>6, <1>7 DEF IndInv

(***************************************************************************)
(* The steps, one by one.                                                  *)
(***************************************************************************)
\* Steps that neither date, tell nor build anything.
LEMMA AsideInv ==
    ASSUME IndInv, UNCHANGED <<scanning, stamp, run, told, missed, failed, loose>>,
           pref' \in [on : BOOLEAN, first : BOOLEAN, next : {"none", "later", "passed"}],
           item' \in [Listings -> {"none", "sale", "off"}], Stored' = Stored
    PROVE  IndInv'
<1>1. TypeOK'
  BY DEF IndInv, TypeOK, Runners
<1>2. (FreshOK /\ Accounted /\ LoadedOK /\ BuiltOK /\ SentOK)'
  BY DEF IndInv, FreshOK, Accounted, LoadedOK, BuiltOK, SentOK, Building, Settled, Stamped
<1>3. LooseOK'
  BY DEF IndInv, LooseOK, Unmarked, At, Stored
<1>4. QED
  BY <1>1, <1>2, <1>3 DEF IndInv

LEMMA ItemInv == ASSUME IndInv, NEW l \in Listings, Goes(l) \/ Returns(l) PROVE IndInv'
<1>1. item' \in [Listings -> {"none", "sale", "off"}] /\ Stored' = Stored
  BY DEF IndInv, TypeOK, Goes, Returns, Stored
<1>2. UNCHANGED <<pref, scanning, stamp, run, told, missed, failed, loose>>
  BY DEF Goes, Returns
<1>3. QED
  BY <1>1, <1>2, AsideInv DEF IndInv, TypeOK

LEMMA PrefInv == ASSUME IndInv, TurnsOff \/ TurnsOn \/ ComesDue PROVE IndInv'
<1>1. pref' \in [on : BOOLEAN, first : BOOLEAN, next : {"none", "later", "passed"}]
  BY DEF IndInv, TypeOK, TurnsOff, TurnsOn, ComesDue
<1>2. UNCHANGED <<item, scanning, stamp, run, told, missed, failed, loose>>
  BY DEF TurnsOff, TurnsOn, ComesDue
<1>3. Stored' = Stored
  BY <1>2 DEF Stored
<1>4. QED
  BY <1>1, <1>2, <1>3, AsideInv DEF IndInv, TypeOK

LEMMA ScanInv == ASSUME IndInv, NEW s \in Sites, Begins(s) \/ Ends(s) PROVE IndInv'
<1>1. /\ UNCHANGED <<pref, item, run, told, missed, failed, loose>>
      /\ Stored' = Stored /\ Building' = Building /\ scanning' \subseteq Sites
  BY DEF Begins, Ends, Stored, Building, IndInv, TypeOK
<1>2. s \in Stamped /\ s \notin Stored
  BY ConstantsAssumption DEF ConstantsAssumption, Stored, Stamped
<1>3. /\ stamp' \in [Stamped -> Stamp] /\ stamp'[s].fresh \subseteq Building
      /\ \A x \in Stamped \ {s} : stamp'[x] = stamp[x]
  <2>1. stamp \in [Stamped -> Stamp]
    BY Types DEF IndInv
  <2>2. Building \subseteq Runners
    BY DEF Building
  <2>3. /\ JustNow \in Stamp /\ [JustNow EXCEPT !.fresh = Building] \in Stamp
        /\ JustNow.fresh = {} /\ [JustNow EXCEPT !.fresh = Building].fresh = Building
    BY <2>2 DEF JustNow, Stamp
  <2>4. QED
    BY <1>2, <2>1, <2>3 DEF Begins, Ends
<1>4. \A l \in Stored : stamp'[l] = stamp[l]
  BY <1>2, <1>3, Types DEF IndInv
<1>5. TypeOK'
  BY <1>1, <1>3 DEF IndInv, TypeOK, Stamped
<1>6. FreshOK'
  BY <1>1, <1>3 DEF IndInv, FreshOK, Stamped
<1>7. (Accounted /\ LoadedOK /\ BuiltOK /\ SentOK)'
  BY <1>1, <1>4 DEF IndInv, Accounted, LoadedOK, BuiltOK, SentOK, Settled
<1>8. LooseOK'
  <2>1. \A l \in told : stamp'[l] = stamp[l]
    BY <1>4, Types DEF IndInv
  <2>2. Unmarked' = Unmarked
    BY <1>1 DEF Unmarked, At
  <2>3. QED
    BY <1>1, <2>1, <2>2 DEF IndInv, LooseOK
<1>9. QED
  BY <1>5, <1>6, <1>7, <1>8 DEF IndInv

\* A listing is dated as its scan: late, or after the time of every digest under way.
LEMMA StoresInv == ASSUME IndInv, NEW l \in Listings, Stores(l) PROVE IndInv'
<1>0. PICK s \in {Shop[l]} \union {page \in Stored : Shop[page] = Shop[l]} :
        /\ stamp' = [stamp EXCEPT ![l] = stamp[s]]
        /\ missed' = IF Late(s) THEN missed \union {l} ELSE missed
  BY DEF Stores
<1>1. /\ UNCHANGED <<pref, scanning, run, told, failed, loose>> /\ Building' = Building
      /\ l \notin Stored /\ Stored' = Stored \union {l}
      /\ item' \in [Listings -> {"none", "sale", "off"}]
      /\ missed \subseteq missed' /\ missed' \subseteq missed \union {l}
      /\ Late(s) => l \in missed'
  <2>1. item \in [Listings -> {"none", "sale", "off"}] /\ item' = [item EXCEPT ![l] = "sale"]
        /\ item[l] = "none"
    BY DEF Stores, IndInv, TypeOK
  <2>2. l \notin Stored /\ Stored' = Stored \union {l} /\ item' \in [Listings -> {"none", "sale", "off"}]
    BY <2>1 DEF Stored
  <2>3. UNCHANGED <<pref, scanning, run, told, failed, loose>> /\ Building' = Building
    BY DEF Stores, Building
  <2>4. QED
    BY <1>0, <2>2, <2>3
<1>2. /\ s \in Stamped /\ l \in Stamped
      /\ stamp' \in [Stamped -> Stamp] /\ stamp'[l] = stamp[s]
      /\ \A x \in Stamped \ {l} : stamp'[x] = stamp[x]
  <2>1. stamp \in [Stamped -> Stamp] /\ s \in Stamped /\ l \in Stamped
    BY Types, ConstantsAssumption DEF IndInv, ConstantsAssumption, Stamped
  <2>2. QED
    BY <1>0, <2>1
<1>3. ~Late(s) => stamp[s].new /\ stamp[s].cut = {} /\ \A r \in Building : r \in stamp[s].fresh
  BY DEF Late
<1>4. told \subseteq Stored /\ l \notin told /\ \A k \in Stored : stamp'[k] = stamp[k]
  BY <1>1, <1>2, Types DEF IndInv
<1>5. TypeOK'
  <2>1. \A r \in Runners : run'[r].found \subseteq IF run'[r].pc \in {"built", "sent"} THEN Stored' ELSE {}
    BY <1>1 DEF IndInv, TypeOK
  <2>2. told' \union missed' \union failed' \subseteq Stored' /\ loose' \subseteq told'
    BY <1>1, Types DEF IndInv
  <2>3. stamp' \in [Listings \union Sites -> Stamp]
    BY <1>2 DEF Stamped
  <2>4. /\ pref' \in [on : BOOLEAN, first : BOOLEAN, next : {"none", "later", "passed"}]
        /\ scanning' \subseteq Sites
        /\ run' \in [Runners -> RunType]
    BY <1>1, Types DEF IndInv, TypeOK
  <2>5. QED
    BY <1>1, <2>1, <2>2, <2>3, <2>4 DEF TypeOK, RunType, PCs
<1>6. FreshOK'
  BY <1>1, <1>2 DEF IndInv, FreshOK
<1>7. Accounted' /\ LoadedOK'
  BY <1>1, <1>2, <1>3, <1>4 DEF IndInv, Accounted, LoadedOK, Settled
<1>8. BuiltOK' /\ SentOK'
  BY <1>1, <1>2, <1>3, <1>4 DEF IndInv, BuiltOK, SentOK, Settled
<1>9. LooseOK'
  <2>1. \A k \in told : stamp'[k] = stamp[k]
    BY <1>4
  <2>2. Unmarked' = Unmarked
    BY <1>1 DEF Unmarked, At
  <2>3. QED
    BY <1>1, <2>1, <2>2 DEF IndInv, LooseOK
<1>10. QED
  BY <1>5, <1>6, <1>7, <1>8, <1>9 DEF IndInv

LEMMA AgesInv == ASSUME IndInv, NEW x \in Stamped, Ages(x) PROVE IndInv'
<1>1. /\ UNCHANGED <<pref, item, scanning, run, told, failed, loose>>
      /\ Stored' = Stored /\ Building' = Building
      /\ missed \subseteq missed' /\ missed' \subseteq Stored
      /\ x \in Stored => x \in told \union missed'
  BY Types DEF Ages, Stored, Building, IndInv
<1>2. /\ stamp' \in [Stamped -> Stamp]
      /\ \A y \in Stamped : stamp'[y].fresh = stamp[y].fresh /\ stamp'[y].cut = stamp[y].cut
      /\ \A y \in Stamped : y # x => stamp'[y].new = stamp[y].new
      /\ stamp'[x].new = FALSE
  <2>1. stamp \in [Stamped -> Stamp] /\ stamp' = [stamp EXCEPT ![x].new = FALSE]
    BY Types DEF IndInv, Ages
  <2>2. QED
    BY <2>1 DEF Stamp
<1>3. Stored \subseteq Stamped /\ told \subseteq Stored /\ \A r \in Runners : run[r].found \subseteq Stored
  BY Types DEF IndInv
<1>4. TypeOK'
  BY <1>1, <1>2 DEF IndInv, TypeOK, Stamped
<1>5. (FreshOK /\ LoadedOK /\ BuiltOK /\ SentOK)'
  BY <1>1, <1>2, <1>3 DEF IndInv, FreshOK, LoadedOK, BuiltOK, SentOK, Settled
<1>6. Accounted'
  BY <1>1, <1>2, <1>3 DEF IndInv, Accounted
<1>7. LooseOK'
  <2>1. Unmarked' = Unmarked
    BY <1>1 DEF Unmarked, At
  <2>2. QED
    BY <1>1, <1>2, <1>3, <2>1 DEF IndInv, LooseOK
<1>8. QED
  BY <1>4, <1>5, <1>6, <1>7 DEF IndInv

LEMMA PicksInv == ASSUME IndInv, NEW r \in Runners, Picks(r) PROVE IndInv'
<1>1. /\ UNCHANGED <<pref, item, scanning, stamp, told, missed, failed, loose>> /\ Stored' = Stored
      /\ run[r].pc = "idle"
  BY DEF Picks, At, Stored
<1>2. /\ run' \in [Runners -> RunType]
      /\ run'[r].pc = "picked" /\ run'[r].found = run[r].found
      /\ \A q \in Runners : q # r => run'[q] = run[q]
  BY Types DEF IndInv, Picks, Goto, PCs, RunType
<1>3. Building' = Building
  BY <1>1, <1>2 DEF Building
<1>4. TypeOK'
  BY <1>1, <1>2 DEF IndInv, TypeOK, PCs, RunType
<1>5. (FreshOK /\ Accounted /\ LoadedOK)'
  BY <1>1, <1>3 DEF IndInv, FreshOK, Accounted, LoadedOK, Settled, Stamped
<1>6. BuiltOK' /\ SentOK'
  BY <1>1, <1>2 DEF IndInv, BuiltOK, SentOK, Settled
<1>7. LooseOK'
  <2>1. \A q \in Runners : /\ run'[q].found = run[q].found
                           /\ run'[q].pc = "sent" <=> run[q].pc = "sent"
                           /\ run'[q].pc = "built" <=> run[q].pc = "built"
    BY <1>1, <1>2
  <2>2. \A l : l \in Unmarked' <=> l \in Unmarked
    BY <2>1, UnmarkedIs DEF Unmarked, At
  <2>3. QED
    BY <1>1, <2>1, <2>2 DEF IndInv, LooseOK
<1>8. QED
  BY <1>4, <1>5, <1>6, <1>7 DEF IndInv

LEMMA LoadsInv == ASSUME IndInv, NEW r \in Runners, Loads(r) PROVE IndInv'
<1>1. /\ UNCHANGED <<pref, item, scanning, told, missed, failed>> /\ Stored' = Stored
      /\ run[r].pc \in {"idle", "picked"}
      /\ loose' = loose \union Unmarked
  BY DEF Loads, At, Stored
<1>2. /\ run' \in [Runners -> RunType]
      /\ run'[r].pc = "loaded" /\ run'[r].found = {} /\ run[r].found = {}
      /\ \A q \in Runners : q # r => run'[q] = run[q]
  <2> DEFINE one == [run[r] EXCEPT !.pc = "loaded"]
  <2>1. run \in [Runners -> RunType] /\ run[r] \in RunType /\ run[r].found = {}
    BY <1>1, Types DEF IndInv
  <2>2. one \in RunType /\ one.pc = "loaded" /\ one.found = {}
    BY <2>1 DEF RunType, PCs
  <2>3. run' = [run EXCEPT ![r] = one]
    BY DEF Loads, Goto
  <2> HIDE DEF one
  <2>4. QED
    BY <2>1, <2>2, <2>3
<1>3. Building' = Building \union {r} /\ r \notin Building
  BY <1>1, <1>2 DEF Building
<1>4. /\ stamp' \in [Stamped -> Stamp]
      /\ \A x \in Stamped : stamp'[x].new = stamp[x].new /\ stamp'[x].cut = stamp[x].cut
      /\ \A x \in Stamped : stamp[x].fresh \subseteq stamp'[x].fresh
      /\ \A x \in Stamped : stamp'[x].fresh \subseteq stamp[x].fresh \union {r}
      /\ \A x \in Stamped : r \in stamp'[x].fresh => r \in stamp[x].fresh \/ stamp[x].new
      /\ \A l \in Stored : stamp[l].new => r \in stamp'[l].fresh
  <2>1. stamp' = [x \in Stamped |->
                    IF x \in Dated /\ stamp[x].new THEN [stamp[x] EXCEPT !.fresh = @ \union {r}]
                    ELSE stamp[x]]
    BY DEF Loads, Stamped
  <2>2. \A x \in Stamped : stamp[x] \in Stamp /\ stamp[x].fresh \union {r} \in SUBSET Runners
    BY Types DEF IndInv, Stamp
  <2>3. Stored \subseteq Stamped /\ Stored \subseteq Dated
    BY Types DEF IndInv, Dated
  <2>4. \A x \in Stamped :
          LET f == [stamp[x] EXCEPT !.fresh = @ \union {r}]
          IN  f \in Stamp /\ f.new = stamp[x].new /\ f.cut = stamp[x].cut
              /\ f.fresh = stamp[x].fresh \union {r}
    BY <2>2 DEF Stamp
  <2>5. QED
    BY <2>1, <2>2, <2>3, <2>4
<1>5. Stored \subseteq Stamped /\ told \subseteq Stored /\ \A q \in Runners : run[q].found \subseteq Stored
  BY Types DEF IndInv
<1>6. TypeOK'
  <2>1. Unmarked \subseteq told
    BY UnmarkedIs DEF IndInv, SentOK
  <2>2. loose' \subseteq told'
    BY <1>1, <2>1, Types DEF IndInv
  <2>3. QED
    BY <1>1, <1>2, <1>4, <2>2 DEF IndInv, TypeOK, PCs, RunType, Stamped
<1>7. FreshOK'
  BY <1>3, <1>4 DEF IndInv, FreshOK
<1>8. Accounted'
  BY <1>1, <1>4, <1>5 DEF IndInv, Accounted
<1>9. LoadedOK'
  BY <1>1, <1>3, <1>4, <1>5 DEF IndInv, LoadedOK, Accounted, Settled
<1>10. BuiltOK' /\ SentOK'
  BY <1>1, <1>2, <1>4, <1>5 DEF IndInv, BuiltOK, SentOK, Settled
<1>11. LooseOK'
  <2>1. \A l : l \in Unmarked' <=> l \in Unmarked
    BY <1>1, <1>2, UnmarkedIs DEF Unmarked, At
  <2>2. \A l \in told : stamp'[l].new => l \in loose' \union Unmarked'
    BY <1>1, <1>4, <1>5, <2>1 DEF IndInv, LooseOK
  <2>3. \A l \in told, q \in Runners : q \in stamp'[l].fresh => l \in loose'
    BY <1>1, <1>4, <1>5 DEF IndInv, LooseOK
  <2>4. \A q \in Runners : run'[q].pc = "built" => run'[q].found \intersect told \subseteq loose'
    BY <1>1, <1>2 DEF IndInv, LooseOK
  <2>5. QED
    BY <1>1, <2>2, <2>3, <2>4 DEF LooseOK
<1>12. QED
  BY <1>6, <1>7, <1>8, <1>9, <1>10, <1>11 DEF IndInv

LEMMA CutsInv == ASSUME IndInv, NEW r \in Runners, Cuts(r) PROVE IndInv'
<1>1. /\ UNCHANGED <<pref, item, scanning, told, missed, failed, loose>> /\ Stored' = Stored
      /\ run[r].pc = "loaded"
  BY DEF Cuts, At, Stored
<1>2. /\ run' \in [Runners -> RunType]
      /\ run'[r].pc = "cut" /\ run'[r].found = run[r].found /\ run[r].found = {}
      /\ \A q \in Runners : q # r => run'[q] = run[q]
  BY <1>1, Types DEF IndInv, Cuts, Goto, PCs, RunType
<1>3. Building' = Building
  BY <1>1, <1>2 DEF Building
<1>4. /\ stamp' \in [Stamped -> Stamp]
      /\ \A x \in Stamped : stamp'[x].new = stamp[x].new /\ stamp'[x].fresh = stamp[x].fresh
      /\ \A x \in Stamped : stamp[x].cut \subseteq stamp'[x].cut
      /\ \A x \in Stamped : stamp'[x].cut \subseteq stamp[x].cut \union {r}
      /\ \A l \in Stored : r \in stamp'[l].cut
  <2>1. stamp' = [x \in Stamped |->
                    IF x \in Dated THEN [stamp[x] EXCEPT !.cut = @ \union {r}] ELSE stamp[x]]
    BY DEF Cuts, Stamped
  <2>2. \A x \in Stamped : stamp[x] \in Stamp /\ stamp[x].cut \union {r} \in SUBSET Runners
    BY Types DEF IndInv, Stamp
  <2>3. Stored \subseteq Stamped /\ Stored \subseteq Dated
    BY Types DEF IndInv, Dated
  <2>4. \A x \in Stamped :
          LET f == [stamp[x] EXCEPT !.cut = @ \union {r}]
          IN  f \in Stamp /\ f.new = stamp[x].new /\ f.fresh = stamp[x].fresh
              /\ f.cut = stamp[x].cut \union {r}
    BY <2>2 DEF Stamp
  <2>5. QED
    BY <2>1, <2>2, <2>3, <2>4
<1>5. Stored \subseteq Stamped /\ told \subseteq Stored /\ \A q \in Runners : run[q].found \subseteq Stored
  BY Types DEF IndInv
<1>6. TypeOK'
  BY <1>1, <1>2, <1>4 DEF IndInv, TypeOK, PCs, RunType, Stamped
<1>7. (FreshOK /\ Accounted /\ LoadedOK)'
  BY <1>1, <1>3, <1>4, <1>5 DEF IndInv, FreshOK, Accounted, LoadedOK, Settled
<1>8. BuiltOK' /\ SentOK'
  BY <1>1, <1>2, <1>4, <1>5 DEF IndInv, BuiltOK, SentOK, Settled
<1>9. LooseOK'
  <2>1. \A l : l \in Unmarked' <=> l \in Unmarked
    BY <1>1, <1>2, UnmarkedIs DEF Unmarked, At
  <2>2. QED
    BY <1>1, <1>2, <1>4, <1>5, <2>1 DEF IndInv, LooseOK
<1>10. QED
  BY <1>6, <1>7, <1>8, <1>9 DEF IndInv

\* What is new is in the digest, or noted as missed.
LEMMA CollectsInv == ASSUME IndInv, NEW r \in Runners, Collects(r) PROVE IndInv'
<1>1. /\ UNCHANGED <<pref, item, scanning, told, failed, loose>> /\ Stored' = Stored
      /\ run[r].pc = "cut"
  BY DEF Collects, At, Stored
<1>2. PICK found \in SUBSET {l \in New(r) : item[l] = "sale"} :
        /\ run' = [run EXCEPT ![r] = [Idle EXCEPT !.pc = "built", !.found = found]]
        /\ missed' = missed \union (New(r) \ (found \union told))
  BY DEF Collects
<1>3. found \subseteq New(r) /\ New(r) \subseteq Stored /\ \A l \in New(r) : r \in stamp[l].fresh
  BY DEF New
<1>4. /\ run' \in [Runners -> RunType]
      /\ run'[r].pc = "built" /\ run'[r].found = found
      /\ \A q \in Runners : q # r => run'[q] = run[q]
  <2> DEFINE one == [Idle EXCEPT !.pc = "built", !.found = found]
  <2>1. found \in SUBSET Listings
    BY <1>3, Types DEF IndInv
  <2>2. one \in RunType /\ one.pc = "built" /\ one.found = found
    BY <2>1 DEF Idle, RunType, PCs
  <2>3. run' = [run EXCEPT ![r] = one]
    BY <1>2
  <2> HIDE DEF one
  <2>4. QED
    BY <2>2, <2>3, Types DEF IndInv
<1>5. Building' = Building \ {r} /\ r \in Building
  BY <1>1, <1>4 DEF Building
<1>6. /\ stamp' \in [Stamped -> Stamp]
      /\ \A x \in Stamped : stamp'[x].new = stamp[x].new /\ stamp'[x].cut = stamp[x].cut
      /\ \A x \in Stamped : stamp'[x].fresh = stamp[x].fresh \ {r}
  <2>1. stamp' = [x \in Stamped |-> [stamp[x] EXCEPT !.fresh = @ \ {r}]]
    BY DEF Collects, Stamped
  <2>2. \A x \in Stamped : stamp[x] \in Stamp
    BY Types DEF IndInv
  <2>3. \A x \in Stamped :
          LET f == [stamp[x] EXCEPT !.fresh = @ \ {r}]
          IN  f \in Stamp /\ f.new = stamp[x].new /\ f.cut = stamp[x].cut
              /\ f.fresh = stamp[x].fresh \ {r}
    BY <2>2 DEF Stamp
  <2>4. QED
    BY <2>1, <2>3
<1>7. /\ Stored \subseteq Stamped /\ told \subseteq Stored /\ missed \subseteq Stored
      /\ \A q \in Runners : run[q].found \subseteq Stored
  BY Types DEF IndInv
<1>8. missed \subseteq missed' /\ missed' \subseteq Stored /\ New(r) \subseteq found \union told \union missed'
  BY <1>2, <1>3, <1>7
<1>9. TypeOK'
  <2>1. \A q \in Runners : run'[q].found \subseteq IF run'[q].pc \in {"built", "sent"} THEN Stored ELSE {}
    BY <1>3, <1>4, <1>7 DEF IndInv, TypeOK
  <2>2. QED
    BY <1>1, <1>4, <1>6, <1>8, <2>1 DEF IndInv, TypeOK, PCs, RunType, Stamped
<1>10. FreshOK'
  BY <1>5, <1>6 DEF IndInv, FreshOK
<1>11. Accounted' /\ LoadedOK'
  BY <1>1, <1>5, <1>6, <1>7, <1>8 DEF IndInv, Accounted, LoadedOK, Settled
<1>12. BuiltOK'
  <2> SUFFICES ASSUME NEW q \in Runners, NEW l \in Stored, run'[q].pc \in {"built", "sent"},
                      q \in stamp'[l].cut
               PROVE  l \in run'[q].found \union told' \union missed'
    BY <1>1 DEF BuiltOK, Settled
  <2>1. CASE q # r
    BY <2>1, <1>1, <1>4, <1>6, <1>7, <1>8 DEF IndInv, BuiltOK, Settled
  <2>2. CASE q = r
    <3>1. r \in stamp[l].fresh \/ l \in told \union missed
      BY <1>5 DEF IndInv, LoadedOK, Settled
    <3>2. r \in stamp[l].fresh => l \in New(r)
      BY DEF New
    <3>3. QED
      BY <2>2, <3>1, <3>2, <1>1, <1>4, <1>8
  <2>3. QED
    BY <2>1, <2>2
<1>13. SentOK'
  BY <1>1, <1>4 DEF IndInv, SentOK
<1>14. LooseOK'
  <2>1. \A l : l \in Unmarked' <=> l \in Unmarked
    BY <1>1, <1>4, UnmarkedIs DEF Unmarked, At
  <2>2. \A l \in told : stamp'[l].new => l \in loose' \union Unmarked'
    BY <1>1, <1>6, <1>7, <2>1 DEF IndInv, LooseOK
  <2>3. \A l \in told, q \in Runners : q \in stamp'[l].fresh => l \in loose'
    BY <1>1, <1>6, <1>7 DEF IndInv, LooseOK
  <2>4. found \intersect told \subseteq loose
    BY <1>3 DEF IndInv, LooseOK
  <2>5. \A q \in Runners : run'[q].pc = "built" => run'[q].found \intersect told \subseteq loose'
    BY <1>1, <1>4, <2>4 DEF IndInv, LooseOK
  <2>6. QED
    BY <1>1, <2>2, <2>3, <2>5 DEF LooseOK
<1>15. QED
  BY <1>9, <1>10, <1>11, <1>12, <1>13, <1>14 DEF IndInv

\* A digest that comes to an end without a mark.
LEMMA LeavesInv ==
    ASSUME IndInv, NEW r \in Runners, Done(r),
           stamp' = [x \in Stamped |-> Forgotten(stamp[x], r)],
           UNCHANGED <<item, scanning, told, missed>>,
           pref' \in [on : BOOLEAN, first : BOOLEAN, next : {"none", "later", "passed"}],
           failed' \subseteq Stored,
           loose' = IF run[r].pc = "sent" THEN loose \union run[r].found ELSE loose
    PROVE  IndInv'
<1>1. Stored' = Stored
  BY DEF Stored
<1>2. /\ run' \in [Runners -> RunType]
      /\ run'[r].pc = "idle" /\ run'[r].found = {}
      /\ \A q \in Runners : q # r => run'[q] = run[q]
  BY Types DEF IndInv, Done, Idle, PCs, RunType
<1>3. Building' = Building \ {r}
  BY <1>2 DEF Building
<1>4. /\ stamp' \in [Stamped -> Stamp]
      /\ \A x \in Stamped : stamp'[x].new = stamp[x].new /\ stamp'[x].cut = stamp[x].cut \ {r}
      /\ \A x \in Stamped : stamp'[x].fresh = stamp[x].fresh \ {r}
  <2>1. \A x \in Stamped : stamp[x] \in Stamp
    BY Types DEF IndInv
  <2>2. \A x \in Stamped : /\ Forgotten(stamp[x], r) \in Stamp
                           /\ Forgotten(stamp[x], r).new = stamp[x].new
                           /\ Forgotten(stamp[x], r).fresh = stamp[x].fresh \ {r}
                           /\ Forgotten(stamp[x], r).cut = stamp[x].cut \ {r}
    BY <2>1 DEF Stamp, Forgotten
  <2>3. QED
    BY <2>2
<1>5. Stored \subseteq Stamped /\ told \subseteq Stored /\ \A q \in Runners : run[q].found \subseteq Stored
  BY Types DEF IndInv
<1>6. TypeOK'
  <2>1. loose' \subseteq told'
    BY Types DEF IndInv, SentOK
  <2>2. QED
    BY <1>1, <1>2, <1>4, <2>1 DEF IndInv, TypeOK, PCs, RunType, Stamped
<1>7. FreshOK' /\ Accounted' /\ LoadedOK'
  BY <1>1, <1>3, <1>4, <1>5 DEF IndInv, FreshOK, Accounted, LoadedOK, Settled
<1>8. BuiltOK' /\ SentOK'
  BY <1>1, <1>2, <1>4, <1>5 DEF IndInv, BuiltOK, SentOK, Settled
<1>9. LooseOK'
  <2>1. loose \subseteq loose' /\ \A l \in Unmarked : l \in Unmarked' \/ l \in loose'
    <3>1. \A l \in Unmarked : l \in loose' \/ \E q \in Runners : run'[q].pc = "sent" /\ l \in run'[q].found
      BY <1>2, UnmarkedIs
    <3>2. QED
      BY <3>1 DEF Unmarked, At
  <2>2. \A l \in told : stamp'[l].new => l \in loose' \union Unmarked'
    BY <1>4, <1>5, <2>1 DEF IndInv, LooseOK
  <2>3. \A l \in told, q \in Runners : q \in stamp'[l].fresh => l \in loose'
    BY <1>4, <1>5, <2>1 DEF IndInv, LooseOK
  <2>4. \A q \in Runners : run'[q].pc = "built" => run'[q].found \intersect told \subseteq loose'
    BY <1>2, <2>1 DEF IndInv, LooseOK
  <2>5. QED
    BY <2>2, <2>3, <2>4 DEF LooseOK
<1>10. QED
  BY <1>6, <1>7, <1>8, <1>9 DEF IndInv

LEMMA FailsInv == ASSUME IndInv, NEW r \in Runners, Skips(r) \/ SendFails(r) \/ Dies(r) PROVE IndInv'
<1>1. /\ Done(r) /\ stamp' = [x \in Stamped |-> Forgotten(stamp[x], r)]
      /\ UNCHANGED <<item, scanning, told, missed>>
      /\ loose' = IF run[r].pc = "sent" THEN loose \union run[r].found ELSE loose
  BY DEF Skips, SendFails, Dies, Stamped, At
<1>2. pref' \in [on : BOOLEAN, first : BOOLEAN, next : {"none", "later", "passed"}]
  BY DEF Skips, SendFails, Dies, IndInv, TypeOK
<1>3. failed' \subseteq Stored
  <2>1. failed \subseteq Stored /\ run[r].found \subseteq Stored
    BY Types DEF IndInv
  <2>2. QED
    BY <2>1 DEF Skips, SendFails, Dies
<1>4. QED
  BY <1>1, <1>2, <1>3, LeavesInv

LEMMA SendsInv == ASSUME IndInv, NEW r \in Runners, Sends(r) PROVE IndInv'
<1>1. /\ UNCHANGED <<pref, item, scanning, stamp>> /\ Stored' = Stored
      /\ run[r].pc = "built"
      /\ told' = told \union run[r].found /\ missed' = missed \ run[r].found
      /\ failed' = failed \ run[r].found
      /\ loose' = loose \union (run[r].found \intersect UNION {InHand(q) : q \in Runners \ {r}})
  BY DEF Sends, At, Stored
<1>2. /\ run' \in [Runners -> RunType]
      /\ run'[r].pc = "sent" /\ run'[r].found = run[r].found
      /\ \A q \in Runners : q # r => run'[q] = run[q]
  <2> DEFINE one == [run[r] EXCEPT !.pc = "sent"]
  <2>1. run \in [Runners -> RunType] /\ run[r] \in RunType
    BY Types DEF IndInv
  <2>2. one \in RunType /\ one.pc = "sent" /\ one.found = run[r].found
    BY <2>1 DEF RunType, PCs
  <2>3. run' = [run EXCEPT ![r] = one]
    BY DEF Sends, Goto
  <2> HIDE DEF one
  <2>4. QED
    BY <2>1, <2>2, <2>3
<1>3. Building' = Building
  BY <1>1, <1>2 DEF Building
<1>4. /\ Stored \subseteq Stamped /\ told \subseteq Stored /\ missed \subseteq Stored /\ failed \subseteq Stored
      /\ \A q \in Runners : run[q].found \subseteq Stored
  BY Types DEF IndInv
<1>5. told \subseteq told' /\ Settled \subseteq Settled'
  BY <1>1 DEF Settled
<1>6. TypeOK'
  <2>1. loose' \subseteq told'
    BY <1>1, Types DEF IndInv
  <2>2. QED
    BY <1>1, <1>2, <1>4, <2>1 DEF IndInv, TypeOK, PCs, RunType
<1>7. FreshOK' /\ Accounted' /\ LoadedOK'
  BY <1>1, <1>3, <1>5 DEF IndInv, FreshOK, Accounted, LoadedOK, Settled, Stamped
<1>8. BuiltOK' /\ SentOK'
  BY <1>1, <1>2, <1>5 DEF IndInv, BuiltOK, SentOK
<1>9. LooseOK'
  <2>1. \A l \in Unmarked \union run[r].found :
          \E q \in Runners : run'[q].pc = "sent" /\ l \in run'[q].found
    BY <1>1, <1>2, UnmarkedIs
  <2>2. Unmarked \union run[r].found \subseteq Unmarked' /\ loose \subseteq loose'
    BY <1>1, <2>1 DEF Unmarked, At
  <2>3. \A l \in told' : stamp'[l].new => l \in loose' \union Unmarked'
    BY <1>1, <2>2 DEF IndInv, LooseOK
  <2>4. \A l \in told', q \in Runners : q \in stamp'[l].fresh => l \in loose'
    <3> SUFFICES ASSUME NEW l \in told', NEW q \in Runners, q \in stamp[l].fresh PROVE l \in loose'
      BY <1>1
    <3>1. CASE l \in told
      BY <3>1, <2>2 DEF IndInv, LooseOK
    <3>2. CASE l \in run[r].found
      <4>1. l \in Stored /\ l \in Stamped
        BY <3>2, <1>4
      <4>2. q # r
        BY <1>1, <4>1 DEF IndInv, FreshOK, Building
      <4>3. QED
        BY <1>1, <3>2, <4>1, <4>2, InHandIs
    <3>3. QED
      BY <1>1, <3>1, <3>2
  <2>5. \A q \in Runners : run'[q].pc = "built" => run'[q].found \intersect told' \subseteq loose'
    <3> SUFFICES ASSUME NEW q \in Runners, run'[q].pc = "built", NEW l \in run'[q].found, l \in told'
                 PROVE  l \in loose'
      OBVIOUS
    <3>1. q # r /\ run'[q] = run[q]
      BY <1>2
    <3>2. CASE l \in told
      BY <3>1, <3>2, <2>2 DEF IndInv, LooseOK
    <3>3. CASE l \in run[r].found
      BY <1>1, <3>1, <3>3, InHandIs
    <3>4. QED
      BY <1>1, <3>2, <3>3
  <2>6. QED
    BY <2>3, <2>4, <2>5 DEF LooseOK
<1>10. QED
  BY <1>6, <1>7, <1>8, <1>9 DEF IndInv

\* The mark: what its cutoff has passed was in the mail, or is settled.
LEMMA MarksInv == ASSUME IndInv, NEW r \in Runners, Marks(r) PROVE IndInv'
<1>1. /\ UNCHANGED <<item, scanning, told, missed>> /\ Stored' = Stored /\ failed' = {}
      /\ run[r].pc = "sent"
      /\ loose' = {l \in told : r \notin stamp[l].cut}
                  \union (loose \intersect UNION {InHand(q) : q \in Runners \ {r}})
  BY DEF Marks, At, Stored
<1>2. /\ run' \in [Runners -> RunType]
      /\ run'[r].pc = "idle" /\ run'[r].found = {}
      /\ \A q \in Runners : q # r => run'[q] = run[q]
  BY Types DEF IndInv, Marks, Done, Idle, PCs, RunType
<1>3. Building' = Building /\ r \notin Building
  BY <1>1, <1>2 DEF Building
<1>4. /\ stamp' \in [Stamped -> Stamp]
      /\ \A x \in Stamped : stamp'[x].new = (r \notin stamp[x].cut) /\ stamp'[x].cut = stamp[x].cut \ {r}
      /\ \A x \in Stamped : stamp'[x].fresh = stamp[x].fresh \ {r}
  <2>1. stamp' = [x \in Stamped |-> [Forgotten(stamp[x], r) EXCEPT !.new = x \notin Passed(r)]]
    BY DEF Marks, Stamped
  <2>2. \A x \in Stamped : stamp[x] \in Stamp /\ (x \in Passed(r) <=> r \in stamp[x].cut)
    BY Types DEF IndInv, Passed, Stamped
  <2>3. \A x \in Stamped : /\ Forgotten(stamp[x], r) \in Stamp
                           /\ Forgotten(stamp[x], r).fresh = stamp[x].fresh \ {r}
                           /\ Forgotten(stamp[x], r).cut = stamp[x].cut \ {r}
    BY <2>2 DEF Stamp, Forgotten
  <2> DEFINE f(x) == [Forgotten(stamp[x], r) EXCEPT !.new = x \notin Passed(r)]
  <2>4. \A x \in Stamped : /\ f(x) \in Stamp /\ f(x).new = (r \notin stamp[x].cut)
                           /\ f(x).fresh = stamp[x].fresh \ {r} /\ f(x).cut = stamp[x].cut \ {r}
    BY <2>2, <2>3 DEF Stamp
  <2>5. stamp' = [x \in Stamped |-> f(x)]
    BY <2>1
  <2> HIDE DEF f
  <2>6. \A x \in Stamped : stamp'[x] = f(x)
    BY <2>5
  <2>7. QED
    BY <2>4, <2>5, <2>6
<1>5. /\ Stored \subseteq Stamped /\ told \subseteq Stored
      /\ \A q \in Runners : run[q].found \subseteq Stored
  BY Types DEF IndInv
<1>6. TypeOK'
  <2>1. pref' \in [on : BOOLEAN, first : BOOLEAN, next : {"none", "later", "passed"}]
    BY DEF Marks, IndInv, TypeOK
  <2>2. loose' \subseteq told'
    BY <1>1, Types DEF IndInv
  <2>3. QED
    BY <1>1, <1>2, <1>4, <2>1, <2>2 DEF IndInv, TypeOK, PCs, RunType, Stamped
<1>7. FreshOK' /\ LoadedOK'
  BY <1>1, <1>3, <1>4, <1>5 DEF IndInv, FreshOK, LoadedOK, Settled
<1>8. Accounted'
  <2> SUFFICES ASSUME NEW l \in Stored, ~stamp'[l].new PROVE l \in told' \union missed'
    BY <1>1 DEF Accounted
  <2>1. r \in stamp[l].cut
    BY <1>4, <1>5
  <2>2. l \in run[r].found \union told \union missed /\ run[r].found \subseteq told
    BY <1>1, <2>1 DEF IndInv, BuiltOK, SentOK, Settled
  <2>3. QED
    BY <1>1, <2>2
<1>9. BuiltOK' /\ SentOK'
  BY <1>1, <1>2, <1>4, <1>5 DEF IndInv, BuiltOK, SentOK, Settled
<1>10. LooseOK'
  <2>1. \A l \in told : stamp'[l].new => l \in loose'
    BY <1>1, <1>4, <1>5
  <2>2. \A l \in told, q \in Runners : q \in stamp'[l].fresh => l \in loose'
    <3> SUFFICES ASSUME NEW l \in told, NEW q \in Runners, q \in stamp'[l].fresh PROVE l \in loose'
      OBVIOUS
    <3>1. l \in Stored /\ q # r /\ q \in stamp[l].fresh
      BY <1>4, <1>5
    <3>2. l \in loose
      BY <3>1 DEF IndInv, LooseOK
    <3>3. QED
      BY <1>1, <3>1, <3>2, InHandIs
  <2>3. \A q \in Runners : run'[q].pc = "built" => run'[q].found \intersect told \subseteq loose'
    <3> SUFFICES ASSUME NEW q \in Runners, run'[q].pc = "built", NEW l \in run'[q].found, l \in told
                 PROVE  l \in loose'
      OBVIOUS
    <3>1. q # r /\ run'[q] = run[q]
      BY <1>2
    <3>2. l \in loose
      BY <3>1 DEF IndInv, LooseOK
    <3>3. QED
      BY <1>1, <3>1, <3>2, InHandIs
  <2>4. QED
    BY <1>1, <2>1, <2>2, <2>3 DEF LooseOK
<1>11. QED
  BY <1>6, <1>7, <1>8, <1>9, <1>10 DEF IndInv

LEMMA NextInv == ASSUME IndInv, [Next]_vars PROVE IndInv'
<1>1. CASE Next
  <2>1. ASSUME NEW s \in Sites, Begins(s) \/ Ends(s) PROVE IndInv'
    BY <2>1, ScanInv
  <2>2. ASSUME NEW l \in Listings, Stores(l) \/ Goes(l) \/ Returns(l) PROVE IndInv'
    BY <2>2, StoresInv, ItemInv
  <2>3. ASSUME NEW x \in Stamped, Ages(x) PROVE IndInv'
    BY <2>3, AgesInv
  <2>4. ASSUME NEW r \in Runners, Digests(r) \/ Dies(r) PROVE IndInv'
    BY <2>4, PicksInv, LoadsInv, CutsInv, CollectsInv, FailsInv, SendsInv, MarksInv DEF Digests
  <2>5. QED
    BY <1>1, <2>1, <2>2, <2>3, <2>4, PrefInv DEF Next, Scan, Stamped
<1>2. CASE UNCHANGED vars
  <2>1. Stored' = Stored
    BY <1>2 DEF vars, Stored
  <2>2. UNCHANGED <<pref, item, scanning, stamp, run, told, missed, failed, loose>>
    BY <1>2 DEF vars
  <2>3. QED
    BY <2>1, <2>2, AsideInv DEF IndInv, TypeOK
<1>3. QED
  BY <1>1, <1>2

(***************************************************************************)
(* The theorems.                                                           *)
(***************************************************************************)
\* The inductive invariant holds, whatever overlaps, fails or stops (digest.send_digest_for_user).
THEOREM Invariant == Spec => []IndInv
<1>1. Init => IndInv
  BY InitInv
<1>2. IndInv /\ [Next]_vars => IndInv'
  BY NextInv
<1>3. QED
  BY <1>1, <1>2, PTL DEF Spec

\* The rows, the stamps and what is known of them are of their types (models.EmailPreference).
THEOREM TypeCorrect == Spec => []TypeOK
<1>1. IndInv => TypeOK
  BY DEF IndInv
<1>2. QED
  BY <1>1, Invariant, PTL

\* What the watermark has passed was mailed, or is one that a digest may leave out
\* (digest.build_digest).
THEOREM NothingLost == Spec => []Accounted
<1>1. IndInv => Accounted
  BY DEF IndInv
<1>2. QED
  BY <1>1, Invariant, PTL

\* A listing is mailed as new a second time only if a digest that had mailed it stopped before its
\* mark, if it was stored after the cutoff of the digest that found it, or if two digests had it in
\* hand (digest.send_digest_for_user).
THEOREM Once == Spec => []NothingTwice
<1>1. IndInv => NothingTwice
  BY DEF IndInv, LooseOK, NothingTwice, At
<1>2. QED
  BY <1>1, Invariant, PTL

(***************************************************************************)
(* What a failed first digest loses.                                       *)
(***************************************************************************)
\* Until there is a watermark everything is new, and nothing failed is kept on record after it.
FirstOK ==
    /\ pref.first => \A x \in Stamped : stamp[x].new
    /\ ~pref.first => failed = {}

LEMMA FirstStep ==
    ASSUME IndInv, FirstOK, [Next]_vars, [\A x \in Stamped : ~Ages(x)]_vars
    PROVE  FirstOK'
<1>1. TypeOK /\ stamp \in [Stamped -> Stamp] /\ pref \in [on : BOOLEAN, first : BOOLEAN, next : {"none", "later", "passed"}]
  BY Types DEF IndInv, TypeOK
<1>2. ASSUME pref'.first = pref.first, failed' \subseteq failed,
             \A x \in Stamped : stamp[x].new => stamp'[x].new
      PROVE  FirstOK'
  BY <1>2 DEF FirstOK
<1>3. JustNow.new = TRUE /\ JustNow \in Stamp
  BY DEF JustNow, Stamp
<1>4. ASSUME NEW s \in Sites, Begins(s) \/ Ends(s) PROVE FirstOK'
  <2>1. pref' = pref /\ failed' = failed
    BY <1>4 DEF Begins, Ends
  <2>2. \E st \in {JustNow, [JustNow EXCEPT !.fresh = Building]} : stamp' = [stamp EXCEPT ![s] = st]
    BY <1>4 DEF Begins, Ends
  <2>3. \A st \in {JustNow, [JustNow EXCEPT !.fresh = Building]} : st.new = TRUE
    BY <1>3 DEF Stamp
  <2>4. \A x \in Stamped : stamp[x].new => stamp'[x].new
    BY <1>1, <2>2, <2>3
  <2>5. QED
    BY <1>2, <2>1, <2>4
<1>5. ASSUME NEW l \in Listings, Stores(l) PROVE FirstOK'
  <2>1. PICK s \in {Shop[l]} \union {page \in Stored : Shop[page] = Shop[l]} :
          stamp' = [stamp EXCEPT ![l] = stamp[s]]
    BY <1>5 DEF Stores
  <2>2. pref' = pref /\ failed' = failed
    BY <1>5 DEF Stores
  <2>3. s \in Stamped /\ l \in Stamped
    BY ConstantsAssumption DEF ConstantsAssumption, Stamped, Stored
  <2>4. pref.first => \A x \in Stamped : stamp'[x].new
    BY <1>1, <2>1, <2>3 DEF FirstOK
  <2>5. QED
    BY <2>2, <2>4 DEF FirstOK
<1>6. ASSUME NEW l \in Listings, Goes(l) \/ Returns(l) PROVE FirstOK'
  BY <1>2, <1>6 DEF Goes, Returns
<1>7. ASSUME TurnsOff \/ TurnsOn \/ ComesDue PROVE FirstOK'
  <2>1. failed' = failed /\ stamp' = stamp
    BY <1>7 DEF TurnsOff, TurnsOn, ComesDue
  <2>2. pref'.first = pref.first
    BY <1>1, <1>7 DEF TurnsOff, TurnsOn, ComesDue
  <2>3. QED
    BY <1>2, <2>1, <2>2
<1>8. ASSUME NEW r \in Runners, Picks(r) PROVE FirstOK'
  BY <1>2, <1>8 DEF Picks
<1>9. ASSUME NEW r \in Runners, Loads(r) \/ Cuts(r) \/ Collects(r) PROVE FirstOK'
  <2>1. pref' = pref /\ failed' = failed
    BY <1>9 DEF Loads, Cuts, Collects
  <2>2. \A x \in Stamped : stamp'[x].new = stamp[x].new
    <3>1. \A x \in Stamped : /\ [stamp[x] EXCEPT !.fresh = @ \union {r}].new = stamp[x].new
                             /\ [stamp[x] EXCEPT !.cut = @ \union {r}].new = stamp[x].new
                             /\ [stamp[x] EXCEPT !.fresh = @ \ {r}].new = stamp[x].new
      BY <1>1 DEF Stamp
    <3>2. CASE Loads(r)
      <4>1. stamp' = [x \in Stamped |->
                        IF x \in Dated /\ stamp[x].new THEN [stamp[x] EXCEPT !.fresh = @ \union {r}]
                        ELSE stamp[x]]
        BY <3>2 DEF Loads, Stamped
      <4>2. QED
        BY <3>1, <4>1
    <3>3. CASE Cuts(r)
      <4>1. stamp' = [x \in Stamped |->
                        IF x \in Dated THEN [stamp[x] EXCEPT !.cut = @ \union {r}] ELSE stamp[x]]
        BY <3>3 DEF Cuts, Stamped
      <4>2. QED
        BY <3>1, <4>1
    <3>4. CASE Collects(r)
      <4>1. stamp' = [x \in Stamped |-> [stamp[x] EXCEPT !.fresh = @ \ {r}]]
        BY <3>4 DEF Collects, Stamped
      <4>2. QED
        BY <3>1, <4>1
    <3>5. QED
      BY <1>9, <3>2, <3>3, <3>4
  <2>3. QED
    BY <1>2, <2>1, <2>2
<1>10. \A r \in Runners, x \in Stamped : Forgotten(stamp[x], r).new = stamp[x].new
  BY <1>1 DEF Forgotten, Stamp
<1>11. ASSUME NEW r \in Runners, Skips(r) \/ SendFails(r) \/ Dies(r) PROVE FirstOK'
  <2>1. stamp' = [x \in Stamped |-> Forgotten(stamp[x], r)]
    BY <1>11 DEF Skips, SendFails, Dies, Stamped
  <2>2. pref'.first = pref.first
    BY <1>1, <1>11 DEF Skips, SendFails, Dies
  <2>3. failed' = failed \/ pref.first
    BY <1>11 DEF Skips, SendFails, Dies
  <2>4. \A x \in Stamped : stamp'[x].new = stamp[x].new
    BY <1>10, <2>1
  <2>5. QED
    BY <2>2, <2>3, <2>4 DEF FirstOK
<1>12. ASSUME NEW r \in Runners, Sends(r) PROVE FirstOK'
  BY <1>2, <1>12 DEF Sends
<1>13. ASSUME NEW r \in Runners, Marks(r) PROVE FirstOK'
  <2>1. failed' = {} /\ pref'.first = FALSE
    BY <1>1, <1>13 DEF Marks
  <2>2. QED
    BY <2>1 DEF FirstOK
<1>14. CASE UNCHANGED vars
  BY <1>2, <1>14 DEF vars
<1>15. CASE \E x \in Stamped : Ages(x)
  BY <1>14, <1>15
<1>16. QED
  BY <1>4, <1>5, <1>6, <1>7, <1>8, <1>9, <1>11, <1>12, <1>13, <1>14, <1>15
     DEF Next, Scan, Digests, Stamped

\* A first digest that could not be delivered loses nothing that is younger than the interval it
\* looked back: while no listing grows older than that, however many digests fail, all of it is
\* still new (digest.send_digest_for_user). The run "lost" is what happens once one does.
THEOREM OnlyTheInterval ==
    Spec /\ [][\A x \in Stamped : ~Ages(x)]_vars => []FailureLosesNothing
<1>1. Init => FirstOK
  BY DEF Init, FirstOK, JustNow, Stamped
<1>2. IndInv /\ FirstOK /\ [Next]_vars /\ [\A x \in Stamped : ~Ages(x)]_vars => FirstOK'
  BY FirstStep
<1>3. IndInv /\ FirstOK => FailureLosesNothing
  BY DEF IndInv, TypeOK, FirstOK, FailureLosesNothing, Stored, Stamped
<1>4. QED
  BY <1>1, <1>2, <1>3, Invariant, PTL DEF Spec
=============================================================================
