--------------------------- MODULE PhotoQueueProofs ---------------------------
(***************************************************************************)
(* What the drains of the photo queue and the housekeeping beside them may  *)
(* do, proved for any photographs, listings, drains and hosts.              *)
(***************************************************************************)
EXTENDS PhotoQueue, TLAPS

(***************************************************************************)
(* The inductive invariant: what a drain loaded was heard, and every file   *)
(* in hand is one that housekeeping knows of or has torn.                  *)
(***************************************************************************)
DrainOK(s, answers) ==
    /\ \A p \in s.left : s.loaded[p] <= answers[p]
    /\ s.pc = "record" =>
         /\ s.at \in Photo
         /\ s.loaded[s.at] <= answers[s.at]
         /\ s.answer = "permanent" => s.loaded[s.at] + 1 <= answers[s.at]

DrainsOK == \A d \in Drain : DrainOK(drains[d], heard)

NewRowsOK == \A p \in Photo : rows[p].state = "none" => rows[p].attempts = 0

Stored(p) == rows[p].state = "stored"

HandOK ==
    /\ cleaner.pc # "idle" => InHand \subseteq handed
    /\ InHand \subseteq disk \union torn

\* Whatever housekeeping may unlink of a row that stays was handed in meanwhile.
CleanerOK ==
    \A p \in Photo : Stored(p) =>
        /\ cleaner.pc = "prune" => UrlOf[p] \in cleaner.files \union handed
        /\ cleaner.pc = "delete" /\ ItemOf[p] \notin cleaner.items
             => UrlOf[p] \notin cleaner.files \/ UrlOf[p] \in handed

IndInv ==
    /\ TypeOK
    /\ DrainsOK /\ NewRowsOK /\ GiveUpIsEarned
    /\ HandOK /\ CleanerOK /\ RowHasItsFile

(***************************************************************************)
(* The constants and the records.                                          *)
(***************************************************************************)
LEMMA PhotoType ==
    ASSUME NEW p \in Photo
    PROVE  UrlOf[p] \in Url /\ ItemOf[p] \in Item /\ p # NoPhoto /\ p \in Nat
  BY ConstantsAssumption DEF ConstantsAssumption

LEMMA MaxType == MaxAttempts \in Nat \ {0} /\ MaxPresses \in Nat /\ 0 \in 0..MaxPresses
  BY ConstantsAssumption DEF ConstantsAssumption

LEMMA IdleType ==
    /\ IdleDrain \in DrainState /\ IdleDrain.left = {} /\ IdleDrain.pc = "idle"
    /\ [IdleDrain EXCEPT !.pc = "begin"] \in DrainState
    /\ [IdleDrain EXCEPT !.pc = "begin"].left = {}
    /\ [IdleDrain EXCEPT !.pc = "begin"].pc = "begin"
  BY MaxType DEF IdleDrain, DrainState, Answers

LEMMA IdleCleanerType == IdleCleaner \in Cleaner /\ IdleCleaner.pc = "idle"
  BY DEF IdleCleaner, Cleaner

LEMMA FetchingType ==
    ASSUME NEW left \in SUBSET Photo, NEW loaded \in [Photo -> Nat]
    PROVE  /\ Fetching(left, loaded) \in DrainState
           /\ Fetching(left, loaded).pc = "next"
           /\ Fetching(left, loaded).left = left /\ Fetching(left, loaded).loaded = loaded
  BY DEF Fetching, DrainState, Answers

LEMMA DrainType ==
    ASSUME TypeOK, NEW d \in Drain
    PROVE  /\ drains[d] \in DrainState
           /\ drains[d].left \subseteq Photo
           /\ drains[d].loaded \in [Photo -> Nat]
           /\ drains[d].at \in Photo \union {NoPhoto}
           /\ drains[d].answer \in Answers
  BY DEF TypeOK, DrainState

LEMMA RowType ==
    ASSUME TypeOK, NEW p \in Photo
    PROVE  /\ rows[p] \in Row /\ rows[p].attempts \in Nat
           /\ heard[p] \in Nat
  BY MaxType DEF TypeOK, Row

\* What Recorded makes of a row.
LEMMA RecordedRow ==
    ASSUME TypeOK, NEW p \in Photo, NEW n \in Nat, NEW a \in Answers
    PROVE  /\ Recorded(p, n, a) \in Row
           /\ Recorded(p, n, a).state =
                CASE a = "stored" -> "stored" [] a = "discard" -> "gone" [] OTHER -> rows[p].state
           /\ a = "permanent" => Recorded(p, n, a).attempts = n + 1
           /\ a = "passing" => Recorded(p, n, a).attempts = rows[p].attempts
<1> DEFINE next == n + 1
<1>1. next \in Nat
  BY MaxType
<1>2. rows[p] \in Row
  BY RowType
<1>3. Recorded(p, n, a) =
        CASE a = "stored"    -> [state |-> "stored", attempts |-> next]
          [] a = "permanent" -> [rows[p] EXCEPT !.attempts = next]
          [] a = "passing"   -> rows[p]
          [] a = "discard"   -> [rows[p] EXCEPT !.state = "gone"]
  BY DEF Recorded
<1> HIDE DEF next
<1>4. CASE a = "stored"
  BY <1>1, <1>3, <1>4 DEF Row
<1>5. CASE a = "permanent"
  <2>1. Recorded(p, n, a) = [rows[p] EXCEPT !.attempts = next]
    BY <1>3, <1>5
  <2>2. QED
    BY <1>1, <1>2, <1>5, <2>1 DEF Row, next
<1>6. CASE a = "passing"
  BY <1>2, <1>3, <1>6
<1>7. CASE a = "discard"
  <2>1. Recorded(p, n, a) = [rows[p] EXCEPT !.state = "gone"]
    BY <1>3, <1>7
  <2>2. QED
    BY <1>2, <1>7, <2>1 DEF Row
<1>8. QED
  BY <1>4, <1>5, <1>6, <1>7 DEF Answers

(***************************************************************************)
(* A drain moves to another stage.                                         *)
(***************************************************************************)
Moves(d, s) == s \in DrainState /\ drains' = [drains EXCEPT ![d] = s]

LEMMA MovedDrains ==
    ASSUME TypeOK, NEW d \in Drain, NEW s, Moves(d, s)
    PROVE  /\ drains' \in [Drain -> DrainState]
           /\ drains'[d] = s
           /\ \A e \in Drain \ {d} : drains'[e] = drains[e]
  BY DEF TypeOK, Moves

\* What is heard later only adds to what was heard.
LEMMA DrainsKept ==
    ASSUME TypeOK, DrainsOK, NEW d \in Drain, NEW s, Moves(d, s), DrainOK(s, heard'),
           \A p \in Photo : heard'[p] \in Nat /\ heard[p] <= heard'[p]
    PROVE  DrainsOK'
<1> SUFFICES ASSUME NEW e \in Drain
             PROVE  DrainOK(drains'[e], heard')
  BY DEF DrainsOK
<1>1. CASE e = d
  BY <1>1, MovedDrains
<1>2. CASE e # d
  <2>1. drains'[e] = drains[e] /\ DrainOK(drains[e], heard)
    BY <1>2, MovedDrains DEF DrainsOK
  <2>2. \A p \in Photo : /\ heard[p] \in Nat /\ drains[e].loaded[p] \in Nat
                         /\ drains[e].loaded[p] <= heard[p] => drains[e].loaded[p] <= heard'[p]
                         /\ drains[e].loaded[p] + 1 <= heard[p]
                              => drains[e].loaded[p] + 1 <= heard'[p]
    <3> TAKE p \in Photo
    <3>1. heard[p] \in Nat /\ drains[e].loaded[p] \in Nat
      BY DrainType, RowType
    <3>2. heard'[p] \in Nat /\ heard[p] <= heard'[p]
      OBVIOUS
    <3> QED
      BY <3>1, <3>2, MaxType
  <2>3. drains[e].left \subseteq Photo
    BY DrainType
  <2>4. QED
    BY <2>1, <2>2, <2>3 DEF DrainOK
<1>3. QED
  BY <1>1, <1>2

\* A drain that ends, or waits for its batch.
LEMMA NothingLeft ==
    ASSUME NEW s, s.left = {}, s.pc # "record"
    PROVE  \A h : DrainOK(s, h)
  BY DEF DrainOK

\* A drain that is not at a stored file drops what it had in hand.
LEMMA HandDropped ==
    ASSUME TypeOK, NEW d \in Drain, NEW s, Moves(d, s), s.pc # "record" \/ s.answer # "stored"
    PROVE  InHand' \subseteq InHand
  BY MovedDrains DEF InHand

\* Housekeeping is not disturbed by a step that stores and hands in nothing.
LEMMA FilesKept ==
    ASSUME HandOK, CleanerOK, RowHasItsFile, UNCHANGED <<disk, cleaner, handed, torn>>,
           InHand' \subseteq InHand, \A p \in Photo : Stored(p)' => Stored(p)
    PROVE  HandOK' /\ CleanerOK' /\ RowHasItsFile'
<1>1. HandOK'
  BY DEF HandOK
<1>2. CleanerOK'
  BY DEF CleanerOK, Stored
<1>3. RowHasItsFile'
  BY DEF RowHasItsFile, Stored
<1>4. QED
  BY <1>1, <1>2, <1>3

\* The counts are not disturbed by a step that leaves rows, and what was heard, alone.
LEMMA CountsKept ==
    ASSUME NewRowsOK, GiveUpIsEarned, UNCHANGED <<rows, heard>>
    PROVE  NewRowsOK' /\ GiveUpIsEarned'
  BY DEF NewRowsOK, GiveUpIsEarned

\* A drain's step that touches nothing else but, perhaps, what rests.
LEMMA DrainOnly ==
    ASSUME IndInv, NEW d \in Drain, NEW s, Moves(d, s), DrainOK(s, heard'), s.pc # "record",
           UNCHANGED <<rows, disk, cleaner, presses, heard, handed, torn>>,
           resting' \subseteq Host, claimed' \in BOOLEAN
    PROVE  IndInv'
<1>1. TypeOK'
  BY MovedDrains DEF IndInv, TypeOK
<1>2. DrainsOK'
  <2>1. \A p \in Photo : heard'[p] \in Nat /\ heard[p] <= heard'[p]
    BY RowType DEF IndInv
  <2>2. QED
    BY <2>1, DrainsKept DEF IndInv
<1>3. NewRowsOK' /\ GiveUpIsEarned'
  BY CountsKept DEF IndInv
<1>4. HandOK' /\ CleanerOK' /\ RowHasItsFile'
  <2>1. InHand' \subseteq InHand
    BY HandDropped DEF IndInv
  <2>2. QED
    BY <2>1, FilesKept DEF IndInv, Stored
<1>5. QED
  BY <1>1, <1>2, <1>3, <1>4 DEF IndInv

LEMMA IdlesInv ==
    ASSUME IndInv, NEW d \in Drain, Idles(d),
           UNCHANGED <<rows, disk, cleaner, presses, heard, handed, torn>>,
           resting' \subseteq Host
    PROVE  IndInv'
<1>1. Moves(d, IdleDrain) /\ DrainOK(IdleDrain, heard') /\ IdleDrain.pc # "record"
  BY IdleType, NothingLeft DEF Moves, Idles
<1>2. claimed' \in BOOLEAN
  BY DEF Idles, IndInv, TypeOK
<1>3. QED
  BY <1>1, <1>2, DrainOnly

\* A step that leaves the drains and what was heard alone.
LEMMA DrainsAlone ==
    ASSUME DrainsOK, UNCHANGED <<drains, heard>>
    PROVE  DrainsOK' /\ InHand' = InHand
  BY DEF DrainsOK, DrainOK, InHand

(***************************************************************************)
(* The queue and its drains, step by step.                                 *)
(***************************************************************************)
LEMMA InitInv == Init => IndInv
<1> SUFFICES ASSUME Init PROVE IndInv
  OBVIOUS
<1>1. TypeOK
  <2>1. [state |-> "none", attempts |-> 0] \in Row
    BY MaxType DEF Row
  <2>2. [p \in Photo |-> 0] \in [Photo -> Nat] /\ 0 \in 0..MaxPresses
    BY MaxType
  <2>3. QED
    BY <2>1, <2>2, IdleType, IdleCleanerType DEF Init, TypeOK
<1>2. DrainsOK /\ InHand = {}
  BY IdleType, NothingLeft DEF Init, DrainsOK, InHand
<1>3. NewRowsOK /\ GiveUpIsEarned
  BY DEF Init, NewRowsOK, GiveUpIsEarned
<1>4. HandOK /\ CleanerOK /\ RowHasItsFile
  BY <1>2, IdleCleanerType DEF Init, HandOK, CleanerOK, RowHasItsFile, Stored
<1>5. QED
  BY <1>1, <1>2, <1>3, <1>4 DEF IndInv

\* A row is added or taken down.
LEMMA RowMoved ==
    ASSUME IndInv, NEW p \in Photo, NEW s \in {"queued", "gone"},
           rows[p].state = "none" \/ s = "gone",
           rows' = [rows EXCEPT ![p].state = s],
           UNCHANGED <<disk, resting, drains, claimed, cleaner, presses, heard, handed, torn>>
    PROVE  IndInv'
<1>1. rows' \in [Photo -> Row]
  <2> DEFINE next == [rows[p] EXCEPT !.state = s]
  <2>1. next \in Row
    BY DEF IndInv, TypeOK, Row
  <2>2. rows' = [rows EXCEPT ![p] = next]
    OBVIOUS
  <2> HIDE DEF next
  <2>3. QED
    BY <2>1, <2>2 DEF IndInv, TypeOK
<1>2. /\ rows'[p].state = s /\ rows'[p].attempts = rows[p].attempts
      /\ \A q \in Photo \ {p} : rows'[q] = rows[q]
  BY DEF IndInv, TypeOK, Row
<1>3. TypeOK'
  BY <1>1 DEF IndInv, TypeOK
<1>4. DrainsOK' /\ InHand' = InHand
  BY DrainsAlone DEF IndInv
<1>5. NewRowsOK'
  BY <1>2 DEF IndInv, NewRowsOK
<1>6. GiveUpIsEarned'
  <2> SUFFICES ASSUME NEW q \in Photo, rows'[q].state = "queued"
               PROVE  rows'[q].attempts <= heard[q]
    BY DEF GiveUpIsEarned
  <2>1. CASE q = p
    <3>1. rows[p].attempts = 0 /\ heard[p] \in Nat
      BY <1>2, <2>1, RowType DEF IndInv, NewRowsOK
    <3>2. QED
      BY <1>2, <2>1, <3>1, MaxType
  <2>2. CASE q # p
    BY <1>2, <2>2 DEF IndInv, GiveUpIsEarned
  <2>3. QED
    BY <2>1, <2>2
<1>7. HandOK' /\ CleanerOK' /\ RowHasItsFile'
  BY <1>2, <1>4, FilesKept DEF IndInv, Stored
<1>8. QED
  BY <1>3, <1>4, <1>5, <1>6, <1>7 DEF IndInv

LEMMA PressInv == ASSUME IndInv, NEW d \in Drain, Press(d) PROVE IndInv'
<1> DEFINE s == [IdleDrain EXCEPT !.pc = "begin"]
<1>1. Moves(d, s) /\ DrainOK(s, heard') /\ s.pc # "record"
  BY IdleType, NothingLeft DEF Press, Moves
<1> HIDE DEF s
<1>2. \A q \in Photo : /\ rows'[q].state = rows[q].state
                       /\ rows'[q] \in Row
                       /\ rows[q].state = "queued" => rows'[q].attempts = 0
                       /\ rows[q].state # "queued" => rows'[q] = rows[q]
  <2> TAKE q \in Photo
  <2>1. rows[q] \in Row 
    BY RowType, MaxType DEF IndInv
  <2>2. Retried(rows[q]) \in Row /\ Retried(rows[q]).state = rows[q].state
       /\ Retried(rows[q]).attempts = 0
    BY <2>1 DEF Row, Retried
  <2>3. rows'[q] = IF rows[q].state = "queued" THEN Retried(rows[q]) ELSE rows[q]
    BY DEF Press
  <2>4. QED
    BY <2>1, <2>2, <2>3
<1>3. rows' \in [Photo -> Row]
  BY <1>2 DEF Press
<1>4. presses' \in 0..MaxPresses
  BY MaxType DEF Press, IndInv, TypeOK
<1>5. TypeOK'
  BY <1>1, <1>3, <1>4, MovedDrains DEF Press, IndInv, TypeOK
<1>6. DrainsOK'
  <2>1. \A p \in Photo : heard'[p] \in Nat /\ heard[p] <= heard'[p]
    BY RowType DEF IndInv, Press
  <2>2. QED
    BY <1>1, <2>1, DrainsKept DEF IndInv
<1>7. NewRowsOK'
  BY <1>2 DEF IndInv, NewRowsOK
<1>8. GiveUpIsEarned'
  <2> SUFFICES ASSUME NEW q \in Photo, rows'[q].state = "queued"
               PROVE  rows'[q].attempts <= heard'[q]
    BY DEF GiveUpIsEarned
  <2>1. rows'[q].attempts = 0 /\ heard'[q] \in Nat
    BY <1>2, RowType DEF IndInv, Press
  <2>2. QED
    BY <2>1, MaxType
<1>9. HandOK' /\ CleanerOK' /\ RowHasItsFile'
  <2>1. InHand' \subseteq InHand
    BY <1>1, HandDropped DEF IndInv
  <2>2. QED
    BY <1>2, <2>1, FilesKept DEF IndInv, Press, Stored
<1>10. QED
  BY <1>5, <1>6, <1>7, <1>8, <1>9 DEF IndInv

LEMMA LoadedType ==
    ASSUME IndInv, NEW d \in Drain, NEW p \in Photo
    PROVE  Loaded(d, p) \in Nat /\ (Live(p) => Loaded(d, p) <= heard[p])
<1>1. CASE p \in drains[d].left
  BY <1>1, DrainType DEF Loaded, IndInv, DrainsOK, DrainOK
<1>2. CASE p \notin drains[d].left
  BY <1>2, RowType DEF Loaded, Live, IndInv, GiveUpIsEarned
<1>3. QED
  BY <1>1, <1>2

LEMMA HoldsInv == ASSUME IndInv, NEW d \in Drain, NEW i \in Item, Holds(d, i) PROVE IndInv'
<1> DEFINE held == {p \in Of({i}) : rows[p].state = "queued"}
           loaded == [p \in Photo |-> IF p \in held THEN rows[p].attempts ELSE 0]
           s == [IdleDrain EXCEPT !.pc = "begin", !.left = held, !.loaded = loaded]
<1>1. held \in SUBSET Photo
  BY DEF Of
<1>2. loaded \in [Photo -> Nat]
  BY RowType DEF IndInv
<1>3. \A p \in held : loaded[p] <= heard[p]
  BY <1>1 DEF IndInv, GiveUpIsEarned
<1>4. drains' = [drains EXCEPT ![d] = s]
  BY DEF Holds
<1> HIDE DEF held, loaded
<1>5. s \in DrainState /\ s.pc = "begin" /\ s.left = held /\ s.loaded = loaded
  BY <1>1, <1>2 DEF IdleDrain, DrainState, Answers
<1> HIDE DEF s
<1>6. Moves(d, s)
  BY <1>4, <1>5 DEF Moves
<1>7. UNCHANGED <<rows, disk, resting, claimed, cleaner, presses, heard, handed, torn>>
  BY DEF Holds
<1>8. DrainOK(s, heard')
  BY <1>3, <1>5, <1>7 DEF DrainOK
<1>9. QED
  BY <1>5, <1>6, <1>7, <1>8, DrainOnly DEF IndInv, TypeOK

LEMMA TakeInv == ASSUME IndInv, NEW d \in Drain, Take(d) PROVE IndInv'
<1> DEFINE loaded == [p \in Photo |-> IF p \in Batch THEN Loaded(d, p) ELSE 0]
           s == Fetching(Batch, loaded)
<1>1. loaded \in [Photo -> Nat]
  BY LoadedType
<1>2. Batch \subseteq Photo /\ \A p \in Batch : Live(p)
  BY DEF Batch
<1>3. s \in DrainState /\ s.pc = "next" /\ s.left = Batch /\ s.loaded = loaded
  BY <1>1, <1>2, FetchingType
<1>4. DrainOK(s, heard')
  <2>1. \A p \in Batch : loaded[p] <= heard[p]
    BY <1>2, LoadedType
  <2> HIDE DEF s, loaded
  <2>2. QED
    BY <1>3, <2>1 DEF DrainOK, Take
<1>5. Moves(d, s)
  BY <1>3 DEF Take, Moves
<1> HIDE DEF s
<1>6. QED
  BY <1>3, <1>4, <1>5, DrainOnly DEF Take, IndInv, TypeOK

LEMMA LeaveInv ==
    ASSUME IndInv, NEW d \in Drain,
           TakeNothing(d) \/ Leave(d) \/ RecordNothing(d) \/ Interrupted(d)
             \/ \E p \in Photo : Refused(d, p)
    PROVE  IndInv'
<1>1. /\ Idles(d)
      /\ UNCHANGED <<rows, disk, cleaner, presses, heard, handed, torn>>
  BY DEF TakeNothing, Leave, RecordNothing, Interrupted, Refused
<1>2. resting' \subseteq Host
  <2>1. \A p \in Photo : HostOf[UrlOf[p]] \in Host
    BY PhotoType, ConstantsAssumption DEF ConstantsAssumption
  <2>2. QED
    BY <2>1 DEF IndInv, TypeOK, TakeNothing, Leave, RecordNothing, Interrupted, Refused
<1>3. QED
  BY <1>1, <1>2, IdlesInv

LEMMA AnsweredInv ==
    ASSUME IndInv, NEW d \in Drain, NEW p \in Photo, NEW a \in Answers, Answered(d, p, a)
    PROVE  IndInv'
<1> DEFINE s == [pc |-> "record", left |-> drains[d].left \ {p},
                 loaded |-> drains[d].loaded, at |-> p, answer |-> a]
<1>1. /\ s \in DrainState /\ s.pc = "record" /\ s.left = drains[d].left \ {p}
      /\ s.loaded = drains[d].loaded /\ s.at = p /\ s.answer = a
  BY DrainType DEF IndInv, DrainState
<1>2. Moves(d, s)
  BY <1>1 DEF Answered, Moves
<1> HIDE DEF s
<1>3. /\ heard' \in [Photo -> Nat]
      /\ \A q \in Photo : heard'[q] \in Nat /\ heard[q] <= heard'[q]
      /\ a = "permanent" => heard'[p] = heard[p] + 1
  <2> DEFINE next == heard[p] + 1
  <2>1. heard \in [Photo -> Nat] /\ \A q \in Photo : heard[q] \in Nat
    BY RowType DEF IndInv, TypeOK
  <2>2. CASE a = "permanent"
    <3>1. heard' = [heard EXCEPT ![p] = next]
      BY <2>2 DEF Answered
    <3>2. next \in Nat /\ heard[p] <= next
      BY <2>1
    <3>3. next = heard[p] + 1
      OBVIOUS
    <3> HIDE DEF next
    <3>4. QED
      BY <2>1, <3>1, <3>2, <3>3
  <2>3. CASE a # "permanent"
    <3>1. heard' = heard
      BY <2>3 DEF Answered
    <3>2. QED
      BY <2>1, <2>3, <3>1
  <2>4. QED
    BY <2>2, <2>3
<1>4. DrainOK(s, heard')
  <2>1. p \in drains[d].left /\ DrainOK(drains[d], heard)
    BY DEF Answered, Asks, First, IndInv, DrainsOK
  <2>2. \A q \in drains[d].left : /\ drains[d].loaded[q] \in Nat
                                  /\ drains[d].loaded[q] <= heard[q]
                                  /\ heard[q] \in Nat /\ heard'[q] \in Nat /\ heard[q] <= heard'[q]
    BY <1>3, <2>1, DrainType, RowType, MaxType DEF IndInv, DrainOK
  <2>3. \A q \in drains[d].left : drains[d].loaded[q] <= heard'[q]
    BY <2>2
  <2>4. a = "permanent" => drains[d].loaded[p] + 1 <= heard'[p]
    BY <1>3, <2>1, <2>2, MaxType
  <2>5. QED
    BY <1>1, <2>1, <2>2, <2>3, <2>4 DEF DrainOK
<1>5. DrainsOK'
  BY <1>2, <1>3, <1>4, DrainsKept DEF IndInv
<1>6. NewRowsOK'
  BY DEF Answered, IndInv, NewRowsOK
<1>7. GiveUpIsEarned'
  <2> SUFFICES ASSUME NEW q \in Photo, rows[q].state = "queued"
               PROVE  rows[q].attempts <= heard'[q]
    BY DEF GiveUpIsEarned, Answered
  <2>1. rows[q].attempts \in Nat /\ heard[q] \in Nat /\ rows[q].attempts <= heard[q]
    BY RowType, MaxType DEF IndInv, GiveUpIsEarned
  <2>2. heard'[q] \in Nat /\ heard[q] <= heard'[q]
    BY <1>3
  <2>3. QED
    BY <2>1, <2>2
<1>8. TypeOK'
  <2>1. disk' \subseteq Url /\ handed' \subseteq Url
    BY PhotoType DEF Answered, IndInv, TypeOK
  <2>2. drains' \in [Drain -> DrainState]
    BY <1>2, MovedDrains DEF IndInv
  <2>3. UNCHANGED <<rows, resting, claimed, cleaner, presses, torn>>
    BY DEF Answered
  <2>4. QED
    BY <1>3, <2>1, <2>2, <2>3 DEF IndInv, TypeOK
<1>9. CASE a # "stored"
  <2>1. UNCHANGED <<disk, cleaner, handed, torn, rows>> /\ InHand' \subseteq InHand
    BY <1>1, <1>2, <1>9, HandDropped DEF Answered, IndInv
  <2>2. HandOK' /\ CleanerOK' /\ RowHasItsFile'
    BY <2>1, FilesKept DEF IndInv, Stored
  <2>3. QED
    BY <1>5, <1>6, <1>7, <1>8, <2>2 DEF IndInv
<1>10. CASE a = "stored"
  <2>1. /\ disk' = disk \union {UrlOf[p]}
        /\ handed' = IF cleaner.pc # "idle" THEN handed \union {UrlOf[p]} ELSE handed
        /\ UNCHANGED <<rows, cleaner, torn>>
    BY <1>10 DEF Answered
  <2>2. InHand' \subseteq InHand \union {UrlOf[p]}
    BY <1>1, <1>2, MovedDrains DEF InHand, IndInv
  <2>3. HandOK'
    BY <2>1, <2>2 DEF IndInv, HandOK
  <2>4. CleanerOK'
    BY <2>1 DEF IndInv, CleanerOK, Stored
  <2>5. RowHasItsFile'
    BY <2>1 DEF IndInv, RowHasItsFile
  <2>6. QED
    BY <1>5, <1>6, <1>7, <1>8, <2>3, <2>4, <2>5 DEF IndInv
<1>11. QED
  BY <1>9, <1>10

LEMMA RecordInv == ASSUME IndInv, NEW d \in Drain, Record(d) PROVE IndInv'
<1> DEFINE p == drains[d].at
           a == drains[d].answer
           n == drains[d].loaded[p]
           loaded == [drains[d].loaded EXCEPT ![p] = 0]
           s == Fetching(drains[d].left, loaded)
           row == Recorded(p, n, a)
<1>1. /\ p \in Photo /\ a \in Answers /\ n \in Nat
      /\ n <= heard[p] /\ (a = "permanent" => n + 1 <= heard[p])
      /\ drains[d].pc = "record"
  BY DrainType DEF Record, IndInv, DrainsOK, DrainOK
<1>2. loaded \in [Photo -> Nat]
  BY DrainType, MaxType DEF IndInv
<1>3. s \in DrainState /\ s.pc = "next" /\ s.left = drains[d].left /\ s.loaded = loaded
  BY <1>2, DrainType, FetchingType DEF IndInv
<1>4. Moves(d, s)
  BY <1>3 DEF Record, Moves
<1>5. rows' = [rows EXCEPT ![p] = row] /\ (Exists(p) \/ a = "discard")
  BY DEF Record
<1>6. /\ row \in Row
      /\ row.state = CASE a = "stored" -> "stored" [] a = "discard" -> "gone" [] OTHER -> rows[p].state
      /\ a = "permanent" => row.attempts = n + 1
      /\ a = "passing" => row.attempts = rows[p].attempts
  BY <1>1, RecordedRow DEF IndInv
<1>7. DrainOK(s, heard')
  <2>1. \A q \in drains[d].left : /\ drains[d].loaded[q] <= heard[q]
                                  /\ q \in Photo /\ heard[q] \in Nat
    BY DrainType, RowType DEF IndInv, DrainsOK, DrainOK
  <2>2. \A q \in drains[d].left : loaded[q] <= heard[q]
    BY <1>1, <2>1, MaxType, DrainType DEF IndInv
  <2> HIDE DEF s, loaded
  <2>3. QED
    BY <1>3, <2>2 DEF DrainOK, Record
<1> HIDE DEF s, loaded, row, n
<1>8. /\ rows' \in [Photo -> Row] /\ rows'[p] = row
      /\ \A q \in Photo \ {p} : rows'[q] = rows[q]
  BY <1>1, <1>5, <1>6 DEF IndInv, TypeOK
<1>9. UNCHANGED <<disk, resting, claimed, cleaner, presses, heard, handed, torn>>
  BY DEF Record
<1>10. TypeOK'
  BY <1>4, <1>8, <1>9, MovedDrains DEF IndInv, TypeOK
<1>11. DrainsOK'
  <2>1. \A q \in Photo : heard'[q] \in Nat /\ heard[q] <= heard'[q]
    <3> TAKE q \in Photo
    <3>1. heard[q] \in Nat /\ heard' = heard
      BY <1>9, RowType DEF IndInv
    <3>2. QED
      BY <3>1
  <2>2. QED
    BY <1>4, <1>7, <2>1, DrainsKept DEF IndInv
<1>12. row.state = "none" => FALSE
  <2>1. rows[p].state # "none" \/ a = "discard"
    BY <1>5 DEF Exists
  <2>2. QED
    BY <1>6, <2>1
<1>13. NewRowsOK'
  BY <1>8, <1>12 DEF IndInv, NewRowsOK
<1>14. GiveUpIsEarned'
  <2> SUFFICES ASSUME NEW q \in Photo, rows'[q].state = "queued"
               PROVE  rows'[q].attempts <= heard[q]
    BY <1>9 DEF GiveUpIsEarned
  <2>1. CASE q # p
    BY <1>8, <2>1 DEF IndInv, GiveUpIsEarned
  <2>2. CASE q = p
    <3>1. a \in {"permanent", "passing"} /\ rows[p].state = "queued"
      BY <1>1, <1>6, <1>8, <2>2 DEF Answers
    <3>2. CASE a = "permanent"
      BY <1>1, <1>6, <1>8, <2>2, <3>2
    <3>3. CASE a = "passing"
      BY <1>6, <1>8, <2>2, <3>1, <3>3 DEF IndInv, GiveUpIsEarned
    <3>4. QED
      BY <3>1, <3>2, <3>3
  <2>3. QED
    BY <2>1, <2>2
<1>15. InHand' \subseteq InHand
  BY <1>3, <1>4, HandDropped DEF IndInv
<1>16. \A q \in Photo : Stored(q)' => Stored(q) \/ (q = p /\ a = "stored")
  BY <1>6, <1>8 DEF Stored
<1>17. a = "stored" => UrlOf[p] \in InHand
  BY <1>1 DEF InHand
<1>18. a = "stored" => /\ UrlOf[p] \in disk \union torn
                       /\ cleaner.pc # "idle" => UrlOf[p] \in handed
  BY <1>17 DEF IndInv, HandOK
<1> HIDE DEF p, a
<1>19. HandOK'
  BY <1>9, <1>15 DEF IndInv, HandOK
<1>20. CleanerOK'
  BY <1>9, <1>16, <1>18 DEF IndInv, CleanerOK, Stored
<1>21. RowHasItsFile'
  BY <1>9, <1>16, <1>18 DEF IndInv, RowHasItsFile, Stored
<1>22. QED
  BY <1>10, <1>11, <1>13, <1>14, <1>19, <1>20, <1>21 DEF IndInv

LEMMA RestEndsInv == ASSUME IndInv, NEW h \in Host, RestEnds(h) PROVE IndInv'
<1>1. TypeOK'
  BY DEF RestEnds, IndInv, TypeOK
<1>2. DrainsOK' /\ InHand' = InHand
  BY DrainsAlone DEF RestEnds, IndInv
<1>3. NewRowsOK' /\ GiveUpIsEarned'
  BY CountsKept DEF RestEnds, IndInv
<1>4. HandOK' /\ CleanerOK' /\ RowHasItsFile'
  BY <1>2, FilesKept DEF RestEnds, IndInv, Stored
<1>5. QED
  BY <1>1, <1>2, <1>3, <1>4 DEF IndInv

(***************************************************************************)
(* Housekeeping.                                                           *)
(***************************************************************************)
LEMMA InHandType == ASSUME IndInv PROVE InHand \subseteq Url
<1>1. \A d \in Drain : drains[d].pc = "record" => UrlOf[drains[d].at] \in Url
  BY PhotoType DEF IndInv, DrainsOK, DrainOK
<1>2. QED
  BY <1>1 DEF InHand

\* A step of housekeeping leaves the drains and what they count alone.
LEMMA CountsAlone ==
    ASSUME IndInv, UNCHANGED <<rows, drains, heard>>
    PROVE  DrainsOK' /\ NewRowsOK' /\ GiveUpIsEarned' /\ InHand' = InHand
  BY DrainsAlone, CountsKept DEF IndInv

LEMMA PruneLooksInv == ASSUME IndInv, PruneLooks PROVE IndInv'
<1> DEFINE new == [pc |-> "prune", files |-> Referenced(Photo), items |-> {}]
<1>1. new \in Cleaner /\ new.pc = "prune" /\ new.files = Referenced(Photo)
  BY PhotoType DEF Cleaner, Referenced
<1>2. cleaner' = new /\ handed' = InHand /\ UNCHANGED <<rows, disk, torn>>
  BY DEF PruneLooks
<1> HIDE DEF new
<1>3. TypeOK'
  BY <1>1, <1>2, InHandType DEF PruneLooks, IndInv, TypeOK
<1>4. DrainsOK' /\ NewRowsOK' /\ GiveUpIsEarned' /\ InHand' = InHand
  BY CountsAlone DEF PruneLooks
<1>5. HandOK'
  BY <1>2, <1>4 DEF IndInv, HandOK
<1>6. CleanerOK'
  BY <1>1, <1>2 DEF CleanerOK, Referenced, Stored
<1>7. RowHasItsFile'
  BY <1>1, <1>2 DEF PruneLooks, IndInv, RowHasItsFile
<1>8. QED
  BY <1>3, <1>4, <1>5, <1>6, <1>7 DEF IndInv

LEMMA PruneUnlinksInv == ASSUME IndInv, NEW u \in Url, PruneUnlinks(u) PROVE IndInv'
<1>1. /\ cleaner.pc = "prune" /\ u \notin cleaner.files
      /\ disk' = disk \ {u} /\ torn' = torn \union ({u} \intersect handed)
      /\ UNCHANGED <<rows, cleaner, handed>>
  BY DEF PruneUnlinks
<1>2. TypeOK'
  BY DEF PruneUnlinks, IndInv, TypeOK
<1>3. DrainsOK' /\ NewRowsOK' /\ GiveUpIsEarned' /\ InHand' = InHand
  BY CountsAlone DEF PruneUnlinks
<1>4. HandOK'
  BY <1>1, <1>3 DEF IndInv, HandOK
<1>5. CleanerOK'
  BY <1>1 DEF IndInv, CleanerOK, Stored
<1>6. RowHasItsFile'
  <2> SUFFICES ASSUME NEW p \in Photo, Stored(p)
               PROVE  UrlOf[p] \in disk' \union torn'
    BY <1>1 DEF RowHasItsFile, Stored
  <2>1. UrlOf[p] \in disk \union torn
    BY <1>1 DEF IndInv, RowHasItsFile, Stored
  <2>2. UrlOf[p] = u => u \in handed
    BY <1>1 DEF IndInv, CleanerOK
  <2>3. QED
    BY <1>1, <2>1, <2>2
<1>7. QED
  BY <1>2, <1>3, <1>4, <1>5, <1>6 DEF IndInv

LEMMA PruneEndsInv == ASSUME IndInv, PruneEnds PROVE IndInv'
<1>1. /\ cleaner' = IdleCleaner /\ handed' = {} /\ UNCHANGED <<rows, disk, torn>>
      /\ cleaner.pc = "prune"
  BY DEF PruneEnds, CleanerIdles
<1>2. TypeOK'
  BY IdleCleanerType DEF PruneEnds, CleanerIdles, IndInv, TypeOK
<1>3. DrainsOK' /\ NewRowsOK' /\ GiveUpIsEarned' /\ InHand' = InHand
  BY CountsAlone DEF PruneEnds
<1>4. HandOK'
  BY <1>1, <1>3, IdleCleanerType DEF IndInv, HandOK
<1>5. CleanerOK'
  BY <1>1, IdleCleanerType DEF CleanerOK
<1>6. RowHasItsFile'
  BY <1>1 DEF IndInv, RowHasItsFile
<1>7. QED
  BY <1>2, <1>3, <1>4, <1>5, <1>6 DEF IndInv

LEMMA DeleteLooksInv == ASSUME IndInv, NEW i \in Item, DeleteLooks(i) PROVE IndInv'
<1> DEFINE files == Referenced(Of({i})) \ Referenced(Photo \ Of({i}))
           new == [pc |-> "delete", items |-> {i}, files |-> files]
<1>1. files \subseteq Url
  BY PhotoType DEF Referenced, Of
<1>2. \A p \in Photo : Stored(p) /\ ItemOf[p] # i => UrlOf[p] \notin files
  BY DEF Referenced, Of, Stored
<1>3. cleaner' = new /\ handed' = InHand /\ UNCHANGED <<rows, disk, torn>> /\ cleaner.pc = "idle"
  BY DEF DeleteLooks
<1> HIDE DEF files
<1>4. new \in Cleaner /\ new.pc = "delete" /\ new.files = files /\ new.items = {i}
  BY <1>1 DEF Cleaner
<1> HIDE DEF new
<1>5. TypeOK'
  BY <1>3, <1>4, InHandType DEF DeleteLooks, IndInv, TypeOK
<1>6. DrainsOK' /\ NewRowsOK' /\ GiveUpIsEarned' /\ InHand' = InHand
  BY CountsAlone DEF DeleteLooks
<1>7. HandOK'
  BY <1>3, <1>6 DEF IndInv, HandOK
<1>8. CleanerOK'
  BY <1>2, <1>3, <1>4 DEF CleanerOK, Stored
<1>9. RowHasItsFile'
  BY <1>3, <1>4 DEF IndInv, RowHasItsFile
<1>10. QED
  BY <1>5, <1>6, <1>7, <1>8, <1>9 DEF IndInv

LEMMA DeleteUnlinksInv == ASSUME IndInv, DeleteUnlinks PROVE IndInv'
<1>1. /\ cleaner.pc = "delete" /\ disk' = disk \ cleaner.files
      /\ torn' = torn \union (cleaner.files \intersect handed)
      /\ cleaner' = [cleaner EXCEPT !.pc = "unlinked"]
      /\ UNCHANGED <<rows, handed>>
  BY DEF DeleteUnlinks
<1>2. /\ cleaner' \in Cleaner /\ cleaner'.pc = "unlinked" /\ cleaner.files \subseteq Url
      /\ cleaner'.files = cleaner.files /\ cleaner'.items = cleaner.items
  BY <1>1 DEF IndInv, TypeOK, Cleaner
<1>3. TypeOK'
  BY <1>1, <1>2 DEF DeleteUnlinks, IndInv, TypeOK
<1>4. DrainsOK' /\ NewRowsOK' /\ GiveUpIsEarned' /\ InHand' = InHand
  BY CountsAlone DEF DeleteUnlinks
<1>5. HandOK'
  BY <1>1, <1>2, <1>4 DEF IndInv, HandOK
<1>6. CleanerOK'
  BY <1>2 DEF CleanerOK
<1>7. RowHasItsFile'
  <2> SUFFICES ASSUME NEW p \in Photo, Stored(p),
                      ~(UrlOf[p] \in cleaner.files /\ ItemOf[p] \in cleaner.items)
               PROVE  UrlOf[p] \in disk' \union torn'
    BY <1>1, <1>2 DEF RowHasItsFile, Stored
  <2>1. UrlOf[p] \in disk \union torn
    BY <1>1 DEF IndInv, RowHasItsFile, Stored
  <2>2. UrlOf[p] \in cleaner.files => UrlOf[p] \in handed
    BY <1>1 DEF IndInv, CleanerOK
  <2>3. QED
    BY <1>1, <2>1, <2>2
<1>8. QED
  BY <1>3, <1>4, <1>5, <1>6, <1>7 DEF IndInv

LEMMA DeleteCommitsInv == ASSUME IndInv, DeleteCommits PROVE IndInv'
<1> DEFINE going(p) == p \in Of(cleaner.items) /\ Exists(p)
<1>1. /\ cleaner.pc = "unlinked" /\ cleaner' = IdleCleaner /\ handed' = {}
      /\ rows' = [p \in Photo |-> IF going(p) THEN [rows[p] EXCEPT !.state = "gone"] ELSE rows[p]]
      /\ UNCHANGED <<disk, torn, drains, heard>>
  BY DEF DeleteCommits, CleanerIdles
<1>2. \A p \in Photo : /\ rows'[p] \in Row
                       /\ going(p) => rows'[p].state = "gone"
                       /\ ~going(p) => rows'[p] = rows[p]
  <2> TAKE p \in Photo
  <2>1. rows[p] \in Row
    BY RowType DEF IndInv
  <2>2. rows'[p] = IF going(p) THEN [rows[p] EXCEPT !.state = "gone"] ELSE rows[p]
    BY <1>1
  <2> HIDE DEF going
  <2>3. QED
    BY <2>1, <2>2 DEF Row
<1>3. rows' \in [Photo -> Row]
  BY <1>1, <1>2
<1>4. \A p \in Photo : Stored(p)' => Stored(p) /\ ItemOf[p] \notin cleaner.items
  BY <1>2 DEF Stored, Exists, Of
<1>5. TypeOK'
  BY <1>3, IdleCleanerType DEF DeleteCommits, CleanerIdles, IndInv, TypeOK
<1>6. DrainsOK' /\ InHand' = InHand
  BY <1>1, DrainsAlone DEF IndInv
<1>7. NewRowsOK'
  BY <1>2 DEF IndInv, NewRowsOK
<1>8. GiveUpIsEarned'
  BY <1>1, <1>2 DEF IndInv, GiveUpIsEarned
<1>9. HandOK'
  BY <1>1, <1>6, IdleCleanerType DEF IndInv, HandOK
<1>10. CleanerOK'
  BY <1>1, IdleCleanerType DEF CleanerOK
<1>11. RowHasItsFile'
  BY <1>1, <1>4 DEF IndInv, RowHasItsFile, Stored
<1>12. QED
  BY <1>5, <1>6, <1>7, <1>8, <1>9, <1>10, <1>11 DEF IndInv

LEMMA DeleteFailsInv == ASSUME IndInv, DeleteFails PROVE IndInv'
<1>1. /\ cleaner' = IdleCleaner /\ handed' = {} /\ UNCHANGED <<rows, disk>>
      /\ torn' = torn \union cleaner.files /\ cleaner.files \subseteq Url
  BY DEF DeleteFails, CleanerIdles, IndInv, TypeOK, Cleaner
<1>2. TypeOK'
  BY <1>1, IdleCleanerType DEF DeleteFails, IndInv, TypeOK
<1>3. DrainsOK' /\ NewRowsOK' /\ GiveUpIsEarned' /\ InHand' = InHand
  BY CountsAlone DEF DeleteFails
<1>4. HandOK'
  BY <1>1, <1>3, IdleCleanerType DEF IndInv, HandOK
<1>5. CleanerOK'
  BY <1>1, IdleCleanerType DEF CleanerOK
<1>6. RowHasItsFile'
  BY <1>1 DEF IndInv, RowHasItsFile
<1>7. QED
  BY <1>2, <1>3, <1>4, <1>5, <1>6 DEF IndInv

(***************************************************************************)
(* The theorems.                                                           *)
(***************************************************************************)
LEMMA NextInv == ASSUME IndInv, [Next]_vars PROVE IndInv'
<1>1. CASE \E d \in Drain : DrainSteps(d)
  <2>1. PICK d \in Drain : DrainSteps(d)
    BY <1>1
  <2>2. CASE Press(d) \/ (\E i \in Item : Holds(d, i)) \/ Take(d) \/ Record(d)
    BY <2>2, PressInv, HoldsInv, TakeInv, RecordInv
  <2>3. CASE \E p \in Photo : \E a \in Answers : Answered(d, p, a)
    BY <2>3, AnsweredInv
  <2>4. CASE TakeNothing(d) \/ Leave(d) \/ RecordNothing(d) \/ Interrupted(d)
               \/ \E p \in Photo : Refused(d, p)
    BY <2>4, LeaveInv
  <2>5. QED
    BY <2>1, <2>2, <2>3, <2>4 DEF DrainSteps
<1>2. CASE \E p \in Photo : Queue(p) \/ TakeDown(p)
  <2>1. PICK p \in Photo : Queue(p) \/ TakeDown(p)
    BY <1>2
  <2>2. QED
    BY <2>1, RowMoved DEF Queue, TakeDown
<1>3. CASE \E h \in Host : RestEnds(h)
  BY <1>3, RestEndsInv
<1>4. CASE Cleans
  BY <1>4, PruneLooksInv, PruneUnlinksInv, PruneEndsInv, DeleteLooksInv, DeleteUnlinksInv,
     DeleteCommitsInv, DeleteFailsInv DEF Cleans
<1>5. CASE UNCHANGED vars
  BY <1>5 DEF vars, IndInv, TypeOK, DrainsOK, NewRowsOK, GiveUpIsEarned, HandOK, InHand,
              CleanerOK, Stored, RowHasItsFile
<1>6. QED
  BY <1>1, <1>2, <1>3, <1>4, <1>5 DEF Next

\* The inductive invariant of the queue and its housekeeping.
THEOREM Invariant == Spec => []IndInv
<1>1. Init => IndInv
  BY InitInv
<1>2. IndInv /\ [Next]_vars => IndInv'
  BY NextInv
<1>3. QED
  BY <1>1, <1>2, PTL DEF Spec

\* The type invariant: a count is never negative, and a drain works on rows of the queue
\* (scan_service._download_photos).
THEOREM TypeCorrect == Spec => []TypeOK
<1>1. IndInv => TypeOK
  BY DEF IndInv
<1>2. QED
  BY <1>1, Invariant, PTL

\* No photograph is given up on for what may be better tomorrow, whatever drains run side by
\* side, are cut off, or are asked for again (scan_service._download_photos).
THEOREM Earned == Spec => []GiveUpIsEarned
<1>1. IndInv => GiveUpIsEarned
  BY DEF IndInv
<1>2. QED
  BY <1>1, Invariant, PTL

\* A stored photograph keeps its file but for the two windows named in torn, whatever listings
\* share it (image_store.prune_orphans, scan_service.delete_items).
THEOREM FileKept == Spec => []RowHasItsFile
<1>1. IndInv => RowHasItsFile
  BY DEF IndInv
<1>2. QED
  BY <1>1, Invariant, PTL

(***************************************************************************)
(* The rows go one way.                                                    *)
(***************************************************************************)
Forward ==
    \A p \in Photo : rows'[p].state # rows[p].state =>
        \/ rows[p].state = "none"
        \/ rows[p].state = "queued" /\ rows'[p].state = "stored"
        \/ rows'[p].state = "gone"

LEMMA ForwardStep == ASSUME IndInv, [Next]_vars PROVE Forward
<1>1. TypeOK /\ DrainsOK
  BY DEF IndInv
<1>2. CASE UNCHANGED rows
  BY <1>2 DEF Forward
<1>3. ASSUME NEW q \in Photo, Queue(q) \/ TakeDown(q) PROVE Forward
  BY <1>1, <1>3 DEF Queue, TakeDown, Forward, TypeOK, Row
<1>4. ASSUME NEW d \in Drain, Press(d) PROVE Forward
  <2>1. \A p \in Photo : Retried(rows[p]).state = rows[p].state
    BY <1>1 DEF TypeOK, Row, Retried
  <2>2. QED
    BY <1>4, <2>1 DEF Press, Forward
<1>5. ASSUME NEW d \in Drain, Record(d) PROVE Forward
  <2> DEFINE q == drains[d].at
             n == drains[d].loaded[q]
             a == drains[d].answer
  <2>1. q \in Photo /\ n \in Nat /\ a \in Answers
    BY <1>1, <1>5, DrainType DEF Record, DrainsOK, DrainOK
  <2>2. /\ Exists(q) \/ a = "discard"
        /\ rows' = [rows EXCEPT ![q] = Recorded(q, n, a)]
    BY <1>5 DEF Record
  <2> HIDE DEF q, n, a
  <2>3. Recorded(q, n, a).state =
          CASE a = "stored" -> "stored" [] a = "discard" -> "gone" [] OTHER -> rows[q].state
    BY <1>1, <2>1, RecordedRow
  <2>4. \A p \in Photo : rows'[p] = IF p = q THEN Recorded(q, n, a) ELSE rows[p]
    BY <1>1, <2>1, <2>2 DEF TypeOK
  <2>5. QED
    BY <2>2, <2>3, <2>4 DEF Forward, Exists
<1>6. CASE DeleteCommits
  BY <1>1, <1>6 DEF DeleteCommits, Forward, TypeOK, Row
<1>7. QED
  BY <1>2, <1>3, <1>4, <1>5, <1>6
     DEF Next, DrainSteps, Cleans, Holds, Take, TakeNothing, Leave, Answered, Refused, RecordNothing,
         Interrupted, RestEnds, PruneLooks, PruneUnlinks, PruneEnds, DeleteLooks, DeleteUnlinks,
         DeleteFails, vars

\* No photograph comes back from where it was taken down, nor waits again once it is stored,
\* whichever drains record from rows they loaded before (scan_service._download_photos).
THEOREM OneWay == Spec => OnlyForward
<1>1. ASSUME IndInv, [Next]_vars
      PROVE  [\A p \in Photo : rows'[p].state # rows[p].state =>
                \/ rows[p].state = "none"
                \/ rows[p].state = "queued" /\ rows'[p].state = "stored"
                \/ rows'[p].state = "gone"]_vars
  BY <1>1, ForwardStep DEF Forward
<1>2. QED
  BY <1>1, Invariant, PTL DEF Spec, OnlyForward

(***************************************************************************)
(* Housekeeping that no drain overlaps.                                    *)
(***************************************************************************)
\* No drain has a file in hand that its row does not name yet, while a prune or a deletion works.
HandsOff == cleaner.pc # "idle" => InHand = {}

\* Nothing was torn, so that a row's file is there until the deletion that unlinks it commits.
PictureKept ==
    \A p \in Photo : Stored(p) =>
        \/ UrlOf[p] \in disk
        \/ cleaner.pc = "unlinked" /\ UrlOf[p] \in cleaner.files /\ ItemOf[p] \in cleaner.items

Untorn == handed = {} /\ torn = {}

LEMMA UntornStep ==
    ASSUME IndInv, Untorn, HandsOff', [Next]_vars, [~DeleteFails]_vars
    PROVE  Untorn'
<1>1. TypeOK /\ DrainsOK
  BY DEF IndInv
<1>2. CASE UNCHANGED <<handed, torn>>
  BY <1>2 DEF Untorn
<1>3. ASSUME NEW d \in Drain, NEW p \in Photo, NEW a \in Answers, Answered(d, p, a)
      PROVE  Untorn'
  <2>1. /\ torn' = torn /\ cleaner' = cleaner
        /\ handed' = IF a = "stored" /\ cleaner.pc # "idle" THEN handed \union {UrlOf[p]}
                     ELSE handed
    BY <1>3 DEF Answered
  <2>2. ASSUME a = "stored", cleaner.pc # "idle" PROVE FALSE
    <3>1. /\ drains'[d].pc = "record" /\ drains'[d].answer = "stored" /\ drains'[d].at = p
      BY <1>1, <1>3, <2>2 DEF Answered, TypeOK
    <3>2. UrlOf[p] \in InHand'
      BY <3>1 DEF InHand
    <3>3. QED
      BY <2>1, <2>2, <3>2 DEF HandsOff
  <2>3. QED
    BY <2>1, <2>2 DEF Untorn
<1>4. CASE PruneLooks \/ \E i \in Item : DeleteLooks(i)
  <2>1. handed' = InHand /\ torn' = torn /\ drains' = drains /\ cleaner'.pc # "idle"
    <3>1. CASE PruneLooks
      BY <3>1 DEF PruneLooks
    <3>2. ASSUME NEW i \in Item, DeleteLooks(i)
          PROVE  handed' = InHand /\ torn' = torn /\ drains' = drains /\ cleaner'.pc = "delete"
      BY <3>2 DEF DeleteLooks
    <3>3. QED
      BY <1>4, <3>1, <3>2
  <2>2. InHand' = {}
    BY <2>1 DEF HandsOff
  <2>3. InHand' = InHand
    BY <2>1 DEF InHand
  <2>4. QED
    BY <2>1, <2>2, <2>3 DEF Untorn
<1>5. CASE (\E u \in Url : PruneUnlinks(u)) \/ DeleteUnlinks
  BY <1>5 DEF PruneUnlinks, DeleteUnlinks, Untorn
<1>6. CASE PruneEnds \/ DeleteCommits
  BY <1>6 DEF PruneEnds, DeleteCommits, CleanerIdles, Untorn
<1>7. CASE DeleteFails
  BY <1>2, <1>7 DEF vars
<1>8. QED
  BY <1>2, <1>3, <1>4, <1>5, <1>6, <1>7
     DEF Next, DrainSteps, Cleans, Press, Holds, Take, TakeNothing, Leave, Refused, Record, RecordNothing,
         Interrupted, Queue, TakeDown, RestEnds, vars

\* A prune or a deletion that no drain hands a file to, and that commits what it unlinked, takes no
\* picture that a listing shows, whichever listings share it and however many drains run between
\* one housekeeping and the next (image_store.prune_orphans, scan_service.delete_items).
THEOREM Undisturbed == Spec /\ []HandsOff /\ [][~DeleteFails]_vars => []PictureKept
<1>1. Init => Untorn
  BY DEF Init, Untorn
<1>2. IndInv /\ Untorn /\ HandsOff' /\ [Next]_vars /\ [~DeleteFails]_vars => Untorn'
  BY UntornStep
<1>3. IndInv /\ Untorn => PictureKept
  BY DEF IndInv, RowHasItsFile, Untorn, PictureKept, Stored
<1>4. QED
  BY <1>1, <1>2, <1>3, Invariant, PTL DEF Spec

(***************************************************************************)
(* The button.                                                             *)
(***************************************************************************)
Pressed == {d \in Buttons : drains[d].pc # "idle"}

\* The claim is there as long as its drain is, and no second one starts beside it.
ButtonOK ==
    /\ claimed <=> Pressed # {}
    /\ \A d, e \in Pressed : d = e

\* A drain that was not idle goes on, and nobody's claim changes.
LEMMA GoesOnClaimed ==
    ASSUME TypeOK, ButtonOK, NEW d \in Drain, NEW s, Moves(d, s), claimed' = claimed,
           s.pc # "idle", d \in Buttons => drains[d].pc # "idle"
    PROVE  ButtonOK'
<1>1. drains'[d] = s /\ \A e \in Drain \ {d} : drains'[e] = drains[e]
  BY MovedDrains
<1>2. Buttons \subseteq Drain
  BY ConstantsAssumption DEF ConstantsAssumption
<1>3. Pressed' = Pressed
  BY <1>1, <1>2 DEF Pressed
<1>4. QED
  BY <1>3 DEF ButtonOK

LEMMA IdlesClaimed ==
    ASSUME TypeOK, ButtonOK, NEW d \in Drain, Idles(d), drains[d].pc # "idle"
    PROVE  ButtonOK'
<1>1. Moves(d, IdleDrain)
  BY IdleType DEF Moves, Idles
<1>2. drains'[d].pc = "idle" /\ \A e \in Drain \ {d} : drains'[e] = drains[e]
  BY <1>1, MovedDrains, IdleType
<1>3. Buttons \subseteq Drain
  BY ConstantsAssumption DEF ConstantsAssumption
<1>4. Pressed' = Pressed \ {d}
  BY <1>2, <1>3 DEF Pressed
<1>5. claimed' = (claimed /\ d \notin Buttons)
  BY DEF Idles
<1>6. d \in Buttons => d \in Pressed
  BY DEF Pressed
<1>7. d \notin Buttons => d \notin Pressed
  BY DEF Pressed
<1>8. CASE d \in Buttons
  BY <1>4, <1>5, <1>6, <1>8 DEF ButtonOK
<1>9. CASE d \notin Buttons
  BY <1>4, <1>5, <1>7, <1>9 DEF ButtonOK
<1>10. QED
  BY <1>8, <1>9

LEMMA ButtonStep == ASSUME IndInv, ButtonOK, [Next]_vars PROVE ButtonOK'
<1>1. TypeOK /\ DrainsOK
  BY DEF IndInv
<1>2. Buttons \subseteq Drain
  BY ConstantsAssumption DEF ConstantsAssumption
<1>3. CASE UNCHANGED <<drains, claimed>>
  BY <1>3 DEF ButtonOK, Pressed
<1>4. ASSUME NEW d \in Drain, Press(d) PROVE ButtonOK'
  <2>1. /\ claimed' = (claimed \/ d \in Buttons)
        /\ Moves(d, [IdleDrain EXCEPT !.pc = "begin"])
    BY <1>4, IdleType DEF Press, Moves
  <2>2. drains'[d].pc = "begin" /\ \A e \in Drain \ {d} : drains'[e] = drains[e]
    BY <1>1, <2>1, MovedDrains, IdleType
  <2>3. CASE d \in Buttons
    <3>1. Pressed = {} /\ claimed' = TRUE
      BY <1>4, <2>1, <2>3 DEF Press, ButtonOK
    <3>2. Pressed' = {d}
      BY <1>2, <2>2, <2>3, <3>1 DEF Pressed
    <3>3. QED
      BY <3>1, <3>2 DEF ButtonOK
  <2>4. CASE d \notin Buttons
    <3>1. Pressed' = Pressed
      BY <1>2, <2>2, <2>4 DEF Pressed
    <3>2. claimed' = claimed
      BY <1>1, <2>1, <2>4 DEF TypeOK
    <3>3. QED
      BY <3>1, <3>2 DEF ButtonOK
  <2>5. QED
    BY <2>3, <2>4
<1>5. ASSUME NEW d \in Drain, Take(d) PROVE ButtonOK'
  <2> DEFINE loaded == [p \in Photo |-> IF p \in Batch THEN Loaded(d, p) ELSE 0]
  <2>1. Batch \in SUBSET Photo /\ loaded \in [Photo -> Nat]
    BY LoadedType DEF Batch
  <2>2. drains' = [drains EXCEPT ![d] = Fetching(Batch, loaded)] /\ claimed' = claimed
    BY <1>5 DEF Take
  <2> HIDE DEF loaded
  <2>3. Moves(d, Fetching(Batch, loaded)) /\ Fetching(Batch, loaded).pc = "next"
    BY <2>1, <2>2, FetchingType DEF Moves
  <2>4. d \in Buttons => drains[d].pc # "idle"
    BY <1>5 DEF Take
  <2>5. QED
    BY <1>1, <2>2, <2>3, <2>4, GoesOnClaimed
<1>6. ASSUME NEW d \in Drain, NEW p \in Photo, NEW a \in Answers, Answered(d, p, a)
      PROVE  ButtonOK'
  <2> DEFINE s == [pc |-> "record", left |-> drains[d].left \ {p}, loaded |-> drains[d].loaded,
                   at |-> p, answer |-> a]
  <2>1. drains' = [drains EXCEPT ![d] = s] /\ claimed' = claimed /\ drains[d].pc = "next"
    BY <1>6 DEF Answered, Asks
  <2>2. s \in DrainState /\ s.pc = "record"
    BY <1>1, DrainType DEF DrainState
  <2> HIDE DEF s
  <2>3. QED
    BY <1>1, <2>1, <2>2, GoesOnClaimed DEF Moves
<1>7. ASSUME NEW d \in Drain, Record(d) PROVE ButtonOK'
  <2> DEFINE q == drains[d].at
             loaded == [drains[d].loaded EXCEPT ![q] = 0]
             s == Fetching(drains[d].left, loaded)
  <2>1. loaded \in [Photo -> Nat] /\ drains[d].left \in SUBSET Photo
    BY <1>1, DrainType, MaxType
  <2>2. drains' = [drains EXCEPT ![d] = s] /\ claimed' = claimed /\ drains[d].pc = "record"
    BY <1>7 DEF Record
  <2> HIDE DEF loaded, q
  <2>3. s \in DrainState /\ s.pc = "next"
    BY <2>1, FetchingType
  <2> HIDE DEF s
  <2>4. QED
    BY <1>1, <2>2, <2>3, GoesOnClaimed DEF Moves
<1>8. ASSUME NEW d \in Drain,
             TakeNothing(d) \/ Leave(d) \/ RecordNothing(d) \/ Interrupted(d)
               \/ \E p \in Photo : Refused(d, p)
      PROVE  ButtonOK'
  <2>1. Idles(d) /\ drains[d].pc # "idle"
    BY <1>8 DEF TakeNothing, Leave, RecordNothing, Interrupted, Refused, Asks
  <2>2. QED
    BY <1>1, <2>1, IdlesClaimed
<1>9. ASSUME NEW d \in Drain, NEW i \in Item, Holds(d, i) PROVE ButtonOK'
  <2>1. /\ d \notin Buttons /\ claimed' = claimed
        /\ \A e \in Drain \ {d} : drains'[e] = drains[e]
    BY <1>1, <1>9, ConstantsAssumption DEF Holds, ConstantsAssumption, TypeOK
  <2>2. Pressed' = Pressed
    BY <1>2, <2>1 DEF Pressed
  <2>3. QED
    BY <2>1, <2>2 DEF ButtonOK
<1>10. QED
  BY <1>3, <1>4, <1>5, <1>6, <1>7, <1>8, <1>9
     DEF Next, DrainSteps, Cleans, Queue, TakeDown, RestEnds, PruneLooks, PruneUnlinks, PruneEnds,
         DeleteLooks, DeleteUnlinks, DeleteCommits, DeleteFails, CleanerIdles, vars

\* At most one drain of the Sites page runs, and when none does the next can start, however the
\* last one ended: run out, at a resting host, cut off, or at a row that was gone
\* (scan_service.begin_photo_run, end_photo_run).
THEOREM OneButton == Spec => []ButtonOK
<1>1. Init => ButtonOK
  BY IdleType, ConstantsAssumption DEF ConstantsAssumption, Init, ButtonOK, Pressed
<1>2. IndInv /\ ButtonOK /\ [Next]_vars => ButtonOK'
  BY ButtonStep
<1>3. QED
  BY <1>1, <1>2, Invariant, PTL DEF Spec
=============================================================================
