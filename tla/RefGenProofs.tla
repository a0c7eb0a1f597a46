----------------------------- MODULE RefGenProofs -----------------------------
(***************************************************************************)
(* What a process may hold of the reference tables after an edit, proved    *)
(* for any models, makers, calibers, threads and texts.                     *)
(***************************************************************************)
EXTENDS RefGen, TLAPS

(***************************************************************************)
(* The inductive invariant.                                                *)
(***************************************************************************)
\* What the open transaction changes, it has moved the generation for, or says that it has not.
TxOK ==
    /\ Owns(Nobody) => tx.table = table /\ tx.generation = generation
    /\ ~Owns(Nobody) =>
         /\ tx.generation \in {generation, generation + 1}
         /\ tx.generation = generation =>
              \/ Compiled(tx.table) = Compiled(table)
              \/ tx.silent /\ \E r \in Rows : Silent(table, r, tx.table[r])

\* A thread has read the generation as it was committed, or as its own transaction has it.
ReadOK ==
    \A t \in Thread : threads[t].pc = "compare" =>
        threads[t].gen <= generation \/ (Owns(t) /\ threads[t].gen = tx.generation)

\* Nothing was seen that is not committed yet.
SeenOK == excuses = {} => seen = NoGen \/ seen <= generation

FromTxOK == fromTx => ~Owns(Nobody) /\ copy.held /\ copy.rules = Compiled(tx.table)

DropPending == \E t \in Thread : threads[t].pc \in {"drop", "committed"}

\* A copy that nothing will drop, and whose generation was seen, is of the rows as committed.
CopyOK ==
    copy.held /\ ~DropPending /\ ~fromTx /\ excuses = {} /\ seen = generation
        => copy.rules = Compiled(table)

IndInv == TypeOK /\ TxOK /\ ReadOK /\ SeenOK /\ FromTxOK /\ CopyOK

(***************************************************************************)
(* What is compiled, and what moves the generation.                        *)
(***************************************************************************)
LEMMA ConstantTypes ==
    /\ MaxEdits \in Nat /\ 0 \in Generations /\ Generations \subseteq Nat
    /\ NoGen \notin Generations /\ Nobody \notin Thread
  BY ConstantsAssumption DEF ConstantsAssumption, Generations

LEMMA CompiledType == ASSUME NEW t \in Table PROVE Compiled(t) \subseteq Rule
<1>1. \A r \in Rows : t[r].text \in Texts /\ Names(t, r) \subseteq Rows \X Texts
  BY DEF Table, Row, Names, Rows
<1>2. QED
  BY <1>1 DEF Compiled, Rule

\* An edit that moves nothing, and is not of a pending part of an approved model, changes
\* nothing that is compiled (refgen._matters).
LEMMA MattersEnough ==
    ASSUME NEW t \in Table, NEW r \in Rows, NEW new \in Edits(t, r),
           ~Matters(t[r], new), ~Silent(t, r, new)
    PROVE  Compiled([t EXCEPT ![r] = new]) = Compiled(t)
<1> DEFINE u == [t EXCEPT ![r] = new]
<1>1. t[r] \in Row /\ new \in Row
  BY DEF Table, Edits
<1>2. t[r].status # "approved" /\ new.status = "pending"
  BY <1>1 DEF Matters, Row
<1>3. \A q \in Rows : u[q] = IF q = r THEN new ELSE t[q]
  BY DEF Table
<1>4. \A m \in Models : r \in Carries[m] => t[m].status # "approved"
  BY <1>1, <1>2 DEF Silent, Carried, Edits, Row
<1>5. \A q \in Rows : (u[q].status = "approved") <=> (t[q].status = "approved")
  BY <1>2, <1>3
<1>6. \A q \in Rows : t[q].status = "approved" => u[q].text = t[q].text
  BY <1>2, <1>3
<1>7. \A q \in Rows : t[q].status = "approved" => Names(u, q) = Names(t, q)
  <2> SUFFICES ASSUME NEW q \in Rows, t[q].status = "approved"
               PROVE  Names(u, q) = Names(t, q)
    OBVIOUS
  <2>1. \A p \in Firms \union Calibers : (q \in Models /\ p \in Carries[q]) => u[p] = t[p]
    BY <1>3, <1>4 DEF Rows
  <2> HIDE DEF u
  <2>2. QED
    BY <2>1 DEF Names
<1> HIDE DEF u
<1>8. Compiled(u) = Compiled(t)
  BY <1>5, <1>6, <1>7 DEF Compiled
<1>9. QED
  BY <1>8 DEF u

LEMMA EditType ==
    ASSUME NEW t \in Table, NEW r \in Rows, NEW new \in Edits(t, r)
    PROVE  [t EXCEPT ![r] = new] \in Table /\ [t EXCEPT ![r] = new][r] = new
  BY DEF Table, Edits

LEMMA BumpedType ==
    ASSUME NEW g \in Generations, g < MaxEdits, NEW b \in BOOLEAN
    PROVE  /\ Bumped(g, b) \in Generations /\ Bumped(g, b) \in {g, g + 1}
           /\ Bumped(g, b) = g <=> ~b
  BY ConstantTypes DEF Bumped, Generations

(***************************************************************************)
(* The steps.                                                              *)
(***************************************************************************)
LEMMA InitInv == Init => IndInv
<1> SUFFICES ASSUME Init PROVE IndInv
  OBVIOUS
<1>1. NoTx \in [owner : Thread \union {Nobody}, table : Table, generation : Generations, silent : BOOLEAN]
  BY ConstantTypes DEF Init, NoTx
<1>2. TypeOK
  BY <1>1, ConstantTypes DEF Init, TypeOK, Stages, NoCopy
<1>3. TxOK
  BY DEF Init, TxOK, NoTx, Owns
<1>4. ReadOK /\ SeenOK /\ FromTxOK /\ CopyOK
  BY DEF Init, ReadOK, SeenOK, FromTxOK, CopyOK, NoCopy
<1>5. QED
  BY <1>2, <1>3, <1>4 DEF IndInv

LEMMA GotoType ==
    ASSUME TypeOK, NEW t \in Thread, NEW pc \in Stages, Goto(t, pc)
    PROVE  /\ threads' \in [Thread -> [pc : Stages, gen : Generations]]
           /\ threads'[t].pc = pc /\ threads'[t].gen = threads[t].gen
           /\ \A u \in Thread \ {t} : threads'[u] = threads[u]
<1> DEFINE next == [threads[t] EXCEPT !.pc = pc]
<1>1. next \in [pc : Stages, gen : Generations] /\ next.pc = pc /\ next.gen = threads[t].gen
  BY DEF TypeOK
<1>2. threads' = [threads EXCEPT ![t] = next]
  BY DEF Goto
<1> HIDE DEF next
<1>3. QED
  BY <1>1, <1>2 DEF TypeOK

\* A thread that goes on, past where it would have dropped the copy only if that is gone.
LEMMA Steps ==
    ASSUME IndInv, NEW t \in Thread,
           threads' \in [Thread -> [pc : Stages, gen : Generations]],
           \A u \in Thread \ {t} : threads'[u] = threads[u],
           threads'[t].pc # "compare",
           threads[t].pc \notin {"drop", "committed"} \/ ~copy'.held,
           UNCHANGED <<table, generation, tx, seen, excuses>>, due' \in BOOLEAN,
           UNCHANGED <<copy, fromTx>> \/ Dropped
    PROVE  IndInv'
<1>1. TypeOK'
  <2>1. copy' \in [held : BOOLEAN, rules : SUBSET Rule] /\ fromTx' \in BOOLEAN
    <3>1. NoCopy \in [held : BOOLEAN, rules : SUBSET Rule]
      BY DEF NoCopy
    <3>2. copy \in [held : BOOLEAN, rules : SUBSET Rule] /\ fromTx \in BOOLEAN
      BY DEF IndInv, TypeOK
    <3>3. QED
      BY <3>1, <3>2 DEF Dropped
  <2>2. /\ table' \in Table /\ generation' \in Generations
        /\ tx' \in [owner : Thread \union {Nobody}, table : Table, generation : Generations,
                    silent : BOOLEAN]
    BY DEF IndInv, TypeOK
  <2>3. seen' \in Generations \union {NoGen} /\ excuses' \subseteq {"first", "early", "undone", "silent"}
    BY DEF IndInv, TypeOK
  <2>4. QED
    BY <2>1, <2>2, <2>3 DEF TypeOK
<1>2. TxOK' /\ SeenOK'
  BY DEF IndInv, TxOK, SeenOK, Owns
<1>3. ReadOK'
  BY DEF IndInv, ReadOK, Owns
<1>4. FromTxOK'
  BY DEF IndInv, FromTxOK, Owns, Dropped
<1>5. CopyOK'
  BY DEF IndInv, CopyOK, DropPending, Dropped, NoCopy
<1>6. QED
  BY <1>1, <1>2, <1>3, <1>4, <1>5 DEF IndInv

LEMMA GoesOn ==
    ASSUME IndInv, NEW t \in Thread,
           Look(t) \/ ReadFails(t) \/ Same(t) \/ Drop(t) \/ Invalidate(t)
    PROVE  IndInv'
<1>1. CASE Look(t)
  <2>1. PICK pc \in {"read", "fetch"} : Goto(t, pc)
    BY <1>1 DEF Look
  <2>2. pc \in Stages /\ threads[t].pc \in {"idle", "look"}
    BY <1>1 DEF Stages, Look
  <2>3. QED
    BY <1>1, <2>1, <2>2, GotoType, Steps DEF Look, IndInv
<1>2. CASE ReadFails(t)
  <2>1. Goto(t, "fetch") /\ "fetch" \in Stages
    BY <1>2 DEF ReadFails, Stages
  <2>2. QED
    BY <1>2, <2>1, GotoType, Steps DEF ReadFails, IndInv, TypeOK
<1>3. CASE Same(t)
  <2>1. threads' = [threads EXCEPT ![t] = [pc |-> "fetch", gen |-> 0]]
    BY <1>3 DEF Same
  <2>2. [pc |-> "fetch", gen |-> 0] \in [pc : Stages, gen : Generations]
    BY ConstantTypes DEF Stages
  <2>3. QED
    BY <1>3, <2>1, <2>2, Steps DEF Same, IndInv, TypeOK
<1>4. CASE Drop(t)
  <2>1. Goto(t, "fetch") /\ "fetch" \in Stages
    BY <1>4 DEF Drop, Stages
  <2>2. QED
    BY <1>4, <2>1, GotoType, Steps DEF Drop, Dropped, NoCopy, IndInv, TypeOK
<1>5. CASE Invalidate(t)
  <2>1. PICK pc \in {"look", "idle"} : Goto(t, pc)
    BY <1>5 DEF Invalidate
  <2>2. pc \in Stages
    BY DEF Stages
  <2>3. QED
    BY <1>5, <2>1, <2>2, GotoType, Steps DEF Invalidate, Dropped, NoCopy, IndInv, TypeOK
<1>6. QED
  BY <1>1, <1>2, <1>3, <1>4, <1>5

LEMMA ReadInv == ASSUME IndInv, NEW t \in Thread, ReadGeneration(t) PROVE IndInv'
<1> DEFINE gen == IF Owns(t) THEN tx.generation ELSE generation
<1>1. threads' = [threads EXCEPT ![t] = [pc |-> "compare", gen |-> gen]]
  BY DEF ReadGeneration
<1>2. UNCHANGED <<table, generation, tx, seen, due, copy, fromTx, excuses>> /\ threads[t].pc = "read"
  BY DEF ReadGeneration
<1>3. gen \in Generations /\ (gen = generation \/ (Owns(t) /\ gen = tx.generation)) /\ generation \in Nat
  BY ConstantTypes DEF IndInv, TypeOK
<1> HIDE DEF gen
<1>4. [pc |-> "compare", gen |-> gen] \in [pc : Stages, gen : Generations]
  BY <1>3 DEF Stages
<1>5. TypeOK'
  BY <1>1, <1>2, <1>4 DEF IndInv, TypeOK
<1>6. ReadOK'
  <2> SUFFICES ASSUME NEW u \in Thread, threads'[u].pc = "compare"
               PROVE  threads'[u].gen <= generation \/ (Owns(u) /\ threads'[u].gen = tx.generation)
    BY <1>2 DEF ReadOK, Owns
  <2>1. CASE u = t
    <3>1. threads'[u].gen = gen
      BY <1>1, <2>1 DEF IndInv, TypeOK
    <3>2. QED
      BY <1>3, <2>1, <3>1
  <2>2. CASE u # t
    BY <1>1, <2>2 DEF IndInv, TypeOK, ReadOK
  <2>3. QED
    BY <2>1, <2>2
<1>7. TxOK' /\ SeenOK' /\ FromTxOK'
  BY <1>2 DEF IndInv, TxOK, SeenOK, FromTxOK, Owns
<1>8. CopyOK'
  BY <1>1, <1>2 DEF IndInv, TypeOK, CopyOK, DropPending
<1>9. QED
  BY <1>5, <1>6, <1>7, <1>8 DEF IndInv

LEMMA MovedInv == ASSUME IndInv, NEW t \in Thread, Moved(t) PROVE IndInv'
<1> DEFINE pc == IF seen = NoGen THEN "fetch" ELSE "drop"
<1>1. threads' = [threads EXCEPT ![t] = [pc |-> pc, gen |-> 0]] /\ pc \in {"fetch", "drop"}
  BY DEF Moved
<1>2. /\ UNCHANGED <<table, generation, tx, due, copy, fromTx>>
      /\ seen' = threads[t].gen /\ threads[t].pc = "compare"
  BY DEF Moved
<1>3. seen = NoGen /\ copy.held => excuses' # {}
  BY DEF Moved
<1>4. Owns(t) /\ tx.generation # generation => excuses' # {}
  BY DEF Moved
<1>5. seen # NoGen => pc = "drop"
  OBVIOUS
<1> HIDE DEF pc
<1>6. [pc |-> pc, gen |-> 0] \in [pc : Stages, gen : Generations]
  BY <1>1, ConstantTypes DEF Stages
<1>7. /\ threads' \in [Thread -> [pc : Stages, gen : Generations]]
      /\ threads'[t].pc = pc
      /\ \A u \in Thread \ {t} : threads'[u] = threads[u]
  BY <1>1, <1>6 DEF IndInv, TypeOK
<1>8. TypeOK'
  <2>1. seen' \in Generations /\ excuses' \subseteq {"first", "early", "undone", "silent"}
    BY <1>2 DEF Moved, IndInv, TypeOK
  <2>2. QED
    BY <1>2, <1>7, <2>1 DEF IndInv, TypeOK
<1>9. ReadOK'
  BY <1>1, <1>2, <1>7 DEF IndInv, ReadOK, Owns
<1>10. SeenOK'
  <2>1. threads[t].gen <= generation \/ (Owns(t) /\ threads[t].gen = tx.generation)
    BY <1>2 DEF IndInv, ReadOK
  <2>2. generation \in Nat
    BY ConstantTypes DEF IndInv, TypeOK
  <2>3. QED
    BY <1>2, <1>4, <2>1, <2>2 DEF SeenOK
<1>11. TxOK' /\ FromTxOK'
  BY <1>2 DEF IndInv, TxOK, FromTxOK, Owns
<1>12. CopyOK'
  BY <1>2, <1>3, <1>5, <1>7 DEF CopyOK, DropPending
<1>13. QED
  BY <1>8, <1>9, <1>10, <1>11, <1>12 DEF IndInv

LEMMA FetchInv == ASSUME IndInv, NEW t \in Thread, Fetch(t) PROVE IndInv'
<1> DEFINE source == IF Owns(t) THEN tx.table ELSE table
<1>1. PICK pc \in {"matched", "idle"} : Goto(t, pc)
  BY DEF Fetch
<1>2. /\ UNCHANGED <<table, generation, tx, seen, due, excuses>> /\ threads[t].pc = "fetch"
      /\ copy' = IF copy.held THEN copy ELSE [held |-> TRUE, rules |-> Compiled(source)]
      /\ fromTx' = IF copy.held THEN fromTx ELSE Owns(t)
  BY DEF Fetch
<1>3. pc \in Stages
  BY DEF Stages
<1>4. /\ threads' \in [Thread -> [pc : Stages, gen : Generations]]
      /\ threads'[t].pc = pc /\ \A u \in Thread \ {t} : threads'[u] = threads[u]
  BY <1>1, <1>3, GotoType DEF IndInv
<1>5. source \in Table /\ (Owns(t) => ~Owns(Nobody))
  BY ConstantTypes DEF IndInv, TypeOK, Owns
<1>6. Compiled(source) \subseteq Rule
  BY <1>5, CompiledType
<1>7. (Owns(t) => source = tx.table) /\ (~Owns(t) => source = table)
  OBVIOUS
<1> HIDE DEF source
<1>8. TypeOK'
  <2>1. copy' \in [held : BOOLEAN, rules : SUBSET Rule] /\ fromTx' \in BOOLEAN
    BY <1>2, <1>6 DEF IndInv, TypeOK, Owns
  <2>2. QED
    BY <1>2, <1>4, <2>1 DEF IndInv, TypeOK
<1>9. TxOK' /\ SeenOK'
  BY <1>2 DEF IndInv, TxOK, SeenOK, Owns
<1>10. ReadOK'
  BY <1>2, <1>4 DEF IndInv, ReadOK, Owns
<1>11. FromTxOK'
  BY <1>2, <1>5, <1>7 DEF IndInv, FromTxOK, Owns
<1>12. CopyOK'
  BY <1>2, <1>4, <1>7 DEF IndInv, CopyOK, DropPending
<1>13. QED
  BY <1>8, <1>9, <1>10, <1>11, <1>12 DEF IndInv

(***************************************************************************)
(* Edits.                                                                  *)
(***************************************************************************)
\* What an edit makes of the rows and the generation.
LEMMA EditOK ==
    ASSUME IndInv, NEW r \in Rows, NEW new \in Edits(table, r), NEW b \in BOOLEAN,
           Matters(table[r], new) => b, generation < MaxEdits
    PROVE  /\ [table EXCEPT ![r] = new] \in Table
           /\ Bumped(generation, b) \in Generations
           /\ Bumped(generation, b) \in {generation, generation + 1}
           /\ Bumped(generation, b) = generation =>
                \/ Compiled([table EXCEPT ![r] = new]) = Compiled(table)
                \/ Silent(table, r, [table EXCEPT ![r] = new][r]) /\ Silent(table, r, new) /\ ~b
<1>1. table \in Table /\ generation \in Generations
  BY DEF IndInv, TypeOK
<1>2. [table EXCEPT ![r] = new] \in Table /\ [table EXCEPT ![r] = new][r] = new
  BY <1>1, EditType
<1>3. /\ Bumped(generation, b) \in Generations
      /\ Bumped(generation, b) \in {generation, generation + 1}
      /\ Bumped(generation, b) = generation <=> ~b
  BY <1>1, BumpedType
<1>4. ~b /\ ~Silent(table, r, new) => Compiled([table EXCEPT ![r] = new]) = Compiled(table)
  BY <1>1, MattersEnough
<1>5. QED
  BY <1>2, <1>3, <1>4

LEMMA EditInv ==
    ASSUME IndInv, NEW t \in Thread, NEW r \in Rows, NEW new \in Row, Edit(t, r, new)
    PROVE  IndInv'
<1> DEFINE u == [table EXCEPT ![r] = new]
           b == Matters(table[r], new)
           g == Bumped(generation, b)
<1>1. /\ tx' = [owner |-> t, table |-> u, generation |-> g, silent |-> Silent(table, r, new)]
      /\ new \in Edits(table, r) /\ generation < MaxEdits /\ Owns(Nobody)
      /\ UNCHANGED <<table, generation, seen, due, copy, fromTx, excuses>>
  BY DEF Edit
<1>2. b \in BOOLEAN
  BY DEF Matters
<1>3. /\ u \in Table /\ g \in Generations /\ g \in {generation, generation + 1}
      /\ g = generation =>
           Compiled(u) = Compiled(table) \/ (Silent(table, r, u[r]) /\ Silent(table, r, new))
  BY <1>1, <1>2, EditOK
<1>4. Silent(table, r, new) \in BOOLEAN
  BY DEF Silent
<1> HIDE DEF u, g
<1>5. /\ tx' \in [owner : Thread \union {Nobody}, table : Table, generation : Generations, silent : BOOLEAN]
      /\ tx'.owner = t /\ tx'.table = u /\ tx'.generation = g /\ tx'.silent = Silent(table, r, new)
  BY <1>1, <1>3, <1>4
<1>6. PICK pc \in {"flushed", "written"} : Goto(t, pc)
  BY DEF Edit
<1>7. /\ threads' \in [Thread -> [pc : Stages, gen : Generations]]
      /\ threads'[t].pc = pc /\ \A v \in Thread \ {t} : threads'[v] = threads[v]
      /\ threads[t].pc = "idle"
  <2>1. pc \in Stages
    BY DEF Stages
  <2>2. QED
    BY <1>6, <2>1, GotoType DEF IndInv, Edit
<1>8. t # Nobody /\ ~Owns(Nobody)' /\ ~fromTx
  BY <1>1, <1>5, ConstantTypes DEF Owns, IndInv, FromTxOK
<1>9. TypeOK'
  BY <1>1, <1>5, <1>7 DEF IndInv, TypeOK
<1>10. TxOK'
  BY <1>1, <1>3, <1>5, <1>8 DEF TxOK
<1>11. ReadOK'
  <2>1. \A v \in Thread : threads[v].pc = "compare" => threads[v].gen <= generation
    BY <1>1, ConstantTypes DEF IndInv, ReadOK, Owns
  <2>2. QED
    BY <1>1, <1>7, <2>1 DEF ReadOK
<1>12. SeenOK' /\ FromTxOK'
  BY <1>1, <1>8 DEF IndInv, SeenOK, FromTxOK
<1>13. CopyOK'
  BY <1>1, <1>7 DEF IndInv, CopyOK, DropPending
<1>14. QED
  BY <1>9, <1>10, <1>11, <1>12, <1>13 DEF IndInv

LEMMA CommitInv == ASSUME IndInv, NEW t \in Thread, Commit(t) PROVE IndInv'
<1>1. /\ Owns(t) /\ table' = tx.table /\ generation' = tx.generation
      /\ tx' = [owner |-> Nobody, table |-> tx.table, generation |-> tx.generation, silent |-> FALSE]
      /\ fromTx' = FALSE
      /\ excuses' = excuses \union (IF tx.silent THEN {"silent"} ELSE {})
      /\ UNCHANGED <<seen, due, copy>>
  BY DEF Commit
<1>2. ~Owns(Nobody)
  BY <1>1, ConstantTypes DEF Owns
<1>3. PICK pc \in {"idle", "committed"} : /\ Goto(t, pc)
                                         /\ threads[t].pc \in {"matched", "written"}
  BY DEF Commit
<1>4. /\ threads' \in [Thread -> [pc : Stages, gen : Generations]]
      /\ threads'[t].pc = pc /\ \A v \in Thread \ {t} : threads'[v] = threads[v]
  <2>1. pc \in Stages
    BY DEF Stages
  <2>2. QED
    BY <1>3, <2>1, GotoType DEF IndInv
<1>5. /\ tx.table \in Table /\ tx.generation \in Generations /\ generation \in Nat
      /\ tx.generation \in Nat
  BY ConstantTypes DEF IndInv, TypeOK
<1>6. /\ generation <= tx.generation
      /\ tx.generation = generation => Compiled(tx.table) = Compiled(table) \/ tx.silent
      /\ tx.generation # generation => tx.generation = generation + 1
  BY <1>2, <1>5 DEF IndInv, TxOK
<1>7. TypeOK'
  <2>1. excuses' \subseteq {"first", "early", "undone", "silent"}
    BY <1>1 DEF IndInv, TypeOK
  <2>2. QED
    BY <1>1, <1>4, <1>5, <2>1 DEF IndInv, TypeOK
<1>8. TxOK'
  BY <1>1, ConstantTypes DEF TxOK, Owns
<1>9. ReadOK'
  <2> SUFFICES ASSUME NEW v \in Thread, threads'[v].pc = "compare"
               PROVE  threads'[v].gen <= tx.generation
    BY <1>1 DEF ReadOK
  <2>1. v # t /\ threads'[v] = threads[v]
    BY <1>4
  <2>2. threads[v].gen <= generation \/ threads[v].gen = tx.generation
    BY <2>1 DEF IndInv, ReadOK
  <2>3. threads[v].gen \in Nat
    BY ConstantTypes DEF IndInv, TypeOK
  <2>4. QED
    BY <1>5, <1>6, <2>1, <2>2, <2>3
<1>10. excuses' = {} => excuses = {} /\ ~tx.silent
  BY <1>1
<1>11. excuses = {} /\ seen # NoGen => seen \in Nat /\ seen <= generation
  BY ConstantTypes DEF IndInv, SeenOK, TypeOK
<1>12. SeenOK'
  BY <1>1, <1>5, <1>6, <1>10, <1>11 DEF SeenOK
<1>13. FromTxOK'
  BY <1>1 DEF FromTxOK
<1>14. CopyOK'
  <2> SUFFICES ASSUME copy.held, ~DropPending', excuses' = {}, seen = tx.generation
               PROVE  copy.rules = Compiled(tx.table)
    BY <1>1 DEF CopyOK
  <2>1. CASE fromTx
    BY <2>1 DEF IndInv, FromTxOK
  <2>2. CASE ~fromTx
    <3>1. seen # NoGen
      BY <1>5, ConstantTypes DEF IndInv, TypeOK
    <3>2. seen = generation /\ tx.generation = generation
      BY <1>5, <1>6, <1>10, <1>11, <3>1
    <3>3. ~DropPending
      BY <1>3, <1>4 DEF DropPending
    <3>4. copy.rules = Compiled(table)
      BY <1>10, <2>2, <3>2, <3>3 DEF IndInv, CopyOK
    <3>5. QED
      BY <1>6, <1>10, <3>2, <3>4
  <2>3. QED
    BY <2>1, <2>2
<1>15. QED
  BY <1>7, <1>8, <1>9, <1>12, <1>13, <1>14 DEF IndInv

LEMMA NoTxType ==
    ASSUME IndInv, tx' = NoTx, UNCHANGED <<table, generation>>
    PROVE  /\ TxOK' /\ Owns(Nobody)'
           /\ tx' \in [owner : Thread \union {Nobody}, table : Table, generation : Generations, silent : BOOLEAN]
  BY ConstantTypes DEF IndInv, TypeOK, NoTx, TxOK, Owns

LEMMA RollbackInv == ASSUME IndInv, NEW t \in Thread, Rollback(t) PROVE IndInv'
<1>1. /\ Owns(t) /\ tx' = NoTx /\ fromTx' = FALSE
      /\ excuses' = excuses \union (IF fromTx THEN {"undone"} ELSE {})
      /\ UNCHANGED <<table, generation, seen, due, copy>>
      /\ Goto(t, "idle") /\ threads[t].pc \in {"matched", "written"}
  BY DEF Rollback
<1>2. /\ threads' \in [Thread -> [pc : Stages, gen : Generations]]
      /\ threads'[t].pc = "idle" /\ \A v \in Thread \ {t} : threads'[v] = threads[v]
  <2>1. "idle" \in Stages
    BY DEF Stages
  <2>2. QED
    BY <1>1, <2>1, GotoType DEF IndInv
<1>3. TypeOK' /\ TxOK'
  <2>1. excuses' \subseteq {"first", "early", "undone", "silent"}
    BY <1>1 DEF IndInv, TypeOK
  <2>2. QED
    BY <1>1, <1>2, <2>1, NoTxType DEF IndInv, TypeOK
<1>4. ReadOK'
  BY <1>1, <1>2 DEF IndInv, ReadOK, Owns
<1>5. SeenOK' /\ FromTxOK'
  BY <1>1 DEF IndInv, SeenOK, FromTxOK
<1>6. CopyOK'
  BY <1>1, <1>2 DEF IndInv, CopyOK, DropPending
<1>7. QED
  BY <1>3, <1>4, <1>5, <1>6 DEF IndInv

LEMMA ElsewhereInv ==
    ASSUME IndInv, NEW r \in Rows, NEW new \in Row, NEW bulk \in BOOLEAN, Elsewhere(r, new, bulk)
    PROVE  IndInv'
<1> DEFINE u == [table EXCEPT ![r] = new]
           b == bulk \/ Matters(table[r], new)
           g == Bumped(generation, b)
<1>1. /\ Owns(Nobody) /\ generation < MaxEdits /\ new \in Edits(table, r)
      /\ table' = u /\ generation' = g
      /\ tx' = [owner |-> Nobody, table |-> u, generation |-> g, silent |-> FALSE]
      /\ excuses' = excuses \union (IF Silent(table, r, new) /\ ~bulk THEN {"silent"} ELSE {})
      /\ UNCHANGED <<threads, seen, due, copy, fromTx>>
  BY DEF Elsewhere
<1>2. /\ u \in Table /\ g \in Generations /\ g \in {generation, generation + 1}
      /\ g = generation => Compiled(u) = Compiled(table) \/ (Silent(table, r, new) /\ ~b)
  <2>1. b \in BOOLEAN
    BY DEF Matters
  <2>2. QED
    BY <1>1, <2>1, EditOK
<1>3. generation \in Nat /\ g \in Nat /\ generation <= g
  BY <1>2, ConstantTypes DEF IndInv, TypeOK
<1>4. ~b => ~bulk
  OBVIOUS
<1> HIDE DEF u, b, g
<1>5. TypeOK'
  <2>1. tx' \in [owner : Thread \union {Nobody}, table : Table, generation : Generations, silent : BOOLEAN]
    BY <1>1, <1>2
  <2>2. excuses' \subseteq {"first", "early", "undone", "silent"}
    BY <1>1 DEF IndInv, TypeOK
  <2>3. QED
    BY <1>1, <1>2, <2>1, <2>2 DEF IndInv, TypeOK
<1>6. TxOK'
  BY <1>1 DEF TxOK, Owns
<1>7. ReadOK'
  <2> SUFFICES ASSUME NEW v \in Thread, threads[v].pc = "compare"
               PROVE  threads[v].gen <= g
    BY <1>1 DEF ReadOK
  <2>1. threads[v].gen <= generation
    BY <1>1, ConstantTypes DEF IndInv, ReadOK, Owns
  <2>2. threads[v].gen \in Nat
    BY ConstantTypes DEF IndInv, TypeOK
  <2>3. QED
    BY <1>3, <2>1, <2>2
<1>8. excuses = {} /\ seen # NoGen => seen \in Nat /\ seen <= generation
  BY ConstantTypes DEF IndInv, SeenOK, TypeOK
<1>9. excuses' = {} => excuses = {} /\ ~(Silent(table, r, new) /\ ~bulk)
  BY <1>1
<1>10. SeenOK'
  BY <1>1, <1>3, <1>8, <1>9 DEF SeenOK
<1>11. FromTxOK'
  BY <1>1 DEF IndInv, FromTxOK
<1>12. CopyOK'
  <2> SUFFICES ASSUME copy.held, ~DropPending, ~fromTx, excuses' = {}, seen = g
               PROVE  copy.rules = Compiled(u)
    BY <1>1 DEF CopyOK, DropPending
  <2>1. seen # NoGen
    BY <1>2, ConstantTypes
  <2>2. seen = generation /\ g = generation
    BY <1>2, <1>3, <1>8, <1>9, <2>1
  <2>3. copy.rules = Compiled(table)
    BY <1>9, <2>2 DEF IndInv, CopyOK
  <2>4. QED
    BY <1>2, <1>4, <1>9, <2>2, <2>3
<1>13. QED
  BY <1>5, <1>6, <1>7, <1>10, <1>11, <1>12 DEF IndInv

LEMMA TickInv == ASSUME IndInv, Tick PROVE IndInv'
  BY DEF Tick, IndInv, TypeOK, TxOK, Owns, ReadOK, SeenOK, FromTxOK, CopyOK, DropPending

LEMMA RestartInv == ASSUME IndInv, Restart PROVE IndInv'
<1>1. /\ threads' = [t \in Thread |-> [pc |-> "idle", gen |-> 0]] /\ tx' = NoTx
      /\ seen' = NoGen /\ due' = TRUE /\ copy' = NoCopy /\ fromTx' = FALSE /\ excuses' = {}
      /\ UNCHANGED <<table, generation>>
  BY DEF Restart, Dropped
<1>2. [pc |-> "idle", gen |-> 0] \in [pc : Stages, gen : Generations]
  BY ConstantTypes DEF Stages
<1>3. TypeOK' /\ TxOK'
  <2>1. threads' \in [Thread -> [pc : Stages, gen : Generations]]
    BY <1>1, <1>2
  <2>2. NoCopy \in [held : BOOLEAN, rules : SUBSET Rule]
    BY DEF NoCopy
  <2>3. QED
    BY <1>1, <2>1, <2>2, NoTxType DEF IndInv, TypeOK
<1>4. ReadOK' /\ SeenOK' /\ FromTxOK' /\ CopyOK'
  BY <1>1 DEF ReadOK, SeenOK, FromTxOK, CopyOK, NoCopy
<1>5. QED
  BY <1>3, <1>4 DEF IndInv

LEMMA NextInv == ASSUME IndInv, [Next]_vars PROVE IndInv'
<1>1. CASE \E t \in Thread : \/ Matches(t) \/ Invalidate(t) \/ Commit(t) \/ Rollback(t)
                            \/ \E r \in Rows : \E new \in Row : Edit(t, r, new)
  BY <1>1, GoesOn, ReadInv, MovedInv, FetchInv, CommitInv, RollbackInv, EditInv DEF Matches
<1>2. CASE \E r \in Rows : \E new \in Row : \E bulk \in BOOLEAN : Elsewhere(r, new, bulk)
  BY <1>2, ElsewhereInv
<1>3. CASE Tick \/ Restart
  BY <1>3, TickInv, RestartInv
<1>4. CASE UNCHANGED vars
  BY <1>4 DEF vars, IndInv, TypeOK, TxOK, Owns, ReadOK, SeenOK, FromTxOK, CopyOK, DropPending
<1>5. QED
  BY <1>1, <1>2, <1>3, <1>4 DEF Next

(***************************************************************************)
(* The theorems.                                                           *)
(***************************************************************************)
\* The inductive invariant of a process and the tables it has compiled.
THEOREM Invariant == Spec => []IndInv
<1>1. Init => IndInv
  BY InitInv
<1>2. IndInv /\ [Next]_vars => IndInv'
  BY NextInv
<1>3. QED
  BY <1>1, <1>2, PTL DEF Spec

\* The type invariant: no more is bumped than is edited, and only rules are compiled.
THEOREM TypeCorrect == Spec => []TypeOK
<1>1. IndInv => TypeOK
  BY DEF IndInv
<1>2. QED
  BY <1>1, Invariant, PTL

\* A copy older than the tables is found out, but for the four excuses, however looks, edits,
\* commits, rollbacks and restarts interleave (refgen.check).
THEOREM FoundOut == Spec => []StaleIsNoticed
<1>1. IndInv => StaleIsNoticed
  <2> SUFFICES ASSUME IndInv, copy.held, copy.rules # Compiled(table), ~Noticed, excuses = {}
               PROVE  FALSE
    BY DEF StaleIsNoticed, Stale
  <2>1. seen = generation /\ ~DropPending /\ ~fromTx
    BY DEF Noticed, DropPending
  <2>2. QED
    BY <2>1 DEF IndInv, CopyOK
<1>2. QED
  BY <1>1, Invariant, PTL

\* No edit that changes what is compiled leaves the generation where it was, but one of a
\* pending maker or caliber of an approved model (refgen._matters).
THEOREM EditsMove == Spec => EditsMoveIt
<1> DEFINE A == Compiled(table') # Compiled(table) =>
                  generation' # generation \/ \E r \in Rows : Silent(table, r, table'[r])
<1>1. IndInv /\ [Next]_vars => A
  <2> SUFFICES ASSUME IndInv, [Next]_vars PROVE A
    OBVIOUS
  <2>1. CASE UNCHANGED table
    BY <2>1
  <2>2. CASE \E t \in Thread : Commit(t)
    <3>1. PICK t \in Thread : Commit(t)
      BY <2>2
    <3>2. ~Owns(Nobody) /\ table' = tx.table /\ generation' = tx.generation
      BY <3>1, ConstantTypes DEF Commit, Owns
    <3>3. QED
      BY <3>2 DEF IndInv, TxOK
  <2>3. CASE \E r \in Rows : \E new \in Row : \E bulk \in BOOLEAN : Elsewhere(r, new, bulk)
    <3>1. PICK r \in Rows, new \in Row, bulk \in BOOLEAN : Elsewhere(r, new, bulk)
      BY <2>3
    <3>2. /\ new \in Edits(table, r) /\ generation < MaxEdits
          /\ table' = [table EXCEPT ![r] = new]
          /\ generation' = Bumped(generation, bulk \/ Matters(table[r], new))
      BY <3>1 DEF Elsewhere
    <3>3. bulk \/ Matters(table[r], new) \in BOOLEAN
      BY DEF Matters
    <3>4. QED
      BY <3>2, <3>3, EditOK
  <2>4. QED
    BY <2>1, <2>2, <2>3 DEF Next, vars, Matches, Look, ReadGeneration, ReadFails, Same, Moved, Drop,
       Fetch, Invalidate, Rollback, Edit, Tick, Restart
<1>2. ASSUME IndInv, [Next]_vars
      PROVE  [Compiled(table') # Compiled(table) =>
                \/ generation' # generation
                \/ \E r \in Rows : Silent(table, r, table'[r])]_vars
  BY <1>1, <1>2
<1>3. QED
  BY <1>2, Invariant, PTL DEF Spec, EditsMoveIt

(***************************************************************************)
(* A process that edits nothing.                                           *)
(***************************************************************************)
\* No transaction is open here, and of what a thread is in the middle only its own look is left.
ReadsOnly ==
    /\ Owns(Nobody) /\ ~fromTx
    /\ excuses \subseteq {"first", "silent"}
    /\ \A t \in Thread : threads[t].pc \in {"idle", "read", "compare", "drop", "fetch"}

LEMMA ReadsOnlyStep ==
    ASSUME IndInv, ReadsOnly, Writers = {}, [Next]_vars
    PROVE  ReadsOnly'
<1>1. TypeOK
  BY DEF IndInv
<1>2. Nobody \notin Thread
  BY ConstantTypes
<1>3. ASSUME NEW t \in Thread, threads'[t].pc \in {"idle", "read", "compare", "drop", "fetch"},
             \A u \in Thread \ {t} : threads'[u] = threads[u],
             tx' = tx, ~fromTx', excuses' \subseteq {"first", "silent"}
      PROVE  ReadsOnly'
  <2>1. \A u \in Thread : threads'[u].pc \in {"idle", "read", "compare", "drop", "fetch"}
    BY <1>3 DEF ReadsOnly
  <2>2. Owns(Nobody)'
    BY <1>3 DEF ReadsOnly, Owns
  <2>3. QED
    BY <1>3, <2>1, <2>2 DEF ReadsOnly
<1>5. \A t \in Thread : ~Owns(t) /\ threads[t].pc \notin {"flushed", "written", "committed", "matched", "look"}
  BY <1>2 DEF ReadsOnly, Owns
<1>6. CASE \E t \in Thread : Matches(t)
  <2>1. PICK t \in Thread : Matches(t)
    BY <1>6
  <2>2. CASE Look(t) \/ ReadFails(t) \/ Drop(t) \/ Fetch(t)
    <3>1. PICK pc \in {"idle", "read", "fetch"} : Goto(t, pc)
      BY <1>5, <2>2 DEF Look, ReadFails, Drop, Fetch
    <3>2. pc \in Stages
      BY DEF Stages
    <3>3. tx' = tx /\ excuses' = excuses
      BY <2>2 DEF Look, ReadFails, Drop, Fetch
    <3>4. ~fromTx'
      BY <1>5, <2>2 DEF Look, ReadFails, Drop, Fetch, Dropped, ReadsOnly
    <3>5. QED
      BY <1>1, <1>3, <3>1, <3>2, <3>3, <3>4, GotoType DEF ReadsOnly
  <2>3. CASE ReadGeneration(t) \/ Same(t) \/ Moved(t)
    <3>1. tx' = tx /\ fromTx' = fromTx
      BY <2>3 DEF ReadGeneration, Same, Moved
    <3>2. excuses' = excuses \/ excuses' \subseteq {"first"}
      BY <1>5, <2>3 DEF ReadGeneration, Same, Moved
    <3>3. \E pc \in {"compare", "fetch", "drop"}, gen \in {tx.generation, generation, 0} :
             threads' = [threads EXCEPT ![t] = [pc |-> pc, gen |-> gen]]
      BY <2>3 DEF ReadGeneration, Same, Moved
    <3>4. /\ threads'[t].pc \in {"compare", "fetch", "drop"}
          /\ \A u \in Thread \ {t} : threads'[u] = threads[u]
      BY <1>1, <3>3 DEF TypeOK
    <3>5. QED
      BY <1>3, <3>1, <3>2, <3>4 DEF ReadsOnly
  <2>4. QED
    BY <2>1, <2>2, <2>3 DEF Matches
<1>7. ~\E t \in Thread : Invalidate(t) \/ Commit(t) \/ Rollback(t)
  BY <1>5 DEF Invalidate, Commit, Rollback
<1>8. ~\E t \in Thread : \E r \in Rows : \E new \in Row : Edit(t, r, new)
  BY DEF Edit
<1>9. CASE \E r \in Rows : \E new \in Row : \E bulk \in BOOLEAN : Elsewhere(r, new, bulk)
  <2>1. PICK r \in Rows, new \in Row, bulk \in BOOLEAN : Elsewhere(r, new, bulk)
    BY <1>9
  <2>2. /\ tx'.owner = Nobody /\ UNCHANGED <<threads, fromTx>>
        /\ excuses' \subseteq excuses \union {"silent"}
    BY <2>1 DEF Elsewhere
  <2>3. QED
    BY <2>2 DEF ReadsOnly, Owns
<1>10. CASE Restart
  <2>1. /\ threads' = [t \in Thread |-> [pc |-> "idle", gen |-> 0]]
        /\ tx'.owner = Nobody /\ fromTx' = FALSE /\ excuses' = {}
    BY <1>10 DEF Restart, NoTx, Dropped
  <2>2. QED
    BY <2>1 DEF ReadsOnly, Owns
<1>11. CASE Tick \/ UNCHANGED vars
  <2>1. UNCHANGED <<tx, fromTx, excuses, threads>>
    BY <1>11 DEF Tick, vars
  <2>2. QED
    BY <2>1 DEF ReadsOnly, Owns
<1>12. QED
  BY <1>6, <1>7, <1>8, <1>9, <1>10, <1>11 DEF Next

\* In a process that edits nothing itself, a stale copy has been found out or will
\* be by the next look, but for the first look over a copy that was there and the edit that moves
\* nothing: what a transaction does to a copy is done only where the transaction is (refgen.check).
THEOREM ReaderProcess ==
    Writers = {} =>
      (Spec => [](Stale => \/ seen # generation
                           \/ \E t \in Thread : threads[t].pc = "drop"
                           \/ excuses \intersect {"first", "silent"} # {}))
<1> SUFFICES ASSUME Writers = {}
             PROVE  Spec => [](Stale => \/ seen # generation
                                        \/ \E t \in Thread : threads[t].pc = "drop"
                                        \/ excuses \intersect {"first", "silent"} # {})
  OBVIOUS
<1>1. Init => ReadsOnly
  BY DEF Init, NoTx, ReadsOnly, Owns
<1>2. IndInv /\ ReadsOnly /\ [Next]_vars => ReadsOnly'
  BY ReadsOnlyStep
<1>3. ReadsOnly /\ StaleIsNoticed =>
        (Stale => \/ seen # generation
                  \/ \E t \in Thread : threads[t].pc = "drop"
                  \/ excuses \intersect {"first", "silent"} # {})
  <2> SUFFICES ASSUME ReadsOnly, StaleIsNoticed, Stale, seen = generation,
                      ~\E t \in Thread : threads[t].pc = "drop"
               PROVE  excuses \intersect {"first", "silent"} # {}
    OBVIOUS
  <2>1. ~Noticed
    BY DEF ReadsOnly, Noticed
  <2>2. excuses # {} /\ excuses \subseteq {"first", "silent"}
    BY <2>1 DEF StaleIsNoticed, ReadsOnly
  <2>3. QED
    BY <2>2
<1>4. QED
  BY <1>1, <1>2, <1>3, Invariant, FoundOut, PTL DEF Spec
=============================================================================
