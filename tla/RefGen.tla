-------------------------------- MODULE RefGen --------------------------------
(***************************************************************************)
(* How a process keeps the copy it has compiled of the reference tables in  *)
(* step with them: refgen.py, the registries that armory.py, manufacturers, *)
(* countries, designations and accessories hold, and the writers that edit  *)
(* the tables in this process and in others.                               *)
(*                                                                         *)
(* The registries are one copy here.  Each is compiled under its lock, so   *)
(* reading the rows and storing the copy is one step beside a drop.  The    *)
(* arsenals, which are stored outside theirs, are not modelled.             *)
(***************************************************************************)
EXTENDS Naturals, FiniteSets

CONSTANTS
    Models,             \* ids of rows
    Firms, Calibers,
    Carries,            \* the makers and calibers a model's rule names, whatever their status
    Text,               \* what a row may say: spellings, links, country
    Thread,             \* threads of this process
    Writers,            \* those of them that edit
    Seeded,             \* what a row may be at the start
    MaxEdits,           \* bound
    NoGen,              \* the generation was never looked at
    Nobody              \* the owner of no transaction

ASSUME ConstantsAssumption ==
    /\ Carries \in [Models -> SUBSET (Firms \union Calibers)]
    /\ Models \intersect (Firms \union Calibers) = {}
    /\ Writers \subseteq Thread
    /\ MaxEdits \in Nat
    /\ NoGen \notin Nat
    /\ Nobody \notin Thread

VARIABLES
    table,      \* the rows as committed
    generation, \* reference_generation, as committed
    tx,         \* the write transaction this process has open
    threads,    \* where each thread is, and the generation it read
    seen,       \* _seen
    due,        \* CHECK_SECONDS have passed since _checked_at
    copy,       \* what is compiled
    fromTx,     \* history: the copy was compiled from the rows of the open transaction
    excuses     \* history: how this process came to take a generation, or a copy, for committed

vars == <<table, generation, tx, threads, seen, due, copy, fromTx, excuses>>

Rows == Models \union Firms \union Calibers

Texts == UNION {Text[r] : r \in Rows}

Row == [status : {"none", "pending", "approved"}, text : Texts]

Table == [Rows -> Row]

Rule == Rows \X Texts \X SUBSET (Rows \X Texts)

NoCopy == [held |-> FALSE, rules |-> {}]

\* A thread that matches goes look, read, compare, drop, fetch. One that edits and re-derives
\* listings before it commits: flushed, look .. fetch, matched. One that commits first:
\* written, committed.
Stages == {"idle", "flushed", "look", "read", "compare", "drop", "fetch", "matched",
           "written", "committed"}

Generations == 0..MaxEdits

TypeOK ==
    /\ table \in Table
    /\ generation \in Generations
    /\ tx \in [owner : Thread \union {Nobody}, table : Table, generation : Generations, silent : BOOLEAN]
    /\ threads \in [Thread -> [pc : Stages, gen : Generations]]
    /\ seen \in Generations \union {NoGen}
    /\ due \in BOOLEAN
    /\ copy \in [held : BOOLEAN, rules : SUBSET Rule]
    /\ fromTx \in BOOLEAN
    /\ excuses \subseteq {"first", "early", "undone", "silent"}

(***************************************************************************)
(* The rules that are compiled, and what moves the generation.              *)
(***************************************************************************)
\* What an approved row says, and for a model the names of its only maker, of the makers that
\* tell it from a rival, and of its only caliber: approved or not.
Names(t, r) == {<<p, t[p].text>> : p \in {p \in Firms \union Calibers :
                    r \in Models /\ p \in Carries[r] /\ t[p].status # "none"}}

Compiled(t) == {<<r, t[r].text, Names(t, r)>> : r \in {r \in Rows : t[r].status = "approved"}}

\* Mutant of Matters: sending an approved row back is an edit of a pending row.
MattersWhenApproved(old, new) == new.status = "approved" \/ new.status = "none"

\* refgen._matters: a row added or edited that is not pending, or was not; a deletion.
Matters(old, new) ==
    \/ new.status = "none"
    \/ new.status = "approved"
    \/ old.status = "approved"

\* On an approved model.
Carried(t, r) == \E m \in Models : r \in Carries[m] /\ t[m].status = "approved"

\* An edit of a maker or a caliber that is pending, and stays so, on an approved model.
Silent(t, r, new) == t[r].status = "pending" /\ new.status = "pending" /\ Carried(t, r)

\* A row is put on an approved model by an edit of the model, which is not told apart here.
Edits(t, r) ==
    {new \in Row : /\ new # t[r]
                   /\ new.text \in Text[r]
                   /\ new.status = "none" => new.text = t[r].text
                   /\ t[r].status = "none" => ~Carried(t, r)}

\* Mutant of Bumped: at the flush and again after it.
BumpedTwice(gen, matters) == IF matters THEN gen + 2 ELSE gen

Bumped(gen, matters) == IF matters THEN gen + 1 ELSE gen

-----------------------------------------------------------------------------
NoTx == [owner |-> Nobody, table |-> table, generation |-> generation, silent |-> FALSE]

Init ==
    /\ table \in Table
    /\ \A r \in Rows : table[r] \in Seeded[r] /\ table[r].text \in Text[r]
    /\ generation = 0
    /\ tx = NoTx
    /\ threads = [t \in Thread |-> [pc |-> "idle", gen |-> 0]]
    /\ seen = NoGen
    /\ due = TRUE
    /\ copy = NoCopy
    /\ fromTx = FALSE
    /\ excuses = {}

Goto(t, pc) == threads' = [threads EXCEPT ![t].pc = pc]

Owns(t) == tx.owner = t

Dropped == copy' = NoCopy /\ fromTx' = FALSE

(***************************************************************************)
(* refgen.check and the read of a registry after it.                       *)
(***************************************************************************)
\* Mutant of Look: only the first of them is taken.
LookOnce(t) ==
    /\ threads[t].pc \in {"idle", "look"}
    /\ Goto(t, IF due /\ seen = NoGen THEN "read" ELSE "fetch")
    /\ due' = FALSE
    /\ UNCHANGED <<table, generation, tx, seen, copy, fromTx, excuses>>

\* The look is taken, or was taken less than CHECK_SECONDS ago.
Look(t) ==
    /\ threads[t].pc \in {"idle", "look"}
    /\ Goto(t, IF due THEN "read" ELSE "fetch")
    /\ due' = FALSE
    /\ UNCHANGED <<table, generation, tx, seen, copy, fromTx, excuses>>

\* The generation as its session sees it: its own bump, committed or not.
ReadGeneration(t) ==
    /\ threads[t].pc = "read"
    /\ threads' = [threads EXCEPT ![t] =
                     [pc |-> "compare", gen |-> IF Owns(t) THEN tx.generation ELSE generation]]
    /\ UNCHANGED <<table, generation, tx, seen, due, copy, fromTx, excuses>>

\* A failed check does not fail the read.
ReadFails(t) ==
    /\ threads[t].pc = "read"
    /\ Goto(t, "fetch")
    /\ UNCHANGED <<table, generation, tx, seen, due, copy, fromTx, excuses>>

Same(t) ==
    /\ threads[t].pc = "compare"
    /\ threads[t].gen = seen
    /\ threads' = [threads EXCEPT ![t] = [pc |-> "fetch", gen |-> 0]]
    /\ UNCHANGED <<table, generation, tx, seen, due, copy, fromTx, excuses>>

\* The generation it last saw is another now; the first look drops nothing.
Moved(t) ==
    /\ threads[t].pc = "compare"
    /\ threads[t].gen # seen
    /\ seen' = threads[t].gen
    /\ threads' = [threads EXCEPT ![t] = [pc |-> IF seen = NoGen THEN "fetch" ELSE "drop", gen |-> 0]]
    /\ excuses' = (IF seen = NoGen /\ copy.held THEN {"first"} ELSE {})
                    \union (IF Owns(t) /\ tx.generation # generation THEN {"early"} ELSE {})
    /\ UNCHANGED <<table, generation, tx, due, copy, fromTx>>

\* Mutant of Drop: what another thread has compiled is left to it.
DropNone(t) ==
    /\ threads[t].pc = "drop"
    /\ Goto(t, "fetch")
    /\ UNCHANGED <<table, generation, tx, seen, due, copy, fromTx, excuses>>

\* invalidate_all.
Drop(t) ==
    /\ threads[t].pc = "drop"
    /\ Goto(t, "fetch")
    /\ Dropped
    /\ UNCHANGED <<table, generation, tx, seen, due, excuses>>

\* The registry: compiled from what its session sees, unless it is there.
Fetch(t) ==
    /\ threads[t].pc = "fetch"
    /\ Goto(t, IF Owns(t) THEN "matched" ELSE "idle")
    /\ copy' = IF copy.held THEN copy
               ELSE [held |-> TRUE, rules |-> Compiled(IF Owns(t) THEN tx.table ELSE table)]
    /\ fromTx' = IF copy.held THEN fromTx ELSE Owns(t)
    /\ UNCHANGED <<table, generation, tx, seen, due, excuses>>

(***************************************************************************)
(* Edits.  Those that bump wait for one another on the generation's row.    *)
(***************************************************************************)
\* Flushed, and with it the bump: listings are re-derived before the commit, or it comes first.
Edit(t, r, new) ==
    /\ t \in Writers
    /\ threads[t].pc = "idle"
    /\ Owns(Nobody)
    /\ generation < MaxEdits
    /\ new \in Edits(table, r)
    /\ tx' = [owner |-> t, table |-> [table EXCEPT ![r] = new],
              generation |-> Bumped(generation, Matters(table[r], new)), silent |-> Silent(table, r, new)]
    /\ \E pc \in {"flushed", "written"} : Goto(t, pc)
    /\ UNCHANGED <<table, generation, seen, due, copy, fromTx, excuses>>

\* The writer's own invalidate(), before it re-derives or after its commit.
Invalidate(t) ==
    /\ \/ threads[t].pc = "flushed" /\ Goto(t, "look")
       \/ threads[t].pc = "committed" /\ Goto(t, "idle")
    /\ Dropped
    /\ UNCHANGED <<table, generation, tx, seen, due, excuses>>

Commit(t) ==
    /\ Owns(t)
    /\ \/ threads[t].pc = "matched" /\ Goto(t, "idle")
       \/ threads[t].pc = "written" /\ Goto(t, "committed")
    /\ table' = tx.table
    /\ generation' = tx.generation
    /\ tx' = [owner |-> Nobody, table |-> tx.table, generation |-> tx.generation, silent |-> FALSE]
    /\ fromTx' = FALSE
    /\ excuses' = excuses \union (IF tx.silent THEN {"silent"} ELSE {})
    /\ UNCHANGED <<seen, due, copy>>

Rollback(t) ==
    /\ Owns(t)
    /\ threads[t].pc \in {"matched", "written"}
    /\ Goto(t, "idle")
    /\ tx' = NoTx
    /\ fromTx' = FALSE
    /\ excuses' = excuses \union (IF fromTx THEN {"undone"} ELSE {})
    /\ UNCHANGED <<table, generation, seen, due, copy>>

\* Another process commits an edit; a bulk statement moves the generation whatever it changed.
Elsewhere(r, new, bulk) ==
    /\ Owns(Nobody)
    /\ generation < MaxEdits
    /\ new \in Edits(table, r)
    /\ table' = [table EXCEPT ![r] = new]
    /\ generation' = Bumped(generation, bulk \/ Matters(table[r], new))
    /\ tx' = [owner |-> Nobody, table |-> table', generation |-> generation', silent |-> FALSE]
    /\ excuses' = excuses \union (IF Silent(table, r, new) /\ ~bulk THEN {"silent"} ELSE {})
    /\ UNCHANGED <<threads, seen, due, copy, fromTx>>

Tick ==
    /\ ~due
    /\ due' = TRUE
    /\ UNCHANGED <<table, generation, tx, threads, seen, copy, fromTx, excuses>>

Restart ==
    /\ threads' = [t \in Thread |-> [pc |-> "idle", gen |-> 0]]
    /\ tx' = NoTx
    /\ seen' = NoGen
    /\ due' = TRUE
    /\ Dropped
    /\ excuses' = {}
    /\ UNCHANGED <<table, generation>>

-----------------------------------------------------------------------------
Matches(t) ==
    \/ Look(t) \/ ReadGeneration(t) \/ ReadFails(t) \/ Same(t) \/ Moved(t) \/ Drop(t) \/ Fetch(t)

Next ==
    \/ \E t \in Thread :
         \/ Matches(t) \/ Invalidate(t) \/ Commit(t) \/ Rollback(t)
         \/ \E r \in Rows : \E new \in Row : Edit(t, r, new)
    \/ \E r \in Rows : \E new \in Row : \E bulk \in BOOLEAN : Elsewhere(r, new, bulk)
    \/ Tick \/ Restart

Spec == Init /\ [][Next]_vars

\* Every thread goes on: titles are matched all day, whoever edits, a transaction ends, and not
\* every look fails.
FairSpec ==
    /\ Spec
    /\ \A t \in Thread : /\ WF_vars(Matches(t) \/ Invalidate(t) \/ Commit(t) \/ Rollback(t))
                         /\ SF_vars(ReadGeneration(t))
    /\ SF_vars(\E t \in Thread : Look(t))
    /\ WF_vars(Tick)

-----------------------------------------------------------------------------
(***************************************************************************)
(* Properties.                                                             *)
(***************************************************************************)
Stale == copy.held /\ copy.rules # Compiled(table)

\* Some thread will find out, drops the copy already, or has yet to commit what it was made of.
Noticed ==
    \/ seen # generation
    \/ \E t \in Thread : threads[t].pc \in {"drop", "committed"}
    \/ fromTx

\* A committed edit that changes what is compiled moves the generation, but for an edit of a
\* pending maker or caliber of an approved model (refgen._matters, armory._rule_for).
EditsMoveIt ==
    [][Compiled(table') # Compiled(table) =>
         \/ generation' # generation
         \/ \E r \in Rows : Silent(table, r, table'[r])]_vars

\* A stale copy is found out, but for the four ways of "excuses": the first look took the
\* generation over a copy that was there; a look inside a transaction took its own bump before
\* it was committed; a transaction was rolled back after rules were compiled from it; an edit
\* moved nothing (refgen.check).
StaleIsNoticed == Stale => Noticed \/ excuses # {}

\* Every edit reaches this process in the end, on the same terms (refgen.check).
EditArrives == Stale /\ excuses = {} ~> ~Stale \/ excuses # {}
=============================================================================
