------------------------------- MODULE HostRest -------------------------------
(***************************************************************************)
(* The register of hosts to be left alone (services/cooldown.py), and the  *)
(* week a whole hosted platform rests (services/platform_rest.py), as the  *)
(* requests of every fetcher use them (scrapers/base.py, _request).        *)
(*                                                                         *)
(* One platform and the hosts of its shops. A thread is any fetcher, of    *)
(* the web application or of a command: they share the database and        *)
(* nothing else, and nothing holds a row between its read and its write.   *)
(* Any write of theirs may fail, and the request goes on without it.       *)
(***************************************************************************)
EXTENDS Naturals, FiniteSets

CONSTANTS
    Hosts,      \* the shops of one hosted platform
    Threads,
    LastCount,  \* the last refusal whose pause a timedelta can hold: 41 in the code
    NoHost, NoRow

ASSUME ConstantsAssumption ==
    /\ IsFiniteSet(Hosts)
    /\ LastCount \in Nat \ {0}
    /\ NoHost \notin Hosts

VARIABLES
    rows,       \* host_cooldowns: rows[h] is NoRow or a record
    evidence,   \* platform_refusals inside the last day
    call,       \* call[t]: the request thread t is making
    heard,      \* history: shops that answered 429 in the last day, since a rest last began
    cut         \* history: shops whose share of the last rest was ended before its time

vars == <<rows, evidence, call, heard, cut>>

THRESHOLD == 2

\* until, from the present: over, at most an hour ahead, or a platform's week.
Until == {"past", "pause", "week"}
Row == [until : Until, refusals : 1..LastCount, platform : BOOLEAN]
Rows == [Hosts -> Row \union {NoRow}]

ASSUME NoRowAssumption == NoRow \notin Row

\* The transactions of saw_429 after the one that records the refusal.
Inside == {"counting", "looking", "reading", "resting", "spending"}
Stages == Inside \union {"idle", "cleared", "slow", "answered", "refused"}

\* cached: the register's answer of a moment ago was that nothing is on record.
\* passed: history, a rest began after saw_429 looked for one.
Call == [pc : Stages, host : Hosts \union {NoHost}, cached : BOOLEAN, passed : BOOLEAN,
         seen : Rows]

TypeOK ==
    /\ rows \in Rows
    /\ evidence \subseteq Hosts
    /\ call \in [Threads -> Call]
    /\ heard \subseteq Hosts
    /\ cut \subseteq Hosts

Nothing == [h \in Hosts |-> NoRow]
Idle == [pc |-> "idle", host |-> NoHost, cached |-> FALSE, passed |-> FALSE, seen |-> Nothing]

\* A request about to be sent to h.
Cleared(h, cached) ==
    [pc |-> "cleared", host |-> h, cached |-> cached, passed |-> FALSE, seen |-> Nothing]

\* What is written to a row in one go.
Counted(row, until, n) == [row EXCEPT !.until = until, !.refusals = n]
Rested(row, seen) == [row EXCEPT !.until = "week", !.platform = IF seen.platform THEN @ ELSE TRUE]

Init ==
    /\ rows = Nothing
    /\ evidence = {}
    /\ call = [t \in Threads |-> Idle]
    /\ heard = {}
    /\ cut = {}

Free(h) == rows[h] # NoRow => rows[h].until = "past"
PlatformRests(h) == rows[h] # NoRow /\ rows[h].platform /\ rows[h].until # "past"
Resting(h) == rows[h] # NoRow /\ rows[h].until = "week"
Refusals(row) == IF row = NoRow THEN 0 ELSE row.refusals

At(t, stage) == call[t].pc = stage
Moved(c, stage, seen) == [c EXCEPT !.pc = stage, !.seen = seen]
Passed(c) == [c EXCEPT !.passed = c.pc \in {"reading", "resting"}]
Goto(t, stage) == call' = [call EXCEPT ![t] = Moved(@, stage, Nothing)]
Read(t, stage, hosts) ==
    call' = [call EXCEPT ![t] =
               Moved(@, stage, [h \in Hosts |-> IF h \in hosts THEN rows[h] ELSE NoRow])]
Done(t) == call' = [call EXCEPT ![t] = Idle]

\* Shops whose rest this step ends, by whatever writes to their rows.
Cuts == cut' = cut \union {h \in Hosts : Resting(h) /\ ~Resting(h)'}

(***************************************************************************)
(* A request.                                                              *)
(***************************************************************************)
\* paused_for, once for a request and all of its retries.
Ask(t, h) ==
    /\ At(t, "idle")
    /\ Free(h)
    /\ call' = [call EXCEPT ![t] = Cleared(h, rows[h] = NoRow)]
    /\ UNCHANGED <<rows, evidence, heard, cut>>

\* No answer to any attempt, a write to the register that failed ("must never
\* break a fetch"), or the end of the process.
GiveUp(t) ==
    /\ ~At(t, "idle")
    /\ Done(t)
    /\ UNCHANGED <<rows, evidence, heard, cut>>

\* After a 429 the next attempt does not go back to the register.
Retry(t) ==
    /\ At(t, "slow")
    /\ call' = [call EXCEPT ![t] = Cleared(@.host, FALSE)]
    /\ UNCHANGED <<rows, evidence, heard, cut>>

(***************************************************************************)
(* succeeded: the host answered.                                           *)
(***************************************************************************)
Answer(t) ==
    /\ At(t, "cleared")
    /\ \/ call[t].cached /\ Done(t)
       \/ Read(t, "answered", {call[t].host})
    /\ UNCHANGED <<rows, evidence, heard, cut>>

\* Fault: a success lifts whatever pause it finds.
LiftAnyPause(t) ==
    LET h == call[t].host
        seen == call[t].seen[h]
    IN  /\ At(t, "answered")
        /\ Done(t)
        /\ rows' = IF seen = NoRow \/ rows[h] = NoRow THEN rows
                   ELSE IF seen.refusals > 1
                   THEN [rows EXCEPT ![h] = Counted(@, "past", seen.refusals - 1)]
                   ELSE [rows EXCEPT ![h] = NoRow]
        /\ Cuts
        /\ UNCHANGED <<evidence, heard>>

\* The count goes down by one and the pause is lifted; the last one deletes the
\* row. Not in a platform's rest. An UPDATE of a row that has gone is lost.
Succeed(t) ==
    LET h == call[t].host
        seen == call[t].seen[h]
    IN  /\ At(t, "answered")
        /\ Done(t)
        /\ rows' = IF seen = NoRow \/ rows[h] = NoRow \/ (seen.platform /\ seen.until # "past")
                   THEN rows
                   ELSE IF seen.refusals > 1
                   THEN [rows EXCEPT ![h] = Counted(@, "past", seen.refusals - 1)]
                   ELSE [rows EXCEPT ![h] = NoRow]
        /\ Cuts
        /\ UNCHANGED <<evidence, heard>>

(***************************************************************************)
(* saw_429: the host is asking too often, and its platform may be too.     *)
(***************************************************************************)
TooMany(t) ==
    /\ At(t, "cleared")
    /\ evidence' = evidence \union {call[t].host}
    /\ heard' = heard \union {call[t].host}
    /\ Goto(t, "counting")
    /\ UNCHANGED <<rows, cut>>

\* Its broad except, wherever it was: even with the rest committed and the
\* evidence not yet spent.
Unrecorded(t) ==
    /\ call[t].pc \in Inside \union {"cleared"}
    /\ Goto(t, "slow")
    /\ UNCHANGED <<rows, evidence, heard, cut>>

Count(t) ==
    /\ At(t, "counting")
    /\ Goto(t, IF Cardinality(evidence) < THRESHOLD THEN "slow" ELSE "looking")
    /\ UNCHANGED <<rows, evidence, heard, cut>>

\* Fault: the rest that is running is not looked for.
LookAway(t) ==
    /\ At(t, "looking")
    /\ Goto(t, "reading")
    /\ UNCHANGED <<rows, evidence, heard, cut>>

\* _resting: a request already in flight when the rest began.
Look(t) ==
    /\ At(t, "looking")
    /\ Goto(t, IF PlatformRests(call[t].host) THEN "slow" ELSE "reading")
    /\ UNCHANGED <<rows, evidence, heard, cut>>

\* Row by row in the code: of a row only its presence and its mark are used, and
\* another rest, the one write to several rows, leaves all of them with both.
ReadRows(t) ==
    /\ At(t, "reading")
    /\ Read(t, "resting", Hosts)
    /\ UNCHANGED <<rows, evidence, heard, cut>>

\* A rest begins: what was heard before it is old news, and whoever has looked for
\* one already has missed it.
Begin(t) ==
    /\ heard' = {}
    /\ cut' = {h \in Hosts : ~PlatformRests(h)'}
    /\ call' = [u \in Threads |->
                  IF u = t THEN Moved(call[t], "spending", Nothing) ELSE Passed(call[u])]

\* Fault: a shop without a row is left out of the rest.
RestTheKnown(t) ==
    LET seen == call[t].seen
    IN  /\ At(t, "resting")
        /\ rows' = [h \in Hosts |->
                      IF seen[h] = NoRow \/ rows[h] = NoRow THEN rows[h]
                      ELSE Rested(rows[h], seen[h])]
        /\ Begin(t)
        /\ UNCHANGED evidence

\* Fault: no refusal is left on record for the week to end in.
RestWithoutRecord(t) ==
    LET seen == call[t].seen
    IN  /\ At(t, "resting")
        /\ rows' = [h \in Hosts |->
                      IF seen[h] = NoRow \/ rows[h] = NoRow
                      THEN [until |-> "week", refusals |-> 0, platform |-> TRUE]
                      ELSE Rested(rows[h], seen[h])]
        /\ Begin(t)
        /\ UNCHANGED evidence

\* _rest: one transaction over every shop's row. An INSERT that meets a row, or an
\* UPDATE that meets none, undoes all of it (and is then Unrecorded). refusals is
\* written only for a new row, and platform only where it was not yet set.
Rest(t) ==
    LET seen == call[t].seen
    IN  /\ At(t, "resting")
        /\ \A h \in Hosts : seen[h] = NoRow <=> rows[h] = NoRow
        /\ rows' = [h \in Hosts |->
                      IF seen[h] = NoRow
                      THEN [until |-> "week", refusals |-> 1, platform |-> TRUE]
                      ELSE Rested(rows[h], seen[h])]
        /\ Begin(t)
        /\ UNCHANGED evidence

\* The evidence is spent, and the rest announced.
Spend(t) ==
    /\ At(t, "spending")
    /\ evidence' = {}
    /\ Goto(t, "slow")
    /\ UNCHANGED <<rows, heard, cut>>

(***************************************************************************)
(* refused: 429 at the slowest pace available.                             *)
(***************************************************************************)
AtSlowest(t) ==
    /\ At(t, "slow")
    /\ Read(t, "refused", {call[t].host})
    /\ UNCHANGED <<rows, evidence, heard, cut>>

\* One more refusal and its pause, or the longer pause that was read. A new row
\* that meets another is lost, and so is the update of a row that has gone. The
\* doubling wait overflows one refusal after the last it can hold, and then
\* nothing is written.
Refuse(t) ==
    LET h == call[t].host
        seen == call[t].seen[h]
    IN  /\ At(t, "refused")
        /\ (seen = NoRow) = (rows[h] = NoRow) /\ Refusals(seen) < LastCount
        /\ Done(t)
        /\ rows' = [rows EXCEPT ![h] =
                      IF seen = NoRow THEN [until |-> "pause", refusals |-> 1, platform |-> FALSE]
                      ELSE Counted(@, IF seen.until = "week" THEN "week" ELSE "pause",
                                   seen.refusals + 1)]
        /\ Cuts
        /\ UNCHANGED <<evidence, heard>>

(***************************************************************************)
(* Time, and an administrator.                                             *)
(***************************************************************************)
\* No request, with all of its retries, takes a day.
Quiet == \A t \in Threads : At(t, "idle")

\* A pause may lapse while a request waits to be retried. A week may not, and when
\* it is over the refusals from before it are more than a day old.
Lapse(h) ==
    /\ ~Free(h)
    /\ Resting(h) => Quiet /\ evidence \subseteq heard
    /\ rows' = [rows EXCEPT ![h].until = "past"]
    /\ UNCHANGED <<evidence, call, heard, cut>>

\* A day has passed since the shop's last 429.
Age(h) ==
    /\ Quiet /\ h \in evidence
    /\ evidence' = evidence \ {h}
    /\ heard' = heard \ {h}
    /\ UNCHANGED <<rows, call, cut>>

\* "Stop resting" on the Sites page.
Clear(h) ==
    /\ rows[h] # NoRow
    /\ rows' = [rows EXCEPT ![h] = NoRow]
    /\ Cuts
    /\ UNCHANGED <<evidence, call, heard>>

Next ==
    \/ \E t \in Threads :
         \/ \E h \in Hosts : Ask(t, h)
         \/ GiveUp(t) \/ Retry(t)
         \/ Answer(t) \/ Succeed(t)
         \/ TooMany(t) \/ Unrecorded(t)
         \/ Count(t) \/ Look(t) \/ ReadRows(t) \/ Rest(t) \/ Spend(t)
         \/ AtSlowest(t) \/ Refuse(t)
    \/ \E h \in Hosts : Lapse(h) \/ Age(h) \/ Clear(h)

Spec == Init /\ [][Next]_vars

(***************************************************************************)
(* What the code owes.                                                     *)
(***************************************************************************)
\* A step of a request, as against one of time or of an administrator.
Request == call' # call

\* What succeeded recognises as a platform's rest when it reads it.
RestRead(row) == row # NoRow /\ row.until = "week" /\ row.platform

\* "A success does not lift such a pause early" (models.py), and a refusal never
\* shortens it. Two fetchers overlap, so this much is so: a request ends a shop's
\* rest only if it had read the shop's row before the rest was written there. One
\* that reads the rest leaves it, however old its reading is when it writes.
RestIsKept ==
    [][\A h \in Hosts : (Resting(h) /\ Request /\ ~Resting(h)') =>
          \E t \in Threads : /\ At(t, "answered") \/ At(t, "refused")
                             /\ call[t].host = h /\ ~RestRead(call[t].seen[h])]_vars

Begins(t) == At(t, "resting") /\ At(t, "spending")'

\* "one refusal then must not combine with refusals from before the rest": a rest
\* begins only when two shops have answered 429 within a day and since the last one
\* began. But for a request that had looked for a rest before that one began (the
\* second of two counts of the same refusals), and for a shop whose share of it was
\* ended before its time, while the evidence that bought it is still on record.
RestIsEarned ==
    [][\A t \in Threads : Begins(t) =>
          Cardinality(heard) >= THRESHOLD \/ call[t].passed \/ call[t].host \in cut]_vars

\* "every shop on that platform rests for a week": all of them or none, however
\* many requests write to their rows meanwhile.
RestCoversThePlatform ==
    [][\A t \in Threads : Begins(t) => \A h \in Hosts : Resting(h)']_vars

(***************************************************************************)
(* The strengthenings.                                                     *)
(***************************************************************************)
\* A request under way is to a host.
CallOK == \A t \in Threads : ~At(t, "idle") => call[t].host \in Hosts

\* The last rest runs on for every shop whose share of it was not ended early.
Running == \A h \in Hosts : RestRead(rows[h]) \/ h \in cut

\* Refusals from before the last rest are on record only while that rest runs.
OldNewsOK == evidence \subseteq heard \/ Running

\* A request that has yet to look for a rest counted refusals heard since the last
\* one, or will find that one running; one that has looked has heard enough, or
\* missed a rest, or its shop was out of the last one early.
CountOK ==
    \A t \in Threads :
        /\ At(t, "looking") => Cardinality(heard) >= THRESHOLD \/ Running
        /\ (At(t, "reading") \/ At(t, "resting")) =>
              Cardinality(heard) >= THRESHOLD \/ call[t].passed \/ call[t].host \in cut
=============================================================================
