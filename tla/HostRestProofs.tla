---------------------------- MODULE HostRestProofs ----------------------------
(***************************************************************************)
(* What HostRest guarantees for any number of shops and fetchers, however  *)
(* their reads and writes overlap: its types, a rest's reach, what it is   *)
(* begun for and what a request can do to it.                              *)
(***************************************************************************)
EXTENDS HostRest, FiniteSetTheorems, TLAPS

(***************************************************************************)
(* The records the actions write.                                          *)
(***************************************************************************)
LEMMA MovedRecord ==
  ASSUME NEW c \in Call, NEW stage \in Stages, NEW seen \in Rows
  PROVE  /\ Moved(c, stage, seen) \in Call
         /\ Moved(c, stage, seen).pc = stage /\ Moved(c, stage, seen).seen = seen
         /\ Moved(c, stage, seen).host = c.host /\ Moved(c, stage, seen).passed = c.passed
<1> DEFINE m == [c EXCEPT !.pc = stage]
            u == [m EXCEPT !.seen = seen]
<1>1. m \in Call /\ m.pc = stage /\ m.host = c.host /\ m.passed = c.passed
  BY DEF Call
<1> HIDE DEF m
<1>2. u \in Call /\ u.pc = stage /\ u.seen = seen /\ u.host = c.host /\ u.passed = c.passed
  BY <1>1 DEF Call
<1>3. Moved(c, stage, seen) = u
  BY DEF Moved, m
<1> QED BY <1>2, <1>3

LEMMA CountedRecord ==
  ASSUME NEW row \in Row, NEW until \in Until, NEW n \in 1..LastCount
  PROVE  /\ Counted(row, until, n) \in Row
         /\ Counted(row, until, n).until = until /\ Counted(row, until, n).refusals = n
         /\ Counted(row, until, n).platform = row.platform
<1> DEFINE m == [row EXCEPT !.until = until]
            u == [m EXCEPT !.refusals = n]
<1>1. m \in Row /\ m.until = until /\ m.platform = row.platform
  BY DEF Row
<1> HIDE DEF m
<1>2. u \in Row /\ u.until = until /\ u.refusals = n /\ u.platform = row.platform
  BY <1>1 DEF Row
<1>3. Counted(row, until, n) = u
  BY DEF Counted, m
<1> QED BY <1>2, <1>3

LEMMA RestedRecord ==
  ASSUME NEW row \in Row, NEW seen \in Row
  PROVE  /\ Rested(row, seen) \in Row
         /\ Rested(row, seen).until = "week"
         /\ Rested(row, seen).refusals = row.refusals
         /\ Rested(row, seen).platform = IF seen.platform THEN row.platform ELSE TRUE
<1> DEFINE m == [row EXCEPT !.until = "week"]
            u == [m EXCEPT !.platform = IF seen.platform THEN @ ELSE TRUE]
<1>1. m \in Row /\ m.until = "week" /\ m.platform = row.platform /\ m.refusals = row.refusals
  BY DEF Row, Until
<1> HIDE DEF m
<1>2. /\ u \in Row /\ u.until = "week" /\ u.refusals = row.refusals
      /\ u.platform = IF seen.platform THEN row.platform ELSE TRUE
  BY <1>1 DEF Row
<1>3. Rested(row, seen) = u
  BY DEF Rested, m
<1> QED BY <1>2, <1>3

LEMMA PassedRecord ==
  ASSUME NEW c \in Call
  PROVE  /\ Passed(c) \in Call
         /\ Passed(c).pc = c.pc /\ Passed(c).host = c.host
         /\ Passed(c).passed = (c.pc \in {"reading", "resting"})
<1> DEFINE b == c.pc \in {"reading", "resting"}
<1>1. b \in BOOLEAN
  OBVIOUS
<1>2. Passed(c) = [c EXCEPT !.passed = b]
  BY DEF Passed
<1>3. (c.pc \in {"reading", "resting"}) = b
  OBVIOUS
<1> HIDE DEF b
<1> QED BY <1>1, <1>2, <1>3 DEF Call

LEMMA NothingType == Nothing \in Rows /\ Idle \in Call /\ Idle.pc = "idle"
  BY DEF Nothing, Rows, Idle, Call, Stages, Inside

(***************************************************************************)
(* The types, and that a request under way is to a host.                   *)
(***************************************************************************)
TypeInv == TypeOK /\ CallOK

\* A thread's record replaced by one that keeps to its type.
LEMMA CallKept ==
  ASSUME TypeInv, NEW t \in Threads, NEW c \in Call, call' = [call EXCEPT ![t] = c],
         c.pc # "idle" => c.host \in Hosts
  PROVE  call' \in [Threads -> Call] /\ CallOK'
<1>1. call' \in [Threads -> Call] /\ call'[t] = c /\ \A u \in Threads \ {t} : call'[u] = call[u]
  BY DEF TypeInv, TypeOK
<1> QED BY <1>1 DEF TypeInv, CallOK, At

LEMMA RequestTypes ==
  ASSUME TypeInv, NEW t \in Threads,
         \/ \E h \in Hosts : Ask(t, h)
         \/ GiveUp(t) \/ Retry(t) \/ Answer(t) \/ TooMany(t) \/ Unrecorded(t)
         \/ Count(t) \/ Look(t) \/ ReadRows(t) \/ Spend(t) \/ AtSlowest(t)
  PROVE  TypeInv'
<1> USE ConstantsAssumption
<1>1. /\ rows \in Rows /\ evidence \subseteq Hosts /\ heard \subseteq Hosts
      /\ cut \subseteq Hosts
      /\ call \in [Threads -> Call] /\ call[t] \in Call
      /\ ~At(t, "idle") => call[t].host \in Hosts
  BY DEF TypeInv, TypeOK, CallOK
<1> DEFINE Kept == call' \in [Threads -> Call] /\ CallOK'
<1>2. Kept
  <2>1. ASSUME NEW stage \in Stages, NEW seen \in Rows, ~At(t, "idle"),
               call' = [call EXCEPT ![t] = Moved(call[t], stage, seen)]
        PROVE  Kept
    <3>1. Moved(call[t], stage, seen) \in Call /\ Moved(call[t], stage, seen).host \in Hosts
      BY <1>1, <2>1, MovedRecord
    <3> QED BY <2>1, <3>1, CallKept
  <2>2. ASSUME NEW stage \in Stages, ~At(t, "idle"), Goto(t, stage)
        PROVE  Kept
    BY <2>1, <2>2, NothingType DEF Goto
  <2>3. ASSUME NEW stage \in Stages, NEW hosts, ~At(t, "idle"), Read(t, stage, hosts)
        PROVE  Kept
    <3> DEFINE seen == [h \in Hosts |-> IF h \in hosts THEN rows[h] ELSE NoRow]
    <3>1. seen \in Rows
      BY <1>1 DEF Rows
    <3>2. call' = [call EXCEPT ![t] = Moved(call[t], stage, seen)]
      BY <2>3 DEF Read
    <3> HIDE DEF seen
    <3> QED BY <2>1, <2>3, <3>1, <3>2
  <2>4. ASSUME Done(t)
        PROVE  Kept
    BY <2>4, NothingType, CallKept DEF Done
  <2>5. ASSUME NEW h \in Hosts, NEW cached \in BOOLEAN, call' = [call EXCEPT ![t] = Cleared(h, cached)]
        PROVE  Kept
    <3>1. Cleared(h, cached) \in Call /\ Cleared(h, cached).host \in Hosts
      BY NothingType DEF Cleared, Call, Stages, Inside
    <3> QED BY <2>5, <3>1, CallKept
  <2>6. CASE \E h \in Hosts : Ask(t, h)
    BY <2>5, <2>6 DEF Ask
  <2>7. CASE GiveUp(t)
    BY <2>4, <2>7 DEF GiveUp
  <2>8. CASE Retry(t)
    <3>1. call[t].host \in Hosts /\ call' = [call EXCEPT ![t] = Cleared(call[t].host, FALSE)]
      BY <1>1, <2>8 DEF Retry, At
    <3> QED BY <2>5, <3>1, CallKept
  <2>9. CASE Answer(t)
    BY <2>3, <2>4, <2>9 DEF Answer, At, Stages, Inside
  <2>10. CASE TooMany(t)
    BY <2>2, <2>10 DEF TooMany, At, Stages, Inside
  <2>11. CASE Unrecorded(t)
    BY <2>2, <2>11 DEF Unrecorded, At, Stages, Inside
  <2>12. CASE Count(t)
    <3>1. /\ (IF Cardinality(evidence) < THRESHOLD THEN "slow" ELSE "looking") \in Stages
          /\ ~At(t, "idle")
      BY <2>12 DEF Count, At, Stages, Inside
    <3> QED BY <2>2, <2>12, <3>1 DEF Count
  <2>13. CASE Look(t)
    <3>1. /\ (IF PlatformRests(call[t].host) THEN "slow" ELSE "reading") \in Stages
          /\ ~At(t, "idle")
      BY <2>13 DEF Look, At, Stages, Inside
    <3> QED BY <2>2, <2>13, <3>1 DEF Look
  <2>14. CASE ReadRows(t)
    BY <2>3, <2>14 DEF ReadRows, At, Stages, Inside
  <2>15. CASE Spend(t)
    BY <2>2, <2>15 DEF Spend, At, Stages, Inside
  <2>16. CASE AtSlowest(t)
    BY <2>3, <2>16 DEF AtSlowest, At, Stages, Inside
  <2> QED BY <2>6, <2>7, <2>8, <2>9, <2>10, <2>11, <2>12, <2>13, <2>14, <2>15, <2>16
<1>3. rows' \in Rows /\ evidence' \subseteq Hosts /\ heard' \subseteq Hosts /\ cut' \subseteq Hosts
  BY <1>1 DEF Ask, GiveUp, Retry, Answer, TooMany, Unrecorded, Count, Look, ReadRows, Spend,
              AtSlowest, At
<1> QED BY <1>2, <1>3 DEF TypeInv, TypeOK

\* A success, a refusal and a rest: the steps of a request that write a row.
LEMMA WriteTypes ==
  ASSUME TypeInv, NEW t \in Threads, Succeed(t) \/ Refuse(t) \/ Rest(t)
  PROVE  TypeInv'
<1> USE ConstantsAssumption
<1> DEFINE h == call[t].host
           seen == call[t].seen
<1>1. /\ rows \in Rows /\ evidence \subseteq Hosts /\ heard \subseteq Hosts
      /\ cut \subseteq Hosts
      /\ call \in [Threads -> Call] /\ call[t] \in Call
      /\ h \in Hosts /\ seen \in Rows
  BY DEF TypeInv, TypeOK, CallOK, Call, Succeed, Refuse, Rest, At
<1> DEFINE Kept == call' \in [Threads -> Call] /\ CallOK'
<1>2. ASSUME Done(t) PROVE Kept
  BY <1>2, NothingType, CallKept DEF Done
<1>4. CASE Succeed(t)
  <2>1. rows' \in Rows
    <3>1. CASE seen[h] # NoRow /\ rows[h] # NoRow /\ seen[h].refusals > 1
      <4>1. seen[h] \in Row /\ rows[h] \in Row /\ seen[h].refusals - 1 \in 1..LastCount
        BY <1>1, <3>1 DEF Rows, Row
      <4>2. Counted(rows[h], "past", seen[h].refusals - 1) \in Row
        BY <4>1, CountedRecord DEF Until
      <4>3. rows' = [rows EXCEPT ![h] = Counted(rows[h], "past", seen[h].refusals - 1)] \/ rows' = rows
        BY <1>4, <3>1 DEF Succeed
      <4> QED BY <1>1, <4>2, <4>3 DEF Rows
    <3>2. CASE ~(seen[h] # NoRow /\ rows[h] # NoRow /\ seen[h].refusals > 1)
      <4>1. rows' = [rows EXCEPT ![h] = NoRow] \/ rows' = rows
        BY <1>4, <3>2 DEF Succeed
      <4> QED BY <1>1, <4>1 DEF Rows
    <3> QED BY <3>1, <3>2
  <2>2. Kept /\ evidence' \subseteq Hosts /\ heard' \subseteq Hosts /\ cut' \subseteq Hosts
    BY <1>1, <1>2, <1>4 DEF Succeed, Cuts
  <2> QED BY <2>1, <2>2 DEF TypeInv, TypeOK
<1>5. CASE Refuse(t)
  <2>1. rows' \in Rows
    <3>1. CASE seen[h] = NoRow
      <4>1. rows' = [rows EXCEPT ![h] = [until |-> "pause", refusals |-> 1, platform |-> FALSE]]
        BY <1>5, <3>1 DEF Refuse
      <4>2. [until |-> "pause", refusals |-> 1, platform |-> FALSE] \in Row
        BY DEF Row, Until
      <4> QED BY <1>1, <4>1, <4>2 DEF Rows
    <3>2. CASE seen[h] # NoRow
      <4> DEFINE until == IF seen[h].until = "week" THEN "week" ELSE "pause"
                 n == seen[h].refusals + 1
      <4>1. rows[h] # NoRow /\ Refusals(seen[h]) < LastCount
        BY <1>5, <3>2 DEF Refuse
      <4>2. rows[h] \in Row /\ seen[h] \in Row
        BY <1>1, <3>2, <4>1 DEF Rows
      <4>3. n \in 1..LastCount /\ until \in Until
        BY <3>2, <4>1, <4>2 DEF Refusals, Row, Until
      <4>4. rows' = [rows EXCEPT ![h] = Counted(rows[h], until, n)]
        BY <1>5, <3>2 DEF Refuse
      <4> HIDE DEF until, n
      <4>5. Counted(rows[h], until, n) \in Row
        BY <4>2, <4>3, CountedRecord
      <4> QED BY <1>1, <4>4, <4>5 DEF Rows
    <3> QED BY <3>1, <3>2
  <2>2. Kept /\ evidence' \subseteq Hosts /\ heard' \subseteq Hosts /\ cut' \subseteq Hosts
    BY <1>1, <1>2, <1>5 DEF Refuse, Cuts
  <2> QED BY <2>1, <2>2 DEF TypeInv, TypeOK
<1>6. CASE Rest(t)
  <2>1. rows' \in Rows
    <3>1. rows' = [z \in Hosts |->
                       IF seen[z] = NoRow
                       THEN [until |-> "week", refusals |-> 1, platform |-> TRUE]
                       ELSE Rested(rows[z], seen[z])]
      BY <1>6 DEF Rest
    <3>2. [until |-> "week", refusals |-> 1, platform |-> TRUE] \in Row
      BY DEF Row, Until
    <3>3. ASSUME NEW z \in Hosts, seen[z] # NoRow
          PROVE  Rested(rows[z], seen[z]) \in Row
      <4>1. rows[z] \in Row /\ seen[z] \in Row
        BY <1>1, <1>6, <3>3 DEF Rows, Rest
      <4> QED BY <4>1, RestedRecord DEF Row
    <3> QED BY <3>1, <3>2, <3>3 DEF Rows
  <2>2. Kept
    <3>1. /\ Moved(call[t], "spending", Nothing) \in Call
          /\ Moved(call[t], "spending", Nothing).host = h
      BY <1>1, NothingType, MovedRecord DEF Stages, Inside
    <3>2. \A u \in Threads : call[u] \in Call
      BY <1>1
    <3>3. \A u \in Threads : /\ Passed(call[u]) \in Call /\ Passed(call[u]).pc = call[u].pc
                             /\ Passed(call[u]).host = call[u].host
      BY <3>2, PassedRecord
    <3>4. call' = [u \in Threads |-> IF u = t THEN Moved(call[t], "spending", Nothing)
                                              ELSE Passed(call[u])]
      BY <1>6 DEF Rest, Begin
    <3>5. call' \in [Threads -> Call]
      BY <3>1, <3>3, <3>4
    <3>6. ASSUME NEW u \in Threads, ~At(u, "idle")' PROVE call'[u].host \in Hosts
      <4>1. CASE u = t
        BY <1>1, <3>1, <3>4, <4>1
      <4>2. CASE u # t
        <5>1. call'[u] = Passed(call[u])
          BY <3>4, <4>2
        <5>2. ~At(u, "idle")
          BY <3>3, <3>6, <5>1 DEF At
        <5> QED BY <3>3, <5>1, <5>2 DEF TypeInv, CallOK
      <4> QED BY <4>1, <4>2
    <3> QED BY <3>5, <3>6 DEF CallOK
  <2>3. evidence' \subseteq Hosts /\ heard' \subseteq Hosts /\ cut' \subseteq Hosts
    BY <1>1, <1>6 DEF Rest, Begin
  <2> QED BY <2>1, <2>2, <2>3 DEF TypeInv, TypeOK
<1> QED BY <1>4, <1>5, <1>6

\* Time and the administrator.
LEMMA TimeTypes ==
  ASSUME TypeInv, NEW h \in Hosts, Lapse(h) \/ Age(h) \/ Clear(h)
  PROVE  TypeInv'
<1>1. /\ rows \in Rows /\ evidence \subseteq Hosts /\ heard \subseteq Hosts
      /\ cut \subseteq Hosts
      /\ call \in [Threads -> Call] /\ call' = call /\ CallOK
  BY DEF TypeInv, TypeOK, Lapse, Age, Clear
<1>2. CASE Lapse(h)
  <2> DEFINE row == [rows[h] EXCEPT !.until = "past"]
  <2>1. rows[h] \in Row
    BY <1>1, <1>2 DEF Lapse, Free, Rows
  <2>2. row \in Row
    BY <2>1 DEF Row, Until
  <2>3. rows' = [rows EXCEPT ![h] = row] /\ evidence' = evidence /\ heard' = heard /\ cut' = cut
    BY <1>2 DEF Lapse
  <2> HIDE DEF row
  <2>4. rows' \in Rows
    BY <1>1, <2>2, <2>3 DEF Rows
  <2> QED BY <1>1, <2>3, <2>4 DEF TypeInv, TypeOK, CallOK, At
<1>3. CASE Age(h)
  BY <1>1, <1>3 DEF Age, TypeInv, TypeOK, CallOK, At
<1>4. CASE Clear(h)
  BY <1>1, <1>4 DEF Clear, Cuts, Rows, TypeInv, TypeOK, CallOK, At
<1> QED BY <1>2, <1>3, <1>4

LEMMA InitTypes == Init => TypeInv
  BY NothingType DEF Init, TypeInv, TypeOK, CallOK, At

LEMMA StepTypes == TypeInv /\ [Next]_vars => TypeInv'
<1> SUFFICES ASSUME TypeInv, [Next]_vars PROVE TypeInv'
  OBVIOUS
<1>1. CASE UNCHANGED vars
  BY <1>1 DEF vars, TypeInv, TypeOK, CallOK, At
<1>2. ASSUME NEW t \in Threads,
             \/ \E h \in Hosts : Ask(t, h)
             \/ GiveUp(t) \/ Retry(t)
             \/ Answer(t) \/ Succeed(t)
             \/ TooMany(t) \/ Unrecorded(t)
             \/ Count(t) \/ Look(t) \/ ReadRows(t) \/ Rest(t) \/ Spend(t)
             \/ AtSlowest(t) \/ Refuse(t)
      PROVE  TypeInv'
  <2>1. CASE Succeed(t) \/ Refuse(t) \/ Rest(t)
    BY <2>1, WriteTypes
  <2>2. CASE \/ \E h \in Hosts : Ask(t, h)
             \/ GiveUp(t) \/ Retry(t) \/ Answer(t) \/ TooMany(t) \/ Unrecorded(t)
             \/ Count(t) \/ Look(t) \/ ReadRows(t) \/ Spend(t) \/ AtSlowest(t)
    BY <2>2, RequestTypes
  <2> QED BY <1>2, <2>1, <2>2
<1>3. ASSUME NEW h \in Hosts, Lapse(h) \/ Age(h) \/ Clear(h)
      PROVE  TypeInv'
  BY <1>3, TimeTypes
<1> QED BY <1>1, <1>2, <1>3 DEF Next

\* Every row keeps its type and every request its host: a count on record is never
\* 0 and never past the last one a timedelta can hold.
THEOREM TypeCorrect == Spec => []TypeOK
<1>1. Init => TypeInv
  BY InitTypes
<1>2. TypeInv /\ [Next]_vars => TypeInv'
  BY StepTypes
<1>3. TypeInv => TypeOK
  BY DEF TypeInv
<1> QED BY <1>1, <1>2, <1>3, PTL DEF Spec

(***************************************************************************)
(* Whose step it is.                                                       *)
(***************************************************************************)
Step(t) ==
    \/ \E h \in Hosts : Ask(t, h)
    \/ GiveUp(t) \/ Retry(t)
    \/ Answer(t) \/ Succeed(t)
    \/ TooMany(t) \/ Unrecorded(t)
    \/ Count(t) \/ Look(t) \/ ReadRows(t) \/ Rest(t) \/ Spend(t)
    \/ AtSlowest(t) \/ Refuse(t)

\* A step moves one request; a rest also marks the others that it passed.
LEMMA OthersRecord ==
  ASSUME TypeInv, NEW t \in Threads, Step(t)
  PROVE  \A u \in Threads \ {t} :
           /\ ~Rest(t) => call'[u] = call[u]
           /\ call'[u].pc = call[u].pc /\ call'[u].host = call[u].host
           /\ Rest(t) => call'[u].passed = (call[u].pc \in {"reading", "resting"})
<1>1. call \in [Threads -> Call]
  BY DEF TypeInv, TypeOK
<1>2. CASE Rest(t)
  <2>1. \A u \in Threads \ {t} : call[u] \in Call /\ call'[u] = Passed(call[u])
    BY <1>1, <1>2 DEF Rest, Begin
  <2> QED BY <1>2, <2>1, PassedRecord
<1>3. CASE ~Rest(t)
  <2>1. \E c : call' = [call EXCEPT ![t] = c]
    BY <1>3 DEF Step, Ask, GiveUp, Retry, Answer, Succeed, TooMany, Unrecorded, Count, Look,
                ReadRows, Spend, AtSlowest, Refuse, Goto, Read, Done
  <2> QED BY <1>1, <1>3, <2>1
<1> QED BY <1>2, <1>3

\* Where a request is after each kind of step.
LEMMA After ==
  ASSUME TypeInv, NEW t \in Threads
  PROVE  /\ \A stage \in Stages : Goto(t, stage) =>
              /\ call'[t].pc = stage /\ call'[t].host = call[t].host
              /\ call'[t].passed = call[t].passed
         /\ \A stage \in Stages, hosts \in SUBSET Hosts : Read(t, stage, hosts) =>
              /\ call'[t].pc = stage /\ call'[t].host = call[t].host
              /\ call'[t].passed = call[t].passed
         /\ Done(t) => call'[t].pc = "idle"
         /\ Rest(t) => call'[t].pc = "spending"
<1>1. call \in [Threads -> Call] /\ call[t] \in Call /\ rows \in Rows
  BY DEF TypeInv, TypeOK
<1>2. ASSUME NEW stage \in Stages, Goto(t, stage)
      PROVE  /\ call'[t].pc = stage /\ call'[t].host = call[t].host
             /\ call'[t].passed = call[t].passed
  <2>1. call'[t] = Moved(call[t], stage, Nothing)
    BY <1>1, <1>2 DEF Goto
  <2> QED BY <1>1, <2>1, NothingType, MovedRecord
<1>3. ASSUME NEW stage \in Stages, NEW hosts \in SUBSET Hosts, Read(t, stage, hosts)
      PROVE  /\ call'[t].pc = stage /\ call'[t].host = call[t].host
             /\ call'[t].passed = call[t].passed
  <2> DEFINE seen == [h \in Hosts |-> IF h \in hosts THEN rows[h] ELSE NoRow]
  <2>1. seen \in Rows
    BY <1>1 DEF Rows
  <2>2. call'[t] = Moved(call[t], stage, seen)
    BY <1>1, <1>3 DEF Read
  <2> HIDE DEF seen
  <2> QED BY <1>1, <2>1, <2>2, MovedRecord
<1>4. ASSUME Done(t)
      PROVE  call'[t].pc = "idle"
  BY <1>1, <1>4, NothingType DEF Done
<1>5. ASSUME Rest(t)
      PROVE  call'[t].pc = "spending"
  <2>1. call'[t] = Moved(call[t], "spending", Nothing)
    BY <1>5 DEF Rest, Begin
  <2> QED BY <1>1, <2>1, NothingType, MovedRecord DEF Stages, Inside
<1> QED BY <1>2, <1>3, <1>4, <1>5

\* Only _rest leads from the stage it is read for to the one after it.
LEMMA RestStep ==
  ASSUME TypeInv, Next, NEW t \in Threads, Begins(t)
  PROVE  Rest(t)
<1>1. CASE \E h \in Hosts : Lapse(h) \/ Age(h) \/ Clear(h)
  BY <1>1 DEF Lapse, Age, Clear, Begins, At
<1>2. ASSUME NEW u \in Threads, Step(u)
      PROVE  Rest(t)
  <2>1. u = t
    BY <1>2, OthersRecord DEF Begins, At
  <2>2. CASE GiveUp(t) \/ Unrecorded(t)
    <3>1. call'[t].pc \in {"idle", "slow"}
      BY <2>2, After DEF GiveUp, Unrecorded, Stages
    <3> QED BY <3>1 DEF Begins, At
  <2>3. CASE ~(GiveUp(t) \/ Unrecorded(t))
    BY <1>2, <2>1, <2>3 DEF Begins, At, Step, Ask, Retry, Answer, Succeed, TooMany, Count, Look,
                            ReadRows, Spend, AtSlowest, Refuse
  <2> QED BY <2>2, <2>3
<1> QED BY <1>1, <1>2 DEF Next, Step

(***************************************************************************)
(* What each step does to the rows.                                        *)
(***************************************************************************)
\* A rest is of every shop.
LEMMA RestWhole ==
  ASSUME TypeInv, NEW t \in Threads, Rest(t)
  PROVE  /\ \A h \in Hosts : Resting(h)'
         /\ Running' /\ heard' = {} /\ evidence' = evidence
<1> USE ConstantsAssumption, NoRowAssumption
<1>1. /\ rows' = [h \in Hosts |->
                       IF call[t].seen[h] = NoRow
                       THEN [until |-> "week", refusals |-> 1, platform |-> TRUE]
                       ELSE Rested(rows[h], call[t].seen[h])]
      /\ \A h \in Hosts : call[t].seen[h] = NoRow <=> rows[h] = NoRow
      /\ heard' = {} /\ cut' = {h \in Hosts : ~PlatformRests(h)'} /\ evidence' = evidence
  BY DEF Rest, Begin
<1>2. ASSUME NEW h \in Hosts
      PROVE  rows'[h].until = "week" /\ rows'[h] \in Row
  <2>1. CASE call[t].seen[h] = NoRow
    BY <1>1, <2>1 DEF Row, Until
  <2>2. CASE call[t].seen[h] # NoRow
    <3> DEFINE row == rows[h]
               was == call[t].seen[h]
    <3>1. row \in Row /\ was \in Row
      BY <1>1, <2>2 DEF TypeInv, TypeOK, Call, Rows
    <3>2. rows'[h] = Rested(row, was)
      BY <1>1, <2>2
    <3> HIDE DEF row, was
    <3>3. Rested(row, was).until = "week" /\ Rested(row, was) \in Row
      BY <3>1, RestedRecord
    <3> QED BY <3>2, <3>3
  <2> QED BY <2>1, <2>2
<1>3. \A h \in Hosts : rows'[h] # NoRow
  BY <1>2
<1>4. ASSUME NEW h \in Hosts, h \notin cut' PROVE RestRead(rows'[h])
  BY <1>1, <1>2, <1>3, <1>4 DEF PlatformRests, RestRead
<1> QED BY <1>1, <1>2, <1>3, <1>4 DEF Resting, Running

\* A write back to the row of the host that was asked: it ends a rest only on a
\* reading of the row from before it, and never takes a rest's mark away.
LEMMA WriteBack ==
  ASSUME TypeInv, NEW t \in Threads, Succeed(t) \/ Refuse(t), NEW h \in Hosts, Resting(h)
  PROVE  /\ Resting(h)' \/ (/\ call[t].host = h /\ ~RestRead(call[t].seen[h])
                            /\ At(t, "answered") \/ At(t, "refused"))
         /\ Resting(h)' => rows'[h].platform = rows[h].platform
<1> USE ConstantsAssumption, NoRowAssumption
<1> DEFINE was == call[t].seen[h]
           row == rows[h]
<1>1. /\ was \in Row \union {NoRow} /\ row \in Row /\ row.until = "week"
      /\ rows \in Rows /\ call[t].host \in Hosts
  BY DEF TypeInv, TypeOK, CallOK, Call, Rows, Succeed, Refuse, At, Resting
<1>2. CASE rows'[h] = row
  BY <1>1, <1>2 DEF Resting
<1>3. CASE rows'[h] # row /\ Succeed(t)
  <2>1. /\ call[t].host = h /\ At(t, "answered")
        /\ was # NoRow /\ ~(was.platform /\ was.until # "past")
    BY <1>1, <1>3 DEF Succeed, Rows
  <2>2. ~RestRead(was)
    BY <2>1 DEF RestRead
  <2>3. ~Resting(h)'
    <3>1. CASE was.refusals > 1
      <4> DEFINE n == was.refusals - 1
                 new == Counted(row, "past", n)
      <4>1. rows' = [rows EXCEPT ![h] = new]
        BY <1>1, <1>3, <2>1, <3>1 DEF Succeed
      <4>2. n \in 1..LastCount /\ "past" \in Until
        BY <1>1, <2>1, <3>1 DEF Row, Until
      <4> HIDE DEF n, row, was
      <4>3. new.until = "past"
        BY <1>1, <4>2, CountedRecord
      <4> HIDE DEF new
      <4> QED BY <1>1, <4>1, <4>3 DEF Resting, Rows
    <3>2. CASE ~(was.refusals > 1)
      <4>1. rows' = [rows EXCEPT ![h] = NoRow]
        BY <1>1, <1>3, <2>1, <3>2 DEF Succeed
      <4> QED BY <1>1, <4>1 DEF Resting, Rows
    <3> QED BY <3>1, <3>2
  <2> QED BY <2>1, <2>2, <2>3
<1>4. CASE rows'[h] # row /\ Refuse(t)
  <2>1. call[t].host = h /\ At(t, "refused")
    BY <1>1, <1>4 DEF Refuse, Rows
  <2>2. was # NoRow /\ Refusals(was) < LastCount
    BY <1>1, <1>4, <2>1 DEF Refuse
  <2> DEFINE until == IF was.until = "week" THEN "week" ELSE "pause"
             n == was.refusals + 1
             new == Counted(row, until, n)
  <2>3. rows' = [rows EXCEPT ![h] = new]
    BY <1>4, <2>1, <2>2 DEF Refuse
  <2>4. n \in 1..LastCount /\ until \in Until
    BY <1>1, <2>2 DEF Refusals, Row, Until
  <2>5. /\ until = "week" \/ ~RestRead(call[t].seen[h])
        /\ rows[h] = row
    BY DEF RestRead
  <2> HIDE DEF n, row, was, until
  <2>6. new \in Row /\ new.until = until /\ new.platform = row.platform
    BY <1>1, <2>4, CountedRecord
  <2> HIDE DEF new
  <2>7. rows'[h] = new /\ new # NoRow
    BY <1>1, <2>3, <2>6 DEF Rows
  <2> QED BY <2>1, <2>5, <2>6, <2>7 DEF Resting
<1> QED BY <1>2, <1>3, <1>4

\* Every shop of the platform rests once one of its rests begins, however many
\* fetchers write to the rows meanwhile (the single transaction of _rest).
THEOREM WholePlatform == Spec => RestCoversThePlatform
<1>1. TypeInv /\ [Next]_vars =>
        [\A t \in Threads : Begins(t) => \A h \in Hosts : Resting(h)']_vars
  BY RestStep, RestWhole
<1> QED BY <1>1, InitTypes, StepTypes, PTL DEF Spec, RestCoversThePlatform

\* No request ends a rest that it has read, whatever was written since it read it:
\* succeeded and refused end only what was not there when they looked.
THEOREM RestsKept == Spec => RestIsKept
<1>1. ASSUME TypeInv, Next, NEW h \in Hosts, Resting(h), Request, ~Resting(h)'
      PROVE  \E t \in Threads : /\ At(t, "answered") \/ At(t, "refused")
                                /\ call[t].host = h /\ ~RestRead(call[t].seen[h])
  <2>1. PICK t \in Threads : Step(t)
    BY <1>1 DEF Next, Step, Lapse, Age, Clear, Request
  <2>2. CASE Succeed(t) \/ Refuse(t)
    BY <1>1, <2>2, WriteBack
  <2>3. CASE Rest(t)
    BY <1>1, <2>3, RestWhole
  <2>4. CASE ~(Succeed(t) \/ Refuse(t) \/ Rest(t))
    <3>1. rows' = rows
      BY <2>1, <2>4 DEF Step, Ask, GiveUp, Retry, Answer, TooMany, Unrecorded, Count, Look,
                        ReadRows, Spend, AtSlowest
    <3> QED BY <1>1, <3>1 DEF Resting
  <2> QED BY <2>2, <2>3, <2>4
<1>2. TypeInv /\ [Next]_vars =>
        [\A h \in Hosts : (Resting(h) /\ Request /\ ~Resting(h)') =>
            \E t \in Threads : /\ At(t, "answered") \/ At(t, "refused")
                               /\ call[t].host = h /\ ~RestRead(call[t].seen[h])]_vars
  BY <1>1
<1> QED BY <1>2, InitTypes, StepTypes, PTL DEF Spec, RestIsKept

(***************************************************************************)
(* What a rest is begun for.                                               *)
(***************************************************************************)
EarnedInv == TypeInv /\ OldNewsOK /\ CountOK

\* A rest that runs goes on running but for a new one, and for time.
LEMMA RunsOn ==
  ASSUME TypeInv, Running,
         \/ \E t \in Threads : Step(t)
         \/ \E h \in Hosts : Age(h) \/ Clear(h)
         \/ \E h \in Hosts : Lapse(h) /\ ~Resting(h)
  PROVE  Running'
<1> USE ConstantsAssumption, NoRowAssumption
<1>1. rows \in Rows
  BY DEF TypeInv, TypeOK
<1>2. CASE UNCHANGED <<rows, cut>>
  BY <1>2 DEF Running
<1>3. ASSUME NEW t \in Threads, Succeed(t) \/ Refuse(t)
      PROVE  Running'
  <2> SUFFICES ASSUME NEW h \in Hosts, h \notin cut' PROVE RestRead(rows'[h])
    BY DEF Running
  <2>1. cut' = cut \union {z \in Hosts : Resting(z) /\ ~Resting(z)'}
    BY <1>3 DEF Succeed, Refuse, Cuts
  <2>2. RestRead(rows[h])
    BY <2>1 DEF Running
  <2>3. Resting(h)
    BY <2>2 DEF RestRead, Resting
  <2>4. Resting(h)'
    BY <2>1, <2>3
  <2>5. rows'[h].platform = rows[h].platform
    BY <1>3, <2>3, <2>4, WriteBack
  <2> QED BY <2>2, <2>4, <2>5 DEF RestRead, Resting
<1>4. ASSUME NEW t \in Threads, Rest(t) PROVE Running'
  BY <1>4, RestWhole
<1>5. ASSUME NEW t \in Threads, Step(t), ~(Succeed(t) \/ Refuse(t) \/ Rest(t))
      PROVE  Running'
  <2>1. UNCHANGED <<rows, cut>>
    BY <1>5 DEF Step, Ask, GiveUp, Retry, Answer, TooMany, Unrecorded, Count, Look,
                ReadRows, Spend, AtSlowest
  <2> QED BY <1>2, <2>1
<1>6. ASSUME NEW h \in Hosts, Clear(h) PROVE Running'
  <2>1. /\ rows'[h] = NoRow /\ \A z \in Hosts \ {h} : rows'[z] = rows[z]
        /\ cut' = cut \union {z \in Hosts : Resting(z) /\ ~Resting(z)'}
    BY <1>1, <1>6 DEF Clear, Cuts, Rows
  <2>2. h \in cut' \/ ~RestRead(rows[h])
    BY <2>1 DEF Resting, RestRead
  <2> QED BY <2>1, <2>2 DEF Running
<1>7. ASSUME NEW h \in Hosts, Lapse(h), ~Resting(h) PROVE Running'
  <2>1. (\A z \in Hosts \ {h} : rows'[z] = rows[z]) /\ cut' = cut
    BY <1>1, <1>7 DEF Lapse, Rows
  <2>2. h \in cut
    BY <1>7 DEF Running, Resting, RestRead
  <2> QED BY <2>1, <2>2 DEF Running
<1>8. ASSUME NEW h \in Hosts, Age(h) PROVE Running'
  BY <1>2, <1>8 DEF Age
<1> QED BY <1>3, <1>4, <1>5, <1>6, <1>7, <1>8

LEMMA EarnedInit == Init => EarnedInv
<1> SUFFICES ASSUME Init PROVE EarnedInv
  OBVIOUS
<1>1. TypeInv
  BY InitTypes
<1> QED BY <1>1, NothingType DEF Init, EarnedInv, OldNewsOK, CountOK, At

\* Old refusals stay on record only while the rest they bought runs.
LEMMA OldNewsKept == EarnedInv /\ [Next]_vars => OldNewsOK'
<1> SUFFICES ASSUME EarnedInv, [Next]_vars PROVE OldNewsOK'
  OBVIOUS
<1>1. TypeInv /\ OldNewsOK
  BY DEF EarnedInv
<1>2. CASE UNCHANGED vars
  BY <1>1, <1>2 DEF vars, OldNewsOK, Running
<1>3. ASSUME NEW t \in Threads, Step(t) PROVE OldNewsOK'
  <2>1. CASE Running
    BY <1>1, <1>3, <2>1, RunsOn DEF OldNewsOK
  <2>2. CASE ~Running /\ Rest(t)
    BY <1>1, <2>2, RestWhole DEF OldNewsOK
  <2>3. CASE ~Running /\ ~Rest(t)
    <3>1. evidence \subseteq heard
      BY <1>1, <2>3 DEF OldNewsOK
    <3>2. evidence' \subseteq heard'
      BY <1>3, <2>3, <3>1 DEF Step, Ask, GiveUp, Retry, Answer, Succeed, TooMany, Unrecorded,
                              Count, Look, ReadRows, Spend, AtSlowest, Refuse
    <3> QED BY <3>2 DEF OldNewsOK
  <2> QED BY <2>1, <2>2, <2>3
<1>4. ASSUME NEW h \in Hosts, Lapse(h) \/ Age(h) \/ Clear(h) PROVE OldNewsOK'
  <2>1. CASE evidence \subseteq heard
    <3>1. evidence' \subseteq heard'
      BY <1>4, <2>1 DEF Lapse, Age, Clear
    <3> QED BY <3>1 DEF OldNewsOK
  <2>2. CASE ~(evidence \subseteq heard)
    <3>1. Running /\ ~(Lapse(h) /\ Resting(h))
      BY <1>1, <2>2 DEF OldNewsOK, Lapse
    <3>2. Running'
      BY <1>1, <1>4, <3>1, RunsOn
    <3> QED BY <3>2 DEF OldNewsOK
  <2> QED BY <2>1, <2>2
<1> QED BY <1>2, <1>3, <1>4 DEF Next, Step

\* What a request has counted stays good, or is passed by a rest.
LEMMA CountsKept == EarnedInv /\ [Next]_vars => CountOK'
<1> USE ConstantsAssumption
<1> SUFFICES ASSUME EarnedInv, [Next]_vars PROVE CountOK'
  OBVIOUS
<1>1. TypeInv /\ OldNewsOK /\ CountOK /\ call \in [Threads -> Call] /\ rows \in Rows
      /\ evidence \subseteq Hosts /\ heard \subseteq Hosts
  BY DEF EarnedInv, TypeInv, TypeOK
<1> DEFINE Enough == Cardinality(heard) >= THRESHOLD
           Fine(u) == /\ At(u, "looking") => Enough \/ Running
                      /\ (At(u, "reading") \/ At(u, "resting")) =>
                            Enough \/ call[u].passed \/ call[u].host \in cut
<1>2. SUFFICES ASSUME NEW u \in Threads PROVE Fine(u)'
  BY DEF CountOK
<1>3. Fine(u)
  BY <1>1 DEF CountOK
<1>4. CASE UNCHANGED vars
  BY <1>3, <1>4 DEF vars, At, Running
<1>5. ASSUME NEW t \in Threads, Rest(t) PROVE Fine(u)'
  <2>1. Running'
    BY <1>1, <1>5, RestWhole
  <2>2. CASE u = t
    <3>1. call'[u].pc = "spending"
      BY <1>1, <1>5, <2>2, After
    <3> QED BY <3>1 DEF At
  <2>3. CASE u # t
    <3>1. call'[u].pc = call[u].pc /\ call'[u].passed = (call[u].pc \in {"reading", "resting"})
      BY <1>1, <1>5, <2>3, OthersRecord DEF Step
    <3>2. (At(u, "reading") \/ At(u, "resting"))' => call'[u].passed
      BY <3>1 DEF At
    <3> QED BY <2>1, <3>2
  <2> QED BY <2>2, <2>3
\* Where nothing was heard anew, nor a rest begun.
<1>6. ASSUME NEW t \in Threads, Step(t), ~Rest(t)
      PROVE  /\ cut \subseteq cut'
             /\ Running => Running'
             /\ Enough => Enough'
  <2>1. cut \subseteq cut'
    BY <1>6 DEF Step, Ask, GiveUp, Retry, Answer, Succeed, TooMany, Unrecorded, Count, Look,
                ReadRows, Spend, AtSlowest, Refuse, Cuts
  <2>2. Running => Running'
    BY <1>1, <1>6, RunsOn
  <2>3. heard \subseteq heard' /\ heard' \subseteq Hosts
    <3>1. CASE TooMany(t)
      BY <1>1, <3>1 DEF TooMany, At, TypeInv, CallOK
    <3>2. CASE ~TooMany(t)
      <4>1. heard' = heard
        BY <1>6, <3>2 DEF Step, Ask, GiveUp, Retry, Answer, Succeed, Unrecorded, Count, Look,
                ReadRows, Spend, AtSlowest, Refuse
      <4> QED BY <1>1, <4>1
    <3> QED BY <3>1, <3>2
  <2>4. /\ Cardinality(heard) \in Nat /\ Cardinality(heard') \in Nat
        /\ Cardinality(heard) <= Cardinality(heard')
    <3>1. IsFiniteSet(heard')
      BY <2>3, FS_Subset
    <3> QED BY <2>3, <3>1, FS_Subset, FS_CardinalityType
  <2>5. Enough => Enough'
    BY <2>4 DEF THRESHOLD
  <2> QED BY <2>1, <2>2, <2>5
<1>7. ASSUME NEW t \in Threads, Step(t), ~Rest(t), t # u PROVE Fine(u)'
  <2>1. call'[u] = call[u]
    BY <1>1, <1>7, OthersRecord
  <2> HIDE DEF Enough
  <2> QED BY <1>3, <1>6, <1>7, <2>1 DEF At
<1>8. ASSUME Step(u), ~Rest(u) PROVE Fine(u)'
  <2>1. CASE Count(u)
    <3>1. CASE Cardinality(evidence) < THRESHOLD
      <4>1. call'[u].pc = "slow"
        BY <1>1, <2>1, <3>1, After DEF Count, Stages
      <4> QED BY <4>1 DEF At
    <3>2. CASE ~(Cardinality(evidence) < THRESHOLD)
      <4>1. call'[u].pc = "looking" /\ heard' = heard
        BY <1>1, <2>1, <3>2, After DEF Count, Stages, Inside
      <4>2. CASE Running
        BY <1>6, <1>8, <4>1, <4>2 DEF At
      <4>3. CASE evidence \subseteq heard
        <5>1. IsFiniteSet(heard)
          BY <1>1, FS_Subset
        <5>2. /\ Cardinality(evidence) \in Nat /\ Cardinality(heard) \in Nat
              /\ Cardinality(evidence) <= Cardinality(heard)
          BY <4>3, <5>1, FS_Subset, FS_CardinalityType
        <5>3. Enough
          BY <3>2, <5>2 DEF THRESHOLD
        <5> QED BY <1>6, <1>8, <4>1, <5>3 DEF At
      <4> QED BY <1>1, <4>2, <4>3 DEF OldNewsOK
    <3> QED BY <3>1, <3>2
  <2>2. CASE Look(u)
    <3>1. Enough \/ Running
      BY <1>3, <2>2 DEF Look
    <3>2. CASE PlatformRests(call[u].host)
      <4>1. call'[u].pc = "slow"
        BY <1>1, <2>2, <3>2, After DEF Look, Stages
      <4> QED BY <4>1 DEF At
    <3>3. CASE ~PlatformRests(call[u].host)
      <4>1. call'[u].pc = "reading" /\ call'[u].host = call[u].host
        BY <1>1, <2>2, <3>3, After DEF Look, Stages, Inside
      <4>2. call[u].host \in Hosts
        BY <2>2 DEF Look, At, EarnedInv, TypeInv, CallOK
      <4>3. Running => call[u].host \in cut
        BY <3>3, <4>2 DEF Running, RestRead, PlatformRests
      <4> HIDE DEF Enough
      <4>4. Enough' \/ call[u].host \in cut'
        BY <1>6, <1>8, <3>1, <4>3
      <4> QED BY <4>1, <4>4 DEF At
    <3> QED BY <3>2, <3>3
  <2>3. CASE ReadRows(u)
    <3>1. At(u, "reading") /\ call'[u].pc = "resting" /\ call'[u].host = call[u].host
          /\ call'[u].passed = call[u].passed
      BY <1>1, <2>3, After DEF ReadRows, Stages, Inside
    <3> HIDE DEF Enough
    <3> QED BY <1>3, <1>6, <1>8, <3>1 DEF At
  <2>4. CASE ~(Count(u) \/ Look(u) \/ ReadRows(u))
    <3>1. call'[u].pc \notin {"looking", "reading", "resting"}
      <4>1. CASE (\E h \in Hosts : Ask(u, h)) \/ Retry(u)
        BY <1>1, <4>1 DEF Ask, Retry, Cleared
      <4>2. CASE Done(u)
        BY <1>1, <4>2, After
      <4>3. CASE TooMany(u) \/ Unrecorded(u) \/ Spend(u)
        BY <1>1, <4>3, After DEF TooMany, Unrecorded, Spend, Stages, Inside
      <4>4. CASE Answer(u) \/ AtSlowest(u)
        <5>1. {call[u].host} \in SUBSET Hosts
          BY <4>4 DEF Answer, AtSlowest, At, EarnedInv, TypeInv, CallOK
        <5> QED BY <1>1, <4>2, <4>4, <5>1, After DEF Answer, AtSlowest, Stages
      <4> QED BY <1>8, <2>4, <4>1, <4>2, <4>3, <4>4 DEF Step, GiveUp, Succeed, Refuse
    <3> QED BY <3>1 DEF At
  <2> QED BY <2>1, <2>2, <2>3, <2>4
<1>9. ASSUME NEW h \in Hosts, Lapse(h) \/ Age(h) \/ Clear(h) PROVE Fine(u)'
  <2>1. call' = call /\ cut \subseteq cut'
    BY <1>9 DEF Lapse, Age, Clear, Cuts
  <2>2. CASE Quiet
    BY <2>1, <2>2 DEF Quiet, At
  <2>3. CASE ~Quiet
    <3>1. ~Age(h) /\ ~(Lapse(h) /\ Resting(h)) /\ heard' = heard
      BY <1>9, <2>3 DEF Age, Lapse, Clear
    <3>2. Running => Running'
      BY <1>1, <1>9, <3>1, RunsOn
    <3> QED BY <1>3, <2>1, <3>1, <3>2 DEF At
  <2> QED BY <2>2, <2>3
<1> QED BY <1>4, <1>5, <1>7, <1>8, <1>9 DEF Next, Step

\* A rest is begun for two shops' refusals since the last one, but by a request that
\* the last one passed and for a shop that was out of it early: no refusal from
\* before a rest counts against a shop that has served it.
THEOREM RestsEarned == Spec => RestIsEarned
<1>1. EarnedInv /\ [Next]_vars => EarnedInv'
  BY StepTypes, OldNewsKept, CountsKept DEF EarnedInv
<1>2. EarnedInv /\ [Next]_vars =>
        [\A t \in Threads : Begins(t) =>
            Cardinality(heard) >= THRESHOLD \/ call[t].passed \/ call[t].host \in cut]_vars
  BY DEF EarnedInv, CountOK, Begins
<1> QED BY <1>1, <1>2, EarnedInit, PTL DEF Spec, RestIsEarned
=============================================================================
