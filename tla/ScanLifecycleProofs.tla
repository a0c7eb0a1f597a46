------------------------- MODULE ScanLifecycleProofs -------------------------
(***************************************************************************)
(* What ScanLifecycle guarantees for any number of sites, processes,       *)
(* workers and rows, however often a commit fails or a process dies.       *)
(***************************************************************************)
EXTENDS ScanLifecycle, TLAPS

(***************************************************************************)
(* The records the actions write are well typed.                           *)
(***************************************************************************)
LEMMA ClosedRowType == BlankRow \in Row /\ \A st \in Closed : ClosedAs(st) \in Row
  BY DEF BlankRow, ClosedAs, Row, Status, Closed

LEMMA AbandonedType == \A r \in Rows : Abandoned(r) \in Row
  BY ClosedRowType DEF Abandoned, Closed

LEMMA IdleType == Idle \in Task
  BY DEF Idle, Task

LEMMA QueuedType == \A s \in Sites, b \in BOOLEAN : Queued(s, b) \in Task
  BY DEF Queued, Task

\* What the three ways to move a worker's record do to its fields.
LEMMA MovedRecord ==
  ASSUME NEW t \in Task, NEW pc \in Scanning, NEW u, u = [t EXCEPT !.pc = pc]
  PROVE  u \in Task /\ u.pc = pc /\ u.site = t.site /\ u.row = t.row
  BY DEF Task, Scanning

LEMMA OpenedRecord ==
  ASSUME NEW t \in Task, NEW r \in Rows
  PROVE  /\ Opened(t, r) \in Task
         /\ Opened(t, r).pc = "stream" /\ Opened(t, r).site = t.site /\ Opened(t, r).row = r
<1> DEFINE m == [t EXCEPT !.pc = "stream"]
            u == [m EXCEPT !.row = r]
<1>2. m \in Task /\ m.pc = "stream" /\ m.site = t.site
  BY DEF Task, Scanning
<1> HIDE DEF m
<1>3. u \in Task /\ u.pc = "stream" /\ u.site = t.site /\ u.row = r
  BY <1>2 DEF Task
<1>4. Opened(t, r) = u
  BY DEF Opened, m
<1> QED BY <1>3, <1>4

LEMMA ConcludedRecord ==
  ASSUME NEW t \in Task, NEW v \in Closed
  PROVE  /\ Concluded(t, v) \in Task
         /\ Concluded(t, v).pc = "close" /\ Concluded(t, v).verdict = v
         /\ Concluded(t, v).site = t.site /\ Concluded(t, v).row = t.row
<1> DEFINE m == [t EXCEPT !.pc = "close"]
            u == [m EXCEPT !.verdict = v]
<1>2. m \in Task /\ m.pc = "close" /\ m.site = t.site /\ m.row = t.row
  BY DEF Task, Scanning
<1> HIDE DEF m
<1>3. u \in Task /\ u.pc = "close" /\ u.verdict = v /\ u.site = t.site /\ u.row = t.row
  BY <1>2 DEF Task
<1>4. Concluded(t, v) = u
  BY DEF Concluded, m
<1> QED BY <1>3, <1>4

\* A worker that moves on within run_scan changes its program counter only.
LEMMA GotoType ==
  ASSUME TypeOK, NEW w \in Workers, NEW pc \in Scanning, Goto(w, pc)
  PROVE  /\ task' \in [Workers -> Task]
         /\ \A v \in Workers : v # w => task'[v] = task[v]
         /\ task'[w] = [task[w] EXCEPT !.pc = pc]
  BY DEF TypeOK, Goto, Task, Scanning

LEMMA StopType ==
  ASSUME TypeOK, NEW w \in Workers, Stop(w)
  PROVE  /\ task' \in [Workers -> Task]
         /\ \A v \in Workers : v # w => task'[v] = task[v]
         /\ task'[w] = Idle
  BY IdleType DEF TypeOK, Stop

LEMMA UnregisterType ==
  ASSUME TypeOK, NEW w \in Workers, Unregister(w)
  PROVE  /\ registry' \in [Procs -> SUBSET Sites]
         /\ cancels' \in [Procs -> SUBSET Sites]
  BY ConstantsAssumption DEF TypeOK, Unregister

LEMMA DbErrorType ==
  ASSUME TypeOK, NEW e, DbError(e)
  PROVE  dbErrors' \in 0..MaxDbErrors
  BY ConstantsAssumption DEF TypeOK, DbError

LEMMA SetStatusType ==
  ASSUME TypeOK, NEW w \in Workers, NEW st \in Closed, SetStatus(w, st)
  PROVE  rows' \in [Rows -> Row]
  BY ClosedRowType DEF TypeOK, SetStatus

(***************************************************************************)
(* TypeOK and TaskOK, action by action.                                    *)
(***************************************************************************)
\* What every action that moves one worker has to show of TaskOK.
LEMMA OneTask ==
  ASSUME TypeOK, TaskOK, NEW w \in Workers, pid' = pid,
         \A v \in Workers : v # w => task'[v] = task[v],
         task'[w].pc # "idle" => task'[w].site \in Sites /\ Up(Home[w]),
         task'[w].pc = "close" => task'[w].verdict \in Closed,
         task'[w].row \in Rows <=> task'[w].pc \in {"stream", "broken", "close", "release"}
  PROVE  TaskOK'
  BY DEF TaskOK, Up

\* The same for a worker that changes its program counter and nothing else.
LEMMA GotoTask ==
  ASSUME TypeOK, TaskOK, NEW w \in Workers, NEW pc \in Scanning \ {"close"},
         Goto(w, pc), pid' = pid, task[w].pc # "idle",
         task[w].row \in Rows <=> pc \in {"stream", "broken", "close", "release"}
  PROVE  TaskOK'
<1>1. task[w].site \in Sites /\ Up(Home[w]) /\ task[w] \in Task
  BY DEF TypeOK, TaskOK
<1>2. task'[w].pc = pc /\ task'[w].site = task[w].site /\ task'[w].row = task[w].row
  <2>1. task'[w] = [task[w] EXCEPT !.pc = pc]
    BY GotoType
  <2> QED BY <1>1, <2>1, MovedRecord
<1> QED BY <1>1, <1>2, GotoType, OneTask

LEMMA RowWhenWorking ==
  ASSUME TaskOK, NEW w \in Workers
  PROVE  task[w].row \in Rows <=> task[w].pc \in {"stream", "broken", "close", "release"}
  BY DEF TaskOK

LEMMA ProcessTypes ==
  ASSUME TypeOK, TaskOK, NEW p \in Procs, Start(p) \/ Crash(p) \/ Exit(p) \/ Reap(p)
  PROVE  TypeOK' /\ TaskOK'
<1>1. CASE Start(p)
  BY <1>1, ConstantsAssumption DEF Start, TypeOK, TaskOK, Up
<1>2. ASSUME Vanish(p), crashes' \in 0..MaxCrashes
      PROVE  TypeOK' /\ TaskOK'
  <2>1. TypeOK'
    BY <1>2, IdleType DEF Vanish, TypeOK
  <2>2. TaskOK'
    BY <1>2, ConstantsAssumption DEF Vanish, TypeOK, TaskOK, Up, Idle
  <2> QED BY <2>1, <2>2
<1>3. CASE Crash(p)
  BY <1>2, <1>3, ConstantsAssumption DEF Crash, TypeOK
<1>4. CASE Exit(p)
  BY <1>2, <1>4 DEF Exit, TypeOK
<1>5. CASE Reap(p)
  BY <1>5, AbandonedType DEF Reap, TypeOK, TaskOK, Up
<1> QED BY <1>1, <1>3, <1>4, <1>5

LEMMA AskTypes ==
  ASSUME TypeOK, TaskOK, NEW w \in Workers, NEW s \in Sites, NEW p \in Procs,
         Dispatch(w, s) \/ Request(w, s) \/ RequestCancel(p, s)
  PROVE  TypeOK' /\ TaskOK'
<1>1. CASE Dispatch(w, s)
  <2>1. TypeOK'
    BY <1>1, QueuedType DEF Dispatch, TypeOK
  <2>2. TaskOK'
    BY <1>1, OneTask, ConstantsAssumption DEF Dispatch, Queued, TypeOK
  <2> QED BY <2>1, <2>2
<1>2. CASE Request(w, s)
  <2>1. TypeOK'
    BY <1>2, QueuedType DEF Request, TypeOK
  <2>2. TaskOK'
    BY <1>2, OneTask, ConstantsAssumption DEF Request, Queued, TypeOK
  <2> QED BY <2>1, <2>2
<1>3. CASE RequestCancel(p, s)
  BY <1>3 DEF RequestCancel, TypeOK, TaskOK, Up
<1> QED BY <1>1, <1>2, <1>3

LEMMA ClaimTypes ==
  ASSUME TypeOK, TaskOK, NEW w \in Workers,
         Register(w) \/ Refuse(w) \/ ClaimBusy(w) \/ Claim(w) \/ ClaimError(w)
  PROVE  TypeOK' /\ TaskOK'
<1> USE ConstantsAssumption
<1>1. CASE Register(w)
  <2>1. task[w].site \in Sites
    BY <1>1 DEF Register, TaskOK
  <2>2. TypeOK'
    BY <1>1, <2>1, GotoType DEF Register, TypeOK, Scanning
  <2>3. TaskOK'
    BY <1>1, GotoTask, RowWhenWorking DEF Register, Scanning
  <2> QED BY <2>2, <2>3
<1>2. CASE Refuse(w)
  <2>1. TypeOK'
    BY <1>2, StopType DEF Refuse, TypeOK
  <2>2. TaskOK'
    BY <1>2, StopType, OneTask DEF Refuse, Idle
  <2> QED BY <2>1, <2>2
<1>3. CASE ClaimBusy(w)
  <2>1. TypeOK'
    BY <1>3, StopType, UnregisterType DEF ClaimBusy, TypeOK
  <2>2. TaskOK'
    BY <1>3, StopType, OneTask DEF ClaimBusy, Idle
  <2> QED BY <2>1, <2>2
<1>4. CASE Claim(w)
  <2>1. TypeOK'
    BY <1>4, GotoType, AbandonedType DEF Claim, TypeOK, Scanning
  <2>2. TaskOK'
    BY <1>4, GotoTask, RowWhenWorking DEF Claim, Scanning
  <2> QED BY <2>1, <2>2
<1>5. CASE ClaimError(w)
  <2>1. TypeOK'
    BY <1>5, StopType, DbErrorType DEF ClaimError, TypeOK
  <2>2. TaskOK'
    BY <1>5, StopType, OneTask DEF ClaimError, Idle
  <2> QED BY <2>1, <2>2
<1> QED BY <1>1, <1>2, <1>3, <1>4, <1>5

\* A stream that ends leaves its worker at the close with a verdict.
LEMMA ConcludedTask ==
  ASSUME TypeOK, TaskOK, NEW w \in Workers, NEW v \in Closed, pid' = pid,
         task[w].pc = "stream",
         task' = [task EXCEPT ![w] = Concluded(@, v)]
  PROVE  task' \in [Workers -> Task] /\ TaskOK'
<1>1. task[w] \in Task /\ task[w].site \in Sites /\ task[w].row \in Rows /\ Up(Home[w])
  BY DEF TypeOK, TaskOK
<1>2. task'[w] = Concluded(task[w], v)
  BY DEF TypeOK
<1>3. task'[w] \in Task
  BY <1>1, <1>2, ConcludedRecord
<1>4. /\ task'[w].pc = "close" /\ task'[w].verdict = v
      /\ task'[w].site = task[w].site /\ task'[w].row = task[w].row
  BY <1>1, <1>2, ConcludedRecord
<1>5. task' \in [Workers -> Task]
  BY <1>3 DEF TypeOK
<1> QED BY <1>1, <1>4, <1>5, OneTask

LEMMA RunTypes ==
  ASSUME TypeOK, TaskOK, NEW w \in Workers,
         \/ Open(w) \/ OpenError(w) \/ CloseUnregistered(w) \/ StreamRaises(w)
         \/ Conclude(w) \/ StreamError(w)
  PROVE  TypeOK' /\ TaskOK'
<1> USE ConstantsAssumption
<1>1. CASE Open(w)
  <2>1. PICK r \in Rows : /\ rows' = [rows EXCEPT ![r] = NewRow(task[w].site, Home[w])]
                          /\ task' = [task EXCEPT ![w] = Opened(@, r)]
    BY <1>1 DEF Open, FreeRows
  <2>2. NewRow(task[w].site, Home[w]) \in Row
    BY DEF NewRow, Row, Status, TypeOK, Task
  <2>3. task[w] \in Task /\ task[w].site \in Sites /\ Up(Home[w])
    BY <1>1 DEF Open, TypeOK, TaskOK
  <2>4. task'[w] = Opened(task[w], r)
    BY <2>1 DEF TypeOK
  <2>5. task'[w] \in Task
    BY <2>3, <2>4, OpenedRecord
  <2>6. TypeOK'
    BY <1>1, <2>1, <2>2, <2>4, <2>5 DEF Open, TypeOK
  <2>7. /\ task'[w].pc = "stream" /\ task'[w].row = r
        /\ task'[w].site = task[w].site
    BY <2>3, <2>4, OpenedRecord
  <2>8. TaskOK'
    BY <1>1, <2>1, <2>3, <2>7, OneTask DEF Open
  <2> QED BY <2>6, <2>8
<1>2. CASE OpenError(w)
  <2>1. TypeOK'
    BY <1>2, StopType, UnregisterType, DbErrorType DEF OpenError, TypeOK
  <2>2. TaskOK'
    BY <1>2, StopType, OneTask DEF OpenError, Idle
  <2> QED BY <2>1, <2>2
<1>3. CASE CloseUnregistered(w)
  <2>1. TypeOK'
    BY <1>3, GotoType, SetStatusType DEF CloseUnregistered, TypeOK, Scanning, Closed
  <2>2. TaskOK'
    BY <1>3, GotoTask, RowWhenWorking DEF CloseUnregistered, Scanning
  <2> QED BY <2>1, <2>2
<1>4. CASE StreamRaises(w)
  <2>1. PICK v \in Closed : /\ task' = [task EXCEPT ![w] = Concluded(@, v)]
                            /\ rows' # rows => SetStatus(w, v)
    BY <1>4 DEF StreamRaises, Closed
  <2>2. task' \in [Workers -> Task] /\ TaskOK'
    <3>1. task[w].pc = "stream" /\ pid' = pid
      BY <1>4 DEF StreamRaises
    <3>2. task' = [task EXCEPT ![w] = Concluded(@, v)]
      BY <2>1
    <3> QED BY <3>1, <3>2, ConcludedTask
  <2>3. rows' \in [Rows -> Row]
    BY <2>1, SetStatusType DEF TypeOK
  <2>4. TypeOK'
    BY <1>4, <2>2, <2>3 DEF StreamRaises, TypeOK
  <2> QED BY <2>2, <2>4
<1>5. CASE Conclude(w)
  <2>1. task' \in [Workers -> Task] /\ TaskOK'
    BY <1>5, ConcludedTask DEF Conclude, Closed
  <2>2. TypeOK'
    BY <1>5, <2>1, SetStatusType DEF Conclude, TypeOK, Closed
  <2> QED BY <2>1, <2>2
<1>6. CASE StreamError(w)
  <2>1. TypeOK'
    BY <1>6, GotoType, DbErrorType DEF StreamError, TypeOK, Scanning
  <2>2. TaskOK'
    BY <1>6, GotoTask, RowWhenWorking DEF StreamError, Scanning
  <2> QED BY <2>1, <2>2
<1> QED BY <1>1, <1>2, <1>3, <1>4, <1>5, <1>6

LEMMA EndTypes ==
  ASSUME TypeOK, TaskOK, NEW w \in Workers,
         BrokenFlushed(w) \/ BrokenRaises(w) \/ Close(w) \/ CloseError(w) \/ Release(w)
  PROVE  TypeOK' /\ TaskOK'
<1> USE ConstantsAssumption
<1>1. CASE BrokenFlushed(w)
  <2>1. TypeOK'
    BY <1>1, GotoType DEF BrokenFlushed, TypeOK, Scanning
  <2>2. TaskOK'
    BY <1>1, GotoTask, RowWhenWorking DEF BrokenFlushed, Scanning
  <2> QED BY <2>1, <2>2
<1>2. CASE BrokenRaises(w)
  <2>1. TypeOK'
    BY <1>2, GotoType DEF BrokenRaises, TypeOK, Scanning
  <2>2. TaskOK'
    BY <1>2, GotoTask, RowWhenWorking DEF BrokenRaises, Scanning
  <2> QED BY <2>1, <2>2
<1>3. CASE Close(w)
  <2>1. task[w].verdict \in Closed
    BY <1>3 DEF Close, TaskOK
  <2>2. TypeOK'
    BY <1>3, <2>1, GotoType, SetStatusType DEF Close, TypeOK, Scanning
  <2>3. TaskOK'
    BY <1>3, GotoTask, RowWhenWorking DEF Close, Scanning
  <2> QED BY <2>2, <2>3
<1>4. CASE CloseError(w)
  <2>1. TypeOK'
    BY <1>4, GotoType, DbErrorType DEF CloseError, TypeOK, Scanning
  <2>2. TaskOK'
    BY <1>4, GotoTask, RowWhenWorking DEF CloseError, Scanning
  <2> QED BY <2>1, <2>2
<1>5. CASE Release(w)
  <2>1. TypeOK'
    BY <1>5, StopType, UnregisterType, ClosedRowType DEF Release, TypeOK
  <2>2. TaskOK'
    BY <1>5, StopType, OneTask DEF Release, Idle
  <2> QED BY <2>1, <2>2
<1> QED BY <1>1, <1>2, <1>3, <1>4, <1>5

LEMMA TimeTypes ==
  ASSUME TypeOK, TaskOK, NEW r \in Rows, NEW s \in Sites, Age(r) \/ ComeDue(s)
  PROVE  TypeOK' /\ TaskOK'
<1>1. CASE Age(r)
  BY <1>1 DEF Age, TypeOK, TaskOK, Up, Row
<1>2. CASE ComeDue(s)
  BY <1>2 DEF ComeDue, TypeOK, TaskOK, Up
<1> QED BY <1>1, <1>2

LEMMA TypesStep == TypeOK /\ TaskOK /\ [Next]_vars => TypeOK' /\ TaskOK'
<1> SUFFICES ASSUME TypeOK, TaskOK, [Next]_vars PROVE TypeOK' /\ TaskOK'
  OBVIOUS
<1>1. ASSUME NEW p \in Procs, Start(p) \/ Crash(p) \/ Exit(p) \/ Reap(p)
      PROVE  TypeOK' /\ TaskOK'
  BY <1>1, ProcessTypes
<1>2. ASSUME NEW p \in Procs, NEW s \in Sites, RequestCancel(p, s)
      PROVE  TypeOK' /\ TaskOK'
  BY <1>2 DEF RequestCancel, TypeOK, TaskOK, Up
<1>3. ASSUME NEW w \in Workers, Advance(w)
      PROVE  TypeOK' /\ TaskOK'
  BY <1>3, ClaimTypes, RunTypes, EndTypes DEF Advance
<1>4. ASSUME NEW w \in Workers, NEW s \in Sites, Dispatch(w, s) \/ Request(w, s)
      PROVE  TypeOK' /\ TaskOK'
  BY <1>4, AskTypes, ConstantsAssumption
<1>5. ASSUME NEW r \in Rows, Age(r)
      PROVE  TypeOK' /\ TaskOK'
  BY <1>5 DEF Age, TypeOK, TaskOK, Up, Row
<1>6. ASSUME NEW s \in Sites, ComeDue(s)
      PROVE  TypeOK' /\ TaskOK'
  BY <1>6 DEF ComeDue, TypeOK, TaskOK, Up
<1>7. CASE UNCHANGED vars
  BY <1>7 DEF vars, TypeOK, TaskOK, Up
<1> QED BY <1>1, <1>2, <1>3, <1>4, <1>5, <1>6, <1>7 DEF Next

\* Every reachable state is well typed, whatever fails.
THEOREM TypeCorrect == Spec => []TypeOK
<1>1. Init => TypeOK /\ TaskOK
  BY ConstantsAssumption, ClosedRowType, IdleType DEF Init, TypeOK, TaskOK, Idle
<1> QED BY <1>1, TypesStep, PTL DEF Spec
(***************************************************************************)
(* Exclusion. InProcessExclusion alone is not inductive: a worker that     *)
(* registers has compared itself with the registry, not with its peers, so *)
(* RegistryOK has to say that the registry speaks for them.                *)
(***************************************************************************)
\* A worker that does not take a site, and leaves the registry alone.
LEMMA KeepExclusion ==
  ASSUME RegistryOK, InProcessExclusion, NEW w \in Workers, registry' = registry,
         \A v \in Workers : v # w => task'[v] = task[v],
         task'[w].pc \in Scanning => Active(w) /\ task'[w].site = task[w].site
  PROVE  RegistryOK' /\ InProcessExclusion'
  BY DEF RegistryOK, InProcessExclusion, Active

\* The same for one that changes its program counter, or stops.
LEMMA GotoExclusion ==
  ASSUME TypeOK, RegistryOK, InProcessExclusion, NEW w \in Workers, NEW pc \in Scanning,
         Active(w), Goto(w, pc), registry' = registry
  PROVE  RegistryOK' /\ InProcessExclusion'
<1>1. task[w] \in Task
  BY DEF TypeOK
<1>2. task'[w].site = task[w].site
  <2>1. task'[w] = [task[w] EXCEPT !.pc = pc]
    BY GotoType
  <2> QED BY <1>1, <2>1, MovedRecord
<1> QED BY <1>2, GotoType, KeepExclusion

LEMMA StopExclusion ==
  ASSUME TypeOK, RegistryOK, InProcessExclusion, NEW w \in Workers, Stop(w), registry' = registry
  PROVE  RegistryOK' /\ InProcessExclusion'
<1>1. task'[w].pc \notin Scanning
  BY StopType DEF Idle, Scanning
<1> QED BY <1>1, StopType, KeepExclusion

\* Giving the registration back is safe because nobody else holds the site.
LEMMA UnregisterExclusion ==
  ASSUME TypeOK, RegistryOK, InProcessExclusion, NEW w \in Workers,
         Active(w), Unregister(w), Stop(w)
  PROVE  RegistryOK' /\ InProcessExclusion'
<1>1. ~Active(w)' /\ \A v \in Workers : v # w => task'[v] = task[v]
  BY StopType DEF Idle, Scanning, Active
<1>2. RegistryOK'
  <2> SUFFICES ASSUME NEW v \in Workers, Active(v)'
               PROVE  task'[v].site \in registry'[Home[v]]
    BY DEF RegistryOK
  <2>1. v # w /\ Active(v) /\ task'[v] = task[v]
    BY <1>1 DEF Active
  <2>2. task[v].site \in registry[Home[v]] /\ Home[v] \in Procs /\ Home[w] \in Procs
    BY <2>1, ConstantsAssumption DEF RegistryOK
  <2>3. CASE Home[v] = Home[w]
    <3>1. task[v].site # task[w].site
      BY <2>1, <2>3 DEF InProcessExclusion
    <3> QED BY <2>1, <2>2, <3>1 DEF Unregister, TypeOK
  <2>4. CASE Home[v] # Home[w]
    BY <2>1, <2>2, <2>4 DEF Unregister, TypeOK
  <2> QED BY <2>3, <2>4
<1>3. InProcessExclusion'
  BY <1>1 DEF InProcessExclusion, Active
<1> QED BY <1>2, <1>3

LEMMA RegisterExclusion ==
  ASSUME TypeOK, TaskOK, RegistryOK, InProcessExclusion, NEW w \in Workers, Register(w)
  PROVE  RegistryOK' /\ InProcessExclusion'
<1>1. task[w] \in Task /\ Home[w] \in Procs
  BY ConstantsAssumption DEF TypeOK
<1>2. task'[w].site = task[w].site /\ \A v \in Workers : v # w => task'[v] = task[v]
  <2>1. task'[w] = [task[w] EXCEPT !.pc = "claim"] /\ \A v \in Workers : v # w => task'[v] = task[v]
    BY GotoType DEF Register, Scanning
  <2> QED BY <1>1, <2>1, MovedRecord DEF Scanning
<1>3. RegistryOK'
  <2> SUFFICES ASSUME NEW v \in Workers, Active(v)'
               PROVE  task'[v].site \in registry'[Home[v]]
    BY DEF RegistryOK
  <2>1. CASE v = w
    BY <1>1, <1>2, <2>1 DEF Register, TypeOK
  <2>2. CASE v # w
    BY <1>1, <1>2, <2>2, ConstantsAssumption DEF Register, TypeOK, RegistryOK, Active
  <2> QED BY <2>1, <2>2
<1>4. \A v \in Workers : v # w /\ Home[v] = Home[w] /\ Active(v) => task[v].site # task[w].site
  BY DEF RegistryOK, Register
<1>5. InProcessExclusion'
  BY <1>2, <1>4 DEF InProcessExclusion, Active
<1> QED BY <1>3, <1>5

LEMMA VanishExclusion ==
  ASSUME TypeOK, RegistryOK, InProcessExclusion, NEW p \in Procs, Vanish(p)
  PROVE  RegistryOK' /\ InProcessExclusion'
<1>1. \A v \in Workers : Active(v)' => Home[v] # p /\ task'[v] = task[v] /\ Active(v)
  BY DEF Vanish, Active, Idle, Scanning
<1> QED BY <1>1, ConstantsAssumption DEF Vanish, RegistryOK, InProcessExclusion, TypeOK

LEMMA AdvanceExclusion ==
  ASSUME TypeOK, TaskOK, RegistryOK, InProcessExclusion, NEW w \in Workers, Advance(w)
  PROVE  RegistryOK' /\ InProcessExclusion'
<1>1. CASE Register(w)
  BY <1>1, RegisterExclusion
<1>2. CASE Refuse(w) \/ ClaimError(w)
  BY <1>2, StopExclusion DEF Refuse, ClaimError
<1>3. CASE ClaimBusy(w) \/ OpenError(w) \/ Release(w)
  BY <1>3, UnregisterExclusion DEF ClaimBusy, OpenError, Release, Active, Scanning
<1>4. CASE \/ Claim(w) \/ CloseUnregistered(w) \/ StreamError(w)
           \/ BrokenFlushed(w) \/ BrokenRaises(w) \/ Close(w) \/ CloseError(w)
  <2>1. /\ Active(w) /\ registry' = registry
        /\ \E pc \in Scanning : Goto(w, pc)
    BY <1>4 DEF Claim, CloseUnregistered, StreamError, BrokenFlushed, BrokenRaises, Close,
                CloseError, Active, Scanning
  <2> QED BY <2>1, GotoExclusion
<1>5. CASE Open(w)
  <2>1. PICK r \in Rows : task' = [task EXCEPT ![w] = Opened(@, r)]
    BY <1>5 DEF Open, FreeRows
  <2>2. Active(w) /\ registry' = registry /\ task[w] \in Task
    BY <1>5 DEF Open, Active, Scanning, TypeOK
  <2>3. task'[w] = Opened(task[w], r) /\ \A v \in Workers : v # w => task'[v] = task[v]
    BY <2>1 DEF TypeOK
  <2>4. task'[w].site = task[w].site
    BY <2>2, <2>3, OpenedRecord
  <2> QED BY <2>2, <2>3, <2>4, KeepExclusion
<1>6. CASE StreamRaises(w) \/ Conclude(w)
  <2>1. PICK v \in Closed : task' = [task EXCEPT ![w] = Concluded(@, v)]
    BY <1>6 DEF StreamRaises, Conclude, Closed
  <2>2. Active(w) /\ registry' = registry /\ task[w] \in Task
    BY <1>6 DEF StreamRaises, Conclude, Active, Scanning, TypeOK
  <2>3. task'[w] = Concluded(task[w], v) /\ \A u \in Workers : u # w => task'[u] = task[u]
    BY <2>1 DEF TypeOK
  <2>4. task'[w].site = task[w].site
    BY <2>2, <2>3, ConcludedRecord
  <2> QED BY <2>2, <2>3, <2>4, KeepExclusion
<1> QED BY <1>1, <1>2, <1>3, <1>4, <1>5, <1>6 DEF Advance

LEMMA ExclusionStep ==
  TypeOK /\ TaskOK /\ RegistryOK /\ InProcessExclusion /\ [Next]_vars
    => RegistryOK' /\ InProcessExclusion'
<1> SUFFICES ASSUME TypeOK, TaskOK, RegistryOK, InProcessExclusion, [Next]_vars
             PROVE  RegistryOK' /\ InProcessExclusion'
  OBVIOUS
<1>1. ASSUME NEW p \in Procs, Crash(p) \/ Exit(p)
      PROVE  RegistryOK' /\ InProcessExclusion'
  BY <1>1, VanishExclusion DEF Crash, Exit
<1>2. ASSUME NEW w \in Workers, Advance(w)
      PROVE  RegistryOK' /\ InProcessExclusion'
  BY <1>2, AdvanceExclusion
<1>3. ASSUME NEW w \in Workers, NEW s \in Sites, Dispatch(w, s) \/ Request(w, s)
      PROVE  RegistryOK' /\ InProcessExclusion'
  <2>1. registry' = registry /\ \A v \in Workers : v # w => task'[v] = task[v]
    BY <1>3 DEF Dispatch, Request, TypeOK
  <2>2. task'[w].pc = "queued"
    BY <1>3 DEF Dispatch, Request, TypeOK, Queued
  <2> QED BY <2>1, <2>2, KeepExclusion DEF Scanning
<1>4. ASSUME task' = task, registry' = registry
      PROVE  RegistryOK' /\ InProcessExclusion'
  BY <1>4 DEF RegistryOK, InProcessExclusion, Active
<1>5. ASSUME NEW p \in Procs, NEW s \in Sites, RequestCancel(p, s)
      PROVE  RegistryOK' /\ InProcessExclusion'
  BY <1>4, <1>5 DEF RequestCancel
<1>6. ASSUME NEW r \in Rows, Age(r)
      PROVE  RegistryOK' /\ InProcessExclusion'
  BY <1>4, <1>6 DEF Age
<1>7. ASSUME NEW s \in Sites, ComeDue(s)
      PROVE  RegistryOK' /\ InProcessExclusion'
  BY <1>4, <1>7 DEF ComeDue
<1>8. CASE UNCHANGED vars
  BY <1>4, <1>8 DEF vars
<1>9. ASSUME NEW p \in Procs, Start(p) \/ Reap(p)
      PROVE  RegistryOK' /\ InProcessExclusion'
  BY <1>4, <1>9 DEF Start, Reap
<1> QED BY <1>1, <1>2, <1>3, <1>5, <1>6, <1>7, <1>8, <1>9 DEF Next

\* One scan per site in a process: the registry's check-and-register under
\* _lock, and its release on every way out, let no second worker in.
THEOREM Exclusion == Spec => []InProcessExclusion
<1>1. Init => /\ TypeOK /\ TaskOK
              /\ RegistryOK /\ InProcessExclusion
  BY ConstantsAssumption, ClosedRowType, IdleType
     DEF Init, TypeOK, TaskOK, Idle, RegistryOK, InProcessExclusion, Active, Scanning
<1> QED BY <1>1, TypesStep, ExclusionStep, PTL DEF Spec
(***************************************************************************)
(* Ownership. LiveRunLeftAlone needs to know that the process a RUNNING    *)
(* row names is the one its worker runs in, and that no two workers write  *)
(* one row: OwnerOK.                                                       *)
(***************************************************************************)
\* A step that hands out no row, and turns none back to RUNNING.
LEMMA KeepOwner ==
  ASSUME OwnerOK,
         \A w \in Workers : task'[w].row \in Rows =>
            task'[w].row = task[w].row /\ pid'[Home[w]] = pid[Home[w]],
         \A r \in Rows : Running(r)' =>
            Running(r) /\ rows'[r].host = rows[r].host /\ rows'[r].pid = rows[r].pid
  PROVE  OwnerOK'
  BY DEF OwnerOK

\* Closing a row, or blanking it, does not turn another back to RUNNING.
LEMMA NotRunning ==
  /\ BlankRow.status # "running"
  /\ \A st \in Closed : ClosedAs(st).status # "running"
  /\ \A r \in Rows : Abandoned(r).status # "running"
<1>1. BlankRow.status # "running" /\ \A st \in Closed : ClosedAs(st).status # "running"
  BY DEF BlankRow, ClosedAs, Closed
<1> QED BY <1>1 DEF Abandoned, Closed

LEMMA SetStatusRows ==
  ASSUME TypeOK, NEW w \in Workers, NEW st \in Closed, SetStatus(w, st), NEW r \in Rows
  PROVE  /\ r # task[w].row => rows'[r] = rows[r]
         /\ r = task[w].row => rows'[r].status # "running"
  BY NotRunning DEF SetStatus, TypeOK

\* What a worker that goes on within run_scan does to the rows workers hold.
LEMMA GotoRow ==
  ASSUME TypeOK, NEW w \in Workers, NEW pc \in Scanning, Goto(w, pc)
  PROVE  \A v \in Workers : task'[v].row = task[v].row
<1>1. task[w] \in Task /\ task'[w] = [task[w] EXCEPT !.pc = pc]
  BY GotoType DEF TypeOK
<1>2. task'[w].row = task[w].row
  BY <1>1, MovedRecord
<1> QED BY <1>2, GotoType

LEMMA StopRow ==
  ASSUME TypeOK, NEW w \in Workers, Stop(w)
  PROVE  \A v \in Workers : task'[v].row \in Rows => v # w /\ task'[v] = task[v]
  BY StopType, ConstantsAssumption DEF Idle

LEMMA OpenOwner ==
  ASSUME TypeOK, TaskOK, OwnerOK, NEW w \in Workers, Open(w)
  PROVE  OwnerOK'
<1>1. PICK r \in FreeRows : /\ rows' = [rows EXCEPT ![r] = NewRow(task[w].site, Home[w])]
                            /\ task' = [task EXCEPT ![w] = Opened(@, r)]
  BY DEF Open
<1>2. r \in Rows /\ ~Running(r) /\ \A v \in Workers : task[v].row # r
  BY <1>1 DEF FreeRows, Held
<1>3. /\ task'[w].row = r
      /\ \A v \in Workers : v # w => task'[v] = task[v]
  <2>1. task[w] \in Task /\ task'[w] = Opened(task[w], r)
    BY <1>1 DEF TypeOK
  <2>2. \A v \in Workers : v # w => task'[v] = task[v]
    BY <1>1 DEF TypeOK
  <2> QED BY <1>2, <2>1, <2>2, OpenedRecord
<1>4. rows'[r] = NewRow(task[w].site, Home[w]) /\ \A q \in Rows : q # r => rows'[q] = rows[q]
  BY <1>1, <1>2 DEF TypeOK
<1>5. rows'[r].host = HostOf[Home[w]] /\ rows'[r].pid = pid[Home[w]] /\ pid' = pid
  BY <1>4 DEF NewRow, Open
<1> SUFFICES ASSUME NEW v \in Workers, NEW q \in Rows, task'[v].row = q
             PROVE  /\ \A u \in Workers : task'[u].row = q => u = v
                    /\ Running(q)' => rows'[q].host = HostOf[Home[v]] /\ rows'[q].pid = pid'[Home[v]]
  BY DEF OwnerOK
<1>6. CASE q = r
  <2>1. v = w
    BY <1>2, <1>3, <1>6
  <2> QED BY <1>2, <1>3, <1>5, <1>6, <2>1
<1>7. CASE q # r
  <2>1. v # w /\ task[v].row = q
    BY <1>3, <1>7
  <2>2. rows'[q] = rows[q] /\ pid' = pid
    BY <1>4, <1>5, <1>7
  <2> QED BY <1>3, <1>7, <2>1, <2>2 DEF OwnerOK, Running
<1> QED BY <1>6, <1>7

LEMMA AdvanceOwner ==
  ASSUME TypeOK, TaskOK, OwnerOK, NEW w \in Workers, Advance(w)
  PROVE  OwnerOK'
<1>1. CASE Refuse(w) \/ ClaimBusy(w) \/ ClaimError(w) \/ OpenError(w)
  BY <1>1, StopRow, KeepOwner DEF Refuse, ClaimBusy, ClaimError, OpenError, Running
<1>2. CASE Register(w) \/ StreamError(w) \/ BrokenFlushed(w) \/ BrokenRaises(w) \/ CloseError(w)
  <2>1. rows' = rows /\ pid' = pid /\ \E pc \in Scanning : Goto(w, pc)
    BY <1>2 DEF Register, StreamError, BrokenFlushed, BrokenRaises, CloseError, Scanning
  <2> QED BY <2>1, GotoRow, KeepOwner DEF Running
<1>3. CASE Claim(w)
  <2>1. pid' = pid /\ Goto(w, "open")
    BY <1>3 DEF Claim
  <2>2. \A r \in Rows : Running(r)' => rows'[r] = rows[r] /\ Running(r)
    BY <1>3, NotRunning DEF Claim, Running
  <2>3. \A v \in Workers : task'[v].row = task[v].row
    BY <2>1, GotoRow DEF Scanning
  <2> QED BY <2>1, <2>2, <2>3, KeepOwner
<1>4. CASE CloseUnregistered(w) \/ Close(w)
  <2>1. pid' = pid /\ Goto(w, "release") /\ \E st \in Closed : SetStatus(w, st)
    BY <1>4 DEF CloseUnregistered, Close, TaskOK, Closed
  <2>2. \A r \in Rows : Running(r)' => rows'[r] = rows[r] /\ Running(r)
    BY <2>1, SetStatusRows DEF Running
  <2>3. \A v \in Workers : task'[v].row = task[v].row
    BY <2>1, GotoRow DEF Scanning
  <2> QED BY <2>1, <2>2, <2>3, KeepOwner
<1>5. CASE StreamRaises(w) \/ Conclude(w)
  <2>1. PICK v \in Closed : task' = [task EXCEPT ![w] = Concluded(@, v)]
    BY <1>5 DEF StreamRaises, Conclude, Closed
  <2>2. /\ task[w] \in Task /\ task'[w] = Concluded(task[w], v)
        /\ \A u \in Workers : u # w => task'[u] = task[u]
    BY <2>1 DEF TypeOK
  <2>3. \A u \in Workers : task'[u].row = task[u].row
    BY <2>2, ConcludedRecord
  <2>4. pid' = pid /\ (rows' = rows \/ \E st \in Closed : SetStatus(w, st))
    BY <1>5 DEF StreamRaises, Conclude, Closed
  <2>5. \A r \in Rows : Running(r)' => rows'[r] = rows[r] /\ Running(r)
    BY <2>4, SetStatusRows DEF Running
  <2> QED BY <2>3, <2>4, <2>5, KeepOwner
<1>6. CASE Open(w)
  BY <1>6, OpenOwner
<1>7. CASE Release(w)
  <2>1. pid' = pid /\ Stop(w)
    BY <1>7 DEF Release
  <2>2. \A r \in Rows : Running(r)' => rows'[r] = rows[r] /\ Running(r)
    BY <1>7, NotRunning DEF Release, Running, TypeOK
  <2> QED BY <2>1, <2>2, StopRow, KeepOwner
<1> QED BY <1>1, <1>2, <1>3, <1>4, <1>5, <1>6, <1>7 DEF Advance

LEMMA OwnerStep == TypeOK /\ TaskOK /\ OwnerOK /\ [Next]_vars => OwnerOK'
<1> SUFFICES ASSUME TypeOK, TaskOK, OwnerOK, [Next]_vars PROVE OwnerOK'
  OBVIOUS
<1>1. ASSUME NEW p \in Procs, Start(p) PROVE OwnerOK'
  <2>1. \A w \in Workers : task[w].row \in Rows => Home[w] # p
    BY <1>1 DEF Start, TaskOK
  <2> QED BY <1>1, <2>1, KeepOwner DEF Start, Running, TypeOK
<1>2. ASSUME NEW p \in Procs, Crash(p) \/ Exit(p) PROVE OwnerOK'
  <2>1. Vanish(p)
    BY <1>2 DEF Crash, Exit
  <2>2. \A w \in Workers : task'[w].row \in Rows => Home[w] # p /\ task'[w] = task[w]
    BY <2>1, ConstantsAssumption DEF Vanish, Idle
  <2> QED BY <2>1, <2>2, KeepOwner DEF Vanish, Running, TypeOK
<1>3. ASSUME NEW p \in Procs, Reap(p) PROVE OwnerOK'
  <2>1. \A r \in Rows : Running(r)' => rows'[r] = rows[r] /\ Running(r)
    BY <1>3, NotRunning DEF Reap, Running
  <2> QED BY <1>3, <2>1, KeepOwner DEF Reap
<1>4. ASSUME NEW w \in Workers, Advance(w) PROVE OwnerOK'
  BY <1>4, AdvanceOwner
<1>5. ASSUME NEW w \in Workers, NEW s \in Sites, Dispatch(w, s) \/ Request(w, s) PROVE OwnerOK'
  <2>1. \A v \in Workers : task'[v].row \in Rows => task'[v] = task[v]
    BY <1>5, ConstantsAssumption DEF Dispatch, Request, TypeOK, Queued
  <2> QED BY <1>5, <2>1, KeepOwner DEF Dispatch, Request, Running
<1>6. ASSUME NEW r \in Rows, Age(r) PROVE OwnerOK'
  <2>1. \A q \in Rows : Running(q)' =>
           Running(q) /\ rows'[q].host = rows[q].host /\ rows'[q].pid = rows[q].pid
    BY <1>6 DEF Age, Running, TypeOK, Row
  <2> QED BY <1>6, <2>1, KeepOwner DEF Age
<1>7. ASSUME task' = task, rows' = rows, pid' = pid PROVE OwnerOK'
  BY <1>7, KeepOwner DEF Running
<1>8. ASSUME NEW p \in Procs, NEW s \in Sites, RequestCancel(p, s) PROVE OwnerOK'
  BY <1>7, <1>8 DEF RequestCancel
<1>9. ASSUME NEW s \in Sites, ComeDue(s) PROVE OwnerOK'
  BY <1>7, <1>9 DEF ComeDue
<1>10. CASE UNCHANGED vars
  BY <1>7, <1>10 DEF vars
<1> QED BY <1>1, <1>2, <1>3, <1>4, <1>5, <1>6, <1>8, <1>9, <1>10 DEF Next

\* All the facts above in one invariant, as the runs check it.
THEOREM Invariant == Spec => []IndInv
<1>1. Init => IndInv
  BY ConstantsAssumption, ClosedRowType, IdleType
     DEF Init, IndInv, TypeOK, TaskOK, Idle, RegistryOK, InProcessExclusion, Active, Scanning, OwnerOK
<1>2. IndInv /\ [Next]_vars => IndInv'
  BY TypesStep, ExclusionStep, OwnerStep DEF IndInv
<1> QED BY <1>1, <1>2, PTL DEF Spec

(***************************************************************************)
(* A live run is left alone when the processes share a machine. Across     *)
(* machines it is not: _owner_is_alive answers for its own host only.      *)
(***************************************************************************)
SameMachine == \A p, q \in Procs : HostOf[p] = HostOf[q]

\* The row of a live worker counts as claimed, whoever asks.
LEMMA HeldIsClaimed ==
  ASSUME IndInv, SameMachine, NEW w \in Workers, NEW r \in Rows, NEW p \in Procs,
         task[w].row = r, Running(r), ~rows[r].aged
  PROVE  Claimed(p, r)
<1>1. Home[w] \in Procs /\ Up(Home[w])
  BY ConstantsAssumption DEF IndInv, TaskOK
<1>2. rows[r].host = HostOf[Home[w]] /\ rows[r].pid = pid[Home[w]]
  BY DEF IndInv, OwnerOK
<1>3. rows[r].host = HostOf[p]
  BY <1>1, <1>2 DEF SameMachine
<1> QED BY <1>1, <1>2, <1>3 DEF Claimed, OwnerIsAlive

\* The step that ends a run is its own worker's.
LEMMA LiveRunStep ==
  ASSUME SameMachine, IndInv, [Next]_vars, NEW w \in Workers, NEW r \in Rows,
         task[w].row = r, Running(r), ~rows[r].aged, rows'[r].status # "running"
  PROVE  task'[w] # task[w]
<1> USE DEF IndInv
<1>1. rows' # rows
  BY DEF Running
<1>2. \A p \in Procs : Claimed(p, r)
  BY HeldIsClaimed
<1>3. ASSUME NEW p \in Procs, Reap(p) PROVE FALSE
  BY <1>2, <1>3 DEF Reap, Running
<1>4. ASSUME NEW v \in Workers, NEW st \in Closed, SetStatus(v, st) PROVE v = w
  <2>1. task[v].row = r
    BY <1>4, SetStatusRows DEF Running
  <2> QED BY <2>1 DEF OwnerOK
<1>5. ASSUME NEW v \in Workers, Advance(v) PROVE task'[w] # task[w]
  <2>1. CASE Claim(v)
    <3>1. Home[v] \in Procs
      BY ConstantsAssumption
    <3> QED BY <1>2, <2>1, <3>1 DEF Claim, RunningRowsOf, Running
  <2>2. CASE Open(v)
    BY <2>2 DEF Open, FreeRows, Running, TypeOK
  <2>3. CASE CloseUnregistered(v)
    <3>1. v = w
      BY <1>4, <2>3 DEF CloseUnregistered, Closed
    <3>2. task'[w] = [task[w] EXCEPT !.pc = "release"] /\ task[w] \in Task
      BY <2>3, <3>1, GotoType DEF CloseUnregistered, Scanning, TypeOK
    <3>3. task'[w].pc = "release" /\ task[w].pc = "stream"
      BY <2>3, <3>1, <3>2, MovedRecord DEF CloseUnregistered, Scanning
    <3> QED BY <3>3
  <2>4. CASE Conclude(v)
    <3>1. v = w
      BY <1>4, <2>4 DEF Conclude, Closed
    <3>2. task'[w] = Concluded(task[w], "success") /\ task[w] \in Task
      BY <2>4, <3>1 DEF Conclude, TypeOK
    <3>3. task'[w].pc = "close" /\ task[w].pc = "stream"
      BY <2>4, <3>1, <3>2, ConcludedRecord DEF Conclude, Closed
    <3> QED BY <3>3
  <2>5. CASE Close(v)
    <3>1. v = w
      BY <1>4, <2>5 DEF Close, TaskOK
    <3>2. task'[w] = [task[w] EXCEPT !.pc = "release"] /\ task[w] \in Task
      BY <2>5, <3>1, GotoType DEF Close, Scanning, TypeOK
    <3>3. task'[w].pc = "release" /\ task[w].pc = "close"
      BY <2>5, <3>1, <3>2, MovedRecord DEF Close, Scanning
    <3> QED BY <3>3
  <2>6. CASE Release(v)
    <3>1. task[v].row = r
      BY <2>6 DEF Release, Running, TypeOK
    <3> QED BY <2>6, <3>1 DEF Release, Running
  <2>7. CASE \/ Register(v) \/ Refuse(v) \/ ClaimBusy(v) \/ ClaimError(v) \/ OpenError(v)
             \/ StreamError(v) \/ BrokenFlushed(v) \/ BrokenRaises(v) \/ CloseError(v)
    BY <1>1, <2>7 DEF Register, Refuse, ClaimBusy, ClaimError, OpenError, StreamError,
                      BrokenFlushed, BrokenRaises, CloseError
  <2>8. CASE StreamRaises(v)
    <3>1. PICK st \in Closed : /\ task' = [task EXCEPT ![v] = Concluded(@, st)]
                               /\ rows' # rows => SetStatus(v, st)
      BY <2>8 DEF StreamRaises, Closed
    <3>2. v = w
      BY <1>1, <1>4, <3>1
    <3>3. task' = [task EXCEPT ![w] = Concluded(@, st)]
      BY <3>1, <3>2
    <3>4. task'[w] = Concluded(task[w], st) /\ task[w] \in Task
      BY <3>3 DEF TypeOK
    <3>5. task'[w].pc = "close" /\ task[w].pc = "stream"
      BY <2>8, <3>2, <3>4, ConcludedRecord DEF StreamRaises
    <3> QED BY <3>5
  <2> QED BY <1>5, <2>1, <2>2, <2>3, <2>4, <2>5, <2>6, <2>7, <2>8 DEF Advance
<1>6. ASSUME NEW q \in Rows, Age(q) PROVE FALSE
  BY <1>6 DEF Age, Running, TypeOK, Row
<1>7. ASSUME NEW p \in Procs, Start(p) \/ Crash(p) \/ Exit(p) PROVE FALSE
  BY <1>1, <1>7 DEF Start, Crash, Exit, Vanish
<1>8. ASSUME NEW p \in Procs, NEW s \in Sites, RequestCancel(p, s) PROVE FALSE
  BY <1>1, <1>8 DEF RequestCancel
<1>9. ASSUME NEW s \in Sites, ComeDue(s) PROVE FALSE
  BY <1>1, <1>9 DEF ComeDue
<1>10. ASSUME NEW v \in Workers, NEW s \in Sites, Dispatch(v, s) \/ Request(v, s) PROVE FALSE
  BY <1>1, <1>10 DEF Dispatch, Request
<1> QED BY <1>1, <1>3, <1>5, <1>6, <1>7, <1>8, <1>9, <1>10 DEF Next, vars

\* No process on the machine ends another worker's live run before its timeout.
THEOREM LiveRuns == SameMachine => (Spec => LiveRunLeftAlone)
<1> SUFFICES ASSUME SameMachine PROVE Spec => LiveRunLeftAlone
  OBVIOUS
<1>1. IndInv /\ [Next]_vars =>
        [\A w \in Workers : \A r \in Rows :
           (task[w].row = r /\ Running(r) /\ ~rows[r].aged /\ rows'[r].status # "running")
              => task'[w] # task[w]]_vars
  BY LiveRunStep
<1> QED BY <1>1, Invariant, PTL DEF Spec, LiveRunLeftAlone

(***************************************************************************)
(* The registry of a process implements a mutex over sites.                *)
(***************************************************************************)
LEMMA HoldingActive ==
  ASSUME IndInv, NEW w \in Workers
  PROVE  /\ Active(w) => Holding[w] = task[w].site /\ Holding[w] # NoSite
         /\ ~Active(w) => Holding[w] = NoSite
<1>1. Active(w) => task[w].site \in Sites
  BY DEF IndInv, TaskOK, Active, Scanning
<1> QED BY <1>1, ConstantsAssumption DEF Holding

\* A worker that neither begins nor ends a scan.
LEMMA KeepHolding ==
  ASSUME \A w \in Workers : /\ Active(w)' <=> Active(w)
                            /\ Active(w) => task'[w].site = task[w].site
  PROVE  Holding' = Holding
  BY DEF Holding

LEMMA GotoHolding ==
  ASSUME IndInv, NEW w \in Workers, NEW pc \in Scanning, Active(w), Goto(w, pc)
  PROVE  Holding' = Holding
<1>1. task[w] \in Task /\ task'[w] = [task[w] EXCEPT !.pc = pc]
  BY GotoType DEF IndInv, TypeOK
<1>2. task'[w].pc = pc /\ task'[w].site = task[w].site
  BY <1>1, MovedRecord
<1>3. \A v \in Workers : v # w => task'[v] = task[v]
  BY GotoType DEF IndInv
<1> QED BY <1>2, <1>3, KeepHolding DEF Active

\* A worker that stops lets its site go, if it had one.
LEMMA StopHolding ==
  ASSUME IndInv, NEW w \in Workers, Stop(w)
  PROVE  Mutex!Next \/ Holding' = Holding
<1>1. ~Active(w)' /\ \A v \in Workers : v # w => task'[v] = task[v]
  BY StopType DEF IndInv, Idle, Scanning, Active
<1>2. CASE Active(w)
  <2>1. Holding[w] # NoSite
    BY <1>2, HoldingActive
  <2>2. Holding' = [Holding EXCEPT ![w] = NoSite]
    BY <1>1 DEF Holding, Active
  <2> QED BY <2>1, <2>2 DEF Mutex!Next, Mutex!Release
<1>3. CASE ~Active(w)
  BY <1>1, <1>3, KeepHolding DEF Active
<1> QED BY <1>2, <1>3

LEMMA RegisterHolding ==
  ASSUME IndInv, NEW w \in Workers, Register(w)
  PROVE  Mutex!Next
<1> DEFINE s == task[w].site
<1>1. s \in Sites /\ task[w] \in Task /\ ~Active(w)
  BY DEF IndInv, TypeOK, TaskOK, Register, Active, Scanning
<1>2. Holding[w] = NoSite
  BY <1>1, HoldingActive
<1>3. \A v \in Mutex!Peers(w) : Holding[v] # s
  <2> SUFFICES ASSUME NEW v \in Workers, v # w, Home[v] = Home[w] PROVE Holding[v] # s
    BY DEF Mutex!Peers
  <2>1. CASE Active(v)
    BY <2>1, HoldingActive DEF IndInv, RegistryOK, Register
  <2>2. CASE ~Active(v)
    BY <2>2, <1>1, HoldingActive, ConstantsAssumption
  <2> QED BY <2>1, <2>2
<1>4. Holding' = [Holding EXCEPT ![w] = s]
  <2>1. task'[w] = [task[w] EXCEPT !.pc = "claim"] /\ \A v \in Workers : v # w => task'[v] = task[v]
    BY GotoType DEF IndInv, Register, Scanning
  <2>2. task'[w].pc = "claim" /\ task'[w].site = s
    BY <1>1, <2>1, MovedRecord DEF Scanning
  <2>3. Active(w)'
    BY <2>2 DEF Active, Scanning
  <2>4. \A v \in Workers : v # w => (Active(v)' <=> Active(v)) /\ task'[v].site = task[v].site
    BY <2>1 DEF Active
  <2> QED BY <2>2, <2>3, <2>4 DEF Holding
<1> QED BY <1>1, <1>2, <1>3, <1>4 DEF Mutex!Next, Mutex!Acquire

LEMMA AdvanceHolding ==
  ASSUME IndInv, NEW w \in Workers, Advance(w)
  PROVE  Mutex!Next \/ Holding' = Holding
<1>1. CASE Register(w)
  BY <1>1, RegisterHolding
<1>2. CASE Refuse(w) \/ ClaimBusy(w) \/ ClaimError(w) \/ OpenError(w) \/ Release(w)
  BY <1>2, StopHolding DEF Refuse, ClaimBusy, ClaimError, OpenError, Release
<1>3. CASE \/ Claim(w) \/ CloseUnregistered(w) \/ StreamError(w)
           \/ BrokenFlushed(w) \/ BrokenRaises(w) \/ Close(w) \/ CloseError(w)
  <2>1. Active(w) /\ \E pc \in Scanning : Goto(w, pc)
    BY <1>3 DEF Claim, CloseUnregistered, StreamError, BrokenFlushed, BrokenRaises, Close,
                CloseError, Active, Scanning
  <2> QED BY <2>1, GotoHolding
<1>4. CASE Open(w)
  <2>1. PICK r \in Rows : task' = [task EXCEPT ![w] = Opened(@, r)]
    BY <1>4 DEF Open, FreeRows
  <2>2. /\ task[w] \in Task /\ task'[w] = Opened(task[w], r)
        /\ \A v \in Workers : v # w => task'[v] = task[v]
    BY <2>1 DEF IndInv, TypeOK
  <2>3. task'[w].pc = "stream" /\ task'[w].site = task[w].site
    BY <2>2, OpenedRecord
  <2> QED BY <1>4, <2>2, <2>3, KeepHolding DEF Open, Active, Scanning
<1>5. CASE StreamRaises(w) \/ Conclude(w)
  <2>1. PICK v \in Closed : task' = [task EXCEPT ![w] = Concluded(@, v)]
    BY <1>5 DEF StreamRaises, Conclude, Closed
  <2>2. /\ task[w] \in Task /\ task'[w] = Concluded(task[w], v)
        /\ \A u \in Workers : u # w => task'[u] = task[u]
    BY <2>1 DEF IndInv, TypeOK
  <2>3. task'[w].pc = "close" /\ task'[w].site = task[w].site
    BY <2>2, ConcludedRecord
  <2> QED BY <1>5, <2>2, <2>3, KeepHolding DEF StreamRaises, Conclude, Active, Scanning
<1> QED BY <1>1, <1>2, <1>3, <1>4, <1>5 DEF Advance

LEMMA HoldingStep == IndInv /\ [Next]_vars => Mutex!Next \/ Holding' = Holding
<1> SUFFICES ASSUME IndInv, [Next]_vars PROVE Mutex!Next \/ Holding' = Holding
  OBVIOUS
<1>1. ASSUME NEW p \in Procs, Crash(p) \/ Exit(p) PROVE Mutex!Next
  <2>1. Vanish(p)
    BY <1>1 DEF Crash, Exit
  <2>2. \A w \in Workers : Home[w] # p => (Active(w)' <=> Active(w)) /\ task'[w] = task[w]
    BY <2>1 DEF Vanish, Active
  <2>3. \A w \in Workers : Home[w] = p => ~Active(w)'
    BY <2>1 DEF Vanish, Active, Idle, Scanning
  <2>4. Mutex!Die(p)
    BY <2>2, <2>3 DEF Mutex!Die, Holding
  <2> QED BY <2>4 DEF Mutex!Next
<1>2. ASSUME NEW w \in Workers, Advance(w) PROVE Mutex!Next \/ Holding' = Holding
  BY <1>2, AdvanceHolding
<1>3. ASSUME NEW w \in Workers, NEW s \in Sites, Dispatch(w, s) \/ Request(w, s)
      PROVE  Holding' = Holding
  <2>1. ~Active(w) /\ task'[w].pc = "queued" /\ \A v \in Workers : v # w => task'[v] = task[v]
    BY <1>3 DEF Dispatch, Request, Active, Scanning, IndInv, TypeOK, Queued
  <2> QED BY <2>1, KeepHolding DEF Active, Scanning
<1>4. ASSUME task' = task PROVE Holding' = Holding
  BY <1>4 DEF Holding, Active
<1>5. ASSUME NEW p \in Procs, Start(p) \/ Reap(p) PROVE Holding' = Holding
  BY <1>4, <1>5 DEF Start, Reap
<1>6. ASSUME NEW p \in Procs, NEW s \in Sites, RequestCancel(p, s) PROVE Holding' = Holding
  BY <1>4, <1>6 DEF RequestCancel
<1>7. ASSUME NEW r \in Rows, Age(r) PROVE Holding' = Holding
  BY <1>4, <1>7 DEF Age
<1>8. ASSUME NEW s \in Sites, ComeDue(s) PROVE Holding' = Holding
  BY <1>4, <1>8 DEF ComeDue
<1>9. CASE UNCHANGED vars
  BY <1>4, <1>9 DEF vars
<1> QED BY <1>1, <1>2, <1>3, <1>5, <1>6, <1>7, <1>8, <1>9 DEF Next

\* What the registry promises, SiteMutex, is what the scans of each process do:
\* every step takes a free site, lets one go, or touches neither.
THEOREM Refinement == Spec => RefinesSiteMutex
<1>1. Init => Mutex!Init
  BY DEF Init, Mutex!Init, Holding, Active, Idle, Scanning
<1>2. IndInv /\ [Next]_vars => [Mutex!Next]_Holding
  BY HoldingStep
<1> QED BY <1>1, <1>2, Invariant, PTL DEF Spec, RefinesSiteMutex, Mutex!Spec
(***************************************************************************)
(* The registry forgets. An entry without a scan behind it is left by one  *)
(* thing only, a commit that fails in _claim_site, and lasts as long as    *)
(* its process.                                                            *)
(***************************************************************************)
Backed(p, s) == \E w \in Workers : Home[w] = p /\ Active(w) /\ task[w].site = s

Leaked(p, s) == s \in registry[p] /\ ~Backed(p, s)

\* Workers that were scanning a site still are.
LEMMA KeepBacked ==
  ASSUME NEW w \in Workers, NEW p, NEW s, Backed(p, s),
         \A v \in Workers : v # w => task'[v] = task[v],
         \/ Active(w) => Active(w)' /\ task'[w].site = task[w].site
         \/ Home[w] # p \/ task[w].site # s
  PROVE  Backed(p, s)'
  BY DEF Backed, Active

\* Nobody begins to scan a site but by Register.
LEMMA NoNewBacking ==
  ASSUME NEW w \in Workers, NEW p, NEW s, Backed(p, s)',
         \A v \in Workers : v # w => task'[v] = task[v],
         Active(w)' => Active(w) /\ task'[w].site = task[w].site
  PROVE  Backed(p, s)
  BY DEF Backed, Active

\* A step of a scan under way, or of no scan at all, as far as the registry and
\* the sites of the scanning workers go.
LEMMA SteadySites ==
  ASSUME IndInv, NEW w \in Workers,
         \/ Claim(w) \/ Open(w) \/ CloseUnregistered(w) \/ StreamRaises(w) \/ Conclude(w)
         \/ StreamError(w) \/ BrokenFlushed(w) \/ BrokenRaises(w) \/ Close(w) \/ CloseError(w)
  PROVE  /\ registry' = registry /\ pid' = pid
         /\ \A v \in Workers : v # w => task'[v] = task[v]
         /\ Active(w) /\ Active(w)' /\ task'[w].site = task[w].site
<1> USE DEF IndInv
<1>1. task[w] \in Task
  BY DEF TypeOK
<1>2. CASE \/ Claim(w) \/ CloseUnregistered(w) \/ StreamError(w)
           \/ BrokenFlushed(w) \/ BrokenRaises(w) \/ Close(w) \/ CloseError(w)
  <2>1. /\ Active(w) /\ registry' = registry /\ pid' = pid
        /\ \E pc \in Scanning : Goto(w, pc)
    BY <1>2 DEF Claim, CloseUnregistered, StreamError, BrokenFlushed, BrokenRaises, Close,
                CloseError, Active, Scanning
  <2>2. PICK pc \in Scanning : Goto(w, pc)
    BY <2>1
  <2>3. task'[w] = [task[w] EXCEPT !.pc = pc] /\ \A v \in Workers : v # w => task'[v] = task[v]
    BY <2>2, GotoType
  <2>4. task'[w].pc = pc /\ task'[w].site = task[w].site
    BY <1>1, <2>3, MovedRecord
  <2> QED BY <2>1, <2>3, <2>4 DEF Active
<1>3. CASE Open(w)
  <2>1. PICK r \in Rows : task' = [task EXCEPT ![w] = Opened(@, r)]
    BY <1>3 DEF Open, FreeRows
  <2>2. task'[w] = Opened(task[w], r) /\ \A v \in Workers : v # w => task'[v] = task[v]
    BY <2>1 DEF TypeOK
  <2>3. task'[w].pc = "stream" /\ task'[w].site = task[w].site
    BY <1>1, <2>2, OpenedRecord
  <2> QED BY <1>3, <2>2, <2>3 DEF Open, Active, Scanning
<1>4. CASE StreamRaises(w) \/ Conclude(w)
  <2>1. PICK v \in Closed : task' = [task EXCEPT ![w] = Concluded(@, v)]
    BY <1>4 DEF StreamRaises, Conclude, Closed
  <2>2. task'[w] = Concluded(task[w], v) /\ \A u \in Workers : u # w => task'[u] = task[u]
    BY <2>1 DEF TypeOK
  <2>3. task'[w].pc = "close" /\ task'[w].site = task[w].site
    BY <1>1, <2>2, ConcludedRecord
  <2> QED BY <1>4, <2>2, <2>3 DEF StreamRaises, Conclude, Active, Scanning
<1> QED BY <1>2, <1>3, <1>4

\* Taking a site, and giving it back, as the registry sees it.
LEMMA RegisterSites ==
  ASSUME IndInv, NEW w \in Workers, Register(w)
  PROVE  /\ Home[w] \in Procs /\ task[w].site \notin registry[Home[w]] /\ ~Active(w)
         /\ Active(w)' /\ task'[w].site = task[w].site
         /\ \A v \in Workers : v # w => task'[v] = task[v]
         /\ \A p \in Procs : p # Home[w] => registry'[p] = registry[p]
         /\ registry'[Home[w]] = registry[Home[w]] \union {task[w].site}
<1> USE DEF IndInv
<1>1. task[w] \in Task /\ Home[w] \in Procs
  BY ConstantsAssumption DEF TypeOK
<1>2. task'[w] = [task[w] EXCEPT !.pc = "claim"] /\ \A v \in Workers : v # w => task'[v] = task[v]
  BY GotoType DEF Register, Scanning
<1>3. task'[w].pc = "claim" /\ task'[w].site = task[w].site
  BY <1>1, <1>2, MovedRecord DEF Scanning
<1>4. /\ \A p \in Procs : p # Home[w] => registry'[p] = registry[p]
      /\ registry'[Home[w]] = registry[Home[w]] \union {task[w].site}
  BY <1>1 DEF Register, TypeOK
<1> QED BY <1>1, <1>2, <1>3, <1>4 DEF Register, Active, Scanning

LEMMA UnregisterSites ==
  ASSUME IndInv, NEW w \in Workers, ClaimBusy(w) \/ OpenError(w) \/ Release(w)
  PROVE  /\ Home[w] \in Procs /\ Active(w) /\ ~Active(w)'
         /\ \A v \in Workers : v # w => task'[v] = task[v]
         /\ \A p \in Procs : p # Home[w] => registry'[p] = registry[p]
         /\ registry'[Home[w]] = registry[Home[w]] \ {task[w].site}
<1> USE DEF IndInv
<1>1. Active(w) /\ Unregister(w) /\ Stop(w)
  BY DEF ClaimBusy, OpenError, Release, Active, Scanning
<1>2. ~Active(w)' /\ \A v \in Workers : v # w => task'[v] = task[v]
  BY <1>1, StopType DEF Idle, Scanning, Active
<1> QED BY <1>1, <1>2, ConstantsAssumption DEF Unregister, TypeOK

LEMMA VanishSites ==
  ASSUME IndInv, NEW p \in Procs, Crash(p) \/ Exit(p)
  PROVE  /\ ~Up(p)' /\ registry'[p] = {}
         /\ \A q \in Procs : q # p => registry'[q] = registry[q]
         /\ \A w \in Workers : IF Home[w] = p THEN ~Active(w)' ELSE task'[w] = task[w]
<1>1. Vanish(p)
  BY DEF Crash, Exit
<1> QED BY <1>1 DEF Vanish, IndInv, TypeOK, Up, Active, Idle, Scanning

\* A worker that had no site and still has none.
LEMMA NoSites ==
  ASSUME IndInv, NEW w \in Workers,
         Refuse(w) \/ \E s \in Sites : Dispatch(w, s) \/ Request(w, s)
  PROVE  /\ registry' = registry /\ ~Active(w) /\ ~Active(w)'
         /\ \A v \in Workers : v # w => task'[v] = task[v]
<1>1. CASE Refuse(w)
  BY <1>1, StopType DEF IndInv, Refuse, Idle, Active, Scanning
<1>2. ASSUME NEW s \in Sites, Dispatch(w, s) \/ Request(w, s)
      PROVE  /\ registry' = registry /\ ~Active(w) /\ ~Active(w)'
             /\ \A v \in Workers : v # w => task'[v] = task[v]
  BY <1>2 DEF IndInv, TypeOK, Dispatch, Request, Queued, Active, Scanning
<1> QED BY <1>1, <1>2

\* The step that begins a leak is a claim that fails at its commit.
LEMMA LeakStep ==
  ASSUME IndInv, NoLeakedClaim, [Next]_vars, \A w \in Workers : ~ClaimError(w)
  PROVE  NoLeakedClaim'
<1>1. \A p \in Procs : \A s \in registry[p] : Backed(p, s)
  BY DEF NoLeakedClaim, Backed
<1> SUFFICES ASSUME NEW p \in Procs, NEW s \in registry'[p] PROVE Backed(p, s)'
  BY DEF NoLeakedClaim, Backed
<1>2. ASSUME registry' = registry, task' = task PROVE Backed(p, s)'
  BY <1>1, <1>2 DEF Backed, Active
<1>3. ASSUME NEW w \in Workers, Advance(w) PROVE Backed(p, s)'
  <2>1. CASE Register(w)
    <3>1. CASE p = Home[w] /\ s = task[w].site
      BY <2>1, <3>1, RegisterSites DEF Backed
    <3>2. CASE ~(p = Home[w] /\ s = task[w].site)
      <4>1. s \in registry[p]
        BY <2>1, <3>2, RegisterSites
      <4> QED BY <1>1, <2>1, <4>1, RegisterSites, KeepBacked
    <3> QED BY <3>1, <3>2
  <2>2. CASE ClaimBusy(w) \/ OpenError(w) \/ Release(w)
    <3>1. s \in registry[p] /\ (p # Home[w] \/ s # task[w].site)
      BY <2>2, UnregisterSites
    <3> QED BY <1>1, <2>2, <3>1, UnregisterSites, KeepBacked
  <2>3. CASE Refuse(w)
    BY <1>1, <2>3, NoSites, KeepBacked
  <2>4. CASE \/ Claim(w) \/ Open(w) \/ CloseUnregistered(w) \/ StreamRaises(w) \/ Conclude(w)
             \/ StreamError(w) \/ BrokenFlushed(w) \/ BrokenRaises(w) \/ Close(w) \/ CloseError(w)
    BY <1>1, <2>4, SteadySites, KeepBacked
  <2> QED BY <1>3, <2>1, <2>2, <2>3, <2>4 DEF Advance
<1>4. ASSUME NEW w \in Workers, NEW t \in Sites, Dispatch(w, t) \/ Request(w, t) PROVE Backed(p, s)'
  <2>1. /\ registry' = registry /\ ~Active(w)
        /\ \A v \in Workers : v # w => task'[v] = task[v]
    BY <1>4, NoSites
  <2> QED BY <1>1, <2>1, KeepBacked
<1>5. ASSUME NEW q \in Procs, Crash(q) \/ Exit(q) PROVE Backed(p, s)'
  <2>1. p # q /\ s \in registry[p]
    BY <1>5, VanishSites
  <2>2. \A w \in Workers : Home[w] = p => task'[w] = task[w]
    BY <1>5, <2>1, VanishSites
  <2> QED BY <1>1, <2>1, <2>2 DEF Backed, Active
<1>6. ASSUME NEW q \in Procs, Start(q) \/ Reap(q) PROVE Backed(p, s)'
  BY <1>2, <1>6 DEF Start, Reap
<1>7. ASSUME NEW q \in Procs, NEW t \in Sites, RequestCancel(q, t) PROVE Backed(p, s)'
  BY <1>2, <1>7 DEF RequestCancel
<1>8. ASSUME NEW r \in Rows, Age(r) PROVE Backed(p, s)'
  BY <1>2, <1>8 DEF Age
<1>9. ASSUME NEW t \in Sites, ComeDue(t) PROVE Backed(p, s)'
  BY <1>2, <1>9 DEF ComeDue
<1>10. CASE UNCHANGED vars
  BY <1>2, <1>10 DEF vars
<1> QED BY <1>3, <1>4, <1>5, <1>6, <1>7, <1>8, <1>9, <1>10 DEF Next

\* Nobody counts errors down.
LEMMA ErrorsCount ==
  ASSUME IndInv, [Next]_vars
  PROVE  dbErrors' = dbErrors \/ dbErrors' = dbErrors + 1
<1>1. ASSUME NEW w \in Workers, Advance(w) PROVE dbErrors' = dbErrors \/ dbErrors' = dbErrors + 1
  BY <1>1 DEF Advance, Register, Refuse, ClaimBusy, Claim, ClaimError, Open, OpenError,
     CloseUnregistered, StreamRaises, Conclude, StreamError, BrokenFlushed, BrokenRaises, Close,
     CloseError, Release, DbError
<1>2. ASSUME NEW w \in Workers, NEW s \in Sites, Dispatch(w, s) \/ Request(w, s)
      PROVE  dbErrors' = dbErrors
  BY <1>2 DEF Dispatch, Request
<1>3. ASSUME NEW p \in Procs, Start(p) \/ Crash(p) \/ Exit(p) \/ Reap(p) PROVE dbErrors' = dbErrors
  BY <1>3 DEF Start, Crash, Exit, Vanish, Reap
<1>4. ASSUME NEW p \in Procs, NEW s \in Sites, RequestCancel(p, s) PROVE dbErrors' = dbErrors
  BY <1>4 DEF RequestCancel
<1>5. ASSUME NEW r \in Rows, Age(r) PROVE dbErrors' = dbErrors
  BY <1>5 DEF Age
<1>6. ASSUME NEW s \in Sites, ComeDue(s) PROVE dbErrors' = dbErrors
  BY <1>6 DEF ComeDue
<1> QED BY <1>1, <1>2, <1>3, <1>4, <1>5, <1>6 DEF Next, vars

\* The registry of every process speaks of scans that are there, as long as no
\* commit has failed; and for good, where _claim_site's commit does not fail.
THEOREM NoLeak ==
  /\ Spec => [](dbErrors = 0 => NoLeakedClaim)
  /\ "claim" \notin DbErrors => (Spec => []NoLeakedClaim)
<1>1. Init => NoLeakedClaim
  BY DEF Init, NoLeakedClaim
<1>2. IndInv /\ (dbErrors = 0 => NoLeakedClaim) /\ [Next]_vars => (dbErrors = 0 => NoLeakedClaim)'
  <2> SUFFICES ASSUME IndInv, dbErrors = 0 => NoLeakedClaim, [Next]_vars, dbErrors' = 0
               PROVE  NoLeakedClaim'
    OBVIOUS
  <2>1. dbErrors \in Nat
    BY ConstantsAssumption DEF IndInv, TypeOK
  <2>2. dbErrors = 0
    BY <2>1, ErrorsCount
  <2>3. \A w \in Workers : ~ClaimError(w)
    BY <2>2 DEF ClaimError, DbError
  <2> QED BY <2>2, <2>3, LeakStep
<1>3. ASSUME "claim" \notin DbErrors
      PROVE  IndInv /\ NoLeakedClaim /\ [Next]_vars => NoLeakedClaim'
  BY <1>3, LeakStep DEF ClaimError, DbError
<1>4. Spec => [](dbErrors = 0 => NoLeakedClaim)
  BY <1>1, <1>2, Invariant, PTL DEF Spec
<1>5. ASSUME "claim" \notin DbErrors PROVE Spec => []NoLeakedClaim
  <2>1. IndInv /\ NoLeakedClaim /\ [Next]_vars => NoLeakedClaim'
    BY <1>3, <1>5
  <2> QED BY <1>1, <2>1, Invariant, PTL DEF Spec
<1> QED BY <1>4, <1>5

\* What a leak costs: it goes with its process, and with nothing before that. No
\* scan takes the site, is refused, ends, or is reaped in a way that frees it.
LEMMA LeakLasts ==
  ASSUME IndInv, [Next]_vars, NEW p \in Procs, NEW s \in Sites, Leaked(p, s), Up(p)'
  PROVE  Leaked(p, s)'
<1>1. s \in registry[p] /\ ~Backed(p, s)
  BY DEF Leaked
<1>2. ASSUME registry' = registry, task' = task PROVE Leaked(p, s)'
  BY <1>1, <1>2 DEF Leaked, Backed, Active
<1>3. ASSUME NEW w \in Workers, Advance(w) PROVE Leaked(p, s)'
  <2>1. CASE Register(w)
    <3>1. s \in registry'[p] /\ (p # Home[w] \/ s # task[w].site)
      BY <1>1, <2>1, RegisterSites
    <3>2. ~Backed(p, s)'
      BY <1>1, <2>1, <3>1, RegisterSites DEF Backed, Active
    <3> QED BY <3>1, <3>2 DEF Leaked
  <2>2. CASE ClaimBusy(w) \/ OpenError(w) \/ Release(w)
    <3>1. p # Home[w] \/ s # task[w].site
      BY <1>1, <2>2, UnregisterSites DEF Backed
    <3>2. s \in registry'[p]
      BY <1>1, <2>2, <3>1, UnregisterSites
    <3>3. ~Backed(p, s)'
      BY <1>1, <2>2, UnregisterSites, NoNewBacking
    <3> QED BY <3>2, <3>3 DEF Leaked
  <2>3. CASE ClaimError(w)
    <3>1. ~Active(w)' /\ registry' = registry /\ \A v \in Workers : v # w => task'[v] = task[v]
      BY <2>3, StopType DEF ClaimError, IndInv, Idle, Active, Scanning
    <3> QED BY <1>1, <3>1, NoNewBacking DEF Leaked
  <2>4. CASE Refuse(w)
    BY <1>1, <2>4, NoSites, NoNewBacking DEF Leaked
  <2>5. CASE \/ Claim(w) \/ Open(w) \/ CloseUnregistered(w) \/ StreamRaises(w) \/ Conclude(w)
             \/ StreamError(w) \/ BrokenFlushed(w) \/ BrokenRaises(w) \/ Close(w) \/ CloseError(w)
    BY <1>1, <2>5, SteadySites, NoNewBacking DEF Leaked
  <2> QED BY <1>3, <2>1, <2>2, <2>3, <2>4, <2>5 DEF Advance
<1>4. ASSUME NEW w \in Workers, NEW t \in Sites, Dispatch(w, t) \/ Request(w, t) PROVE Leaked(p, s)'
  <2>1. /\ registry' = registry /\ ~Active(w)'
        /\ \A v \in Workers : v # w => task'[v] = task[v]
    BY <1>4, NoSites
  <2> QED BY <1>1, <2>1, NoNewBacking DEF Leaked
<1>5. ASSUME NEW q \in Procs, Crash(q) \/ Exit(q) PROVE Leaked(p, s)'
  <2>1. p # q /\ s \in registry'[p]
    BY <1>1, <1>5, VanishSites
  <2>2. \A w \in Workers : Home[w] = p => task'[w] = task[w]
    BY <1>5, <2>1, VanishSites
  <2> QED BY <1>1, <2>1, <2>2 DEF Leaked, Backed, Active
<1>6. ASSUME NEW q \in Procs, Start(q) \/ Reap(q) PROVE Leaked(p, s)'
  BY <1>2, <1>6 DEF Start, Reap
<1>7. ASSUME NEW q \in Procs, NEW t \in Sites, RequestCancel(q, t) PROVE Leaked(p, s)'
  BY <1>2, <1>7 DEF RequestCancel
<1>8. ASSUME NEW r \in Rows, Age(r) PROVE Leaked(p, s)'
  BY <1>2, <1>8 DEF Age
<1>9. ASSUME NEW t \in Sites, ComeDue(t) PROVE Leaked(p, s)'
  BY <1>2, <1>9 DEF ComeDue
<1>10. CASE UNCHANGED vars
  BY <1>2, <1>10 DEF vars
<1> QED BY <1>3, <1>4, <1>5, <1>6, <1>7, <1>8, <1>9, <1>10 DEF Next

\* A leaked registration is begun by a failing commit of _claim_site, and once
\* there it refuses its site until the process that holds it is gone.
THEOREM LeaksLast ==
  Spec => /\ [][NoLeakedClaim /\ ~NoLeakedClaim' => \E w \in Workers : ClaimError(w)]_vars
          /\ [][\A p \in Procs, s \in Sites : Leaked(p, s) => Leaked(p, s)' \/ ~Up(p)']_vars
<1>1. IndInv /\ [Next]_vars =>
        [NoLeakedClaim /\ ~NoLeakedClaim' => \E w \in Workers : ClaimError(w)]_vars
  BY LeakStep
<1>2. IndInv /\ [Next]_vars =>
        [\A p \in Procs, s \in Sites : Leaked(p, s) => Leaked(p, s)' \/ ~Up(p)']_vars
  BY LeakLasts
<1> QED BY <1>1, <1>2, Invariant, PTL DEF Spec

(***************************************************************************)
(* One scan per site. "Only one scan per site runs at a time" is the       *)
(* registry's promise inside a process. Between processes it rests on the  *)
(* scan_runs rows, which two transactions write: what follows says exactly *)
(* what is missing.                                                        *)
(***************************************************************************)
\* With every scan in one process the docstring is true, whatever fails.
THEOREM OneProcess ==
  (\A w, v \in Workers : Home[w] = Home[v]) => (Spec => []OneScanPerSite)
<1> SUFFICES ASSUME \A w, v \in Workers : Home[w] = Home[v] PROVE Spec => []OneScanPerSite
  OBVIOUS
<1>1. InProcessExclusion => OneScanPerSite
  BY DEF InProcessExclusion, OneScanPerSite, Active, Scanning
<1> QED BY <1>1, Exclusion, PTL

\* A RUNNING row is a row of the site its worker scans.
RowSiteOK ==
    \A w \in Workers : \A r \in Rows :
        task[w].row = r /\ Running(r) => rows[r].site = task[w].site

\* A step that hands out no row, and turns none back to RUNNING.
LEMMA KeepRowSite ==
  ASSUME RowSiteOK,
         \A w \in Workers : task'[w].row \in Rows =>
            task'[w].row = task[w].row /\ task'[w].site = task[w].site,
         \A r \in Rows : Running(r)' => Running(r) /\ rows'[r].site = rows[r].site
  PROVE  RowSiteOK'
  BY DEF RowSiteOK

\* What the steps of a scan, but for the insert of its row, leave as it was.
LEMMA AdvanceKeeps ==
  ASSUME IndInv, NEW w \in Workers, Advance(w), ~Open(w)
  PROVE  /\ \A v \in Workers : task'[v].row \in Rows =>
               task'[v].row = task[v].row /\ task'[v].site = task[v].site
         /\ \A r \in Rows : Running(r)' => Running(r) /\ rows'[r].site = rows[r].site
<1> USE DEF IndInv
<1>1. CASE Register(w)
  <2>1. rows' = rows /\ \A v \in Workers : task'[v].row = task[v].row
    BY <1>1, GotoRow DEF Register, Scanning
  <2> QED BY <1>1, <2>1, RegisterSites DEF Running
<1>2. CASE Refuse(w) \/ ClaimBusy(w) \/ ClaimError(w) \/ OpenError(w)
  BY <1>2, StopRow DEF Refuse, ClaimBusy, ClaimError, OpenError, Running
<1>3. CASE Release(w)
  <2>1. \A r \in Rows : Running(r)' => rows'[r] = rows[r] /\ Running(r)
    BY <1>3, NotRunning DEF Release, Running, TypeOK
  <2> QED BY <1>3, <2>1, StopRow DEF Release
<1>4. CASE \/ Claim(w) \/ CloseUnregistered(w) \/ StreamError(w)
           \/ BrokenFlushed(w) \/ BrokenRaises(w) \/ Close(w) \/ CloseError(w)
  <2>1. \E pc \in Scanning : Goto(w, pc)
    BY <1>4 DEF Claim, CloseUnregistered, StreamError, BrokenFlushed, BrokenRaises, Close,
                CloseError, Scanning
  <2>2. \A v \in Workers : task'[v].row = task[v].row
    BY <2>1, GotoRow
  <2>3. \A v \in Workers : task'[v].site = task[v].site
    BY <1>4, SteadySites
  <2>4. \A r \in Rows : Running(r)' => rows'[r] = rows[r] /\ Running(r)
    <3>1. CASE Claim(w)
      BY <3>1, NotRunning DEF Claim, Running
    <3>2. CASE CloseUnregistered(w) \/ Close(w)
      <4>1. \E st \in Closed : SetStatus(w, st)
        BY <3>2 DEF CloseUnregistered, Close, TaskOK, Closed
      <4> QED BY <4>1, SetStatusRows DEF Running
    <3>3. CASE StreamError(w) \/ BrokenFlushed(w) \/ BrokenRaises(w) \/ CloseError(w)
      BY <3>3 DEF StreamError, BrokenFlushed, BrokenRaises, CloseError, Running
    <3> QED BY <1>4, <3>1, <3>2, <3>3
  <2> QED BY <2>2, <2>3, <2>4
<1>5. CASE StreamRaises(w) \/ Conclude(w)
  <2>1. PICK v \in Closed : task' = [task EXCEPT ![w] = Concluded(@, v)]
    BY <1>5 DEF StreamRaises, Conclude, Closed
  <2>2. /\ task[w] \in Task /\ task'[w] = Concluded(task[w], v)
        /\ \A u \in Workers : u # w => task'[u] = task[u]
    BY <2>1 DEF TypeOK
  <2>3. \A u \in Workers : task'[u].row = task[u].row /\ task'[u].site = task[u].site
    BY <2>2, ConcludedRecord
  <2>4. rows' = rows \/ \E st \in Closed : SetStatus(w, st)
    BY <1>5 DEF StreamRaises, Conclude, Closed
  <2>5. \A r \in Rows : Running(r)' => rows'[r] = rows[r] /\ Running(r)
    BY <2>4, SetStatusRows DEF Running
  <2> QED BY <2>3, <2>5
<1> QED BY <1>1, <1>2, <1>3, <1>4, <1>5 DEF Advance

\* The insert: a free row becomes the worker's, RUNNING and for its site.
LEMMA OpenRow ==
  ASSUME IndInv, NEW w \in Workers, Open(w)
  PROVE  \E r \in Rows :
           /\ ~Running(r) /\ \A v \in Workers : task[v].row # r
           /\ task'[w].row = r /\ task'[w].pc = "stream" /\ task'[w].site = task[w].site
           /\ \A v \in Workers : v # w => task'[v] = task[v]
           /\ rows'[r] = NewRow(task[w].site, Home[w])
           /\ \A q \in Rows : q # r => rows'[q] = rows[q]
<1> USE DEF IndInv
<1>1. PICK r \in FreeRows : /\ rows' = [rows EXCEPT ![r] = NewRow(task[w].site, Home[w])]
                            /\ task' = [task EXCEPT ![w] = Opened(@, r)]
  BY DEF Open
<1>2. r \in Rows /\ ~Running(r) /\ \A v \in Workers : task[v].row # r
  BY <1>1 DEF FreeRows, Held
<1>3. /\ task[w] \in Task /\ task'[w] = Opened(task[w], r)
      /\ \A v \in Workers : v # w => task'[v] = task[v]
  BY <1>1 DEF TypeOK
<1>4. task'[w].row = r /\ task'[w].pc = "stream" /\ task'[w].site = task[w].site
  BY <1>2, <1>3, OpenedRecord
<1>5. rows'[r] = NewRow(task[w].site, Home[w]) /\ \A q \in Rows : q # r => rows'[q] = rows[q]
  BY <1>1, <1>2 DEF TypeOK
<1> QED BY <1>2, <1>3, <1>4, <1>5

LEMMA RowSiteStep == IndInv /\ RowSiteOK /\ [Next]_vars => RowSiteOK'
<1> SUFFICES ASSUME IndInv, RowSiteOK, [Next]_vars PROVE RowSiteOK'
  OBVIOUS
<1> USE DEF IndInv
<1>1. ASSUME NEW w \in Workers, Advance(w), ~Open(w) PROVE RowSiteOK'
  BY <1>1, AdvanceKeeps, KeepRowSite
<1>2. ASSUME NEW w \in Workers, Open(w) PROVE RowSiteOK'
  <2>1. PICK r \in Rows :
           /\ ~Running(r) /\ \A v \in Workers : task[v].row # r
           /\ task'[w].row = r /\ task'[w].pc = "stream" /\ task'[w].site = task[w].site
           /\ \A v \in Workers : v # w => task'[v] = task[v]
           /\ rows'[r] = NewRow(task[w].site, Home[w])
           /\ \A q \in Rows : q # r => rows'[q] = rows[q]
    BY <1>2, OpenRow
  <2>2. rows'[r].site = task[w].site
    BY <2>1 DEF NewRow
  <2> QED BY <2>1, <2>2 DEF RowSiteOK, Running
<1>3. ASSUME NEW w \in Workers, NEW s \in Sites, Dispatch(w, s) \/ Request(w, s) PROVE RowSiteOK'
  <2>1. \A v \in Workers : task'[v].row \in Rows => task'[v] = task[v]
    BY <1>3, ConstantsAssumption DEF Dispatch, Request, TypeOK, Queued
  <2> QED BY <1>3, <2>1, KeepRowSite DEF Dispatch, Request, Running
<1>4. ASSUME NEW p \in Procs, Crash(p) \/ Exit(p) PROVE RowSiteOK'
  <2>1. Vanish(p)
    BY <1>4 DEF Crash, Exit
  <2>2. \A w \in Workers : task'[w].row \in Rows => task'[w] = task[w]
    BY <2>1, ConstantsAssumption DEF Vanish, Idle
  <2> QED BY <2>1, <2>2, KeepRowSite DEF Vanish, Running
<1>5. ASSUME NEW p \in Procs, Reap(p) PROVE RowSiteOK'
  <2>1. \A r \in Rows : Running(r)' => rows'[r] = rows[r] /\ Running(r)
    BY <1>5, NotRunning DEF Reap, Running
  <2> QED BY <1>5, <2>1, KeepRowSite DEF Reap
<1>6. ASSUME NEW r \in Rows, Age(r) PROVE RowSiteOK'
  <2>1. \A q \in Rows : Running(q)' => Running(q) /\ rows'[q].site = rows[q].site
    BY <1>6 DEF Age, Running, TypeOK, Row
  <2> QED BY <1>6, <2>1, KeepRowSite DEF Age
<1>7. ASSUME task' = task, rows' = rows PROVE RowSiteOK'
  BY <1>7, KeepRowSite DEF Running
<1>8. ASSUME NEW p \in Procs, NEW s \in Sites, RequestCancel(p, s) PROVE RowSiteOK'
  BY <1>7, <1>8 DEF RequestCancel
<1>9. ASSUME NEW s \in Sites, ComeDue(s) PROVE RowSiteOK'
  BY <1>7, <1>9 DEF ComeDue
<1>10. ASSUME NEW p \in Procs, Start(p) PROVE RowSiteOK'
  BY <1>7, <1>10 DEF Start
<1>11. CASE UNCHANGED vars
  BY <1>7, <1>11 DEF vars
<1> QED BY <1>1, <1>2, <1>3, <1>4, <1>5, <1>6, <1>8, <1>9, <1>10, <1>11 DEF Next

LEMMA RowSites == Spec => []RowSiteOK
<1>1. Init => RowSiteOK
  BY ConstantsAssumption DEF Init, RowSiteOK, Idle
<1> QED BY <1>1, RowSiteStep, Invariant, PTL DEF Spec

\* A claim sees every live run on its machine: no scan of the site is under way
\* with its row inserted and its time not up.
LEMMA ClaimSees ==
  ASSUME SameMachine, IndInv, RowSiteOK, NEW w \in Workers, Claim(w),
         NEW v \in Workers, NEW r \in Rows, task[v].row = r, Running(r), ~rows[r].aged
  PROVE  task[v].site # task[w].site
<1>1. Home[w] \in Procs
  BY ConstantsAssumption
<1>2. Claimed(Home[w], r) /\ rows[r].site = task[v].site
  BY <1>1, HeldIsClaimed DEF RowSiteOK
<1> QED BY <1>2 DEF Claim, RunningRowsOf

\* _claim_site never lets a scan begin beside one whose row is there, whose
\* process is up and whose time is not up, whichever process of the machine.
THEOREM ClaimSeesLiveRuns ==
  SameMachine => (Spec =>
    [][\A w, v \in Workers : \A r \in Rows :
         Claim(w) /\ task[v].row = r /\ Running(r) /\ ~rows[r].aged
            => task[v].site # task[w].site]_vars)
<1> SUFFICES ASSUME SameMachine
             PROVE  Spec => [][\A w, v \in Workers : \A r \in Rows :
                                 Claim(w) /\ task[v].row = r /\ Running(r) /\ ~rows[r].aged
                                    => task[v].site # task[w].site]_vars
  OBVIOUS
<1>1. IndInv /\ RowSiteOK /\ [Next]_vars =>
        [\A w, v \in Workers : \A r \in Rows :
           Claim(w) /\ task[v].row = r /\ Running(r) /\ ~rows[r].aged
              => task[v].site # task[w].site]_vars
  BY ClaimSees
<1> QED BY <1>1, Invariant, RowSites, PTL DEF Spec

\* What is missing. Between the transaction that finds the site free and the one
\* that inserts the row, a second scan of it may pass the first; and a run that
\* outlasts scan_timeout_minutes is no longer a claim.
NoTwoInTheGap ==
    \A w, v \in Workers :
        (w # v /\ task[w].pc = "open" /\ task[v].pc = "open") => task[w].site # task[v].site

NoneOverdue == \A r \in Rows : ~rows[r].aged

\* From its claim to the end of its stream.
InDatabase(w) == task[w].pc \in {"open", "stream"}

ClaimsApart ==
    \A w, v \in Workers :
        (w # v /\ InDatabase(w) /\ InDatabase(v)) => task[w].site # task[v].site

StreamsRun == \A w \in Workers : task[w].pc = "stream" => Running(task[w].row)

\* Who comes to hold a claim in the database, and how.
LEMMA IntoDatabase ==
  ASSUME IndInv, [Next]_vars, NEW w \in Workers, InDatabase(w)'
  PROVE  \/ Claim(w) /\ task'[w].pc = "open" /\ task'[w].site = task[w].site
            /\ \A v \in Workers : v # w => task'[v] = task[v]
         \/ Open(w) /\ InDatabase(w) /\ task'[w].site = task[w].site
         \/ InDatabase(w) /\ task'[w] = task[w]
<1> USE DEF IndInv
<1>1. ASSUME NEW v \in Workers, Advance(v), v # w PROVE task'[w] = task[w]
  <2>1. CASE Register(v)
    BY <1>1, <2>1, RegisterSites
  <2>2. CASE Refuse(v) \/ ClaimBusy(v) \/ ClaimError(v) \/ OpenError(v) \/ Release(v)
    BY <1>1, <2>2, StopType DEF Refuse, ClaimBusy, ClaimError, OpenError, Release
  <2> QED BY <1>1, <2>1, <2>2, SteadySites DEF Advance
<1>2. ASSUME Advance(w), ~Claim(w), ~Open(w) PROVE FALSE
  <2>1. task[w] \in Task
    BY DEF TypeOK
  <2>2. CASE Refuse(w) \/ ClaimBusy(w) \/ ClaimError(w) \/ OpenError(w) \/ Release(w)
    BY <2>2, StopType DEF Refuse, ClaimBusy, ClaimError, OpenError, Release, Idle, InDatabase
  <2>3. CASE \/ Register(w) \/ CloseUnregistered(w) \/ StreamError(w)
             \/ BrokenFlushed(w) \/ BrokenRaises(w) \/ Close(w) \/ CloseError(w)
    <3>1. PICK pc \in Scanning \ {"open", "stream"} : Goto(w, pc)
      BY <2>3 DEF Register, CloseUnregistered, StreamError, BrokenFlushed, BrokenRaises, Close,
                  CloseError, Scanning
    <3>2. task'[w] = [task[w] EXCEPT !.pc = pc]
      BY <3>1, GotoType
    <3>3. task'[w].pc = pc
      BY <2>1, <3>2, MovedRecord
    <3> QED BY <3>1, <3>3 DEF InDatabase
  <2>4. CASE StreamRaises(w) \/ Conclude(w)
    <3>1. PICK v \in Closed : task' = [task EXCEPT ![w] = Concluded(@, v)]
      BY <2>4 DEF StreamRaises, Conclude, Closed
    <3>2. task'[w].pc = "close"
      BY <2>1, <3>1, ConcludedRecord DEF TypeOK
    <3> QED BY <3>2 DEF InDatabase
  <2> QED BY <1>2, <2>2, <2>3, <2>4 DEF Advance
<1>3. ASSUME Claim(w)
      PROVE  /\ task'[w].pc = "open" /\ task'[w].site = task[w].site
             /\ \A v \in Workers : v # w => task'[v] = task[v]
  <2>1. task[w] \in Task /\ task'[w] = [task[w] EXCEPT !.pc = "open"]
    BY <1>3, GotoType DEF Claim, Scanning, TypeOK
  <2>2. task'[w].pc = "open"
    BY <2>1, MovedRecord DEF Scanning
  <2> QED BY <1>3, <2>2, SteadySites
<1>4. ASSUME Open(w) PROVE InDatabase(w) /\ task'[w].site = task[w].site
  BY <1>4, SteadySites DEF Open, InDatabase
<1>5. ASSUME NEW v \in Workers, NEW s \in Sites, Dispatch(v, s) \/ Request(v, s)
      PROVE  task'[w] = task[w]
  BY <1>5 DEF Dispatch, Request, TypeOK, Queued, InDatabase
<1>6. ASSUME NEW p \in Procs, Crash(p) \/ Exit(p) PROVE task'[w] = task[w]
  BY <1>6, VanishSites DEF InDatabase, Active, Scanning
<1>7. ASSUME NEW p \in Procs, Start(p) \/ Reap(p) PROVE task' = task
  BY <1>7 DEF Start, Reap
<1>8. ASSUME NEW p \in Procs, NEW s \in Sites, RequestCancel(p, s) PROVE task' = task
  BY <1>8 DEF RequestCancel
<1>9. ASSUME NEW r \in Rows, Age(r) PROVE task' = task
  BY <1>9 DEF Age
<1>10. ASSUME NEW s \in Sites, ComeDue(s) PROVE task' = task
  BY <1>10 DEF ComeDue
<1>11. CASE UNCHANGED vars
  BY <1>11 DEF vars, InDatabase
<1>12. CASE Claim(w)
  BY <1>3, <1>12
<1>13. CASE Open(w)
  BY <1>4, <1>13
<1>14. CASE ~Claim(w) /\ ~Open(w)
  <2>1. task'[w] = task[w]
    BY <1>1, <1>2, <1>5, <1>6, <1>7, <1>8, <1>9, <1>10, <1>11, <1>14 DEF Next, vars
  <2> QED BY <2>1 DEF InDatabase
<1> QED BY <1>12, <1>13, <1>14

\* Until it is overdue nobody closes the row of a scan that streams.
LEMMA StreamsRunStep ==
  ASSUME SameMachine, IndInv, NoneOverdue, StreamsRun, [Next]_vars
  PROVE  StreamsRun'
<1> SUFFICES ASSUME NEW w \in Workers, task'[w].pc = "stream" PROVE Running(task[w].row)'
  BY DEF StreamsRun
<1>1. CASE Open(w)
  <2>1. PICK r \in Rows : task'[w].row = r /\ rows'[r] = NewRow(task[w].site, Home[w])
    BY <1>1, OpenRow
  <2> QED BY <2>1 DEF NewRow, Running
<1>2. CASE ~Open(w)
  <2>1. task'[w] = task[w]
    BY <1>2, IntoDatabase DEF InDatabase
  <2>2. task[w].row \in Rows /\ Running(task[w].row) /\ ~rows[task[w].row].aged
    BY <2>1 DEF IndInv, TaskOK, StreamsRun, NoneOverdue
  <2>3. rows'[task[w].row].status = "running"
    BY <2>1, <2>2, LiveRunStep
  <2> QED BY <2>1, <2>3 DEF Running
<1> QED BY <1>1, <1>2

LEMMA ClaimsApartStep ==
  ASSUME SameMachine, IndInv, RowSiteOK, NoneOverdue, StreamsRun, ClaimsApart,
         NoTwoInTheGap', [Next]_vars
  PROVE  ClaimsApart'
<1>1. ASSUME NEW w \in Workers, NEW v \in Workers, w # v, Claim(w), InDatabase(v)',
             task'[w].pc = "open", task'[w].site = task[w].site, task'[v] = task[v]
      PROVE  task'[w].site # task'[v].site
  <2>1. CASE task[v].pc = "open"
    BY <1>1, <2>1 DEF NoTwoInTheGap
  <2>2. CASE task[v].pc = "stream"
    <3>1. task[v].row \in Rows /\ Running(task[v].row) /\ ~rows[task[v].row].aged
      BY <2>2 DEF IndInv, TaskOK, StreamsRun, NoneOverdue
    <3> QED BY <1>1, <3>1, ClaimSees
  <2> QED BY <1>1, <2>1, <2>2 DEF InDatabase
<1> SUFFICES ASSUME NEW w \in Workers, NEW v \in Workers, w # v, InDatabase(w)', InDatabase(v)'
             PROVE  task'[w].site # task'[v].site
  BY DEF ClaimsApart
<1>2. CASE Claim(w) /\ task'[w].pc = "open" /\ task'[w].site = task[w].site
           /\ \A u \in Workers : u # w => task'[u] = task[u]
  BY <1>1, <1>2
<1>3. CASE Claim(v) /\ task'[v].pc = "open" /\ task'[v].site = task[v].site
           /\ \A u \in Workers : u # v => task'[u] = task[u]
  BY <1>1, <1>3
<1>4. CASE /\ InDatabase(w) /\ task'[w].site = task[w].site
           /\ InDatabase(v) /\ task'[v].site = task[v].site
  BY <1>4 DEF ClaimsApart
<1> QED BY <1>2, <1>3, <1>4, IntoDatabase

\* On one machine two scans of a site stream together in these two ways only:
\* both passed the claim before either had inserted its row, or one of them has
\* outlasted the timeout.
THEOREM OnlyTheGap ==
  SameMachine => (Spec /\ []NoTwoInTheGap /\ []NoneOverdue => []OneScanPerSite)
<1> SUFFICES ASSUME SameMachine
             PROVE  Spec /\ []NoTwoInTheGap /\ []NoneOverdue => []OneScanPerSite
  OBVIOUS
<1>1. Init => StreamsRun /\ ClaimsApart
  BY DEF Init, StreamsRun, ClaimsApart, InDatabase, Idle
<1>2. IndInv /\ RowSiteOK /\ NoneOverdue /\ NoTwoInTheGap' /\ StreamsRun /\ ClaimsApart /\ [Next]_vars
        => StreamsRun' /\ ClaimsApart'
  BY StreamsRunStep, ClaimsApartStep
<1>3. ClaimsApart => OneScanPerSite
  BY DEF ClaimsApart, InDatabase, OneScanPerSite
<1> QED BY <1>1, <1>2, <1>3, Invariant, RowSites, PTL DEF Spec

(***************************************************************************)
(* A cancellation is of the scan that was running when it was asked for.    *)
(***************************************************************************)
CancelOK == \A p \in Procs : cancels[p] \subseteq registry[p]

LEMMA CancelStep == ASSUME TypeOK, CancelOK, [Next]_vars PROVE CancelOK'
<1>1. /\ registry \in [Procs -> SUBSET Sites] /\ cancels \in [Procs -> SUBSET Sites]
      /\ \A w \in Workers : Home[w] \in Procs
  BY ConstantsAssumption DEF ConstantsAssumption, TypeOK
<1>2. CASE UNCHANGED <<registry, cancels>>
  BY <1>2 DEF CancelOK
<1>3. ASSUME NEW p \in Procs, Vanish(p) PROVE CancelOK'
  BY <1>1, <1>3 DEF Vanish, CancelOK
<1>4. ASSUME NEW p \in Procs, NEW s \in Sites, RequestCancel(p, s) PROVE CancelOK'
  BY <1>1, <1>4 DEF RequestCancel, CancelOK
<1>5. ASSUME NEW w \in Workers, Register(w) PROVE CancelOK'
  BY <1>1, <1>5 DEF Register, CancelOK
<1>6. ASSUME NEW w \in Workers, Unregister(w) PROVE CancelOK'
  BY <1>1, <1>6 DEF Unregister, CancelOK
<1>7. ASSUME NEW w \in Workers, Advance(w)
      PROVE  Register(w) \/ Unregister(w) \/ UNCHANGED <<registry, cancels>>
  BY <1>7 DEF Advance, Refuse, ClaimBusy, Claim, ClaimError, Open, OpenError, CloseUnregistered,
              StreamRaises, Conclude, StreamError, BrokenFlushed, BrokenRaises, Close, CloseError,
              Release
<1>8. QED
  BY <1>2, <1>3, <1>4, <1>5, <1>6, <1>7
     DEF Next, Start, Crash, Exit, Reap, Dispatch, Request, Age, ComeDue, vars

\* A cancellation waits for nobody: the event that one left is gone with the registration of the
\* scan it was meant for, so that no later scan of the site is stopped by it, whether that one
\* ended, was refused, or went with its process (scan_service.request_cancel, run_scan).
THEOREM CancelsAreCurrent == Spec => []CancelOK
<1>1. Init => CancelOK
  BY DEF Init, CancelOK
<1>2. TypeOK /\ CancelOK /\ [Next]_vars => CancelOK'
  BY CancelStep
<1>3. QED
  BY <1>1, <1>2, TypeCorrect, PTL DEF Spec
=============================================================================
