--------------------------- MODULE SiteRecordProofs ---------------------------
(***************************************************************************)
(* What SiteRecord guarantees of the administrators' mail for any sites,   *)
(* intervals and number of failures, restarts and edits.                   *)
(***************************************************************************)
EXTENDS SiteRecord, TLAPS

(***************************************************************************)
(* The records the actions write.                                          *)
(***************************************************************************)
LEMMA NewSiteType == \A i \in Intervals : NewSite(i) \in SiteRow
  BY ConstantsAssumption DEF NewSite, SiteRow, When, Waiting, Failure

LEMMA NotScanningType ==
  ASSUME NEW row \in SiteRow
  PROVE  NotScanning(row) \in Scan /\ NotScanning(row).pc = "idle"
  BY DEF NotScanning, Scan

LEMMA FailingRecord ==
  ASSUME NEW row \in SiteRow, NEW e \in Failure
  PROVE  /\ Failing(row, e) \in SiteRow
         /\ Failing(row, e).failing = e /\ Failing(row, e).lasted = FALSE
         /\ Failing(row, e).reported = row.reported
<1> DEFINE m == [row EXCEPT !.failing = e]
            u == [m EXCEPT !.lasted = FALSE]
<1>1. m \in SiteRow /\ m.failing = e /\ m.reported = row.reported
  BY DEF SiteRow
<1> HIDE DEF m
<1>2. u \in SiteRow /\ u.failing = e /\ u.lasted = FALSE /\ u.reported = row.reported
  BY <1>1 DEF SiteRow
<1>3. Failing(row, e) = u
  BY DEF Failing, m
<1> QED BY <1>2, <1>3

LEMMA SwitchedRecord ==
  ASSUME NEW row \in SiteRow, NEW on \in BOOLEAN
  PROVE  /\ Switched(row, on) \in SiteRow
         /\ Switched(row, on).failing = row.failing
         /\ Switched(row, on).lasted = row.lasted
         /\ Switched(row, on).reported = row.reported
<1> DEFINE m == [row EXCEPT !.enabled = on]
            u == [m EXCEPT !.next = IF on THEN "asked" ELSE "null"]
<1>1. m \in SiteRow /\ m.failing = row.failing /\ m.lasted = row.lasted /\ m.reported = row.reported
  BY DEF SiteRow
<1> HIDE DEF m
<1>2. u \in SiteRow /\ u.failing = row.failing /\ u.lasted = row.lasted /\ u.reported = row.reported
  BY <1>1 DEF SiteRow, When
<1>3. Switched(row, on) = u
  BY DEF Switched, m
<1> QED BY <1>2, <1>3

LEMMA RebasedRecord ==
  ASSUME NEW row \in SiteRow, NEW i \in Intervals, NEW w \in {i, "elapsed"}
  PROVE  /\ Rebased(row, i, w) \in SiteRow
         /\ Rebased(row, i, w).failing = row.failing
         /\ Rebased(row, i, w).lasted = row.lasted
         /\ Rebased(row, i, w).reported = row.reported
<1> DEFINE m == [row EXCEPT !.interval = i]
            u == [m EXCEPT !.next = IF row.enabled THEN w ELSE @]
<1>1. m \in SiteRow /\ m.failing = row.failing /\ m.lasted = row.lasted /\ m.reported = row.reported
  BY DEF SiteRow
<1> HIDE DEF m
<1>2. u \in SiteRow /\ u.failing = row.failing /\ u.lasted = row.lasted /\ u.reported = row.reported
  BY <1>1 DEF SiteRow, When, Waiting
<1>3. Rebased(row, i, w) = u
  BY DEF Rebased, m
<1> QED BY <1>2, <1>3

LEMMA WorkingRecord ==
  ASSUME NEW row \in SiteRow, NEW seen \in SiteRow
  PROVE  /\ Working(row, seen) \in SiteRow
         /\ Working(row, seen).failing = IF seen.failing # 0 THEN 0 ELSE row.failing
<1> DEFINE calm == IF seen.failing # 0 THEN Failing(row, 0) ELSE row
            u == [calm EXCEPT !.reported = FALSE]
<1>1. 0 \in Failure
  BY ConstantsAssumption DEF Failure
<1>2. calm \in SiteRow /\ calm.failing = IF seen.failing # 0 THEN 0 ELSE row.failing
  BY <1>1, FailingRecord
<1>3. Working(row, seen) = IF seen.reported THEN u ELSE calm
  BY DEF Working
<1> HIDE DEF calm
<1>4. u \in SiteRow /\ u.failing = calm.failing
  BY <1>2 DEF SiteRow
<1> QED BY <1>2, <1>3, <1>4

LEMMA EndedRecord ==
  ASSUME NEW sc \in Scan, NEW v \in Verdicts
  PROVE  /\ Ended(sc, v) \in Scan
         /\ Ended(sc, v).pc = "alert" /\ Ended(sc, v).verdict = v /\ Ended(sc, v).row = sc.row
<1> DEFINE m == [sc EXCEPT !.pc = "alert"]
            u == [m EXCEPT !.verdict = v]
<1>1. m \in Scan /\ m.pc = "alert" /\ m.row = sc.row
  BY DEF Scan
<1> HIDE DEF m
<1>2. u \in Scan /\ u.pc = "alert" /\ u.verdict = v /\ u.row = sc.row
  BY <1>1 DEF Scan
<1>3. Ended(sc, v) = u
  BY DEF Ended, m
<1> QED BY <1>2, <1>3

(***************************************************************************)
(* One action at a time. A site none of whose records a step touches keeps *)
(* its part of the invariant.                                              *)
(***************************************************************************)
LEMMA Untouched ==
  ASSUME NEW s \in Sites, SiteOK(s),
         site'[s].failing = site[s].failing, site'[s].lasted = site[s].lasted,
         site'[s].reported = site[s].reported,
         scan'[s] = scan[s], todo'[s] = todo[s], failures'[s] = failures[s],
         mailed'[s] = mailed[s], blips'[s] = blips[s], saying' = s => saying = s
  PROVE  SiteOK(s)'
  BY DEF SiteOK, ScanOK, FreshOK, ListOK, MailOK

\* A new interval, a switch, a request, the passing of time: the schedule alone.
LEMMA ScheduleStep ==
  ASSUME IndInv, NEW s \in Sites,
         \/ Disable(s) \/ Enable(s) \/ QueueScan(s) \/ ComeDue(s)
         \/ RestBegins(s) \/ RestEnds(s)
         \/ \E i \in Intervals : SetInterval(s, i)
  PROVE  IndInv'
<1> USE ConstantsAssumption
<1>1. TypeOK /\ site[s] \in SiteRow
  BY DEF IndInv, TypeOK
<1>2. ASSUME NEW row \in SiteRow, site' = [site EXCEPT ![s] = row],
             row.failing = site[s].failing, row.lasted = site[s].lasted,
             row.reported = site[s].reported,
             edits' \in 0..MaxEdits,
             UNCHANGED <<scan, resting, todo, saying, failures, crashes, mailed, blips, told>>
      PROVE  IndInv'
  <2>1. TypeOK'
    BY <1>1, <1>2 DEF TypeOK
  <2>2. \A z \in Sites : SiteOK(z)'
    BY <1>1, <1>2, Untouched DEF IndInv, TypeOK
  <2> QED BY <2>1, <2>2 DEF IndInv
<1>3. CASE Disable(s)
  <2>1. site' = [site EXCEPT ![s] = Switched(site[s], FALSE)]
    BY <1>3 DEF Disable
  <2> QED BY <1>1, <1>2, <1>3, <2>1, SwitchedRecord DEF Disable, TypeOK
<1>4. CASE Enable(s)
  <2>1. site' = [site EXCEPT ![s] = Switched(site[s], TRUE)]
    BY <1>4 DEF Enable
  <2> QED BY <1>1, <1>2, <1>4, <2>1, SwitchedRecord DEF Enable, TypeOK
<1>5. ASSUME NEW w \in {"asked", "elapsed"}, SetNext(s, w),
             UNCHANGED <<scan, resting, todo, saying, failures, crashes, edits, mailed, blips, told>>
      PROVE  IndInv'
  <2> DEFINE row == [site[s] EXCEPT !.next = w]
  <2>1. row \in SiteRow /\ row.failing = site[s].failing /\ row.lasted = site[s].lasted
        /\ row.reported = site[s].reported
    BY <1>1, <1>5 DEF SiteRow, When
  <2>2. site' = [site EXCEPT ![s] = row]
    BY <1>5 DEF SetNext
  <2> HIDE DEF row
  <2> QED BY <1>1, <1>2, <1>5, <2>1, <2>2 DEF TypeOK
<1>6. CASE QueueScan(s)
  BY <1>5, <1>6 DEF QueueScan
<1>7. CASE ComeDue(s)
  BY <1>5, <1>7 DEF ComeDue
<1>8. ASSUME NEW i \in Intervals, SetInterval(s, i)
      PROVE  IndInv'
  <2>1. PICK w \in {i, "elapsed"} : site' = [site EXCEPT ![s] = Rebased(site[s], i, w)]
    BY <1>8 DEF SetInterval
  <2>2. edits' \in 0..MaxEdits
    BY <1>1, <1>8 DEF SetInterval, TypeOK
  <2> DEFINE row == Rebased(site[s], i, w)
  <2>3. /\ row \in SiteRow /\ row.failing = site[s].failing
        /\ row.lasted = site[s].lasted /\ row.reported = site[s].reported
    BY <1>1, RebasedRecord
  <2>4. UNCHANGED <<scan, resting, todo, saying, failures, crashes, mailed, blips, told>>
    BY <1>8 DEF SetInterval
  <2>5. site' = [site EXCEPT ![s] = row]
    BY <2>1
  <2> HIDE DEF row
  <2> QED BY <1>2, <2>2, <2>3, <2>4, <2>5
<1>9. CASE RestBegins(s) \/ RestEnds(s)
  <2>1. /\ resting' \subseteq Sites
        /\ UNCHANGED <<site, scan, todo, saying, failures, crashes, edits, mailed, blips, told>>
    BY <1>1, <1>9 DEF RestBegins, RestEnds, TypeOK
  <2>2. TypeOK'
    BY <1>1, <2>1 DEF TypeOK
  <2>3. \A z \in Sites : SiteOK(z)'
    BY <2>1, Untouched DEF IndInv
  <2> QED BY <2>2, <2>3 DEF IndInv
<1> QED BY <1>3, <1>4, <1>6, <1>7, <1>8, <1>9

\* The start and the end of a scan.
LEMMA ScanStep ==
  ASSUME IndInv, NEW s \in Sites, Load(s) \/ Finish(s) \/ Ignore(s)
  PROVE  IndInv'
<1> USE ConstantsAssumption
<1>1. TypeOK /\ site[s] \in SiteRow /\ scan[s] \in Scan /\ SiteOK(s)
  BY DEF IndInv, TypeOK
<1>2. ASSUME NEW sc \in Scan, scan' = [scan EXCEPT ![s] = sc],
             NEW row \in SiteRow, site' = [site EXCEPT ![s] = row],
             row.failing = site[s].failing, row.lasted = site[s].lasted,
             row.reported = site[s].reported,
             sc.pc # "idle" => sc.row.failing = site[s].failing,
             sc.pc = "alert" => sc.verdict \in Verdicts,
             (sc.pc = "alert" /\ sc.verdict \in {"failed", "rested"} /\ sc.row.failing = 0)
               => failures[s] < MaxFailures,
             UNCHANGED <<resting, todo, saying, failures, crashes, edits, mailed, blips, told>>
      PROVE  IndInv'
  <2>1. TypeOK'
    BY <1>1, <1>2 DEF TypeOK
  <2>2. site'[s] = row /\ scan'[s] = sc
    BY <1>1, <1>2 DEF TypeOK
  <2>3. SiteOK(s)'
    BY <1>1, <1>2, <2>2 DEF SiteOK, ScanOK, FreshOK, ListOK, MailOK
  <2>4. \A z \in Sites \ {s} : SiteOK(z)'
    BY <1>1, <1>2, Untouched DEF IndInv, TypeOK
  <2> QED BY <2>1, <2>3, <2>4 DEF IndInv
<1>3. CASE Load(s)
  <2> DEFINE sc == [pc |-> "running", row |-> site[s], verdict |-> "none"]
  <2>1. sc \in Scan /\ sc.pc = "running" /\ sc.row = site[s]
    BY <1>1 DEF Scan
  <2>2. scan' = [scan EXCEPT ![s] = sc] /\ site' = [site EXCEPT ![s] = site[s]]
    BY <1>1, <1>3 DEF Load, TypeOK
  <2> HIDE DEF sc
  <2> QED BY <1>1, <1>2, <1>3, <2>1, <2>2 DEF Load
<1>4. CASE Finish(s)
  <2>1. PICK v \in Verdicts :
          /\ v \in {"failed", "rested"} => scan[s].row.failing # 0 \/ failures[s] < MaxFailures
          /\ scan' = [scan EXCEPT ![s] = Ended(scan[s], v)]
          /\ site' = [site EXCEPT ![s].next = IF v = "rested" THEN "retry" ELSE scan[s].row.interval]
    BY <1>4 DEF Finish
  <2> DEFINE row == [site[s] EXCEPT !.next = IF v = "rested" THEN "retry" ELSE scan[s].row.interval]
  <2>2. row \in SiteRow /\ row.failing = site[s].failing /\ row.lasted = site[s].lasted
        /\ row.reported = site[s].reported
    BY <1>1 DEF SiteRow, Scan, When, Waiting
  <2>3. site' = [site EXCEPT ![s] = row]
    BY <2>1
  <2> HIDE DEF row
  <2>4. scan[s].row.failing = site[s].failing
    BY <1>1, <1>4 DEF SiteOK, ScanOK, Finish
  <2> DEFINE sc == Ended(scan[s], v)
  <2>5. sc \in Scan /\ sc.pc = "alert" /\ sc.verdict = v /\ sc.row = scan[s].row
    BY <1>1, EndedRecord
  <2>6. scan' = [scan EXCEPT ![s] = sc]
    BY <2>1
  <2>7. UNCHANGED <<resting, todo, saying, failures, crashes, edits, mailed, blips, told>>
    BY <1>4 DEF Finish
  <2>8. v \in {"failed", "rested"} => scan[s].row.failing # 0 \/ failures[s] < MaxFailures
    BY <2>1
  <2> HIDE DEF sc
  <2>9. /\ sc.pc # "idle" => sc.row.failing = site[s].failing
        /\ sc.pc = "alert" => sc.verdict \in Verdicts
        /\ (sc.pc = "alert" /\ sc.verdict \in {"failed", "rested"} /\ sc.row.failing = 0)
             => failures[s] < MaxFailures
    BY <2>4, <2>5, <2>8
  <2> QED BY <1>2, <2>2, <2>3, <2>5, <2>6, <2>7, <2>9
<1>5. CASE Ignore(s)
  <2>1. scan' = [scan EXCEPT ![s] = NotScanning(site[s])] /\ site' = [site EXCEPT ![s] = site[s]]
    BY <1>1, <1>5 DEF Ignore, EndScan, TypeOK
  <2> QED BY <1>1, <1>2, <1>5, <2>1, NotScanningType DEF Ignore
<1> QED BY <1>3, <1>4, <1>5

\* A failed scan begins a failure nobody has heard of, or finds one on record.
LEMMA FailureStep ==
  ASSUME IndInv, NEW s \in Sites, RecordFailure(s)
  PROVE  IndInv'
<1> USE ConstantsAssumption
<1>1. /\ TypeOK /\ site[s] \in SiteRow /\ scan[s] \in Scan /\ SiteOK(s)
      /\ failures[s] \in Failure /\ todo[s] \in Failure
  BY DEF IndInv, TypeOK
<1>2. /\ scan[s].row.failing = site[s].failing
      /\ scan[s].row.failing = 0 => failures[s] < MaxFailures
  BY <1>1 DEF SiteOK, ScanOK, RecordFailure
<1>3. /\ scan' = [scan EXCEPT ![s] = NotScanning(site[s])]
      /\ scan'[s].pc = "idle" /\ scan' \in [Sites -> Scan]
      /\ UNCHANGED <<resting, todo, saying, crashes, edits, mailed, blips, told>>
  BY <1>1, NotScanningType DEF RecordFailure, EndScan, TypeOK
<1>4. CASE scan[s].row.failing = 0
  <2> DEFINE e == failures[s] + 1
             row == Failing(site[s], e)
  <2>1. e \in Failure /\ e = failures[s] + 1 /\ failures[s] \in Nat /\ todo[s] \in Nat
    BY <1>1, <1>2, <1>4 DEF Failure
  <2>2. failures' = [failures EXCEPT ![s] = e] /\ site' = [site EXCEPT ![s] = row]
    BY <1>4 DEF RecordFailure
  <2> HIDE DEF e
  <2>3. row \in SiteRow /\ row.failing = e /\ row.lasted = FALSE
    BY <1>1, <2>1, FailingRecord
  <2> HIDE DEF row
  <2>4. failures'[s] = e /\ site'[s] = row
    BY <1>1, <2>2 DEF TypeOK
  <2>5. TypeOK'
    BY <1>1, <1>3, <2>1, <2>2, <2>3 DEF TypeOK
  <2>6. ScanOK(s)'
    BY <1>3 DEF ScanOK
  <2>7. FreshOK(s)'
    BY <1>1, <1>3, <2>1, <2>3, <2>4 DEF SiteOK, FreshOK
  <2>8. e # todo[s]
    BY <1>1, <2>1 DEF SiteOK, FreshOK
  <2>9. ListOK(s)'
    BY <1>1, <1>3, <2>3, <2>4, <2>8 DEF SiteOK, ListOK
  <2>10. e \in 1..MaxFailures => mailed[s][e] = 0 /\ e \notin blips[s]
    BY <1>1, <2>1 DEF SiteOK, FreshOK
  <2>11. MailOK(s)'
    BY <1>1, <1>3, <2>3, <2>4, <2>10 DEF SiteOK, MailOK
  <2>12. \A z \in Sites \ {s} : SiteOK(z)'
    BY <1>1, <1>3, <2>2, Untouched DEF IndInv, TypeOK
  <2> QED BY <2>5, <2>6, <2>7, <2>9, <2>11, <2>12 DEF IndInv, SiteOK
<1>5. CASE scan[s].row.failing # 0
  <2>1. UNCHANGED <<failures, site>>
    BY <1>5 DEF RecordFailure
  <2>2. TypeOK'
    BY <1>1, <1>3, <2>1 DEF TypeOK
  <2>3. SiteOK(s)'
    BY <1>1, <1>3, <2>1 DEF SiteOK, ScanOK, FreshOK, ListOK, MailOK
  <2>4. \A z \in Sites \ {s} : SiteOK(z)'
    BY <1>1, <1>3, <2>1, Untouched DEF IndInv, TypeOK
  <2> QED BY <2>2, <2>3, <2>4 DEF IndInv
<1> QED BY <1>4, <1>5

\* A healthy scan ends the failure on record; it is a blip only if it has not
\* outlasted the grace, and then it was never mailed.
LEMMA RecoveryStep ==
  ASSUME IndInv, NEW s \in Sites, RecordRecovery(s)
  PROVE  IndInv'
<1> USE ConstantsAssumption
<1> DEFINE row == Working(site[s], scan[s].row)
<1>1. /\ TypeOK /\ site[s] \in SiteRow /\ scan[s] \in Scan /\ scan[s].row \in SiteRow
      /\ SiteOK(s) /\ site[s].failing \in Failure /\ failures[s] \in Failure
  BY DEF IndInv, TypeOK, Scan, SiteRow
<1>2. /\ scan' = [scan EXCEPT ![s] = NotScanning(site[s])]
      /\ scan'[s].pc = "idle" /\ scan' \in [Sites -> Scan]
      /\ UNCHANGED <<resting, todo, saying, failures, crashes, edits, mailed>>
  BY <1>1, NotScanningType DEF RecordRecovery, EndScan, TypeOK
<1>3. site' = [site EXCEPT ![s] = row]
  BY DEF RecordRecovery
<1>4. row \in SiteRow /\ row.failing = 0
  <2>1. scan[s].row.failing = site[s].failing
    BY <1>1 DEF SiteOK, ScanOK, RecordRecovery
  <2> QED BY <1>1, <2>1, WorkingRecord
<1> HIDE DEF row
<1>5. /\ site'[s] = row /\ site' \in [Sites -> SiteRow]
      /\ \A z \in Sites \ {s} : site'[z] = site[z]
  BY <1>1, <1>3, <1>4 DEF TypeOK
<1> DEFINE ended == IF site[s].lasted THEN {} ELSE {site[s].failing} \ {0}
<1>6. /\ ended \subseteq 1..MaxFailures
      /\ \A e \in ended : e = site[s].failing /\ ~site[s].lasted /\ e # 0
  BY <1>1 DEF Failure, SiteRow
<1>7. blips' = [blips EXCEPT ![s] = blips[s] \union ended]
  BY DEF RecordRecovery, EndFailure
<1> HIDE DEF ended
<1>8. /\ blips'[s] = blips[s] \union ended /\ blips' \in [Sites -> SUBSET (1..MaxFailures)]
      /\ \A z \in Sites \ {s} : blips'[z] = blips[z]
  BY <1>1, <1>6, <1>7 DEF TypeOK
<1>9. told' \in [Sites -> {"nothing", "stopped", "again"}]
  BY <1>1 DEF RecordRecovery, Answer, TypeOK
<1>10. TypeOK'
  BY <1>1, <1>2, <1>5, <1>8, <1>9 DEF TypeOK
<1>11. ScanOK(s)'
  BY <1>2 DEF ScanOK
<1>12. FreshOK(s)'
  <2>1. \A e \in ended : e <= failures[s]
    BY <1>1, <1>6 DEF SiteOK, FreshOK
  <2>2. ASSUME NEW e \in 1..MaxFailures, e > failures[s]
        PROVE  mailed'[s][e] = 0 /\ e \notin blips'[s]
    BY <1>1, <1>2, <1>8, <2>1, <2>2 DEF SiteOK, FreshOK, Failure
  <2>3. row.failing <= failures[s]
    BY <1>1, <1>4 DEF Failure
  <2> QED BY <1>1, <1>2, <1>5, <2>2, <2>3 DEF SiteOK, FreshOK
<1>13. ListOK(s)'
  BY <1>1, <1>2, <1>4, <1>5, <1>6, <1>8 DEF SiteOK, ListOK
<1>14. MailOK(s)'
  <2>1. \A e \in ended : mailed[s][e] = 0
    BY <1>1, <1>6 DEF SiteOK, MailOK
  <2> QED BY <1>1, <1>2, <1>4, <1>5, <1>8, <2>1 DEF SiteOK, MailOK
<1>15. \A z \in Sites \ {s} : SiteOK(z)'
  BY <1>1, <1>2, <1>5, <1>8, Untouched DEF IndInv, TypeOK
<1> QED BY <1>10, <1>11, <1>12, <1>13, <1>14, <1>15 DEF IndInv, SiteOK

\* The tick's list holds failures that last and have not been mailed.
LEMMA ListStep ==
  ASSUME IndInv, ListOverdue
  PROVE  IndInv'
<1> USE ConstantsAssumption
<1>1. TypeOK /\ site \in [Sites -> SiteRow]
  BY DEF IndInv, TypeOK
<1>2. UNCHANGED <<site, scan, resting, saying, failures, crashes, edits, mailed, blips, told>>
  BY DEF ListOverdue
<1>3. ASSUME NEW s \in Sites
      PROVE  /\ todo'[s] \in Failure
             /\ todo'[s] # 0 => todo'[s] = site[s].failing /\ site[s].lasted /\ ~site[s].reported
  BY <1>1, <1>3 DEF ListOverdue, Overdue, SiteRow, Failure
<1>4. TypeOK'
  <2>1. todo' \in [Sites -> Failure]
    BY <1>3 DEF ListOverdue
  <2> QED BY <1>1, <1>2, <2>1 DEF TypeOK
<1>5. ASSUME NEW s \in Sites
      PROVE  SiteOK(s)'
  <2>1. SiteOK(s) /\ site[s].failing \in Failure /\ saying = NoSite
    BY <1>1 DEF IndInv, SiteRow, ListOverdue
  <2>2. ScanOK(s)'
    BY <1>2, <2>1 DEF SiteOK, ScanOK
  <2>3. todo'[s] <= failures[s]
    <3>1. 0 <= failures[s]
      BY <1>1 DEF TypeOK, Failure
    <3>2. site[s].failing <= failures[s]
      BY <2>1 DEF SiteOK, FreshOK
    <3> QED BY <1>3, <3>1, <3>2
  <2>4. FreshOK(s)'
    BY <1>2, <2>1, <2>3 DEF SiteOK, FreshOK
  <2>5. todo'[s] # 0 => mailed[s][todo'[s]] = 0 /\ todo'[s] \notin blips[s] /\ site[s].lasted
    <3>1. HAVE todo'[s] # 0
    <3>2. todo'[s] \in 1..MaxFailures
      BY <1>3, <3>1 DEF Failure
    <3> QED BY <1>3, <2>1, <3>1, <3>2 DEF SiteOK, MailOK
  <2>6. ListOK(s)'
    BY <1>2, <2>1, <2>5 DEF ListOK
  <2>7. MailOK(s)'
    BY <1>2, <2>1 DEF SiteOK, MailOK
  <2> QED BY <2>2, <2>4, <2>6, <2>7 DEF SiteOK
<1> QED BY <1>4, <1>5 DEF IndInv

\* The mark is on the row before the mail goes out.
LEMMA MarkStep ==
  ASSUME IndInv, NEW s \in Sites, Mark(s)
  PROVE  IndInv'
<1> USE ConstantsAssumption
<1> DEFINE row == [site[s] EXCEPT !.reported = TRUE]
<1>1. TypeOK /\ site[s] \in SiteRow /\ SiteOK(s) /\ todo[s] # 0
  BY DEF IndInv, TypeOK, Mark
<1>2. /\ row \in SiteRow /\ row.reported = TRUE
      /\ row.failing = site[s].failing /\ row.lasted = site[s].lasted
  BY <1>1 DEF SiteRow
<1>3. /\ site' = [site EXCEPT ![s] = row] /\ saying' = s
      /\ UNCHANGED <<scan, resting, todo, failures, crashes, edits, mailed, blips, told>>
  BY DEF Mark
<1> HIDE DEF row
<1>4. site'[s] = row
  BY <1>1, <1>3 DEF TypeOK
<1>5. TypeOK'
  BY <1>1, <1>2, <1>3 DEF TypeOK
<1>6. SiteOK(s)'
  BY <1>1, <1>2, <1>3, <1>4 DEF SiteOK, ScanOK, FreshOK, ListOK, MailOK
<1>7. \A z \in Sites \ {s} : SiteOK(z)'
  BY <1>1, <1>3, Untouched DEF IndInv, TypeOK
<1> QED BY <1>5, <1>6, <1>7 DEF IndInv

\* A failure on the tick's list has not been mailed, and leaves the list with
\* its mail.
LEMMA MailStep ==
  ASSUME IndInv, NEW s \in Sites, Mail(s)
  PROVE  IndInv'
<1> USE ConstantsAssumption
<1>1. TypeOK /\ SiteOK(s) /\ saying = s
  BY DEF IndInv, Mail
<1>2. todo[s] \in 1..MaxFailures /\ mailed[s] \in [1..MaxFailures -> Nat] /\ failures[s] \in Nat
  BY <1>1 DEF SiteOK, ListOK, TypeOK, Failure
<1>3. /\ UNCHANGED <<site, scan, resting, failures, crashes, edits, blips>>
      /\ saying' = NoSite /\ todo' = [todo EXCEPT ![s] = 0]
  BY DEF Mail
<1> DEFINE m == [mailed[s] EXCEPT ![todo[s]] = @ + 1]
<1>4. /\ m \in [1..MaxFailures -> Nat] /\ m[todo[s]] = mailed[s][todo[s]] + 1
      /\ \A e \in 1..MaxFailures : e # todo[s] => m[e] = mailed[s][e]
  BY <1>2
<1>5. mailed' = [mailed EXCEPT ![s] = m]
  BY DEF Mail
<1> HIDE DEF m
<1>6. mailed'[s] = m /\ todo'[s] = 0
  BY <1>1, <1>3, <1>5 DEF TypeOK
<1>7. TypeOK'
  <2>1. told' \in [Sites -> {"nothing", "stopped", "again"}] /\ todo' \in [Sites -> Failure]
    BY <1>1, <1>3 DEF Mail, TypeOK, Failure
  <2>2. mailed' \in [Sites -> [1..MaxFailures -> Nat]]
    BY <1>1, <1>4, <1>5 DEF TypeOK
  <2> QED BY <1>1, <1>3, <2>1, <2>2 DEF TypeOK
<1>8. ScanOK(s)'
  BY <1>1, <1>3 DEF SiteOK, ScanOK
<1>9. FreshOK(s)'
  <2>1. ASSUME NEW e \in 1..MaxFailures, e > failures[s]
        PROVE  m[e] = 0 /\ e \notin blips[s]
    <3>1. e # todo[s]
      BY <1>1, <1>2, <2>1 DEF SiteOK, FreshOK
    <3> QED BY <1>1, <1>4, <2>1, <3>1 DEF SiteOK, FreshOK
  <2>2. 0 <= failures[s]
    BY <1>2
  <2> QED BY <1>1, <1>3, <1>6, <2>1, <2>2 DEF SiteOK, FreshOK
<1>10. ListOK(s)'
  BY <1>3, <1>6 DEF ListOK
<1>11. MailOK(s)'
  <2>1. ASSUME NEW e \in 1..MaxFailures
        PROVE  /\ m[e] <= 1
               /\ e \in blips[s] => m[e] = 0
               /\ site[s].failing = e =>
                    /\ m[e] # 0 => site[s].reported /\ site[s].lasted
                    /\ e \notin blips[s]
    <3>1. CASE e = todo[s]
      <4>1. /\ mailed[s][e] = 0 /\ e \notin blips[s] /\ m[e] = 1
            /\ site[s].failing = e => site[s].lasted /\ site[s].reported
        BY <1>1, <1>2, <1>4, <3>1 DEF SiteOK, ListOK
      <4> QED BY <4>1
    <3>2. CASE e # todo[s]
      BY <1>1, <1>4, <2>1, <3>2 DEF SiteOK, MailOK
    <3> QED BY <3>1, <3>2
  <2> QED BY <1>3, <1>6, <2>1 DEF MailOK
<1>12. \A z \in Sites \ {s} : SiteOK(z)'
  BY <1>1, <1>3, <1>5, Untouched DEF IndInv, TypeOK
<1> QED BY <1>7, <1>8, <1>9, <1>10, <1>11, <1>12 DEF IndInv, SiteOK

\* The failure outlasts the grace.
LEMMA LastStep ==
  ASSUME IndInv, NEW s \in Sites, Last(s)
  PROVE  IndInv'
<1> USE ConstantsAssumption
<1> DEFINE row == [site[s] EXCEPT !.lasted = TRUE]
<1>1. TypeOK /\ site[s] \in SiteRow /\ SiteOK(s)
  BY DEF IndInv, TypeOK
<1>2. /\ row \in SiteRow /\ row.lasted = TRUE
      /\ row.failing = site[s].failing /\ row.reported = site[s].reported
  BY <1>1 DEF SiteRow
<1>3. /\ site' = [site EXCEPT ![s] = row]
      /\ UNCHANGED <<scan, resting, todo, saying, failures, crashes, edits, mailed, blips, told>>
  BY DEF Last
<1> HIDE DEF row
<1>4. site'[s] = row
  BY <1>1, <1>3 DEF TypeOK
<1>5. TypeOK'
  BY <1>1, <1>2, <1>3 DEF TypeOK
<1>6. SiteOK(s)'
  BY <1>1, <1>2, <1>3, <1>4 DEF SiteOK, ScanOK, FreshOK, ListOK, MailOK
<1>7. \A z \in Sites \ {s} : SiteOK(z)'
  BY <1>1, <1>3, Untouched DEF IndInv, TypeOK
<1> QED BY <1>5, <1>6, <1>7 DEF IndInv

\* A restart forgets the scans and the list, and neither the rows nor the mail.
LEMMA CrashStep ==
  ASSUME IndInv, Crash
  PROVE  IndInv'
<1> USE ConstantsAssumption
<1>1. /\ TypeOK
      /\ UNCHANGED <<site, resting, failures, edits, mailed, blips, told>>
      /\ saying' = NoSite /\ todo' = [s \in Sites |-> 0]
      /\ scan' = [s \in Sites |-> NotScanning(site[s])]
      /\ crashes' \in 0..MaxCrashes
  BY DEF IndInv, TypeOK, Crash
<1>2. \A s \in Sites : NotScanning(site[s]) \in Scan /\ NotScanning(site[s]).pc = "idle"
  BY <1>1, NotScanningType DEF TypeOK
<1>3. TypeOK'
  BY <1>1, <1>2 DEF TypeOK, Failure
<1>4. ASSUME NEW s \in Sites
      PROVE  SiteOK(s)'
  <2>1. SiteOK(s) /\ failures[s] \in Nat
    BY <1>1 DEF IndInv, TypeOK, Failure
  <2>2. ScanOK(s)'
    BY <1>1, <1>2 DEF ScanOK
  <2>3. FreshOK(s)'
    BY <1>1, <2>1 DEF SiteOK, FreshOK
  <2>4. ListOK(s)' /\ MailOK(s)'
    BY <1>1, <2>1 DEF SiteOK, ListOK, MailOK
  <2> QED BY <2>2, <2>3, <2>4 DEF SiteOK
<1> QED BY <1>3, <1>4 DEF IndInv

LEMMA InitEstablishes == Init => IndInv
<1> USE ConstantsAssumption
<1> SUFFICES ASSUME Init PROVE IndInv
  OBVIOUS
<1>1. PICK i \in Intervals :
        /\ site = [s \in Sites |-> NewSite(i)]
        /\ scan = [s \in Sites |-> NotScanning(NewSite(i))]
  BY DEF Init
<1>2. NewSite(i) \in SiteRow /\ NewSite(i).failing = 0
  BY NewSiteType DEF NewSite
<1>3. NotScanning(NewSite(i)) \in Scan /\ NotScanning(NewSite(i)).pc = "idle"
  BY <1>2, NotScanningType
<1>4. 0 \in Failure /\ 0 \in 0..MaxCrashes /\ 0 \in 0..MaxEdits
  BY DEF Failure
<1>5. TypeOK
  BY <1>1, <1>2, <1>3, <1>4 DEF Init, TypeOK
<1>6. ASSUME NEW s \in Sites
      PROVE  SiteOK(s)
  <2>1. /\ scan[s].pc = "idle" /\ site[s].failing = 0 /\ todo[s] = 0 /\ failures[s] = 0
        /\ saying # s /\ blips[s] = {} /\ \A e \in 1..MaxFailures : mailed[s][e] = 0
    BY <1>1, <1>2, <1>3 DEF Init
  <2> QED BY <2>1 DEF SiteOK, ScanOK, FreshOK, ListOK, MailOK
<1> QED BY <1>5, <1>6 DEF IndInv

LEMMA StepKeeps == IndInv /\ [Next]_vars => IndInv'
<1> SUFFICES ASSUME IndInv, [Next]_vars PROVE IndInv'
  OBVIOUS
<1>1. CASE UNCHANGED vars
  <2>1. TypeOK'
    BY <1>1 DEF vars, IndInv, TypeOK
  <2>2. \A s \in Sites : SiteOK(s)'
    BY <1>1, Untouched DEF vars, IndInv
  <2> QED BY <2>1, <2>2 DEF IndInv
<1>2. ASSUME NEW s \in Sites,
             \/ Dispatch(s) \/ ScanNow(s) \/ Finish(s) \/ Consider(s)
             \/ Mark(s) \/ Mail(s)
             \/ Disable(s) \/ Enable(s) \/ QueueScan(s)
             \/ \E i \in Intervals : SetInterval(s, i)
             \/ ComeDue(s) \/ Last(s) \/ RestBegins(s) \/ RestEnds(s)
      PROVE  IndInv'
  <2>1. CASE Dispatch(s) \/ ScanNow(s) \/ Finish(s) \/ Ignore(s)
    BY <2>1, ScanStep DEF Dispatch, ScanNow
  <2>2. CASE RecordFailure(s)
    BY <2>2, FailureStep
  <2>3. CASE RecordRecovery(s)
    BY <2>3, RecoveryStep
  <2>4. CASE Mark(s)
    BY <2>4, MarkStep
  <2>5. CASE Mail(s)
    BY <2>5, MailStep
  <2>6. CASE Last(s)
    BY <2>6, LastStep
  <2>7. CASE \/ Disable(s) \/ Enable(s) \/ QueueScan(s) \/ ComeDue(s)
             \/ RestBegins(s) \/ RestEnds(s)
             \/ \E i \in Intervals : SetInterval(s, i)
    BY <2>7, ScheduleStep
  <2> QED BY <1>2, <2>1, <2>2, <2>3, <2>4, <2>5, <2>6, <2>7 DEF Consider
<1>3. CASE ListOverdue
  BY <1>3, ListStep
<1>4. CASE Crash
  BY <1>4, CrashStep
<1> QED BY <1>1, <1>2, <1>3, <1>4 DEF Next

\* The mail invariant, for any sites and any bounds: a scan's copy of the clock
\* is never stale, a failure is listed while it lasts and is unmailed, and marked
\* before it is mailed (consider and report_overdue in scanalerts).
THEOREM MailInvariant == Spec => []IndInv
<1>1. Init => IndInv
  BY InitEstablishes
<1>2. IndInv /\ [Next]_vars => IndInv'
  BY StepKeeps
<1> QED BY <1>1, <1>2, PTL DEF Spec

\* Every column of the sites table and every scan's record keeps its type.
THEOREM TypeCorrect == Spec => []TypeOK
<1>1. IndInv => TypeOK
  BY DEF IndInv
<1> QED BY <1>1, MailInvariant, PTL

\* However scans, ticks, edits and restarts interleave, a failure is mailed at
\* most once (the commit in report_overdue comes before the mail).
THEOREM OncePerFailure == Spec => []OnceForEachFailure
<1>1. IndInv => OnceForEachFailure
  BY DEF IndInv, SiteOK, MailOK, OnceForEachFailure
<1> QED BY <1>1, MailInvariant, PTL

\* A failure that ends inside the grace is never mailed, not even by a tick that
\* is working from a list made before it ended.
THEOREM BlipsAreSilent == Spec => []BlipSaysNothing
<1>1. IndInv => BlipSaysNothing
  BY ConstantsAssumption DEF IndInv, TypeOK, SiteOK, MailOK, BlipSaysNothing
<1> QED BY <1>1, MailInvariant, PTL
=============================================================================
