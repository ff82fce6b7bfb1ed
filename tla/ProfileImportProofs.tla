------------------------- MODULE ProfileImportProofs -------------------------
(***************************************************************************)
(* Proofs about ProfileImport for any number of imports, any lengths of    *)
(* window, day and keeping time, and any number of failures: the state     *)
(* shown follows the data stored, the daily limit holds but for overtaken  *)
(* imports, nothing deleted comes back, and objects of a deleted import    *)
(* are followed by the callback that removes them.                         *)
(***************************************************************************)
EXTENDS ProfileImport, FiniteSetTheorems, TLAPS

-----------------------------------------------------------------------------
(* The inductive invariant.                                                *)

(* An import that will never count (again): settled or deleted uncounted.  *)
Final(i) == ~rows[i].counted /\ (rows[i].deleted \/ rows[i].status = "FINISHED")

(* An import of today is no older than the day: the limit sees it.         *)
Dated ==
  \A i \in Imports :
    /\ rows[i].day <= day
    /\ rows[i].day = day => rows[i].age <= hour

(* Nothing happens to an import that was not prepared.                     *)
Fresh ==
  \A i \in Imports :
    rows[i].status = "NONE" =>
      ~rows[i].deleted /\ runs[i] = {} /\ i \notin sweep.todo /\ i \notin sweep.gone

(* A deleted import has no AI job that could still answer.                 *)
Bare == \A i \in Imports : rows[i].deleted => ai[i] = "none"

(* Of two imports of a day, one was overtaken or will never count.         *)
Rivals ==
  \A i, k \in Imports :
    /\ i # k /\ rows[i].day = rows[k].day
    /\ rows[i].status # "NONE" /\ rows[k].status # "NONE"
    => i \in overtaken \/ k \in overtaken \/ Final(i) \/ Final(k)

Coherent == PhaseFollowsData /\ Dated /\ Fresh /\ Bare /\ Rivals

IInv == TypeOK /\ Coherent

-----------------------------------------------------------------------------
(* Rows.                                                                   *)

SoundRow(row) ==
  /\ row \in Row
  /\ row.status = "FINISHED" <=> row.finishedAge # Never
  /\ row.counted => row.status = "FINISHED"

(* A row of which one column is replaced by a value of its type is a row. *)
LEMMA RowUpdates ==
  ASSUME NEW r \in Row
  PROVE  /\ \A x \in {"NONE", "UPLOADING", "QUEUED", "FINISHED"} : [r EXCEPT !.status = x] \in Row
         /\ \A x \in 0..(Keep + 1) : [r EXCEPT !.age = x] \in Row
         /\ \A x \in {Never} \cup 0..(Keep + 1) : [r EXCEPT !.finishedAge = x] \in Row
         /\ \A x \in 0..LastDay : [r EXCEPT !.day = x] \in Row
         /\ \A x \in BOOLEAN : [r EXCEPT !.counted = x] \in Row
         /\ \A x \in BOOLEAN : [r EXCEPT !.deleted = x] \in Row
BY DEF Row

(* The literals the transitions write have their columns' types. *)
LEMMA Literals ==
  /\ "UPLOADING" \in {"NONE", "UPLOADING", "QUEUED", "FINISHED"}
  /\ "QUEUED" \in {"NONE", "UPLOADING", "QUEUED", "FINISHED"}
  /\ "FINISHED" \in {"NONE", "UPLOADING", "QUEUED", "FINISHED"}
  /\ 0 \in {Never} \cup 0..(Keep + 1)
  /\ TRUE \in BOOLEAN /\ FALSE \in BOOLEAN
BY ImportAssumption

(* The row before and after prepare. *)
LEMMA NewRows ==
  ASSUME NEW d \in 0..LastDay
  PROVE  /\ SoundRow(NoRow)
         /\ NoRow.status = "NONE" /\ NoRow.day = 0 /\ NoRow.age = 0 /\ ~NoRow.deleted
         /\ LET new == [NoRow EXCEPT !.status = "UPLOADING", !.day = d]
            IN  /\ SoundRow(new)
                /\ new.status = "UPLOADING" /\ new.day = d /\ new.age = 0
                /\ ~new.deleted /\ ~new.counted
<1> DEFINE new == [NoRow EXCEPT !.status = "UPLOADING", !.day = d]
<1>1. NoRow \in Row
  BY ImportAssumption DEF Row, NoRow, Never
<1>2. new \in Row
  BY <1>1, RowUpdates, Literals, Zenon
<1>3. /\ NoRow.status = "NONE" /\ NoRow.day = 0 /\ NoRow.age = 0 /\ ~NoRow.deleted
      /\ ~NoRow.counted /\ NoRow.finishedAge = Never
  BY DEF NoRow
<1>4. /\ new.status = "UPLOADING" /\ new.day = d /\ new.age = 0
      /\ ~new.deleted /\ ~new.counted /\ new.finishedAge = Never
  BY <1>1 DEF NoRow
<1> HIDE DEF new
<1>5. SoundRow(NoRow)
  BY <1>1, <1>3 DEF SoundRow
<1>6. SoundRow(new)
  BY <1>2, <1>4 DEF SoundRow
<1> QED
  BY <1>3, <1>4, <1>5, <1>6 DEF new

(* Confirming an upload changes the status of an unconfirmed row only. *)
LEMMA ConfirmSound ==
  ASSUME NEW row, SoundRow(row)
  PROVE  LET new == ConfirmUpload(row)
         IN  /\ SoundRow(new)
             /\ new.status = (IF row.status = "UPLOADING" THEN "QUEUED" ELSE row.status)
             /\ new.day = row.day /\ new.age = row.age
             /\ new.deleted = row.deleted /\ new.counted = row.counted
<1> DEFINE queued == [row EXCEPT !.status = "QUEUED"]
<1>0. row \in Row
  BY DEF SoundRow
<1>1. queued \in Row
  BY <1>0, RowUpdates, Literals, Zenon
<1>2. /\ queued.status = "QUEUED" /\ queued.day = row.day /\ queued.age = row.age
      /\ queued.deleted = row.deleted /\ queued.counted = row.counted
      /\ queued.finishedAge = row.finishedAge
  BY <1>0 DEF Row
<1>3. ConfirmUpload(row) = IF row.status = "UPLOADING" THEN queued ELSE row
  BY DEF ConfirmUpload
<1> HIDE DEF queued
<1> QED
  BY <1>0, <1>1, <1>2, <1>3 DEF SoundRow

(* Finishing keeps day, age and deletion of a row. *)
LEMMA FinishSound ==
  ASSUME NEW row, SoundRow(row), NEW counted \in BOOLEAN
  PROVE  LET new == Finish(row, counted)
         IN  /\ SoundRow(new)
             /\ new.status = "FINISHED"
             /\ new.day = row.day /\ new.age = row.age /\ new.deleted = row.deleted
<1> DEFINE new == Finish(row, counted)
<1>0. row \in Row
  BY DEF SoundRow
<1>1. (row.counted \/ counted) \in BOOLEAN
  OBVIOUS
<1>2. new \in Row
  BY <1>0, <1>1, RowUpdates, Literals, Zenon DEF Finish
<1>3. /\ new.status = "FINISHED" /\ new.finishedAge = 0
      /\ new.day = row.day /\ new.age = row.age /\ new.deleted = row.deleted
  BY <1>0 DEF Row, Finish
<1> HIDE DEF new
<1>4. SoundRow(new)
  BY <1>2, <1>3 DEF SoundRow, Never
<1> QED
  BY <1>3, <1>4 DEF new

(* Deleting a row keeps the rest of it. *)
LEMMA DeleteSound ==
  ASSUME NEW row, SoundRow(row)
  PROVE  LET new == [row EXCEPT !.deleted = TRUE]
         IN  /\ SoundRow(new) /\ new.deleted
             /\ new.status = row.status /\ new.day = row.day /\ new.age = row.age
             /\ new.counted = row.counted
<1> DEFINE new == [row EXCEPT !.deleted = TRUE]
<1>0. row \in Row
  BY DEF SoundRow
<1>1. new \in Row
  BY <1>0, RowUpdates, Literals, Zenon
<1>2. /\ new.deleted /\ new.status = row.status /\ new.day = row.day /\ new.age = row.age
      /\ new.counted = row.counted /\ new.finishedAge = row.finishedAge
  BY <1>0 DEF Row
<1> HIDE DEF new
<1>3. SoundRow(new)
  BY <1>1, <1>2 DEF SoundRow
<1> QED
  BY <1>2, <1>3 DEF new

(* Time passing keeps all of a row but its ages, and each grows by one. *)
LEMMA OlderSound ==
  ASSUME NEW row, SoundRow(row)
  PROVE  LET new == [row EXCEPT !.age = Older(@), !.finishedAge = Older(@)]
         IN  /\ SoundRow(new)
             /\ new.status = row.status /\ new.day = row.day
             /\ new.age \in {row.age, row.age + 1}
             /\ new.deleted = row.deleted /\ new.counted = row.counted
<1> DEFINE new == [row EXCEPT !.age = Older(@), !.finishedAge = Older(@)]
<1>0. row \in Row
  BY DEF SoundRow
<1>1. row.age \in 0..(Keep + 1) /\ row.finishedAge \in {Never} \cup 0..(Keep + 1)
  BY <1>0 DEF Row
<1>2. /\ Older(row.age) \in 0..(Keep + 1) /\ Older(row.age) \in {row.age, row.age + 1}
      /\ Older(row.finishedAge) \in {Never} \cup 0..(Keep + 1)
      /\ Older(row.finishedAge) # Never <=> row.finishedAge # Never
  BY <1>1, ImportAssumption DEF Older, Never
<1>3. new \in Row
  BY <1>0, <1>2, RowUpdates, Zenon
<1>4. /\ new.status = row.status /\ new.day = row.day
      /\ new.age = Older(row.age) /\ new.finishedAge = Older(row.finishedAge)
      /\ new.deleted = row.deleted /\ new.counted = row.counted
  BY <1>0 DEF Row
<1> HIDE DEF new
<1>5. SoundRow(new)
  BY <1>2, <1>3, <1>4 DEF SoundRow
<1> QED
  BY <1>2, <1>4, <1>5 DEF new

-----------------------------------------------------------------------------
(* Types.                                                                  *)

SweepType == [on : BOOLEAN, todo : SUBSET Imports, seen : SUBSET Imports,
              locked : SUBSET Imports, gone : SUBSET Imports]

RowsTyped == rows \in [Imports -> Row] /\ \A i \in Imports : SoundRow(rows[i])

DataTyped ==
  /\ payload \subseteq Imports /\ source \subseteq Imports /\ results \subseteq Imports
  /\ ai \in [Imports -> {"none", "open", "settled"}]

ClockTyped == hour \in 0..(DayLength - 1) /\ day \in 0..(LastDay + 1)

RunsTyped == runs \in [Imports -> SUBSET Stages] /\ faults \in 0..MaxFaults

HistoryTyped == lost \subseteq Imports /\ overtaken \subseteq Imports

(* The type invariant, by the variables that change together. *)
LEMMA TypeParts ==
  TypeOK <=> /\ RowsTyped /\ DataTyped /\ ClockTyped /\ RunsTyped /\ HistoryTyped
             /\ sweep \in SweepType
<1>1. ASSUME rows \in [Imports -> Row], NEW i \in Imports
      PROVE  rows[i] \in Row
  BY <1>1
<1>2. TypeOK => RowsTyped
  BY <1>1 DEF TypeOK, RowsTyped, SoundRow
<1>3. RowsTyped => /\ rows \in [Imports -> Row]
                   /\ \A i \in Imports :
                        /\ rows[i].status = "FINISHED" <=> rows[i].finishedAge # Never
                        /\ rows[i].counted => rows[i].status = "FINISHED"
  BY DEF RowsTyped, SoundRow
<1> QED
  BY <1>2, <1>3 DEF TypeOK, DataTyped, ClockTyped, RunsTyped, HistoryTyped, SweepType

(* What the clean-up's steps make of its record. *)
LEMMA SweepUpdates ==
  ASSUME NEW s \in SweepType, NEW i \in Imports
  PROVE  LET locked == [s EXCEPT !.todo = @ \ {i}, !.locked = @ \cup {i}]
             gone == [locked EXCEPT !.gone = @ \cup {i}]
         IN  /\ locked \in SweepType /\ gone \in SweepType
             /\ locked.todo \subseteq s.todo /\ gone.todo \subseteq s.todo
             /\ locked.gone = s.gone /\ gone.gone = s.gone \cup {i}
<1> DEFINE less == [s EXCEPT !.todo = @ \ {i}]
           locked == [less EXCEPT !.locked = @ \cup {i}]
           gone == [locked EXCEPT !.gone = @ \cup {i}]
<1>1. less \in SweepType /\ less.todo = s.todo \ {i} /\ less.gone = s.gone
      /\ less.locked = s.locked
  BY DEF SweepType
<1> HIDE DEF less
<1>2. locked \in SweepType /\ locked.todo = less.todo /\ locked.gone = less.gone
  BY <1>1 DEF SweepType
<1> HIDE DEF locked
<1>3. gone \in SweepType /\ gone.todo = locked.todo /\ gone.gone = locked.gone \cup {i}
  BY <1>2 DEF SweepType
<1>4. locked = [s EXCEPT !.todo = @ \ {i}, !.locked = @ \cup {i}]
  BY <1>1 DEF locked, less, SweepType
<1> HIDE DEF gone
<1>5. gone = [[s EXCEPT !.todo = @ \ {i}, !.locked = @ \cup {i}] EXCEPT !.gone = @ \cup {i}]
  BY <1>4 DEF gone
<1>6. /\ locked.todo \subseteq s.todo /\ gone.todo \subseteq s.todo
      /\ locked.gone = s.gone /\ gone.gone = s.gone \cup {i}
  BY <1>1, <1>2, <1>3
<1> QED
  BY <1>2, <1>3, <1>4, <1>5, <1>6

-----------------------------------------------------------------------------
(* Steps of the same kind.                                                 *)

(* A step that replaces the row of one prepared import, keeping its day    *)
(* and age and not making it count once it is final.                       *)
LEMMA OneRow ==
  ASSUME RowsTyped, Dated, Rivals,
         NEW i \in Imports, NEW new, SoundRow(new),
         new.day = rows[i].day, new.age = rows[i].age,
         rows[i].status # "NONE", new.status # "NONE",
         Final(i) => ~new.counted /\ (new.deleted \/ new.status = "FINISHED"),
         rows' = [rows EXCEPT ![i] = new],
         UNCHANGED <<clock, overtaken>>
  PROVE  /\ RowsTyped' /\ Dated' /\ Rivals'
         /\ rows'[i] = new
         /\ \A k \in Imports \ {i} : rows'[k] = rows[k]
<1>0. rows \in [Imports -> Row] /\ \A k \in Imports : SoundRow(rows[k])
  BY DEF RowsTyped
<1>1. rows'[i] = new /\ \A k \in Imports \ {i} : rows'[k] = rows[k]
  BY <1>0
<1>2. new \in Row
  BY DEF SoundRow
<1>3. rows' \in [Imports -> Row]
  BY <1>0, <1>2
<1>4. \A k \in Imports : SoundRow(rows'[k])
  BY <1>0, <1>1
<1>5. RowsTyped'
  BY <1>3, <1>4 DEF RowsTyped, SoundRow
<1>6. Dated'
  <2> SUFFICES ASSUME NEW k \in Imports
               PROVE  rows'[k].day <= day /\ (rows'[k].day = day => rows'[k].age <= hour)
    BY DEF Dated, clock
  <2>1. rows'[k].day = rows[k].day /\ rows'[k].age = rows[k].age
    BY <1>1
  <2> QED
    BY <2>1 DEF Dated
<1>7. Rivals'
  <2>1. \A k \in Imports : rows'[k].day = rows[k].day
                           /\ (rows'[k].status # "NONE" => rows[k].status # "NONE")
    BY <1>1
  <2>2. \A k \in Imports : Final(k) => Final(k)'
    BY <1>1 DEF Final
  <2> QED
    BY <2>1, <2>2 DEF Rivals
<1> QED
  BY <1>1, <1>5, <1>6, <1>7

(* A step that touches neither the rows nor the data stored with them.     *)
LEMMA DataKept ==
  ASSUME PhaseFollowsData, Dated, Bare, Rivals,
         UNCHANGED <<clock, rows, payload, ai, overtaken>>
  PROVE  PhaseFollowsData' /\ Dated' /\ Bare' /\ Rivals'
<1>1. PhaseFollowsData'
  BY DEF PhaseFollowsData
<1>2. Dated'
  BY DEF Dated, clock
<1>3. Bare'
  BY DEF Bare
<1>4. Rivals'
  BY DEF Rivals, Final
<1> QED
  BY <1>1, <1>2, <1>3, <1>4

(* A run of an import that was prepared moves to its next stage. *)
LEMMA RunMoves ==
  ASSUME RunsTyped, Fresh,
         NEW i \in Imports, NEW from \in Stages, NEW to \in SUBSET Stages,
         from \in runs[i], MoveOn(i, from, to)
  PROVE  /\ RunsTyped' /\ rows[i].status # "NONE"
         /\ \A k \in Imports \ {i} : runs'[k] = runs[k]
<1>0. runs \in [Imports -> SUBSET Stages] /\ faults \in 0..MaxFaults
  BY DEF RunsTyped
<1>1. rows[i].status # "NONE"
  BY DEF Fresh
<1>2. PICK stages \in SUBSET Stages : runs' = [runs EXCEPT ![i] = stages]
  BY <1>0 DEF MoveOn
<1>3. faults' \in 0..MaxFaults
  BY <1>0, ImportAssumption DEF MoveOn, Fault
<1>4. runs' \in [Imports -> SUBSET Stages] /\ \A k \in Imports \ {i} : runs'[k] = runs[k]
  BY <1>0, <1>2
<1> QED
  BY <1>1, <1>3, <1>4 DEF RunsTyped

(* A step of one import, which is not fresh, and of no sweep, leaves fresh *)
(* ones as they are.                                                       *)
LEMMA FreshKept ==
  ASSUME Fresh, NEW i \in Imports,
         rows'[i].status # "NONE",
         \A k \in Imports \ {i} : rows'[k] = rows[k] /\ runs'[k] = runs[k],
         sweep' = sweep
  PROVE  Fresh'
BY DEF Fresh

(* A fault is counted. *)
LEMMA FaultTyped ==
  ASSUME faults \in 0..MaxFaults, Fault
  PROVE  faults' \in 0..MaxFaults
BY ImportAssumption DEF Fault

-----------------------------------------------------------------------------
(* Every step keeps the invariant: the actor's requests.                   *)

LEMMA PrepareKeeps ==
  ASSUME IInv, NEW i \in Imports, Prepare(i)
  PROVE  IInv'
<1> DEFINE new == [NoRow EXCEPT !.status = "UPLOADING", !.day = day]
<1>0. /\ RowsTyped /\ DataTyped /\ ClockTyped /\ RunsTyped /\ HistoryTyped
      /\ sweep \in SweepType
      /\ PhaseFollowsData /\ Dated /\ Fresh /\ Bare /\ Rivals
  BY TypeParts DEF IInv, Coherent
<1>1. /\ rows[i].status = "NONE" /\ day \in 0..LastDay
      /\ ~\E k \in Recent : ~rows[k].deleted /\ InProgress(rows[k])
      /\ ~UsedToday
      /\ rows' = [rows EXCEPT ![i] = new]
      /\ overtaken' = overtaken \cup {k \in Imports : rows[k].status = "UPLOADING"}
      /\ hour' = hour /\ day' = day /\ payload' = payload /\ ai' = ai
      /\ source' = source /\ results' = results /\ runs' = runs /\ sweep' = sweep
      /\ faults' = faults /\ lost' = lost
  BY <1>0, ImportAssumption DEF Prepare, clock, ClockTyped
<1>2. /\ SoundRow(new) /\ new.status = "UPLOADING" /\ new.day = day /\ new.age = 0
      /\ ~new.deleted /\ ~new.counted
  BY <1>1, NewRows
<1> HIDE DEF new
<1>3. /\ rows'[i] = new /\ \A k \in Imports \ {i} : rows'[k] = rows[k]
      /\ rows' \in [Imports -> Row] /\ \A k \in Imports : SoundRow(rows'[k])
  BY <1>0, <1>1, <1>2 DEF RowsTyped, SoundRow
<1>4. TypeOK'
  <2>1. RowsTyped'
    BY <1>3 DEF RowsTyped, SoundRow
  <2>2. DataTyped' /\ ClockTyped' /\ RunsTyped' /\ HistoryTyped' /\ (sweep \in SweepType)'
    BY <1>0, <1>1 DEF DataTyped, ClockTyped, RunsTyped, HistoryTyped, SweepType
  <2> QED
    BY <2>1, <2>2, TypeParts, PTL
<1>5. PhaseFollowsData'
  <2>1. i \notin payload /\ ai[i] = "none"
    BY <1>0, <1>1 DEF PhaseFollowsData, Fresh
  <2> QED
    BY <1>0, <1>1, <1>2, <1>3, <2>1 DEF PhaseFollowsData
<1>6. Dated'
  BY <1>0, <1>1, <1>2, <1>3 DEF Dated, ClockTyped
<1>7. Fresh'
  BY <1>0, <1>1, <1>2, <1>3 DEF Fresh
<1>8. Bare'
  BY <1>0, <1>1, <1>2, <1>3 DEF Bare
<1>9. Rivals'
  <2>1. ASSUME NEW k \in Imports \ {i}, rows[k].day = day, rows[k].status # "NONE",
               rows[k].status # "UPLOADING"
        PROVE  Final(k)
    <3>0. rows[k] \in Row /\ SoundRow(rows[k])
      BY <1>0 DEF RowsTyped
    <3>1. rows[k].age <= Keep
      <4>1. rows[k].age <= hour /\ hour <= DayLength - 1 /\ rows[k].age \in 0..(Keep + 1)
        BY <1>0, <2>1, <3>0 DEF Dated, ClockTyped, Row
      <4> QED
        BY <4>1, <1>0, ImportAssumption DEF ClockTyped
    <3>2. k \in Recent
      BY <2>1, <3>1 DEF Recent
    <3>3. ~rows[k].counted
      BY <1>1, <2>1, <3>2 DEF UsedToday
    <3>4. rows[k].status = "QUEUED" => rows[k].deleted
      BY <1>1, <3>2 DEF InProgress
    <3>5. rows[k].status \in {"QUEUED", "FINISHED"}
      BY <2>1, <3>0 DEF Row
    <3> QED
      BY <3>3, <3>4, <3>5 DEF Final
  <2>2. ASSUME NEW k \in Imports \ {i}, rows[k].day = day, rows[k].status # "NONE"
        PROVE  k \in overtaken' \/ Final(k)
    BY <2>1, <2>2, <1>1
  <2>3. \A k \in Imports \ {i} : Final(k) => Final(k)'
    BY <1>3 DEF Final
  <2>4. overtaken \subseteq overtaken'
    BY <1>1
  <2> SUFFICES ASSUME NEW k \in Imports, NEW l \in Imports, k # l,
                      rows'[k].day = rows'[l].day,
                      rows'[k].status # "NONE", rows'[l].status # "NONE"
               PROVE  k \in overtaken' \/ l \in overtaken' \/ Final(k)' \/ Final(l)'
    BY DEF Rivals
  <2>5. CASE k = i
    BY <2>5, <2>2, <2>3, <1>2, <1>3
  <2>6. CASE l = i
    BY <2>6, <2>2, <2>3, <1>2, <1>3
  <2>7. CASE k # i /\ l # i
    <3>1. k \in overtaken \/ l \in overtaken \/ Final(k) \/ Final(l)
      BY <2>7, <1>0, <1>3 DEF Rivals
    <3> QED
      BY <2>7, <3>1, <2>3, <2>4
  <2> QED
    BY <2>5, <2>6, <2>7
<1> QED
  BY <1>4, <1>5, <1>6, <1>7, <1>8, <1>9 DEF IInv, Coherent

LEMMA CompleteUploadKeeps ==
  ASSUME IInv, NEW i \in Imports, CompleteUpload(i)
  PROVE  IInv'
<1> DEFINE new == ConfirmUpload(rows[i])
<1>0. /\ RowsTyped /\ DataTyped /\ ClockTyped /\ RunsTyped /\ HistoryTyped
      /\ sweep \in SweepType
      /\ PhaseFollowsData /\ Dated /\ Fresh /\ Bare /\ Rivals
  BY TypeParts DEF IInv, Coherent
<1>1. /\ rows[i].status = "UPLOADING" /\ ~rows[i].deleted
      /\ rows' = [rows EXCEPT ![i] = new]
      /\ hour' = hour /\ day' = day /\ payload' = payload /\ ai' = ai
      /\ source' = source /\ results' = results /\ runs' = runs /\ sweep' = sweep
      /\ faults' = faults /\ lost' = lost /\ overtaken' = overtaken
  BY DEF CompleteUpload, clock, history
<1>2. /\ SoundRow(new) /\ new.status = "QUEUED"
      /\ new.day = rows[i].day /\ new.age = rows[i].age
      /\ new.deleted = rows[i].deleted /\ new.counted = rows[i].counted
  BY <1>0, <1>1, ConfirmSound DEF RowsTyped
<1> HIDE DEF new
<1>3. /\ RowsTyped' /\ Dated' /\ Rivals'
      /\ rows'[i] = new /\ \A k \in Imports \ {i} : rows'[k] = rows[k]
  <2>1. ~Final(i)
    BY <1>1 DEF Final
  <2> QED
    BY <1>0, <1>1, <1>2, <2>1, OneRow DEF clock
<1>4. TypeOK'
  <2>1. DataTyped' /\ ClockTyped' /\ RunsTyped' /\ HistoryTyped' /\ (sweep \in SweepType)'
    BY <1>0, <1>1 DEF DataTyped, ClockTyped, RunsTyped, HistoryTyped, SweepType
  <2> QED
    BY <1>3, <2>1, TypeParts, PTL
<1>5. PhaseFollowsData'
  <2>1. i \notin payload /\ ai[i] = "none"
    BY <1>0, <1>1 DEF PhaseFollowsData
  <2> QED
    BY <1>0, <1>1, <1>2, <1>3, <2>1 DEF PhaseFollowsData
<1>6. Fresh'
  BY <1>0, <1>1, <1>2, <1>3, FreshKept
<1>7. Bare'
  BY <1>0, <1>1, <1>2, <1>3 DEF Bare
<1> QED
  BY <1>3, <1>4, <1>5, <1>6, <1>7 DEF IInv, Coherent

LEMMA CloseKeeps ==
  ASSUME IInv, NEW i \in Imports, Close(i)
  PROVE  IInv'
<1> DEFINE new == [rows[i] EXCEPT !.deleted = TRUE]
<1>0. /\ RowsTyped /\ DataTyped /\ ClockTyped /\ RunsTyped /\ HistoryTyped
      /\ sweep \in SweepType
      /\ PhaseFollowsData /\ Dated /\ Fresh /\ Bare /\ Rivals
  BY TypeParts DEF IInv, Coherent
<1>1. /\ rows[i].status # "NONE" /\ ~rows[i].deleted
      /\ rows' = [rows EXCEPT ![i] = new]
      /\ payload' = payload \ {i} /\ ai' = [ai EXCEPT ![i] = "none"]
      /\ source' = source \ {i} /\ results' = results \ {i}
      /\ hour' = hour /\ day' = day /\ runs' = runs /\ sweep' = sweep
      /\ faults' = faults /\ lost' = lost /\ overtaken' = overtaken
  BY DEF Close, MayClose, clock, history
<1>2. /\ SoundRow(new) /\ new.deleted /\ new.status = rows[i].status
      /\ new.day = rows[i].day /\ new.age = rows[i].age
      /\ new.counted = rows[i].counted
  BY <1>0, DeleteSound DEF RowsTyped
<1> HIDE DEF new
<1>3. /\ RowsTyped' /\ Dated' /\ Rivals'
      /\ rows'[i] = new /\ \A k \in Imports \ {i} : rows'[k] = rows[k]
  <2>1. Final(i) => ~new.counted /\ (new.deleted \/ new.status = "FINISHED")
    BY <1>2 DEF Final
  <2> QED
    BY <1>0, <1>1, <1>2, <2>1, OneRow DEF clock
<1>4. TypeOK'
  <2>1. DataTyped' /\ ClockTyped' /\ RunsTyped' /\ HistoryTyped' /\ (sweep \in SweepType)'
    BY <1>0, <1>1 DEF DataTyped, ClockTyped, RunsTyped, HistoryTyped, SweepType
  <2> QED
    BY <1>3, <2>1, TypeParts, PTL
<1>5. /\ ai'[i] = "none" /\ \A k \in Imports \ {i} : ai'[k] = ai[k]
      /\ \A k \in Imports \ {i} : k \in payload' <=> k \in payload
  BY <1>0, <1>1 DEF DataTyped
<1>6. PhaseFollowsData'
  BY <1>0, <1>2, <1>3, <1>5 DEF PhaseFollowsData
<1>7. Fresh'
  BY <1>0, <1>1, <1>2, <1>3, FreshKept
<1>8. Bare'
  BY <1>0, <1>3, <1>5 DEF Bare
<1> QED
  BY <1>3, <1>4, <1>6, <1>7, <1>8 DEF IInv, Coherent

-----------------------------------------------------------------------------
(* Callback and AI answer.                                                 *)

LEMMA ReceiveKeeps ==
  ASSUME IInv, NEW i \in Imports, NEW enriched \in BOOLEAN, NEW counted \in BOOLEAN,
         Receive(i, enriched, counted)
  PROVE  IInv'
<1>0. /\ RowsTyped /\ DataTyped /\ ClockTyped /\ RunsTyped /\ HistoryTyped
      /\ sweep \in SweepType
      /\ PhaseFollowsData /\ Dated /\ Fresh /\ Bare /\ Rivals
  BY TypeParts DEF IInv, Coherent
<1>1. /\ "notifying" \in runs[i] /\ MoveOn(i, "notifying", {})
      /\ hour' = hour /\ day' = day /\ sweep' = sweep
      /\ lost' = lost /\ overtaken' = overtaken
  BY DEF Receive, clock, history
<1>2. /\ RunsTyped' /\ rows[i].status # "NONE"
      /\ \A k \in Imports \ {i} : runs'[k] = runs[k]
  <2>1. "notifying" \in Stages /\ {} \in SUBSET Stages
    BY DEF Stages
  <2> QED
    BY <1>0, <1>1, <2>1, RunMoves
<1>3. ClockTyped' /\ HistoryTyped' /\ (sweep \in SweepType)'
  BY <1>0, <1>1 DEF ClockTyped, HistoryTyped, SweepType
<1>4. CASE UNCHANGED <<rows, payload, ai>> /\ source' \subseteq source /\ results' \subseteq results
  <2>1. RowsTyped' /\ DataTyped'
    BY <1>0, <1>4 DEF RowsTyped, DataTyped
  <2>2. TypeOK'
    BY <2>1, <1>2, <1>3, TypeParts, PTL
  <2>3. PhaseFollowsData' /\ Dated' /\ Bare' /\ Rivals'
    BY <1>0, <1>1, <1>4, DataKept DEF clock
  <2>4. Fresh'
    BY <1>0, <1>1, <1>2, <1>4, FreshKept
  <2> QED
    BY <2>2, <2>3, <2>4 DEF IInv, Coherent
<1>5. CASE /\ Accepts(i) /\ i \notin payload
           /\ payload' = payload \cup {i}
           /\ ai' = [ai EXCEPT ![i] = IF enriched THEN "open" ELSE "settled"]
           /\ rows' = [rows EXCEPT ![i] = IF enriched THEN ConfirmUpload(@)
                                          ELSE Received(@, counted)]
           /\ UNCHANGED <<source, results>>
  <2> DEFINE new == IF enriched THEN ConfirmUpload(rows[i]) ELSE Finish(rows[i], counted)
  <2>1. rows' = [rows EXCEPT ![i] = new]
    BY <1>5 DEF Received
  <2>2. ~rows[i].deleted /\ rows[i].status # "FINISHED" /\ rows[i].status # "NONE"
    BY <1>0, <1>2, <1>5 DEF Accepts, PhaseFollowsData
  <2>3. SoundRow(rows[i]) /\ rows[i].status \in {"UPLOADING", "QUEUED"}
    BY <1>0, <2>2 DEF RowsTyped, SoundRow, Row
  <2>4. /\ SoundRow(new) /\ new.status = (IF enriched THEN "QUEUED" ELSE "FINISHED")
        /\ new.day = rows[i].day /\ new.age = rows[i].age /\ new.deleted = rows[i].deleted
    <3>1. CASE enriched
      BY <3>1, <2>3, ConfirmSound
    <3>2. CASE ~enriched
      BY <3>2, <2>3, FinishSound
    <3> QED
      BY <3>1, <3>2
  <2> HIDE DEF new
  <2>5. /\ RowsTyped' /\ Dated' /\ Rivals'
        /\ rows'[i] = new /\ \A k \in Imports \ {i} : rows'[k] = rows[k]
    <3>1. ~Final(i) /\ new.status # "NONE"
      BY <2>2, <2>4 DEF Final
    <3> QED
      BY <1>0, <1>1, <2>1, <2>2, <2>4, <3>1, OneRow DEF clock
  <2>6. /\ DataTyped' /\ ai'[i] = (IF enriched THEN "open" ELSE "settled")
        /\ \A k \in Imports \ {i} : ai'[k] = ai[k]
        /\ i \in payload' /\ \A k \in Imports \ {i} : k \in payload' <=> k \in payload
    BY <1>0, <1>5 DEF DataTyped
  <2>7. TypeOK'
    BY <2>5, <2>6, <1>2, <1>3, TypeParts, PTL
  <2>8. PhaseFollowsData'
    BY <1>0, <2>4, <2>5, <2>6 DEF PhaseFollowsData
  <2>9. Fresh'
    <3>1. rows'[i].status # "NONE"
      BY <2>4, <2>5
    <3> QED
      BY <1>0, <1>1, <1>2, <2>5, <3>1, FreshKept
  <2>10. Bare'
    BY <1>0, <2>2, <2>4, <2>5, <2>6 DEF Bare
  <2> QED
    BY <2>5, <2>7, <2>8, <2>9, <2>10 DEF IInv, Coherent
<1> QED
  BY <1>4, <1>5 DEF Receive, DiscardObjects

LEMMA AiSettlesKeeps ==
  ASSUME IInv, NEW i \in Imports, NEW counted \in BOOLEAN, AiSettles(i, counted)
  PROVE  IInv'
<1> DEFINE new == Finish(rows[i], counted)
<1>0. /\ RowsTyped /\ DataTyped /\ ClockTyped /\ RunsTyped /\ HistoryTyped
      /\ sweep \in SweepType
      /\ PhaseFollowsData /\ Dated /\ Fresh /\ Bare /\ Rivals
  BY TypeParts DEF IInv, Coherent
<1>1. ai[i] = "open" /\ ~rows[i].deleted /\ i \in payload /\ rows[i].status = "QUEUED"
  BY <1>0 DEF AiSettles, Bare, PhaseFollowsData
<1>2. /\ rows' = [rows EXCEPT ![i] = new]
      /\ ai' = [ai EXCEPT ![i] = "settled"]
      /\ hour' = hour /\ day' = day /\ payload' = payload
      /\ source' = source /\ results' = results /\ runs' = runs /\ sweep' = sweep
      /\ faults' = faults /\ lost' = lost /\ overtaken' = overtaken
  BY <1>1 DEF AiSettles, clock, history
<1>3. /\ SoundRow(new) /\ new.status = "FINISHED"
      /\ new.day = rows[i].day /\ new.age = rows[i].age /\ new.deleted = rows[i].deleted
  BY <1>0, FinishSound DEF RowsTyped
<1> HIDE DEF new
<1>4. /\ RowsTyped' /\ Dated' /\ Rivals'
      /\ rows'[i] = new /\ \A k \in Imports \ {i} : rows'[k] = rows[k]
  <2>1. ~Final(i) /\ new.status # "NONE" /\ rows[i].status # "NONE"
    BY <1>1, <1>3 DEF Final
  <2> QED
    BY <1>0, <1>2, <1>3, <2>1, OneRow DEF clock
<1>5. /\ DataTyped' /\ ai'[i] = "settled" /\ \A k \in Imports \ {i} : ai'[k] = ai[k]
  BY <1>0, <1>2 DEF DataTyped
<1>6. TypeOK'
  <2>1. ClockTyped' /\ RunsTyped' /\ HistoryTyped' /\ (sweep \in SweepType)'
    BY <1>0, <1>2 DEF ClockTyped, RunsTyped, HistoryTyped, SweepType
  <2> QED
    BY <1>4, <1>5, <2>1, TypeParts, PTL
<1>7. PhaseFollowsData'
  BY <1>0, <1>1, <1>2, <1>3, <1>4, <1>5 DEF PhaseFollowsData
<1>8. Fresh'
  <2>1. rows'[i].status # "NONE"
    BY <1>3, <1>4
  <2> QED
    BY <1>0, <1>2, <1>4, <2>1, FreshKept
<1>9. Bare'
  BY <1>0, <1>1, <1>3, <1>4, <1>5 DEF Bare
<1> QED
  BY <1>4, <1>6, <1>7, <1>8, <1>9 DEF IInv, Coherent

-----------------------------------------------------------------------------
(* Objects and runs.                                                       *)

LEMMA UploadKeeps ==
  ASSUME IInv, NEW i \in Imports, Upload(i)
  PROVE  IInv'
<1>0. /\ RowsTyped /\ DataTyped /\ ClockTyped /\ RunsTyped /\ HistoryTyped
      /\ sweep \in SweepType
      /\ PhaseFollowsData /\ Dated /\ Fresh /\ Bare /\ Rivals
  BY TypeParts DEF IInv, Coherent
<1>1. /\ rows[i].status # "NONE"
      /\ source' = source \cup {i} /\ runs' = [runs EXCEPT ![i] = @ \cup {"triggered"}]
      /\ hour' = hour /\ day' = day /\ rows' = rows /\ payload' = payload /\ ai' = ai
      /\ results' = results /\ sweep' = sweep /\ faults' = faults
      /\ lost' = lost /\ overtaken' = overtaken
  BY DEF Upload, clock, history
<1>2. RunsTyped' /\ \A k \in Imports \ {i} : runs'[k] = runs[k]
  BY <1>0, <1>1 DEF RunsTyped, Stages
<1>3. TypeOK'
  <2>1. RowsTyped' /\ DataTyped' /\ ClockTyped' /\ HistoryTyped' /\ (sweep \in SweepType)'
    BY <1>0, <1>1 DEF RowsTyped, DataTyped, ClockTyped, HistoryTyped, SweepType
  <2> QED
    BY <1>2, <2>1, TypeParts, PTL
<1>4. PhaseFollowsData' /\ Dated' /\ Bare' /\ Rivals'
  BY <1>0, <1>1, DataKept DEF clock
<1>5. Fresh'
  BY <1>0, <1>1, <1>2, FreshKept
<1> QED
  BY <1>3, <1>4, <1>5 DEF IInv, Coherent

LEMMA CloseFailsKeeps ==
  ASSUME IInv, NEW i \in Imports, CloseFails(i)
  PROVE  IInv'
<1>0. /\ RowsTyped /\ DataTyped /\ ClockTyped /\ RunsTyped /\ HistoryTyped
      /\ sweep \in SweepType
      /\ PhaseFollowsData /\ Dated /\ Fresh /\ Bare /\ Rivals
  BY TypeParts DEF IInv, Coherent
<1>1. /\ Fault /\ source' = source \ {i}
      /\ hour' = hour /\ day' = day /\ rows' = rows /\ payload' = payload /\ ai' = ai
      /\ results' = results /\ runs' = runs /\ sweep' = sweep
      /\ lost' = lost /\ overtaken' = overtaken
  BY DEF CloseFails, clock, history
<1>2. TypeOK'
  <2>1. RunsTyped'
    BY <1>0, <1>1, FaultTyped DEF RunsTyped
  <2>2. RowsTyped' /\ DataTyped' /\ ClockTyped' /\ HistoryTyped' /\ (sweep \in SweepType)'
    BY <1>0, <1>1 DEF RowsTyped, DataTyped, ClockTyped, HistoryTyped, SweepType
  <2> QED
    BY <2>1, <2>2, TypeParts, PTL
<1>3. PhaseFollowsData' /\ Dated' /\ Bare' /\ Rivals'
  BY <1>0, <1>1, DataKept DEF clock
<1>4. Fresh'
  BY <1>0, <1>1 DEF Fresh
<1> QED
  BY <1>2, <1>3, <1>4 DEF IInv, Coherent

(* Steps of the extraction worker before the callback. *)
LEMMA WorkerKeeps ==
  ASSUME IInv, NEW i \in Imports,
         \/ StartRun(i)
         \/ WriteResults(i)
         \/ \E stage \in Stages : GiveUp(i, stage)
  PROVE  IInv'
<1>0. /\ RowsTyped /\ DataTyped /\ ClockTyped /\ RunsTyped /\ HistoryTyped
      /\ sweep \in SweepType
      /\ PhaseFollowsData /\ Dated /\ Fresh /\ Bare /\ Rivals
  BY TypeParts DEF IInv, Coherent
<1>1. /\ hour' = hour /\ day' = day /\ rows' = rows /\ payload' = payload /\ ai' = ai
      /\ source' = source /\ sweep' = sweep /\ overtaken' = overtaken
  BY DEF StartRun, WriteResults, GiveUp, clock, history
<1>2. results' \subseteq results \cup {i} /\ lost' \subseteq lost \cup {i}
  BY DEF StartRun, WriteResults, GiveUp, history
<1>3. /\ RunsTyped' /\ rows[i].status # "NONE"
      /\ \A k \in Imports \ {i} : runs'[k] = runs[k]
  <2>1. CASE StartRun(i)
    <3>1. PICK to \in SUBSET Stages : MoveOn(i, "triggered", to)
      BY <2>1 DEF StartRun, Stages
    <3>2. "triggered" \in runs[i] /\ "triggered" \in Stages
      BY <2>1 DEF StartRun, Stages
    <3> QED
      BY <1>0, <3>1, <3>2, RunMoves
  <2>2. CASE WriteResults(i)
    <3>1. "reading" \in Stages /\ {"notifying"} \in SUBSET Stages
      BY DEF Stages
    <3> QED
      BY <1>0, <2>2, <3>1, RunMoves DEF WriteResults
  <2>3. ASSUME NEW stage \in Stages, GiveUp(i, stage)
        PROVE  /\ RunsTyped' /\ rows[i].status # "NONE"
               /\ \A k \in Imports \ {i} : runs'[k] = runs[k]
    <3>1. stage \in runs[i] /\ Fault /\ runs' = [runs EXCEPT ![i] = @ \ {stage}]
      BY <2>3 DEF GiveUp
    <3>2. runs' \in [Imports -> SUBSET Stages] /\ \A k \in Imports \ {i} : runs'[k] = runs[k]
      BY <1>0, <3>1 DEF RunsTyped
    <3>3. RunsTyped'
      BY <1>0, <3>1, <3>2, FaultTyped DEF RunsTyped
    <3> QED
      BY <1>0, <3>1, <3>2, <3>3 DEF Fresh
  <2> QED
    BY <2>1, <2>2, <2>3
<1>4. TypeOK'
  <2>1. RowsTyped' /\ DataTyped' /\ ClockTyped' /\ HistoryTyped' /\ (sweep \in SweepType)'
    BY <1>0, <1>1, <1>2 DEF RowsTyped, DataTyped, ClockTyped, HistoryTyped, SweepType
  <2> QED
    BY <1>3, <2>1, TypeParts, PTL
<1>5. PhaseFollowsData' /\ Dated' /\ Bare' /\ Rivals'
  BY <1>0, <1>1, DataKept DEF clock
<1>6. Fresh'
  BY <1>0, <1>1, <1>3, FreshKept
<1> QED
  BY <1>4, <1>5, <1>6 DEF IInv, Coherent

-----------------------------------------------------------------------------
(* Clean-up and clock.                                                     *)

(* Steps of the clean-up that leave its changes uncommitted. *)
LEMMA SweepKeeps ==
  ASSUME IInv,
         \/ SweepStart
         \/ SweepAborts
         \/ \E i \in Imports : SweepOne(i) \/ SweepFails(i)
  PROVE  IInv'
<1>0. /\ RowsTyped /\ DataTyped /\ ClockTyped /\ RunsTyped /\ HistoryTyped
      /\ sweep \in SweepType
      /\ PhaseFollowsData /\ Dated /\ Fresh /\ Bare /\ Rivals
  BY TypeParts DEF IInv, Coherent
<1>1. /\ hour' = hour /\ day' = day /\ rows' = rows /\ payload' = payload /\ ai' = ai
      /\ runs' = runs /\ lost' = lost /\ overtaken' = overtaken
      /\ source' \subseteq source /\ results' \subseteq results
  BY DEF SweepStart, SweepOne, SweepFails, SweepAborts, clock, history
<1>2. RunsTyped'
  <2>1. faults' = faults \/ Fault
    BY DEF SweepStart, SweepOne, SweepFails, SweepAborts
  <2> QED
    BY <1>0, <1>1, <2>1, FaultTyped DEF RunsTyped
<1>3. /\ (sweep \in SweepType)'
      /\ \A k \in Imports : rows[k].status = "NONE" => k \notin sweep'.todo /\ k \notin sweep'.gone
  <2>1. CASE SweepStart
    <3>1. PICK page \in Pages :
            sweep' = [on |-> TRUE, todo |-> page, seen |-> payload, locked |-> {}, gone |-> {}]
      BY <2>1 DEF SweepStart
    <3>2. page \subseteq Expired /\ Expired \subseteq Imports
      BY <3>1 DEF Pages, Expired
    <3>3. sweep' \in SweepType /\ sweep'.todo = page /\ sweep'.gone = {}
      BY <1>0, <3>1, <3>2 DEF SweepType, DataTyped
    <3> QED
      BY <3>2, <3>3 DEF Expired, SweepType
  <2>2. CASE SweepAborts
    <3>1. sweep' = Idle
      BY <2>2 DEF SweepAborts
    <3> QED
      BY <3>1 DEF Idle, SweepType
  <2>3. ASSUME NEW i \in Imports, SweepOne(i) \/ SweepFails(i)
        PROVE  /\ (sweep \in SweepType)'
               /\ \A k \in Imports :
                    rows[k].status = "NONE" => k \notin sweep'.todo /\ k \notin sweep'.gone
    <3> DEFINE less == [sweep EXCEPT !.todo = @ \ {i}, !.locked = @ \cup {i}]
               gone == [less EXCEPT !.gone = @ \cup {i}]
    <3>1. /\ less \in SweepType /\ gone \in SweepType
          /\ less.todo \subseteq sweep.todo /\ gone.todo \subseteq sweep.todo
          /\ less.gone = sweep.gone /\ gone.gone = sweep.gone \cup {i}
      BY <1>0, SweepUpdates
    <3>2. i \in sweep.todo /\ sweep' \in {less, gone}
      BY <2>3 DEF SweepOne, SweepFails, Locked
    <3> HIDE DEF less, gone
    <3>3. sweep' \in SweepType /\ sweep'.todo \subseteq sweep.todo
          /\ sweep'.gone \subseteq sweep.gone \cup {i}
      BY <3>1, <3>2
    <3>4. rows[i].status # "NONE"
      BY <1>0, <3>2 DEF Fresh
    <3> QED
      BY <1>0, <3>3, <3>4 DEF Fresh, SweepType
  <2> QED
    BY <2>1, <2>2, <2>3
<1>4. TypeOK'
  <2>1. RowsTyped' /\ DataTyped' /\ ClockTyped' /\ HistoryTyped'
    BY <1>0, <1>1 DEF RowsTyped, DataTyped, ClockTyped, HistoryTyped
  <2> QED
    BY <1>2, <1>3, <2>1, TypeParts, PTL
<1>5. PhaseFollowsData' /\ Dated' /\ Bare' /\ Rivals'
  BY <1>0, <1>1, DataKept DEF clock
<1>6. Fresh'
  BY <1>0, <1>1, <1>3 DEF Fresh
<1> QED
  BY <1>4, <1>5, <1>6 DEF IInv, Coherent

LEMMA SweepCommitKeeps ==
  ASSUME IInv, SweepCommit
  PROVE  IInv'
<1>0. /\ RowsTyped /\ DataTyped /\ ClockTyped /\ RunsTyped /\ HistoryTyped
      /\ sweep \in SweepType
      /\ PhaseFollowsData /\ Dated /\ Fresh /\ Bare /\ Rivals
  BY TypeParts DEF IInv, Coherent
<1>1. /\ rows' = [i \in Imports |-> IF i \in sweep.gone
                                    THEN [rows[i] EXCEPT !.deleted = TRUE] ELSE rows[i]]
      /\ payload' = payload \ (sweep.gone \cap sweep.seen)
      /\ ai' = [i \in Imports |-> IF i \in sweep.gone THEN "none" ELSE ai[i]]
      /\ sweep' = Idle
      /\ hour' = hour /\ day' = day /\ source' = source /\ results' = results
      /\ runs' = runs /\ faults' = faults /\ lost' = lost /\ overtaken' = overtaken
  BY DEF SweepCommit, clock, history
<1>2. ASSUME NEW i \in Imports
      PROVE  /\ SoundRow(rows'[i])
             /\ rows'[i].status = rows[i].status /\ rows'[i].day = rows[i].day
             /\ rows'[i].age = rows[i].age /\ rows'[i].counted = rows[i].counted
             /\ i \in sweep.gone => rows'[i].deleted
             /\ i \notin sweep.gone => rows'[i].deleted = rows[i].deleted
  <2>1. SoundRow(rows[i])
    BY <1>0 DEF RowsTyped
  <2>2. CASE i \in sweep.gone
    <3>1. rows'[i] = [rows[i] EXCEPT !.deleted = TRUE]
      BY <1>1, <2>2
    <3> QED
      BY <2>1, <2>2, <3>1, DeleteSound
  <2>3. CASE i \notin sweep.gone
    <3>1. rows'[i] = rows[i]
      BY <1>1, <2>3
    <3> QED
      BY <2>1, <2>3, <3>1
  <2> QED
    BY <2>2, <2>3
<1>3. RowsTyped'
  <2>1. rows' = [i \in Imports |-> rows'[i]]
    BY <1>1
  <2>2. \A i \in Imports : rows'[i] \in Row
    BY <1>2 DEF SoundRow
  <2>3. rows' \in [Imports -> Row]
    BY <2>1, <2>2
  <2> QED
    BY <1>2, <2>3 DEF RowsTyped, SoundRow
<1>4. DataTyped'
  BY <1>0, <1>1 DEF DataTyped
<1>5. (sweep \in SweepType)' /\ sweep'.todo = {} /\ sweep'.gone = {}
  BY <1>1 DEF Idle, SweepType
<1>6. TypeOK'
  <2>1. ClockTyped' /\ RunsTyped' /\ HistoryTyped'
    BY <1>0, <1>1 DEF ClockTyped, RunsTyped, HistoryTyped
  <2> QED
    BY <1>3, <1>4, <1>5, <2>1, TypeParts, PTL
<1>7. \A i \in Imports : /\ i \in sweep.gone => ai'[i] = "none"
                         /\ i \notin sweep.gone =>
                              ai'[i] = ai[i] /\ (i \in payload' <=> i \in payload)
  BY <1>1
<1>8. PhaseFollowsData'
  BY <1>0, <1>2, <1>7 DEF PhaseFollowsData
<1>9. Dated'
  BY <1>0, <1>1, <1>2 DEF Dated
<1>10. Fresh'
  BY <1>0, <1>1, <1>2, <1>5 DEF Fresh
<1>11. Bare'
  BY <1>0, <1>2, <1>7 DEF Bare
<1>12. Rivals'
  <2>1. \A i \in Imports : Final(i) => Final(i)'
    BY <1>2 DEF Final
  <2> QED
    BY <1>0, <1>1, <1>2, <2>1 DEF Rivals
<1> QED
  BY <1>6, <1>8, <1>9, <1>10, <1>11, <1>12 DEF IInv, Coherent

LEMMA TickKeeps ==
  ASSUME IInv, Tick
  PROVE  IInv'
<1>0. /\ RowsTyped /\ DataTyped /\ ClockTyped /\ RunsTyped /\ HistoryTyped
      /\ sweep \in SweepType
      /\ PhaseFollowsData /\ Dated /\ Fresh /\ Bare /\ Rivals
  BY TypeParts DEF IInv, Coherent
<1>1. /\ hour' = IF hour + 1 = DayLength THEN 0 ELSE hour + 1
      /\ day' = IF hour' = 0 /\ day <= LastDay THEN day + 1 ELSE day
      /\ rows' = [i \in Imports |->
                    IF rows[i].status = "NONE" THEN rows[i]
                    ELSE [rows[i] EXCEPT !.age = Older(@), !.finishedAge = Older(@)]]
      /\ payload' = payload /\ ai' = ai /\ source' = source /\ results' = results
      /\ runs' = runs /\ sweep' = sweep /\ faults' = faults
      /\ lost' = lost /\ overtaken' = overtaken
  BY DEF Tick, history
<1>2. ASSUME NEW i \in Imports
      PROVE  /\ SoundRow(rows'[i])
             /\ rows'[i].status = rows[i].status /\ rows'[i].day = rows[i].day
             /\ rows'[i].age \in {rows[i].age, rows[i].age + 1}
             /\ rows'[i].counted = rows[i].counted
             /\ rows'[i].deleted = rows[i].deleted
  <2>1. SoundRow(rows[i])
    BY <1>0 DEF RowsTyped
  <2>2. CASE rows[i].status = "NONE"
    <3>1. rows'[i] = rows[i]
      BY <1>1, <2>2
    <3> QED
      BY <2>1, <3>1
  <2>3. CASE rows[i].status # "NONE"
    <3>1. rows'[i] = [rows[i] EXCEPT !.age = Older(@), !.finishedAge = Older(@)]
      BY <1>1, <2>3
    <3> QED
      BY <2>1, <3>1, OlderSound
  <2> QED
    BY <2>2, <2>3
<1>3. RowsTyped'
  <2>1. rows' = [i \in Imports |-> rows'[i]]
    BY <1>1
  <2>2. \A i \in Imports : rows'[i] \in Row
    BY <1>2 DEF SoundRow
  <2>3. rows' \in [Imports -> Row]
    BY <2>1, <2>2
  <2> QED
    BY <1>2, <2>3 DEF RowsTyped, SoundRow
<1>4. /\ ClockTyped'
      /\ \/ hour' = hour + 1 /\ day' = day
         \/ hour' = 0 /\ day' = day + 1
         \/ hour' = 0 /\ day' = day /\ day = LastDay + 1
  <2>1. /\ hour \in Nat /\ hour <= DayLength - 1 /\ DayLength \in Nat \ {0}
        /\ day \in Nat /\ day <= LastDay + 1 /\ LastDay \in Nat
    BY <1>0, ImportAssumption DEF ClockTyped
  <2>2. CASE hour + 1 = DayLength
    <3>1. hour' = 0 /\ day' = IF day <= LastDay THEN day + 1 ELSE day
      BY <1>1, <2>2
    <3> QED
      BY <2>1, <3>1 DEF ClockTyped
  <2>3. CASE hour + 1 # DayLength
    <3>1. hour' = hour + 1
      BY <1>1, <2>3
    <3>2. hour' # 0
      BY <2>1, <3>1
    <3>3. day' = day
      BY <1>1, <3>2
    <3> QED
      BY <2>1, <2>3, <3>1, <3>3 DEF ClockTyped
  <2> QED
    BY <2>2, <2>3
<1>5. TypeOK'
  <2>1. DataTyped' /\ RunsTyped' /\ HistoryTyped' /\ (sweep \in SweepType)'
    BY <1>0, <1>1 DEF DataTyped, RunsTyped, HistoryTyped, SweepType
  <2> QED
    BY <1>3, <1>4, <2>1, TypeParts, PTL
<1>6. PhaseFollowsData'
  BY <1>0, <1>1, <1>2 DEF PhaseFollowsData
<1>7. Dated'
  <2> SUFFICES ASSUME NEW i \in Imports
               PROVE  rows'[i].day <= day' /\ (rows'[i].day = day' => rows'[i].age <= hour')
    BY DEF Dated
  <2>1. /\ rows[i].day \in 0..LastDay /\ rows[i].age \in 0..(Keep + 1)
        /\ LastDay \in Nat /\ day \in 0..(LastDay + 1) /\ hour \in Nat
    BY <1>0, ImportAssumption DEF RowsTyped, SoundRow, Row, ClockTyped
  <2>2. rows[i].day <= day /\ (rows[i].day = day => rows[i].age <= hour)
    BY <1>0 DEF Dated
  <2>3. rows'[i].day = rows[i].day /\ rows'[i].age \in {rows[i].age, rows[i].age + 1}
    BY <1>2
  <2>4. CASE hour' = hour + 1 /\ day' = day
    BY <2>1, <2>2, <2>3, <2>4
  <2>5. CASE day' = day + 1
    BY <2>1, <2>2, <2>3, <2>5
  <2>6. CASE day' = day /\ day = LastDay + 1
    BY <2>1, <2>3, <2>6
  <2> QED
    BY <1>4, <2>4, <2>5, <2>6
<1>8. Fresh'
  BY <1>0, <1>1, <1>2 DEF Fresh
<1>9. Bare'
  BY <1>0, <1>1, <1>2 DEF Bare
<1>10. Rivals'
  <2>1. \A i \in Imports : Final(i) => Final(i)'
    BY <1>2 DEF Final
  <2> QED
    BY <1>0, <1>1, <1>2, <2>1 DEF Rivals
<1> QED
  BY <1>5, <1>6, <1>7, <1>8, <1>9, <1>10 DEF IInv, Coherent

-----------------------------------------------------------------------------
(* The invariant holds in every state.                                     *)

LEMMA InitHolds == Init => IInv
<1> SUFFICES ASSUME Init PROVE IInv
  OBVIOUS
<1>1. \A i \in Imports : rows[i] = NoRow
  BY DEF Init
<1>2. /\ SoundRow(NoRow) /\ NoRow.status = "NONE" /\ NoRow.day = 0 /\ NoRow.age = 0
      /\ ~NoRow.deleted
  <2>1. 0 \in 0..LastDay
    BY ImportAssumption
  <2> QED
    BY <2>1, NewRows, Zenon
<1>3. /\ hour = 0 /\ day = 0 /\ payload = {} /\ source = {} /\ results = {} /\ faults = 0
      /\ lost = {} /\ overtaken = {} /\ rows = [i \in Imports |-> NoRow]
      /\ ai = [i \in Imports |-> "none"] /\ runs = [i \in Imports |-> {}]
  BY DEF Init
<1>4. sweep \in SweepType /\ sweep.todo = {} /\ sweep.gone = {}
  BY DEF Init, Idle, SweepType
<1>5. TypeOK
  <2>1. RowsTyped
    BY <1>1, <1>2, <1>3 DEF RowsTyped, SoundRow
  <2>2. DataTyped /\ ClockTyped /\ RunsTyped /\ HistoryTyped
    BY <1>3, ImportAssumption DEF DataTyped, ClockTyped, RunsTyped, HistoryTyped, Stages
  <2> QED
    BY <1>4, <2>1, <2>2, TypeParts
<1>6. PhaseFollowsData
  BY <1>1, <1>2, <1>3 DEF PhaseFollowsData
<1>7. Dated
  BY <1>1, <1>2, <1>3 DEF Dated
<1>8. Fresh
  BY <1>1, <1>2, <1>3, <1>4 DEF Fresh
<1>9. Bare
  BY <1>1, <1>2 DEF Bare
<1>10. Rivals
  BY <1>1, <1>2 DEF Rivals
<1> QED
  BY <1>5, <1>6, <1>7, <1>8, <1>9, <1>10 DEF IInv, Coherent

LEMMA StepKeeps == IInv /\ [Next]_vars => IInv'
<1> SUFFICES ASSUME IInv, [Next]_vars PROVE IInv'
  OBVIOUS
<1>1. ASSUME NEW i \in Imports,
             \/ Prepare(i) \/ Upload(i) \/ CompleteUpload(i) \/ Close(i) \/ CloseFails(i)
             \/ StartRun(i) \/ WriteResults(i) \/ SweepFails(i)
      PROVE  IInv'
  BY <1>1, PrepareKeeps, UploadKeeps, CompleteUploadKeeps, CloseKeeps, CloseFailsKeeps,
     WorkerKeeps, SweepKeeps
<1>2. ASSUME NEW i \in Imports, NEW stage \in Stages, GiveUp(i, stage)
      PROVE  IInv'
  BY <1>2, WorkerKeeps
<1>3. ASSUME NEW i \in Imports, NEW enriched \in BOOLEAN, NEW counted \in BOOLEAN,
             Receive(i, enriched, counted)
      PROVE  IInv'
  BY <1>3, ReceiveKeeps
<1>4. ASSUME NEW i \in Imports, NEW counted \in BOOLEAN, AiSettles(i, counted)
      PROVE  IInv'
  BY <1>4, AiSettlesKeeps
<1>5. CASE Sweeping \/ SweepAborts
  BY <1>5, SweepKeeps, SweepCommitKeeps DEF Sweeping
<1>6. CASE Tick
  BY <1>6, TickKeeps
<1>7. CASE UNCHANGED vars
  <2>1. TypeOK'
    <3>1. /\ RowsTyped /\ DataTyped /\ ClockTyped /\ RunsTyped /\ HistoryTyped
          /\ sweep \in SweepType
      BY TypeParts DEF IInv
    <3>2. /\ RowsTyped' /\ DataTyped' /\ ClockTyped' /\ RunsTyped' /\ HistoryTyped'
          /\ (sweep \in SweepType)'
      BY <1>7, <3>1 DEF vars, clock, RowsTyped, DataTyped, ClockTyped, RunsTyped,
                        HistoryTyped, SweepType
    <3> QED
      BY <3>2, TypeParts, PTL
  <2>2. PhaseFollowsData' /\ Dated' /\ Bare' /\ Rivals'
    BY <1>7, DataKept DEF IInv, Coherent, vars, clock
  <2>3. Fresh'
    BY <1>7 DEF IInv, Coherent, vars, Fresh
  <2> QED
    BY <2>1, <2>2, <2>3 DEF IInv, Coherent
<1> QED
  BY <1>1, <1>2, <1>3, <1>4, <1>5, <1>6, <1>7 DEF Next

(* The invariant is inductive: it holds whatever requests, worker,         *)
(* callbacks, AI, clean-up and clock do, in any order.                     *)
THEOREM Invariant == Spec => []IInv
BY InitHolds, StepKeeps, PTL DEF Spec

(* Every variable keeps its type; finished imports are the dated ones and  *)
(* only they count.                                                        *)
THEOREM TypeCorrect == Spec => []TypeOK
<1>1. IInv => TypeOK
  BY DEF IInv
<1> QED
  BY <1>1, Invariant, PTL

(* What the actor sees follows what is stored: in progress exactly while   *)
(* an AI answer is to come (PdfExtractionResultReceiver, finish()).        *)
THEOREM PhaseCorrect == Spec => []PhaseFollowsData
<1>1. IInv => PhaseFollowsData
  BY DEF IInv, Coherent
<1> QED
  BY <1>1, Invariant, PTL

(* One import of a day counts, but for those unconfirmed past their window *)
(* when another was prepared (the daily limit of ProfileImportService).    *)
THEOREM DailyLimit == Spec => []OneCountedUnlessOvertaken
<1>1. IInv => OneCountedUnlessOvertaken
  <2> SUFFICES ASSUME IInv, NEW d \in 0..LastDay
               PROVE  Cardinality(CountedOn(d) \ overtaken) <= 1
    BY DEF OneCountedUnlessOvertaken
  <2> DEFINE those == CountedOn(d) \ overtaken
  <2>0. RowsTyped /\ Rivals
    BY TypeParts DEF IInv, Coherent
  <2>1. ASSUME NEW i \in those, NEW k \in those
        PROVE  i = k
    <3>1. /\ i \in Imports /\ k \in Imports /\ i \notin overtaken /\ k \notin overtaken
          /\ rows[i].counted /\ rows[k].counted /\ rows[i].day = rows[k].day
      BY <2>1 DEF CountedOn
    <3>2. rows[i].status = "FINISHED" /\ rows[k].status = "FINISHED"
      BY <2>0, <3>1 DEF RowsTyped, SoundRow
    <3>3. ~Final(i) /\ ~Final(k)
      BY <3>1 DEF Final
    <3> QED
      BY <2>0, <3>1, <3>2, <3>3 DEF Rivals
  <2> HIDE DEF those
  <2>2. CASE those = {}
    <3>1. Cardinality(those) = 0
      BY <2>2, FS_EmptySet
    <3> QED
      BY <3>1 DEF those
  <2>3. CASE those # {}
    <3>1. PICK i : i \in those
      BY <2>3
    <3>2. those = {i}
      BY <2>1, <3>1
    <3>3. Cardinality(those) = 1
      BY <3>2, FS_Singleton
    <3> QED
      BY <3>3 DEF those
  <2> QED
    BY <2>2, <2>3
<1> QED
  BY <1>1, Invariant, PTL

(* No step restores anything of a deleted import, or makes it count, or    *)
(* takes back that it counted (isDeleted() in receive() and finish()).     *)
THEOREM DeletedStays == Spec => NothingRestored
<1>1. IInv /\ [Next]_vars => [NothingComesBack]_vars
  <2> SUFFICES ASSUME IInv, Next, NEW i \in Imports, rows[i].deleted
               PROVE  /\ rows'[i].deleted /\ rows'[i].status = rows[i].status
                      /\ rows'[i].counted = rows[i].counted
                      /\ i \in payload' => i \in payload
                      /\ ai'[i] = ai[i]
    BY DEF NothingComesBack
  <2>0. /\ RowsTyped /\ DataTyped /\ Fresh /\ Bare
        /\ rows \in [Imports -> Row] /\ ai \in [Imports -> {"none", "open", "settled"}]
        /\ rows[i].status # "NONE" /\ ai[i] = "none" /\ SoundRow(rows[i])
    BY TypeParts DEF IInv, Coherent, RowsTyped, DataTyped, Fresh, Bare
  <2> DEFINE Same == rows'[i] = rows[i] /\ (i \in payload' => i \in payload) /\ ai'[i] = ai[i]
  <2>1. ASSUME NEW k \in Imports,
               Prepare(k) \/ CompleteUpload(k) \/ Close(k)
        PROVE  Same
    <3>1. k # i
      BY <2>0, <2>1 DEF Prepare, CompleteUpload, Close, MayClose
    <3>2. /\ \E row : rows' = [rows EXCEPT ![k] = row]
          /\ payload' \subseteq payload
          /\ ai' = ai \/ ai' = [ai EXCEPT ![k] = "none"]
      BY <2>1 DEF Prepare, CompleteUpload, Close
    <3> QED
      BY <2>0, <3>1, <3>2
  <2>2. ASSUME NEW k \in Imports,
               \/ Upload(k) \/ CloseFails(k) \/ StartRun(k) \/ WriteResults(k) \/ SweepFails(k)
               \/ \E stage \in Stages : GiveUp(k, stage)
        PROVE  Same
    BY <2>2 DEF Upload, CloseFails, StartRun, WriteResults, SweepFails, GiveUp
  <2>3. ASSUME NEW k \in Imports, NEW enriched \in BOOLEAN, NEW counted \in BOOLEAN,
               Receive(k, enriched, counted)
        PROVE  Same
    <3>1. CASE UNCHANGED <<rows, payload, ai>>
      BY <3>1
    <3>2. CASE /\ Accepts(k)
               /\ payload' = payload \cup {k}
               /\ ai' = [ai EXCEPT ![k] = IF enriched THEN "open" ELSE "settled"]
               /\ rows' = [rows EXCEPT ![k] = IF enriched THEN ConfirmUpload(@)
                                              ELSE Received(@, counted)]
      <4>1. k # i
        BY <3>2 DEF Accepts
      <4> QED
        BY <2>0, <3>2, <4>1
    <3> QED
      BY <2>3, <3>1, <3>2 DEF Receive
  <2>4. ASSUME NEW k \in Imports, NEW counted \in BOOLEAN, AiSettles(k, counted)
        PROVE  Same
    <3>1. k # i
      BY <2>0, <2>4 DEF AiSettles
    <3>2. /\ rows' = rows \/ rows' = [rows EXCEPT ![k] = Finish(@, counted)]
          /\ payload' = payload /\ ai' = [ai EXCEPT ![k] = "settled"]
      BY <2>4 DEF AiSettles
    <3> QED
      BY <2>0, <3>1, <3>2
  <2>5. ASSUME SweepStart \/ SweepAborts \/ \E k \in Imports : SweepOne(k)
        PROVE  Same
    BY <2>5 DEF SweepStart, SweepAborts, SweepOne
  <2>6. CASE SweepCommit
    <3>1. /\ rows'[i] = IF i \in sweep.gone
                        THEN [rows[i] EXCEPT !.deleted = TRUE] ELSE rows[i]
          /\ payload' \subseteq payload
          /\ ai'[i] = IF i \in sweep.gone THEN "none" ELSE ai[i]
      BY <2>6 DEF SweepCommit
    <3> QED
      BY <2>0, <3>1, DeleteSound
  <2>7. CASE Tick
    <3>1. /\ rows'[i] = [rows[i] EXCEPT !.age = Older(@), !.finishedAge = Older(@)]
          /\ payload' = payload /\ ai' = ai
      BY <2>0, <2>7 DEF Tick
    <3> QED
      BY <2>0, <3>1, OlderSound
  <2> QED
    BY <2>1, <2>2, <2>3, <2>4, <2>5, <2>6, <2>7 DEF Next, Sweeping
<1> QED
  BY <1>1, Invariant, PTL DEF Spec, NothingRestored

-----------------------------------------------------------------------------
(* Objects of a deleted import.                                            *)

(* Deleted, or about to be when the clean-up commits.                      *)
Leaving(i) == rows[i].deleted \/ i \in sweep.gone

(* Objects in S3 have a run that will come to the callback: results one    *)
(* that is about to call, a source any.                                    *)
Followed ==
  /\ sweep.gone \subseteq sweep.locked
  /\ \A i \in Imports :
       Leaving(i) /\ i \notin lost =>
         /\ i \in results => "notifying" \in runs[i]
         /\ i \in source => runs[i] # {}

(* A step that writes no object, ends no run and turns no import into a    *)
(* leaving one unless its objects go with it.                              *)
LEMMA ObjectsShrink ==
  ASSUME Followed, UNCHANGED <<runs, lost>>, source' \subseteq source, results' \subseteq results,
         sweep'.gone \subseteq sweep'.locked,
         \A k \in Imports : Leaving(k)' => Leaving(k) \/ (k \notin source' /\ k \notin results')
  PROVE  Followed'
BY DEF Followed

(* A step of the object store or the worker: what leaves is not affected.  *)
LEMMA LeavingSame ==
  ASSUME UNCHANGED <<rows, sweep>>
  PROVE  \A k \in Imports : Leaving(k)' <=> Leaving(k)
BY DEF Leaving

(* What a run's step leaves of the stages. *)
LEMMA StagesAfter ==
  ASSUME RunsTyped, NEW i \in Imports, NEW from, NEW to, MoveOn(i, from, to)
  PROVE  /\ to \subseteq runs'[i] /\ runs[i] \ {from} \subseteq runs'[i]
         /\ \A k \in Imports \ {i} : runs'[k] = runs[k]
<1>1. runs \in [Imports -> SUBSET Stages]
  BY DEF RunsTyped
<1>2. CASE runs' = [runs EXCEPT ![i] = (@ \ {from}) \cup to]
  BY <1>1, <1>2
<1>3. CASE runs' = [runs EXCEPT ![i] = @ \cup to]
  BY <1>1, <1>3
<1> QED
  BY <1>2, <1>3 DEF MoveOn

LEMMA RequestsFollowed ==
  ASSUME IInv, Followed, NEW i \in Imports,
         \/ Prepare(i) \/ CompleteUpload(i) \/ Close(i) \/ CloseFails(i)
         \/ \E counted \in BOOLEAN : AiSettles(i, counted)
  PROVE  Followed'
<1>0. RowsTyped /\ rows \in [Imports -> Row] /\ SoundRow(rows[i])
  BY TypeParts DEF IInv, RowsTyped
<1>1. sweep' = sweep /\ UNCHANGED <<runs, lost>>
      /\ source' \subseteq source /\ results' \subseteq results
  BY DEF Prepare, CompleteUpload, Close, CloseFails, AiSettles, history
<1>2. ASSUME NEW row, rows' = [rows EXCEPT ![i] = row],
             row.deleted => rows[i].deleted \/ (i \notin source' /\ i \notin results')
      PROVE  Followed'
  <2>1. \A k \in Imports : rows'[k] = IF k = i THEN row ELSE rows[k]
    BY <1>0, <1>2
  <2>2. \A k \in Imports : Leaving(k)' => Leaving(k) \/ (k \notin source' /\ k \notin results')
    BY <1>1, <1>2, <2>1 DEF Leaving
  <2> QED
    BY <1>1, <2>2, ObjectsShrink DEF Followed
<1>3. CASE Prepare(i)
  <2> DEFINE new == [NoRow EXCEPT !.status = "UPLOADING", !.day = day]
  <2>1. day \in 0..LastDay
    BY <1>3, ImportAssumption DEF Prepare, IInv, TypeOK
  <2>2. ~new.deleted
    BY <2>1, NewRows
  <2>3. rows' = [rows EXCEPT ![i] = new]
    BY <1>3 DEF Prepare
  <2> HIDE DEF new
  <2> QED
    BY <1>2, <2>2, <2>3
<1>4. CASE CompleteUpload(i)
  <2>1. ConfirmUpload(rows[i]).deleted = rows[i].deleted
    BY <1>0, ConfirmSound
  <2>2. rows' = [rows EXCEPT ![i] = ConfirmUpload(rows[i])]
    BY <1>4 DEF CompleteUpload
  <2> QED
    BY <1>2, <2>1, <2>2
<1>5. CASE Close(i)
  <2>1. i \notin source' /\ i \notin results'
    BY <1>5 DEF Close
  <2>2. rows' = [rows EXCEPT ![i] = [rows[i] EXCEPT !.deleted = TRUE]]
    BY <1>0, <1>5 DEF Close
  <2> QED
    BY <1>2, <2>1, <2>2
<1>6. CASE rows' = rows
  BY <1>1, <1>6, ObjectsShrink DEF Followed, Leaving
<1>7. ASSUME NEW counted \in BOOLEAN, AiSettles(i, counted), rows' # rows
      PROVE  Followed'
  <2>1. Finish(rows[i], counted).deleted = rows[i].deleted
    BY <1>0, FinishSound
  <2>2. rows' = [rows EXCEPT ![i] = Finish(rows[i], counted)]
    BY <1>7 DEF AiSettles
  <2> QED
    BY <1>2, <2>1, <2>2
<1>8. CloseFails(i) => rows' = rows
  BY DEF CloseFails
<1> QED
  BY <1>3, <1>4, <1>5, <1>6, <1>7, <1>8

LEMMA WorkerFollowed ==
  ASSUME IInv, Followed, NEW i \in Imports,
         Upload(i) \/ StartRun(i) \/ WriteResults(i) \/ \E stage \in Stages : GiveUp(i, stage)
  PROVE  Followed'
<1>0. RunsTyped /\ runs \in [Imports -> SUBSET Stages]
  BY TypeParts DEF IInv, RunsTyped
<1>1. UNCHANGED <<rows, sweep>>
  BY DEF Upload, StartRun, WriteResults, GiveUp
<1>2. \A k \in Imports : Leaving(k)' <=> Leaving(k)
  BY <1>1, LeavingSame
<1>3. CASE Upload(i)
  <2>1. /\ source' = source \cup {i} /\ results' = results /\ lost' = lost
        /\ \A k \in Imports : runs'[k] = IF k = i THEN runs[k] \cup {"triggered"} ELSE runs[k]
    BY <1>0, <1>3 DEF Upload, history
  <2> QED
    BY <1>1, <1>2, <2>1 DEF Followed
<1>4. CASE StartRun(i)
  <2> DEFINE to == IF i \notin source THEN {}
                   ELSE IF i \in results THEN {"notifying"} ELSE {"reading"}
  <2>1. /\ to \subseteq runs'[i] /\ runs[i] \ {"triggered"} \subseteq runs'[i]
        /\ \A k \in Imports \ {i} : runs'[k] = runs[k]
    BY <1>0, <1>4, StagesAfter DEF StartRun
  <2>2. UNCHANGED <<source, results, lost>>
    BY <1>4 DEF StartRun, history
  <2>3. i \in source => runs'[i] # {}
    BY <2>1
  <2>4. "notifying" \in runs[i] => "notifying" \in runs'[i]
    BY <2>1
  <2> HIDE DEF to
  <2> QED
    BY <1>1, <1>2, <2>1, <2>2, <2>3, <2>4 DEF Followed
<1>5. CASE WriteResults(i)
  <2>1. /\ "notifying" \in runs'[i] /\ \A k \in Imports \ {i} : runs'[k] = runs[k]
    BY <1>0, <1>5, StagesAfter DEF WriteResults
  <2>2. UNCHANGED <<source, lost>> /\ results' = results \cup {i}
    BY <1>5 DEF WriteResults, history
  <2> QED
    BY <1>1, <1>2, <2>1, <2>2 DEF Followed
<1>6. ASSUME NEW stage \in Stages, GiveUp(i, stage)
      PROVE  Followed'
  <2>1. /\ source' = source /\ results' \subseteq results \cup {i} /\ lost' = lost \cup {i}
        /\ \A k \in Imports \ {i} : runs'[k] = runs[k]
    BY <1>0, <1>6 DEF GiveUp
  <2> QED
    BY <1>1, <1>2, <2>1 DEF Followed
<1> QED
  BY <1>3, <1>4, <1>5, <1>6

(* A callback for an import that is leaving takes its objects along: the   *)
(* import is not locked by the clean-up, so it is a deleted one.           *)
LEMMA ReceiveFollowed ==
  ASSUME IInv, Followed, NEW i \in Imports, NEW enriched \in BOOLEAN, NEW counted \in BOOLEAN,
         Receive(i, enriched, counted)
  PROVE  Followed'
<1>0. /\ RunsTyped /\ RowsTyped /\ rows \in [Imports -> Row] /\ SoundRow(rows[i])
  BY TypeParts DEF IInv, RowsTyped
<1>1. sweep' = sweep /\ lost' = lost /\ Free(i)
      /\ \A k \in Imports \ {i} : runs'[k] = runs[k]
  BY <1>0, StagesAfter DEF Receive, history
<1>2. i \notin sweep.gone
  BY <1>1 DEF Followed, Free
<1>3. CASE ~Accepts(i)
  <2>1. rows' = rows /\ source' = source \ {i} /\ results' = results \ {i}
    BY <1>3 DEF Receive, DiscardObjects
  <2> QED
    BY <1>1, <2>1 DEF Followed, Leaving
<1>4. CASE Accepts(i)
  <2>1. source' = source /\ results' = results
    BY <1>4 DEF Receive
  <2>2. /\ rows'[i].deleted = rows[i].deleted
        /\ \A k \in Imports \ {i} : rows'[k] = rows[k]
    <3>1. CASE rows' = rows
      BY <3>1
    <3>2. CASE rows' = [rows EXCEPT ![i] = ConfirmUpload(rows[i])]
      BY <1>0, <3>2, ConfirmSound
    <3>3. CASE rows' = [rows EXCEPT ![i] = Finish(rows[i], counted)]
      BY <1>0, <3>3, FinishSound
    <3> QED
      BY <3>1, <3>2, <3>3 DEF Receive, Received
  <2>3. ~Leaving(i)'
    BY <1>1, <1>2, <1>4, <2>2 DEF Leaving, Accepts
  <2> QED
    BY <1>1, <2>1, <2>2, <2>3 DEF Followed, Leaving
<1> QED
  BY <1>3, <1>4

LEMMA SweepFollowed ==
  ASSUME IInv, Followed,
         \/ SweepStart \/ SweepCommit \/ SweepAborts
         \/ \E i \in Imports : SweepOne(i) \/ SweepFails(i)
  PROVE  Followed'
<1>0. /\ rows \in [Imports -> Row] /\ sweep \in SweepType
  BY TypeParts DEF IInv, RowsTyped
<1>1. UNCHANGED <<runs, lost>> /\ source' \subseteq source /\ results' \subseteq results
  BY DEF SweepStart, SweepCommit, SweepAborts, SweepOne, SweepFails, history
<1>2. CASE SweepStart \/ SweepAborts
  <2>1. sweep'.gone = {} /\ rows' = rows
    BY <1>2 DEF SweepStart, SweepAborts, Idle
  <2> QED
    BY <1>1, <2>1, ObjectsShrink DEF Leaving
<1>3. CASE SweepCommit
  <2>1. /\ sweep'.gone = {}
        /\ \A k \in Imports : rows'[k].deleted => rows[k].deleted \/ k \in sweep.gone
    BY <1>3 DEF SweepCommit, Idle
  <2> QED
    BY <1>1, <2>1, ObjectsShrink DEF Leaving
<1>4. ASSUME NEW i \in Imports, SweepOne(i) \/ SweepFails(i)
      PROVE  Followed'
  <2> DEFINE less == [sweep EXCEPT !.todo = @ \ {i}, !.locked = @ \cup {i}]
             gone == [less EXCEPT !.gone = @ \cup {i}]
  <2>1. /\ less.gone = sweep.gone /\ less.locked = sweep.locked \cup {i}
        /\ gone.gone = sweep.gone \cup {i} /\ gone.locked = sweep.locked \cup {i}
    BY <1>0 DEF SweepType
  <2>2. \/ sweep' = less
        \/ sweep' = gone /\ i \notin source' /\ i \notin results'
    BY <1>4 DEF SweepOne, SweepFails, Locked
  <2> HIDE DEF less, gone
  <2>3. rows' = rows
    BY <1>4 DEF SweepOne, SweepFails
  <2>4. sweep'.gone \subseteq sweep'.locked
    BY <2>1, <2>2 DEF Followed
  <2>5. \A k \in Imports : Leaving(k)' => Leaving(k) \/ (k \notin source' /\ k \notin results')
    BY <2>1, <2>2, <2>3 DEF Leaving
  <2> QED
    BY <1>1, <2>4, <2>5, ObjectsShrink
<1> QED
  BY <1>2, <1>3, <1>4

LEMMA TickFollowed ==
  ASSUME IInv, Followed, Tick
  PROVE  Followed'
<1>0. RowsTyped /\ \A k \in Imports : SoundRow(rows[k])
  BY TypeParts DEF IInv, RowsTyped
<1>1. UNCHANGED <<runs, lost, source, results, sweep>>
  BY DEF Tick, history
<1>2. \A k \in Imports : rows'[k].deleted = rows[k].deleted
  <2> SUFFICES ASSUME NEW k \in Imports PROVE rows'[k].deleted = rows[k].deleted
    OBVIOUS
  <2>1. rows'[k] = IF rows[k].status = "NONE" THEN rows[k]
                   ELSE [rows[k] EXCEPT !.age = Older(@), !.finishedAge = Older(@)]
    BY DEF Tick
  <2> QED
    BY <1>0, <2>1, OlderSound
<1> QED
  BY <1>1, <1>2, ObjectsShrink DEF Leaving, Followed

(* Objects of a deleted import, written or uploaded late, are followed by  *)
(* a callback that removes them unless a run was given up, whatever order   *)
(* upload, worker, close and clean-up come in (receive(), deleteExpired()). *)
THEOREM ObjectsLeave == Spec => []ObjectsFollowed
<1>1. Init => Followed
  BY DEF Init, Followed, Idle
<1>2. IInv /\ Followed /\ [Next]_vars => Followed'
  <2> SUFFICES ASSUME IInv, Followed, [Next]_vars PROVE Followed'
    OBVIOUS
  <2>1. CASE UNCHANGED vars
    BY <2>1 DEF vars, history, Followed, Leaving
  <2>2. ASSUME NEW i \in Imports,
               \/ Prepare(i) \/ Upload(i) \/ CompleteUpload(i) \/ Close(i) \/ CloseFails(i)
               \/ StartRun(i) \/ WriteResults(i) \/ SweepFails(i)
        PROVE  Followed'
    BY <2>2, RequestsFollowed, WorkerFollowed, SweepFollowed
  <2>3. ASSUME NEW i \in Imports, NEW stage \in Stages, GiveUp(i, stage)
        PROVE  Followed'
    BY <2>3, WorkerFollowed
  <2>4. ASSUME NEW i \in Imports, NEW enriched \in BOOLEAN, NEW counted \in BOOLEAN,
               Receive(i, enriched, counted)
        PROVE  Followed'
    BY <2>4, ReceiveFollowed
  <2>5. ASSUME NEW i \in Imports, NEW counted \in BOOLEAN, AiSettles(i, counted)
        PROVE  Followed'
    BY <2>5, RequestsFollowed
  <2>6. CASE Sweeping \/ SweepAborts
    BY <2>6, SweepFollowed DEF Sweeping
  <2>7. CASE Tick
    BY <2>7, TickFollowed
  <2> QED
    BY <2>1, <2>2, <2>3, <2>4, <2>5, <2>6, <2>7 DEF Next
<1>3. IInv /\ Followed => ObjectsFollowed
  BY DEF IInv, TypeOK, Followed, Leaving, ObjectsFollowed
<1> QED
  BY <1>1, <1>2, <1>3, Invariant, PTL DEF Spec
=============================================================================
