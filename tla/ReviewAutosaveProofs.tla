------------------------- MODULE ReviewAutosaveProofs -------------------------
(***************************************************************************)
(* Theorems about ReviewAutosave, for every text, every number of edits    *)
(* and every interleaving with requests and refreshes.  The methods of the *)
(* object are treated first, one lemma each, then the actions.             *)
(***************************************************************************)
EXTENDS ReviewAutosave, TLAPS

-----------------------------------------------------------------------------
(* The object's columns.                                                   *)

(* An object of which one column is replaced by a value of its type.       *)
LEMMA ObjectUpdates ==
  ASSUME NEW s \in Object
  PROVE  /\ \A x \in [Field -> Text] : [s EXCEPT !.draft = x] \in Object
         /\ \A x \in Entries : [s EXCEPT !.saved = x] \in Object
         /\ \A x \in SUBSET Field : [s EXCEPT !.composing = x] \in Object
         /\ \A x \in BOOLEAN : /\ [s EXCEPT !.timer = x] \in Object
                               /\ [s EXCEPT !.running = x] \in Object
                               /\ [s EXCEPT !.disposed = x] \in Object
         /\ \A x \in Field \cup {None} : [s EXCEPT !.errorField = x] \in Object
         /\ \A x \in Entries \cup {None} : [s EXCEPT !.external = x] \in Object
         /\ \A x \in Request \cup {None} : [s EXCEPT !.inFlight = x] \in Object
         /\ \A x \in SUBSET Field : [s EXCEPT !.uncertain = x] \in Object
         /\ \A x \in [status : Status, dirty : BOOLEAN] : [s EXCEPT !.shown = x] \in Object
BY DEF Object

(* What every column of an object is. *)
LEMMA ObjectColumns ==
  ASSUME NEW s \in Object
  PROVE  /\ s.draft \in [Field -> Text] /\ s.saved \in Entries
         /\ \A f \in Field : s.draft[f] \in Text /\ s.saved[f] \in Entry /\ s.saved[f].text \in Text
         /\ s.composing \in SUBSET Field /\ s.timer \in BOOLEAN
         /\ s.running \in BOOLEAN /\ s.disposed \in BOOLEAN
         /\ s.errorField \in Field \cup {None} /\ s.external \in Entries \cup {None}
         /\ s.inFlight \in Request \cup {None} /\ s.uncertain \in SUBSET Field
         /\ s.shown \in [status : Status, dirty : BOOLEAN]
BY DEF Object, Entries, Entry

(* The shown state says so when something is not saved. *)
Honest(s) == Dirty(s) => s.disposed \/ s.shown.dirty

(* Something will save what is not saved, or says that nothing does. *)
Attended(s) ==
  Dirty(s) => \/ s.timer \/ s.running
              \/ s.shown.status = "error" /\ s.errorField # None
              \/ s.composing # {}
              \/ s.disposed

SoundObject(s) == s \in Object /\ Coherent(s) /\ Honest(s) /\ Attended(s)

(* Two objects agree on the columns that decide what is dirty. *)
SameText(new, s) ==
  /\ new.draft = s.draft /\ new.saved = s.saved
  /\ new.uncertain = s.uncertain /\ new.inFlight = s.inFlight

LEMMA SameDirty ==
  ASSUME NEW s, NEW new, SameText(new, s)
  PROVE  Pending(new) = Pending(s) /\ (Dirty(new) <=> Dirty(s))
BY DEF SameText, Pending, Dirty

(* Publishing touches the shown state only. *)
LEMMA PublishColumns ==
  ASSUME NEW s \in Object, NEW status \in Status
  PROVE  LET new == Publish(s, status)
         IN  /\ new \in Object /\ SameText(new, s)
             /\ new.composing = s.composing /\ new.timer = s.timer
             /\ new.running = s.running /\ new.disposed = s.disposed
             /\ new.errorField = s.errorField /\ new.external = s.external
             /\ s.disposed => new.shown = s.shown
             /\ ~s.disposed => new.shown.status = status /\ (new.shown.dirty <=> Dirty(s))
<1>1. Dirty(s) \in BOOLEAN
  BY DEF Dirty
<1> DEFINE shown == [status |-> status, dirty |-> Dirty(s)]
<1>2. shown \in [status : Status, dirty : BOOLEAN]
  BY <1>1
<1>3. Publish(s, status) = IF s.disposed THEN s ELSE [s EXCEPT !.shown = shown]
  BY DEF Publish
<1> HIDE DEF shown
<1>4. [s EXCEPT !.shown = shown] \in Object
  BY <1>2, ObjectUpdates
<1>5. CASE s.disposed
  BY <1>3, <1>5 DEF SameText
<1>6. CASE ~s.disposed
  <2>1. shown.status = status /\ (shown.dirty <=> Dirty(s))
    BY DEF shown
  <2> QED
    BY <1>3, <1>4, <1>6, <2>1 DEF SameText, Object
<1> QED
  BY <1>5, <1>6

(* Scheduling touches the timer only. *)
LEMMA ScheduleColumns ==
  ASSUME NEW s \in Object
  PROVE  LET new == Schedule(s)
         IN  /\ new \in Object /\ SameText(new, s)
             /\ new.composing = s.composing /\ new.shown = s.shown
             /\ new.running = s.running /\ new.disposed = s.disposed
             /\ new.errorField = s.errorField /\ new.external = s.external
             /\ new.timer <=> s.composing = {} /\ ~s.disposed /\ Dirty(s)
<1> DEFINE timer == s.composing = {} /\ ~s.disposed /\ Dirty(s)
<1>1. timer \in BOOLEAN
  OBVIOUS
<1>2. Schedule(s) = [s EXCEPT !.timer = timer]
  BY DEF Schedule
<1> HIDE DEF timer
<1>3. [s EXCEPT !.timer = timer] \in Object
  BY <1>1, ObjectUpdates
<1>4. [s EXCEPT !.timer = timer].timer = timer
  BY DEF Object
<1>5. timer <=> s.composing = {} /\ ~s.disposed /\ Dirty(s)
  BY DEF timer
<1> QED
  BY <1>2, <1>3, <1>4, <1>5 DEF SameText, Object

(* A change of one field. *)
LEMMA ChangeSound ==
  ASSUME NEW s \in Object, NEW f \in Field, NEW t \in Text, ~s.disposed,
         s.inFlight # None <=> s.running, s.external # None => s.running
  PROVE  LET new == Change(s, f, t)
         IN  /\ SoundObject(new)
             /\ new.draft = [s.draft EXCEPT ![f] = t] /\ new.saved = s.saved
             /\ new.uncertain = s.uncertain /\ new.inFlight = s.inFlight
             /\ new.external = s.external /\ ~new.disposed
<1> DEFINE changed == [s EXCEPT !.draft[f] = t, !.errorField = None]
           status  == IF Dirty(changed) THEN "pending" ELSE "saved"
           shown   == Publish(changed, status)
           new     == Schedule(shown)
<1>1. /\ changed \in Object
      /\ changed.draft = [s.draft EXCEPT ![f] = t] /\ changed.saved = s.saved
      /\ changed.uncertain = s.uncertain /\ changed.inFlight = s.inFlight
      /\ changed.external = s.external /\ ~changed.disposed /\ changed.running = s.running
      /\ changed.composing = s.composing
  BY DEF Object
<1> HIDE DEF changed
<1>2. status \in Status
  BY DEF Status
<1> HIDE DEF status
<1>3. /\ shown \in Object /\ SameText(shown, changed) /\ shown.external = changed.external
      /\ ~shown.disposed /\ shown.running = changed.running
      /\ shown.composing = changed.composing
      /\ (shown.shown.dirty <=> Dirty(changed))
  BY <1>1, <1>2, PublishColumns
<1> HIDE DEF shown
<1>4. /\ new \in Object /\ SameText(new, shown) /\ new.external = shown.external
      /\ ~new.disposed /\ new.running = shown.running /\ new.composing = shown.composing
      /\ new.shown = shown.shown /\ (new.timer <=> shown.composing = {} /\ Dirty(shown))
  BY <1>3, ScheduleColumns
<1> HIDE DEF new
<1>5. (Dirty(new) <=> Dirty(shown)) /\ (Dirty(shown) <=> Dirty(changed))
  BY <1>3, <1>4, SameDirty
<1>6. Coherent(new) /\ Honest(new) /\ Attended(new)
  BY <1>1, <1>3, <1>4, <1>5 DEF Coherent, Honest, Attended, SameText
<1>7. Change(s, f, t) = new
  BY DEF Change, new, shown, status, changed
<1> QED
  BY <1>1, <1>3, <1>4, <1>6, <1>7 DEF SoundObject, SameText

-----------------------------------------------------------------------------
(* What the list brings.                                                   *)

(* What becomes of one field: it stays, or takes the list's value.         *)
KeepsField(new, s, f) == new.draft[f] = s.draft[f] /\ new.saved[f] = s.saved[f]
AdoptsField(new, s, values, f) ==
  /\ ~s.disposed /\ f \notin Pending(s) /\ values[f].text # s.saved[f].text
  /\ new.draft[f] = values[f].text /\ new.saved[f] = values[f]

(* Everything but the fields and the shown state stays. *)
SameControl(new, s) ==
  /\ new.composing = s.composing /\ new.timer = s.timer /\ new.running = s.running
  /\ new.disposed = s.disposed /\ new.errorField = s.errorField
  /\ new.external = s.external /\ new.inFlight = s.inFlight /\ new.uncertain = s.uncertain

(* Adopting changes no field that is to be saved and leaves none to save.  *)
LEMMA AdoptedPending ==
  ASSUME NEW s, NEW new, NEW values, new.uncertain = s.uncertain,
         \A f \in Field : KeepsField(new, s, f) \/ AdoptsField(new, s, values, f)
  PROVE  Pending(new) = Pending(s)
BY DEF KeepsField, AdoptsField, Pending

(* Outside a run the list's values are adopted field by field. *)
LEMMA SyncColumns ==
  ASSUME NEW s \in Object, NEW values \in Entries, ~s.running
  PROVE  LET new == Sync(s, values)
         IN  /\ new \in Object /\ SameControl(new, s)
             /\ new.shown.status = s.shown.status
             /\ \A f \in Field : KeepsField(new, s, f) \/ AdoptsField(new, s, values, f)
             /\ Honest(s) => Honest(new)
             /\ Dirty(new) <=> Dirty(s)
<1> DEFINE adopted == {f \in Field : Adopts(s, values, f)}
           draft == [f \in Field |-> IF f \in adopted THEN values[f].text ELSE s.draft[f]]
           saved == [f \in Field |-> IF f \in adopted THEN values[f] ELSE s.saved[f]]
           half  == [s EXCEPT !.draft = draft]
           full  == [half EXCEPT !.saved = saved]
           shown == Publish(full, s.shown.status)
           new   == Sync(s, values)
<1>0. new = IF s.disposed \/ adopted = {} THEN s ELSE shown
  BY DEF Sync
<1>1. CASE s.disposed \/ adopted = {}
  BY <1>0, <1>1 DEF SameControl, KeepsField
<1>2. CASE ~s.disposed /\ adopted # {}
  <2>1. draft \in [Field -> Text] /\ saved \in Entries
    <3>1. \A f \in Field : values[f] \in Entry /\ values[f].text \in Text
      BY DEF Entries, Entry
    <3>2. \A f \in Field : s.draft[f] \in Text /\ s.saved[f] \in Entry
      BY ObjectColumns
    <3> HIDE DEF adopted
    <3> QED
      BY <3>1, <3>2 DEF Entries
  <2>2. \A f \in Field :
          \/ draft[f] = s.draft[f] /\ saved[f] = s.saved[f]
          \/ /\ f \notin Pending(s) /\ values[f].text # s.saved[f].text
             /\ draft[f] = values[f].text /\ saved[f] = values[f]
    BY DEF Adopts, Pending
  <2> HIDE DEF draft, saved, adopted
  <2>3. half \in Object /\ full \in Object
    BY <2>1, ObjectUpdates
  <2>4. full.draft = draft /\ full.saved = saved /\ SameControl(full, s)
        /\ full.shown = s.shown
    BY <2>1 DEF Object, SameControl
  <2> HIDE DEF half, full
  <2>5. s.shown.status \in Status
    BY DEF Object
  <2>6. /\ shown \in Object /\ SameText(shown, full)
        /\ shown.composing = full.composing /\ shown.timer = full.timer
        /\ shown.running = full.running /\ shown.disposed = full.disposed
        /\ shown.errorField = full.errorField /\ shown.external = full.external
        /\ ~full.disposed => /\ shown.shown.status = s.shown.status
                             /\ shown.shown.dirty <=> Dirty(full)
    BY <2>3, <2>5, PublishColumns
  <2>7. Dirty(shown) <=> Dirty(full)
    BY <2>6, SameDirty
  <2> HIDE DEF shown
  <2>8. \A f \in Field : KeepsField(shown, s, f) \/ AdoptsField(shown, s, values, f)
    BY <1>2, <2>2, <2>4, <2>6 DEF SameText, KeepsField, AdoptsField
  <2>9. SameControl(shown, s) /\ ~full.disposed
    BY <1>2, <2>4, <2>6 DEF SameControl, SameText
  <2>10. Honest(shown)
    BY <2>6, <2>7, <2>9 DEF Honest
  <2>11. Dirty(shown) <=> Dirty(s)
    <3>1. Pending(shown) = Pending(s)
      BY <2>8, <2>9, AdoptedPending DEF SameControl
    <3> QED
      BY <2>9, <3>1 DEF Dirty, SameControl
  <2>12. new = shown
    BY <1>0, <1>2
  <2> HIDE DEF new
  <2> QED
    BY <1>2, <2>4, <2>6, <2>8, <2>9, <2>10, <2>11, <2>12 DEF new
<1> QED
  BY <1>1, <1>2

(* The object at the end of a run, against the one the run ended with.     *)
Rested(new, s) ==
  /\ new \in Object /\ Coherent(new)
  /\ new.inFlight = None /\ new.external = None
  /\ new.uncertain = s.uncertain /\ new.composing = s.composing
  /\ new.timer = s.timer /\ new.disposed = s.disposed
  /\ \A f \in Field : \/ KeepsField(new, s, f)
                      \/ s.external # None /\ AdoptsField(new, s, s.external, f)
  /\ Pending(new) = Pending(s)

(* The end of a run. *)
LEMMA FinishColumns ==
  ASSUME NEW s \in Object, s.inFlight = None, s.timer => ~s.disposed /\ s.composing = {}
  PROVE  LET new == Finish(s)
         IN  /\ Rested(new, s) /\ (Honest(s) => Honest(new))
             /\ new.errorField = s.errorField /\ new.shown.status = s.shown.status
<1> DEFINE half == [s EXCEPT !.running = FALSE]
           idle == [half EXCEPT !.external = None]
           new  == Finish(s)
<1>1. half \in Object /\ idle \in Object
  BY ObjectUpdates
<1>2. /\ idle.draft = s.draft /\ idle.saved = s.saved /\ idle.uncertain = s.uncertain
      /\ idle.composing = s.composing /\ idle.timer = s.timer /\ idle.disposed = s.disposed
      /\ idle.inFlight = None /\ idle.external = None /\ idle.running = FALSE
      /\ idle.errorField = s.errorField /\ idle.shown = s.shown
  BY DEF Object
<1>3. new = IF s.external = None THEN idle ELSE Sync(idle, s.external)
  BY DEF Finish
<1> HIDE DEF half, idle
<1>4. SameText(idle, s)
  BY <1>2 DEF SameText
<1>5. Pending(idle) = Pending(s) /\ (Dirty(idle) <=> Dirty(s))
  BY <1>4, SameDirty
<1>6. Honest(s) => Honest(idle)
  BY <1>2, <1>5 DEF Honest
<1>7. CASE s.external = None
  BY <1>1, <1>2, <1>3, <1>5, <1>6, <1>7 DEF Rested, Coherent, KeepsField
<1>8. CASE s.external # None
  <2>1. s.external \in Entries
    BY <1>8, ObjectColumns
  <2>2. /\ new \in Object /\ SameControl(new, idle) /\ new.shown.status = idle.shown.status
        /\ \A f \in Field : KeepsField(new, idle, f) \/ AdoptsField(new, idle, s.external, f)
        /\ Honest(idle) => Honest(new)
    BY <1>1, <1>2, <1>3, <1>8, <2>1, SyncColumns
  <2> HIDE DEF new
  <2>3. Pending(new) = Pending(idle)
    BY <2>2, AdoptedPending DEF SameControl
  <2>4. \A f \in Field : KeepsField(new, s, f) \/ AdoptsField(new, s, s.external, f)
    BY <1>2, <1>5, <2>2 DEF KeepsField, AdoptsField
  <2>5. Rested(new, s)
    BY <1>2, <1>5, <1>8, <2>2, <2>3, <2>4 DEF Rested, Coherent, SameControl
  <2>6. new.errorField = s.errorField /\ new.shown.status = s.shown.status
    BY <1>2, <2>2 DEF SameControl
  <2> QED
    BY <1>6, <2>2, <2>5, <2>6 DEF new
<1> QED
  BY <1>7, <1>8

(* A run that ends with something published, and perhaps an error.         *)
LEMMA EndColumns ==
  ASSUME NEW s \in Object, s.inFlight = None, s.timer => ~s.disposed /\ s.composing = {},
         NEW status \in Status
  PROVE  LET new == Finish(Publish(s, status))
         IN  /\ Rested(new, s) /\ Honest(new) /\ new.errorField = s.errorField
             /\ ~s.disposed => new.shown.status = status
<1> DEFINE shown == Publish(s, status)
           new == Finish(shown)
<1>1. /\ shown \in Object /\ SameText(shown, s)
      /\ shown.composing = s.composing /\ shown.timer = s.timer
      /\ shown.disposed = s.disposed
      /\ shown.errorField = s.errorField /\ shown.external = s.external
      /\ ~s.disposed => shown.shown.status = status /\ (shown.shown.dirty <=> Dirty(s))
  BY PublishColumns
<1>2. Pending(shown) = Pending(s) /\ (Dirty(shown) <=> Dirty(s))
  BY <1>1, SameDirty
<1>3. Honest(shown)
  BY <1>1, <1>2 DEF Honest
<1> HIDE DEF shown
<1>4. Rested(new, shown) /\ Honest(new) /\ new.errorField = shown.errorField
      /\ new.shown.status = shown.shown.status
  BY <1>1, <1>3, FinishColumns DEF SameText
<1> HIDE DEF new
<1>5. Rested(new, s)
  BY <1>1, <1>2, <1>4 DEF Rested, SameText, KeepsField, AdoptsField
<1> QED
  BY <1>1, <1>4, <1>5 DEF new, shown

-----------------------------------------------------------------------------
(* Runs.                                                                   *)

(* A request leaves for a field with something to save.                    *)
Sends(new, s) ==
  /\ new \in Object /\ SoundObject(new)
  /\ new.draft = s.draft /\ new.saved = s.saved /\ new.uncertain = s.uncertain
  /\ new.composing = s.composing /\ new.timer = s.timer /\ new.disposed = s.disposed
  /\ new.external = s.external
  /\ \E f \in Pending(s) : f \in Field /\ new.inFlight = [field |-> f, text |-> s.draft[f]]

LEMMA FailColumns ==
  ASSUME NEW s \in Object, s.inFlight = None, s.timer => ~s.disposed /\ s.composing = {},
         NEW f \in Field
  PROVE  LET new == Fail(s, f)
         IN  Rested(new, s) /\ SoundObject(new)
<1> DEFINE marked == [s EXCEPT !.errorField = f]
           new == Finish(Publish(marked, "error"))
<1>1. marked \in Object
  BY ObjectUpdates
<1>2. /\ SameText(marked, s) /\ marked.inFlight = None
      /\ marked.composing = s.composing /\ marked.timer = s.timer
      /\ marked.disposed = s.disposed /\ marked.external = s.external
      /\ marked.errorField = f
  BY DEF Object, SameText
<1>3. Fail(s, f) = new
  BY DEF Fail
<1> HIDE DEF marked
<1>4. "error" \in Status
  BY DEF Status
<1>5. Rested(new, marked) /\ Honest(new) /\ new.errorField = f
      /\ (~s.disposed => new.shown.status = "error")
  BY <1>1, <1>2, <1>4, EndColumns
<1> HIDE DEF new
<1>6. Pending(marked) = Pending(s)
  BY <1>2, SameDirty
<1>7. Rested(new, s)
  BY <1>2, <1>5, <1>6 DEF Rested, SameText, KeepsField, AdoptsField
<1>8. Attended(new)
  BY <1>5, <1>7, NoneAssumption DEF Attended, Rested
<1> QED
  BY <1>3, <1>5, <1>7, <1>8 DEF SoundObject, Rested

(* The loop ends the run, or sends the next field. *)
LEMMA DrainColumns ==
  ASSUME NEW s \in Object, s.inFlight = None, s.timer => ~s.disposed /\ s.composing = {},
         s.running, Honest(s)
  PROVE  LET new == Drain(s)
         IN  (Rested(new, s) /\ SoundObject(new)) \/ Sends(new, s)
<1> DEFINE new == Drain(s)
           f   == NextField(s)
<1>0. Pending(s) # {} => f \in Pending(s)
  BY DEF NextField, Pending, Field
<1>00. f \in Field
  BY DEF NextField, Field
<1>1. CASE Halted(s)
  <2>1. new = Finish(s)
    BY <1>1 DEF Drain
  <2>2. Rested(new, s) /\ Honest(new)
    BY <2>1, FinishColumns
  <2> HIDE DEF new
  <2>3. Attended(new)
    BY <1>1, <2>2 DEF Halted, Attended, Rested
  <2> QED
    BY <2>2, <2>3 DEF SoundObject, Rested, new
<1>2. CASE ~Halted(s) /\ Pending(s) = {}
  <2>1. new = Finish(Publish(s, "saved")) /\ "saved" \in Status
    BY <1>2 DEF Drain, Status
  <2>2. Rested(new, s) /\ Honest(new)
    BY <2>1, EndColumns
  <2> HIDE DEF new
  <2>3. Attended(new)
    BY <1>2, <2>2 DEF Attended, Rested, Dirty
  <2> QED
    BY <2>2, <2>3 DEF SoundObject, Rested, new
<1>3. CASE ~Halted(s) /\ Pending(s) # {} /\ s.draft[f] \in TooLong
  <2>1. new = Fail(s, f)
    BY <1>3 DEF Drain
  <2> QED
    BY <1>00, <2>1, FailColumns
<1>4. CASE ~Halted(s) /\ Pending(s) # {} /\ s.draft[f] \notin TooLong
  <2> DEFINE request == [field |-> f, text |-> s.draft[f]]
             sent    == [s EXCEPT !.inFlight = request]
             shown   == Publish(sent, "saving")
  <2>1. new = shown
    BY <1>4 DEF Drain
  <2>2. request \in Request /\ request # None
    BY <1>00, ObjectColumns, NoneAssumption DEF Request
  <2> HIDE DEF request
  <2>3. sent \in Object
    BY <2>2, ObjectUpdates
  <2>4. /\ sent.draft = s.draft /\ sent.saved = s.saved /\ sent.uncertain = s.uncertain
        /\ sent.composing = s.composing /\ sent.timer = s.timer
        /\ sent.disposed = s.disposed /\ sent.running = s.running
        /\ sent.external = s.external /\ sent.inFlight = request
    BY DEF Object
  <2> HIDE DEF sent
  <2>5. "saving" \in Status /\ ~s.disposed
    BY <1>4 DEF Status, Halted
  <2>6. /\ shown \in Object /\ SameText(shown, sent)
        /\ shown.composing = sent.composing /\ shown.timer = sent.timer
        /\ shown.running = sent.running /\ shown.disposed = sent.disposed
        /\ shown.external = sent.external
        /\ shown.shown.dirty <=> Dirty(sent)
    BY <2>3, <2>4, <2>5, PublishColumns
  <2>7. Dirty(sent)
    BY <2>2, <2>4 DEF Dirty
  <2> HIDE DEF shown
  <2>8. SoundObject(shown)
    BY <2>2, <2>4, <2>6, <2>7 DEF SoundObject, Coherent, Honest, Attended, SameText
  <2>9. Sends(shown, s)
    <3>1. f \in Pending(s) /\ shown.inFlight = [field |-> f, text |-> s.draft[f]]
      BY <1>0, <1>4, <2>4, <2>6 DEF SameText, request
    <3> HIDE DEF f
    <3> QED
      BY <1>00, <2>4, <2>6, <2>8, <3>1 DEF Sends, SameText
  <2> QED
    BY <2>1, <2>9
<1> QED
  BY <1>1, <1>2, <1>3, <1>4

(* An object that asks to be saved, while nothing is on its way. *)
LEMMA FlushSound ==
  ASSUME NEW s, SoundObject(s)
  PROVE  LET new == Flush(s)
         IN  /\ SoundObject(new)
             /\ new.draft = s.draft /\ new.saved = s.saved /\ new.uncertain = s.uncertain
             /\ new.disposed = s.disposed /\ new.external = s.external
             /\ \/ new.inFlight = s.inFlight
                \/ /\ s.inFlight = None
                   /\ \E f \in Pending(s) :
                        f \in Field /\ new.inFlight = [field |-> f, text |-> s.draft[f]]
<1> DEFINE stopped == [s EXCEPT !.timer = FALSE]
           new == Flush(s)
<1>0. s \in Object /\ Coherent(s) /\ Honest(s) /\ Attended(s)
  BY DEF SoundObject
<1>1. /\ stopped \in Object /\ SameText(stopped, s)
      /\ stopped.composing = s.composing /\ ~stopped.timer
      /\ stopped.running = s.running /\ stopped.disposed = s.disposed
      /\ stopped.errorField = s.errorField /\ stopped.external = s.external
      /\ stopped.shown = s.shown
  BY <1>0 DEF Object, SameText
<1>2. Pending(stopped) = Pending(s) /\ (Dirty(stopped) <=> Dirty(s))
  BY <1>1, SameDirty
<1>3. Honest(stopped)
  BY <1>0, <1>1, <1>2 DEF Honest
<1>4. CASE Halted(s) \/ s.running
  <2>1. new = stopped
    BY <1>4 DEF Flush
  <2> HIDE DEF stopped
  <2>2. Coherent(stopped) /\ Attended(stopped)
    BY <1>0, <1>1, <1>4 DEF Coherent, Attended, Halted, SameText
  <2> QED
    BY <1>1, <1>3, <2>1, <2>2 DEF SoundObject, SameText
<1>5. CASE ~(Halted(s) \/ s.running) /\ ~Dirty(s)
  <2> DEFINE shown == Publish(stopped, "saved")
  <2>1. new = shown /\ "saved" \in Status
    BY <1>5 DEF Flush, Status
  <2> HIDE DEF stopped
  <2>2. /\ shown \in Object /\ SameText(shown, stopped)
        /\ shown.composing = stopped.composing /\ shown.timer = stopped.timer
        /\ shown.running = stopped.running /\ shown.disposed = stopped.disposed
        /\ shown.errorField = stopped.errorField /\ shown.external = stopped.external
    BY <1>1, <2>1, PublishColumns
  <2>3. ~Dirty(shown)
    BY <1>2, <1>5, <2>2, SameDirty
  <2> HIDE DEF shown
  <2>4. SoundObject(shown)
    BY <1>0, <1>1, <2>2, <2>3 DEF SoundObject, Coherent, Honest, Attended, SameText
  <2> QED
    BY <1>1, <2>1, <2>2, <2>4 DEF SameText
<1>6. CASE ~(Halted(s) \/ s.running) /\ Dirty(s)
  <2> DEFINE cleared == [stopped EXCEPT !.errorField = None]
             begun == [cleared EXCEPT !.running = TRUE]
  <2>1. new = Drain(begun)
    BY <1>6 DEF Flush
  <2> HIDE DEF stopped
  <2>2. cleared \in Object /\ begun \in Object
    BY <1>1, ObjectUpdates
  <2>3. /\ SameText(begun, stopped) /\ begun.running
        /\ begun.composing = stopped.composing /\ ~begun.timer
        /\ begun.disposed = stopped.disposed /\ begun.external = stopped.external
        /\ begun.shown = stopped.shown
    BY <1>1 DEF Object, SameText
  <2> HIDE DEF begun, cleared
  <2>4. Pending(begun) = Pending(stopped) /\ (Dirty(begun) <=> Dirty(stopped))
    BY <2>3, SameDirty
  <2>5. Honest(begun)
    BY <1>3, <2>3, <2>4 DEF Honest
  <2>6. s.inFlight = None /\ s.external = None
    BY <1>0, <1>6 DEF Coherent
  <2>7. begun.inFlight = None
    BY <1>1, <2>3, <2>6 DEF SameText
  <2>8. (Rested(new, begun) /\ SoundObject(new)) \/ Sends(new, begun)
    BY <2>1, <2>2, <2>3, <2>5, <2>7, DrainColumns
  <2> HIDE DEF new
  <2>9. CASE Rested(new, begun) /\ SoundObject(new)
    <3>1. \A f \in Field : KeepsField(new, begun, f)
      BY <1>1, <2>3, <2>6, <2>9 DEF Rested
    <3>2. /\ new.draft \in [Field -> Text] /\ new.saved \in Entries
          /\ begun.draft \in [Field -> Text] /\ begun.saved \in Entries
      BY <2>2, <2>9, ObjectColumns DEF Rested
    <3>3. new.draft = begun.draft /\ new.saved = begun.saved
      BY <3>1, <3>2 DEF KeepsField, Entries
    <3> QED
      BY <1>1, <2>3, <2>6, <2>9, <3>3 DEF Rested, SameText, new
  <2>10. CASE Sends(new, begun)
    BY <1>1, <1>2, <2>3, <2>4, <2>6, <2>10 DEF Sends, SameText, new
  <2> QED
    BY <2>8, <2>9, <2>10
<1> QED
  BY <1>4, <1>5, <1>6

(* The confirmed object before the run goes on. *)
LEMMA ConfirmColumns ==
  ASSUME NEW s, SoundObject(s), s.inFlight # None, NEW entry \in Entry,
         NEW c, c = Confirm(s, entry)
  PROVE  LET f == s.inFlight.field
         IN  /\ c \in Object /\ c.inFlight = None /\ c.running /\ Honest(c)
             /\ c.timer = s.timer /\ c.composing = s.composing /\ c.disposed = s.disposed
             /\ f \in Field /\ c.uncertain = s.uncertain \ {f}
             /\ c.saved[f] = entry
             /\ c.draft[f] = IF s.draft[f] = s.inFlight.text THEN entry.text ELSE s.draft[f]
             /\ \A g \in Field \ {f} : KeepsField(c, s, g)
             /\ s.external = None => c.external = None
             /\ s.external # None =>
                  /\ c.external # None /\ c.external[f] = entry
                  /\ \A g \in Field \ {f} : c.external[g] = s.external[g]
<1> DEFINE f == s.inFlight.field
           external == IF s.external = None THEN None ELSE [s.external EXCEPT ![f] = entry]
           saved == [s.saved EXCEPT ![f] = entry]
           draft == [s.draft EXCEPT ![f] = IF @ = s.inFlight.text THEN entry.text ELSE @]
<1>0. s \in Object /\ Coherent(s) /\ Honest(s)
  BY DEF SoundObject
<1>1. f \in Field /\ s.inFlight.text \in Text
  BY <1>0, ObjectColumns DEF Request
<1> HIDE DEF f
<1>2. external \in Entries \cup {None} /\ saved \in Entries /\ draft \in [Field -> Text]
  <2>1. entry.text \in Text /\ s.draft[f] \in Text
    BY <1>0, <1>1, ObjectColumns DEF Entry
  <2> QED
    BY <1>0, <1>1, <2>1, ObjectColumns DEF Entries
<1>3. s.uncertain \ {f} \in SUBSET Field
  BY <1>0, ObjectColumns
<1> DEFINE c1 == [s EXCEPT !.inFlight = None]
           c2 == [c1 EXCEPT !.uncertain = s.uncertain \ {f}]
           c3 == [c2 EXCEPT !.external = external]
           c4 == [c3 EXCEPT !.saved = saved]
           c5 == [c4 EXCEPT !.draft = draft]
<1>9. /\ saved[f] = entry
      /\ draft[f] = IF s.draft[f] = s.inFlight.text THEN entry.text ELSE s.draft[f]
      /\ \A g \in Field \ {f} : saved[g] = s.saved[g] /\ draft[g] = s.draft[g]
  BY <1>0, <1>1, ObjectColumns DEF Entries
<1>10. /\ s.external = None => external = None
       /\ s.external # None => /\ external # None /\ external[f] = entry
                               /\ \A g \in Field \ {f} : external[g] = s.external[g]
  <2>1. CASE s.external = None
    BY <2>1
  <2>2. CASE s.external # None
    <3>1. s.external \in Entries
      BY <1>0, <2>2, ObjectColumns
    <3>2. external = [s.external EXCEPT ![f] = entry]
      BY <2>2
    <3>3. external \in Entries
      BY <3>1, <3>2 DEF Entries
    <3> HIDE DEF external
    <3> QED
      BY <1>1, <2>2, <3>1, <3>2, <3>3, NoneAssumption DEF Entries
  <2> QED
    BY <2>1, <2>2
<1> HIDE DEF external, saved, draft
<1>4. c5 \in Object
  BY <1>0, <1>2, <1>3, ObjectUpdates, Zenon
<1>5. /\ c5.inFlight = None /\ c5.uncertain = s.uncertain \ {f} /\ c5.external = external
      /\ c5.saved = saved /\ c5.draft = draft /\ c5.timer = s.timer
      /\ c5.composing = s.composing /\ c5.disposed = s.disposed /\ c5.running = s.running
      /\ c5.shown = s.shown
  BY <1>0 DEF Object
<1>6. c = c5
  BY <1>0 DEF Confirm, Object, external, saved, draft, f
<1> HIDE DEF c5
<1>7. s.running /\ (s.disposed \/ s.shown.dirty)
  BY <1>0 DEF Coherent, Honest, Dirty
<1>8. Honest(c)
  BY <1>5, <1>6, <1>7 DEF Honest
<1> QED
  BY <1>1, <1>9, <1>10, <1>4, <1>5, <1>6, <1>7, <1>8 DEF KeepsField, f

(* The answer settles its field, and the run goes on. *)
LEMMA AnswerSound ==
  ASSUME NEW s, SoundObject(s), s.inFlight # None, NEW entry \in Entry
  PROVE  LET c == Confirm(s, entry)
             new == Drain(c)
         IN  SoundObject(new) /\ (Rested(new, c) \/ Sends(new, c))
<1> DEFINE c == Confirm(s, entry)
<1>1. c \in Object /\ c.inFlight = None /\ c.running /\ Honest(c)
      /\ c.timer = s.timer /\ c.composing = s.composing /\ c.disposed = s.disposed
  BY ConfirmColumns
<1>2. c.timer => ~c.disposed /\ c.composing = {}
  BY <1>1 DEF SoundObject, Coherent
<1> HIDE DEF c
<1>3. LET new == Drain(c)
      IN  (Rested(new, c) /\ SoundObject(new)) \/ Sends(new, c)
  BY <1>1, <1>2, DrainColumns
<1> QED
  BY <1>3 DEF Sends, c

(* Without an answer the run ends with an error, the field is uncertain.   *)
LEMMA UnconfirmedSound ==
  ASSUME NEW s, SoundObject(s), s.inFlight # None
  PROVE  LET f    == s.inFlight.field
             open == [s EXCEPT !.inFlight = None, !.uncertain = @ \cup {f}]
             new  == Unconfirmed(s)
         IN  /\ f \in Field /\ Rested(new, open) /\ SoundObject(new)
             /\ open.draft = s.draft /\ open.saved = s.saved
             /\ open.uncertain = s.uncertain \cup {f} /\ open.external = s.external
             /\ open.disposed = s.disposed
<1> DEFINE f    == s.inFlight.field
           half == [s EXCEPT !.inFlight = None]
           open == [half EXCEPT !.uncertain = s.uncertain \cup {f}]
<1>0. s \in Object /\ Coherent(s)
  BY DEF SoundObject
<1>1. f \in Field
  BY <1>0, ObjectColumns DEF Request
<1> HIDE DEF f
<1>2. open \in Object
  <2>1. s.uncertain \cup {f} \in SUBSET Field
    BY <1>0, <1>1, ObjectColumns
  <2> QED
    BY <1>0, <2>1, ObjectUpdates, Zenon
<1>3. /\ open.inFlight = None /\ open.draft = s.draft /\ open.saved = s.saved
      /\ open.uncertain = s.uncertain \cup {f} /\ open.external = s.external
      /\ open.disposed = s.disposed /\ open.timer = s.timer /\ open.composing = s.composing
  BY <1>0 DEF Object
<1>4. open = [s EXCEPT !.inFlight = None, !.uncertain = @ \cup {f}]
  BY <1>0 DEF Object
<1>5. Unconfirmed(s) = Fail(open, f)
  BY <1>4 DEF Unconfirmed, f
<1>6. open.timer => ~open.disposed /\ open.composing = {}
  BY <1>0, <1>3 DEF Coherent
<1> HIDE DEF open
<1>7. Rested(Fail(open, f), open) /\ SoundObject(Fail(open, f))
  BY <1>1, <1>2, <1>3, <1>6, FailColumns
<1> QED
  BY <1>1, <1>3, <1>4, <1>5, <1>7 DEF f

-----------------------------------------------------------------------------
(* What the page, the requests and the server know of each other.          *)

Columns == [Field -> [text : Text, ver : 0 .. MaxVersion, by : Writer]]

(* The entry is a state the column has or had.                             *)
Known(columns, e, f) ==
  /\ e.ver <= columns[f].ver
  /\ e.ver = columns[f].ver => e.text = columns[f].text

(* What is shown as saved is no newer than the board's entry, and that no  *)
(* newer than the state of the page.                                       *)
Chain ==
  \A f \in Field :
    /\ Known(server, store.saved[f], f)
    /\ Known(server, latest[f], f)
    /\ Known(server, detail[f], f)
    /\ store.saved[f].ver <= latest[f].ver
    /\ latest[f].ver <= detail[f].ver

(* Values put aside during a run are no older than what was saved since.   *)
External ==
  store.external # None =>
    \A f \in Field : /\ Known(server, store.external[f], f)
                     /\ store.saved[f].ver <= store.external[f].ver
                     /\ store.external[f].ver <= latest[f].ver

(* The refresh on its way is no older than what the page has.              *)
Reading ==
  reading # None =>
    \A f \in Field : Known(server, reading[f], f) /\ detail[f].ver <= reading[f].ver

(* The answer on its way is the column's state, unless another one wrote it. *)
Replied ==
  reply # None =>
    LET f == store.inFlight.field
    IN  /\ Known(server, reply, f)
        /\ store.saved[f].ver <= reply.ver
        /\ server[f].by = "page" => reply.ver = server[f].ver

(* A write of this page is what is saved, or is still to be heard of.      *)
Stored ==
  \A f \in Field :
    server[f].by = "page" =>
      \/ store.saved[f].ver = server[f].ver
      \/ f \in store.uncertain
      \/ reply # None /\ store.inFlight.field = f

Traced == Chain /\ External /\ Reading /\ Replied /\ Stored

(* What the user entered and nobody confirmed is shown and still to be saved. *)
Entered ==
  \A f \in Field :
    typed[f] # None => /\ ~Settled(store, f)
                       /\ store.disposed \/ store.draft[f] = typed[f]

IInv == TypeOK /\ SoundObject(store) /\ Entered /\ Traced

LEMMA EntryVersions ==
  /\ \A e \in Entry : e.ver \in Nat /\ e.text \in Text
  /\ \A es \in Entries, f \in Field : es[f] \in Entry
  /\ \A columns \in Columns, f \in Field : columns[f].ver \in Nat /\ columns[f].text \in Text
BY TextAssumption DEF Entry, Entries, Columns

(* A step that leaves the server and the page's entries alone, and of the  *)
(* object what was saved.                                                  *)
LEMMA TracedStays ==
  ASSUME TypeOK, Traced, UNCHANGED <<Wire, Page>>,
         store'.saved = store.saved, store'.uncertain = store.uncertain,
         store'.external = store.external,
         store'.inFlight = store.inFlight \/ store.inFlight = None
  PROVE  Traced'
<1>1. UNCHANGED <<server, reply, late, reading, detail, latest>>
  BY DEF Wire, Page
<1>2. Chain'
  BY <1>1 DEF Traced, Chain, Known
<1>3. External'
  BY <1>1 DEF Traced, External, Known
<1>4. Reading'
  BY <1>1 DEF Traced, Reading, Known
<1>5. reply # None => store'.inFlight = store.inFlight
  BY DEF TypeOK
<1>6. Replied'
  BY <1>1, <1>5 DEF Traced, Replied, Known
<1>7. Stored'
  BY <1>1, <1>5 DEF Traced, Stored
<1> QED
  BY <1>2, <1>3, <1>4, <1>6, <1>7 DEF Traced

(* A write of one column: what was known of the server stays known.        *)
LEMMA WriteKnown ==
  ASSUME server \in Columns, NEW f \in Field, NEW t \in Text, NEW by \in Writer, Write(f, t, by)
  PROVE  /\ server' \in Columns
         /\ \A g \in Field, e \in Entry : Known(server, e, g) => Known(server', e, g)
         /\ \A g \in Field \ {f} : server'[g] = server[g]
         /\ server'[f].ver = server[f].ver + 1 /\ server'[f].by = by
<1> DEFINE new == Written(f, t, by)
<1>1. server' = [server EXCEPT ![f] = new] /\ server[f].ver < MaxVersion
  BY DEF Write
<1>2. new.ver = server[f].ver + 1 /\ new.by = by
  BY DEF Written
<1>3. new.text \in Text
  BY TextAssumption DEF Written
<1>4. server[f].ver \in 0 .. MaxVersion
  BY DEF Columns
<1>5. new \in [text : Text, ver : 0 .. MaxVersion, by : Writer]
  <2>1. new.ver \in 0 .. MaxVersion
    BY <1>1, <1>2, <1>4, TextAssumption
  <2>2. new = [text |-> new.text, ver |-> new.ver, by |-> new.by]
    BY DEF Written
  <2> HIDE DEF new
  <2> QED
    BY <1>2, <1>3, <2>1, <2>2
<1> HIDE DEF new
<1>6. server' \in Columns /\ server'[f] = new /\ \A g \in Field \ {f} : server'[g] = server[g]
  BY <1>1, <1>5 DEF Columns
<1>7. ASSUME NEW g \in Field, NEW e \in Entry, Known(server, e, g)
      PROVE  Known(server', e, g)
  <2>1. e.ver \in Nat /\ server[g].ver \in Nat
    BY EntryVersions
  <2>2. CASE g = f
    <3>1. e.ver < server'[g].ver
      BY <1>2, <1>6, <1>7, <2>1, <2>2 DEF Known
    <3> QED
      BY <1>2, <1>6, <2>1, <2>2, <3>1 DEF Known
  <2>3. CASE g # f
    BY <1>6, <1>7, <2>3 DEF Known
  <2> QED
    BY <2>2, <2>3
<1> QED
  BY <1>2, <1>6, <1>7

(* A write of another editor, or of a request the page gave up.            *)
LEMMA ForeignWrite ==
  ASSUME IInv, NEW f \in Field, NEW t \in Text, NEW by \in Writer \ {"page"}, Write(f, t, by),
         UNCHANGED <<store, reply, Page>>
  PROVE  server' \in Columns /\ Traced'
<1>1. server \in Columns /\ UNCHANGED <<reading, detail, latest>>
  BY DEF IInv, TypeOK, Columns, Page
<1>2. /\ server' \in Columns
      /\ \A g \in Field, e \in Entry : Known(server, e, g) => Known(server', e, g)
      /\ \A g \in Field \ {f} : server'[g] = server[g]
      /\ server'[f].by = by
  BY <1>1, WriteKnown
<1>3. /\ \A g \in Field : /\ store.saved[g] \in Entry /\ latest[g] \in Entry
                          /\ detail[g] \in Entry
                          /\ store.external # None => store.external[g] \in Entry
                          /\ reading # None => reading[g] \in Entry
      /\ reply # None => reply \in Entry /\ store.inFlight.field \in Field
  <2>1. /\ store.saved \in Entries /\ latest \in Entries /\ detail \in Entries
        /\ store.external \in Entries \cup {None} /\ reading \in Entries \cup {None}
        /\ store.inFlight \in Request \cup {None} /\ reply \in Entry \cup {None}
        /\ reply # None => store.inFlight # None
    BY ObjectColumns DEF IInv, TypeOK
  <2> QED
    BY <2>1, EntryVersions DEF Request
<1>4. Traced
  BY DEF IInv
<1>5. Chain'
  BY <1>1, <1>2, <1>3, <1>4 DEF Traced, Chain
<1>6. External'
  BY <1>1, <1>2, <1>3, <1>4 DEF Traced, External
<1>7. Reading'
  BY <1>1, <1>2, <1>3, <1>4 DEF Traced, Reading
<1>8. Replied'
  BY <1>1, <1>2, <1>3, <1>4 DEF Traced, Replied
<1>9. Stored'
  BY <1>1, <1>2, <1>3, <1>4 DEF Traced, Stored
<1> QED
  BY <1>2, <1>5, <1>6, <1>7, <1>8, <1>9 DEF Traced

(* The server carries the request out. *)
LEMMA ApplyStep ==
  ASSUME IInv, Apply
  PROVE  IInv' /\ store'.saved = store.saved
<1> DEFINE f == store.inFlight.field
<1>1. /\ store.inFlight # None /\ reply = None /\ Write(f, store.inFlight.text, "page")
      /\ reply' = [text |-> server'[f].text, ver |-> server'[f].ver]
      /\ UNCHANGED <<late, store, reading, detail, latest, props, typed, events>>
  BY DEF Apply, Page
<1>2. /\ store.saved \in Entries /\ latest \in Entries /\ detail \in Entries
      /\ store.external \in Entries \cup {None} /\ reading \in Entries \cup {None}
      /\ store.inFlight \in Request
  BY <1>1, ObjectColumns DEF IInv, TypeOK
<1>3. f \in Field /\ store.inFlight.text \in Text
  BY <1>2 DEF Request
<1> HIDE DEF f
<1>4. server \in Columns /\ "page" \in Writer
  BY DEF IInv, TypeOK, Columns, Writer
<1>5. /\ server' \in Columns
      /\ \A g \in Field, e \in Entry : Known(server, e, g) => Known(server', e, g)
      /\ \A g \in Field \ {f} : server'[g] = server[g]
      /\ server'[f].ver = server[f].ver + 1
  BY <1>1, <1>3, <1>4, WriteKnown
<1>6. /\ reply' \in Entry /\ reply'.text = server'[f].text /\ reply'.ver = server'[f].ver
  BY <1>1, <1>3, <1>5 DEF Columns, Entry
<1>7. /\ \A g \in Field : /\ store.saved[g] \in Entry /\ latest[g] \in Entry
                          /\ detail[g] \in Entry
                          /\ store.external # None => store.external[g] \in Entry
                          /\ reading # None => reading[g] \in Entry
  BY <1>2, EntryVersions
<1>8. Traced
  BY DEF IInv
<1>9. Chain'
  BY <1>1, <1>5, <1>7, <1>8 DEF Traced, Chain
<1>10. External'
  BY <1>1, <1>5, <1>7, <1>8 DEF Traced, External
<1>11. Reading'
  BY <1>1, <1>5, <1>7, <1>8 DEF Traced, Reading
<1>12. Replied'
  <2>1. store.saved[f].ver \in Nat /\ server'[f].ver \in Nat
    BY <1>3, <1>5, <1>7, EntryVersions
  <2>2. Known(server', store.saved[f], f)
    BY <1>3, <1>5, <1>7, <1>8 DEF Traced, Chain
  <2>3. Known(server', reply', f) /\ store.saved[f].ver <= reply'.ver
    BY <1>6, <2>1, <2>2 DEF Known
  <2> QED
    BY <1>1, <1>6, <2>3 DEF Replied, f
<1>13. Stored'
  <2>1. reply' # None
    BY <1>6, NoneAssumption
  <2> QED
    BY <1>1, <1>5, <1>8, <2>1 DEF Traced, Stored, f
<1>14. TypeOK'
  BY <1>1, <1>5, <1>6 DEF IInv, TypeOK, Columns
<1> QED
  BY <1>1, <1>9, <1>10, <1>11, <1>12, <1>13, <1>14 DEF IInv, Traced, Entered

(* The user enters a text, with or without the end of a composition.       *)
LEMMA EditStep ==
  ASSUME IInv, NEW f \in Field, NEW t \in Text, NEW s \in Object, Edit(f, t, s),
         SameText(s, store), s.external = store.external,
         s.running = store.running, s.disposed = store.disposed
  PROVE  IInv' /\ store'.saved = store.saved
<1>1. /\ ~store.disposed /\ events < MaxEvents /\ events' = events + 1
      /\ store' = Change(s, f, t)
      /\ typed' = Unsettled([typed EXCEPT ![f] = t], store')
      /\ UNCHANGED <<Wire, Page>>
  BY DEF Edit, Counted
<1>2. s.inFlight # None <=> s.running
  BY DEF IInv, SoundObject, Coherent, SameText
<1>3. s.external # None => s.running
  BY DEF IInv, SoundObject, Coherent, SameText
<1>4. /\ SoundObject(store')
      /\ store'.draft = [store.draft EXCEPT ![f] = t] /\ store'.saved = store.saved
      /\ store'.uncertain = store.uncertain /\ store'.inFlight = store.inFlight
      /\ store'.external = store.external /\ ~store'.disposed
  BY <1>1, <1>2, <1>3, ChangeSound DEF SameText
<1>5. Traced'
  BY <1>1, <1>4, TracedStays DEF IInv
<1>6. typed \in [Field -> Text \cup {None}] /\ store.draft \in [Field -> Text]
  BY ObjectColumns DEF IInv, TypeOK
<1>7. \A g \in Field :
        typed'[g] = IF Settled(store', g) THEN None ELSE (IF g = f THEN t ELSE typed[g])
  BY <1>1, <1>6 DEF Unsettled
<1>8. Entered'
  BY <1>4, <1>6, <1>7, <1>1 DEF IInv, Entered
<1>9. typed' \in [Field -> Text \cup {None}]
  BY <1>1, <1>6 DEF Unsettled
<1>10. events' \in 0 .. MaxEvents
  BY <1>1, TextAssumption DEF IInv, TypeOK
<1>11. TypeOK'
  BY <1>1, <1>4, <1>9, <1>10 DEF IInv, TypeOK, SoundObject, Wire, Page
<1> QED
  BY <1>4, <1>5, <1>8, <1>11 DEF IInv

LEMMA TypeStep ==
  ASSUME IInv, NEW f \in Field, NEW t \in Text, Type(f, t)
  PROVE  IInv' /\ store'.saved = store.saved
BY EditStep DEF Type, IInv, TypeOK, SameText

LEMMA ComposeEndStep ==
  ASSUME IInv, NEW f \in Field, NEW t \in Text, ComposeEnd(f, t)
  PROVE  IInv' /\ store'.saved = store.saved
<1> DEFINE half == [store EXCEPT !.composing = {}]
           s    == [half EXCEPT !.timer = FALSE]
<1>1. store \in Object
  BY DEF IInv, TypeOK
<1>2. s = [store EXCEPT !.composing = {}, !.timer = FALSE]
  BY <1>1 DEF Object
<1>3. Edit(f, t, s)
  BY <1>2 DEF ComposeEnd
<1>4. s \in Object
  BY <1>1, ObjectUpdates, Zenon
<1>5. /\ SameText(s, store) /\ s.external = store.external
      /\ s.running = store.running /\ s.disposed = store.disposed
  BY <1>1 DEF Object, SameText
<1> HIDE DEF s
<1> QED
  BY <1>3, <1>4, <1>5, EditStep

(* A step of the object that changes none of its texts and nothing else.   *)
LEMMA QuietStep ==
  ASSUME IInv, SoundObject(store'), store'.draft = store.draft, store'.saved = store.saved,
         store'.uncertain = store.uncertain, store'.external = store.external,
         store.disposed => store'.disposed,
         \/ store'.inFlight = store.inFlight
         \/ /\ store.inFlight = None
            /\ \E f \in Pending(store) : store'.inFlight = [field |-> f, text |-> store.draft[f]],
         UNCHANGED <<Wire, Page, typed, events>>
  PROVE  IInv' /\ store'.saved = store.saved
<1>1. Traced'
  BY TracedStays DEF IInv
<1>2. Pending(store') = Pending(store)
  BY DEF Pending
<1>3. \A f \in Field : ~Settled(store, f) => ~Settled(store', f)
  BY <1>2 DEF Settled
<1>4. Entered'
  BY <1>3 DEF IInv, Entered
<1>5. reply # None => store'.inFlight # None
  BY DEF IInv, TypeOK
<1>6. TypeOK'
  BY <1>5 DEF IInv, TypeOK, SoundObject, Wire, Page
<1> QED
  BY <1>1, <1>4, <1>6 DEF IInv

LEMMA ComposeStartStep ==
  ASSUME IInv, NEW f \in Field, ComposeStart(f)
  PROVE  IInv' /\ store'.saved = store.saved
<1> DEFINE half == [store EXCEPT !.composing = {f}]
           s    == [half EXCEPT !.timer = FALSE]
<1>1. store \in Object /\ Coherent(store) /\ Honest(store) /\ Attended(store)
  BY DEF IInv, SoundObject
<1>2. s = [store EXCEPT !.composing = {f}, !.timer = FALSE]
  BY <1>1 DEF Object
<1>3. store' = s /\ UNCHANGED <<Wire, Page, typed, events>>
  BY <1>2 DEF ComposeStart
<1>4. s \in Object
  <2>1. {f} \in SUBSET Field
    OBVIOUS
  <2> QED
    BY <1>1, <2>1, ObjectUpdates, Zenon
<1>5. /\ SameText(s, store) /\ s.external = store.external
      /\ s.running = store.running /\ s.disposed = store.disposed
      /\ s.composing = {f} /\ ~s.timer /\ s.shown = store.shown
  BY <1>1 DEF Object, SameText
<1> HIDE DEF s
<1>6. Dirty(s) <=> Dirty(store)
  BY <1>5, SameDirty
<1>7. SoundObject(s)
  BY <1>1, <1>4, <1>5, <1>6 DEF SoundObject, Coherent, Honest, Attended, SameText
<1> QED
  BY <1>3, <1>5, <1>7, QuietStep DEF SameText

LEMMA FlushStep ==
  ASSUME IInv, store' = Flush(store), UNCHANGED <<Wire, Page, typed, events>>
  PROVE  IInv' /\ store'.saved = store.saved
<1>1. SoundObject(store)
  BY DEF IInv
<1>2. /\ SoundObject(store')
      /\ store'.draft = store.draft /\ store'.saved = store.saved
      /\ store'.uncertain = store.uncertain
      /\ store'.disposed = store.disposed /\ store'.external = store.external
      /\ \/ store'.inFlight = store.inFlight
         \/ /\ store.inFlight = None
            /\ \E f \in Pending(store) :
                 f \in Field /\ store'.inFlight = [field |-> f, text |-> store.draft[f]]
  BY <1>1, FlushSound
<1> QED
  BY <1>2, QuietStep

LEMMA DisposeStep ==
  ASSUME IInv, Dispose
  PROVE  IInv' /\ store'.saved = store.saved
<1> DEFINE shown == [store.shown EXCEPT !.dirty = FALSE]
           gone  == [store EXCEPT !.disposed = TRUE]
           still == [gone EXCEPT !.timer = FALSE]
           s     == [still EXCEPT !.shown = shown]
<1>1. store \in Object /\ Coherent(store)
  BY DEF IInv, SoundObject
<1>2. s = [store EXCEPT !.disposed = TRUE, !.timer = FALSE, !.shown.dirty = FALSE]
  BY <1>1 DEF Object
<1>3. store' = s /\ UNCHANGED <<Wire, Page, typed, events>>
  BY <1>2 DEF Dispose
<1>4. shown \in [status : Status, dirty : BOOLEAN]
  BY <1>1, ObjectColumns
<1> HIDE DEF shown
<1>5. s \in Object
  BY <1>1, <1>4, ObjectUpdates, Zenon
<1>6. /\ SameText(s, store) /\ s.external = store.external
      /\ s.running = store.running /\ s.disposed /\ ~s.timer
  BY <1>1 DEF Object, SameText
<1> HIDE DEF s
<1>7. SoundObject(s)
  BY <1>1, <1>5, <1>6 DEF SoundObject, Coherent, Honest, Attended, SameText
<1> QED
  BY <1>3, <1>6, <1>7, QuietStep DEF SameText

LEMMA LateWriteStep ==
  ASSUME IInv, NEW r \in late, LateWrite(r)
  PROVE  IInv' /\ store'.saved = store.saved
<1>1. r.field \in Field /\ r.text \in Text /\ "late" \in Writer \ {"page"}
  BY DEF IInv, TypeOK, Request, Writer
<1>2. /\ Write(r.field, r.text, "late") /\ late' = late \ {r}
      /\ events < MaxEvents /\ events' = events + 1
      /\ UNCHANGED <<store, reply, Page, typed>>
  BY DEF LateWrite, Counted
<1>3. server' \in Columns /\ Traced'
  BY <1>1, <1>2, ForeignWrite
<1>4. events' \in 0 .. MaxEvents
  BY <1>2, TextAssumption DEF IInv, TypeOK
<1>5. TypeOK'
  BY <1>2, <1>3, <1>4 DEF IInv, TypeOK, Columns, Page
<1> QED
  BY <1>2, <1>3, <1>5 DEF IInv, Entered

LEMMA OtherWritesStep ==
  ASSUME IInv, NEW f \in Field, NEW t \in Text, OtherWrites(f, t)
  PROVE  IInv' /\ store'.saved = store.saved
<1>1. "other" \in Writer \ {"page"}
  BY DEF Writer
<1>2. /\ Write(f, t, "other") /\ events < MaxEvents /\ events' = events + 1
      /\ UNCHANGED <<store, reply, late, Page, typed>>
  BY DEF OtherWrites, Counted
<1>3. server' \in Columns /\ Traced'
  BY <1>1, <1>2, ForeignWrite
<1>4. events' \in 0 .. MaxEvents
  BY <1>2, TextAssumption DEF IInv, TypeOK
<1>5. TypeOK'
  BY <1>2, <1>3, <1>4 DEF IInv, TypeOK, Columns, Page
<1> QED
  BY <1>2, <1>3, <1>5 DEF IInv, Entered

LEMMA RefreshStep ==
  ASSUME IInv, Refresh
  PROVE  IInv' /\ store'.saved = store.saved
<1>1. /\ reading' = [f \in Field |-> [text |-> server[f].text, ver |-> server[f].ver]]
      /\ UNCHANGED <<store, server, reply, late, detail, latest, props, typed, events>>
  BY DEF Refresh, Wire
<1>2. reading' \in Entries
  BY <1>1 DEF IInv, TypeOK, Entries, Entry
<1>3. \A f \in Field : /\ reading'[f].ver = server[f].ver /\ reading'[f].text = server[f].text
                       /\ server[f].ver \in Nat /\ detail[f].ver <= server[f].ver
  BY <1>1, EntryVersions DEF IInv, TypeOK, Columns, Traced, Chain, Known
<1>4. Reading'
  BY <1>1, <1>3 DEF Reading, Known
<1>5. TypeOK'
  BY <1>1, <1>2 DEF IInv, TypeOK
<1> QED
  BY <1>1, <1>4, <1>5 DEF IInv, Entered, Traced, Chain, External, Replied, Stored

LEMMA ArriveStep ==
  ASSUME IInv, Arrive
  PROVE  IInv' /\ store'.saved = store.saved
<1>1. /\ reading # None /\ detail' = reading /\ reading' = None
      /\ UNCHANGED <<store, server, reply, late, latest, props, typed, events>>
  BY DEF Arrive, Wire
<1>2. reading \in Entries /\ detail \in Entries /\ latest \in Entries
  BY <1>1 DEF IInv, TypeOK
<1>3. \A f \in Field : Known(server, reading[f], f) /\ latest[f].ver <= reading[f].ver
  BY <1>1, <1>2, EntryVersions DEF IInv, Traced, Reading, Chain
<1>4. Chain'
  BY <1>1, <1>3 DEF IInv, Traced, Chain
<1>5. Reading'
  BY <1>1 DEF Reading
<1>6. TypeOK'
  BY <1>1, <1>2 DEF IInv, TypeOK
<1> QED
  BY <1>1, <1>4, <1>5, <1>6 DEF IInv, Entered, Traced, External, Replied, Stored

(* A field whose saved state stays or takes a state at least as new: the   *)
(* write of this page it holds is not lost sight of.                       *)
LEMMA NewerIsServer ==
  ASSUME NEW g \in Field, server \in Columns, NEW old \in Entry, NEW new \in Entry,
         Known(server, new, g), old.ver <= new.ver, old.ver = server[g].ver
  PROVE  new.ver = server[g].ver
<1>1. old.ver \in Nat /\ new.ver \in Nat /\ server[g].ver \in Nat
  BY EntryVersions
<1> QED
  BY <1>1 DEF Known

(* What the user entered in a field that is still to be saved stays entered. *)
LEMMA RunKeepsEntered ==
  ASSUME NEW new, NEW s, NEW g \in Field, ~Settled(new, g), Rested(new, s) \/ Sends(new, s)
  PROVE  g \in Pending(s) /\ new.draft[g] = s.draft[g]
<1>1. CASE Rested(new, s)
  <2>1. g \in Pending(s)
    BY <1>1 DEF Rested, Settled
  <2> QED
    BY <1>1, <2>1 DEF Rested, KeepsField, AdoptsField
<1>2. CASE Sends(new, s)
  BY <1>2 DEF Sends, Settled, Pending
<1> QED
  BY <1>1, <1>2

Grows == \A g \in Field : store'.saved[g].ver >= store.saved[g].ver

(* What the variables are, as far as the steps of a run and of the list need it. *)
LEMMA KnownTypes ==
  ASSUME IInv
  PROVE  /\ store \in Object /\ SoundObject(store) /\ server \in Columns
         /\ detail \in Entries /\ latest \in Entries
         /\ \A g \in Field :
              /\ store.saved[g] \in Entry /\ latest[g] \in Entry /\ detail[g] \in Entry
              /\ store.external # None => store.external[g] \in Entry
              /\ store.saved[g].ver \in Nat /\ latest[g].ver \in Nat /\ detail[g].ver \in Nat
              /\ store.external # None => store.external[g].ver \in Nat
              /\ server[g].ver \in Nat
<1>1. /\ store \in Object /\ SoundObject(store) /\ server \in Columns
      /\ detail \in Entries /\ latest \in Entries
  BY DEF IInv, TypeOK, Columns
<1>2. store.saved \in Entries /\ store.external \in Entries \cup {None}
  BY <1>1, ObjectColumns
<1> QED
  BY <1>1, <1>2, EntryVersions

LEMMA AnswerStep ==
  ASSUME IInv, Answer
  PROVE  IInv' /\ Grows
<1> DEFINE f == store.inFlight.field
           c == Confirm(store, reply)
<1>1. /\ reply # None /\ latest' = [latest EXCEPT ![f] = reply] /\ detail' = latest'
      /\ reading' = None /\ store' = Drain(c) /\ typed' = Unsettled(typed, store')
      /\ reply' = None /\ UNCHANGED <<server, late, props, events>>
  BY DEF Answer
<1>2. reply \in Entry /\ store.inFlight # None /\ SoundObject(store) /\ store.inFlight \in Request
  BY <1>1, ObjectColumns DEF IInv, TypeOK
<1>3. f \in Field
  BY <1>2 DEF Request
<1>4. /\ c \in Object /\ c.inFlight = None
      /\ c.disposed = store.disposed /\ c.uncertain = store.uncertain \ {f}
      /\ c.saved[f] = reply
      /\ c.draft[f] = (IF store.draft[f] = store.inFlight.text THEN reply.text ELSE store.draft[f])
      /\ \A g \in Field \ {f} : KeepsField(c, store, g)
      /\ store.external = None => c.external = None
      /\ store.external # None => /\ c.external # None /\ c.external[f] = reply
                                  /\ \A g \in Field \ {f} : c.external[g] = store.external[g]
  BY <1>2, ConfirmColumns
<1>5. SoundObject(store') /\ (Rested(store', c) \/ Sends(store', c))
  BY <1>1, <1>2, AnswerSound
<1>6. store'.uncertain = store.uncertain \ {f}
  BY <1>4, <1>5 DEF Rested, Sends
<1>60. store'.disposed = store.disposed
  BY <1>4, <1>5 DEF Rested, Sends
<1> HIDE DEF c, f
<1>7. /\ store'.saved[f] = reply
      /\ \A g \in Field \ {f} : \/ store'.saved[g] = store.saved[g]
                                \/ store.external # None /\ store'.saved[g] = store.external[g]
  <2>1. CASE Rested(store', c)
    BY <1>3, <1>4, <2>1 DEF Rested, KeepsField, AdoptsField
  <2>2. CASE Sends(store', c)
    BY <1>3, <1>4, <2>2 DEF Sends, KeepsField
  <2> QED
    BY <1>5, <2>1, <2>2
<1>8. store'.external # None =>
        /\ store.external # None /\ store'.external[f] = reply
        /\ \A g \in Field \ {f} : /\ store'.external[g] = store.external[g]
                                  /\ store'.saved[g] = store.saved[g]
  <2>1. CASE Rested(store', c)
    BY <2>1 DEF Rested
  <2>2. CASE Sends(store', c)
    BY <1>4, <2>2 DEF Sends, KeepsField
  <2> QED
    BY <1>5, <2>1, <2>2
<1>9. /\ latest' \in Entries /\ latest'[f] = reply
      /\ \A g \in Field \ {f} : latest'[g] = latest[g]
  BY <1>1, <1>2, <1>3, KnownTypes DEF Entries
<1>10. /\ Known(server, reply, f) /\ store.saved[f].ver <= reply.ver
       /\ server[f].by = "page" => reply.ver = server[f].ver
  BY <1>1 DEF IInv, Traced, Replied, f
<1>11. reply.ver \in Nat
  BY <1>2, EntryVersions
<1>12. \A g \in Field \ {f} :
         /\ Known(server, store'.saved[g], g) /\ store'.saved[g] \in Entry
         /\ store.saved[g].ver <= store'.saved[g].ver
         /\ store'.saved[g].ver <= latest[g].ver
  BY <1>7, KnownTypes DEF IInv, Traced, Chain, External
<1>13. Chain'
  <2>1. \A g \in Field : Known(server', store'.saved[g], g) /\ Known(server', latest'[g], g)
    BY <1>1, <1>7, <1>9, <1>10, <1>12 DEF IInv, Traced, Chain
  <2>2. \A g \in Field : store'.saved[g].ver <= latest'[g].ver /\ latest'[g].ver <= detail'[g].ver
    BY <1>1, <1>7, <1>9, <1>11, <1>12, KnownTypes
  <2> QED
    BY <1>1, <2>1, <2>2 DEF Chain
<1>14. External'
  BY <1>1, <1>7, <1>8, <1>9, <1>10, <1>11 DEF IInv, Traced, External
<1>15. Stored'
  <2> SUFFICES ASSUME NEW g \in Field, server[g].by = "page", g \notin store'.uncertain
               PROVE  store'.saved[g].ver = server[g].ver
    BY <1>1 DEF Stored
  <2>1. CASE g = f
    BY <1>7, <1>10, <2>1
  <2>2. CASE g # f
    <3>1. store.saved[g].ver = server[g].ver
      BY <1>6, <2>2 DEF IInv, Traced, Stored, f
    <3> QED
      BY <1>12, <2>2, <3>1, NewerIsServer, KnownTypes
  <2> QED
    BY <2>1, <2>2
<1>16. Traced'
  BY <1>1, <1>13, <1>14, <1>15 DEF Traced, Reading, Replied
<1>17. \A g \in Field : typed'[g] = IF Settled(store', g) THEN None ELSE typed[g]
  BY <1>1 DEF Unsettled
<1>18. Entered'
  <2> SUFFICES ASSUME NEW g \in Field, typed[g] # None, ~Settled(store', g), ~store'.disposed
               PROVE  store'.draft[g] = typed[g]
    BY <1>17 DEF Entered
  <2>1. g \in Pending(c) /\ store'.draft[g] = c.draft[g]
    BY <1>5, RunKeepsEntered
  <2>2. store.draft[g] = typed[g]
    BY <1>60 DEF IInv, Entered
  <2>3. c.draft[g] = store.draft[g]
    BY <1>4, <2>1 DEF Pending, KeepsField
  <2> QED
    BY <2>1, <2>2, <2>3
<1>19. typed' \in [Field -> Text \cup {None}]
  BY <1>1 DEF IInv, TypeOK, Unsettled
<1>20. TypeOK'
  BY <1>1, <1>5, <1>9, <1>19 DEF IInv, TypeOK, SoundObject
<1>21. Grows
  BY <1>7, <1>10, <1>11, <1>12, <1>3, KnownTypes, EntryVersions DEF Grows
<1> QED
  BY <1>5, <1>16, <1>18, <1>20, <1>21 DEF IInv

LEMMA NoAnswerStep ==
  ASSUME IInv, NoAnswer
  PROVE  IInv' /\ Grows
<1> DEFINE f    == store.inFlight.field
           open == [store EXCEPT !.inFlight = None, !.uncertain = @ \cup {f}]
<1>1. /\ store.inFlight # None /\ store' = Unconfirmed(store) /\ reply' = None
      /\ late' = late \/ late' = late \cup {store.inFlight}
      /\ UNCHANGED <<server, reading, detail, latest, props, typed, events>>
  BY DEF NoAnswer, Page
<1>2. /\ f \in Field /\ Rested(store', open) /\ SoundObject(store')
      /\ open.draft = store.draft /\ open.saved = store.saved
      /\ open.uncertain = store.uncertain \cup {f} /\ open.external = store.external
      /\ open.disposed = store.disposed
  BY <1>1, UnconfirmedSound DEF IInv
<1> HIDE DEF open
<1>3. /\ store'.external = None /\ store'.inFlight = None
      /\ store'.uncertain = store.uncertain \cup {f} /\ store'.disposed = store.disposed
      /\ Pending(store') = Pending(open)
  BY <1>2 DEF Rested
<1>4. \A g \in Field : g \in Pending(store) \/ g = f => g \in Pending(open)
  BY <1>2 DEF Pending
<1>5. \A g \in Field :
        \/ store'.saved[g] = store.saved[g] /\ store'.draft[g] = store.draft[g]
        \/ /\ store.external # None /\ store'.saved[g] = store.external[g]
           /\ g \notin Pending(open)
  BY <1>2 DEF Rested, KeepsField, AdoptsField
<1> HIDE DEF f
<1>6. \A g \in Field :
        /\ Known(server, store'.saved[g], g) /\ store'.saved[g] \in Entry
        /\ store.saved[g].ver <= store'.saved[g].ver
        /\ store'.saved[g].ver <= latest[g].ver
  BY <1>5, KnownTypes DEF IInv, Traced, Chain, External
<1>7. Chain'
  BY <1>1, <1>6 DEF IInv, Traced, Chain
<1>8. External'
  BY <1>3 DEF External
<1>9. Stored'
  <2> SUFFICES ASSUME NEW g \in Field, server[g].by = "page", g \notin store'.uncertain
               PROVE  store'.saved[g].ver = server[g].ver
    BY <1>1 DEF Stored
  <2>1. store.saved[g].ver = server[g].ver
    BY <1>3 DEF IInv, Traced, Stored, f
  <2> QED
    BY <1>6, <2>1, NewerIsServer, KnownTypes
<1>10. Traced'
  BY <1>1, <1>7, <1>8, <1>9 DEF IInv, Traced, Reading, Replied
<1>11. Entered'
  <2> SUFFICES ASSUME NEW g \in Field, typed[g] # None
               PROVE  ~Settled(store', g) /\ (store'.disposed \/ store'.draft[g] = typed[g])
    BY <1>1 DEF Entered
  <2>1. g \in Pending(store')
    BY <1>3, <1>4 DEF IInv, Entered, Settled, f
  <2> QED
    BY <1>3, <1>5, <2>1 DEF IInv, Entered, Settled
<1>12. store.inFlight \in Request
  BY <1>1, ObjectColumns DEF IInv, TypeOK
<1>13. TypeOK'
  BY <1>1, <1>2, <1>12 DEF IInv, TypeOK, SoundObject
<1> QED
  BY <1>2, <1>6, <1>10, <1>11, <1>13 DEF IInv, Grows

(* The list's values reach the object.                                     *)
LEMMA SyncStep ==
  ASSUME IInv, NEW values \in Entries, ~store.disposed
  PROVE  LET new == Sync(store, values)
         IN  /\ SoundObject(new) /\ ~new.disposed
             /\ new.inFlight = store.inFlight /\ new.uncertain = store.uncertain
             /\ new.external # None => new.saved = store.saved /\ new.external = values
             /\ \A f \in Field : KeepsField(new, store, f) \/ AdoptsField(new, store, values, f)
             /\ \A f \in Field : ~Settled(store, f) => ~Settled(new, f) /\ new.draft[f] = store.draft[f]
             /\ store.running => new.saved = store.saved /\ new.external = values
<1> DEFINE new == Sync(store, values)
<1>1. store \in Object /\ Coherent(store) /\ Honest(store) /\ Attended(store)
  BY DEF IInv, SoundObject
<1>2. CASE store.running
  <2>1. new = [store EXCEPT !.external = values]
    BY <1>2 DEF Sync
  <2>2. new \in Object
    BY <1>1, <2>1, ObjectUpdates
  <2>3. /\ SameText(new, store) /\ new.external = values /\ new.running = store.running
        /\ new.composing = store.composing /\ new.timer = store.timer
        /\ new.disposed = store.disposed /\ new.shown = store.shown
    BY <1>1, <2>1 DEF Object, SameText
  <2> HIDE DEF new
  <2>4. Pending(new) = Pending(store) /\ (Dirty(new) <=> Dirty(store))
    BY <2>3, SameDirty
  <2>5. SoundObject(new)
    BY <1>1, <1>2, <2>2, <2>3, <2>4 DEF SoundObject, Coherent, Honest, Attended, SameText
  <2> QED
    BY <1>2, <2>3, <2>4, <2>5 DEF SameText, KeepsField, Settled, new
<1>3. CASE ~store.running
  <2>1. /\ new \in Object /\ SameControl(new, store)
        /\ new.shown.status = store.shown.status
        /\ \A f \in Field : KeepsField(new, store, f) \/ AdoptsField(new, store, values, f)
        /\ Honest(new)
        /\ Dirty(new) <=> Dirty(store)
    BY <1>1, <1>3, SyncColumns
  <2> HIDE DEF new
  <2>2. Pending(new) = Pending(store)
    BY <2>1, AdoptedPending DEF SameControl
  <2>3. SoundObject(new)
    BY <1>1, <2>1 DEF SoundObject, Coherent, Attended, SameControl
  <2>4. store.inFlight = None /\ store.external = None
    BY <1>1, <1>3 DEF Coherent
  <2>5. \A f \in Field : ~Settled(store, f) => ~Settled(new, f) /\ new.draft[f] = store.draft[f]
    BY <2>1, <2>2, <2>4 DEF Settled, KeepsField, AdoptsField
  <2> QED
    BY <1>3, <2>1, <2>3, <2>4, <2>5 DEF SameControl, new
<1> QED
  BY <1>2, <1>3

LEMMA RenderStep ==
  ASSUME IInv, Render
  PROVE  IInv' /\ Grows
<1>1. /\ ~store.disposed /\ props' = detail /\ latest' = detail
      /\ store' = Sync(store, detail) \/ store' = store
      /\ UNCHANGED <<server, reply, late, reading, detail, typed, events>>
  BY DEF Render, Wire
<1>2. \A g \in Field : /\ Known(server, detail[g], g)
                       /\ store.saved[g].ver <= detail[g].ver
                       /\ store.external # None => store.external[g].ver <= detail[g].ver
  BY KnownTypes DEF IInv, Traced, Chain, External
<1>3. /\ SoundObject(store') /\ ~store'.disposed
      /\ store'.inFlight = store.inFlight /\ store'.uncertain = store.uncertain
      /\ store'.external # None =>
           store'.saved = store.saved /\ store'.external \in {store.external, detail}
      /\ \A g \in Field : \/ store'.saved[g] = store.saved[g]
                          \/ ~store.running /\ store'.saved[g] = detail[g]
      /\ \A g \in Field : ~Settled(store, g) =>
                            ~Settled(store', g) /\ store'.draft[g] = store.draft[g]
  <2>1. CASE store' = store
    BY <1>1, <2>1 DEF IInv
  <2>2. CASE store' = Sync(store, detail)
    <3>1. detail \in Entries
      BY KnownTypes
    <3> QED
      BY <1>1, <2>2, <3>1, SyncStep DEF KeepsField, AdoptsField
  <2> QED
    BY <1>1, <2>1, <2>2
<1>4. \A g \in Field :
        /\ Known(server, store'.saved[g], g) /\ store'.saved[g] \in Entry
        /\ store.saved[g].ver <= store'.saved[g].ver
        /\ store'.saved[g].ver <= detail[g].ver
  BY <1>2, <1>3, KnownTypes DEF IInv, Traced, Chain
<1>5. Chain'
  BY <1>1, <1>2, <1>4, KnownTypes DEF Chain
<1>6. External'
  BY <1>1, <1>2, <1>3, KnownTypes DEF IInv, Traced, External
<1>7. Reading'
  BY <1>1 DEF IInv, Traced, Reading
<1>8. Replied'
  <2> SUFFICES ASSUME reply # None PROVE Replied'
    BY <1>1 DEF Replied
  <2>1. store.running /\ store.inFlight.field \in Field
    <3>1. store.inFlight # None /\ Coherent(store) /\ store \in Object
      BY DEF IInv, TypeOK
    <3> QED
      BY <3>1, ObjectColumns DEF Coherent, Request
  <2>2. \A g \in Field : store'.saved[g] = store.saved[g]
    BY <1>3, <2>1
  <2> QED
    BY <1>1, <1>3, <2>1, <2>2 DEF IInv, Traced, Replied
<1>9. Stored'
  <2> SUFFICES ASSUME NEW g \in Field, server[g].by = "page", g \notin store.uncertain,
                      ~(reply # None /\ store.inFlight.field = g)
               PROVE  store'.saved[g].ver = server[g].ver
    BY <1>1, <1>3 DEF Stored
  <2>1. store.saved[g].ver = server[g].ver
    BY DEF IInv, Traced, Stored
  <2> QED
    BY <1>4, <2>1, NewerIsServer, KnownTypes
<1>10. Entered'
  BY <1>1, <1>3 DEF IInv, Entered
<1>11. TypeOK'
  BY <1>1, <1>3, KnownTypes DEF IInv, TypeOK, SoundObject
<1> QED
  BY <1>3, <1>4, <1>5, <1>6, <1>7, <1>8, <1>9, <1>10, <1>11 DEF IInv, Traced, Grows

-----------------------------------------------------------------------------
(* The invariant and what follows from it.                                 *)

LEMMA Start ==
  ASSUME Init
  PROVE  IInv
<1>1. 0 \in 0 .. MaxVersion /\ 0 \in 0 .. MaxEvents /\ Blank \in Text
  BY TextAssumption
<1>2. First \in Entries /\ \A f \in Field : First[f].ver = 0 /\ First[f].text = Blank
  BY <1>1 DEF First, Entries, Entry
<1>3. store \in Object
  <2>1. [f \in Field |-> Blank] \in [Field -> Text]
    BY <1>1
  <2>2. [status |-> "saved", dirty |-> FALSE] \in [status : Status, dirty : BOOLEAN]
    BY DEF Status
  <2> QED
    BY <1>2, <2>1, <2>2 DEF Init, Object
<1>4. store.draft = [f \in Field |-> Blank] /\ store.saved = First /\ store.uncertain = {}
      /\ store.inFlight = None /\ store.external = None /\ store.running = FALSE
      /\ store.timer = FALSE
  BY DEF Init
<1>5. ~Dirty(store)
  BY <1>2, <1>4 DEF Dirty, Pending
<1>6. SoundObject(store)
  BY <1>3, <1>4, <1>5 DEF SoundObject, Coherent, Honest, Attended
<1>7. /\ server = [f \in Field |-> [text |-> Blank, ver |-> 0, by |-> "page"]]
      /\ reply = None /\ late = {} /\ reading = None
      /\ detail = First /\ latest = First /\ props = First
      /\ typed = [f \in Field |-> None] /\ events = 0
  BY DEF Init
<1>8. TypeOK
  BY <1>1, <1>2, <1>6, <1>7 DEF TypeOK, SoundObject, Writer
<1>9. Traced
  BY <1>2, <1>4, <1>7 DEF Traced, Chain, External, Reading, Replied, Stored, Known
<1>10. Entered
  BY <1>7 DEF Entered
<1> QED
  BY <1>6, <1>8, <1>9, <1>10 DEF IInv

LEMMA Step ==
  ASSUME IInv, [Next]_vars
  PROVE  IInv' /\ Grows
<1>1. ASSUME store'.saved = store.saved
      PROVE  Grows
  BY <1>1, KnownTypes DEF Grows
<1>2. CASE UNCHANGED vars
  <2>1. IInv'
    BY <1>2 DEF IInv, vars, TypeOK, SoundObject, Coherent, Honest, Attended, Entered, Traced,
                Chain, External, Reading, Replied, Stored
  <2> QED
    BY <1>1, <1>2, <2>1 DEF vars
<1>3. ASSUME NEW f \in Field, NEW t \in Text, Type(f, t) \/ ComposeEnd(f, t) \/ OtherWrites(f, t)
      PROVE  IInv' /\ Grows
  BY <1>1, <1>3, TypeStep, ComposeEndStep, OtherWritesStep
<1>4. ASSUME NEW f \in Field, ComposeStart(f)
      PROVE  IInv' /\ Grows
  BY <1>1, <1>4, ComposeStartStep
<1>5. ASSUME NEW r \in late, LateWrite(r)
      PROVE  IInv' /\ Grows
  BY <1>1, <1>5, LateWriteStep
<1>6. CASE TimerFires \/ AskFlush
  BY <1>1, <1>6, FlushStep DEF TimerFires, AskFlush
<1>7. CASE Dispose
  BY <1>1, <1>7, DisposeStep
<1>8. CASE Apply
  BY <1>1, <1>8, ApplyStep
<1>9. CASE Answer
  BY <1>9, AnswerStep
<1>10. CASE NoAnswer
  BY <1>10, NoAnswerStep
<1>11. CASE Refresh \/ Arrive
  BY <1>1, <1>11, RefreshStep, ArriveStep
<1>12. CASE Render
  BY <1>12, RenderStep
<1> QED
  BY <1>2, <1>3, <1>4, <1>5, <1>6, <1>7, <1>8, <1>9, <1>10, <1>11, <1>12 DEF Next

LEMMA Invariance == Spec => []IInv
<1>1. IInv /\ [Next]_vars => IInv'
  BY Step
<1> QED
  BY <1>1, Start, PTL DEF Spec

(* The object's parts stay consistent through every interleaving of edits,  *)
(* compositions, runs and refreshes (flush, drain, saveField, sync).        *)
THEOREM AutosaveTyped == Spec => []TypeOK
BY Invariance, PTL DEF IInv

(* Whatever order timers, runs, composition and failures come in, text that *)
(* is not saved will be saved or the user is told (schedule, compose, drain). *)
THEOREM TextAttended == Spec => []NothingForgotten
<1>1. IInv => NothingForgotten
  BY DEF IInv, SoundObject, Attended, NothingForgotten
<1> QED
  BY <1>1, Invariance, PTL

(* No list, however late, replaces what the user entered before the server *)
(* confirmed it: such a field is pending or in flight, and only a field     *)
(* that is neither adopts a value (sync, finish).                           *)
THEOREM EntriesKept == Spec => []EnteredIsKept
<1>1. IInv => EnteredIsKept
  BY DEF IInv, Entered, EnteredIsKept
<1> QED
  BY <1>1, Invariance, PTL

(* The protection against leaving is released only when the server holds    *)
(* what the fields show: an answered write of this page is what is saved,    *)
(* one of unknown outcome keeps its field uncertain (saveField).             *)
THEOREM LeaveIsSafe == Spec => []ReleasedWhenStored
<1>1. IInv => ReleasedWhenStored
  <2> SUFFICES ASSUME IInv, ~store.disposed, ~store.shown.dirty, NEW f \in Field,
                      server[f].by = "page"
               PROVE  server[f].text = store.draft[f]
    BY DEF ReleasedWhenStored
  <2>1. ~Dirty(store)
    BY DEF IInv, SoundObject, Honest
  <2>2. /\ f \notin store.uncertain /\ store.draft[f] = store.saved[f].text
        /\ store.inFlight = None
    BY <2>1 DEF Dirty, Pending
  <2>3. reply = None
    BY <2>2 DEF IInv, TypeOK
  <2>4. store.saved[f].ver = server[f].ver
    BY <2>2, <2>3 DEF IInv, Traced, Stored
  <2> QED
    BY <2>2, <2>4 DEF IInv, Traced, Chain, Known
<1> QED
  BY <1>1, Invariance, PTL

(* What is shown as saved never goes back to an older state of the server:  *)
(* the list's values, those put aside and the answer are all at least as    *)
(* new as what was saved (replaceEntry, publishField, saveField, sync).     *)
THEOREM SavedMovesForward == Spec => SavedNeverFallsBack
<1>1. IInv /\ [Next]_vars => [\A f \in Field : store'.saved[f].ver >= store.saved[f].ver]_vars
  BY Step DEF Grows
<1> QED
  BY <1>1, Invariance, PTL DEF Spec, SavedNeverFallsBack
=============================================================================
