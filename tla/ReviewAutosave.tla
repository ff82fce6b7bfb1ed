---------------------------- MODULE ReviewAutosave ----------------------------
(***************************************************************************)
(* The autosave of one applicant's title and memo in the browser           *)
(* (frontend/src/features/pdf-reviews/review-autosave.ts), with what        *)
(* surrounds it: the board that publishes a saved field and hands the       *)
(* refreshed list back, the refresh itself, the bounded request and the     *)
(* server, other editors included.                                         *)
(*                                                                         *)
(* `store' is the object's fields.  JavaScript runs one task at a time, so  *)
(* an event of the page together with the microtasks it starts, and the     *)
(* continuation of a request up to the next request or the end of the run,  *)
(* are one action each.  Text keeps only what the code tells apart: Norm is *)
(* what a title becomes on its way (trimmed by the page, normalised by the  *)
(* server), TooLong what the page does not send.                           *)
(***************************************************************************)
EXTENDS Naturals

CONSTANTS
    Text,        \* what a field may contain
    Norm,        \* a title as the server stores it
    TooLong,     \* what no field may contain (255 characters for a title, 500 for a memo)
    Blank,       \* the content of both fields at first
    None,
    MaxEvents,   \* bound: edits of the user, writes of others and requests carried out late, together
    MaxVersion   \* bound: how often the server stores a field

ASSUME TextAssumption ==
    /\ Norm \in [Text -> Text]
    /\ \A t \in Text : Norm[Norm[t]] = Norm[t]
    /\ Blank \in Text \ TooLong /\ Norm[Blank] = Blank
    /\ None \notin Text
    /\ MaxEvents \in Nat /\ MaxVersion \in Nat

VARIABLES
    store,     \* the ReviewAutosave object
    server,    \* the two columns, each with its version and who wrote it
    reply,     \* what the server stored for the request in flight, None before it did
    late,      \* requests the page gave up and the server may still carry out
    reading,   \* the answer to the newest refresh, on its way, or None
    detail,    \* the entry in the state of usePdfReviews
    latest,    \* the entry in the board's ref `latest'
    props,     \* the values the sync effect last ran for
    typed,     \* what the user last entered in a field and nobody has confirmed, or None
    events     \* how many of the events that MaxEvents bounds have happened

vars == <<store, server, reply, late, reading, detail, latest, props, typed, events>>

Field == {"title", "memo"}
Status == {"saved", "pending", "saving", "error"}
Writer == {"page", "late", "other"}

\* A field as the server returned it.  The version is not part of the response: it tells an older
\* answer from a newer one.
Entry == [text : Text, ver : 0 .. MaxVersion]
Entries == [Field -> Entry]
Request == [field : Field, text : Text]

\* null is no field, no text and no object.
ASSUME NoneAssumption ==
    None \notin Field /\ None \notin Entry /\ None \notin Entries /\ None \notin Request

-----------------------------------------------------------------------------
(* The object.  Each operator maps its fields to its fields after a method.   *)

Pending(s) == {f \in Field : f \in s.uncertain \/ s.draft[f] # s.saved[f].text}

(* Mutant: a field that reads as it did before the request in flight counts as saved. *)
DirtyByFields(s) == Pending(s) # {}

Dirty(s) == s.inFlight # None \/ Pending(s) # {}

Publish(s, status) ==
    IF s.disposed THEN s
    ELSE [s EXCEPT !.shown = [status |-> status, dirty |-> Dirty(s)]]

Schedule(s) == [s EXCEPT !.timer = s.composing = {} /\ ~s.disposed /\ Dirty(s)]

Change(s, f, t) ==
    LET changed == [s EXCEPT !.draft[f] = t, !.errorField = None]
    IN  Schedule(Publish(changed, IF Dirty(changed) THEN "pending" ELSE "saved"))

(* Mutant: a field that was reverted after a request of unknown outcome is taken for untouched. *)
AdoptsUncertain(s, values, f) == s.draft[f] = s.saved[f].text /\ values[f].text # s.saved[f].text

\* The field shows what was saved, and the list brings something else.
Adopts(s, values, f) ==
    /\ f \notin s.uncertain
    /\ s.draft[f] = s.saved[f].text
    /\ values[f].text # s.saved[f].text

Sync(s, values) ==
    LET adopted == {f \in Field : Adopts(s, values, f)}
        changed == [s EXCEPT
            !.draft = [f \in Field |-> IF f \in adopted THEN values[f].text ELSE s.draft[f]],
            !.saved = [f \in Field |-> IF f \in adopted THEN values[f] ELSE s.saved[f]]]
    IN  CASE s.disposed -> s
          [] ~s.disposed /\ s.running -> [s EXCEPT !.external = values]
          [] ~s.disposed /\ ~s.running -> IF adopted = {} THEN s ELSE Publish(changed, s.shown.status)

\* The `finally' of a run: what arrived during it is looked at now.
Finish(s) ==
    LET idle == [s EXCEPT !.running = FALSE, !.external = None]
    IN  IF s.external = None THEN idle ELSE Sync(idle, s.external)

Fail(s, f) == Finish(Publish([s EXCEPT !.errorField = f], "error"))

NextField(s) == IF "title" \in Pending(s) THEN "title" ELSE "memo"

Halted(s) == s.disposed \/ s.composing # {}

\* The loop up to the next request or to the end of the run.
Drain(s) ==
    LET f == NextField(s)
    IN  CASE Halted(s) -> Finish(s)
          [] ~Halted(s) /\ Pending(s) = {} -> Finish(Publish(s, "saved"))
          [] ~Halted(s) /\ Pending(s) # {} /\ s.draft[f] \in TooLong -> Fail(s, f)
          [] OTHER -> Publish([s EXCEPT !.inFlight = [field |-> f, text |-> s.draft[f]]], "saving")

Flush(s) ==
    LET stopped == [s EXCEPT !.timer = FALSE]
    IN  IF Halted(s) \/ s.running THEN stopped
        ELSE IF ~Dirty(s) THEN Publish(stopped, "saved")
        ELSE Drain([stopped EXCEPT !.errorField = None, !.running = TRUE])

(* Mutant: values put aside during the run keep what they say of the field just saved. *)
ConfirmDraftOnly(s, entry) ==
    LET f == s.inFlight.field
        sent == s.inFlight.text
    IN  [s EXCEPT !.inFlight = None, !.uncertain = @ \ {f}, !.saved[f] = entry,
                  !.draft[f] = IF @ = sent THEN entry.text ELSE @]

\* The rest of saveField for a request the server answered with `entry'.
Confirm(s, entry) ==
    LET f == s.inFlight.field
        sent == s.inFlight.text
    IN  [s EXCEPT !.inFlight = None,
                  !.uncertain = @ \ {f},
                  !.external = IF @ = None THEN None ELSE [@ EXCEPT ![f] = entry],
                  !.saved[f] = entry,
                  !.draft[f] = IF @ = sent THEN entry.text ELSE @]

(* Mutant: a failed request leaves no error behind. *)
UnconfirmedInSilence(s) ==
    LET f == s.inFlight.field
    IN  Finish(Publish([s EXCEPT !.inFlight = None, !.uncertain = @ \cup {f}], "pending"))

\* The rest of saveField without a usable answer.
Unconfirmed(s) ==
    LET f == s.inFlight.field
    IN  Fail([s EXCEPT !.inFlight = None, !.uncertain = @ \cup {f}], f)

\* Nothing of the field is left to save, so the user's last text is settled.
Settled(s, f) == f \notin Pending(s) /\ (s.inFlight = None \/ s.inFlight.field # f)

Unsettled(entered, s) == [f \in Field |-> IF Settled(s, f) THEN None ELSE entered[f]]

-----------------------------------------------------------------------------
First == [f \in Field |-> [text |-> Blank, ver |-> 0]]

Init ==
    /\ store = [draft |-> [f \in Field |-> Blank], saved |-> First,
                composing |-> {}, timer |-> FALSE, running |-> FALSE, disposed |-> FALSE,
                errorField |-> None, external |-> None, inFlight |-> None, uncertain |-> {},
                shown |-> [status |-> "saved", dirty |-> FALSE]]
    /\ server = [f \in Field |-> [text |-> Blank, ver |-> 0, by |-> "page"]]
    /\ reply = None /\ late = {} /\ reading = None
    /\ detail = First /\ latest = First /\ props = First
    /\ typed = [f \in Field |-> None] /\ events = 0

Page == <<reading, detail, latest, props>>
Wire == <<server, reply, late>>

Counted == events < MaxEvents /\ events' = events + 1

(* Events of the page.  A disposed page has none. *)

Edit(f, t, s) ==
    /\ ~store.disposed
    /\ Counted
    /\ store' = Change(s, f, t)
    /\ typed' = Unsettled([typed EXCEPT ![f] = t], store')
    /\ UNCHANGED <<Wire, Page>>

\* The user types; while a syllable is composed, only in its field.
Type(f, t) == store.composing \subseteq {f} /\ Edit(f, t, store)

ComposeStart(f) ==
    /\ ~store.disposed /\ store.composing = {}
    /\ store' = [store EXCEPT !.composing = {f}, !.timer = FALSE]
    /\ UNCHANGED <<Wire, Page, typed, events>>

ComposeEnd(f, t) ==
    /\ store.composing = {f}
    /\ Edit(f, t, [store EXCEPT !.composing = {}, !.timer = FALSE])

TimerFires ==
    /\ store.timer
    /\ store' = Flush(store)
    /\ UNCHANGED <<Wire, Page, typed, events>>

\* A field loses the focus, the user retries, or wants to leave the applicant.
AskFlush ==
    /\ ~store.disposed
    /\ store' = Flush(store)
    /\ UNCHANGED <<Wire, Page, typed, events>>

\* The applicant is left, or a refreshed list no longer shows it.
Dispose ==
    /\ ~store.disposed
    /\ store' = [store EXCEPT !.disposed = TRUE, !.timer = FALSE, !.shown.dirty = FALSE]
    /\ UNCHANGED <<Wire, Page, typed, events>>

(* The request in flight. *)

Written(f, t, by) ==
    [text |-> IF f = "title" THEN Norm[t] ELSE t, ver |-> server[f].ver + 1, by |-> by]

Write(f, t, by) ==
    /\ server[f].ver < MaxVersion
    /\ server' = [server EXCEPT ![f] = Written(f, t, by)]

Apply ==
    /\ store.inFlight # None /\ reply = None
    /\ LET f == store.inFlight.field
       IN  /\ Write(f, store.inFlight.text, "page")
           /\ reply' = [text |-> server'[f].text, ver |-> server'[f].ver]
    /\ UNCHANGED <<late, store, Page, typed, events>>

\* The board publishes the field on top of its latest entry; replaceEntry puts that entry into the
\* state and makes an older refresh stale.  Then the run goes on.
Answer ==
    /\ reply # None
    /\ LET f == store.inFlight.field
       IN  latest' = [latest EXCEPT ![f] = reply]
    /\ detail' = latest'
    /\ reading' = None
    /\ store' = Drain(Confirm(store, reply))
    /\ typed' = Unsettled(typed, store')
    /\ reply' = None
    /\ UNCHANGED <<server, late, props, events>>

\* The request was refused, lost, or given up after 15 seconds.  Given up before the server carried
\* it out, it may still be carried out later.
NoAnswer ==
    /\ store.inFlight # None
    /\ store' = Unconfirmed(store)
    /\ reply' = None
    /\ \/ UNCHANGED late
       \/ reply = None /\ late' = late \cup {store.inFlight}
    /\ UNCHANGED <<server, Page, typed, events>>

LateWrite(r) ==
    /\ ~store.disposed
    /\ Counted
    /\ Write(r.field, r.text, "late")
    /\ late' = late \ {r}
    /\ UNCHANGED <<store, reply, Page, typed>>

(* Other editors and the refreshed list, as long as the page is there to see them. *)

\* A write of the same text changes nothing and is left out.
OtherWrites(f, t) ==
    /\ ~store.disposed
    /\ t \notin TooLong /\ Written(f, t, "other").text # server[f].text
    /\ Counted
    /\ Write(f, t, "other")
    /\ UNCHANGED <<store, reply, late, Page, typed>>

\* A newer refresh makes an older one stale.
Refresh ==
    /\ ~store.disposed
    /\ reading' = [f \in Field |-> [text |-> server[f].text, ver |-> server[f].ver]]
    /\ UNCHANGED <<store, Wire, detail, latest, props, typed, events>>

Arrive ==
    /\ ~store.disposed /\ reading # None
    /\ detail' = reading
    /\ reading' = None
    /\ UNCHANGED <<store, Wire, latest, props, typed, events>>

\* React renders the state and runs the effects: the ref, and sync if a value changed.
Render ==
    /\ ~store.disposed /\ detail # props
    /\ props' = detail /\ latest' = detail
    /\ store' = IF \E f \in Field : detail[f].text # props[f].text THEN Sync(store, detail) ELSE store
    /\ UNCHANGED <<Wire, reading, detail, typed, events>>

Next ==
    \/ \E f \in Field, t \in Text : Type(f, t) \/ ComposeEnd(f, t) \/ OtherWrites(f, t)
    \/ \E f \in Field : ComposeStart(f)
    \/ \E r \in late : LateWrite(r)
    \/ TimerFires \/ AskFlush \/ Dispose
    \/ Apply \/ Answer \/ NoAnswer
    \/ Refresh \/ Arrive \/ Render

Spec == Init /\ [][Next]_vars

-----------------------------------------------------------------------------
Object ==
    [draft : [Field -> Text], saved : Entries, composing : SUBSET Field,
     timer : BOOLEAN, running : BOOLEAN, disposed : BOOLEAN,
     errorField : Field \cup {None}, external : Entries \cup {None},
     inFlight : Request \cup {None}, uncertain : SUBSET Field,
     shown : [status : Status, dirty : BOOLEAN]]

Coherent(s) ==
    /\ s.inFlight # None <=> s.running
    /\ s.external # None => s.running
    /\ s.timer => ~s.disposed /\ s.composing = {}

(* Every variable has its type, and what the object's parts say of each other *)
(* is consistent: a request is in flight exactly during a run, values wait     *)
(* only during a run, and no timer runs while a syllable is composed.         *)
TypeOK ==
    /\ store \in Object /\ Coherent(store)
    /\ server \in [Field -> [text : Text, ver : 0 .. MaxVersion, by : Writer]]
    /\ reply \in Entry \cup {None}
    /\ late \subseteq Request
    /\ reading \in Entries \cup {None}
    /\ detail \in Entries /\ latest \in Entries /\ props \in Entries
    /\ typed \in [Field -> Text \cup {None}]
    /\ events \in 0 .. MaxEvents
    /\ reply # None => store.inFlight # None

\* The page's protection against leaving is released only when the server holds what the fields
\* show - whatever was typed, reverted, refused or lost in between - as far as the last write was an
\* answerable one of this page (frontend/docs/pdf-reviews.md:141).
ReleasedWhenStored ==
    ~store.disposed /\ ~store.shown.dirty =>
        \A f \in Field : server[f].by = "page" => server[f].text = store.draft[f]

\* The same for every write of this page, given-up requests included: sending the text again settles
\* what the server holds (review-autosave.test.ts:67).
RetrySettles ==
    ~store.disposed /\ ~store.shown.dirty =>
        \A f \in Field : server[f].by # "other" => server[f].text = store.draft[f]

\* No refreshed list, however late, replaces what the user entered before the server confirmed it:
\* not while it is sent, and not after a request whose outcome is unknown (sync, saveField).
EnteredIsKept ==
    ~store.disposed => \A f \in Field : typed[f] # None => store.draft[f] = typed[f]

\* What the page takes as saved never falls back to an older state of the server: not by a list that
\* was read before a save and arrives after it, nor by values put aside during a run
\* (frontend/docs/pdf-reviews.md:73; replaceEntry, publishField, saveField).
SavedNeverFallsBack ==
    [][\A f \in Field : store'.saved[f].ver >= store.saved[f].ver]_vars

\* Text that is not saved is never left behind in silence.  A timer will start a run, the run waits
\* for a request that is bounded to 15 seconds, an error is shown, or a syllable is being composed,
\* whose end starts the timer: whatever order timers, runs, composition and failures come in
\* (schedule, compose, flush, drain).
NothingForgotten ==
    Dirty(store) =>
        \/ store.timer \/ store.running
        \/ store.shown.status = "error" /\ store.errorField # None
        \/ store.composing # {}
        \/ store.disposed
=============================================================================
