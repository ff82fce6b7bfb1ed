-------------------------- MODULE ApplicationForm --------------------------
(***************************************************************************)
(* The public application of an actor: the draft the page keeps in the     *)
(* browser (use-public-application-draft.ts), the submission attempt kept  *)
(* beside it (submission-v1.ts, public-application-draft-store.ts) and the *)
(* submission the server stores once (IdempotentSubmissionService,         *)
(* SubmissionService).                                                     *)
(*                                                                         *)
(* A form is what the applicant has entered, 0 while nothing is; consent   *)
(* is kept apart because a restored page asks for it again.  A document    *)
(* may leave the form by its own navigation, and then what it was          *)
(* submitting goes on behind the next page, or be unloaded.                *)
(***************************************************************************)
EXTENDS Integers, Sequences

CONSTANTS MaxForm,      \* forms are 0 .. MaxForm
          MaxAttempts,  \* bound of the idempotency keys
          MaxWrites,    \* bound of the storage operations under way
          MaxMishaps,   \* bound of failures, changed postings, other devices
          Nothing

ASSUME ApplicationAssumption == MaxForm \in Nat \ {0} /\ MaxAttempts \in Nat

(* What is submitted: a form, and the version of the posting it is for.    *)
Forms == 0 .. MaxForm
Fingerprints == Forms \X Nat
Attempts == [key : Nat, print : Fingerprints]

\* null is no form, no attempt and no answer.
ASSUME NothingAssumption ==
  Nothing \notin Forms /\ Nothing \notin Attempts /\ Nothing \notin {"receipt", "duplicate"}

VARIABLES draft,      \* the form kept in the browser
          attempt,    \* the submission attempt kept beside it
          operations, \* storage operations in the order they were begun
          page,       \* the form shown
          volatile,   \* the attempt the document remembers
          submits,    \* the submission of the page, and of the page left
          keys,       \* idempotency keys made so far
          requests,   \* attempts on their way to the server
          submission, \* what the server has stored
          posting,    \* the version of the posting
          lapsed,     \* history: keys the store could no longer give back
          mishaps

applicationVars == <<draft, attempt, operations, page, volatile, submits, keys,
                     requests, submission, posting, lapsed, mishaps>>
storeVars  == <<draft, attempt, lapsed>>
submissionVars == <<requests, submission, posting>>
allButPage == <<storeVars, volatile, submits, keys, submissionVars, mishaps>>

Mishap == mishaps < MaxMishaps /\ mishaps' = mishaps + 1

Submitters == {"page", "left"}
NoPage == [mode |-> "closed", form |-> 0, agreed |-> FALSE, version |-> 0,
           status |-> "RESTORING", timer |-> FALSE]
Idle == [step |-> "idle", print |-> Nothing, attempt |-> Nothing, answer |-> Nothing]

Begun(op) == operations' = Append(operations, op)
Operation(kind, value) == [kind |-> kind, value |-> value, current |-> TRUE]

(* The results nobody waits for any more: of the writes before an edit, or *)
(* of everything the document had begun.                                   *)
Outdated(ops, kinds) ==
  [i \in 1 .. Len(ops) |-> IF ops[i].kind \in kinds
                           THEN [ops[i] EXCEPT !.current = FALSE] ELSE ops[i]]
Autosaves == {"put", "delete"}
------------------------------------------------------------------------------
(* The page and its draft.                                                 *)

Room == Len(operations) < MaxWrites

Open == /\ page.mode = "closed" /\ Room
        /\ \E initial \in {0, MaxForm} :
             page' = [NoPage EXCEPT !.mode = "restoring", !.form = initial,
                                    !.version = posting]
        /\ Begun(Operation("load", Nothing))
        /\ UNCHANGED allButPage

(* The page shows the stored draft, without its consents, or what the      *)
(* profile fills in; only the latter is saved without an edit.             *)
Restored(ok) ==
  IF ok /\ draft # Nothing
  THEN [page EXCEPT !.mode = "open", !.form = draft, !.status = "SAVED"]
  ELSE IF ok THEN [page EXCEPT !.mode = "open", !.timer = TRUE,
                               !.status = IF page.form = 0 THEN "IDLE" ELSE "SAVING"]
  ELSE [page EXCEPT !.mode = "open", !.status = "ERROR"]

Changed(form, agreed) ==
  /\ page' = [page EXCEPT !.form = form, !.agreed = agreed,
                          !.status = "SAVING", !.timer = TRUE]
  /\ operations' = Outdated(operations, Autosaves)

(* Any field, a consent, or the button that saves once more.               *)
EditForm(form, agreed) == /\ page.mode = "open"
                          /\ Changed(form, agreed)
                          /\ UNCHANGED allButPage

(* The timer of 600 ms.                                                    *)
Autosave ==
  /\ page.timer /\ Room
  /\ page' = [page EXCEPT !.timer = FALSE]
  /\ Begun(IF page.form # 0 \/ page.agreed THEN Operation("put", page.form)
           ELSE Operation("delete", Nothing))
  /\ UNCHANGED allButPage

(* By the page's own navigation: the submission goes on.                   *)
Leave == /\ page.mode # "closed" /\ submits["left"] = Idle
         /\ page' = NoPage
         /\ submits' = [page |-> Idle, left |-> submits["page"]]
         /\ operations' = Outdated(operations, Autosaves \cup {"load"})
         /\ UNCHANGED <<storeVars, volatile, keys, submissionVars, mishaps>>

(* The document goes, with everything it remembered.                       *)
Unloaded == /\ page' = NoPage
            /\ submits' = [k \in Submitters |-> Idle]
            /\ volatile' = Nothing
            /\ operations' =
                 Outdated(operations, Autosaves \cup {"load", "read", "keep"})

Unload == /\ page.mode # "closed"
          /\ Unloaded
          /\ UNCHANGED <<storeVars, keys, submissionVars, mishaps>>
------------------------------------------------------------------------------
(* The submission attempt.                                                 *)

Preparing(k, print) == submits[k].print = print
                       /\ submits[k].step \in {"read", "prepare", "keep"}

(* The slots that share the preparation of this print.                     *)
Move(print, step, a) ==
  submits' = [k \in Submitters |-> IF Preparing(k, print)
                  THEN [submits[k] EXCEPT !.step = step, !.attempt = a]
                  ELSE submits[k]]

Send(print, a) == Move(print, "sent", a) /\ requests' = requests \cup {a}

Fingerprint == <<page.form, page.version>>

(* A second submission of the same contents joins the preparation.         *)
Submit ==
  /\ page.mode = "open" /\ submits["page"] = Idle /\ Room
  /\ page.agreed /\ page.form # 0
  /\ LET joins == Preparing("left", Fingerprint)
     IN /\ submits' = [submits EXCEPT !["page"] =
             IF joins THEN submits["left"]
             ELSE [Idle EXCEPT !.step = "read", !.print = Fingerprint]]
        /\ IF joins THEN UNCHANGED operations
           ELSE Begun(Operation("read", Fingerprint))
  /\ UNCHANGED <<storeVars, page, volatile, keys, submissionVars, mishaps>>

(* Mutants: the prints are not compared; nothing is reused. *)
ReusableWhateverPrint(found, print) == found # Nothing
ReusableNever(found, print) == FALSE

Reusable(found, print) == found # Nothing /\ found.print = print

(* The photos were uploaded, and the body is kept before it is sent; or a  *)
(* photo could not be read, which the page marks in the form.              *)
BodyReady(k) ==
  /\ submits[k].step = "prepare"
  /\ \/ /\ keys < MaxAttempts
        /\ keys' = keys + 1
        /\ LET a == [key |-> keys + 1, print |-> submits[k].print]
           IN Move(a.print, "keep", a) /\ Begun(Operation("keep", a))
        /\ UNCHANGED page
     \/ /\ Move(submits[k].print, "answered", Nothing)
        /\ \/ UNCHANGED <<page, operations>>
           \/ /\ k = "page"
              /\ \E form \in 0 .. MaxForm : Changed(form, page.agreed)
        /\ UNCHANGED keys
  /\ UNCHANGED <<storeVars, volatile, submissionVars, mishaps>>
------------------------------------------------------------------------------
(* The browser's store carries the operations out in their order; any may  *)
(* fail.                                                                   *)

(* Mutant: the result of an earlier write is taken for the form shown. *)
ReportedWhatever(op, status) ==
  IF page.mode = "open" THEN [page EXCEPT !.status = status] ELSE page

Reported(op, status) ==
  IF op.current THEN [page EXCEPT !.status = status] ELSE page

Lapses(a) == lapsed' = IF a = Nothing THEN lapsed ELSE lapsed \cup {a.key}

Saves(op, ok) ==
  /\ op.kind \in Autosaves
  /\ IF ok /\ op.kind = "delete" THEN attempt' = Nothing /\ Lapses(attempt)
     ELSE UNCHANGED <<attempt, lapsed>>
  /\ draft' = IF ok THEN op.value ELSE draft
  /\ page' = Reported(op, IF ~ok THEN "ERROR"
                          ELSE IF op.kind = "put" THEN "SAVED" ELSE "IDLE")
  /\ UNCHANGED <<volatile, submits, requests>>

Loads(op, ok) == /\ op.kind = "load"
                 /\ page' = IF op.current THEN Restored(ok) ELSE page
                 /\ UNCHANGED <<storeVars, volatile, submits, requests>>

Reads(op, ok) ==
  /\ op.kind = "read"
  /\ LET found == IF ok THEN attempt ELSE volatile
     IN IF ~op.current THEN UNCHANGED <<submits, requests>>
        ELSE IF Reusable(found, op.value) THEN Send(op.value, found)
        ELSE Move(op.value, "prepare", Nothing) /\ UNCHANGED requests
  /\ IF ok THEN UNCHANGED lapsed ELSE Lapses(attempt)
  /\ UNCHANGED <<draft, attempt, page, volatile>>

Keeps(op, ok) ==
  /\ op.kind = "keep"
  /\ IF ok THEN /\ attempt' = op.value
                /\ IF attempt # Nothing /\ attempt.print # op.value.print
                   THEN Lapses(attempt) ELSE UNCHANGED lapsed
     ELSE UNCHANGED attempt /\ Lapses(op.value)
  /\ IF op.current THEN Send(op.value.print, op.value) /\ volatile' = op.value
     ELSE UNCHANGED <<submits, requests, volatile>>
  /\ UNCHANGED <<draft, page>>

CarryOut(ok) ==
  /\ operations # <<>>
  /\ LET op == Head(operations)
     IN Saves(op, ok) \/ Loads(op, ok) \/ Reads(op, ok) \/ Keeps(op, ok)
  /\ operations' = Tail(operations)
  /\ IF ok THEN UNCHANGED mishaps ELSE Mishap
  /\ UNCHANGED <<keys, submission, posting>>
------------------------------------------------------------------------------
(* The server: IdempotentSubmissionService.submit, one transaction whose   *)
(* failure takes the key back.  The recruitment may be over, the session   *)
(* expired.                                                                *)

Verdict(a) ==
  CASE submission # Nothing /\ submission.key = a.key          -> "receipt"
    [] ~(submission # Nothing /\ submission.key = a.key) ->
         IF a.print[2] # posting THEN "stale"
         ELSE IF submission # Nothing THEN "duplicate"
         ELSE "receipt"

Concluded(k, answer) == [submits[k] EXCEPT !.step = "answered", !.answer = answer]

Answer(a, answer) ==
  submits' = [k \in Submitters |->
                IF submits[k].step = "sent" /\ submits[k].attempt = a
                THEN Concluded(k, answer) ELSE submits[k]]

HandleSubmission(a) ==
  /\ requests' = requests \ {a}
  /\ \/ /\ Answer(a, Verdict(a))
        /\ submission' = IF Verdict(a) = "receipt" THEN a ELSE submission
        /\ UNCHANGED mishaps
     \/ /\ Answer(a, "closed") /\ Verdict(a) = "receipt" /\ submission = Nothing
        /\ Mishap /\ UNCHANGED submission
     \/ Answer(a, "expired") /\ Mishap /\ UNCHANGED submission
  /\ UNCHANGED <<storeVars, operations, page, volatile, keys, posting>>

(* The connection breaks, before or after the request was carried out.     *)
LoseAnswer(k) ==
  /\ submits[k].step = "sent"
  /\ submits' = [submits EXCEPT ![k] = Concluded(k, "lost")]
  /\ Mishap
  /\ UNCHANGED <<storeVars, operations, page, volatile, keys, submissionVars>>

Vanish(a) ==
  /\ requests' = requests \ {a}
  /\ Answer(a, "lost") /\ Mishap
  /\ UNCHANGED <<storeVars, operations, page, volatile, keys, submission, posting>>

(* The posting is changed, or the applicant submits from another device.   *)
Elsewhere ==
  /\ \/ posting' = posting + 1 /\ UNCHANGED submission
     \/ /\ submission = Nothing
        /\ submission' = [key |-> 0, print |-> <<MaxForm, posting>>]
        /\ UNCHANGED posting
  /\ Mishap
  /\ UNCHANGED <<storeVars, operations, page, volatile, submits, keys, requests>>

(* A receipt deletes the draft and the attempt, whichever page waits.      *)
TakeAnswer(k) ==
  /\ submits[k].step = "answered"
  /\ IF submits[k].answer = "expired" THEN Unloaded
     ELSE /\ submits' = [submits EXCEPT ![k] = Idle]
          /\ IF submits[k].answer = "receipt"
             THEN /\ Begun([Operation("delete", Nothing) EXCEPT !.current = FALSE])
                  /\ UNCHANGED volatile
                  /\ page' = IF k = "left" THEN page
                             ELSE [page EXCEPT !.mode = "submitted"]
             ELSE UNCHANGED <<operations, page, volatile>>
  /\ UNCHANGED <<storeVars, keys, submissionVars, mishaps>>

(* The effect of the receipt stops the timer, a moment after it is shown.  *)
StopAutosave == /\ page.mode = "submitted"
                /\ page' = [page EXCEPT !.timer = FALSE]
                /\ operations' = Outdated(operations, Autosaves)
                /\ UNCHANGED allButPage
------------------------------------------------------------------------------
ApplicationInit ==
  /\ draft = Nothing /\ attempt = Nothing
  /\ operations = <<>>
  /\ page = NoPage
  /\ volatile = Nothing
  /\ submits = [k \in Submitters |-> Idle]
  /\ keys = 0
  /\ requests = {}
  /\ submission = Nothing
  /\ posting = 0
  /\ lapsed = {}
  /\ mishaps = 0

ApplicationNext ==
  \/ Open \/ Autosave \/ Leave \/ Unload \/ Submit \/ StopAutosave \/ Elsewhere
  \/ \E form \in 0 .. MaxForm, agreed \in BOOLEAN : EditForm(form, agreed)
  \/ \E ok \in BOOLEAN : CarryOut(ok)
  \/ \E k \in Submitters : BodyReady(k) \/ LoseAnswer(k) \/ TakeAnswer(k)
  \/ \E a \in requests : HandleSubmission(a) \/ Vanish(a)

ApplicationSpec == ApplicationInit /\ [][ApplicationNext]_applicationVars
------------------------------------------------------------------------------
(* What the receipt is for is what the applicant submitted: the server has *)
(* stored the contents the page was asked to send, whichever attempt it    *)
(* found and however often it was sent.                                    *)
ReceiptMatches ==
  \A k \in Submitters : submits[k] = Concluded(k, "receipt")
                        => submission.print = submits[k].print

(* Who is told that there is an application already did send another one:  *)
(* the same contents of the same posting have one attempt, unless the      *)
(* store has lost the first, failed to give it back, or had to replace it  *)
(* by the attempt of other contents.                                       *)
DuplicateMeansOther ==
  \A k \in Submitters :
    submits[k] = Concluded(k, "duplicate")
    => \/ submission.key = 0
       \/ submission.print # submits[k].print
       \/ {submission.key, submits[k].attempt.key} \cap lapsed # {}

(* A page that shows its form as saved, or as nothing to save, may be      *)
(* closed without a warning: the store has that form, unless the           *)
(* application has been submitted from this browser.                       *)
Shown == IF draft = Nothing THEN 0 ELSE draft

ClosesOnlySaved ==
  page.mode = "open" /\ page.status \in {"SAVED", "IDLE"}
  => \/ Shown = page.form
     \/ submission # Nothing /\ submission.key # 0
==============================================================================
