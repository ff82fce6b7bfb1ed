# Yesulin: a formal model of its concurrent parts

Yesulin is a service for theatre productions. Actors import a PDF profile and apply to auditions;
producers have the PDFs of applicants read and enriched by an AI model, arrange audition timetables,
and take bookings for their shows. This directory holds TLA+ modules of the parts of it in which
several actors meet (servers, threads, transactions, the extraction worker, the model, callbacks,
scheduled jobs, pages in browsers), the TLC configurations that check them on small instances, and
TLAPS proofs of their safety properties for every instance.

Contents: [1 the system](#1-the-system) · [2 the modules](#2-the-modules-and-the-code) ·
[3 the runs](#3-the-runs) · [4 fairness](#4-fairness) · [5 disagreements](#5-disagreements-with-the-documentation) ·
[6 proofs](#6-what-is-proved) · [7 abstractions](#7-what-the-models-leave-out) · [8 plan](#8-plan)

In the paths below, `pdfextraction/`, `actor/`, `audit/` and so on stand for the packages under
`src/backend/src/main/java/art/yesulin/`.

## 1. The system

### 1.1 Components

| Component | State it keeps | Operations | Talks to | What makes it correct |
|---|---|---|---|---|
| **AI queue** (`pdfextraction/application/ai`, `domain/ai`) | `pdf_ai_jobs`, the one row of `pdf_ai_worker_gate` | `enqueue`, `claim`, `complete`, `fail`, `request` (manual retry), deletion of a job | model providers, handlers of its events, operators' chat channel | at most N leases valid over all servers; only the holder of the last lease writes a result; a settled job stays settled; a bounded number of paid calls; nothing that can be served is held up |
| **Model circuits** (`PdfAiModelCircuit`, `PdfAiRoutingService`) | `pdf_ai_model_circuits` | `acquire`, `rateLimited`, `responded`, `abandon` | the queue, in its transactions | one probe at a time; a circuit never waits for a probe nobody sends |
| **Dispatcher** (`PdfAiDispatcher`) | per server: thread counter, signal version, delayed signal | `wakeUp`, `drain`, `finish`, `wakeUpAfterInterval`, `close` | queue, scheduler, commit listeners | no signal lost, no more threads than allowed, silence when there is nothing to do |
| **Profile import** (`actor/application/profileimport`) | the actor's rows of `pdf_extraction_jobs`, payloads, objects in S3 | `prepare`, `complete`, `close`, `addPhoto`, clean-up after a day | extraction worker, AI queue, S3 | the state shown follows what is stored; one counted import a day; what is deleted stays deleted, everywhere |
| **Extraction jobs and callback** (`pdfextraction/application`) | `pdf_extraction_jobs`, `pdf_extraction_payloads` | upload confirmation, `receive` | worker, queue, import, audit | repeated, late and early callbacks do no harm |
| **Extraction worker** (`src/ops/pdf-extraction-lambda`) | objects under `results/` | one run per S3 event | S3, callback | each run ends in a callback or is reported |
| **Audit review of applicants** (`audit/`) | applicants, their processing status, roles | upload, result, AI answer, manual edits | extraction, queue | the status follows the extraction and AI jobs in whatever order they report; manual choices survive |
| **Review uploads** (`features/pdf-reviews/use-review-uploads.ts`) | the upload list: phase of each file, transfers of the run | choose, run, retry, remove | audit review, S3 | what is reported as uploaded is stored and confirmed |
| **Show reservations** (`show/`, `components/shows`) | show, sessions, reservations; the producer's list | book, cancel, change tickets, memo, change or delete a session, open, close, hide | - | seats and phone numbers are counted right; a cancelled booking stays so, also in the list |
| **Timetable board** (`timetable/`, `features/timetables`) | timetable, actors with slots; a page's copy and draft | save, publish, register, remove, edit, auto-assign | notices to actors | the board stored keeps its limits; page and server agree; edits are kept |
| **Public application** (`features/applications`, `dormant/application/submission`) | draft and attempt in the browser; the submission | edit, autosave, submit, leave, restore | submission interface | one submission, of the contents sent; a draft shown as saved is saved |
| **Workshop events** (`event/`) | events, registrations, images | register, cancel | S3, mail | capacity |
| **SMS notices** (`dormant/`) | outbox rows | send, retry | SMS gateway | each notice at most once (code not wired in) |
| **Accounts, companies, posts, community** | records | single-transaction record keeping | | ownership rules |
| **Files, storage, mail, global web concerns** | S3 objects, tokens | adapters | external services | |
| **Review autosave** (`src/frontend/src/features/pdf-reviews`) | draft, saved text, timer, run, fields of unknown outcome | change, compose, flush, sync, dispose | the review's HTTP interface, the refreshed list | entered text is neither lost nor overwritten; 'saved' means stored |
| **Frontend, the rest** (`src/frontend`) | page state | forms; progress poll, photo upload | HTTP interface | |
| **Deployment** (`src/backend/deploy`) | - | shell scripts | systemd | |

`PROJECT.json` lists every component with its sources and whether it is modelled.

### 1.2 How they interact

A browser asks for an import (`prepare`), puts the file into S3 with a signed address and confirms
(`complete`). S3 tells the extraction worker, which writes images under `results/` and calls back.
The callback (`PdfExtractionResultReceiver.receive`) stores the payload, and, in the same
transaction, either settles the import or inserts an AI job. After that commit an event wakes the
dispatcher of the server; its threads `claim` one job after another under the gate's row lock, call
the model outside any transaction, and settle the job in a second transaction. Settling publishes an
event that is handled in the same transaction (`PdfActorProfileCompletionService.finish` for an
import, the audit's handlers for a review). Any step can be repeated, come late, or be lost with the
server.

A review is filled the same way, by a list of files that a page works off with a bounded number of
workers; its applicants stand for extraction jobs, one per content, and follow their status.

The timetable, the application form and the bookings are pages over their own tables. Each page holds
a copy of what the server has (board, list) or of what the user entered (draft), sends requests, and
takes answers that may be older than its copy; other tabs work on the same rows. The server decides
under row locks; the page repeats part of the decision in order not to let the user into a refusal.

### 1.3 Where it is hard

* A model call lasts longer than its lease: the job is recovered, handed to another worker, and the
  first answer still arrives.
* Limits (slots, request interval, probe) hold over several servers and are kept by one row lock.
* Calls are paid for: attempts are given back by an escalation, used up by lapsed leases and start
  over with a manual retry.
* Unreadable input is closed inside `claim`, and the handlers of that event run inside it as well.
* Signals are merged; a thread may leave while a signal arrives; the poll is only a safety net.
* The callback is repeated, may come before the confirmation, after the AI answer, or after the
  import was deleted; the clean-up is one long transaction over many imports with a snapshot of its
  own while objects in S3 vanish at once.
* The user types while the previous text is on its way, answers are lost, and refreshed lists arrive
  in between, read before or after the save.
* Two files of one content share a transfer; a transfer's answer is lost and the object is there.
* A form is left while its submission or a storage operation is under way, and opened again; the
  submission must be found by its contents and its key.
* A board or a booking is read, changed by somebody else, and written or shown from the older copy.
* Seats are counted while bookings, changes of tickets, cancellations that lock no session, and a
  smaller number of seats interleave.

`PROJECT.json` lists each of these hazards at the line where it bites, with the properties below
that would catch it.

## 2. The modules and the code

| Module | Models | Lines of code it stands for |
|---|---|---|
| `PdfAiJob` | one row of `pdf_ai_jobs` and its transitions | `PdfAiJob.java` |
| `PdfAiModelCircuit` | one row of `pdf_ai_model_circuits` | `PdfAiModelCircuit.java` |
| `PdfAiQueue` | the transactions over those rows and the workers between them | `PdfAiQueueService`, `PdfAiGate`, `PdfAiRoutingService`, `PdfAiWorker`, `PdfAiRetryService` |
| `PdfAiLedger` | the abstract specification: jobs and slots | what `PdfAiQueue` is shown to implement |
| `PdfAiQueueMC` | names of jobs and symmetry for TLC | |
| `PdfAiDispatcher` | threads, signals and timers of every server | `PdfAiDispatcher.java`, `PdfAiQueuedEventHandler` |
| `ProfileImport` | one actor's imports from `prepare` to clean-up | `ProfileImportService`, `PdfExtractionJob`, `PdfExtractionResultReceiver`, `PdfActorProfileCompletionService`, `jobs.py` of the worker |
| `ReviewAutosave` | the autosave of one applicant's title and memo in the browser, the refresh, the server's columns | `review-autosave.ts`, `use-review-autosave.ts`, parts of `screening-board.tsx`, `use-pdf-reviews.ts`, `AuditService` |
| `ReviewAutosaveMC` | a title in two spellings and a text too long, for TLC | |
| `ReviewIntake` | the upload list of a review, its extraction jobs and the status of its applicants | `use-review-uploads.ts`, `PdfExtractionService`, `PdfExtractionResultReceiver`, `AuditExtractionService` |
| `ApplicationForm` | draft, submission attempt and stored submission of a public application | `use-public-application-draft.ts`, `submission-v1.ts`, `public-application-draft-store.ts`, `public-application-context.tsx`, `IdempotentSubmissionService` |
| `TimetableBoard` | the timetable, the page that edits it, other tabs | `board-draft.ts`, `timetable-manager.tsx`, `TimetableBoard.java`, `TimetableService` |
| `SeatReservation` | the seats of one session, visitors, the producer's list, transactions with their locks | `ReservationService`, `Reservation`, `ShowSession`, `ShowManagementService`, `session-reservations.tsx` |
| `SeatLedger` | the abstract specification: seats and who holds how many | what `SeatReservation` is shown to implement |
| `BrowserTab` | the four pages above as the routes of a tab, for TLC | |
| `PdfAiQueueProofs`, `PdfAiDispatcherProofs`, `ProfileImportProofs`, `ReviewAutosaveProofs`, `ReviewIntakeProofs`, `ApplicationFormProofs`, `TimetableBoardProofs`, `SeatReservationProofs` | theorems and proofs | |

`PROJECT.json` maps every definition to its lines.

### 2.1 The queue

`jobs`, `circuits` and `nextRequestAt` are the three tables; `inflight` holds the `PdfAiWork` of
workers that wait for a model, i.e. the state between the two transactions of `PdfAiWorker.tick`;
`notices` are the failure notices operators may answer; `retries` and `calls` are history.

One database transaction is one action. This is what the locks give: `claim` locks the gate row
before it reads anything else and its queries for expired and eligible jobs are
`PESSIMISTIC_WRITE`; `complete`, `fail` and the retry lock the job row first, and circuits are
locked after jobs everywhere. The count of valid leases is not locked, but it follows the gate lock,
and the first unlocked read of a transaction fixes its REPEATABLE READ snapshot, so it sees every
commit before the lock was granted. A transaction reads its clock once at its start; the model
takes that instant and the commit as one, and one clock for all servers, which
`ai-processing.md` requires.

| Action | Code |
|---|---|
| `Enqueue(j, skipped)` | `PdfAiQueueService.enqueue`, with its five reasons to skip as one choice |
| `Claim` | `claim`: a page of expired leases is recovered, the slots are counted, the heads of the primary and the escalation route are tried in order of their due time, each with the circuit's permit, the lease and the parsing of its input (`Try`), and the gate is moved on. The transaction does not commit when a handler throws (`HandlerThrows`) |
| `Complete`, `Fail`, `Ignore` | the second transaction of `tick`, by whether the lease is still owned, with the observation handed to the circuit; a failing handler in `complete` rolls back and becomes a transient `Fail` |
| `WorkerLost` | the server stops during the call |
| `Retry` | `PdfAiRetryService.request`, with the values of any notice ever shown |
| `Delete` | `ProfileImportService.delete` seen from the queue: any time after the job exists |
| `Tick` | the clock |

### 2.2 The dispatcher

`pc` is where each thread of a server is, with one step per synchronized block, claim and model
call. `wakeVersion` is unbounded in the code and only ever compared for equality with the value a
thread read before, so the model keeps whether that comparison would hold (`seen`). Instants are
kept as the time left until them, so that no bound on the clock is needed and liveness can be
checked. The database is reduced to what a claim sees of it; a lease whose
server is gone may hold a slot throughout. `StartWorkers` is `startWorkers()`
including its rule that only one thread is started while requests must be spaced.

### 2.3 The import

`rows`, `payload`, `ai` are tables; `source` and `results` say for which imports objects exist;
`runs` holds the stages in which runs of the worker are; `sweep` is the clean-up transaction in
progress: the page it read (`todo`), the payloads its snapshot sees (`seen`), the rows it has locked
and deleted. Requests, callbacks and AI answers are single transactions that lock the member or the
import first and are one action each; `Free(i)` is the row lock the clean-up may hold. The
clean-up is split into its first query, one step per import and the commit, because objects in S3
disappear at each step, while rows change at the commit.

Ages replace instants: an age stops growing at one more than the longest period anything compares
with, so the clock runs forever in a finite state space. `Delete` of the queue corresponds to
`Close` and `SweepCommit` here, and `Enqueue` to `Receive(i, TRUE, _)`; `ai` is the queue reduced to
whether an answer is still to come.

### 2.4 The autosave

`store` is the object of class `ReviewAutosave`; each method is an operator from its fields to its
fields (`Change`, `Sync`, `Flush`, `Drain`, `Confirm`, ...), with the order of the code's steps. One
action is one task of the browser with the microtasks it starts: `flush` and the loop up to the
first request are one action, and so are the end of a request, the loop up to the next one or the
end of the run, and its `finally`.

Around it: `reply` and `late` are the request in flight and those the page gave up after 15 seconds
but the server may still carry out; `reading`, `detail`, `latest`, `props` follow a value from a
refresh through the state of `usePdfReviews` and the board's ref to the effect that calls `sync`.
A confirmed save makes an older refresh stale (`detailSeq`), which is `reading' = None`.

| Action | Code |
|---|---|
| `Type`, `ComposeStart`, `ComposeEnd`, `AskFlush`, `Dispose` | events of the two inputs, navigation, retry, unmounting |
| `TimerFires` | the timer of `schedule` |
| `Answer`, `NoAnswer` | `renameTitle` / `saveMemo` with `publishField` and `replaceEntry`, then the rest of `saveField` and of the loop |
| `Apply`, `LateWrite`, `OtherWrites` | `AuditService.renameEntry`, `updateMemo` for this page, for a request it gave up, for another editor |
| `Refresh`, `Arrive`, `Render` | `loadDetail` and React's render with its effects |

`ver` of a stored field and `by` are history: they tell older from newer and whose write it was.
`typed` remembers what the user entered last and nobody confirmed.

### 2.5 Uploads into a review

A source is the content of a file; a review has one job per checksum, so `jobs`, `ai` and
`applicants` are per source, `content` says which file has which. `rows` is the page's list: the
phase shown, the request a line waits for (`step`) and the answer on its way. `Begin` is a worker
taking a file, `Prepared`, `Checked`, `Joined`, `PutDone`, `Confirmed` are the code between two
`await`s of `uploadOne`; `Joins` is its map of transfers, which makes the second file of a content
wait. `Serve` is the server carrying out a request, `Lose` a lost request or answer, `Lapse` the
upload address running out. `OtherTabSteps` are the same requests sent by nobody the model names:
another tab, or the run of a page that was left. `Callback` and `AiAnswers`/`AiFails`/`AiRetried` are
the transactions that move an applicant on; the queue behind them is `PdfAiQueue`.

### 2.6 The application form

`operations` is the queue of the browser's database: operations are begun in order, carried out in
order (`CarryOut`), and each may fail. `current` is whether anybody still waits for the result (the
page's sequence number, its mount flag, the document). `submits` has one place for the page and one
for the page left by the application's own navigation, whose submission goes on; both share the
preparation of equal contents, as the map in `submission-v1.ts` does (`Move`). `print` is the
fingerprint: form and version of the posting. The server is `Verdict`: one transaction that finds
the key, refuses a changed posting, refuses a second application, or stores. `lapsed` is history: the
keys the store has lost, which is the only excuse for a wrong "already applied".

`IdempotentSubmissionService` is in the `dormant` package: the present screens do not call it
(`src/backend/docs/architecture.md:18`), but the form's code on both sides is kept and tested together.

### 2.7 The timetable

`table` and `roster` are the tables, `sheet` the page's `board` and `draft`, `op` and `extra` its
requests. A transaction of the server is one action, as each locks the row of the timetable first.
An answer carries the board of that moment and may be taken after other requests were carried out or
answered; `Answered` is `run`'s rebase, with the closure `register` keeps and the ref the others
use. `ReceiveError` is a refusal or a lost connection, before or after the server did it. A slot is
its rank in time, the setting is the set of slots it amounts to. `others` counts what the bound
`MaxOthers` limits: transactions of other tabs and the page's own requests for texts (`SaveInfo`). `Filled` is the loop of
`autoAssign`. `shown` is history and only kept by the run about it (`RecordShown`): the last saved slot
the page drew.

### 2.8 The bookings

A transaction is one action per lock it waits for: `stage` is where it stands, and a row is locked
while some transaction is at a stage that holds it (`ShowLocked`, `SessionLocked`, `RowLocked`).
Reads without a lock (`ReadToCancel`, `ReadForMemo`) keep a copy in `row`, which is what the entity
holds until its transaction ends; `MemoWrites` is Hibernate's update of changed columns only.
Bookings, changes of tickets and changes of a session run in READ COMMITTED
(`ReservationService.java:41-45`), so a query under a lock sees what was committed last; MySQL's locks
themselves are assumed. Opening and closing the show are read and
written without a lock in between; as what they read decides only about themselves they are one
step. `AskChange` may ask for any number of tickets, as the page's own limit comes from a list that
may be old and the server checks it again.

`SeatLedger` is what this promises to anyone who looks at the tables: a ledger in which each entry -
book, give up, change, resize, offer or stop offering, end - is checked and made in one step.
`ImplementsSeats` maps the rows to it: a confirmed booking is an entry under its number, a cancelled one
is none, and bookings are taken when the show is open and not hidden and the session there and not
started.

### 2.9 The tab

The pages above share no state, so `BrowserTab` adds a `route` that never changes: each of its
behaviours is one of the page opened, and one run checks all four specifications. It claims nothing
about their interaction, because there is none.

## 3. The runs

| Run | Checks | Instance, and why it is enough |
|---|---|---|
| `queue_circuit` | `TypeOK`, `ResultOfLastLease`, `ProbeBacked`, `OneProbeInFlight`, `SpacedLeases`, `WorkConserving`, `SettledStays`, `ImplementsLedger` | a review's job and an import's, two slots, two models, clock up to 6. A lease and a circuit's waiting time are 2, so a lapsed lease, its recovery, a late answer, a refused probe and the longer second waiting time all fit; `RecoveryPage` 1 makes recovery partial |
| `queue_capacity` | `LeaseCapacity`, `CallBudget`, `NoNoticeReplayed` | two jobs for one slot, two attempts, two manual retries each, so that a notice, a second failure at the same instant and the old notice occur |
| `queue_damaged` | `WorkConserving` is violated when a payload may be unreadable | the shortest instance that shows it (section 5) |
| `dispatcher` | `WorkersWithinLimit`, `OneDelayedWake`, `NotStranded`, `SignalHeard`, `Quiesces`, `DrainsWithoutPoll` | two servers of two threads that take the gate from each other, and the only slot too when a lost server still holds the other (`MaxOrphans`); an interval of 1, two jobs, one failure or shutdown at any point |
| `import` | `PhaseFollowsData`, `OneCountedUnlessOvertaken`, `ObjectsFollowed`, `NothingRestored`, `EventuallyDeleted` | two imports prepared on one day of length 2 with a window of 0 and a keeping time of 2, so that an import outlives its window, the day and the keeping time; a page of both in the clean-up; one repetition, storage failure, roll-back or abandoned run |
| `import_daily` | `OneCountedPerDay` is violated | section 5 |
| `import_leftover` | `DeletedLeavesNothing` is violated | section 5 |
| `autosave_edits` | `ReleasedWhenStored`, `EnteredIsKept`, `NothingForgotten`, `SavedNeverFallsBack` | three texts (a title, the same with spaces, one too long); any three edits, writes of others and late writes, each field stored twice: an edit, its reversal during the request and another editor's text meet, as do two saves and a list read between them; refreshes, lost answers, retries and composition are not bounded |
| `autosave_late` | `RetrySettles` is violated | section 5 |
| `pages` | uploads: `ApplicantFollowsJob`, `ReportedIsStored`; form: `ReceiptMatches`, `DuplicateMeansOther`, `ClosesOnlySaved`; timetable: `SavedFits`, `RefusedOnlyWhenStale`, `NoticesAsListed`, `KeepsEdits`; bookings: `SeatsFit`, `OnePerPhone`, `BookedSessionsStay`, `CanceledIsFinal`, `ImplementsSeats` | uploads: two files of one content, two workers, other tabs without a bound; form: two contents, two keys, one storage operation begun at a time beside those of a submission, one mishap (so that a lost answer, a failed read or a changed posting meets a second submission); timetable: two actors, two slots of which one is offered at first, capacity 1, one transaction of another tab or request for texts; bookings: two visitors, two phone numbers, two seats, two bookings, two calls of the list under way, one change of the show or session |
| `board_overwrite` | `OverwritesOnlyShown` is violated | section 5 |
| `seats_exported` | `ExportsNoCanceled` is violated | section 5 |

What the properties say, beyond the comments in the modules:

* **`ResultOfLastLease`, `SettledStays`** - a late answer never settles or overwrites anything, be it
  before or after the lease was recovered, and no callback brings a settled or deleted job back.
* **`ProbeBacked`** - a half-open circuit that has not timed out has a running (or deleted) job whose
  lease ends with the probe: the circuit is never stuck behind a probe that was dropped because the
  job turned out unreadable.
* **`WorkConserving`** - with the gate open and a slot free, a due job whose model admits calls is
  never held up: whatever page and order `claim` takes, it commits and hands out or closes a job.
* **`CallBudget`** - per generation at most `max-attempts` model calls, one more after an escalation,
  although an escalation decrements the counter the limit is compared with.
* **`NoNoticeReplayed`** - an old notice cannot restart a job that failed again with the same attempt
  count at the same instant: that is what the retry generation is for.
* **`PhaseFollowsData`, `OneCountedUnlessOvertaken`, `NothingRestored`, `ObjectsFollowed`,
  `EventuallyDeleted`** - see section 2.3; `ObjectsFollowed` says that whatever the worker or a second
  upload leaves in S3 for a deleted import is followed by a callback that discards it.

* **`ReleasedWhenStored`, `EnteredIsKept`, `SavedNeverFallsBack`** - the three ways an autosave loses
  text: it says saved when the server holds something else, a refreshed list replaces unsaved text,
  or an older list replaces saved text. `NothingForgotten` is the fourth: unsaved text that nothing
  will save or report. It is stated as an invariant (what is waiting always has a timer, a bounded
  request, an error or a composition), which implies the progress one wants and needs no fairness.

* **`ReportedIsStored`, `ApplicantFollowsJob`** - the two ways the review's list misleads: a file that
  is reported and was not stored, and an applicant that falls back when a confirmation comes after
  the callback.
* **`ReceiptMatches`, `DuplicateMeansOther`** - a submission sent again, from whichever page, is the
  same submission; "already applied" is told only to who sent something else, unless the browser's
  store lost the attempt.
* **`RefusedOnlyWhenStale`, `NoticesAsListed`** - the page repeats the server's rules over its own
  copies; these say that they agree as long as the copy is the stored board.
* **`SeatsFit`, `OnePerPhone`, `BookedSessionsStay`, `CanceledIsFinal`** - each is decided from a read,
  and holds only because that read follows the lock (or, for a memo, because only changed columns
  are written). `ImplementsSeats` asks the same of a whole transaction: what it found under the first
  lock (the show is visible and open) must still be so when it writes under the last.
* **`NotStranded`** - threads leave when the gate is shut or the slots are taken, and rely on somebody
  else to come back: another server's thread, a signal not yet sent, or a timer. While nothing has
  failed, a due job always has one of these. It is the safety side of `DrainsWithoutPoll`.

Every bound is a constant of its module: `MaxTime`, `MaxGeneration` (queue), `MaxJobs`, `MaxFaults`
(dispatcher), `LastDay`, `MaxFaults` (import), `MaxEvents`, `MaxVersion` (autosave), `MaxForm`,
`MaxAttempts`, `MaxWrites`, `MaxMishaps` (form), `MaxActors`, `MaxCapacity`, `MaxOthers`
(timetable), `MaxBookings`, `MaxCalls`, `MaxEdits` (bookings). They are chosen so that each run
takes a minute or two. Their properties were also checked once beyond them, with the same result:
the import over two days (`LastDay` 1), the dispatcher with two failures, the autosave with a
fourth, blank text, the uploads with two contents and with three files, the form with two storage
operations begun at a time and with `MaxMishaps` 2 (7.4 million states), the timetable with two
transactions of others and with texts requested without a bound, the bookings with no bound on the
calls under way (14.7 million). And every safety property of a passing run has a theorem for all
values (section 6). Deadlock is not checked for queue and dispatcher: the queue's clock is bounded,
and a dispatcher that is closed or has nothing to do really stops; so does the autosave of a page
that was left. A page of `BrowserTab` stops when its bounds are used up. `ProfileImport` never
stops, and its runs check for deadlock.

For each property of a passing run, `PROJECT.json` names a mutant - a plausible bug in a mapped
definition - under which TLC finds the property violated in that run.

## 4. Fairness

* Queue, autosave and the four pages: none; their properties are safety properties.
* Dispatcher: weak fairness of every thread (the executor runs them, model calls time out), of the
  commit listener, of the scheduled task and of the clock. No job must arrive, nothing must fail and
  the 5-second poll is absent, so `SignalHeard` and `DrainsWithoutPoll` do not rely on it.
* Import: weak fairness of the clean-up (a fixed-delay schedule) and of the clock. Uploads, runs,
  callbacks, AI answers and the actor may never come.

## 5. Disagreements with the documentation

1. **`queue_damaged` / `WorkConserving`.** `PdfAiQueueService.java:133` says an unreadable input is
   closed so that it does not block the queue. For an actor's import whose payload is missing or
   unreadable, the failure event is handled in the same transaction by
   `PdfActorProfileCompletionService.finish`, which reads the payload again and throws. The claim
   rolls back, the job stays at the head, and every later claim meets it again.
2. **`import_daily` / `OneCountedPerDay`.** The import is documented as once a day
   (`ProfileImportService.java:42`, `docs/api.md:1112`). The limit is looked at in `prepare` only: an
   import uploaded in time but not confirmed within its window no longer is in progress, a second
   one is admitted, and when both callbacks come, both count.
3. **`import_leftover` / `DeletedLeavesNothing`.** The clean-up's first query fixes the snapshot of its
   transaction; the payload lookup in `delete` (`ProfileImportService.java:185`) is an unlocked read
   in it. A callback that commits in between leaves a payload that the clean-up does not see; the
   import is marked deleted and never looked at again (`docs/policies/pdf-processing.md:25` says the
   payload is deleted).

4. **`autosave_late` / `RetrySettles`.** A test (`review-autosave.test.ts:67`) states that sending the
   text again settles what the server holds after a request of unknown outcome. Giving a request up
   after 15 seconds (`api.ts:37`) does not stop a server that has it queued, and the server takes
   writes in any order: the older text may be written after the retry, while the page shows the
   newer one as saved.

5. **`board_overwrite` / `OverwritesOnlyShown`.** `board-draft.ts:114` and `TimetableBoard.java:43` say that
   a slot changed meanwhile is not overwritten, because a save sends along the slot the page saw
   before. What it sends is the slot of the page's copy of the board. The answer to a removal, a
   registration or a changed text replaces this copy, while `rebaseDraft` (line 151) keeps the slot the
   producer edited, and the page draws only that one. The next save then replaces a slot of another
   tab that the page never showed.
6. **`seats_exported` / `ExportsNoCanceled`.** The list leaves cancelled bookings out of what it exports
   (`session-reservations.tsx:53`, and line 210 tells the producer so). `updateMemo` answers with the
   copy it read without a lock (`ReservationService.java:122`); if the booking is cancelled before
   the memo commits, its answer still says CONFIRMED, and the page puts it over the cancelled row
   (`session-reservations.tsx:90`). The database is right (`CanceledIsFinal`), the list is not.

## 6. What is proved

Every invariant, action property and refinement of a passing run has a theorem, for every value of
the constants allowed by the `ASSUME`s of the modules. Those of the queue state no more than the
configuration's own validation does (positive limits, a longest waiting time not below the first);
those of the import hold of the literals in the code (the window and the day within the keeping time
of 24 hours). `NoneAssumption` (autosave) and `NothingAssumption` (application form) say that null
is none of the values it stands beside. One theorem has a hypothesis of its own, `ClaimsConserve`,
see below.

**Queue** (`PdfAiQueueProofs`). `Inductive` proves `[](IInv /\ LeaseCapacity)` with
`IInv == TypeOK /\ ResultOfLastLease`. The second conjunct is needed with the first: that a stored
result is the last lease's answer rests on a running row's token being the last one drawn, which is
the part `Leased` of the type invariant. The argument goes bottom-up: each transition of a row or a
circuit maps sound rows to sound rows (`AcquireSound`, `ReleaseSound`, ...); the loop of `claim`
keeps `SoundTx`, in which the valid leases are those before the transaction and at most one more,
and only if a slot was free; then one lemma per action. For capacity the other actions only have to
take leases away. From it follow `TypeCorrect`, `CapacityKept` and `ResultCorrect`.

**Ledger** (`PdfAiQueueProofs`). `SettledKept` and `LedgerImplemented` (the refinement). A job may be
changed by `claim` only if it is `Claimable`: open and without a valid lease. `Faithful` says that the
transaction in progress differs from the rows it began with on such jobs only, and that of those at
most one, the one granted, has a valid lease. The recovery and each turn of the loop keep it, so a
commit is a step `Assign` of the ledger: open jobs without a slot may be given up, and one may get a
free slot. `Tick` is `Lapse`, an answer is `Answer` because only the holder of a valid lease settles.

**What a claim counts** (`PdfAiQueueProofs`). `StepKinds` sorts the steps once: a claim, an answer recorded,
a row inserted, restarted or removed, or nothing but the clock and forgotten work. Each of four
invariants is then kept by one lemma for a turn of the claim's loop and one case per kind of step.

* `Generations`: the notices a job has accepted are numbered by its generations, so no two are equal
  (`NoticesOnce`). The generation is what tells notices apart when job, attempts and time agree.
* `Budgeted`: the calls of a generation never exceed its attempts, plus one that an escalation gives
  back, and a pending row has attempts left (`BudgetKept`). `CallBudget` alone is not inductive: the
  next lease is limited by the attempts, not by the calls.
* `Spaced`: the gate opens no earlier than an interval after the last running lease was granted
  (`LeasesSpaced`); that a second lease is spaced from the first can only be seen at the gate.
* `Tracked`: who carries which probe token. A half-open circuit waits for the last token it drew, two
  works never share one, a probe with a valid lease is the one its circuit waits for, and a waiting
  circuit has a job whose lease ends with the wait. `ProbesAreBacked` and `ProbesAreSingle` follow;
  each alone is lost when a repeated claim draws a new token while an older answer is on its way.

`ClaimsConserve` needs no further invariant, but the assumption that stored payloads can be read
(`"payload" \notin Damages`). Without it the property is false: that is the run `queue_damaged`.

**Dispatcher** (`PdfAiDispatcherProofs`). Two invariants that need no fact about the queue. `ThreadsInv`: the
counter of a server is the number of its threads that are not idle. `finish` first takes the thread
away and then starts as many as are missing, so one lemma about starting (`StartedWorkers`) serves the
signal and the exit. `TimersInv`: flag and timer agree on a server that is not shut down, and neither
the timer nor the time of the next wake-up exceeds the interval. `ThreadsLimited`, `DelayedWakeKept`.
`SignalInv` adds the versions: while a signal is unheard, a thread that has read the current version is
about to claim, and an open server has a thread at all, because the one that leaves without having
seen the signal starts another (`LeaverReplaced`). `SignalsKept` follows: somebody will look. `JobsInv`
is about due jobs while nothing failed: leases counted as taken are held by threads, or by lost servers
(at most `MaxOrphans`, fewer than there are slots), and a shut gate was shut by a thread about to book a
timer, or opens before some timer has run out. `NotStranded` alone is not inductive: a thread that
finds no slot may leave only because the count shows a thread that will come back, and one that finds
the gate shut only because of that timer. `NothingStranded`. These two are what `SignalHeard` and
`DrainsWithoutPoll` rest on; that the one who is left does act is fairness, and stays with TLC.

**Import** (`ProfileImportProofs`). `IInv == TypeOK /\ PhaseFollowsData /\ Dated /\ Fresh /\ Bare /\ Rivals`.
`Fresh` (nothing runs for, or cleans up, an import that was not prepared) makes `Prepare` safe; `Bare`
(a deleted import has no AI job) is what keeps a late answer from reviving it; `Dated` (an import of
today is no older than the day) together with `DayLength <= Keep` shows that the daily limit's query,
which only looks back `KEEP_FOR`, sees every import of the day; `Rivals` is the limit itself in
inductive form: of two imports of a day, one was overtaken or will never count. `Prepare` keeps it by
cases of the other import's status: unconfirmed ones become overtaken, queued ones block unless they
are deleted, finished ones block if they counted. `TypeCorrect`, `PhaseCorrect`, `DailyLimit` and
`DeletedStays` follow. `ObjectsLeave` has an invariant of its own, `Followed`: it must already hold of
the imports a clean-up is about to delete, since storage is emptied before the commit and a run may
write in between, and it tells the two kinds of objects apart: results need a run that is about to
call back, a source any run.

**Autosave** (`ReviewAutosaveProofs`). The methods of the object first: what `drain`, `sync`, `finish` and
the rest do to a field (keep it, adopt a value, send it) and to the control columns. Then
`IInv == TypeOK /\ SoundObject(store) /\ Entered /\ Traced`. `SoundObject`: the state shown admits what
is dirty, and something attends to it (`TextAttended`). `Entered`: text the user entered and nobody
confirmed is shown and not settled, so no list is adopted over it (`EntriesKept`). `Traced` orders the
versions along the way from the server: what is saved is no newer than the board's entry, that no
newer than the page's, that no newer than the column, and the same for values put aside and for lists
on their way; equal versions mean equal text. `LeaveIsSafe` and `SavedMovesForward` are read off
`Traced`: a write of this page is what is saved, or uncertain, or its answer is on its way.
`AutosaveTyped` is the type invariant; like that of the import, no run checks it by itself.

**Uploads** (`ReviewIntakeProofs`). `IntakeInv == ServerOK /\ PageOK`. `ServerOK` relates object, job, AI job and
applicant of each source; `RowOK` says that what a line knows, or has on its way to it, was true when
the server answered. It stays true because the server only gains (`Grows`): jobs, objects and
confirmations are never taken back. Each server transaction is a lemma about one source, each step of
a worker one about one line. `ApplicantsFollow` and `ReportsAreStored` follow, for any number of files,
contents and workers.

**Application form** (`ApplicationFormProofs`). Two invariants. `AttemptInv` is about the submission attempts
of one browser: an attempt is known by its key, of two attempts for the same contents the older one is
lapsed, every other one is in the store or queued for it in the order of keys, whoever prepares a new
attempt has found none of these contents, and two pages that submit the same contents share one
preparation. `ReceiptsMatch` and `DuplicatesAreOther` follow: an answer belongs to the attempt that
was sent, and equal contents have equal keys unless the store lost one. It needs no fact about
drafts. `DraftInv` is about the queue of storage operations: a load the page waits for comes after
every write, an edit outdates the writes before it, a current write carries the form shown, and while
the page says saved nothing queued can change the stored draft (`SavedMayClose`). It holds until the
application was submitted from this browser.

**Bookings** (`SeatReservationProofs`). `SeatInv` adds to the shape of rows and calls what a lock is worth:
`OneHolder` (the transactions that hold the session exclude each other), `StillFree` (what a booking
found out under its lock is still so when it inserts) and `LockedIsConfirmed` (a locked row is
confirmed until its tickets are written). From it `OneConfirmedPerPhone`, `BookedSessionsAreKept` and,
as an action property, `CanceledStaysCanceled`. `SeatsNeverOversold` adds two facts: a change of
tickets that holds the session holds it alone, and the tickets it is about to write fit beside those
of the other rows (`FitInv`). The database's sum is modelled as the cardinality of a set of pairs (row, k-th
ticket), so adding, dropping or changing one row is a fact about disjoint finite sets and no induction
over the rows is needed.

`SeatsImplementLedger` is the refinement, step by step: the insertion of a booking is `Book`, a
cancellation `GiveUp`, the writing of tickets `Change`, an edit of the session `Resize` or `End`, and
what opens, closes, hides or starts is `Offer`; everything else leaves the ledger alone. Each guard of
the ledger must hold at the moment of the write, not of the check. For the seats, the phone number and
the locked row that is `SeatInv` and `FitInv`; for the show it is `AdmittedInv`: once a booking has the
show's lock the show is not hidden, once it has the session's the show is open, and a session about to
be edited exists.

**Timetable** (`TimetableBoardProofs`). `BoardInv`: the stored board fits its own limits; the page's draft is
one of the actors of the page's board (`SheetOK`), whatever answer arrived when; and what a save
carries is what the page computed from the board and draft it was sent from (`SaveOK`). When that
board is still the stored one, the moves applied give exactly the draft's slots (`SameSlots`), so the
two rules and the two lists of notices are the same: `StoredBoardFits`, `RefusalsAreStale`,
`NoticesAreListed`. `EditsKept` is an action property of `RebaseDraft` alone: an edited slot survives
every board an answer brings. That fewer actors in a slot need no more room is the library's theorem about
subsets of a finite set; what `autoAssign` computes is not needed, only whose slots it computes.

**Only model-checked.** `SignalHeard`, `DrainsWithoutPoll`, `Quiesces` and `EventuallyDeleted` are liveness
under fairness, which the prover cannot handle. The properties of the runs that expect a violation
are false of the code and have no theorem. No module uses a RECURSIVE operator.

## 7. What the models leave out

* Queue: provider, prompt version, error codes, role snapshots and the text itself (a result is the
  lease token of the attempt that produced it). `createdAt`, the tie-break of jobs due at the same
  instant, is a nondeterministic choice. Input is unreadable ("damage") from the start or never:
  role snapshots matter to both kinds of job, payloads are read again by the import's handler. A row
  of a circuit is inserted lazily; it exists from the start in the state it is inserted in.
* Dispatcher: `RejectedExecutionException` (only after the executor's shutdown), the poll.
* Import: `addPhoto` (a copy into another library); the refusal of a callback whose content differs
  from the stored one changes nothing and is the same step as a repetition; a deadlock victim among
  two transactions is a repetition or a rolled-back clean-up. One clean-up runs at a time (ShedLock)
  and takes less than one unit of time. Imports of other actors meet this actor's in the clean-up
  only, where the page's limit is kept (`CleanupBatch`).
* Extraction of text and images, parsing of answers, HTTP, mail, S3 beyond the existence of objects.
* Autosave: React is reduced to "a render and its effects run together, some time after the state
  changed"; leaving the applicant is committed before the next event. An entry that vanished from the
  list, the decision button (which repeats the memo) and role changes are left out. What happens to
  the entry after the page was left no longer concerns the object. The title's normalisation is one
  function for the trimming in the page and the normalisation in the server.
* Uploads: hashing and refusal of files, the limit of 800, progress shown; roles, decisions and the
  fields the AI fills in.
* Application form: photos as such (a form is one value; only that one may fail to be read), texts too
  long for the store, submission by a one-time code, saving to the profile, withdrawal.
* Timetable: the actor's own invitation page (attendance, wish for another time), texts of notices,
  the printed sheet, deletion of old timetables. The page's requests for text and template change no
  slot and are one request, `SaveInfo`.
* Bookings: drafts and deletion of a show, adding sessions, shows sold elsewhere, the visitor's lookup,
  the administration's service. The producer's page loads its list once; loading again after an
  error or a return is a new page.
* Most of the frontend is rendering and forms over single requests: it has no state of its own that
  several actors change, and is not modelled. That is why the models stand for a small share of the
  repository's lines.
* Components marked not modelled in `PROJECT.json`, for the reasons given there.

## 8. Plan

Done: queue, circuits, ledger, dispatcher, import, autosave, uploads, application form, timetable, bookings;
proofs of every invariant and action property of the passing runs, and of both refinements.

Next, in this order:

1. A composition of `PdfAiDispatcher` with the queue's heads of both routes, unreadable input and
   back-off, to settle which jobs wait for the poll.
2. The actor's invitation to a timetable, beside the board: a wish for another time, attendance, and
   the notice that arrives after the board changed again.
3. The browser's progress poll (`use-review-progress.ts`) and photo upload (`photo-upload-task.ts`);
   roles and decisions of an applicant against late AI answers.
4. Workshop registrations, and the SMS outbox if the parked code is wired in.
5. Proofs: for the clean-up what `NothingStranded` is for the dispatcher (one that is not rolled back
   leaves fewer candidates), and an abstract specification of the application's submission.
