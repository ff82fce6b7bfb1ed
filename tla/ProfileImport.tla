---------------------------- MODULE ProfileImport ----------------------------
(***************************************************************************)
(* How an actor's PDF profile is imported (ProfileImportService): prepare, *)
(* upload, the extraction worker and its callback, the AI answer, closing  *)
(* and the clean-up after a day.  The rows are those of one actor: imports *)
(* of different actors meet only in the clean-up.                          *)
(*                                                                         *)
(* A request is one transaction and one action: it locks the member or the *)
(* import first.  The clean-up is one transaction over many imports: what  *)
(* it reads without a lock it reads as of its first query, it locks one    *)
(* import after the other, and its changes show when it commits, while the *)
(* objects in S3 are gone at once.  Instants appear as ages, counted up to *)
(* one more than anything is compared with.                                *)
(***************************************************************************)
EXTENDS Integers, FiniteSets

CONSTANTS
  Imports,
  UploadWindow,     \* UPLOAD_WINDOW
  Grace,            \* the 60 seconds of isInProgress
  Keep,             \* KEEP_FOR
  DayLength,        \* 24 hours: Asia/Seoul has no daylight saving time
  CleanupBatch,     \* CLEANUP_BATCH
  LastDay,          \* bound: imports are prepared up to this day
  MaxFaults         \* bound: storage failures, roll-backs, repeated and abandoned runs

ASSUME ImportAssumption ==
  /\ IsFiniteSet(Imports)
  /\ UploadWindow \in Nat /\ Grace \in Nat /\ Keep \in Nat
  /\ DayLength \in Nat \ {0} /\ CleanupBatch \in Nat \ {0}
  /\ LastDay \in Nat /\ MaxFaults \in Nat
  /\ UploadWindow + Grace <= Keep /\ DayLength <= Keep

VARIABLES
  hour, day,        \* the clock, and the date in Asia/Seoul
  rows,             \* pdf_extraction_jobs
  payload,          \* pdf_extraction_payloads, by import
  ai,               \* pdf_ai_jobs: "none", "open" (pending, running), "settled"
  source, results,  \* imports with objects under inputs/ and under results/
  runs,             \* stages the extraction worker's runs are in, by import
  sweep,            \* the clean-up's transaction
  faults,           \* counted against its bound
  lost,             \* history: imports of which a run was given up
  overtaken         \* history: unconfirmed past the window at another's prepare

vars == <<hour, day, rows, payload, ai, source, results, runs, sweep, faults, lost, overtaken>>

clock   == <<hour, day>>
history == <<lost, overtaken>>

Never == -1         \* the age of finishedAt when it is null

NoRow == [status |-> "NONE", age |-> 0, finishedAge |-> Never, day |-> 0,
          counted |-> FALSE, deleted |-> FALSE]

Idle == [on |-> FALSE, todo |-> {}, seen |-> {}, locked |-> {}, gone |-> {}]

Init ==
  /\ hour = 0 /\ day = 0
  /\ rows = [i \in Imports |-> NoRow]
  /\ payload = {}
  /\ ai = [i \in Imports |-> "none"]
  /\ source = {} /\ results = {}
  /\ runs = [i \in Imports |-> {}]
  /\ sweep = Idle
  /\ faults = 0
  /\ lost = {} /\ overtaken = {}

Free(i) == i \notin sweep.locked

Fault == faults < MaxFaults /\ faults' = faults + 1

-----------------------------------------------------------------------------
(* PdfExtractionJob. *)

InProgress(row) ==
  \/ row.status = "QUEUED"
  \/ row.status = "UPLOADING" /\ row.age <= UploadWindow + Grace

ConfirmUpload(row) == IF row.status = "UPLOADING" THEN [row EXCEPT !.status = "QUEUED"] ELSE row

Finish(row, counted) ==
  [row EXCEPT !.status = "FINISHED", !.finishedAge = 0, !.counted = @ \/ counted]

(* Mutant: an import that never finished is never due. *)
DueWhenFinished(row) == row.finishedAge > Keep

Due(row) == (IF row.finishedAge = Never THEN row.age ELSE row.finishedAge) > Keep

-----------------------------------------------------------------------------
(* The actor's requests. *)

Recent == {i \in Imports : rows[i].status # "NONE" /\ rows[i].age <= Keep}

(* Mutant: what the actor deleted is not counted. *)
UsedUnlessDeleted == \E i \in Recent : rows[i].counted /\ rows[i].day = day /\ ~rows[i].deleted

UsedToday == \E i \in Recent : rows[i].counted /\ rows[i].day = day

Prepare(i) ==
  /\ day <= LastDay
  /\ rows[i].status = "NONE"
  /\ ~\E k \in Recent : ~rows[k].deleted /\ InProgress(rows[k])
  /\ ~UsedToday
  /\ rows' = [rows EXCEPT ![i] = [NoRow EXCEPT !.status = "UPLOADING", !.day = day]]
  /\ overtaken' = overtaken \cup {k \in Imports : rows[k].status = "UPLOADING"}
  /\ UNCHANGED <<clock, payload, ai, source, results, runs, sweep, faults, lost>>

(* The browser puts the file with the signed address, which never replaces *)
(* one that is there; S3 tells the worker.                                 *)
Upload(i) ==
  /\ rows[i].status # "NONE" /\ rows[i].age <= UploadWindow
  /\ i \notin source
  /\ source' = source \cup {i}
  /\ runs' = [runs EXCEPT ![i] = @ \cup {"triggered"}]
  /\ UNCHANGED <<clock, rows, payload, ai, results, sweep, faults, history>>

CompleteUpload(i) ==
  /\ Free(i) /\ ~rows[i].deleted
  /\ rows[i].status = "UPLOADING" /\ i \in source
  /\ rows' = [rows EXCEPT ![i] = ConfirmUpload(@)]
  /\ UNCHANGED <<clock, payload, ai, source, results, runs, sweep, faults, history>>

MayClose(i) ==
  /\ Free(i) /\ rows[i].status # "NONE" /\ ~rows[i].deleted
  /\ ~InProgress(rows[i])

Close(i) ==
  /\ MayClose(i)
  /\ source' = source \ {i} /\ results' = results \ {i}
  /\ payload' = payload \ {i}
  /\ ai' = [ai EXCEPT ![i] = "none"]
  /\ rows' = [rows EXCEPT ![i].deleted = TRUE]
  /\ UNCHANGED <<clock, runs, sweep, faults, history>>

(* S3 fails between the two prefixes: nothing is recorded. *)
CloseFails(i) ==
  /\ MayClose(i) /\ Fault
  /\ source' = source \ {i}
  /\ UNCHANGED <<clock, rows, payload, ai, results, runs, sweep, history>>

-----------------------------------------------------------------------------
(* The extraction worker.  An event may be delivered again: a stage that   *)
(* was gone through may remain.                                            *)
MoveOn(i, from, to) ==
  \/ runs' = [runs EXCEPT ![i] = (@ \ {from}) \cup to] /\ UNCHANGED faults
  \/ runs' = [runs EXCEPT ![i] = @ \cup to] /\ Fault

(* process_job up to the download: a missing source ends the run, a result *)
(* found in S3 is sent again.                                              *)
StartRun(i) ==
  /\ "triggered" \in runs[i]
  /\ MoveOn(i, "triggered", IF i \notin source THEN {}
                            ELSE IF i \in results THEN {"notifying"} ELSE {"reading"})
  /\ UNCHANGED <<clock, rows, payload, ai, source, results, sweep, history>>

WriteResults(i) ==
  /\ "reading" \in runs[i]
  /\ results' = results \cup {i}
  /\ MoveOn(i, "reading", {"notifying"})
  /\ UNCHANGED <<clock, rows, payload, ai, source, sweep, history>>

(* The last repetition failed, possibly after images were written. *)
GiveUp(i, stage) ==
  /\ stage \in runs[i] /\ Fault
  /\ runs' = [runs EXCEPT ![i] = @ \ {stage}]
  /\ results' \in {results} \cup (IF stage = "reading" THEN {results \cup {i}} ELSE {})
  /\ lost' = lost \cup {i}
  /\ UNCHANGED <<clock, rows, payload, ai, source, sweep, overtaken>>

(* Mutant: a late result is ignored and what the worker wrote is left. *)
LeaveObjects(i) == UNCHANGED <<source, results>>

DiscardObjects(i) == source' = source \ {i} /\ results' = results \ {i}

(* Mutants: the callback stores a result whatever was deleted meanwhile;   *)
(* one without an AI job leaves the import as it is.                       *)
AcceptsAlways(i) == TRUE
LeavesQueued(row, counted) == ConfirmUpload(row)

Accepts(i) == ~rows[i].deleted

Received(row, counted) == Finish(row, counted)

(* PdfExtractionResultReceiver.receive.  `enriched` when the AI queue took *)
(* the job; `counted` when the result has a value to propose.              *)
Receive(i, enriched, counted) ==
  /\ Free(i) /\ "notifying" \in runs[i]
  /\ MoveOn(i, "notifying", {})
  /\ \/ /\ ~Accepts(i)
        /\ DiscardObjects(i)
        /\ UNCHANGED <<rows, payload, ai>>
     \/ /\ Accepts(i) /\ i \in payload
        /\ UNCHANGED <<rows, payload, ai, source, results>>
     \/ /\ Accepts(i) /\ i \notin payload
        /\ payload' = payload \cup {i}
        /\ ai' = [ai EXCEPT ![i] = IF enriched THEN "open" ELSE "settled"]
        /\ rows' = [rows EXCEPT ![i] = IF enriched THEN ConfirmUpload(@)
                                       ELSE Received(@, counted)]
        /\ UNCHANGED <<source, results>>
  /\ UNCHANGED <<clock, sweep, history>>

(* The AI job completed or failed: PdfActorProfileCompletionService.finish *)
(* in the same transaction, which fails without the payload.               *)
AiSettles(i, counted) ==
  /\ Free(i) /\ ai[i] = "open"
  /\ ai' = [ai EXCEPT ![i] = "settled"]
  /\ IF rows[i].deleted \/ rows[i].status = "FINISHED" THEN UNCHANGED rows
     ELSE i \in payload /\ rows' = [rows EXCEPT ![i] = Finish(@, counted)]
  /\ UNCHANGED <<clock, payload, source, results, runs, sweep, faults, history>>

-----------------------------------------------------------------------------
(* deleteExpired(): one transaction, run by one server at a time.          *)

Expired == {i \in Imports : rows[i].status # "NONE" /\ ~rows[i].deleted /\ Due(rows[i])}

(* The page of findExpiredIds, oldest first. *)
Pages ==
  {page \in SUBSET Expired :
     /\ Cardinality(page) = (IF Cardinality(Expired) < CleanupBatch
                             THEN Cardinality(Expired) ELSE CleanupBatch)
     /\ \A i \in page, k \in Expired \ page : rows[i].age >= rows[k].age}

SweepStart ==
  /\ ~sweep.on /\ Expired # {}
  /\ \E page \in Pages :
       sweep' = [on |-> TRUE, todo |-> page, seen |-> payload, locked |-> {}, gone |-> {}]
  /\ UNCHANGED <<clock, rows, payload, ai, source, results, runs, faults, history>>

Locked(i) == [sweep EXCEPT !.todo = @ \ {i}, !.locked = @ \cup {i}]

(* The import is locked, looked at again and deleted if it is still due.   *)
SweepOne(i) ==
  /\ i \in sweep.todo
  /\ IF ~rows[i].deleted /\ Due(rows[i])
     THEN /\ source' = source \ {i} /\ results' = results \ {i}
          /\ sweep' = [Locked(i) EXCEPT !.gone = @ \cup {i}]
     ELSE sweep' = Locked(i) /\ UNCHANGED <<source, results>>
  /\ UNCHANGED <<clock, rows, payload, ai, runs, faults, history>>

(* S3 fails: the import stays and the clean-up goes on. *)
SweepFails(i) ==
  /\ i \in sweep.todo /\ Fault
  /\ ~rows[i].deleted /\ Due(rows[i])
  /\ source' = source \ {i}
  /\ sweep' = Locked(i)
  /\ UNCHANGED <<clock, rows, payload, ai, results, runs, history>>

(* A payload stored after the first query is not seen, hence not deleted.  *)
SweepCommit ==
  /\ sweep.on /\ sweep.todo = {}
  /\ rows' = [i \in Imports |-> IF i \in sweep.gone
                                THEN [rows[i] EXCEPT !.deleted = TRUE] ELSE rows[i]]
  /\ payload' = payload \ (sweep.gone \cap sweep.seen)
  /\ ai' = [i \in Imports |-> IF i \in sweep.gone THEN "none" ELSE ai[i]]
  /\ sweep' = Idle
  /\ UNCHANGED <<clock, source, results, runs, faults, history>>

(* The server stops or the transaction is rolled back. *)
SweepAborts ==
  /\ sweep.on /\ Fault
  /\ sweep' = Idle
  /\ UNCHANGED <<clock, rows, payload, ai, source, results, runs, history>>

-----------------------------------------------------------------------------
Older(age) == IF age = Never \/ age > Keep THEN age ELSE age + 1

(* Time passes between clean-ups: one takes less than a unit of time. *)
Tick ==
  /\ ~sweep.on
  /\ hour' = IF hour + 1 = DayLength THEN 0 ELSE hour + 1
  /\ day' = IF hour' = 0 /\ day <= LastDay THEN day + 1 ELSE day
  /\ rows' = [i \in Imports |->
                IF rows[i].status = "NONE" THEN rows[i]
                ELSE [rows[i] EXCEPT !.age = Older(@), !.finishedAge = Older(@)]]
  /\ UNCHANGED <<payload, ai, source, results, runs, sweep, faults, history>>

Stages == {"triggered", "reading", "notifying"}

Sweeping == SweepStart \/ SweepCommit \/ \E i \in Imports : SweepOne(i)

Next ==
  \/ \E i \in Imports :
       \/ Prepare(i) \/ Upload(i) \/ CompleteUpload(i) \/ Close(i) \/ CloseFails(i)
       \/ StartRun(i) \/ WriteResults(i) \/ SweepFails(i)
  \/ \E i \in Imports, stage \in Stages : GiveUp(i, stage)
  \/ \E i \in Imports, enriched, counted \in BOOLEAN : Receive(i, enriched, counted)
  \/ \E i \in Imports, counted \in BOOLEAN : AiSettles(i, counted)
  \/ Sweeping \/ SweepAborts \/ Tick

(* The clean-up runs again and again and the clock goes on.  Nothing else  *)
(* is promised: uploads, runs, callbacks and answers may never come.       *)
Fairness == WF_vars(Sweeping) /\ WF_vars(Tick)

Spec == Init /\ [][Next]_vars /\ Fairness
-----------------------------------------------------------------------------
Row == [status : {"NONE", "UPLOADING", "QUEUED", "FINISHED"}, age : 0..(Keep + 1),
        finishedAge : {Never} \cup 0..(Keep + 1), day : 0..LastDay,
        counted : BOOLEAN, deleted : BOOLEAN]

(* Every variable keeps its type, an import is finished exactly when it    *)
(* has the time it finished at, and only finished ones count.              *)
TypeOK ==
  /\ hour \in 0..(DayLength - 1) /\ day \in 0..(LastDay + 1)
  /\ rows \in [Imports -> Row]
  /\ payload \subseteq Imports /\ source \subseteq Imports /\ results \subseteq Imports
  /\ ai \in [Imports -> {"none", "open", "settled"}]
  /\ runs \in [Imports -> SUBSET Stages]
  /\ sweep \in [on : BOOLEAN, todo : SUBSET Imports, seen : SUBSET Imports,
                locked : SUBSET Imports, gone : SUBSET Imports]
  /\ faults \in 0..MaxFaults
  /\ lost \subseteq Imports /\ overtaken \subseteq Imports
  /\ \A i \in Imports :
       /\ rows[i].status = "FINISHED" <=> rows[i].finishedAge # Never
       /\ rows[i].counted => rows[i].status = "FINISHED"

(* The actor is not left waiting: with the extraction stored, the import   *)
(* reads as in progress exactly while an AI answer is to come, and without *)
(* it, it is unfinished and no AI job exists - whatever order upload       *)
(* confirmation, callback, its repetitions, AI and clean-up come in.       *)
PhaseFollowsData ==
  \A i \in {k \in Imports : ~rows[k].deleted} :
    IF i \in payload
    THEN rows[i].status = (IF ai[i] = "open" THEN "QUEUED" ELSE "FINISHED")
    ELSE rows[i].status # "FINISHED" /\ ai[i] = "none"

(* At most one import of a day counts, also over imports deleted since,    *)
(* unless one of them was unconfirmed past its window when the other was   *)
(* prepared.                                                               *)
CountedOn(d) == {i \in Imports : rows[i].counted /\ rows[i].day = d}
OneCountedUnlessOvertaken ==
  \A d \in 0..LastDay : Cardinality(CountedOn(d) \ overtaken) <= 1

(* At most one import of a day counts. *)
OneCountedPerDay == \A d \in 0..LastDay : Cardinality(CountedOn(d)) <= 1

(* What was deleted does not come back: a late callback or answer stores   *)
(* nothing for a deleted import and does not revive it.                    *)
NothingComesBack ==
  \A i \in {k \in Imports : rows[k].deleted} :
    /\ rows'[i].deleted /\ rows'[i].status = rows[i].status
    /\ rows'[i].counted = rows[i].counted
    /\ i \in payload' => i \in payload
    /\ ai'[i] = ai[i]
NothingRestored == [][NothingComesBack]_vars

(* Objects of a deleted import, written by a run under way or uploaded     *)
(* again, are followed by a callback that will remove them, unless the     *)
(* worker gave a run up.                                                   *)
ObjectsFollowed ==
  \A i \in source \cup results :
    rows[i].deleted /\ i \notin lost => runs[i] # {}

(* A deleted import leaves neither extraction nor AI data in the database. *)
DeletedLeavesNothing ==
  \A i \in Imports : rows[i].deleted => i \notin payload /\ ai[i] = "none"

(* Every import is deleted in the end, finished or not, although storage   *)
(* fails, clean-ups are rolled back and callbacks come while one runs.     *)
EventuallyDeleted == \A i \in Imports : rows[i].status # "NONE" ~> rows[i].deleted
=============================================================================
