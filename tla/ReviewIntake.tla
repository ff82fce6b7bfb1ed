---------------------------- MODULE ReviewIntake ----------------------------
(***************************************************************************)
(* Uploading PDFs into a review: the upload list of the page               *)
(* (use-review-uploads.ts), the extraction jobs of the review              *)
(* (PdfExtractionService, PdfExtractionResultReceiver) and the applicant   *)
(* each of them stands for (AuditExtractionService, AuditApplicant).       *)
(*                                                                         *)
(* A job is named by its source: a review has one job per checksum, so two *)
(* files of the same content meet in one job.  Object storage, the         *)
(* extraction worker and the AI queue (PdfAiQueue) appear only by the      *)
(* answers they give.  Other tabs, and runs whose page was left, are       *)
(* requests of nobody the model names.                                     *)
(***************************************************************************)
EXTENDS Integers, FiniteSets

CONSTANTS Files, Sources, Concurrency, NoAnswer

ASSUME IntakeAssumption ==
  /\ Concurrency \in Nat \ {0}
  /\ NoAnswer \notin {"target", "duplicate", "done", "conflict", "lost"}

VARIABLES content,    \* what is in each file
          jobs,       \* per source, the extraction job of the review
          stored,     \* the sources whose object is stored
          ai,         \* per source, the status of the AI job
          applicants, \* per source, the processing status of the applicant
          rows,       \* per file, its line in the page's list
          queue,      \* the files the current run has not begun
          transfers   \* per source, the transfer of the current run

intakeVars == <<content, jobs, stored, ai, applicants, rows, queue, transfers>>
serverVars == <<jobs, stored, ai, applicants>>

NoJob == [status |-> "NONE", uploaded |-> FALSE]

Final(job) == job.status \in {"COMPLETED", "FAILED"}

(* A line: the phase shown, whether it knows its job, its upload address,  *)
(* the request it waits for and the answer on its way.                     *)
NoRow == [phase |-> "NONE", known |-> FALSE, target |-> "none",
          step |-> "none", answer |-> NoAnswer]
------------------------------------------------------------------------------
(* Transactions of the server, each under the lock of the job.             *)

(* AuditService.prepareUpload: the first file of a source registers job    *)
(* and applicant; a source already confirmed needs no transfer.            *)
Prepare(s) ==
  /\ jobs' = IF jobs[s] # NoJob THEN jobs
             ELSE [jobs EXCEPT ![s] = [status |-> "UPLOADING", uploaded |-> FALSE]]
  /\ applicants' = IF jobs[s] = NoJob THEN [applicants EXCEPT ![s] = "UPLOADING"]
                   ELSE applicants
  /\ UNCHANGED <<stored, ai>>

PrepareAnswer(s) == IF jobs[s].uploaded \/ Final(jobs[s]) THEN "duplicate" ELSE "target"

Put(s) == stored' = stored \cup {s} /\ UNCHANGED <<jobs, ai, applicants>>

StartExtraction(s) ==
  IF applicants[s] = "UPLOADING" THEN [applicants EXCEPT ![s] = "EXTRACTING"]
  ELSE applicants

Complete(s) ==
  \/ jobs[s].uploaded /\ UNCHANGED serverVars
  \/ /\ ~jobs[s].uploaded /\ s \in stored
     /\ jobs' = [jobs EXCEPT ![s] = [status |-> "QUEUED", uploaded |-> TRUE]]
     /\ applicants' = StartExtraction(s)
     /\ UNCHANGED <<stored, ai>>
  \/ ~jobs[s].uploaded /\ s \notin stored /\ UNCHANGED serverVars

CompleteAnswer(s) == IF jobs[s].uploaded \/ s \in stored THEN "done" ELSE "conflict"

(* Mutant: a result does not confirm the upload. *)
ReceiveResultUnconfirmed(s, status) == [jobs[s] EXCEPT !.status = status]

ReceiveResult(s, status) == [status |-> status, uploaded |-> TRUE]

(* What the first callback leaves in the AI queue, and with the applicant: *)
(* the text is queued, was analysed by the worker, is missing, or there is *)
(* no extraction.  A repeated callback finds its payload and changes       *)
(* nothing.                                                                *)
Outcome == [queued   |-> [job |-> "COMPLETED", ai |-> "PENDING", applicant |-> "ENRICHING"],
            analysed |-> [job |-> "COMPLETED", ai |-> "ANALYSED", applicant |-> "READY"],
            textless |-> [job |-> "COMPLETED", ai |-> "SKIPPED", applicant |-> "NEEDS_REVIEW"],
            failed   |-> [job |-> "FAILED", ai |-> "SKIPPED", applicant |-> "FAILED"]]

Callback(s) == /\ s \in stored /\ ai[s] = "NONE"
               /\ \E o \in DOMAIN Outcome :
                    /\ jobs' = [jobs EXCEPT ![s] = ReceiveResult(s, Outcome[o].job)]
                    /\ ai' = [ai EXCEPT ![s] = Outcome[o].ai]
                    /\ applicants' = [applicants EXCEPT ![s] = Outcome[o].applicant]
               /\ UNCHANGED <<content, stored, rows, queue, transfers>>

AiMoves(s, from, to, status) ==
  /\ ai[s] = from
  /\ ai' = [ai EXCEPT ![s] = to]
  /\ applicants' = [applicants EXCEPT ![s] = status]
  /\ UNCHANGED <<content, jobs, stored, rows, queue, transfers>>

AiAnswers(s) == AiMoves(s, "PENDING", "COMPLETED", "READY")
AiFails(s)   == AiMoves(s, "PENDING", "FAILED", "NEEDS_REVIEW")
AiRetried(s) == AiMoves(s, "FAILED", "PENDING", "ENRICHING")

(* Somebody else's file of the same content. *)
OtherTabSteps(s) ==
  /\ \/ Prepare(s)
     \/ jobs[s] # NoJob /\ Put(s)
     \/ jobs[s] # NoJob /\ Complete(s)
  /\ UNCHANGED <<content, rows, queue, transfers>>
------------------------------------------------------------------------------
(* The upload list of the page.                                            *)

Active == {f \in Files : rows[f].phase = "UPLOADING"}
Running == queue # {} \/ Active # {}
Uploadable(f) == rows[f].phase \in {"SELECTED", "ERROR"}
Listed(f) == rows[f].phase \in {"SELECTED", "UPLOADING", "ERROR"}

(* A run begins with no transfers. *)
Run(fs) == /\ queue' = fs
           /\ transfers' = [s \in Sources |-> "none"]

Choose(fs) == /\ ~Running
              /\ fs # {} /\ \A f \in fs : ~Listed(f)
              /\ rows' = [f \in Files |-> IF f \in fs
                                          THEN [NoRow EXCEPT !.phase = "SELECTED"]
                                          ELSE rows[f]]
              /\ Run(fs)
              /\ UNCHANGED <<content, serverVars>>

(* Everything that can be uploaded, or one line again. *)
Retry(fs) == /\ ~Running
             /\ fs # {} /\ \A f \in fs : Uploadable(f)
             /\ Run(fs)
             /\ UNCHANGED <<content, serverVars, rows>>

RemoveLine(f) == /\ ~Running
             /\ Listed(f)
             /\ rows' = [rows EXCEPT ![f] = NoRow]
             /\ UNCHANGED <<content, serverVars, queue, transfers>>

Waits(f, step) == [rows EXCEPT ![f].step = step, ![f].answer = NoAnswer]

(* One of the workers takes a file.  A line that knows its job asks first  *)
(* whether the transfer got through after all.                             *)
Begin(f) == /\ f \in queue
            /\ Cardinality(Active) < Concurrency
            /\ queue' = queue \ {f}
            /\ rows' = [rows EXCEPT ![f].phase = "UPLOADING", ![f].answer = NoAnswer,
                                    ![f].step = IF rows[f].known THEN "check" ELSE "prepare"]
            /\ UNCHANGED <<content, serverVars, transfers>>

Ends(f, phase) ==
  [rows EXCEPT ![f] = IF phase = "ERROR"
                      THEN [@ EXCEPT !.phase = "ERROR", !.step = "none", !.answer = NoAnswer]
                      ELSE [NoRow EXCEPT !.phase = phase]]

Settle(f, result) == transfers' = [transfers EXCEPT ![content[f]] = result]

Fails(f) == rows' = Ends(f, "ERROR") /\ UNCHANGED transfers

(* Mutant: a second file of the source does not wait for the transfer. *)
JoinsWithoutWaiting(f, uploaded, row) ==
  IF transfers[content[f]] # "none" THEN /\ rows' = Ends(f, "DUPLICATE")
                                         /\ UNCHANGED transfers
  ELSE IF uploaded THEN rows' = Ends(f, "UPLOADED") /\ Settle(f, "ok")
  ELSE /\ rows' = [rows EXCEPT ![f] = [row EXCEPT !.step = "put", !.answer = NoAnswer]]
       /\ Settle(f, "pending")

(* One transfer per job and run: a second file of it waits for the first.  *)
Joins(f, uploaded, row) ==
  IF transfers[content[f]] # "none"
  THEN /\ rows' = [rows EXCEPT ![f] = [row EXCEPT !.step = "await", !.answer = NoAnswer]]
       /\ UNCHANGED transfers
  ELSE IF uploaded THEN rows' = Ends(f, "UPLOADED") /\ Settle(f, "ok")
  ELSE /\ rows' = [rows EXCEPT ![f] = [row EXCEPT !.step = "put", !.answer = NoAnswer]]
       /\ Settle(f, "pending")
------------------------------------------------------------------------------
(* Requests: the server carries one out and its answer travels; request or *)
(* answer may be lost.                                                     *)

Travelling(f) == rows[f].step \in {"prepare", "check", "put", "recheck", "confirm"}

Serve(f) ==
  /\ Travelling(f) /\ rows[f].answer = NoAnswer
  /\ LET s == content[f]
         step == rows[f].step
     IN \/ /\ step = "prepare" /\ Prepare(s)
           /\ rows' = [rows EXCEPT ![f].answer = PrepareAnswer(s)]
        \/ /\ step = "put" /\ Put(s)
           /\ rows' = [rows EXCEPT ![f].answer = "done"]
        \/ /\ step \in {"check", "recheck", "confirm"} /\ Complete(s)
           /\ rows' = [rows EXCEPT ![f].answer = CompleteAnswer(s)]
  /\ UNCHANGED <<content, queue, transfers>>

Lose(f) == /\ Travelling(f) /\ rows[f].answer # "lost"
           /\ rows' = [rows EXCEPT ![f].answer = "lost"]
           /\ UNCHANGED <<content, serverVars, queue, transfers>>

(* The upload address runs out. *)
Lapse(f) == /\ rows[f].target = "live"
            /\ rows' = [rows EXCEPT ![f].target = "lapsed"]
            /\ UNCHANGED <<content, serverVars, queue, transfers>>

Prepared(f) ==
  /\ rows[f].step = "prepare"
  /\ \/ rows[f].answer = "duplicate" /\ rows' = Ends(f, "DUPLICATE") /\ UNCHANGED transfers
     \/ /\ rows[f].answer = "target"
        /\ Joins(f, FALSE, [rows[f] EXCEPT !.known = TRUE, !.target = "live"])
     \/ rows[f].answer = "lost" /\ Fails(f)

Checked(f) ==
  /\ rows[f].step = "check"
  /\ \/ rows[f].answer = "done" /\ Joins(f, TRUE, rows[f])
     \/ /\ rows[f].answer = "conflict" /\ rows[f].target = "live"
        /\ Joins(f, FALSE, rows[f])
     \/ /\ rows[f].answer = "conflict" /\ rows[f].target # "live"
        /\ rows' = Waits(f, "prepare") /\ UNCHANGED transfers
     \/ rows[f].answer = "lost" /\ Fails(f)

(* The other file's transfer is over. *)
Joined(f) ==
  /\ rows[f].step = "await"
  /\ \/ transfers[content[f]] = "ok" /\ rows' = Ends(f, "DUPLICATE") /\ UNCHANGED transfers
     \/ transfers[content[f]] = "failed" /\ Fails(f)

(* The object may be there although the answer was lost, so the completion *)
(* is asked once more before the line fails.                               *)
PutDone(f) ==
  /\ rows[f].step = "put"
  /\ \/ rows[f].answer = "done" /\ rows' = Waits(f, "confirm")
     \/ rows[f].answer = "lost" /\ rows' = Waits(f, "recheck")
  /\ UNCHANGED transfers

Confirmed(f) ==
  /\ rows[f].step \in {"recheck", "confirm"}
  /\ \/ rows[f].answer = "done" /\ rows' = Ends(f, "UPLOADED") /\ Settle(f, "ok")
     \/ rows[f].answer \in {"conflict", "lost"} /\ rows' = Ends(f, "ERROR")
                                               /\ Settle(f, "failed")

UploadOne(f) == /\ \/ Prepared(f) \/ Checked(f) \/ Joined(f) \/ PutDone(f) \/ Confirmed(f)
                /\ UNCHANGED <<content, serverVars, queue>>
------------------------------------------------------------------------------
IntakeInit ==
  /\ content \in [Files -> Sources]
  /\ jobs = [s \in Sources |-> NoJob]
  /\ stored = {}
  /\ ai = [s \in Sources |-> "NONE"]
  /\ applicants = [s \in Sources |-> "NONE"]
  /\ rows = [f \in Files |-> NoRow]
  /\ queue = {}
  /\ transfers = [s \in Sources |-> "none"]

IntakeNext ==
  \/ \E fs \in SUBSET Files : Choose(fs) \/ Retry(fs)
  \/ \E f \in Files : \/ RemoveLine(f) \/ Begin(f) \/ UploadOne(f)
                      \/ Serve(f) \/ Lose(f) \/ Lapse(f)
  \/ \E s \in Sources : \/ Callback(s) \/ AiAnswers(s) \/ AiFails(s) \/ AiRetried(s)
                        \/ OtherTabSteps(s)

IntakeSpec == IntakeInit /\ [][IntakeNext]_intakeVars
------------------------------------------------------------------------------
(* The status an applicant is shown with is the one its job and its AI job *)
(* have come to, in whatever order the page's confirmation, another tab's, *)
(* the worker's callback, the AI's answer and a retry are carried out.     *)
Follows(s) ==
  /\ jobs[s].status \in {"NONE", "UPLOADING"} => applicants[s] = jobs[s].status
  /\ jobs[s].status = "QUEUED" => applicants[s] = "EXTRACTING"
  /\ jobs[s].status = "FAILED" => applicants[s] = "FAILED"
  /\ jobs[s].status = "COMPLETED" =>
       /\ ai[s] = "PENDING" => applicants[s] = "ENRICHING"
       /\ ai[s] \in {"ANALYSED", "COMPLETED"} => applicants[s] = "READY"
       /\ ai[s] \in {"NONE", "SKIPPED", "FAILED"} => applicants[s] = "NEEDS_REVIEW"

ApplicantFollowsJob == \A s \in Sources : Follows(s)

(* A file is reported as uploaded, or as a duplicate, only if the server   *)
(* has confirmed its content: by this file, by another of the run it       *)
(* waited for, or by another tab.                                          *)
ReportedIsStored ==
  \A f \in Files : rows[f].phase \in {"UPLOADED", "DUPLICATE"}
                   => jobs[content[f]].uploaded /\ content[f] \in stored
==============================================================================
