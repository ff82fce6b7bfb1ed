------------------------- MODULE ReviewIntakeProofs -------------------------
(***************************************************************************)
(* Proofs that the applicants of a review follow their extraction jobs and *)
(* that the upload list reports nothing as uploaded that the server has    *)
(* not confirmed, for any number of files, sources and workers.            *)
(*                                                                         *)
(* The two need one invariant: what the server holds fits together source  *)
(* by source (ServerOK), and what a line of the page knows, or has on its  *)
(* way to it, was true when the server answered (PageOK).  It stays true   *)
(* because the server only ever gains jobs, objects and confirmations      *)
(* (Grows).                                                                *)
(***************************************************************************)
EXTENDS ReviewIntake, TLAPS

Jobs == [status : {"NONE", "UPLOADING", "QUEUED", "COMPLETED", "FAILED"},
         uploaded : BOOLEAN]

AiStatuses == {"NONE", "PENDING", "ANALYSED", "SKIPPED", "COMPLETED", "FAILED"}

Standings == {"NONE", "UPLOADING", "EXTRACTING", "ENRICHING", "READY",
              "NEEDS_REVIEW", "FAILED"}

Rows == [phase : {"NONE", "SELECTED", "UPLOADING", "UPLOADED", "DUPLICATE", "ERROR"},
         known : BOOLEAN,
         target : {"none", "live", "lapsed"},
         step : {"none", "prepare", "check", "put", "recheck", "confirm", "await"},
         answer : {NoAnswer, "target", "duplicate", "done", "conflict", "lost"}]

(* The objects, jobs and AI jobs of a source agree.                        *)
SourceOK(s) ==
  /\ s \in stored => jobs[s].status # "NONE"
  /\ jobs[s].uploaded <=> jobs[s].status \notin {"NONE", "UPLOADING"}
  /\ jobs[s].uploaded => s \in stored
  /\ ai[s] = "NONE" <=> ~Final(jobs[s])
  /\ jobs[s].status = "FAILED" => ai[s] = "SKIPPED"

ServerOK == /\ jobs \in [Sources -> Jobs]
            /\ stored \subseteq Sources
            /\ ai \in [Sources -> AiStatuses]
            /\ applicants \in [Sources -> Standings]
            /\ \A s \in Sources : SourceOK(s)
            /\ ApplicantFollowsJob

(* What a line may know, or be told, of a file whose job stands like this. *)
RowOK(row, job) ==
  /\ \/ row.known
     \/ row.step \in {"check", "put", "recheck", "confirm"}
     \/ row.answer \in {"target", "duplicate", "done", "conflict"}
     => job.status # "NONE"
  /\ row.answer = "duplicate" => job.uploaded
  /\ row.answer = "done" /\ row.step # "put" => job.uploaded
  /\ row.phase \in {"UPLOADED", "DUPLICATE"} => job.uploaded

TransferOK(s) == transfers[s] = "ok" => jobs[s].uploaded

PageOK == /\ content \in [Files -> Sources]
          /\ rows \in [Files -> Rows]
          /\ transfers \in [Sources -> {"none", "pending", "ok", "failed"}]
          /\ \A f \in Files : RowOK(rows[f], jobs[content[f]])
          /\ \A s \in Sources : TransferOK(s)

IntakeInv == ServerOK /\ PageOK

(* Jobs, objects and confirmations are never taken back.                   *)
Grows == \A s \in Sources : /\ jobs[s].status # "NONE" => jobs'[s].status # "NONE"
                            /\ jobs[s].uploaded => jobs'[s].uploaded
------------------------------------------------------------------------------
(* Initially there is nothing that could disagree.                         *)
LEMMA IntakeInitially == IntakeInit => IntakeInv
  <1> SUFFICES ASSUME IntakeInit PROVE IntakeInv
    OBVIOUS
  <1>1. ServerOK
    <2>1. NoJob \in Jobs
      BY DEF NoJob, Jobs
    <2>2. ASSUME NEW s \in Sources PROVE SourceOK(s) /\ Follows(s)
      BY DEF IntakeInit, SourceOK, Follows, NoJob, Final
    <2>3. jobs \in [Sources -> Jobs] /\ ai \in [Sources -> AiStatuses]
      BY <2>1 DEF IntakeInit, AiStatuses
    <2>4. stored \subseteq Sources /\ applicants \in [Sources -> Standings]
      BY DEF IntakeInit, Standings
    <2> QED BY <2>2, <2>3, <2>4 DEF ServerOK, ApplicantFollowsJob
  <1>2. NoRow \in Rows
    BY DEF NoRow, Rows
  <1>3. \A job : RowOK(NoRow, job)
    BY IntakeAssumption DEF RowOK, NoRow
  <1>4. PageOK
    BY <1>2, <1>3 DEF IntakeInit, PageOK, TransferOK
  <1> QED BY <1>1, <1>4 DEF IntakeInv

(* A change of one source leaves the others as they were.                  *)
LEMMA OneSource ==
  ASSUME ServerOK, NEW s \in Sources, NEW job \in Jobs, NEW a \in AiStatuses,
         NEW status \in Standings,
         jobs' = [jobs EXCEPT ![s] = job], ai' = [ai EXCEPT ![s] = a],
         applicants' = [applicants EXCEPT ![s] = status],
         stored' \subseteq Sources, \A t \in Sources \ {s} : t \in stored' <=> t \in stored,
         SourceOK(s)',
         Follows(s)'
  PROVE  ServerOK'
  <1>1. /\ jobs' \in [Sources -> Jobs] /\ ai' \in [Sources -> AiStatuses]
        /\ applicants' \in [Sources -> Standings]
    BY DEF ServerOK
  <1>2. ASSUME NEW t \in Sources \ {s}
        PROVE  /\ jobs'[t] = jobs[t] /\ ai'[t] = ai[t] /\ applicants'[t] = applicants[t]
               /\ t \in stored' <=> t \in stored
    BY DEF ServerOK
  <1>3. ASSUME NEW t \in Sources PROVE SourceOK(t)'
    <2>1. CASE t = s
      BY <2>1
    <2>2. CASE t # s
      BY <2>2, <1>2 DEF ServerOK, SourceOK, Final
    <2> QED BY <2>1, <2>2
  <1>4. ASSUME NEW t \in Sources PROVE Follows(t)'
    <2>1. CASE t = s
      BY <2>1
    <2>2. CASE t # s
      BY <2>2, <1>2 DEF ServerOK, ApplicantFollowsJob, Follows
    <2> QED BY <2>1, <2>2
  <1> QED BY <1>1, <1>3, <1>4 DEF ServerOK, ApplicantFollowsJob
------------------------------------------------------------------------------
(* Transactions of the server.                                             *)

(* Registering a source leaves its job behind, and one that is answered as *)
(* a duplicate is confirmed.                                               *)
LEMMA PrepareKeeps ==
  ASSUME ServerOK, NEW s \in Sources, Prepare(s)
  PROVE  /\ ServerOK' /\ Grows
         /\ jobs'[s].status # "NONE"
         /\ PrepareAnswer(s) = "duplicate" => jobs'[s].uploaded
  <1>1. jobs[s] \in Jobs /\ (jobs[s] = NoJob <=> jobs[s].status = "NONE")
    BY DEF ServerOK, SourceOK, Jobs, NoJob
  <1>2. CASE jobs[s] # NoJob
    <2>1. UNCHANGED <<jobs, stored, ai, applicants>>
      BY <1>2 DEF Prepare
    <2>2. ServerOK'
      BY <2>1 DEF ServerOK, SourceOK, ApplicantFollowsJob, Follows
    <2>3. PrepareAnswer(s) = "duplicate" => jobs[s].uploaded
      BY DEF PrepareAnswer, ServerOK, SourceOK, Final
    <2> QED BY <1>1, <1>2, <2>1, <2>2, <2>3 DEF Grows
  <1>3. CASE jobs[s] = NoJob
    <2> DEFINE job == [status |-> "UPLOADING", uploaded |-> FALSE]
    <2>1. job \in Jobs
      BY DEF Jobs
    <2>2. jobs' = [jobs EXCEPT ![s] = job]
      BY <1>3 DEF Prepare
    <2>3. applicants' = [applicants EXCEPT ![s] = "UPLOADING"] /\ UNCHANGED <<stored, ai>>
      BY <1>3 DEF Prepare
    <2>4. jobs'[s] = job /\ applicants'[s] = "UPLOADING" /\ ai[s] = "NONE"
      BY <1>1, <1>3, <2>2, <2>3 DEF ServerOK, SourceOK, Final
    <2>5. SourceOK(s)' /\ Follows(s)'
      BY <2>3, <2>4, <1>3 DEF SourceOK, Follows, Final
    <2>6. ai' = [ai EXCEPT ![s] = "NONE"] /\ "NONE" \in AiStatuses
      BY <2>3, <2>4 DEF ServerOK, AiStatuses
    <2>7. ServerOK'
      <3>1. stored' \subseteq Sources
             /\ \A t \in Sources \ {s} : t \in stored' <=> t \in stored
        BY <2>3 DEF ServerOK
      <3>3. "UPLOADING" \in Standings /\ "EXTRACTING" \in Standings
        BY DEF Standings
      <3> HIDE DEF job
      <3> QED BY <3>3, <2>1, <2>2, <2>3, <2>5, <2>6, <3>1, OneSource
    <2>8. PrepareAnswer(s) # "duplicate"
      BY <1>3 DEF PrepareAnswer, NoJob, Final
    <2>9. Grows
      BY <1>3, <2>2, <2>4 DEF Grows, ServerOK, NoJob
    <2> QED BY <2>4, <2>7, <2>8, <2>9
  <1> QED BY <1>2, <1>3

LEMMA PutKeeps ==
  ASSUME ServerOK, NEW s \in Sources, Put(s), jobs[s].status # "NONE"
  PROVE  ServerOK' /\ Grows
  <1>1. ASSUME NEW t \in Sources PROVE SourceOK(t)' /\ Follows(t)'
    BY DEF ServerOK, SourceOK, Put, Final, ApplicantFollowsJob, Follows
  <1> QED BY <1>1 DEF ServerOK, Put, Grows, ApplicantFollowsJob

(* A confirmation, repeated or not, is only answered "done" once the       *)
(* source is confirmed.                                                    *)
LEMMA CompleteKeeps ==
  ASSUME ServerOK, NEW s \in Sources, Complete(s), jobs[s].status # "NONE"
  PROVE  /\ ServerOK' /\ Grows
         /\ CompleteAnswer(s) = "done" => jobs'[s].uploaded
  <1>1. CASE UNCHANGED serverVars /\ (jobs[s].uploaded \/ s \notin stored)
    BY <1>1 DEF serverVars, ServerOK, SourceOK, ApplicantFollowsJob, Follows,
                Grows, CompleteAnswer
  <1>2. CASE /\ ~jobs[s].uploaded /\ s \in stored
             /\ jobs' = [jobs EXCEPT ![s] = [status |-> "QUEUED", uploaded |-> TRUE]]
             /\ applicants' = StartExtraction(s)
             /\ UNCHANGED <<stored, ai>>
    <2> DEFINE job == [status |-> "QUEUED", uploaded |-> TRUE]
    <2>1. job \in Jobs
      BY DEF Jobs
    <2>2. jobs[s].status = "UPLOADING"
      BY <1>2 DEF ServerOK, SourceOK, Jobs
    <2>3. applicants[s] = "UPLOADING" /\ ai[s] = "NONE"
      BY <2>2 DEF ServerOK, SourceOK, ApplicantFollowsJob, Follows, Final
    <2>4. applicants' = [applicants EXCEPT ![s] = "EXTRACTING"]
      BY <1>2, <2>3 DEF StartExtraction
    <2>5. jobs'[s] = job /\ applicants'[s] = "EXTRACTING"
      BY <1>2, <2>4 DEF ServerOK
    <2>6. SourceOK(s)' /\ Follows(s)'
      BY <1>2, <2>3, <2>5 DEF SourceOK, Follows, Final
    <2>7. ai' = [ai EXCEPT ![s] = "NONE"] /\ "NONE" \in AiStatuses
      BY <1>2, <2>3 DEF ServerOK, AiStatuses
    <2>8. ServerOK'
      <3>1. stored' \subseteq Sources
             /\ \A t \in Sources \ {s} : t \in stored' <=> t \in stored
        BY <1>2 DEF ServerOK
      <3>2. jobs' = [jobs EXCEPT ![s] = job]
        BY <1>2
      <3>3. "UPLOADING" \in Standings /\ "EXTRACTING" \in Standings
        BY DEF Standings
      <3> HIDE DEF job
      <3> QED BY <3>3, <2>1, <2>4, <2>6, <2>7, <3>1, <3>2, OneSource
    <2>9. Grows
      BY <1>2, <2>5 DEF Grows, ServerOK
    <2> QED BY <2>5, <2>8, <2>9
  <1> QED BY <1>1, <1>2 DEF Complete

(* The worker's callback confirms the upload, and the applicant stands     *)
(* where the outcome puts it.                                              *)
LEMMA CallbackKeeps ==
  ASSUME ServerOK, NEW s \in Sources, Callback(s)
  PROVE  ServerOK' /\ Grows
  <1> PICK o \in DOMAIN Outcome :
        /\ jobs' = [jobs EXCEPT ![s] = ReceiveResult(s, Outcome[o].job)]
        /\ ai' = [ai EXCEPT ![s] = Outcome[o].ai]
        /\ applicants' = [applicants EXCEPT ![s] = Outcome[o].applicant]
    BY DEF Callback
  <1> DEFINE job == ReceiveResult(s, Outcome[o].job)
             a == Outcome[o].ai
             status == Outcome[o].applicant
  <1>1. s \in stored /\ stored' = stored
    BY DEF Callback
  <1>2. \/ job.status = "COMPLETED" /\ a = "PENDING" /\ status = "ENRICHING"
        \/ job.status = "COMPLETED" /\ a = "ANALYSED" /\ status = "READY"
        \/ job.status = "COMPLETED" /\ a = "SKIPPED" /\ status = "NEEDS_REVIEW"
        \/ job.status = "FAILED" /\ a = "SKIPPED" /\ status = "FAILED"
    BY DEF ReceiveResult, Outcome
  <1>3. job = [status |-> Outcome[o].job, uploaded |-> TRUE] /\ job.uploaded
    BY DEF ReceiveResult
  <1>4. job \in Jobs /\ a \in AiStatuses /\ status \in Standings
    BY <1>2, <1>3 DEF Jobs, AiStatuses, Standings
  <1> HIDE DEF job, a, status
  <1>5. jobs'[s] = job /\ ai'[s] = a /\ applicants'[s] = status
    BY DEF ServerOK, job, a, status
  <1>6. SourceOK(s)' /\ Follows(s)'
    BY <1>1, <1>2, <1>3, <1>5 DEF SourceOK, Follows, Final
  <1>7. /\ jobs' = [jobs EXCEPT ![s] = job] /\ ai' = [ai EXCEPT ![s] = a]
        /\ applicants' = [applicants EXCEPT ![s] = status]
    BY DEF job, a, status
  <1>8. stored' \subseteq Sources /\ \A t \in Sources \ {s} : t \in stored' <=> t \in stored
    BY <1>1 DEF ServerOK
  <1>9. ServerOK'
    BY <1>4, <1>6, <1>7, <1>8, OneSource
  <1>10. Grows
    BY <1>2, <1>3, <1>5, <1>7 DEF Grows, ServerOK
  <1> QED BY <1>9, <1>10

(* The answer of the AI, its failure and a retry.                          *)
LEMMA AiKeeps ==
  ASSUME ServerOK, NEW s \in Sources, AiAnswers(s) \/ AiFails(s) \/ AiRetried(s)
  PROVE  ServerOK' /\ Grows
  <1>1. PICK a \in AiStatuses, status \in Standings :
          /\ ai[s] \in {"PENDING", "FAILED"}
          /\ ai' = [ai EXCEPT ![s] = a]
          /\ applicants' = [applicants EXCEPT ![s] = status]
          /\ jobs' = jobs /\ stored' = stored
          /\ \/ a = "COMPLETED" /\ status = "READY"
             \/ a = "FAILED" /\ status = "NEEDS_REVIEW"
             \/ a = "PENDING" /\ status = "ENRICHING"
    BY DEF AiAnswers, AiFails, AiRetried, AiMoves, AiStatuses, Standings
  <1>2. jobs[s] \in Jobs /\ jobs[s].status = "COMPLETED"
    BY <1>1 DEF ServerOK, SourceOK, Final, Jobs
  <1>3. jobs' = [jobs EXCEPT ![s] = jobs[s]] /\ jobs'[s] = jobs[s]
    BY <1>1 DEF ServerOK
  <1>4. ai'[s] = a /\ applicants'[s] = status
    BY <1>1 DEF ServerOK
  <1>5. SourceOK(s)' /\ Follows(s)'
    BY <1>1, <1>2, <1>3, <1>4 DEF ServerOK, SourceOK, Follows, Final
  <1>6. stored' \subseteq Sources /\ \A t \in Sources \ {s} : t \in stored' <=> t \in stored
    BY <1>1 DEF ServerOK
  <1>7. ServerOK'
    BY <1>1, <1>2, <1>3, <1>5, <1>6, OneSource
  <1> QED BY <1>1, <1>7 DEF Grows
------------------------------------------------------------------------------
(* Lines of the page.                                                      *)

LEMMA PageStays ==
  ASSUME PageOK, Grows, UNCHANGED <<content, rows, transfers>>
  PROVE  PageOK'
  <1>1. ASSUME NEW f \in Files PROVE RowOK(rows[f], jobs[content[f]])'
    BY DEF PageOK, RowOK, Grows
  <1>2. ASSUME NEW s \in Sources PROVE TransferOK(s)'
    BY DEF PageOK, TransferOK, Grows
  <1> QED BY <1>1, <1>2 DEF PageOK

(* One line changes to something that is true now, and at most the         *)
(* transfer of its source with it.                                         *)
LEMMA OneLine ==
  ASSUME PageOK, Grows, UNCHANGED content, NEW f \in Files, NEW row \in Rows,
         rows' = [rows EXCEPT ![f] = row], RowOK(row, jobs'[content[f]]),
         \/ UNCHANGED transfers
         \/ \E result \in {"pending", "failed"} : Settle(f, result)
         \/ Settle(f, "ok") /\ jobs'[content[f]].uploaded
  PROVE  PageOK'
  <1>1. rows' \in [Files -> Rows]
    BY DEF PageOK
  <1>2. ASSUME NEW g \in Files PROVE RowOK(rows[g], jobs[content[g]])'
    <2>1. CASE g = f
      BY <2>1 DEF PageOK
    <2>2. CASE g # f
      <3>1. rows'[g] = rows[g] /\ content[g] \in Sources
        BY <2>2 DEF PageOK
      <3> QED BY <3>1 DEF PageOK, RowOK, Grows
    <2> QED BY <2>1, <2>2
  <1>3. /\ transfers' \in [Sources -> {"none", "pending", "ok", "failed"}]
        /\ \A s \in Sources : TransferOK(s)'
    BY DEF PageOK, TransferOK, Grows, Settle
  <1> QED BY <1>1, <1>2, <1>3 DEF PageOK

(* The fields of a line.                                                   *)
LEMMA LineFields ==
  ASSUME NEW row \in Rows
  PROVE  /\ \A v \in {"NONE", "SELECTED", "UPLOADING", "UPLOADED", "DUPLICATE", "ERROR"} :
              [row EXCEPT !.phase = v] \in Rows
         /\ \A v \in BOOLEAN : [row EXCEPT !.known = v] \in Rows
         /\ \A v \in {"none", "live", "lapsed"} : [row EXCEPT !.target = v] \in Rows
         /\ \A v \in {"none", "prepare", "check", "put", "recheck", "confirm", "await"} :
              [row EXCEPT !.step = v] \in Rows
         /\ \A v \in {NoAnswer, "target", "duplicate", "done", "conflict", "lost"} :
              [row EXCEPT !.answer = v] \in Rows
  BY Zenon DEF Rows

(* What a line holds is true in the next state as well.                    *)
LEMMA StillTrue ==
  ASSUME PageOK, Grows, NEW f \in Files
  PROVE  RowOK(rows[f], jobs[content[f]]) /\ rows[f] \in Rows /\ content[f] \in Sources
         /\ (jobs[content[f]].status # "NONE" => jobs'[content[f]].status # "NONE")
         /\ (jobs[content[f]].uploaded => jobs'[content[f]].uploaded)
  BY DEF PageOK, Grows

LEMMA NoRowOK == NoRow \in Rows /\ \A job : RowOK(NoRow, job)
  BY IntakeAssumption DEF NoRow, Rows, RowOK

LEMMA SameServer == ASSUME ServerOK, UNCHANGED serverVars PROVE ServerOK' /\ Grows
  BY DEF serverVars, ServerOK, SourceOK, ApplicantFollowsJob, Follows, Grows
------------------------------------------------------------------------------
(* Choosing files, running them again and taking lines away.               *)
LEMMA ListKeeps ==
  ASSUME IntakeInv, NEW fs \in SUBSET Files, Choose(fs) \/ Retry(fs)
  PROVE  IntakeInv'
  <1>1. UNCHANGED serverVars /\ UNCHANGED content
    BY DEF Choose, Retry
  <1>2. ServerOK' /\ Grows
    BY <1>1, SameServer DEF IntakeInv
  <1>3. transfers' = [s \in Sources |-> "none"]
    BY DEF Choose, Retry, Run
  <1>4. /\ transfers' \in [Sources -> {"none", "pending", "ok", "failed"}]
        /\ \A s \in Sources : TransferOK(s)'
    BY <1>3 DEF TransferOK
  <1> DEFINE chosen == [NoRow EXCEPT !.phase = "SELECTED"]
  <1>5. chosen \in Rows
    BY NoRowOK, LineFields
  <1>6. ASSUME NEW job PROVE RowOK(chosen, job)
    BY IntakeAssumption DEF NoRow, RowOK
  <1> HIDE DEF chosen
  <1>7. rows' \in [Files -> Rows] /\ \A f \in Files : rows'[f] \in {rows[f], chosen}
    BY <1>5 DEF Choose, Retry, IntakeInv, PageOK, chosen
  <1>8. jobs' = jobs
    BY <1>1 DEF serverVars
  <1>9. ASSUME NEW f \in Files PROVE RowOK(rows[f], jobs[content[f]])'
    <2>1. CASE rows'[f] = rows[f]
      BY <1>1, <1>8, <2>1 DEF IntakeInv, PageOK, RowOK
    <2>2. CASE rows'[f] = chosen
      BY <1>1, <1>6, <1>8, <2>2 DEF IntakeInv, PageOK, RowOK
    <2> QED BY <1>7, <2>1, <2>2
  <1>10. PageOK'
    BY <1>1, <1>4, <1>7, <1>9 DEF IntakeInv, PageOK
  <1> QED BY <1>2, <1>10 DEF IntakeInv

LEMMA RemoveLineKeeps ==
  ASSUME IntakeInv, NEW f \in Files, RemoveLine(f)
  PROVE  IntakeInv'
  <1>1. ServerOK' /\ Grows
    BY SameServer DEF IntakeInv, RemoveLine
  <1>2. RowOK(NoRow, jobs'[content[f]])
    BY NoRowOK, IntakeAssumption DEF RemoveLine, RowOK, NoRow
  <1>3. PageOK'
    BY <1>1, <1>2, NoRowOK, OneLine DEF IntakeInv, RemoveLine
  <1> QED BY <1>1, <1>3 DEF IntakeInv

LEMMA BeginKeeps ==
  ASSUME IntakeInv, NEW f \in Files, Begin(f)
  PROVE  IntakeInv'
  <1> DEFINE row == [rows[f] EXCEPT !.phase = "UPLOADING", !.answer = NoAnswer,
                                    !.step = IF rows[f].known THEN "check" ELSE "prepare"]
  <1>1. ServerOK' /\ Grows
    BY SameServer DEF IntakeInv, Begin
  <1>2. RowOK(rows[f], jobs[content[f]]) /\ rows[f] \in Rows /\ Grows
    BY <1>1, StillTrue DEF IntakeInv
  <1>3. row \in Rows
    <2>1. [rows[f] EXCEPT !.phase = "UPLOADING"] \in Rows
      BY <1>2, LineFields
    <2>2. [rows[f] EXCEPT !.phase = "UPLOADING", !.answer = NoAnswer] \in Rows
      BY <2>1, LineFields
    <2> QED BY <2>2, LineFields
  <1>4. RowOK(row, jobs'[content[f]])
    BY <1>2, IntakeAssumption DEF RowOK, Begin, serverVars, Rows
  <1>5. rows' = [rows EXCEPT ![f] = row] /\ UNCHANGED <<content, transfers>>
    BY DEF Begin
  <1> HIDE DEF row
  <1>6. PageOK'
    BY <1>1, <1>3, <1>4, <1>5, OneLine DEF IntakeInv
  <1> QED BY <1>1, <1>6 DEF IntakeInv
------------------------------------------------------------------------------
(* Requests and what becomes of them.                                      *)
LEMMA ServeKeeps ==
  ASSUME IntakeInv, NEW f \in Files, Serve(f)
  PROVE  IntakeInv'
  <1> DEFINE s == content[f]
             Answers(v) == [rows[f] EXCEPT !.answer = v]
  <1>1. /\ s \in Sources /\ rows[f] \in Rows /\ RowOK(rows[f], jobs[s])
        /\ UNCHANGED <<content, transfers>>
    BY DEF IntakeInv, PageOK, Serve
  <1>2. ASSUME NEW v \in {"target", "duplicate", "done", "conflict"},
               ServerOK', Grows,
               rows' = [rows EXCEPT ![f] = Answers(v)],
               jobs'[s].status # "NONE",
               v = "duplicate" => jobs'[s].uploaded,
               v = "done" /\ rows[f].step # "put" => jobs'[s].uploaded
        PROVE  IntakeInv'
    <2>1. Answers(v) \in Rows
      BY <1>1, LineFields
    <2>2. /\ Answers(v).step = rows[f].step /\ Answers(v).answer = v
          /\ Answers(v).phase = rows[f].phase
      BY <1>1 DEF Rows
    <2>3. jobs[s].uploaded => jobs'[s].uploaded
      BY <1>1, <1>2 DEF Grows
    <2>4. RowOK(Answers(v), jobs'[s])
      BY <1>1, <1>2, <2>2, <2>3 DEF RowOK
    <2> HIDE DEF Answers
    <2>5. PageOK'
      BY <1>1, <1>2, <2>1, <2>4, OneLine DEF IntakeInv
    <2> QED BY <1>2, <2>5 DEF IntakeInv
  <1>3. CASE rows[f].step = "prepare"
    <2>1. Prepare(s) /\ rows' = [rows EXCEPT ![f] = Answers(PrepareAnswer(s))]
      BY <1>3 DEF Serve
    <2>2. PrepareAnswer(s) \in {"target", "duplicate"}
      BY DEF PrepareAnswer
    <2> QED BY <1>1, <1>2, <2>1, <2>2, PrepareKeeps DEF IntakeInv
  <1>4. CASE rows[f].step = "put"
    <2>1. Put(s) /\ rows' = [rows EXCEPT ![f] = Answers("done")]
      BY <1>4 DEF Serve
    <2>2. jobs[s].status # "NONE" /\ jobs' = jobs
      BY <1>1, <1>4, <2>1 DEF RowOK, Put
    <2> QED BY <1>1, <1>2, <1>4, <2>1, <2>2, PutKeeps DEF IntakeInv
  <1>5. CASE rows[f].step \in {"check", "recheck", "confirm"}
    <2>1. Complete(s) /\ rows' = [rows EXCEPT ![f] = Answers(CompleteAnswer(s))]
      BY <1>5 DEF Serve
    <2>2. jobs[s].status # "NONE" /\ CompleteAnswer(s) \in {"done", "conflict"}
      BY <1>1, <1>5 DEF RowOK, CompleteAnswer
    <2>3. ServerOK' /\ Grows /\ (CompleteAnswer(s) = "done" => jobs'[s].uploaded)
      BY <1>1, <2>1, <2>2, CompleteKeeps DEF IntakeInv
    <2>4. jobs'[s].status # "NONE"
      BY <1>1, <2>2, <2>3 DEF Grows
    <2> QED BY <1>2, <2>1, <2>2, <2>3, <2>4
  <1> QED BY <1>3, <1>4, <1>5 DEF Serve

LEMMA LossKeeps ==
  ASSUME IntakeInv, NEW f \in Files, Lose(f) \/ Lapse(f)
  PROVE  IntakeInv'
  <1>1. ServerOK' /\ Grows /\ UNCHANGED <<content, transfers>> /\ jobs' = jobs
    BY SameServer DEF IntakeInv, Lose, Lapse, serverVars
  <1>2. rows[f] \in Rows /\ RowOK(rows[f], jobs[content[f]])
    BY DEF IntakeInv, PageOK
  <1>3. CASE Lose(f)
    <2> DEFINE row == [rows[f] EXCEPT !.answer = "lost"]
    <2>1. row \in Rows /\ rows' = [rows EXCEPT ![f] = row]
      BY <1>2, <1>3, LineFields DEF Lose
    <2>2. RowOK(row, jobs'[content[f]])
      BY <1>1, <1>2 DEF RowOK, Rows
    <2> HIDE DEF row
    <2>3. PageOK'
      BY <1>1, <2>1, <2>2, OneLine DEF IntakeInv
    <2> QED BY <1>1, <2>3 DEF IntakeInv
  <1>4. CASE Lapse(f)
    <2> DEFINE row == [rows[f] EXCEPT !.target = "lapsed"]
    <2>1. row \in Rows /\ rows' = [rows EXCEPT ![f] = row]
      BY <1>2, <1>4, LineFields DEF Lapse
    <2>2. RowOK(row, jobs'[content[f]])
      BY <1>1, <1>2 DEF RowOK, Rows
    <2> HIDE DEF row
    <2>3. PageOK'
      BY <1>1, <2>1, <2>2, OneLine DEF IntakeInv
    <2> QED BY <1>1, <2>3 DEF IntakeInv
  <1> QED BY <1>3, <1>4
------------------------------------------------------------------------------
(* What a worker does with an answer.                                      *)

(* A worker's step changes nothing on the server, one line, and perhaps    *)
(* the transfer of its source.                                             *)
LEMMA WorkerKeeps ==
  ASSUME IntakeInv, NEW f \in Files, UNCHANGED <<content, serverVars>>,
         NEW row \in Rows, rows' = [rows EXCEPT ![f] = row],
         RowOK(row, jobs[content[f]]),
         \/ UNCHANGED transfers
         \/ \E result \in {"pending", "failed"} : Settle(f, result)
         \/ Settle(f, "ok") /\ jobs[content[f]].uploaded
  PROVE  IntakeInv'
  <1>1. ServerOK' /\ Grows
    BY SameServer DEF IntakeInv
  <1>2. jobs' = jobs /\ content' = content
    BY DEF serverVars
  <1>3. RowOK(row, jobs'[content[f]])
    BY <1>2
  <1>4. \/ UNCHANGED transfers
        \/ \E result \in {"pending", "failed"} : Settle(f, result)
        \/ Settle(f, "ok") /\ jobs'[content[f]].uploaded
    BY <1>2
  <1>5. PageOK'
    BY <1>1, <1>2, <1>3, <1>4, OneLine DEF IntakeInv
  <1> QED BY <1>1, <1>5 DEF IntakeInv

(* A line fails, whatever it was told.                                     *)
LEMMA FailsKeeps ==
  ASSUME IntakeInv, NEW f \in Files, UNCHANGED <<content, serverVars>>,
         rows' = Ends(f, "ERROR"), UNCHANGED transfers \/ Settle(f, "failed")
  PROVE  IntakeInv'
  <1>1. rows[f] \in Rows /\ RowOK(rows[f], jobs[content[f]])
    BY DEF IntakeInv, PageOK
  <1> DEFINE row == [rows[f] EXCEPT !.phase = "ERROR", !.step = "none", !.answer = NoAnswer]
  <1>2. row \in Rows
    <2>1. [rows[f] EXCEPT !.phase = "ERROR"] \in Rows
      BY <1>1, LineFields
    <2>2. [rows[f] EXCEPT !.phase = "ERROR", !.step = "none"] \in Rows
      BY <2>1, LineFields
    <2> QED BY <2>2, LineFields
  <1>3. RowOK(row, jobs[content[f]])
    BY <1>1, IntakeAssumption DEF RowOK, Rows
  <1>4. rows' = [rows EXCEPT ![f] = row]
    BY DEF Ends
  <1> HIDE DEF row
  <1> QED BY <1>2, <1>3, <1>4, WorkerKeeps

(* A line is reported once its source is confirmed.                        *)
LEMMA ReportsKeeps ==
  ASSUME IntakeInv, NEW f \in Files, UNCHANGED <<content, serverVars>>,
         NEW phase \in {"UPLOADED", "DUPLICATE"}, rows' = Ends(f, phase),
         jobs[content[f]].uploaded,
         UNCHANGED transfers \/ Settle(f, "ok")
  PROVE  IntakeInv'
  <1> DEFINE row == [NoRow EXCEPT !.phase = phase]
  <1>1. row \in Rows
    BY NoRowOK, LineFields
  <1>2. RowOK(row, jobs[content[f]])
    BY IntakeAssumption DEF RowOK, NoRow
  <1>3. rows' = [rows EXCEPT ![f] = row]
    BY DEF Ends
  <1> HIDE DEF row
  <1> QED BY <1>1, <1>2, <1>3, WorkerKeeps

(* A line that knows its job goes on to the next request, or waits for     *)
(* another line.                                                           *)
LEMMA GoesOnKeeps ==
  ASSUME IntakeInv, NEW f \in Files, UNCHANGED <<content, serverVars>>,
         NEW base \in Rows, base.phase = rows[f].phase,
         NEW step \in {"prepare", "put", "recheck", "confirm", "await"},
         rows' = [rows EXCEPT ![f] = [base EXCEPT !.step = step, !.answer = NoAnswer]],
         jobs[content[f]].status # "NONE",
         UNCHANGED transfers \/ Settle(f, "pending")
  PROVE  IntakeInv'
  <1>1. RowOK(rows[f], jobs[content[f]])
    BY DEF IntakeInv, PageOK
  <1> DEFINE row == [base EXCEPT !.step = step, !.answer = NoAnswer]
  <1>2. row \in Rows
    <2>1. [base EXCEPT !.step = step] \in Rows
      BY LineFields
    <2> QED BY <2>1, LineFields
  <1>3. RowOK(row, jobs[content[f]])
    BY <1>1, IntakeAssumption DEF RowOK, Rows
  <1> HIDE DEF row
  <1>4. rows' = [rows EXCEPT ![f] = row]
    BY DEF row
  <1> QED BY <1>2, <1>3, <1>4, WorkerKeeps

(* The first line of a job transfers it; others of the run wait for it.    *)
LEMMA JoinsKeeps ==
  ASSUME IntakeInv, NEW f \in Files, UNCHANGED <<content, serverVars>>,
         NEW uploaded \in BOOLEAN, NEW base \in Rows, base.phase = rows[f].phase,
         Joins(f, uploaded, base),
         jobs[content[f]].status # "NONE",
         uploaded => jobs[content[f]].uploaded
  PROVE  IntakeInv'
  <1>1. CASE transfers[content[f]] # "none"
    BY <1>1, GoesOnKeeps DEF Joins
  <1>2. CASE transfers[content[f]] = "none" /\ uploaded
    BY <1>2, ReportsKeeps DEF Joins
  <1>3. CASE transfers[content[f]] = "none" /\ ~uploaded
    BY <1>3, GoesOnKeeps DEF Joins
  <1> QED BY <1>1, <1>2, <1>3

(* A worker takes up the answer its line was waiting for.                  *)
LEMMA UploadOneKeeps ==
  ASSUME IntakeInv, NEW f \in Files, UploadOne(f)
  PROVE  IntakeInv'
  <1>1. UNCHANGED <<content, serverVars>>
    BY DEF UploadOne
  <1>2. /\ rows[f] \in Rows /\ RowOK(rows[f], jobs[content[f]])
        /\ content[f] \in Sources /\ TransferOK(content[f])
    BY DEF IntakeInv, PageOK
  <1>3. ASSUME NEW step \in {"prepare", "recheck", "confirm"}, rows' = Waits(f, step),
               UNCHANGED transfers, jobs[content[f]].status # "NONE"
        PROVE  IntakeInv'
    <2>1. rows' = [rows EXCEPT ![f] = [rows[f] EXCEPT !.step = step, !.answer = NoAnswer]]
      BY <1>3 DEF Waits
    <2> QED BY <1>1, <1>2, <1>3, <2>1, GoesOnKeeps
  <1>4. CASE Prepared(f)
    <2>1. CASE rows[f].answer = "duplicate" /\ rows' = Ends(f, "DUPLICATE")
               /\ UNCHANGED transfers
      BY <1>1, <1>2, <2>1, ReportsKeeps DEF RowOK
    <2>2. CASE rows[f].answer = "target"
               /\ Joins(f, FALSE, [rows[f] EXCEPT !.known = TRUE, !.target = "live"])
      <3> DEFINE base == [rows[f] EXCEPT !.known = TRUE, !.target = "live"]
      <3>1. base \in Rows
        <4>1. [rows[f] EXCEPT !.known = TRUE] \in Rows
          BY <1>2, LineFields
        <4> QED BY <4>1, LineFields
      <3>2. base.phase = rows[f].phase
        BY <1>2 DEF Rows
      <3>3. jobs[content[f]].status # "NONE" /\ Joins(f, FALSE, base)
        BY <1>2, <2>2 DEF RowOK
      <3> HIDE DEF base
      <3> QED BY <1>1, <3>1, <3>2, <3>3, JoinsKeeps
    <2>3. CASE rows[f].answer = "lost" /\ Fails(f)
      BY <1>1, <2>3, FailsKeeps DEF Fails
    <2> QED BY <1>4, <2>1, <2>2, <2>3 DEF Prepared
  <1>5. CASE Checked(f)
    <2>1. jobs[content[f]].status # "NONE"
      BY <1>2, <1>5 DEF Checked, RowOK
    <2>2. CASE rows[f].answer = "done" /\ Joins(f, TRUE, rows[f])
      BY <1>1, <1>2, <1>5, <2>1, <2>2, JoinsKeeps DEF Checked, RowOK
    <2>3. CASE Joins(f, FALSE, rows[f])
      BY <1>1, <1>2, <2>1, <2>3, JoinsKeeps
    <2>4. CASE rows' = Waits(f, "prepare") /\ UNCHANGED transfers
      BY <1>3, <2>1, <2>4
    <2>5. CASE Fails(f)
      BY <1>1, <2>5, FailsKeeps DEF Fails
    <2> QED BY <1>5, <2>2, <2>3, <2>4, <2>5 DEF Checked
  <1>6. CASE Joined(f)
    <2>1. CASE transfers[content[f]] = "ok" /\ rows' = Ends(f, "DUPLICATE")
               /\ UNCHANGED transfers
      BY <1>1, <1>2, <2>1, ReportsKeeps DEF TransferOK
    <2>2. CASE Fails(f)
      BY <1>1, <2>2, FailsKeeps DEF Fails
    <2> QED BY <1>6, <2>1, <2>2 DEF Joined
  <1>7. CASE PutDone(f)
    <2>1. jobs[content[f]].status # "NONE" /\ UNCHANGED transfers
      BY <1>2, <1>7 DEF PutDone, RowOK
    <2> QED BY <1>3, <1>7, <2>1 DEF PutDone
  <1>8. CASE Confirmed(f)
    <2>1. CASE rows[f].answer = "done" /\ rows' = Ends(f, "UPLOADED") /\ Settle(f, "ok")
      BY <1>1, <1>2, <1>8, <2>1, ReportsKeeps DEF Confirmed, RowOK
    <2>2. CASE rows' = Ends(f, "ERROR") /\ Settle(f, "failed")
      BY <1>1, <2>2, FailsKeeps
    <2> QED BY <1>8, <2>1, <2>2 DEF Confirmed
  <1> QED BY <1>4, <1>5, <1>6, <1>7, <1>8 DEF UploadOne
------------------------------------------------------------------------------
(* Somebody else's file: the server moves on, the page does not.           *)
LEMMA OthersKeep ==
  ASSUME IntakeInv, NEW s \in Sources,
         \/ OtherTabSteps(s) \/ Callback(s)
         \/ AiAnswers(s) \/ AiFails(s) \/ AiRetried(s)
  PROVE  IntakeInv'
  <1>1. UNCHANGED <<content, rows, transfers>>
    BY DEF OtherTabSteps, Callback, AiAnswers, AiFails, AiRetried, AiMoves
  <1>2. jobs[s] # NoJob => jobs[s].status # "NONE"
    BY DEF IntakeInv, ServerOK, SourceOK, Jobs, NoJob
  <1>3. ServerOK' /\ Grows
    BY <1>2, PrepareKeeps, PutKeeps, CompleteKeeps, CallbackKeeps, AiKeeps
       DEF OtherTabSteps, IntakeInv
  <1> QED BY <1>1, <1>3, PageStays DEF IntakeInv

LEMMA IntakeStep == IntakeInv /\ [IntakeNext]_intakeVars => IntakeInv'
  <1> SUFFICES ASSUME IntakeInv, [IntakeNext]_intakeVars PROVE IntakeInv'
    OBVIOUS
  <1>1. ASSUME NEW fs \in SUBSET Files, Choose(fs) \/ Retry(fs) PROVE IntakeInv'
    BY <1>1, ListKeeps
  <1>2. ASSUME NEW f \in Files,
               \/ RemoveLine(f) \/ Begin(f) \/ UploadOne(f)
               \/ Serve(f) \/ Lose(f) \/ Lapse(f)
        PROVE  IntakeInv'
    BY <1>2, RemoveLineKeeps, BeginKeeps, UploadOneKeeps, ServeKeeps, LossKeeps
  <1>3. ASSUME NEW s \in Sources,
               \/ Callback(s) \/ AiAnswers(s) \/ AiFails(s) \/ AiRetried(s)
               \/ OtherTabSteps(s)
        PROVE  IntakeInv'
    BY <1>3, OthersKeep
  <1>4. CASE UNCHANGED intakeVars
    <2>1. UNCHANGED serverVars /\ UNCHANGED <<content, rows, transfers>>
      BY <1>4 DEF intakeVars, serverVars
    <2>2. ServerOK' /\ Grows
      BY <2>1, SameServer DEF IntakeInv
    <2> QED BY <2>1, <2>2, PageStays DEF IntakeInv
  <1> QED BY <1>1, <1>2, <1>3, <1>4 DEF IntakeNext

(* The invariant holds in every behaviour of the page and the server.      *)
THEOREM IntakeHolds == IntakeSpec => []IntakeInv
  BY IntakeInitially, IntakeStep, PTL DEF IntakeSpec

(* AuditApplicant follows PdfExtractionJob: whatever order confirmations,  *)
(* callbacks, answers and retries come in, an applicant is shown with the  *)
(* status its jobs have come to, for every number of files and sources.    *)
THEOREM ApplicantsFollow == IntakeSpec => []ApplicantFollowsJob
  <1>1. IntakeInv => ApplicantFollowsJob
    BY DEF IntakeInv, ServerOK
  <1> QED BY <1>1, IntakeHolds, PTL

(* use-review-uploads.ts: no line is shown as uploaded, or as a duplicate, *)
(* before the server has confirmed its content, for every number of files, *)
(* sources and concurrent transfers.                                       *)
THEOREM ReportsAreStored == IntakeSpec => []ReportedIsStored
  <1>1. IntakeInv => ReportedIsStored
    BY DEF IntakeInv, ServerOK, SourceOK, PageOK, RowOK, ReportedIsStored
  <1> QED BY <1>1, IntakeHolds, PTL
==============================================================================
