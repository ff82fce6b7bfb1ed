----------------------------- MODULE PdfAiQueue -----------------------------
(***************************************************************************)
(* The AI enrichment queue of pdfextraction: PdfAiQueueService, the gate,  *)
(* PdfAiRoutingService, PdfAiWorker and PdfAiRetryService over the tables  *)
(* pdf_ai_jobs, pdf_ai_worker_gate and pdf_ai_model_circuits.              *)
(*                                                                         *)
(* Each database transaction is one action: claim() serialises on the gate *)
(* row, the others on the job row they lock first.  Between two            *)
(* transactions of a worker lies the call to the model, during which the   *)
(* lease may run out, another worker may take the job, the server may die  *)
(* and the job may be deleted.  `now` is the clock the servers share.      *)
(***************************************************************************)
EXTENDS PdfAiModelCircuit, FiniteSets

CONSTANTS
  Jobs,             \* the extraction jobs that may ask for enrichment
  ReviewJobs,       \* those of purpose PDF_REVIEW; the others are ACTOR_PROFILE
  Concurrency,      \* yesulin.pdf-ai.concurrency, over all servers
  RequestInterval,  \* yesulin.pdf-ai.request-interval
  RecoveryPage,     \* the literal 32 of claim(): expired leases recovered at once
  PrimaryModel, EscalationModel,
  CircuitEnabled,   \* protectedProvider()
  EscalationAllowed,\* escalationAllowed()
  Damages,          \* what may turn out unreadable: "none", "roles", "payload"
  NoJob,
  MaxTime,          \* bound on the clock
  MaxGeneration     \* bound on manual retries of one job

ASSUME JobsAssumption ==
  /\ IsFiniteSet(Jobs) /\ NoJob \notin Jobs /\ ReviewJobs \subseteq Jobs
  /\ Damages \subseteq {"none", "roles", "payload"}
ASSUME LimitsAssumption ==
  /\ Concurrency \in Nat \ {0}
  /\ RecoveryPage \in Nat \ {0}
  /\ RequestInterval \in Nat
  /\ MaxTime \in Nat /\ MaxGeneration \in Nat
ASSUME ModelsAssumption ==
  /\ NoModel \notin {PrimaryModel, EscalationModel}
  /\ CircuitEnabled \in BOOLEAN
  /\ EscalationAllowed \in BOOLEAN
  /\ EscalationAllowed => PrimaryModel # EscalationModel

VARIABLES
  now,              \* the shared clock
  jobs,             \* pdf_ai_jobs
  circuits,         \* pdf_ai_model_circuits
  nextRequestAt,    \* the one row of pdf_ai_worker_gate
  damage,           \* what of each job's stored input no longer parses
  inflight,         \* PdfAiWork held by workers waiting for the model
  notices,          \* failure notices shown to operators, by job
  retries,          \* history: notices answered by a retry, by job, in order
  calls             \* history: works handed out in the current generation

vars == <<now, jobs, circuits, nextRequestAt, damage, inflight, notices, retries, calls>>

Models == {PrimaryModel, EscalationModel}

Init ==
  /\ now = 0
  /\ jobs = [j \in Jobs |-> NoRow]
  /\ circuits = [m \in Models |-> NewCircuit]
  /\ nextRequestAt = 0
  /\ damage \in [Jobs -> Damages]
  /\ inflight = {}
  /\ notices = [j \in Jobs |-> {}]
  /\ retries = [j \in Jobs |-> <<>>]
  /\ calls = [j \in Jobs |-> 0]

-----------------------------------------------------------------------------
(* Every transaction that saves rows as FAILED leads to a failure notice.  *)
NoticesAfter(rows) ==
  [j \in Jobs |-> IF rows[j].status = "FAILED"
                  THEN notices[j] \cup {NoticeOf(rows[j])} ELSE notices[j]]

SaveJobs(rows) == jobs' = rows /\ notices' = NoticesAfter(rows)

(* Mutant: a late callback enqueues a deleted job again. *)
EnqueueAgain(j, skipped) ==
  /\ jobs[j].status \in {"NONE", "DELETED"}
  /\ SaveJobs([jobs EXCEPT ![j] = IF skipped THEN Skip(NewJob(now), now) ELSE NewJob(now)])
  /\ UNCHANGED <<now, circuits, nextRequestAt, damage, inflight, retries, calls>>

(* PdfAiQueueService.enqueue, in the callback's transaction; `skipped` when *)
(* one of its five reasons for not calling a model holds.                  *)
Enqueue(j, skipped) ==
  /\ jobs[j].status = "NONE"
  /\ SaveJobs([jobs EXCEPT ![j] = IF skipped THEN Skip(NewJob(now), now) ELSE NewJob(now)])
  /\ UNCHANGED <<now, circuits, nextRequestAt, damage, inflight, retries, calls>>

-----------------------------------------------------------------------------
(* claim(): recovery, capacity, one candidate per route, permit, lease.    *)

Live(rows) == {j \in Jobs : rows[j].status = "RUNNING" /\ rows[j].leaseExpiresAt > now}

Expired == {j \in Jobs : jobs[j].status = "RUNNING" /\ jobs[j].leaseExpiresAt <= now}

RecoveryPages ==
  {page \in SUBSET Expired :
     Cardinality(page) = AtMost(RecoveryPage, Cardinality(Expired))}

Recovered(page) ==
  [j \in Jobs |-> IF j \in page THEN RecoverExpired(jobs[j], now) ELSE jobs[j]]

Eligible(rows, escalated) ==
  {j \in Jobs : /\ rows[j].status = "PENDING"
                /\ rows[j].nextAttemptAt <= now
                /\ rows[j].escalationPending = escalated}

(* findEligible, page of one.  Rows of the same instant come in any order: *)
(* createdAt, which breaks the tie, is not kept.                           *)
Heads(rows, escalated) ==
  LET due == Eligible(rows, escalated)
  IN  IF due = {} THEN {NoJob}
      ELSE {j \in due : \A k \in due : rows[j].nextAttemptAt <= rows[k].nextAttemptAt}

(* Mutant: only the overall oldest job is a candidate, whatever its route. *)
OldestOnly(rows) ==
  LET due == Eligible(rows, FALSE) \cup Eligible(rows, TRUE)
      first == {j \in due : \A k \in due : rows[j].nextAttemptAt <= rows[k].nextAttemptAt}
  IN  IF due = {} THEN {<<NoJob, NoJob>>} ELSE first \X {NoJob}

Candidates(rows) ==
  LET ordered(q) == NoJob \notin {q[1], q[2]}
                      => rows[q[1]].nextAttemptAt <= rows[q[2]].nextAttemptAt
  IN  {q \in (Heads(rows, FALSE) \X Heads(rows, TRUE))
             \cup (Heads(rows, TRUE) \X Heads(rows, FALSE)) : ordered(q)}

RouteOf(job) == IF job.escalationPending THEN EscalationModel ELSE PrimaryModel

RouteAdmits(cs, job) == ~CircuitEnabled \/ Admits(cs[RouteOf(job)], now)

Unprotected == [generation |-> -1, probeToken |-> NoToken]

(* A transaction of claim() in progress: rows, circuits, work handed out.  *)
(* One turn of its loop over the candidates.                               *)
Try(tx, j) ==
  LET model  == RouteOf(tx.jobs[j])
      c      == Acquired(tx.circuits[model], now)
      permit == IF CircuitEnabled THEN PermitOf(c) ELSE Unprotected
      leased == AcquireLease(tx.jobs[j], now, model)
      work   == [job |-> j, token |-> leased.leaseToken, model |-> model, permit |-> permit]
      left   == IF CircuitEnabled THEN [tx.circuits EXCEPT ![model] = c] ELSE tx.circuits
  IN  IF j = NoJob \/ tx.granted # {} \/ ~RouteAdmits(tx.circuits, tx.jobs[j]) THEN tx
      ELSE IF damage[j] = "none"
      THEN [jobs |-> [tx.jobs EXCEPT ![j] = leased], circuits |-> left, granted |-> {work}]
      ELSE [jobs |-> [tx.jobs EXCEPT ![j] = RetryOrFail(leased, FALSE, now)],
            circuits |-> IF CircuitEnabled
                         THEN [left EXCEPT ![model] = Abandon(c, permit, now)] ELSE left,
            granted |-> {}]

(* The failure event of an actor's job is handled in the same transaction  *)
(* and reads the extraction payload again: without it the handler throws   *)
(* and the claim rolls back.                                               *)
HandlerThrows(rows) ==
  \E j \in Jobs \ ReviewJobs :
    /\ damage[j] = "payload"
    /\ rows[j].status = "FAILED" /\ jobs[j].status # "FAILED"

(* Mutant: the gate is not moved on. *)
GateStays(granted) == nextRequestAt

GateAfter(granted) == IF granted = {} THEN nextRequestAt ELSE now + RequestInterval

Commit(tx) ==
  /\ ~HandlerThrows(tx.jobs)
  /\ SaveJobs(tx.jobs)
  /\ circuits' = tx.circuits
  /\ inflight' = inflight \cup tx.granted
  /\ nextRequestAt' = GateAfter(tx.granted)
  /\ calls' = [j \in Jobs |-> IF j \in {w.job : w \in tx.granted}
                              THEN calls[j] + 1 ELSE calls[j]]
  /\ UNCHANGED <<now, damage, retries>>

GatePermits == now >= nextRequestAt

(* Mutant: an off-by-one in the capacity check. *)
HasOneSlotMore(rows) == Cardinality(Live(rows)) <= Concurrency

HasCapacity(rows) == Cardinality(Live(rows)) < Concurrency

Started(page) == [jobs |-> Recovered(page), circuits |-> circuits, granted |-> {}]

Claim ==
  /\ GatePermits
  /\ \E page \in RecoveryPages :
       LET tx == Started(page)
       IN  \/ ~HasCapacity(tx.jobs) /\ Commit(tx)
           \/ /\ HasCapacity(tx.jobs)
              /\ \E q \in Candidates(tx.jobs) : Commit(Try(Try(tx, q[1]), q[2]))
-----------------------------------------------------------------------------
(* What the worker does with the model's answer.                           *)

Observed(w, limited) ==
  IF w.permit.generation < 0 THEN circuits
  ELSE [circuits EXCEPT ![w.model] =
          IF limited THEN RateLimited(@, w.permit, now) ELSE Responded(@, w.permit)]

Holds(w) == OwnsLease(jobs[w.job], w.token, now)

(* A stale answer, or one for a deleted job, is dropped. *)
Ignore(w) ==
  /\ w \in inflight /\ ~Holds(w)
  /\ inflight' = inflight \ {w}
  /\ UNCHANGED <<now, jobs, circuits, nextRequestAt, damage, notices, retries, calls>>

Settle(w, row, limited) ==
  /\ SaveJobs([jobs EXCEPT ![w.job] = row])
  /\ circuits' = Observed(w, limited)
  /\ inflight' = inflight \ {w}
  /\ UNCHANGED <<now, nextRequestAt, damage, retries, calls>>

(* complete(): the answer passed the parser and every handler applied it.  *)
Complete(w) ==
  /\ w \in inflight /\ Holds(w)
  /\ Settle(w, CompleteJob(jobs[w.job], w.token, now), FALSE)

(* Mutant: a job already on the escalation route is escalated again. *)
EscalatesAgain(w) == EscalationAllowed

Escalates(w) ==
  /\ ~jobs[w.job].escalationPending
  /\ EscalationAllowed /\ w.model = PrimaryModel

(* fail(): quota refusal, transient error (a rolled-back complete() too),  *)
(* permanent error, or output the parser rejected.                         *)
Fail(w, kind) ==
  LET row == jobs[w.job]
      next == IF kind = "QUALITY" /\ Escalates(w) THEN RequestEscalation(row, now)
              ELSE RetryOrFail(row, kind \in {"RATE_LIMITED", "TRANSIENT"}, now)
  IN  /\ w \in inflight /\ Holds(w)
      /\ Settle(w, next, kind = "RATE_LIMITED")

(* The server stops before the answer is recorded. *)
WorkerLost(w) ==
  /\ w \in inflight
  /\ inflight' = inflight \ {w}
  /\ UNCHANGED <<now, jobs, circuits, nextRequestAt, damage, notices, retries, calls>>
-----------------------------------------------------------------------------
(* PdfAiRetryService.request with the values of a notice: only a review's  *)
(* job whose payload is still there may be retried.                        *)
Retry(j, notice) ==
  /\ j \in ReviewJobs /\ notice \in notices[j]
  /\ Answers(jobs[j], notice)
  /\ jobs[j].retryGeneration < MaxGeneration
  /\ SaveJobs([jobs EXCEPT ![j] = RequestRetry(@, now)])
  /\ retries' = [retries EXCEPT ![j] = Append(@, notice)]
  /\ calls' = [calls EXCEPT ![j] = 0]
  /\ UNCHANGED <<now, circuits, nextRequestAt, damage, inflight>>

(* ProfileImportService.delete: closed by the actor or past its keeping    *)
(* time.  The extraction job stays as a tombstone, so no later callback    *)
(* enqueues it again; `jobs` keeps the row's last content.                 *)
Delete(j) ==
  /\ j \in Jobs \ ReviewJobs
  /\ jobs[j].status \notin {"NONE", "DELETED"}
  /\ SaveJobs([jobs EXCEPT ![j].status = "DELETED"])
  /\ UNCHANGED <<now, circuits, nextRequestAt, damage, inflight, retries, calls>>

Tick ==
  /\ now < MaxTime
  /\ now' = now + 1
  /\ UNCHANGED <<jobs, circuits, nextRequestAt, damage, inflight, notices, retries, calls>>

Failures == {"RATE_LIMITED", "TRANSIENT", "PERMANENT", "QUALITY"}

Next ==
  \/ \E j \in Jobs, skipped \in BOOLEAN : Enqueue(j, skipped)
  \/ Claim
  \/ \E w \in inflight : Ignore(w) \/ Complete(w) \/ WorkerLost(w)
  \/ \E w \in inflight, kind \in Failures : Fail(w, kind)
  \/ \E j \in Jobs : Delete(j)
  \/ \E j \in Jobs : \E notice \in notices[j] : Retry(j, notice)
  \/ Tick

Spec == Init /\ [][Next]_vars
-----------------------------------------------------------------------------
Statuses == {"NONE", "PENDING", "RUNNING", "COMPLETED", "FAILED", "SKIPPED", "DELETED"}

JobRow ==
  [status : Statuses, attempts : Nat, retryGeneration : Nat,
   escalationPending : BOOLEAN, nextAttemptAt : Nat, leaseExpiresAt : Int,
   leaseToken : Nat, modelId : Models \cup {NoModel}, resultOf : Nat,
   updatedAt : Nat, drawn : Nat]

Permit == [generation : Int, probeToken : Nat]

CircuitRow ==
  [state : {"CLOSED", "OPEN", "HALF_OPEN"}, consecutiveFailures : Nat,
   openCount : 0..11, generation : Nat, nextProbeAt : Int,
   probeToken : Nat, probeExpiresAt : Int, drawn : Nat]

Work == [job : Jobs, token : Nat, model : Models, permit : Permit]

Notice == [attempts : Nat, failedAt : Nat, generation : Nat]

Leased(row) ==
  row.status = "RUNNING" =>
    /\ row.leaseToken = row.drawn /\ row.drawn > 0
    /\ row.attempts > 0
    /\ row.leaseExpiresAt >= LeaseDuration

(* Every variable keeps its type; a running job has drawn its lease token, *)
(* counts at least the running attempt and has a lease that ends.          *)
TypeOK ==
  /\ now \in Nat
  /\ jobs \in [Jobs -> JobRow]
  /\ circuits \in [Models -> CircuitRow]
  /\ nextRequestAt \in Nat
  /\ damage \in [Jobs -> Damages]
  /\ inflight \subseteq Work
  /\ notices \in [Jobs -> SUBSET Notice]
  /\ retries \in [Jobs -> Seq(Notice)]
  /\ calls \in [Jobs -> Nat]
  /\ \A j \in Jobs : Leased(jobs[j])

(* At most Concurrency leases are valid at once over all servers, whatever *)
(* is recovered, lost or settled meanwhile (gate lock and count in claim). *)
LeaseCapacity == Cardinality(Live(jobs)) <= Concurrency

(* A stored result is the answer of the attempt that held the job's last   *)
(* lease: a worker whose lease ran out or passed to another never writes.  *)
HasLastResult(row) ==
  row.status = "COMPLETED" => row.resultOf = row.drawn /\ row.drawn > 0
ResultOfLastLease == \A j \in Jobs : HasLastResult(jobs[j])

(* A settled job stays as it is: late answers, repeated callbacks and      *)
(* recovery leave it alone.  Only a retry reopens a failed one, as a new   *)
(* generation, and only its deletion takes any of them away.               *)
Reopened(old, new) ==
  /\ old.status = "FAILED" /\ new.status = "PENDING"
  /\ new.retryGeneration = old.retryGeneration + 1
SettledRows ==
  {j \in Jobs : jobs[j].status \in {"COMPLETED", "SKIPPED", "FAILED", "DELETED"}}
LeavesSettled ==
  \A j \in SettledRows :
    \/ jobs'[j] = jobs[j]
    \/ Reopened(jobs[j], jobs'[j])
    \/ jobs[j].status # "DELETED" /\ jobs'[j] = [jobs[j] EXCEPT !.status = "DELETED"]
SettledStays == [][LeavesSettled]_vars

(* The model is called at most MaxAttempts times per generation, once more *)
(* if the job was escalated, and the first call goes to the primary model. *)
CallBudget ==
  \A j \in Jobs :
    /\ calls[j] <= MaxAttempts + (IF jobs[j].escalationPending THEN 1 ELSE 0)
    /\ jobs[j].escalationPending => calls[j] > 0

(* A half-open circuit that still waits for its probe has one running: the *)
(* job that holds it has a lease that ends with the probe, so the circuit  *)
(* never waits for a probe nobody sends (unless the job was deleted).      *)
ProbeBacked ==
  \A m \in Models :
    circuits[m].state = "HALF_OPEN" /\ now < circuits[m].probeExpiresAt =>
      \E j \in Jobs :
        /\ jobs[j].status \in {"RUNNING", "DELETED"}
        /\ jobs[j].modelId = m
        /\ jobs[j].leaseExpiresAt = circuits[m].probeExpiresAt

(* While a model is tested after refusing for quota, at most one worker    *)
(* with a valid lease is calling it as a probe.                            *)
Probes(m) == {w \in inflight : w.model = m /\ w.permit.probeToken # NoToken /\ Holds(w)}
OneProbeInFlight == \A m \in Models : Cardinality(Probes(m)) <= 1

(* Two leases of running jobs were granted at least RequestInterval apart, *)
(* whichever server granted them, retries and escalations included.        *)
SpacedLeases ==
  \A j, k \in {i \in Jobs : jobs[i].status = "RUNNING"} :
    j # k /\ jobs[j].leaseExpiresAt <= jobs[k].leaseExpiresAt
      => jobs[k].leaseExpiresAt >= jobs[j].leaseExpiresAt + RequestInterval

(* A failure notice restarts its job at most once, even if job, attempt    *)
(* count and clock look the same after a later failure.                    *)
NoNoticeReplayed ==
  \A j \in Jobs : \A a, b \in DOMAIN retries[j] :
    a # b => retries[j][a] # retries[j][b]

(* When the gate is open and a slot is free, a due job whose model admits  *)
(* calls is never held up by another one: the claim commits and hands out  *)
(* a job or closes an unreadable one.                                      *)
ClaimProgresses(page, q) ==
  LET tx == Try(Try(Started(page), q[1]), q[2])
  IN  ~HandlerThrows(tx.jobs) /\ tx.jobs # Recovered(page)
SomeJobServable ==
  \E j \in Eligible(jobs, FALSE) \cup Eligible(jobs, TRUE) : RouteAdmits(circuits, jobs[j])
WorkConserving ==
  GatePermits /\ HasCapacity(jobs) /\ SomeJobServable
    => \A page \in RecoveryPages : \A q \in Candidates(Recovered(page)) : ClaimProgresses(page, q)
-----------------------------------------------------------------------------
(* The queue implements the ledger: a job holds a slot while its lease is  *)
(* valid, and pending and running jobs are the open ones.                  *)
Outcome(status) ==
  CASE status = "NONE" -> "none"
    [] status \in {"PENDING", "RUNNING"} -> "open"
    [] status = "COMPLETED" -> "done"
    [] status = "FAILED" -> "failed"
    [] status = "SKIPPED" -> "skipped"
    [] status = "DELETED" -> "gone"

Ledger == INSTANCE PdfAiLedger
  WITH outcome <- [j \in Jobs |-> Outcome(jobs[j].status)],
       held <- Live(jobs),
       Slots <- Concurrency

ImplementsLedger == Ledger!Spec
=============================================================================
