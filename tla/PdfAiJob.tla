------------------------------ MODULE PdfAiJob ------------------------------
(***************************************************************************)
(* One row of pdf_ai_jobs: the AI enrichment of one extracted PDF, and the *)
(* transitions PdfAiJob.java allows on it.  Every operator takes the row   *)
(* and the instant the transaction read from its clock and returns the row *)
(* as saved.  Provider, prompt version, error code and role snapshot are   *)
(* left out; resultJson is represented by the lease token of the attempt   *)
(* whose answer is stored.                                                 *)
(***************************************************************************)
EXTENDS Integers, Sequences

CONSTANTS
  MaxAttempts,      \* yesulin.pdf-ai.max-attempts, 1..5
  LeaseDuration,    \* yesulin.pdf-ai.lease-duration
  BackoffBase,      \* the literal 15 of retryOrFail, in model time units
  BackoffCap,       \* the literal 300 of retryOrFail
  NoModel           \* modelId before the first attempt

ASSUME AttemptsAssumption == MaxAttempts \in Nat \ {0}
ASSUME LeaseAssumption    == LeaseDuration \in Nat \ {0}
ASSUME BackoffAssumption  == BackoffBase \in Nat /\ BackoffCap \in Nat

NoInstant == -1     \* a null Instant column
NoToken   == 0      \* a null token column; UUIDs are drawn as 1, 2, ...

(* 1 << n for 0 <= n <= 10, all the shifts the code performs. *)
ShiftTable == <<1, 2, 4, 8, 16, 32, 64, 128, 256, 512, 1024>>

AtMost(limit, x) == IF x > limit THEN limit ELSE x

(* A row that was never inserted. `drawn` counts the UUIDs handed out for  *)
(* this row: the supply of fresh lease tokens.                             *)
NoRow ==
  [status |-> "NONE", attempts |-> 0, retryGeneration |-> 0,
   escalationPending |-> FALSE, nextAttemptAt |-> 0,
   leaseExpiresAt |-> NoInstant, leaseToken |-> NoToken,
   modelId |-> NoModel, resultOf |-> NoToken, updatedAt |-> 0, drawn |-> 0]

NewJob(t) ==
  [NoRow EXCEPT !.status = "PENDING", !.nextAttemptAt = t, !.updatedAt = t]

Skip(job, t) == [job EXCEPT !.status = "SKIPPED", !.updatedAt = t]

Release(job, t) ==
  [job EXCEPT !.leaseToken = NoToken, !.leaseExpiresAt = NoInstant, !.updatedAt = t]

(* Mutant: the attempt is not counted. *)
AcquireUncounted(job, t, model) ==
  [job EXCEPT !.status = "RUNNING", !.drawn = @ + 1, !.leaseToken = job.drawn + 1,
              !.leaseExpiresAt = t + LeaseDuration,
              !.modelId = model, !.updatedAt = t]

AcquireLease(job, t, model) ==
  [job EXCEPT !.status = "RUNNING", !.attempts = @ + 1,
              !.drawn = @ + 1, !.leaseToken = job.drawn + 1,
              !.leaseExpiresAt = t + LeaseDuration,
              !.modelId = model, !.updatedAt = t]

(* Mutants of OwnsLease: the token, or the expiry, is not compared. *)
OwnsAnyLease(job, token, t)   == job.status = "RUNNING" /\ t < job.leaseExpiresAt
OwnsEvenLapsed(job, token, t) == job.status = "RUNNING" /\ job.leaseToken = token

OwnsLease(job, token, t) ==
  /\ job.status = "RUNNING"
  /\ job.leaseToken = token
  /\ t < job.leaseExpiresAt

CompleteJob(job, token, t) ==
  Release([job EXCEPT !.status = "COMPLETED", !.resultOf = token], t)

Backoff(attempts) ==
  AtMost(BackoffCap, BackoffBase * ShiftTable[AtMost(5, attempts - 1) + 1])

RetryOrFail(job, retryable, t) ==
  Release([job EXCEPT
             !.status = IF retryable /\ job.attempts < MaxAttempts
                        THEN "PENDING" ELSE "FAILED",
             !.nextAttemptAt = t + Backoff(job.attempts)], t)

RecoverExpired(job, t) == RetryOrFail(job, TRUE, t)

(* One call of the primary model is given back: the answer was readable    *)
(* but rejected, and the escalation model repeats it.                      *)
RequestEscalation(job, t) ==
  Release([job EXCEPT !.status = "PENDING", !.escalationPending = TRUE,
                      !.attempts = @ - 1, !.nextAttemptAt = t], t)

(* What a failure notice names: the failure, by attempt, instant and       *)
(* retry generation.                                                       *)
NoticeOf(job) ==
  [attempts |-> job.attempts, failedAt |-> job.updatedAt,
   generation |-> job.retryGeneration]

(* Mutant: the retry generation is not compared. *)
AnswersByTimeOnly(job, notice) ==
  /\ job.status = "FAILED"
  /\ job.attempts = notice.attempts /\ job.updatedAt = notice.failedAt

Answers(job, notice) == job.status = "FAILED" /\ NoticeOf(job) = notice

RequestRetry(job, t) ==
  Release([job EXCEPT !.status = "PENDING", !.attempts = 0,
                      !.retryGeneration = @ + 1, !.escalationPending = FALSE,
                      !.resultOf = NoToken, !.nextAttemptAt = t], t)
=============================================================================
