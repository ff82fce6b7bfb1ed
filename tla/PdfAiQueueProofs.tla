--------------------------- MODULE PdfAiQueueProofs ---------------------------
(***************************************************************************)
(* Theorems about PdfAiQueue, for every value of its constants.  The rows  *)
(* are treated first, one lemma per transition of PdfAiJob and of          *)
(* PdfAiModelCircuit, then the loop of claim(), then the actions.  The     *)
(* next part is about the rows a step must leave alone: settled jobs stay  *)
(* settled, and every step is one of PdfAiLedger or a stutter.  The last   *)
(* part is about what claim() and its answers count: budgets, notices, the *)
(* gate and the probes.                                                    *)
(***************************************************************************)
EXTENDS PdfAiQueue, FiniteSetTheorems, TLAPS

(* A row a transaction may save. *)
SoundRow(row) == row \in JobRow /\ Leased(row) /\ HasLastResult(row)

-----------------------------------------------------------------------------
(* Arithmetic of the two back-offs.                                        *)

(* Every shift the code performs is a natural number. *)
LEMMA ShiftNat == \A n \in 1..11 : ShiftTable[n] \in Nat
BY DEF ShiftTable

(* The back-off of a counted attempt is a natural number. *)
LEMMA BackoffNat ==
  ASSUME NEW a \in Nat, a > 0
  PROVE  Backoff(a) \in Nat
<1>1. AtMost(5, a - 1) + 1 \in 1..11
  BY DEF AtMost
<1>2. ShiftTable[AtMost(5, a - 1) + 1] \in Nat
  BY <1>1, ShiftNat
<1>3. BackoffBase * ShiftTable[AtMost(5, a - 1) + 1] \in Nat
  BY <1>2, BackoffAssumption
<1> QED
  BY <1>3, BackoffAssumption DEF Backoff, AtMost

(* The time a circuit stays open is a natural number. *)
LEMMA OpenDelayNat ==
  ASSUME NEW n \in 1..11
  PROVE  OpenDelay(n) \in Nat
<1>1. OpenDuration * ShiftTable[n] \in Nat
  BY ShiftNat, OpenAssumption
<1> QED
  BY <1>1, OpenAssumption DEF OpenDelay, AtMost

-----------------------------------------------------------------------------
(* Rows of pdf_ai_jobs.                                                    *)

(* A row of which one column is replaced by a value of its type is a row. *)
LEMMA JobUpdates ==
  ASSUME NEW r \in JobRow
  PROVE  /\ \A x \in Statuses : [r EXCEPT !.status = x] \in JobRow
         /\ \A x \in BOOLEAN : [r EXCEPT !.escalationPending = x] \in JobRow
         /\ \A x \in Models : [r EXCEPT !.modelId = x] \in JobRow
         /\ \A x \in Int : [r EXCEPT !.leaseExpiresAt = x] \in JobRow
         /\ \A x \in Nat :
              /\ [r EXCEPT !.attempts = x] \in JobRow
              /\ [r EXCEPT !.retryGeneration = x] \in JobRow
              /\ [r EXCEPT !.nextAttemptAt = x] \in JobRow
              /\ [r EXCEPT !.leaseToken = x] \in JobRow
              /\ [r EXCEPT !.resultOf = x] \in JobRow
              /\ [r EXCEPT !.updatedAt = x] \in JobRow
              /\ [r EXCEPT !.drawn = x] \in JobRow
BY DEF JobRow

(* The literals the transitions write have their columns' types. *)
LEMMA Literals ==
  /\ Statuses = {"NONE", "PENDING", "RUNNING", "COMPLETED", "FAILED", "SKIPPED", "DELETED"}
  /\ "PENDING" \in Statuses /\ "RUNNING" \in Statuses /\ "COMPLETED" \in Statuses
  /\ "FAILED" \in Statuses /\ "SKIPPED" \in Statuses /\ "DELETED" \in Statuses
  /\ NoToken \in Nat /\ NoInstant \in Int /\ 0 \in Nat
  /\ TRUE \in BOOLEAN /\ FALSE \in BOOLEAN
BY DEF Statuses, NoToken, NoInstant

(* Inserting a row, skipped or not, gives a sound row. *)
LEMMA NewRowSound ==
  ASSUME NEW t \in Nat
  PROVE  SoundRow(NoRow) /\ SoundRow(NewJob(t)) /\ SoundRow(Skip(NewJob(t), t))
<1>1. NoRow \in JobRow
  BY DEF JobRow, NoRow, Statuses, NoInstant, NoToken
<1>2. NewJob(t) \in JobRow
  BY <1>1, JobUpdates, Literals, Zenon DEF NewJob
<1>3. Skip(NewJob(t), t) \in JobRow
  BY <1>2, JobUpdates, Literals, Zenon DEF Skip
<1>4. NoRow.status = "NONE"
  BY DEF NoRow
<1>5. NewJob(t).status = "PENDING"
  BY <1>1 DEF NewJob, JobRow
<1>6. Skip(NewJob(t), t).status = "SKIPPED"
  BY <1>2 DEF Skip, JobRow
<1> QED
  BY <1>1, <1>2, <1>3, <1>4, <1>5, <1>6 DEF SoundRow, Leased, HasLastResult

(* Acquiring the lease of a sound row gives a sound row. *)
LEMMA AcquireSound ==
  ASSUME NEW row, SoundRow(row), NEW t \in Nat, NEW m \in Models
  PROVE  /\ SoundRow(AcquireLease(row, t, m))
         /\ AcquireLease(row, t, m).status = "RUNNING"
         /\ AcquireLease(row, t, m).leaseToken \in Nat
<1> DEFINE new == AcquireLease(row, t, m)
<1>0. row \in JobRow
  BY DEF SoundRow
<1>1. row.attempts + 1 \in Nat /\ row.drawn + 1 \in Nat /\ t + LeaseDuration \in Int
  BY <1>0, LeaseAssumption DEF JobRow
<1>2. new \in JobRow
  BY <1>0, <1>1, JobUpdates, Literals, Zenon DEF AcquireLease
<1>3. /\ new.status = "RUNNING"
      /\ new.leaseToken = row.drawn + 1 /\ new.drawn = row.drawn + 1
      /\ new.attempts = row.attempts + 1
      /\ new.leaseExpiresAt = t + LeaseDuration
  BY <1>0 DEF AcquireLease, JobRow
<1>4. row.drawn \in Nat /\ row.attempts \in Nat
  BY <1>0 DEF JobRow
<1> HIDE DEF new
<1> QED
  BY <1>2, <1>3, <1>4, LeaseAssumption DEF SoundRow, Leased, HasLastResult, new

(* Releasing a row keeps its columns but those of the lease. *)
LEMMA ReleaseTyped ==
  ASSUME NEW row \in JobRow, NEW t \in Nat
  PROVE  /\ Release(row, t) \in JobRow
         /\ Release(row, t).status = row.status
         /\ Release(row, t).resultOf = row.resultOf
         /\ Release(row, t).drawn = row.drawn
<1>1. Release(row, t) \in JobRow
  BY JobUpdates, Literals, Zenon DEF Release
<1> QED
  BY <1>1 DEF Release, JobRow

(* A row that is not running is sound once its lease is released. *)
LEMMA ReleaseSound ==
  ASSUME NEW row \in JobRow, NEW t \in Nat, row.status # "RUNNING",
         row.status = "COMPLETED" => row.resultOf = row.drawn /\ row.drawn > 0
  PROVE  SoundRow(Release(row, t)) /\ Release(row, t).status = row.status
<1> DEFINE new == Release(row, t)
<1>1. new \in JobRow /\ new.status = row.status
  BY ReleaseTyped
<1>2. new.resultOf = row.resultOf /\ new.drawn = row.drawn
  BY ReleaseTyped
<1> HIDE DEF new
<1>3. Leased(new) /\ HasLastResult(new)
  BY <1>1, <1>2 DEF Leased, HasLastResult
<1> QED
  BY <1>1, <1>3 DEF SoundRow, new

(* Retrying or failing a counted attempt gives a sound row without lease. *)
LEMMA RetryOrFailSound ==
  ASSUME NEW row, SoundRow(row), row.attempts > 0, NEW t \in Nat, NEW retryable \in BOOLEAN
  PROVE  /\ SoundRow(RetryOrFail(row, retryable, t))
         /\ RetryOrFail(row, retryable, t).status \in {"PENDING", "FAILED"}
<1> DEFINE status == IF retryable /\ row.attempts < MaxAttempts THEN "PENDING" ELSE "FAILED"
           ready == t + Backoff(row.attempts)
           old == [row EXCEPT !.status = status, !.nextAttemptAt = ready]
<1>0. row \in JobRow
  BY DEF SoundRow
<1>1. ready \in Nat
  <2>1. row.attempts \in Nat
    BY <1>0 DEF JobRow
  <2> QED
    BY <2>1, BackoffNat
<1>2. status \in {"PENDING", "FAILED"} /\ status \in Statuses
  BY Literals
<1> HIDE DEF status, ready
<1>3. old \in JobRow
  BY <1>0, <1>1, <1>2, JobUpdates, Zenon
<1>4. old.status = status
  BY <1>0 DEF JobRow
<1>5. RetryOrFail(row, retryable, t) = Release(old, t)
  BY DEF RetryOrFail, status, ready
<1> HIDE DEF old
<1> QED
  BY <1>2, <1>3, <1>4, <1>5, ReleaseSound

(* The answer of the lease's owner becomes the result of a sound row. *)
LEMMA CompleteSound ==
  ASSUME NEW row, SoundRow(row), NEW t \in Nat, NEW token, OwnsLease(row, token, t)
  PROVE  /\ SoundRow(CompleteJob(row, token, t))
         /\ CompleteJob(row, token, t).status = "COMPLETED"
<1> DEFINE old == [row EXCEPT !.status = "COMPLETED", !.resultOf = token]
<1>0. row \in JobRow
  BY DEF SoundRow
<1>1. row.drawn \in Nat /\ token = row.drawn /\ row.drawn > 0
  BY <1>0 DEF SoundRow, JobRow, Leased, OwnsLease
<1>2. old \in JobRow
  BY <1>0, <1>1, JobUpdates, Literals, Zenon
<1>3. old.status = "COMPLETED" /\ old.resultOf = token /\ old.drawn = row.drawn
  BY <1>0 DEF JobRow
<1>4. CompleteJob(row, token, t) = Release(old, t)
  BY DEF CompleteJob
<1> HIDE DEF old
<1> QED
  BY <1>1, <1>2, <1>3, <1>4, ReleaseSound

(* Giving a running attempt back for the escalation gives a sound row. *)
LEMMA EscalationSound ==
  ASSUME NEW row, SoundRow(row), row.status = "RUNNING", NEW t \in Nat
  PROVE  /\ SoundRow(RequestEscalation(row, t))
         /\ RequestEscalation(row, t).status = "PENDING"
<1> DEFINE old == [row EXCEPT !.status = "PENDING", !.escalationPending = TRUE,
                              !.attempts = @ - 1, !.nextAttemptAt = t]
<1>0. row \in JobRow
  BY DEF SoundRow
<1>1. row.attempts - 1 \in Nat
  BY <1>0 DEF SoundRow, JobRow, Leased
<1>2. old \in JobRow
  BY <1>0, <1>1, JobUpdates, Literals, Zenon
<1>3. old.status = "PENDING"
  BY <1>0 DEF JobRow
<1>4. RequestEscalation(row, t) = Release(old, t)
  BY DEF RequestEscalation
<1> HIDE DEF old
<1> QED
  BY <1>2, <1>3, <1>4, ReleaseSound

(* Reopening and removing a row keep it sound. *)
LEMMA ReopenSound ==
  ASSUME NEW row, SoundRow(row), NEW t \in Nat
  PROVE  /\ SoundRow(RequestRetry(row, t))
         /\ RequestRetry(row, t).status = "PENDING"
         /\ SoundRow([row EXCEPT !.status = "DELETED"])
         /\ [row EXCEPT !.status = "DELETED"].status = "DELETED"
<1> DEFINE old == [row EXCEPT !.status = "PENDING", !.attempts = 0,
                              !.retryGeneration = @ + 1, !.escalationPending = FALSE,
                              !.resultOf = NoToken, !.nextAttemptAt = t]
           gone == [row EXCEPT !.status = "DELETED"]
<1>0. row \in JobRow
  BY DEF SoundRow
<1>1. row.retryGeneration + 1 \in Nat
  BY <1>0 DEF JobRow
<1>2. old \in JobRow /\ gone \in JobRow
  BY <1>0, <1>1, JobUpdates, Literals, Zenon
<1>3. old.status = "PENDING" /\ gone.status = "DELETED"
  BY <1>0 DEF JobRow
<1>4. RequestRetry(row, t) = Release(old, t)
  BY DEF RequestRetry
<1> HIDE DEF old, gone
<1>5. SoundRow(gone)
  BY <1>2, <1>3 DEF SoundRow, Leased, HasLastResult
<1>6. SoundRow(RequestRetry(row, t)) /\ RequestRetry(row, t).status = "PENDING"
  BY <1>2, <1>3, <1>4, ReleaseSound
<1> QED
  BY <1>3, <1>5, <1>6 DEF gone

(* A failure notice of a sound row is well formed. *)
LEMMA NoticeTyped ==
  ASSUME NEW row, SoundRow(row)
  PROVE  NoticeOf(row) \in Notice
BY DEF SoundRow, JobRow, NoticeOf, Notice

-----------------------------------------------------------------------------
(* Rows of pdf_ai_model_circuits.                                          *)

(* A circuit of which one column is replaced by a value of its type. *)
LEMMA CircuitUpdates ==
  ASSUME NEW c \in CircuitRow
  PROVE  /\ \A x \in {"CLOSED", "OPEN", "HALF_OPEN"} : [c EXCEPT !.state = x] \in CircuitRow
         /\ \A x \in 0..11 : [c EXCEPT !.openCount = x] \in CircuitRow
         /\ \A x \in Int :
              /\ [c EXCEPT !.nextProbeAt = x] \in CircuitRow
              /\ [c EXCEPT !.probeExpiresAt = x] \in CircuitRow
         /\ \A x \in Nat :
              /\ [c EXCEPT !.consecutiveFailures = x] \in CircuitRow
              /\ [c EXCEPT !.generation = x] \in CircuitRow
              /\ [c EXCEPT !.probeToken = x] \in CircuitRow
              /\ [c EXCEPT !.drawn = x] \in CircuitRow
BY DEF CircuitRow

(* The counters of a circuit can be counted on. *)
LEMMA CircuitCounters ==
  ASSUME NEW c \in CircuitRow
  PROVE  /\ c.generation + 1 \in Nat /\ c.drawn + 1 \in Nat
         /\ c.consecutiveFailures + 1 \in Nat
         /\ AtMost(11, c.openCount + 1) \in 1..11
         /\ AtMost(11, c.openCount + 1) \in 0..11
BY DEF CircuitRow, AtMost

(* Clearing the probe keeps the row's type. *)
LEMMA ClearProbeTyped ==
  ASSUME NEW c \in CircuitRow
  PROVE  ClearProbe(c) \in CircuitRow
BY CircuitUpdates, Literals, Zenon DEF ClearProbe

(* A granted permit, and the circuit that granted it, have their types. *)
LEMMA AcquiredTyped ==
  ASSUME NEW c \in CircuitRow, NEW t \in Nat
  PROVE  Acquired(c, t) \in CircuitRow /\ PermitOf(Acquired(c, t)) \in Permit
<1>1. t + LeaseDuration \in Int /\ "HALF_OPEN" \in {"CLOSED", "OPEN", "HALF_OPEN"}
  BY LeaseAssumption
<1>2. Acquired(c, t) \in CircuitRow
  BY <1>1, CircuitCounters, CircuitUpdates, Zenon DEF Acquired
<1> QED
  BY <1>2 DEF CircuitRow, PermitOf, Permit

(* Tripping the circuit keeps its type. *)
LEMMA OpenedTyped ==
  ASSUME NEW c \in CircuitRow, NEW t \in Nat
  PROVE  Opened(c, t) \in CircuitRow
<1> DEFINE count == AtMost(11, c.openCount + 1)
           open == [c EXCEPT !.state = "OPEN", !.openCount = count,
                             !.nextProbeAt = t + OpenDelay(count),
                             !.generation = @ + 1]
<1>1. count \in 1..11 /\ count \in 0..11
  BY CircuitCounters
<1> HIDE DEF count
<1>2. t + OpenDelay(count) \in Int /\ "OPEN" \in {"CLOSED", "OPEN", "HALF_OPEN"}
  BY <1>1, OpenDelayNat
<1>3. open \in CircuitRow
  BY <1>1, <1>2, CircuitCounters, CircuitUpdates, Zenon
<1>4. Opened(c, t) = ClearProbe(open)
  BY DEF Opened, count
<1> HIDE DEF open
<1> QED
  BY <1>3, <1>4, ClearProbeTyped

(* Each observation of an answer keeps the circuit's type. *)
LEMMA ObservedTyped ==
  ASSUME NEW c \in CircuitRow, NEW t \in Nat, NEW permit
  PROVE  /\ RateLimited(c, permit, t) \in CircuitRow
         /\ Responded(c, permit) \in CircuitRow
         /\ Abandon(c, permit, t) \in CircuitRow
<1>0. /\ "OPEN" \in {"CLOSED", "OPEN", "HALF_OPEN"}
      /\ "CLOSED" \in {"CLOSED", "OPEN", "HALF_OPEN"}
      /\ t \in Int /\ 0 \in Nat /\ 0 \in 0..11 /\ NoInstant \in Int
  BY DEF NoInstant
<1>1. RateLimited(c, permit, t) \in CircuitRow
  <2> DEFINE counted == [c EXCEPT !.consecutiveFailures = @ + 1]
  <2>1. counted \in CircuitRow
    BY CircuitCounters, CircuitUpdates, Zenon
  <2>2. Opened(counted, t) \in CircuitRow
    BY <2>1, OpenedTyped
  <2> HIDE DEF counted
  <2>3. RateLimited(c, permit, t) \in {c, counted, Opened(counted, t)}
    BY DEF RateLimited, counted
  <2> QED
    BY <2>1, <2>2, <2>3
<1>2. Responded(c, permit) \in CircuitRow
  <2> DEFINE answered == [c EXCEPT !.consecutiveFailures = 0]
             closed == [answered EXCEPT !.state = "CLOSED", !.openCount = 0,
                                        !.nextProbeAt = NoInstant, !.generation = @ + 1]
  <2>1. answered \in CircuitRow
    BY <1>0, CircuitUpdates, Zenon
  <2> HIDE DEF answered
  <2>2. closed \in CircuitRow
    BY <2>1, <1>0, CircuitCounters, CircuitUpdates, Zenon
  <2>3. Closed(answered) = ClearProbe(closed)
    BY DEF Closed
  <2> HIDE DEF closed
  <2>4. Closed(answered) \in CircuitRow
    BY <2>2, <2>3, ClearProbeTyped
  <2>5. Responded(c, permit) \in {c, answered, Closed(answered)}
    BY DEF Responded, answered
  <2> QED
    BY <2>1, <2>4, <2>5
<1>3. Abandon(c, permit, t) \in CircuitRow
  <2> DEFINE back == [c EXCEPT !.state = "OPEN", !.nextProbeAt = t, !.generation = @ + 1]
  <2>1. back \in CircuitRow
    BY <1>0, CircuitCounters, CircuitUpdates, Zenon
  <2>2. Abandon(c, permit, t) \in {c, ClearProbe(back)}
    BY DEF Abandon
  <2> HIDE DEF back
  <2> QED
    BY <2>1, <2>2, ClearProbeTyped
<1> QED
  BY <1>1, <1>2, <1>3

-----------------------------------------------------------------------------
(* The loop of claim().                                                    *)

(* The inductive invariant: what every row and variable looks like between *)
(* two transactions.                                                       *)
IInv == TypeOK /\ ResultOfLastLease

(* The state of claim() between two turns of its loop, when `live` were    *)
(* the jobs with a valid lease before it.                                  *)
SoundTx(tx, live) ==
  /\ tx.jobs \in [Jobs -> JobRow]
  /\ \A j \in Jobs : SoundRow(tx.jobs[j])
  /\ tx.circuits \in [Models -> CircuitRow]
  /\ tx.granted \subseteq Work
  /\ IF tx.granted = {} THEN Live(tx.jobs) \subseteq live
     ELSE \E j \in Jobs : Live(tx.jobs) \subseteq live \cup {j}

(* Under the invariant every saved row is sound. *)
LEMMA RowsSound ==
  ASSUME IInv
  PROVE  /\ jobs \in [Jobs -> JobRow] /\ now \in Nat
         /\ \A j \in Jobs : SoundRow(jobs[j])
BY DEF IInv, TypeOK, ResultOfLastLease, SoundRow

(* A row that is saved in the place of another leaves the rest sound, and  *)
(* adds no live lease unless it is running.                                *)
LEMMA ReplaceSound ==
  ASSUME NEW rows \in [Jobs -> JobRow], \A j \in Jobs : SoundRow(rows[j]),
         NEW i \in Jobs, NEW row, SoundRow(row)
  PROVE  LET new == [rows EXCEPT ![i] = row]
         IN  /\ new \in [Jobs -> JobRow]
             /\ \A j \in Jobs : SoundRow(new[j])
             /\ Live(new) \subseteq Live(rows) \cup {i}
             /\ row.status # "RUNNING" => Live(new) \subseteq Live(rows)
<1> DEFINE new == [rows EXCEPT ![i] = row]
<1>1. row \in JobRow
  BY DEF SoundRow
<1>2. new \in [Jobs -> JobRow]
  BY <1>1
<1>3. \A j \in Jobs : new[j] = IF j = i THEN row ELSE rows[j]
  OBVIOUS
<1> HIDE DEF new
<1>4. \A j \in Jobs : SoundRow(new[j])
  BY <1>3
<1>5. Live(new) \subseteq Live(rows) \cup {i}
  BY <1>3 DEF Live
<1>6. row.status # "RUNNING" => Live(new) \subseteq Live(rows)
  BY <1>3 DEF Live
<1> QED
  BY <1>2, <1>4, <1>5, <1>6 DEF new

(* Recovering expired leases leaves sound rows and no new live lease. *)
LEMMA RecoveredSound ==
  ASSUME IInv, NEW page \in RecoveryPages
  PROVE  SoundTx(Started(page), Live(jobs))
<1> DEFINE rows == Recovered(page)
<1>1. \A j \in Jobs : /\ SoundRow(rows[j])
                      /\ rows[j] = jobs[j] \/ rows[j].status # "RUNNING"
  <2> SUFFICES ASSUME NEW j \in Jobs
               PROVE  SoundRow(rows[j]) /\ (rows[j] = jobs[j] \/ rows[j].status # "RUNNING")
    OBVIOUS
  <2>1. SoundRow(jobs[j]) /\ now \in Nat
    BY RowsSound
  <2>2. CASE j \in page
    <3>1. jobs[j].status = "RUNNING"
      BY <2>2 DEF RecoveryPages, Expired
    <3>2. jobs[j].attempts > 0
      BY <2>1, <3>1 DEF SoundRow, Leased
    <3>3. rows[j] = RetryOrFail(jobs[j], TRUE, now)
      BY <2>2 DEF Recovered, RecoverExpired
    <3> HIDE DEF rows
    <3> QED
      BY <2>1, <3>2, <3>3, RetryOrFailSound
  <2>3. CASE j \notin page
    BY <2>1, <2>3 DEF Recovered
  <2> QED
    BY <2>2, <2>3
<1>2. rows = [j \in Jobs |-> rows[j]]
  BY DEF Recovered
<1> HIDE DEF rows
<1>3. rows \in [Jobs -> JobRow]
  BY <1>1, <1>2 DEF SoundRow
<1>4. Live(rows) \subseteq Live(jobs)
  BY <1>1 DEF Live
<1>5. circuits \in [Models -> CircuitRow]
  BY DEF IInv, TypeOK
<1> QED
  BY <1>1, <1>3, <1>4, <1>5 DEF SoundTx, Started, rows

(* One turn of the loop over the candidates keeps the transaction sound:   *)
(* it leases at most one job, and none once work was granted.              *)
LEMMA TrySound ==
  ASSUME IInv, NEW live, NEW tx, SoundTx(tx, live), NEW j \in Jobs \cup {NoJob}
  PROVE  SoundTx(Try(tx, j), live)
<1> DEFINE model  == RouteOf(tx.jobs[j])
           c      == Acquired(tx.circuits[model], now)
           permit == IF CircuitEnabled THEN PermitOf(c) ELSE Unprotected
           leased == AcquireLease(tx.jobs[j], now, model)
           work   == [job |-> j, token |-> leased.leaseToken, model |-> model, permit |-> permit]
           left   == IF CircuitEnabled THEN [tx.circuits EXCEPT ![model] = c] ELSE tx.circuits
           failed == RetryOrFail(leased, FALSE, now)
           skips  == j = NoJob \/ tx.granted # {} \/ ~RouteAdmits(tx.circuits, tx.jobs[j])
           closed == IF CircuitEnabled
                     THEN [left EXCEPT ![model] = Abandon(c, permit, now)] ELSE left
<1>1. CASE skips
  <2>1. Try(tx, j) = tx
    BY <1>1 DEF Try
  <2> QED
    BY <2>1
<1>2. CASE ~skips
  <2>0. j \in Jobs /\ tx.granted = {}
    BY <1>2
  <2>1. model \in Models /\ now \in Nat
    BY RowsSound DEF RouteOf, Models
  <2>2. SoundRow(tx.jobs[j])
    BY <2>0 DEF SoundTx
  <2>3. /\ SoundRow(leased)
        /\ leased.leaseToken \in Nat
        /\ leased.attempts > 0
    <3>1. SoundRow(leased) /\ leased.status = "RUNNING" /\ leased.leaseToken \in Nat
      BY <2>1, <2>2, AcquireSound
    <3> HIDE DEF leased
    <3> QED
      BY <3>1 DEF SoundRow, Leased
  <2>4. tx.circuits \in [Models -> CircuitRow]
    BY DEF SoundTx
  <2>5. c \in CircuitRow /\ PermitOf(c) \in Permit
    BY <2>1, <2>4, AcquiredTyped
  <2>6. permit \in Permit
    BY <2>5 DEF Unprotected, Permit, NoToken
  <2> HIDE DEF model, c, permit, leased
  <2>7. work \in Work
    BY <2>0, <2>1, <2>3, <2>6 DEF Work
  <2>8. left \in [Models -> CircuitRow]
    BY <2>1, <2>4, <2>5
  <2>9. CASE damage[j] = "none"
    <3>1. Try(tx, j) = [jobs |-> [tx.jobs EXCEPT ![j] = leased],
                        circuits |-> left, granted |-> {work}]
      BY <1>2, <2>9 DEF Try, model, c, permit, leased
    <3> HIDE DEF work, left
    <3>2. Live([tx.jobs EXCEPT ![j] = leased]) \subseteq live \cup {j}
      BY <2>0, <2>2, <2>3, ReplaceSound DEF SoundTx
    <3>3. /\ [tx.jobs EXCEPT ![j] = leased] \in [Jobs -> JobRow]
          /\ \A i \in Jobs : SoundRow([tx.jobs EXCEPT ![j] = leased][i])
      BY <2>0, <2>2, <2>3, ReplaceSound DEF SoundTx
    <3> QED
      BY <2>0, <2>7, <2>8, <3>1, <3>2, <3>3 DEF SoundTx
  <2>10. CASE damage[j] # "none"
    <3>1. Try(tx, j) = [jobs |-> [tx.jobs EXCEPT ![j] = failed],
                        circuits |-> closed, granted |-> {}]
      BY <1>2, <2>10 DEF Try, model, c, permit, leased
    <3>2. Abandon(c, permit, now) \in CircuitRow
      BY <2>1, <2>5, ObservedTyped
    <3> HIDE DEF left
    <3>3. closed \in [Models -> CircuitRow]
      BY <2>1, <2>8, <3>2
    <3>4. SoundRow(failed) /\ failed.status \in {"PENDING", "FAILED"}
      BY <2>1, <2>3, RetryOrFailSound
    <3> HIDE DEF failed, closed
    <3>5. failed.status # "RUNNING"
      BY <3>4
    <3>6. /\ [tx.jobs EXCEPT ![j] = failed] \in [Jobs -> JobRow]
          /\ \A i \in Jobs : SoundRow([tx.jobs EXCEPT ![j] = failed][i])
          /\ Live([tx.jobs EXCEPT ![j] = failed]) \subseteq live
      BY <2>0, <3>4, <3>5, ReplaceSound DEF SoundTx
    <3> QED
      BY <3>1, <3>3, <3>6 DEF SoundTx
  <2> QED
    BY <2>9, <2>10
<1> QED
  BY <1>1, <1>2

-----------------------------------------------------------------------------
(* The actions.  Besides the invariant each one bounds the live leases.    *)

(* Saving sound rows keeps what the invariant says of rows and notices. *)
LEMMA SaveSound ==
  ASSUME IInv, NEW rows \in [Jobs -> JobRow], \A j \in Jobs : SoundRow(rows[j]),
         SaveJobs(rows)
  PROVE  /\ jobs' = rows /\ jobs' \in [Jobs -> JobRow]
         /\ \A j \in Jobs : Leased(jobs'[j]) /\ HasLastResult(jobs'[j])
         /\ notices' \in [Jobs -> SUBSET Notice]
<1>1. jobs' = rows
  BY DEF SaveJobs
<1>2. \A j \in Jobs : NoticeOf(rows[j]) \in Notice
  BY NoticeTyped
<1>3. notices \in [Jobs -> SUBSET Notice]
  BY DEF IInv, TypeOK
<1>4. notices' \in [Jobs -> SUBSET Notice]
  BY <1>2, <1>3 DEF SaveJobs, NoticesAfter
<1> QED
  BY <1>1, <1>4 DEF SoundRow

(* The first state satisfies the invariant, and no lease is live. *)
LEMMA InitSound ==
  ASSUME Init
  PROVE  IInv /\ Live(jobs) = {}
<1>1. SoundRow(NoRow) /\ NoRow.status = "NONE"
  BY NewRowSound DEF NoRow
<1>2. NewCircuit \in CircuitRow
  BY DEF NewCircuit, CircuitRow, NoInstant, NoToken
<1>3. /\ jobs \in [Jobs -> JobRow]
      /\ \A j \in Jobs : jobs[j] = NoRow
  BY <1>1 DEF Init, SoundRow
<1>4. circuits \in [Models -> CircuitRow]
  BY <1>2 DEF Init
<1>5. retries \in [Jobs -> Seq(Notice)] /\ calls \in [Jobs -> Nat]
      /\ notices \in [Jobs -> SUBSET Notice]
  BY DEF Init
<1>6. TypeOK
  BY <1>1, <1>3, <1>4, <1>5 DEF Init, TypeOK, SoundRow
<1>7. ResultOfLastLease
  BY <1>1, <1>3 DEF ResultOfLastLease, SoundRow
<1>8. Live(jobs) = {}
  BY <1>1, <1>3 DEF Live
<1> QED
  BY <1>6, <1>7, <1>8 DEF IInv

(* An enqueued job is sound and holds no lease. *)
LEMMA EnqueueSound ==
  ASSUME IInv, NEW j \in Jobs, NEW skipped \in BOOLEAN, Enqueue(j, skipped)
  PROVE  IInv' /\ Live(jobs)' \subseteq Live(jobs)
<1> DEFINE row == IF skipped THEN Skip(NewJob(now), now) ELSE NewJob(now)
           rows == [jobs EXCEPT ![j] = row]
<1>1. SoundRow(row) /\ row.status # "RUNNING"
  <2>1. now \in Nat
    BY RowsSound
  <2>2. NewJob(now).status # "RUNNING" /\ Skip(NewJob(now), now).status # "RUNNING"
    BY DEF NewJob, Skip, NoRow
  <2> QED
    BY <2>1, <2>2, NewRowSound
<1> HIDE DEF row
<1>2. /\ rows \in [Jobs -> JobRow] /\ \A i \in Jobs : SoundRow(rows[i])
      /\ Live(rows) \subseteq Live(jobs)
  BY <1>1, RowsSound, ReplaceSound
<1>3. SaveJobs(rows)
  BY DEF Enqueue, row
<1> HIDE DEF rows
<1>4. /\ jobs' = rows /\ jobs' \in [Jobs -> JobRow]
      /\ \A i \in Jobs : Leased(jobs'[i]) /\ HasLastResult(jobs'[i])
      /\ notices' \in [Jobs -> SUBSET Notice]
  BY <1>2, <1>3, SaveSound
<1>5. UNCHANGED <<now, circuits, nextRequestAt, damage, inflight, retries, calls>>
  BY DEF Enqueue
<1> QED
  BY <1>2, <1>4, <1>5 DEF IInv, TypeOK, ResultOfLastLease, Live

(* Committing a sound transaction of claim() keeps the invariant. *)
LEMMA CommitSound ==
  ASSUME IInv, NEW live, NEW tx, SoundTx(tx, live), Commit(tx)
  PROVE  IInv' /\ Live(jobs)' = Live(tx.jobs)
<1> USE DEF Commit
<1>1. tx.jobs \in [Jobs -> JobRow] /\ \A j \in Jobs : SoundRow(tx.jobs[j])
  BY DEF SoundTx
<1>2. /\ jobs' = tx.jobs /\ jobs' \in [Jobs -> JobRow]
      /\ \A j \in Jobs : Leased(jobs'[j]) /\ HasLastResult(jobs'[j])
      /\ notices' \in [Jobs -> SUBSET Notice]
  BY <1>1, SaveSound
<1>3. circuits' \in [Models -> CircuitRow] /\ inflight' \subseteq Work
  BY DEF SoundTx, IInv, TypeOK
<1>4. nextRequestAt' \in Nat
  BY LimitsAssumption DEF IInv, TypeOK, GateAfter
<1>5. calls' \in [Jobs -> Nat]
  BY DEF IInv, TypeOK
<1>6. UNCHANGED <<now, damage, retries>>
  OBVIOUS
<1>7. IInv'
  BY <1>2, <1>3, <1>4, <1>5, <1>6 DEF IInv, TypeOK, ResultOfLastLease
<1>8. Live(jobs)' = Live(tx.jobs)
  BY <1>2, <1>6 DEF Live
<1> QED
  BY <1>7, <1>8

(* claim() keeps the invariant and the capacity of the queue. *)
LEMMA ClaimSound ==
  ASSUME IInv, LeaseCapacity, Claim
  PROVE  IInv' /\ LeaseCapacity'
<1>1. PICK page \in RecoveryPages :
        \/ ~HasCapacity(Recovered(page)) /\ Commit(Started(page))
        \/ /\ HasCapacity(Recovered(page))
           /\ \E q \in Candidates(Recovered(page)) : Commit(Try(Try(Started(page), q[1]), q[2]))
  BY DEF Claim, Started
<1> DEFINE tx == Started(page)
           before == Live(Recovered(page))
<1>2. SoundTx(tx, Live(jobs)) /\ before \subseteq Live(jobs)
  BY RecoveredSound DEF SoundTx, Started
<1>3. IsFiniteSet(Live(jobs)) /\ IsFiniteSet(before)
  BY JobsAssumption, FS_Subset DEF Live
<1>4. Cardinality(Live(jobs)) \in Nat /\ Cardinality(before) \in Nat
  BY <1>3, FS_CardinalityType
<1>5. CASE ~HasCapacity(Recovered(page)) /\ Commit(Started(page))
  <2>1. IInv' /\ Live(jobs)' = before
    BY <1>2, <1>5, CommitSound DEF Started
  <2>2. Cardinality(before) <= Cardinality(Live(jobs))
    BY <1>2, <1>3, FS_Subset
  <2> QED
    BY <1>4, <2>1, <2>2, LimitsAssumption DEF LeaseCapacity
<1>6. CASE /\ HasCapacity(Recovered(page))
           /\ \E q \in Candidates(Recovered(page)) : Commit(Try(Try(Started(page), q[1]), q[2]))
  <2>1. PICK q \in Candidates(Recovered(page)) : Commit(Try(Try(tx, q[1]), q[2]))
    BY <1>6
  <2>2. q[1] \in Jobs \cup {NoJob} /\ q[2] \in Jobs \cup {NoJob}
    <3>1. \A e \in BOOLEAN : Heads(Recovered(page), e) \subseteq Jobs \cup {NoJob}
      BY DEF Heads, Eligible
    <3> QED
      BY <3>1 DEF Candidates
  <2> DEFINE tx1 == Try(tx, q[1])
             tx2 == Try(tx1, q[2])
  <2>3. SoundTx(tx, before)
    BY <1>2 DEF SoundTx, Started
  <2> HIDE DEF tx
  <2>4. SoundTx(tx1, before)
    BY <2>2, <2>3, TrySound
  <2> HIDE DEF tx1
  <2>5. SoundTx(tx2, before)
    BY <2>2, <2>4, TrySound
  <2>6. Commit(tx2)
    BY <2>1 DEF tx1
  <2> HIDE DEF tx2
  <2>7. IInv' /\ Live(jobs)' = Live(tx2.jobs)
    BY <2>5, <2>6, CommitSound
  <2>8. \E j \in Jobs \cup {NoJob} : Live(jobs)' \subseteq before \cup {j}
    BY <2>5, <2>7 DEF SoundTx
  <2>9. PICK j : Live(jobs)' \subseteq before \cup {j}
    BY <2>8
  <2>10. /\ IsFiniteSet(before \cup {j})
         /\ Cardinality(before \cup {j}) <= Cardinality(before) + 1
         /\ Cardinality(before \cup {j}) \in Nat
    <3>1. IsFiniteSet(before) /\ Cardinality(before) \in Nat
      BY <1>3, <1>4
    <3> HIDE DEF before
    <3>2. /\ IsFiniteSet(before \cup {j})
          /\ Cardinality(before \cup {j}) =
               IF j \in before THEN Cardinality(before) ELSE Cardinality(before) + 1
      BY <3>1, FS_AddElement
    <3> QED
      BY <3>1, <3>2
  <2>11. /\ Cardinality(Live(jobs)') <= Cardinality(before \cup {j})
         /\ Cardinality(Live(jobs)') \in Nat
    BY <2>9, <2>10, FS_Subset, FS_CardinalityType
  <2>12. Cardinality(before) + 1 <= Concurrency
    BY <1>4, <1>6, LimitsAssumption DEF HasCapacity
  <2>13. Cardinality(Live(jobs)') <= Concurrency
    BY <1>4, <2>10, <2>11, <2>12, LimitsAssumption
  <2> QED
    BY <2>7, <2>13 DEF LeaseCapacity
<1> QED
  BY <1>1, <1>5, <1>6

(* Dropping an answer changes no row. *)
LEMMA DropSound ==
  ASSUME IInv, NEW w \in inflight, Ignore(w) \/ WorkerLost(w)
  PROVE  IInv' /\ Live(jobs)' = Live(jobs)
BY DEF IInv, TypeOK, ResultOfLastLease, Ignore, WorkerLost, Live

(* Settling a job with a sound row that runs no more ends its lease. *)
LEMMA SettleSound ==
  ASSUME IInv, NEW w \in inflight, NEW row, SoundRow(row), row.status # "RUNNING",
         NEW limited \in BOOLEAN, Settle(w, row, limited)
  PROVE  IInv' /\ Live(jobs)' \subseteq Live(jobs)
<1> DEFINE rows == [jobs EXCEPT ![w.job] = row]
<1>1. w.job \in Jobs /\ w.model \in Models
  BY DEF IInv, TypeOK, Work
<1>2. /\ rows \in [Jobs -> JobRow] /\ \A i \in Jobs : SoundRow(rows[i])
      /\ Live(rows) \subseteq Live(jobs)
  BY <1>1, RowsSound, ReplaceSound
<1>3. SaveJobs(rows)
  BY DEF Settle
<1> HIDE DEF rows
<1>4. /\ jobs' = rows /\ jobs' \in [Jobs -> JobRow]
      /\ \A i \in Jobs : Leased(jobs'[i]) /\ HasLastResult(jobs'[i])
      /\ notices' \in [Jobs -> SUBSET Notice]
  BY <1>2, <1>3, SaveSound
<1>5. circuits' \in [Models -> CircuitRow]
  <2>1. circuits \in [Models -> CircuitRow] /\ now \in Nat
    BY DEF IInv, TypeOK
  <2>2. /\ RateLimited(circuits[w.model], w.permit, now) \in CircuitRow
        /\ Responded(circuits[w.model], w.permit) \in CircuitRow
    BY <1>1, <2>1, ObservedTyped
  <2> QED
    BY <2>1, <2>2 DEF Settle, Observed
<1>6. inflight' \subseteq inflight /\ UNCHANGED <<now, nextRequestAt, damage, retries, calls>>
  BY DEF Settle
<1> QED
  BY <1>2, <1>4, <1>5, <1>6 DEF IInv, TypeOK, ResultOfLastLease, Live

(* Recording an answer keeps the invariant. *)
LEMMA CompleteActionSound ==
  ASSUME IInv, NEW w \in inflight, Complete(w)
  PROVE  IInv' /\ Live(jobs)' \subseteq Live(jobs)
<1>1. SoundRow(jobs[w.job]) /\ now \in Nat
  BY RowsSound DEF IInv, TypeOK, Work
<1>2. /\ SoundRow(CompleteJob(jobs[w.job], w.token, now))
      /\ CompleteJob(jobs[w.job], w.token, now).status = "COMPLETED"
  BY <1>1, CompleteSound DEF Complete, Holds
<1> QED
  BY <1>2, SettleSound DEF Complete

(* Recording a failure keeps the invariant. *)
LEMMA FailActionSound ==
  ASSUME IInv, NEW w \in inflight, NEW kind \in Failures, Fail(w, kind)
  PROVE  IInv' /\ Live(jobs)' \subseteq Live(jobs)
<1> DEFINE row == jobs[w.job]
           retryable == kind \in {"RATE_LIMITED", "TRANSIENT"}
           next == IF kind = "QUALITY" /\ Escalates(w) THEN RequestEscalation(row, now)
                   ELSE RetryOrFail(row, retryable, now)
<1>1. SoundRow(row) /\ now \in Nat
  BY RowsSound DEF IInv, TypeOK, Work
<1>2. row.status = "RUNNING"
  BY DEF Fail, Holds, OwnsLease
<1>3. row.attempts > 0
  BY <1>1, <1>2 DEF SoundRow, Leased
<1>4. Settle(w, next, kind = "RATE_LIMITED")
  BY DEF Fail
<1> HIDE DEF row
<1>5. retryable \in BOOLEAN
  OBVIOUS
<1> HIDE DEF retryable
<1>6. /\ SoundRow(RequestEscalation(row, now))
      /\ RequestEscalation(row, now).status = "PENDING"
  BY <1>1, <1>2, EscalationSound
<1>7. /\ SoundRow(RetryOrFail(row, retryable, now))
      /\ RetryOrFail(row, retryable, now).status \in {"PENDING", "FAILED"}
  BY <1>1, <1>3, <1>5, RetryOrFailSound
<1>8. SoundRow(next) /\ next.status # "RUNNING"
  BY <1>6, <1>7
<1> HIDE DEF next
<1> QED
  BY <1>4, <1>8, SettleSound

(* Reopening a failed job keeps the invariant. *)
LEMMA RetrySound ==
  ASSUME IInv, NEW j \in Jobs, NEW notice \in notices[j], Retry(j, notice)
  PROVE  IInv' /\ Live(jobs)' \subseteq Live(jobs)
<1> DEFINE row == RequestRetry(jobs[j], now)
           rows == [jobs EXCEPT ![j] = row]
<1>1. SoundRow(row) /\ row.status # "RUNNING"
  BY RowsSound, ReopenSound
<1>2. SaveJobs(rows)
  BY RowsSound DEF Retry
<1> HIDE DEF row
<1>3. /\ rows \in [Jobs -> JobRow] /\ \A i \in Jobs : SoundRow(rows[i])
      /\ Live(rows) \subseteq Live(jobs)
  BY <1>1, RowsSound, ReplaceSound
<1> HIDE DEF rows
<1>4. /\ jobs' = rows /\ jobs' \in [Jobs -> JobRow]
      /\ \A i \in Jobs : Leased(jobs'[i]) /\ HasLastResult(jobs'[i])
      /\ notices' \in [Jobs -> SUBSET Notice]
  BY <1>2, <1>3, SaveSound
<1>5. retries' \in [Jobs -> Seq(Notice)]
  <2>1. notice \in Notice /\ retries \in [Jobs -> Seq(Notice)]
    BY DEF IInv, TypeOK
  <2>2. Append(retries[j], notice) \in Seq(Notice)
    BY <2>1
  <2> QED
    BY <2>1, <2>2 DEF Retry
<1>6. calls' \in [Jobs -> Nat]
  BY DEF IInv, TypeOK, Retry
<1>7. UNCHANGED <<now, circuits, nextRequestAt, damage, inflight>>
  BY DEF Retry
<1> QED
  BY <1>3, <1>4, <1>5, <1>6, <1>7 DEF IInv, TypeOK, ResultOfLastLease, Live

(* Deleting a job keeps the invariant. *)
LEMMA DeleteSound ==
  ASSUME IInv, NEW j \in Jobs, Delete(j)
  PROVE  IInv' /\ Live(jobs)' \subseteq Live(jobs)
<1> DEFINE row == [jobs[j] EXCEPT !.status = "DELETED"]
           rows == [jobs EXCEPT ![j] = row]
<1>1. SoundRow(row) /\ row.status # "RUNNING"
  BY RowsSound, ReopenSound
<1>2. SaveJobs(rows)
  BY RowsSound DEF Delete
<1> HIDE DEF row
<1>3. /\ rows \in [Jobs -> JobRow] /\ \A i \in Jobs : SoundRow(rows[i])
      /\ Live(rows) \subseteq Live(jobs)
  BY <1>1, RowsSound, ReplaceSound
<1> HIDE DEF rows
<1>4. /\ jobs' = rows /\ jobs' \in [Jobs -> JobRow]
      /\ \A i \in Jobs : Leased(jobs'[i]) /\ HasLastResult(jobs'[i])
      /\ notices' \in [Jobs -> SUBSET Notice]
  BY <1>2, <1>3, SaveSound
<1>5. UNCHANGED <<now, circuits, nextRequestAt, damage, inflight, retries, calls>>
  BY DEF Delete
<1> QED
  BY <1>3, <1>4, <1>5 DEF IInv, TypeOK, ResultOfLastLease, Live

(* Time only ends leases. *)
LEMMA TickSound ==
  ASSUME IInv, Tick
  PROVE  IInv' /\ Live(jobs)' \subseteq Live(jobs)
<1>1. IInv'
  BY DEF IInv, TypeOK, ResultOfLastLease, Tick
<1>2. \A j \in Jobs : jobs[j].leaseExpiresAt \in Int
  BY RowsSound DEF JobRow
<1>3. now \in Nat /\ now' = now + 1 /\ jobs' = jobs
  BY DEF IInv, TypeOK, Tick
<1>4. Live(jobs)' \subseteq Live(jobs)
  BY <1>2, <1>3 DEF Live
<1> QED
  BY <1>1, <1>4

-----------------------------------------------------------------------------
(* Theorems.                                                               *)

(* Every step keeps the invariant and the capacity. *)
LEMMA NextSound ==
  ASSUME IInv, LeaseCapacity, [Next]_vars
  PROVE  IInv' /\ LeaseCapacity'
<1>0. ASSUME IInv', Live(jobs)' \subseteq Live(jobs)
      PROVE  IInv' /\ LeaseCapacity'
  <2>1. IsFiniteSet(Live(jobs))
    BY JobsAssumption, FS_Subset DEF Live
  <2>2. /\ Cardinality(Live(jobs)') <= Cardinality(Live(jobs))
        /\ Cardinality(Live(jobs)') \in Nat /\ Cardinality(Live(jobs)) \in Nat
    BY <1>0, <2>1, FS_Subset, FS_CardinalityType
  <2> QED
    BY <1>0, <2>2, LimitsAssumption DEF LeaseCapacity
<1>1. ASSUME NEW j \in Jobs, NEW skipped \in BOOLEAN, Enqueue(j, skipped)
      PROVE  IInv' /\ LeaseCapacity'
  BY <1>0, <1>1, EnqueueSound
<1>2. CASE Claim
  BY <1>2, ClaimSound
<1>3. ASSUME NEW w \in inflight, Ignore(w) \/ WorkerLost(w)
      PROVE  IInv' /\ LeaseCapacity'
  BY <1>0, <1>3, DropSound
<1>4. ASSUME NEW w \in inflight, Complete(w)
      PROVE  IInv' /\ LeaseCapacity'
  BY <1>0, <1>4, CompleteActionSound
<1>5. ASSUME NEW w \in inflight, NEW kind \in Failures, Fail(w, kind)
      PROVE  IInv' /\ LeaseCapacity'
  BY <1>0, <1>5, FailActionSound
<1>6. ASSUME NEW j \in Jobs, Delete(j)
      PROVE  IInv' /\ LeaseCapacity'
  BY <1>0, <1>6, DeleteSound
<1>7. ASSUME NEW j \in Jobs, NEW notice \in notices[j], Retry(j, notice)
      PROVE  IInv' /\ LeaseCapacity'
  BY <1>0, <1>7, RetrySound
<1>8. CASE Tick
  BY <1>0, <1>8, TickSound
<1>9. CASE UNCHANGED vars
  <2>1. IInv' /\ Live(jobs)' = Live(jobs)
    BY <1>9 DEF vars, IInv, TypeOK, ResultOfLastLease, Live
  <2> QED
    BY <1>0, <2>1
<1> QED
  BY <1>1, <1>2, <1>3, <1>4, <1>5, <1>6, <1>7, <1>8, <1>9 DEF Next

(* The conjunction proved by induction over the steps. *)
THEOREM Inductive == Spec => [](IInv /\ LeaseCapacity)
<1>1. Init => IInv /\ LeaseCapacity
  BY InitSound, FS_EmptySet, LimitsAssumption DEF LeaseCapacity
<1>2. IInv /\ LeaseCapacity /\ [Next]_vars => (IInv /\ LeaseCapacity)'
  BY NextSound
<1> QED
  BY <1>1, <1>2, PTL DEF Spec

(* The rows of the three tables, the answers awaited and the notices keep  *)
(* their types; a running job always has a fresh lease that ends.          *)
THEOREM TypeCorrect == Spec => []TypeOK
BY Inductive, PTL DEF IInv

(* However many servers claim, recover and lose jobs, at most Concurrency  *)
(* leases are valid at once.                                               *)
THEOREM CapacityKept == Spec => []LeaseCapacity
BY Inductive, PTL

(* The result of a completed job is the answer of its last lease's owner.  *)
THEOREM ResultCorrect == Spec => []ResultOfLastLease
BY Inductive, PTL DEF IInv

-----------------------------------------------------------------------------
(* The rows claim() touches.                                               *)

(* A job claim() may change: open, and without a valid lease. *)
Claimables ==
  {j \in Jobs : jobs[j].status \in {"PENDING", "RUNNING"} /\ j \notin Live(jobs)}

(* The state of claim() between two turns of its loop, against the rows it *)
(* began with: only claimable rows differ, and of those only one job that  *)
(* was granted is running with a valid lease.                              *)
Faithful(tx) ==
  /\ tx.jobs \in [Jobs -> JobRow]
  /\ \A i \in Jobs \ Claimables : tx.jobs[i] = jobs[i]
  /\ \A i \in Claimables : tx.jobs[i].status \in {"PENDING", "FAILED"} \/ i \in Live(tx.jobs)
                             \/ tx.jobs[i] = jobs[i]
  /\ IF tx.granted = {} THEN Live(tx.jobs) = Live(jobs)
     ELSE \E i \in Claimables : Live(tx.jobs) = Live(jobs) \cup {i}

(* Recovery touches expired leases only. *)
LEMMA StartedFaithful ==
  ASSUME IInv, NEW page \in RecoveryPages
  PROVE  /\ Faithful(Started(page))
         /\ Live(Recovered(page)) = Live(jobs)
         /\ \A i \in Jobs : Recovered(page)[i].status = "PENDING" => i \in Claimables
<1> DEFINE rows == Recovered(page)
<1>1. page \subseteq Expired /\ Expired \subseteq Jobs
  BY DEF RecoveryPages, Expired
<1>2. \A i \in Jobs : i \notin page => rows[i] = jobs[i]
  BY DEF Recovered
<1>3. \A i \in page : rows[i].status \in {"PENDING", "FAILED"}
  <2> SUFFICES ASSUME NEW i \in page
               PROVE  rows[i].status \in {"PENDING", "FAILED"}
    OBVIOUS
  <2>1. i \in Jobs /\ jobs[i].status = "RUNNING"
    BY <1>1 DEF Expired
  <2>2. SoundRow(jobs[i]) /\ now \in Nat
    BY <2>1, RowsSound
  <2>3. jobs[i].attempts > 0
    BY <2>1, <2>2 DEF SoundRow, Leased
  <2>4. rows[i] = RetryOrFail(jobs[i], TRUE, now)
    BY <2>1 DEF Recovered, RecoverExpired
  <2> HIDE DEF rows
  <2> QED
    BY <2>2, <2>3, <2>4, RetryOrFailSound
<1>4. \A i \in Expired : i \in Claimables
  <2>1. \A i \in Jobs : jobs[i].leaseExpiresAt \in Int
    BY RowsSound DEF JobRow
  <2>2. now \in Nat
    BY RowsSound
  <2> QED
    BY <2>1, <2>2 DEF Expired, Claimables, Live
<1>5. rows \in [Jobs -> JobRow]
  BY RecoveredSound DEF SoundTx, Started
<1> HIDE DEF rows
<1>6. Live(rows) = Live(jobs)
  <2>1. \A i \in page : i \notin Live(jobs) /\ i \notin Live(rows)
    BY <1>1, <1>3, <1>4 DEF Claimables, Live
  <2> QED
    BY <1>2, <2>1 DEF Live
<1>7. \A i \in Jobs : rows[i].status = "PENDING" => i \in Claimables
  <2> SUFFICES ASSUME NEW i \in Jobs, rows[i].status = "PENDING"
               PROVE  i \in Claimables
    OBVIOUS
  <2>1. CASE i \in page
    BY <2>1, <1>1, <1>4
  <2>2. CASE i \notin page
    BY <2>2, <1>2 DEF Claimables, Live
  <2> QED
    BY <2>1, <2>2
<1>8. /\ \A i \in Jobs \ Claimables : rows[i] = jobs[i]
      /\ \A i \in Claimables : rows[i].status \in {"PENDING", "FAILED"} \/ rows[i] = jobs[i]
  BY <1>1, <1>2, <1>3, <1>4 DEF Claimables
<1> QED
  BY <1>5, <1>6, <1>7, <1>8 DEF Faithful, Started, rows

(* A turn of the loop keeps to claimable rows. *)
LEMMA TryFaithful ==
  ASSUME IInv, NEW tx, NEW live, SoundTx(tx, live), Faithful(tx),
         NEW j \in Jobs \cup {NoJob}, j \in Claimables \/ j = NoJob
  PROVE  Faithful(Try(tx, j))
<1> DEFINE model  == RouteOf(tx.jobs[j])
           c      == Acquired(tx.circuits[model], now)
           permit == IF CircuitEnabled THEN PermitOf(c) ELSE Unprotected
           leased == AcquireLease(tx.jobs[j], now, model)
           work   == [job |-> j, token |-> leased.leaseToken, model |-> model, permit |-> permit]
           failed == RetryOrFail(leased, FALSE, now)
           skips  == j = NoJob \/ tx.granted # {} \/ ~RouteAdmits(tx.circuits, tx.jobs[j])
           new    == Try(tx, j)
<1>1. CASE skips
  BY <1>1 DEF Try
<1>2. CASE ~skips
  <2>0. j \in Jobs /\ j \in Claimables /\ tx.granted = {} /\ now \in Nat
    BY <1>2, RowsSound
  <2>1. SoundRow(tx.jobs[j]) /\ model \in Models
    BY <2>0 DEF SoundTx, RouteOf, Models
  <2>2. /\ SoundRow(leased)
        /\ leased.status = "RUNNING"
        /\ leased.leaseExpiresAt > now
        /\ leased.attempts > 0
    <3>1. SoundRow(leased) /\ leased.status = "RUNNING"
      BY <2>0, <2>1, AcquireSound
    <3>2. leased.leaseExpiresAt = now + LeaseDuration
      BY <2>1 DEF SoundRow, JobRow, AcquireLease
    <3> HIDE DEF leased
    <3> QED
      BY <2>0, <3>1, <3>2, LeaseAssumption DEF SoundRow, Leased
  <2>3. SoundTx(new, live)
    BY TrySound
  <2>4. tx.jobs \in [Jobs -> JobRow] /\ Live(tx.jobs) = Live(jobs)
    BY <2>0 DEF Faithful
  <2> HIDE DEF model, c, permit, leased
  <2>5. CASE damage[j] = "none"
    <3>1. new.jobs = [tx.jobs EXCEPT ![j] = leased] /\ new.granted = {work}
      BY <1>2, <2>5 DEF Try, model, c, permit, leased
    <3>2. \A i \in Jobs : new.jobs[i] = IF i = j THEN leased ELSE tx.jobs[i]
      BY <2>4, <3>1
    <3>3. Live(new.jobs) = Live(jobs) \cup {j}
      BY <2>0, <2>2, <2>4, <3>2 DEF Live
    <3> HIDE DEF new, work
    <3>4. new.granted # {}
      BY <3>1
    <3>5. new.jobs \in [Jobs -> JobRow]
      BY <2>3 DEF SoundTx
    <3>6. \A i \in Jobs \ Claimables : new.jobs[i] = jobs[i]
      BY <2>0, <3>2 DEF Faithful
    <3>7. \A i \in Claimables : new.jobs[i].status \in {"PENDING", "FAILED"}
                                  \/ i \in Live(new.jobs) \/ new.jobs[i] = jobs[i]
      BY <2>0, <2>4, <3>2, <3>3 DEF Faithful, Claimables
    <3> QED
      BY <2>0, <3>3, <3>4, <3>5, <3>6, <3>7 DEF Faithful, new
  <2>6. CASE damage[j] # "none"
    <3>1. new.jobs = [tx.jobs EXCEPT ![j] = failed] /\ new.granted = {}
      BY <1>2, <2>6 DEF Try, model, c, permit, leased
    <3>2. failed.status \in {"PENDING", "FAILED"}
      BY <2>0, <2>2, RetryOrFailSound
    <3> HIDE DEF failed
    <3>3. \A i \in Jobs : new.jobs[i] = IF i = j THEN failed ELSE tx.jobs[i]
      BY <2>4, <3>1
    <3>4. Live(new.jobs) = Live(jobs)
      BY <2>0, <2>4, <3>2, <3>3 DEF Live, Claimables
    <3>5. new.jobs \in [Jobs -> JobRow]
      BY <2>3 DEF SoundTx
    <3> HIDE DEF new
    <3>6. \A i \in Jobs \ Claimables : new.jobs[i] = jobs[i]
      BY <2>0, <3>3 DEF Faithful
    <3>7. \A i \in Claimables : new.jobs[i].status \in {"PENDING", "FAILED"}
                                  \/ i \in Live(new.jobs) \/ new.jobs[i] = jobs[i]
      BY <2>4, <3>2, <3>3, <3>4 DEF Faithful, Claimables
    <3> QED
      BY <3>1, <3>4, <3>5, <3>6, <3>7 DEF Faithful, new
  <2> QED
    BY <2>5, <2>6
<1> QED
  BY <1>1, <1>2

(* What a whole claim does to the rows. *)
LEMMA ClaimFaithful ==
  ASSUME IInv, Claim
  PROVE  \E tx : /\ Faithful(tx) /\ Commit(tx)
                 /\ tx.granted # {} => Cardinality(Live(jobs)) < Concurrency
<1>1. PICK page \in RecoveryPages :
        \/ ~HasCapacity(Recovered(page)) /\ Commit(Started(page))
        \/ /\ HasCapacity(Recovered(page))
           /\ \E q \in Candidates(Recovered(page)) : Commit(Try(Try(Started(page), q[1]), q[2]))
  BY DEF Claim, Started
<1>2. /\ Faithful(Started(page)) /\ SoundTx(Started(page), Live(jobs))
      /\ Live(Recovered(page)) = Live(jobs)
      /\ \A i \in Jobs : Recovered(page)[i].status = "PENDING" => i \in Claimables
  BY StartedFaithful, RecoveredSound
<1>3. CASE ~HasCapacity(Recovered(page)) /\ Commit(Started(page))
  BY <1>2, <1>3 DEF Started
<1>4. CASE /\ HasCapacity(Recovered(page))
           /\ \E q \in Candidates(Recovered(page)) : Commit(Try(Try(Started(page), q[1]), q[2]))
  <2>1. PICK q \in Candidates(Recovered(page)) : Commit(Try(Try(Started(page), q[1]), q[2]))
    BY <1>4
  <2>2. /\ q[1] \in Jobs \cup {NoJob} /\ (q[1] \in Claimables \/ q[1] = NoJob)
        /\ q[2] \in Jobs \cup {NoJob} /\ (q[2] \in Claimables \/ q[2] = NoJob)
    <3>1. \A e \in BOOLEAN : \A i \in Heads(Recovered(page), e) :
            i \in Jobs \cup {NoJob} /\ (i \in Claimables \/ i = NoJob)
      BY <1>2 DEF Heads, Eligible
    <3> QED
      BY <3>1 DEF Candidates
  <2> DEFINE tx == Started(page)
             tx1 == Try(tx, q[1])
             tx2 == Try(tx1, q[2])
  <2>3. Faithful(tx) /\ SoundTx(tx, Live(jobs))
    BY <1>2
  <2>4. Commit(tx2)
    BY <2>1
  <2> HIDE DEF tx
  <2>5. Faithful(tx1) /\ SoundTx(tx1, Live(jobs))
    BY <2>2, <2>3, TrySound, TryFaithful
  <2> HIDE DEF tx1
  <2>6. Faithful(tx2)
    BY <2>2, <2>5, TryFaithful
  <2> HIDE DEF tx2
  <2>7. Cardinality(Live(jobs)) < Concurrency
    BY <1>2, <1>4 DEF HasCapacity
  <2> QED
    BY <2>4, <2>6, <2>7
<1> QED
  BY <1>1, <1>3, <1>4

-----------------------------------------------------------------------------
(* Settled jobs.                                                           *)

(* No step changes a settled job but its retry and its deletion. *)
LEMMA NextLeavesSettled ==
  ASSUME IInv, Next
  PROVE  LeavesSettled
<1> SUFFICES ASSUME NEW j \in SettledRows
             PROVE  \/ jobs'[j] = jobs[j]
                    \/ Reopened(jobs[j], jobs'[j])
                    \/ jobs[j].status # "DELETED"
                       /\ jobs'[j] = [jobs[j] EXCEPT !.status = "DELETED"]
  BY DEF LeavesSettled
<1>0. /\ j \in Jobs /\ jobs \in [Jobs -> JobRow]
      /\ jobs[j].status \in {"COMPLETED", "SKIPPED", "FAILED", "DELETED"}
  BY RowsSound DEF SettledRows
<1>1. ASSUME NEW i \in Jobs, NEW skipped \in BOOLEAN, Enqueue(i, skipped)
      PROVE  jobs'[j] = jobs[j]
  <2>1. i # j
    BY <1>0, <1>1 DEF Enqueue
  <2> QED
    BY <1>0, <1>1, <2>1 DEF Enqueue, SaveJobs
<1>2. CASE Claim
  <2>1. PICK tx : Faithful(tx) /\ Commit(tx)
    BY <1>2, ClaimFaithful
  <2>2. j \notin Claimables
    BY <1>0 DEF Claimables
  <2> QED
    BY <1>0, <2>1, <2>2 DEF Faithful, Commit, SaveJobs
<1>3. ASSUME NEW w \in inflight, Ignore(w) \/ WorkerLost(w)
      PROVE  jobs'[j] = jobs[j]
  BY <1>3 DEF Ignore, WorkerLost
<1>4. ASSUME NEW w \in inflight, NEW row, NEW limited \in BOOLEAN,
             Holds(w), Settle(w, row, limited)
      PROVE  jobs'[j] = jobs[j]
  <2>1. w.job # j
    BY <1>0, <1>4 DEF Holds, OwnsLease
  <2> QED
    BY <1>0, <1>4, <2>1 DEF Settle, SaveJobs
<1>5. ASSUME NEW w \in inflight, Complete(w)
      PROVE  jobs'[j] = jobs[j]
  BY <1>4, <1>5 DEF Complete
<1>6. ASSUME NEW w \in inflight, NEW kind \in Failures, Fail(w, kind)
      PROVE  jobs'[j] = jobs[j]
  BY <1>4, <1>6 DEF Fail
<1>7. ASSUME NEW i \in Jobs, NEW notice \in notices[i], Retry(i, notice)
      PROVE  jobs'[j] = jobs[j] \/ Reopened(jobs[j], jobs'[j])
  <2>1. jobs' = [jobs EXCEPT ![i] = RequestRetry(jobs[i], now)]
    BY <1>0, <1>7 DEF Retry, SaveJobs
  <2>2. CASE i # j
    BY <1>0, <2>1, <2>2
  <2>3. CASE i = j
    <3>1. jobs'[j] = RequestRetry(jobs[j], now) /\ jobs[j].status = "FAILED"
      BY <1>0, <1>7, <2>1, <2>3 DEF Retry, Answers
    <3>2. RequestRetry(jobs[j], now).status = "PENDING"
      BY <1>0, RowsSound, ReopenSound
    <3>3. jobs[j] \in JobRow
      BY <1>0
    <3>4. RequestRetry(jobs[j], now).retryGeneration = jobs[j].retryGeneration + 1
      BY <3>3 DEF RequestRetry, Release, JobRow
    <3> QED
      BY <3>1, <3>2, <3>4 DEF Reopened
  <2> QED
    BY <2>2, <2>3
<1>8. ASSUME NEW i \in Jobs, Delete(i)
      PROVE  \/ jobs'[j] = jobs[j]
             \/ jobs[j].status # "DELETED"
                /\ jobs'[j] = [jobs[j] EXCEPT !.status = "DELETED"]
  BY <1>0, <1>8 DEF Delete, SaveJobs
<1>9. CASE Tick
  BY <1>9 DEF Tick
<1> QED
  BY <1>1, <1>2, <1>3, <1>5, <1>6, <1>7, <1>8, <1>9 DEF Next

(* Late answers, repeated callbacks and recovery leave settled jobs alone. *)
THEOREM SettledKept == Spec => SettledStays
<1>1. IInv /\ [Next]_vars => [LeavesSettled]_vars
  BY NextLeavesSettled
<1>2. Spec => []IInv
  BY Inductive, PTL
<1> QED
  BY <1>1, <1>2, PTL DEF Spec, SettledStays

-----------------------------------------------------------------------------
(* The ledger.                                                             *)

outcome == [j \in Jobs |-> Outcome(jobs[j].status)]

(* The outcomes of the seven statuses. *)
LEMMA Outcomes ==
  /\ Outcome("NONE") = "none" /\ Outcome("PENDING") = "open" /\ Outcome("RUNNING") = "open"
  /\ Outcome("COMPLETED") = "done" /\ Outcome("FAILED") = "failed"
  /\ Outcome("SKIPPED") = "skipped" /\ Outcome("DELETED") = "gone"
BY DEF Outcome

(* The ledger counts as the queue does. *)
LEMMA SameCardinality == \A S : Ledger!Cardinality(S) = Cardinality(S)
BY Zenon DEF Ledger!Cardinality, Cardinality, Ledger!IsFiniteSet, IsFiniteSet

(* The ledger's actions in the terms of the queue. *)
LEMMA LedgerStep ==
  ASSUME \/ \E j \in Jobs :
              \/ /\ outcome[j] = "none"
                 /\ \E o \in {"open", "skipped"} : outcome' = [outcome EXCEPT ![j] = o]
                 /\ Live(jobs)' = Live(jobs)
              \/ /\ j \in Live(jobs)
                 /\ \E o \in {"open", "done", "failed"} : outcome' = [outcome EXCEPT ![j] = o]
                 /\ Live(jobs)' = Live(jobs) \ {j}
              \/ /\ outcome[j] = "failed"
                 /\ outcome' = [outcome EXCEPT ![j] = "open"]
                 /\ Live(jobs)' = Live(jobs)
              \/ /\ outcome[j] \notin {"none", "gone"}
                 /\ outcome' = [outcome EXCEPT ![j] = "gone"]
                 /\ Live(jobs)' = Live(jobs) \ {j}
         \/ outcome' = outcome /\ Live(jobs)' \subseteq Live(jobs)
  PROVE  Ledger!Next
<1>1. CASE outcome' = outcome /\ Live(jobs)' \subseteq Live(jobs)
  <2> DEFINE lost == Live(jobs) \ Live(jobs)'
  <2>1. lost \in SUBSET Live(jobs) /\ Live(jobs)' = Live(jobs) \ lost
    BY <1>1
  <2>2. Ledger!Lapse(lost)
    BY <1>1, <2>1 DEF Ledger!Lapse, outcome
  <2> QED
    BY <2>1, <2>2 DEF Ledger!Next
<1>2. ASSUME NEW j \in Jobs, outcome[j] = "none",
             \E o \in {"open", "skipped"} : outcome' = [outcome EXCEPT ![j] = o],
             Live(jobs)' = Live(jobs)
      PROVE  Ledger!Next
  BY <1>2 DEF Ledger!Next, Ledger!Register, outcome
<1>3. ASSUME NEW j \in Jobs, j \in Live(jobs),
             \E o \in {"open", "done", "failed"} : outcome' = [outcome EXCEPT ![j] = o],
             Live(jobs)' = Live(jobs) \ {j}
      PROVE  Ledger!Next
  BY <1>3 DEF Ledger!Next, Ledger!Answer, outcome
<1>4. ASSUME NEW j \in Jobs, outcome[j] = "failed",
             outcome' = [outcome EXCEPT ![j] = "open"], Live(jobs)' = Live(jobs)
      PROVE  Ledger!Next
  BY <1>4 DEF Ledger!Next, Ledger!Reopen, outcome
<1>5. ASSUME NEW j \in Jobs, outcome[j] \notin {"none", "gone"},
             outcome' = [outcome EXCEPT ![j] = "gone"], Live(jobs)' = Live(jobs) \ {j}
      PROVE  Ledger!Next
  BY <1>5 DEF Ledger!Next, Ledger!Remove, outcome
<1> QED
  BY <1>1, <1>2, <1>3, <1>4, <1>5

(* Replacing one row changes one outcome. *)
LEMMA OneOutcome ==
  ASSUME IInv, NEW j \in Jobs, NEW row, jobs' = [jobs EXCEPT ![j] = row]
  PROVE  /\ outcome' = [outcome EXCEPT ![j] = Outcome(row.status)]
         /\ (now' = now /\ row.status # "RUNNING") => Live(jobs)' = Live(jobs) \ {j}
<1>1. jobs \in [Jobs -> JobRow]
  BY RowsSound
<1>2. \A i \in Jobs : jobs'[i] = IF i = j THEN row ELSE jobs[i]
  BY <1>1
<1>3. outcome' = [i \in Jobs |-> Outcome(jobs'[i].status)]
  BY DEF outcome
<1>4. outcome' = [outcome EXCEPT ![j] = Outcome(row.status)]
  <2>1. \A i \in Jobs : Outcome(jobs'[i].status)
                          = IF i = j THEN Outcome(row.status) ELSE Outcome(jobs[i].status)
    BY <1>2
  <2>2. [outcome EXCEPT ![j] = Outcome(row.status)]
          = [i \in Jobs |-> IF i = j THEN Outcome(row.status) ELSE Outcome(jobs[i].status)]
    BY DEF outcome
  <2> QED
    BY <1>3, <2>1, <2>2
<1>5. (now' = now /\ row.status # "RUNNING") => Live(jobs)' = Live(jobs) \ {j}
  BY <1>2 DEF Live
<1> QED
  BY <1>4, <1>5

(* A claim gives claimable jobs up and grants at most one a slot. *)
LEMMA ClaimAssigns ==
  ASSUME IInv, Claim
  PROVE  Ledger!Next
<1>1. PICK tx : /\ Faithful(tx) /\ Commit(tx)
                /\ tx.granted # {} => Cardinality(Live(jobs)) < Concurrency
  BY ClaimFaithful
<1>2. /\ jobs' = tx.jobs /\ now' = now
      /\ \A i \in Jobs \ Claimables : jobs'[i] = jobs[i]
      /\ \A i \in Claimables : jobs'[i].status \in {"PENDING", "FAILED"} \/ i \in Live(jobs)'
                                 \/ jobs'[i] = jobs[i]
  BY <1>1 DEF Faithful, Commit, SaveJobs, Live
<1> DEFINE given_up == {i \in Claimables : jobs'[i].status = "FAILED"}
<1>3. Claimables \subseteq Ledger!Open \ Live(jobs)
  BY Outcomes DEF Claimables, Ledger!Open
<1>4. outcome' = [i \in Jobs |-> IF i \in given_up THEN "failed" ELSE outcome[i]]
  <2>1. outcome' = [i \in Jobs |-> Outcome(jobs'[i].status)]
    BY DEF outcome
  <2>2. \A i \in Jobs : Outcome(jobs'[i].status)
                          = IF i \in given_up THEN "failed" ELSE Outcome(jobs[i].status)
    <3> SUFFICES ASSUME NEW i \in Jobs
                 PROVE  Outcome(jobs'[i].status)
                          = IF i \in given_up THEN "failed" ELSE Outcome(jobs[i].status)
      OBVIOUS
    <3>1. CASE i \notin Claimables
      BY <1>2, <3>1
    <3>2. CASE i \in Claimables /\ jobs'[i].status = "FAILED"
      BY <3>2, Outcomes
    <3>3. CASE i \in Claimables /\ jobs'[i].status # "FAILED"
      <4>1. jobs'[i].status \in {"PENDING", "RUNNING"} /\ jobs[i].status \in {"PENDING", "RUNNING"}
        BY <1>2, <3>3 DEF Claimables, Live
      <4>2. i \notin given_up
        BY <3>3
      <4> QED
        BY <4>1, <4>2, Outcomes
    <3> QED
      BY <3>1, <3>2, <3>3
  <2> QED
    BY <2>1, <2>2 DEF outcome
<1>5. ASSUME NEW granted \in SUBSET Claimables, Cardinality(granted) <= 1,
             granted \cap given_up = {}, Live(jobs)' = Live(jobs) \cup granted,
             granted # {} => Cardinality(Live(jobs)) < Concurrency
      PROVE  Ledger!Next
  <2> HIDE DEF given_up
  <2>1. given_up \subseteq Claimables
    BY DEF given_up
  <2>2. Ledger!Assign(given_up, granted)
    BY <1>3, <1>4, <1>5, <2>1, SameCardinality DEF Ledger!Assign, outcome
  <2>3. given_up \in SUBSET Jobs /\ granted \in SUBSET Jobs
    BY <2>1 DEF Claimables
  <2> QED
    BY <2>2, <2>3 DEF Ledger!Next
<1>6. Live(jobs)' = Live(tx.jobs)
  BY <1>2 DEF Live
<1>7. CASE tx.granted = {}
  <2>1. Live(jobs)' = Live(jobs) \cup {} /\ Cardinality({}) <= 1
    BY <1>1, <1>6, <1>7, FS_EmptySet DEF Faithful
  <2> QED
    BY <1>5, <2>1
<1>8. CASE tx.granted # {}
  <2>1. PICK i \in Claimables : Live(jobs)' = Live(jobs) \cup {i}
    BY <1>1, <1>6, <1>8 DEF Faithful
  <2>2. i \notin given_up
    BY <2>1 DEF Live
  <2>3. Cardinality({i}) = 1
    BY FS_Singleton
  <2> QED
    BY <1>1, <1>5, <1>8, <2>1, <2>2, <2>3
<1> QED
  BY <1>7, <1>8

(* Settling a job that holds its lease is an answer of the ledger. *)
LEMMA SettleAnswers ==
  ASSUME IInv, NEW w \in inflight, Holds(w), NEW row, NEW limited \in BOOLEAN,
         row.status \in {"PENDING", "COMPLETED", "FAILED"}, Settle(w, row, limited)
  PROVE  Ledger!Next
<1>1. w.job \in Jobs /\ jobs' = [jobs EXCEPT ![w.job] = row] /\ now' = now
  BY DEF IInv, TypeOK, Work, Settle, SaveJobs
<1>2. w.job \in Live(jobs)
  <2>1. jobs[w.job].leaseExpiresAt \in Int /\ now \in Nat
    BY <1>1, RowsSound DEF JobRow
  <2> QED
    BY <1>1, <2>1 DEF Holds, OwnsLease, Live
<1>3. /\ outcome' = [outcome EXCEPT ![w.job] = Outcome(row.status)]
      /\ Live(jobs)' = Live(jobs) \ {w.job}
  BY <1>1, OneOutcome
<1>4. Outcome(row.status) \in {"open", "done", "failed"}
  BY Outcomes
<1> QED
  BY <1>1, <1>2, <1>3, <1>4, LedgerStep

(* Every step of the queue is a step of the ledger or leaves it alone. *)
LEMMA NextImplements ==
  ASSUME IInv, [Next]_vars
  PROVE  [Ledger!Next]_<<outcome, Live(jobs)>>
<1>1. ASSUME NEW j \in Jobs, NEW skipped \in BOOLEAN, Enqueue(j, skipped)
      PROVE  Ledger!Next
  <2> DEFINE row == IF skipped THEN Skip(NewJob(now), now) ELSE NewJob(now)
  <2>1. row.status \in {"PENDING", "SKIPPED"}
    BY DEF NewJob, Skip, NoRow
  <2>2. jobs' = [jobs EXCEPT ![j] = row] /\ now' = now /\ jobs[j].status = "NONE"
    BY <1>1 DEF Enqueue, SaveJobs
  <2> HIDE DEF row
  <2>3. /\ outcome' = [outcome EXCEPT ![j] = Outcome(row.status)]
        /\ Live(jobs)' = Live(jobs) \ {j}
    BY <2>1, <2>2, OneOutcome
  <2>4. outcome[j] = "none" /\ j \notin Live(jobs)
    BY <2>2, Outcomes DEF outcome, Live
  <2>5. Outcome(row.status) \in {"open", "skipped"}
    BY <2>1, Outcomes
  <2> QED
    BY <2>3, <2>4, <2>5, LedgerStep
<1>2. CASE Claim
  BY <1>2, ClaimAssigns
<1>3. ASSUME NEW w \in inflight, Ignore(w) \/ WorkerLost(w)
      PROVE  UNCHANGED <<outcome, Live(jobs)>>
  BY <1>3 DEF Ignore, WorkerLost, outcome, Live
<1>4. ASSUME NEW w \in inflight, Complete(w)
      PROVE  Ledger!Next
  <2>1. SoundRow(jobs[w.job]) /\ now \in Nat
    BY RowsSound DEF IInv, TypeOK, Work
  <2>2. CompleteJob(jobs[w.job], w.token, now).status = "COMPLETED"
    BY <1>4, <2>1, CompleteSound DEF Complete, Holds
  <2> QED
    BY <1>4, <2>2, SettleAnswers DEF Complete
<1>5. ASSUME NEW w \in inflight, NEW kind \in Failures, Fail(w, kind)
      PROVE  Ledger!Next
  <2> DEFINE row == jobs[w.job]
             retryable == kind \in {"RATE_LIMITED", "TRANSIENT"}
             next == IF kind = "QUALITY" /\ Escalates(w) THEN RequestEscalation(row, now)
                     ELSE RetryOrFail(row, retryable, now)
  <2>1. SoundRow(row) /\ now \in Nat /\ Holds(w) /\ row.status = "RUNNING"
    BY <1>5, RowsSound DEF IInv, TypeOK, Work, Fail, Holds, OwnsLease
  <2>2. row.attempts > 0
    BY <2>1 DEF SoundRow, Leased
  <2>3. Settle(w, next, kind = "RATE_LIMITED")
    BY <1>5 DEF Fail
  <2>4. retryable \in BOOLEAN
    OBVIOUS
  <2> HIDE DEF row, retryable
  <2>5. next.status \in {"PENDING", "FAILED"}
    BY <2>1, <2>2, <2>4, EscalationSound, RetryOrFailSound
  <2> HIDE DEF next
  <2> QED
    BY <2>1, <2>3, <2>5, SettleAnswers
<1>6. ASSUME NEW j \in Jobs, Delete(j)
      PROVE  Ledger!Next
  <2> DEFINE row == [jobs[j] EXCEPT !.status = "DELETED"]
  <2>1. row.status = "DELETED" /\ SoundRow(jobs[j])
    BY RowsSound, ReopenSound
  <2>2. jobs' = [jobs EXCEPT ![j] = row] /\ now' = now
    BY <1>6, RowsSound DEF Delete, SaveJobs
  <2> HIDE DEF row
  <2>3. /\ outcome' = [outcome EXCEPT ![j] = "gone"]
        /\ Live(jobs)' = Live(jobs) \ {j}
    <3>1. /\ outcome' = [outcome EXCEPT ![j] = Outcome(row.status)]
          /\ Live(jobs)' = Live(jobs) \ {j}
      BY <2>1, <2>2, OneOutcome
    <3> QED
      BY <2>1, <3>1, Outcomes
  <2>4. jobs[j].status \in Statuses /\ jobs[j].status \notin {"NONE", "DELETED"}
    BY <1>6, <2>1 DEF SoundRow, JobRow, Delete
  <2>5. outcome[j] \notin {"none", "gone"}
    BY <2>4, Outcomes DEF outcome, Statuses
  <2> QED
    BY <2>3, <2>5, LedgerStep
<1>7. ASSUME NEW j \in Jobs, NEW notice \in notices[j], Retry(j, notice)
      PROVE  Ledger!Next
  <2> DEFINE row == RequestRetry(jobs[j], now)
  <2>1. row.status = "PENDING"
    BY RowsSound, ReopenSound
  <2>2. jobs' = [jobs EXCEPT ![j] = row] /\ now' = now /\ jobs[j].status = "FAILED"
    BY <1>7, RowsSound DEF Retry, SaveJobs, Answers
  <2> HIDE DEF row
  <2>3. /\ outcome' = [outcome EXCEPT ![j] = "open"]
        /\ Live(jobs)' = Live(jobs) \ {j}
    <3>1. /\ outcome' = [outcome EXCEPT ![j] = Outcome(row.status)]
          /\ Live(jobs)' = Live(jobs) \ {j}
      BY <2>1, <2>2, OneOutcome
    <3> QED
      BY <2>1, <3>1, Outcomes
  <2>4. outcome[j] = "failed" /\ j \notin Live(jobs)
    BY <2>2, Outcomes DEF outcome, Live
  <2> QED
    BY <2>3, <2>4, LedgerStep
<1>8. CASE Tick
  <2>1. Live(jobs)' \subseteq Live(jobs)
    BY <1>8, TickSound
  <2>2. outcome' = outcome
    BY <1>8 DEF Tick, outcome
  <2> QED
    BY <2>1, <2>2, LedgerStep
<1>9. CASE UNCHANGED vars
  BY <1>9 DEF vars, outcome, Live
<1> QED
  BY <1>1, <1>2, <1>3, <1>4, <1>5, <1>6, <1>7, <1>8, <1>9 DEF Next

(* The queue implements the ledger: jobs are answered only while they hold *)
(* a slot, slots are never overbooked, and settled jobs stay settled.      *)
THEOREM LedgerImplemented == Spec => ImplementsLedger
<1>1. Init => Ledger!Init
  <2> SUFFICES ASSUME Init
               PROVE  Ledger!Init
    OBVIOUS
  <2>1. Live(jobs) = {}
    BY InitSound
  <2>2. \A j \in Jobs : jobs[j].status = "NONE"
    BY DEF Init, NoRow
  <2> QED
    BY <2>1, <2>2, Outcomes DEF Ledger!Init
<1>2. IInv /\ [Next]_vars => [Ledger!Next]_<<outcome, Live(jobs)>>
  BY NextImplements
<1>3. Spec => []IInv
  BY Inductive, PTL
<1> QED
  BY <1>1, <1>2, <1>3, PTL DEF Spec, ImplementsLedger, Ledger!Spec, outcome

-----------------------------------------------------------------------------
(* The columns after each transition of a row.                             *)

SameHistory(new, row) ==
  /\ new.retryGeneration = row.retryGeneration
  /\ new.drawn = row.drawn
  /\ new.modelId = row.modelId

(* A lease draws a token and counts an attempt. *)
LEMMA LeaseColumns ==
  ASSUME NEW row \in JobRow, NEW t \in Nat, NEW m \in Models
  PROVE  LET new == AcquireLease(row, t, m)
         IN  /\ new.status = "RUNNING" /\ new.attempts = row.attempts + 1
             /\ new.drawn = row.drawn + 1 /\ new.leaseToken = row.drawn + 1
             /\ new.leaseExpiresAt = t + LeaseDuration /\ new.modelId = m
             /\ new.retryGeneration = row.retryGeneration
             /\ new.escalationPending = row.escalationPending
BY DEF AcquireLease, JobRow

(* A release touches the lease only. *)
LEMMA ReleaseColumns ==
  ASSUME NEW row \in JobRow, NEW t \in Nat
  PROVE  LET new == Release(row, t)
         IN  /\ new.status = row.status /\ new.attempts = row.attempts
             /\ new.escalationPending = row.escalationPending
             /\ SameHistory(new, row)
BY DEF Release, JobRow, SameHistory

(* An attempt without an answer is counted and may be repeated. *)
LEMMA RetryColumns ==
  ASSUME NEW row \in JobRow, row.attempts > 0, NEW t \in Nat, NEW retryable \in BOOLEAN
  PROVE  LET new == RetryOrFail(row, retryable, t)
         IN  /\ new.status = IF retryable /\ row.attempts < MaxAttempts
                             THEN "PENDING" ELSE "FAILED"
             /\ new.attempts = row.attempts
             /\ new.escalationPending = row.escalationPending
             /\ SameHistory(new, row)
<1> DEFINE status == IF retryable /\ row.attempts < MaxAttempts THEN "PENDING" ELSE "FAILED"
           ready == t + Backoff(row.attempts)
           old == [row EXCEPT !.status = status, !.nextAttemptAt = ready]
<1>1. ready \in Nat
  <2>1. row.attempts \in Nat
    BY DEF JobRow
  <2> QED
    BY <2>1, BackoffNat
<1>2. status \in Statuses
  BY Literals
<1>3. RetryOrFail(row, retryable, t) = Release(old, t)
  BY DEF RetryOrFail
<1> HIDE DEF status, ready
<1>4. old \in JobRow
  BY <1>1, <1>2, JobUpdates, Zenon
<1>5. /\ old.status = status /\ old.attempts = row.attempts
      /\ old.escalationPending = row.escalationPending
      /\ SameHistory(old, row)
  BY DEF JobRow, SameHistory
<1> HIDE DEF old
<1>6. LET new == Release(old, t)
      IN  /\ new.status = status /\ new.attempts = row.attempts
          /\ new.escalationPending = row.escalationPending
          /\ SameHistory(new, row)
  BY <1>4, <1>5, ReleaseColumns DEF SameHistory
<1> QED
  BY <1>3, <1>6 DEF status

(* The answer ends the lease and nothing else of what is counted. *)
LEMMA CompleteColumns ==
  ASSUME NEW row \in JobRow, NEW t \in Nat, NEW token \in Nat
  PROVE  LET new == CompleteJob(row, token, t)
         IN  /\ new.status = "COMPLETED" /\ new.attempts = row.attempts
             /\ new.escalationPending = row.escalationPending
             /\ SameHistory(new, row)
BY DEF CompleteJob, Release, JobRow, SameHistory

(* The escalation gives one attempt back. *)
LEMMA EscalationColumns ==
  ASSUME NEW row \in JobRow, NEW t \in Nat
  PROVE  LET new == RequestEscalation(row, t)
         IN  /\ new.status = "PENDING" /\ new.attempts = row.attempts - 1
             /\ new.escalationPending = TRUE
             /\ SameHistory(new, row)
BY DEF RequestEscalation, Release, JobRow, SameHistory

(* A retry starts the next generation from nothing. *)
LEMMA ReopenColumns ==
  ASSUME NEW row \in JobRow, NEW t \in Nat
  PROVE  LET new == RequestRetry(row, t)
         IN  /\ new.status = "PENDING" /\ new.attempts = 0
             /\ new.escalationPending = FALSE
             /\ new.retryGeneration = row.retryGeneration + 1
             /\ new.drawn = row.drawn
BY DEF RequestRetry, Release, JobRow

(* A deleted row keeps its other columns. *)
LEMMA DeleteColumns ==
  ASSUME NEW row \in JobRow
  PROVE  LET new == [row EXCEPT !.status = "DELETED"]
         IN  /\ new.status = "DELETED" /\ new.attempts = row.attempts
             /\ new.escalationPending = row.escalationPending
             /\ new.leaseExpiresAt = row.leaseExpiresAt
             /\ SameHistory(new, row)
BY DEF JobRow, SameHistory

(* A new row has counted nothing yet. *)
LEMMA NewColumns ==
  ASSUME NEW t \in Nat, NEW row \in {NewJob(t), Skip(NewJob(t), t)}
  PROVE  /\ row.status \in {"PENDING", "SKIPPED"} /\ row.attempts = 0
         /\ row.escalationPending = FALSE /\ SameHistory(row, NoRow)
         /\ NoRow.attempts = 0 /\ NoRow.retryGeneration = 0 /\ NoRow.drawn = 0
BY DEF NewJob, Skip, NoRow, SameHistory

-----------------------------------------------------------------------------
(* One turn of claim()'s loop.                                             *)

TurnModel(tx, j)   == RouteOf(tx.jobs[j])
TurnCircuit(tx, j) == Acquired(tx.circuits[TurnModel(tx, j)], now)
TurnPermit(tx, j)  == IF CircuitEnabled THEN PermitOf(TurnCircuit(tx, j)) ELSE Unprotected
TurnRow(tx, j)     == AcquireLease(tx.jobs[j], now, TurnModel(tx, j))
TurnWork(tx, j) ==
  [job |-> j, token |-> TurnRow(tx, j).leaseToken, model |-> TurnModel(tx, j),
   permit |-> TurnPermit(tx, j)]
Admitting(tx, j) ==
  IF CircuitEnabled THEN [tx.circuits EXCEPT ![TurnModel(tx, j)] = TurnCircuit(tx, j)]
  ELSE tx.circuits
Abandoning(tx, j) ==
  IF CircuitEnabled
  THEN [Admitting(tx, j) EXCEPT ![TurnModel(tx, j)] =
          Abandon(TurnCircuit(tx, j), TurnPermit(tx, j), now)]
  ELSE tx.circuits

Turns(tx, j) == j \in Jobs /\ tx.granted = {} /\ RouteAdmits(tx.circuits, tx.jobs[j])

(* A turn that hands out the job, and one that closes an unreadable one. *)
HandsOut(tx, j, new) ==
  /\ new.jobs = [tx.jobs EXCEPT ![j] = TurnRow(tx, j)]
  /\ new.circuits = Admitting(tx, j)
  /\ new.granted = {TurnWork(tx, j)}
Refuses(tx, j, new) ==
  /\ new.jobs = [tx.jobs EXCEPT ![j] = RetryOrFail(TurnRow(tx, j), FALSE, now)]
  /\ new.circuits = Abandoning(tx, j)
  /\ new.granted = {}

(* A turn does nothing, hands out the job or closes it. *)
LEMMA TurnKinds ==
  ASSUME NEW tx, NEW j \in Jobs \cup {NoJob}
  PROVE  \/ ~Turns(tx, j) /\ Try(tx, j) = tx
         \/ Turns(tx, j) /\ HandsOut(tx, j, Try(tx, j))
         \/ Turns(tx, j) /\ Refuses(tx, j, Try(tx, j))
<1> DEFINE skips == j = NoJob \/ tx.granted # {} \/ ~RouteAdmits(tx.circuits, tx.jobs[j])
<1>1. CASE skips
  BY <1>1, JobsAssumption DEF Try, Turns
<1>2. CASE ~skips
  <2>1. Turns(tx, j)
    BY <1>2 DEF Turns
  <2>2. CASE damage[j] = "none"
    <3>1. Try(tx, j) = [jobs |-> [tx.jobs EXCEPT ![j] = TurnRow(tx, j)],
                        circuits |-> Admitting(tx, j), granted |-> {TurnWork(tx, j)}]
      BY <1>2, <2>2 DEF Try, TurnRow, TurnModel, TurnCircuit, TurnPermit, TurnWork, Admitting
    <3> QED
      BY <2>1, <3>1 DEF HandsOut
  <2>3. CASE damage[j] # "none"
    <3>1. Try(tx, j) = [jobs |-> [tx.jobs EXCEPT ![j] = RetryOrFail(TurnRow(tx, j), FALSE, now)],
                        circuits |-> Abandoning(tx, j), granted |-> {}]
      BY <1>2, <2>3 DEF Try, TurnRow, TurnModel, TurnCircuit, TurnPermit, Admitting, Abandoning
    <3> QED
      BY <2>1, <3>1 DEF Refuses
  <2> QED
    BY <2>1, <2>2, <2>3
<1> QED
  BY <1>1, <1>2

(* What a turn finds and what its row becomes. *)
LEMMA TurnTyped ==
  ASSUME IInv, NEW tx, NEW live, SoundTx(tx, live), NEW j \in Jobs
  PROVE  /\ tx.jobs \in [Jobs -> JobRow] /\ tx.jobs[j] \in JobRow /\ now \in Nat
         /\ TurnModel(tx, j) \in Models /\ TurnRow(tx, j) \in JobRow
         /\ TurnRow(tx, j).attempts > 0
         /\ tx.circuits \in [Models -> CircuitRow]
         /\ tx.circuits[TurnModel(tx, j)] \in CircuitRow
         /\ TurnCircuit(tx, j) \in CircuitRow
<1>1. tx.jobs \in [Jobs -> JobRow] /\ SoundRow(tx.jobs[j]) /\ now \in Nat
  BY RowsSound DEF SoundTx
<1>2. TurnModel(tx, j) \in Models
  BY DEF TurnModel, RouteOf, Models
<1>3. tx.jobs[j] \in JobRow
  BY <1>1
<1>4. SoundRow(TurnRow(tx, j)) /\ TurnRow(tx, j).status = "RUNNING"
  BY <1>1, <1>2, AcquireSound DEF TurnRow
<1>5. TurnRow(tx, j) \in JobRow /\ TurnRow(tx, j).attempts > 0
  BY <1>4 DEF SoundRow, Leased
<1>6. tx.circuits \in [Models -> CircuitRow] /\ tx.circuits[TurnModel(tx, j)] \in CircuitRow
  BY <1>2 DEF SoundTx
<1> QED
  BY <1>1, <1>2, <1>3, <1>5, <1>6, AcquiredTyped DEF TurnCircuit

(* A claim is two turns over jobs that recovery left pending, or none. *)
LEMMA ClaimTurns ==
  ASSUME IInv, Claim
  PROVE  \E page \in RecoveryPages, i, k \in Jobs \cup {NoJob} :
           /\ i # NoJob => Recovered(page)[i].status = "PENDING"
           /\ k # NoJob => Recovered(page)[k].status = "PENDING" /\ i # k
           /\ Commit(Try(Try(Started(page), i), k))
<1>1. PICK page \in RecoveryPages :
        \/ Commit(Started(page))
        \/ \E q \in Candidates(Recovered(page)) : Commit(Try(Try(Started(page), q[1]), q[2]))
  BY DEF Claim, Started
<1>2. CASE Commit(Started(page))
  <2>1. Try(Try(Started(page), NoJob), NoJob) = Started(page)
    BY DEF Try
  <2> QED
    BY <1>2, <2>1
<1>3. CASE \E q \in Candidates(Recovered(page)) : Commit(Try(Try(Started(page), q[1]), q[2]))
  <2>1. PICK q \in Candidates(Recovered(page)) : Commit(Try(Try(Started(page), q[1]), q[2]))
    BY <1>3
  <2>2. \A e \in BOOLEAN : \A i \in Heads(Recovered(page), e) :
          \/ i = NoJob
          \/ /\ i \in Jobs /\ Recovered(page)[i].status = "PENDING"
             /\ Recovered(page)[i].escalationPending = e
    BY DEF Heads, Eligible
  <2>3. PICK e \in BOOLEAN, f \in BOOLEAN :
          e # f /\ q[1] \in Heads(Recovered(page), e) /\ q[2] \in Heads(Recovered(page), f)
    BY DEF Candidates
  <2>4. /\ q[1] \in Jobs \cup {NoJob} /\ q[2] \in Jobs \cup {NoJob}
        /\ q[1] # NoJob => Recovered(page)[q[1]].status = "PENDING"
                           /\ Recovered(page)[q[1]].escalationPending = e
        /\ q[2] # NoJob => Recovered(page)[q[2]].status = "PENDING"
                           /\ Recovered(page)[q[2]].escalationPending = f
    BY <2>2, <2>3
  <2>5. q[2] # NoJob => q[1] # q[2]
    BY <2>3, <2>4
  <2> QED
    BY <2>1, <2>4, <2>5
<1> QED
  BY <1>1, <1>2, <1>3

-----------------------------------------------------------------------------
(* What the other actions do to their row.                                 *)

(* The row of a job that was running after its answer was recorded. *)
Concludes(row, old) ==
  /\ row.status \in {"PENDING", "COMPLETED", "FAILED"}
  /\ SameHistory(row, old)
  /\ \/ /\ row.attempts = old.attempts
        /\ row.escalationPending = old.escalationPending
        /\ row.status = "PENDING" => row.attempts < MaxAttempts
     \/ /\ row.attempts = old.attempts - 1
        /\ row.escalationPending = TRUE /\ old.escalationPending = FALSE

Records(w, row) ==
  /\ Holds(w) /\ w.job \in Jobs /\ w.model \in Models /\ w.permit \in Permit
  /\ jobs[w.job] \in JobRow /\ jobs[w.job].status = "RUNNING"
  /\ jobs' = [jobs EXCEPT ![w.job] = row]
  /\ \E limited \in BOOLEAN : circuits' = Observed(w, limited)
  /\ inflight' = inflight \ {w}
  /\ UNCHANGED <<now, nextRequestAt, damage, retries, calls>>
  /\ Concludes(row, jobs[w.job])

(* Recording an answer or a failure concludes the row of the lease.        *)
LEMMA AnswerRecorded ==
  ASSUME IInv, NEW w \in inflight,
         Complete(w) \/ \E kind \in Failures : Fail(w, kind)
  PROVE  \E row : Records(w, row)
<1> DEFINE old == jobs[w.job]
<1>1. /\ w.job \in Jobs /\ w.model \in Models /\ w.permit \in Permit /\ w.token \in Nat
      /\ old \in JobRow /\ SoundRow(old) /\ now \in Nat
  BY RowsSound DEF IInv, TypeOK, Work
<1>2. Holds(w) /\ old.status = "RUNNING" /\ old.attempts > 0
  <2>1. Holds(w) /\ old.status = "RUNNING"
    BY DEF Complete, Fail, Holds, OwnsLease
  <2> QED
    BY <1>1, <2>1 DEF SoundRow, Leased
<1>3. ASSUME NEW row, NEW limited \in BOOLEAN, Settle(w, row, limited), Concludes(row, old)
      PROVE  Records(w, row)
  BY <1>1, <1>2, <1>3 DEF Settle, SaveJobs, Records
<1> HIDE DEF old
<1>4. CASE Complete(w)
  <2>1. Settle(w, CompleteJob(old, w.token, now), FALSE)
    BY <1>4 DEF Complete, old
  <2>2. Concludes(CompleteJob(old, w.token, now), old)
    BY <1>1, CompleteColumns DEF Concludes
  <2> QED
    BY <1>3, <2>1, <2>2
<1>5. ASSUME NEW kind \in Failures, Fail(w, kind)
      PROVE  \E row : Records(w, row)
  <2> DEFINE retryable == kind \in {"RATE_LIMITED", "TRANSIENT"}
             limited == kind = "RATE_LIMITED"
  <2>1. retryable \in BOOLEAN /\ limited \in BOOLEAN
    OBVIOUS
  <2>2. CASE kind = "QUALITY" /\ Escalates(w)
    <3>1. Settle(w, RequestEscalation(old, now), limited)
      BY <1>5, <2>2 DEF Fail, old
    <3>2. old.escalationPending = FALSE
      BY <1>1, <2>2 DEF Escalates, old, JobRow
    <3>3. Concludes(RequestEscalation(old, now), old)
      BY <1>1, <3>2, EscalationColumns DEF Concludes
    <3> QED
      BY <1>3, <2>1, <3>1, <3>3
  <2>3. CASE ~(kind = "QUALITY" /\ Escalates(w))
    <3>1. Settle(w, RetryOrFail(old, retryable, now), limited)
      BY <1>5, <2>3 DEF Fail, old
    <3> HIDE DEF retryable, limited
    <3>2. Concludes(RetryOrFail(old, retryable, now), old)
      BY <1>1, <1>2, <2>1, RetryColumns DEF Concludes
    <3> QED
      BY <1>3, <2>1, <3>1, <3>2
  <2> QED
    BY <2>2, <2>3
<1> QED
  BY <1>4, <1>5

(* An insertion, a retry and a deletion replace one row. *)
Inserts(j, row) ==
  /\ jobs[j].status = "NONE" /\ row \in {NewJob(now), Skip(NewJob(now), now)}
  /\ UNCHANGED <<now, circuits, nextRequestAt, inflight, retries, calls>>
Restarts(j, row) ==
  /\ jobs[j].status = "FAILED" /\ row = RequestRetry(jobs[j], now)
  /\ \E notice : /\ notice.generation = jobs[j].retryGeneration
                 /\ retries' = [retries EXCEPT ![j] = Append(@, notice)]
  /\ calls' = [calls EXCEPT ![j] = 0]
  /\ UNCHANGED <<now, circuits, nextRequestAt, inflight>>
Removes(j, row) ==
  /\ jobs[j].status \notin {"NONE", "DELETED"} /\ row = [jobs[j] EXCEPT !.status = "DELETED"]
  /\ UNCHANGED <<now, circuits, nextRequestAt, inflight, retries, calls>>
Replaces(j, row) ==
  /\ jobs' = [jobs EXCEPT ![j] = row]
  /\ Inserts(j, row) \/ Restarts(j, row) \/ Removes(j, row)

(* Every step is a claim, an answer recorded, a row replaced, or leaves    *)
(* the rows, circuits and histories alone and at most forgets an answer or *)
(* moves the clock.                                                        *)
LEMMA StepKinds ==
  ASSUME IInv, [Next]_vars
  PROVE  \/ Claim
         \/ \E w \in inflight : \E row : Records(w, row)
         \/ \E j \in Jobs : \E row : Replaces(j, row)
         \/ /\ UNCHANGED <<jobs, circuits, nextRequestAt, retries, calls>>
            /\ inflight' \subseteq inflight /\ now' \in {now, now + 1}
<1>0. jobs \in [Jobs -> JobRow]
  BY RowsSound
<1>1. ASSUME NEW j \in Jobs, NEW skipped \in BOOLEAN, Enqueue(j, skipped)
      PROVE  \E row : Replaces(j, row)
  BY <1>1 DEF Enqueue, SaveJobs, Replaces, Inserts
<1>2. ASSUME NEW w \in inflight, Complete(w) \/ \E kind \in Failures : Fail(w, kind)
      PROVE  \E row : Records(w, row)
  BY <1>2, AnswerRecorded
<1>3. ASSUME NEW j \in Jobs, Delete(j)
      PROVE  \E row : Replaces(j, row)
  <2>1. Replaces(j, [jobs[j] EXCEPT !.status = "DELETED"])
    BY <1>0, <1>3 DEF Delete, SaveJobs, Replaces, Removes
  <2> QED
    BY <2>1
<1>4. ASSUME NEW j \in Jobs, NEW notice \in notices[j], Retry(j, notice)
      PROVE  \E row : Replaces(j, row)
  <2>1. notice.generation = jobs[j].retryGeneration
    BY <1>4 DEF Retry, Answers, NoticeOf
  <2>2. Replaces(j, RequestRetry(jobs[j], now))
    BY <1>0, <1>4, <2>1 DEF Retry, Answers, SaveJobs, Replaces, Restarts
  <2> QED
    BY <2>2
<1>5. ASSUME NEW w \in inflight, Ignore(w) \/ WorkerLost(w)
      PROVE  /\ UNCHANGED <<jobs, circuits, nextRequestAt, retries, calls>>
             /\ inflight' \subseteq inflight /\ now' \in {now, now + 1}
  BY <1>5 DEF Ignore, WorkerLost
<1>6. CASE Tick
  BY <1>6 DEF Tick
<1>7. CASE UNCHANGED vars
  BY <1>7 DEF vars
<1> QED
  BY <1>1, <1>2, <1>3, <1>4, <1>5, <1>6, <1>7 DEF Next

-----------------------------------------------------------------------------
(* Retry generations.                                                      *)

(* A row that was never inserted is the empty one, and a job's notices     *)
(* were answered in the order of its generations, one each.                *)
Uninserted == \A j \in Jobs : jobs[j].status = "NONE" => jobs[j] = NoRow
RetriesInOrder ==
  \A j \in Jobs :
    /\ Len(retries[j]) = jobs[j].retryGeneration
    /\ \A a \in 1 .. Len(retries[j]) : retries[j][a].generation = a - 1
Generations == Uninserted /\ RetriesInOrder

(* A claim leaves the generations of the rows and never empties one. *)
SameGenerations(tx) ==
  \A j \in Jobs : /\ tx.jobs[j].retryGeneration = jobs[j].retryGeneration
                  /\ tx.jobs[j] = jobs[j] \/ tx.jobs[j].status # "NONE"

LEMMA TurnGenerations ==
  ASSUME IInv, NEW tx, NEW live, SoundTx(tx, live), SameGenerations(tx),
         NEW j \in Jobs \cup {NoJob}
  PROVE  SameGenerations(Try(tx, j))
<1> DEFINE new == Try(tx, j)
           row == TurnRow(tx, j)
           failed == RetryOrFail(row, FALSE, now)
<1>1. CASE new = tx
  BY <1>1
<1>2. CASE Turns(tx, j) /\ (HandsOut(tx, j, new) \/ Refuses(tx, j, new))
  <2>1. j \in Jobs
    BY <1>2 DEF Turns
  <2>2. /\ tx.jobs \in [Jobs -> JobRow] /\ tx.jobs[j] \in JobRow /\ now \in Nat
        /\ TurnModel(tx, j) \in Models /\ row \in JobRow /\ row.attempts > 0
    BY <2>1, TurnTyped
  <2>3. row.status = "RUNNING" /\ row.retryGeneration = tx.jobs[j].retryGeneration
    BY <2>2, LeaseColumns DEF TurnRow
  <2> HIDE DEF row
  <2>4. failed.status \in {"PENDING", "FAILED"}
        /\ failed.retryGeneration = row.retryGeneration
    BY <2>2, RetryColumns DEF SameHistory
  <2>5. \A i \in Jobs : \/ i # j /\ new.jobs[i] = tx.jobs[i]
                        \/ i = j /\ new.jobs[i] \in {row, failed}
    BY <1>2, <2>2 DEF HandsOut, Refuses, row
  <2> HIDE DEF failed, new
  <2>6. ASSUME NEW i \in Jobs
        PROVE  /\ new.jobs[i].retryGeneration = jobs[i].retryGeneration
               /\ new.jobs[i] = jobs[i] \/ new.jobs[i].status # "NONE"
    BY <2>1, <2>3, <2>4, <2>5 DEF SameGenerations
  <2> QED
    BY <2>6 DEF SameGenerations, new
<1> QED
  BY <1>1, <1>2, TurnKinds

(* Recovery moves expired rows on, and leaves their generation. *)
LEMMA RecoveredColumns ==
  ASSUME IInv, NEW page \in RecoveryPages, NEW j \in Jobs
  PROVE  /\ SoundTx(Started(page), Live(jobs))
         /\ \/ Recovered(page)[j] = jobs[j]
            \/ /\ j \in Expired /\ Recovered(page)[j].status \in {"PENDING", "FAILED"}
               /\ Recovered(page)[j].status = "PENDING" =>
                    Recovered(page)[j].attempts < MaxAttempts
               /\ Recovered(page)[j].attempts = jobs[j].attempts
               /\ Recovered(page)[j].escalationPending = jobs[j].escalationPending
               /\ SameHistory(Recovered(page)[j], jobs[j])
<1>1. SoundRow(jobs[j]) /\ jobs[j] \in JobRow /\ now \in Nat
  BY RowsSound
<1>2. SoundTx(Started(page), Live(jobs))
  BY RecoveredSound
<1>3. CASE j \in page
  <2>1. j \in Expired /\ jobs[j].status = "RUNNING"
    BY <1>3 DEF RecoveryPages, Expired
  <2>2. jobs[j].attempts > 0
    BY <1>1, <2>1 DEF SoundRow, Leased
  <2>3. Recovered(page)[j] = RetryOrFail(jobs[j], TRUE, now)
    BY <1>3 DEF Recovered, RecoverExpired
  <2> QED
    BY <1>1, <1>2, <2>1, <2>2, <2>3, RetryColumns
<1>4. CASE j \notin page
  BY <1>2, <1>4 DEF Recovered
<1> QED
  BY <1>3, <1>4

LEMMA GenerationsInitially == Init => Generations
BY DEF Init, Generations, Uninserted, RetriesInOrder, NoRow

(* Every step keeps the order of the generations. *)
LEMMA GenerationsStep ==
  ASSUME IInv, Generations, [Next]_vars
  PROVE  Generations'
<1>0. jobs \in [Jobs -> JobRow] /\ now \in Nat /\ retries \in [Jobs -> Seq(Notice)]
  BY RowsSound DEF IInv, TypeOK
<1>1. ASSUME UNCHANGED retries,
             \A j \in Jobs : /\ jobs'[j].retryGeneration = jobs[j].retryGeneration
                             /\ jobs'[j] = jobs[j] \/ jobs'[j].status # "NONE"
      PROVE  Generations'
  BY <1>1 DEF Generations, Uninserted, RetriesInOrder
<1>2. CASE Claim
  <2>1. PICK page \in RecoveryPages, i \in Jobs \cup {NoJob}, k \in Jobs \cup {NoJob} :
               Commit(Try(Try(Started(page), i), k))
    BY <1>2, ClaimTurns
  <2> DEFINE tx == Started(page)
             tx1 == Try(tx, i)
             tx2 == Try(tx1, k)
  <2>2. SoundTx(tx, Live(jobs)) /\ SameGenerations(tx)
    <3>1. ASSUME NEW j \in Jobs
          PROVE  /\ tx.jobs[j].retryGeneration = jobs[j].retryGeneration
                 /\ tx.jobs[j] = jobs[j] \/ tx.jobs[j].status # "NONE"
      BY RecoveredColumns DEF Started, SameHistory
    <3> QED
      BY <3>1, RecoveredSound DEF SameGenerations
  <2>3. Commit(tx2)
    BY <2>1
  <2> HIDE DEF tx
  <2>4. SoundTx(tx1, Live(jobs)) /\ SameGenerations(tx1)
    BY <2>2, TrySound, TurnGenerations
  <2> HIDE DEF tx1
  <2>5. SameGenerations(tx2)
    BY <2>4, TurnGenerations
  <2> HIDE DEF tx2
  <2>6. jobs' = tx2.jobs /\ UNCHANGED retries
    BY <2>3 DEF Commit, SaveJobs
  <2> QED
    BY <1>1, <2>5, <2>6 DEF SameGenerations
<1>3. ASSUME NEW w \in inflight, NEW row, Records(w, row)
      PROVE  Generations'
  BY <1>0, <1>1, <1>3 DEF Records, Concludes, SameHistory
<1>4. ASSUME NEW j \in Jobs, NEW row, Replaces(j, row)
      PROVE  Generations'
  <2>0. jobs' = [jobs EXCEPT ![j] = row] /\ jobs[j] \in JobRow
    BY <1>0, <1>4 DEF Replaces
  <2>1. CASE Inserts(j, row)
    <3>1. row.status # "NONE" /\ row.retryGeneration = jobs[j].retryGeneration
      BY <1>0, <2>1, NewColumns DEF Inserts, Generations, Uninserted, SameHistory
    <3> QED
      BY <1>0, <1>1, <2>0, <2>1, <3>1 DEF Inserts
  <2>2. CASE Removes(j, row)
    <3>1. row.status # "NONE" /\ row.retryGeneration = jobs[j].retryGeneration
      BY <2>0, <2>2, DeleteColumns DEF Removes, SameHistory
    <3> QED
      BY <1>0, <1>1, <2>0, <2>2, <3>1 DEF Removes
  <2>3. CASE Restarts(j, row)
    <3>1. row.status # "NONE" /\ row.retryGeneration = jobs[j].retryGeneration + 1
      BY <1>0, <2>0, <2>3, ReopenColumns DEF Restarts
    <3>2. PICK notice : /\ notice.generation = jobs[j].retryGeneration
                        /\ retries' = [retries EXCEPT ![j] = Append(@, notice)]
      BY <2>3 DEF Restarts
    <3> DEFINE old == retries[j]
               all == Append(old, notice)
    <3>3. /\ old \in Seq(Notice) /\ Len(old) = jobs[j].retryGeneration
          /\ \A a \in 1 .. Len(old) : old[a].generation = a - 1
      BY <1>0 DEF Generations, RetriesInOrder
    <3>4. /\ Len(all) = Len(old) + 1 /\ all[Len(old) + 1] = notice
          /\ \A a \in 1 .. Len(old) : all[a] = old[a]
      BY <3>3
    <3> HIDE DEF all
    <3>5. /\ Len(all) = jobs[j].retryGeneration + 1
          /\ \A a \in 1 .. Len(all) : all[a].generation = a - 1
      <4>1. jobs[j].retryGeneration \in Nat
        BY <2>0 DEF JobRow
      <4> HIDE DEF old
      <4>2. Len(all) = jobs[j].retryGeneration + 1
        BY <3>3, <3>4
      <4>3. ASSUME NEW a \in 1 .. Len(all) PROVE all[a].generation = a - 1
        <5>1. CASE a \in 1 .. Len(old)
          BY <3>3, <3>4, <5>1
        <5>2. CASE a = Len(old) + 1
          BY <3>2, <3>3, <3>4, <4>1, <5>2
        <5> QED
          BY <3>3, <4>1, <4>2, <5>1, <5>2
      <4> QED
        BY <4>2, <4>3
    <3>6. retries'[j] = all /\ \A i \in Jobs \ {j} : retries'[i] = retries[i]
      BY <1>0, <3>2 DEF all
    <3>7. jobs'[j] = row /\ \A i \in Jobs \ {j} : jobs'[i] = jobs[i]
      BY <1>0, <2>0
    <3> HIDE DEF old
    <3> QED
      BY <3>1, <3>5, <3>6, <3>7 DEF Generations, Uninserted, RetriesInOrder
  <2> QED
    BY <1>4, <2>1, <2>2, <2>3 DEF Replaces
<1>5. CASE UNCHANGED <<jobs, retries>>
  BY <1>1, <1>5
<1> QED
  BY <1>2, <1>3, <1>4, <1>5, StepKinds

(* A notice that restarted its job is never accepted again: every notice   *)
(* that was accepted names another generation (PdfAiRetryService).         *)
THEOREM NoticesOnce == Spec => []NoNoticeReplayed
<1>1. Generations /\ TypeOK => NoNoticeReplayed
  <2> SUFFICES ASSUME Generations, TypeOK, NEW j \in Jobs,
                      NEW a \in DOMAIN retries[j], NEW b \in DOMAIN retries[j],
                      retries[j][a] = retries[j][b]
               PROVE  a = b
    BY DEF NoNoticeReplayed
  <2>1. DOMAIN retries[j] = 1 .. Len(retries[j]) /\ Len(retries[j]) \in Nat
    BY DEF TypeOK
  <2>2. retries[j][a].generation = a - 1 /\ retries[j][b].generation = b - 1
    BY <2>1 DEF Generations, RetriesInOrder
  <2> QED
    BY <2>1, <2>2
<1>2. IInv /\ Generations /\ [Next]_vars => Generations'
  BY GenerationsStep
<1>3. Spec => []IInv
  BY Inductive, PTL
<1>4. IInv => TypeOK
  BY DEF IInv
<1> QED
  BY <1>1, <1>2, <1>3, <1>4, GenerationsInitially, PTL DEF Spec

-----------------------------------------------------------------------------
(* Calls to the model.                                                     *)

(* A job's calls are covered by its attempts and the one the escalation    *)
(* gave back; only a job with an attempt left is pending.                  *)
WithinBudget(row, n) ==
  /\ row.attempts <= MaxAttempts
  /\ row.status = "PENDING" => row.attempts < MaxAttempts
  /\ n <= row.attempts + (IF row.escalationPending THEN 1 ELSE 0)
  /\ row.escalationPending \/ row.status = "RUNNING" => n > 0
Budgeted == \A j \in Jobs : WithinBudget(jobs[j], calls[j])

(* The calls a transaction of claim() would count. *)
CallsOf(tx, j) == IF j \in {w.job : w \in tx.granted} THEN calls[j] + 1 ELSE calls[j]
BudgetedTx(tx) == \A j \in Jobs : WithinBudget(tx.jobs[j], CallsOf(tx, j))

LEMMA TurnBudgeted ==
  ASSUME IInv, NEW tx, NEW live, SoundTx(tx, live), BudgetedTx(tx),
         NEW j \in Jobs \cup {NoJob}, j # NoJob => tx.jobs[j].status = "PENDING"
  PROVE  BudgetedTx(Try(tx, j))
<1> DEFINE new == Try(tx, j)
           old == tx.jobs[j]
           row == TurnRow(tx, j)
           failed == RetryOrFail(row, FALSE, now)
<1>1. CASE new = tx
  BY <1>1
<1>2. CASE Turns(tx, j) /\ (HandsOut(tx, j, new) \/ Refuses(tx, j, new))
  <2>1. j \in Jobs /\ tx.granted = {} /\ old.status = "PENDING"
    BY <1>2, JobsAssumption DEF Turns
  <2>2. /\ tx.jobs \in [Jobs -> JobRow] /\ old \in JobRow /\ now \in Nat
        /\ TurnModel(tx, j) \in Models /\ row \in JobRow /\ row.attempts > 0
    BY <2>1, TurnTyped
  <2>3. /\ row.status = "RUNNING" /\ row.attempts = old.attempts + 1
        /\ row.escalationPending = old.escalationPending
    BY <2>2, LeaseColumns DEF TurnRow
  <2>4. /\ \A i \in Jobs : CallsOf(tx, i) = calls[i]
        /\ calls[j] \in Nat /\ MaxAttempts \in Nat /\ old.attempts \in Nat
    BY <2>1, <2>2, AttemptsAssumption DEF CallsOf, IInv, TypeOK, JobRow
  <2>5. WithinBudget(old, calls[j]) /\ old.attempts < MaxAttempts
    BY <2>1, <2>4 DEF BudgetedTx, WithinBudget
  <2> HIDE DEF row, old
  <2>6. WithinBudget(row, calls[j] + 1)
    BY <2>3, <2>4, <2>5 DEF WithinBudget
  <2>7. /\ failed.status = "FAILED" /\ failed.attempts = row.attempts
        /\ failed.escalationPending = row.escalationPending
    BY <2>2, RetryColumns
  <2> HIDE DEF failed
  <2>8. WithinBudget(failed, calls[j])
    BY <2>3, <2>4, <2>5, <2>7 DEF WithinBudget
  <2>9. \A i \in Jobs : i # j => WithinBudget(tx.jobs[i], calls[i])
    BY <2>4 DEF BudgetedTx
  <2>10. CASE HandsOut(tx, j, new)
    <3>1. \A i \in Jobs : new.jobs[i] = IF i = j THEN row ELSE tx.jobs[i]
      BY <2>2, <2>10 DEF HandsOut, row
    <3>2. \A i \in Jobs : CallsOf(new, i) = IF i = j THEN calls[i] + 1 ELSE calls[i]
      BY <2>10 DEF HandsOut, TurnWork, CallsOf
    <3> HIDE DEF new
    <3> QED
      BY <2>6, <2>9, <3>1, <3>2 DEF BudgetedTx, new
  <2>11. CASE Refuses(tx, j, new)
    <3>1. \A i \in Jobs : new.jobs[i] = IF i = j THEN failed ELSE tx.jobs[i]
      BY <2>2, <2>11 DEF Refuses, failed, row
    <3>2. \A i \in Jobs : CallsOf(new, i) = calls[i]
      BY <2>11 DEF Refuses, CallsOf
    <3> HIDE DEF new
    <3> QED
      BY <2>8, <2>9, <3>1, <3>2 DEF BudgetedTx, new
  <2> QED
    BY <1>2, <2>10, <2>11
<1> QED
  BY <1>1, <1>2, TurnKinds

(* A turn leaves the rows of the other jobs alone. *)
LEMMA TurnElsewhere ==
  ASSUME IInv, NEW tx, NEW live, SoundTx(tx, live),
         NEW j \in Jobs \cup {NoJob}, NEW i \in Jobs, i # j
  PROVE  Try(tx, j).jobs[i] = tx.jobs[i]
<1>1. tx.jobs \in [Jobs -> JobRow]
  BY DEF SoundTx
<1>2. CASE Try(tx, j) = tx
  BY <1>2
<1>3. CASE Turns(tx, j) /\ (HandsOut(tx, j, Try(tx, j)) \/ Refuses(tx, j, Try(tx, j)))
  <2>1. PICK row : Try(tx, j).jobs = [tx.jobs EXCEPT ![j] = row]
    BY <1>3 DEF HandsOut, Refuses
  <2> QED
    BY <1>1, <2>1
<1> QED
  BY <1>2, <1>3, TurnKinds

LEMMA BudgetedInitially == Init => Budgeted
BY AttemptsAssumption DEF Init, Budgeted, WithinBudget, NoRow

(* Every step keeps the budget. *)
LEMMA BudgetedStep ==
  ASSUME IInv, Generations, Budgeted, [Next]_vars
  PROVE  Budgeted'
<1>0. /\ jobs \in [Jobs -> JobRow] /\ now \in Nat /\ MaxAttempts \in Nat \ {0}
      /\ calls \in [Jobs -> Nat]
  BY RowsSound, AttemptsAssumption DEF IInv, TypeOK
<1>1. CASE Claim
  <2>1. PICK page \in RecoveryPages, i \in Jobs \cup {NoJob}, k \in Jobs \cup {NoJob} :
          /\ i # NoJob => Recovered(page)[i].status = "PENDING"
          /\ k # NoJob => Recovered(page)[k].status = "PENDING" /\ i # k
          /\ Commit(Try(Try(Started(page), i), k))
    BY <1>1, ClaimTurns
  <2> DEFINE tx == Started(page)
             tx1 == Try(tx, i)
             tx2 == Try(tx1, k)
  <2>2. /\ SoundTx(tx, Live(jobs))
        /\ i # NoJob => tx.jobs[i].status = "PENDING"
        /\ k # NoJob => tx.jobs[k].status = "PENDING" /\ i # k
    BY <2>1, RecoveredSound DEF Started
  <2>3. BudgetedTx(tx)
    <3> SUFFICES ASSUME NEW j \in Jobs
                 PROVE  WithinBudget(tx.jobs[j], CallsOf(tx, j))
      BY DEF BudgetedTx
    <3>1. CallsOf(tx, j) = calls[j] /\ tx.jobs[j] = Recovered(page)[j]
      BY DEF CallsOf, Started
    <3>2. jobs[j].attempts \in Nat
      BY <1>0 DEF JobRow
    <3>3. WithinBudget(jobs[j], calls[j])
      BY DEF Budgeted
    <3>4. CASE Recovered(page)[j] = jobs[j]
      BY <3>1, <3>3, <3>4
    <3>5. CASE Recovered(page)[j] # jobs[j]
      <4> HIDE DEF tx
      <4>1. /\ Recovered(page)[j].status \in {"PENDING", "FAILED"}
            /\ Recovered(page)[j].status = "PENDING" =>
                 Recovered(page)[j].attempts < MaxAttempts
            /\ Recovered(page)[j].attempts = jobs[j].attempts
            /\ Recovered(page)[j].escalationPending = jobs[j].escalationPending
        BY <3>5, RecoveredColumns
      <4> QED
        BY <3>1, <3>3, <4>1 DEF WithinBudget
    <3> QED
      BY <3>4, <3>5
  <2>4. Commit(tx2)
    BY <2>1
  <2> HIDE DEF tx
  <2>5. SoundTx(tx1, Live(jobs)) /\ BudgetedTx(tx1)
    BY <2>2, <2>3, TrySound, TurnBudgeted
  <2>6. k # NoJob => tx1.jobs[k].status = "PENDING"
    BY <2>2, TurnElsewhere
  <2> HIDE DEF tx1
  <2>7. BudgetedTx(tx2)
    BY <2>5, <2>6, TurnBudgeted
  <2> HIDE DEF tx2
  <2>8. jobs' = tx2.jobs /\ \A j \in Jobs : calls'[j] = CallsOf(tx2, j)
    BY <2>4 DEF Commit, SaveJobs, CallsOf
  <2> QED
    BY <2>7, <2>8 DEF BudgetedTx, Budgeted
<1>2. ASSUME NEW w \in inflight, NEW row, Records(w, row)
      PROVE  Budgeted'
  <2> DEFINE old == jobs[w.job]
  <2>1. /\ w.job \in Jobs /\ old \in JobRow /\ old.status = "RUNNING"
        /\ jobs' = [jobs EXCEPT ![w.job] = row] /\ UNCHANGED calls
        /\ Concludes(row, old)
    BY <1>2 DEF Records
  <2>2. WithinBudget(old, calls[w.job]) /\ calls[w.job] \in Nat /\ old.attempts \in Nat
    BY <1>0, <2>1 DEF Budgeted, JobRow
  <2> HIDE DEF old
  <2>3. WithinBudget(row, calls[w.job])
    BY <1>0, <2>1, <2>2 DEF WithinBudget, Concludes
  <2> QED
    BY <1>0, <2>1, <2>3 DEF Budgeted
<1>3. ASSUME NEW j \in Jobs, NEW row, Replaces(j, row)
      PROVE  Budgeted'
  <2> DEFINE old == jobs[j]
  <2>0. /\ jobs' = [jobs EXCEPT ![j] = row] /\ old \in JobRow
        /\ WithinBudget(old, calls[j]) /\ calls[j] \in Nat /\ old.attempts \in Nat
    BY <1>0, <1>3 DEF Replaces, Budgeted, JobRow
  <2>1. WithinBudget(row, calls'[j]) /\ \A i \in Jobs \ {j} : calls'[i] = calls[i]
    <3>1. CASE Inserts(j, row)
      <4>1. /\ row.status # "RUNNING" /\ row.attempts = 0 /\ row.escalationPending = FALSE
            /\ UNCHANGED calls /\ old = NoRow
        BY <1>0, <3>1, NewColumns DEF Inserts, Generations, Uninserted
      <4>2. NoRow.attempts = 0 /\ NoRow.escalationPending = FALSE
        BY DEF NoRow
      <4>3. calls[j] <= 0
        BY <2>0, <4>1, <4>2 DEF WithinBudget
      <4> HIDE DEF old
      <4> QED
        BY <1>0, <4>1, <4>3 DEF WithinBudget
    <3>2. CASE Removes(j, row)
      <4>1. /\ row.status = "DELETED" /\ row.attempts = old.attempts
            /\ row.escalationPending = old.escalationPending /\ UNCHANGED calls
        BY <2>0, <3>2, DeleteColumns DEF Removes
      <4> HIDE DEF old
      <4> QED
        BY <2>0, <4>1 DEF WithinBudget
    <3>3. CASE Restarts(j, row)
      <4>1. row.status = "PENDING" /\ row.attempts = 0 /\ row.escalationPending = FALSE
        BY <1>0, <2>0, <3>3, ReopenColumns DEF Restarts
      <4>2. calls'[j] = 0 /\ \A i \in Jobs \ {j} : calls'[i] = calls[i]
        BY <1>0, <3>3 DEF Restarts
      <4> QED
        BY <1>0, <4>1, <4>2 DEF WithinBudget
    <3> QED
      BY <1>3, <3>1, <3>2, <3>3 DEF Replaces
  <2> QED
    BY <1>0, <2>0, <2>1 DEF Budgeted
<1>4. CASE UNCHANGED <<jobs, calls>>
  BY <1>4 DEF Budgeted
<1> QED
  BY <1>1, <1>2, <1>3, <1>4, StepKinds

(* The model is called at most MaxAttempts times for a generation of a     *)
(* job, once more after an escalation, which follows a first call.         *)
THEOREM BudgetKept == Spec => []CallBudget
<1>1. IInv /\ Budgeted => CallBudget
  <2> SUFFICES ASSUME IInv, Budgeted, NEW j \in Jobs
               PROVE  /\ calls[j] <= MaxAttempts
                                       + (IF jobs[j].escalationPending THEN 1 ELSE 0)
                      /\ jobs[j].escalationPending => calls[j] > 0
    BY DEF CallBudget
  <2>1. WithinBudget(jobs[j], calls[j]) /\ jobs[j].attempts \in Nat /\ calls[j] \in Nat
    BY DEF Budgeted, IInv, TypeOK, JobRow
  <2> QED
    BY <2>1, AttemptsAssumption DEF WithinBudget
<1>2. /\ IInv /\ Generations /\ [Next]_vars => Generations'
      /\ IInv /\ Generations /\ Budgeted /\ [Next]_vars => Budgeted'
  BY GenerationsStep, BudgetedStep
<1>3. Spec => []IInv
  BY Inductive, PTL
<1> QED
  BY <1>1, <1>2, <1>3, GenerationsInitially, BudgetedInitially, PTL DEF Spec

-----------------------------------------------------------------------------
(* The gate.                                                               *)

(* The gate opens no earlier than an interval after the last lease that is *)
(* still running was granted.                                              *)
LeasesBeforeGate ==
  \A j \in Jobs : jobs[j].status = "RUNNING" =>
    jobs[j].leaseExpiresAt + RequestInterval <= nextRequestAt + LeaseDuration
Spaced == LeasesBeforeGate /\ SpacedLeases

(* In a transaction of claim() every running row is one it found, except   *)
(* that of the job it hands out.                                           *)
NewLease(tx, g) ==
  /\ tx.jobs[g].leaseExpiresAt = now + LeaseDuration
  /\ \A j \in Jobs \ {g} : tx.jobs[j].status = "RUNNING" => tx.jobs[j] = jobs[j]
SpacedTx(tx) ==
  IF tx.granted = {}
  THEN \A j \in Jobs : tx.jobs[j].status = "RUNNING" => tx.jobs[j] = jobs[j]
  ELSE \E g \in Jobs : NewLease(tx, g)

LEMMA TurnSpaced ==
  ASSUME IInv, NEW tx, NEW live, SoundTx(tx, live), SpacedTx(tx),
         NEW j \in Jobs \cup {NoJob}
  PROVE  SpacedTx(Try(tx, j))
<1> DEFINE new == Try(tx, j)
           row == TurnRow(tx, j)
           failed == RetryOrFail(row, FALSE, now)
<1>1. CASE new = tx
  BY <1>1
<1>2. CASE Turns(tx, j) /\ (HandsOut(tx, j, new) \/ Refuses(tx, j, new))
  <2>1. j \in Jobs /\ \A i \in Jobs : tx.jobs[i].status = "RUNNING" => tx.jobs[i] = jobs[i]
    BY <1>2 DEF Turns, SpacedTx
  <2>2. /\ tx.jobs \in [Jobs -> JobRow] /\ tx.jobs[j] \in JobRow /\ now \in Nat
        /\ TurnModel(tx, j) \in Models /\ row \in JobRow /\ row.attempts > 0
    BY <2>1, TurnTyped
  <2>3. row.leaseExpiresAt = now + LeaseDuration
    BY <2>2, LeaseColumns DEF TurnRow
  <2> HIDE DEF row
  <2>4. failed.status = "FAILED"
    BY <2>2, RetryColumns
  <2>5. CASE HandsOut(tx, j, new)
    <3>1. new.granted # {} /\ \A i \in Jobs : new.jobs[i] = IF i = j THEN row ELSE tx.jobs[i]
      BY <2>2, <2>5 DEF HandsOut, row
    <3> HIDE DEF new
    <3>2. NewLease(new, j)
      BY <2>1, <2>3, <3>1 DEF NewLease
    <3> QED
      BY <2>1, <3>1, <3>2 DEF SpacedTx, new
  <2>6. CASE Refuses(tx, j, new)
    <3>1. new.granted = {} /\ \A i \in Jobs : new.jobs[i] = IF i = j THEN failed ELSE tx.jobs[i]
      BY <2>2, <2>6 DEF Refuses, failed, row
    <3> HIDE DEF new, failed
    <3> QED
      BY <2>1, <2>4, <3>1 DEF SpacedTx, new
  <2> QED
    BY <1>2, <2>5, <2>6
<1> QED
  BY <1>1, <1>2, TurnKinds

LEMMA SpacedInitially == Init => Spaced
BY DEF Init, Spaced, LeasesBeforeGate, SpacedLeases, NoRow

(* Only a claim grants a lease, and the gate was open for it. *)
LEMMA SpacedStep ==
  ASSUME IInv, Spaced, [Next]_vars
  PROVE  Spaced'
<1>0. /\ jobs \in [Jobs -> JobRow] /\ now \in Nat /\ nextRequestAt \in Nat
      /\ RequestInterval \in Nat /\ LeaseDuration \in Nat
  BY RowsSound, LimitsAssumption, LeaseAssumption DEF IInv, TypeOK
<1>1. ASSUME UNCHANGED nextRequestAt,
             \A j \in Jobs : jobs'[j].status = "RUNNING" => jobs'[j] = jobs[j]
      PROVE  Spaced'
  BY <1>1 DEF Spaced, LeasesBeforeGate, SpacedLeases
<1>2. CASE Claim
  <2>1. PICK page \in RecoveryPages, i \in Jobs \cup {NoJob}, k \in Jobs \cup {NoJob} :
               Commit(Try(Try(Started(page), i), k))
    BY <1>2, ClaimTurns
  <2> DEFINE tx == Started(page)
             tx1 == Try(tx, i)
             tx2 == Try(tx1, k)
  <2>2. SoundTx(tx, Live(jobs)) /\ SpacedTx(tx)
    <3>1. ASSUME NEW j \in Jobs, tx.jobs[j].status = "RUNNING"
          PROVE  tx.jobs[j] = jobs[j]
      BY <3>1, RecoveredColumns DEF Started
    <3> QED
      BY <3>1, RecoveredSound DEF SpacedTx, Started
  <2>3. Commit(tx2)
    BY <2>1
  <2> HIDE DEF tx
  <2>4. SoundTx(tx1, Live(jobs)) /\ SpacedTx(tx1)
    BY <2>2, TrySound, TurnSpaced
  <2> HIDE DEF tx1
  <2>5. SpacedTx(tx2)
    BY <2>4, TurnSpaced
  <2> HIDE DEF tx2
  <2>6. jobs' = tx2.jobs /\ nextRequestAt' = GateAfter(tx2.granted)
    BY <2>3 DEF Commit, SaveJobs
  <2>7. CASE tx2.granted = {}
    BY <1>1, <2>5, <2>6, <2>7 DEF SpacedTx, GateAfter
  <2>8. CASE tx2.granted # {}
    <3>1. PICK g \in Jobs : NewLease(tx2, g)
      BY <2>5, <2>8 DEF SpacedTx
    <3>2. nextRequestAt' = now + RequestInterval /\ nextRequestAt <= now
      BY <1>0, <1>2, <2>6, <2>8 DEF GateAfter, Claim, GatePermits
    <3>3. jobs'[g].leaseExpiresAt = now + LeaseDuration
      BY <2>6, <3>1 DEF NewLease
    <3>4. ASSUME NEW j \in Jobs, j # g, jobs'[j].status = "RUNNING"
          PROVE  /\ jobs'[j] = jobs[j] /\ jobs[j].leaseExpiresAt \in Int
                 /\ jobs[j].leaseExpiresAt + RequestInterval <= now + LeaseDuration
      <4>1. jobs'[j] = jobs[j] /\ jobs[j].leaseExpiresAt \in Int
        BY <1>0, <2>6, <3>1, <3>4 DEF NewLease, JobRow
      <4>2. jobs[j].leaseExpiresAt + RequestInterval <= nextRequestAt + LeaseDuration
        BY <3>4, <4>1 DEF Spaced, LeasesBeforeGate
      <4> QED
        BY <1>0, <3>2, <4>1, <4>2
    <3>5. LeasesBeforeGate'
      <4> SUFFICES ASSUME NEW j \in Jobs, jobs'[j].status = "RUNNING"
                   PROVE  jobs'[j].leaseExpiresAt + RequestInterval
                            <= nextRequestAt' + LeaseDuration
        BY DEF LeasesBeforeGate
      <4>1. CASE j = g
        BY <1>0, <3>2, <3>3, <4>1
      <4>2. CASE j # g
        <5>1. /\ jobs'[j].leaseExpiresAt = jobs[j].leaseExpiresAt
              /\ jobs[j].leaseExpiresAt \in Int
              /\ jobs[j].leaseExpiresAt + RequestInterval <= now + LeaseDuration
          BY <3>4, <4>2
        <5> QED
          BY <1>0, <3>2, <5>1
      <4> QED
        BY <4>1, <4>2
    <3>6. SpacedLeases'
      <4> SUFFICES ASSUME NEW j \in Jobs, NEW m \in Jobs, j # m,
                          jobs'[j].status = "RUNNING", jobs'[m].status = "RUNNING",
                          jobs'[j].leaseExpiresAt <= jobs'[m].leaseExpiresAt
                   PROVE  jobs'[m].leaseExpiresAt >= jobs'[j].leaseExpiresAt + RequestInterval
        BY DEF SpacedLeases
      <4>1. CASE j # g /\ m # g
        BY <3>4, <4>1 DEF Spaced, SpacedLeases
      <4>2. CASE m = g
        <5>1. /\ jobs'[j].leaseExpiresAt = jobs[j].leaseExpiresAt
              /\ jobs[j].leaseExpiresAt \in Int
              /\ jobs[j].leaseExpiresAt + RequestInterval <= now + LeaseDuration
          BY <3>4, <4>2
        <5> QED
          BY <1>0, <3>3, <4>2, <5>1
      <4>3. CASE j = g
        <5>1. /\ jobs'[m].leaseExpiresAt = jobs[m].leaseExpiresAt
              /\ jobs[m].leaseExpiresAt \in Int
              /\ jobs[m].leaseExpiresAt + RequestInterval <= now + LeaseDuration
          BY <3>4, <4>3
        <5> QED
          BY <1>0, <3>3, <4>3, <5>1
      <4> QED
        BY <4>1, <4>2, <4>3
    <3> QED
      BY <3>5, <3>6 DEF Spaced
  <2> QED
    BY <2>7, <2>8
<1>3. ASSUME NEW w \in inflight, NEW row, Records(w, row)
      PROVE  Spaced'
  BY <1>0, <1>1, <1>3 DEF Records, Concludes
<1>4. ASSUME NEW j \in Jobs, NEW row, Replaces(j, row)
      PROVE  Spaced'
  <2>1. row.status # "RUNNING" /\ UNCHANGED nextRequestAt
    <3>1. jobs[j] \in JobRow
      BY <1>0
    <3> QED
      BY <1>0, <1>4, <3>1, NewColumns, ReopenColumns, DeleteColumns
         DEF Replaces, Inserts, Restarts, Removes
  <2> QED
    BY <1>0, <1>1, <1>4, <2>1 DEF Replaces
<1>5. CASE UNCHANGED <<jobs, nextRequestAt>>
  BY <1>1, <1>5
<1> QED
  BY <1>2, <1>3, <1>4, <1>5, StepKinds

(* Two leases that run at the same time were granted an interval apart,    *)
(* by whichever servers, for every route and every number of jobs.         *)
THEOREM LeasesSpaced == Spec => []SpacedLeases
<1>1. IInv /\ Spaced /\ [Next]_vars => Spaced'
  BY SpacedStep
<1>2. Spec => []IInv
  BY Inductive, PTL
<1>3. Spaced => SpacedLeases
  BY DEF Spaced
<1> QED
  BY <1>1, <1>2, <1>3, SpacedInitially, PTL DEF Spec

-----------------------------------------------------------------------------
(* Probes.                                                                 *)

(* A half-open circuit waits for the last token it drew, no other one has  *)
(* a token; a work carries tokens that were drawn, and no two the same     *)
(* probe token of one model.                                               *)
ProbeToken(c) ==
  IF c.state = "HALF_OPEN" THEN c.probeToken = c.drawn /\ c.drawn > 0
  ELSE c.probeToken = NoToken
ProbeTokens(cs) == \A m \in Models : ProbeToken(cs[m])
TokensDrawn(rows, cs, works) ==
  \A w \in works : /\ w.token <= rows[w.job].drawn
                   /\ w.permit.probeToken <= cs[w.model].drawn
IsProbe(w) == w.permit.probeToken # NoToken
ProbesDistinct(works) ==
  \A v, w \in works :
    IsProbe(v) /\ v.model = w.model /\ v.permit.probeToken = w.permit.probeToken => v = w

(* The circuit of a probe whose lease is valid waits for it. *)
Awaited(w, rows, cs) ==
  /\ cs[w.model].state = "HALF_OPEN"
  /\ cs[w.model].probeToken = w.permit.probeToken
  /\ cs[w.model].probeExpiresAt = rows[w.job].leaseExpiresAt
ProbesAwaited(rows, cs, works) ==
  \A w \in works : IsProbe(w) /\ OwnsLease(rows[w.job], w.token, now) => Awaited(w, rows, cs)

(* A circuit waits for the probe of a job whose lease ends with it; if the *)
(* work is still out, it carries the circuit's permit.                     *)
Waits(c) == c.state = "HALF_OPEN" /\ now < c.probeExpiresAt
Backs(j, m, rows, cs, works) ==
  /\ rows[j].status \in {"RUNNING", "DELETED"}
  /\ rows[j].modelId = m
  /\ rows[j].leaseExpiresAt = cs[m].probeExpiresAt
  /\ rows[j].status = "RUNNING" =>
       \A w \in works : w.job = j /\ w.token = rows[j].leaseToken
                          => w.model = m /\ w.permit = PermitOf(cs[m])
ProbesBacked(rows, cs, works) ==
  \A m \in Models : Waits(cs[m]) => \E j \in Jobs : Backs(j, m, rows, cs, works)

ProbesTracked(rows, cs, works) ==
  /\ ProbeTokens(cs)
  /\ TokensDrawn(rows, cs, works)
  /\ ProbesDistinct(works)
  /\ ProbesAwaited(rows, cs, works)
  /\ ProbesBacked(rows, cs, works)
Tracked == ProbesTracked(jobs, circuits, inflight)
TrackedTx(tx) == ProbesTracked(tx.jobs, tx.circuits, inflight \cup tx.granted)

-----------------------------------------------------------------------------
(* The columns of a circuit after each transition.                         *)

SameProbe(new, c) ==
  /\ new.state = c.state /\ new.generation = c.generation
  /\ new.probeToken = c.probeToken /\ new.probeExpiresAt = c.probeExpiresAt
  /\ new.drawn = c.drawn

(* A permit of a closed circuit changes nothing, another draws a token. *)
LEMMA AcquiredColumns ==
  ASSUME NEW c \in CircuitRow, NEW t \in Nat, c.state # "CLOSED"
  PROVE  LET new == Acquired(c, t)
         IN  /\ new.state = "HALF_OPEN" /\ new.drawn = c.drawn + 1
             /\ new.probeToken = c.drawn + 1 /\ new.probeExpiresAt = t + LeaseDuration
BY DEF Acquired, CircuitRow

(* The token of a probe without a work is handed back. *)
LEMMA AbandonedColumns ==
  ASSUME NEW c \in CircuitRow, NEW t \in Nat, c.state = "HALF_OPEN"
  PROVE  LET new == Abandon(c, PermitOf(c), t)
         IN  new.state = "OPEN" /\ new.drawn = c.drawn /\ new.probeToken = NoToken
<1>1. OwnsPermit(c, PermitOf(c))
  BY DEF OwnsPermit, PermitOf
<1> QED
  BY <1>1 DEF Abandon, ClearProbe, CircuitRow

(* An answer moves a half-open circuit only if it carries its permit. *)
LEMMA SettledColumns ==
  ASSUME NEW c \in CircuitRow, NEW t \in Nat, NEW permit \in Permit, NEW limited \in BOOLEAN
  PROVE  LET new == IF limited THEN RateLimited(c, permit, t) ELSE Responded(c, permit)
         IN  \/ SameProbe(new, c) /\ (c.state = "HALF_OPEN" => permit # PermitOf(c))
             \/ /\ new.state # "HALF_OPEN" /\ new.probeToken = NoToken /\ new.drawn = c.drawn
                /\ c.state = "HALF_OPEN" => permit.probeToken = c.probeToken
             \/ SameProbe(new, c) /\ c.state # "HALF_OPEN"
<1>1. CASE ~OwnsPermit(c, permit)
  <2>1. RateLimited(c, permit, t) = c /\ Responded(c, permit) = c
    BY <1>1 DEF RateLimited, Responded
  <2>2. c.state = "HALF_OPEN" => permit # PermitOf(c)
    BY <1>1 DEF OwnsPermit, PermitOf
  <2> QED
    BY <2>1, <2>2 DEF SameProbe
<1>2. CASE OwnsPermit(c, permit)
  <2>1. c.state = "HALF_OPEN" => permit.probeToken = c.probeToken
    BY <1>2 DEF OwnsPermit
  <2>2. ASSUME NEW n \in Nat
        PROVE  LET counted == [c EXCEPT !.consecutiveFailures = n]
               IN  /\ counted \in CircuitRow /\ SameProbe(counted, c)
                   /\ Opened(counted, t).state = "OPEN"
                   /\ Opened(counted, t).probeToken = NoToken
                   /\ Opened(counted, t).drawn = c.drawn
                   /\ Closed(counted).state = "CLOSED"
                   /\ Closed(counted).probeToken = NoToken
                   /\ Closed(counted).drawn = c.drawn
    <3> DEFINE counted == [c EXCEPT !.consecutiveFailures = n]
    <3>1. counted \in CircuitRow /\ SameProbe(counted, c)
      BY DEF CircuitRow, SameProbe
    <3> HIDE DEF counted
    <3>2. Opened(counted, t).state = "OPEN" /\ Opened(counted, t).probeToken = NoToken
          /\ Opened(counted, t).drawn = c.drawn
      BY <3>1 DEF Opened, ClearProbe, CircuitRow, SameProbe
    <3>3. Closed(counted).state = "CLOSED" /\ Closed(counted).probeToken = NoToken
          /\ Closed(counted).drawn = c.drawn
      BY <3>1 DEF Closed, ClearProbe, CircuitRow, SameProbe
    <3> QED
      BY <3>1, <3>2, <3>3 DEF counted
  <2>3. c.consecutiveFailures + 1 \in Nat /\ 0 \in Nat
    BY CircuitCounters
  <2>4. CASE limited
    <3> DEFINE counted == [c EXCEPT !.consecutiveFailures = @ + 1]
    <3>1. /\ SameProbe(counted, c)
          /\ Opened(counted, t).state = "OPEN"
          /\ Opened(counted, t).probeToken = NoToken
          /\ Opened(counted, t).drawn = c.drawn
      BY <2>2, <2>3
    <3>2. \/ RateLimited(c, permit, t) = Opened(counted, t)
          \/ RateLimited(c, permit, t) = counted /\ c.state # "HALF_OPEN"
      BY <1>2 DEF RateLimited
    <3> HIDE DEF counted
    <3> QED
      BY <2>1, <2>4, <3>1, <3>2
  <2>5. CASE ~limited
    <3> DEFINE answered == [c EXCEPT !.consecutiveFailures = 0]
    <3>1. /\ SameProbe(answered, c)
          /\ Closed(answered).state = "CLOSED"
          /\ Closed(answered).probeToken = NoToken
          /\ Closed(answered).drawn = c.drawn
      BY <2>2, <2>3
    <3>2. \/ Responded(c, permit) = Closed(answered)
          \/ Responded(c, permit) = answered /\ c.state # "HALF_OPEN"
      BY <1>2 DEF Responded
    <3> HIDE DEF answered
    <3> QED
      BY <2>1, <2>5, <3>1, <3>2
  <2> QED
    BY <2>4, <2>5
<1> QED
  BY <1>1, <1>2

-----------------------------------------------------------------------------
(* A turn of claim() keeps track of the probes.                            *)

(* What a turn finds: its job's leases were drawn, and its circuit waits   *)
(* for nobody.                                                             *)
LEMMA TurnFinds ==
  ASSUME IInv, NEW tx, NEW live, SoundTx(tx, live), TrackedTx(tx), NEW j \in Jobs,
         Turns(tx, j)
  PROVE  LET row == TurnRow(tx, j)
             m   == TurnModel(tx, j)
         IN  /\ \A i \in Jobs : /\ tx.jobs[i].drawn \in Nat
                                /\ tx.jobs[i].leaseExpiresAt \in Int
             /\ \A n \in Models : tx.circuits[n].drawn \in Nat
             /\ inflight \subseteq Work /\ ProbesTracked(tx.jobs, tx.circuits, inflight)
             /\ row.status = "RUNNING" /\ row.drawn = tx.jobs[j].drawn + 1
             /\ row.leaseToken = row.drawn /\ row.modelId = m
             /\ row.leaseExpiresAt = now + LeaseDuration /\ row.attempts > 0
             /\ CircuitEnabled => ~Waits(tx.circuits[m])
<1> DEFINE old == tx.jobs[j]
           row == TurnRow(tx, j)
           m   == TurnModel(tx, j)
           c   == tx.circuits[m]
<1>1. /\ tx.jobs \in [Jobs -> JobRow] /\ old \in JobRow /\ now \in Nat /\ m \in Models
      /\ row.attempts > 0 /\ tx.circuits \in [Models -> CircuitRow] /\ c \in CircuitRow
  BY TurnTyped
<1>2. row.status = "RUNNING" /\ row.drawn = old.drawn + 1 /\ row.leaseToken = row.drawn
      /\ row.modelId = m /\ row.leaseExpiresAt = now + LeaseDuration
  BY <1>1, LeaseColumns DEF TurnRow
<1>3. tx.granted = {} /\ RouteAdmits(tx.circuits, old)
  BY DEF Turns
<1>4. inflight \cup tx.granted = inflight
  BY <1>3
<1>5. inflight \subseteq Work /\ ProbesTracked(tx.jobs, tx.circuits, inflight)
  BY <1>4 DEF TrackedTx, IInv, TypeOK
<1>6. CircuitEnabled => ~Waits(c)
  <2>1. c.probeExpiresAt \in Int
    BY <1>1 DEF CircuitRow
  <2> QED
    BY <1>1, <1>3, <2>1 DEF RouteAdmits, Admits, AvailableAt, Waits, TurnModel
<1>7. /\ \A i \in Jobs : tx.jobs[i].drawn \in Nat /\ tx.jobs[i].leaseExpiresAt \in Int
      /\ \A n \in Models : tx.circuits[n].drawn \in Nat
  BY <1>1 DEF JobRow, CircuitRow
<1> QED
  BY <1>1, <1>2, <1>5, <1>6, <1>7

(* The circuits after a turn: the others stay; that of the route stays     *)
(* too, or drew a token.                                                   *)
LEMMA TurnCircuits ==
  ASSUME IInv, NEW tx, NEW live, SoundTx(tx, live), TrackedTx(tx), NEW j \in Jobs,
         Turns(tx, j)
  PROVE  LET m    == TurnModel(tx, j)
             c    == tx.circuits[m]
             held == Admitting(tx, j)[m]
             back == Abandoning(tx, j)[m]
             permit == TurnPermit(tx, j)
         IN  /\ m \in Models
             /\ \A n \in Models \ {m} : /\ Admitting(tx, j)[n] = tx.circuits[n]
                                        /\ Abandoning(tx, j)[n] = tx.circuits[n]
             /\ \/ /\ held = c /\ back = c /\ permit.probeToken = NoToken
                   /\ c.state = "HALF_OPEN" => ~CircuitEnabled
                \/ /\ CircuitEnabled /\ permit = PermitOf(held)
                   /\ held.state = "HALF_OPEN" /\ held.drawn = c.drawn + 1
                   /\ held.probeToken = held.drawn /\ permit.probeToken = held.drawn
                   /\ held.probeExpiresAt = now + LeaseDuration
                   /\ back.state = "OPEN" /\ back.drawn = c.drawn + 1
                   /\ back.probeToken = NoToken
<1> DEFINE m    == TurnModel(tx, j)
           c    == tx.circuits[m]
           a    == TurnCircuit(tx, j)
           left == Admitting(tx, j)
           gone == Abandoning(tx, j)
           permit == TurnPermit(tx, j)
<1>1. /\ now \in Nat /\ m \in Models /\ tx.circuits \in [Models -> CircuitRow]
      /\ c \in CircuitRow /\ a \in CircuitRow
  BY TurnTyped
<1>2. CASE ~CircuitEnabled
  <2>1. left = tx.circuits /\ gone = tx.circuits
    BY <1>2 DEF Admitting, Abandoning
  <2>2. permit.probeToken = NoToken
    BY <1>2 DEF TurnPermit, Unprotected
  <2> QED
    BY <1>1, <1>2, <2>1, <2>2
<1>3. CASE CircuitEnabled
  <2>1. /\ left = [tx.circuits EXCEPT ![m] = a] /\ permit = PermitOf(a)
        /\ gone = [left EXCEPT ![m] = Abandon(a, permit, now)]
    BY <1>3 DEF Admitting, Abandoning, TurnPermit
  <2>2. /\ left[m] = a /\ gone[m] = Abandon(a, permit, now)
        /\ \A n \in Models \ {m} : left[n] = tx.circuits[n] /\ gone[n] = tx.circuits[n]
    BY <1>1, <2>1
  <2>3. CASE c.state = "CLOSED"
    <3>1. a = c
      BY <2>3 DEF TurnCircuit, Acquired
    <3>2. Abandon(a, permit, now) = c
      BY <2>3, <3>1 DEF Abandon
    <3>3. c.probeToken = NoToken
      BY <1>1, <2>3 DEF TrackedTx, ProbesTracked, ProbeTokens, ProbeToken
    <3>4. permit.probeToken = NoToken
      BY <2>1, <3>1, <3>3 DEF PermitOf
    <3> HIDE DEF a, left, gone, permit
    <3> QED
      BY <1>1, <2>2, <2>3, <3>1, <3>2, <3>4 DEF a, left, gone, permit
  <2>4. CASE c.state # "CLOSED"
    <3>1. /\ a.state = "HALF_OPEN" /\ a.drawn = c.drawn + 1
          /\ a.probeToken = a.drawn /\ a.probeExpiresAt = now + LeaseDuration
      BY <1>1, <2>4, AcquiredColumns DEF TurnCircuit
    <3>2. LET back == Abandon(a, permit, now)
          IN  back.state = "OPEN" /\ back.drawn = a.drawn /\ back.probeToken = NoToken
      BY <1>1, <2>1, <3>1, AbandonedColumns
    <3>3. permit.probeToken = a.drawn
      BY <2>1, <3>1 DEF PermitOf
    <3> QED
      BY <1>1, <1>3, <2>1, <2>2, <3>1, <3>2, <3>3
  <2> QED
    BY <2>3, <2>4
<1> QED
  BY <1>2, <1>3

(* A turn that closes an unreadable job hands the probe it drew back. *)
LEMMA RefusalTracked ==
  ASSUME IInv, NEW tx, NEW live, SoundTx(tx, live), TrackedTx(tx), NEW j \in Jobs,
         tx.jobs[j].status = "PENDING", NEW new, Turns(tx, j), Refuses(tx, j, new)
  PROVE  TrackedTx(new)
<1> DEFINE rows == tx.jobs
           cs   == tx.circuits
           m    == TurnModel(tx, j)
           row  == RetryOrFail(TurnRow(tx, j), FALSE, now)
<1>1. /\ rows \in [Jobs -> JobRow] /\ now \in Nat /\ TurnRow(tx, j) \in JobRow
      /\ cs \in [Models -> CircuitRow]
  BY TurnTyped
<1>2. /\ \A i \in Jobs : rows[i].drawn \in Nat /\ rows[i].leaseExpiresAt \in Int
      /\ \A n \in Models : cs[n].drawn \in Nat
      /\ inflight \subseteq Work /\ ProbesTracked(rows, cs, inflight)
      /\ TurnRow(tx, j).drawn = rows[j].drawn + 1 /\ TurnRow(tx, j).attempts > 0
      /\ CircuitEnabled => ~Waits(cs[m])
  BY TurnFinds
<1>3. row.status = "FAILED" /\ row.drawn = rows[j].drawn + 1
  BY <1>1, <1>2, RetryColumns DEF SameHistory
<1>4. /\ m \in Models /\ \A n \in Models \ {m} : new.circuits[n] = cs[n]
      /\ \/ new.circuits[m] = cs[m]
         \/ /\ CircuitEnabled /\ new.circuits[m].state = "OPEN"
            /\ new.circuits[m].drawn = cs[m].drawn + 1
            /\ new.circuits[m].probeToken = NoToken
  <2> DEFINE gone == Abandoning(tx, j)
  <2>1. /\ m \in Models /\ \A n \in Models \ {m} : gone[n] = cs[n]
        /\ \/ gone[m] = cs[m]
           \/ /\ CircuitEnabled /\ gone[m].state = "OPEN"
              /\ gone[m].drawn = cs[m].drawn + 1 /\ gone[m].probeToken = NoToken
    BY TurnCircuits
  <2>2. new.circuits = gone
    BY DEF Refuses
  <2> HIDE DEF gone, m, cs
  <2> QED
    BY <2>1, <2>2
<1>5. \A i \in Jobs : new.jobs[i] = IF i = j THEN row ELSE rows[i]
  BY <1>1 DEF Refuses
<1>6. new.granted = {} /\ inflight \cup new.granted = inflight
  BY DEF Refuses
<1>7. \A w \in inflight : /\ w.job \in Jobs /\ w.model \in Models /\ w.token \in Nat
                          /\ w.permit.probeToken \in Nat
  BY <1>2 DEF Work, Permit
<1>8. rows[j].status = "PENDING"
  OBVIOUS
<1> HIDE DEF rows, cs, m, row
<1>9. ProbeTokens(new.circuits)
  BY <1>2, <1>4 DEF ProbesTracked, ProbeTokens, ProbeToken
<1>10. TokensDrawn(new.jobs, new.circuits, inflight)
  <2> SUFFICES ASSUME NEW w \in inflight
               PROVE  /\ w.token <= new.jobs[w.job].drawn
                      /\ w.permit.probeToken <= new.circuits[w.model].drawn
    BY DEF TokensDrawn
  <2>1. w.token <= rows[w.job].drawn /\ w.permit.probeToken <= cs[w.model].drawn
    BY <1>2 DEF ProbesTracked, TokensDrawn
  <2>2. w.token <= new.jobs[w.job].drawn
    BY <1>2, <1>3, <1>5, <1>7, <2>1
  <2>3. w.permit.probeToken <= new.circuits[w.model].drawn
    BY <1>2, <1>4, <1>7, <2>1
  <2> QED
    BY <2>2, <2>3
<1>11. ProbesDistinct(inflight)
  BY <1>2 DEF ProbesTracked
<1>12. ProbesAwaited(new.jobs, new.circuits, inflight)
  <2> SUFFICES ASSUME NEW w \in inflight, IsProbe(w), OwnsLease(new.jobs[w.job], w.token, now)
               PROVE  Awaited(w, new.jobs, new.circuits)
    BY DEF ProbesAwaited
  <2>1. w.job # j /\ new.jobs[w.job] = rows[w.job]
    BY <1>3, <1>5, <1>7 DEF OwnsLease
  <2>2. Awaited(w, rows, cs) /\ now < rows[w.job].leaseExpiresAt
    BY <1>2, <2>1 DEF ProbesTracked, ProbesAwaited, OwnsLease
  <2>3. Waits(cs[w.model])
    BY <2>2 DEF Awaited, Waits
  <2>4. new.circuits[w.model] = cs[w.model]
    BY <1>2, <1>4, <1>7, <2>3
  <2> QED
    BY <2>1, <2>2, <2>4 DEF Awaited
<1>13. ProbesBacked(new.jobs, new.circuits, inflight)
  <2> SUFFICES ASSUME NEW n \in Models, Waits(new.circuits[n])
               PROVE  \E i \in Jobs : Backs(i, n, new.jobs, new.circuits, inflight)
    BY DEF ProbesBacked
  <2>1. new.circuits[n] = cs[n]
    BY <1>4 DEF Waits
  <2>2. PICK i \in Jobs : Backs(i, n, rows, cs, inflight)
    BY <1>2, <2>1 DEF ProbesTracked, ProbesBacked
  <2>3. new.jobs[i] = rows[i]
    BY <1>5, <1>8, <2>2 DEF Backs
  <2> QED
    BY <2>1, <2>2, <2>3 DEF Backs
<1> QED
  BY <1>6, <1>9, <1>10, <1>11, <1>12, <1>13 DEF TrackedTx, ProbesTracked

(* A turn that hands out the job of a probe makes the circuit wait for it. *)
LEMMA GrantTracked ==
  ASSUME IInv, NEW tx, NEW live, SoundTx(tx, live), TrackedTx(tx), NEW j \in Jobs,
         tx.jobs[j].status = "PENDING", NEW new, Turns(tx, j), HandsOut(tx, j, new)
  PROVE  TrackedTx(new)
<1> DEFINE rows == tx.jobs
           cs   == tx.circuits
           m    == TurnModel(tx, j)
           row  == TurnRow(tx, j)
           work == TurnWork(tx, j)
           works == inflight \cup {work}
           held == new.circuits[m]
<1>1. rows \in [Jobs -> JobRow] /\ now \in Nat /\ cs \in [Models -> CircuitRow]
  BY TurnTyped
<1>2. /\ \A i \in Jobs : rows[i].drawn \in Nat /\ rows[i].leaseExpiresAt \in Int
      /\ \A n \in Models : cs[n].drawn \in Nat
      /\ inflight \subseteq Work /\ ProbesTracked(rows, cs, inflight)
      /\ row.status = "RUNNING" /\ row.drawn = rows[j].drawn + 1
      /\ row.leaseToken = row.drawn /\ row.modelId = m
      /\ row.leaseExpiresAt = now + LeaseDuration
      /\ CircuitEnabled => ~Waits(cs[m])
  BY TurnFinds
<1>3. /\ m \in Models /\ \A n \in Models \ {m} : new.circuits[n] = cs[n]
      /\ \/ /\ held = cs[m] /\ work.permit.probeToken = NoToken
            /\ held.state = "HALF_OPEN" => ~CircuitEnabled
         \/ /\ CircuitEnabled /\ work.permit = PermitOf(held)
            /\ held.state = "HALF_OPEN" /\ held.drawn = cs[m].drawn + 1
            /\ held.probeToken = held.drawn /\ work.permit.probeToken = held.drawn
            /\ held.probeExpiresAt = now + LeaseDuration
  <2> DEFINE left   == Admitting(tx, j)
             permit == TurnPermit(tx, j)
  <2>1. /\ m \in Models /\ \A n \in Models \ {m} : left[n] = cs[n]
        /\ \/ /\ left[m] = cs[m] /\ permit.probeToken = NoToken
              /\ cs[m].state = "HALF_OPEN" => ~CircuitEnabled
           \/ /\ CircuitEnabled /\ permit = PermitOf(left[m])
              /\ left[m].state = "HALF_OPEN" /\ left[m].drawn = cs[m].drawn + 1
              /\ left[m].probeToken = left[m].drawn /\ permit.probeToken = left[m].drawn
              /\ left[m].probeExpiresAt = now + LeaseDuration
    BY TurnCircuits
  <2>2. work.permit = permit /\ new.circuits = left
    BY DEF TurnWork, HandsOut
  <2> HIDE DEF left, permit, m, cs, work
  <2> QED
    BY <2>1, <2>2
<1>4. \A i \in Jobs : new.jobs[i] = IF i = j THEN row ELSE rows[i]
  BY <1>1 DEF HandsOut
<1>5. inflight \cup new.granted = works
  BY DEF HandsOut
<1>6. work.job = j /\ work.token = row.leaseToken /\ work.model = m
  BY DEF TurnWork
<1>7. \A w \in inflight : /\ w.job \in Jobs /\ w.model \in Models /\ w.token \in Nat
                          /\ w.permit.probeToken \in Nat
  BY <1>2 DEF Work, Permit
<1>8. rows[j].status = "PENDING"
  OBVIOUS
<1>9. \A w \in inflight : w.token <= rows[w.job].drawn
                          /\ w.permit.probeToken <= cs[w.model].drawn
  BY <1>2 DEF ProbesTracked, TokensDrawn
<1>10. NoToken = 0
  BY DEF NoToken
<1> HIDE DEF rows, cs, m, row, work, works, held
<1>11. ProbeTokens(new.circuits)
  <2> SUFFICES ASSUME NEW n \in Models PROVE ProbeToken(new.circuits[n])
    BY DEF ProbeTokens
  <2>1. CASE new.circuits[n] = cs[n]
    BY <1>2, <2>1 DEF ProbesTracked, ProbeTokens
  <2>2. CASE new.circuits[n] # cs[n]
    BY <1>2, <1>3, <2>2 DEF ProbeToken, held
  <2> QED
    BY <2>1, <2>2
<1>12. TokensDrawn(new.jobs, new.circuits, works)
  <2> SUFFICES ASSUME NEW w \in works
               PROVE  /\ w.token <= new.jobs[w.job].drawn
                      /\ w.permit.probeToken <= new.circuits[w.model].drawn
    BY DEF TokensDrawn
  <2>1. CASE w \in inflight
    <3>1. w.token <= new.jobs[w.job].drawn
      BY <1>2, <1>4, <1>7, <1>9, <2>1
    <3>2. w.permit.probeToken <= new.circuits[w.model].drawn
      BY <1>2, <1>3, <1>7, <1>9, <2>1 DEF held
    <3> QED
      BY <3>1, <3>2
  <2>2. CASE w = work
    <3>1. w.token <= new.jobs[w.job].drawn
      BY <1>2, <1>4, <1>6, <2>2
    <3>2. w.permit.probeToken <= new.circuits[w.model].drawn
      BY <1>2, <1>3, <1>6, <1>10, <2>2 DEF held
    <3> QED
      BY <3>1, <3>2
  <2> QED
    BY <2>1, <2>2 DEF works
<1>13. ASSUME NEW v \in inflight, IsProbe(work), work.model = v.model
       PROVE  v.permit.probeToken # work.permit.probeToken
  BY <1>2, <1>3, <1>6, <1>7, <1>9, <1>13 DEF IsProbe
<1>14. ProbesDistinct(works)
  <2> SUFFICES ASSUME NEW v \in works, NEW w \in works, IsProbe(v), v.model = w.model,
                      w.permit.probeToken = v.permit.probeToken
               PROVE  v = w
    BY DEF ProbesDistinct
  <2>1. IsProbe(w)
    BY DEF IsProbe
  <2>2. CASE v \in inflight /\ w \in inflight
    BY <1>2, <2>2 DEF ProbesTracked, ProbesDistinct
  <2>3. CASE v = work \/ w = work
    BY <1>13, <2>1, <2>3 DEF works
  <2> QED
    BY <2>2, <2>3 DEF works
<1>15. ProbesAwaited(new.jobs, new.circuits, works)
  <2> SUFFICES ASSUME NEW w \in works, IsProbe(w), OwnsLease(new.jobs[w.job], w.token, now)
               PROVE  Awaited(w, new.jobs, new.circuits)
    BY DEF ProbesAwaited
  <2>1. CASE w = work
    BY <1>2, <1>3, <1>4, <1>6, <2>1 DEF Awaited, IsProbe, held
  <2>2. CASE w \in inflight
    <3>1. w.job # j /\ new.jobs[w.job] = rows[w.job]
      BY <1>2, <1>4, <1>7, <1>9, <2>2 DEF OwnsLease
    <3>2. Awaited(w, rows, cs) /\ now < rows[w.job].leaseExpiresAt
      BY <1>2, <2>2, <3>1 DEF ProbesTracked, ProbesAwaited, OwnsLease
    <3>3. Waits(cs[w.model])
      BY <3>2 DEF Awaited, Waits
    <3>4. new.circuits[w.model] = cs[w.model]
      BY <1>2, <1>3, <1>7, <2>2, <3>3 DEF held
    <3> QED
      BY <3>1, <3>2, <3>4 DEF Awaited
  <2> QED
    BY <2>1, <2>2 DEF works
<1>16. ProbesBacked(new.jobs, new.circuits, works)
  <2> SUFFICES ASSUME NEW n \in Models, Waits(new.circuits[n])
               PROVE  \E i \in Jobs : Backs(i, n, new.jobs, new.circuits, works)
    BY DEF ProbesBacked
  <2>1. CASE new.circuits[n] = cs[n]
    <3>1. PICK i \in Jobs : Backs(i, n, rows, cs, inflight)
      BY <1>2, <2>1 DEF ProbesTracked, ProbesBacked
    <3>2. i # j /\ new.jobs[i] = rows[i]
      BY <1>4, <1>8, <3>1 DEF Backs
    <3> QED
      BY <1>6, <2>1, <3>1, <3>2 DEF Backs, works
  <2>2. CASE new.circuits[n] # cs[n]
    <3>1. n = m /\ work.permit = PermitOf(held) /\ held.probeExpiresAt = now + LeaseDuration
      BY <1>3, <2>2 DEF held
    <3>2. new.jobs[j] = row
      BY <1>4
    <3>3. ASSUME NEW w \in works, w.job = j, w.token = row.leaseToken
          PROVE  w = work
      BY <1>2, <1>7, <1>9, <3>3 DEF works
    <3>4. Backs(j, m, new.jobs, new.circuits, works)
      BY <1>2, <1>6, <3>1, <3>2, <3>3 DEF Backs, held
    <3> QED
      BY <3>1, <3>4
  <2> QED
    BY <2>1, <2>2
<1> QED
  BY <1>5, <1>11, <1>12, <1>14, <1>15, <1>16 DEF TrackedTx, ProbesTracked

LEMMA TurnTracked ==
  ASSUME IInv, NEW tx, NEW live, SoundTx(tx, live), TrackedTx(tx),
         NEW j \in Jobs \cup {NoJob}, j # NoJob => tx.jobs[j].status = "PENDING"
  PROVE  TrackedTx(Try(tx, j))
<1> DEFINE new == Try(tx, j)
<1>1. CASE new = tx
  BY <1>1
<1>2. CASE Turns(tx, j) /\ (HandsOut(tx, j, new) \/ Refuses(tx, j, new))
  <2>1. j \in Jobs /\ tx.jobs[j].status = "PENDING"
    BY <1>2, JobsAssumption DEF Turns
  <2>2. CASE HandsOut(tx, j, new)
    BY <1>2, <2>1, <2>2, GrantTracked
  <2>3. CASE Refuses(tx, j, new)
    BY <1>2, <2>1, <2>3, RefusalTracked
  <2> QED
    BY <1>2, <2>2, <2>3
<1> QED
  BY <1>1, <1>2, TurnKinds

-----------------------------------------------------------------------------
(* Every step keeps track of the probes.                                   *)

LEMMA TrackedInitially == Init => Tracked
<1> SUFFICES ASSUME Init PROVE Tracked
  OBVIOUS
<1>1. inflight = {} /\ circuits = [m \in Models |-> NewCircuit]
  BY DEF Init
<1>2. NewCircuit.state = "CLOSED" /\ NewCircuit.probeToken = NoToken
  BY DEF NewCircuit
<1> QED
  BY <1>1, <1>2 DEF Tracked, ProbesTracked, ProbeTokens, ProbeToken, TokensDrawn,
     ProbesDistinct, ProbesAwaited, ProbesBacked, Waits

(* Recovery takes no lease that still runs. *)
LEMMA RecoveryTracked ==
  ASSUME IInv, Tracked, NEW page \in RecoveryPages
  PROVE  TrackedTx(Started(page))
<1> DEFINE rows == Recovered(page)
<1>1. jobs \in [Jobs -> JobRow] /\ now \in Nat /\ inflight \subseteq Work
  BY RowsSound DEF IInv, TypeOK
<1>2. \A j \in Jobs : /\ rows[j].drawn = jobs[j].drawn
                      /\ \/ rows[j] = jobs[j]
                         \/ /\ rows[j].status # "RUNNING" /\ jobs[j].status = "RUNNING"
                            /\ jobs[j].leaseExpiresAt <= now
  <2> SUFFICES ASSUME NEW j \in Jobs
               PROVE  /\ rows[j].drawn = jobs[j].drawn
                      /\ \/ rows[j] = jobs[j]
                         \/ /\ rows[j].status # "RUNNING" /\ jobs[j].status = "RUNNING"
                            /\ jobs[j].leaseExpiresAt <= now
    OBVIOUS
  <2>1. CASE rows[j] = jobs[j]
    BY <2>1
  <2>2. CASE rows[j] # jobs[j]
    <3>1. /\ j \in Expired /\ rows[j].status \in {"PENDING", "FAILED"}
          /\ rows[j].drawn = jobs[j].drawn
      BY <2>2, RecoveredColumns DEF SameHistory
    <3> QED
      BY <3>1 DEF Expired
  <2> QED
    BY <2>1, <2>2
<1>3. \A w \in inflight : w.job \in Jobs /\ w.model \in Models
  BY <1>1 DEF Work
<1>4. /\ Started(page).jobs = rows /\ Started(page).circuits = circuits
      /\ inflight \cup Started(page).granted = inflight
  BY DEF Started
<1> HIDE DEF rows
<1>5. TokensDrawn(rows, circuits, inflight)
  BY <1>2, <1>3 DEF Tracked, ProbesTracked, TokensDrawn
<1>6. ProbesAwaited(rows, circuits, inflight)
  <2> SUFFICES ASSUME NEW w \in inflight, IsProbe(w), OwnsLease(rows[w.job], w.token, now)
               PROVE  Awaited(w, rows, circuits)
    BY DEF ProbesAwaited
  <2>1. rows[w.job] = jobs[w.job]
    BY <1>2, <1>3 DEF OwnsLease
  <2>2. Awaited(w, jobs, circuits)
    BY <2>1 DEF Tracked, ProbesTracked, ProbesAwaited
  <2> QED
    BY <2>1, <2>2 DEF Awaited
<1>7. ProbesBacked(rows, circuits, inflight)
  <2> SUFFICES ASSUME NEW m \in Models, Waits(circuits[m])
               PROVE  \E j \in Jobs : Backs(j, m, rows, circuits, inflight)
    BY DEF ProbesBacked
  <2>1. PICK j \in Jobs : Backs(j, m, jobs, circuits, inflight)
    BY DEF Tracked, ProbesTracked, ProbesBacked
  <2>2. jobs[j].leaseExpiresAt = circuits[m].probeExpiresAt /\ now < circuits[m].probeExpiresAt
    BY <2>1 DEF Backs, Waits
  <2>3. circuits[m].probeExpiresAt \in Int
    BY DEF IInv, TypeOK, CircuitRow
  <2>4. rows[j] = jobs[j]
    BY <1>1, <1>2, <2>2, <2>3
  <2> QED
    BY <2>1, <2>4 DEF Backs
<1> QED
  BY <1>4, <1>5, <1>6, <1>7 DEF Tracked, TrackedTx, ProbesTracked

LEMMA ClaimTracked ==
  ASSUME IInv, Tracked, Claim
  PROVE  Tracked'
<1>1. PICK page \in RecoveryPages, i \in Jobs \cup {NoJob}, k \in Jobs \cup {NoJob} :
        /\ i # NoJob => Recovered(page)[i].status = "PENDING"
        /\ k # NoJob => Recovered(page)[k].status = "PENDING" /\ i # k
        /\ Commit(Try(Try(Started(page), i), k))
  BY ClaimTurns
<1> DEFINE tx == Started(page)
           tx1 == Try(tx, i)
           tx2 == Try(tx1, k)
<1>2. /\ SoundTx(tx, Live(jobs)) /\ TrackedTx(tx)
      /\ i # NoJob => tx.jobs[i].status = "PENDING"
      /\ k # NoJob => tx.jobs[k].status = "PENDING" /\ i # k
  BY <1>1, RecoveredSound, RecoveryTracked DEF Started
<1>3. Commit(tx2)
  BY <1>1
<1> HIDE DEF tx
<1>4. SoundTx(tx1, Live(jobs)) /\ TrackedTx(tx1)
  BY <1>2, TrySound, TurnTracked
<1>5. k # NoJob => tx1.jobs[k].status = "PENDING"
  BY <1>2, TurnElsewhere
<1> HIDE DEF tx1
<1>6. TrackedTx(tx2)
  BY <1>4, <1>5, TurnTracked
<1> HIDE DEF tx2
<1>7. /\ jobs' = tx2.jobs /\ circuits' = tx2.circuits /\ now' = now
      /\ inflight' = inflight \cup tx2.granted
  BY <1>3 DEF Commit, SaveJobs
<1> QED
  BY <1>6, <1>7 DEF TrackedTx, Tracked, ProbesTracked, ProbeTokens, ProbeToken, TokensDrawn,
     ProbesDistinct, ProbesAwaited, ProbesBacked, Waits, Awaited, Backs, OwnsLease

(* The answer of a job that is no probe leaves the circuit waiting. *)
LEMMA AnswerTracked ==
  ASSUME IInv, Tracked, NEW w \in inflight, NEW row, Records(w, row)
  PROVE  Tracked'
<1> DEFINE m == w.model
           c == circuits[m]
           new == circuits'[m]
<1>1. /\ jobs \in [Jobs -> JobRow] /\ now \in Nat /\ now' = now /\ inflight \subseteq Work
      /\ circuits \in [Models -> CircuitRow]
  BY RowsSound DEF IInv, TypeOK, Records
<1>2. /\ w.job \in Jobs /\ m \in Models /\ w.permit \in Permit /\ c \in CircuitRow
      /\ Holds(w) /\ inflight' = inflight \ {w}
  BY <1>1 DEF Records
<1>3. /\ row.status # "RUNNING" /\ row.drawn = jobs[w.job].drawn
      /\ \A j \in Jobs : jobs'[j] = IF j = w.job THEN row ELSE jobs[j]
  BY <1>1 DEF Records, Concludes, SameHistory
<1>4. /\ \A n \in Models \ {m} : circuits'[n] = circuits[n]
      /\ \/ SameProbe(new, c) /\ (c.state = "HALF_OPEN" => w.permit # PermitOf(c))
         \/ /\ new.state # "HALF_OPEN" /\ new.probeToken = NoToken /\ new.drawn = c.drawn
            /\ c.state = "HALF_OPEN" => w.permit.probeToken = c.probeToken
         \/ SameProbe(new, c) /\ c.state # "HALF_OPEN"
  <2>1. PICK limited \in BOOLEAN : circuits' = Observed(w, limited)
    BY DEF Records
  <2>2. CASE w.permit.generation < 0
    <3>1. circuits' = circuits
      BY <2>1, <2>2 DEF Observed
    <3>2. w.permit # PermitOf(c)
      BY <1>2, <2>2 DEF PermitOf, CircuitRow
    <3> QED
      BY <3>1, <3>2 DEF SameProbe
  <2>3. CASE ~(w.permit.generation < 0)
    <3> DEFINE seen == IF limited THEN RateLimited(c, w.permit, now) ELSE Responded(c, w.permit)
    <3>1. circuits' = [circuits EXCEPT ![m] = seen]
      BY <2>1, <2>3 DEF Observed
    <3>2. \/ SameProbe(seen, c) /\ (c.state = "HALF_OPEN" => w.permit # PermitOf(c))
          \/ /\ seen.state # "HALF_OPEN" /\ seen.probeToken = NoToken /\ seen.drawn = c.drawn
             /\ c.state = "HALF_OPEN" => w.permit.probeToken = c.probeToken
          \/ SameProbe(seen, c) /\ c.state # "HALF_OPEN"
      BY <1>1, <1>2, SettledColumns
    <3> HIDE DEF seen
    <3>3. new = seen /\ \A n \in Models \ {m} : circuits'[n] = circuits[n]
      BY <1>1, <1>2, <3>1
    <3> HIDE DEF new, c, m
    <3> QED
      BY <3>2, <3>3
  <2> QED
    BY <2>2, <2>3
<1>5. \A v \in inflight : v.job \in Jobs /\ v.model \in Models
  BY <1>1 DEF Work
<1>6. \A n \in Models : circuits'[n].drawn = circuits[n].drawn
  BY <1>4 DEF SameProbe
<1> HIDE DEF m, c, new
<1>7. ProbeTokens(circuits')
  <2> SUFFICES ASSUME NEW n \in Models PROVE ProbeToken(circuits'[n])
    BY DEF ProbeTokens
  <2>1. ProbeToken(circuits[n])
    BY DEF Tracked, ProbesTracked, ProbeTokens
  <2> QED
    BY <1>4, <2>1 DEF ProbeToken, SameProbe, new, c
<1>8. TokensDrawn(jobs', circuits', inflight')
  BY <1>2, <1>3, <1>5, <1>6 DEF Tracked, ProbesTracked, TokensDrawn
<1>9. ProbesDistinct(inflight')
  BY <1>2 DEF Tracked, ProbesTracked, ProbesDistinct
<1>10. ASSUME NEW v \in inflight', IsProbe(v), OwnsLease(jobs'[v.job], v.token, now')
       PROVE  Awaited(v, jobs', circuits')
  <2>1. v \in inflight /\ v # w /\ v.job \in Jobs /\ v.model \in Models
    BY <1>2, <1>5
  <2>2. v.job # w.job /\ jobs'[v.job] = jobs[v.job]
    BY <1>3, <1>10, <2>1 DEF OwnsLease
  <2>3. Awaited(v, jobs, circuits)
    BY <1>1, <1>10, <2>1, <2>2 DEF Tracked, ProbesTracked, ProbesAwaited
  <2>4. SameProbe(circuits'[v.model], circuits[v.model])
    <3>1. CASE v.model # m
      BY <1>4, <2>1, <3>1 DEF SameProbe
    <3>2. CASE v.model = m
      <4>1. c.state = "HALF_OPEN" /\ c.probeToken = v.permit.probeToken
        BY <2>3, <3>2 DEF Awaited, c
      <4>2. w.permit.probeToken # v.permit.probeToken
        BY <1>10, <2>1, <3>2 DEF Tracked, ProbesTracked, ProbesDistinct, m
      <4> QED
        BY <1>4, <3>2, <4>1, <4>2 DEF new, c
    <3> QED
      BY <3>1, <3>2
  <2> QED
    BY <2>2, <2>3, <2>4 DEF Awaited, SameProbe
<1>11. ASSUME NEW n \in Models, circuits'[n].state = "HALF_OPEN",
              now' < circuits'[n].probeExpiresAt
       PROVE  \E j \in Jobs : Backs(j, n, jobs', circuits', inflight')
  <2>1. /\ SameProbe(circuits'[n], circuits[n])
        /\ n = m => w.permit # PermitOf(circuits[n])
    BY <1>4, <1>11 DEF SameProbe, new, c
  <2>2. Waits(circuits[n])
    BY <1>1, <1>11, <2>1 DEF Waits, SameProbe
  <2>3. PICK j \in Jobs : Backs(j, n, jobs, circuits, inflight)
    BY <2>2 DEF Tracked, ProbesTracked, ProbesBacked
  <2>4. j # w.job
    <3>1. /\ jobs[w.job].status = "RUNNING" /\ jobs[w.job].leaseToken = w.token
      BY <1>2 DEF Holds, OwnsLease
    <3> QED
      BY <2>1, <2>3, <3>1 DEF Backs, m
  <2>5. jobs'[j] = jobs[j] /\ PermitOf(circuits'[n]) = PermitOf(circuits[n])
    BY <1>3, <2>1, <2>4 DEF PermitOf, SameProbe
  <2>6. Backs(j, n, jobs', circuits', inflight')
    BY <1>2, <2>1, <2>3, <2>5 DEF Backs, SameProbe
  <2> QED
    BY <2>6
<1> QED
  BY <1>7, <1>8, <1>9, <1>10, <1>11
     DEF Tracked, ProbesTracked, ProbeTokens, TokensDrawn, ProbesDistinct, ProbesAwaited,
         ProbesBacked, Waits, ProbeToken

(* A row that is inserted, reopened or removed draws no token. *)
LEMMA ReplacementTracked ==
  ASSUME IInv, Generations, Tracked, NEW j \in Jobs, NEW row, Replaces(j, row)
  PROVE  Tracked'
<1> DEFINE old == jobs[j]
<1>1. /\ jobs \in [Jobs -> JobRow] /\ now \in Nat /\ old \in JobRow /\ inflight \subseteq Work
      /\ UNCHANGED <<now, circuits, inflight>> /\ jobs' = [jobs EXCEPT ![j] = row]
  BY RowsSound DEF IInv, TypeOK, Replaces, Inserts, Restarts, Removes
<1>2. /\ row.drawn = old.drawn /\ row.status # "RUNNING"
      /\ \/ old.status \notin {"RUNNING", "DELETED"}
         \/ /\ row.status = "DELETED" /\ row.modelId = old.modelId
            /\ row.leaseExpiresAt = old.leaseExpiresAt
  <2>1. CASE Inserts(j, row)
    <3>1. old = NoRow /\ old.status = "NONE"
      BY <2>1 DEF Inserts, Generations, Uninserted
    <3>2. row.status \in {"PENDING", "SKIPPED"} /\ SameHistory(row, NoRow)
      BY <1>1, <2>1, NewColumns DEF Inserts
    <3> QED
      BY <3>1, <3>2 DEF SameHistory
  <2>2. CASE Restarts(j, row)
    BY <1>1, <2>2, ReopenColumns DEF Restarts
  <2>3. CASE Removes(j, row)
    <3>1. row = [old EXCEPT !.status = "DELETED"]
      BY <2>3 DEF Removes
    <3> HIDE DEF old
    <3> QED
      BY <1>1, <3>1, DeleteColumns DEF SameHistory
  <2> QED
    BY <2>1, <2>2, <2>3 DEF Replaces
<1>3. \A i \in Jobs : jobs'[i] = IF i = j THEN row ELSE jobs[i]
  BY <1>1
<1>4. \A w \in inflight : w.job \in Jobs /\ w.model \in Models
  BY <1>1 DEF Work
<1> HIDE DEF old
<1>5. TokensDrawn(jobs', circuits', inflight')
  BY <1>1, <1>2, <1>3, <1>4 DEF Tracked, ProbesTracked, TokensDrawn, old
<1>6. ASSUME NEW w \in inflight, IsProbe(w), OwnsLease(jobs'[w.job], w.token, now)
      PROVE  Awaited(w, jobs', circuits')
  <2>1. jobs'[w.job] = jobs[w.job]
    BY <1>2, <1>3, <1>4, <1>6 DEF OwnsLease
  <2>2. Awaited(w, jobs, circuits)
    BY <1>6, <2>1 DEF Tracked, ProbesTracked, ProbesAwaited
  <2> QED
    BY <1>1, <2>1, <2>2 DEF Awaited
<1>7. ASSUME NEW m \in Models, Waits(circuits[m])
      PROVE  \E i \in Jobs : Backs(i, m, jobs', circuits', inflight')
  <2>1. PICK i \in Jobs : Backs(i, m, jobs, circuits, inflight)
    BY <1>7 DEF Tracked, ProbesTracked, ProbesBacked
  <2>2. Backs(i, m, jobs', circuits', inflight')
    <3>1. CASE i # j
      BY <1>1, <1>3, <2>1, <3>1 DEF Backs
    <3>2. CASE i = j
      BY <1>1, <1>2, <1>3, <2>1, <3>2 DEF Backs, old
    <3> QED
      BY <3>1, <3>2
  <2> QED
    BY <2>2
<1> QED
  BY <1>1, <1>5, <1>6, <1>7
     DEF Tracked, ProbesTracked, ProbeTokens, TokensDrawn, ProbesDistinct, ProbesAwaited,
         ProbesBacked, Waits

(* An answer that is lost, and the clock, take no probe away. *)
LEMMA WaitTracked ==
  ASSUME IInv, Tracked, UNCHANGED <<jobs, circuits>>, inflight' \subseteq inflight,
         now' \in {now, now + 1}
  PROVE  Tracked'
<1>1. /\ now \in Nat /\ \A j \in Jobs : jobs[j].leaseExpiresAt \in Int
      /\ \A m \in Models : circuits[m].probeExpiresAt \in Int
      /\ inflight \subseteq Work
  BY DEF IInv, TypeOK, JobRow, CircuitRow
<1>2. ASSUME NEW w \in inflight', IsProbe(w), OwnsLease(jobs'[w.job], w.token, now')
      PROVE  Awaited(w, jobs', circuits')
  <2>1. w \in inflight /\ w.job \in Jobs
    BY <1>1 DEF Work
  <2>2. OwnsLease(jobs[w.job], w.token, now)
    BY <1>1, <1>2, <2>1 DEF OwnsLease
  <2>3. Awaited(w, jobs, circuits)
    BY <1>2, <2>1, <2>2 DEF Tracked, ProbesTracked, ProbesAwaited
  <2> QED
    BY <2>3 DEF Awaited
<1>3. ASSUME NEW m \in Models, circuits'[m].state = "HALF_OPEN",
             now' < circuits'[m].probeExpiresAt
      PROVE  \E j \in Jobs : Backs(j, m, jobs', circuits', inflight')
  <2>1. Waits(circuits[m])
    BY <1>1, <1>3 DEF Waits
  <2>2. PICK j \in Jobs : Backs(j, m, jobs, circuits, inflight)
    BY <2>1 DEF Tracked, ProbesTracked, ProbesBacked
  <2>3. Backs(j, m, jobs', circuits', inflight')
    BY <2>2 DEF Backs
  <2> QED
    BY <2>3
<1> QED
  BY <1>2, <1>3 DEF Tracked, ProbesTracked, ProbeTokens, TokensDrawn, ProbesDistinct,
     ProbesAwaited, ProbesBacked, Waits

LEMMA TrackedStep ==
  ASSUME IInv, Generations, Tracked, [Next]_vars
  PROVE  Tracked'
BY StepKinds, ClaimTracked, AnswerTracked, ReplacementTracked, WaitTracked

LEMMA TrackedAlways == Spec => []Tracked
<1>1. /\ IInv /\ Generations /\ [Next]_vars => Generations'
      /\ IInv /\ Generations /\ Tracked /\ [Next]_vars => Tracked'
  BY GenerationsStep, TrackedStep
<1>2. Spec => []IInv
  BY Inductive, PTL
<1> QED
  BY <1>1, <1>2, GenerationsInitially, TrackedInitially, PTL DEF Spec

(* A circuit that waits for its probe has a job whose lease ends with the  *)
(* wait: whatever becomes of answers, leases and servers, no model stays   *)
(* shut for a probe that nobody sends (PdfAiModelCircuit.acquire).         *)
THEOREM ProbesAreBacked == Spec => []ProbeBacked
<1>1. Tracked => ProbeBacked
  BY DEF Tracked, ProbesTracked, ProbesBacked, Waits, Backs, ProbeBacked
<1> QED
  BY <1>1, TrackedAlways, PTL

(* A model that refused for quota is tested by one worker at a time.       *)
THEOREM ProbesAreSingle == Spec => []OneProbeInFlight
<1>1. Tracked => OneProbeInFlight
  <2> SUFFICES ASSUME Tracked, NEW m \in Models
               PROVE  Cardinality(Probes(m)) <= 1
    BY DEF OneProbeInFlight
  <2>1. ASSUME NEW v \in Probes(m), NEW w \in Probes(m)
        PROVE  v = w
    <3>1. /\ v \in inflight /\ IsProbe(v) /\ v.model = m /\ OwnsLease(jobs[v.job], v.token, now)
          /\ w \in inflight /\ IsProbe(w) /\ w.model = m /\ OwnsLease(jobs[w.job], w.token, now)
      BY DEF Probes, IsProbe, Holds
    <3>2. /\ circuits[m].probeToken = v.permit.probeToken
          /\ circuits[m].probeToken = w.permit.probeToken
      BY <3>1 DEF Tracked, ProbesTracked, ProbesAwaited, Awaited
    <3> QED
      BY <3>1, <3>2 DEF Tracked, ProbesTracked, ProbesDistinct
  <2>2. CASE Probes(m) = {}
    BY <2>2, FS_EmptySet
  <2>3. CASE Probes(m) # {}
    <3>1. PICK v \in Probes(m) : TRUE
      BY <2>3
    <3>2. Probes(m) = {v}
      BY <2>1
    <3>3. Cardinality({v}) = 1
      BY FS_Singleton
    <3> QED
      BY <3>2, <3>3
  <2> QED
    BY <2>2, <2>3
<1> QED
  BY <1>1, TrackedAlways, PTL

-----------------------------------------------------------------------------
(* Work conservation.                                                      *)

(* A turn for a pending job of an admitting route moves its row on. *)
LEMMA TurnProgresses ==
  ASSUME IInv, NEW tx, NEW live, SoundTx(tx, live), NEW j \in Jobs,
         Turns(tx, j), tx.jobs[j].status = "PENDING"
  PROVE  Try(tx, j).jobs[j] # tx.jobs[j]
<1> DEFINE new == Try(tx, j)
           row == TurnRow(tx, j)
           failed == RetryOrFail(row, FALSE, now)
<1>1. /\ tx.jobs \in [Jobs -> JobRow] /\ tx.jobs[j] \in JobRow /\ now \in Nat
      /\ TurnModel(tx, j) \in Models /\ row \in JobRow /\ row.attempts > 0
  BY TurnTyped
<1>2. row.status = "RUNNING"
  BY <1>1, LeaseColumns DEF TurnRow
<1> HIDE DEF row
<1>3. failed.status = "FAILED"
  BY <1>1, RetryColumns
<1> HIDE DEF failed
<1>4. new.jobs[j] \in {row, failed}
  <2>1. HandsOut(tx, j, new) \/ Refuses(tx, j, new)
    BY TurnKinds
  <2>2. new.jobs = [tx.jobs EXCEPT ![j] = row] \/ new.jobs = [tx.jobs EXCEPT ![j] = failed]
    BY <2>1 DEF HandsOut, Refuses, row, failed
  <2> HIDE DEF new
  <2> QED
    BY <1>1, <2>2
<1> QED
  BY <1>2, <1>3, <1>4

(* With an open gate and a free slot, a due job whose model admits calls   *)
(* is never held up by the head of the other route: the claim commits and  *)
(* moves a row on.  The stored payloads are taken to be readable, which is *)
(* what an actor's job needs for its failure to be recorded.               *)
THEOREM ClaimsConserve ==
  ASSUME "payload" \notin Damages
  PROVE  Spec => []WorkConserving
<1>1. IInv => WorkConserving
  <2> SUFFICES ASSUME IInv, SomeJobServable, NEW page \in RecoveryPages,
                      NEW q \in Candidates(Recovered(page))
               PROVE  ClaimProgresses(page, q)
    BY DEF WorkConserving
  <2> DEFINE rows == Recovered(page)
             tx   == Started(page)
             tx1  == Try(tx, q[1])
             tx2  == Try(tx1, q[2])
  <2>1. ~HandlerThrows(tx2.jobs)
    BY DEF HandlerThrows, IInv, TypeOK
  <2>2. SoundTx(tx, Live(jobs)) /\ tx.jobs = rows /\ tx.circuits = circuits /\ tx.granted = {}
    BY RecoveredSound DEF Started
  <2>3. PICK s \in Jobs : /\ jobs[s].status = "PENDING" /\ jobs[s].nextAttemptAt <= now
                          /\ jobs[s].escalationPending \in BOOLEAN
                          /\ RouteAdmits(circuits, jobs[s])
    BY DEF SomeJobServable, Eligible
  <2> DEFINE e == jobs[s].escalationPending
  <2>4. s \in Eligible(rows, e)
    <3>1. rows[s] = jobs[s]
      BY <2>3, RecoveredColumns DEF Expired
    <3> QED
      BY <2>3, <3>1 DEF Eligible
  <2>5. \A f \in BOOLEAN : \A i \in Heads(rows, f) :
          \/ i = NoJob
          \/ i \in Jobs /\ rows[i].status = "PENDING" /\ rows[i].escalationPending = f
    BY DEF Heads, Eligible
  <2>6. NoJob \notin Heads(rows, e)
    BY <2>4, JobsAssumption DEF Heads, Eligible
  <2>7. PICK f \in BOOLEAN, g \in BOOLEAN :
          f # g /\ q[1] \in Heads(rows, f) /\ q[2] \in Heads(rows, g)
    BY DEF Candidates
  <2>8. /\ q[1] \in Jobs \cup {NoJob} /\ q[2] \in Jobs \cup {NoJob}
        /\ q[1] # NoJob => rows[q[1]].status = "PENDING" /\ rows[q[1]].escalationPending = f
        /\ q[2] # NoJob => rows[q[2]].status = "PENDING" /\ rows[q[2]].escalationPending = g
    BY <2>5, <2>7
  <2>9. \A i \in Jobs : rows[i].escalationPending = e => RouteAdmits(tx.circuits, tx.jobs[i])
    BY <2>2, <2>3 DEF RouteAdmits, RouteOf
  <2> HIDE DEF rows, tx, e
  <2>10. /\ SoundTx(tx1, Live(jobs))
         /\ \A i \in Jobs : i # q[1] => tx1.jobs[i] = tx.jobs[i]
         /\ \A i \in Jobs : i # q[2] => tx2.jobs[i] = tx1.jobs[i]
    <3>1. SoundTx(tx1, Live(jobs)) /\ \A i \in Jobs : i # q[1] => tx1.jobs[i] = tx.jobs[i]
      BY <2>2, <2>8, TrySound, TurnElsewhere
    <3> HIDE DEF tx1
    <3> QED
      BY <2>8, <3>1, TurnElsewhere
  <2>11. CASE q[1] # NoJob /\ Turns(tx, q[1])
    <3>1. q[1] \in Jobs /\ tx.jobs[q[1]].status = "PENDING" /\ q[2] # q[1]
      BY <2>2, <2>7, <2>8, <2>11
    <3>2. tx1.jobs[q[1]] # tx.jobs[q[1]]
      BY <2>2, <2>11, <3>1, TurnProgresses
    <3> QED
      BY <2>1, <2>2, <2>10, <3>1, <3>2 DEF ClaimProgresses, rows, tx
  <2>12. CASE ~(q[1] # NoJob /\ Turns(tx, q[1]))
    <3>0. ~Turns(tx, q[1])
      BY <2>12, JobsAssumption DEF Turns
    <3>1. tx1 = tx
      BY <2>8, <3>0, TurnKinds
    <3>2. q[1] \notin Jobs \/ rows[q[1]].escalationPending # e
      BY <2>2, <2>9, <2>12, JobsAssumption DEF Turns
    <3>3. q[2] \in Jobs /\ g = e
      <4>1. f # e
        BY <2>5, <2>6, <2>7, <3>2
      <4>2. e \in BOOLEAN
        BY <2>3 DEF e
      <4> QED
        BY <2>6, <2>7, <2>8, <4>1, <4>2
    <3>4. tx.jobs[q[2]].status = "PENDING" /\ Turns(tx, q[2])
      BY <2>2, <2>8, <2>9, <3>3, JobsAssumption DEF Turns
    <3>5. tx2.jobs[q[2]] # tx.jobs[q[2]]
      BY <2>2, <3>1, <3>3, <3>4, TurnProgresses
    <3> QED
      BY <2>1, <2>2, <3>3, <3>5 DEF ClaimProgresses, rows, tx
  <2> QED
    BY <2>11, <2>12
<1>2. Spec => []IInv
  BY Inductive, PTL
<1> QED
  BY <1>1, <1>2, PTL
=============================================================================
