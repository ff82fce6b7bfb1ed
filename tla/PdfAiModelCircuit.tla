-------------------------- MODULE PdfAiModelCircuit --------------------------
(***************************************************************************)
(* One row of pdf_ai_model_circuits: the quota circuit breaker of one AI   *)
(* model (PdfAiModelCircuit.java).  A Permit names the circuit generation  *)
(* it was granted in and, for a half-open probe, the probe's token.        *)
(***************************************************************************)
EXTENDS PdfAiJob

CONSTANTS
  FailureThreshold, \* resilience.failure-threshold, 1..50
  OpenDuration,     \* resilience.open-duration
  MaxOpenDuration   \* resilience.max-open-duration

ASSUME ThresholdAssumption == FailureThreshold \in Nat \ {0}
ASSUME OpenAssumption ==
  /\ OpenDuration \in Nat \ {0}
  /\ MaxOpenDuration \in Nat
  /\ MaxOpenDuration >= OpenDuration

(* `drawn` is the supply of fresh probe tokens. *)
NewCircuit ==
  [state |-> "CLOSED", consecutiveFailures |-> 0, openCount |-> 0,
   generation |-> 0, nextProbeAt |-> NoInstant,
   probeToken |-> NoToken, probeExpiresAt |-> NoInstant, drawn |-> 0]

AvailableAt(c) == IF c.state = "OPEN" THEN c.nextProbeAt ELSE c.probeExpiresAt

(* Mutant: a half-open circuit admits a second probe while one is out. *)
AdmitsDuringProbe(c, t) == c.state # "OPEN" \/ t >= c.nextProbeAt

Admits(c, t) == c.state = "CLOSED" \/ t >= AvailableAt(c)

(* The circuit after acquire() granted a permit, and that permit. *)
Acquired(c, t) ==
  IF c.state = "CLOSED" THEN c
  ELSE [c EXCEPT !.state = "HALF_OPEN", !.generation = @ + 1,
                 !.drawn = @ + 1, !.probeToken = c.drawn + 1,
                 !.probeExpiresAt = t + LeaseDuration]

PermitOf(c) == [generation |-> c.generation, probeToken |-> c.probeToken]

OwnsPermit(c, permit) ==
  /\ permit.generation = c.generation
  /\ \/ c.state = "CLOSED" /\ permit.probeToken = NoToken
     \/ c.state = "HALF_OPEN" /\ permit.probeToken = c.probeToken

ClearProbe(c) == [c EXCEPT !.probeToken = NoToken, !.probeExpiresAt = NoInstant]

OpenDelay(openCount) ==
  AtMost(MaxOpenDuration, OpenDuration * ShiftTable[openCount])

Opened(c, t) ==
  LET count == AtMost(11, c.openCount + 1)
  IN  ClearProbe([c EXCEPT !.state = "OPEN", !.openCount = count,
                           !.nextProbeAt = t + OpenDelay(count),
                           !.generation = @ + 1])

RateLimited(c, permit, t) ==
  LET counted == [c EXCEPT !.consecutiveFailures = @ + 1]
      trips   == c.state = "HALF_OPEN" \/ counted.consecutiveFailures >= FailureThreshold
  IN  IF ~OwnsPermit(c, permit) THEN c
      ELSE IF trips THEN Opened(counted, t) ELSE counted

Closed(c) ==
  ClearProbe([c EXCEPT !.state = "CLOSED", !.openCount = 0,
                       !.nextProbeAt = NoInstant, !.generation = @ + 1])

Responded(c, permit) ==
  LET answered == [c EXCEPT !.consecutiveFailures = 0]
  IN  IF ~OwnsPermit(c, permit) THEN c
      ELSE IF c.state = "HALF_OPEN" THEN Closed(answered) ELSE answered

(* Mutant: a probe whose job turned out to be unreadable is not handed back. *)
KeepProbe(c, permit, t) == c

Abandon(c, permit, t) ==
  IF c.state = "HALF_OPEN" /\ OwnsPermit(c, permit)
  THEN ClearProbe([c EXCEPT !.state = "OPEN", !.nextProbeAt = t, !.generation = @ + 1])
  ELSE c
=============================================================================
