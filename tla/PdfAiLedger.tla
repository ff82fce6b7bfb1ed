----------------------------- MODULE PdfAiLedger -----------------------------
(***************************************************************************)
(* What the enrichment queue promises, without clocks, tokens, attempts,   *)
(* circuits or workers: a ledger of jobs and of the slots that hold them.  *)
(* A job is answered only while it holds a slot, there are at most Slots   *)
(* of them, a slot may be lost at any time, and a settled job stays as it  *)
(* is until a failed one is reopened or any of them removed.               *)
(***************************************************************************)
EXTENDS Naturals, FiniteSets

CONSTANTS Jobs, Slots

VARIABLES outcome, held

Init ==
  /\ outcome = [j \in Jobs |-> "none"]
  /\ held = {}

Open == {j \in Jobs : outcome[j] = "open"}

Register(j) ==
  /\ outcome[j] = "none"
  /\ outcome' \in {[outcome EXCEPT ![j] = o] : o \in {"open", "skipped"}}
  /\ UNCHANGED held

(* One pass over the queue: open jobs without a slot may be given up, and  *)
(* at most one other may get a free slot.                                  *)
Assign(given_up, granted) ==
  /\ given_up \cup granted \subseteq Open \ held
  /\ given_up \cap granted = {}
  /\ Cardinality(granted) <= 1
  /\ granted # {} => Cardinality(held) < Slots
  /\ outcome' = [j \in Jobs |-> IF j \in given_up THEN "failed" ELSE outcome[j]]
  /\ held' = held \cup granted

Answer(j) ==
  /\ j \in held
  /\ outcome' \in {[outcome EXCEPT ![j] = o] : o \in {"open", "done", "failed"}}
  /\ held' = held \ {j}

Lapse(lost) ==
  /\ lost \subseteq held
  /\ held' = held \ lost
  /\ UNCHANGED outcome

Reopen(j) ==
  /\ outcome[j] = "failed"
  /\ outcome' = [outcome EXCEPT ![j] = "open"]
  /\ UNCHANGED held

Remove(j) ==
  /\ outcome[j] \notin {"none", "gone"}
  /\ outcome' = [outcome EXCEPT ![j] = "gone"]
  /\ held' = held \ {j}

Next ==
  \/ \E j \in Jobs : Register(j) \/ Answer(j) \/ Reopen(j) \/ Remove(j)
  \/ \E given_up, granted \in SUBSET Jobs : Assign(given_up, granted)
  \/ \E lost \in SUBSET held : Lapse(lost)

Spec == Init /\ [][Next]_<<outcome, held>>
=============================================================================
