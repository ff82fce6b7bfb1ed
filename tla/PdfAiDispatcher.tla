--------------------------- MODULE PdfAiDispatcher ---------------------------
(***************************************************************************)
(* PdfAiDispatcher: how each server turns signals into worker threads.     *)
(* Signals are merged into a version number, drain() threads claim until   *)
(* the queue has nothing for them, and a claim books one delayed signal.   *)
(* The database side is reduced to what a claim sees: jobs waiting, leases *)
(* held and the time until the gate opens again (PdfAiQueue has the rest). *)
(* Every synchronized block, claim and model call is one step.             *)
(*                                                                         *)
(* Instants appear as the time left until them, so the clock needs no      *)
(* bound.  wakeVersion only grows and is only compared with the value a    *)
(* thread read before: `seen` says whether that comparison would hold.     *)
(***************************************************************************)
EXTENDS Integers, FiniteSets

CONSTANTS
  Nodes,            \* servers
  Concurrency,      \* properties.concurrency(): per server, and over all leases
  Interval,         \* properties.requestInterval()
  MaxOrphans,       \* leases of a server that is gone, valid beyond what is modelled
  MaxJobs,          \* bound: jobs that arrive
  MaxFaults         \* bound: transactions that throw and servers that close

ASSUME DispatcherAssumption ==
  /\ IsFiniteSet(Nodes)
  /\ Concurrency \in Nat \ {0}
  /\ MaxOrphans \in 0..(Concurrency - 1)
  /\ Interval \in Nat /\ MaxJobs \in Nat /\ MaxFaults \in Nat

VARIABLES
  pc,               \* where each worker thread is; "idle" when it does not exist
  seen,             \* observedVersion == wakeVersion
  activeWorkers, closed, delayedWakePending,
  timer,            \* time left of the scheduled wake-up task, or NoTimer
  wakeIn,           \* nextWakeAt - nanoTime, not below 0
  gateIn,           \* database: time until the gate permits a claim
  waiting,          \* database: jobs due
  held,             \* database: valid leases
  arrived, faults,  \* counted against their bounds
  unsent,           \* committed enqueues whose AFTER_COMMIT signal is not given yet
  unheard           \* history: signalled, and no claim was begun since

vars == <<pc, seen, activeWorkers, closed, delayedWakePending, timer, wakeIn,
          gateIn, waiting, held, arrived, faults, unsent, unheard>>

database == <<gateIn, waiting, held, arrived, faults, unsent>>
timers   == <<delayedWakePending, timer, wakeIn>>

NoTimer == -1
Workers == Nodes \X (1..(Concurrency + 1))    \* one name more than may be in use
WorkersOf(n) == {w \in Workers : w[1] = n}

Init ==
  /\ pc = [w \in Workers |-> "idle"]
  /\ seen = [w \in Workers |-> FALSE]
  /\ activeWorkers = [n \in Nodes |-> 0]
  /\ closed = [n \in Nodes |-> FALSE]
  /\ delayedWakePending = [n \in Nodes |-> FALSE]
  /\ timer = [n \in Nodes |-> NoTimer]
  /\ wakeIn = [n \in Nodes |-> 0]
  /\ gateIn = 0 /\ waiting = 0
  /\ held \in 0..MaxOrphans
  /\ arrived = 0 /\ faults = 0
  /\ unsent = [n \in Nodes |-> 0]
  /\ unheard = [n \in Nodes |-> FALSE]

-----------------------------------------------------------------------------
(* Mutant: an off-by-one in the free slots. *)
OneTooMany(count) == IF count <= Concurrency THEN 1 ELSE 0

Vacancies(count) ==
  IF Interval > 0 /\ Concurrency - count > 1 THEN 1 ELSE Concurrency - count

Unused(n, threads) == {w \in WorkersOf(n) : threads[w] = "idle"}

(* startWorkers() when `count` threads of n are active and `threads` is    *)
(* where they are.  Threads differ in name only: the lowest are taken.     *)
StartWorkers(n, threads, count) ==
  /\ \E launched \in SUBSET Unused(n, threads) :
       /\ Cardinality(launched) = Vacancies(count)
       /\ \A w \in launched, v \in Unused(n, threads) \ launched : w[2] < v[2]
       /\ pc' = [w \in Workers |-> IF w \in launched THEN "loop" ELSE threads[w]]
  /\ activeWorkers' = [activeWorkers EXCEPT ![n] = count + Vacancies(count)]

WakeUp(n) ==
  \/ /\ closed[n]
     /\ UNCHANGED <<pc, seen, activeWorkers, unheard>>
  \/ /\ ~closed[n]
     /\ seen' = [w \in Workers |-> seen[w] /\ w[1] # n]
     /\ StartWorkers(n, pc, activeWorkers[n])
     /\ unheard' = [unheard EXCEPT ![n] = TRUE]

(* A callback, retry or escalation on n commits a job, then signals. *)
Arrive(n) ==
  /\ arrived < MaxJobs
  /\ arrived' = arrived + 1
  /\ waiting' = waiting + 1
  /\ unsent' = [unsent EXCEPT ![n] = @ + 1]
  /\ UNCHANGED <<pc, seen, activeWorkers, closed, timers, gateIn, held, faults, unheard>>

Queued(n) ==
  /\ unsent[n] > 0
  /\ unsent' = [unsent EXCEPT ![n] = @ - 1]
  /\ WakeUp(n)
  /\ UNCHANGED <<closed, timers, gateIn, waiting, held, arrived, faults>>

-----------------------------------------------------------------------------
(* drain(), a thread at a time. *)
Goto(w, there) == pc' = [pc EXCEPT ![w] = there]

ReadVersion(w) ==
  /\ pc[w] = "loop"
  /\ IF closed[w[1]] THEN Goto(w, "exit") /\ UNCHANGED seen
     ELSE Goto(w, "claim") /\ seen' = [seen EXCEPT ![w] = TRUE]
  /\ UNCHANGED <<activeWorkers, closed, timers, database, unheard>>

Claimable == gateIn = 0 /\ waiting > 0 /\ held < Concurrency

Heard(n) == unheard' = [unheard EXCEPT ![n] = FALSE]

ClaimWork(w) ==
  /\ pc[w] = "claim" /\ Claimable
  /\ gateIn' = Interval /\ waiting' = waiting - 1 /\ held' = held + 1
  /\ Goto(w, "claimed") /\ Heard(w[1])
  /\ UNCHANGED <<seen, activeWorkers, closed, timers, arrived, faults, unsent>>

ClaimNothing(w) ==
  /\ pc[w] = "claim" /\ ~Claimable
  /\ Goto(w, "check") /\ Heard(w[1])
  /\ UNCHANGED <<seen, activeWorkers, closed, timers, database>>

(* worker.tick() throws: the claim rolled back, or the answer could not be *)
(* recorded and the lease is left to expire.                               *)
TickThrows(w) ==
  /\ pc[w] \in {"claim", "call"} /\ faults < MaxFaults
  /\ faults' = faults + 1
  /\ Goto(w, "exit")
  /\ IF pc[w] = "claim" THEN Heard(w[1]) ELSE UNCHANGED unheard
  /\ UNCHANGED <<seen, activeWorkers, closed, timers, gateIn, waiting, held, arrived, unsent>>

(* Mutant: a claim books no delayed signal. *)
ClaimedUnbooked(w) ==
  /\ pc[w] = "claimed"
  /\ Goto(w, "call")
  /\ UNCHANGED <<seen, activeWorkers, closed, timers, database, unheard>>

(* wakeUpAfterInterval(), after the claim has committed. *)
Claimed(w) ==
  LET n == w[1] IN
  /\ pc[w] = "claimed"
  /\ IF closed[n] THEN UNCHANGED timers
     ELSE /\ wakeIn' = [wakeIn EXCEPT ![n] = Interval]
          /\ timer' = IF delayedWakePending[n] THEN timer
                      ELSE [timer EXCEPT ![n] = Interval]
          /\ delayedWakePending' = [delayedWakePending EXCEPT ![n] = TRUE]
  /\ Goto(w, "call")
  /\ UNCHANGED <<seen, activeWorkers, closed, database, unheard>>

(* The model answered and the transaction that settles the job ended. *)
Answered(w) ==
  /\ pc[w] = "call"
  /\ held' = held - 1
  /\ Goto(w, "loop")
  /\ UNCHANGED <<seen, activeWorkers, closed, timers, gateIn, waiting, arrived, faults,
                 unsent, unheard>>

CheckVersion(w) ==
  /\ pc[w] = "check"
  /\ Goto(w, IF seen[w] THEN "exit" ELSE "loop")
  /\ UNCHANGED <<seen, activeWorkers, closed, timers, database, unheard>>

(* Mutant: a signal that came after the last look at the version is missed. *)
LeavesQuietly(w) == TRUE

NothingNew(w) == closed[w[1]] \/ seen[w]

Finish(w) ==
  LET n == w[1]
      left == [pc EXCEPT ![w] = "idle"]
  IN  /\ pc[w] = "exit"
      /\ \/ /\ NothingNew(w)
            /\ pc' = left
            /\ activeWorkers' = [activeWorkers EXCEPT ![n] = @ - 1]
         \/ ~NothingNew(w) /\ StartWorkers(n, left, activeWorkers[n] - 1)
      /\ seen' = [seen EXCEPT ![w] = FALSE]
      /\ UNCHANGED <<closed, timers, database, unheard>>

-----------------------------------------------------------------------------
(* wakeAfterInterval(), run by the scheduled task. *)

(* Mutant: the delay starts over instead of covering what is left of it. *)
FullInterval(n) == Interval

Remaining(n) == wakeIn[n]

(* Mutant: the flag outlives the task. *)
StillPending(n) == UNCHANGED delayedWakePending

Spent(n) == delayedWakePending' = [delayedWakePending EXCEPT ![n] = FALSE]

WakeAfterInterval(n) ==
  /\ timer[n] = 0
  /\ IF ~closed[n] /\ Remaining(n) > 0
     THEN /\ timer' = [timer EXCEPT ![n] = Remaining(n)]
          /\ UNCHANGED <<delayedWakePending, pc, seen, activeWorkers, unheard>>
     ELSE /\ timer' = [timer EXCEPT ![n] = NoTimer]
          /\ Spent(n)
          /\ WakeUp(n)
  /\ UNCHANGED <<closed, wakeIn, database>>

Close(n) ==
  /\ ~closed[n] /\ faults < MaxFaults
  /\ faults' = faults + 1
  /\ closed' = [closed EXCEPT ![n] = TRUE]
  /\ timer' = [timer EXCEPT ![n] = NoTimer]
  /\ UNCHANGED <<pc, seen, activeWorkers, delayedWakePending, wakeIn, gateIn, waiting,
                 held, arrived, unsent, unheard>>

Less(t) == IF t > 0 THEN t - 1 ELSE t

Tick ==
  /\ gateIn > 0 \/ \E n \in Nodes : timer[n] > 0 \/ wakeIn[n] > 0
  /\ gateIn' = Less(gateIn)
  /\ timer' = [n \in Nodes |-> Less(timer[n])]
  /\ wakeIn' = [n \in Nodes |-> Less(wakeIn[n])]
  /\ UNCHANGED <<pc, seen, activeWorkers, closed, delayedWakePending, waiting, held,
                 arrived, faults, unsent, unheard>>

Step(w) ==
  \/ ReadVersion(w) \/ ClaimWork(w) \/ ClaimNothing(w) \/ TickThrows(w)
  \/ Claimed(w) \/ Answered(w) \/ CheckVersion(w) \/ Finish(w)

Next ==
  \/ \E n \in Nodes : Arrive(n) \/ Queued(n) \/ WakeAfterInterval(n) \/ Close(n)
  \/ \E w \in Workers : Step(w)
  \/ Tick

(* Threads and the timer thread are scheduled, model calls time out, the   *)
(* clock runs and a committed transaction's listener is called.  No job    *)
(* has to arrive, no transaction has to throw, no server has to close, and *)
(* there is no periodic poll: nothing here relies on PdfAiScheduler.       *)
Fairness ==
  /\ \A w \in Workers : WF_vars(Step(w))
  /\ \A n \in Nodes : WF_vars(Queued(n)) /\ WF_vars(WakeAfterInterval(n))
  /\ WF_vars(Tick)

Spec == Init /\ [][Next]_vars /\ Fairness
-----------------------------------------------------------------------------
Busy(n) == {w \in WorkersOf(n) : pc[w] # "idle"}

(* activeWorkers counts the threads that exist, and no server runs more    *)
(* than Concurrency, whatever signals, failures and exits overlap.         *)
WorkersWithinLimit ==
  \A n \in Nodes :
    /\ activeWorkers[n] = Cardinality(Busy(n))
    /\ activeWorkers[n] <= Concurrency

(* An open server with a delayed signal booked has its timer running, and  *)
(* one it will not miss: the timer never ends later than a full interval   *)
(* after the last claim it committed, and none is left behind once spent.  *)
OneDelayedWake ==
  \A n \in Nodes :
    /\ ~closed[n] => (delayedWakePending[n] <=> timer[n] # NoTimer)
    /\ timer[n] <= Interval

(* A thread that looks for work once more: it is about to claim, it holds  *)
(* a lease, or there is a signal it has not seen.                          *)
Returns(w) == \/ pc[w] \in {"loop", "claim", "claimed", "call"}
              \/ pc[w] \in {"check", "exit"} /\ ~seen[w]

(* A job that is due is never left with nobody to come back for it: as     *)
(* long as no transaction throws and no server closes, some server is      *)
(* about to signal, has a delayed signal booked, or runs a thread that     *)
(* claims again.  Threads that found the gate shut or the slots taken have *)
(* left relying on it (PdfAiDispatcher, drain and wakeUpAfterInterval).    *)
NotStranded ==
  waiting > 0 /\ faults = 0
  => \/ \E n \in Nodes : unsent[n] > 0 \/ timer[n] # NoTimer
     \/ \E w \in Workers : Returns(w)

(* A signal is never lost: once given, some thread of the server begins a  *)
(* claim after it, even if threads were just leaving or a claim threw.     *)
SignalHeard == \A n \in Nodes : unheard[n] ~> (~unheard[n] \/ closed[n])

(* Jobs that can be processed do not wait for the periodic poll: without   *)
(* failures and shutdown, signals and delayed signals empty the queue,     *)
(* although a signal starts one thread and other servers take gate and     *)
(* slots meanwhile.                                                        *)
DrainsWithoutPoll == waiting > 0 ~> (waiting = 0 \/ faults > 0)

(* An empty queue is left alone: threads end and no delayed signal keeps   *)
(* renewing itself.                                                        *)
Quiet == \A n \in Nodes : Busy(n) = {} /\ timer[n] = NoTimer
Quiesces == <>[]Quiet
=============================================================================
