----------------------- MODULE PdfAiDispatcherProofs -----------------------
(***************************************************************************)
(* Proofs about PdfAiDispatcher, for any number of servers, threads, jobs  *)
(* and failures and any interval: the counter of a server is the number of *)
(* its threads and never exceeds the limit, a delayed signal that is       *)
(* booked has a timer that ends in time, a signal sent is kept by a thread *)
(* that will look or by the timer, and no due job is left with nobody to   *)
(* come for it.                                                            *)
(***************************************************************************)
EXTENDS PdfAiDispatcher, FiniteSetTheorems, TLAPS

-----------------------------------------------------------------------------
(* The invariant.                                                          *)

Places == {"idle", "loop", "claim", "claimed", "call", "check", "exit"}

ThreadsTyped == /\ pc \in [Workers -> Places]
                /\ activeWorkers \in [Nodes -> Nat]

TimersTyped == /\ closed \in [Nodes -> BOOLEAN]
               /\ delayedWakePending \in [Nodes -> BOOLEAN]
               /\ timer \in [Nodes -> NoTimer..Interval]
               /\ wakeIn \in [Nodes -> 0..Interval]

ThreadsInv == ThreadsTyped /\ WorkersWithinLimit

TimersInv == TimersTyped /\ OneDelayedWake

BusyIn(n, threads) == {w \in WorkersOf(n) : threads[w] # "idle"}

-----------------------------------------------------------------------------
(* Threads.                                                                *)

LEMMA FewWorkers ==
  ASSUME NEW n \in Nodes
  PROVE  /\ IsFiniteSet(WorkersOf(n))
         /\ \A threads : IsFiniteSet(BusyIn(n, threads))
  <1>1. IsFiniteSet(1..(Concurrency + 1))
    BY DispatcherAssumption, FS_Interval
  <1>2. IsFiniteSet(Workers)
    BY <1>1, DispatcherAssumption, FS_Product DEF Workers
  <1>3. IsFiniteSet(WorkersOf(n))
    BY <1>2, FS_Subset DEF WorkersOf
  <1>4. \A threads : BusyIn(n, threads) \in SUBSET WorkersOf(n)
    BY DEF BusyIn
  <1> QED BY <1>3, <1>4, FS_Subset

LEMMA OwnWorkers ==
  ASSUME NEW w \in Workers
  PROVE  /\ w[1] \in Nodes /\ w \in WorkersOf(w[1])
         /\ \A n : w \in WorkersOf(n) => n = w[1]
  BY DEF Workers, WorkersOf

LEMMA VacanciesFit ==
  ASSUME NEW count \in Nat, count <= Concurrency
  PROVE  Vacancies(count) \in Nat /\ count + Vacancies(count) <= Concurrency
  BY DispatcherAssumption DEF Vacancies

(* Starting threads on one server: as many more as the counter says.       *)
LEMMA StartedWorkers ==
  ASSUME ThreadsInv, NEW n \in Nodes, NEW threads \in [Workers -> Places],
         NEW count \in Nat, count <= Concurrency, count = Cardinality(BusyIn(n, threads)),
         \A m \in Nodes \ {n} : BusyIn(m, threads) = Busy(m),
         StartWorkers(n, threads, count)
  PROVE  ThreadsInv'
  <1>1. PICK launched \in SUBSET Unused(n, threads) :
          /\ Cardinality(launched) = Vacancies(count)
          /\ pc' = [w \in Workers |-> IF w \in launched THEN "loop" ELSE threads[w]]
    BY DEF StartWorkers
  <1>2. activeWorkers' = [activeWorkers EXCEPT ![n] = count + Vacancies(count)]
    BY DEF StartWorkers
  <1>3. Vacancies(count) \in Nat /\ count + Vacancies(count) <= Concurrency
    BY VacanciesFit
  <1>4. ThreadsTyped'
    BY <1>1, <1>2, <1>3 DEF ThreadsInv, ThreadsTyped, Places
  <1>5. /\ launched \subseteq WorkersOf(n)
        /\ \A w \in launched : w \in Workers /\ threads[w] = "idle"
    BY <1>1 DEF Unused, WorkersOf
  <1>6. Busy(n)' = BusyIn(n, threads) \cup launched
    BY <1>1, <1>5 DEF Busy, BusyIn, WorkersOf
  <1>7. BusyIn(n, threads) \cap launched = {}
    BY <1>5 DEF BusyIn
  <1>8. Cardinality(Busy(n)') = count + Vacancies(count)
    <2>1. IsFiniteSet(BusyIn(n, threads)) /\ IsFiniteSet(launched)
      BY <1>5, FewWorkers, FS_Subset
    <2>2. Cardinality(BusyIn(n, threads) \cap launched) = 0
      BY <1>7, FS_EmptySet
    <2>3. Cardinality(BusyIn(n, threads) \cup launched)
            = Cardinality(BusyIn(n, threads)) + Cardinality(launched) - 0
      BY <2>1, <2>2, FS_Union
    <2> QED BY <1>1, <1>3, <1>6, <2>3
  <1>9. ASSUME NEW m \in Nodes, m # n
        PROVE  Busy(m)' = Busy(m) /\ activeWorkers'[m] = activeWorkers[m]
    <2>1. \A w \in WorkersOf(m) : w \in Workers /\ w \notin launched
      BY <1>5, <1>9 DEF WorkersOf
    <2>2. Busy(m)' = BusyIn(m, threads)
      BY <1>1, <2>1 DEF Busy, BusyIn
    <2> QED BY <1>2, <1>9, <2>2 DEF ThreadsInv, ThreadsTyped
  <1>10. WorkersWithinLimit'
    <2>1. activeWorkers'[n] = count + Vacancies(count)
      BY <1>2 DEF ThreadsInv, ThreadsTyped
    <2> QED BY <1>3, <1>8, <1>9, <2>1 DEF WorkersWithinLimit, ThreadsInv
  <1> QED BY <1>4, <1>10 DEF ThreadsInv

LEMMA SignalKeeps ==
  ASSUME ThreadsInv, NEW n \in Nodes, WakeUp(n) PROVE ThreadsInv'
  <1>1. CASE UNCHANGED <<pc, activeWorkers>>
    BY <1>1 DEF ThreadsInv, ThreadsTyped, WorkersWithinLimit, Busy
  <1>2. CASE StartWorkers(n, pc, activeWorkers[n])
    <2>1. /\ pc \in [Workers -> Places] /\ activeWorkers[n] \in Nat
          /\ activeWorkers[n] <= Concurrency
          /\ activeWorkers[n] = Cardinality(BusyIn(n, pc))
      BY DEF ThreadsInv, ThreadsTyped, WorkersWithinLimit, Busy, BusyIn
    <2>2. \A m : BusyIn(m, pc) = Busy(m)
      BY DEF Busy, BusyIn
    <2> QED BY <1>2, <2>1, <2>2, StartedWorkers
  <1> QED BY <1>1, <1>2 DEF WakeUp

(* A thread that goes on stays a thread.                                   *)
LEMMA GoesOn ==
  ASSUME ThreadsInv, NEW w \in Workers, pc[w] # "idle",
         NEW there \in Places \ {"idle"}, Goto(w, there), UNCHANGED activeWorkers
  PROVE  ThreadsInv'
  <1>1. ThreadsTyped'
    BY DEF ThreadsInv, ThreadsTyped, Goto
  <1>2. \A v \in Workers : pc'[v] # "idle" <=> pc[v] # "idle"
    BY DEF ThreadsInv, ThreadsTyped, Goto
  <1>3. \A n \in Nodes : Busy(n)' = Busy(n)
    BY <1>2 DEF Busy, WorkersOf
  <1> QED BY <1>1, <1>3 DEF ThreadsInv, WorkersWithinLimit

LEMMA FinishKeeps ==
  ASSUME ThreadsInv, NEW w \in Workers, Finish(w) PROVE ThreadsInv'
  <1> DEFINE n == w[1]
             left == [pc EXCEPT ![w] = "idle"]
             count == activeWorkers[n] - 1
  <1>1. n \in Nodes /\ pc[w] = "exit" /\ left \in [Workers -> Places]
    BY OwnWorkers DEF Finish, ThreadsInv, ThreadsTyped, Places
  <1>2. w \in Busy(n) /\ BusyIn(n, left) = Busy(n) \ {w}
    BY <1>1, OwnWorkers DEF Busy, BusyIn, WorkersOf, ThreadsInv, ThreadsTyped
  <1>3. \A m \in Nodes \ {n} : BusyIn(m, left) = Busy(m)
    BY OwnWorkers DEF Busy, BusyIn, WorkersOf, ThreadsInv, ThreadsTyped
  <1>4. /\ count \in Nat /\ count <= Concurrency
        /\ count = Cardinality(BusyIn(n, left))
    <2>1. IsFiniteSet(Busy(n)) /\ Busy(n) = BusyIn(n, pc)
      BY <1>1, FewWorkers DEF Busy, BusyIn
    <2>2. /\ Cardinality(Busy(n) \ {w}) = Cardinality(Busy(n)) - 1
          /\ Cardinality(Busy(n) \ {w}) \in Nat
      BY <1>2, <2>1, FS_RemoveElement, FS_CardinalityType
    <2>3. activeWorkers[n] = Cardinality(Busy(n)) /\ activeWorkers[n] <= Concurrency
      BY <1>1 DEF ThreadsInv, WorkersWithinLimit
    <2>4. activeWorkers[n] \in Nat /\ Concurrency \in Nat
      BY <1>1, DispatcherAssumption DEF ThreadsInv, ThreadsTyped
    <2> HIDE DEF n, left
    <2> QED BY <1>2, <2>2, <2>3, <2>4
  <1>5. CASE pc' = left /\ activeWorkers' = [activeWorkers EXCEPT ![n] = @ - 1]
    <2>1. activeWorkers' \in [Nodes -> Nat] /\ activeWorkers'[n] = count
      BY <1>1, <1>4, <1>5 DEF ThreadsInv, ThreadsTyped
    <2>2. \A m \in Nodes \ {n} : activeWorkers'[m] = activeWorkers[m]
      BY <1>5 DEF ThreadsInv, ThreadsTyped
    <2>3. \A m : Busy(m)' = BusyIn(m, left)
      BY <1>5 DEF Busy, BusyIn
    <2> QED BY <1>1, <1>3, <1>4, <1>5, <2>1, <2>2, <2>3
            DEF ThreadsInv, ThreadsTyped, WorkersWithinLimit
  <1>6. CASE StartWorkers(n, left, count)
    <2> HIDE DEF left, count, n
    <2> QED BY <1>1, <1>3, <1>4, <1>6, StartedWorkers
  <1> QED BY <1>5, <1>6 DEF Finish

LEMMA ThreadsInitially == Init => ThreadsInv
  <1> SUFFICES ASSUME Init PROVE ThreadsInv
    OBVIOUS
  <1>1. ThreadsTyped
    BY DEF Init, ThreadsTyped, Places
  <1>2. \A n \in Nodes : Busy(n) = {}
    BY DEF Init, Busy, WorkersOf
  <1>3. Cardinality({}) = 0 /\ 0 <= Concurrency
    BY FS_EmptySet, DispatcherAssumption
  <1> QED BY <1>1, <1>2, <1>3 DEF Init, ThreadsInv, WorkersWithinLimit

LEMMA ThreadsStep == ThreadsInv /\ [Next]_vars => ThreadsInv'
  <1> SUFFICES ASSUME ThreadsInv, [Next]_vars PROVE ThreadsInv'
    OBVIOUS
  <1>1. ASSUME UNCHANGED <<pc, activeWorkers>> PROVE ThreadsInv'
    BY <1>1 DEF ThreadsInv, ThreadsTyped, WorkersWithinLimit, Busy
  <1>2. ASSUME NEW n \in Nodes, Queued(n) \/ WakeAfterInterval(n) PROVE ThreadsInv'
    BY <1>1, <1>2, SignalKeeps DEF Queued, WakeAfterInterval
  <1>3. ASSUME NEW w \in Workers, Step(w) PROVE ThreadsInv'
    <2>1. CASE Finish(w)
      BY <2>1, FinishKeeps
    <2>2. CASE ReadVersion(w) \/ ClaimWork(w) \/ ClaimNothing(w) \/ TickThrows(w)
      BY <2>2, GoesOn DEF ReadVersion, ClaimWork, ClaimNothing, TickThrows, Places
    <2>3. CASE Claimed(w) \/ Answered(w) \/ CheckVersion(w)
      BY <2>3, GoesOn DEF Claimed, Answered, CheckVersion, Places
    <2> QED BY <1>3, <2>1, <2>2, <2>3 DEF Step
  <1>4. ASSUME NEW n \in Nodes, Arrive(n) \/ Close(n) PROVE ThreadsInv'
    BY <1>1, <1>4 DEF Arrive, Close
  <1>5. CASE Tick
    BY <1>1, <1>5 DEF Tick
  <1>6. CASE UNCHANGED vars
    BY <1>1, <1>6 DEF vars
  <1> QED BY <1>2, <1>3, <1>4, <1>5, <1>6 DEF Next

-----------------------------------------------------------------------------
(* Timers.                                                                 *)

LEMMA TimersInitially == Init => TimersInv
  BY DispatcherAssumption DEF Init, TimersInv, TimersTyped, OneDelayedWake, NoTimer

LEMMA ClaimedKeeps ==
  ASSUME TimersInv, NEW w \in Workers, Claimed(w) PROVE TimersInv'
  <1> DEFINE n == w[1]
  <1>1. n \in Nodes
    BY OwnWorkers
  <1>2. UNCHANGED closed
    BY DEF Claimed
  <1>3. CASE UNCHANGED timers
    BY <1>2, <1>3 DEF timers, TimersInv, TimersTyped, OneDelayedWake
  <1>4. CASE /\ ~closed[n]
             /\ wakeIn' = [wakeIn EXCEPT ![n] = Interval]
             /\ timer' = IF delayedWakePending[n] THEN timer
                         ELSE [timer EXCEPT ![n] = Interval]
             /\ delayedWakePending' = [delayedWakePending EXCEPT ![n] = TRUE]
    <2> HIDE DEF n
    <2>1. Interval \in 0..Interval /\ Interval \in NoTimer..Interval /\ Interval # NoTimer
      BY DispatcherAssumption DEF NoTimer
    <2>2. TimersTyped'
      BY <1>1, <1>2, <1>4, <2>1 DEF TimersInv, TimersTyped
    <2>3. ASSUME NEW m \in Nodes, m # n
          PROVE  timer'[m] = timer[m] /\ delayedWakePending'[m] = delayedWakePending[m]
      BY <1>1, <1>4, <2>3 DEF TimersInv, TimersTyped
    <2>4. delayedWakePending'[n] /\ timer'[n] # NoTimer /\ timer'[n] <= Interval
      <3>1. CASE delayedWakePending[n]
        BY <1>1, <1>4, <3>1 DEF TimersInv, TimersTyped, OneDelayedWake
      <3>2. CASE ~delayedWakePending[n]
        BY <1>1, <1>4, <2>1, <3>2, DispatcherAssumption DEF TimersInv, TimersTyped
      <3> QED BY <3>1, <3>2
    <2> QED BY <1>2, <2>2, <2>3, <2>4 DEF TimersInv, OneDelayedWake
  <1> QED BY <1>3, <1>4 DEF Claimed

LEMMA WakeKeeps ==
  ASSUME TimersInv, NEW n \in Nodes, WakeAfterInterval(n) PROVE TimersInv'
  <1>1. UNCHANGED <<closed, wakeIn>> /\ timer[n] = 0
    BY DEF WakeAfterInterval
  <1>2. CASE /\ ~closed[n] /\ Remaining(n) > 0
             /\ timer' = [timer EXCEPT ![n] = Remaining(n)]
             /\ UNCHANGED delayedWakePending
    <2>1. wakeIn[n] \in 1..Interval
      BY <1>2, DispatcherAssumption DEF Remaining, TimersInv, TimersTyped
    <2>2. wakeIn[n] \in NoTimer..Interval /\ wakeIn[n] # NoTimer /\ 0 # NoTimer
      BY <2>1, DispatcherAssumption DEF NoTimer
    <2>3. TimersTyped'
      BY <1>1, <1>2, <2>2 DEF Remaining, TimersInv, TimersTyped
    <2>4. timer'[n] = wakeIn[n] /\ \A m \in Nodes \ {n} : timer'[m] = timer[m]
      BY <1>2 DEF Remaining, TimersInv, TimersTyped
    <2> QED BY <1>1, <1>2, <2>1, <2>2, <2>3, <2>4, DispatcherAssumption
            DEF TimersInv, OneDelayedWake
  <1>3. CASE timer' = [timer EXCEPT ![n] = NoTimer] /\ Spent(n)
    <2>1. NoTimer \in NoTimer..Interval /\ NoTimer <= Interval
      BY DispatcherAssumption DEF NoTimer
    <2>2. TimersTyped'
      BY <1>1, <1>3, <2>1 DEF Spent, TimersInv, TimersTyped
    <2>3. /\ timer'[n] = NoTimer /\ delayedWakePending'[n] = FALSE
          /\ \A m \in Nodes \ {n} : /\ timer'[m] = timer[m]
                                    /\ delayedWakePending'[m] = delayedWakePending[m]
      BY <1>3 DEF Spent, TimersInv, TimersTyped
    <2> QED BY <1>1, <2>1, <2>2, <2>3 DEF TimersInv, OneDelayedWake
  <1> QED BY <1>2, <1>3 DEF WakeAfterInterval

LEMMA TickKeeps == ASSUME TimersInv, Tick PROVE TimersInv'
  <1>1. \A t \in NoTimer..Interval :
          /\ Less(t) \in NoTimer..Interval /\ Less(t) <= Interval
          /\ (Less(t) = NoTimer <=> t = NoTimer)
    BY DispatcherAssumption DEF Less, NoTimer
  <1>2. \A t \in 0..Interval : Less(t) \in 0..Interval
    BY DispatcherAssumption DEF Less
  <1>3. /\ UNCHANGED <<closed, delayedWakePending>>
        /\ timer' = [n \in Nodes |-> Less(timer[n])]
        /\ wakeIn' = [n \in Nodes |-> Less(wakeIn[n])]
    BY DEF Tick
  <1> QED BY <1>1, <1>2, <1>3 DEF TimersInv, TimersTyped, OneDelayedWake

LEMMA TimersStep == TimersInv /\ [Next]_vars => TimersInv'
  <1> SUFFICES ASSUME TimersInv, [Next]_vars PROVE TimersInv'
    OBVIOUS
  <1>1. ASSUME UNCHANGED <<closed, timers>> PROVE TimersInv'
    BY <1>1 DEF timers, TimersInv, TimersTyped, OneDelayedWake
  <1>2. ASSUME NEW n \in Nodes, Arrive(n) \/ Queued(n) PROVE TimersInv'
    BY <1>1, <1>2 DEF Arrive, Queued
  <1>3. ASSUME NEW n \in Nodes, Close(n) PROVE TimersInv'
    BY <1>3, DispatcherAssumption
       DEF Close, TimersInv, TimersTyped, OneDelayedWake, NoTimer
  <1>4. ASSUME NEW n \in Nodes, WakeAfterInterval(n) PROVE TimersInv'
    BY <1>4, WakeKeeps
  <1>5. ASSUME NEW w \in Workers, Step(w) PROVE TimersInv'
    <2>1. CASE Claimed(w)
      BY <2>1, ClaimedKeeps
    <2>2. CASE ~Claimed(w)
      BY <1>1, <1>5, <2>2 DEF Step, ReadVersion, ClaimWork, ClaimNothing, TickThrows,
                              Answered, CheckVersion, Finish
    <2> QED BY <2>1, <2>2
  <1>6. CASE Tick
    BY <1>6, TickKeeps
  <1>7. CASE UNCHANGED vars
    BY <1>1, <1>7 DEF vars, timers
  <1> QED BY <1>2, <1>3, <1>4, <1>5, <1>6, <1>7 DEF Next

-----------------------------------------------------------------------------
(* Signals.                                                                *)

SeenTyped == seen \in [Workers -> BOOLEAN] /\ unheard \in [Nodes -> BOOLEAN]

(* While a signal is unheard, who has seen it is on the way to a claim.    *)
UnheardInv ==
  \A n \in Nodes : unheard[n] => /\ ~closed[n] => Busy(n) # {}
                                 /\ \A w \in WorkersOf(n) : seen[w] => pc[w] = "claim"

SignalInv == SeenTyped /\ UnheardInv

(* What UnheardInv says to a reader: an open server that was signalled and *)
(* has not begun a claim since has a thread that will.                     *)
SignalKept ==
  \A n \in Nodes : unheard[n] /\ ~closed[n] => \E w \in WorkersOf(n) : Returns(w)

LEMMA SomebodyStarts ==
  ASSUME NEW count \in Nat, count <= Concurrency
  PROVE  /\ count + Vacancies(count) >= 1
         /\ count < Concurrency => Vacancies(count) >= 1
  BY DispatcherAssumption DEF Vacancies

(* A signal leaves an open server with threads, none of which has seen it. *)
LEMMA SignalArrives ==
  ASSUME ThreadsInv, SeenTyped, NEW n \in Nodes, WakeUp(n), ~closed[n]
  PROVE  /\ SeenTyped'
         /\ Busy(n)' # {}
         /\ \A w \in Workers : seen'[w] = (seen[w] /\ w[1] # n)
  <1>1. /\ seen' = [w \in Workers |-> seen[w] /\ w[1] # n]
        /\ StartWorkers(n, pc, activeWorkers[n])
        /\ unheard' = [unheard EXCEPT ![n] = TRUE]
    BY DEF WakeUp
  <1>2. activeWorkers[n] \in Nat /\ activeWorkers[n] <= Concurrency
    BY DEF ThreadsInv, ThreadsTyped, WorkersWithinLimit
  <1>3. activeWorkers'[n] = activeWorkers[n] + Vacancies(activeWorkers[n])
    BY <1>1 DEF StartWorkers, ThreadsInv, ThreadsTyped
  <1>4. activeWorkers'[n] >= 1
    BY <1>2, <1>3, SomebodyStarts
  <1>5. ThreadsInv'
    BY SignalKeeps
  <1>6. Busy(n)' # {}
    BY <1>4, <1>5, FS_EmptySet DEF ThreadsInv, WorkersWithinLimit
  <1>7. SeenTyped'
    BY <1>1 DEF SeenTyped
  <1> QED BY <1>1, <1>6, <1>7

(* A thread that leaves although there is news is replaced.                *)
LEMMA LeaverReplaced ==
  ASSUME ThreadsInv, NEW w \in Workers, Finish(w), ~NothingNew(w)
  PROVE  \E v \in WorkersOf(w[1]) : v \in Workers /\ pc'[v] = "loop"
  <1> DEFINE n == w[1]
             left == [pc EXCEPT ![w] = "idle"]
             count == activeWorkers[n] - 1
  <1>1. n \in Nodes /\ StartWorkers(n, left, count) /\ w \in Busy(n)
    BY OwnWorkers DEF Finish, Busy
  <1>2. activeWorkers[n] \in Nat /\ activeWorkers[n] <= Concurrency
    BY <1>1 DEF ThreadsInv, ThreadsTyped, WorkersWithinLimit
  <1>3. activeWorkers[n] # 0
    <2>1. Cardinality(Busy(n)) = activeWorkers[n] /\ IsFiniteSet(Busy(n))
      BY <1>1, FewWorkers DEF ThreadsInv, WorkersWithinLimit, Busy, BusyIn
    <2> QED BY <1>1, <2>1, FS_EmptySet
  <1>4. count \in Nat /\ count < Concurrency
    BY <1>2, <1>3, DispatcherAssumption
  <1>5. Vacancies(count) >= 1
    BY <1>4, SomebodyStarts, DispatcherAssumption
  <1>6. PICK launched \in SUBSET Unused(n, left) :
          /\ Cardinality(launched) = Vacancies(count)
          /\ pc' = [v \in Workers |-> IF v \in launched THEN "loop" ELSE left[v]]
    BY <1>1 DEF StartWorkers
  <1>7. launched # {}
    BY <1>5, <1>6, FS_EmptySet
  <1>8. PICK v \in launched : v \in WorkersOf(n) /\ v \in Workers
    BY <1>6, <1>7 DEF Unused, WorkersOf
  <1> QED BY <1>6, <1>8

LEMMA SignalInitially == Init => SignalInv
  BY DEF Init, SignalInv, SeenTyped, UnheardInv

(* A server whose threads and versions a step leaves alone.                *)
LEMMA OthersUnheard ==
  ASSUME ThreadsInv, SignalInv, NEW n \in Nodes, unheard'[n] => unheard[n],
         closed[n] => closed'[n],
         \A w \in WorkersOf(n) : /\ pc'[w] = "idle" <=> pc[w] = "idle"
                                 /\ seen'[w] => seen[w]
                                 /\ pc[w] = "claim" => pc'[w] = "claim"
  PROVE  unheard'[n] => /\ ~closed'[n] => Busy(n)' # {}
                        /\ \A w \in WorkersOf(n) : seen'[w] => pc'[w] = "claim"
  <1>1. Busy(n)' = Busy(n)
    BY DEF Busy, WorkersOf
  <1> QED BY <1>1 DEF SignalInv, UnheardInv

LEMMA SignalStep ==
  ASSUME ThreadsInv, TimersInv, SignalInv, [Next]_vars PROVE SignalInv'
  <1> USE DEF SignalInv
  <1>1. ASSUME UNCHANGED <<pc, seen, unheard>>, \A n \in Nodes : closed[n] => closed'[n]
        PROVE  SignalInv'
    BY <1>1 DEF SeenTyped, UnheardInv, Busy
  <1>2. ASSUME NEW n \in Nodes, WakeUp(n), UNCHANGED closed PROVE SignalInv'
    <2>1. CASE closed[n]
      BY <1>1, <1>2, <2>1 DEF WakeUp
    <2>2. CASE ~closed[n]
      <3>1. /\ SeenTyped' /\ Busy(n)' # {}
            /\ \A w \in Workers : seen'[w] = (seen[w] /\ w[1] # n)
        BY <1>2, <2>2, SignalArrives
      <3>2. \A w \in WorkersOf(n) : ~seen'[w]
        BY <3>1 DEF WorkersOf
      <3>3. ASSUME NEW m \in Nodes, m # n
            PROVE  unheard'[m] => /\ ~closed'[m] => Busy(m)' # {}
                                  /\ \A w \in WorkersOf(m) : seen'[w] => pc'[w] = "claim"
        <4>1. PICK launched \in SUBSET Unused(n, pc) :
                pc' = [w \in Workers |-> IF w \in launched THEN "loop" ELSE pc[w]]
          BY <1>2, <2>2 DEF WakeUp, StartWorkers
        <4>2. \A w \in WorkersOf(m) : w \in Workers /\ w \notin launched
          BY <3>3, <4>1 DEF WorkersOf, Unused
        <4>3. unheard'[m] = unheard[m]
          BY <1>2, <2>2, <3>3 DEF WakeUp, SeenTyped
        <4> QED BY <1>2, <3>1, <4>1, <4>2, <4>3, OthersUnheard
      <3> QED BY <3>1, <3>2, <3>3 DEF UnheardInv
    <2> QED BY <2>1, <2>2
  <1>3. ASSUME NEW n \in Nodes, Queued(n) \/ WakeAfterInterval(n) PROVE SignalInv'
    BY <1>1, <1>2, <1>3 DEF Queued, WakeAfterInterval
  <1>4. ASSUME NEW n \in Nodes, Arrive(n) \/ Close(n) PROVE SignalInv'
    BY <1>1, <1>4 DEF Arrive, Close, TimersInv, TimersTyped
  <1>5. ASSUME NEW w \in Workers, Step(w) PROVE SignalInv'
    <2> DEFINE n == w[1]
    <2>1. n \in Nodes /\ w \in WorkersOf(n) /\ UNCHANGED closed
      BY <1>5, OwnWorkers DEF Step, ReadVersion, ClaimWork, ClaimNothing, TickThrows,
                              Claimed, Answered, CheckVersion, Finish, timers
    <2>2. ASSUME NEW there \in Places \ {"idle"}, Goto(w, there), pc[w] # "idle",
                 \/ UNCHANGED <<seen, unheard>>
                    /\ (there = "claim" \/ pc[w] # "claim")
                 \/ there = "claim" /\ UNCHANGED unheard /\ seen' = [seen EXCEPT ![w] = TRUE]
                 \/ Heard(n) /\ UNCHANGED seen
          PROVE  SignalInv'
      <3>1. SeenTyped'
        BY <2>1, <2>2 DEF SeenTyped, Heard
      <3>2. \A v \in Workers : /\ pc'[v] = IF v = w THEN there ELSE pc[v]
                               /\ pc'[v] = "idle" <=> pc[v] = "idle"
        BY <2>2 DEF Goto, ThreadsInv, ThreadsTyped
      <3>3. \A m \in Nodes : Busy(m)' = Busy(m)
        BY <3>2 DEF Busy, WorkersOf
      <3>4. \A m \in Nodes : unheard'[m] => unheard[m]
        BY <2>1, <2>2 DEF Heard, SeenTyped
      <3>5. ASSUME NEW m \in Nodes, unheard'[m], NEW v \in WorkersOf(m), seen'[v]
            PROVE  pc'[v] = "claim"
        <4>1. v \in Workers
          BY <3>5 DEF WorkersOf
        <4>2. CASE v # w
          <5>1. seen[v]
            BY <2>2, <3>5, <4>1, <4>2 DEF SeenTyped
          <5> QED BY <3>2, <3>4, <3>5, <4>1, <4>2, <5>1 DEF UnheardInv
        <4>3. CASE v = w
          <5>1. m = n
            BY <3>5, <4>3, OwnWorkers
          <5>2. ~Heard(n)
            BY <2>1, <3>5, <5>1 DEF Heard, SeenTyped
          <5>3. CASE there = "claim"
            BY <3>2, <4>3, <5>3
          <5>4. CASE UNCHANGED <<seen, unheard>> /\ pc[w] # "claim"
            BY <3>4, <3>5, <4>3, <5>4 DEF UnheardInv
          <5> QED BY <2>2, <5>2, <5>3, <5>4
        <4> QED BY <4>2, <4>3
      <3> QED BY <2>1, <3>1, <3>3, <3>4, <3>5 DEF UnheardInv
    <2>3. CASE ReadVersion(w)
      BY <2>2, <2>3 DEF ReadVersion, Places
    <2>4. CASE ClaimWork(w) \/ ClaimNothing(w) \/ TickThrows(w)
      <3> HIDE DEF n
      <3> QED BY <2>2, <2>4 DEF ClaimWork, ClaimNothing, TickThrows, Places, n
    <2>5. CASE Claimed(w) \/ Answered(w) \/ CheckVersion(w)
      <3>1. pc[w] \in {"claimed", "call", "check"} /\ UNCHANGED <<seen, unheard>>
        BY <2>5 DEF Claimed, Answered, CheckVersion
      <3>2. Goto(w, "call") \/ Goto(w, "loop") \/ Goto(w, "exit")
        BY <2>5 DEF Claimed, Answered, CheckVersion
      <3> QED BY <2>2, <3>1, <3>2 DEF Places
    <2>6. CASE Finish(w)
      <3>1. pc[w] = "exit" /\ seen' = [seen EXCEPT ![w] = FALSE] /\ UNCHANGED unheard
        BY <2>6 DEF Finish
      <3>2. SeenTyped'
        BY <3>1 DEF SeenTyped
      <3>3. \A v \in Workers : seen'[v] => seen[v] /\ v # w
        BY <3>1 DEF SeenTyped
      <3>4. \A v \in Workers \ {w} : pc[v] = "claim" => pc'[v] = "claim"
        BY <2>6 DEF Finish, StartWorkers, Unused, ThreadsInv, ThreadsTyped
      <3>5. ASSUME NEW m \in Nodes, unheard'[m], NEW v \in WorkersOf(m), seen'[v]
            PROVE  pc'[v] = "claim"
        BY <3>1, <3>3, <3>4, <3>5 DEF UnheardInv, WorkersOf
      <3>6. ASSUME NEW m \in Nodes, m # n, unheard'[m], ~closed'[m] PROVE Busy(m)' # {}
        <4>1. \A v \in WorkersOf(m) : v \in Workers /\ v # w /\ v \notin WorkersOf(n)
          BY <3>6, <2>1, OwnWorkers DEF WorkersOf
        <4>2. \A v \in WorkersOf(m) : pc'[v] = pc[v]
          BY <2>6, <4>1 DEF Finish, StartWorkers, Unused, ThreadsInv, ThreadsTyped
        <4> QED BY <2>1, <3>1, <3>6, <4>2 DEF UnheardInv, Busy
      <3>7. ASSUME unheard'[n], ~closed'[n] PROVE Busy(n)' # {}
        <4>1. ~seen[w]
          BY <2>1, <3>1, <3>7 DEF UnheardInv
        <4>2. ~NothingNew(w)
          BY <2>1, <3>7, <4>1 DEF NothingNew
        <4> QED BY <2>6, <4>2, LeaverReplaced DEF Busy
      <3> QED BY <3>2, <3>5, <3>6, <3>7 DEF UnheardInv
    <2> QED BY <1>5, <2>3, <2>4, <2>5, <2>6 DEF Step
  <1>6. CASE Tick \/ UNCHANGED vars
    BY <1>1, <1>6 DEF Tick, vars
  <1> QED BY <1>3, <1>4, <1>5, <1>6 DEF Next

-----------------------------------------------------------------------------
(* Jobs.                                                                   *)

Holding == {w \in Workers : pc[w] \in {"claimed", "call"}}

JobsTyped == /\ gateIn \in 0..Interval
             /\ waiting \in Nat /\ held \in Int /\ faults \in Nat
             /\ unsent \in [Nodes -> Nat]

(* Without failures every lease is a thread's or a lost server's, and a    *)
(* gate that is shut opens before a timer has run out that is not renewed. *)
Undisturbed ==
  /\ \A n \in Nodes : ~closed[n]
  /\ held <= MaxOrphans + Cardinality(Holding)
  /\ gateIn > 0 => \/ \E w \in Workers : pc[w] = "claimed"
                   \/ \E n \in Nodes : timer[n] # NoTimer /\ gateIn <= wakeIn[n]

JobsInv == /\ JobsTyped
           /\ faults = 0 => Undisturbed
           /\ NotStranded

LEMMA FewHolding == IsFiniteSet(Holding) /\ Cardinality(Holding) \in Nat
  <1>1. IsFiniteSet(1..(Concurrency + 1))
    BY DispatcherAssumption, FS_Interval
  <1>2. IsFiniteSet(Workers)
    BY <1>1, DispatcherAssumption, FS_Product DEF Workers
  <1>3. IsFiniteSet(Holding)
    BY <1>2, FS_Subset DEF Holding
  <1> QED BY <1>3, FS_CardinalityType

LEMMA JobsInitially == Init => JobsInv
  <1> SUFFICES ASSUME Init PROVE JobsInv
    OBVIOUS
  <1>1. Holding = {}
    BY DEF Init, Holding
  <1>2. MaxOrphans + Cardinality(Holding) = MaxOrphans
    BY <1>1, FS_EmptySet, DispatcherAssumption
  <1> QED BY <1>2, DispatcherAssumption
          DEF Init, JobsInv, JobsTyped, Undisturbed, NotStranded

(* A thread that goes on: how many of them hold a lease afterwards.        *)
LEMMA HoldingAfter ==
  ASSUME ThreadsInv, NEW w \in Workers, NEW there \in Places, Goto(w, there)
  PROVE  LET before == pc[w] \in {"claimed", "call"}
             after  == there \in {"claimed", "call"}
         IN /\ before = after => Holding' = Holding
            /\ ~before /\ after => Cardinality(Holding') = Cardinality(Holding) + 1
            /\ before /\ ~after => Cardinality(Holding') = Cardinality(Holding) - 1
  <1>1. \A v \in Workers : pc'[v] = IF v = w THEN there ELSE pc[v]
    BY DEF Goto, ThreadsInv, ThreadsTyped
  <1>2. CASE (pc[w] \in {"claimed", "call"}) = (there \in {"claimed", "call"})
    <2>1. Holding' = Holding
      BY <1>1, <1>2 DEF Holding
    <2> QED BY <1>2, <2>1
  <1>3. CASE pc[w] \notin {"claimed", "call"} /\ there \in {"claimed", "call"}
    <2>1. w \notin Holding /\ Holding' = Holding \cup {w}
      BY <1>1, <1>3 DEF Holding
    <2> QED BY <1>3, <2>1, FewHolding, FS_AddElement
  <1>4. CASE pc[w] \in {"claimed", "call"} /\ there \notin {"claimed", "call"}
    <2>1. w \in Holding /\ Holding' = Holding \ {w}
      BY <1>1, <1>4 DEF Holding
    <2> QED BY <1>4, <2>1, FewHolding, FS_RemoveElement
  <1> QED BY <1>2, <1>3, <1>4

(* A signal on an open server leaves a thread that returns, and takes no   *)
(* lease from anybody.                                                     *)
LEMMA SignalBrings ==
  ASSUME ThreadsInv, SeenTyped, NEW n \in Nodes, WakeUp(n), ~closed[n]
  PROVE  /\ \E w \in Workers : Returns(w)'
         /\ Holding' = Holding
         /\ \A w \in Workers : pc[w] = "claimed" => pc'[w] = "claimed"
  <1>1. Busy(n)' # {} /\ \A w \in Workers : seen'[w] = (seen[w] /\ w[1] # n)
    BY SignalArrives
  <1>2. PICK w \in WorkersOf(n) : w \in Workers /\ pc'[w] # "idle"
    BY <1>1 DEF Busy, WorkersOf
  <1>3. w[1] = n /\ ~seen'[w] /\ pc'[w] \in Places
    BY <1>1, <1>2, SignalKeeps DEF WorkersOf, ThreadsInv, ThreadsTyped
  <1>4. Returns(w)'
    BY <1>2, <1>3 DEF Returns, Places
  <1>5. PICK launched \in SUBSET Unused(n, pc) :
          pc' = [v \in Workers |-> IF v \in launched THEN "loop" ELSE pc[v]]
    BY DEF WakeUp, StartWorkers
  <1>6. \A v \in launched : pc[v] = "idle"
    BY <1>5 DEF Unused
  <1>7. \A v \in Workers : /\ pc'[v] \in {"claimed", "call"} <=> pc[v] \in {"claimed", "call"}
                           /\ pc[v] = "claimed" => pc'[v] = "claimed"
    BY <1>5, <1>6
  <1> QED BY <1>2, <1>4, <1>7 DEF Holding

(* Steps after which some thread returns, or the same ones do.             *)
LEMMA StrandedBefore ==
  ASSUME NotStranded, faults = 0, UNCHANGED <<waiting, unsent>>,
         \A n \in Nodes : timer[n] # NoTimer => timer'[n] # NoTimer,
         \A w \in Workers : Returns(w) => Returns(w)'
  PROVE  NotStranded'
  BY DEF NotStranded

LEMMA GateStays ==
  ASSUME Undisturbed, UNCHANGED <<closed, gateIn>>,
         held' <= MaxOrphans + Cardinality(Holding'),
         \A w \in Workers : pc[w] = "claimed" => pc'[w] = "claimed",
         \A n \in Nodes : timer[n] # NoTimer /\ gateIn <= wakeIn[n]
                          => timer'[n] # NoTimer /\ gateIn <= wakeIn'[n]
  PROVE  Undisturbed'
  BY DEF Undisturbed

LEMMA ClaimKeepsJobs ==
  ASSUME ThreadsInv, JobsInv, NEW w \in Workers, ClaimWork(w) \/ ClaimNothing(w)
  PROVE  JobsInv'
  <1>1. \A v \in Workers \ {w} : pc'[v] = pc[v]
    BY DEF ClaimWork, ClaimNothing, Goto, ThreadsInv, ThreadsTyped
  <1>2. CASE ClaimWork(w)
    <2>1. pc'[w] = "claimed" /\ Cardinality(Holding') = Cardinality(Holding) + 1
      BY <1>2, HoldingAfter DEF ClaimWork, Goto, ThreadsInv, ThreadsTyped, Places
    <2>2. JobsTyped'
      BY <1>2, DispatcherAssumption DEF ClaimWork, Claimable, JobsInv, JobsTyped
    <2>3. (faults = 0 => Undisturbed)'
      BY <1>2, <2>1, FewHolding, DispatcherAssumption
         DEF ClaimWork, JobsInv, JobsTyped, Undisturbed
    <2>4. Returns(w)'
      BY <2>1 DEF Returns
    <2> QED BY <2>2, <2>3, <2>4 DEF JobsInv, NotStranded
  <1>3. CASE ClaimNothing(w)
    <2>1. /\ pc[w] = "claim" /\ Goto(w, "check") /\ ~Claimable
          /\ UNCHANGED <<closed, timer, wakeIn, gateIn, waiting, held, faults, unsent>>
      BY <1>3 DEF ClaimNothing, timers, database
    <2>2. Holding' = Holding
      BY <2>1, HoldingAfter DEF Places
    <2>3. (faults = 0 => Undisturbed)'
      BY <1>1, <2>1, <2>2 DEF JobsInv, Undisturbed
    <2>4. ASSUME waiting > 0, faults = 0
          PROVE  \/ \E n \in Nodes : timer[n] # NoTimer
                 \/ \E v \in Workers : Returns(v)'
      <3>1. CASE \E v \in Workers : pc[v] \in {"claimed", "call"}
        <4>1. PICK v \in Workers : pc[v] \in {"claimed", "call"}
          BY <3>1
        <4>2. pc'[v] = pc[v]
          BY <1>1, <2>1, <4>1
        <4> QED BY <4>1, <4>2 DEF Returns
      <3>2. CASE gateIn > 0
        BY <2>4, <3>1, <3>2 DEF JobsInv, Undisturbed
      <3>3. CASE held >= Concurrency
        <4>1. Cardinality(Holding) # 0
          BY <2>4, <3>3, FewHolding, DispatcherAssumption DEF JobsInv, JobsTyped, Undisturbed
        <4>2. Holding # {}
          BY <4>1, FS_EmptySet
        <4> QED BY <3>1, <4>2 DEF Holding
      <3> QED BY <2>1, <2>4, <3>2, <3>3, DispatcherAssumption
              DEF Claimable, JobsInv, JobsTyped
    <2> QED BY <2>1, <2>3, <2>4 DEF JobsInv, JobsTyped, NotStranded
  <1> QED BY <1>2, <1>3

LEMMA BookingKeepsJobs ==
  ASSUME ThreadsInv, TimersInv, JobsInv, NEW w \in Workers, Claimed(w)
  PROVE  JobsInv'
  <1> DEFINE n == w[1]
  <1>1. /\ pc[w] = "claimed" /\ Goto(w, "call") /\ n \in Nodes
        /\ UNCHANGED <<closed, gateIn, waiting, held, faults, unsent>>
    BY OwnWorkers DEF Claimed, database
  <1>2. pc'[w] = "call" /\ Holding' = Holding
    <2>1. "call" \in Places /\ pc'[w] = "call"
      BY <1>1 DEF Places, Goto, ThreadsInv, ThreadsTyped
    <2>2. Holding' = Holding
      BY <1>1, <2>1, HoldingAfter
    <2> QED BY <2>1, <2>2
  <1>3. JobsTyped'
    BY <1>1 DEF JobsInv, JobsTyped
  <1>4. ASSUME faults = 0 PROVE Undisturbed'
    <2>1. /\ wakeIn' = [wakeIn EXCEPT ![n] = Interval]
          /\ timer' = IF delayedWakePending[n] THEN timer
                      ELSE [timer EXCEPT ![n] = Interval]
      BY <1>1, <1>4 DEF Claimed, JobsInv, Undisturbed
    <2> HIDE DEF n
    <2>2. timer'[n] # NoTimer
      <3>1. CASE delayedWakePending[n]
        BY <1>1, <1>4, <2>1, <3>1 DEF JobsInv, Undisturbed, TimersInv, OneDelayedWake
      <3>2. CASE ~delayedWakePending[n]
        BY <1>1, <2>1, <3>2, DispatcherAssumption DEF TimersInv, TimersTyped, NoTimer
      <3> QED BY <3>1, <3>2
    <2>3. gateIn' <= wakeIn'[n]
      BY <1>1, <2>1, DispatcherAssumption DEF JobsInv, JobsTyped, TimersInv, TimersTyped
    <2> QED BY <1>1, <1>2, <1>4, <2>2, <2>3 DEF JobsInv, Undisturbed
  <1>5. Returns(w)'
    BY <1>2 DEF Returns
  <1> QED BY <1>1, <1>3, <1>4, <1>5 DEF JobsInv, NotStranded

LEMMA LookingKeepsJobs ==
  ASSUME ThreadsInv, SeenTyped, JobsInv, NEW w \in Workers,
         ReadVersion(w) \/ Answered(w) \/ CheckVersion(w)
  PROVE  JobsInv'
  <1>1. /\ UNCHANGED <<closed, timer, wakeIn, gateIn, waiting, faults, unsent>>
        /\ \A v \in Workers \ {w} : pc'[v] = pc[v] /\ seen'[v] = seen[v]
    BY DEF ReadVersion, Answered, CheckVersion, Goto, timers, database,
           ThreadsInv, ThreadsTyped, SeenTyped
  <1>2. held' \in Int /\ (faults = 0 => held' <= MaxOrphans + Cardinality(Holding'))
    <2>1. CASE Answered(w)
      <3>1. Cardinality(Holding') = Cardinality(Holding) - 1 /\ held' = held - 1
        BY <2>1, HoldingAfter DEF Answered, Places
      <3> QED BY <3>1, FewHolding, DispatcherAssumption DEF JobsInv, JobsTyped, Undisturbed
    <2>2. CASE ReadVersion(w) \/ CheckVersion(w)
      <3>1. PICK there \in {"loop", "claim", "exit"} : Goto(w, there)
        BY <2>2 DEF ReadVersion, CheckVersion
      <3>2. pc[w] \in {"loop", "check"} /\ held' = held
        BY <2>2 DEF ReadVersion, CheckVersion, database
      <3>3. Holding' = Holding
        BY <3>1, <3>2, HoldingAfter DEF Places
      <3> QED BY <3>2, <3>3 DEF JobsInv, JobsTyped, Undisturbed
    <2> QED BY <2>1, <2>2
  <1>3. pc[w] # "claimed"
    BY DEF ReadVersion, Answered, CheckVersion
  <1>4. JobsTyped'
    BY <1>1, <1>2 DEF JobsInv, JobsTyped
  <1>5. (faults = 0 => Undisturbed)'
    BY <1>1, <1>2, <1>3 DEF JobsInv, Undisturbed
  <1>6. NotStranded'
    <2> SUFFICES ASSUME faults = 0 PROVE NotStranded'
      BY <1>1 DEF NotStranded
    <2>1. Returns(w) => Returns(w)'
      <3>1. CASE ReadVersion(w)
        <4>1. ~closed[w[1]]
          BY OwnWorkers DEF JobsInv, Undisturbed
        <4> QED BY <3>1, <4>1 DEF ReadVersion, Goto, Returns, ThreadsInv, ThreadsTyped
      <3>2. CASE Answered(w)
        BY <3>2 DEF Answered, Goto, Returns, ThreadsInv, ThreadsTyped
      <3>3. CASE CheckVersion(w)
        BY <3>3 DEF CheckVersion, Goto, Returns, ThreadsInv, ThreadsTyped
      <3> QED BY <3>1, <3>2, <3>3
    <2>2. \A v \in Workers \ {w} : Returns(v) => Returns(v)'
      BY <1>1 DEF Returns
    <2> QED BY <1>1, <2>1, <2>2, StrandedBefore DEF JobsInv
  <1> QED BY <1>4, <1>5, <1>6 DEF JobsInv

LEMMA LeavingKeepsJobs ==
  ASSUME ThreadsInv, SeenTyped, JobsInv, NEW w \in Workers, Finish(w)
  PROVE  JobsInv'
  <1>1. /\ pc[w] = "exit" /\ seen' = [seen EXCEPT ![w] = FALSE]
        /\ UNCHANGED <<closed, timer, wakeIn, gateIn, waiting, held, faults, unsent>>
    BY DEF Finish, timers, database
  <1>2. \A v \in Workers \ {w} : pc[v] # "idle" => pc'[v] = pc[v] /\ seen'[v] = seen[v]
    BY <1>1 DEF Finish, StartWorkers, Unused, ThreadsInv, ThreadsTyped, SeenTyped
  <1>3. Holding' = Holding
    <2>1. \A v \in Workers : pc[v] \in {"claimed", "call"} => pc'[v] = pc[v]
      BY <1>1, <1>2
    <2>2. \A v \in Workers : pc'[v] \in {"claimed", "call"} => pc[v] = pc'[v]
      BY <1>1 DEF Finish, StartWorkers, Unused, ThreadsInv, ThreadsTyped
    <2> QED BY <2>1, <2>2 DEF Holding
  <1>4. JobsTyped'
    BY <1>1 DEF JobsInv, JobsTyped
  <1>5. (faults = 0 => Undisturbed)'
    BY <1>1, <1>2, <1>3 DEF JobsInv, Undisturbed
  <1>6. NotStranded'
    <2> SUFFICES ASSUME faults = 0 PROVE NotStranded'
      BY <1>1 DEF NotStranded
    <2>1. CASE NothingNew(w)
      <3>1. ~Returns(w)
        BY <1>1, <2>1, OwnWorkers DEF NothingNew, Returns, JobsInv, Undisturbed
      <3>2. \A v \in Workers : Returns(v) => Returns(v)'
        BY <1>2, <3>1 DEF Returns
      <3> QED BY <1>1, <3>2, StrandedBefore DEF JobsInv
    <2>2. CASE ~NothingNew(w)
      <3>1. PICK v \in WorkersOf(w[1]) : v \in Workers /\ pc'[v] = "loop"
        BY <2>2, LeaverReplaced
      <3> QED BY <3>1 DEF Returns, NotStranded
    <2> QED BY <2>1, <2>2
  <1> QED BY <1>4, <1>5, <1>6 DEF JobsInv

LEMMA SignalKeepsJobs ==
  ASSUME ThreadsInv, TimersInv, SeenTyped, JobsInv, NEW n \in Nodes,
         Queued(n) \/ WakeAfterInterval(n)
  PROVE  JobsInv'
  <1>1. UNCHANGED <<closed, wakeIn, gateIn, waiting, held, faults>>
    BY DEF Queued, WakeAfterInterval, timers, database
  <1>2. JobsTyped'
    BY <1>1 DEF Queued, WakeAfterInterval, database, JobsInv, JobsTyped
  <1>3. SUFFICES ASSUME faults = 0 PROVE Undisturbed' /\ NotStranded'
    BY <1>1, <1>2 DEF JobsInv, NotStranded
  <1>4. ~closed[n]
    BY <1>3 DEF JobsInv, Undisturbed
  <1>5. CASE UNCHANGED pc /\ ~WakeUp(n)
    <2>1. /\ timer' = [timer EXCEPT ![n] = Remaining(n)] /\ Remaining(n) > 0
          /\ UNCHANGED <<seen, unsent>>
      BY <1>5 DEF Queued, WakeAfterInterval, database
    <2>2. \A m \in Nodes : timer[m] # NoTimer => timer'[m] # NoTimer
      BY <2>1 DEF TimersInv, TimersTyped, NoTimer, Remaining
    <2>3. Holding' = Holding
      BY <1>5 DEF Holding
    <2>4. \A w \in Workers : Returns(w) => Returns(w)'
      BY <1>5, <2>1 DEF Returns
    <2> QED BY <1>1, <1>3, <1>5, <2>1, <2>2, <2>3, <2>4, StrandedBefore, GateStays
            DEF JobsInv, Undisturbed
  <1>6. CASE WakeUp(n)
    <2>1. /\ \E w \in Workers : Returns(w)'
          /\ Holding' = Holding
          /\ \A w \in Workers : pc[w] = "claimed" => pc'[w] = "claimed"
      BY <1>4, <1>6, SignalBrings
    <2>2. \A m \in Nodes : timer[m] # NoTimer /\ gateIn <= wakeIn[m] /\ gateIn > 0
                           => timer'[m] # NoTimer
      <3>1. CASE Queued(n)
        BY <3>1 DEF Queued, timers
      <3>2. CASE WakeAfterInterval(n)
        BY <1>4, <3>2 DEF WakeAfterInterval, Remaining, TimersInv, TimersTyped, NoTimer,
                          JobsInv, JobsTyped
      <3> QED BY <3>1, <3>2
    <2> QED BY <1>1, <1>3, <2>1, <2>2 DEF JobsInv, Undisturbed, NotStranded
  <1> QED BY <1>4, <1>5, <1>6 DEF Queued, WakeAfterInterval

LEMMA TickKeepsJobs == ASSUME TimersInv, JobsInv, Tick PROVE JobsInv'
  <1>1. /\ gateIn' = Less(gateIn)
        /\ timer' = [n \in Nodes |-> Less(timer[n])]
        /\ wakeIn' = [n \in Nodes |-> Less(wakeIn[n])]
        /\ UNCHANGED <<pc, seen, closed, waiting, held, faults, unsent>>
    BY DEF Tick
  <1>2. gateIn' \in 0..Interval
    BY <1>1, DispatcherAssumption DEF Less, JobsInv, JobsTyped
  <1>3. \A n \in Nodes : /\ timer[n] # NoTimer => timer'[n] # NoTimer
                         /\ gateIn <= wakeIn[n] => gateIn' <= wakeIn'[n]
    BY <1>1, DispatcherAssumption
       DEF Less, TimersInv, TimersTyped, JobsInv, JobsTyped, NoTimer
  <1>4. gateIn' > 0 => gateIn > 0
    BY <1>1 DEF Less
  <1>5. Holding' = Holding /\ \A w \in Workers : Returns(w)' = Returns(w)
    BY <1>1 DEF Holding, Returns
  <1> QED BY <1>1, <1>2, <1>3, <1>4, <1>5
          DEF JobsInv, JobsTyped, Undisturbed, NotStranded

LEMMA JobsStep ==
  ASSUME ThreadsInv, TimersInv, SignalInv, JobsInv, [Next]_vars PROVE JobsInv'
  <1>1. SeenTyped
    BY DEF SignalInv
  <1>2. ASSUME NEW n \in Nodes, Queued(n) \/ WakeAfterInterval(n) PROVE JobsInv'
    BY <1>1, <1>2, SignalKeepsJobs
  <1>3. ASSUME NEW n \in Nodes, Arrive(n) PROVE JobsInv'
    <2>1. Holding' = Holding /\ unsent'[n] > 0
      BY <1>3 DEF Arrive, Holding, JobsInv, JobsTyped
    <2> QED BY <1>3, <2>1
            DEF Arrive, timers, JobsInv, JobsTyped, Undisturbed, NotStranded
  <1>4. ASSUME NEW n \in Nodes, Close(n) PROVE JobsInv'
    BY <1>4 DEF Close, JobsInv, JobsTyped, NotStranded
  <1>5. ASSUME NEW w \in Workers, Step(w) PROVE JobsInv'
    <2>1. CASE TickThrows(w)
      BY <2>1 DEF TickThrows, JobsInv, JobsTyped, NotStranded
    <2> QED BY <1>1, <1>5, <2>1, ClaimKeepsJobs, BookingKeepsJobs, LookingKeepsJobs,
               LeavingKeepsJobs DEF Step
  <1>6. CASE Tick
    BY <1>6, TickKeepsJobs
  <1>7. CASE UNCHANGED vars
    BY <1>7 DEF vars, JobsInv, JobsTyped, Undisturbed, NotStranded, Holding, Returns
  <1> QED BY <1>2, <1>3, <1>4, <1>5, <1>6, <1>7 DEF Next

-----------------------------------------------------------------------------
(* The counter of a server is the number of threads it runs, and stays     *)
(* within the limit, whatever signals, failures and exits overlap          *)
(* (PdfAiDispatcher, startWorkers and finish).                             *)
THEOREM ThreadsLimited == Spec => []WorkersWithinLimit
  <1>1. ThreadsInv => WorkersWithinLimit
    BY DEF ThreadsInv
  <1> QED BY <1>1, ThreadsInitially, ThreadsStep, PTL DEF Spec

(* A delayed signal that is booked on an open server has its timer, which  *)
(* ends within an interval of the last claim; none is left without one     *)
(* (PdfAiDispatcher, wakeUpAfterInterval and wakeAfterInterval).           *)
THEOREM DelayedWakeKept == Spec => []OneDelayedWake
  <1>1. TimersInv => OneDelayedWake
    BY DEF TimersInv
  <1> QED BY <1>1, TimersInitially, TimersStep, PTL DEF Spec

(* A signal on an open server stays with a thread that will begin a claim: *)
(* threads that are leaving see it or are replaced                         *)
(* (PdfAiDispatcher, wakeUp, drain and finish).                            *)
THEOREM SignalsKept == Spec => []SignalKept
  <1>1. ThreadsInv /\ SignalInv => SignalKept
    <2> SUFFICES ASSUME ThreadsInv, SignalInv, NEW n \in Nodes, unheard[n], ~closed[n]
                 PROVE  \E w \in WorkersOf(n) : Returns(w)
      BY DEF SignalKept
    <2>1. PICK w \in WorkersOf(n) : pc[w] # "idle"
      BY DEF SignalInv, UnheardInv, Busy
    <2>2. pc[w] \in Places /\ (seen[w] => pc[w] = "claim")
      BY DEF WorkersOf, ThreadsInv, ThreadsTyped, SignalInv, UnheardInv
    <2> QED BY <2>1, <2>2 DEF Returns, Places
  <1> QED BY <1>1, ThreadsInitially, ThreadsStep, TimersInitially, TimersStep,
             SignalInitially, SignalStep, PTL DEF Spec

(* Without failures a due job always has a signal on its way, a timer or a *)
(* thread that claims again, on any number of servers: nothing is left for *)
(* the periodic poll (PdfAiDispatcher, drain and wakeUpAfterInterval).     *)
THEOREM NothingStranded == Spec => []NotStranded
  <1>1. JobsInv => NotStranded
    BY DEF JobsInv
  <1> QED BY <1>1, ThreadsInitially, ThreadsStep, TimersInitially, TimersStep,
             SignalInitially, SignalStep, JobsInitially, JobsStep, PTL DEF Spec
=============================================================================
