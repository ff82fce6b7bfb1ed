----------------------------- MODULE SeatLedger -----------------------------
(***************************************************************************)
(* What the bookings of a session promise, without tabs, transactions,     *)
(* locks and copies: a ledger of who holds how many of its seats.  Every   *)
(* entry is checked and made in one step, a number that was given up is    *)
(* never used again, and a session ends only while nobody ever booked it.  *)
(***************************************************************************)
EXTENDS Naturals, FiniteSets

CONSTANTS Phones, MaxTickets, MaxSeats

VARIABLES seats,   \* of the session
          stands,  \* whether the session is still there
          takes,   \* whether it takes bookings now
          given,   \* numbers given to bookings so far
          held     \* by number: who holds how many tickets

Ticket == 1..MaxTickets

Taken(entries) ==
  Cardinality({t \in (DOMAIN entries) \X Ticket : t[2] <= entries[t[1]].tickets})

Init ==
  /\ seats = MaxSeats
  /\ stands = TRUE /\ takes = TRUE
  /\ given = 0
  /\ held = [b \in {} |-> 0]

Book(p, n) ==
  /\ takes
  /\ \A b \in DOMAIN held : held[b].phone # p
  /\ Taken(held) + n <= seats
  /\ given' = given + 1
  /\ held' = [b \in DOMAIN held \cup {given'} |->
                IF b = given' THEN [phone |-> p, tickets |-> n] ELSE held[b]]
  /\ UNCHANGED <<seats, stands, takes>>

GiveUp(b) ==
  /\ held' = [q \in DOMAIN held \ {b} |-> held[q]]
  /\ UNCHANGED <<seats, stands, takes, given>>

Change(b, n) ==
  /\ held' = [held EXCEPT ![b].tickets = n]
  /\ Taken(held') <= seats
  /\ UNCHANGED <<seats, stands, takes, given>>

(* A session that is moved may take bookings again. *)
Resize(n) ==
  /\ stands /\ Taken(held) <= n
  /\ seats' = n /\ takes' \in BOOLEAN
  /\ UNCHANGED <<stands, given, held>>

Offer ==
  /\ stands /\ takes' \in BOOLEAN
  /\ UNCHANGED <<seats, stands, given, held>>

End ==
  /\ given = 0
  /\ stands' = FALSE /\ takes' = FALSE
  /\ UNCHANGED <<seats, given, held>>

Next ==
  \/ Offer \/ End
  \/ \E p \in Phones, n \in Ticket : Book(p, n)
  \/ \E b \in DOMAIN held : GiveUp(b) \/ \E n \in Ticket : Change(b, n)
  \/ \E n \in 1..MaxSeats : Resize(n)

Spec == Init /\ [][Next]_<<seats, stands, takes, given, held>>
=============================================================================
