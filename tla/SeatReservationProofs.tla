----------------------- MODULE SeatReservationProofs -----------------------
(***************************************************************************)
(* Proofs about SeatReservation for any number of visitors' tabs, phone    *)
(* numbers, seats, bookings and calls under way: a phone number is         *)
(* confirmed once, a session that was booked stays, a cancelled booking is *)
(* final, the tickets fit the seats, and the transactions implement the    *)
(* ledger of seats.  Tickets are counted as pairs of a row and a number,   *)
(* so that the library's facts about the cardinality of finite sets take   *)
(* the place of an induction over the bookings.                            *)
(***************************************************************************)
EXTENDS SeatReservation, SequenceTheorems, FiniteSetTheorems, TLAPS

-----------------------------------------------------------------------------
(* The inductive invariant, over the variables that matter to it.          *)

core == <<session, bookings, booking, changes, editing>>

VisitorCall == [stage : {"show", "session", "insert"}, phone : Phones,
                tickets : Tickets]
ChangeCall == [stage : {"session", "row", "write"}, tickets : Tickets]
EditCall == [stage : {"session", "write"}, seats : 0..MaxSeats]

Shape ==
  /\ session \in [exists : BOOLEAN, seats : 0..MaxSeats, started : BOOLEAN]
  /\ bookings \in Seq(Row)
  /\ booking = [c \in VisitorTabs |-> booking[c]]
  /\ \A c \in VisitorTabs : booking[c] = NoCall \/ booking[c] \in VisitorCall
  /\ changes = [r \in Numbers |-> changes[r]]
  /\ \A r \in Numbers : \/ changes[r] = NoCall \/ changes[r] \in ChangeCall
                        \/ changes[r].stage = "answer"
  /\ editing = NoCall \/ editing \in EditCall

Inserting(c) == booking[c] # NoCall /\ booking[c].stage = "insert"
Writing == editing # NoCall /\ editing.stage = "write"

(* Of the transactions that hold the session, those that matter here. *)
OneHolder ==
  /\ \A c, d \in VisitorTabs : Inserting(c) /\ Inserting(d) => c = d
  /\ \A c \in VisitorTabs : Inserting(c) => ~Writing

(* What a booking found out under its lock is still so. *)
StillFree ==
  \A c \in VisitorTabs : Inserting(c) => /\ session.exists
                                         /\ ~BookedBy(booking[c].phone)

(* A locked row is confirmed until its tickets are written. *)
LockedIsConfirmed ==
  \A r \in Numbers \cap DOMAIN bookings :
    RowLocked(r) => bookings[r].status = "CONFIRMED"

Safe == /\ OneHolder /\ StillFree /\ LockedIsConfirmed
        /\ OnePerPhone /\ BookedSessionsStay

SeatInv == Shape /\ Safe

-----------------------------------------------------------------------------
LEMMA SeatInitially == SeatInit => SeatInv
  <1> SUFFICES ASSUME SeatInit PROVE SeatInv
    OBVIOUS
  <1>1. bookings \in Seq(Row) /\ DOMAIN bookings = {}
    BY EmptySeq DEF SeatInit
  <1>2. Shape
    BY <1>1, SeatAssumption DEF SeatInit, Shape
  <1>3. Safe
    BY <1>1 DEF SeatInit, Safe, OneHolder, StillFree, LockedIsConfirmed,
                OnePerPhone, BookedSessionsStay, ConfirmedRows, Inserting
  <1> QED BY <1>2, <1>3 DEF SeatInv

LEMMA SeatStutter == ASSUME SeatInv, UNCHANGED core PROVE SeatInv'
  BY DEF SeatInv, Shape, Safe, OneHolder, StillFree, LockedIsConfirmed,
         OnePerPhone, BookedSessionsStay, ConfirmedRows, BookedBy, Inserting,
         Writing, RowLocked, core

-----------------------------------------------------------------------------
(* Steps of a visitor's tab.                                               *)

(* A tab that is not inserting after its step disturbs nothing. *)
LEMMA TabMoves ==
  ASSUME SeatInv, NEW c \in VisitorTabs, NEW call,
         call = NoCall \/ call \in VisitorCall,
         booking' = [booking EXCEPT ![c] = call],
         call = NoCall \/ call.stage # "insert",
         UNCHANGED <<session, bookings, changes, editing>>
  PROVE  SeatInv'
  <1>1. \A d \in VisitorTabs : booking'[d] = IF d = c THEN call ELSE booking[d]
    BY DEF SeatInv, Shape
  <1>2. Shape'
    BY <1>1 DEF SeatInv, Shape
  <1>3. \A d \in VisitorTabs : Inserting(d)' => Inserting(d) /\ booking'[d] = booking[d]
    BY <1>1 DEF Inserting
  <1>4. Safe'
    BY <1>3 DEF SeatInv, Safe, OneHolder, StillFree, LockedIsConfirmed,
                OnePerPhone, BookedSessionsStay, ConfirmedRows, BookedBy,
                Writing, RowLocked
  <1> QED BY <1>2, <1>4 DEF SeatInv

LEMMA BookingStaged ==
  ASSUME NEW call \in VisitorCall, NEW stage \in {"show", "session", "insert"}
  PROVE  /\ [call EXCEPT !.stage = stage] \in VisitorCall
         /\ [call EXCEPT !.stage = stage].stage = stage
         /\ [call EXCEPT !.stage = stage].phone = call.phone
  BY DEF VisitorCall

LEMMA SubmitKeeps ==
  ASSUME SeatInv, NEW c \in VisitorTabs, NEW p \in Phones, NEW n \in Tickets,
         SubmitBooking(c, p, n)
  PROVE  SeatInv'
  <1> DEFINE call == [stage |-> "show", phone |-> p, tickets |-> n]
  <1>1. call \in VisitorCall /\ call.stage = "show"
    BY DEF VisitorCall
  <1>2. booking' = [booking EXCEPT ![c] = call]
    BY DEF SubmitBooking
  <1>3. UNCHANGED <<session, bookings, changes, editing>>
    BY DEF SubmitBooking, seatStore, listCalls
  <1> HIDE DEF call
  <1> QED BY <1>1, <1>2, <1>3, TabMoves

LEMMA LockShowKeeps ==
  ASSUME SeatInv, NEW c \in VisitorTabs, LockShow(c)
  PROVE  SeatInv'
  <1>1. booking[c] \in VisitorCall
    BY DEF SeatInv, Shape, LockShow
  <1>2. UNCHANGED <<session, bookings, changes, editing>>
    BY DEF LockShow, seatStore, listCalls
  <1>3. CASE show.hidden
    <2>1. booking' = [booking EXCEPT ![c] = NoCall]
      BY <1>3 DEF LockShow, Refused
    <2> QED BY <2>1, <1>2, TabMoves
  <1>4. CASE ~show.hidden
    <2> DEFINE call == [booking[c] EXCEPT !.stage = "session"]
    <2>1. booking' = [booking EXCEPT ![c] = call]
      BY <1>4 DEF LockShow, To
    <2>2. call \in VisitorCall /\ call.stage = "session"
      BY <1>1, BookingStaged
    <2> HIDE DEF call
    <2> QED BY <2>1, <2>2, <1>2, TabMoves
  <1> QED BY <1>3, <1>4

LEMMA LockSessionKeeps ==
  ASSUME SeatInv, NEW c \in VisitorTabs, LockSession(c)
  PROVE  SeatInv'
  <1>1. booking[c] \in VisitorCall
    BY DEF SeatInv, Shape, LockSession
  <1>2. UNCHANGED <<session, bookings, changes, editing>>
    BY DEF LockSession, seatStore, listCalls
  <1> DEFINE free == session.exists /\ show.open /\ ~BookedBy(booking[c].phone)
  <1>3. CASE ~free
    <2>1. booking' = [booking EXCEPT ![c] = NoCall]
      BY <1>3 DEF LockSession, Refused
    <2> QED BY <2>1, <1>2, TabMoves
  <1>4. CASE free
    <2> DEFINE call == [booking[c] EXCEPT !.stage = "insert"]
    <2>1. booking' = [booking EXCEPT ![c] = call]
      BY <1>4 DEF LockSession, To
    <2>2. call \in VisitorCall /\ call.phone = booking[c].phone
      BY <1>1, BookingStaged
    <2> HIDE DEF call
    <2>3. \A d \in VisitorTabs : booking'[d] = IF d = c THEN call ELSE booking[d]
      BY <2>1 DEF SeatInv, Shape
    <2>4. Shape'
      BY <2>1, <2>2, <2>3, <1>2 DEF SeatInv, Shape
    <2>5. ~Writing /\ \A d \in VisitorTabs : ~Inserting(d)
      BY DEF LockSession, SessionLocked, Writing, Inserting
    <2>6. ~Writing' /\ \A d \in VisitorTabs : Inserting(d)' => d = c
      BY <2>3, <2>5, <1>2 DEF Writing, Inserting
    <2>7. OneHolder'
      BY <2>6 DEF OneHolder
    <2>8. StillFree'
      BY <2>2, <2>3, <2>6, <1>2, <1>4 DEF StillFree, BookedBy, ConfirmedRows
    <2>9. LockedIsConfirmed' /\ OnePerPhone' /\ BookedSessionsStay'
      BY <1>2 DEF SeatInv, Safe, LockedIsConfirmed, OnePerPhone,
                  BookedSessionsStay, ConfirmedRows, RowLocked
    <2> QED BY <2>4, <2>7, <2>8, <2>9 DEF SeatInv, Safe
  <1> QED BY <1>3, <1>4

LEMMA InsertKeeps ==
  ASSUME SeatInv, NEW c \in VisitorTabs, Insert(c)
  PROVE  SeatInv'
  <1>1. /\ booking[c] \in VisitorCall /\ Inserting(c)
        /\ session.exists /\ ~BookedBy(booking[c].phone)
    BY DEF SeatInv, Shape, Safe, StillFree, Insert, Inserting
  <1>2. booking' = [booking EXCEPT ![c] = NoCall]
    BY DEF Insert, Refused
  <1>3. UNCHANGED <<session, changes, editing>>
    BY DEF Insert, listCalls
  <1>4. CASE bookings' = bookings
    <2>1. UNCHANGED <<session, bookings, changes, editing>>
      BY <1>3, <1>4
    <2> QED BY <2>1, <1>2, TabMoves
  <1>5. CASE bookings' # bookings
    <2> DEFINE row == [phone |-> booking[c].phone,
                       tickets |-> booking[c].tickets, status |-> "CONFIRMED"]
    <2>1. bookings' = Append(bookings, row)
      BY <1>5 DEF Insert
    <2>2. row \in Row /\ row.phone = booking[c].phone /\ row.status = "CONFIRMED"
      BY <1>1 DEF VisitorCall, Row
    <2> HIDE DEF row
    <2>3. bookings \in Seq(Row)
      BY DEF SeatInv, Shape
    <2>4. /\ bookings' \in Seq(Row)
          /\ DOMAIN bookings' = DOMAIN bookings \cup {Len(bookings) + 1}
          /\ \A q \in DOMAIN bookings : bookings'[q] = bookings[q]
          /\ bookings'[Len(bookings) + 1] = row
          /\ Len(bookings) + 1 \notin DOMAIN bookings
      BY <2>1, <2>2, <2>3
    <2>5. \A d \in VisitorTabs : ~Inserting(d)'
      BY <1>1, <1>2 DEF SeatInv, Shape, Safe, OneHolder, Inserting
    <2>6. Shape'
      BY <1>2, <1>3, <2>4 DEF SeatInv, Shape
    <2>7. OneHolder' /\ StillFree'
      BY <2>5 DEF OneHolder, StillFree
    <2>8. LockedIsConfirmed'
      BY <1>3, <2>2, <2>4 DEF SeatInv, Safe, LockedIsConfirmed, RowLocked
    <2>9. OnePerPhone'
      BY <1>1, <2>2, <2>4 DEF SeatInv, Safe, OnePerPhone, ConfirmedRows, BookedBy
    <2>10. BookedSessionsStay'
      BY <1>1, <1>3 DEF BookedSessionsStay
    <2> QED BY <2>6, <2>7, <2>8, <2>9, <2>10 DEF SeatInv, Safe
  <1> QED BY <1>4, <1>5

LEMMA BookKeeps == ASSUME SeatInv, Book PROVE SeatInv'
  BY SubmitKeeps, LockShowKeeps, LockSessionKeeps, InsertKeeps DEF Book

-----------------------------------------------------------------------------
(* Steps of the producer's list.                                           *)

(* Columns of a row: what is left of it after one is written. *)
LEMMA RowWritten ==
  ASSUME NEW row \in Row
  PROVE  /\ [row EXCEPT !.status = "CANCELED"] \in Row
         /\ [row EXCEPT !.status = "CANCELED"].phone = row.phone
         /\ [row EXCEPT !.status = "CANCELED"].status = "CANCELED"
         /\ \A n \in Tickets : /\ [row EXCEPT !.tickets = n] \in Row
                               /\ [row EXCEPT !.tickets = n].phone = row.phone
                               /\ [row EXCEPT !.tickets = n].status = row.status
  BY DEF Row

LEMMA ReplacedRow ==
  ASSUME NEW s \in Seq(Row), NEW r \in DOMAIN s, NEW row \in Row
  PROVE  /\ [s EXCEPT ![r] = row] \in Seq(Row)
         /\ DOMAIN [s EXCEPT ![r] = row] = DOMAIN s
         /\ [s EXCEPT ![r] = row][r] = row
         /\ \A q \in DOMAIN s \ {r} : [s EXCEPT ![r] = row][q] = s[q]
  OBVIOUS

(* No number of rows is gained or confirmed, and no phone number changes.  *)
LEMMA RowsOnlyEnd ==
  ASSUME SeatInv, DOMAIN bookings' = DOMAIN bookings,
         \A q \in DOMAIN bookings :
           /\ bookings'[q].phone = bookings[q].phone
           /\ bookings'[q].status = "CONFIRMED" => bookings[q].status = "CONFIRMED",
         bookings = << >> => bookings' = << >>,
         UNCHANGED <<session, booking, editing>>
  PROVE  OneHolder' /\ StillFree' /\ OnePerPhone' /\ BookedSessionsStay'
  <1>1. OneHolder'
    BY DEF SeatInv, Safe, OneHolder, Inserting, Writing
  <1>2. StillFree'
    BY DEF SeatInv, Safe, StillFree, BookedBy, ConfirmedRows, Inserting
  <1>3. OnePerPhone'
    BY DEF SeatInv, Safe, OnePerPhone, ConfirmedRows
  <1>4. BookedSessionsStay'
    BY DEF SeatInv, Safe, BookedSessionsStay
  <1> QED BY <1>1, <1>2, <1>3, <1>4

LEMMA CancelKeeps ==
  ASSUME SeatInv, NEW r \in Numbers, Cancel(r)
  PROVE  SeatInv'
  <1>1. UNCHANGED <<session, booking, changes, editing>>
    BY DEF Cancel
  <1>2. CASE bookings' = bookings
    BY <1>1, <1>2, SeatStutter DEF core
  <1>3. CASE bookings' # bookings
    <2>1. bookings \in Seq(Row)
      BY DEF SeatInv, Shape
    <2>2. bookings' = [bookings EXCEPT ![r].status = "CANCELED"]
      BY <1>3 DEF Cancel
    <2>3. r \in DOMAIN bookings /\ bookings[r] \in Row
      <3>1. CASE r \notin DOMAIN bookings
        BY <3>1, <2>1, <2>2, <1>3
      <3> QED BY <3>1, <2>1, ElementOfSeq
    <2> DEFINE row == [bookings[r] EXCEPT !.status = "CANCELED"]
    <2>4. bookings' = [bookings EXCEPT ![r] = row]
      BY <2>2
    <2>5. row \in Row /\ row.phone = bookings[r].phone /\ row.status = "CANCELED"
      BY <2>3, RowWritten
    <2> HIDE DEF row
    <2>6. /\ bookings' \in Seq(Row) /\ DOMAIN bookings' = DOMAIN bookings
          /\ bookings'[r] = row
          /\ \A q \in DOMAIN bookings \ {r} : bookings'[q] = bookings[q]
      BY <2>1, <2>3, <2>4, <2>5, ReplacedRow
    <2>7. bookings # << >>
      BY <2>3
    <2>8. OneHolder' /\ StillFree' /\ OnePerPhone' /\ BookedSessionsStay'
      BY <1>1, <2>5, <2>6, <2>7, RowsOnlyEnd
    <2>9. Shape'
      BY <1>1, <2>6 DEF SeatInv, Shape
    <2>10. ~RowLocked(r)
      BY DEF Cancel
    <2>11. LockedIsConfirmed'
      BY <1>1, <2>6, <2>10 DEF SeatInv, Safe, LockedIsConfirmed, RowLocked
    <2> QED BY <2>8, <2>9, <2>11 DEF SeatInv, Safe
  <1> QED BY <1>2, <1>3

LEMMA MemoKeeps ==
  ASSUME SeatInv, NEW r \in Numbers, SaveMemo(r)
  PROVE  SeatInv'
  <1>1. UNCHANGED <<session, booking, changes, editing>>
    BY DEF SaveMemo
  <1>2. bookings' = bookings
    BY DEF SaveMemo, MemoWrites, SeatInv, Shape
  <1> QED BY <1>1, <1>2, SeatStutter DEF core

(* A change that does not get to its write disturbs nothing. *)
LEMMA ChangeMoves ==
  ASSUME SeatInv, NEW r \in Numbers, NEW call,
         changes' = [changes EXCEPT ![r] = call],
         call = NoCall \/ call \in ChangeCall \/ call.stage = "answer",
         \/ call = NoCall \/ call.stage # "write"
         \/ r \in DOMAIN bookings => bookings[r].status = "CONFIRMED",
         UNCHANGED <<session, bookings, booking, editing>>
  PROVE  SeatInv'
  <1>1. \A q \in Numbers : changes'[q] = IF q = r THEN call ELSE changes[q]
    BY DEF SeatInv, Shape
  <1>2. Shape'
    BY <1>1 DEF SeatInv, Shape
  <1>3. LockedIsConfirmed'
    BY <1>1 DEF SeatInv, Safe, LockedIsConfirmed, RowLocked
  <1>4. OneHolder' /\ StillFree' /\ OnePerPhone' /\ BookedSessionsStay'
    BY DEF SeatInv, Safe, OneHolder, StillFree, OnePerPhone,
           BookedSessionsStay, BookedBy, ConfirmedRows, Inserting, Writing
  <1> QED BY <1>2, <1>3, <1>4 DEF SeatInv, Safe

LEMMA ChangeStaged ==
  ASSUME NEW call \in ChangeCall, NEW stage \in {"row", "write"}
  PROVE  /\ [call EXCEPT !.stage = stage] \in ChangeCall
         /\ [call EXCEPT !.stage = stage].stage = stage
  BY DEF ChangeCall

LEMMA ChangesKeep ==
  ASSUME SeatInv, NEW r \in Numbers,
         \/ \E n \in Tickets : AskChange(r, n)
         \/ LockForChange(r) \/ LockRow(r) \/ ChangeAnswer(r)
  PROVE  SeatInv'
  <1>1. UNCHANGED <<session, bookings, booking, editing>>
    BY DEF AskChange, LockForChange, LockRow, ChangeAnswer, seatStore
  <1>2. CASE \E n \in Tickets : AskChange(r, n)
    <2>1. PICK n \in Tickets : AskChange(r, n)
      BY <1>2
    <2> DEFINE call == [stage |-> "session", tickets |-> n]
    <2>2. changes' = [changes EXCEPT ![r] = call]
      BY <2>1 DEF AskChange
    <2>3. call \in ChangeCall /\ call.stage # "write"
      BY DEF ChangeCall
    <2> HIDE DEF call
    <2> QED BY <1>1, <2>2, <2>3, ChangeMoves
  <1>3. CASE LockForChange(r)
    <2>1. changes[r] \in ChangeCall
      BY <1>3 DEF LockForChange, SeatInv, Shape
    <2> DEFINE call == [changes[r] EXCEPT !.stage = "row"]
    <2>2. changes' = [changes EXCEPT ![r] = call]
      BY <1>3 DEF LockForChange
    <2>3. call \in ChangeCall /\ call.stage # "write"
      BY <2>1, ChangeStaged
    <2> HIDE DEF call
    <2> QED BY <1>1, <2>2, <2>3, ChangeMoves
  <1>4. CASE LockRow(r)
    <2>1. changes[r] \in ChangeCall
      BY <1>4 DEF LockRow, SeatInv, Shape
    <2>2. CASE changes' = [changes EXCEPT ![r] = NoCall]
      BY <1>1, <2>2, ChangeMoves
    <2>3. CASE changes' # [changes EXCEPT ![r] = NoCall]
      <3> DEFINE call == [changes[r] EXCEPT !.stage = "write"]
      <3>1. changes' = [changes EXCEPT ![r] = call]
        BY <1>4, <2>3 DEF LockRow
      <3>2. call \in ChangeCall
        BY <2>1, ChangeStaged
      <3>3. bookings[r].status = "CONFIRMED"
        BY <1>4, <2>3 DEF LockRow
      <3> HIDE DEF call
      <3> QED BY <1>1, <3>1, <3>2, <3>3, ChangeMoves
    <2> QED BY <2>2, <2>3
  <1>5. CASE ChangeAnswer(r)
    <2>1. changes' = [changes EXCEPT ![r] = NoCall]
      BY <1>5 DEF ChangeAnswer
    <2> QED BY <1>1, <2>1, ChangeMoves
  <1> QED BY <1>2, <1>3, <1>4, <1>5

LEMMA TicketsWritten ==
  ASSUME SeatInv, NEW r \in Numbers, ChangeTicketCount(r)
  PROVE  SeatInv'
  <1>1. UNCHANGED <<session, booking, editing>>
    BY DEF ChangeTicketCount
  <1>2. bookings \in Seq(Row) /\ changes[r].tickets \in Tickets
    BY DEF SeatInv, Shape, ChangeTicketCount, ChangeCall
  <1>3. /\ bookings' \in Seq(Row) /\ DOMAIN bookings' = DOMAIN bookings
        /\ \A q \in DOMAIN bookings : /\ bookings'[q].phone = bookings[q].phone
                                      /\ bookings'[q].status = bookings[q].status
        /\ bookings = << >> => bookings' = << >>
    <2>1. bookings' = [bookings EXCEPT ![r].tickets = changes[r].tickets]
      BY DEF ChangeTicketCount
    <2>2. CASE r \notin DOMAIN bookings
      <3>1. bookings' = bookings
        BY <1>2, <2>1, <2>2
      <3> QED BY <1>2, <3>1
    <2>3. CASE r \in DOMAIN bookings
      <3>1. bookings[r] \in Row
        BY <1>2, <2>3, ElementOfSeq
      <3> DEFINE row == [bookings[r] EXCEPT !.tickets = changes[r].tickets]
      <3>2. /\ row \in Row
            /\ row.phone = bookings[r].phone /\ row.status = bookings[r].status
        BY <3>1, <1>2, RowWritten
      <3>3. bookings' = [bookings EXCEPT ![r] = row]
        BY <2>1
      <3> HIDE DEF row
      <3>4. bookings # << >>
        BY <2>3
      <3> QED BY <1>2, <2>3, <3>2, <3>3, <3>4, ReplacedRow
    <2> QED BY <2>2, <2>3
  <1>4. OneHolder' /\ StillFree' /\ OnePerPhone' /\ BookedSessionsStay'
    BY <1>1, <1>3, RowsOnlyEnd
  <1> DEFINE call == [stage |-> "answer", row |-> bookings'[r]]
  <1>5. changes' = [changes EXCEPT ![r] = call] /\ call.stage = "answer"
    BY DEF ChangeTicketCount, With
  <1> HIDE DEF call
  <1>6. \A q \in Numbers : changes'[q] = IF q = r THEN call ELSE changes[q]
    BY <1>5 DEF SeatInv, Shape
  <1>7. Shape'
    BY <1>1, <1>3, <1>5, <1>6 DEF SeatInv, Shape
  <1>8. LockedIsConfirmed'
    BY <1>3, <1>5, <1>6 DEF SeatInv, Safe, LockedIsConfirmed, RowLocked
  <1> QED BY <1>4, <1>7, <1>8 DEF SeatInv, Safe

LEMMA ReservationsKeep == ASSUME SeatInv, Reservations PROVE SeatInv'
  <1>1. CASE \E r \in Numbers : \/ Cancel(r) \/ SaveMemo(r)
                                \/ (\E n \in Tickets : AskChange(r, n))
                                \/ LockForChange(r) \/ LockRow(r)
                                \/ ChangeTicketCount(r) \/ ChangeAnswer(r)
    BY <1>1, CancelKeeps, MemoKeeps, ChangesKeep, TicketsWritten
  <1>2. CASE LoadList
    BY <1>2, SeatStutter
       DEF LoadList, core, seatStore, seatCalls, listCalls
  <1>3. CASE \E r \in Numbers : AskCancel(r) \/ ReadToCancel(r) \/ CancelAnswer(r)
    BY <1>3, SeatStutter
       DEF AskCancel, ReadToCancel, CancelAnswer, core, seatStore
  <1>4. CASE \E r \in Numbers : AskMemo(r) \/ ReadForMemo(r) \/ MemoAnswer(r)
    BY <1>4, SeatStutter DEF AskMemo, ReadForMemo, MemoAnswer, core, seatStore
  <1> QED BY <1>1, <1>2, <1>3, <1>4 DEF Reservations

-----------------------------------------------------------------------------
(* Steps of the show and the session.                                      *)

LEMMA EditStaged ==
  ASSUME NEW call \in EditCall
  PROVE  /\ [call EXCEPT !.stage = "write"] \in EditCall
         /\ [call EXCEPT !.stage = "write"].stage = "write"
  BY DEF EditCall

(* A session is edited, or ends while nobody booked it or is inserting.    *)
LEMMA SessionMoves ==
  ASSUME SeatInv, UNCHANGED <<bookings, booking, changes>>,
         session' \in [exists : BOOLEAN, seats : 0..MaxSeats, started : BOOLEAN],
         \/ session'.exists = session.exists
         \/ bookings = << >> /\ \A c \in VisitorTabs : ~Inserting(c),
         \/ editing' = editing \/ editing' = NoCall
         \/ editing' \in EditCall /\ editing'.stage # "write"
         \/ editing' \in EditCall /\ \A c \in VisitorTabs : ~Inserting(c)
  PROVE  SeatInv'
  <1>1. Shape'
    BY DEF SeatInv, Shape
  <1>2. OneHolder'
    BY DEF SeatInv, Safe, OneHolder, Inserting, Writing
  <1>3. StillFree'
    BY DEF SeatInv, Safe, StillFree, Inserting, BookedBy, ConfirmedRows
  <1>4. LockedIsConfirmed' /\ OnePerPhone'
    BY DEF SeatInv, Safe, LockedIsConfirmed, OnePerPhone, RowLocked,
           ConfirmedRows
  <1>5. BookedSessionsStay'
    BY DEF SeatInv, Safe, BookedSessionsStay
  <1> QED BY <1>1, <1>2, <1>3, <1>4, <1>5 DEF SeatInv, Safe

LEMMA ManageKeeps == ASSUME SeatInv, Manage PROVE SeatInv'
  <1>1. session \in [exists : BOOLEAN, seats : 0..MaxSeats, started : BOOLEAN]
    BY DEF SeatInv, Shape
  <1>2. ASSUME NEW n \in 0..MaxSeats, AskSession(n) PROVE SeatInv'
    <2> DEFINE call == [stage |-> "session", seats |-> n]
    <2>1. editing' = call /\ call \in EditCall /\ call.stage # "write"
      BY <1>2 DEF AskSession, EditCall
    <2>2. UNCHANGED <<session, bookings, booking, changes>>
      BY <1>2 DEF AskSession, seatStore, listCalls
    <2> HIDE DEF call
    <2> QED BY <1>1, <2>1, <2>2, SessionMoves
  <1>3. CASE LockForEdit
    <2>1. editing \in EditCall /\ \A c \in VisitorTabs : ~Inserting(c)
      BY <1>3 DEF LockForEdit, SessionLocked, Inserting, SeatInv, Shape
    <2>2. editing' = NoCall \/ editing' \in EditCall
      BY <1>3, <2>1, EditStaged DEF LockForEdit
    <2>3. UNCHANGED <<session, bookings, booking, changes>>
      BY <1>3 DEF LockForEdit, seatStore, listCalls
    <2> QED BY <1>1, <2>1, <2>2, <2>3, SessionMoves
  <1>4. CASE UpdateSession
    <2>1. editing.seats \in 0..MaxSeats
      BY <1>4 DEF UpdateSession, SeatInv, Shape, EditCall
    <2>2. /\ session' \in [exists : BOOLEAN, seats : 0..MaxSeats, started : BOOLEAN]
          /\ session'.exists = session.exists
      BY <1>1, <1>4, <2>1 DEF UpdateSession
    <2>3. editing' = NoCall /\ UNCHANGED <<bookings, booking, changes>>
      BY <1>4 DEF UpdateSession, listCalls
    <2> QED BY <2>2, <2>3, SessionMoves
  <1>5. CASE DeleteSession
    <2>1. \A c \in VisitorTabs : ~Inserting(c)
      BY <1>5 DEF DeleteSession, SeatInv, Safe, OneHolder, Writing
    <2>2. /\ session' \in [exists : BOOLEAN, seats : 0..MaxSeats, started : BOOLEAN]
          /\ session'.exists = session.exists \/ bookings = << >>
      BY <1>1, <1>5 DEF DeleteSession
    <2>3. editing' = NoCall /\ UNCHANGED <<bookings, booking, changes>>
      BY <1>5 DEF DeleteSession, listCalls
    <2> QED BY <2>1, <2>2, <2>3, SessionMoves
  <1>6. CASE StartSession
    <2>1. /\ session' \in [exists : BOOLEAN, seats : 0..MaxSeats, started : BOOLEAN]
          /\ session'.exists = session.exists
      BY <1>1, <1>6 DEF StartSession
    <2>2. UNCHANGED <<bookings, booking, changes, editing>>
      BY <1>6 DEF StartSession, seatCalls, listCalls
    <2> QED BY <2>1, <2>2, SessionMoves
  <1>7. CASE OpenShow \/ CloseShow \/ ChangeVisibility
    BY <1>7, SeatStutter DEF OpenShow, CloseShow, ChangeVisibility, core,
                             seatCalls, listCalls
  <1> QED BY <1>2, <1>3, <1>4, <1>5, <1>6, <1>7 DEF Manage

LEMMA SeatStep == SeatInv /\ [SeatNext]_seatVars => SeatInv'
  <1>1. ASSUME SeatInv, UNCHANGED seatVars PROVE SeatInv'
    BY <1>1, SeatStutter DEF seatVars, seatStore, seatCalls, listCalls, core
  <1> QED BY <1>1, BookKeeps, ReservationsKeep, ManageKeeps DEF SeatNext

(* The inductive invariant holds: what a booking found under the session's *)
(* lock stays so until it inserts, and a locked row stays confirmed.       *)
THEOREM SeatHolds == SeatSpec => []SeatInv
  BY SeatInitially, SeatStep, PTL DEF SeatSpec

(* No phone number is ever confirmed twice in a session, however many tabs *)
(* book with it and whatever the producer cancels, changes or edits.       *)
THEOREM OneConfirmedPerPhone == SeatSpec => []OnePerPhone
  <1>1. SeatInv => OnePerPhone
    BY DEF SeatInv, Safe
  <1> QED BY <1>1, SeatHolds, PTL

(* A session is deleted only while nobody has booked it, and nobody books  *)
(* a deleted one.                                                          *)
THEOREM BookedSessionsAreKept == SeatSpec => []BookedSessionsStay
  <1>1. SeatInv => BookedSessionsStay
    BY DEF SeatInv, Safe
  <1> QED BY <1>1, SeatHolds, PTL

-----------------------------------------------------------------------------
(* One row is overwritten, and it was not cancelled. *)
LEMMA OneRowWritten ==
  ASSUME NEW s \in Seq(Row), NEW r, NEW row,
         r \in DOMAIN s => s[r].status # "CANCELED"
  PROVE  \A q \in DOMAIN s :
           s[q].status = "CANCELED" => [s EXCEPT ![r] = row][q] = s[q]
  OBVIOUS

(* A booking that has ended keeps its row: an older copy of it is never    *)
(* written over it, and a change of tickets finds it under its lock.       *)
THEOREM CanceledStaysCanceled == SeatSpec => CanceledIsFinal
  <1> DEFINE Kept == \A r \in DOMAIN bookings :
                       bookings[r].status = "CANCELED" => bookings'[r] = bookings[r]
  <1>1. ASSUME SeatInv, [SeatNext]_seatVars PROVE [Kept]_bookings
    <2>1. bookings \in Seq(Row)
      BY <1>1 DEF SeatInv, Shape
    <2>2. ASSUME NEW c \in VisitorTabs, Insert(c) PROVE Kept
      <3>1. CASE bookings' = bookings
        BY <3>1
      <3>2. CASE bookings' # bookings
        <4>1. PICK row : row \in Row /\ bookings' = Append(bookings, row)
          <5> DEFINE row == [phone |-> booking[c].phone,
                             tickets |-> booking[c].tickets,
                             status |-> "CONFIRMED"]
          <5>1. bookings' = Append(bookings, row)
            BY <2>2, <3>2 DEF Insert
          <5>2. booking[c] \in VisitorCall
            BY <1>1, <2>2 DEF SeatInv, Shape, Insert
          <5>3. row \in Row
            BY <5>2 DEF VisitorCall, Row
          <5> QED BY <5>1, <5>3
        <4> QED BY <2>1, <4>1
      <3> QED BY <3>1, <3>2
    <2>3. ASSUME NEW r \in Numbers, Cancel(r) PROVE Kept
      <3>1. CASE bookings' = bookings
        BY <3>1
      <3>2. CASE bookings' # bookings
        <4>1. bookings' = [bookings EXCEPT ![r].status = "CANCELED"]
          BY <2>3, <3>2 DEF Cancel
        <4>2. \A q \in DOMAIN bookings : q # r => bookings'[q] = bookings[q]
          BY <2>1, <4>1
        <4>3. ASSUME r \in DOMAIN bookings, bookings[r].status = "CANCELED"
              PROVE  bookings'[r] = bookings[r]
          <5>1. bookings[r] \in Row
            BY <2>1, <4>3, ElementOfSeq
          <5>2. [bookings[r] EXCEPT !.status = "CANCELED"] = bookings[r]
            BY <4>3, <5>1 DEF Row
          <5> QED BY <2>1, <4>1, <4>3, <5>2
        <4> QED BY <4>2, <4>3
      <3> QED BY <3>1, <3>2
    <2>4. ASSUME NEW r \in Numbers, ChangeTicketCount(r) PROVE Kept
      <3>1. r \in DOMAIN bookings => bookings[r].status = "CONFIRMED"
        BY <1>1, <2>4 DEF SeatInv, Safe, LockedIsConfirmed, RowLocked,
                          ChangeTicketCount
      <3> DEFINE row == [bookings[r] EXCEPT !.tickets = changes[r].tickets]
      <3>2. bookings' = [bookings EXCEPT ![r] = row]
        BY <2>4 DEF ChangeTicketCount
      <3> HIDE DEF row
      <3> QED BY <2>1, <3>1, <3>2, OneRowWritten
    <2>5. ASSUME NEW r \in Numbers, SaveMemo(r) PROVE bookings' = bookings
      BY <2>5, <2>1 DEF SaveMemo, MemoWrites
    <2>6. CASE Book
      BY <2>6, <2>2 DEF Book, SubmitBooking, LockShow, LockSession, seatStore
    <2>7. CASE Reservations
      BY <2>7, <2>3, <2>4, <2>5
         DEF Reservations, LoadList, AskCancel, ReadToCancel, CancelAnswer,
             AskMemo, ReadForMemo, MemoAnswer, AskChange, LockForChange,
             LockRow, ChangeAnswer, seatStore
    <2>8. CASE Manage
      BY <2>8 DEF Manage, AskSession, LockForEdit, UpdateSession,
                  DeleteSession, OpenShow, CloseShow, ChangeVisibility,
                  StartSession, seatStore
    <2>9. CASE UNCHANGED seatVars
      BY <2>9 DEF seatVars, seatStore
    <2> QED BY <1>1, <2>6, <2>7, <2>8, <2>9 DEF SeatNext
  <1>2. SeatInv /\ [SeatNext]_seatVars => [Kept]_bookings
    BY <1>1
  <1> QED BY <1>2, SeatHolds, PTL DEF SeatSpec, CanceledIsFinal

-----------------------------------------------------------------------------
(* Counting tickets.                                                       *)

Held(rows, S) == Cardinality(TicketsOf(rows, S))

LEMMA TicketsAreFinite ==
  ASSUME NEW rows, NEW S, IsFiniteSet(S)
  PROVE  IsFiniteSet(TicketsOf(rows, S)) /\ Held(rows, S) \in Nat
<1>1. IsFiniteSet(Tickets)
  BY FS_Interval, SeatAssumption DEF Tickets
<1>2. IsFiniteSet(S \X Tickets)
  BY <1>1, FS_Product
<1>3. TicketsOf(rows, S) \in SUBSET (S \X Tickets)
  BY DEF TicketsOf
<1>4. IsFiniteSet(TicketsOf(rows, S))
  BY <1>2, <1>3, FS_Subset
<1> QED
  BY <1>4, FS_CardinalityType DEF Held

LEMMA SameTickets ==
  ASSUME NEW rows, NEW new, NEW S, \A r \in S : new[r].tickets = rows[r].tickets
  PROVE  Held(new, S) = Held(rows, S)
<1>1. TicketsOf(new, S) = TicketsOf(rows, S)
  BY DEF TicketsOf
<1> QED
  BY <1>1 DEF Held

LEMMA FewerRows ==
  ASSUME NEW rows, NEW T, IsFiniteSet(T), NEW S \in SUBSET T
  PROVE  Held(rows, S) <= Held(rows, T)
<1>1. IsFiniteSet(TicketsOf(rows, T))
  BY TicketsAreFinite
<1>2. TicketsOf(rows, S) \in SUBSET TicketsOf(rows, T)
  BY DEF TicketsOf
<1> QED
  BY <1>1, <1>2, FS_Subset DEF Held

LEMMA FirstNumbers ==
  ASSUME NEW n \in Nat
  PROVE  IsFiniteSet(1..n) /\ Cardinality(1..n) = n
BY FS_Interval

LEMMA FitsWithFewer ==
  ASSUME NEW a \in Nat, NEW b \in Nat, NEW c \in Nat, NEW d \in Nat, a <= b, b + c <= d
  PROVE  a + c <= d
OBVIOUS

(* One more row adds its tickets. *)
LEMMA OneMoreRow ==
  ASSUME NEW rows, NEW S, IsFiniteSet(S), NEW r, r \notin S, rows[r].tickets \in Tickets
  PROVE  Held(rows, S \cup {r}) = Held(rows, S) + rows[r].tickets
<1> DEFINE n == rows[r].tickets
           one == {r} \X (1..n)
<1>1. n \in Nat /\ n \in Int /\ 1..n \subseteq Tickets
  BY SeatAssumption DEF Tickets
<1>2. IsFiniteSet({r}) /\ Cardinality({r}) = 1
  BY FS_Singleton
<1>3. IsFiniteSet(1..n) /\ Cardinality(1..n) = n
  BY <1>1, FirstNumbers
<1>4. IsFiniteSet(one) /\ Cardinality(one) = Cardinality({r}) * Cardinality(1..n)
  BY <1>2, <1>3, FS_Product
<1>5. Cardinality(one) = n
  BY <1>1, <1>2, <1>3, <1>4
<1>6. TicketsOf(rows, S \cup {r}) = TicketsOf(rows, S) \cup one
  <2>1. ASSUME NEW held \in TicketsOf(rows, S \cup {r})
        PROVE  held \in TicketsOf(rows, S) \cup one
    <3>1. PICK q \in S \cup {r}, k \in Tickets : held = <<q, k>> /\ k <= rows[q].tickets
      BY <2>1 DEF TicketsOf
    <3>2. CASE q = r
      BY <1>1, <3>1, <3>2 DEF Tickets
    <3>3. CASE q \in S
      BY <3>1, <3>3 DEF TicketsOf
    <3> QED
      BY <3>1, <3>2, <3>3
  <2>2. ASSUME NEW held \in TicketsOf(rows, S) \cup one
        PROVE  held \in TicketsOf(rows, S \cup {r})
    <3>1. CASE held \in TicketsOf(rows, S)
      BY <3>1 DEF TicketsOf
    <3>2. CASE held \in one
      <4>1. PICK k \in 1..n : held = <<r, k>>
        BY <3>2
      <4>2. k \in Tickets /\ k <= rows[r].tickets
        BY <1>1, <4>1
      <4> QED
        BY <4>1, <4>2 DEF TicketsOf
    <3> QED
      BY <2>2, <3>1, <3>2
  <2> QED
    BY <2>1, <2>2
<1>7. TicketsOf(rows, S) \cap one = {}
  BY DEF TicketsOf
<1>8. IsFiniteSet(TicketsOf(rows, S)) /\ Cardinality(TicketsOf(rows, S)) \in Nat
  BY TicketsAreFinite DEF Held
<1> HIDE DEF one
<1>9. Cardinality(TicketsOf(rows, S) \cup one)
        = Cardinality(TicketsOf(rows, S)) + Cardinality(one)
            - Cardinality(TicketsOf(rows, S) \cap one)
  BY <1>4, <1>8, FS_Union
<1>10. Cardinality(TicketsOf(rows, S) \cap one) = 0
  BY <1>7, FS_EmptySet
<1> HIDE DEF n
<1>11. Held(rows, S \cup {r}) = Cardinality(TicketsOf(rows, S) \cup one)
  BY <1>6 DEF Held
<1>12. Held(rows, S \cup {r}) = Held(rows, S) + n
  BY <1>1, <1>5, <1>8, <1>9, <1>10, <1>11 DEF Held
<1> QED
  BY <1>12 DEF n

-----------------------------------------------------------------------------
(* The tickets fit the seats.                                              *)

Changing(r) == changes[r] # NoCall /\ changes[r].stage \in {"row", "write"}

(* A change of tickets that holds the session holds it alone. *)
ChangesAlone ==
  /\ \A r \in Numbers : Changing(r) => ~Writing /\ \A c \in VisitorTabs : ~Inserting(c)
  /\ \A q, r \in Numbers : Changing(q) /\ Changing(r) => q = r

(* The tickets about to be written fit beside the other confirmed ones.    *)
ChangeFits ==
  \A r \in Numbers \cap DOMAIN bookings :
    RowLocked(r) => Held(bookings, ConfirmedRows \ {r}) + changes[r].tickets <= session.seats

FitInv == ChangesAlone /\ ChangeFits /\ SeatsFit

LEMMA ConfirmedFinite ==
  ASSUME SeatInv
  PROVE  /\ IsFiniteSet(ConfirmedRows) /\ session.seats \in Nat
         /\ \A r : IsFiniteSet(ConfirmedRows \ {r})
         /\ \A r \in DOMAIN bookings : bookings[r] \in Row /\ bookings[r].tickets \in Tickets
<1>1. bookings \in Seq(Row) /\ session.seats \in Nat
  BY SeatAssumption DEF SeatInv, Shape
<1>2. DOMAIN bookings = 1..Len(bookings) /\ Len(bookings) \in Nat
  BY <1>1
<1>3. IsFiniteSet(DOMAIN bookings)
  BY <1>2, FS_Interval
<1>4. ConfirmedRows \in SUBSET (DOMAIN bookings)
  BY DEF ConfirmedRows
<1>5. IsFiniteSet(ConfirmedRows)
  BY <1>3, <1>4, FS_Subset
<1>6. \A r : IsFiniteSet(ConfirmedRows \ {r})
  BY <1>5, FS_RemoveElement
<1>7. \A r \in DOMAIN bookings : bookings[r] \in Row
  BY <1>1, ElementOfSeq
<1>8. \A r \in DOMAIN bookings : bookings[r].tickets \in Tickets
  BY <1>7 DEF Row
<1> QED
  BY <1>1, <1>5, <1>6, <1>7, <1>8

(* Where nothing is counted anew, and no one takes the session. *)
LEMMA FitStutter ==
  ASSUME FitInv, UNCHANGED <<bookings, changes>>, session'.seats = session.seats,
         \A c \in VisitorTabs : Inserting(c)' => Inserting(c),
         Writing' => Writing
  PROVE  FitInv'
<1>1. ChangesAlone'
  BY DEF FitInv, ChangesAlone, Changing
<1>2. ChangeFits' /\ SeatsFit'
  BY DEF FitInv, ChangeFits, SeatsFit, RowLocked, ConfirmedRows, Held, TicketsIn
<1> QED
  BY <1>1, <1>2 DEF FitInv

(* Someone takes the session who found it unlocked. *)
LEMMA FitTaken ==
  ASSUME FitInv, UNCHANGED <<bookings, changes, session>>, ~SessionLocked
  PROVE  FitInv'
<1>1. \A r \in Numbers : ~Changing(r)
  BY DEF SessionLocked, Changing
<1>2. ChangesAlone'
  BY <1>1 DEF ChangesAlone, Changing
<1>3. ChangeFits' /\ SeatsFit'
  BY DEF FitInv, ChangeFits, SeatsFit, RowLocked, ConfirmedRows, Held, TicketsIn
<1> QED
  BY <1>2, <1>3 DEF FitInv

LEMMA InsertFits ==
  ASSUME SeatInv, FitInv, NEW c \in VisitorTabs, Insert(c)
  PROVE  FitInv'
<1>1. /\ booking[c] \in VisitorCall /\ Inserting(c)
      /\ booking' = [booking EXCEPT ![c] = NoCall]
      /\ UNCHANGED <<session, changes, editing>>
  BY DEF SeatInv, Shape, Insert, Inserting, Refused, listCalls
<1>2. \A r \in Numbers : ~Changing(r)
  BY <1>1 DEF FitInv, ChangesAlone
<1>3. ChangesAlone' /\ ChangeFits'
  BY <1>1, <1>2 DEF ChangesAlone, ChangeFits, Changing, RowLocked
<1>4. CASE bookings' = bookings
  BY <1>1, <1>3, <1>4 DEF FitInv, SeatsFit, TicketsIn, ConfirmedRows
<1>5. CASE bookings' # bookings
  <2> DEFINE row == [phone |-> booking[c].phone,
                     tickets |-> booking[c].tickets, status |-> "CONFIRMED"]
             n == Len(bookings) + 1
  <2>1. /\ bookings' = Append(bookings, row)
        /\ booking[c].tickets <= session.seats - Held(bookings, ConfirmedRows)
    BY <1>5 DEF Insert, RemainingSeats, TicketsIn, Held
  <2>2. row \in Row /\ row.tickets = booking[c].tickets /\ row.tickets \in Tickets
        /\ row.status = "CONFIRMED"
    BY <1>1 DEF VisitorCall, Row
  <2> HIDE DEF row
  <2>3. bookings \in Seq(Row)
    BY DEF SeatInv, Shape
  <2>4. /\ DOMAIN bookings' = DOMAIN bookings \cup {n}
        /\ \A q \in DOMAIN bookings : bookings'[q] = bookings[q]
        /\ bookings'[n] = row
        /\ n \notin DOMAIN bookings
    BY <2>1, <2>2, <2>3
  <2> HIDE DEF n
  <2>5. ConfirmedRows' = ConfirmedRows \cup {n}
    BY <2>2, <2>4 DEF ConfirmedRows
  <2>6. n \notin ConfirmedRows /\ \A q \in ConfirmedRows : bookings'[q] = bookings[q]
    BY <2>4 DEF ConfirmedRows
  <2>7. Held(bookings', ConfirmedRows \cup {n}) = Held(bookings', ConfirmedRows) + row.tickets
    BY <2>2, <2>4, <2>6, ConfirmedFinite, OneMoreRow
  <2>8. Held(bookings', ConfirmedRows) = Held(bookings, ConfirmedRows)
    BY <2>6, SameTickets
  <2>9. Held(bookings, ConfirmedRows) \in Nat /\ session.seats \in Nat /\ row.tickets \in Nat
    BY <2>2, ConfirmedFinite, TicketsAreFinite DEF Tickets
  <2>10. Held(bookings', ConfirmedRows') <= session.seats
    BY <2>1, <2>2, <2>5, <2>7, <2>8, <2>9
  <2>11. SeatsFit'
    BY <1>1, <2>10 DEF SeatsFit, TicketsIn, Held
  <2> QED
    BY <1>3, <2>11 DEF FitInv
<1> QED
  BY <1>4, <1>5

(* Bookings end, and others stay as they are. *)
LEMMA CancelFits ==
  ASSUME SeatInv, FitInv, NEW r \in Numbers, Cancel(r)
  PROVE  FitInv'
<1>1. UNCHANGED <<session, booking, changes, editing>>
  BY DEF Cancel
<1>2. bookings \in Seq(Row)
  BY DEF SeatInv, Shape
<1>3. /\ DOMAIN bookings' = DOMAIN bookings
      /\ \A q \in DOMAIN bookings : /\ bookings'[q].tickets = bookings[q].tickets
                                    /\ bookings'[q].status = "CONFIRMED" =>
                                         bookings[q].status = "CONFIRMED"
  <2>1. CASE bookings' = bookings
    BY <2>1
  <2>2. CASE bookings' = [bookings EXCEPT ![r].status = "CANCELED"]
    <3>1. CASE r \in DOMAIN bookings
      <4>1. bookings[r] \in Row
        BY <3>1, ConfirmedFinite
      <4> DEFINE row == [bookings[r] EXCEPT !.status = "CANCELED"]
      <4>2. row.tickets = bookings[r].tickets /\ row.status = "CANCELED"
        BY <4>1 DEF Row
      <4>3. bookings' = [bookings EXCEPT ![r] = row]
        BY <2>2
      <4> HIDE DEF row
      <4> QED
        BY <1>2, <4>2, <4>3
    <3>2. CASE r \notin DOMAIN bookings
      BY <1>2, <2>2, <3>2
    <3> QED
      BY <3>1, <3>2
  <2> QED
    BY <2>1, <2>2 DEF Cancel
<1>4. ConfirmedRows' \in SUBSET ConfirmedRows
      /\ \A q \in ConfirmedRows : bookings'[q].tickets = bookings[q].tickets
  BY <1>3 DEF ConfirmedRows
<1>5. ASSUME NEW q
      PROVE  /\ Held(bookings', ConfirmedRows' \ {q}) <= Held(bookings, ConfirmedRows \ {q})
             /\ Held(bookings', ConfirmedRows' \ {q}) \in Nat
             /\ Held(bookings, ConfirmedRows \ {q}) \in Nat
  <2>1. Held(bookings', ConfirmedRows' \ {q}) = Held(bookings, ConfirmedRows' \ {q})
    BY <1>4, SameTickets
  <2>2. IsFiniteSet(ConfirmedRows \ {q}) /\ ConfirmedRows' \ {q} \in SUBSET (ConfirmedRows \ {q})
    BY <1>4, ConfirmedFinite
  <2>3. IsFiniteSet(ConfirmedRows' \ {q})
    BY <2>2, FS_Subset
  <2> QED
    BY <2>1, <2>2, <2>3, FewerRows, TicketsAreFinite
<1>6. /\ Held(bookings', ConfirmedRows') <= Held(bookings, ConfirmedRows)
      /\ Held(bookings', ConfirmedRows') \in Nat /\ Held(bookings, ConfirmedRows) \in Nat
  <2>1. Held(bookings', ConfirmedRows') = Held(bookings, ConfirmedRows')
    BY <1>4, SameTickets
  <2>2. IsFiniteSet(ConfirmedRows')
    BY <1>4, ConfirmedFinite, FS_Subset
  <2> QED
    BY <1>4, <2>1, <2>2, ConfirmedFinite, FewerRows, TicketsAreFinite
<1>7. ChangesAlone'
  BY <1>1 DEF FitInv, ChangesAlone, Changing, Inserting, Writing
<1>8. ChangeFits'
  <2> SUFFICES ASSUME NEW q \in Numbers \cap DOMAIN bookings, RowLocked(q)
               PROVE  Held(bookings', ConfirmedRows' \ {q}) + changes[q].tickets <= session.seats
    BY <1>1, <1>3 DEF ChangeFits, RowLocked
  <2>1. Held(bookings, ConfirmedRows \ {q}) + changes[q].tickets <= session.seats
    BY DEF FitInv, ChangeFits
  <2>2. changes[q].tickets \in Nat /\ session.seats \in Nat
    BY ConfirmedFinite DEF SeatInv, Shape, RowLocked, ChangeCall, Tickets
  <2> DEFINE a == Held(bookings', ConfirmedRows' \ {q})
             b == Held(bookings, ConfirmedRows \ {q})
  <2>3. a \in Nat /\ b \in Nat /\ a <= b
    BY <1>5
  <2>4. b + changes[q].tickets <= session.seats
    BY <2>1
  <2> HIDE DEF a, b
  <2>5. a + changes[q].tickets <= session.seats
    BY <2>2, <2>3, <2>4, FitsWithFewer
  <2> QED
    BY <2>5 DEF a
<1>9. SeatsFit'
  BY <1>1, <1>6, ConfirmedFinite DEF FitInv, SeatsFit, TicketsIn, Held
<1> QED
  BY <1>7, <1>8, <1>9 DEF FitInv

(* The row is overwritten by what was found to fit beside the others.      *)
LEMMA TicketsFit ==
  ASSUME SeatInv, FitInv, NEW r \in Numbers, ChangeTicketCount(r)
  PROVE  FitInv'
<1>1. /\ UNCHANGED <<session, booking, editing>> /\ Changing(r) /\ RowLocked(r)
      /\ bookings' = [bookings EXCEPT ![r].tickets = changes[r].tickets]
  BY DEF ChangeTicketCount, Changing, RowLocked
<1>2. bookings \in Seq(Row) /\ changes[r].tickets \in Tickets
  BY <1>1 DEF SeatInv, Shape, RowLocked, ChangeCall
<1> DEFINE call == [stage |-> "answer", row |-> bookings'[r]]
<1>3. changes' = [changes EXCEPT ![r] = call] /\ call.stage = "answer"
  BY DEF ChangeTicketCount, With
<1> HIDE DEF call
<1>4. \A q \in Numbers : changes'[q] = IF q = r THEN call ELSE changes[q]
  BY <1>3 DEF SeatInv, Shape
<1>5. \A q \in Numbers : ~Changing(q)'
  BY <1>1, <1>3, <1>4 DEF FitInv, ChangesAlone, Changing
<1>6. ChangesAlone' /\ ChangeFits'
  BY <1>5 DEF ChangesAlone, ChangeFits, Changing, RowLocked
<1>7. CASE r \notin DOMAIN bookings
  <2>1. bookings' = bookings
    BY <1>1, <1>2, <1>7
  <2> QED
    BY <1>1, <1>6, <2>1 DEF FitInv, SeatsFit, TicketsIn, ConfirmedRows
<1>8. CASE r \in DOMAIN bookings
  <2> DEFINE row == [bookings[r] EXCEPT !.tickets = changes[r].tickets]
             others == ConfirmedRows \ {r}
  <2>1. row.tickets = changes[r].tickets /\ row.status = "CONFIRMED" /\ r \in ConfirmedRows
    <3>1. bookings[r] \in Row /\ bookings[r].status = "CONFIRMED"
      BY <1>1, <1>8, ConfirmedFinite DEF SeatInv, Safe, LockedIsConfirmed
    <3> QED
      BY <1>8, <3>1 DEF Row, ConfirmedRows
  <2>2. bookings' = [bookings EXCEPT ![r] = row]
    BY <1>1
  <2> HIDE DEF row
  <2>3. /\ DOMAIN bookings' = DOMAIN bookings /\ bookings'[r] = row
        /\ \A q \in DOMAIN bookings \ {r} : bookings'[q] = bookings[q]
    BY <1>2, <1>8, <2>2
  <2>4. ConfirmedRows' = others \cup {r}
    BY <2>1, <2>3 DEF ConfirmedRows
  <2>5. IsFiniteSet(others) /\ r \notin others
        /\ \A q \in others : bookings'[q].tickets = bookings[q].tickets
    BY <2>3, ConfirmedFinite DEF ConfirmedRows
  <2>6. Held(bookings, others) + changes[r].tickets <= session.seats
    BY <1>1, <1>8 DEF FitInv, ChangeFits
  <2> HIDE DEF others
  <2>7. Held(bookings', others \cup {r}) = Held(bookings', others) + changes[r].tickets
    BY <1>2, <2>1, <2>3, <2>5, OneMoreRow
  <2>8. Held(bookings', others) = Held(bookings, others)
    BY <2>5, SameTickets
  <2>9. Held(bookings', ConfirmedRows') <= session.seats
    BY <2>4, <2>6, <2>7, <2>8
  <2>10. SeatsFit'
    BY <1>1, <2>9 DEF SeatsFit, TicketsIn, Held
  <2> QED
    BY <1>6, <2>10 DEF FitInv
<1> QED
  BY <1>7, <1>8

(* A change of tickets that takes a lock, or ends. *)
LEMMA ChangesFit ==
  ASSUME SeatInv, FitInv, NEW r \in Numbers,
         \/ \E n \in Tickets : AskChange(r, n)
         \/ LockForChange(r) \/ LockRow(r) \/ ChangeAnswer(r)
  PROVE  FitInv'
<1>1. UNCHANGED <<session, bookings, booking, editing>>
  BY DEF AskChange, LockForChange, LockRow, ChangeAnswer, seatStore
<1>2. SeatsFit'
  BY <1>1 DEF FitInv, SeatsFit, TicketsIn, ConfirmedRows
<1>3. ASSUME NEW call, changes' = [changes EXCEPT ![r] = call],
             call = NoCall \/ call.stage \notin {"row", "write"}
      PROVE  FitInv'
  <2>1. \A q \in Numbers : changes'[q] = IF q = r THEN call ELSE changes[q]
    BY <1>3 DEF SeatInv, Shape
  <2>2. \A q \in Numbers : /\ Changing(q)' => Changing(q)
                           /\ RowLocked(q)' => RowLocked(q) /\ changes'[q] = changes[q]
    BY <1>3, <2>1 DEF Changing, RowLocked
  <2>3. ChangesAlone'
    BY <1>1, <2>2 DEF FitInv, ChangesAlone, Inserting, Writing
  <2>4. ChangeFits'
    BY <1>1, <2>2 DEF FitInv, ChangeFits, ConfirmedRows, Held
  <2> QED
    BY <1>2, <2>3, <2>4 DEF FitInv
<1>4. CASE \E n \in Tickets : AskChange(r, n)
  <2>1. PICK n \in Tickets : AskChange(r, n)
    BY <1>4
  <2> DEFINE call == [stage |-> "session", tickets |-> n]
  <2>2. changes' = [changes EXCEPT ![r] = call] /\ call.stage = "session"
    BY <2>1 DEF AskChange
  <2> HIDE DEF call
  <2> QED
    BY <1>3, <2>2
<1>5. CASE LockForChange(r)
  <2>1. changes[r] \in ChangeCall /\ ~SessionLocked
    BY <1>5 DEF LockForChange, SeatInv, Shape
  <2> DEFINE call == [changes[r] EXCEPT !.stage = "row"]
  <2>2. changes' = [changes EXCEPT ![r] = call]
    BY <1>5 DEF LockForChange
  <2>3. call.stage = "row"
    BY <2>1, ChangeStaged
  <2> HIDE DEF call
  <2>4. \A q \in Numbers : changes'[q] = IF q = r THEN call ELSE changes[q]
    BY <2>2 DEF SeatInv, Shape
  <2>5. /\ ~Writing /\ \A c \in VisitorTabs : ~Inserting(c)
        /\ \A q \in Numbers : ~Changing(q)
    BY <2>1 DEF SessionLocked, Writing, Inserting, Changing
  <2>6. ChangesAlone'
    BY <1>1, <2>4, <2>5 DEF ChangesAlone, Changing, Inserting, Writing
  <2>7. \A q \in Numbers : ~RowLocked(q)'
    BY <2>3, <2>4, <2>5 DEF Changing, RowLocked
  <2>8. ChangeFits'
    BY <2>7 DEF ChangeFits
  <2> QED
    BY <1>2, <2>6, <2>8 DEF FitInv
<1>6. CASE LockRow(r)
  <2>1. changes[r] \in ChangeCall /\ Changing(r)
    BY <1>6 DEF LockRow, SeatInv, Shape, Changing
  <2>2. CASE changes' = [changes EXCEPT ![r] = NoCall]
    BY <1>3, <2>2
  <2>3. CASE changes' # [changes EXCEPT ![r] = NoCall]
    <3> DEFINE call == [changes[r] EXCEPT !.stage = "write"]
    <3>1. /\ changes' = [changes EXCEPT ![r] = call]
          /\ changes[r].tickets <= session.seats - Held(bookings, ConfirmedRows \ {r})
      BY <1>6, <2>3 DEF LockRow, RemainingSeats, TicketsIn, Held
    <3>2. call.tickets = changes[r].tickets /\ changes[r].tickets \in Nat
      BY <2>1 DEF ChangeCall, Tickets
    <3> HIDE DEF call
    <3>3. \A q \in Numbers : changes'[q] = IF q = r THEN call ELSE changes[q]
      BY <3>1 DEF SeatInv, Shape
    <3>4. \A q \in Numbers : Changing(q)' => q = r
      BY <2>1, <3>3 DEF FitInv, ChangesAlone, Changing
    <3>5. ChangesAlone'
      BY <1>1, <2>1, <3>4 DEF FitInv, ChangesAlone, Inserting, Writing
    <3>6. Held(bookings, ConfirmedRows \ {r}) \in Nat /\ session.seats \in Nat
      BY ConfirmedFinite, TicketsAreFinite
    <3>7. Held(bookings, ConfirmedRows \ {r}) + call.tickets <= session.seats
      BY <3>1, <3>2, <3>6
    <3>8. \A q \in Numbers : RowLocked(q)' => q = r
      BY <3>4 DEF Changing, RowLocked
    <3>9. ChangeFits'
      BY <1>1, <3>3, <3>7, <3>8 DEF ChangeFits, ConfirmedRows, Held
    <3> QED
      BY <1>2, <3>5, <3>9 DEF FitInv
  <2> QED
    BY <2>2, <2>3
<1>7. CASE ChangeAnswer(r)
  BY <1>3, <1>7 DEF ChangeAnswer
<1> QED
  BY <1>4, <1>5, <1>6, <1>7

LEMMA BookFits == ASSUME SeatInv, FitInv, Book PROVE FitInv'
<1>1. ASSUME NEW c \in VisitorTabs, NEW p \in Phones, NEW n \in Tickets, SubmitBooking(c, p, n)
      PROVE  FitInv'
  <2>1. booking' = [booking EXCEPT ![c] = [stage |-> "show", phone |-> p, tickets |-> n]]
        /\ UNCHANGED <<session, bookings, changes, editing>>
    BY <1>1 DEF SubmitBooking, seatStore, listCalls
  <2>2. \A d \in VisitorTabs : Inserting(d)' => Inserting(d)
    BY <2>1 DEF SeatInv, Shape, Inserting
  <2> QED
    BY <2>1, <2>2, FitStutter DEF Writing
<1>2. ASSUME NEW c \in VisitorTabs, LockShow(c)
      PROVE  FitInv'
  <2>1. /\ booking' = [booking EXCEPT ![c] = NoCall]
           \/ booking' = [booking EXCEPT ![c] = [booking[c] EXCEPT !.stage = "session"]]
        /\ booking[c] \in VisitorCall
        /\ UNCHANGED <<session, bookings, changes, editing>>
    BY <1>2 DEF LockShow, SeatInv, Shape, seatStore, listCalls, Refused, To
  <2>2. [booking[c] EXCEPT !.stage = "session"].stage = "session"
    BY <2>1, BookingStaged
  <2>3. \A d \in VisitorTabs : Inserting(d)' => Inserting(d)
    BY <2>1, <2>2 DEF SeatInv, Shape, Inserting
  <2> QED
    BY <2>1, <2>3, FitStutter DEF Writing
<1>3. ASSUME NEW c \in VisitorTabs, LockSession(c)
      PROVE  FitInv'
  BY <1>3, FitTaken DEF LockSession, seatStore, listCalls
<1> QED
  BY <1>1, <1>2, <1>3, InsertFits DEF Book

LEMMA ReservationsFit == ASSUME SeatInv, FitInv, Reservations PROVE FitInv'
<1>1. CASE UNCHANGED <<session, bookings, booking, changes, editing>>
  BY <1>1, FitStutter DEF Inserting, Writing
<1>2. ASSUME NEW r \in Numbers, SaveMemo(r)
      PROVE  UNCHANGED <<session, bookings, booking, changes, editing>>
  BY <1>2 DEF SaveMemo, MemoWrites, SeatInv, Shape
<1>3. CASE LoadList \/ \E r \in Numbers : \/ AskCancel(r) \/ ReadToCancel(r) \/ CancelAnswer(r)
                                          \/ AskMemo(r) \/ ReadForMemo(r) \/ MemoAnswer(r)
  BY <1>1, <1>3 DEF LoadList, AskCancel, ReadToCancel, CancelAnswer, AskMemo, ReadForMemo,
                    MemoAnswer, seatStore, seatCalls, listCalls
<1> QED
  BY <1>1, <1>2, <1>3, CancelFits, TicketsFit, ChangesFit DEF Reservations

LEMMA ManageFits == ASSUME SeatInv, FitInv, Manage PROVE FitInv'
<1>1. ASSUME UNCHANGED <<bookings, booking, changes>>, session'.seats = session.seats,
             Writing' => Writing
      PROVE  FitInv'
  BY <1>1, FitStutter DEF Inserting
<1>2. session \in [exists : BOOLEAN, seats : 0..MaxSeats, started : BOOLEAN]
  BY DEF SeatInv, Shape
<1>3. ASSUME NEW n \in 0..MaxSeats, AskSession(n) PROVE FitInv'
  BY <1>1, <1>3 DEF AskSession, seatStore, listCalls, Writing
<1>4. CASE LockForEdit
  BY <1>4, FitTaken DEF LockForEdit, seatStore, listCalls
<1>5. CASE UpdateSession
  <2>1. /\ Writing /\ editing' = NoCall /\ UNCHANGED <<bookings, booking, changes>>
        /\ session' = (IF editing.seats >= TicketsIn(ConfirmedRows)
                       THEN [session EXCEPT !.seats = editing.seats, !.started = FALSE]
                       ELSE session)
    BY <1>5 DEF UpdateSession, Writing, listCalls
  <2>2. \A r \in Numbers : ~Changing(r)
    BY <2>1 DEF FitInv, ChangesAlone
  <2>3. ChangesAlone' /\ ChangeFits'
    BY <2>1, <2>2 DEF ChangesAlone, ChangeFits, Changing, RowLocked
  <2>4. session'.seats >= TicketsIn(ConfirmedRows)
    <3>1. CASE editing.seats >= TicketsIn(ConfirmedRows)
      BY <1>2, <2>1, <3>1
    <3>2. CASE ~(editing.seats >= TicketsIn(ConfirmedRows))
      <4>1. TicketsIn(ConfirmedRows) \in Nat /\ session.seats \in Nat
        BY ConfirmedFinite, TicketsAreFinite DEF TicketsIn, Held
      <4> QED
        BY <2>1, <3>2, <4>1 DEF FitInv, SeatsFit
    <3> QED
      BY <3>1, <3>2
  <2>5. SeatsFit'
    <3>1. TicketsIn(ConfirmedRows)' = TicketsIn(ConfirmedRows)
      BY <2>1 DEF TicketsIn, ConfirmedRows
    <3>2. TicketsIn(ConfirmedRows) \in Nat
      BY ConfirmedFinite, TicketsAreFinite DEF TicketsIn, Held
    <3> QED
      BY <2>4, <3>1, <3>2 DEF SeatsFit
  <2> QED
    BY <2>3, <2>5 DEF FitInv
<1>6. CASE DeleteSession
  <2>1. session'.seats = session.seats
    BY <1>2, <1>6 DEF DeleteSession
  <2> QED
    BY <1>1, <1>6, <2>1 DEF DeleteSession, Writing, listCalls
<1>7. CASE StartSession
  <2>1. session'.seats = session.seats
    BY <1>2, <1>7 DEF StartSession
  <2> QED
    BY <1>1, <1>7, <2>1 DEF StartSession, Writing, seatCalls, listCalls
<1>8. CASE OpenShow \/ CloseShow \/ ChangeVisibility
  BY <1>1, <1>8 DEF OpenShow, CloseShow, ChangeVisibility, seatCalls, listCalls, Writing
<1> QED
  BY <1>3, <1>4, <1>5, <1>6, <1>7, <1>8 DEF Manage

(* Counting tickets finds the seats taken, and whoever holds the session   *)
(* keeps others from changing what it counted.                             *)
THEOREM FitHolds == SeatSpec => []FitInv
<1>1. SeatInit => FitInv
  <2> SUFFICES ASSUME SeatInit PROVE FitInv
    OBVIOUS
  <2>1. ConfirmedRows = {} /\ bookings = << >> /\ session.seats = MaxSeats
    BY DEF SeatInit, ConfirmedRows
  <2>2. TicketsOf(bookings, ConfirmedRows) = {}
    BY <2>1 DEF TicketsOf
  <2>3. SeatsFit
    <3>1. Cardinality(TicketsOf(bookings, ConfirmedRows)) = 0
      BY <2>2, FS_EmptySet
    <3>2. 0 <= session.seats
      BY <2>1, SeatAssumption
    <3> QED
      BY <3>1, <3>2 DEF SeatsFit, TicketsIn
  <2>4. ChangesAlone /\ ChangeFits
    BY DEF SeatInit, ChangesAlone, ChangeFits, Changing, RowLocked
  <2> QED
    BY <2>3, <2>4 DEF FitInv
<1>2. SeatInv /\ FitInv /\ [SeatNext]_seatVars => FitInv'
  <2>1. ASSUME FitInv, UNCHANGED seatVars PROVE FitInv'
    BY <2>1, FitStutter DEF seatVars, seatStore, seatCalls, listCalls, Inserting, Writing
  <2> QED
    BY <2>1, BookFits, ReservationsFit, ManageFits DEF SeatNext
<1> QED
  BY <1>1, <1>2, SeatHolds, PTL DEF SeatSpec

(* The session is never sold beyond its seats: whoever counts the tickets   *)
(* holds the session's row until the count is used, for every number of     *)
(* tabs, bookings and seats (reserve, changeTicketCount, updateSession).    *)
THEOREM SeatsNeverOversold == SeatSpec => []SeatsFit
<1>1. FitInv => SeatsFit
  BY DEF FitInv
<1> QED
  BY <1>1, FitHolds, PTL

-----------------------------------------------------------------------------
(* The ledger of seats.  What a booking saw of the show, and an edit of    *)
(* the session, is still so when it writes.                                *)

Admitted(c) == booking[c] # NoCall /\ booking[c].stage \in {"session", "insert"}

AdmittedInv ==
  /\ show \in [open : BOOLEAN, hidden : BOOLEAN]
  /\ \A c \in VisitorTabs : /\ Admitted(c) => ~show.hidden
                            /\ Inserting(c) => show.open
  /\ Writing => session.exists

(* Tabs come no further and the show, the session and its edit stay.       *)
LEMMA AdmittedStutter ==
  ASSUME AdmittedInv, UNCHANGED <<show, session>>,
         \A c \in VisitorTabs : booking'[c] = booking[c] \/ ~Admitted(c)',
         Writing' => Writing
  PROVE  AdmittedInv'
<1>1. \A c \in VisitorTabs : /\ Admitted(c)' => Admitted(c)
                            /\ Inserting(c)' => Inserting(c)
  BY DEF Admitted, Inserting
<1> QED
  BY <1>1 DEF AdmittedInv, Admitted, Inserting, Writing

LEMMA BookAdmits == ASSUME SeatInv, AdmittedInv, Book PROVE AdmittedInv'
<1>1. ASSUME NEW c \in VisitorTabs, NEW call, booking' = [booking EXCEPT ![c] = call]
      PROVE  \A d \in VisitorTabs : booking'[d] = IF d = c THEN call ELSE booking[d]
  BY <1>1 DEF SeatInv, Shape
<1>2. ASSUME NEW c \in VisitorTabs, NEW call, booking' = [booking EXCEPT ![c] = call],
             call = NoCall \/ call.stage = "show",
             UNCHANGED <<show, session, editing>>
      PROVE  AdmittedInv'
  <2>1. \A d \in VisitorTabs : booking'[d] = booking[d] \/ ~Admitted(d)'
    BY <1>1, <1>2 DEF Admitted
  <2> QED
    BY <1>2, <2>1, AdmittedStutter DEF Writing
<1>3. ASSUME NEW c \in VisitorTabs, NEW p \in Phones, NEW n \in Tickets, SubmitBooking(c, p, n)
      PROVE  AdmittedInv'
  <2> DEFINE call == [stage |-> "show", phone |-> p, tickets |-> n]
  <2>1. booking' = [booking EXCEPT ![c] = call] /\ call.stage = "show"
    BY <1>3 DEF SubmitBooking
  <2>2. UNCHANGED <<show, session, editing>>
    BY <1>3 DEF SubmitBooking, seatStore
  <2> HIDE DEF call
  <2> QED
    BY <1>2, <2>1, <2>2
<1>4. ASSUME NEW c \in VisitorTabs, LockShow(c)
      PROVE  AdmittedInv'
  <2>1. booking[c] \in VisitorCall /\ UNCHANGED <<show, session, editing>>
    BY <1>4 DEF LockShow, seatStore, SeatInv, Shape
  <2>2. CASE show.hidden
    BY <1>2, <1>4, <2>1, <2>2 DEF LockShow, Refused
  <2>3. CASE ~show.hidden
    <3> DEFINE call == [booking[c] EXCEPT !.stage = "session"]
    <3>1. booking' = [booking EXCEPT ![c] = call]
      BY <1>4, <2>3 DEF LockShow, To
    <3>2. call.stage = "session"
      BY <2>1, BookingStaged
    <3> HIDE DEF call
    <3>3. \A d \in VisitorTabs : Inserting(d)' => Inserting(d)
      BY <1>1, <3>1, <3>2 DEF Inserting
    <3> QED
      BY <2>1, <2>3, <3>3 DEF AdmittedInv, Writing
  <2> QED
    BY <2>2, <2>3
<1>5. ASSUME NEW c \in VisitorTabs, LockSession(c)
      PROVE  AdmittedInv'
  <2>1. Admitted(c) /\ UNCHANGED <<show, session, editing>>
    BY <1>5 DEF LockSession, Admitted, seatStore
  <2>2. CASE ~show.open \/ booking' = Refused(c)
    BY <1>2, <1>5, <2>1, <2>2 DEF LockSession, Refused
  <2>3. CASE show.open /\ booking' # Refused(c)
    <3> DEFINE call == [booking[c] EXCEPT !.stage = "insert"]
    <3>1. booking' = [booking EXCEPT ![c] = call]
      BY <1>5, <2>3 DEF LockSession, To
    <3> HIDE DEF call
    <3>2. \A d \in VisitorTabs : Admitted(d)' => Admitted(d)
      BY <1>1, <2>1, <3>1 DEF Admitted
    <3> QED
      BY <2>1, <2>3, <3>2 DEF AdmittedInv, Writing
  <2> QED
    BY <2>2, <2>3
<1>6. ASSUME NEW c \in VisitorTabs, Insert(c)
      PROVE  AdmittedInv'
  BY <1>2, <1>6 DEF Insert, Refused
<1> QED
  BY <1>3, <1>4, <1>5, <1>6 DEF Book

LEMMA ReservationsAdmit == ASSUME AdmittedInv, Reservations PROVE AdmittedInv'
<1>1. UNCHANGED <<show, session, booking, editing>>
  BY DEF Reservations, LoadList, AskCancel, ReadToCancel, Cancel, CancelAnswer,
         AskMemo, ReadForMemo, SaveMemo, MemoAnswer, AskChange, LockForChange,
         LockRow, ChangeTicketCount, ChangeAnswer, seatStore, seatCalls
<1> QED
  BY <1>1, AdmittedStutter DEF Writing

LEMMA ManageAdmits == ASSUME SeatInv, AdmittedInv, Manage PROVE AdmittedInv'
<1>1. /\ session \in [exists : BOOLEAN, seats : 0..MaxSeats, started : BOOLEAN]
      /\ show \in [open : BOOLEAN, hidden : BOOLEAN]
  BY DEF SeatInv, Shape, AdmittedInv
<1>2. CASE (\E n \in 0..MaxSeats : AskSession(n))
  BY <1>2, AdmittedStutter DEF AskSession, seatStore, Writing
<1>3. CASE LockForEdit
  <2>1. UNCHANGED <<show, session, booking>> /\ (Writing' => session.exists)
    BY <1>3 DEF LockForEdit, Writing, seatStore
  <2> QED
    BY <2>1 DEF AdmittedInv, Admitted, Inserting
<1>4. CASE UpdateSession \/ DeleteSession
  <2>1. UNCHANGED <<show, booking>> /\ ~Writing'
    BY <1>4 DEF UpdateSession, DeleteSession, Writing
  <2> QED
    BY <2>1 DEF AdmittedInv, Admitted, Inserting
<1>5. CASE OpenShow \/ CloseShow \/ ChangeVisibility
  <2>1. \A c \in VisitorTabs : ~Admitted(c)
    BY <1>5 DEF OpenShow, CloseShow, ChangeVisibility, ShowLocked, Admitted
  <2>2. UNCHANGED <<session, booking, editing>>
    BY <1>5 DEF OpenShow, CloseShow, ChangeVisibility, seatCalls
  <2>3. \A c \in VisitorTabs : ~Admitted(c)' /\ ~Inserting(c)'
    BY <2>1, <2>2 DEF Admitted, Inserting
  <2>4. show' \in [open : BOOLEAN, hidden : BOOLEAN]
    BY <1>1, <1>5 DEF OpenShow, CloseShow, ChangeVisibility
  <2> QED
    BY <2>2, <2>3, <2>4 DEF AdmittedInv, Writing
<1>6. CASE StartSession
  <2>1. session'.exists = session.exists /\ UNCHANGED <<show, booking, editing>>
    BY <1>1, <1>6 DEF StartSession, seatCalls
  <2> QED
    BY <2>1 DEF AdmittedInv, Admitted, Inserting, Writing
<1> QED
  BY <1>2, <1>3, <1>4, <1>5, <1>6 DEF Manage

(* A show is neither hidden nor closed under a booking that has locked it, *)
(* nor is a session that is being edited deleted.                          *)
THEOREM AdmittedHolds == SeatSpec => []AdmittedInv
<1>1. SeatInit => AdmittedInv
  BY DEF SeatInit, AdmittedInv, Admitted, Inserting, Writing
<1>2. SeatInv /\ AdmittedInv /\ [SeatNext]_seatVars => AdmittedInv'
  <2>1. ASSUME AdmittedInv, UNCHANGED seatVars PROVE AdmittedInv'
    BY <2>1, AdmittedStutter DEF seatVars, seatStore, seatCalls, Writing
  <2> QED
    BY <2>1, BookAdmits, ReservationsAdmit, ManageAdmits DEF SeatNext
<1> QED
  BY <1>1, <1>2, SeatHolds, PTL DEF SeatSpec

-----------------------------------------------------------------------------
(* Every step is a step of the ledger or leaves it alone.                  *)

ledger == <<session.seats, session.exists, TakesBookings, Len(bookings), Holdings>>

(* The ledger counts as the session does. *)
LEMMA SameCardinality == \A S : Ledger!Cardinality(S) = Cardinality(S)
BY Zenon DEF Ledger!Cardinality, Cardinality, Ledger!IsFiniteSet, IsFiniteSet

LEMMA SameCount ==
  ASSUME NEW entries, NEW rows, NEW S, DOMAIN entries = S,
         \A b \in S : entries[b].tickets = rows[b].tickets
  PROVE  Ledger!Taken(entries) = Held(rows, S)
<1>1. {t \in (DOMAIN entries) \X Ledger!Ticket : t[2] <= entries[t[1]].tickets}
        = TicketsOf(rows, S)
  BY DEF TicketsOf, Ledger!Ticket, Tickets
<1> QED
  BY <1>1, SameCardinality DEF Ledger!Taken, Held

LEMMA HoldingsCounted ==
  /\ DOMAIN Holdings = ConfirmedRows
  /\ \A r \in ConfirmedRows : /\ Holdings[r].phone = bookings[r].phone
                              /\ Holdings[r].tickets = bookings[r].tickets
  /\ Ledger!Taken(Holdings) = Held(bookings, ConfirmedRows)
<1>1. /\ DOMAIN Holdings = ConfirmedRows
      /\ \A r \in ConfirmedRows : /\ Holdings[r].phone = bookings[r].phone
                                  /\ Holdings[r].tickets = bookings[r].tickets
  BY DEF Holdings
<1> QED
  BY <1>1, SameCount

LEMMA LedgerStutter == UNCHANGED seatStore => UNCHANGED ledger
BY DEF seatStore, ledger, TakesBookings, Holdings, ConfirmedRows

(* A booking is an entry for a free phone number and seats that are left.  *)
LEMMA InsertBooks ==
  ASSUME SeatInv, FitInv, AdmittedInv, NEW c \in VisitorTabs, Insert(c)
  PROVE  [Ledger!Next]_ledger
<1>1. /\ booking[c] \in VisitorCall /\ Inserting(c)
      /\ session.exists /\ ~BookedBy(booking[c].phone)
      /\ show.open /\ ~show.hidden /\ UNCHANGED <<show, session>>
  BY DEF SeatInv, Shape, Safe, StillFree, AdmittedInv, Admitted, Insert, Inserting
<1>2. CASE bookings' = bookings
  BY <1>1, <1>2, LedgerStutter DEF seatStore
<1>3. CASE bookings' # bookings
  <2> DEFINE row == [phone |-> booking[c].phone,
                     tickets |-> booking[c].tickets, status |-> "CONFIRMED"]
             n == Len(bookings) + 1
             p == booking[c].phone
             k == booking[c].tickets
  <2>1. /\ bookings' = Append(bookings, row) /\ ~session.started
        /\ k <= session.seats - Held(bookings, ConfirmedRows)
    BY <1>3 DEF Insert, RemainingSeats, TicketsIn, Held
  <2>2. /\ row \in Row /\ row.status = "CONFIRMED" /\ row.phone = p /\ row.tickets = k
        /\ p \in Phones /\ k \in Tickets
    BY <1>1 DEF VisitorCall, Row
  <2> HIDE DEF row
  <2>3. bookings \in Seq(Row)
    BY DEF SeatInv, Shape
  <2>4. /\ DOMAIN bookings' = DOMAIN bookings \cup {n}
        /\ \A q \in DOMAIN bookings : bookings'[q] = bookings[q]
        /\ bookings'[n] = row
        /\ n \notin DOMAIN bookings
        /\ Len(bookings') = n
    BY <2>1, <2>2, <2>3
  <2> HIDE DEF n
  <2>5. ConfirmedRows' = ConfirmedRows \cup {n} /\ n \notin ConfirmedRows
        /\ \A q \in ConfirmedRows : bookings'[q] = bookings[q]
    BY <2>2, <2>4 DEF ConfirmedRows
  <2>6. Holdings' = [b \in DOMAIN Holdings \cup {n} |->
                       IF b = n THEN [phone |-> p, tickets |-> k] ELSE Holdings[b]]
    BY <2>2, <2>4, <2>5 DEF Holdings
  <2>7. TakesBookings /\ TakesBookings' = TakesBookings
    BY <1>1, <2>1 DEF TakesBookings
  <2>8. \A b \in DOMAIN Holdings : Holdings[b].phone # p
    BY <1>1, HoldingsCounted DEF BookedBy
  <2>9. Ledger!Taken(Holdings) + k <= session.seats
    <3>1. Held(bookings, ConfirmedRows) \in Nat /\ session.seats \in Nat /\ k \in Nat
      BY <2>2, ConfirmedFinite, TicketsAreFinite DEF Tickets
    <3> HIDE DEF k
    <3> QED
      BY <2>1, <3>1, HoldingsCounted
  <2> HIDE DEF p, k
  <2>10. n = Len(bookings) + 1
    BY DEF n
  <2>11. Ledger!Book(p, k)
    BY <1>1, <2>4, <2>6, <2>7, <2>8, <2>9, <2>10 DEF Ledger!Book
  <2>12. k \in Ledger!Ticket
    BY <2>2 DEF Ledger!Ticket, Tickets
  <2> QED
    BY <2>2, <2>11, <2>12 DEF Ledger!Next
<1> QED
  BY <1>2, <1>3

(* A cancellation gives the tickets of one number up. *)
LEMMA CancelGivesUp ==
  ASSUME SeatInv, NEW r \in Numbers, Cancel(r)
  PROVE  [Ledger!Next]_ledger
<1>1. UNCHANGED <<show, session>> /\ bookings \in Seq(Row)
  BY DEF Cancel, SeatInv, Shape
<1>2. CASE bookings' = bookings
  BY <1>1, <1>2, LedgerStutter DEF seatStore
<1>3. CASE bookings' # bookings
  <2>1. bookings' = [bookings EXCEPT ![r].status = "CANCELED"]
    BY <1>3 DEF Cancel
  <2>2. r \in DOMAIN bookings
    BY <1>1, <1>3, <2>1
  <2>3. bookings[r] \in Row
    BY <2>2, ConfirmedFinite
  <2> DEFINE row == [bookings[r] EXCEPT !.status = "CANCELED"]
  <2>4. row \in Row /\ row.status = "CANCELED"
    BY <2>3, RowWritten
  <2>5. r \in ConfirmedRows
    <3>1. CASE bookings[r].status = "CANCELED"
      <4>1. row = bookings[r]
        BY <2>3, <3>1 DEF Row
      <4> QED
        BY <1>1, <1>3, <2>1, <4>1
    <3> QED
      BY <2>2, <2>3, <3>1 DEF Row, ConfirmedRows
  <2>6. bookings' = [bookings EXCEPT ![r] = row]
    BY <2>1
  <2> HIDE DEF row
  <2>7. /\ DOMAIN bookings' = DOMAIN bookings /\ bookings'[r] = row
        /\ \A q \in DOMAIN bookings \ {r} : bookings'[q] = bookings[q]
        /\ bookings' \in Seq(Row)
    BY <1>1, <2>2, <2>4, <2>6, ReplacedRow
  <2>8. Len(bookings') = Len(bookings)
    BY <1>1, <2>7
  <2>9. ConfirmedRows' = ConfirmedRows \ {r}
    BY <2>4, <2>7 DEF ConfirmedRows
  <2>10. Holdings' = [q \in DOMAIN Holdings \ {r} |-> Holdings[q]]
    BY <2>7, <2>9 DEF Holdings, ConfirmedRows
  <2>11. TakesBookings' = TakesBookings
    BY <1>1 DEF TakesBookings
  <2>12. Ledger!GiveUp(r) /\ r \in DOMAIN Holdings
    BY <1>1, <2>5, <2>8, <2>10, <2>11, HoldingsCounted DEF Ledger!GiveUp
  <2> QED
    BY <2>12 DEF Ledger!Next
<1> QED
  BY <1>2, <1>3

(* A change of tickets finds the seats beside the other holders.           *)
LEMMA ChangeChanges ==
  ASSUME SeatInv, FitInv, FitInv', NEW r \in Numbers, ChangeTicketCount(r)
  PROVE  [Ledger!Next]_ledger
<1>1. /\ UNCHANGED <<show, session>> /\ bookings \in Seq(Row)
      /\ RowLocked(r) /\ changes[r].tickets \in Tickets
      /\ bookings' = [bookings EXCEPT ![r].tickets = changes[r].tickets]
  BY DEF ChangeTicketCount, RowLocked, SeatInv, Shape, ChangeCall
<1>2. CASE r \notin DOMAIN bookings
  <2>1. bookings' = bookings
    BY <1>1, <1>2
  <2> QED
    BY <1>1, <2>1, LedgerStutter DEF seatStore
<1>3. CASE r \in DOMAIN bookings
  <2> DEFINE row == [bookings[r] EXCEPT !.tickets = changes[r].tickets]
             n == changes[r].tickets
  <2>1. /\ row \in Row /\ row.tickets = n /\ row.status = "CONFIRMED"
        /\ row.phone = bookings[r].phone /\ r \in ConfirmedRows
    <3>1. bookings[r] \in Row /\ bookings[r].status = "CONFIRMED"
      BY <1>1, <1>3, ConfirmedFinite DEF SeatInv, Safe, LockedIsConfirmed
    <3> QED
      BY <1>1, <1>3, <3>1 DEF Row, ConfirmedRows
  <2>2. bookings' = [bookings EXCEPT ![r] = row]
    BY <1>1
  <2> HIDE DEF row
  <2>3. /\ DOMAIN bookings' = DOMAIN bookings /\ bookings'[r] = row
        /\ \A q \in DOMAIN bookings \ {r} : bookings'[q] = bookings[q]
        /\ bookings' \in Seq(Row)
    BY <1>1, <1>3, <2>1, <2>2, ReplacedRow
  <2>4. Len(bookings') = Len(bookings)
    BY <1>1, <2>3
  <2>5. ConfirmedRows' = ConfirmedRows
    BY <2>1, <2>3 DEF ConfirmedRows
  <2>6. Holdings' = [Holdings EXCEPT ![r].tickets = n]
    BY <2>1, <2>3, <2>5 DEF Holdings, ConfirmedRows
  <2>7. TakesBookings' = TakesBookings
    BY <1>1 DEF TakesBookings
  <2>8. Ledger!Taken(Holdings') <= session.seats
    <3>1. Ledger!Taken(Holdings') = Held(bookings', ConfirmedRows')
      <4>1. /\ DOMAIN Holdings' = ConfirmedRows'
            /\ \A b \in ConfirmedRows' : Holdings'[b].tickets = bookings'[b].tickets
        BY DEF Holdings
      <4> QED
        BY <4>1, SameCount
    <3>2. Held(bookings', ConfirmedRows') <= session.seats
      BY <1>1 DEF FitInv, SeatsFit, TicketsIn, Held
    <3> QED
      BY <3>1, <3>2
  <2> HIDE DEF n
  <2>9. Ledger!Change(r, n)
    BY <1>1, <2>4, <2>6, <2>7, <2>8 DEF Ledger!Change
  <2>10. r \in DOMAIN Holdings /\ n \in Ledger!Ticket
    BY <1>1, <2>1, HoldingsCounted DEF Ledger!Ticket, Tickets, n
  <2> QED
    BY <2>9, <2>10 DEF Ledger!Next
<1> QED
  BY <1>2, <1>3

(* Edits of the session resize or end it; the others change whether it     *)
(* takes bookings, and nothing once it is gone.                            *)
LEMMA ManageOffers ==
  ASSUME SeatInv, FitInv, AdmittedInv, Manage
  PROVE  [Ledger!Next]_ledger
<1>1. session \in [exists : BOOLEAN, seats : 0..MaxSeats, started : BOOLEAN]
  BY DEF SeatInv, Shape
<1>2. TakesBookings \in BOOLEAN /\ TakesBookings' \in BOOLEAN
  BY DEF TakesBookings
<1>3. bookings' = bookings /\ Holdings' = Holdings
  <2>1. bookings' = bookings
    BY DEF Manage, AskSession, LockForEdit, UpdateSession, DeleteSession,
           OpenShow, CloseShow, ChangeVisibility, StartSession, seatStore
  <2> QED
    BY <2>1 DEF Holdings, ConfirmedRows
<1>4. CASE (\E n \in 0..MaxSeats : AskSession(n)) \/ LockForEdit
  BY <1>4, LedgerStutter DEF AskSession, LockForEdit
<1>5. CASE UpdateSession
  <2>1. CASE session' = session
    BY <1>3, <1>5, <2>1, LedgerStutter DEF UpdateSession, seatStore
  <2>2. CASE session' # session
    <3>1. /\ session' = [session EXCEPT !.seats = editing.seats, !.started = FALSE]
          /\ editing.seats >= TicketsIn(ConfirmedRows)
          /\ editing.seats \in 1..MaxSeats
      BY <1>5, <2>2, SeatAssumption DEF UpdateSession, SeatInv, Shape, EditCall
    <3>2. session.exists /\ session'.exists = session.exists
          /\ session'.seats = editing.seats
      BY <1>1, <1>5, <3>1 DEF AdmittedInv, UpdateSession, Writing
    <3>3. Ledger!Taken(Holdings) <= editing.seats
      <4>1. Held(bookings, ConfirmedRows) \in Nat /\ editing.seats \in Nat
        BY <3>1, ConfirmedFinite, TicketsAreFinite, SeatAssumption
      <4> QED
        BY <3>1, <4>1, HoldingsCounted DEF TicketsIn, Held
    <3>4. Ledger!Resize(editing.seats)
      BY <1>2, <1>3, <3>2, <3>3 DEF Ledger!Resize
    <3> QED
      BY <3>1, <3>4 DEF Ledger!Next
  <2> QED
    BY <2>1, <2>2
<1>6. CASE DeleteSession
  <2>1. CASE session' = session
    BY <1>3, <1>6, <2>1, LedgerStutter DEF DeleteSession, seatStore
  <2>2. CASE session' # session
    <3>1. session' = [session EXCEPT !.exists = FALSE] /\ bookings = << >>
      BY <1>6, <2>2 DEF DeleteSession
    <3>2. /\ session'.exists = FALSE /\ session'.seats = session.seats
          /\ Len(bookings) = 0 /\ TakesBookings' = FALSE
      BY <1>1, <3>1 DEF TakesBookings
    <3>3. Ledger!End
      BY <1>3, <3>2 DEF Ledger!End
    <3> QED
      BY <3>3 DEF Ledger!Next
  <2> QED
    BY <2>1, <2>2
<1>7. CASE OpenShow \/ CloseShow \/ ChangeVisibility \/ StartSession
  <2>1. session'.exists = session.exists /\ session'.seats = session.seats
    BY <1>1, <1>7 DEF OpenShow, CloseShow, ChangeVisibility, StartSession
  <2>2. CASE session.exists
    <3>1. Ledger!Offer
      BY <1>2, <1>3, <2>1, <2>2 DEF Ledger!Offer
    <3> QED
      BY <3>1 DEF Ledger!Next
  <2>3. CASE ~session.exists
    <3>1. TakesBookings' = TakesBookings
      BY <2>1, <2>3 DEF TakesBookings
    <3> QED
      BY <1>3, <2>1, <3>1 DEF ledger
  <2> QED
    BY <1>1, <2>2, <2>3
<1> QED
  BY <1>4, <1>5, <1>6, <1>7 DEF Manage

LEMMA LedgerNext ==
  ASSUME SeatInv, FitInv, FitInv', AdmittedInv, [SeatNext]_seatVars
  PROVE  [Ledger!Next]_ledger
<1>1. CASE Book
  BY <1>1, InsertBooks, LedgerStutter
     DEF Book, SubmitBooking, LockShow, LockSession
<1>2. CASE Reservations
  <2>1. ASSUME NEW r \in Numbers, SaveMemo(r) PROVE UNCHANGED seatStore
    BY <2>1 DEF SaveMemo, MemoWrites, SeatInv, Shape, seatStore
  <2>2. CASE \E r \in Numbers : Cancel(r) \/ ChangeTicketCount(r)
    BY <2>2, CancelGivesUp, ChangeChanges
  <2>3. CASE UNCHANGED seatStore
    BY <2>3, LedgerStutter
  <2> QED
    BY <1>2, <2>1, <2>2, <2>3
       DEF Reservations, LoadList, AskCancel, ReadToCancel, CancelAnswer,
           AskMemo, ReadForMemo, MemoAnswer, AskChange, LockForChange,
           LockRow, ChangeAnswer
<1>3. CASE UNCHANGED seatVars
  BY <1>3, LedgerStutter DEF seatVars
<1> QED
  BY <1>1, <1>2, <1>3, ManageOffers DEF SeatNext

(* The transactions, with their locks, copies and late answers, keep the   *)
(* ledger of seats: to anyone who looks at the bookings each of them takes *)
(* one step, made only when the ledger allows it.                          *)
THEOREM SeatsImplementLedger == SeatSpec => ImplementsSeats
<1>1. SeatInit => Ledger!Init
  <2> SUFFICES ASSUME SeatInit PROVE Ledger!Init
    OBVIOUS
  <2>1. bookings = << >> /\ Len(bookings) = 0 /\ ConfirmedRows = {}
    BY DEF SeatInit, ConfirmedRows
  <2>2. Holdings = [b \in {} |-> 0]
    BY <2>1 DEF Holdings
  <2> QED
    BY <2>1, <2>2 DEF SeatInit, Ledger!Init, TakesBookings
<1>2. SeatInv /\ FitInv /\ FitInv' /\ AdmittedInv /\ [SeatNext]_seatVars
        => [Ledger!Next]_ledger
  BY LedgerNext
<1> QED
  BY <1>1, <1>2, SeatHolds, FitHolds, AdmittedHolds, PTL
     DEF SeatSpec, ImplementsSeats, Ledger!Spec, ledger
=============================================================================
