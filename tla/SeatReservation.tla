-------------------------- MODULE SeatReservation --------------------------
(***************************************************************************)
(* The seats of one session of a free show: visitors' tabs that book, the  *)
(* list of bookings a producer keeps open (cancel, ticket count, memo),    *)
(* the session's own settings, and the database transactions behind them.  *)
(* A transaction takes the row locks the code takes, in its order; a read  *)
(* without a lock is a copy that may be old when it is used.               *)
(*                                                                         *)
(* Locks are not stored: a row is locked while some transaction is at a    *)
(* stage that holds it.  The text of a memo and who booked under which     *)
(* name are left out, the columns every save writes are kept.              *)
(***************************************************************************)
EXTENDS Integers, Sequences, FiniteSets

CONSTANTS VisitorTabs, Phones, MaxTickets, MaxSeats, MaxBookings, MaxCalls,
          MaxEdits, RecordTold, NoCall

ASSUME SeatAssumption == /\ MaxTickets \in Nat \ {0}
                         /\ MaxSeats \in Nat \ {0}
                         /\ MaxBookings \in Nat
                         /\ MaxCalls \in Nat
                         /\ MaxEdits \in Nat
                         /\ RecordTold \in BOOLEAN

VARIABLES show,     \* whether it takes bookings, and whether it is hidden
          session,  \* whether the row exists, its seats, whether it started
          bookings, \* the reservations, by number
          booking,  \* per visitor's tab: the booking under way, or NoCall
          cancels,  \* per reservation: the page's call that cancels it
          memos,    \*   ... that saves its memo
          changes,  \*   ... that changes its ticket count
          editing,  \* the page's call on the session, or NoCall
          listed,   \* the list the producer sees, once loaded, by number
          told,     \* history: reservations this page was told are cancelled
          edits     \* changes of the show and the session so far, the start
                    \* of the session included

seatStore == <<show, session, bookings>>
listCalls == <<cancels, memos, changes>>
seatCalls == <<booking, listCalls, editing>>
listPage == <<listed, told>>
seatVars == <<seatStore, seatCalls, listPage, edits>>

Numbers == 1..MaxBookings
Tickets == 1..MaxTickets
Row == [phone : Phones, tickets : Tickets, status : {"CONFIRMED", "CANCELED"}]
------------------------------------------------------------------------------
(* What the locks hold, and what a query under them finds.                 *)

ConfirmedRows == {r \in DOMAIN bookings : bookings[r].status = "CONFIRMED"}

(* A ticket of a row is a pair, the k-th of row r: their number is the sum *)
(* of the column over the rows.                                            *)
TicketsOf(rows, S) == {held \in S \X Tickets : held[2] <= rows[held[1]].tickets}
TicketsIn(S) == Cardinality(TicketsOf(bookings, S))
RemainingSeats(S) == session.seats - TicketsIn(S)

(* Mutant: the show is unlocked again once the session is locked. *)
ShowLockedBriefly ==
  \E c \in VisitorTabs : booking[c] # NoCall /\ booking[c].stage = "session"

ShowLocked ==
  \E c \in VisitorTabs :
    booking[c] # NoCall /\ booking[c].stage \in {"session", "insert"}

SessionLocked ==
  \/ \E c \in VisitorTabs : booking[c] # NoCall /\ booking[c].stage = "insert"
  \/ \E r \in Numbers :
       changes[r] # NoCall /\ changes[r].stage \in {"row", "write"}
  \/ editing # NoCall /\ editing.stage = "write"

RowLocked(r) == changes[r] # NoCall /\ changes[r].stage = "write"
------------------------------------------------------------------------------
(* A visitor's tab books tickets: the show's row, then the session's.      *)

Pending == {c \in VisitorTabs : booking[c] # NoCall}

SubmitBooking(c, p, n) ==
  /\ booking[c] = NoCall
  /\ Len(bookings) + Cardinality(Pending) < MaxBookings
  /\ booking' = [booking EXCEPT ![c] =
                   [stage |-> "show", phone |-> p, tickets |-> n]]
  /\ UNCHANGED <<seatStore, listCalls, editing, listPage, edits>>

To(c, stage) == [booking EXCEPT ![c].stage = stage]
Refused(c) == [booking EXCEPT ![c] = NoCall]

LockShow(c) ==
  /\ booking[c] # NoCall /\ booking[c].stage = "show" /\ ~ShowLocked
  /\ booking' = IF show.hidden THEN Refused(c) ELSE To(c, "session")
  /\ UNCHANGED <<seatStore, listCalls, editing, listPage, edits>>

BookedBy(p) == \E r \in ConfirmedRows : bookings[r].phone = p

(* Mutant: the confirmed bookings of the phone number are not looked up. *)
LockSessionAnyPhone(c) ==
  /\ booking[c] # NoCall /\ booking[c].stage = "session" /\ ~SessionLocked
  /\ booking' = IF session.exists /\ show.open
                THEN To(c, "insert") ELSE Refused(c)
  /\ UNCHANGED <<seatStore, listCalls, editing, listPage, edits>>

LockSession(c) ==
  /\ booking[c] # NoCall /\ booking[c].stage = "session" /\ ~SessionLocked
  /\ booking' = IF session.exists /\ show.open /\ ~BookedBy(booking[c].phone)
                THEN To(c, "insert") ELSE Refused(c)
  /\ UNCHANGED <<seatStore, listCalls, editing, listPage, edits>>

Insert(c) ==
  /\ booking[c] # NoCall /\ booking[c].stage = "insert"
  /\ bookings' = IF /\ ~session.started
                    /\ booking[c].tickets <= RemainingSeats(ConfirmedRows)
                 THEN Append(bookings, [phone |-> booking[c].phone,
                                        tickets |-> booking[c].tickets,
                                        status |-> "CONFIRMED"])
                 ELSE bookings
  /\ booking' = Refused(c)
  /\ UNCHANGED <<show, session, listCalls, editing, listPage, edits>>

Book == \E c \in VisitorTabs :
          \/ \E p \in Phones, n \in Tickets : SubmitBooking(c, p, n)
          \/ LockShow(c) \/ LockSession(c) \/ Insert(c)
------------------------------------------------------------------------------
(* The producer's list: one cancellation at a time, one change of tickets  *)
(* and one memo at a time for each reservation.                            *)

LoadList ==
  /\ listed = << >> /\ bookings # << >>
  /\ listed' = bookings
  /\ UNCHANGED <<seatStore, seatCalls, told, edits>>

Shows(r, status) == r \in DOMAIN listed /\ listed[r].status = status

(* Bound: calls of the list under way at the same time. *)
CanAsk == Cardinality({r \in Numbers : cancels[r] # NoCall})
          + Cardinality({r \in Numbers : memos[r] # NoCall})
          + Cardinality({r \in Numbers : changes[r] # NoCall}) < MaxCalls

Asked == [stage |-> "asked"]
With(stage, row) == [stage |-> stage, row |-> row]

(* The answer of a call replaces the row the list shows; a call that ends  *)
(* in an error leaves the list alone.                                      *)
ListAnswered(r, row) ==
  /\ listed' = [listed EXCEPT ![r] = row]
  /\ told' = IF RecordTold /\ row.status = "CANCELED" THEN told \cup {r}
              ELSE told

AskCancel(r) ==
  /\ Shows(r, "CONFIRMED") /\ \A q \in Numbers : cancels[q] = NoCall
  /\ CanAsk
  /\ cancels' = [cancels EXCEPT ![r] = Asked]
  /\ UNCHANGED <<seatStore, booking, memos, changes, editing, listPage, edits>>

ReadToCancel(r) ==
  /\ cancels[r] = Asked
  /\ cancels' = [cancels EXCEPT ![r] = With("read", bookings[r])]
  /\ UNCHANGED <<seatStore, booking, memos, changes, editing, listPage, edits>>

Cancel(r) ==
  /\ cancels[r] # NoCall /\ cancels[r].stage = "read" /\ ~RowLocked(r)
  /\ bookings' = IF cancels[r].row.status = "CANCELED" THEN bookings
                 ELSE [bookings EXCEPT ![r].status = "CANCELED"]
  /\ cancels' = [cancels EXCEPT ![r] =
                   With("answer", [@.row EXCEPT !.status = "CANCELED"])]
  /\ UNCHANGED <<show, session, booking, memos, changes, editing, listPage, edits>>

CancelAnswer(r) ==
  /\ cancels[r] # NoCall /\ cancels[r].stage = "answer"
  /\ ListAnswered(r, cancels[r].row) \/ UNCHANGED listPage
  /\ cancels' = [cancels EXCEPT ![r] = NoCall]
  /\ UNCHANGED <<seatStore, booking, memos, changes, editing, edits>>

AskMemo(r) ==
  /\ r \in DOMAIN listed /\ memos[r] = NoCall /\ CanAsk
  /\ memos' = [memos EXCEPT ![r] = Asked]
  /\ UNCHANGED <<seatStore, booking, cancels, changes, editing, listPage, edits>>

ReadForMemo(r) ==
  /\ memos[r] = Asked
  /\ memos' = [memos EXCEPT ![r] = With("read", bookings[r])]
  /\ UNCHANGED <<seatStore, booking, cancels, changes, editing, listPage, edits>>

(* Mutant: the save writes every column of the copy it read. *)
MemoWritesAll(row, copy) == copy

(* Only the columns that changed are written, and of those the model keeps *)
(* none for a memo.                                                        *)
MemoWrites(row, copy) == row

SaveMemo(r) ==
  /\ memos[r] # NoCall /\ memos[r].stage = "read" /\ ~RowLocked(r)
  /\ bookings' = [bookings EXCEPT ![r] = MemoWrites(@, memos[r].row)]
  /\ memos' = [memos EXCEPT ![r].stage = "answer"]
  /\ UNCHANGED <<show, session, booking, cancels, changes, editing, listPage, edits>>

MemoAnswer(r) ==
  /\ memos[r] # NoCall /\ memos[r].stage = "answer"
  /\ ListAnswered(r, memos[r].row) \/ UNCHANGED listPage
  /\ memos' = [memos EXCEPT ![r] = NoCall]
  /\ UNCHANGED <<seatStore, booking, cancels, changes, editing, edits>>
------------------------------------------------------------------------------
(* A change of tickets locks the session as a booking does, and then reads *)
(* and locks the reservation.                                              *)

AskChange(r, n) ==
  /\ Shows(r, "CONFIRMED") /\ n # listed[r].tickets /\ changes[r] = NoCall
  /\ CanAsk
  /\ changes' = [changes EXCEPT ![r] = [stage |-> "session", tickets |-> n]]
  /\ UNCHANGED <<seatStore, booking, cancels, memos, editing, listPage, edits>>

(* Mutant: the seats are counted without the lock a booking holds. *)
LockForChangeUnlocked(r) ==
  /\ changes[r] # NoCall /\ changes[r].stage = "session"
  /\ changes' = [changes EXCEPT ![r].stage = "row"]
  /\ UNCHANGED <<seatStore, booking, cancels, memos, editing, listPage, edits>>

LockForChange(r) ==
  /\ changes[r] # NoCall /\ changes[r].stage = "session" /\ ~SessionLocked
  /\ changes' = [changes EXCEPT ![r].stage = "row"]
  /\ UNCHANGED <<seatStore, booking, cancels, memos, editing, listPage, edits>>

(* The row is read when it is locked, and refused unless it is confirmed   *)
(* and the other confirmed tickets leave room.                             *)
LockRow(r) ==
  /\ changes[r] # NoCall /\ changes[r].stage = "row"
  /\ changes' = IF /\ bookings[r].status = "CONFIRMED"
                   /\ changes[r].tickets <= RemainingSeats(ConfirmedRows \ {r})
                THEN [changes EXCEPT ![r].stage = "write"]
                ELSE [changes EXCEPT ![r] = NoCall]
  /\ UNCHANGED <<seatStore, booking, cancels, memos, editing, listPage, edits>>

ChangeTicketCount(r) ==
  /\ changes[r] # NoCall /\ changes[r].stage = "write"
  /\ bookings' = [bookings EXCEPT ![r].tickets = changes[r].tickets]
  /\ changes' = [changes EXCEPT ![r] = With("answer", bookings'[r])]
  /\ UNCHANGED <<show, session, booking, cancels, memos, editing, listPage, edits>>

ChangeAnswer(r) ==
  /\ changes[r] # NoCall /\ changes[r].stage = "answer"
  /\ ListAnswered(r, changes[r].row) \/ UNCHANGED listPage
  /\ changes' = [changes EXCEPT ![r] = NoCall]
  /\ UNCHANGED <<seatStore, booking, cancels, memos, editing, edits>>

Reservations ==
  \/ LoadList
  \/ \E r \in Numbers :
       \/ AskCancel(r) \/ ReadToCancel(r) \/ Cancel(r) \/ CancelAnswer(r)
       \/ AskMemo(r) \/ ReadForMemo(r) \/ SaveMemo(r) \/ MemoAnswer(r)
       \/ \E n \in Tickets : AskChange(r, n)
       \/ LockForChange(r) \/ LockRow(r)
       \/ ChangeTicketCount(r) \/ ChangeAnswer(r)
------------------------------------------------------------------------------
(* The show and its session: ShowManagementService.  Opening and closing   *)
(* read the show without a lock; what they read only decides whether the   *)
(* show takes bookings, so the read and the write are one step.            *)

Edited == edits < MaxEdits /\ edits' = edits + 1

AskSession(n) ==
  /\ editing = NoCall /\ Edited
  /\ editing' = [stage |-> "session", seats |-> n]
  /\ UNCHANGED <<seatStore, booking, listCalls, listPage>>

(* Mutant: the session is read before it is locked for the edit. *)
LockForEditUnlocked ==
  /\ editing # NoCall /\ editing.stage = "session"
  /\ editing' = IF session.exists THEN [editing EXCEPT !.stage = "write"]
                ELSE NoCall
  /\ UNCHANGED <<seatStore, booking, listCalls, listPage, edits>>

LockForEdit ==
  /\ editing # NoCall /\ editing.stage = "session" /\ ~SessionLocked
  /\ editing' = IF session.exists THEN [editing EXCEPT !.stage = "write"]
                ELSE NoCall
  /\ UNCHANGED <<seatStore, booking, listCalls, listPage, edits>>

(* Seats may not fall below what is booked; zero seats stand for a request *)
(* to delete the session, which needs that nobody ever booked it.          *)
UpdateSession ==
  /\ editing # NoCall /\ editing.stage = "write" /\ editing.seats # 0
  /\ session' = IF editing.seats >= TicketsIn(ConfirmedRows)
                THEN [session EXCEPT !.seats = editing.seats,
                                     !.started = FALSE]
                ELSE session
  /\ editing' = NoCall
  /\ UNCHANGED <<show, bookings, booking, listCalls, listPage, edits>>

DeleteSession ==
  /\ editing # NoCall /\ editing.stage = "write" /\ editing.seats = 0
  /\ session' = IF bookings = << >> THEN [session EXCEPT !.exists = FALSE]
                ELSE session
  /\ editing' = NoCall
  /\ UNCHANGED <<show, bookings, booking, listCalls, listPage, edits>>

OpenShow ==
  /\ ~show.open /\ ~show.hidden /\ session.exists /\ ~session.started
  /\ Edited /\ show' = [show EXCEPT !.open = TRUE]
  /\ ~ShowLocked
  /\ UNCHANGED <<session, bookings, seatCalls, listPage>>

CloseShow ==
  /\ show.open /\ ~ShowLocked
  /\ Edited /\ show' = [show EXCEPT !.open = FALSE]
  /\ UNCHANGED <<session, bookings, seatCalls, listPage>>

ChangeVisibility ==
  /\ ~ShowLocked
  /\ Edited /\ show' = [show EXCEPT !.hidden = ~@]
  /\ UNCHANGED <<session, bookings, seatCalls, listPage>>

(* Time: the session starts, and takes no more bookings. *)
StartSession ==
  /\ session.exists /\ ~session.started
  /\ Edited /\ session' = [session EXCEPT !.started = TRUE]
  /\ UNCHANGED <<show, bookings, seatCalls, listPage>>

Manage == \/ \E n \in 0..MaxSeats : AskSession(n)
          \/ LockForEdit \/ UpdateSession \/ DeleteSession
          \/ OpenShow \/ CloseShow \/ ChangeVisibility \/ StartSession
------------------------------------------------------------------------------
SeatInit ==
  /\ show = [open |-> TRUE, hidden |-> FALSE]
  /\ session = [exists |-> TRUE, seats |-> MaxSeats, started |-> FALSE]
  /\ bookings = << >>
  /\ booking = [c \in VisitorTabs |-> NoCall]
  /\ cancels = [r \in Numbers |-> NoCall]
  /\ memos = [r \in Numbers |-> NoCall]
  /\ changes = [r \in Numbers |-> NoCall]
  /\ editing = NoCall
  /\ listed = << >> /\ told = {}
  /\ edits = 0

SeatNext == Book \/ Reservations \/ Manage

SeatSpec == SeatInit /\ [][SeatNext]_seatVars
------------------------------------------------------------------------------
(* The confirmed tickets never exceed the seats of the session, however    *)
(* bookings, changes of tickets, cancellations and a smaller number of     *)
(* seats interleave (ReservationService.java:38-43 and 95-100).            *)
SeatsFit == TicketsIn(ConfirmedRows) <= session.seats

(* A phone number holds at most one confirmed booking of a session, also   *)
(* when two tabs book with it at the same time (ReservationService.java:40).*)
OnePerPhone ==
  \A q, r \in ConfirmedRows : bookings[q].phone = bookings[r].phone => q = r

(* A booking that has ended is final: nothing confirms it again or changes *)
(* its tickets, whatever copy of it an older transaction still holds       *)
(* (Reservation.java:36, ReservationService.java:98-99).                   *)
CanceledIsFinal ==
  [][\A r \in DOMAIN bookings :
       bookings[r].status = "CANCELED" => bookings'[r] = bookings[r]]_bookings

(* A session that has a booking, also a cancelled one, is never deleted,   *)
(* and no booking arrives in a session that was                            *)
(* (ShowManagementService.java:203-211).                                   *)
BookedSessionsStay == bookings # << >> => session.exists

(* What the ledger of seats sees of the rows. *)
TakesBookings ==
  show.open /\ ~show.hidden /\ session.exists /\ ~session.started

Holdings == [r \in ConfirmedRows |-> [phone |-> bookings[r].phone,
                                     tickets |-> bookings[r].tickets]]

Ledger == INSTANCE SeatLedger
          WITH seats <- session.seats, stands <- session.exists,
               takes <- TakesBookings, given <- Len(bookings), held <- Holdings

(* All the transactions together work as if each were one step: a booking  *)
(* is made only while the show takes bookings, for a free phone number and *)
(* seats that are left, and every other entry of SeatLedger is checked and *)
(* made at once, although the code reads and locks the rows one after the  *)
(* other (ReservationService.java:38-43 and 95-100).                       *)
ImplementsSeats == Ledger!Spec

(* What the list promises: bookings that are cancelled are left out of the *)
(* phone numbers and the sheet it exports (session-reservations.tsx:53).   *)
(* Asked only of the cancellations this very page has been told of.        *)
ExportsNoCanceled == \A r \in told : Shows(r, "CANCELED")
==============================================================================
