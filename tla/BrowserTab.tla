----------------------------- MODULE BrowserTab -----------------------------
(***************************************************************************)
(* One tab of the frontend, with the server and the other tabs it meets:   *)
(* the uploads of a review, the application of an actor, the timetable of  *)
(* an audition or the bookings of a show.  The pages share no state, so a  *)
(* behaviour of the tab is one of the page it opened.                      *)
(***************************************************************************)
EXTENDS ReviewIntake, ApplicationForm, TimetableBoard, SeatReservation

VARIABLE route

TabInit ==
  /\ IntakeInit /\ ApplicationInit /\ BoardInit /\ SeatInit
  /\ route \in {"uploads", "application", "timetable", "reservations"}
  /\ route # "uploads" => content = [f \in Files |-> CHOOSE s \in Sources : TRUE]

TabNext ==
  \/ /\ route = "uploads" /\ IntakeNext
     /\ UNCHANGED <<route, applicationVars, boardVars, seatVars>>
  \/ /\ route = "application" /\ ApplicationNext
     /\ UNCHANGED <<route, intakeVars, boardVars, seatVars>>
  \/ /\ route = "timetable" /\ BoardNext
     /\ UNCHANGED <<route, intakeVars, applicationVars, seatVars>>
  \/ /\ route = "reservations" /\ SeatNext
     /\ UNCHANGED <<route, intakeVars, applicationVars, boardVars>>

tabVars == <<route, intakeVars, applicationVars, boardVars, seatVars>>

TabSpec == TabInit /\ [][TabNext]_tabVars
==============================================================================
