--------------------------- MODULE TimetableBoard ---------------------------
(***************************************************************************)
(* The timetable a producer edits through a management link: the server's  *)
(* board (timetables, timetable_actors) and one page that holds a copy of  *)
(* it (board), the producer's unsaved edits (draft) and at most two        *)
(* requests: op, which makes the page busy, and extra, from a dialog that  *)
(* keeps its own saving flag or runs beside it.  Other tabs that hold the  *)
(* same link are transactions of the server; MaxOthers bounds them and the *)
(* requests of those dialogs together.                                     *)
(*                                                                         *)
(* Actors are the numbers the server gives out in registration order, a    *)
(* slot is its rank in time, so offered is what the windows of a setting   *)
(* amount to and the first free slot is the least one.                     *)
(***************************************************************************)
EXTENDS Integers, FiniteSets

CONSTANTS MaxActors, Slots, FirstOffered, MaxCapacity, MaxOthers, RecordShown,
          None

ASSUME BoardAssumption == /\ MaxActors \in Nat \ {0}
                          /\ MaxOthers \in Nat
                          /\ MaxCapacity \in Nat \ {0}
                          /\ Slots \subseteq Nat
                          /\ FirstOffered \subseteq Slots
                          /\ RecordShown \in BOOLEAN
                          /\ None \notin Slots

VARIABLES table,   \* the saved setting and whether it is published
          roster,  \* the registered actors: their slot, and whether invited
          issued,  \* actor numbers given out so far
          sheet,   \* the page: its copy of the board and its draft
          op,      \* the request that makes the page busy, or None
          extra,   \* a request of the information or template dialog, or None
          busy,    \* whether the page disables its buttons
          shown,   \* history: the last saved slot the page showed of an actor
          others   \* transactions of other tabs and requests in extra so far

boardVars == <<table, roster, issued, sheet, op, extra, busy, shown, others>>
server == <<table, roster, issued>>

Ids == 1..MaxActors
Board == [table |-> table, roster |-> roster]
------------------------------------------------------------------------------
(* The draft: board-draft.ts.                                              *)

SlotsOf(r) == [a \in DOMAIN r |-> r[a].slot]

DraftFrom(b) == [offered |-> b.table.offered, capacity |-> b.table.capacity,
                 slots |-> SlotsOf(b.roster)]

Occupancy(slots, k) == {a \in DOMAIN slots : slots[a] = k}

MoveActor(d, a, k) == [d EXCEPT !.slots[a] = k]

Earliest(ks) == CHOOSE k \in ks : \A other \in ks : k <= other

(* In registration order, every target without a slot takes the first free one. *)
Filled(d, targets) ==
  LET Open(s) == {k \in d.offered : Cardinality(Occupancy(s, k)) < d.capacity}
      f[n \in 0..MaxActors] ==
        IF n = 0 THEN d.slots
        ELSE LET s == f[n - 1]
             IN IF n \in targets /\ s[n] = None /\ Open(s) # {}
                THEN [s EXCEPT ![n] = Earliest(Open(s))] ELSE s
  IN f[MaxActors]

AutoAssign(d, targets) ==
  LET filled == Filled(d, targets)
  IN [d EXCEPT !.slots = [a \in DOMAIN d.slots |-> filled[a]]]

(* What the server refuses: a slot outside the setting, too many actors in *)
(* one, an invited actor of a published timetable without a slot.          *)
Valid(status, d, invited) ==
  /\ \A a \in DOMAIN d.slots : d.slots[a] # None => d.slots[a] \in d.offered
  /\ \A k \in d.offered : Cardinality(Occupancy(d.slots, k)) <= d.capacity
  /\ status = "PUBLISHED" => \A a \in invited : d.slots[a] # None

InvitedIn(r) == {a \in DOMAIN r : r[a].invited}

(* Mutant: the page no longer looks for crowded slots before it saves. *)
ProblemsWithoutCapacity(b, d) ==
  ~Valid(b.table.status, [d EXCEPT !.capacity = MaxActors], InvitedIn(b.roster))

ProblemsOf(b, d) == ~Valid(b.table.status, d, InvitedIn(b.roster))

AssignmentsOf(b, d) ==
  [a \in {m \in DOMAIN d.slots : d.slots[m] # b.roster[m].slot} |->
     [previous |-> b.roster[a].slot, next |-> d.slots[a]]]

SettingChanged(b, d) == \/ d.offered # b.table.offered
                        \/ d.capacity # b.table.capacity

Dirty(b, d) == DOMAIN AssignmentsOf(b, d) # {} \/ SettingChanged(b, d)

(* Mutant: the list leaves out the actors who are told of a change. *)
NoticesOfNewcomers(b, d) ==
  IF b.table.status # "PUBLISHED" THEN {}
  ELSE {a \in DOMAIN b.roster : ~b.roster[a].invited /\ d.slots[a] # None}

NoticesOnSave(b, d) ==
  IF b.table.status # "PUBLISHED" THEN {}
  ELSE {a \in DOMAIN b.roster : IF b.roster[a].invited
                                THEN a \in DOMAIN AssignmentsOf(b, d)
                                ELSE d.slots[a] # None}

RebaseDraft(previous, next, d) ==
  LET kept == SettingChanged(previous, d)
      edited == {a \in DOMAIN previous.roster : d.slots[a] # previous.roster[a].slot}
      after == DraftFrom(next)
  IN [offered |-> IF kept THEN d.offered ELSE after.offered,
      capacity |-> IF kept THEN d.capacity ELSE after.capacity,
      slots |-> [a \in DOMAIN next.roster |->
                   IF a \in edited THEN d.slots[a] ELSE after.slots[a]]]
------------------------------------------------------------------------------
(* Transactions of the server: TimetableService.java, TimetableBoard.java. *)
(* Each runs under the lock of the timetable's row.                        *)

(* Mutant: a save checks the actors it moves, not the whole board. *)
AcceptsWithoutValid(setting, moves) ==
  /\ table.offered \subseteq setting.offered
  /\ table.capacity <= setting.capacity
  /\ DOMAIN moves \subseteq DOMAIN roster
  /\ \A a \in DOMAIN moves : roster[a].slot = moves[a].previous

Moved(moves) == [a \in DOMAIN roster |->
                   IF a \in DOMAIN moves THEN moves[a].next ELSE roster[a].slot]

AcceptsSave(setting, moves) ==
  /\ table.offered \subseteq setting.offered
  /\ table.capacity <= setting.capacity
  /\ DOMAIN moves \subseteq DOMAIN roster
  /\ \A a \in DOMAIN moves : roster[a].slot = moves[a].previous
  /\ Valid(table.status, [setting EXCEPT !.slots = Moved(moves)], InvitedIn(roster))

SaveBoard(setting, moves) ==
  /\ table' = [table EXCEPT !.offered = setting.offered, !.capacity = setting.capacity]
  /\ roster' = [a \in DOMAIN roster |->
                  [slot |-> Moved(moves)[a],
                   invited |-> \/ roster[a].invited
                               \/ table.status = "PUBLISHED" /\ Moved(moves)[a] # None]]
  /\ UNCHANGED issued

(* Whom the server sends a notice when it carries a save out. *)
Announced(moves) ==
  IF table.status # "PUBLISHED" THEN {}
  ELSE {a \in DOMAIN roster : IF roster[a].invited
                              THEN a \in DOMAIN moves
                              ELSE Moved(moves)[a] # None}

AcceptsPublish == /\ table.status = "DRAFT"
                  /\ DOMAIN roster # {}
                  /\ \A a \in DOMAIN roster : roster[a].slot # None
                  /\ Valid(table.status, DraftFrom(Board), InvitedIn(roster))

Publish == /\ table' = [table EXCEPT !.status = "PUBLISHED"]
           /\ roster' = [a \in DOMAIN roster |-> [slot |-> roster[a].slot, invited |-> TRUE]]
           /\ UNCHANGED issued

RegisterActors(n) ==
  /\ roster' = [a \in DOMAIN roster \cup (issued + 1)..(issued + n) |->
                  IF a \in DOMAIN roster THEN roster[a]
                  ELSE [slot |-> None, invited |-> FALSE]]
  /\ issued' = issued + n
  /\ UNCHANGED table

RemoveActor(a) == /\ roster' = [b \in DOMAIN roster \ {a} |-> roster[b]]
                  /\ UNCHANGED <<table, issued>>
------------------------------------------------------------------------------
(* Edits of the draft.  A dialog that waits for an answer covers the page: *)
(* removal, registration (unless it is the form of a page without actors), *)
(* the information and the template.  The sheet is disabled while the page *)
(* is busy; the roster, its dialog and the menu's dialogs are not, and an  *)
(* answer to one dialog frees the page while another request is under way. *)

Covered == \/ extra # None
           \/ /\ op # None
              /\ \/ op.kind = "remove"
                 \/ op.kind = "register" /\ DOMAIN sheet.board.roster # {}

(* history: what the page shows of an actor as saved, once it shows it. *)
NowShown(s) == [a \in Ids |-> IF a \in DOMAIN s.draft.slots
                              THEN IF s.draft.slots[a] = s.board.roster[a].slot
                                   THEN s.draft.slots[a] ELSE shown[a]
                              ELSE None]

Draws(s) == sheet' = s /\ shown' = IF RecordShown THEN NowShown(s) ELSE shown

Edit(d) == /\ d # sheet.draft
           /\ Draws([sheet EXCEPT !.draft = d])
           /\ UNCHANGED <<table, roster, issued, op, extra, busy, others>>

Place(a, k) ==
  LET d == sheet.draft
      there == Occupancy(d.slots, k) \ {a}
  IN /\ ~busy /\ ~Covered
     /\ IF Cardinality(there) < d.capacity
        THEN Edit(MoveActor(d, a, k))
        ELSE /\ d.capacity = 1
             /\ Edit(MoveActor(MoveActor(d, Earliest(there), d.slots[a]), a, k))

Unassign(a) == /\ ~Covered
               /\ ~(sheet.board.table.status = "PUBLISHED" /\ sheet.board.roster[a].invited)
               /\ Edit(MoveActor(sheet.draft, a, None))

RunAutoAssign == /\ ~busy /\ ~Covered
                 /\ Edit(AutoAssign(sheet.draft, DOMAIN sheet.draft.slots))

LongerTimes(offered, capacity) ==
  /\ ~Covered
  /\ sheet.board.table.offered \subseteq offered
  /\ sheet.board.table.capacity <= capacity
  /\ Edit([offered |-> offered, capacity |-> capacity, slots |-> sheet.draft.slots])

UndoAll == ~busy /\ ~Covered /\ Edit(DraftFrom(sheet.board))
------------------------------------------------------------------------------
(* Requests of the page.                                                   *)

Request(kind, args) ==
  [kind |-> kind, args |-> args, reply |-> None,
   from |-> IF kind \in {"save", "register"} THEN sheet ELSE None]

Sends(request) == /\ op = None /\ extra = None
                  /\ op' = request
                  /\ busy' = TRUE
                  /\ UNCHANGED <<server, sheet, extra, shown, others>>

SaveArgs(thenPublish) ==
  [setting |-> sheet.draft, moves |-> AssignmentsOf(sheet.board, sheet.draft),
   listed |-> NoticesOnSave(sheet.board, sheet.draft), thenPublish |-> thenPublish]

RequestSave == /\ Dirty(sheet.board, sheet.draft)
               /\ ~ProblemsOf(sheet.board, sheet.draft)
               /\ Sends(Request("save", SaveArgs(FALSE)))

RequestPublish == /\ sheet.board.table.status = "DRAFT"
                  /\ DOMAIN sheet.draft.slots # {}
                  /\ \A a \in DOMAIN sheet.draft.slots : sheet.draft.slots[a] # None
                  /\ ~ProblemsOf(sheet.board, sheet.draft)
                  /\ Sends(IF Dirty(sheet.board, sheet.draft)
                           THEN Request("save", SaveArgs(TRUE)) ELSE Request("publish", None))

Register(n) == Sends(Request("register", n))

Remove(a) == Sends(Request("remove", a))

SaveInfo == /\ ~Covered
            /\ others < MaxOthers /\ others' = others + 1
            /\ extra' = [reply |-> None]
            /\ busy' = TRUE
            /\ UNCHANGED <<server, sheet, op, shown>>

(* The server carries a request out; its answer is the new board.          *)
Accepts(request) ==
  CASE request.kind = "save" -> AcceptsSave(request.args.setting, request.args.moves)
    [] request.kind = "publish" -> AcceptsPublish
    [] request.kind = "register" -> issued + request.args <= MaxActors
    [] request.kind = "remove" -> request.args \in DOMAIN roster

Applies(request) ==
  \/ request.kind = "save" /\ SaveBoard(request.args.setting, request.args.moves)
  \/ request.kind = "publish" /\ Publish
  \/ request.kind = "register" /\ RegisterActors(request.args)
  \/ request.kind = "remove" /\ RemoveActor(request.args)

ServeOp == /\ op # None /\ op.reply = None
           /\ Accepts(op)
           /\ Applies(op)
           /\ op' = [op EXCEPT !.reply = Board']
           /\ UNCHANGED <<sheet, extra, busy, shown, others>>

CarryInfo == /\ extra # None /\ extra.reply = None
             /\ extra' = [reply |-> Board]
             /\ UNCHANGED <<server, sheet, op, busy, shown, others>>

(* The page receives an answer.  Registration computes from the board and  *)
(* the draft of the moment it was sent, the other operations from those of *)
(* the moment the answer arrives.                                          *)
Placed(from, next) ==
  AutoAssign(RebaseDraft(from.board, next, from.draft),
             DOMAIN next.roster \ DOMAIN from.board.roster)

(* Mutant: the answer of a removal is combined with the draft it was sent from. *)
AnsweredFromClosure(request, next) ==
  CASE request.kind \in {"save", "publish"} -> DraftFrom(next)
    [] request.kind = "register" -> Placed(request.from, next)
    [] request.kind \in {"remove", "info"} -> DraftFrom(next)

Answered(request, next) ==
  CASE request.kind \in {"save", "publish"} -> DraftFrom(next)
    [] request.kind = "register" -> Placed(request.from, next)
    [] request.kind \in {"remove", "info"} -> RebaseDraft(sheet.board, next, sheet.draft)

Receive == /\ op # None /\ op.reply # None
           /\ Draws([board |-> op.reply, draft |-> Answered(op, op.reply)])
           /\ op' = IF op.kind = "save" /\ op.args.thenPublish
                    THEN Request("publish", None) ELSE None
           /\ busy' = (op' # None)
           /\ UNCHANGED <<server, extra, others>>

(* The page learns of a failure: the server refused the request, or the    *)
(* connection was lost before or after the server carried it out.          *)
ReceiveError == /\ op # None
                /\ op' = None
                /\ busy' = FALSE
                /\ UNCHANGED <<server, sheet, extra, shown, others>>

ReceiveInfo == /\ extra # None /\ extra.reply # None
               /\ Draws([board |-> extra.reply,
                         draft |-> Answered([kind |-> "info"], extra.reply)])
               /\ extra' = None
               /\ busy' = FALSE
               /\ UNCHANGED <<server, op, others>>

InfoError == /\ extra # None
             /\ extra' = None
             /\ busy' = FALSE
             /\ UNCHANGED <<server, sheet, op, shown, others>>

(* The producer opens the link again. *)
Reload == /\ op = None /\ extra = None
          /\ sheet # [board |-> Board, draft |-> DraftFrom(Board)]
          /\ Draws([board |-> Board, draft |-> DraftFrom(Board)])
          /\ UNCHANGED <<server, op, extra, busy, others>>

(* A transaction of another tab with the same link. *)
OtherTab == /\ others < MaxOthers
            /\ others' = others + 1
            /\ \/ \E offered \in SUBSET Slots, capacity \in 1..MaxCapacity,
                     slots \in [DOMAIN roster -> Slots \cup {None}] :
                    LET d == [offered |-> offered, capacity |-> capacity, slots |-> slots]
                        moves == AssignmentsOf(Board, d)
                    IN AcceptsSave(d, moves) /\ SaveBoard(d, moves)
               \/ AcceptsPublish /\ Publish
               \/ issued < MaxActors /\ RegisterActors(1)
               \/ \E a \in DOMAIN roster : RemoveActor(a)
            /\ UNCHANGED <<sheet, op, extra, busy, shown>>
------------------------------------------------------------------------------
BoardInit ==
  /\ table = [status |-> "DRAFT", offered |-> FirstOffered, capacity |-> 1]
  /\ roster = [a \in {} |-> None]
  /\ issued = 0
  /\ sheet = [board |-> Board, draft |-> DraftFrom(Board)]
  /\ op = None
  /\ extra = None
  /\ busy = FALSE
  /\ shown = [a \in Ids |-> None]
  /\ others = 0

PageStep == \/ \E a \in DOMAIN sheet.draft.slots, k \in sheet.draft.offered : Place(a, k)
            \/ \E a \in DOMAIN sheet.draft.slots : Unassign(a)
            \/ RunAutoAssign
            \/ \E offered \in SUBSET Slots, capacity \in 1..MaxCapacity :
                 LongerTimes(offered, capacity)
            \/ UndoAll
            \/ RequestSave
            \/ RequestPublish
            \/ \E n \in 1..MaxActors : Register(n)
            \/ \E a \in DOMAIN sheet.board.roster : Remove(a)
            \/ SaveInfo
            \/ Receive \/ ReceiveError \/ ReceiveInfo \/ InfoError
            \/ Reload

ServerStep == ServeOp \/ CarryInfo

BoardNext == PageStep \/ ServerStep \/ OtherTab

BoardSpec == BoardInit /\ [][BoardNext]_boardVars
------------------------------------------------------------------------------
(* Every saved slot is one the timetable offers, no slot holds more actors *)
(* than its capacity, and an actor invited to a published timetable has a  *)
(* slot, whatever the tabs save, register and remove in any order.         *)
SavedFits ==
  Valid(table.status, DraftFrom(Board), InvitedIn(roster))

(* A save that the page let through is refused only if the timetable is no *)
(* longer the one the page had, or if the page kept an edited setting when *)
(* a new board offered slots the edit does not have: what the page calls a *)
(* problem and what the server refuses agree.                              *)
RefusedOnlyWhenStale ==
  (/\ op # None /\ op.kind = "save" /\ op.reply = None /\ op.from.board = Board)
  => \/ AcceptsSave(op.args.setting, op.args.moves)
     \/ ~(table.offered \subseteq op.args.setting.offered)
     \/ table.capacity > op.args.setting.capacity

(* The actors the page lists before a save are those the server sends a    *)
(* notice, as long as the timetable is still the one the page had.         *)
NoticesAsListed ==
  (/\ op # None /\ op.kind = "save" /\ op.reply = None /\ op.from.board = Board
   /\ AcceptsSave(op.args.setting, op.args.moves))
  => Announced(op.args.moves) = op.args.listed

(* The answers of a removal, of a changed text or of a closed question     *)
(* keep every slot the producer has edited by the time they arrive.        *)
KeepsEdits ==
  [][\A a \in Ids :
       (/\ sheet' # sheet /\ sheet'.board # sheet.board
        /\ \/ ReceiveInfo
           \/ op # None /\ op.kind = "remove" /\ Receive
        /\ a \in DOMAIN sheet.board.roster \cap DOMAIN sheet'.board.roster
        /\ sheet.draft.slots[a] # sheet.board.roster[a].slot)
       => sheet'.draft.slots[a] = sheet.draft.slots[a]]_boardVars

(* A save replaces a slot only if the page showed it: board-draft.ts:114   *)
(* says the previous slot is sent so that a change made meanwhile is not   *)
(* overwritten.                                                            *)
OverwritesOnlyShown ==
  [][(ServeOp /\ op.kind = "save")
     => \A a \in DOMAIN op.args.moves : roster[a].slot = shown[a]]_boardVars
==============================================================================
