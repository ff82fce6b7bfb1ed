------------------------ MODULE TimetableBoardProofs ------------------------
(***************************************************************************)
(* Proofs that page and server agree about a timetable, for any number of  *)
(* actors, slots and transactions of other tabs: the board stored fits its *)
(* own limits, a save that the page lets through is refused only when the  *)
(* board has changed, and the notices listed are those sent.               *)
(*                                                                         *)
(* What a save sends was computed from a copy of a board and a draft of    *)
(* the same actors (SheetOK), and stays what it was until the server looks *)
(* at it (SaveOK); nothing is assumed of when answers arrive.              *)
(***************************************************************************)
EXTENDS TimetableBoard, FiniteSetTheorems, TLAPS

-----------------------------------------------------------------------------
(* The invariant.                                                          *)

Tables == [status : {"DRAFT", "PUBLISHED"}, offered : SUBSET Slots, capacity : Nat]

RosterOK(r) == /\ r = [a \in DOMAIN r |-> [slot |-> r[a].slot, invited |-> r[a].invited]]
               /\ IsFiniteSet(DOMAIN r)

BoardOK(b) == /\ b = [table |-> b.table, roster |-> b.roster]
              /\ b.table \in Tables
              /\ RosterOK(b.roster)

(* A draft of the actors of this board.                                    *)
DraftOK(d, b) ==
  /\ d = [offered |-> d.offered, capacity |-> d.capacity, slots |-> d.slots]
  /\ d.offered \subseteq Slots
  /\ d.capacity \in Nat
  /\ d.slots = [a \in DOMAIN b.roster |-> d.slots[a]]

SheetOK(s) == /\ s = [board |-> s.board, draft |-> s.draft]
              /\ BoardOK(s.board)
              /\ DraftOK(s.draft, s.board)

SaveOK(request) ==
  LET b == request.from.board
      d == request.from.draft
  IN /\ request.args.setting = d
     /\ request.args.moves = AssignmentsOf(b, d)
     /\ request.args.listed = NoticesOnSave(b, d)
     /\ ~ProblemsOf(b, d)

OpOK(request) ==
  /\ request = [kind |-> request.kind, args |-> request.args,
                reply |-> request.reply, from |-> request.from]
  /\ request.kind \in {"save", "publish", "register", "remove"}
  /\ request.kind \in {"save", "register"} => SheetOK(request.from)
  /\ request.kind = "save" => SaveOK(request)
  /\ request.kind = "register" => request.args \in Nat
  /\ request.reply # None => BoardOK(request.reply)

ExtraOK(request) == /\ request = [reply |-> request.reply]
                    /\ request.reply # None => BoardOK(request.reply)

PageOK == /\ SheetOK(sheet)
          /\ op # None => OpOK(op)
          /\ extra # None => ExtraOK(extra)

StoreOK == BoardOK(Board) /\ issued \in Nat /\ SavedFits

BoardInv == StoreOK /\ PageOK

-----------------------------------------------------------------------------
(* The server's transactions.                                              *)

LEMMA BoardParts == Board.table = table /\ Board.roster = roster
  BY DEF Board

(* What is left of a full slot when actors go.                             *)
LEMMA FewerActors ==
  ASSUME NEW f, NEW g, NEW k, NEW c \in Nat,
         IsFiniteSet(DOMAIN g),
         \A a \in DOMAIN f : f[a] = k => a \in DOMAIN g /\ g[a] = k,
         Cardinality(Occupancy(g, k)) <= c
  PROVE  Cardinality(Occupancy(f, k)) <= c
  <1>1. Occupancy(f, k) \subseteq Occupancy(g, k) /\ Occupancy(g, k) \subseteq DOMAIN g
    BY DEF Occupancy
  <1>2. IsFiniteSet(Occupancy(g, k))
    BY <1>1, FS_Subset
  <1>3. /\ Cardinality(Occupancy(f, k)) <= Cardinality(Occupancy(g, k))
        /\ Cardinality(Occupancy(f, k)) \in Nat /\ Cardinality(Occupancy(g, k)) \in Nat
    BY <1>1, <1>2, FS_Subset, FS_CardinalityType
  <1> QED BY <1>3

LEMMA SaveKeeps ==
  ASSUME StoreOK, NEW setting, NEW b, DraftOK(setting, b), NEW moves,
         AcceptsSave(setting, moves), SaveBoard(setting, moves)
  PROVE  StoreOK'
  <1> DEFINE after == [setting EXCEPT !.slots = Moved(moves)]
  <1>1. /\ after.offered = setting.offered /\ after.capacity = setting.capacity
        /\ after.slots = Moved(moves)
    BY DEF DraftOK
  <1>2. /\ table \in Tables
        /\ table' = [table EXCEPT !.offered = setting.offered, !.capacity = setting.capacity]
    BY DEF StoreOK, BoardOK, Board, SaveBoard
  <1>3. /\ table' \in Tables /\ table'.status = table.status
        /\ table'.offered = after.offered /\ table'.capacity = after.capacity
    BY <1>1, <1>2 DEF Tables, DraftOK
  <1>4. /\ RosterOK(roster')
        /\ DOMAIN roster' = DOMAIN roster
        /\ \A a \in DOMAIN roster :
             /\ roster'[a].slot = Moved(moves)[a]
             /\ roster'[a].invited =
                  (roster[a].invited \/ (table.status = "PUBLISHED" /\ Moved(moves)[a] # None))
    BY DEF StoreOK, BoardOK, Board, RosterOK, SaveBoard
  <1>5. BoardOK(Board)' /\ issued' \in Nat
    BY <1>3, <1>4 DEF BoardOK, Board, SaveBoard, StoreOK
  <1>6. SlotsOf(roster') = after.slots
    BY <1>1, <1>4 DEF SlotsOf, Moved
  <1>7. Valid(table.status, after, InvitedIn(roster))
    BY DEF AcceptsSave
  <1> HIDE DEF after
  <1>8. Valid(table'.status, DraftFrom(Board'), InvitedIn(roster'))
    <2>1. /\ DraftFrom(Board').offered = after.offered
          /\ DraftFrom(Board').capacity = after.capacity
          /\ DraftFrom(Board').slots = after.slots
      BY <1>3, <1>6 DEF DraftFrom, Board
    <2>2. \A a \in InvitedIn(roster') : table.status = "PUBLISHED" => after.slots[a] # None
      BY <1>1, <1>4, <1>7 DEF InvitedIn, Valid
    <2> QED BY <1>3, <1>7, <2>1, <2>2 DEF Valid
  <1> QED BY <1>5, <1>8 DEF StoreOK, SavedFits

LEMMA PublishKeeps == ASSUME StoreOK, AcceptsPublish, Publish PROVE StoreOK'
  <1>1. /\ table' \in Tables
        /\ table'.offered = table.offered /\ table'.capacity = table.capacity
    BY DEF StoreOK, BoardOK, Board, Tables, Publish
  <1>2. /\ RosterOK(roster') /\ DOMAIN roster' = DOMAIN roster
        /\ \A a \in DOMAIN roster : roster'[a].slot = roster[a].slot
    <2>1. /\ roster = [a \in DOMAIN roster |->
                        [slot |-> roster[a].slot, invited |-> roster[a].invited]]
          /\ IsFiniteSet(DOMAIN roster)
      BY DEF StoreOK, BoardOK, Board, RosterOK
    <2>2. roster' = [a \in DOMAIN roster |-> [slot |-> roster[a].slot, invited |-> TRUE]]
      BY DEF Publish
    <2>3. DOMAIN roster' = DOMAIN roster
      BY <2>2
    <2>4. \A a \in DOMAIN roster :
            roster'[a].slot = roster[a].slot /\ roster'[a].invited = TRUE
      BY <2>2
    <2> QED BY <2>1, <2>2, <2>3, <2>4 DEF RosterOK
  <1>3. SlotsOf(roster') = SlotsOf(roster)
    BY <1>2 DEF SlotsOf
  <1>4. Valid(table.status, DraftFrom(Board), InvitedIn(roster))
    BY DEF AcceptsPublish
  <1>5. Valid(table'.status, DraftFrom(Board'), InvitedIn(roster'))
    <2>1. DraftFrom(Board') = DraftFrom(Board)
      BY <1>1, <1>3 DEF DraftFrom, Board
    <2>2. \A a \in InvitedIn(roster') : DraftFrom(Board).slots[a] # None
      BY <1>2 DEF InvitedIn, AcceptsPublish, DraftFrom, Board, SlotsOf
    <2> QED BY <1>4, <2>1, <2>2 DEF Valid
  <1> QED BY <1>1, <1>2, <1>5 DEF StoreOK, SavedFits, BoardOK, Board, Publish

(* A roster with fewer actors, or with others who have no slot yet.        *)
LEMMA RosterChanges ==
  ASSUME StoreOK, RosterOK(roster'), UNCHANGED table, issued' \in Nat,
         \A a \in DOMAIN roster' : IF a \in DOMAIN roster THEN roster'[a] = roster[a]
                                   ELSE roster'[a].slot = None /\ ~roster'[a].invited
  PROVE  StoreOK'
  <1>1. table.offered \subseteq Slots /\ table.capacity \in Nat
    BY DEF StoreOK, BoardOK, Board, Tables
  <1>2. /\ DOMAIN SlotsOf(roster') = DOMAIN roster' /\ DOMAIN SlotsOf(roster) = DOMAIN roster
        /\ \A a \in DOMAIN roster' : SlotsOf(roster')[a] = roster'[a].slot
        /\ \A a \in DOMAIN roster : SlotsOf(roster)[a] = roster[a].slot
    BY DEF SlotsOf
  <1>3. /\ DraftFrom(Board).slots = SlotsOf(roster)
        /\ DraftFrom(Board).offered = table.offered
        /\ DraftFrom(Board).capacity = table.capacity
        /\ DraftFrom(Board').slots = SlotsOf(roster')
        /\ DraftFrom(Board').offered = table.offered
        /\ DraftFrom(Board').capacity = table.capacity
    BY DEF DraftFrom, Board
  <1>4. Valid(table.status, DraftFrom(Board), InvitedIn(roster))
    BY DEF StoreOK, SavedFits
  <1>5. ASSUME NEW k \in table.offered
        PROVE  Cardinality(Occupancy(SlotsOf(roster'), k)) <= table.capacity
    <2>1. k # None
      BY <1>1, <1>5, BoardAssumption
    <2>2. IsFiniteSet(DOMAIN SlotsOf(roster))
      BY <1>2 DEF StoreOK, BoardOK, Board, RosterOK
    <2>3. Cardinality(Occupancy(SlotsOf(roster), k)) <= table.capacity
      BY <1>3, <1>4, <1>5 DEF Valid
    <2>4. \A a \in DOMAIN SlotsOf(roster') : SlotsOf(roster')[a] = k
            => a \in DOMAIN SlotsOf(roster) /\ SlotsOf(roster)[a] = k
      BY <1>2, <2>1
    <2> QED BY <1>1, <2>2, <2>3, <2>4, FewerActors
  <1>6. \A a \in DOMAIN SlotsOf(roster') :
          SlotsOf(roster')[a] # None => SlotsOf(roster')[a] \in table.offered
    BY <1>2, <1>3, <1>4 DEF Valid
  <1>7. \A a \in InvitedIn(roster') :
          a \in InvitedIn(roster) /\ SlotsOf(roster')[a] = SlotsOf(roster)[a]
    BY <1>2 DEF InvitedIn
  <1>8. Valid(table'.status, DraftFrom(Board'), InvitedIn(roster'))
    BY <1>3, <1>4, <1>5, <1>6, <1>7 DEF Valid
  <1> QED BY <1>8 DEF StoreOK, SavedFits, BoardOK, Board

LEMMA RegisterKeeps ==
  ASSUME StoreOK, NEW n \in Nat, RegisterActors(n) PROVE StoreOK'
  <1>1. issued \in Nat /\ IsFiniteSet(DOMAIN roster)
    BY DEF StoreOK, BoardOK, Board, RosterOK
  <1>2. issued + 1 \in Int /\ issued + n \in Int /\ issued + n \in Nat
    BY <1>1
  <1>3. IsFiniteSet((issued + 1)..(issued + n))
    BY <1>2, FS_Interval
  <1>4. IsFiniteSet(DOMAIN roster \cup (issued + 1)..(issued + n))
    BY <1>1, <1>3, FS_Union
  <1>5. /\ DOMAIN roster' = DOMAIN roster \cup (issued + 1)..(issued + n)
        /\ roster' = [a \in DOMAIN roster' |-> IF a \in DOMAIN roster THEN roster[a]
                                               ELSE [slot |-> None, invited |-> FALSE]]
    BY DEF RegisterActors
  <1>6. RosterOK(roster')
    BY <1>4, <1>5 DEF RosterOK, StoreOK, BoardOK, Board
  <1> QED BY <1>2, <1>5, <1>6, RosterChanges DEF RegisterActors

LEMMA RemoveKeeps == ASSUME StoreOK, NEW a, RemoveActor(a) PROVE StoreOK'
  <1>1. /\ DOMAIN roster' = DOMAIN roster \ {a}
        /\ roster' = [b \in DOMAIN roster' |-> roster[b]]
    BY DEF RemoveActor
  <1>2. IsFiniteSet(DOMAIN roster')
    BY <1>1, FS_Subset DEF StoreOK, BoardOK, Board, RosterOK
  <1>3. RosterOK(roster')
    BY <1>1, <1>2 DEF RosterOK, StoreOK, BoardOK, Board
  <1> QED BY <1>1, <1>3, RosterChanges DEF RemoveActor, StoreOK

-----------------------------------------------------------------------------
(* The page's drafts.                                                      *)

LEMMA FreshDraft ==
  ASSUME NEW b, BoardOK(b)
  PROVE  SheetOK([board |-> b, draft |-> DraftFrom(b)])
  <1>1. b.table.offered \subseteq Slots /\ b.table.capacity \in Nat
    BY DEF BoardOK, Tables
  <1>2. DraftOK(DraftFrom(b), b)
    BY <1>1 DEF DraftOK, DraftFrom, SlotsOf
  <1> QED BY <1>2 DEF SheetOK

LEMMA DraftMoved ==
  ASSUME NEW b, NEW d, DraftOK(d, b), NEW a, NEW k
  PROVE  DraftOK(MoveActor(d, a, k), b)
  <1>1. /\ MoveActor(d, a, k).offered = d.offered
        /\ MoveActor(d, a, k).capacity = d.capacity
        /\ MoveActor(d, a, k).slots = [d.slots EXCEPT ![a] = k]
        /\ MoveActor(d, a, k) = [offered |-> d.offered, capacity |-> d.capacity,
                                 slots |-> [d.slots EXCEPT ![a] = k]]
    BY DEF DraftOK, MoveActor
  <1> QED BY <1>1 DEF DraftOK

LEMMA DraftAssigned ==
  ASSUME NEW b, NEW d, DraftOK(d, b), NEW targets
  PROVE  DraftOK(AutoAssign(d, targets), b)
  <1> DEFINE slots == [a \in DOMAIN d.slots |-> Filled(d, targets)[a]]
  <1>1. AutoAssign(d, targets) =
          [offered |-> d.offered, capacity |-> d.capacity, slots |-> slots]
    BY DEF DraftOK, AutoAssign
  <1>2. slots = [a \in DOMAIN b.roster |-> slots[a]]
    BY DEF DraftOK
  <1> HIDE DEF slots
  <1> QED BY <1>1, <1>2 DEF DraftOK

LEMMA DraftLonger ==
  ASSUME NEW b, NEW d, DraftOK(d, b), NEW offered \in SUBSET Slots, NEW capacity \in Nat
  PROVE  DraftOK([offered |-> offered, capacity |-> capacity, slots |-> d.slots], b)
  BY DEF DraftOK

LEMMA DraftRebased ==
  ASSUME NEW before, NEW next, NEW d, DraftOK(d, before), BoardOK(next)
  PROVE  DraftOK(RebaseDraft(before, next, d), next)
  <1>1. /\ next.table.offered \subseteq Slots /\ next.table.capacity \in Nat
        /\ DraftFrom(next).offered = next.table.offered
        /\ DraftFrom(next).capacity = next.table.capacity
    BY DEF BoardOK, Tables, DraftFrom
  <1> QED BY <1>1 DEF DraftOK, RebaseDraft

(* Every answer leaves the page with a draft of the board it shows.        *)
LEMMA AnswerFits ==
  ASSUME NEW request, NEW next, SheetOK(sheet), BoardOK(next),
         request.kind \in {"save", "publish", "register", "remove", "info"},
         request.kind = "register" => SheetOK(request.from)
  PROVE  SheetOK([board |-> next, draft |-> Answered(request, next)])
  <1>1. CASE request.kind \in {"save", "publish"}
    <2>1. Answered(request, next) = DraftFrom(next)
      BY <1>1 DEF Answered
    <2> QED BY <2>1, FreshDraft
  <1>2. CASE request.kind = "register"
    <2>1. Answered(request, next) = Placed(request.from, next)
      BY <1>2 DEF Answered
    <2>2. DraftOK(RebaseDraft(request.from.board, next, request.from.draft), next)
      BY <1>2, DraftRebased DEF SheetOK
    <2>3. DraftOK(Placed(request.from, next), next)
      BY <2>2, DraftAssigned DEF Placed
    <2> QED BY <2>1, <2>3 DEF SheetOK
  <1>3. CASE request.kind \in {"remove", "info"}
    <2>1. Answered(request, next) = RebaseDraft(sheet.board, next, sheet.draft)
      BY <1>3 DEF Answered
    <2>2. DraftOK(RebaseDraft(sheet.board, next, sheet.draft), next)
      BY DraftRebased DEF SheetOK
    <2> QED BY <2>1, <2>2 DEF SheetOK
  <1> QED BY <1>1, <1>2, <1>3

-----------------------------------------------------------------------------
(* Steps of the page.                                                      *)

LEMMA StoreStays ==
  ASSUME StoreOK, UNCHANGED server PROVE StoreOK'
  BY DEF StoreOK, server, Board, SavedFits

LEMMA EditKeeps ==
  ASSUME BoardInv, NEW d, DraftOK(d, sheet.board), Edit(d) PROVE BoardInv'
  <1>1. sheet' = [sheet EXCEPT !.draft = d] /\ UNCHANGED <<server, op, extra>>
    BY DEF Edit, Draws, server
  <1>2. sheet' = [board |-> sheet.board, draft |-> d]
    BY <1>1 DEF BoardInv, PageOK, SheetOK
  <1>3. SheetOK(sheet')
    BY <1>2 DEF BoardInv, PageOK, SheetOK
  <1>4. StoreOK'
    BY <1>1, StoreStays DEF BoardInv
  <1> QED BY <1>1, <1>3, <1>4 DEF BoardInv, PageOK

LEMMA EditsKeep ==
  ASSUME BoardInv,
         \/ \E a \in DOMAIN sheet.draft.slots, k \in sheet.draft.offered : Place(a, k)
         \/ \E a \in DOMAIN sheet.draft.slots : Unassign(a)
         \/ RunAutoAssign
         \/ \E offered \in SUBSET Slots, capacity \in 1..MaxCapacity :
              LongerTimes(offered, capacity)
         \/ UndoAll
  PROVE  BoardInv'
  <1> DEFINE d == sheet.draft
  <1>1. SheetOK(sheet) /\ DraftOK(d, sheet.board)
    BY DEF BoardInv, PageOK, SheetOK
  <1>2. ASSUME NEW a, NEW k, Place(a, k) PROVE BoardInv'
    <2>1. /\ DraftOK(MoveActor(d, a, k), sheet.board)
          /\ \A b, l : DraftOK(MoveActor(MoveActor(d, b, l), a, k), sheet.board)
      BY <1>1, DraftMoved
    <2>2. \/ Edit(MoveActor(d, a, k))
          \/ \E b, l : Edit(MoveActor(MoveActor(d, b, l), a, k))
      BY <1>2 DEF Place
    <2> HIDE DEF d
    <2> QED BY <2>1, <2>2, EditKeeps
  <1>3. ASSUME NEW a, Unassign(a) PROVE BoardInv'
    BY <1>1, <1>3, DraftMoved, EditKeeps DEF Unassign
  <1>4. CASE RunAutoAssign
    BY <1>1, <1>4, DraftAssigned, EditKeeps DEF RunAutoAssign
  <1>5. ASSUME NEW offered \in SUBSET Slots, NEW capacity \in 1..MaxCapacity,
               LongerTimes(offered, capacity)
        PROVE  BoardInv'
    <2>1. capacity \in Nat
      BY BoardAssumption
    <2>2. DraftOK([offered |-> offered, capacity |-> capacity, slots |-> d.slots], sheet.board)
      BY <1>1, <2>1, DraftLonger
    <2> QED BY <1>5, <2>2, EditKeeps DEF LongerTimes
  <1>6. CASE UndoAll
    <2>1. DraftOK(DraftFrom(sheet.board), sheet.board)
      BY <1>1, FreshDraft DEF SheetOK
    <2> QED BY <1>6, <2>1, EditKeeps DEF UndoAll
  <1> QED BY <1>2, <1>3, <1>4, <1>5, <1>6

(* A request that is sent, given up or answered leaves the store alone.    *)
LEMMA RequestKeeps ==
  ASSUME BoardInv, UNCHANGED server, SheetOK(sheet'),
         op' # None => OpOK(op'), extra' # None => ExtraOK(extra')
  PROVE  BoardInv'
  BY StoreStays DEF BoardInv, PageOK

LEMMA SendsKeeps ==
  ASSUME BoardInv, NEW request, OpOK(request), Sends(request) PROVE BoardInv'
  <1>1. /\ op' = request
        /\ UNCHANGED <<server, sheet, extra>>
    BY DEF Sends
  <1> QED BY <1>1, RequestKeeps DEF BoardInv, PageOK

LEMMA SendersKeep ==
  ASSUME BoardInv,
         \/ RequestSave \/ RequestPublish
         \/ \E n \in 1..MaxActors : Register(n)
         \/ \E a \in DOMAIN sheet.board.roster : Remove(a)
  PROVE  BoardInv'
  <1>0. SheetOK(sheet)
    BY DEF BoardInv, PageOK
  <1>1. ASSUME NEW then, ~ProblemsOf(sheet.board, sheet.draft)
        PROVE  OpOK(Request("save", SaveArgs(then)))
    BY <1>0, <1>1 DEF OpOK, Request, SaveArgs, SaveOK
  <1>2. OpOK(Request("publish", None))
    BY DEF OpOK, Request
  <1>3. ASSUME NEW n \in Nat PROVE OpOK(Request("register", n))
    BY <1>0 DEF OpOK, Request
  <1>4. ASSUME NEW a PROVE OpOK(Request("remove", a))
    BY DEF OpOK, Request
  <1>5. CASE RequestSave
    BY <1>1, <1>5, SendsKeeps DEF RequestSave
  <1>6. CASE RequestPublish
    BY <1>1, <1>2, <1>6, SendsKeeps DEF RequestPublish
  <1>7. ASSUME NEW n \in 1..MaxActors, Register(n) PROVE BoardInv'
    <2>1. n \in Nat
      BY BoardAssumption
    <2> QED BY <1>3, <1>7, <2>1, SendsKeeps DEF Register
  <1>8. ASSUME NEW a, Remove(a) PROVE BoardInv'
    BY <1>4, <1>8, SendsKeeps DEF Remove
  <1> QED BY <1>5, <1>6, <1>7, <1>8

LEMMA AnswersKeep ==
  ASSUME BoardInv, Receive \/ ReceiveError \/ ReceiveInfo \/ InfoError PROVE BoardInv'
  <1>1. SheetOK(sheet) /\ (op # None => OpOK(op)) /\ (extra # None => ExtraOK(extra))
    BY DEF BoardInv, PageOK
  <1>2. CASE Receive
    <2>1. /\ sheet' = [board |-> op.reply, draft |-> Answered(op, op.reply)]
          /\ UNCHANGED <<server, extra>>
          /\ op' = None \/ op' = Request("publish", None)
      BY <1>2 DEF Receive, Draws
    <2>2. OpOK(op) /\ BoardOK(op.reply)
      BY <1>1, <1>2 DEF Receive, OpOK
    <2>3. SheetOK(sheet')
      BY <1>1, <2>1, <2>2, AnswerFits DEF OpOK
    <2>4. op' # None => OpOK(op')
      BY <2>1 DEF OpOK, Request
    <2> QED BY <1>1, <2>1, <2>3, <2>4, RequestKeeps
  <1>3. CASE ReceiveError
    BY <1>1, <1>3, RequestKeeps DEF ReceiveError
  <1>4. CASE ReceiveInfo
    <2> DEFINE question == [kind |-> "info"]
    <2>1. /\ sheet' = [board |-> extra.reply, draft |-> Answered(question, extra.reply)]
          /\ extra' = None
          /\ UNCHANGED <<server, op>>
      BY <1>4 DEF ReceiveInfo, Draws
    <2>2. BoardOK(extra.reply)
      BY <1>1, <1>4 DEF ReceiveInfo, ExtraOK
    <2>3. question.kind = "info"
      OBVIOUS
    <2> HIDE DEF question
    <2>4. SheetOK(sheet')
      BY <1>1, <2>1, <2>2, <2>3, AnswerFits
    <2> QED BY <1>1, <2>1, <2>4, RequestKeeps
  <1>5. CASE InfoError
    BY <1>1, <1>5, RequestKeeps DEF InfoError
  <1> QED BY <1>2, <1>3, <1>4, <1>5

LEMMA RestKeeps ==
  ASSUME BoardInv, SaveInfo \/ CarryInfo \/ Reload PROVE BoardInv'
  <1>1. /\ SheetOK(sheet) /\ (op # None => OpOK(op)) /\ (extra # None => ExtraOK(extra))
        /\ BoardOK(Board)
    BY DEF BoardInv, PageOK, StoreOK
  <1>2. CASE SaveInfo
    BY <1>1, <1>2, RequestKeeps DEF SaveInfo, ExtraOK
  <1>3. CASE CarryInfo
    BY <1>1, <1>3, RequestKeeps DEF CarryInfo, ExtraOK
  <1>4. CASE Reload
    <2>1. /\ sheet' = [board |-> Board, draft |-> DraftFrom(Board)]
          /\ UNCHANGED <<server, op, extra>>
      BY <1>4 DEF Reload, Draws
    <2>2. SheetOK(sheet')
      BY <1>1, <2>1, FreshDraft
    <2> QED BY <1>1, <2>1, <2>2, RequestKeeps
  <1> QED BY <1>2, <1>3, <1>4

-----------------------------------------------------------------------------
(* Steps of the server and of other tabs.                                  *)

LEMMA ServeKeeps == ASSUME BoardInv, ServeOp PROVE BoardInv'
  <1>1. /\ StoreOK /\ SheetOK(sheet) /\ OpOK(op) /\ (extra # None => ExtraOK(extra))
        /\ UNCHANGED <<sheet, extra>>
        /\ op' = [op EXCEPT !.reply = Board']
    BY DEF BoardInv, PageOK, ServeOp
  <1>2. StoreOK'
    <2>1. CASE op.kind = "save" /\ SaveBoard(op.args.setting, op.args.moves)
      <3>1. AcceptsSave(op.args.setting, op.args.moves)
        BY <2>1 DEF ServeOp, Accepts
      <3>2. DraftOK(op.args.setting, op.from.board)
        BY <1>1, <2>1 DEF OpOK, SaveOK, SheetOK
      <3> QED BY <1>1, <2>1, <3>1, <3>2, SaveKeeps
    <2>2. CASE op.kind = "publish" /\ Publish
      BY <1>1, <2>2, PublishKeeps DEF ServeOp, Accepts
    <2>3. CASE op.kind = "register" /\ RegisterActors(op.args)
      BY <1>1, <2>3, RegisterKeeps DEF OpOK
    <2>4. CASE op.kind = "remove" /\ RemoveActor(op.args)
      BY <1>1, <2>4, RemoveKeeps
    <2> QED BY <2>1, <2>2, <2>3, <2>4 DEF ServeOp, Applies
  <1>3. BoardOK(Board')
    BY <1>2 DEF StoreOK
  <1>4. OpOK(op')
    <2>1. op' = [kind |-> op.kind, args |-> op.args, reply |-> Board', from |-> op.from]
      BY <1>1 DEF OpOK
    <2> QED BY <1>1, <1>3, <2>1 DEF OpOK, SaveOK
  <1> QED BY <1>1, <1>2, <1>4 DEF BoardInv, PageOK

LEMMA OtherTabKeeps == ASSUME BoardInv, OtherTab PROVE BoardInv'
  <1>1. StoreOK /\ UNCHANGED <<sheet, op, extra>>
    BY DEF BoardInv, OtherTab
  <1>2. ASSUME NEW offered \in SUBSET Slots, NEW capacity \in 1..MaxCapacity,
               NEW slots \in [DOMAIN roster -> Slots \cup {None}], NEW moves,
               AcceptsSave([offered |-> offered, capacity |-> capacity, slots |-> slots], moves),
               SaveBoard([offered |-> offered, capacity |-> capacity, slots |-> slots], moves)
        PROVE  StoreOK'
    <2>1. capacity \in Nat
      BY BoardAssumption
    <2>2. DraftOK([offered |-> offered, capacity |-> capacity, slots |-> slots], Board)
      BY <2>1 DEF DraftOK, Board
    <2> QED BY <1>1, <1>2, <2>2, SaveKeeps
  <1>3. StoreOK'
    BY <1>1, <1>2, PublishKeeps, RegisterKeeps, RemoveKeeps DEF OtherTab
  <1> QED BY <1>1, <1>3 DEF BoardInv, PageOK

LEMMA BoardInitially == BoardInit => BoardInv
  <1> SUFFICES ASSUME BoardInit PROVE BoardInv
    OBVIOUS
  <1>1. /\ DOMAIN roster = {} /\ roster = [a \in {} |-> None]
        /\ table \in Tables
        /\ RosterOK(roster)
    BY FS_EmptySet, BoardAssumption DEF BoardInit, Tables, RosterOK
  <1>2. BoardOK(Board)
    BY <1>1 DEF BoardOK, Board
  <1>3. SavedFits
    <2>1. \A k : Occupancy(SlotsOf(roster), k) = {}
      BY <1>1 DEF Occupancy, SlotsOf
    <2>2. /\ DraftFrom(Board).slots = SlotsOf(roster)
          /\ DraftFrom(Board).capacity = table.capacity /\ table.capacity \in Nat
      BY <1>1 DEF DraftFrom, Board, Tables
    <2>3. Cardinality({}) = 0
      BY FS_EmptySet
    <2>4. DOMAIN SlotsOf(roster) = {} /\ InvitedIn(roster) = {}
      BY <1>1 DEF SlotsOf, InvitedIn
    <2>5. \A k \in DraftFrom(Board).offered :
            Cardinality(Occupancy(DraftFrom(Board).slots, k)) <= DraftFrom(Board).capacity
      <3>1. 0 <= table.capacity
        BY <2>2
      <3> QED BY <2>1, <2>2, <2>3, <3>1
    <2>6. /\ \A a : a \notin DOMAIN DraftFrom(Board).slots
          /\ \A a : a \notin InvitedIn(roster)
      BY <2>2, <2>4
    <2> QED BY <2>5, <2>6 DEF SavedFits, Valid
  <1>4. SheetOK(sheet)
    BY <1>2, FreshDraft DEF BoardInit
  <1> QED BY <1>2, <1>3, <1>4 DEF BoardInit, BoardInv, StoreOK, PageOK

LEMMA BoardStep == BoardInv /\ [BoardNext]_boardVars => BoardInv'
  <1> SUFFICES ASSUME BoardInv, [BoardNext]_boardVars PROVE BoardInv'
    OBVIOUS
  <1>1. CASE PageStep
    BY <1>1, EditsKeep, SendersKeep, AnswersKeep, RestKeeps DEF PageStep
  <1>2. CASE ServerStep
    BY <1>2, ServeKeeps, RestKeeps DEF ServerStep
  <1>3. CASE OtherTab
    BY <1>3, OtherTabKeeps
  <1>4. CASE UNCHANGED boardVars
    BY <1>4 DEF boardVars, BoardInv, StoreOK, PageOK, SavedFits, Board
  <1> QED BY <1>1, <1>2, <1>3, <1>4 DEF BoardNext

-----------------------------------------------------------------------------
(* What the page computes from its own copy is what the server computes    *)
(* when the copy is still right.                                           *)

LEMMA SameSlots ==
  ASSUME NEW d, DraftOK(d, Board)
  PROVE  Moved(AssignmentsOf(Board, d)) = d.slots
  BY DEF Moved, AssignmentsOf, DraftOK, Board

LEMMA Agreement ==
  ASSUME BoardInv, op # None, op.kind = "save", op.from.board = Board
  PROVE  /\ DraftOK(op.from.draft, Board)
         /\ op.args.setting = op.from.draft
         /\ op.args.moves = AssignmentsOf(Board, op.from.draft)
         /\ op.args.listed = NoticesOnSave(Board, op.from.draft)
         /\ Valid(table.status, op.from.draft, InvitedIn(roster))
         /\ Moved(op.args.moves) = op.from.draft.slots
  <1>1. SheetOK(op.from) /\ SaveOK(op)
    BY DEF BoardInv, PageOK, OpOK
  <1>2. DraftOK(op.from.draft, Board)
    BY <1>1 DEF SheetOK
  <1>3. Valid(table.status, op.from.draft, InvitedIn(roster))
    BY <1>1 DEF SaveOK, ProblemsOf, Board
  <1> QED BY <1>1, <1>2, <1>3, SameSlots DEF SaveOK

LEMMA RefusalsExplained == BoardInv => RefusedOnlyWhenStale
  <1> SUFFICES ASSUME BoardInv, op # None, op.kind = "save", op.from.board = Board,
                      table.offered \subseteq op.args.setting.offered,
                      ~(table.capacity > op.args.setting.capacity)
               PROVE  AcceptsSave(op.args.setting, op.args.moves)
    BY DEF RefusedOnlyWhenStale
  <1> DEFINE d == op.from.draft
  <1>1. /\ DraftOK(d, Board)
        /\ op.args.setting = d
        /\ op.args.moves = AssignmentsOf(Board, d)
        /\ Valid(table.status, d, InvitedIn(roster))
        /\ Moved(op.args.moves) = d.slots
    BY Agreement
  <1>2. table.capacity <= d.capacity
    <2>1. table.capacity \in Nat /\ d.capacity \in Nat
      BY <1>1 DEF DraftOK, BoardInv, StoreOK, BoardOK, Board, Tables
    <2> QED BY <1>1, <2>1
  <1>3. /\ DOMAIN op.args.moves \subseteq DOMAIN roster
        /\ \A a \in DOMAIN op.args.moves : roster[a].slot = op.args.moves[a].previous
    BY <1>1 DEF AssignmentsOf, DraftOK, Board
  <1>4. [d EXCEPT !.slots = Moved(op.args.moves)] = d
    BY <1>1 DEF DraftOK
  <1> HIDE DEF d
  <1> QED BY <1>1, <1>2, <1>3, <1>4 DEF AcceptsSave

LEMMA NoticesExplained == BoardInv => NoticesAsListed
  <1> SUFFICES ASSUME BoardInv, op # None, op.kind = "save", op.from.board = Board
               PROVE  Announced(op.args.moves) = op.args.listed
    BY DEF NoticesAsListed
  <1>1. /\ op.args.moves = AssignmentsOf(Board, op.from.draft)
        /\ op.args.listed = NoticesOnSave(Board, op.from.draft)
        /\ Moved(op.args.moves) = op.from.draft.slots
    BY Agreement
  <1> QED BY <1>1, BoardParts DEF Announced, NoticesOnSave

-----------------------------------------------------------------------------
(* The invariant holds in every state of the system.                       *)
THEOREM BoardHolds == BoardSpec => []BoardInv
  BY BoardInitially, BoardStep, PTL DEF BoardSpec

(* Whatever the tabs save, register, remove and publish, the board stored  *)
(* offers every slot it gives out, keeps to its capacity, and no invited   *)
(* actor is without a slot (TimetableBoard.java, ensureValid).             *)
THEOREM StoredBoardFits == BoardSpec => []SavedFits
  <1>1. BoardInv => SavedFits
    BY DEF BoardInv, StoreOK
  <1> QED BY <1>1, BoardHolds, PTL

(* What the page calls a problem is what the server refuses, as long as    *)
(* the page's copy of the board is the one stored (board-draft.ts,         *)
(* problemsOf).                                                            *)
THEOREM RefusalsAreStale == BoardSpec => []RefusedOnlyWhenStale
  BY RefusalsExplained, BoardHolds, PTL

(* The actors the page lists before a save are those the server notifies   *)
(* (board-draft.ts, noticesOnSave; TimetableService.java, announceChanges).*)
THEOREM NoticesAreListed == BoardSpec => []NoticesAsListed
  BY NoticesExplained, BoardHolds, PTL

(* The answers of a removal, of a changed text and of a closed question    *)
(* keep every slot edited by the time they arrive, whatever they bring     *)
(* (handleRemove, the information and template dialogs, rebaseDraft).      *)
THEOREM EditsKept == BoardSpec => KeepsEdits
<1> DEFINE Kept ==
      \A a \in Ids :
        (/\ sheet' # sheet /\ sheet'.board # sheet.board
         /\ \/ ReceiveInfo
            \/ op # None /\ op.kind = "remove" /\ Receive
         /\ a \in DOMAIN sheet.board.roster \cap DOMAIN sheet'.board.roster
         /\ sheet.draft.slots[a] # sheet.board.roster[a].slot)
        => sheet'.draft.slots[a] = sheet.draft.slots[a]
<1>1. ASSUME NEW next, sheet' = [board |-> next, draft |-> RebaseDraft(sheet.board, next, sheet.draft)],
             NEW a \in DOMAIN sheet.board.roster \cap DOMAIN sheet'.board.roster,
             sheet.draft.slots[a] # sheet.board.roster[a].slot
      PROVE  sheet'.draft.slots[a] = sheet.draft.slots[a]
  <2> DEFINE edited == {m \in DOMAIN sheet.board.roster :
                          sheet.draft.slots[m] # sheet.board.roster[m].slot}
             after == DraftFrom(next)
             slots == [m \in DOMAIN next.roster |->
                         IF m \in edited THEN sheet.draft.slots[m] ELSE after.slots[m]]
  <2>1. RebaseDraft(sheet.board, next, sheet.draft).slots = slots
    BY DEF RebaseDraft
  <2>2. sheet'.board = next /\ sheet'.draft.slots = slots
    BY <1>1, <2>1
  <2>3. a \in DOMAIN next.roster /\ a \in edited
    BY <1>1, <2>2
  <2> QED
    BY <2>2, <2>3
<1>2. Kept
  <2>1. ReceiveInfo => sheet' = [board |-> extra.reply,
                                 draft |-> RebaseDraft(sheet.board, extra.reply, sheet.draft)]
    <3>1. Answered([kind |-> "info"], extra.reply) = RebaseDraft(sheet.board, extra.reply, sheet.draft)
      BY DEF Answered
    <3> QED
      BY <3>1 DEF ReceiveInfo, Draws
  <2>2. op.kind = "remove" /\ Receive
        => sheet' = [board |-> op.reply, draft |-> RebaseDraft(sheet.board, op.reply, sheet.draft)]
    <3>1. op.kind = "remove" => Answered(op, op.reply) = RebaseDraft(sheet.board, op.reply, sheet.draft)
      BY DEF Answered
    <3> QED
      BY <3>1 DEF Receive, Draws
  <2> QED
    BY <1>1, <2>1, <2>2
<1>3. BoardSpec => [][Kept]_boardVars
  <2>1. [BoardNext]_boardVars => [Kept]_boardVars
    BY <1>2
  <2> QED
    BY <2>1, PTL DEF BoardSpec
<1> QED
  BY <1>3 DEF KeepsEdits
=============================================================================
