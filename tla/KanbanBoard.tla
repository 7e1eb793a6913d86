------------------------------ MODULE KanbanBoard ------------------------------
(* The drag and drop board of the component library (components/ui/kanban).   *)
(* While an item is dragged the board previews it where it would land; the    *)
(* owner of the board learns of the result when the drag is over.  What the   *)
(* pointer is over is what collision detection answers: an item, a column or  *)
(* nothing.                                                                   *)
EXTENDS Naturals, SequencesExt

CONSTANTS
    Columns,        \* column ids
    Cards,          \* item ids
    FirstBoard,     \* columns and items as the owner first gives them
    Disablings,     \* what an owner may disable
    Nothing         \* no id: nothing dragged, released over nothing

VARIABLES
    mode,       \* which callbacks the owner passes
    disabled,   \* the columns and items the owner disables
    value,      \* the board the owner passes and the component shows
    active,     \* the item or column being dragged
    origin,     \* the board when the drag started
    committed,  \* the board the owner was last told is final
    moved       \* the last item move handed to an owner that applies moves itself

boardVars == <<mode, disabled, value, active, origin, committed, moved>>

(* "apply": onMove; "preview": onValueCommit; "restore": with restoreOnCancel. *)
Modes == {"apply", "preview", "restore"}
Boards == [order : Seq(Columns), lane : [Columns -> Seq(Cards)]]
NoMove == [card |-> Nothing, from |-> Nothing, to |-> Nothing]

TypeOK ==
    /\ mode \in Modes
    /\ disabled \in Disablings
    /\ {value, origin, committed} \subseteq Boards
    /\ active \in Columns \cup Cards \cup {Nothing}
    /\ moved.card \in Cards \cup {Nothing}
    /\ {moved.from, moved.to} \subseteq Columns \cup {Nothing}

Init ==
    /\ mode \in Modes
    /\ disabled \in Disablings
    /\ value = FirstBoard /\ origin = FirstBoard /\ committed = FirstBoard
    /\ active = Nothing /\ moved = NoMove

-----------------------------------------------------------------------------
(* Positions.                                                                *)

At(s, x) == CHOOSE i \in 1..Len(s) : s[i] = x
Container(b, x) == IF x \in Columns THEN x ELSE CHOOSE c \in Columns : x \in ToSet(b.lane[c])
Place(b, x) ==
    IF x \in Columns THEN <<x, At(b.order, x)>>
    ELSE <<Container(b, x), At(b.lane[Container(b, x)], x)>>

Without(s, x) == RemoveAt(s, At(s, x))

(* To move onto the column itself is to move to its end.                     *)
ArrayMove(s, x, over) ==
    LET j == IF over \in ToSet(s) THEN At(s, over) ELSE Len(s) IN
        InsertAt(Without(s, x), j, x)

Reordered(b, x, over) ==
    LET c == Container(b, x) IN [b EXCEPT !.lane[c] = ArrayMove(b.lane[c], x, over)]

(* A variant that leaves the item in the column it came from.                *)
TransferredCopy(b, x, over) ==
    LET to == Container(b, over)
        j == IF over \in Columns THEN Len(b.lane[to]) + 1 ELSE At(b.lane[to], over) IN
        [b EXCEPT !.lane[to] = InsertAt(b.lane[to], j, x)]
(* In another column an item takes the place of the one it is over.          *)
Transferred(b, x, over) ==
    LET from == Container(b, x)
        to == Container(b, over)
        j == IF over \in Columns THEN Len(b.lane[to]) + 1 ELSE At(b.lane[to], over) IN
        [b EXCEPT !.lane[from] = Without(b.lane[from], x),
                  !.lane[to] = InsertAt(b.lane[to], j, x)]

Swapped(b, x, over) == [b EXCEPT !.order = ArrayMove(b.order, x, over)]

(* What can be dragged, and dragged over; an item of a disabled column too.  *)
LiveColumns == Columns \ disabled
LiveItems == Cards \ disabled

(* Collision detection: columns for a column, anything for an item (a drag   *)
(* by keyboard has no pointer, and may be over a column that has items).     *)
Targets(x) == IF x \in Columns THEN LiveColumns ELSE LiveItems \cup LiveColumns

(* An owner that applies moves itself ignores every proposed board.          *)
Show(b) == value' = IF mode = "apply" THEN value ELSE b

(* A variant that compares the columns only.                                 *)
CommitAcross(b) ==
    committed' = IF mode # "apply" /\ Container(b, active) # Container(origin, active) THEN b
                 ELSE committed
(* The owner hears of a board in which the dragged thing has another place.  *)
Commit(b) ==
    committed' = IF mode # "apply" /\ Place(b, active) # Place(origin, active) THEN b
                 ELSE committed


-----------------------------------------------------------------------------
(* A drag: it starts, passes over targets, and ends or is cancelled.         *)

DragStart(x) ==
    /\ active = Nothing /\ x \in LiveColumns \cup LiveItems
    /\ active' = x /\ origin' = value
    /\ UNCHANGED <<mode, disabled, value, committed, moved>>

DragOver(over) ==
    /\ active \in Cards /\ mode # "apply" /\ over \in Targets(active)
    /\ IF Container(value, active) # Container(value, over)
         THEN Show(Transferred(value, active, over))
         ELSE Show(Reordered(value, active, over))
    /\ UNCHANGED <<mode, disabled, active, origin, committed, moved>>

DragCancel ==
    /\ active # Nothing /\ active' = Nothing
    /\ IF mode = "restore" THEN Show(origin) /\ UNCHANGED committed
       ELSE Commit(value) /\ UNCHANGED value
    /\ UNCHANGED <<mode, disabled, origin, moved>>

ReleaseOverNothing ==
    /\ active # Nothing /\ active' = Nothing
    /\ IF active \in Cards THEN Commit(value) ELSE UNCHANGED committed
    /\ UNCHANGED <<mode, disabled, value, origin, moved>>

ReleaseColumn(over) ==
    /\ active \in Columns /\ over \in Targets(active) /\ active' = Nothing
    /\ Show(Swapped(value, active, over)) /\ Commit(Swapped(value, active, over))
    /\ UNCHANGED <<mode, disabled, origin, moved>>

(* The preview has already crossed columns; within one it is settled here.   *)
ReleaseItem(over) ==
    /\ active \in Cards /\ mode # "apply" /\ over \in Targets(active) /\ active' = Nothing
    /\ LET final == IF Container(value, active) = Container(value, over)
                    THEN Reordered(value, active, over) ELSE value IN
         Show(final) /\ Commit(final)
    /\ UNCHANGED <<mode, disabled, origin, moved>>

HandOver(over) ==
    /\ active \in Cards /\ mode = "apply" /\ over \in Targets(active) /\ active' = Nothing
    /\ moved' = [card |-> active, from |-> Container(value, active),
                 to |-> Container(value, over)]
    /\ UNCHANGED <<mode, disabled, value, origin, committed>>

(* The owner applies a move when its server has: by then the board may have  *)
(* another drag under way.                                                   *)
OwnerApplies ==
    /\ moved # NoMove /\ moved' = NoMove
    /\ LET x == moved.card IN
         value' = IF moved.to = moved.from THEN value
                  ELSE [value EXCEPT !.lane[moved.from] = Without(@, x),
                                     !.lane[moved.to] = Append(@, x)]
    /\ committed' = value'
    /\ UNCHANGED <<mode, disabled, active, origin>>

Next ==
    \/ \E x \in Columns \cup Cards : DragStart(x)
    \/ \E over \in Columns \cup Cards :
           DragOver(over) \/ ReleaseColumn(over) \/ ReleaseItem(over) \/ HandOver(over)
    \/ DragCancel \/ ReleaseOverNothing \/ OwnerApplies

Spec == Init /\ [][Next]_boardVars

-----------------------------------------------------------------------------
(* What the user sees when a drag is over, however it ended and wherever it  *)
(* passed, is what the owner was told is final (onValueCommit).              *)
CommittedIsShown == active = Nothing => value = committed

(* Every item is on the board exactly once, also in the middle of a drag.    *)
EachCardOnce ==
    /\ \A c \in Columns : IsInjective(value.lane[c])
    /\ \A x \in Cards : \E c \in Columns : {d \in Columns : x \in ToSet(value.lane[d])} = {c}
=============================================================================
