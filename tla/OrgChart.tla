-------------------------------- MODULE OrgChart -------------------------------
(* The organization page: the chart drawn from a cached tree, the sheet of    *)
(* one unit, and the dialogs that create, edit, move and delete units, over   *)
(* the server's units, which other administrators change too.  A visit is     *)
(* shorter than the five minutes a query stays fresh, so that the tree is the *)
(* one that was cached when the page opened.                                  *)
EXTENDS Units

CONSTANTS
    None,           \* no unit
    CachedTrees,    \* trees the cache may hold when the page opens
    MaxAsks         \* bound: requests in flight

VARIABLES
    tree,       \* the cached tree: the parent of each unit as it was once read
    selected,   \* the unit of the sheet, and of the delete dialog
    form,       \* the form dialog: "closed", "create", or the unit it edits
    deleting,   \* is the delete dialog open?
    moving,     \* the move dialog: <<unit, new parent>>, or <<None, None>>
    asks        \* requests sent and not answered

chartVars == <<tree, selected, form, deleting, moving, asks>>
pageVars == <<selected, form, deleting, moving>>
allVars == <<unitVars, chartVars>>

Parents == [Units -> Units \cup {Top, Absent, Gone}]
NoMove == <<None, None>>
Ops == {"create", "edit", "move", "delete", "join", "leave"}

ChartTypeOK ==
    /\ UnitsTypeOK
    /\ tree \in Parents
    /\ selected \in Units \cup {None}
    /\ form \in Units \cup {"closed", "create"}
    /\ deleting \in BOOLEAN
    /\ moving \in (Units \X Units) \cup {NoMove}
    /\ \A a \in asks : a.op \in Ops /\ a.unit \in Units \cup {None}

ChartInit ==
    /\ Init
    /\ tree \in CachedTrees
    /\ selected = None /\ form = "closed" /\ deleting = FALSE /\ moving = NoMove
    /\ asks = {}

-----------------------------------------------------------------------------
(* The chart: it shows the tree as cached, the server may be further.        *)

Drawn == {u \in Units : tree[u] \notin {Absent, Gone}}
DrawnBelow(u) ==
    LET below[n \in 0..Cardinality(Units)] ==
            IF n = 0 THEN {u} ELSE below[n - 1] \cup {d \in Drawn : tree[d] \in below[n - 1]}
    IN below[Cardinality(Units)]
(* What the sheet's path names: the unit and all that lie above it.          *)
DrawnAbove(u) == {a \in Drawn : u \in DrawnBelow(a)}

(* The sheet covers the chart.                                               *)
Idling == form = "closed" /\ moving = NoMove /\ ~deleting
OnChart == Idling /\ selected = None
OnSheet == Idling /\ selected # None

SelectUnit(u) ==
    /\ OnChart /\ u \in Drawn /\ selected' = u
    /\ UNCHANGED <<unitVars, tree, form, deleting, moving, asks>>
FollowBreadcrumb(u) ==
    /\ OnSheet /\ u \in DrawnAbove(selected) \ {selected} /\ selected' = u
    /\ UNCHANGED <<unitVars, tree, form, deleting, moving, asks>>
CloseSheet ==
    /\ OnSheet /\ selected' = None
    /\ UNCHANGED <<unitVars, tree, form, deleting, moving, asks>>

AddSubUnit ==
    /\ OnChart /\ form' = "create"
    /\ UNCHANGED <<unitVars, tree, selected, deleting, moving, asks>>
EditUnit(u) ==
    /\ (OnChart /\ u \in Drawn) \/ (OnSheet /\ u = selected)
    /\ form' = u
    /\ UNCHANGED <<unitVars, tree, selected, deleting, moving, asks>>
(* To ask from the chart opens the sheet as well, below the dialog.          *)
AskDelete(u) ==
    /\ (OnChart /\ u \in Drawn) \/ (OnSheet /\ u = selected)
    /\ selected' = u /\ deleting' = TRUE
    /\ UNCHANGED <<unitVars, tree, form, moving, asks>>

(* An edge drawn from a unit to its new parent: not to itself, nor to what   *)
(* the chart shows below it.                                                 *)
Connect(u, p) ==
    /\ OnChart /\ u \in Drawn /\ p \in Drawn \ DrawnBelow(u)
    /\ moving' = <<u, p>>
    /\ UNCHANGED <<unitVars, tree, selected, form, deleting, asks>>

CancelDialog ==
    /\ ~Idling
    /\ form' = "closed" /\ deleting' = FALSE /\ moving' = NoMove
    /\ UNCHANGED <<unitVars, tree, selected, asks>>

-----------------------------------------------------------------------------
(* Requests.  No button is disabled while one is in flight.                  *)

Ask(op, u, x) ==
    /\ Cardinality(asks) < MaxAsks
    /\ asks' = asks \cup {[op |-> op, unit |-> u, to |-> x, at |-> "sent"]}

(* The form closes as soon as the toast shows, not when the answer comes.    *)
SubmitForm ==
    /\ \/ form = "create" /\ \E p \in Drawn \cup {Top} : Ask("create", None, p)
       \/ form \in Units /\ Ask("edit", form, None)
    /\ form' = "closed"
    /\ UNCHANGED <<unitVars, tree, selected, deleting, moving>>
ConfirmMove ==
    /\ moving # NoMove /\ Ask("move", moving[1], moving[2])
    /\ UNCHANGED <<unitVars, tree, pageVars>>
ConfirmDelete ==
    /\ deleting /\ Ask("delete", selected, None)
    /\ UNCHANGED <<unitVars, tree, pageVars>>
ChangeMember(op) ==
    /\ OnSheet /\ Ask(op, selected, None)
    /\ UNCHANGED <<unitVars, tree, pageVars>>

(* What the server does with a request; a move or an edit goes on as a call. *)
Granted(a, c) ==
    \/ a.op = "create" /\ \E u \in Units : Create(u, a.to)
    \/ a.op = "edit" /\ RenameReads(c, a.unit)
    \/ a.op = "move" /\ ReparentReads(c, a.unit, a.to)
    \/ a.op = "delete" /\ Delete(a.unit)
    \/ a.op = "join" /\ AddMember(a.unit)
    \/ a.op = "leave" /\ RemoveMember(a.unit)

(* The answer of every mutation is reported as a failure: its success        *)
(* callback destructures an argument that is not there.  So the confirmations*)
(* stay open and no query is refreshed.                                      *)
ServerAnswers(a, c) ==
    /\ Granted(a, c)
    /\ asks' = asks \ {a}
    /\ UNCHANGED <<tree, pageVars>>
ServerRefuses(a) ==
    /\ asks' = asks \ {a}
    /\ UNCHANGED <<unitVars, tree, pageVars>>

(* What the server does on its own, and for other administrators.            *)
ServerStep == Next /\ UNCHANGED chartVars

ChartNext ==
    \/ \E u \in Units : \/ SelectUnit(u) \/ FollowBreadcrumb(u) \/ EditUnit(u) \/ AskDelete(u)
                        \/ \E p \in Units : Connect(u, p)
    \/ CloseSheet \/ AddSubUnit \/ CancelDialog
    \/ SubmitForm \/ ConfirmMove \/ ConfirmDelete
    \/ \E op \in {"join", "leave"} : ChangeMember(op)
    \/ \E a \in asks : ServerRefuses(a) \/ \E c \in Callers : ServerAnswers(a, c)
    \/ ServerStep

ChartSpec == ChartInit /\ [][ChartNext]_allVars
=============================================================================
