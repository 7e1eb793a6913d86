------------------------------- MODULE TicketDesk ------------------------------
(* The tickets page: the board with its lanes and drags, the sheet of one     *)
(* ticket with its drafts, triage, dismissal and creation, the refresh after  *)
(* each, and the browser's back and forward buttons.  Other people move the   *)
(* same tickets.                                                              *)
EXTENDS Naturals, Sequences, QueryCache

CONSTANTS
    Tickets,        \* ticket ids
    Mine,           \* those the user requested or holds
    UserRole,       \* the organization role of the user
    FirstRows,      \* the status of each ticket at first, "unborn" if it is yet to be created
    None,           \* no ticket
    MaxRev,         \* bound: changes of tickets at the server
    MaxSends,       \* bound: mutations sent
    MaxTrail        \* bound: entries of the browser history

VARIABLES
    tickets,    \* [rows, rev] at the server: rows[t] is a status or "unborn"
    board,      \* the list query: a query over such values
    detail,     \* detail[t]: the status the cached detail shows, or "none"
    asks,       \* details being fetched
    trail,      \* browser history: the ticket of the URL of each entry
    here,       \* the entry shown
    modal,      \* "none", "create" or the ticket the dismissal dialog is about
    drag,       \* the card being dragged
    note,       \* the ticket the transition note was typed for, or None
    remark,     \* the ticket the comment was typed for, or None
    plan,       \* state of the triage panel: the ticket it was made for, if complete
    sent,       \* mutations sent so far
    sends,      \* those in flight
    watched,    \* watched[op]: the mutation whose isPending the page reads
    heardRev    \* the newest server state an answered transition stands for

deskVars == <<tickets, board, detail, asks, trail, here, modal, drag,
              note, remark, plan, sent, sends, watched, heardRev>>

urlVars == <<trail, here>>
overlayVars == <<modal, drag>>
draftVars == <<note, remark, plan>>
sendVars == <<sent, sends, watched>>

TicketStates == {"open", "triage", "planned", "in_progress", "resolved", "closed",
                 "dismissed"}
Ops == {"move", "dismiss", "comment", "triage", "create"}
Served == [rows : [Tickets -> TicketStates \cup {"unborn"}], rev : 0..MaxRev]
NoPlan == [of |-> None, complete |-> FALSE]

TypeOK ==
    /\ tickets \in Served
    /\ board \in Queries(Served)
    /\ detail \in [Tickets -> TicketStates \cup {"none"}]
    /\ asks \subseteq Tickets
    /\ trail \in Seq(Tickets \cup {None}) /\ here \in 1..Len(trail)
    /\ Len(trail) <= MaxTrail
    /\ modal \in Tickets \cup {"none", "create"}
    /\ {drag, note, remark, plan.of} \subseteq Tickets \cup {None}
    /\ sent \in 0..MaxSends
    /\ \A w \in sends : w.op \in Ops /\ w.typed \in Tickets \cup {None}
    /\ watched \in [Ops -> 0..MaxSends]
    /\ heardRev \in 0..tickets.rev

(* The client's mirror of the transition matrix.                             *)
Transitions == [open |-> {"triage"}, triage |-> {"planned"}, planned |-> {"in_progress"},
                in_progress |-> {"resolved"}, resolved |-> {"closed", "in_progress"},
                closed |-> {}, dismissed |-> {}]
Dismissable == {"open", "triage"}
CanTriage == UserRole \in {"manager", "finance"}
CanActOnTicket(t) == CanTriage \/ t \in Mine

Init ==
    /\ tickets = [rows |-> FirstRows, rev |-> 0]
    /\ board = Warm(tickets)
    /\ detail = [t \in Tickets |-> "none"]
    /\ asks = {}
    /\ trail = <<None>> /\ here = 1
    /\ modal = "none" /\ drag = None
    /\ note = None /\ remark = None /\ plan = NoPlan
    /\ sent = 0 /\ sends = {} /\ watched = [op \in Ops |-> 0]
    /\ heardRev = 0

-----------------------------------------------------------------------------
(* What the page renders.                                                    *)

Sheet == trail[here]
Shown(t) == board.data.rows[t]
CardsShown == {t \in Tickets : Shown(t) # "unborn"}
Open(t) == Sheet = t /\ t # None /\ detail[t] # "none"
PanelShown == Sheet # None /\ detail[Sheet] = "triage" /\ CanTriage

InFlight(op) == \E w \in sends : w.op = op /\ w.n = watched[op]
Busy == \E op \in Ops \ {"create"} : InFlight(op)
BoardFree == Sheet = None /\ modal = "none" /\ drag = None
SheetFree == Sheet # None /\ modal = "none"

(* A variant whose effect runs only when the sheet closes.                   *)
RerenderClearingOnClose(n, c, p) ==
    /\ note' = IF Sheet' = None THEN None ELSE n
    /\ remark' = IF Sheet' = None THEN None ELSE c
    /\ plan' = p

(* The effect on the ticket of the URL empties note and comment; the triage  *)
(* panel keeps its state for as long as one is shown in its place.           *)
Rerender(n, c, p) ==
    /\ note' = IF Sheet' # Sheet THEN None ELSE n
    /\ remark' = IF Sheet' # Sheet THEN None ELSE c
    /\ plan' = IF ~PanelShown' THEN NoPlan
               ELSE IF PanelShown THEN p ELSE [of |-> Sheet', complete |-> FALSE]

-----------------------------------------------------------------------------
(* The URL.                                                                  *)

Goto(t) ==
    /\ trail' = [trail EXCEPT ![here] = t]
    /\ here' = here
    /\ asks' = IF t = None THEN asks ELSE asks \cup {t}

OpenTicket(t) ==
    /\ BoardFree /\ t \in CardsShown
    /\ Goto(t)
    /\ UNCHANGED <<tickets, board, detail, overlayVars, sendVars, heardRev>>
    /\ Rerender(note, remark, plan)

CloseSheet ==
    /\ SheetFree
    /\ Goto(None)
    /\ UNCHANGED <<tickets, board, detail, overlayVars, sendVars, heardRev>>
    /\ Rerender(note, remark, plan)

(* A filter is a new entry of the history and another list query.  Going back *)
(* to an earlier filter keeps the query: the cached lists of the filters left *)
(* are not told apart.                                                       *)
SetFilter ==
    /\ BoardFree /\ here < MaxTrail
    /\ trail' = SubSeq(trail, 1, here) \o <<None>>
    /\ here' = here + 1
    /\ board' = Asked(Cold(board.data))
    /\ UNCHANGED <<tickets, detail, asks, overlayVars, sendVars, heardRev>>
    /\ Rerender(note, remark, plan)

Travel(i) ==
    /\ i \in DOMAIN trail \ {here} /\ modal = "none" /\ drag = None
    /\ here' = i
    /\ asks' = IF trail[i] = None THEN asks ELSE asks \cup {trail[i]}
    /\ UNCHANGED <<tickets, board, detail, trail, overlayVars, sendVars, heardRev>>
    /\ Rerender(note, remark, plan)

-----------------------------------------------------------------------------
(* Drafts.                                                                   *)

Type(n, c, p) ==
    /\ UNCHANGED <<tickets, board, detail, asks, urlVars, overlayVars, sendVars, heardRev>>
    /\ Rerender(n, c, p)

TypeNote == SheetFree /\ Open(Sheet) /\ CanActOnTicket(Sheet) /\ Type(Sheet, remark, plan)
TypeComment == SheetFree /\ Open(Sheet) /\ CanActOnTicket(Sheet) /\ Type(note, Sheet, plan)
FillPlan == SheetFree /\ PanelShown /\ Type(note, remark, [plan EXCEPT !.complete = TRUE])

-----------------------------------------------------------------------------
(* Mutations.  Buttons are disabled while the page is busy, a drop is not.   *)

Send(op, t, to, typed) ==
    /\ sent < MaxSends
    /\ sent' = sent + 1
    /\ sends' = sends \cup {[op |-> op, of |-> t, to |-> to, typed |-> typed, n |-> sent + 1,
                             at |-> "sent", rev |-> 0]}
    /\ watched' = [watched EXCEPT ![op] = sent + 1]

MoveCard(t, s) ==
    /\ BoardFree /\ t \in CardsShown /\ ~Busy
    /\ CanActOnTicket(t) /\ s \in Transitions[Shown(t)]
    /\ Send("move", t, s, None)
    /\ UNCHANGED <<tickets, board, detail, asks, urlVars, overlayVars, heardRev>>
    /\ Rerender(note, remark, plan)

DragStart(t) ==
    /\ BoardFree /\ t \in CardsShown
    /\ drag' = t
    /\ UNCHANGED <<tickets, board, detail, asks, urlVars, modal, sendVars, heardRev>>
    /\ Rerender(note, remark, plan)

(* A drop in the card's own lane, or one that the role or the matrix refuses,*)
(* changes nothing.                                                          *)
Drop(s) ==
    /\ drag # None /\ drag' = None
    /\ IF drag \in CardsShown /\ CanActOnTicket(drag) /\ s \in Transitions[Shown(drag)]
         THEN Send("move", drag, s, None)
         ELSE UNCHANGED sendVars
    /\ UNCHANGED <<tickets, board, detail, asks, urlVars, modal, heardRev>>
    /\ Rerender(note, remark, plan)

MoveFromSheet(s) ==
    /\ SheetFree /\ Open(Sheet) /\ ~Busy
    /\ CanActOnTicket(Sheet) /\ s \in Transitions[detail[Sheet]]
    /\ Send("move", Sheet, s, note)
    /\ UNCHANGED <<tickets, board, detail, asks, urlVars, overlayVars, heardRev>>
    /\ Rerender(None, remark, plan)

PostComment ==
    /\ SheetFree /\ Open(Sheet) /\ ~Busy
    /\ CanActOnTicket(Sheet) /\ remark # None
    /\ Send("comment", Sheet, "none", remark)
    /\ UNCHANGED <<tickets, board, detail, asks, urlVars, overlayVars, heardRev>>
    /\ Rerender(note, None, plan)

(* Every row needs a name and a kind.                                        *)
RunTriage ==
    /\ SheetFree /\ PanelShown /\ ~Busy /\ plan.complete
    /\ Send("triage", Sheet, "planned", plan.of)
    /\ UNCHANGED <<tickets, board, detail, asks, urlVars, overlayVars, heardRev>>
    /\ Rerender(note, remark, plan)

AskDismiss(t) ==
    /\ CanTriage /\ ~Busy
    /\ \/ BoardFree /\ t \in CardsShown /\ Shown(t) \in Dismissable
       \/ SheetFree /\ Open(t) /\ detail[t] \in Dismissable
    /\ modal' = t
    /\ UNCHANGED <<tickets, board, detail, asks, urlVars, drag, sendVars, heardRev>>
    /\ Rerender(note, remark, plan)

ConfirmDismiss ==
    /\ modal \in Tickets /\ ~InFlight("dismiss")
    /\ modal' = "none"
    /\ Send("dismiss", modal, "dismissed", None)
    /\ UNCHANGED <<tickets, board, detail, asks, urlVars, drag, heardRev>>
    /\ Rerender(note, remark, plan)

OpenCreate ==
    /\ BoardFree
    /\ modal' = "create"
    /\ UNCHANGED <<tickets, board, detail, asks, urlVars, drag, sendVars, heardRev>>
    /\ Rerender(note, remark, plan)

(* The dialog closes at once; the answer finds the page wherever it is.      *)
RaiseTicket ==
    /\ modal = "create" /\ ~InFlight("create")
    /\ modal' = "none"
    /\ Send("create", None, "open", None)
    /\ UNCHANGED <<tickets, board, detail, asks, urlVars, drag, heardRev>>
    /\ Rerender(note, remark, plan)

CloseModal ==
    /\ modal # "none" /\ modal' = "none"
    /\ UNCHANGED <<tickets, board, detail, asks, urlVars, drag, sendVars, heardRev>>
    /\ Rerender(note, remark, plan)

-----------------------------------------------------------------------------
(* The server: it checks the same matrix, against the row it holds.          *)

Become(t, s) == tickets' = [rows |-> [tickets.rows EXCEPT ![t] = s], rev |-> tickets.rev + 1]
Replace(w, v) == sends' = (sends \ {w}) \cup {v}

Accepts(w) ==
    CASE w.op = "move" -> w.to \in Transitions[tickets.rows[w.of]]
      [] w.op = "triage" -> tickets.rows[w.of] = "triage"
      [] w.op = "dismiss" -> tickets.rows[w.of] \in Dismissable
      [] w.op = "comment" -> TRUE

ServerHandles(w) ==
    /\ w.at = "sent" /\ w.op # "create"
    /\ IF Accepts(w)
         THEN /\ tickets.rev < MaxRev
              /\ Become(w.of, IF w.op = "comment" THEN tickets.rows[w.of] ELSE w.to)
              /\ Replace(w, [w EXCEPT !.at = "done", !.rev = tickets.rev + 1])
         ELSE /\ Replace(w, [w EXCEPT !.at = "refused", !.rev = tickets.rev])
              /\ UNCHANGED tickets
    /\ UNCHANGED <<board, detail, asks, urlVars, overlayVars, draftVars, watched, heardRev, sent>>

ServerCreates(w, t) ==
    /\ w.at = "sent" /\ w.op = "create" /\ tickets.rev < MaxRev
    /\ tickets.rows[t] = "unborn"
    /\ Become(t, "open")
    /\ Replace(w, [w EXCEPT !.at = "done", !.of = t, !.rev = tickets.rev + 1])
    /\ UNCHANGED <<board, detail, asks, urlVars, overlayVars, draftVars, watched, heardRev, sent>>

OthersMove(t) ==
    /\ tickets.rev < MaxRev /\ tickets.rows[t] # "unborn"
    /\ \E s \in Transitions[tickets.rows[t]] : Become(t, s)
    /\ UNCHANGED <<board, detail, asks, urlVars, overlayVars, draftVars, sendVars, heardRev>>

-----------------------------------------------------------------------------
(* Answers.  One prefix covers the list, the details and the histories: the  *)
(* mounted ones are fetched again, but for a list that is asked for the first *)
(* time.                                                                     *)

InvalidateTickets ==
    /\ board' = Refetched(board)
    /\ asks' = IF Sheet = None THEN asks ELSE asks \cup {Sheet}

AnswerArrives(w) ==
    /\ w.at = "done" /\ w.op # "create"
    /\ sends' = sends \ {w}
    /\ InvalidateTickets
    /\ heardRev' = IF w.op = "move" /\ w.rev > heardRev THEN w.rev ELSE heardRev
    /\ UNCHANGED <<tickets, detail, urlVars, overlayVars, draftVars, watched, sent>>

(* A refused transition means that the card is stale; the other refusals are *)
(* only reported.                                                            *)
RefusalArrives(w) ==
    /\ w.at = "refused"
    /\ sends' = sends \ {w}
    /\ IF w.op = "move"
         THEN /\ InvalidateTickets
              /\ heardRev' = IF w.rev > heardRev THEN w.rev ELSE heardRev
         ELSE UNCHANGED <<board, asks, heardRev>>
    /\ UNCHANGED <<tickets, detail, urlVars, overlayVars, draftVars, watched, sent>>

(* The new ticket is opened, over whatever the page shows by now; a later    *)
(* creation would have taken the callback along.                             *)
CreatedArrives(w) ==
    /\ w.at = "done" /\ w.op = "create"
    /\ sends' = sends \ {w}
    /\ board' = Refetched(board)
    /\ IF w.n = watched["create"] THEN Goto(w.of) ELSE UNCHANGED <<urlVars, asks>>
    /\ UNCHANGED <<tickets, detail, overlayVars, watched, heardRev, sent>>
    /\ Rerender(note, remark, plan)

ListReads ==
    /\ board.at = "asked" /\ board' = ReadBy(board, tickets)
    /\ UNCHANGED <<tickets, detail, asks, urlVars, overlayVars, draftVars, sendVars, heardRev>>
ListLands ==
    /\ board.at = "read" /\ board' = Landed(board)
    /\ UNCHANGED <<tickets, detail, asks, urlVars, overlayVars, draftVars, sendVars, heardRev>>
ListFails ==
    /\ board.at # "idle" /\ board.has /\ board' = Broken(board)
    /\ UNCHANGED <<tickets, detail, asks, urlVars, overlayVars, draftVars, sendVars, heardRev>>

DetailArrives(t) ==
    /\ t \in asks /\ tickets.rows[t] # "unborn"
    /\ asks' = asks \ {t}
    /\ detail' = [detail EXCEPT ![t] = tickets.rows[t]]
    /\ UNCHANGED <<tickets, board, urlVars, overlayVars, sendVars, heardRev>>
    /\ Rerender(note, remark, plan)

Next ==
    \/ \E t \in Tickets : \/ OpenTicket(t) \/ DragStart(t) \/ AskDismiss(t) \/ OthersMove(t)
                          \/ DetailArrives(t)
                          \/ \E s \in TicketStates : MoveCard(t, s)
    \/ \E s \in TicketStates : Drop(s) \/ MoveFromSheet(s)
    \/ \E i \in 1..MaxTrail : Travel(i)
    \/ CloseSheet \/ SetFilter \/ TypeNote \/ TypeComment \/ FillPlan
    \/ PostComment \/ RunTriage \/ ConfirmDismiss \/ OpenCreate \/ RaiseTicket \/ CloseModal
    \/ ListReads \/ ListLands \/ ListFails
    \/ \E w \in sends : \/ ServerHandles(w) \/ AnswerArrives(w) \/ RefusalArrives(w)
                        \/ CreatedArrives(w)
                        \/ \E t \in Tickets : ServerCreates(w, t)

Spec == Init /\ [][Next]_deskVars

-----------------------------------------------------------------------------
(* A comment or a transition note reaches the ticket it was typed for, also  *)
(* when a creation answers in the middle or the browser goes back and forth. *)
DraftsStayWithTicket ==
    \A w \in sends : w.op \in {"comment", "move"} => w.typed \in {w.of, None}

(* The activities planned for a ticket are planned for that ticket.          *)
PlansStayWithTicket == \A w \in sends : w.op = "triage" => w.typed = w.of

(* Once the list has settled after a transition was answered, granted or     *)
(* refused, the board is at least as new as what the server answered from,   *)
(* unless the answer came while the list of a new filter was loading.        *)
AnsweredMoveShown == Settled(board) => board.data.rev >= heardRev
=============================================================================
