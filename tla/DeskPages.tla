------------------------------- MODULE DeskPages -------------------------------
(* One visit of the web client to one of the pages that manage the            *)
(* organization's records: tickets, units, customers, working groups,         *)
(* contracts or activities; or to the drag and drop board on its own.         *)
(* The pages share no state while one is mounted, so a visit is a behaviour   *)
(* of one of them, and a variable stands for what the visited page means by   *)
(* it.                                                                        *)
EXTENDS Naturals, FiniteSets

CONSTANTS
    None, MaxRev, MaxSends,
    Tickets, Mine, UserRole, FirstRows, MaxMoves, MaxTrail,
    Columns, Cards, FirstBoard, Disablings,
    Units, Callers, FirstUnits, Top, Absent, Gone, MaxLevel, MaxStaffed, MaxAsks, CachedTrees,
    Customers, Groups,
    Rates, MaxMade, MaxContractSends

ASSUME BoundsAssumption ==
    {MaxRev, MaxSends, MaxMoves, MaxMade, MaxContractSends} \subseteq Nat /\ MaxTrail \in Nat \ {0}
(* What the form dialog of the customers is in when it edits none of them.   *)
ASSUME FormAssumption == {"closed", "create"} \cap Customers = {}
ASSUME TicketsAssumption ==
    FirstRows \in [Tickets -> {"open", "triage", "planned", "in_progress", "resolved", "closed",
                               "dismissed", "unborn"}]

VARIABLES
    mounted,    \* the page visited
    sends, heard, dialog, detail, form, asks, list, store, fields,
    tickets, board, trail, here, modal, drag, note, remark, plan, sent, watched, heardRev,
    mode, disabled, value, active, origin, committed, moved,
    units, staffed, calls, overlapped, tree, selected, deleting, moving,
    doomed,
    roster, creating, edited, subject,
    viewer, contract, linked, adopted, made, valued, url, seen, draft,
    activity, stale, view, complaint

TicketPage == INSTANCE TicketDesk WITH MaxRev <- MaxMoves
BoardDemo == INSTANCE KanbanBoard WITH Nothing <- None
Chart == INSTANCE OrgChart
CustomerPage == INSTANCE CustomerDesk WITH NoOne <- None
GroupPage == INSTANCE GroupDesk WITH Nobody <- None
ContractPage == INSTANCE ContractDesk WITH MaxSends <- MaxContractSends
ActivityPage == INSTANCE ActivityDesk

(* The board is given every column and every item once.                      *)
ASSUME BoardAssumption ==
    /\ Columns \cap Cards = {} /\ None \notin Columns \cup Cards
    /\ FirstBoard \in BoardDemo!Boards
    /\ BoardDemo!IsInjective(FirstBoard.order) /\ BoardDemo!ToSet(FirstBoard.order) = Columns
    /\ \A c \in Columns : BoardDemo!IsInjective(FirstBoard.lane[c])
    /\ \A x \in Cards : \E c \in Columns :
           \A d \in Columns : x \in BoardDemo!ToSet(FirstBoard.lane[d]) <=> d = c

(* Ids are never used again; at first every unit lies below its parent, a     *)
(* level deeper.                                                             *)
ASSUME UnitsAssumption ==
    /\ IsFiniteSet(Units) /\ MaxLevel \in Nat
    /\ {Top, Absent, Gone} \cap Units = {} /\ Top \notin {Absent, Gone} /\ Absent # Gone
    /\ FirstUnits \in [Units -> [parent : Units \cup {Top, Absent, Gone}, level : 0..MaxLevel]]
    /\ \A u \in Units : FirstUnits[u].parent \in Units =>
           /\ FirstUnits[FirstUnits[u].parent].parent \notin {Absent, Gone}
           /\ FirstUnits[u].level = FirstUnits[FirstUnits[u].parent].level + 1
    /\ CachedTrees \subseteq [Units -> Units \cup {Top, Absent, Gone}]

ticketOnly == <<tickets, board, trail, here, modal, drag, note, remark, plan, sent, watched,
                heardRev>>
boardOnly == <<mode, disabled, value, active, origin, committed, moved>>
chartOnly == <<units, staffed, calls, overlapped, tree, selected, deleting, moving>>
groupOnly == <<roster, creating, edited, subject>>
contractOnly == <<viewer, contract, linked, adopted, made, valued, url, seen, draft>>
activityOnly == <<activity, stale, view, complaint>>
vars == <<mounted, sends, heard, dialog, detail, form, asks, list, store, fields, doomed,
          ticketOnly, boardOnly, chartOnly, groupOnly, contractOnly, activityOnly>>

(* What the visited page does not use.                                       *)
besideTickets == <<mounted, heard, dialog, form, list, store, fields, doomed,
                   boardOnly, chartOnly, groupOnly, contractOnly, activityOnly>>
besideBoard == <<mounted, sends, heard, dialog, detail, form, asks, list, store, fields, doomed,
                 ticketOnly, chartOnly, groupOnly, contractOnly, activityOnly>>
besideChart == <<mounted, sends, heard, dialog, detail, list, store, fields, doomed,
                 ticketOnly, boardOnly, groupOnly, contractOnly, activityOnly>>
besideCustomers == <<mounted, dialog, detail, asks,
                     ticketOnly, boardOnly, chartOnly, groupOnly, contractOnly, activityOnly>>
besideGroups == <<mounted, detail, form, asks, doomed,
                  ticketOnly, boardOnly, chartOnly, contractOnly, activityOnly>>
besideContracts == <<mounted, heard, detail, form, asks, list, store, fields, doomed,
                     ticketOnly, boardOnly, chartOnly, groupOnly, activityOnly>>
besideActivities == <<mounted, form, asks, list, store, fields, doomed,
                      ticketOnly, boardOnly, chartOnly, groupOnly, contractOnly>>

NoTickets ==
    /\ tickets = None /\ board = None /\ trail = None /\ here = None
    /\ modal = None /\ drag = None /\ note = None /\ remark = None
    /\ plan = None /\ sent = None /\ watched = None /\ heardRev = None
NoBoard ==
    /\ mode = None /\ disabled = None /\ value = None /\ active = None /\ origin = None
    /\ committed = None /\ moved = None
NoChart ==
    /\ units = None /\ staffed = None /\ calls = None /\ overlapped = None /\ tree = None
    /\ selected = None /\ deleting = None /\ moving = None
NoGroups ==
    /\ roster = None /\ creating = None /\ edited = None /\ subject = None
NoContract ==
    /\ viewer = None /\ contract = None /\ linked = None /\ adopted = None
    /\ made = None /\ valued = None /\ url = None /\ seen = None
    /\ draft = None
NoActivity ==
    /\ activity = None /\ stale = None /\ view = None /\ complaint = None

Init ==
    \/ /\ mounted = "tickets" /\ TicketPage!Init /\ NoBoard /\ NoChart
       /\ NoGroups /\ NoContract /\ NoActivity /\ heard = None
       /\ dialog = None /\ form = None /\ list = None /\ store = None
       /\ fields = None /\ doomed = None
    \/ /\ mounted = "board" /\ BoardDemo!Init /\ NoTickets /\ NoChart
       /\ NoGroups /\ NoContract /\ NoActivity /\ sends = None /\ heard = None
       /\ dialog = None /\ detail = None /\ form = None /\ asks = None
       /\ list = None /\ store = None /\ fields = None /\ doomed = None
    \/ /\ mounted = "chart" /\ Chart!ChartInit /\ NoTickets /\ NoBoard
       /\ NoGroups /\ NoContract /\ NoActivity /\ sends = None /\ heard = None
       /\ dialog = None /\ detail = None /\ list = None /\ store = None
       /\ fields = None /\ doomed = None
    \/ /\ mounted = "customers" /\ CustomerPage!Init /\ NoTickets /\ NoBoard
       /\ NoChart /\ NoGroups /\ NoContract /\ NoActivity /\ dialog = None
       /\ detail = None /\ asks = None
    \/ /\ mounted = "groups" /\ GroupPage!Init /\ NoTickets /\ NoBoard
       /\ NoChart /\ NoContract /\ NoActivity /\ detail = None /\ form = None
       /\ asks = None /\ doomed = None
    \/ /\ mounted = "contracts" /\ ContractPage!Init /\ NoTickets /\ NoBoard
       /\ NoChart /\ NoGroups /\ NoActivity /\ heard = None /\ detail = None
       /\ form = None /\ asks = None /\ list = None /\ store = None
       /\ fields = None /\ doomed = None
    \/ /\ mounted = "activities" /\ ActivityPage!Init /\ NoTickets /\ NoBoard
       /\ NoChart /\ NoGroups /\ NoContract /\ form = None /\ asks = None
       /\ list = None /\ store = None /\ fields = None /\ doomed = None

TicketsStep == mounted = "tickets" /\ TicketPage!Next /\ UNCHANGED besideTickets
BoardStep == mounted = "board" /\ BoardDemo!Next /\ UNCHANGED besideBoard
ChartStep == mounted = "chart" /\ Chart!ChartNext /\ UNCHANGED besideChart
CustomersStep == mounted = "customers" /\ CustomerPage!Next /\ UNCHANGED besideCustomers
GroupsStep == mounted = "groups" /\ GroupPage!Next /\ UNCHANGED besideGroups
ContractsStep == mounted = "contracts" /\ ContractPage!Next /\ UNCHANGED besideContracts
ActivitiesStep == mounted = "activities" /\ ActivityPage!Next /\ UNCHANGED besideActivities

Next ==
    \/ TicketsStep \/ BoardStep \/ ChartStep \/ CustomersStep \/ GroupsStep
    \/ ContractsStep \/ ActivitiesStep

Spec == Init /\ [][Next]_vars

-----------------------------------------------------------------------------
Visiting(page, claim) == mounted = page => claim

(* The state of the visited page has its type.                               *)
TypeOK ==
    /\ Visiting("tickets", TicketPage!TypeOK) /\ Visiting("board", BoardDemo!TypeOK)
    /\ Visiting("chart", Chart!ChartTypeOK) /\ Visiting("customers", CustomerPage!TypeOK)
    /\ Visiting("groups", GroupPage!TypeOK) /\ Visiting("contracts", ContractPage!TypeOK)
    /\ Visiting("activities", ActivityPage!TypeOK)

(* A comment or a transition note reaches the ticket it was typed for, also  *)
(* when a creation answers in the middle or the browser goes back and forth  *)
(* (ticket-detail-sheet.tsx).                                                *)
DraftsStayWithTicket == Visiting("tickets", TicketPage!DraftsStayWithTicket)

(* What the user sees when a drag is over, however it ended and wherever it  *)
(* passed, is what the owner of the board was told is final (kanban.tsx).    *)
CommittedIsShown == Visiting("board", BoardDemo!CommittedIsShown)

(* Every item is on the board exactly once, also in the middle of a drag.    *)
EachCardOnce == Visiting("board", BoardDemo!EachCardOnce)

(* No unit ever lies below itself, however the chart's cached tree lags      *)
(* behind the server's, until a re-parent runs beside another update of a    *)
(* unit (unit.go).                                                           *)
Acyclic == Visiting("chart", Chart!Acyclic)

(* An update of a customer or a working group carries the values of the one  *)
(* it updates and of no other opened before (the form dialogs).              *)
FieldsBelong ==
    /\ Visiting("customers", CustomerPage!FieldsBelong)
    /\ Visiting("groups", GroupPage!FieldsBelong)

(* Once the query of the page has settled, it is at least as new as every    *)
(* mutation this user was told succeeded (customers, groups, activities),    *)
(* and as what a transition, granted or refused, was answered from (tickets),*)
(* unless the answer came during the first request of a key and the query    *)
(* was not asked for again.                                                  *)
AcknowledgedShown ==
    /\ Visiting("tickets", TicketPage!AnsweredMoveShown)
    /\ Visiting("customers", CustomerPage!AcknowledgedShown)
    /\ Visiting("groups", GroupPage!AcknowledgedShown)
    /\ Visiting("activities", ActivityPage!AcknowledgedShown)

(* A contract that work is recorded under is never gone, however a deletion  *)
(* interleaves with the creation of an activity (contract.go).               *)
LinkedContractStays == Visiting("contracts", ContractPage!LinkedContractStays)
=============================================================================
