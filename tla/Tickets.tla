------------------------------- MODULE Tickets -------------------------------
(* Customer tickets: the lifecycle and the guards on its edges.  The service  *)
(* reads the ticket from the pool and checks the edge (a fast failure); the   *)
(* repository then opens a transaction.  It locks the row and checks the edge *)
(* again on the status it locked (Lock); for the edges into resolved and      *)
(* dismissed it locks the linked activities, which may take a while, and      *)
(* checks the work under them (Check); then it writes the status and commits  *)
(* (Commit).  Other requests run before each of the three.                    *)
(* The audit rows are left out: they are stamped by the service before the    *)
(* lock and sorted by that stamp, so their order is not that of the commits.  *)
EXTENDS Naturals, FiniteSets

CONSTANTS
    Tickets,        \* ticket ids
    TicketRequests  \* ticket handlers in flight

VARIABLES
    ticket,     \* Tickets -> the status of the row
    plans,      \* history: Tickets -> how many plans were inserted for it
    treq,       \* TicketRequests -> the handler in flight there
    work        \* Tickets -> the statuses of the live entries under the ticket

ticketVars == <<ticket, plans, treq>>

TicketStatuses == {"open", "triage", "planned", "in_progress", "resolved",
                   "closed", "dismissed"}

EntryStatuses == {"draft", "submitted", "pending_finance", "approved", "rejected"}

NoRequest == [op |-> "none", stage |-> "none"]

(* A handler that has passed the fast checks (read), holds the row (locked),  *)
(* or has also passed the checks of the transaction (checked).                *)
Handlers == [op : {"transition", "dismiss", "triage"}, id : Tickets,
             to : TicketStatuses, stage : {"read", "locked", "checked"}]

TicketsTypeOK ==
    /\ ticket \in [Tickets -> TicketStatuses \cup {"absent"}]
    /\ plans \in [Tickets -> Nat]
    /\ treq \in [TicketRequests -> Handlers \cup {NoRequest}]

TypeOK == TicketsTypeOK /\ work \in [Tickets -> SUBSET EntryStatuses]

TicketsInit ==
    /\ ticket = [t \in Tickets |-> "absent"]
    /\ plans = [t \in Tickets |-> 0]
    /\ treq = [r \in TicketRequests |-> NoRequest]

-----------------------------------------------------------------------------
(* The locked transition matrix.                                              *)
Edges == {<<"open", "triage">>, <<"open", "dismissed">>,
          <<"triage", "planned">>, <<"triage", "dismissed">>,
          <<"planned", "in_progress">>, <<"in_progress", "resolved">>,
          <<"resolved", "closed">>, <<"resolved", "in_progress">>}

CanTransition(from, to) == <<from, to>> \in Edges

(* Defect: a draft does not keep a ticket from being resolved.                *)
NonTerminalPastDraft(t) == work[t] \cap {"submitted", "pending_finance"} # {}

(* hasNonTerminalActivities and loggedHours > 0 over the linked subtree.      *)
NonTerminal(t) == work[t] \cap {"draft", "submitted", "pending_finance"} # {}
HoursLogged(t) == work[t] \cap {"submitted", "approved"} # {}

-----------------------------------------------------------------------------
(* The handlers up to their transaction.                                      *)

Begin(r, op, t, to) ==
    /\ treq[r] = NoRequest
    /\ CanTransition(ticket[t], to)
    /\ treq' = [treq EXCEPT ![r] =
                  [op |-> op, id |-> t, to |-> to, stage |-> "read"]]
    /\ UNCHANGED <<ticket, plans>>

(* Transition: every edge but the ones into dismissed.                        *)
TransitionBegin(r, t, to) ==
    /\ to # "dismissed"
    /\ to = "resolved" => ~NonTerminal(t)
    /\ Begin(r, "transition", t, to)

DismissBegin(r, t) == ~HoursLogged(t) /\ Begin(r, "dismiss", t, "dismissed")

TriageBegin(r, t) == Begin(r, "triage", t, "planned")

-----------------------------------------------------------------------------
(* The transactions.                                                          *)

(* Defect: a lock that is not taken.                                          *)
NoLock(t) == FALSE

RowLocked(t) ==
    \E r \in TicketRequests :
        treq[r].stage \in {"locked", "checked"} /\ treq[r].id = t

(* The row lock, and the matrix on the status it locked.                      *)
Lock(r) ==
    LET q == treq[r] IN
    /\ q.stage = "read"
    /\ ~RowLocked(q.id)
    /\ CanTransition(ticket[q.id], q.to)
    /\ treq' = [treq EXCEPT ![r].stage = "locked"]
    /\ UNCHANGED <<ticket, plans>>

(* The activities are locked, and the work guards asked in a later statement. *)
Check(r) ==
    LET q == treq[r] IN
    /\ q.stage = "locked"
    /\ q.to = "resolved" => ~NonTerminal(q.id)
    /\ q.to = "dismissed" => ~HoursLogged(q.id)
    /\ treq' = [treq EXCEPT ![r].stage = "checked"]
    /\ UNCHANGED <<ticket, plans>>

(* Defect: a triage writes the name of its event as the status.               *)
EventNameWritten(q) == IF q.op = "triage" THEN "triaged" ELSE q.to

Written(q) == q.to

(* The status, and with it the activities a triage plans.                     *)
Commit(r) ==
    LET q == treq[r] IN
    /\ q.stage = "checked"
    /\ ticket' = [ticket EXCEPT ![q.id] = Written(q)]
    /\ plans' = [plans EXCEPT ![q.id] = IF q.op = "triage" THEN @ + 1 ELSE @]
    /\ treq' = [treq EXCEPT ![r] = NoRequest]

(* A transaction that fails one of its checks, or whose client has gone away, *)
(* rolls back.                                                                *)
Rollback(r) ==
    /\ treq[r] # NoRequest
    /\ treq' = [treq EXCEPT ![r] = NoRequest]
    /\ UNCHANGED <<ticket, plans>>

CreateTicket(t) ==
    /\ ticket[t] = "absent"
    /\ ticket' = [ticket EXCEPT ![t] = "open"]
    /\ UNCHANGED <<plans, treq>>

-----------------------------------------------------------------------------
(* Entries, and the activities they are on, come and go under any ticket: its *)
(* locks do not keep all of them out (TicketGuard says which they do).        *)
WorkChanges(t, statuses) ==
    /\ ticket[t] # "absent"
    /\ work' = [work EXCEPT ![t] = statuses]
    /\ UNCHANGED ticketVars

Init == TicketsInit /\ work = [t \in Tickets |-> {}]

TicketStep ==
    \/ \E t \in Tickets :
          \/ CreateTicket(t)
          \/ \E r \in TicketRequests :
                \/ \E to \in TicketStatuses : TransitionBegin(r, t, to)
                \/ DismissBegin(r, t)
                \/ TriageBegin(r, t)
    \/ \E r \in TicketRequests :
          Lock(r) \/ Check(r) \/ Commit(r) \/ Rollback(r)

Next ==
    \/ TicketStep /\ UNCHANGED work
    \/ \E t \in Tickets, statuses \in SUBSET EntryStatuses :
          WorkChanges(t, statuses)

vars == <<ticket, plans, treq, work>>

Spec == Init /\ [][Next]_vars

-----------------------------------------------------------------------------
(* However many handlers race on stale reads, a ticket moves along the matrix *)
(* only: a dismissed or closed ticket is never revived, nor one in planning   *)
(* dismissed.                                                                 *)
OnlyMatrixMoves ==
    [][\A t \in Tickets : ticket'[t] # ticket[t] =>
          \/ ticket[t] = "absent" /\ ticket'[t] = "open"
          \/ CanTransition(ticket[t], ticket'[t])]_vars

(* The activities of a plan are inserted once, however often a triage is sent *)
(* and whatever it read: a second one finds the ticket planned under the lock *)
(* and rolls back.                                                            *)
PlannedOnce == \A t \in Tickets : plans[t] <= 1

(* Hours in flight block a dismissal: a check that passes has seen no entry   *)
(* past draft, wherever it is on its way to approval.                         *)
InFlightBlocksDismissal ==
    [][\A r \in TicketRequests :
          treq[r].op = "dismiss" /\ treq'[r].stage = "checked" /\ treq[r] # treq'[r] =>
             work[treq[r].id] \subseteq {"draft", "rejected"}]_vars
=============================================================================
