----------------------------- MODULE TicketGuard -----------------------------
(* Tickets, activities and time entries together: activities are created for  *)
(* a ticket or below another activity, moved and deleted, entries are booked  *)
(* on them, and two services look at each other's rows.  A dismissal and a    *)
(* resolution lock the activities of their ticket; a submission asks whether  *)
(* its ticket is dismissed and writes later.                                  *)
EXTENDS ApprovalChain

CONSTANTS
    Tickets, TicketRequests,
    Existing    \* the activities that were there before any ticket

None == "none"
Uncreated == "uncreated"
Deleted == "deleted"

ASSUME IdAssumption ==
    /\ None \notin Tickets \cup Targets
    /\ Tickets \cap {Uncreated, Deleted} = {}

VARIABLES
    ticket, plans, treq,    \* as in Tickets
    link,       \* Targets -> the ticket the activity was created for
    parent,     \* Targets -> the activity it is part of
    linking,    \* Targets -> the ticket of a POST /activities in flight
    moving,     \* the PUT /activities in flight
    held        \* TicketRequests -> the activities its lock statement has found

ticketVars == <<ticket, plans, treq>>
activityVars == <<link, parent, linking, moving>>
guardVars == <<ticketVars, activityVars, held>>

vars == <<table, route, req, approvals, cleared, ticket, plans, treq,
          link, parent, linking, moving, held>>

Exists(a) == link[a] \notin {Uncreated, Deleted}

(* The recursive queries: the activities of S that are in R or below it       *)
(* without leaving S, that is the least set that holds R and its children.    *)
Closed(U, S) == \A a \in S : parent[a] \in U => a \in U

Reached(R, S) ==
    {a \in S : \A U \in SUBSET S : R \cap S \subseteq U /\ Closed(U, S) => a \in U}

Linked(t) == {a \in Targets : link[a] = t}

Subtree(t) == Reached(Linked(t), Targets)

UnderDismissed(a) == \E t \in Tickets : ticket[t] = "dismissed" /\ a \in Subtree(t)

Live(i) == table[i] # Absent /\ ~table[i].deleted

(* The entries the two work guards select.                                    *)
LiveOn(S) == {i \in Entries : Live(i) /\ table[i].target \in S}

T == INSTANCE Tickets WITH
        work <- [t \in Tickets |-> {table[i].status : i \in LiveOn(Subtree(t))}]

TE == INSTANCE TimeEntries WITH dismissed <- {a \in Targets : UnderDismissed(a)}

Moves == [id : Targets, parent : Targets]
NoMove == [id |-> None, parent |-> None]

TypeOK ==
    /\ ChainTypeOK
    /\ T!TicketsTypeOK
    /\ link \in [Targets -> Tickets \cup {None, Uncreated, Deleted}]
    /\ parent \in [Targets -> Targets \cup {None}]
    /\ linking \in [Targets -> Tickets \cup {None}]
    /\ moving \in Moves \cup {NoMove}
    /\ held \in [TicketRequests -> SUBSET Targets]

Init ==
    /\ ChainInit
    /\ T!TicketsInit
    /\ link = [a \in Targets |-> IF a \in Existing THEN None ELSE Uncreated]
    /\ parent = [a \in Targets |-> None]
    /\ linking = [a \in Targets |-> None]
    /\ moving = NoMove
    /\ held = [r \in TicketRequests |-> {}]

-----------------------------------------------------------------------------
(* The locks of a ticket transaction.                                         *)

(* Defect: the lock statement takes no locks.                                 *)
NeverLocked(a) == FALSE

(* What a resolution or a dismissal holds FOR UPDATE once the statement that  *)
(* locks has ended.  It keeps out whatever takes a lock on the row: an UPDATE *)
(* or a DELETE of the activity, and an INSERT or UPDATE that makes an entry   *)
(* or an activity refer to it.                                                *)
Locked(a) ==
    \E r \in TicketRequests : treq[r].stage = "checked" /\ a \in held[r]

(* The statement that locks finds its rows when it begins, and may wait for   *)
(* them; what is created below the ticket in the meantime it does not lock.   *)
TicketLock(r) ==
    /\ T!Lock(r)
    /\ held' = [held EXCEPT ![r] =
                  IF treq[r].to \in {"resolved", "dismissed"}
                  THEN Subtree(treq[r].id) ELSE {}]

TicketCheck(r) == T!Check(r) /\ UNCHANGED held

TicketEnds(r) == held' = [held EXCEPT ![r] = {}]

-----------------------------------------------------------------------------
(* Activities.                                                                *)

(* The foreign key of a new parent.                                           *)
CanRefer(p) == p # None => Exists(p) /\ ~Locked(p)

Insert(a, t, p) ==
    /\ link[a] = Uncreated
    /\ CanRefer(p)
    /\ link' = [link EXCEPT ![a] = t]
    /\ parent' = [parent EXCEPT ![a] = p]

(* POST /activities without a ticket: part of another activity, or of none.   *)
CreatePlain(a, p) ==
    /\ linking[a] = None
    /\ Insert(a, None, p)
    /\ UNCHANGED <<chainVars, ticketVars, linking, moving, held>>

(* POST /activities with origin customer_ticket: the ticket is read, and must *)
(* be open or in triage; the INSERT comes later and waits for nothing but the *)
(* row locks its foreign keys need, on the ticket and on the parent.  (That   *)
(* the parent exists is asked before, too: the foreign key asks it again.)    *)
LinkBegin(a, t) ==
    /\ link[a] = Uncreated /\ linking[a] = None
    /\ ticket[t] \in {"open", "triage"}
    /\ linking' = [linking EXCEPT ![a] = t]
    /\ UNCHANGED <<chainVars, ticketVars, link, parent, moving, held>>

LinkInsert(a, p) ==
    /\ linking[a] # None /\ ~T!RowLocked(linking[a])
    /\ Insert(a, linking[a], p)
    /\ linking' = [linking EXCEPT ![a] = None]
    /\ UNCHANGED <<chainVars, ticketVars, moving, held>>

(* PUT /activities with a parent: the ancestry of the new parent is walked,   *)
(* and the row written in a later statement.  The other columns do not matter *)
(* here, and the links cannot be written.  One PUT is in flight at a time.    *)
MoveBegin(a, p) ==
    /\ moving = NoMove
    /\ Exists(a) /\ Exists(p)
    /\ p \notin Reached({a}, Targets)
    /\ moving' = [id |-> a, parent |-> p]
    /\ UNCHANGED <<chainVars, ticketVars, link, parent, linking, held>>

MoveWrite ==
    /\ moving # NoMove
    /\ Exists(moving.id) /\ ~Locked(moving.id) /\ CanRefer(moving.parent)
    /\ parent' = [parent EXCEPT ![moving.id] = moving.parent]
    /\ moving' = NoMove
    /\ UNCHANGED <<chainVars, ticketVars, link, linking, held>>

(* A statement of either that is refused, or whose client has gone away.      *)
PostFails(a) ==
    /\ linking[a] # None
    /\ linking' = [linking EXCEPT ![a] = None]
    /\ UNCHANGED <<chainVars, ticketVars, link, parent, moving, held>>

MoveFails ==
    /\ moving # NoMove
    /\ moving' = NoMove
    /\ UNCHANGED <<chainVars, ticketVars, link, parent, linking, held>>

(* DELETE /activities: its checks come first, but what they look for is also  *)
(* what the foreign keys refuse, so that only the statement matters.          *)
DeleteActivity(a) ==
    /\ Exists(a) /\ ~Locked(a)
    /\ \A b \in Targets : parent[b] # a
    /\ \A i \in Entries : table[i] # Absent => table[i].target # a
    /\ link' = [link EXCEPT ![a] = Deleted]
    /\ parent' = [parent EXCEPT ![a] = None]
    /\ UNCHANGED <<chainVars, ticketVars, linking, moving, held>>

ActivityStep ==
    \/ \E a \in Targets, p \in Targets \cup {None} :
          CreatePlain(a, p) \/ LinkInsert(a, p)
    \/ \E a \in Targets, t \in Tickets : LinkBegin(a, t)
    \/ \E a \in Targets : PostFails(a) \/ DeleteActivity(a)
    \/ \E a, p \in Targets : MoveBegin(a, p)
    \/ MoveWrite
    \/ MoveFails

-----------------------------------------------------------------------------
(* Tickets.  The transaction of a triage inserts the planned activities with  *)
(* the status; every other ticket step leaves the activities alone.           *)
TicketCommit(r) ==
    /\ T!Commit(r) /\ TicketEnds(r)
    /\ IF treq[r].op = "triage"
       THEN \E a \in Targets, p \in Targets \cup {None} :
               linking[a] = None /\ Insert(a, treq[r].id, p)
       ELSE UNCHANGED <<link, parent>>

TicketBegin ==
    \E t \in Tickets :
        \/ T!CreateTicket(t)
        \/ \E r \in TicketRequests :
              \/ \E to \in T!TicketStatuses : T!TransitionBegin(r, t, to)
              \/ T!DismissBegin(r, t)
              \/ T!TriageBegin(r, t)

TicketStep ==
    /\ \/ TicketBegin /\ UNCHANGED <<link, parent, held>>
       \/ \E r \in TicketRequests :
             \/ (TicketLock(r) \/ TicketCheck(r)) /\ UNCHANGED <<link, parent>>
             \/ T!Rollback(r) /\ TicketEnds(r) /\ UNCHANGED <<link, parent>>
             \/ TicketCommit(r)
    /\ UNCHANGED <<chainVars, linking, moving>>

-----------------------------------------------------------------------------
(* Time entries.  A statement that books an entry on another activity than    *)
(* before refers to it; a request that starts has found the activity.         *)
TargetOf(row) == IF row = Absent THEN None ELSE row.target

EntryStep ==
    /\ TE!Statement
    /\ \A i \in Entries :
          TargetOf(table'[i]) # TargetOf(table[i]) => CanRefer(table'[i].target)
    /\ \A r \in Requests :
          req[r] = Idle /\ req'[r] # Idle => Exists(req'[r].row.target)
    /\ UNCHANGED guardVars

Next == EntryStep \/ TicketStep \/ ActivityStep

Spec == Init /\ [][Next]_vars

-----------------------------------------------------------------------------
(* The activities of its ticket that a transaction reaches through locked     *)
(* ones alone: what its locks protect.                                        *)
Protected(r) == Reached(Linked(treq[r].id), held[r])

(* What a transaction has checked or summed stays complete until it commits:  *)
(* however entries and activities are created and moved, no entry arrives on  *)
(* what its locks protect.                                                    *)
NothingArrives ==
    [][\A r \in TicketRequests :
          treq[r].stage = "checked" /\ treq'[r] = treq[r] =>
             LiveOn(Protected(r))' \subseteq LiveOn(Protected(r))]_vars

(* With one writer of entries the locks do their part: until a resolution     *)
(* commits, no draft is on an activity they protect.                          *)
NoDraftBehindLocks ==
    \A r \in TicketRequests :
        treq[r].stage = "checked" /\ treq[r].to = "resolved" =>
           \A i \in LiveOn(Protected(r)) : table[i].status # "draft"

(* A resolved ticket has no draft under it at that moment.  An activity that  *)
(* is created below a linked one while the lock statement waits is not locked *)
(* by it, and an entry can be booked there after the check.                   *)
NoDraftWhenResolved ==
    [][\A t \in Tickets : ticket'[t] = "resolved" /\ ticket[t] # "resolved" =>
          \A i \in LiveOn(Subtree(t)) : table[i].status # "draft"]_vars

(* A dismissed ticket must not acquire new logged hours after the fact: an    *)
(* entry under its activities can never be submitted any more.                *)
NeverSubmittedUnderDismissed ==
    [][\A i \in Entries :
          /\ table[i].status \in {"draft", "rejected"}
          /\ table'[i].status \in {"submitted", "pending_finance"}
          => ~UnderDismissed(table[i].target)]_vars
=============================================================================
