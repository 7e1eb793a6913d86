---------------------------- MODULE ApprovalChain ----------------------------
(* The two-stage approval chain (manager, then finance) that time entries    *)
(* and expenses share.  The two services carry the same handlers over two    *)
(* tables: each handler is a sequence of separate statements on the          *)
(* connection pool, with no transaction around them,                         *)
(*                                                                           *)
(*   read the row (GetByID), check it, resolve the approver, write the whole *)
(*   row back (Update ... WHERE id = $1), insert the approval record         *)
(*                                                                           *)
(* and requests interleave between any two of them.  A request in flight     *)
(* therefore holds a copy of the row as it was when it was read; the UPDATE  *)
(* names the row by id only, so it overwrites whatever is there by then.     *)
(* Here every statement is one action and Requests is the set of handlers    *)
(* that can be in flight at once.                                            *)
EXTENDS Naturals, FiniteSets

CONSTANTS
    Users,      \* members of the organization
    Claimants,  \* the ones who create entries here (a bound on Create)
    OrgRole,    \* Users -> the organization role in the caller's token
    Targets,    \* what an entry is booked on: an activity and a unit
    Amounts,    \* the claimed hours (time entries) or money (expenses)
    Receipts,   \* values of receipt_url; time entries only ever hold NoReceipt
    NoReceipt,
    Entries,    \* row ids
    Requests,   \* handlers in flight
    Routes,     \* the manager-stage resolutions the working groups can give
    Aborts      \* may a request die between two of its statements?

OrgRoles == {"employee", "manager", "finance", "customer", "hr"}

(* ResolveManagerStage: an approver set (working group manager and delegates *)
(* or the nearest unit manager), the terminal role-gated case, or the error  *)
(* for a commercial activity without a working group.                        *)
Routings == [kind : {"approvers", "roleGated", "notLoggable"},
             approvers : SUBSET Users]

ASSUME RoleAssumption == OrgRole \in [Users -> OrgRoles]
ASSUME ClaimantAssumption == Claimants \subseteq Users
ASSUME RouteAssumption == Routes \subseteq Routings
ASSUME ReceiptAssumption == NoReceipt \in Receipts
ASSUME AbortAssumption == Aborts \in BOOLEAN

VARIABLES
    table,      \* the rows, by id
    route,      \* Targets -> what ResolveManagerStage answers now
    req,        \* Requests -> the request in flight there, with its row copy
    approvals,  \* the approval records (never updated or deleted)
    cleared     \* history: what each successful stage write had reviewed (an
                \* expense's is carried over when its amount is recalculated)

chainVars == <<table, route, req, approvals, cleared>>

Statuses == {"draft", "submitted", "pending_finance", "approved", "rejected"}

Rows == [owner : Users, target : Targets, amount : Amounts,
         receipt : Receipts, status : Statuses, deleted : BOOLEAN]

Absent == [status |-> "absent"]
Idle == [pc |-> "idle"]

Flights == [pc : {"ticket", "route", "write", "record"},
            op : {"update", "delete", "submit", "approve", "reject", "receipt"},
            actor : Users, id : Entries, row : Rows]

Approvals == [id : Entries, action : {"approve", "reject"}, by : Users]

Clearances == [id : Entries, stage : {"manager", "finance"}, by : Users,
               target : Targets, amount : Amounts]

ChainTypeOK ==
    /\ table \in [Entries -> Rows \cup {Absent}]
    /\ route \in [Targets -> Routings]
    /\ req \in [Requests -> Flights \cup {Idle}]
    /\ approvals \subseteq Approvals
    /\ cleared \subseteq Clearances

ChainInit ==
    /\ table = [i \in Entries |-> Absent]
    /\ route \in [Targets -> Routes]
    /\ req = [r \in Requests |-> Idle]
    /\ approvals = {}
    /\ cleared = {}

-----------------------------------------------------------------------------
(* The row predicates of the domain types.                                   *)

(* Defects: an approved entry, or one that waits for finance, can be edited.  *)
CanEditApproved(row) == row.status \in {"draft", "submitted", "rejected", "approved"}
CanEditInReview(row) ==
    row.status \in {"draft", "submitted", "pending_finance", "rejected"}

CanEdit(row) == row.status \in {"draft", "submitted", "rejected"}
CanSubmit(row) == row.status \in {"draft", "rejected"}
IsOwner(row, u) == row.owner = u

(* The actor may take the manager stage of an entry routed by x.             *)
MayManage(x, u) ==
    \/ x.kind = "roleGated"
    \/ x.kind = "approvers" /\ u \in x.approvers

-----------------------------------------------------------------------------
(* A request: reads its row, moves on, ends.                                 *)

Start(r, op, u, i, pc, row) ==
    /\ req[r] = Idle
    /\ req' = [req EXCEPT ![r] =
                 [pc |-> pc, op |-> op, actor |-> u, id |-> i, row |-> row]]
    /\ UNCHANGED <<table, route, approvals, cleared>>

Advance(r, pc, status) ==
    /\ req' = [req EXCEPT ![r].pc = pc, ![r].row.status = status]
    /\ UNCHANGED <<table, route, approvals, cleared>>

Refuse(r) ==
    /\ req' = [req EXCEPT ![r] = Idle]
    /\ UNCHANGED <<table, route, approvals, cleared>>

At(r, op, pc) == req[r].pc = pc /\ req[r].op = op

-----------------------------------------------------------------------------
(* The handlers.                                                             *)

(* Create: one INSERT of a draft.                                            *)
Create(u, i, t, a) ==
    /\ u \in Claimants
    /\ table[i] = Absent
    /\ table' = [table EXCEPT ![i] =
                   [owner |-> u, target |-> t, amount |-> a,
                    receipt |-> NoReceipt, status |-> "draft", deleted |-> FALSE]]
    /\ UNCHANGED <<route, req, approvals, cleared>>

(* Update: read, check, change the copy.  The status of the copy is the one  *)
(* that was read.                                                            *)
UpdateRead(r, u, i, t, a) ==
    /\ CanEdit(table[i]) /\ IsOwner(table[i], u)
    /\ Start(r, "update", u, i, "write",
             [table[i] EXCEPT !.target = t, !.amount = a])

DeleteRead(r, u, i) ==
    /\ table[i].status = "draft" /\ IsOwner(table[i], u)
    /\ Start(r, "delete", u, i, "write", table[i])

(* Submit: read and check; the next statement is the one at pc first.        *)
SubmitRead(r, u, i, first) ==
    /\ CanSubmit(table[i]) /\ IsOwner(table[i], u)
    /\ Start(r, "submit", u, i, first, table[i])

(* Defect: the status CONTEXT.md and the migrations list and nothing writes.  *)
SubmitsAsPendingManager(row, x) ==
    IF row.owner \in x.approvers THEN "pending_finance" ELSE "pending_manager"

(* D-11: an owner who is in the approver set skips the manager stage.        *)
SubmittedStatus(row, x) ==
    IF row.owner \in x.approvers THEN "pending_finance" ELSE "submitted"

SubmitRoute(r) ==
    /\ At(r, "submit", "route")
    /\ LET row == req[r].row
           x == route[row.target]
       IN \/ x.kind = "notLoggable" /\ Refuse(r)
          \/ /\ x.kind # "notLoggable"
             /\ Advance(r, "write", SubmittedStatus(row, x))

(* Approve: the handler admits the organization roles manager and finance.   *)
ApproveRead(r, u, i) ==
    /\ table[i] # Absent
    /\ ~IsOwner(table[i], u)
    /\ \/ /\ OrgRole[u] = "manager" /\ table[i].status = "submitted"
          /\ Start(r, "approve", u, i, "route", table[i])
       \/ /\ OrgRole[u] = "finance" /\ table[i].status = "pending_finance"
          /\ Start(r, "approve", u, i, "write",
                   [table[i] EXCEPT !.status = "approved"])

(* The manager stage resolves the approver again, from the row it read.      *)
ApproveRoute(r) ==
    /\ At(r, "approve", "route")
    /\ LET x == route[req[r].row.target]
       IN \/ MayManage(x, req[r].actor) /\ Advance(r, "write", "pending_finance")
          \/ ~MayManage(x, req[r].actor) /\ Refuse(r)

(* Reject: either role, no routing, and the owner is not excluded.           *)
RejectRead(r, u, i) ==
    /\ OrgRole[u] \in {"manager", "finance"}
    /\ table[i].status \in {"submitted", "pending_finance"}
    /\ Start(r, "reject", u, i, "write", [table[i] EXCEPT !.status = "rejected"])

(* Defect: a review writes the status only, on whatever the row has become.   *)
StoredStatusOnly(q) ==
    IF q.op = "update"
    THEN [q.row EXCEPT !.owner = table[q.id].owner, !.deleted = table[q.id].deleted]
    ELSE [table[q.id] EXCEPT !.status = q.row.status]

(* The repository's Update: every column of the copy but the owner and the   *)
(* soft-delete flag, by id, with no precondition on the row it replaces.     *)
Stored(q) == [q.row EXCEPT !.owner = table[q.id].owner,
                           !.deleted = table[q.id].deleted]

(* The stage a write clears, if any: an approval, or a submission that skips *)
(* the manager stage.                                                        *)
ClearsOf(q) ==
    IF q.op = "approve" \/ (q.op = "submit" /\ q.row.status = "pending_finance")
    THEN {[id |-> q.id, by |-> q.actor,
           stage |-> IF q.row.status = "approved" THEN "finance" ELSE "manager",
           target |-> q.row.target, amount |-> q.row.amount]}
    ELSE {}

(* Defect: only rejections are recorded.                                      *)
RecordsRejectionsOnly(q) ==
    IF q.op = "reject" THEN [q EXCEPT !.pc = "record"] ELSE Idle

(* A review goes on to its approval record; everything else is done.          *)
AfterWrite(q) ==
    IF q.op \in {"approve", "reject"} THEN [q EXCEPT !.pc = "record"] ELSE Idle

Write(r) ==
    /\ req[r].pc = "write" /\ req[r].op # "delete"
    /\ table' = [table EXCEPT ![req[r].id] = Stored(req[r])]
    /\ cleared' = cleared \cup ClearsOf(req[r])
    /\ req' = [req EXCEPT ![r] = AfterWrite(req[r])]
    /\ UNCHANGED <<route, approvals>>

(* The repository's Delete: the flag, by id.                                 *)
Erase(r) ==
    /\ At(r, "delete", "write")
    /\ table' = [table EXCEPT ![req[r].id].deleted = TRUE]
    /\ req' = [req EXCEPT ![r] = Idle]
    /\ UNCHANGED <<route, approvals, cleared>>

(* CreateApproval: a second statement, after the row has changed.            *)
Record(r) ==
    /\ req[r].pc = "record"
    /\ approvals' = approvals \cup
         {[id |-> req[r].id, action |-> req[r].op, by |-> req[r].actor]}
    /\ req' = [req EXCEPT ![r] = Idle]
    /\ UNCHANGED <<table, route, cleared>>

(* The client goes away (the request context is cancelled), a statement      *)
(* fails, or the server stops: what was written stays, the rest never runs.  *)
Abort(r) ==
    /\ Aborts /\ req[r] # Idle
    /\ Refuse(r)

(* Working groups and unit managers change under the entries.                *)
Reroute(t, x) ==
    /\ route' = [route EXCEPT ![t] = x]
    /\ UNCHANGED <<table, req, approvals, cleared>>

-----------------------------------------------------------------------------
(* Properties that both services are checked for.                            *)

(* The content an entry shows was cleared at a stage.                        *)
ClearedAs(i, stage, by, t, a) ==
    [id |-> i, stage |-> stage, by |-> by, target |-> t, amount |-> a] \in cleared

(* The manager stage was taken by somebody else with the manager role, or    *)
(* skipped by an owner who was the approver (D-11).                          *)
ManagerCleared(i, row) ==
    \E m \in Users : /\ ClearedAs(i, "manager", m, row.target, row.amount)
                     /\ m # row.owner => OrgRole[m] = "manager"

FinanceCleared(i, row) ==
    \E f \in Users : /\ ClearedAs(i, "finance", f, row.target, row.amount)
                     /\ f # row.owner /\ OrgRole[f] = "finance"

Reviewed(i, row) ==
    /\ row.status \in {"pending_finance", "approved"} => ManagerCleared(i, row)
    /\ row.status = "approved" => FinanceCleared(i, row)

(* However requests interleave, an approved entry shows exactly the booking  *)
(* and the amount that a finance user other than its owner approved after    *)
(* the manager stage had passed the same content, and nothing waits for      *)
(* finance that the manager stage has not passed.                            *)
ReviewedContent == \A i \in Entries : Reviewed(i, table[i])

(* The same of the expenses, whose amounts are also recalculated: there       *)
(* `cleared` holds, next to what the stages passed, that booking with the     *)
(* amount a recalculation put in place of the one they had passed.  However   *)
(* requests, uploads and recalculations interleave, an approved expense shows *)
(* one of the two, and nothing waits for finance that shows neither: no copy  *)
(* a request writes back brings an amount of a third kind.                    *)
ReviewedOrRecalculated == ReviewedContent

(* Every approval that changed an entry has its approval record, unless the  *)
(* request is just about to insert it: the history the approval tables keep  *)
(* is complete.                                                              *)
TrailComplete ==
    \A c \in cleared :
        \/ c.by = table[c.id].owner
        \/ [id |-> c.id, action |-> "approve", by |-> c.by] \in approvals
        \/ \E r \in Requests : /\ At(r, "approve", "record")
                               /\ req[r].id = c.id /\ req[r].actor = c.by

(* Facts are immutable after approval: no statement changes an approved row. *)
ApprovedImmutable ==
    [][\A i \in Entries : table[i].status = "approved" => table'[i] = table[i]]_chainVars

(* The lifecycle an observer of the table should see, a write at a time.     *)
ContentOf(row) == IF row = Absent THEN << >> ELSE <<row.target, row.amount>>

Lifecycle == INSTANCE EntryLifecycle WITH
    Contents <- Targets \X Amounts,
    status <- [i \in Entries |-> table[i].status],
    content <- [i \in Entries |-> ContentOf(table[i])]

LifecycleSpec == Lifecycle!Spec

(* Whoever an entry in the manager or finance stage is routed to, somebody   *)
(* other than its owner can take that stage.                                 *)
EveryPendingEntryHasAnApprover ==
    \A i \in Entries :
        /\ table[i].status = "submitted" =>
              \E u \in Users : /\ u # table[i].owner /\ OrgRole[u] = "manager"
                               /\ MayManage(route[table[i].target], u)
        /\ table[i].status = "pending_finance" =>
              \E u \in Users : u # table[i].owner /\ OrgRole[u] = "finance"
=============================================================================
