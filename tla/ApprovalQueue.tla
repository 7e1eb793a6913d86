----------------------------- MODULE ApprovalQueue -----------------------------
(* The approvals page: who sees which stage, the two pending queries and what *)
(* the page shows of them, the decision buttons of a row, and the refresh     *)
(* after a decision, while other approvers decide the same rows.              *)
EXTENDS FiniteSets

CONSTANTS
    TimeRows, ExpenseRows,  \* the pending entries
    Roles                   \* the organization roles of the viewers

VARIABLES
    viewer,     \* [role, leads]: the role, and whether a working group names the user
    groups,     \* the working-groups query: "loading", "loaded" or "failed"
    tab,        \* the stage of the URL
    online,     \* the browser is online
    queries,    \* queries[k]: [data, error, fetch, reply]
    table,      \* table[r]: the status of r at the server
    decisions,  \* decisions in flight: [row, op, at]
    panel       \* the open rejection panel: [row, long], or NoPanel

queueVars == <<viewer, groups, tab, online, queries, table, decisions, panel>>

Kinds == {"time", "expense"}
RowsOf(k) == IF k = "time" THEN TimeRows ELSE ExpenseRows
QueuedRows == TimeRows \cup ExpenseRows
Stages == {"manager", "finance"}
Waiting == {"submitted", "pending_manager", "pending_finance"}
RowStatuses == Waiting \cup {"approved", "rejected"}
NoData == [loaded |-> FALSE, rows |-> {}]
Listing == [loaded : BOOLEAN, rows : SUBSET [row : QueuedRows, status : Waiting]]
Fetches == {"idle", "asked", "paused", "answered"}
Query == [data : Listing, error : BOOLEAN, fetch : Fetches, reply : Listing]
NoPanel == [row |-> "none", long |-> FALSE]

TypeOK ==
    /\ viewer \in [role : Roles, leads : BOOLEAN]
    /\ groups \in {"loading", "loaded", "failed"}
    /\ tab \in Stages \cup {"none"}
    /\ online \in BOOLEAN
    /\ queries \in [Kinds -> Query]
    /\ table \in [QueuedRows -> RowStatuses]
    /\ decisions \subseteq [row : QueuedRows, op : {"approve", "reject"},
                            at : {"sent", "done", "refused"}]
    /\ panel \in [row : QueuedRows \cup {"none"}, long : BOOLEAN]

-----------------------------------------------------------------------------
(* What the page derives at every render.                                    *)

(* hr never holds a stage; a stage of a working group counts once the list   *)
(* of groups is there.                                                       *)
DeriveStages ==
    IF viewer.role = "hr" THEN {}
    ELSE (Stages \cap {viewer.role})
           \cup (IF groups = "loaded" /\ viewer.leads THEN {"manager"} ELSE {})

StageOf(status) == IF status = "pending_finance" THEN "finance" ELSE "manager"

ActiveStage ==
    IF tab \in DeriveStages THEN tab
    ELSE IF "finance" \in DeriveStages THEN "finance" ELSE "manager"

IsApprover == DeriveStages # {}
PageRows == {r \in queries["time"].data.rows \cup queries["expense"].data.rows :
                 StageOf(r.status) = ActiveStage}
(* A variant that looks at the time entries alone while it loads.            *)
LoadingTimeOnly(k) == k = "time" /\ ~queries[k].data.loaded /\ queries[k].fetch # "idle"

Loading(k) == ~queries[k].data.loaded /\ queries[k].fetch \notin {"idle", "paused"}

Screen ==
    IF ~IsApprover THEN "locked"
    ELSE IF \E k \in Kinds : queries[k].error THEN "error"
    ELSE IF \E k \in Kinds : Loading(k) THEN "skeleton"
    ELSE IF PageRows = {} THEN "clear" ELSE "rows"

(* The visibility matrix of the buttons goes by the organization role alone. *)
CanApprove(role, status) ==
    \/ role = "manager" /\ status \in {"pending_manager", "submitted"}
    \/ role = "finance" /\ status = "pending_finance"

Decidable(r) ==
    /\ Screen = "rows" /\ r \in PageRows
    /\ CanApprove(viewer.role, r.status)

PendingAction == decisions # {}

-----------------------------------------------------------------------------
(* Queries.  A query with no data and no error is fetched as soon as it is   *)
(* enabled, in the same render; offline it is paused.                        *)

Start == IF online THEN "asked" ELSE "paused"
Mounted(qs) ==
    [k \in Kinds |->
        IF ~qs[k].data.loaded /\ ~qs[k].error /\ qs[k].fetch = "idle"
          THEN [qs[k] EXCEPT !.fetch = Start] ELSE qs[k]]

(* A refetch replaces the request in flight of a query that has data; a query *)
(* without any keeps the one it has, and an idle one starts over.            *)
Refetched(q) ==
    IF q.data.loaded THEN [q EXCEPT !.fetch = Start, !.reply = NoData]
    ELSE IF q.fetch = "idle" THEN [q EXCEPT !.fetch = Start, !.error = FALSE]
    ELSE q

Unfetched ==
    [k \in Kinds |-> [data |-> NoData, error |-> FALSE, fetch |-> "idle", reply |-> NoData]]

Init ==
    /\ viewer \in [role : Roles, leads : BOOLEAN]
    /\ groups = "loading"
    /\ tab \in Stages \cup {"none"}
    /\ online = TRUE
    /\ table \in [QueuedRows -> {"submitted", "pending_finance"}]
    /\ decisions = {}
    /\ panel = NoPanel
    /\ queries = IF IsApprover THEN Mounted(Unfetched) ELSE Unfetched

GroupsArrive ==
    /\ groups = "loading"
    /\ \/ /\ groups' = "loaded"
          /\ queries' = IF viewer.role # "hr" /\ viewer.leads THEN Mounted(queries) ELSE queries
       \/ groups' = "failed" /\ UNCHANGED queries
    /\ UNCHANGED <<viewer, tab, online, table, decisions, panel>>

ServerLists(k) ==
    /\ queries[k].fetch = "asked"
    /\ queries' = [queries EXCEPT ![k].fetch = "answered", ![k].reply =
          [loaded |-> TRUE,
           rows |-> {[row |-> r, status |-> table[r]] :
                         r \in {x \in RowsOf(k) : table[x] \in Waiting}}]]
    /\ UNCHANGED <<viewer, groups, tab, online, table, decisions, panel>>

ListArrives(k) ==
    /\ queries[k].fetch = "answered"
    /\ queries' = [queries EXCEPT ![k] = [data |-> @.reply, error |-> FALSE,
                                          fetch |-> "idle", reply |-> NoData]]
    /\ panel' = IF panel.row \in RowsOf(k)
                     /\ ~\E r \in queries[k].reply.rows : r.row = panel.row
                  THEN NoPanel ELSE panel
    /\ UNCHANGED <<viewer, groups, tab, online, table, decisions>>

ListFails(k) ==
    /\ queries[k].fetch \notin {"idle", "paused"}
    /\ queries' = [queries EXCEPT ![k].error = TRUE, ![k].fetch = "idle", ![k].reply = NoData]
    /\ panel' = NoPanel
    /\ UNCHANGED <<viewer, groups, tab, online, table, decisions>>

GoOffline ==
    /\ online /\ online' = FALSE
    /\ UNCHANGED <<viewer, groups, tab, queries, table, decisions, panel>>

(* A request that waits for the network resumes when it is back, and the     *)
(* idle queries of an approver that are stale by now are fetched again.      *)
Reconnected(q, isStale) ==
    IF q.fetch = "paused" THEN [q EXCEPT !.fetch = "asked"]
    ELSE IF IsApprover /\ q.fetch = "idle" /\ (isStale \/ ~q.data.loaded)
           THEN [q EXCEPT !.fetch = "asked", !.error = @ /\ q.data.loaded]
    ELSE q

GoOnline ==
    /\ ~online /\ online' = TRUE
    /\ \E stale \in SUBSET Kinds :
           queries' = [k \in Kinds |-> Reconnected(queries[k], k \in stale)]
    /\ UNCHANGED <<viewer, groups, tab, table, decisions, panel>>

SwitchTab(s) ==
    /\ Cardinality(DeriveStages) = 2 /\ s # tab
    /\ tab' = s
    /\ panel' = NoPanel
    /\ UNCHANGED <<viewer, groups, online, queries, table, decisions>>

-----------------------------------------------------------------------------
(* Decisions.                                                                *)

Decide(r, op) ==
    /\ Decidable(r) /\ ~PendingAction
    /\ decisions' = decisions \cup {[row |-> r.row, op |-> op, at |-> "sent"]}

Approve(r) ==
    /\ Decide(r, "approve")
    /\ UNCHANGED <<viewer, groups, tab, online, queries, table, panel>>

OpenReject(r) ==
    /\ Decidable(r) /\ ~PendingAction /\ panel.row # r.row
    /\ panel' = [row |-> r.row, long |-> FALSE]
    /\ UNCHANGED <<viewer, groups, tab, online, queries, table, decisions>>

TypeReason ==
    /\ panel # NoPanel /\ ~panel.long
    /\ panel' = [panel EXCEPT !.long = TRUE]
    /\ UNCHANGED <<viewer, groups, tab, online, queries, table, decisions>>

CancelReject ==
    /\ panel # NoPanel /\ panel' = NoPanel
    /\ UNCHANGED <<viewer, groups, tab, online, queries, table, decisions>>

(* A reason shorter than ten characters is refused.                          *)
Reject(r) ==
    /\ panel.row = r.row /\ panel.long
    /\ Decide(r, "reject")
    /\ panel' = NoPanel
    /\ UNCHANGED <<viewer, groups, tab, online, queries, table>>

AfterDecision(status, op) ==
    IF op = "reject" THEN "rejected"
    ELSE IF StageOf(status) = "manager" THEN "pending_finance" ELSE "approved"

ServerDecides(d) ==
    /\ d.at = "sent"
    /\ IF CanApprove(viewer.role, table[d.row])
         THEN /\ table' = [table EXCEPT ![d.row] = AfterDecision(@, d.op)]
              /\ decisions' = (decisions \ {d}) \cup {[d EXCEPT !.at = "done"]}
         ELSE /\ table' = table
              /\ decisions' = (decisions \ {d}) \cup {[d EXCEPT !.at = "refused"]}
    /\ UNCHANGED <<viewer, groups, tab, online, queries, panel>>

(* Every list of both kinds is invalidated: those mounted are fetched again. *)
InvalidateAfterAction ==
    queries' = [k \in Kinds |-> IF IsApprover THEN Refetched(queries[k]) ELSE queries[k]]

DecisionSucceeds(d) ==
    /\ d.at = "done"
    /\ decisions' = decisions \ {d}
    /\ InvalidateAfterAction
    /\ UNCHANGED <<viewer, groups, tab, online, table, panel>>

(* A refusal invalidates nothing: the row stays as it is on screen.          *)
DecisionFails(d) ==
    /\ d.at # "sent"
    /\ decisions' = decisions \ {d}
    /\ UNCHANGED <<viewer, groups, tab, online, queries, table, panel>>

OtherApprover(r) ==
    /\ table[r] \in Waiting
    /\ \E op \in {"approve", "reject"} : table' = [table EXCEPT ![r] = AfterDecision(@, op)]
    /\ UNCHANGED <<viewer, groups, tab, online, queries, decisions, panel>>

-----------------------------------------------------------------------------
Answers == \E d \in decisions : ServerDecides(d) \/ DecisionSucceeds(d) \/ DecisionFails(d)

Next ==
    \/ GroupsArrive \/ GoOffline \/ GoOnline \/ TypeReason \/ CancelReject
    \/ \E k \in Kinds : ServerLists(k) \/ ListArrives(k) \/ ListFails(k)
    \/ \E s \in Stages : SwitchTab(s)
    \/ \E r \in PageRows : Approve(r) \/ OpenReject(r) \/ Reject(r)
    \/ \E r \in QueuedRows : OtherApprover(r)
    \/ Answers

Spec == Init /\ [][Next]_queueVars

-----------------------------------------------------------------------------
(* "Queue is clear" is never the face of a list that failed or is on its     *)
(* way: each list is there, or the browser is offline and the list waits for *)
(* the network, which the page does not tell from an empty one.              *)
ClearMeansLoaded ==
    Screen = "clear" =>
        \A k \in Kinds :
            /\ ~queries[k].error
            /\ \/ queries[k].data.loaded
               \/ ~online /\ queries[k].fetch = "paused"

(* Offline as well, "Queue is clear" is said of lists that have come.        *)
ClearOffline == Screen = "clear" => \A k \in Kinds : queries[k].data.loaded

(* A row of the viewer's queue can be decided there.                         *)
QueuedRowsDecidable == Screen = "rows" => \A r \in PageRows : Decidable(r)
=============================================================================
