------------------------------- MODULE EntryPages ------------------------------
(* One visit of the web client to one of the pages about entries: the day     *)
(* form, the rows of a day, the approvals queue, the export form, or the list.*)
(* The pages share no state while one is mounted, so a visit is a behaviour   *)
(* of one of them.                                                            *)
EXTENDS Naturals, FiniteSets

CONSTANTS
    Activities, Kids, Unit, Days, Today, None, MaxMounts, MaxOpenings, MaxRequests, MaxFailures,
    Texts, MaxWrites, MaxVersion,
    TimeRows, ExpenseRows, Roles,
    Dates, MaxDays, MaxDownloads,
    Items, PageSize

ASSUME BoundsAssumption ==
    {MaxMounts, MaxOpenings, MaxRequests, MaxFailures, MaxWrites, MaxVersion} \subseteq Nat
ASSUME TodayAssumption == Today \in Days
ASSUME ItemsAssumption ==
    IsFiniteSet(Items) /\ (\A e \in Items : e.date \in Nat) /\ PageSize \in Nat \ {0}

VARIABLES
    mounted,    \* the page visited
    day, form, cached, kids, kid, lookups, loading, sending, stored, told,
    kind, row, shown, fetch, writes, sent, heard, failed, dialog, edits,
    viewer, groups, tab, online, queries, table, decisions, panel,
    range, jobs, busy,
    page, url, pager, items

Form == INSTANCE EntryForm
Rows == INSTANCE EntryRows
Queue == INSTANCE ApprovalQueue
Export == INSTANCE ExportForm
List == INSTANCE EntryList

formVars == <<day, form, cached, kids, kid, lookups, loading, sending, stored, told>>
rowVars == <<kind, row, shown, fetch, writes, sent, heard, failed, dialog, edits>>
queueVars == <<viewer, groups, tab, online, queries, table, decisions, panel>>
exportVars == <<range, jobs, busy>>
listVars == <<page, url, pager, items>>
vars == <<mounted, formVars, rowVars, queueVars, exportVars, listVars>>

Pages == {"form", "rows", "queue", "export", "list"}

(* The pages not visited are in one of their initial states and stay there.  *)
Init ==
    /\ mounted \in Pages
    /\ Form!Init
    /\ Rows!Init
    /\ mounted # "rows" => kind = "time" /\ row.status = "draft"
                             /\ row.text = CHOOSE t \in Texts : TRUE
    /\ Queue!Init
    /\ mounted # "queue" => /\ viewer = [role |-> CHOOSE r \in Roles : TRUE, leads |-> FALSE]
                            /\ tab = "none"
                            /\ \A r \in TimeRows \cup ExpenseRows : table[r] = "submitted"
    /\ Export!Init
    /\ mounted # "export" => range = [from |-> 0, to |-> 0]
    /\ List!Init
    /\ mounted # "list" => items = {}

FormStep ==
    /\ mounted = "form" /\ Form!Next
    /\ UNCHANGED <<mounted, rowVars, queueVars, exportVars, listVars>>
RowsStep ==
    /\ mounted = "rows" /\ Rows!Next
    /\ UNCHANGED <<mounted, formVars, queueVars, exportVars, listVars>>
QueueStep ==
    /\ mounted = "queue" /\ Queue!Next
    /\ UNCHANGED <<mounted, formVars, rowVars, exportVars, listVars>>
ExportStep ==
    /\ mounted = "export" /\ Export!Next
    /\ UNCHANGED <<mounted, formVars, rowVars, queueVars, listVars>>
ListStep ==
    /\ mounted = "list" /\ List!Next
    /\ UNCHANGED <<mounted, formVars, rowVars, queueVars, exportVars>>

Next == FormStep \/ RowsStep \/ QueueStep \/ ExportStep \/ ListStep

(* What the day form assumes of the network: while another page is visited   *)
(* none of its requests waits, so it asks nothing.                           *)
Fairness == Form!Fairness

Spec == Init /\ [][Next]_vars /\ Fairness

-----------------------------------------------------------------------------
(* Every page has its type, visited or not.                                  *)
TypeOK ==
    /\ mounted \in Pages
    /\ Form!TypeOK /\ Rows!TypeOK /\ Queue!TypeOK /\ Export!TypeOK /\ List!TypeOK

(* A form is worth one entry, and one more for every failure its user was    *)
(* told of; and of what one mount stored, all but one has been answered.     *)
(* Double clicks, edits while the save is pending, cancelling and opening    *)
(* the form again store nothing behind the user's back (entry-detail.tsx).   *)
StoredOncePerReport == Form!StoredOncePerReport

(* Neither spinner of the day form turns for ever (entry-detail.tsx).        *)
SpinnersStop == Form!SpinnersStop

(* "No working group found for this activity" is shown only for an activity  *)
(* that has none (entry-detail.tsx).                                         *)
NoticeTruthful == Form!NoticeTruthful

(* Once the last list request has landed, the day shows at least what every  *)
(* acknowledged mutation of this user left at the server.                    *)
OwnWritesShown == Rows!OwnWritesShown

(* "Queue is clear" is never the face of a list that failed or is on its     *)
(* way: each list is there, or the browser is offline and the list waits for *)
(* the network, which the page does not tell from an empty one               *)
(* (approvals-page.tsx).                                                     *)
ClearMeansLoaded == Queue!ClearMeansLoaded

(* The table never shows an empty page while there are rows, nor a row twice.*)
PageNeverEmpty == List!PageNeverEmpty
=============================================================================
