# Hourglass: a formal model of its approvals, tickets, plan, coverage and pages

Hourglass is a time, expense and contract tracker: a Go API server
(`cmd/`, `internal/`, `pkg/`) over PostgreSQL, and a React client (`web/`).
This directory holds TLA+ modules that model the parts of the server in which
requests meet on shared rows and of the client's pages, in which answers cross
what the user does, TLC configurations that check them on small instances, and
theorems about them that TLAPS proves for every instance.

The server keeps no state of its own between requests: all of it is in the
database. Every HTTP request runs a handler that calls a service, which calls
repositories, and each repository call is either one statement on the pool or a
transaction of several, at READ COMMITTED. So the concurrency of the system is
the interleaving of statements and transactions of requests in flight, and its
failures are requests that end half-way: the request's context is cancelled
when the client goes away, a statement fails, or the process stops. There are no
queues, timers or background workers in the core.

The client keeps a cache of queries (TanStack Query). A page reads it, sends
mutations, and invalidates queries when a mutation is answered; requests are
never retried (`lib/query-client.ts`), most are never cancelled, and their
answers land in any order, after dialogs were closed, reopened or replaced by
others, and while other users change the same records. That is where the
client's concurrency is; its failures are refused, lost or late answers.

## 1. Inventory

| Component | State | Operations | Interacts with |
|---|---|---|---|
| Time entries (`services/time_entry`) | `time_entries`, `time_entry_approvals` | create, update, delete, submit, approve, reject | routing (who approves), tickets (is the activity's ticket dismissed), coverage (approved entries are covered) |
| Expenses (`services/expense`) | `expenses`, `expense_approvals` | the same, and the receipt | routing |
| Approval routing (`services/routing`) | none: reads working groups, units, activities | ResolveManagerStage | called at submission and again at approval |
| Tickets (`services/ticket`) | `tickets`, events in `audit_logs` (not modelled) | create, transition, dismiss, triage, comment | activities (locks them, inserts them at triage), time entries (sums their hours) |
| Activities (`services/activity`) | `activities` | create with an origin, update, re-parent, propose, approve, archive | tickets (origin), contracts, entries |
| Direction, the plan plane (`services/direction`) | `direction` | create, activate, cancel, supersede, claim, unclaim | working groups, activities |
| Coverage (`services/coverage`) | `coverage_allocations`, period closes and their snapshot rows | replace the set of an entry, close a period | approved time entries |
| Units (`services/unit`) | `units`, unit members | create, update, re-parent, delete | routing |
| Working groups | `working_groups`, members, delegates | create, update, members | routing, direction |
| Authentication | `refresh_tokens` in families, `users` | login, refresh, logout, bootstrap | password reset, memberships |
| Password reset, invitations | codes and tokens with an expiry | request, verify; create, accept | authentication, memberships |
| Organizations, settings, contracts, customers | a table each | create, read, update | everything, as references |
| Export | none | read-only reports | all tables |
| Middleware, rate limiter | a window of request times per client, in memory | admit | every request |
| Migrations, wiring | `schema_migrations` | apply at start | the database |
| Web: time-entry and expense pages | the form, spinners, inline edits, filters in the URL, the list query | add, edit, submit, delete; filter, page | the API |
| Web: approvals page | the two pending queries, the row being decided | approve, reject | the API, `approval_role` |
| Web: export form | the range, the busy flag, an abort timer | count, download | the API |
| Web: tickets page | the URL, drafts of notes and comments, the plan of a triage, the list query | move, drag, dismiss, triage, comment, raise | the board, the API |
| Web: drag and drop board | the item dragged, the board previewed | drag over, release, cancel | the page that owns the board |
| Web: organization chart | the cached tree, the sheet, three dialogs | create, edit, move, delete, members | the API |
| Web: customers, groups, contracts, activities pages | the list and detail queries, dialogs and their fields | create, edit, delete, adopt, recalculate, members | the API |
| Web: sessions, today page, layout | a cookie and one refresh in flight | sign in, refresh | the API |
| Verification scripts | none | read the repository, print | - |

What is hard about each, and what makes it correct:

* **Time entries and expenses.** Handlers read a row, decide, and write the
  whole row back by id in a separate statement, without a transaction. A row may
  have changed in between; the request may end between the write and the
  approval record; the routing may change between submission and approval.
  Correct: an approved entry shows exactly what a manager stage and a finance
  user reviewed; approved rows never change; every approval has its record;
  whoever an entry waits for exists. Expenses have a writer more: the
  recalculation of the mileage sets amounts at any status.
* **Tickets.** The service checks on a read from the pool, the repository checks
  again under locks. Correct: a ticket moves along the matrix only; its plan is
  inserted once; the guards on resolution and dismissal mean what they say
  although entries are created, moved and submitted all the time, and activities
  are created below others, moved and deleted.
* **Activities.** An activity's ticket is checked before, and the activity
  inserted later; re-parenting walks the ancestors before it writes; the lock on
  the activities of a ticket takes those its statement found when it began.
  Correct: activities form a forest, link only to tickets open for work, and what
  a ticket's transaction has locked gets no new entries until it ends.
* **Direction.** Rows are append-only and superseded, not edited; members claim
  hours of a working-group row concurrently. Correct: the supersede chain never
  forks, rows are never rewritten, claims land on active rows and fit the budget.
* **Coverage.** Sets are replaced as a whole; a close takes a snapshot of a
  period while replacements run. Correct: a covered entry is covered exactly, by
  one set; periods never overlap; no hour is reported twice; the snapshot is the
  ledger at its commit.
* **Units.** Re-parenting stores all descendants one by one, and a change of name
  stores the parent it read. Correct: levels agree with the parents, no cycles,
  whatever fails or races.
* **Authentication.** A refresh token is used once; a reused one revokes its
  family. Correct: a family has at most one live token, a revoked family stays
  revoked, one bootstrap only, one acceptance of an invitation.
* **Contracts.** A deletion checks for links and deletes in two statements.
  Correct: a contract that work is recorded under is never gone.
* **Migrations.** Each is applied once, also with two processes starting.
* **Entry pages.** Requests are sent by effects and never cancelled. Correct: an
  entry is stored once for each attempt not reported failed; spinners stop; the
  day shows what the user was told was saved; an error never looks like an empty
  queue.
* **Desk pages.** A dialog outlives the record it was opened for, and the answer
  to a mutation finds another dialog open. Correct: what was typed or seeded for
  one record is sent to that record; a settled list shows what was acknowledged;
  the board hands its owner what it shows.

`PROJECT.json` lists each hazard at its line with the properties that would
catch it.

## 2. Modules

```
EntryLifecycle  <--refines--  ApprovalChain   (the handlers, shared)
                                |        |
                          TimeEntries  Expenses
                                |
                                | INSTANCE (the statements of the entry handlers)
                                v
      Tickets  --INSTANCE-->  TicketGuard  (tickets + activities + entries)

      Direction                 Coverage

      EntryForm  EntryRows  ApprovalQueue  ExportForm  EntryList
            \________\___________|___________/_________/
                              EntryPages

      Units <- OrgChart    QueryCache <- CustomerDesk, GroupDesk, TicketDesk, ...
                    |          |
                  DeskPages (and KanbanBoard)
```

| Module | Models |
|---|---|
| `EntryLifecycle` | the documented lifecycle of an entry, each move atomic (the abstract specification) |
| `ApprovalChain` | the handlers that time entries and expenses share, a statement an action |
| `TimeEntries` | the chain with the dismissed-ticket check of a submission |
| `Expenses` | the chain with the receipt writer and the recalculation of the mileage |
| `Tickets` | the ticket lifecycle, its guards, locks and plans, over any work under it |
| `TicketGuard` | tickets, the activities created for them or below others, moved and deleted, and the time entries booked on those, together |
| `Direction` | the rows of the plan under their row locks |
| `Coverage` | allocation sets and period closes under the row and advisory locks |
| `EntryForm` | the form that adds a time entry, its two lookup effects, the answers |
| `EntryRows` | a row of the day: inline edits, submit, receipt, delete, refetches, a reviewer elsewhere |
| `ApprovalQueue` | the approvals page: stages, two queries, decisions, other approvers |
| `ExportForm` | the export form and its abort timer |
| `EntryList` | filters, sorting, pages and calendar of the lists |
| `EntryPages` | a visit to one of the five |
| `QueryCache` | what a page sees of one query of the cache |
| `TicketDesk` | the tickets page over the server's tickets |
| `KanbanBoard` | the drag and drop component |
| `Units` | the unit service and its repository, a statement an action |
| `OrgChart` | the organization page over `Units` |
| `CustomerDesk`, `GroupDesk`, `ContractDesk`, `ActivityDesk` | a page each, over its service |
| `DeskPages` | a visit to one of the seven |
| `MC*` | small instances for TLC |
| `*Proofs` | the theorems and their proofs |

Correspondence, module by module:

**ApprovalChain.** `table` is the entry table, a record a row (`Absent` where
the id is free); `req` holds the requests in flight, each with its copy of the
row and the statement it is at (`ticket` check, `route` resolution, `write`,
`record`). `XRead` actions are `GetByID` with the checks that follow;
`SubmitRoute`/`ApproveRoute` are `ResolveManagerStage`; `Write` is the
repository's `UPDATE ... WHERE id = $1` of every column (`Stored` says which
columns the statement leaves alone); `Record` is `CreateApproval`; `Abort` ends
a request anywhere. `route` stands for what the working groups and units answer
now, and `Reroute` changes it at any time. `approvals` are the approval rows.
`cleared` is a history variable: for each stage write, what content it
reviewed; no action reads it. Drafts can be soft-deleted, and, as in the code,
a deleted draft can still be read and submitted by id.

**TimeEntries / Expenses.** The two services have separate code with the same
control flow; `Expenses` names its own handlers and its own lines.
`TimeEntries` adds `dismissed`, the activities under a dismissed ticket: any set,
at any time (`DismissedBecomes`), since tickets are dismissed and activities are
moved and deleted. `Expenses` adds `SetReceiptURL`, a copy taken at any status and
written back later, and `RecalculateMileage`, one UPDATE of amounts at any status,
`approved` included. It reviews nothing, so the module says what an approved
expense may show after it: `CarriedOver` extends `cleared` by the booking that was
passed, with the new amount. That is what `ReviewedOrRecalculated` means by
recalculated; what it rules out is an amount of a third kind, brought back by a
copy taken before.

**Tickets.** A handler goes through three stages: the service's checks on a read
from the pool (`XBegin`), the row lock with the edge checked again (`Lock`), the
checks on the work (`Check`), then the writes (`Commit`). `plans` is a history
variable: how many plans a triage has inserted for the ticket. The work under a
ticket changes freely here; `TicketGuard` gives it its real content. The audit rows
are left out: the service stamps them before the lock and the history is sorted by
that stamp (`ticket.go:244`, `ticket_repository.go:694`), so their order is not that
of the commits.

**TicketGuard.** Instantiates `Tickets` with the entries of `ApprovalChain` as
its work, and takes the statements of `TimeEntries`. `link` is the ticket an
activity was created for, `parent` the activity it is part of; the subtree of a
ticket is what the recursive queries reach from its linked activities. Activities
are created without a ticket, below another or not (`CreatePlain`), for a ticket in
two statements (`LinkBegin`, `LinkInsert`), by a triage with its status
(`TicketCommit`), moved in two statements (`MoveBegin` walks the ancestry,
`MoveWrite` writes) and deleted. `held` is what the `SELECT ... FOR UPDATE` of a
resolution or a dismissal found when it began; it holds them as `Locked` once it has
ended (`checked`), and other requests run in between. A lock keeps out what needs
the row: changes of it, and entries or activities that begin to refer to it
(`CanRefer`, the foreign key), not updates that leave the reference alone, and so
not submissions. One `PUT /activities` is in flight at a time: two can make a cycle,
as two re-parents of units do.

**Direction.** A transaction locks a row and checks under the lock (`LockX`),
then writes and commits. Budgets are summed in `Claimed`.

**Coverage.** A replacement locks the entry, checks that it is approved and that
the set sums to the hours (in cents), and deletes the old set (`ReplaceLock`);
the inserts and the commit follow (`ReplaceCommit`). `seen` is what the DELETE
saw, so without the lock two replacements would mix. A close takes the
organization's advisory lock, checks the overlap and starts its `SELECT ... FOR
UPDATE` (`CloseSelect`), takes the rows one by one (`CloseLock`), copies the
allocations (`CloseFreeze`) and commits (`CloseCommit`). The module assumes of
time entries that an approved one does not change. That is what
`time_entries_serial` checks of requests that do not overlap; the lost update
(finding 1) breaks it, and with it the exactness of the ledger.

**EntryForm.** `form` is `isCreating` and `newEntry`, `lookups` the requests of
the two effects, tagged with what they were asked for; an answer fills the form
whatever is selected by then, as the code does. The tab is left and entered again
(`Leave`, a new `mount`), the form cancelled and opened again (a new `opening`); a
post carries the mount, the opening and the try it was sent from, and goes on
whatever becomes of the form. `stored` is what the server holds: a post is stored
(`Stores`) before it is answered (`Created`), and may fail before or after
(`CreateFails`). `cached` is the list of the day that the page reads to choose
between the list and the form; it follows the server at `ListArrives`. `told` are
the failures reported.

**EntryRows, ApprovalQueue, ExportForm, EntryList.** A mutation is `Send`, then
the server, then its answer; `Invalidate` is the `onSuccess` of the mutation. The
server of `EntryRows` keeps the service's rules: drafts, submitted and rejected rows
are edited, only drafts deleted, a submission goes to `submitted` or, where the
manager stage is skipped, to `pending_finance`, and a review passes both stages.
`ApprovalQueue` has the two pending queries and the decision row by row; the browser
goes offline and comes back, which pauses requests, and an invalidation keeps a
first request in flight (`Refetched`). The abort timer of `ExportForm` covers the
wait for the headers of a download; nothing ends the wait for its body, or for the
count before it. `EntryList` computes its rows as the page does, from the URL.

**QueryCache.** A query is `[has, data, error, at, reply, late]`: a request reads
the server at one moment (`ReadBy`) and lands at another (`Landed`). Invalidating a
query that has data drops the request in flight and starts another (`Asked`); one
that has none yet keeps its first request (`Refetched`), and `late` remembers that
its answer may be older than the invalidation, though the page takes it as fresh.
It is external code, modelled by its use.

**TicketDesk.** The URL (`trail`, `here`) is state, since the page keeps its
filters and the open ticket there and the browser goes back and forth. `Rerender`
is the effect that clears the drafts when the ticket changes; every `send`
remembers for which ticket it was typed. There is one query: a filter changed back
starts from nothing here, where the cache may still hold the earlier answer.

**KanbanBoard.** `value` is the board as shown, `origin` as it was when the drag
started; `Targets` is the answer of collision detection. An owner either applies
moves itself (`onMove`, as the tickets page does), or hears of the final board.

**Units, OrgChart.** `calls` holds the updates in flight, a record each
(`Update`). A re-parent reads the unit (`ReparentReads`), checks the new parent
against the descendants (`ReparentChecks`; a move to the root is checked against
nothing), lists what lies below (`CascadeReads`) and stores it row by row, going on
below each (`CascadeWrites`), and stores the unit (`UnitWrites`); each is a
statement, and `UpdateFails` ends it anywhere. Storing a unit writes the parent it
was read with, a change of name too, and never the level; an empty parent is not
written, so that a move to the root changes nothing. `overlapped` is a history
variable: has a re-parent run beside another update? The chart draws `tree`, a
cached one; a sheet covers the chart, and the dialogs cover both.

**CustomerDesk, GroupDesk, ContractDesk, ActivityDesk.** The service is one
action where it writes one statement (`Serve`), and two where a check precedes
it (`DeleteChecks`, `DeleteWrites`; `RecalculateReads`, `RecalculateWrites`). A
customer that is "deleted" stays listed, inactive. `watched` in `ActivityDesk`
says that the component that sent the mutation is still mounted: the callbacks
given to `mutate` run only then.

Common abstractions: authorization by organization and role is modelled where a
property depends on it (who may approve) and left out elsewhere; ids, names,
dates and texts are model values; validation that only rejects malformed input
is left out.

## 3. Runs

All bounds are in the `.cfg` files. Symmetry is over requests, rows or sources
that no definition tells apart. Only `web_entries` assumes fairness, for
`SpinnersStop`: that the network answers or fails (a browser's request does not
hang for ever), and nothing of the user. The export form claims no liveness, since
nothing in the code ends the waits its timer does not cover. The server's runs
claim none either: an entry may wait for its approver for ever, and nothing in the
code retries or schedules.

| Run | Checks | Bounds, and why they are enough |
|---|---|---|
| `time_entries_concurrent` | `ReviewedContent`: however two requests interleave and die, an approved entry shows what was reviewed at both stages | one entry, two amounts, two requests, three roles, routing to the manager or to the owner: a stale write needs two requests and two contents. The view leaves out the approval records, which no action reads |
| `time_entries_serial` | `LifecycleSpec` (the chain implements `EntryLifecycle`), `ApprovedImmutable`, `TrailComplete` | one request at a time that does not die, every user may own entries, all four routings |
| `expenses_concurrent` | `ReviewedOrRecalculated`: the same with the receipt writer and the recalculation of the mileage | as above, with amounts recalculated at any time. 461,441 states |
| `tickets` | `OnlyMatrixMoves`, `PlannedOnce` | one ticket (tickets share nothing), three handlers: two that race and one between |
| `ticket_guard` | `NothingArrives` (what a ticket transaction has locked gets no new entries until it ends), `NoDraftBehindLocks` (no draft there while a resolution holds it) | one ticket; an activity that was there before and two that can be created for the ticket, below one another or elsewhere, moved and deleted: the shortest chain in which a locked activity has a child that is not locked; one entry request that may die, one handler and one PUT in flight: each of the three others can come between two statements of one. 925,386 states |
| `direction` | `ChainLinear`, `FirstClaimsFit`, `ClaimsKeepOrigin`, `PlanAppendOnly`, `ClaimsLandOnActive` | three rows (a working-group row, two that race for it; or a chain of three), two transactions, budgets of one or two hours. Deadlock is off: the bounded set of ids runs out |
| `coverage` | `CoveredExactly`, `ClosesDisjoint`, `ReportedOnce`, `FrozenAtCommit` | two entries, two transactions, two sources, two cents, three days: two periods that touch, nest or leave a gap |
| `web_entries` | `StoredOncePerReport`, `OwnWritesShown`, `ClearMeansLoaded`, `PageNeverEmpty`, `SpinnersStop` | two activities, one with a child; two lookups of a kind in flight, so that an answer is late; the tab left and entered once, the form opened twice, one failure reported, so that a post of an earlier opening or mount is still under way; two writes of a row and three changes at the server, so that a submission and both stages of its review fit; one row pending, the browser offline or not; two days, two downloads; pages of one row, so that three items make three pages. 641,524 states |
| `web_desk` | `DraftsStayWithTicket`, `CommittedIsShown`, `EachCardOnce`, `Acyclic`, `FieldsBelong`, `AcknowledgedShown`, `LinkedContractStays` | two tickets, one raised during the visit; a trail of two pages; two requests in flight, so that answers cross; two columns and three items, one of them disabled or not; three units, one created during the visit, and a cache that may be older than the server; two connections that update units, followed until a re-parent runs beside another update, after which `Acyclic` promises nothing; while updates are in progress the page itself asks for no more, since other administrators ask for the same; two customers, two groups, two rates, two changes at the server. 1,270,409 states |
| `time_entries_lost_update` | finding 1 | two requests |
| `ticket_late_submit` | finding 2 | one entry, one ticket |
| `direction_supersede` | finding 3 | three rows, one transaction at a time |

Every property of a passing run comes with a defect operator beside the
definition it stands for (`NoLock`, `StoredStatusOnly`, `OverlapsBefore`, ...):
put in its place it breaks the property, which shows that the instance reaches
the case the property is about.

### Findings

1. An edit that read an entry before its approval writes its copy back after
   it, so an approved entry changes (`CONTEXT.md:12` calls facts immutable
   after approval). `ReviewedContent` still holds: the row it leaves is back in
   an earlier status, and must be reviewed again.
2. A submission checks its ticket and writes later; a dismissal in between is
   not seen.
3. A claim that is superseded by a larger one exceeds the budget of its
   working-group row: the sum guard is in Claim only.

### Statements the models refute, without a run

Each is a definition of a module, or one without the exception it states; true of the
design and false of the code.

* `ApprovalChain.EveryPendingEntryHasAnApprover`: an entry routed to a
  working-group lead whose organization role is employee can be approved by
  nobody (`time_entry.go:193`).
* `Tickets.InFlightBlocksDismissal`: the dismissal guard counts submitted and
  approved hours and forgets those that wait for finance
  (`ticket_repository.go:774`).
* `TicketDesk.PlansStayWithTicket`: the triage panel is not remounted when the
  browser's history changes the ticket, so the plan typed for one ticket is sent
  for another (`triage-panel.tsx:50`).
* `TicketGuard.NoDraftWhenResolved`: the statement that locks the activities of a
  ticket locks those it found when it began (`ticket_repository.go:320-326`). An
  activity created below one of them while it waits is checked and not locked, and
  an entry can be booked there before the resolution commits. What holds is
  `NothingArrives`, on what the locks protect.
* `Units.LevelsAreDepths`: the cascade calls `Update`, which does not write the
  level, so the levels of a moved subtree stay as they were
  (`unit_repository.go:93`).
* `Units.Acyclic` without `overlapped`: two re-parents that walk before either
  writes make a cycle. So does a re-parent beside a change of name, which writes back
  the parent it read: a unit read under P, moved away, P moved under the unit, and
  the name stored with parent P (`unit.go:55-103`, `unit_repository.go:113-121`).
* `EntryForm.OneUnanswered`: the guard against saving twice is the state of a
  component; who leaves the tab during a save and returns can save again while the
  first is under way, and both are stored (`entry-detail.tsx:137`).
* `ApprovalQueue.ClearOffline`: offline, the requests are paused, which the page does
  not count as loading, and it calls the queue clear with nothing loaded
  (`approvals-page.tsx:130-132`, `274`).
* `CustomerDesk` and `TicketDesk`, `AcknowledgedShown` for every query: after the
  search or the filter changes, the first request of the new key has no data; a
  mutation acknowledged meanwhile does not drop it, and what it read before lands
  after as fresh (`customers-page.tsx:41`, `tickets-page.tsx:54`). The property
  excepts that case by name (`late`).
* `EntryForm.NoticeTruthful`: a late answer for an earlier activity leaves "No
  working group found" under one that has a group (`entry-detail.tsx:104`).
* `ApprovalQueue.QueuedRowsDecidable`: the queue is shown to working-group leads
  too, the buttons go by the organization role alone: a lead whose role is
  employee sees rows without a button (`approval-buttons.tsx:31`).

Seen while modelling, without a run of their own: a request that ends between
`Update` and `CreateApproval` leaves an approval without its record (`TrailComplete`
fails as soon as `Aborts` is TRUE); `SetReceiptURL` changes approved expenses, and
its copy, written late, undoes a review or a recalculation; the recalculation
changes the amount of approved expenses (`contract_repository.go:259`), which then
show what nobody reviewed; a submission of an existing draft commits between the
guard and the commit of a dismissal, whatever the activity locks; the events of a
ticket are stamped before its lock and sorted by the stamp (`ticket.go:244`,
`ticket_repository.go:694`), so that after a race the newest one may name a status
the ticket has left; an activity can be inserted for a ticket that is no longer
open; a close leaves out entries
approved after it, and their period cannot be closed again.

Seen in the client: the success callbacks of contracts and units take their
client from the third argument, which holds none, so every success is reported
as a failure and nothing is refreshed (`api/contracts.ts:46`, `api/units.ts:69`);
receipts are uploaded with the content type of JSON and refused; the URL of an
export has the API prefix twice, and the key of its count omits project and user;
form dialogs that stay mounted seed their fields once (the unit form, the edit
dialog of an activity, which sends all of its fields and so undoes what others
changed since); clearing the dates or the category of a list changes nothing,
since an absent value keeps the old one, and the calendar drops the filters; "Submit Expense" saves a draft; the decision
buttons of the day view cannot be reached; drops on the ticket board ignore a
request under way; the answer to a deletion closes whichever delete dialog is
open by then, and sends the user to the list from wherever they are; "Delete
customer" says that it cannot be undone and deactivates; the toggle of a contract
writes back the cached fields over those just saved; the today page hides its
failures.

## 4. Proofs

Every theorem is an inductive invariant, one lemma for each action (or for each
group of actions that writes the same state), and `PTL` for the temporal step.
All hold for any sets of users, entries, tickets, requests and so on. What they
assume of the constants is named where the constants are declared, and TLC
evaluates it on every run: days, hours and bounds are naturals; a NULL reference
and the closed state of a form are no ids; the roles and routings are those of
the code; the sets of units and list items are finite; the board is given every
column and card once, and the units at the start lie a level below their parent.
Some theorems have a hypothesis of their own, which is part of the claim:

* `TrailAlwaysComplete`: no request dies half-way (`~Aborts`); one that does leaves
  an approval without its record.
* `ApprovedStays`, `ServiceImplementsLifecycle`, `ResolvesWithoutDrafts`: the
  requests on entries come one at a time (`OneAtATime`: there is one). With two the
  first fails as `time_entries_lost_update` shows, and with it the other two: a stale
  edit takes an entry back to an earlier status. Any number of ticket handlers,
  activities created and deleted, and the move still race with that one request.

Three properties name their own exception, which the theorems keep: `Acyclic` holds
until a re-parent has run beside another update (`overlapped`), for any number of
callers; `AcknowledgedShown` is about queries that no invalidation met during their
first request (`late`); `ClearMeansLoaded` admits a browser that is offline.

The server:

* **ApprovalChainProofs, TimeEntriesProofs.** `ReviewedContent` is not inductive: a
  request in flight holds a copy it will write later. `ChainInv` adds, for each
  request in flight (`FlightOK`), that the owner in its copy is the owner of the
  row, and that the copy is in an early status unless the request is an approval
  by the right role, a submission by the owner, or a receipt upload whose copy was
  reviewed when it was read. Because a full-row write always carries the content
  with the status, no interleaving pairs one request's status with another's
  content; the defect `StoredStatusOnly` shows the argument failing. The lemmas are
  proved once for the chain; the expense service's theorems stand at the end of
  `ApprovalChainProofs` (a recalculation keeps what was passed of the booking, and a
  copy carries a content that `cleared` still has), the time entries' in `TimeEntriesProofs`. There,
  `TrailAlwaysComplete` follows each cleared content to its record or to the request
  that is about to insert it, and with one request at a time the copy in flight is
  the row (`Current`), from which `ApprovedStays` and the refinement of
  `EntryLifecycle` follow: the write is the step of the lifecycle, every other
  statement a stutter.
* **TicketsProofs.** Typing, `PlannedAtMostOnce` and `MatrixHolds` for any number of
  racing handlers: a locked handler's edge is in the matrix *from the status the
  row has*, since the lock is exclusive; and a plan is counted only once the ticket
  has left the statuses before it, to which no edge leads back.
* **TicketGuardProofs.** The composition, using the two component proofs through
  `INSTANCE`: each step of tickets and activities is, for the entries, a step of
  `TimeEntries` that may change `dismissed` to any set. `LocksKeepEntriesOut` proves
  `NothingArrives` with no hypothesis: an entry that begins to refer to an activity
  needs its row, and so does an activity that begins to be below it or is moved, so
  the set reached from the linked activities through locked ones does not grow (the
  recursive query is the least closed set, and the old one is still closed).
  `ResolvesWithoutDrafts` follows with one writer of entries: a new entry cannot
  arrive there, and one that is there and past the draft does not come back to it.
* **DirectionProofs.** Typing, the linear chain, the origin of claims, append-only
  rows and claims on active rows: locks are exclusive per row, and what a
  transaction checked under its lock is still true of the row.
  `FirstClaimsAlwaysFit` adds the room a claim found (`ClaimRoom`): from its sum to
  its insert the locked row gets no other first claim, and what supersedes a claim
  is none. That only finitely many rows are ever there is part of the invariant.
* **CoverageProofs.** Typing, `CoveredExactly`, `ClosesDisjoint`, `ReportedOnce`,
  `FrozenAtCommit`: a row has one holder, an organization one close; what a
  replacement deleted is still all there is; the entries a close has found are in
  its period and, held, their ledger does not move.

The client. A visit stays on one page, so each page has its own invariant, and the
theorems at the end of the two modules put them together:

* **EntryPagesProofs.** The form, for any number of mounts and openings: the copies
  stored for one opening carry different tries, an opening has one try more than
  failures told of it, and a mount sends one post at a time (`Copies`); what an
  earlier mount sent is counted with its opening. The rows, under the service's
  rules for edits, deletions and the two stages: a settled list is not enough for
  the induction; `Ahead` adds that the server is as new as every answer under way and
  that a list read and not yet landed is as new as what was acknowledged, since an
  acknowledgement drops the request in flight (the defect `InvalidateIfIdle` keeps
  it, and breaks exactly that). The queue: a query of an approver that has neither
  data nor error is loading, or paused in a browser that is offline (`Settled`). The list: the page index is clamped to the pages there
  are, and a page of a sequence without repetition has none; this rests on
  counting lemmas about sorted finite sets.
* **DeskPagesProofs.** Customers, groups, tickets and activities: `Current`, the same
  argument as for the rows over a query of `QueryCache` that is not `late`. Customers and groups: the
  fields are those of the record the form is open for. Tickets: a note or a remark
  is of the ticket of the URL or empty, because the effect empties them whenever
  that changes. Contracts: the deletion's second statement still finds no link.
  The board: between the start and the end of a drag the previewed board differs
  from the committed one in the place of the dragged item only (`SameBut`), so
  that giving it back its place gives back the board; moves keep every column
  and card exactly once (`Orderly`). The chart: the units have ranks that decrease
  towards the root (`Ranked`), and, until a re-parent has run beside another update,
  a re-parent that has passed its check has a set closed under children that
  contains the unit and not its new parent (`Parts`), while whatever else a call is
  about to store is the parent the row still has (`CallHolds`); the recursive query of the descendants is the least such set.

The lemmas about data by induction (the sum of hours in `DirectionProofs`, the
generations of the recursive query and the counting lemmas in the page proofs)
are by induction over a *set* of naturals: a non-empty set of naturals has a
least element (`LeastNat`, from the well-foundedness of `<`), so one that holds 0
and every successor holds all. The library's induction theorems over an operator
are not needed.

Only model-checked: liveness under fairness (`SpinnersStop`), which the provers do
not reach, and the three runs that expect a violation, which are about a
counterexample. Every other property of a passing run is a theorem.

## 5. Plan

Done: the approval chain, tickets with their guards, direction, coverage, units,
and the client's entry pages and desk pages. Next, in this order:

1. **Identity.** Token families under concurrent rotation, reuse, logout and
   password reset (`refresh_token_repo.go:88`, `password_reset.go:183`), two tabs
   that refresh at once (`lib/api.ts:52`), the acceptance of an invitation and
   bootstrap. Properties: one live token per family, a revoked family stays
   revoked, one acceptance, one bootstrap.
2. **Activity hierarchy**: two `PUT /activities` at once, which make a cycle as two
   re-parents of units do (`activity.go:480`; `TicketGuard` has one in flight), and
   proposals.
3. **Routing** as a pure function over working groups and the unit tree, checked
   against a reference definition, and put in the place of `route`.
4. **Settled entries for coverage**: `Coverage` over `TimeEntries` itself.
5. The rate limiter's window and the migrations runner.
6. Proofs for what the items above add: the token families, the activity forest
   (with the argument of the chart, `Ranked`), and `CoveredExactly` over the time
   entries themselves.

### Not modelled

Organization settings (one upsert), export on the server (read-only), HTTP
parsing, cookies, formatting and mail (no state), the period lock of time entries
(`financial_cutoff_periods` has no writer in this repository). In the client: the
today page, the forms of sign-in and registration, the form that adds an expense,
the page of one customer, the sidebar, the charts and the component library but
for the board (presentation); the scripts that verify the documentation.

## 6. Running

```
tlc -workers 2 -config coverage.cfg MCCoverage.tla
tlc -workers 2 -config web_desk.cfg MCDeskPages.tla
tlapm CoverageProofs.tla
```
