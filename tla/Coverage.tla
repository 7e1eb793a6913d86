------------------------------- MODULE Coverage -------------------------------
(* The coverage ledger: how the hours of approved time entries are funded, and *)
(* the periods that are closed over them.  An allocation set is replaced as a   *)
(* whole, in a transaction that holds the entry's row; a close takes the        *)
(* organization's advisory lock, checks that its period is new, locks the       *)
(* period's entries, copies their allocations and commits.  Each statement that *)
(* waits for a lock, and each one whose reading the next ones build on, is an   *)
(* action.  The entries move as EntryLifecycle lets them: an approved entry     *)
(* stays as it is.                                                              *)
EXTENDS Naturals, FiniteSets, FiniteSetsExt

CONSTANTS
    Entries,    \* time entries of one organization
    Requests,   \* transactions in flight
    Sources,    \* contracts and units that can be drawn from
    MaxHours,   \* a bound on the hours of an entry, in cents
    Days        \* the calendar

ASSUME DaysAssumption == Days \subseteq Nat
ASSUME MaxHoursAssumption == MaxHours \in Nat \ {0}

VARIABLES
    entry,      \* Entries -> the row: hours, day, approved or on its way
    ledger,     \* Entries -> the allocation sets stored for it
    closes,     \* the period closes, with their snapshot rows
    req         \* Requests -> the transaction in flight there

vars == <<entry, ledger, closes, req>>

Rows == [hours : 1..MaxHours, day : Days, approved : BOOLEAN]

Absent == [approved |-> FALSE]

(* An allocation set: the hours drawn from each source.                         *)
Draws == [Sources -> 0..MaxHours]

Total(d) == MapThenSumSet(LAMBDA s : d[s], Sources)

SnapshotRows == [id : Entries, day : Days, draws : Draws]

Closes == [from : Days, to : Days, rows : SUBSET SnapshotRows]

Idle == [op |-> "idle"]

(* A replacement, with what its DELETE has seen.                                *)
Replacements == [op : {"replace"}, id : Entries, draws : Draws, seen : SUBSET Draws]

(* A close: the entries it has found, the ones it holds, and, once it holds     *)
(* them all, its copy of their allocations.                                     *)
Closings == [op : {"select", "close"}, from : Days, to : Days,
             entries : SUBSET Entries, held : SUBSET Entries,
             rows : SUBSET SnapshotRows]

TypeOK ==
    /\ entry \in [Entries -> Rows \cup {Absent}]
    /\ ledger \in [Entries -> SUBSET Draws]
    /\ closes \subseteq Closes
    /\ req \in [Requests -> Replacements \cup Closings \cup {Idle}]

Init ==
    /\ entry = [e \in Entries |-> Absent]
    /\ ledger = [e \in Entries |-> {}]
    /\ closes = {}
    /\ req = [r \in Requests |-> Idle]

-----------------------------------------------------------------------------
(* Time entries: created and edited on any day, then approved.                  *)

EditEntry(e, hours, day) ==
    /\ ~entry[e].approved
    /\ entry' = [entry EXCEPT ![e] = [hours |-> hours, day |-> day, approved |-> FALSE]]
    /\ UNCHANGED <<ledger, closes, req>>

ApproveEntry(e) ==
    /\ entry[e] # Absent /\ ~entry[e].approved
    /\ entry' = [entry EXCEPT ![e].approved = TRUE]
    /\ UNCHANGED <<ledger, closes, req>>

-----------------------------------------------------------------------------
(* The locks.                                                                   *)

Closing(r) == req[r].op \in {"select", "close"}

Holds(r, e) ==
    \/ req[r].op = "replace" /\ req[r].id = e
    \/ Closing(r) /\ e \in req[r].held

(* Defect: no row lock.                                                         *)
NeverLocked(e) == FALSE

EntryLocked(e) == \E r \in Requests : Holds(r, e)

(* Defect: closes do not wait for each other.                                   *)
NoSerialization == FALSE

(* pg_advisory_xact_lock, one per organization.                                 *)
CloseInFlight == \E r \in Requests : Closing(r)

-----------------------------------------------------------------------------
(* PUT /time-entries/{id}/allocations.                                          *)

(* The row lock, the check that the entry is approved, the sum in cents, and    *)
(* the DELETE of the set that is there.                                         *)
ReplaceLock(r, e, d) ==
    /\ req[r] = Idle
    /\ entry[e].approved /\ ~EntryLocked(e)
    /\ Total(d) = entry[e].hours
    /\ req' = [req EXCEPT ![r] =
                 [op |-> "replace", id |-> e, draws |-> d, seen |-> ledger[e]]]
    /\ UNCHANGED <<entry, ledger, closes>>

(* The INSERTs, and the commit.                                                 *)
ReplaceCommit(r) ==
    /\ req[r].op = "replace"
    /\ LET q == req[r]
       IN ledger' = [ledger EXCEPT ![q.id] = (@ \ q.seen) \cup {q.draws}]
    /\ req' = [req EXCEPT ![r] = Idle]
    /\ UNCHANGED <<entry, closes>>

-----------------------------------------------------------------------------
(* POST /coverage/close.                                                        *)

(* Defect: the last day of the other period counts as outside.                  *)
OverlapsBefore(c, from, to) == c.from <= to /\ from < c.to

Overlaps(c, from, to) == c.from <= to /\ from <= c.to

(* Defect: the session's time zone moves midnight to the day before.            *)
InShiftedPeriod(e, from, to) ==
    entry[e].approved /\ from < entry[e].day /\ entry[e].day <= to + 1

InPeriod(e, from, to) == entry[e].approved /\ from <= entry[e].day /\ entry[e].day <= to

(* The advisory lock, the overlap check, and the rows SELECT ... FOR UPDATE     *)
(* sees when it starts.                                                         *)
CloseSelect(r, from, to) ==
    /\ req[r] = Idle
    /\ from <= to
    /\ ~CloseInFlight
    /\ \A c \in closes : ~Overlaps(c, from, to)
    /\ req' = [req EXCEPT ![r] =
                 [op |-> "select", from |-> from, to |-> to, held |-> {}, rows |-> {},
                  entries |-> {e \in Entries : InPeriod(e, from, to)}]]
    /\ UNCHANGED <<entry, ledger, closes>>

(* It locks them one by one, waiting for the replacements that hold them; an    *)
(* approved entry stays in its period meanwhile.                                *)
CloseLock(r, e) ==
    /\ req[r].op = "select"
    /\ e \in req[r].entries \ req[r].held
    /\ ~EntryLocked(e)
    /\ req' = [req EXCEPT ![r].held = @ \cup {e}]
    /\ UNCHANGED <<entry, ledger, closes>>

(* Defect: the entry's day is shifted into the day before.                      *)
RowsOfShiftedDay(e) ==
    {[id |-> e, day |-> entry[e].day - 1, draws |-> d] : d \in ledger[e]}

RowsOf(e) == {[id |-> e, day |-> entry[e].day, draws |-> d] : d \in ledger[e]}

LedgerOf(E) == UNION {RowsOf(e) : e \in E}

(* With the rows in hand, their allocations are read and copied.                *)
CloseFreeze(r) ==
    /\ req[r].op = "select"
    /\ req[r].held = req[r].entries
    /\ req' = [req EXCEPT ![r].op = "close", ![r].rows = LedgerOf(req[r].entries)]
    /\ UNCHANGED <<entry, ledger, closes>>

CloseCommit(r) ==
    /\ req[r].op = "close"
    /\ closes' = closes \cup
         {[from |-> req[r].from, to |-> req[r].to, rows |-> req[r].rows]}
    /\ req' = [req EXCEPT ![r] = Idle]
    /\ UNCHANGED <<entry, ledger>>

(* Any statement can fail, and the client can go away.                          *)
Rollback(r) ==
    /\ req[r] # Idle
    /\ req' = [req EXCEPT ![r] = Idle]
    /\ UNCHANGED <<entry, ledger, closes>>

-----------------------------------------------------------------------------
Next ==
    \/ \E e \in Entries :
          \/ \E hours \in 1..MaxHours, day \in Days : EditEntry(e, hours, day)
          \/ ApproveEntry(e)
          \/ \E r \in Requests, d \in Draws : ReplaceLock(r, e, d)
    \/ \E r \in Requests, from, to \in Days : CloseSelect(r, from, to)
    \/ \E r \in Requests :
          \/ ReplaceCommit(r)
          \/ \E e \in Entries : CloseLock(r, e)
          \/ CloseFreeze(r) \/ CloseCommit(r)
          \/ Rollback(r)

Spec == Init /\ [][Next]_vars

-----------------------------------------------------------------------------
(* What covers an entry is one set that was sent as a whole and sums to its     *)
(* hours, never a mix of two, and only approved entries are covered.            *)
CoveredExactly ==
    \A e \in Entries : ledger[e] # {} =>
        /\ entry[e].approved
        /\ \E d \in Draws : ledger[e] = {d} /\ Total(d) = entry[e].hours

(* Closed periods never share a day.                                            *)
ClosesDisjoint ==
    \A c, d \in closes : c # d => c.to < d.from \/ d.to < c.from

(* No hour is reported twice: an entry is in the snapshot of one close at most, *)
(* the close of its own day.                                                    *)
ReportedOnce ==
    \A c, d \in closes : \A x \in c.rows, y \in d.rows :
        x.id = y.id => c = d /\ c.from <= entry[x.id].day /\ entry[x.id].day <= c.to

(* A snapshot is the ledger of the moment it commits, for every entry its close *)
(* has found: not a copy that a replacement has overtaken, nor one that misses  *)
(* a replacement it waited for.                                                 *)
FrozenAtCommit ==
    [][\A c \in closes' \ closes :
          \E r \in Requests : Closing(r) /\ c.rows = LedgerOf(req[r].entries)]_vars
=============================================================================
