--------------------------- MODULE CoverageProofs ---------------------------
(* For any entries, sources and requests in flight: an entry is covered by one *)
(* set that sums to its hours, closed periods are disjoint, no hour is         *)
(* reported twice, and a snapshot is the ledger at its commit.                 *)
EXTENDS Coverage, TLAPS

(* A row has one holder, and an organization one close, at a time.             *)
OneHolder ==
    \A r, s \in Requests, e \in Entries : Holds(r, e) /\ Holds(s, e) => r = s

OneCloser == \A r, s \in Requests : Closing(r) /\ Closing(s) => r = s

(* What a replacement checked and deleted under its lock is still so.          *)
ReplacementsValid ==
    \A r \in Requests : req[r].op = "replace" =>
        /\ entry[req[r].id].approved
        /\ Total(req[r].draws) = entry[req[r].id].hours
        /\ ledger[req[r].id] = req[r].seen

(* The entries a close has found are in its period, which is new; and once it  *)
(* holds them all and has copied their allocations, the copy is current.       *)
ClosingsValid ==
    \A r \in Requests : Closing(r) =>
        /\ req[r].held \subseteq req[r].entries
        /\ \A e \in req[r].entries : InPeriod(e, req[r].from, req[r].to)
        /\ \A c \in closes : ~Overlaps(c, req[r].from, req[r].to)
        /\ req[r].op = "close" =>
              req[r].held = req[r].entries /\ req[r].rows = LedgerOf(req[r].entries)

SnapshotsInPeriod ==
    \A c \in closes : \A x \in c.rows : InPeriod(x.id, c.from, c.to)

IInv ==
    /\ TypeOK
    /\ OneHolder
    /\ OneCloser
    /\ ReplacementsValid
    /\ ClosingsValid
    /\ CoveredExactly
    /\ SnapshotsInPeriod
    /\ ClosesDisjoint

-----------------------------------------------------------------------------
(* The records a request can be, read off its op.                              *)
LEMMA RequestKinds ==
    ASSUME TypeOK, NEW r \in Requests
    PROVE  /\ req[r].op = "idle" => req[r] = Idle
           /\ req[r].op = "replace" => req[r] \in Replacements
           /\ Closing(r) => req[r] \in Closings
           /\ req[r].op \in {"idle", "replace", "select", "close"}
  BY DEF TypeOK, Idle, Replacements, Closings, Closing

(* A snapshot row of an entry is of its types.                                 *)
LEMMA LedgerRows ==
    ASSUME TypeOK, NEW E \in SUBSET Entries, \A e \in E : entry[e].approved
    PROVE  LedgerOf(E) \in SUBSET SnapshotRows
  <1>1. ASSUME NEW e \in E PROVE RowsOf(e) \in SUBSET SnapshotRows
    <2>1. entry[e] \in Rows
      BY DEF TypeOK, Absent
    <2>2. ledger[e] \in SUBSET Draws
      BY DEF TypeOK
    <2> QED
      BY <2>1, <2>2 DEF RowsOf, SnapshotRows, Rows
  <1> QED
    BY <1>1 DEF LedgerOf

(* Initially there is nothing.                                                 *)
LEMMA InitHolds == Init => IInv
  <1> SUFFICES ASSUME Init PROVE IInv
    OBVIOUS
  <1>1. \A r \in Requests : req[r] = Idle
    BY DEF Init
  <1>2. \A r \in Requests : req[r].op = "idle"
    BY <1>1 DEF Idle
  <1>3. TypeOK
    BY DEF Init, TypeOK
  <1>4. OneHolder /\ OneCloser /\ ReplacementsValid /\ ClosingsValid
    BY <1>2 DEF OneHolder, OneCloser, ReplacementsValid, ClosingsValid, Holds, Closing
  <1>5. CoveredExactly /\ SnapshotsInPeriod /\ ClosesDisjoint
    BY DEF Init, CoveredExactly, SnapshotsInPeriod, ClosesDisjoint
  <1> QED
    BY <1>3, <1>4, <1>5 DEF IInv

-----------------------------------------------------------------------------
(* Entries that are edited and approved disturb nothing that is in the ledger, *)
(* in a snapshot or under a lock: all of it is about approved entries.         *)
LEMMA EntriesMove ==
    ASSUME IInv, UNCHANGED <<ledger, closes, req>>,
           entry' \in [Entries -> Rows \cup {Absent}],
           \A e \in Entries : entry[e].approved => entry'[e] = entry[e]
    PROVE  IInv'
  <1>1. TypeOK'
    BY DEF IInv, TypeOK
  <1>2. OneHolder' /\ OneCloser'
    BY DEF IInv, OneHolder, OneCloser, Holds, Closing
  <1>3. \A e \in Entries : \A from, to : InPeriod(e, from, to) => InPeriod(e, from, to)'
    BY DEF InPeriod
  <1>4. ReplacementsValid'
    <2> SUFFICES ASSUME NEW r \in Requests, req[r].op = "replace"
                 PROVE  /\ entry'[req[r].id].approved
                        /\ Total(req[r].draws) = entry'[req[r].id].hours
                        /\ ledger[req[r].id] = req[r].seen
      BY DEF ReplacementsValid
    <2>1. req[r].id \in Entries
      BY RequestKinds DEF IInv, Replacements
    <2> QED
      BY <2>1 DEF IInv, ReplacementsValid
  <1>5. ClosingsValid'
    <2> SUFFICES ASSUME NEW r \in Requests, Closing(r)
                 PROVE  /\ req[r].held \subseteq req[r].entries
                        /\ \A e \in req[r].entries : InPeriod(e, req[r].from, req[r].to)'
                        /\ \A c \in closes : ~Overlaps(c, req[r].from, req[r].to)
                        /\ req[r].op = "close" =>
                              /\ req[r].held = req[r].entries
                              /\ req[r].rows = LedgerOf(req[r].entries)'
      BY DEF ClosingsValid, Closing, Overlaps, InPeriod, LedgerOf, RowsOf
    <2>1. req[r].entries \subseteq Entries
      BY RequestKinds DEF IInv, Closings
    <2>2. \A e \in req[r].entries : InPeriod(e, req[r].from, req[r].to)
      BY DEF IInv, ClosingsValid
    <2>3. \A e \in req[r].entries : entry'[e] = entry[e]
      BY <2>1, <2>2 DEF InPeriod
    <2>4. LedgerOf(req[r].entries)' = LedgerOf(req[r].entries)
      BY <2>3 DEF LedgerOf, RowsOf
    <2> QED
      BY <1>3, <2>1, <2>2, <2>4 DEF IInv, ClosingsValid
  <1>6. CoveredExactly'
    BY DEF IInv, CoveredExactly
  <1>7. SnapshotsInPeriod'
    <2>1. \A c \in closes : \A x \in c.rows : x.id \in Entries
      BY DEF IInv, TypeOK, Closes, SnapshotRows
    <2> QED
      BY <1>3, <2>1 DEF IInv, SnapshotsInPeriod
  <1>8. ClosesDisjoint'
    BY DEF IInv, ClosesDisjoint
  <1> QED
    BY <1>1, <1>2, <1>4, <1>5, <1>6, <1>7, <1>8 DEF IInv

(* A transaction that ends and leaves the entries alone: the locks and the     *)
(* requests of the others stay as they are.                                    *)
LEMMA Release ==
    ASSUME IInv, NEW r \in Requests, req' = [req EXCEPT ![r] = Idle]
    PROVE  /\ req' \in [Requests -> Replacements \cup Closings \cup {Idle}]
           /\ OneHolder' /\ OneCloser'
           /\ \A s \in Requests : s = r \/ req'[s] = req[s]
           /\ req'[r].op = "idle"
  <1>1. req' \in [Requests -> Replacements \cup Closings \cup {Idle}]
    BY DEF IInv, TypeOK
  <1>2. \A s \in Requests : s = r \/ req'[s] = req[s]
    BY DEF IInv, TypeOK
  <1>3. req'[r].op = "idle"
    BY DEF IInv, TypeOK, Idle
  <1>4. OneHolder'
    <2>1. \A s \in Requests, e \in Entries : Holds(s, e)' => Holds(s, e)
      BY <1>2, <1>3 DEF Holds, Closing
    <2> QED
      BY <2>1 DEF IInv, OneHolder
  <1>5. OneCloser'
    BY <1>2, <1>3 DEF IInv, OneCloser, Closing
  <1> QED
    BY <1>1, <1>2, <1>3, <1>4, <1>5

(* A rollback gives up its locks and nothing else.                             *)
LEMMA RollbackStep ==
    ASSUME IInv, NEW r \in Requests, Rollback(r)
    PROVE  IInv'
  <1>1. /\ req' = [req EXCEPT ![r] = Idle]
        /\ entry' = entry /\ ledger' = ledger /\ closes' = closes
    BY DEF Rollback
  <1>2. /\ req' \in [Requests -> Replacements \cup Closings \cup {Idle}]
        /\ OneHolder' /\ OneCloser'
        /\ \A s \in Requests : s = r \/ req'[s] = req[s]
        /\ req'[r].op = "idle"
    BY <1>1, Release
  <1>3. TypeOK'
    BY <1>1, <1>2 DEF IInv, TypeOK
  <1>4. ReplacementsValid'
    BY <1>1, <1>2 DEF IInv, ReplacementsValid
  <1>5. ClosingsValid'
    BY <1>1, <1>2 DEF IInv, ClosingsValid, Closing, InPeriod, Overlaps, LedgerOf, RowsOf
  <1>6. CoveredExactly' /\ SnapshotsInPeriod' /\ ClosesDisjoint'
    BY <1>1 DEF IInv, CoveredExactly, SnapshotsInPeriod, ClosesDisjoint, InPeriod
  <1> QED
    BY <1>2, <1>3, <1>4, <1>5, <1>6 DEF IInv

-----------------------------------------------------------------------------
(* A replacement takes a row nobody holds.                                     *)
LEMMA ReplaceLockStep ==
    ASSUME IInv, NEW r \in Requests, NEW e \in Entries, NEW d \in Draws,
           ReplaceLock(r, e, d)
    PROVE  IInv'
  <1> DEFINE q == [op |-> "replace", id |-> e, draws |-> d, seen |-> ledger[e]]
  <1>1. /\ req' = [req EXCEPT ![r] = q]
        /\ entry' = entry /\ ledger' = ledger /\ closes' = closes
        /\ entry[e].approved /\ ~EntryLocked(e)
        /\ Total(d) = entry[e].hours
    BY DEF ReplaceLock
  <1>2. q \in Replacements
    BY DEF IInv, TypeOK, Replacements
  <1>3. /\ req'[r] = q
        /\ \A s \in Requests : s = r \/ req'[s] = req[s]
    BY <1>1 DEF IInv, TypeOK
  <1>4. req'[r].op = "replace" /\ req'[r].id = e
    BY <1>3
  <1> HIDE DEF q
  <1>5. TypeOK'
    BY <1>1, <1>2 DEF IInv, TypeOK
  <1>6. OneHolder'
    <2>1. \A s \in Requests, f \in Entries : Holds(s, f)' => Holds(s, f) \/ (s = r /\ f = e)
      BY <1>3, <1>4 DEF Holds, Closing
    <2>2. \A s \in Requests : ~Holds(s, e)
      BY <1>1 DEF EntryLocked
    <2> QED
      BY <2>1, <2>2 DEF IInv, OneHolder
  <1>7. OneCloser'
    BY <1>3, <1>4 DEF IInv, OneCloser, Closing
  <1>8. ReplacementsValid'
    <2> SUFFICES ASSUME NEW s \in Requests, req'[s].op = "replace"
                 PROVE  /\ entry[req'[s].id].approved
                        /\ Total(req'[s].draws) = entry[req'[s].id].hours
                        /\ ledger[req'[s].id] = req'[s].seen
      BY <1>1 DEF ReplacementsValid
    <2>1. CASE s = r
      BY <2>1, <1>1, <1>3 DEF q
    <2>2. CASE s # r
      BY <2>2, <1>3 DEF IInv, ReplacementsValid
    <2> QED
      BY <2>1, <2>2
  <1>9. ClosingsValid'
    BY <1>1, <1>3, <1>4 DEF IInv, ClosingsValid, Closing, InPeriod, Overlaps, LedgerOf, RowsOf
  <1>10. CoveredExactly' /\ SnapshotsInPeriod' /\ ClosesDisjoint'
    BY <1>1 DEF IInv, CoveredExactly, SnapshotsInPeriod, ClosesDisjoint, InPeriod
  <1> QED
    BY <1>5, <1>6, <1>7, <1>8, <1>9, <1>10 DEF IInv

(* The set it stores is the only one there: nothing was added to the entry     *)
(* since its DELETE, and no close holds the entry.                             *)
LEMMA ReplaceCommitStep ==
    ASSUME IInv, NEW r \in Requests, ReplaceCommit(r)
    PROVE  IInv'
  <1>1. PICK i, d, seen : /\ i = req[r].id /\ d = req[r].draws /\ seen = req[r].seen
                          /\ i \in Entries /\ d \in Draws
    BY RequestKinds DEF IInv, ReplaceCommit, Replacements
  <1>2. /\ req[r].op = "replace"
        /\ req' = [req EXCEPT ![r] = Idle]
        /\ ledger' = [ledger EXCEPT ![i] = (@ \ seen) \cup {d}]
        /\ entry' = entry /\ closes' = closes
    BY <1>1 DEF ReplaceCommit
  <1>3. entry[i].approved /\ Total(d) = entry[i].hours /\ ledger[i] = seen
    BY <1>1, <1>2 DEF IInv, ReplacementsValid
  <1>4. /\ ledger'[i] = {d}
        /\ \A e \in Entries : e = i \/ ledger'[e] = ledger[e]
        /\ ledger' \in [Entries -> SUBSET Draws]
    BY <1>1, <1>2, <1>3 DEF IInv, TypeOK
  <1>5. /\ req' \in [Requests -> Replacements \cup Closings \cup {Idle}]
        /\ OneHolder' /\ OneCloser'
        /\ \A s \in Requests : s = r \/ req'[s] = req[s]
        /\ req'[r].op = "idle"
    BY <1>2, Release
  <1>6. TypeOK'
    BY <1>2, <1>4, <1>5 DEF IInv, TypeOK
  <1>7. \A s \in Requests : s # r => ~Holds(s, i)
    BY <1>1, <1>2 DEF IInv, OneHolder, Holds
  <1>8. ReplacementsValid'
    <2> SUFFICES ASSUME NEW s \in Requests, req'[s].op = "replace"
                 PROVE  /\ entry[req[s].id].approved
                        /\ Total(req[s].draws) = entry[req[s].id].hours
                        /\ ledger'[req[s].id] = req[s].seen
                        /\ req'[s] = req[s]
      BY <1>2 DEF ReplacementsValid
    <2>1. s # r /\ req'[s] = req[s]
      BY <1>5
    <2>2. req[s].id \in Entries /\ req[s].id # i
      BY <2>1, <1>7, RequestKinds DEF IInv, Holds, Replacements
    <2> QED
      BY <2>1, <2>2, <1>4 DEF IInv, ReplacementsValid
  <1>9. ClosingsValid'
    <2> SUFFICES ASSUME NEW s \in Requests, Closing(s)'
                 PROVE  /\ req'[s].held \subseteq req'[s].entries
                        /\ \A e \in req'[s].entries : InPeriod(e, req'[s].from, req'[s].to)
                        /\ \A c \in closes : ~Overlaps(c, req'[s].from, req'[s].to)
                        /\ req'[s].op = "close" =>
                              /\ req'[s].held = req'[s].entries
                              /\ (req[s].rows = LedgerOf(req[s].entries))'
      BY <1>2 DEF ClosingsValid, InPeriod, Overlaps
    <2>1. s # r /\ req'[s] = req[s] /\ Closing(s)
      BY <1>5 DEF Closing
    <2>2. PICK E : E = req[s].entries /\ E \subseteq Entries
      BY <2>1, RequestKinds DEF IInv, Closings
    <2>3. req[s].op = "close" => i \notin E
      BY <2>1, <2>2, <1>7 DEF IInv, ClosingsValid, Holds
    <2>4. i \notin E => LedgerOf(E)' = LedgerOf(E)
      BY <2>2, <1>2, <1>4 DEF LedgerOf, RowsOf
    <2>5. LedgerOf(req[s].entries)' = LedgerOf(E)'
      BY <2>1, <2>2 DEF LedgerOf, RowsOf
    <2> QED
      BY <2>1, <2>2, <2>3, <2>4, <2>5 DEF IInv, ClosingsValid
  <1>10. CoveredExactly'
    BY <1>1, <1>2, <1>3, <1>4 DEF IInv, CoveredExactly
  <1>11. SnapshotsInPeriod' /\ ClosesDisjoint'
    BY <1>2 DEF IInv, SnapshotsInPeriod, ClosesDisjoint, InPeriod
  <1> QED
    BY <1>5, <1>6, <1>8, <1>9, <1>10, <1>11 DEF IInv

-----------------------------------------------------------------------------
(* A step of a close before its commit leaves entries, ledger and closes       *)
(* alone and keeps the organization's lock; what it must show is about its own *)
(* request.                                                                    *)
LEMMA ClosingStep ==
    ASSUME IInv, NEW r \in Requests, NEW q \in Closings,
           req' = [req EXCEPT ![r] = q],
           UNCHANGED <<entry, ledger, closes>>,
           \A s \in Requests : s # r => ~Closing(s),
           \A s \in Requests, e \in q.held : s # r => ~Holds(s, e),
           q.held \subseteq q.entries,
           \A e \in q.entries : InPeriod(e, q.from, q.to),
           \A c \in closes : ~Overlaps(c, q.from, q.to),
           q.op = "close" => q.held = q.entries /\ q.rows = LedgerOf(q.entries)
    PROVE  IInv'
  <1>1. /\ req'[r] = q
        /\ \A s \in Requests : s = r \/ req'[s] = req[s]
    BY DEF IInv, TypeOK
  <1>2. q.op \in {"select", "close"} /\ q.held \subseteq Entries
    BY DEF Closings
  <1>3. TypeOK'
    BY DEF IInv, TypeOK
  <1>4. OneHolder'
    <2>1. \A s \in Requests, e \in Entries :
             Holds(s, e)' => IF s = r THEN e \in q.held ELSE Holds(s, e)
      BY <1>1, <1>2 DEF Holds, Closing
    <2> QED
      BY <2>1 DEF IInv, OneHolder
  <1>5. OneCloser'
    BY <1>1 DEF OneCloser, Closing
  <1>6. ReplacementsValid'
    <2>1. \A s \in Requests : req'[s].op = "replace" => s # r
      BY <1>1, <1>2
    <2> QED
      BY <1>1, <2>1 DEF IInv, ReplacementsValid
  <1>7. ClosingsValid'
    <2>1. \A s \in Requests : Closing(s)' => s = r
      BY <1>1 DEF Closing
    <2> QED
      BY <1>1, <2>1 DEF ClosingsValid, InPeriod, Overlaps, LedgerOf, RowsOf
  <1>8. CoveredExactly' /\ SnapshotsInPeriod' /\ ClosesDisjoint'
    BY DEF IInv, CoveredExactly, SnapshotsInPeriod, ClosesDisjoint, InPeriod
  <1> QED
    BY <1>3, <1>4, <1>5, <1>6, <1>7, <1>8 DEF IInv

(* A close starts on a new period, with no entry in hand.                      *)
LEMMA CloseSelectStep ==
    ASSUME IInv, NEW r \in Requests, NEW from \in Days, NEW to \in Days,
           CloseSelect(r, from, to)
    PROVE  IInv'
  <1> DEFINE E == {e \in Entries : InPeriod(e, from, to)}
             q == [op |-> "select", from |-> from, to |-> to, held |-> {}, rows |-> {},
                   entries |-> E]
  <1>1. /\ req' = [req EXCEPT ![r] = q]
        /\ UNCHANGED <<entry, ledger, closes>>
        /\ \A s \in Requests : ~Closing(s)
        /\ \A c \in closes : ~Overlaps(c, from, to)
    BY DEF CloseSelect, CloseInFlight
  <1>2. q \in Closings
    BY DEF Closings
  <1>3. /\ q.held = {} /\ q.entries = E /\ q.from = from /\ q.to = to
        /\ q.op # "close"
    OBVIOUS
  <1>4. \A e \in E : InPeriod(e, from, to)
    OBVIOUS
  <1> HIDE DEF q, E
  <1> QED
    BY <1>1, <1>2, <1>3, <1>4, ClosingStep

(* It takes one more row that nobody holds.                                    *)
LEMMA CloseLockStep ==
    ASSUME IInv, NEW r \in Requests, NEW e \in Entries, CloseLock(r, e)
    PROVE  IInv'
  <1> DEFINE q == [req[r] EXCEPT !.held = @ \cup {e}]
  <1>1. Closing(r) /\ req[r] \in Closings
    BY RequestKinds DEF IInv, CloseLock, Closing
  <1>2. /\ req' = [req EXCEPT ![r] = q]
        /\ UNCHANGED <<entry, ledger, closes>>
        /\ req[r].op = "select" /\ e \in req[r].entries
        /\ \A s \in Requests : ~Holds(s, e)
    BY DEF CloseLock, EntryLocked
  <1>3. q \in Closings
    BY <1>1 DEF Closings
  <1>4. /\ q.op = "select" /\ q.from = req[r].from /\ q.to = req[r].to
        /\ q.entries = req[r].entries /\ q.held = req[r].held \cup {e}
    BY <1>1, <1>2 DEF Closings
  <1> HIDE DEF q
  <1>5. \A s \in Requests : s # r => ~Closing(s)
    BY <1>1 DEF IInv, OneCloser
  <1>6. \A s \in Requests, f \in q.held : s # r => ~Holds(s, f)
    <2>1. \A f \in req[r].held : f \in Entries /\ Holds(r, f)
      BY <1>1 DEF Holds, Closings
    <2> QED
      BY <1>2, <1>4, <2>1 DEF IInv, OneHolder
  <1>7. /\ q.held \subseteq q.entries
        /\ \A f \in q.entries : InPeriod(f, q.from, q.to)
        /\ \A c \in closes : ~Overlaps(c, q.from, q.to)
    BY <1>1, <1>2, <1>4 DEF IInv, ClosingsValid
  <1>8. q.op # "close"
    BY <1>4
  <1> QED
    BY <1>2, <1>3, <1>5, <1>6, <1>7, <1>8, ClosingStep

(* It holds them all, so the copy it makes stays current.                      *)
LEMMA CloseFreezeStep ==
    ASSUME IInv, NEW r \in Requests, CloseFreeze(r)
    PROVE  IInv'
  <1> DEFINE L == LedgerOf(req[r].entries)
             q == [req[r] EXCEPT !.op = "close", !.rows = L]
  <1>1. Closing(r) /\ req[r] \in Closings
    BY RequestKinds DEF IInv, CloseFreeze, Closing
  <1>2. /\ req' = [req EXCEPT ![r] = q]
        /\ UNCHANGED <<entry, ledger, closes>>
        /\ req[r].op = "select" /\ req[r].held = req[r].entries
    BY DEF CloseFreeze
  <1>3. L \in SUBSET SnapshotRows
    <2>1. req[r].entries \in SUBSET Entries
      BY <1>1 DEF Closings
    <2>2. \A e \in req[r].entries : entry[e].approved
      BY <1>1 DEF IInv, ClosingsValid, InPeriod
    <2> QED
      BY <2>1, <2>2, LedgerRows DEF IInv
  <1> HIDE DEF L
  <1>4. q \in Closings
    BY <1>1, <1>3 DEF Closings
  <1>5. /\ q.op = "close" /\ q.from = req[r].from /\ q.to = req[r].to
        /\ q.entries = req[r].entries /\ q.held = req[r].held /\ q.rows = L
    BY <1>1 DEF Closings
  <1> HIDE DEF q
  <1>6. \A s \in Requests : s # r => ~Closing(s)
    BY <1>1 DEF IInv, OneCloser
  <1>7. \A s \in Requests, f \in q.held : s # r => ~Holds(s, f)
    <2>1. \A f \in req[r].held : f \in Entries /\ Holds(r, f)
      BY <1>1 DEF Holds, Closings
    <2> QED
      BY <1>5, <2>1 DEF IInv, OneHolder
  <1>8. /\ q.held \subseteq q.entries
        /\ \A f \in q.entries : InPeriod(f, q.from, q.to)
        /\ \A c \in closes : ~Overlaps(c, q.from, q.to)
    BY <1>1, <1>2, <1>5 DEF IInv, ClosingsValid
  <1>9. q.held = q.entries /\ q.rows = LedgerOf(q.entries)
    BY <1>2, <1>5 DEF L
  <1> QED
    BY <1>2, <1>4, <1>6, <1>7, <1>8, <1>9, ClosingStep

(* The close it adds shares no day with the others, and its rows are about     *)
(* entries of its period.                                                      *)
LEMMA CloseCommitStep ==
    ASSUME IInv, NEW r \in Requests, CloseCommit(r)
    PROVE  IInv'
  <1>1. Closing(r) /\ req[r] \in Closings
    BY RequestKinds DEF IInv, CloseCommit, Closing
  <1>2. PICK from, to, rows : /\ from = req[r].from /\ to = req[r].to
                              /\ rows = req[r].rows
                              /\ from \in Days /\ to \in Days
                              /\ rows \in SUBSET SnapshotRows
    BY <1>1 DEF Closings
  <1> DEFINE new == [from |-> from, to |-> to, rows |-> rows]
  <1>3. /\ req' = [req EXCEPT ![r] = Idle]
        /\ closes' = closes \cup {new}
        /\ entry' = entry /\ ledger' = ledger
        /\ req[r].op = "close"
    BY <1>2 DEF CloseCommit
  <1>4. /\ req' \in [Requests -> Replacements \cup Closings \cup {Idle}]
        /\ OneHolder' /\ OneCloser'
        /\ \A s \in Requests : s = r \/ req'[s] = req[s]
        /\ req'[r].op = "idle"
    BY <1>3, Release
  <1>5. new \in Closes /\ new.from = from /\ new.to = to /\ new.rows = rows
    BY <1>2 DEF Closes
  <1>6. \A x \in rows : InPeriod(x.id, from, to)
    <2>1. rows = LedgerOf(req[r].entries)
      BY <1>1, <1>2, <1>3 DEF IInv, ClosingsValid
    <2>2. \A x \in rows : x.id \in req[r].entries
      BY <2>1 DEF LedgerOf, RowsOf
    <2> QED
      BY <1>1, <1>2, <2>2 DEF IInv, ClosingsValid
  <1>7. \A c \in closes : ~Overlaps(c, from, to)
    BY <1>1, <1>2 DEF IInv, ClosingsValid
  <1> HIDE DEF new
  <1>8. TypeOK'
    BY <1>3, <1>4, <1>5 DEF IInv, TypeOK
  <1>9. ReplacementsValid'
    BY <1>3, <1>4 DEF IInv, ReplacementsValid
  <1>10. ClosingsValid'
    <2>1. \A s \in Requests : ~Closing(s)'
      BY <1>1, <1>4 DEF IInv, OneCloser, Closing
    <2> QED
      BY <2>1 DEF ClosingsValid
  <1>11. CoveredExactly'
    BY <1>3 DEF IInv, CoveredExactly
  <1>12. SnapshotsInPeriod'
    BY <1>3, <1>5, <1>6 DEF IInv, SnapshotsInPeriod, InPeriod
  <1>13. ClosesDisjoint'
    <2>1. closes \subseteq Closes
      BY DEF IInv, TypeOK
    <2>2. from \in Nat /\ to \in Nat
      BY <1>2, DaysAssumption
    <2>3. \A c \in closes : c.from \in Nat /\ c.to \in Nat
      BY <2>1, DaysAssumption DEF Closes
    <2>4. \A c \in closes : c.to < from \/ to < c.from
      BY <1>7, <2>2, <2>3 DEF Overlaps
    <2>5. \A c \in closes' : c = new \/ c \in closes
      BY <1>3
    <2> QED
      BY <1>5, <2>4, <2>5 DEF IInv, ClosesDisjoint
  <1> QED
    BY <1>4, <1>8, <1>9, <1>10, <1>11, <1>12, <1>13 DEF IInv

-----------------------------------------------------------------------------
(* Every step keeps the invariant.                                             *)
LEMMA Inductive == IInv /\ [Next]_vars => IInv'
  <1> SUFFICES ASSUME IInv, [Next]_vars PROVE IInv'
    OBVIOUS
  <1>1. ASSUME NEW e \in Entries, NEW hours \in 1..MaxHours, NEW day \in Days,
               EditEntry(e, hours, day)
        PROVE  IInv'
    <2>1. [hours |-> hours, day |-> day, approved |-> FALSE] \in Rows
      BY DEF Rows
    <2>2. entry' \in [Entries -> Rows \cup {Absent}]
      BY <1>1, <2>1 DEF IInv, TypeOK, EditEntry
    <2>3. \A f \in Entries : entry[f].approved => entry'[f] = entry[f]
      BY <1>1 DEF IInv, TypeOK, EditEntry
    <2> QED
      BY <1>1, <2>2, <2>3, EntriesMove DEF EditEntry
  <1>2. ASSUME NEW e \in Entries, ApproveEntry(e)
        PROVE  IInv'
    <2>1. [entry[e] EXCEPT !.approved = TRUE] \in Rows
      BY <1>2 DEF IInv, TypeOK, Rows, ApproveEntry
    <2>2. entry' \in [Entries -> Rows \cup {Absent}]
      BY <1>2, <2>1 DEF IInv, TypeOK, ApproveEntry
    <2>3. \A f \in Entries : entry[f].approved => entry'[f] = entry[f]
      BY <1>2 DEF IInv, TypeOK, ApproveEntry
    <2> QED
      BY <1>2, <2>2, <2>3, EntriesMove DEF ApproveEntry
  <1>3. CASE UNCHANGED vars
    BY <1>3, EntriesMove DEF vars, IInv, TypeOK
  <1> QED
    BY <1>1, <1>2, <1>3, ReplaceLockStep, ReplaceCommitStep, CloseSelectStep,
       CloseLockStep, CloseFreezeStep, CloseCommitStep, RollbackStep DEF Next

THEOREM Invariance == Spec => []IInv
  BY InitHolds, Inductive, PTL DEF Spec

(* Type correctness, for any entries, sources, days and requests in flight.    *)
THEOREM CoverageTyped == Spec => []TypeOK
  <1>1. IInv => TypeOK
    BY DEF IInv
  <1> QED
    BY <1>1, Invariance, PTL

(* However replacements race, a covered entry is approved and covered by one   *)
(* set, whose hours are the entry's.                                           *)
THEOREM CoveredByOneSet == Spec => []CoveredExactly
  <1>1. IInv => CoveredExactly
    BY DEF IInv
  <1> QED
    BY <1>1, Invariance, PTL

(* However closes race, closed periods share no day.                           *)
THEOREM PeriodsDisjoint == Spec => []ClosesDisjoint
  <1>1. IInv => ClosesDisjoint
    BY DEF IInv
  <1> QED
    BY <1>1, Invariance, PTL

(* No hour is in two snapshots: the day of an entry is in one period at most.  *)
THEOREM NeverReportedTwice == Spec => []ReportedOnce
  <1>1. ASSUME IInv PROVE ReportedOnce
    <2> SUFFICES ASSUME NEW c \in closes, NEW d \in closes,
                        NEW x \in c.rows, NEW y \in d.rows, x.id = y.id
                 PROVE  c = d /\ c.from <= entry[x.id].day /\ entry[x.id].day <= c.to
      BY DEF ReportedOnce
    <2>1. InPeriod(x.id, c.from, c.to) /\ InPeriod(x.id, d.from, d.to)
      BY <1>1 DEF IInv, SnapshotsInPeriod
    <2>2. c \in Closes /\ d \in Closes
      BY <1>1 DEF IInv, TypeOK
    <2>3. x.id \in Entries /\ entry[x.id] \in Rows
      BY <1>1, <2>1, <2>2 DEF IInv, TypeOK, Closes, SnapshotRows, InPeriod, Absent
    <2>4. PICK day : day = entry[x.id].day /\ day \in Nat
      BY <2>3, DaysAssumption DEF Rows
    <2>5. /\ c.from <= day /\ day <= c.to /\ d.from <= day /\ day <= d.to
      BY <2>1, <2>4 DEF InPeriod
    <2>6. c.from \in Nat /\ c.to \in Nat /\ d.from \in Nat /\ d.to \in Nat
      BY <2>2, DaysAssumption DEF Closes
    <2>7. ~(c.to < d.from \/ d.to < c.from)
      BY <2>4, <2>5, <2>6
    <2>8. c = d
      BY <1>1, <2>7 DEF IInv, ClosesDisjoint
    <2> QED
      BY <2>4, <2>5, <2>8
  <1> QED
    BY <1>1, Invariance, PTL

(* What a close stores is the ledger of its entries at its commit.             *)
THEOREM SnapshotsAreCurrent == Spec => FrozenAtCommit
  <1> DEFINE A == \A c \in closes' \ closes :
                     \E r \in Requests : Closing(r) /\ c.rows = LedgerOf(req[r].entries)
  <1>1. ASSUME IInv, [Next]_vars PROVE [A]_vars
    <2>1. ASSUME NEW r \in Requests, CloseCommit(r), NEW c \in closes' \ closes
          PROVE  Closing(r) /\ c.rows = LedgerOf(req[r].entries)
      <3>1. Closing(r) /\ req[r].op = "close"
        BY <2>1 DEF CloseCommit, Closing
      <3>2. c.rows = req[r].rows
        BY <2>1 DEF CloseCommit
      <3> QED
        BY <1>1, <3>1, <3>2 DEF IInv, ClosingsValid
    <2>2. CASE \E r \in Requests : CloseCommit(r)
      BY <2>1, <2>2
    <2>3. CASE closes' = closes
      BY <2>3
    <2> QED
      BY <1>1, <2>2, <2>3 DEF Next, vars, EditEntry, ApproveEntry, ReplaceLock,
         ReplaceCommit, CloseSelect, CloseLock, CloseFreeze, Rollback
  <1>2. [][A]_vars => FrozenAtCommit
    BY PTL DEF FrozenAtCommit
  <1> QED
    BY <1>1, <1>2, Invariance, PTL DEF Spec
=============================================================================
