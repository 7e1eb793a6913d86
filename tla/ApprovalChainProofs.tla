-------------------------- MODULE ApprovalChainProofs --------------------------
(* The inductive invariant of the approval chain and the proof that every     *)
(* statement of a request preserves it, for any number of users, entries and  *)
(* concurrent requests; at the end, what follows for the expense service.     *)
(* TimeEntriesProofs applies it to the time entries.                          *)
EXTENDS ApprovalChain, TLAPS

(* What a request in flight carries.  The row it names exists and its owner   *)
(* never changes; the copy it is going to write back is not waiting for       *)
(* finance or approved unless the request is an approval by the right role,   *)
(* a submission by the owner, or a copy of content already reviewed.          *)
FlightOK(q) ==
    /\ table[q.id] # Absent
    /\ q.row.owner = table[q.id].owner
    /\ q.op \in {"update", "reject"}
          => q.row.status \notin {"pending_finance", "approved"}
    /\ q.op = "submit" => q.actor = q.row.owner /\ q.row.status # "approved"
    /\ q.op = "approve" =>
          /\ q.actor # q.row.owner
          /\ q.pc = "route" => q.row.status = "submitted"
          /\ \/ /\ q.row.status \in {"submitted", "pending_finance"}
                /\ OrgRole[q.actor] = "manager"
             \/ /\ q.row.status = "approved"
                /\ OrgRole[q.actor] = "finance"
                /\ ManagerCleared(q.id, q.row)
    /\ q.op = "receipt" => Reviewed(q.id, q.row)
    /\ q.pc = "record" => q.op \in {"approve", "reject"}

FlightsOK == \A r \in Requests : req[r] # Idle => FlightOK(req[r])

ChainInv == ChainTypeOK /\ FlightsOK /\ ReviewedContent

-----------------------------------------------------------------------------
(* A row or a request that shows a real status or statement is a real one.   *)

LEMMA RowTyped ==
  ASSUME ChainTypeOK, NEW i \in Entries, table[i].status # "absent"
  PROVE  table[i] \in Rows /\ table[i] # Absent
  BY DEF ChainTypeOK, Absent

LEMMA FlightTyped ==
  ASSUME ChainTypeOK, NEW r \in Requests, req[r] # Idle
  PROVE  req[r] \in Flights
  BY DEF ChainTypeOK

LEMMA BusyFlight ==
  ASSUME ChainTypeOK, NEW r \in Requests, req[r].pc # "idle"
  PROVE  req[r] \in Flights /\ req[r] # Idle
  BY DEF ChainTypeOK, Idle

LEMMA FlightNotIdle ==
  ASSUME NEW q \in Flights
  PROVE  q # Idle
  BY DEF Flights, Idle

(* A statement that only moves requests: if the flight it leaves at r is     *)
(* sound, so is the state.                                                   *)
LEMMA ReqStep ==
  ASSUME ChainInv, NEW r \in Requests, NEW q \in Flights \cup {Idle},
         q # Idle => FlightOK(q),
         req' = [req EXCEPT ![r] = q],
         UNCHANGED <<table, route, approvals, cleared>>
  PROVE  ChainInv'
<1>1. ChainTypeOK'
  BY DEF ChainInv, ChainTypeOK
<1>2. ReviewedContent'
  BY DEF ChainInv, ReviewedContent, Reviewed, ManagerCleared, FinanceCleared, ClearedAs
<1>3. FlightsOK'
  <2> SUFFICES ASSUME NEW s \in Requests, req'[s] # Idle
               PROVE  FlightOK(req[s])'
    BY DEF FlightsOK
  <2>1. req' \in [Requests -> Flights \cup {Idle}]
    BY <1>1 DEF ChainTypeOK
  <2>2. FlightOK(req'[s])
    BY DEF ChainInv, ChainTypeOK, FlightsOK
  <2> QED
    BY <2>2 DEF FlightOK, Reviewed, ManagerCleared, FinanceCleared, ClearedAs
<1> QED
  BY <1>1, <1>2, <1>3 DEF ChainInv

LEMMA StartStep ==
  ASSUME ChainInv, NEW r \in Requests, NEW u \in Users, NEW i \in Entries,
         NEW op \in {"update", "delete", "submit", "approve", "reject", "receipt"},
         NEW pc \in {"ticket", "route", "write", "record"}, NEW row \in Rows,
         FlightOK([pc |-> pc, op |-> op, actor |-> u, id |-> i, row |-> row]),
         Start(r, op, u, i, pc, row)
  PROVE  ChainInv'
  BY ReqStep DEF Start, Flights

LEMMA RefuseStep ==
  ASSUME ChainInv, NEW r \in Requests, Refuse(r)
  PROVE  ChainInv'
  BY ReqStep DEF Refuse

(* A flight of r that goes on with another statement and status.             *)
LEMMA AdvanceStep ==
  ASSUME ChainInv, NEW r \in Requests, req[r] \in Flights,
         NEW pc \in {"ticket", "route", "write", "record"}, NEW status \in Statuses,
         FlightOK([req[r] EXCEPT !.pc = pc, !.row.status = status]),
         Advance(r, pc, status)
  PROVE  ChainInv'
<1> DEFINE q == [req[r] EXCEPT !.pc = pc, !.row.status = status]
<1>1. req[r].row \in Rows
  BY DEF Flights
<1>2. q \in Flights
  BY <1>1 DEF Flights, Rows
<1>3. req' = [req EXCEPT ![r] = q]
  BY DEF Advance, ChainInv, ChainTypeOK
<1> QED
  BY <1>2, <1>3, ReqStep DEF Advance

-----------------------------------------------------------------------------
(* The handlers, one lemma each.                                             *)

LEMMA CreateStep ==
  ASSUME ChainInv, NEW u \in Users, NEW i \in Entries, NEW t \in Targets,
         NEW a \in Amounts, Create(u, i, t, a)
  PROVE  ChainInv'
<1> DEFINE row == [owner |-> u, target |-> t, amount |-> a, receipt |-> NoReceipt,
                   status |-> "draft", deleted |-> FALSE]
<1>1. row \in Rows
  BY ReceiptAssumption DEF Rows, Statuses
<1>2. ChainTypeOK'
  BY <1>1 DEF Create, ChainInv, ChainTypeOK
<1>3. \A j \in Entries : table'[j] = IF j = i THEN row ELSE table[j]
  BY DEF Create, ChainInv, ChainTypeOK
<1>4. ReviewedContent'
  <2> SUFFICES ASSUME NEW j \in Entries
               PROVE  Reviewed(j, table[j])'
    BY DEF ReviewedContent
  <2>1. CASE j = i
    <3>1. table'[j].status = "draft"
      BY <1>3, <2>1
    <3> QED
      BY <3>1 DEF Reviewed
  <2>2. CASE j # i
    BY <1>3, <2>2 DEF Create, ChainInv, ReviewedContent, Reviewed, ManagerCleared,
                      FinanceCleared, ClearedAs
  <2> QED
    BY <2>1, <2>2
<1>5. FlightsOK'
  <2> SUFFICES ASSUME NEW s \in Requests, req[s] # Idle, req' = req
               PROVE  FlightOK(req[s])'
    BY DEF FlightsOK, Create
  <2>1. req[s] \in Flights /\ FlightOK(req[s])
    BY FlightTyped DEF ChainInv, FlightsOK
  <2>2. req[s].id \in Entries /\ req[s].id # i
    BY <2>1 DEF Flights, FlightOK, Create
  <2>3. table'[req[s].id] = table[req[s].id]
    BY <1>3, <2>2
  <2> QED
    BY <2>1, <2>3 DEF FlightOK, Create, Reviewed, ManagerCleared, FinanceCleared,
                      ClearedAs
<1> QED
  BY <1>2, <1>4, <1>5 DEF ChainInv

LEMMA UpdateStep ==
  ASSUME ChainInv, NEW r \in Requests, NEW u \in Users, NEW i \in Entries,
         NEW t \in Targets, NEW a \in Amounts, UpdateRead(r, u, i, t, a)
  PROVE  ChainInv'
<1> DEFINE row == [table[i] EXCEPT !.target = t, !.amount = a]
<1>1. table[i] \in Rows /\ table[i] # Absent
  BY RowTyped DEF ChainInv, UpdateRead, CanEdit
<1>2. row \in Rows
  BY <1>1 DEF Rows
<1>3. row.owner = table[i].owner /\ row.status = table[i].status
  BY <1>1 DEF Rows
<1>4. FlightOK([pc |-> "write", op |-> "update", actor |-> u, id |-> i, row |-> row])
  BY <1>1, <1>3 DEF FlightOK, UpdateRead, CanEdit
<1> QED
  BY <1>2, <1>4, StartStep DEF UpdateRead

LEMMA DeleteStep ==
  ASSUME ChainInv, NEW r \in Requests, NEW u \in Users, NEW i \in Entries,
         DeleteRead(r, u, i)
  PROVE  ChainInv'
<1>1. table[i] \in Rows /\ table[i] # Absent
  BY RowTyped DEF ChainInv, DeleteRead
<1>2. FlightOK([pc |-> "write", op |-> "delete", actor |-> u, id |-> i,
                row |-> table[i]])
  BY <1>1 DEF FlightOK
<1> QED
  BY <1>1, <1>2, StartStep DEF DeleteRead

LEMMA SubmitStep ==
  ASSUME ChainInv, NEW r \in Requests, NEW u \in Users, NEW i \in Entries,
         NEW first \in {"ticket", "route"}, SubmitRead(r, u, i, first)
  PROVE  ChainInv'
<1>1. table[i] \in Rows /\ table[i] # Absent
  BY RowTyped DEF ChainInv, SubmitRead, CanSubmit
<1>2. FlightOK([pc |-> first, op |-> "submit", actor |-> u, id |-> i,
                row |-> table[i]])
  BY <1>1 DEF FlightOK, SubmitRead, CanSubmit, IsOwner
<1> QED
  BY <1>1, <1>2, StartStep DEF SubmitRead

LEMMA SubmitRouteStep ==
  ASSUME ChainInv, NEW r \in Requests, SubmitRoute(r)
  PROVE  ChainInv'
<1>1. req[r] \in Flights /\ req[r] # Idle /\ FlightOK(req[r])
  BY BusyFlight DEF ChainInv, FlightsOK, SubmitRoute, At
<1>2. req[r].row \in Rows
  BY <1>1 DEF Flights
<1>3. ASSUME NEW status \in {"submitted", "pending_finance"},
             Advance(r, "write", status)
      PROVE  ChainInv'
  <2>1. FlightOK([req[r] EXCEPT !.pc = "write", !.row.status = status])
    BY <1>1, <1>2 DEF FlightOK, Flights, Rows, SubmitRoute, At
  <2> QED
    BY <1>1, <1>3, <2>1, AdvanceStep DEF Statuses
<1> QED
  BY <1>3, RefuseStep DEF SubmitRoute, SubmittedStatus

LEMMA ApproveStep ==
  ASSUME ChainInv, NEW r \in Requests, NEW u \in Users, NEW i \in Entries,
         ApproveRead(r, u, i)
  PROVE  ChainInv'
<1>1. table[i] \in Rows /\ table[i] # Absent
  BY DEF ChainInv, ChainTypeOK, ApproveRead
<1>2. CASE /\ OrgRole[u] = "manager" /\ table[i].status = "submitted"
           /\ Start(r, "approve", u, i, "route", table[i])
  <2>1. FlightOK([pc |-> "route", op |-> "approve", actor |-> u, id |-> i,
                  row |-> table[i]])
    BY <1>1, <1>2 DEF FlightOK, ApproveRead, IsOwner
  <2> QED
    BY <1>1, <1>2, <2>1, StartStep
<1>3. CASE /\ OrgRole[u] = "finance" /\ table[i].status = "pending_finance"
           /\ Start(r, "approve", u, i, "write",
                    [table[i] EXCEPT !.status = "approved"])
  <2> DEFINE row == [table[i] EXCEPT !.status = "approved"]
  <2>1. row \in Rows
    BY <1>1 DEF Rows, Statuses
  <2>2. /\ row.owner = table[i].owner /\ row.status = "approved"
        /\ row.target = table[i].target /\ row.amount = table[i].amount
    BY <1>1 DEF Rows
  <2>3. ManagerCleared(i, table[i])
    BY <1>3 DEF ChainInv, ReviewedContent, Reviewed
  <2>4. ManagerCleared(i, row)
    BY <2>2, <2>3 DEF ManagerCleared
  <2>5. FlightOK([pc |-> "write", op |-> "approve", actor |-> u, id |-> i,
                  row |-> row])
    BY <1>1, <1>3, <2>2, <2>4 DEF FlightOK, ApproveRead, IsOwner
  <2> QED
    BY <1>3, <2>1, <2>5, StartStep
<1> QED
  BY <1>2, <1>3 DEF ApproveRead

LEMMA ApproveRouteStep ==
  ASSUME ChainInv, NEW r \in Requests, ApproveRoute(r)
  PROVE  ChainInv'
<1>1. req[r] \in Flights /\ req[r] # Idle /\ FlightOK(req[r])
  BY BusyFlight DEF ChainInv, FlightsOK, ApproveRoute, At
<1>2. req[r].row \in Rows
  BY <1>1 DEF Flights
<1>3. CASE Advance(r, "write", "pending_finance")
  <2>1. FlightOK([req[r] EXCEPT !.pc = "write", !.row.status = "pending_finance"])
    BY <1>1, <1>2 DEF FlightOK, Flights, Rows, ApproveRoute, At
  <2> QED
    BY <1>1, <1>3, <2>1, AdvanceStep DEF Statuses
<1> QED
  BY <1>3, RefuseStep DEF ApproveRoute

LEMMA RejectStep ==
  ASSUME ChainInv, NEW r \in Requests, NEW u \in Users, NEW i \in Entries,
         RejectRead(r, u, i)
  PROVE  ChainInv'
<1> DEFINE row == [table[i] EXCEPT !.status = "rejected"]
<1>1. table[i] \in Rows /\ table[i] # Absent
  BY RowTyped DEF ChainInv, RejectRead
<1>2. row \in Rows
  BY <1>1 DEF Rows, Statuses
<1>3. row.owner = table[i].owner /\ row.status = "rejected"
  BY <1>1 DEF Rows
<1>4. FlightOK([pc |-> "write", op |-> "reject", actor |-> u, id |-> i, row |-> row])
  BY <1>1, <1>3 DEF FlightOK
<1> QED
  BY <1>2, <1>4, StartStep DEF RejectRead

(* The history only grows, and the copy of a row keeps its clearances.       *)
LEMMA ReviewedMonotone ==
  ASSUME NEW i, NEW row, Reviewed(i, row), cleared \subseteq cleared'
  PROVE  Reviewed(i, row)'
  BY DEF Reviewed, ManagerCleared, FinanceCleared, ClearedAs

LEMMA ReviewedCopy ==
  ASSUME NEW i, NEW old, NEW new, Reviewed(i, old), cleared \subseteq cleared',
         new.owner = old.owner, new.status = old.status,
         new.target = old.target, new.amount = old.amount
  PROVE  Reviewed(i, new)'
<1>1. Reviewed(i, new)
  <2>1. ManagerCleared(i, old) => ManagerCleared(i, new)
    BY DEF ManagerCleared
  <2>2. FinanceCleared(i, old) => FinanceCleared(i, new)
    BY DEF FinanceCleared
  <2> QED
    BY <2>1, <2>2 DEF Reviewed
<1> QED
  BY <1>1, ReviewedMonotone

(* The write of a sound flight leaves a reviewed row: this is where the whole *)
(* row is replaced, so the status and the content it was reviewed with arrive *)
(* together.                                                                  *)
LEMMA StoredReviewed ==
  ASSUME NEW q \in Flights, FlightOK(q), NEW new \in Rows,
         q.op # "delete",
         new.owner = q.row.owner, new.status = q.row.status,
         new.target = q.row.target, new.amount = q.row.amount,
         cleared' = cleared \cup ClearsOf(q)
  PROVE  Reviewed(q.id, new)'
<1>1. q.row \in Rows /\ q.actor \in Users
  BY DEF Flights
<1>2. CASE q.op \in {"update", "reject"}
  BY <1>2 DEF FlightOK, Reviewed
<1>3. CASE q.op = "receipt"
  <2>1. Reviewed(q.id, q.row)'
    BY <1>3, ReviewedMonotone DEF FlightOK
  <2> QED
    BY <2>1 DEF Reviewed, ManagerCleared, FinanceCleared
<1>4. CASE q.op = "submit"
  <2>1. CASE q.row.status # "pending_finance"
    BY <1>4, <2>1 DEF FlightOK, Reviewed
  <2>2. CASE q.row.status = "pending_finance"
    <3>1. ClearedAs(q.id, "manager", q.actor, new.target, new.amount)'
      BY <1>4, <2>2 DEF ClearsOf, ClearedAs
    <3>2. q.actor = new.owner
      BY <1>4 DEF FlightOK
    <3> QED
      BY <1>1, <2>2, <3>1, <3>2 DEF Reviewed, ManagerCleared
  <2> QED
    BY <2>1, <2>2
<1>5. CASE q.op = "approve" /\ q.row.status \in {"submitted", "pending_finance"}
  <2>1. OrgRole[q.actor] = "manager"
    BY <1>5 DEF FlightOK
  <2>2. ClearedAs(q.id, "manager", q.actor, new.target, new.amount)'
    BY <1>5 DEF ClearsOf, ClearedAs
  <2> QED
    BY <1>1, <1>5, <2>1, <2>2 DEF Reviewed, ManagerCleared
<1>6. CASE q.op = "approve" /\ q.row.status = "approved"
  <2>1. /\ OrgRole[q.actor] = "finance" /\ q.actor # new.owner
        /\ ManagerCleared(q.id, q.row)
    BY <1>6 DEF FlightOK
  <2>2. ManagerCleared(q.id, new)'
    BY <2>1 DEF ManagerCleared, ClearedAs
  <2>3. ClearedAs(q.id, "finance", q.actor, new.target, new.amount)'
    BY <1>6 DEF ClearsOf, ClearedAs
  <2> QED
    BY <1>1, <1>6, <2>1, <2>2, <2>3 DEF Reviewed, FinanceCleared
<1>7. \/ q.op \in {"update", "reject", "receipt", "submit"}
      \/ /\ q.op = "approve"
         /\ q.row.status \in {"submitted", "pending_finance", "approved"}
  BY DEF Flights, FlightOK
<1> QED
  BY <1>2, <1>3, <1>4, <1>5, <1>6, <1>7

LEMMA WriteStep ==
  ASSUME ChainInv, NEW r \in Requests, Write(r)
  PROVE  ChainInv'
<1> PICK q : q = req[r]
  OBVIOUS
<1> DEFINE left == IF q.op \in {"approve", "reject"}
                   THEN [q EXCEPT !.pc = "record"] ELSE Idle
<1>1. q \in Flights /\ FlightOK(q) /\ q.op # "delete"
  BY BusyFlight DEF ChainInv, FlightsOK, Write
<1>2. q.id \in Entries /\ q.row \in Rows /\ q.actor \in Users
  BY <1>1 DEF Flights
<1>3. table[q.id] \in Rows /\ q.row.owner = table[q.id].owner
  BY <1>1, <1>2 DEF FlightOK, ChainInv, ChainTypeOK
<1> PICK new : new = Stored(q)
  OBVIOUS
<1>4. /\ new \in Rows
      /\ new.owner = q.row.owner /\ new.status = q.row.status
      /\ new.target = q.row.target /\ new.amount = q.row.amount
  BY <1>2, <1>3 DEF Stored, Rows
<1>5. /\ table' = [table EXCEPT ![q.id] = new]
      /\ cleared' = cleared \cup ClearsOf(q)
      /\ req' = [req EXCEPT ![r] = left]
      /\ UNCHANGED <<route, approvals>>
  BY DEF Write, AfterWrite
<1>6. \A j \in Entries : table'[j] = IF j = q.id THEN new ELSE table[j]
  BY <1>2, <1>5 DEF ChainInv, ChainTypeOK
<1>7. \A j \in Entries : table[j] # Absent =>
         table'[j] # Absent /\ table'[j].owner = table[j].owner
  <2>1. new # Absent
    BY <1>4 DEF Absent, Rows, Statuses
  <2> QED
    BY <1>3, <1>4, <1>6, <2>1
<1>8. left \in Flights \cup {Idle}
  BY <1>1 DEF Flights
<1>9. ChainTypeOK'
  <2>1. ClearsOf(q) \subseteq Clearances
    BY <1>2 DEF ClearsOf, Clearances, Rows
  <2> QED
    BY <1>2, <1>4, <1>5, <1>8, <2>1 DEF ChainInv, ChainTypeOK
<1>10. ReviewedContent'
  <2> SUFFICES ASSUME NEW j \in Entries
               PROVE  Reviewed(j, table[j])'
    BY DEF ReviewedContent
  <2>1. CASE j = q.id
    <3>1. Reviewed(j, new)'
      BY <1>1, <1>4, <1>5, <2>1, StoredReviewed
    <3> QED
      BY <1>6, <2>1, <3>1 DEF Reviewed, ManagerCleared, FinanceCleared, ClearedAs
  <2>2. CASE j # q.id
    <3> PICK row : row = table[j]
      OBVIOUS
    <3>1. Reviewed(j, row) /\ table'[j] = row
      BY <1>6, <2>2 DEF ChainInv, ReviewedContent
    <3>2. Reviewed(j, row)'
      BY <1>5, <3>1, ReviewedMonotone
    <3> QED
      BY <3>1, <3>2 DEF Reviewed, ManagerCleared, FinanceCleared, ClearedAs
  <2> QED
    BY <2>1, <2>2
<1>11. ASSUME NEW p \in Flights, FlightOK(p)
       PROVE  FlightOK(p)'
  <2>1. p.id \in Entries
    BY <1>11 DEF Flights
  <2>2. table'[p.id] # Absent /\ table'[p.id].owner = table[p.id].owner
    BY <1>7, <1>11, <2>1 DEF FlightOK
  <2>3. cleared \subseteq cleared'
    BY <1>5
  <2> QED
    BY <1>11, <2>2, <2>3, ReviewedMonotone DEF FlightOK, ManagerCleared, ClearedAs
<1>12. FlightsOK'
  <2> SUFFICES ASSUME NEW s \in Requests, req'[s] # Idle
               PROVE  FlightOK(req[s])'
    BY DEF FlightsOK
  <2> PICK p : p = req'[s]
    OBVIOUS
  <2>1. p \in Flights /\ FlightOK(p)
    <3>1. CASE s # r
      <4>1. p = req[s]
        BY <1>5, <3>1 DEF ChainInv, ChainTypeOK
      <4> QED
        BY <4>1, FlightTyped DEF ChainInv, FlightsOK
    <3>2. CASE s = r
      <4>1. p = left
        BY <1>5, <3>2 DEF ChainInv, ChainTypeOK
      <4>2. p = [q EXCEPT !.pc = "record"]
        BY <4>1
      <4>3. q.op \in {"approve", "reject"}
        BY <3>2, <4>1
      <4> QED
        BY <1>1, <4>2, <4>3 DEF FlightOK, Flights
    <3> QED
      BY <3>1, <3>2
  <2>2. FlightOK(p)'
    BY <1>11, <2>1
  <2> QED
    BY <2>2 DEF FlightOK, Reviewed, ManagerCleared, FinanceCleared, ClearedAs
<1> QED
  BY <1>9, <1>10, <1>12 DEF ChainInv

(* The soft delete leaves everything the invariant speaks of but the flag.    *)
LEMMA EraseStep ==
  ASSUME ChainInv, NEW r \in Requests, Erase(r)
  PROVE  ChainInv'
<1> PICK i : i = req[r].id
  OBVIOUS
<1>1. i \in Entries /\ table[i] # Absent
  BY BusyFlight DEF ChainInv, FlightsOK, FlightOK, Flights, Erase, At
<1> PICK row : row = [table[i] EXCEPT !.deleted = TRUE]
  OBVIOUS
<1>2. /\ row \in Rows /\ row # Absent
      /\ row.owner = table[i].owner /\ row.status = table[i].status
      /\ row.target = table[i].target /\ row.amount = table[i].amount
  BY <1>1 DEF ChainInv, ChainTypeOK, Rows, Absent, Statuses
<1>3. /\ table' = [table EXCEPT ![i] = row]
      /\ req' = [req EXCEPT ![r] = Idle]
      /\ UNCHANGED <<route, approvals, cleared>>
  BY DEF Erase
<1>4. \A j \in Entries : table'[j] = IF j = i THEN row ELSE table[j]
  BY <1>3 DEF ChainInv, ChainTypeOK
<1>5. ChainTypeOK'
  BY <1>2, <1>3 DEF ChainInv, ChainTypeOK
<1>6. ReviewedContent'
  <2> SUFFICES ASSUME NEW j \in Entries
               PROVE  Reviewed(j, table[j])'
    BY DEF ReviewedContent
  <2> PICK old, new : old = table[j] /\ new = table'[j]
    OBVIOUS
  <2>1. Reviewed(j, old)
    BY DEF ChainInv, ReviewedContent
  <2>2. /\ new.owner = old.owner /\ new.status = old.status
        /\ new.target = old.target /\ new.amount = old.amount
    BY <1>2, <1>4
  <2>3. Reviewed(j, new)'
    BY <1>3, <2>1, <2>2, ReviewedCopy
  <2> QED
    BY <2>3 DEF Reviewed, ManagerCleared, FinanceCleared, ClearedAs
<1>7. FlightsOK'
  <2> SUFFICES ASSUME NEW s \in Requests, req'[s] # Idle
               PROVE  FlightOK(req[s])'
    BY DEF FlightsOK
  <2> PICK p : p = req'[s]
    OBVIOUS
  <2>1. p = req[s] /\ p \in Flights /\ FlightOK(p)
    BY <1>3, FlightTyped DEF ChainInv, ChainTypeOK, FlightsOK
  <2>2. p.id \in Entries /\ table'[p.id] # Absent
        /\ table'[p.id].owner = table[p.id].owner
    BY <1>2, <1>4, <2>1 DEF Flights, FlightOK
  <2>3. FlightOK(p)'
    BY <1>3, <2>1, <2>2, ReviewedMonotone DEF FlightOK, ManagerCleared, ClearedAs
  <2> QED
    BY <2>3 DEF FlightOK, Reviewed, ManagerCleared, FinanceCleared, ClearedAs
<1> QED
  BY <1>5, <1>6, <1>7 DEF ChainInv

(* Statements that leave the rows and the history of clearances alone.        *)
LEMMA RecordStep ==
  ASSUME ChainInv, NEW r \in Requests, Record(r)
  PROVE  ChainInv'
<1>1. req[r] \in Flights /\ req[r] # Idle /\ FlightOK(req[r])
  BY BusyFlight DEF ChainInv, FlightsOK, Record
<1>2. approvals' \subseteq Approvals
  <2>1. req[r].op \in {"approve", "reject"}
    BY <1>1 DEF Record, FlightOK
  <2> QED
    BY <1>1, <2>1 DEF Record, Flights, Approvals, ChainInv, ChainTypeOK
<1>3. req' = [req EXCEPT ![r] = Idle] /\ UNCHANGED <<table, route, cleared>>
  BY DEF Record
<1>4. ChainTypeOK'
  BY <1>2, <1>3 DEF ChainInv, ChainTypeOK
<1>5. ReviewedContent'
  BY <1>3 DEF ChainInv, ReviewedContent, Reviewed, ManagerCleared, FinanceCleared,
              ClearedAs
<1>6. FlightsOK'
  <2> SUFFICES ASSUME NEW s \in Requests, req'[s] # Idle
               PROVE  FlightOK(req[s])'
    BY DEF FlightsOK
  <2> PICK p : p = req'[s]
    OBVIOUS
  <2>1. p = req[s] /\ FlightOK(p)
    BY <1>3 DEF ChainInv, ChainTypeOK, FlightsOK
  <2>2. FlightOK(p)'
    BY <1>3, <2>1 DEF FlightOK, Reviewed, ManagerCleared, FinanceCleared, ClearedAs
  <2> QED
    BY <2>2 DEF FlightOK, Reviewed, ManagerCleared, FinanceCleared, ClearedAs
<1> QED
  BY <1>4, <1>5, <1>6 DEF ChainInv

LEMMA RerouteStep ==
  ASSUME ChainInv, NEW t \in Targets, NEW x \in Routes, Reroute(t, x)
  PROVE  ChainInv'
<1>1. ChainTypeOK'
  BY RouteAssumption DEF Reroute, ChainInv, ChainTypeOK
<1>2. ReviewedContent' /\ FlightsOK'
  BY DEF Reroute, ChainInv, ReviewedContent, FlightsOK, FlightOK, Reviewed,
         ManagerCleared, FinanceCleared, ClearedAs
<1> QED
  BY <1>1, <1>2 DEF ChainInv

(* The initial tables are empty and no request is in flight.                  *)
LEMMA ChainInitInv ==
  ASSUME ChainInit
  PROVE  ChainInv
<1>1. ChainTypeOK
  BY RouteAssumption DEF ChainInit, ChainTypeOK
<1>2. ReviewedContent /\ FlightsOK
  BY DEF ChainInit, ReviewedContent, Reviewed, FlightsOK, Absent
<1> QED
  BY <1>1, <1>2 DEF ChainInv

(* Most statements only move requests: the rows, the records and the history  *)
(* change in Create, Write, Erase and Record.                                 *)
LEMMA ReadsKeepRows ==
  ASSUME NEW r, NEW u, NEW i, NEW t, NEW a, NEW first,
         \/ UpdateRead(r, u, i, t, a) \/ DeleteRead(r, u, i)
         \/ SubmitRead(r, u, i, first) \/ ApproveRead(r, u, i) \/ RejectRead(r, u, i)
  PROVE  UNCHANGED <<table, approvals, cleared>>
<1>1. ASSUME NEW op, NEW pc, NEW row, Start(r, op, u, i, pc, row)
      PROVE  UNCHANGED <<table, approvals, cleared>>
  BY <1>1 DEF Start
<1> QED
  BY <1>1 DEF UpdateRead, DeleteRead, SubmitRead, ApproveRead, RejectRead

LEMMA RoutesKeepRows ==
  ASSUME NEW r, SubmitRoute(r) \/ ApproveRoute(r) \/ Abort(r)
  PROVE  UNCHANGED <<table, approvals, cleared>>
<1>1. ASSUME NEW pc, NEW status, Advance(r, pc, status) \/ Refuse(r)
      PROVE  UNCHANGED <<table, approvals, cleared>>
  BY <1>1 DEF Advance, Refuse
<1> QED
  BY <1>1 DEF SubmitRoute, ApproveRoute, Abort

(* The row a write leaves, and the one a deletion leaves.                      *)
LEMMA WrittenRow ==
  ASSUME ChainInv, NEW r \in Requests, Write(r)
  PROVE  LET q == req[r]
             new == Stored(q)
         IN  /\ q \in Flights /\ FlightOK(q) /\ q.id \in Entries
             /\ q.row \in Rows /\ table[q.id] \in Rows
             /\ new \in Rows /\ new # Absent
             /\ new.owner = table[q.id].owner /\ new.deleted = table[q.id].deleted
             /\ new.status = q.row.status /\ new.receipt = q.row.receipt
             /\ new.target = q.row.target /\ new.amount = q.row.amount
             /\ \A j \in Entries : table'[j] = IF j = q.id THEN new ELSE table[j]
<1>1. req[r] \in Flights /\ FlightOK(req[r])
  BY BusyFlight DEF ChainInv, FlightsOK, Write
<1> PICK q : q = req[r]
  OBVIOUS
<1>2. q.id \in Entries /\ q.row \in Rows /\ table[q.id] \in Rows
  BY <1>1 DEF Flights, FlightOK, ChainInv, ChainTypeOK
<1> PICK new : new = Stored(q)
  OBVIOUS
<1>3. /\ new \in Rows /\ new # Absent
      /\ new.owner = table[q.id].owner /\ new.deleted = table[q.id].deleted
      /\ new.status = q.row.status /\ new.receipt = q.row.receipt
      /\ new.target = q.row.target /\ new.amount = q.row.amount
  BY <1>2 DEF Stored, Rows, Absent, Statuses
<1>4. \A j \in Entries : table'[j] = IF j = q.id THEN new ELSE table[j]
  BY <1>2 DEF Write, ChainInv, ChainTypeOK
<1> QED
  BY <1>1, <1>2, <1>3, <1>4

LEMMA ErasedRow ==
  ASSUME ChainInv, NEW r \in Requests, Erase(r)
  PROVE  LET q == req[r]
             new == [table[q.id] EXCEPT !.deleted = TRUE]
         IN  /\ q \in Flights /\ FlightOK(q) /\ q.id \in Entries
             /\ table[q.id] \in Rows
             /\ new \in Rows /\ new # Absent /\ new.owner = table[q.id].owner
             /\ new.status = table[q.id].status /\ new.deleted
             /\ new.target = table[q.id].target /\ new.amount = table[q.id].amount
             /\ \A j \in Entries : table'[j] = IF j = q.id THEN new ELSE table[j]
<1>1. req[r] \in Flights /\ FlightOK(req[r])
  BY BusyFlight DEF ChainInv, FlightsOK, Erase, At
<1> PICK q : q = req[r]
  OBVIOUS
<1>2. q.id \in Entries /\ table[q.id] \in Rows
  BY <1>1 DEF Flights, FlightOK, ChainInv, ChainTypeOK
<1> PICK new : new = [table[q.id] EXCEPT !.deleted = TRUE]
  OBVIOUS
<1>3. /\ new \in Rows /\ new # Absent /\ new.owner = table[q.id].owner
      /\ new.status = table[q.id].status /\ new.deleted
      /\ new.target = table[q.id].target /\ new.amount = table[q.id].amount
  BY <1>2 DEF Rows, Absent, Statuses
<1>4. \A j \in Entries : table'[j] = IF j = q.id THEN new ELSE table[j]
  BY <1>2 DEF Erase, ChainInv, ChainTypeOK
<1> QED
  BY <1>1, <1>2, <1>3, <1>4

-----------------------------------------------------------------------------
(* The expense service: the same statements and the receipt upload, which may *)
(* write a row at any status.                                                 *)
Expense == INSTANCE Expenses

(* The handlers of the expense service are the ones of the chain.             *)
LEMMA SameReads ==
  ASSUME NEW r, NEW u, NEW i, NEW t, NEW a
  PROVE  /\ Expense!CreateExpense(u, i, t, a) <=> Create(u, i, t, a)
         /\ Expense!UpdateExpense(r, u, i, t, a) <=> UpdateRead(r, u, i, t, a)
         /\ Expense!DeleteExpense(r, u, i) <=> DeleteRead(r, u, i)
         /\ Expense!SubmitExpense(r, u, i) <=> SubmitRead(r, u, i, "route")
         /\ Expense!ApproveExpense(r, u, i) <=> ApproveRead(r, u, i)
         /\ Expense!RejectExpense(r, u, i) <=> RejectRead(r, u, i)
<1>1. \A op, pc, row : Expense!Start(r, op, u, i, pc, row) <=> Start(r, op, u, i, pc, row)
  BY DEF Expense!Start, Start, Expense!Idle, Idle
<1>2. Expense!CreateExpense(u, i, t, a) <=> Create(u, i, t, a)
  BY DEF Expense!CreateExpense, Expense!Create, Create, Expense!Absent, Absent
<1>3. Expense!UpdateExpense(r, u, i, t, a) <=> UpdateRead(r, u, i, t, a)
  BY <1>1 DEF Expense!UpdateExpense, Expense!UpdateRead, UpdateRead, Expense!CanEdit, CanEdit, Expense!IsOwner, IsOwner
<1>4. Expense!DeleteExpense(r, u, i) <=> DeleteRead(r, u, i)
  BY <1>1 DEF Expense!DeleteExpense, Expense!DeleteRead, DeleteRead, Expense!IsOwner, IsOwner
<1>5. Expense!SubmitExpense(r, u, i) <=> SubmitRead(r, u, i, "route")
  BY <1>1 DEF Expense!SubmitExpense, Expense!SubmitRead, SubmitRead, Expense!CanSubmit, CanSubmit, Expense!IsOwner, IsOwner
<1>6. Expense!ApproveExpense(r, u, i) <=> ApproveRead(r, u, i)
  BY <1>1 DEF Expense!ApproveExpense, Expense!ApproveRead, ApproveRead, Expense!IsOwner, IsOwner, Expense!Absent, Absent
<1>7. Expense!RejectExpense(r, u, i) <=> RejectRead(r, u, i)
  BY <1>1 DEF Expense!RejectExpense, Expense!RejectRead, RejectRead
<1> QED
  BY <1>2, <1>3, <1>4, <1>5, <1>6, <1>7

LEMMA SameSteps ==
  ASSUME NEW r, NEW t, NEW x
  PROVE  /\ Expense!SubmitRoute(r) <=> SubmitRoute(r)
         /\ Expense!ApproveRoute(r) <=> ApproveRoute(r)
         /\ Expense!WriteExpense(r) <=> Write(r) \/ Erase(r)
         /\ Expense!RecordExpense(r) <=> Record(r)
         /\ Expense!Abort(r) <=> Abort(r)
         /\ Expense!Reroute(t, x) <=> Reroute(t, x)
<1>1. /\ Expense!Refuse(r) <=> Refuse(r)
      /\ \A pc, status : Expense!Advance(r, pc, status) <=> Advance(r, pc, status)
      /\ \A op, pc : Expense!At(r, op, pc) <=> At(r, op, pc)
  BY DEF Expense!Refuse, Refuse, Expense!Idle, Idle, Expense!Advance, Advance, Expense!At, At
<1>2. Expense!SubmitRoute(r) <=> SubmitRoute(r)
  BY <1>1 DEF Expense!SubmitRoute, SubmitRoute, Expense!SubmittedStatus, SubmittedStatus
<1>3. Expense!ApproveRoute(r) <=> ApproveRoute(r)
  BY <1>1 DEF Expense!ApproveRoute, ApproveRoute, Expense!MayManage, MayManage
<1>4. Expense!Write(r) <=> Write(r)
  BY DEF Expense!Write, Write, Expense!Stored, Stored, Expense!ClearsOf, ClearsOf, Expense!AfterWrite, AfterWrite,
         Expense!Idle, Idle
<1>5. Expense!Erase(r) <=> Erase(r)
  BY <1>1 DEF Expense!Erase, Erase, Expense!Idle, Idle
<1>6. Expense!Record(r) <=> Record(r)
  BY DEF Expense!Record, Record, Expense!Idle, Idle
<1>7. Expense!Abort(r) <=> Abort(r)
  BY <1>1 DEF Expense!Abort, Abort, Expense!Idle, Idle
<1>8. Expense!Reroute(t, x) <=> Reroute(t, x)
  BY DEF Expense!Reroute, Reroute
<1> QED
  BY <1>2, <1>3, <1>4, <1>5, <1>6, <1>7, <1>8 DEF Expense!WriteExpense, Expense!RecordExpense

(* The upload starts from the row as it is, so what its copy shows is already *)
(* reviewed, and stays so until the copy is written.                          *)
LEMMA ReceiptStep ==
  ASSUME ChainInv, NEW r \in Requests, NEW u \in Users, NEW i \in Entries,
         NEW url \in Receipts, Expense!SetReceiptURL(r, u, i, url)
  PROVE  ChainInv'
<1> PICK old, row : old = table[i] /\ row = [table[i] EXCEPT !.receipt = url]
  OBVIOUS
<1>1. old \in Rows /\ table[i] # Absent
  BY DEF ChainInv, ChainTypeOK, Expense!SetReceiptURL, Expense!Absent, Absent
<1>2. /\ row \in Rows
      /\ row.owner = old.owner /\ row.status = old.status
      /\ row.target = old.target /\ row.amount = old.amount
  BY <1>1 DEF Rows
<1>3. Reviewed(i, row)
  <2>1. Reviewed(i, old)
    BY DEF ChainInv, ReviewedContent
  <2>2. ManagerCleared(i, old) => ManagerCleared(i, row)
    BY <1>2 DEF ManagerCleared
  <2>3. FinanceCleared(i, old) => FinanceCleared(i, row)
    BY <1>2 DEF FinanceCleared
  <2> QED
    BY <1>2, <2>1, <2>2, <2>3 DEF Reviewed
<1>4. FlightOK([pc |-> "write", op |-> "receipt", actor |-> u, id |-> i,
                row |-> row])
  BY <1>1, <1>2, <1>3 DEF FlightOK
<1> QED
  BY <1>2, <1>4, StartStep DEF Expense!SetReceiptURL, Expense!Start, Start, Expense!Idle, Idle

(* A recalculation changes amounts only, and what the stages had passed of a  *)
(* row is carried over to the amount it now has.                              *)
LEMMA CarriedReviewed ==
  ASSUME NEW i \in Entries, NEW old, NEW new, Reviewed(i, old), table[i] = old,
         new.owner = old.owner, new.status = old.status, new.target = old.target,
         Expense!CarriedOver(i, new.amount) \subseteq cleared',
         cleared \subseteq Clearances
  PROVE  Reviewed(i, new)'
<1>1. ASSUME NEW stage, NEW m, ClearedAs(i, stage, m, old.target, old.amount)
      PROVE  ClearedAs(i, stage, m, new.target, new.amount)'
  <2> DEFINE c == [id |-> i, stage |-> stage, by |-> m,
                   target |-> old.target, amount |-> old.amount]
  <2>1. [c EXCEPT !.amount = new.amount] \in Expense!CarriedOver(i, new.amount)
    BY <1>1 DEF ClearedAs, Expense!CarriedOver
  <2>2. [c EXCEPT !.amount = new.amount]
           = [id |-> i, stage |-> stage, by |-> m, target |-> new.target, amount |-> new.amount]
    OBVIOUS
  <2> QED
    BY <2>1, <2>2 DEF ClearedAs
<1>2. ManagerCleared(i, old) => ManagerCleared(i, new)'
  BY <1>1 DEF ManagerCleared
<1>3. FinanceCleared(i, old) => FinanceCleared(i, new)'
  BY <1>1 DEF FinanceCleared
<1> QED
  BY <1>2, <1>3 DEF Reviewed

LEMMA RecalculateStep ==
  ASSUME ChainInv, NEW u \in Users,
         NEW is \in SUBSET {i \in Entries : table[i] # Absent}, NEW amount \in [is -> Amounts],
         Expense!RecalculateMileage(u, is, amount)
  PROVE  ChainInv'
<1> DEFINE changed(i) == [table[i] EXCEPT !.amount = amount[i]]
           carried == UNION {Expense!CarriedOver(i, amount[i]) : i \in is}
<1>1. \A i \in Entries : table'[i] = IF i \in is THEN changed(i) ELSE table[i]
  BY DEF Expense!RecalculateMileage
<1>2. ASSUME NEW i \in is
      PROVE  /\ table[i] \in Rows /\ changed(i) \in Rows /\ changed(i) # Absent
             /\ changed(i).owner = table[i].owner /\ changed(i).status = table[i].status
             /\ changed(i).target = table[i].target /\ changed(i).amount = amount[i]
  <2>1. table[i] \in Rows /\ amount[i] \in Amounts
    BY DEF ChainInv, ChainTypeOK
  <2> QED
    BY <2>1 DEF Rows, Absent, Statuses
<1>3. cleared' = cleared \cup carried /\ UNCHANGED <<route, req, approvals>>
  BY DEF Expense!RecalculateMileage
<1>4. carried \subseteq Clearances
  <2> SUFFICES ASSUME NEW i \in is, NEW c \in cleared
               PROVE  [c EXCEPT !.amount = amount[i]] \in Clearances
    BY DEF Expense!CarriedOver
  <2>1. c \in Clearances /\ amount[i] \in Amounts
    BY DEF ChainInv, ChainTypeOK
  <2> QED
    BY <2>1 DEF Clearances
<1>5. ChainTypeOK'
  <2>1. table' \in [Entries -> Rows \cup {Absent}]
    <3>1. \A i \in Entries : table'[i] \in Rows \cup {Absent}
      BY <1>1, <1>2 DEF ChainInv, ChainTypeOK
    <3>2. table' = [i \in Entries |-> table'[i]]
      BY DEF Expense!RecalculateMileage
    <3> QED
      BY <3>1, <3>2
  <2> QED
    BY <1>3, <1>4, <2>1 DEF ChainInv, ChainTypeOK
<1>6. ASSUME NEW i \in Entries PROVE Reviewed(i, table[i])'
  <2> PICK old, new : old = table[i] /\ new = table'[i]
    OBVIOUS
  <2>1. Reviewed(i, old)
    BY DEF ChainInv, ReviewedContent
  <2>2. Reviewed(i, new)'
    <3>1. CASE i \notin is
      BY <1>1, <1>3, <2>1, <3>1, ReviewedMonotone
    <3>2. CASE i \in is
      <4>1. /\ new.owner = old.owner /\ new.status = old.status /\ new.target = old.target
            /\ new.amount = amount[i]
        BY <1>1, <1>2, <3>2
      <4>2. Expense!CarriedOver(i, new.amount) \subseteq cleared'
        BY <1>3, <3>2, <4>1
      <4>3. cleared \subseteq Clearances
        BY DEF ChainInv, ChainTypeOK
      <4> QED
        BY <2>1, <4>1, <4>2, <4>3, CarriedReviewed
    <3> QED
      BY <3>1, <3>2
  <2> QED
    BY <2>2 DEF Reviewed, ManagerCleared, FinanceCleared, ClearedAs
<1>7. FlightsOK'
  <2>1. ASSUME NEW q \in Flights, FlightOK(q) PROVE FlightOK(q)'
    <3>1. q.id \in Entries
      BY DEF Flights
    <3>2. table[q.id] # Absent =>
             table'[q.id] # Absent /\ table'[q.id].owner = table[q.id].owner
      BY <1>1, <1>2, <3>1
    <3>3. ManagerCleared(q.id, q.row) => ManagerCleared(q.id, q.row)'
      BY <1>3 DEF ManagerCleared, ClearedAs
    <3>4. Reviewed(q.id, q.row) => Reviewed(q.id, q.row)'
      BY <1>3, ReviewedMonotone
    <3> QED
      BY <2>1, <3>2, <3>3, <3>4 DEF FlightOK
  <2>2. \A r \in Requests : req[r] # Idle => req[r] \in Flights /\ FlightOK(req[r])
    BY FlightTyped DEF ChainInv, FlightsOK
  <2>3. \A r \in Requests : req[r] # Idle => \E q \in Flights : q = req[r] /\ FlightOK(q)'
    BY <2>1, <2>2
  <2>4. ASSUME NEW r \in Requests, req[r] # Idle PROVE FlightOK(req[r])'
    <3>1. PICK q \in Flights : q = req'[r] /\ FlightOK(q)'
      BY <1>3, <2>3, <2>4
    <3> QED
      BY <3>1 DEF FlightOK, Reviewed, ManagerCleared, FinanceCleared, ClearedAs
  <2> QED
    BY <1>3, <2>4 DEF FlightsOK, Idle
<1> QED
  BY <1>5, <1>6, <1>7 DEF ChainInv, ReviewedContent

LEMMA ExpensesStep ==
  ASSUME ChainInv, Expense!Next
  PROVE  ChainInv'
<1>1. CASE \E u \in Users, i \in Entries, t \in Targets, a \in Amounts :
             \/ Expense!CreateExpense(u, i, t, a)
             \/ \E r \in Requests : Expense!UpdateExpense(r, u, i, t, a)
  <2>1. PICK u \in Users, i \in Entries, t \in Targets, a \in Amounts :
            Create(u, i, t, a) \/ \E r \in Requests : UpdateRead(r, u, i, t, a)
    BY <1>1, SameReads
  <2> QED
    BY <2>1, CreateStep, UpdateStep
<1>2. CASE \E r \in Requests, u \in Users, i \in Entries :
             \/ Expense!DeleteExpense(r, u, i) \/ Expense!SubmitExpense(r, u, i)
             \/ Expense!ApproveExpense(r, u, i) \/ Expense!RejectExpense(r, u, i)
             \/ \E url \in Receipts \ {NoReceipt} : Expense!SetReceiptURL(r, u, i, url)
  <2>1. PICK r \in Requests, u \in Users, i \in Entries :
            \/ DeleteRead(r, u, i) \/ SubmitRead(r, u, i, "route")
            \/ ApproveRead(r, u, i) \/ RejectRead(r, u, i)
            \/ \E url \in Receipts \ {NoReceipt} : Expense!SetReceiptURL(r, u, i, url)
    BY <1>2, SameReads
  <2> QED
    BY <2>1, DeleteStep, SubmitStep, ApproveStep, RejectStep, ReceiptStep
<1>3. CASE \E r \in Requests :
             \/ Expense!SubmitRoute(r) \/ Expense!ApproveRoute(r) \/ Expense!WriteExpense(r)
             \/ Expense!RecordExpense(r) \/ Expense!Abort(r)
  <2>1. PICK r \in Requests :
            SubmitRoute(r) \/ ApproveRoute(r) \/ Write(r) \/ Erase(r) \/ Record(r) \/ Abort(r)
    BY <1>3, SameSteps
  <2> QED
    BY <2>1, SubmitRouteStep, ApproveRouteStep, WriteStep, EraseStep, RecordStep, RefuseStep
    DEF Abort
<1>4. CASE \E t \in Targets, x \in Routes : Expense!Reroute(t, x)
  <2>1. PICK t \in Targets, x \in Routes : Reroute(t, x)
    BY <1>4, SameSteps
  <2> QED
    BY <2>1, RerouteStep
<1>5. CASE \E u \in Users, is \in SUBSET {i \in Entries : table[i] # Expense!Absent} :
             \E amount \in [is -> Amounts] : Expense!RecalculateMileage(u, is, amount)
  BY <1>5, RecalculateStep DEF Expense!Absent, Absent
<1> QED
  BY <1>1, <1>2, <1>3, <1>4, <1>5 DEF Expense!Next

LEMMA ExpensesInductive == Expense!Spec => []ChainInv
<1>1. Expense!Init => ChainInv
  BY ChainInitInv DEF Expense!Init, Expense!ChainInit, ChainInit, Expense!Absent, Absent, Expense!Idle, Idle
<1>2. ChainInv /\ [Expense!Next]_(Expense!chainVars) => ChainInv'
  <2> SUFFICES ASSUME ChainInv, [Expense!Next]_(Expense!chainVars)
               PROVE  ChainInv'
    OBVIOUS
  <2>1. CASE Expense!Next
    BY <2>1, ExpensesStep
  <2>2. CASE UNCHANGED Expense!chainVars
    <3>1. UNCHANGED <<table, route, req, approvals, cleared>>
      BY <2>2 DEF Expense!chainVars
    <3> QED
      BY <3>1 DEF ChainInv, ChainTypeOK, FlightsOK, FlightOK, ReviewedContent,
                  Reviewed, ManagerCleared, FinanceCleared, ClearedAs
  <2> QED
    BY <2>1, <2>2
<1> QED
  BY <1>1, <1>2, PTL DEF Expense!Spec

(* Every reachable state of the expense service has the declared types.       *)
THEOREM ExpensesTyped == Expense!Spec => []ChainTypeOK
  BY ExpensesInductive, PTL DEF ChainInv

(* Receipt uploads and recalculations of the mileage included, an approved    *)
(* expense shows the booking that both stages passed, and the amount they     *)
(* passed or one that a recalculation put in its place.                       *)
THEOREM ExpensesReviewed == Expense!Spec => []ReviewedOrRecalculated
  BY ExpensesInductive, PTL DEF ChainInv, ReviewedOrRecalculated
=============================================================================
