-------------------------- MODULE TimeEntriesProofs --------------------------
(* The time entry service with any number of users, entries and requests in   *)
(* flight: type correctness, the review of approved content and the approval  *)
(* trail.  With one request at a time it implements the lifecycle, and an     *)
(* approved entry is immutable.                                               *)
EXTENDS TimeEntries, ApprovalChainProofs

IInv == TypeOK /\ ChainInv

LEMMA TicketCheckStep ==
  ASSUME ChainInv, NEW r \in Requests, SubmitTicketCheck(r)
  PROVE  ChainInv'
<1>1. req[r] \in Flights /\ req[r] # Idle /\ FlightOK(req[r])
  BY BusyFlight DEF ChainInv, FlightsOK, SubmitTicketCheck, At
<1>2. req[r].row \in Rows /\ req[r].row.status \in Statuses
  BY <1>1 DEF Flights, Rows
<1>3. CASE Advance(r, "route", req[r].row.status)
  <2>1. FlightOK([req[r] EXCEPT !.pc = "route", !.row.status = req[r].row.status])
    BY <1>1, <1>2 DEF FlightOK, Flights, Rows, SubmitTicketCheck, At
  <2> QED
    BY <1>1, <1>2, <1>3, <2>1, AdvanceStep
<1> QED
  BY <1>3, RefuseStep DEF SubmitTicketCheck

LEMMA StatementStep ==
  ASSUME ChainInv, Statement
  PROVE  ChainInv'
<1>1. ASSUME NEW u \in Users, NEW i \in Entries, NEW t \in Targets, NEW a \in Amounts,
             Create(u, i, t, a)
      PROVE  ChainInv'
  BY <1>1, CreateStep
<1>2. ASSUME NEW u \in Users, NEW i \in Entries, NEW t \in Targets, NEW a \in Amounts,
             NEW r \in Requests, UpdateRead(r, u, i, t, a)
      PROVE  ChainInv'
  BY <1>2, UpdateStep
<1>3. ASSUME NEW r \in Requests, NEW u \in Users, NEW i \in Entries,
             \/ DeleteRead(r, u, i)
             \/ SubmitRead(r, u, i, "ticket")
             \/ ApproveRead(r, u, i)
             \/ RejectRead(r, u, i)
      PROVE  ChainInv'
  BY <1>3, DeleteStep, SubmitStep, ApproveStep, RejectStep
<1>4. ASSUME NEW r \in Requests,
             \/ SubmitTicketCheck(r) \/ SubmitRoute(r) \/ ApproveRoute(r)
             \/ Write(r) \/ Erase(r) \/ Record(r) \/ Abort(r)
      PROVE  ChainInv'
  BY <1>4, TicketCheckStep, SubmitRouteStep, ApproveRouteStep, WriteStep, EraseStep,
     RecordStep, RefuseStep DEF Abort
<1>5. ASSUME NEW t \in Targets, NEW x \in Routes, Reroute(t, x)
      PROVE  ChainInv'
  BY <1>5, RerouteStep
<1> QED
  BY <1>1, <1>2, <1>3, <1>4, <1>5 DEF Statement

(* The statements that change rows, records or the history, and the rest.     *)
LEMMA StatementKinds ==
  ASSUME Statement
  PROVE  \/ \E u \in Users, i \in Entries, t \in Targets, a \in Amounts : Create(u, i, t, a)
         \/ \E r \in Requests : Write(r) \/ Erase(r) \/ Record(r)
         \/ UNCHANGED <<table, approvals, cleared>>
<1>1. ASSUME NEW r \in Requests, SubmitTicketCheck(r)
      PROVE  UNCHANGED <<table, approvals, cleared>>
  BY <1>1 DEF SubmitTicketCheck, Advance, Refuse
<1>2. ASSUME NEW t, NEW x, Reroute(t, x)
      PROVE  UNCHANGED <<table, approvals, cleared>>
  BY <1>2 DEF Reroute
<1> QED
  BY <1>1, <1>2, ReadsKeepRows, RoutesKeepRows DEF Statement

(* The invariant of the chain is inductive for the time entry service, and    *)
(* with it the types: only DismissedBecomes touches what the chain does not    *)
(* own.                                                                       *)
LEMMA TimeEntriesInductive ==
  Spec => []IInv
<1>1. Init => IInv
  BY ChainInitInv DEF Init, IInv, TypeOK, ChainInv
<1>2. IInv /\ [Next]_vars => IInv'
  <2> SUFFICES ASSUME IInv, [Next]_vars
               PROVE  IInv'
    OBVIOUS
  <2>1. CASE Statement /\ UNCHANGED dismissed
    BY <2>1, StatementStep DEF IInv, TypeOK, ChainInv
  <2>2. CASE UNCHANGED chainVars /\ dismissed' \subseteq Targets
    <3>1. UNCHANGED <<table, route, req, approvals, cleared>>
      BY <2>2 DEF chainVars
    <3> QED
      BY <2>2, <3>1 DEF IInv, TypeOK, ChainInv, ChainTypeOK, FlightsOK, FlightOK,
                        ReviewedContent, Reviewed, ManagerCleared, FinanceCleared,
                        ClearedAs
  <2> QED
    BY <2>1, <2>2 DEF Next, vars, DismissedBecomes, chainVars, IInv, TypeOK
<1> QED
  BY <1>1, <1>2, PTL DEF Spec

(* Every reachable state of the time entry service has the declared types.    *)
THEOREM TimeEntriesTyped == Spec => []TypeOK
  BY TimeEntriesInductive, PTL DEF IInv

(* No interleaving of edits, submissions, approvals, rejections, aborted      *)
(* requests and changes of the working groups lets an approved time entry     *)
(* show a booking or hours that the two stages did not pass: the handlers     *)
(* write the reviewed copy back, they do not flip a status.                   *)
THEOREM TimeEntriesReviewed == Spec => []ReviewedContent
  BY TimeEntriesInductive, PTL DEF IInv, ChainInv

-----------------------------------------------------------------------------
(* The approval trail.  A clearance belongs to a row that exists, and owners   *)
(* never change, so the owner it is compared with is the one it was made under.*)

(* A row that exists keeps existing and keeps its owner, whatever statement    *)
(* comes next.                                                                 *)
LEMMA OwnersKept ==
  ASSUME ChainInv, Statement
  PROVE  \A i \in Entries : table[i] # Absent =>
             table'[i] # Absent /\ table'[i].owner = table[i].owner
<1>1. ASSUME NEW u, NEW i, NEW t, NEW a, Create(u, i, t, a)
      PROVE  \A j \in Entries : table[j] # Absent => table'[j] = table[j]
  BY <1>1 DEF Create, ChainInv, ChainTypeOK
<1>2. ASSUME NEW r \in Requests, Write(r) \/ Erase(r)
      PROVE  \A j \in Entries : table[j] # Absent =>
                 table'[j] # Absent /\ table'[j].owner = table[j].owner
  BY <1>2, WrittenRow, ErasedRow
<1> QED
  BY <1>1, <1>2, StatementKinds DEF Record

(* A deleted row stays deleted, also when a stale copy is written over it.     *)
LEMMA DeletedForGood ==
  ASSUME ChainInv, Statement
  PROVE  \A i \in Entries : table[i] # Absent /\ table[i].deleted =>
             table'[i] # Absent /\ table'[i].deleted
<1>1. ASSUME NEW u, NEW i, NEW t, NEW a, Create(u, i, t, a)
      PROVE  \A j \in Entries : table[j] # Absent => table'[j] = table[j]
  BY <1>1 DEF Create, ChainInv, ChainTypeOK
<1>2. ASSUME NEW r \in Requests, Write(r) \/ Erase(r)
      PROVE  \A j \in Entries : table[j] # Absent /\ table[j].deleted =>
                 table'[j] # Absent /\ table'[j].deleted
  BY <1>2, WrittenRow, ErasedRow
<1> QED
  BY <1>1, <1>2, StatementKinds DEF Record

(* A request that has written and not yet recorded goes nowhere else.          *)
LEMMA RecordComes ==
  ASSUME ChainInv, ~Aborts, Statement, NEW s \in Requests, req[s].pc = "record"
  PROVE  Record(s) \/ req'[s] = req[s]
<1>1. ASSUME NEW r \in Requests, NEW q, req[r].pc # "record", req' = [req EXCEPT ![r] = q]
      PROVE  req'[s] = req[s]
  BY <1>1 DEF ChainInv, ChainTypeOK
<1>2. ASSUME NEW r \in Requests, NEW op, NEW u, NEW i, NEW pc, NEW row,
             Start(r, op, u, i, pc, row)
      PROVE  req'[s] = req[s]
  BY <1>1, <1>2 DEF Start, Idle
<1>3. ASSUME NEW r \in Requests, NEW pc, NEW status, req[r].pc # "record",
             Advance(r, pc, status) \/ Refuse(r)
      PROVE  req'[s] = req[s]
  BY <1>1, <1>3 DEF Advance, Refuse, ChainInv, ChainTypeOK
<1>4. ASSUME NEW r \in Requests,
             \/ SubmitTicketCheck(r) \/ SubmitRoute(r) \/ ApproveRoute(r)
      PROVE  req'[s] = req[s]
  BY <1>3, <1>4 DEF SubmitTicketCheck, SubmitRoute, ApproveRoute, At
<1>5. ASSUME NEW r \in Requests, NEW u, NEW i, NEW t, NEW a,
             \/ UpdateRead(r, u, i, t, a) \/ DeleteRead(r, u, i)
             \/ SubmitRead(r, u, i, "ticket") \/ ApproveRead(r, u, i) \/ RejectRead(r, u, i)
      PROVE  req'[s] = req[s]
  BY <1>2, <1>5 DEF UpdateRead, DeleteRead, SubmitRead, ApproveRead, RejectRead
<1>6. ASSUME NEW r \in Requests, Write(r) \/ Erase(r)
      PROVE  req'[s] = req[s]
  BY <1>1, <1>6 DEF Write, Erase, At
<1>7. ASSUME NEW r \in Requests, Record(r), r # s
      PROVE  req'[s] = req[s]
  BY <1>7 DEF Record, ChainInv, ChainTypeOK
<1>8. CASE \E u \in Users, i \in Entries, t \in Targets, a \in Amounts :
             \/ Create(u, i, t, a)
             \/ \E r \in Requests : UpdateRead(r, u, i, t, a)
  BY <1>5, <1>8 DEF Create
<1>9. CASE \E r \in Requests, u \in Users, i \in Entries :
             \/ DeleteRead(r, u, i) \/ SubmitRead(r, u, i, "ticket")
             \/ ApproveRead(r, u, i) \/ RejectRead(r, u, i)
  BY <1>5, <1>9
<1>10. CASE \E r \in Requests :
             \/ SubmitTicketCheck(r) \/ SubmitRoute(r) \/ ApproveRoute(r)
             \/ Write(r) \/ Erase(r) \/ Record(r) \/ Abort(r)
  BY <1>4, <1>6, <1>7, <1>10 DEF Abort
<1>11. CASE \E t \in Targets, x \in Routes : Reroute(t, x)
  BY <1>11 DEF Reroute
<1> QED
  BY <1>8, <1>9, <1>10, <1>11 DEF Statement

(* What TrailComplete asks of one clearance.                                   *)
Traced(c) ==
    \/ c.by = table[c.id].owner
    \/ [id |-> c.id, action |-> "approve", by |-> c.by] \in approvals
    \/ \E r \in Requests : /\ At(r, "approve", "record")
                           /\ req[r].id = c.id /\ req[r].actor = c.by

(* A clearance that is traced stays traced: its record comes before its        *)
(* request goes on to anything else.                                           *)
LEMMA TracedStays ==
  ASSUME ChainInv, ~Aborts, Statement, NEW c \in cleared,
         Traced(c), table[c.id] # Absent
  PROVE  Traced(c)' /\ (table[c.id] # Absent)'
<1>1. c.id \in Entries
  BY DEF ChainInv, ChainTypeOK, Clearances
<1>2. table'[c.id] # Absent /\ table'[c.id].owner = table[c.id].owner
  BY <1>1, OwnersKept
<1>3. approvals \subseteq approvals'
  <2>1. ASSUME NEW r, Record(r) PROVE approvals \subseteq approvals'
    BY <2>1 DEF Record
  <2>2. ASSUME NEW r, Write(r) \/ Erase(r) PROVE approvals' = approvals
    BY <2>2 DEF Write, Erase
  <2>3. ASSUME NEW u, NEW i, NEW t, NEW a, Create(u, i, t, a) PROVE approvals' = approvals
    BY <2>3 DEF Create
  <2> QED
    BY <2>1, <2>2, <2>3, StatementKinds
<1>4. CASE c.by = table[c.id].owner \/ [id |-> c.id, action |-> "approve", by |-> c.by] \in approvals
  BY <1>2, <1>3, <1>4 DEF Traced
<1>5. ASSUME NEW s \in Requests, At(s, "approve", "record"),
             req[s].id = c.id, req[s].actor = c.by
      PROVE  Traced(c)'
  <2>1. CASE req'[s] = req[s]
    BY <1>5, <2>1 DEF Traced, At
  <2>2. CASE Record(s)
    BY <1>5, <2>2 DEF Record, At, Traced
  <2> QED
    BY <1>5, <2>1, <2>2, RecordComes DEF At
<1> QED
  BY <1>2, <1>4, <1>5 DEF Traced

(* A write that clears a stage leaves its request on the way to the record, or *)
(* was made by the owner.                                                      *)
LEMMA ClearedTraced ==
  ASSUME ChainInv, NEW r \in Requests, Write(r), NEW c \in ClearsOf(req[r])
  PROVE  Traced(c)' /\ (table[c.id] # Absent)'
<1> PICK q : q = req[r]
  OBVIOUS
<1>1. /\ q \in Flights /\ FlightOK(q) /\ q.id \in Entries
      /\ table'[q.id] # Absent /\ table'[q.id].owner = table[q.id].owner
  BY WrittenRow
<1>2. c.id = q.id /\ c.by = q.actor
  BY DEF ClearsOf
<1>3. CASE q.op = "submit"
  <2>1. q.actor = table[q.id].owner
    BY <1>1, <1>3 DEF FlightOK
  <2> QED
    BY <1>1, <1>2, <2>1 DEF Traced
<1>4. CASE q.op = "approve"
  <2>1. req'[r] = [q EXCEPT !.pc = "record"]
    BY <1>4 DEF Write, AfterWrite, ChainInv, ChainTypeOK
  <2>2. req'[r].pc = "record" /\ req'[r].op = "approve" /\ req'[r].id = q.id
        /\ req'[r].actor = q.actor
    BY <1>1, <1>4, <2>1 DEF Flights
  <2> QED
    BY <1>1, <1>2, <2>2 DEF Traced, At
<1> QED
  BY <1>3, <1>4 DEF ClearsOf

(* Whatever requests do to the same entry at the same time, an approval that   *)
(* changed a row has its record or its request is about to insert it: nothing  *)
(* is cleared behind the history's back as long as no request dies in between. *)
THEOREM TrailAlwaysComplete ==
  ASSUME ~Aborts
  PROVE  Spec => []TrailComplete
<1> DEFINE TrailInv == \A c \in cleared : Traced(c) /\ table[c.id] # Absent
<1>1. Init => TrailInv
  BY DEF Init, ChainInit
<1>2. IInv /\ TrailInv /\ [Next]_vars => TrailInv'
  <2> SUFFICES ASSUME IInv, TrailInv, [Next]_vars PROVE TrailInv'
    OBVIOUS
  <2>1. CASE Statement
    <3>1. ASSUME NEW c \in cleared' PROVE (Traced(c) /\ table[c.id] # Absent)'
      <4>1. CASE c \in cleared
        BY <2>1, <4>1, TracedStays DEF IInv
      <4>2. CASE c \notin cleared
        <5>1. PICK r \in Requests : Write(r)
          <6>1. ASSUME NEW r, Erase(r) \/ Record(r) PROVE cleared' = cleared
            BY <6>1 DEF Erase, Record
          <6>2. ASSUME NEW u, NEW i, NEW t, NEW a, Create(u, i, t, a) PROVE cleared' = cleared
            BY <6>2 DEF Create
          <6> QED
            BY <2>1, <3>1, <4>2, <6>1, <6>2, StatementKinds
        <5>2. c \in ClearsOf(req[r])
          BY <3>1, <4>2, <5>1 DEF Write
        <5> QED
          BY <5>1, <5>2, ClearedTraced DEF IInv
      <4> QED
        BY <4>1, <4>2
    <3> QED
      BY <3>1
  <2>2. CASE UNCHANGED chainVars
    BY <2>2 DEF chainVars, Traced, At
  <2> QED
    BY <2>1, <2>2 DEF Next, vars, DismissedBecomes, chainVars
<1>3. TrailInv => TrailComplete
  BY DEF Traced, TrailComplete
<1> QED
  BY <1>1, <1>2, <1>3, TimeEntriesInductive, PTL DEF Spec

-----------------------------------------------------------------------------
(* One request at a time.  Between the read of a row and its write nothing     *)
(* happens to it, so the checks a handler made on its copy still hold of the   *)
(* row it replaces.                                                            *)

OneAtATime == \A r, s \in Requests : r = s

Open == {"draft", "submitted", "rejected"}

SameContent(row, old) == row.target = old.target /\ row.amount = old.amount

(* What a request that is going to write may do to the row, by its handler.    *)
CopyCurrent(q, old) ==
    /\ q.op # "receipt"
    /\ q.op # "update" => SameContent(q.row, old)
    /\ q.op = "update" => old.status \in Open /\ q.row.status = old.status
    /\ q.op = "delete" => old.status = "draft"
    /\ q.op = "submit" =>
          /\ old.status \in {"draft", "rejected"}
          /\ q.pc = "write" => q.row.status \in {"submitted", "pending_finance"}
    /\ q.op = "approve" =>
          \/ old.status = "submitted" /\ q.row.status \in {"submitted", "pending_finance"}
          \/ old.status = "pending_finance" /\ q.pc = "write" /\ q.row.status = "approved"
    /\ q.op = "approve" /\ q.pc = "write" => q.row.status # "submitted"
    /\ q.op = "reject" =>
          old.status \in {"submitted", "pending_finance"} /\ q.row.status = "rejected"

Current ==
    \A r \in Requests : req[r].pc \in {"ticket", "route", "write"} =>
        CopyCurrent(req[r], table[req[r].id])

(* A read leaves a copy that is current.                                       *)
LEMMA ReadCurrent ==
  ASSUME ChainInv, NEW r \in Requests, NEW u, NEW i \in Entries, NEW t, NEW a,
         \/ UpdateRead(r, u, i, t, a) \/ DeleteRead(r, u, i)
         \/ SubmitRead(r, u, i, "ticket") \/ ApproveRead(r, u, i) \/ RejectRead(r, u, i)
  PROVE  CopyCurrent(req'[r], table[i]) /\ req'[r].id = i
<1>1. ASSUME NEW op, NEW pc, NEW row, Start(r, op, u, i, pc, row)
      PROVE  /\ req'[r].pc = pc /\ req'[r].op = op /\ req'[r].id = i /\ req'[r].row = row
  BY <1>1 DEF Start, ChainInv, ChainTypeOK
<1>2. table[i].status # "absent" => table[i] \in Rows
  BY RowTyped DEF ChainInv
<1>3. CASE UpdateRead(r, u, i, t, a)
  <2> DEFINE row == [table[i] EXCEPT !.target = t, !.amount = a]
  <2>1. table[i] \in Rows /\ table[i].status \in Open
    BY <1>2, <1>3 DEF UpdateRead, CanEdit, Open
  <2>2. row.status = table[i].status
    BY <2>1 DEF Rows
  <2>3. Start(r, "update", u, i, "write", row)
    BY <1>3 DEF UpdateRead
  <2> HIDE DEF row
  <2>4. req'[r].op = "update" /\ req'[r].id = i /\ req'[r].row = row
    BY <1>1, <2>3
  <2> QED
    BY <2>1, <2>2, <2>4 DEF CopyCurrent
<1>4. CASE DeleteRead(r, u, i)
  <2>1. req'[r].op = "delete" /\ req'[r].id = i /\ req'[r].row = table[i]
    BY <1>1, <1>4 DEF DeleteRead
  <2> QED
    BY <1>4, <2>1 DEF DeleteRead, CopyCurrent, SameContent
<1>5. CASE SubmitRead(r, u, i, "ticket")
  <2>1. req'[r].op = "submit" /\ req'[r].id = i /\ req'[r].row = table[i]
        /\ req'[r].pc = "ticket"
    BY <1>1, <1>5 DEF SubmitRead
  <2> QED
    BY <1>5, <2>1 DEF SubmitRead, CanSubmit, CopyCurrent, SameContent
<1>6. CASE ApproveRead(r, u, i)
  <2>1. table[i] \in Rows
    BY <1>6 DEF ApproveRead, ChainInv, ChainTypeOK
  <2> DEFINE row == [table[i] EXCEPT !.status = "approved"]
  <2>2. row.status = "approved" /\ SameContent(row, table[i])
    BY <2>1 DEF Rows, SameContent
  <2> HIDE DEF row
  <2>3. CASE /\ table[i].status = "submitted"
             /\ Start(r, "approve", u, i, "route", table[i])
    <3>1. req'[r].op = "approve" /\ req'[r].id = i /\ req'[r].row = table[i]
          /\ req'[r].pc = "route"
      BY <1>1, <2>3
    <3> QED
      BY <2>3, <3>1 DEF CopyCurrent, SameContent
  <2>4. CASE /\ table[i].status = "pending_finance"
             /\ Start(r, "approve", u, i, "write", row)
    <3>1. req'[r].op = "approve" /\ req'[r].id = i /\ req'[r].row = row
          /\ req'[r].pc = "write"
      BY <1>1, <2>4
    <3> QED
      BY <2>2, <2>4, <3>1 DEF CopyCurrent
  <2> QED
    BY <1>6, <2>3, <2>4 DEF ApproveRead, row
<1>7. CASE RejectRead(r, u, i)
  <2>1. table[i] \in Rows
    BY <1>2, <1>7 DEF RejectRead
  <2> DEFINE row == [table[i] EXCEPT !.status = "rejected"]
  <2>2. row.status = "rejected" /\ SameContent(row, table[i])
    BY <2>1 DEF Rows, SameContent
  <2>3. Start(r, "reject", u, i, "write", row)
    BY <1>7 DEF RejectRead
  <2> HIDE DEF row
  <2>4. req'[r].op = "reject" /\ req'[r].id = i /\ req'[r].row = row
    BY <1>1, <2>3
  <2> QED
    BY <1>7, <2>2, <2>4 DEF RejectRead, CopyCurrent
<1> QED
  BY <1>3, <1>4, <1>5, <1>6, <1>7

(* Going on keeps it current: nobody has touched the row.                      *)
LEMMA AdvanceCurrent ==
  ASSUME ChainInv, Current, NEW r \in Requests,
         SubmitTicketCheck(r) \/ SubmitRoute(r) \/ ApproveRoute(r),
         req'[r] # Idle
  PROVE  req'[r].id = req[r].id /\ CopyCurrent(req'[r], table[req[r].id])
<1>1. req[r] \in Flights /\ FlightOK(req[r]) /\ CopyCurrent(req[r], table[req[r].id])
  BY BusyFlight DEF ChainInv, FlightsOK, Current, SubmitTicketCheck, SubmitRoute, ApproveRoute, At
<1>2. req[r].row \in Rows
  BY <1>1 DEF Flights
<1>3. ASSUME Refuse(r) PROVE FALSE
  BY <1>3 DEF Refuse, ChainInv, ChainTypeOK
<1>4. ASSUME NEW pc, NEW status, Advance(r, pc, status)
      PROVE  /\ req'[r].id = req[r].id /\ req'[r].op = req[r].op /\ req'[r].pc = pc
             /\ req'[r].row.status = status /\ SameContent(req'[r].row, req[r].row)
  <2>1. req'[r] = [req[r] EXCEPT !.pc = pc, !.row.status = status]
    BY <1>4 DEF Advance, ChainInv, ChainTypeOK
  <2> QED
    BY <1>1, <1>2, <2>1 DEF Flights, Rows, SameContent
<1>5. CASE SubmitTicketCheck(r)
  <2>1. Advance(r, "route", req[r].row.status) /\ req[r].op = "submit"
    BY <1>3, <1>5 DEF SubmitTicketCheck, At
  <2> QED
    BY <1>1, <1>4, <2>1 DEF CopyCurrent, SameContent
<1>6. CASE SubmitRoute(r)
  <2>1. PICK status \in {"submitted", "pending_finance"} : Advance(r, "write", status)
    BY <1>3, <1>6 DEF SubmitRoute, SubmittedStatus
  <2>2. req[r].op = "submit"
    BY <1>6 DEF SubmitRoute, At
  <2> QED
    BY <1>1, <1>4, <2>1, <2>2 DEF CopyCurrent, SameContent
<1>7. CASE ApproveRoute(r)
  <2>1. /\ Advance(r, "write", "pending_finance")
        /\ req[r].op = "approve" /\ req[r].pc = "route"
    BY <1>3, <1>7 DEF ApproveRoute, At
  <2> QED
    BY <1>1, <1>4, <2>1 DEF CopyCurrent, SameContent
<1> QED
  BY <1>5, <1>6, <1>7

LEMMA CurrentStays ==
  ASSUME ChainInv, Current, OneAtATime, Statement
  PROVE  Current'
<1> SUFFICES ASSUME NEW r \in Requests, req'[r].pc \in {"ticket", "route", "write"}
             PROVE  CopyCurrent(req'[r], table'[req'[r].id])
  BY DEF Current, CopyCurrent, SameContent
<1>1. \A s \in Requests : s = r
  BY DEF OneAtATime
<1>2. req'[r] # Idle
  BY DEF Idle
<1>3. ASSUME NEW q, req' = [req EXCEPT ![r] = q] PROVE req'[r] = q
  BY <1>3 DEF ChainInv, ChainTypeOK
<1>4. CASE UNCHANGED <<table, req>>
  BY <1>4 DEF Current
<1>5. ASSUME NEW u \in Users, NEW i \in Entries, NEW t \in Targets, NEW a \in Amounts,
             Create(u, i, t, a)
      PROVE  CopyCurrent(req'[r], table'[req'[r].id])
  <2>1. req'[r] = req[r] /\ req[r] \in Flights /\ table[req[r].id] # Absent
    BY <1>2, <1>5, FlightTyped DEF Create, ChainInv, FlightsOK, FlightOK
  <2>2. req[r].id \in Entries /\ req[r].id # i
    BY <1>5, <2>1 DEF Flights, Create
  <2>3. table'[req[r].id] = table[req[r].id]
    BY <1>5, <2>2 DEF Create, ChainInv, ChainTypeOK
  <2> QED
    BY <2>1, <2>3 DEF Current
<1>6. ASSUME NEW u, NEW i \in Entries, NEW t, NEW a,
             \/ UpdateRead(r, u, i, t, a) \/ DeleteRead(r, u, i)
             \/ SubmitRead(r, u, i, "ticket") \/ ApproveRead(r, u, i) \/ RejectRead(r, u, i)
      PROVE  CopyCurrent(req'[r], table'[req'[r].id])
  BY <1>6, ReadCurrent, ReadsKeepRows
<1>7. ASSUME SubmitTicketCheck(r) \/ SubmitRoute(r) \/ ApproveRoute(r)
      PROVE  CopyCurrent(req'[r], table'[req'[r].id])
  <2>1. table' = table
    BY <1>7, RoutesKeepRows DEF SubmitTicketCheck, Advance, Refuse
  <2> QED
    BY <1>2, <1>7, <2>1, AdvanceCurrent
<1>8. ASSUME Write(r) \/ Erase(r) \/ Record(r) \/ Abort(r) PROVE FALSE
  <2>1. req'[r] \in {Idle, [req[r] EXCEPT !.pc = "record"]}
    BY <1>3, <1>8 DEF Write, AfterWrite, Erase, Record, Abort, Refuse
  <2>2. req[r] \in Flights
    BY <1>8, BusyFlight DEF Write, Erase, Record, Abort, At, ChainInv, ChainTypeOK
  <2> QED
    BY <1>2, <2>1, <2>2 DEF Flights
<1>9. CASE \E u \in Users, i \in Entries, t \in Targets, a \in Amounts :
             \/ Create(u, i, t, a)
             \/ \E s \in Requests : UpdateRead(s, u, i, t, a)
  BY <1>1, <1>5, <1>6, <1>9
<1>10. CASE \E s \in Requests, u \in Users, i \in Entries :
             \/ DeleteRead(s, u, i) \/ SubmitRead(s, u, i, "ticket")
             \/ ApproveRead(s, u, i) \/ RejectRead(s, u, i)
  BY <1>1, <1>6, <1>10
<1>11. CASE \E s \in Requests :
             \/ SubmitTicketCheck(s) \/ SubmitRoute(s) \/ ApproveRoute(s)
             \/ Write(s) \/ Erase(s) \/ Record(s) \/ Abort(s)
  BY <1>1, <1>7, <1>8, <1>11
<1>12. CASE \E t \in Targets, x \in Routes : Reroute(t, x)
  BY <1>4, <1>12 DEF Reroute
<1> QED
  BY <1>9, <1>10, <1>11, <1>12 DEF Statement

LEMMA SerialInductive ==
  ASSUME OneAtATime
  PROVE  Spec => [](IInv /\ Current)
<1>1. Init => Current
  BY DEF Init, ChainInit, Current, Idle
<1>2. IInv /\ Current /\ [Next]_vars => Current'
  <2>1. ASSUME IInv, Current, Statement PROVE Current'
    BY <2>1, CurrentStays DEF IInv
  <2>2. ASSUME Current, UNCHANGED chainVars PROVE Current'
    BY <2>2 DEF chainVars, Current, CopyCurrent, SameContent
  <2> QED
    BY <2>1, <2>2 DEF Next, vars, DismissedBecomes, chainVars
<1> QED
  BY <1>1, <1>2, TimeEntriesInductive, PTL DEF Spec

(* What one statement does to the rows: inserts a draft, or replaces one row   *)
(* along an edge of the lifecycle.                                             *)
LifecycleEdge(old, new) ==
    \/ old.status \in Open /\ new.status = old.status
    \/ SameContent(new, old) /\ new.status = old.status
    \/ /\ SameContent(new, old)
       /\ <<old.status, new.status>> \in
            {<<"draft", "submitted">>, <<"rejected", "submitted">>,
             <<"draft", "pending_finance">>, <<"rejected", "pending_finance">>,
             <<"submitted", "pending_finance">>, <<"pending_finance", "approved">>,
             <<"submitted", "rejected">>, <<"pending_finance", "rejected">>}

LEMMA RowsFollow ==
  ASSUME ChainInv, Current, Statement
  PROVE  \/ table' = table
         \/ \E i \in Entries, new \in Rows :
               /\ table' = [table EXCEPT ![i] = new]
               /\ \/ table[i] = Absent /\ new.status = "draft"
                  \/ /\ table[i] \in Rows /\ table[i].status # "approved"
                     /\ LifecycleEdge(table[i], new)
                     /\ table[i].deleted => new.deleted
<1>1. ASSUME NEW u \in Users, NEW i \in Entries, NEW t \in Targets, NEW a \in Amounts,
             Create(u, i, t, a)
      PROVE  \E new \in Rows : /\ table' = [table EXCEPT ![i] = new] /\ table[i] = Absent
                               /\ new.status = "draft"
  <2> DEFINE row == [owner |-> u, target |-> t, amount |-> a, receipt |-> NoReceipt,
                     status |-> "draft", deleted |-> FALSE]
  <2>1. row \in Rows /\ row.status = "draft"
    BY ReceiptAssumption DEF Rows, Statuses
  <2> QED
    BY <1>1, <2>1 DEF Create
<1>2. ASSUME NEW r \in Requests, Write(r)
      PROVE  LET q == req[r] IN
             /\ q.id \in Entries /\ Stored(q) \in Rows /\ table[q.id] \in Rows
             /\ table' = [table EXCEPT ![q.id] = Stored(q)]
             /\ table[q.id].status # "approved" /\ LifecycleEdge(table[q.id], Stored(q))
             /\ Stored(q).deleted = table[q.id].deleted
  <2> PICK q, new : q = req[r] /\ new = Stored(req[r])
    OBVIOUS
  <2>1. /\ q \in Flights /\ q.id \in Entries /\ table[q.id] \in Rows /\ new \in Rows
        /\ new.status = q.row.status /\ SameContent(new, q.row)
        /\ new.deleted = table[q.id].deleted
    BY <1>2, WrittenRow DEF SameContent
  <2>2. CopyCurrent(q, table[q.id]) /\ q.pc = "write" /\ q.op # "delete"
    BY <1>2 DEF Write, Current
  <2>3. q.op \in {"update", "submit", "approve", "reject"}
    BY <2>1, <2>2 DEF Flights, CopyCurrent
  <2>4. LifecycleEdge(table[q.id], new)
    BY <2>1, <2>2, <2>3 DEF CopyCurrent, LifecycleEdge, SameContent
  <2>5. table[q.id].status # "approved"
    BY <2>2, <2>3 DEF CopyCurrent, Open
  <2> QED
    BY <1>2, <2>1, <2>4, <2>5 DEF Write
<1>3. ASSUME NEW r \in Requests, Erase(r)
      PROVE  LET q == req[r]
                 new == [table[q.id] EXCEPT !.deleted = TRUE]
             IN  /\ q.id \in Entries /\ new \in Rows /\ table[q.id] \in Rows
                 /\ table' = [table EXCEPT ![q.id] = new]
                 /\ table[q.id].status # "approved" /\ LifecycleEdge(table[q.id], new)
                 /\ new.deleted
  <2> PICK q, new : q = req[r] /\ new = [table[req[r].id] EXCEPT !.deleted = TRUE]
    OBVIOUS
  <2>1. /\ q \in Flights /\ q.id \in Entries /\ table[q.id] \in Rows /\ new \in Rows
        /\ new.status = table[q.id].status /\ SameContent(new, table[q.id])
        /\ new.deleted
    BY <1>3, ErasedRow DEF SameContent
  <2>2. table[q.id].status = "draft"
    BY <1>3 DEF Erase, At, Current, CopyCurrent
  <2>3. table' = [table EXCEPT ![q.id] = new]
    BY <1>3 DEF Erase
  <2> QED
    BY <2>1, <2>2, <2>3 DEF LifecycleEdge
<1> QED
  BY <1>1, <1>2, <1>3, StatementKinds DEF Record

(* Facts are immutable after approval, when requests come one at a time: no    *)
(* handler that is allowed to start on a row writes an approved one.  (With    *)
(* two requests it fails, as the run time_entries_lost_update shows.)          *)
THEOREM ApprovedStays ==
  ASSUME OneAtATime
  PROVE  Spec => ApprovedImmutable
<1> DEFINE Kept == \A i \in Entries : table[i].status = "approved" => table'[i] = table[i]
<1>1. IInv /\ Current /\ [Next]_vars => [Kept]_chainVars
  <2>1. ASSUME IInv, Current, Statement PROVE Kept
    <3>1. table \in [Entries -> Rows \cup {Absent}] /\ Absent.status # "approved"
      BY <2>1 DEF IInv, ChainInv, ChainTypeOK, Absent
    <3> QED
      BY <2>1, <3>1, RowsFollow DEF IInv
  <2> QED
    BY <2>1 DEF Next, vars, DismissedBecomes, chainVars
<1> QED
  BY <1>1, SerialInductive, PTL DEF Spec, ApprovedImmutable

(* The refinement: a row's status and content, written together, move as one   *)
(* step of the lifecycle or not at all.                                        *)
LEMMA RowMapped ==
  ASSUME table \in [Entries -> Rows \cup {Absent}], NEW i \in Entries, NEW new \in Rows,
         table' = [table EXCEPT ![i] = new]
  PROVE  /\ [j \in Entries |-> table'[j].status]
               = [[j \in Entries |-> table[j].status] EXCEPT ![i] = new.status]
         /\ [j \in Entries |-> ContentOf(table'[j])]
               = [[j \in Entries |-> ContentOf(table[j])] EXCEPT ![i] = <<new.target, new.amount>>]
<1>1. \A j \in Entries : table'[j] = IF j = i THEN new ELSE table[j]
  OBVIOUS
<1>2. new # Absent
  BY DEF Rows, Absent, Statuses
<1>3. ContentOf(new) = <<new.target, new.amount>>
  BY <1>2 DEF ContentOf
<1> HIDE DEF ContentOf
<1> QED
  BY <1>1, <1>3

LEMMA StepMapped ==
  ASSUME IInv, Current, Statement
  PROVE  [Lifecycle!Next]_<<[i \in Entries |-> table[i].status],
                            [i \in Entries |-> ContentOf(table[i])]>>
<1> DEFINE status == [i \in Entries |-> table[i].status]
           content == [i \in Entries |-> ContentOf(table[i])]
<1>1. CASE table' = table
  BY <1>1
<1>2. ASSUME NEW i \in Entries, NEW new \in Rows, table' = [table EXCEPT ![i] = new],
             \/ table[i] = Absent /\ new.status = "draft"
             \/ /\ table[i] \in Rows /\ table[i].status # "approved"
                /\ LifecycleEdge(table[i], new)
      PROVE  [Lifecycle!Next]_<<status, content>>
  <2> DEFINE shown == <<new.target, new.amount>>
  <2>1. /\ status' = [status EXCEPT ![i] = new.status]
        /\ content' = [content EXCEPT ![i] = shown]
    BY <1>2, RowMapped DEF IInv, TypeOK, ChainTypeOK
  <2>2. shown \in Targets \X Amounts
    BY DEF Rows
  <2>3. status[i] = table[i].status /\ content[i] = ContentOf(table[i])
    OBVIOUS
  <2>4. /\ [status EXCEPT ![i] = table[i].status] = status
        /\ [content EXCEPT ![i] = ContentOf(table[i])] = content
    OBVIOUS
  <2>5. CASE table[i] = Absent /\ new.status = "draft"
    <3>1. Lifecycle!Draft(i, shown)
      BY <2>1, <2>3, <2>5 DEF Lifecycle!Draft, Absent
    <3> QED
      BY <2>2, <3>1 DEF Lifecycle!Next
  <2>6. CASE table[i] \in Rows /\ LifecycleEdge(table[i], new)
    <3>1. ContentOf(table[i]) = <<table[i].target, table[i].amount>>
      BY <2>6 DEF ContentOf, Rows, Absent, Statuses
    <3>2. CASE SameContent(new, table[i])
      <4>1. content' = content
        BY <2>1, <2>4, <3>1, <3>2 DEF SameContent
      <4>2. CASE new.status = table[i].status
        BY <2>1, <2>4, <4>1, <4>2
      <4>3. CASE <<table[i].status, new.status>> \in
                    {<<"draft", "submitted">>, <<"rejected", "submitted">>}
        BY <2>1, <2>3, <4>1, <4>3 DEF Lifecycle!Next, Lifecycle!Submit, Lifecycle!Move
      <4>4. CASE <<table[i].status, new.status>> \in
                    {<<"draft", "pending_finance">>, <<"rejected", "pending_finance">>}
        BY <2>1, <2>3, <4>1, <4>4
        DEF Lifecycle!Next, Lifecycle!SubmitPastManager, Lifecycle!Move
      <4>5. CASE <<table[i].status, new.status>> = <<"submitted", "pending_finance">>
        BY <2>1, <2>3, <4>1, <4>5 DEF Lifecycle!Next, Lifecycle!ManagerApprove, Lifecycle!Move
      <4>6. CASE <<table[i].status, new.status>> = <<"pending_finance", "approved">>
        BY <2>1, <2>3, <4>1, <4>6 DEF Lifecycle!Next, Lifecycle!FinanceApprove, Lifecycle!Move
      <4>7. CASE <<table[i].status, new.status>> \in
                    {<<"submitted", "rejected">>, <<"pending_finance", "rejected">>}
        BY <2>1, <2>3, <4>1, <4>7 DEF Lifecycle!Next, Lifecycle!Reject, Lifecycle!Move
      <4>8. \/ new.status = table[i].status
            \/ <<table[i].status, new.status>> \in
                  {<<"draft", "submitted">>, <<"rejected", "submitted">>,
                   <<"draft", "pending_finance">>, <<"rejected", "pending_finance">>,
                   <<"submitted", "pending_finance">>, <<"pending_finance", "approved">>,
                   <<"submitted", "rejected">>, <<"pending_finance", "rejected">>}
        BY <2>6 DEF LifecycleEdge
      <4> QED
        BY <4>2, <4>3, <4>4, <4>5, <4>6, <4>7, <4>8
    <3>3. CASE table[i].status \in Open /\ new.status = table[i].status
      <4>1. status' = status
        BY <2>1, <2>4, <3>3
      <4>2. Lifecycle!Edit(i, shown)
        BY <2>1, <2>3, <3>3, <4>1 DEF Lifecycle!Edit, Lifecycle!Open, Open
      <4> QED
        BY <2>2, <4>2 DEF Lifecycle!Next
    <3> QED
      BY <2>6, <3>2, <3>3 DEF LifecycleEdge
  <2> QED
    BY <1>2, <2>5, <2>6
<1> QED
  BY <1>1, <1>2, RowsFollow DEF IInv

(* One request at a time, the service implements the lifecycle of EntryLifecycle: *)
(* create, edit, submit, pass, approve and reject each look atomic, and the    *)
(* statements between the read and the write are stutters.                     *)
THEOREM ServiceImplementsLifecycle ==
  ASSUME OneAtATime
  PROVE  Spec => LifecycleSpec
<1> DEFINE status == [i \in Entries |-> table[i].status]
           content == [i \in Entries |-> ContentOf(table[i])]
<1>1. Init => Lifecycle!Init
  BY DEF Init, ChainInit, Lifecycle!Init, Lifecycle!NoContent, ContentOf, Absent
<1>2. IInv /\ Current /\ [Next]_vars => [Lifecycle!Next]_<<status, content>>
  <2>1. ASSUME UNCHANGED chainVars PROVE UNCHANGED <<status, content>>
    BY <2>1 DEF chainVars
  <2> QED
    BY <2>1, StepMapped DEF Next, vars, DismissedBecomes, chainVars
<1> QED
  BY <1>1, <1>2, SerialInductive, PTL DEF Spec, LifecycleSpec, Lifecycle!Spec
=============================================================================
