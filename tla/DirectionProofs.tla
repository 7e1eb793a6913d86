--------------------------- MODULE DirectionProofs ---------------------------
(* For any number of rows and racing transactions: the supersede chain is     *)
(* linear, claims keep their origin along it, rows are never rewritten, and   *)
(* the first claims on a working-group row fit its budget.                    *)
EXTENDS Direction, FiniteSetTheorems, WellFoundedInduction, TLAPS

(* What a transaction checked under its lock is still true of the row.        *)
StillValid(q) ==
    /\ plan[q.id] # Absent
    /\ q.op = "activate" => CanTransition(plan[q.id].status, "active")
    /\ q.op = "cancel" => CanTransition(plan[q.id].status, "cancelled")
    /\ q.op = "supersede" => /\ plan[q.id].status \in Live
                             /\ IsClaim(q.id) => q.target = "user"
    /\ q.op = "claim" => plan[q.id].status = "active"

LocksHold ==
    /\ \A r, s \in Requests :
          req[r] # Idle /\ req[s] # Idle /\ req[r].id = req[s].id => r = s
    /\ \A r \in Requests : req[r] # Idle => StillValid(req[r])

(* A superseding row names a row that is there.                               *)
ChainGrounded ==
    \A e \in Ids : plan[e].supersedes # None =>
        plan[e].supersedes \in Ids /\ plan[plan[e].supersedes] # Absent

IInv == TypeOK /\ LocksHold /\ ChainLinear /\ ClaimsKeepOrigin /\ ChainGrounded

LEMMA BusyTyped ==
  ASSUME TypeOK, NEW r \in Requests, req[r] # Idle
  PROVE  req[r] \in Transactions
  BY DEF TypeOK

LEMMA OpTyped ==
  ASSUME TypeOK, NEW r \in Requests, req[r].op # "idle"
  PROVE  req[r] \in Transactions /\ req[r] # Idle
  BY DEF TypeOK, Idle

(* Steps that leave the plan alone.                                           *)
LEMMA LockStep ==
  ASSUME IInv, NEW r \in Requests, NEW d \in Ids,
         NEW op \in {"activate", "cancel", "supersede", "claim"},
         NEW target \in {"user", "wg"}, NEW hours \in Hours \cup {Unset},
         Lock(r, op, d, target, hours),
         StillValid([op |-> op, id |-> d, target |-> target, hours |-> hours])
  PROVE  IInv'
<1> DEFINE q == [op |-> op, id |-> d, target |-> target, hours |-> hours]
<1>1. q \in Transactions
  BY DEF Transactions
<1>2. \A s \in Requests : req'[s] = IF s = r THEN q ELSE req[s]
  BY DEF Lock, IInv, TypeOK
<1>3. TypeOK'
  BY <1>1 DEF Lock, IInv, TypeOK
<1>4. LocksHold'
  <2>1. \A s \in Requests : req[s] # Idle => req[s].id # d
    BY DEF Lock, RowLocked
  <2>2. \A s \in Requests : req'[s] # Idle => StillValid(req'[s])
    BY <1>2 DEF IInv, LocksHold
  <2>3. \A s, t \in Requests :
           req'[s] # Idle /\ req'[t] # Idle /\ req'[s].id = req'[t].id => s = t
    BY <1>2, <2>1 DEF IInv, LocksHold
  <2> QED
    BY <2>2, <2>3 DEF Lock, LocksHold, StillValid, IsClaim
<1>5. (ChainLinear /\ ClaimsKeepOrigin /\ ChainGrounded)'
  BY DEF Lock, IInv, ChainLinear, ClaimsKeepOrigin, ChainGrounded
<1> QED
  BY <1>3, <1>4, <1>5 DEF IInv

LEMMA RollbackStep ==
  ASSUME IInv, NEW r \in Requests, Rollback(r)
  PROVE  IInv'
<1>1. \A s \in Requests : req'[s] = IF s = r THEN Idle ELSE req[s]
  BY DEF Rollback, IInv, TypeOK
<1>2. LocksHold'
  BY <1>1 DEF Rollback, IInv, LocksHold, StillValid, IsClaim
<1>3. (TypeOK /\ ChainLinear /\ ClaimsKeepOrigin /\ ChainGrounded)'
  BY DEF Rollback, IInv, TypeOK, ChainLinear, ClaimsKeepOrigin, ChainGrounded
<1> QED
  BY <1>2, <1>3 DEF IInv

(* After a write to the row r holds, every other transaction finds the row it *)
(* holds as it was.                                                           *)
LEMMA LocksAfterWrite ==
  ASSUME IInv, NEW r \in Requests, req[r] # Idle,
         req' = [req EXCEPT ![r] = Idle],
         \A d \in Ids : d # req[r].id /\ plan[d] # Absent => plan'[d] = plan[d]
  PROVE  LocksHold'
<1>1. \A s \in Requests : req'[s] = IF s = r THEN Idle ELSE req[s]
  BY DEF IInv, TypeOK
<1>2. ASSUME NEW s \in Requests, req'[s] # Idle
      PROVE  /\ req'[s] = req[s] /\ StillValid(req[s])
             /\ plan'[req[s].id] = plan[req[s].id]
  <2>1. s # r /\ req'[s] = req[s] /\ req[s] # Idle
    BY <1>1, <1>2
  <2>2. req[s].id \in Ids /\ req[s].id # req[r].id
    BY <2>1, BusyTyped DEF IInv, LocksHold, Transactions
  <2> QED
    BY <2>1, <2>2 DEF IInv, LocksHold, StillValid
<1> QED
  BY <1>1, <1>2 DEF IInv, LocksHold, StillValid, IsClaim

(* Activate and cancel: only the status of the locked row changes, and not to *)
(* or from superseded.                                                        *)
LEMMA StatusStep ==
  ASSUME IInv, NEW r \in Requests, NEW status \in {"active", "cancelled"},
         req[r] # Idle, plan[req[r].id].status \in Live,
         req' = [req EXCEPT ![r] = Idle], SetStatus(req[r].id, status)
  PROVE  IInv'
<1> PICK i : i = req[r].id
  OBVIOUS
<1> PICK row : row = [plan[i] EXCEPT !.status = status]
  OBVIOUS
<1>1. i \in Ids /\ plan[i] \in Rows
  BY BusyTyped DEF IInv, TypeOK, Transactions, Absent, Live
<1>2. /\ row \in Rows /\ row # Absent /\ row.status = status
      /\ row.supersedes = plan[i].supersedes /\ row.origin = plan[i].origin
      /\ row.target = plan[i].target
  BY <1>1 DEF Rows, Absent, Statuses
<1>3. \A d \in Ids : plan'[d] = IF d = i THEN row ELSE plan[d]
  BY DEF SetStatus, IInv, TypeOK
<1>4. TypeOK'
  BY <1>1, <1>2 DEF SetStatus, IInv, TypeOK
<1>5. LocksHold'
  BY <1>3, LocksAfterWrite
<1>6. /\ \A d \in Ids : /\ plan'[d].supersedes = plan[d].supersedes
                        /\ plan'[d].origin = plan[d].origin
                        /\ plan[d] # Absent => plan'[d] # Absent
                        /\ plan'[d].status = "superseded" <=> plan[d].status = "superseded"
      /\ \A d \in Ids : plan[d].supersedes # None => plan'[d].target = plan[d].target
  BY <1>2, <1>3 DEF Live
<1>7. ChainLinear' /\ ChainGrounded'
  BY <1>6 DEF IInv, ChainLinear, ChainGrounded
<1>8. ClaimsKeepOrigin'
  BY <1>6 DEF IInv, ClaimsKeepOrigin, ChainGrounded
<1> QED
  BY <1>4, <1>5, <1>7, <1>8 DEF IInv

(* A row that supersedes nothing: a new plan or a claim.                      *)
LEMMA InsertStep ==
  ASSUME IInv, NEW new \in Ids, plan[new] = Absent,
         NEW target \in {"user", "wg"}, NEW hours \in Hours \cup {Unset},
         NEW origin \in Ids \cup {None},
         plan' = [plan EXCEPT ![new] = NewRow(target, hours, None, origin)],
         LocksHold', req' \in [Requests -> Transactions \cup {Idle}]
  PROVE  IInv'
<1> PICK row : row = NewRow(target, hours, None, origin)
  OBVIOUS
<1>1. /\ row \in Rows /\ row # Absent /\ row.status = "draft"
      /\ row.supersedes = None
  BY DEF NewRow, Rows, Absent, Statuses
<1>2. \A d \in Ids : plan'[d] = IF d = new THEN row ELSE plan[d]
  BY DEF IInv, TypeOK
<1>3. TypeOK'
  BY <1>1 DEF IInv, TypeOK
<1>4. /\ plan[new].supersedes = None /\ plan[new].status = "absent"
      /\ \A e \in Ids : plan[e].supersedes # new
  BY NoneAssumption DEF Absent, IInv, ChainGrounded
<1>5. ChainLinear'
  <2>1. \A d, e, f \in Ids :
           plan'[e].supersedes = d /\ plan'[f].supersedes = d => e = f
    BY <1>1, <1>2, <1>4, NoneAssumption DEF IInv, ChainLinear
  <2>2. \A d \in Ids : plan'[d].status = "superseded" <=>
                       \E e \in Ids : plan'[e].supersedes = d
    BY <1>1, <1>2, <1>4, NoneAssumption DEF IInv, ChainLinear
  <2> QED
    BY <2>1, <2>2 DEF ChainLinear
<1>6. ChainGrounded' /\ ClaimsKeepOrigin'
  BY <1>1, <1>2, <1>4 DEF IInv, ChainGrounded, ClaimsKeepOrigin
<1> QED
  BY <1>3, <1>5, <1>6 DEF IInv
(* Supersede: the locked row is live, so nothing superseded it yet, and the   *)
(* new row is its only successor.                                             *)
LEMMA SupersedeStep ==
  ASSUME IInv, NEW r \in Requests, NEW new \in Ids, Supersede(r, new)
  PROVE  IInv'
<1> PICK q : q = req[r]
  OBVIOUS
<1> PICK i : i = q.id
  OBVIOUS
<1> PICK old : old = [plan[i] EXCEPT !.status = "superseded"]
  OBVIOUS
<1> PICK row : row = NewRow(q.target, q.hours, i, plan[i].origin)
  OBVIOUS
<1>1. /\ q \in Transactions /\ req[r] # Idle /\ q.op = "supersede"
      /\ i \in Ids /\ plan[i] # Absent /\ plan[i].status \in Live
      /\ IsClaim(i) => q.target = "user"
  BY OpTyped DEF IInv, LocksHold, StillValid, Supersede, Finish, Transactions
<1>2. plan[i] \in Rows /\ i # None /\ i # new
  BY <1>1, NoneAssumption DEF IInv, TypeOK, Supersede
<1>3. /\ row \in Rows /\ row # Absent /\ row.status = "draft"
      /\ row.supersedes = i /\ row.origin = plan[i].origin
      /\ row.target = q.target
  BY <1>1, <1>2 DEF NewRow, Rows, Absent, Statuses, Transactions
<1>4. /\ old \in Rows /\ old # Absent /\ old.status = "superseded"
      /\ old.supersedes = plan[i].supersedes /\ old.origin = plan[i].origin
      /\ old.target = plan[i].target
  BY <1>2 DEF Rows, Absent, Statuses
<1>5. plan' = [plan EXCEPT ![i] = old, ![new] = row]
  BY <1>1, <1>2 DEF Supersede, IInv, TypeOK
<1>6. \A d \in Ids : plan'[d] = IF d = new THEN row ELSE IF d = i THEN old ELSE plan[d]
  BY <1>5 DEF IInv, TypeOK
<1>7. req' = [req EXCEPT ![r] = Idle] /\ plan[new] = Absent
  BY DEF Supersede, Finish
<1>8. TypeOK'
  BY <1>3, <1>4, <1>5, <1>7 DEF IInv, TypeOK
<1>9. LocksHold'
  BY <1>1, <1>6, <1>7, LocksAfterWrite
<1>10. /\ \A e \in Ids : plan[e].supersedes # new
       /\ \A e \in Ids : plan[e].supersedes # i
       /\ plan[new].supersedes = None /\ plan[new].status = "absent"
  <2>1. \A e \in Ids : plan[e].supersedes # new
    BY <1>7, NoneAssumption DEF IInv, ChainGrounded
  <2>2. \A e \in Ids : plan[e].supersedes # i
    BY <1>1 DEF IInv, ChainLinear, Live
  <2> QED
    BY <1>7, <2>1, <2>2 DEF Absent
<1>11. \A d \in Ids : plan'[d].supersedes = IF d = new THEN i ELSE plan[d].supersedes
  BY <1>3, <1>4, <1>6
<1>12. ChainLinear'
  <2>1. \A d, e, f \in Ids :
           plan'[e].supersedes = d /\ plan'[f].supersedes = d => e = f
    BY <1>10, <1>11 DEF IInv, ChainLinear
  <2>2. ASSUME NEW d \in Ids
        PROVE  plan'[d].status = "superseded" <=>
               \E e \in Ids : plan'[e].supersedes = d
    <3>1. CASE d = i
      BY <3>1, <1>2, <1>4, <1>6, <1>11
    <3>2. CASE d = new
      BY <3>2, <1>2, <1>3, <1>6, <1>10, <1>11
    <3>3. CASE d # i /\ d # new
      <4>1. plan'[d].status = plan[d].status
        BY <3>3, <1>6
      <4>2. (\E e \in Ids : plan'[e].supersedes = d) <=>
            (\E e \in Ids : plan[e].supersedes = d)
        BY <3>3, <1>10, <1>11, NoneAssumption
      <4> QED
        BY <4>1, <4>2 DEF IInv, ChainLinear
    <3> QED
      BY <3>1, <3>2, <3>3
  <2> QED
    BY <2>1, <2>2 DEF ChainLinear
<1>13. ChainGrounded'
  BY <1>1, <1>3, <1>4, <1>6, <1>11 DEF IInv, ChainGrounded
<1>14. ClaimsKeepOrigin'
  <2>1. \A d \in Ids : d # new => plan'[d].origin = plan[d].origin
    BY <1>4, <1>6
  <2>2. \A d \in Ids : (d # new /\ plan[d].supersedes # None) =>
                          plan'[d].target = plan[d].target
    BY <1>4, <1>6
  <2>3. plan'[new].origin = plan'[i].origin
    BY <1>2, <1>3, <1>4, <1>6, <1>1
  <2>4. plan'[new].origin # None => plan'[new].target = "user"
    BY <1>1, <1>3, <1>6 DEF IsClaim
  <2>5. ASSUME NEW d \in Ids, plan'[d].supersedes # None
        PROVE  /\ plan'[d].origin = plan'[plan'[d].supersedes].origin
               /\ plan'[d].origin # None => plan'[d].target = "user"
    <3>1. CASE d = new
      BY <3>1, <2>3, <2>4, <1>11
    <3>2. CASE d # new
      <4>1. /\ plan'[d].supersedes = plan[d].supersedes
            /\ plan[d].supersedes # None
            /\ plan[d].supersedes \in Ids /\ plan[d].supersedes # new
        BY <3>2, <2>5, <1>10, <1>11 DEF IInv, ChainGrounded
      <4> QED
        BY <3>2, <4>1, <2>1, <2>2 DEF IInv, ClaimsKeepOrigin
    <3> QED
      BY <3>1, <3>2
  <2> QED
    BY <2>5 DEF ClaimsKeepOrigin
<1> QED
  BY <1>8, <1>9, <1>12, <1>13, <1>14 DEF IInv

-----------------------------------------------------------------------------
LEMMA InitInv == Init => IInv
  BY NoneAssumption
  DEF Init, IInv, TypeOK, LocksHold, ChainLinear, ClaimsKeepOrigin,
      ChainGrounded, Absent

LEMMA WriteInv ==
  ASSUME IInv, NEW r \in Requests,
         Activate(r) \/ Cancel(r) \/ \E d \in Ids : Claim(r, d)
  PROVE  IInv'
<1>1. /\ req[r] \in Transactions /\ req[r] # Idle
      /\ req' = [req EXCEPT ![r] = Idle] /\ StillValid(req[r])
  BY OpTyped DEF Activate, Cancel, Claim, Finish, IInv, LocksHold
<1>2. CASE Activate(r)
  BY <1>1, <1>2, StatusStep
  DEF Activate, Finish, StillValid, CanTransition, Live
<1>3. CASE Cancel(r)
  BY <1>1, <1>3, StatusStep
  DEF Cancel, Finish, StillValid, CanTransition, Live
<1>4. CASE \E d \in Ids : Claim(r, d)
  <2> PICK q : q = req[r]
    OBVIOUS
  <2> PICK d \in Ids : Claim(r, d)
    BY <1>4
  <2>1. /\ plan[d] = Absent
        /\ plan' = [plan EXCEPT ![d] = NewRow("user", q.hours, None, q.id)]
    BY DEF Claim
  <2>2. q.id \in Ids /\ q.hours \in Hours \cup {Unset}
    BY <1>1 DEF Transactions
  <2>3. LocksHold'
    BY <1>1, <2>1, LocksAfterWrite DEF IInv, TypeOK
  <2>4. req' \in [Requests -> Transactions \cup {Idle}]
    BY <1>1 DEF IInv, TypeOK
  <2> QED
    BY <2>1, <2>2, <2>3, <2>4, InsertStep
<1> QED
  BY <1>2, <1>3, <1>4

LEMMA CreateInv ==
  ASSUME IInv, NEW new \in Ids, NEW target \in {"user", "wg"},
         NEW hours \in Hours \cup {Unset}, Create(new, target, hours)
  PROVE  IInv'
<1>1. \A d \in Ids : plan[d] # Absent => plan'[d] = plan[d]
  BY DEF Create, IInv, TypeOK
<1>2. \A s \in Requests : req[s] # Idle => req[s].id \in Ids
  BY BusyTyped DEF IInv, Transactions
<1>3. LocksHold'
  BY <1>1, <1>2 DEF Create, IInv, LocksHold, StillValid, IsClaim
<1>4. req' \in [Requests -> Transactions \cup {Idle}]
  BY DEF Create, IInv, TypeOK
<1> QED
  BY <1>3, <1>4, InsertStep DEF Create

LEMMA LockInv ==
  ASSUME IInv, NEW r \in Requests, NEW d \in Ids,
         \/ LockActivate(r, d) \/ LockCancel(r, d)
         \/ \E hours \in Hours : LockClaim(r, d, hours)
         \/ \E target \in {"user", "wg"}, hours \in Hours \cup {Unset} :
               LockSupersede(r, d, target, hours)
  PROVE  IInv'
<1>1. CASE LockActivate(r, d)
  BY <1>1, LockStep DEF LockActivate, StillValid, Lock
<1>2. CASE LockCancel(r, d)
  BY <1>2, LockStep DEF LockCancel, StillValid, Lock
<1>3. CASE \E hours \in Hours : LockClaim(r, d, hours)
  BY <1>3, LockStep DEF LockClaim, StillValid, Lock
<1>4. CASE \E target \in {"user", "wg"}, hours \in Hours \cup {Unset} :
              LockSupersede(r, d, target, hours)
  BY <1>4, LockStep DEF LockSupersede, StillValid, Lock
<1> QED
  BY <1>1, <1>2, <1>3, <1>4

LEMMA NextInv == IInv /\ [Next]_vars => IInv'
<1> SUFFICES ASSUME IInv, [Next]_vars PROVE IInv'
  OBVIOUS
<1>1. CASE Next
  <2>1. ASSUME NEW new \in Ids, NEW target \in {"user", "wg"},
               NEW hours \in Hours \cup {Unset},
               \/ Create(new, target, hours)
               \/ \E r \in Requests : LockSupersede(r, new, target, hours)
        PROVE  IInv'
    BY <2>1, CreateInv, LockInv
  <2>2. ASSUME NEW r \in Requests, NEW d \in Ids,
               \/ LockActivate(r, d)
               \/ LockCancel(r, d)
               \/ \E hours \in Hours : LockClaim(r, d, hours)
               \/ Supersede(r, d)
               \/ Claim(r, d)
        PROVE  IInv'
    BY <2>2, LockInv, WriteInv, SupersedeStep
  <2>3. ASSUME NEW r \in Requests, Activate(r) \/ Cancel(r) \/ Rollback(r)
        PROVE  IInv'
    BY <2>3, WriteInv, RollbackStep
  <2> QED
    BY <1>1, <2>1, <2>2, <2>3 DEF Next
<1>2. CASE UNCHANGED vars
  BY <1>2 DEF vars, IInv, TypeOK, LocksHold, StillValid, IsClaim, ChainLinear,
     ClaimsKeepOrigin, ChainGrounded
<1> QED
  BY <1>1, <1>2

(* The strengthening: locks exclude each other, and what was checked under    *)
(* a lock still holds when the write comes.                                   *)
THEOREM Invariance == Spec => []IInv
  BY InitInv, NextInv, PTL DEF Spec

(* Every row and every transaction in flight is well formed.                  *)
THEOREM DirectionTyped == Spec => []TypeOK
<1>1. IInv => TypeOK
  BY DEF IInv
<1> QED
  BY <1>1, Invariance, PTL

(* However many transactions race to replace a row, one row at most names it, *)
(* and exactly the rows that are named are superseded.                        *)
THEOREM ChainStaysLinear == Spec => []ChainLinear
<1>1. IInv => ChainLinear
  BY DEF IInv
<1> QED
  BY <1>1, Invariance, PTL

(* A chain of claims stays with one working-group row.                        *)
THEOREM OriginKept == Spec => []ClaimsKeepOrigin
<1>1. IInv => ClaimsKeepOrigin
  BY DEF IInv
<1> QED
  BY <1>1, Invariance, PTL

-----------------------------------------------------------------------------
Rewritten(d) == /\ plan'[d] = [plan[d] EXCEPT !.status = plan'[d].status]
                /\ \/ CanTransition(plan[d].status, plan'[d].status)
                   \/ plan[d].status \in Live /\ plan'[d].status = "superseded"

LEMMA StatusRewritten ==
  ASSUME IInv, NEW i \in Ids, NEW status, plan[i] # Absent,
         plan' = [plan EXCEPT ![i].status = status],
         NEW d \in Ids, plan'[d] # plan[d]
  PROVE  /\ d = i /\ plan'[d].status = status
         /\ plan'[d] = [plan[d] EXCEPT !.status = status]
<1>1. plan[i] \in Rows
  BY DEF IInv, TypeOK
<1>2. plan' = [plan EXCEPT ![i] = [plan[i] EXCEPT !.status = status]]
  OBVIOUS
<1>3. \A e \in Ids : plan'[e] = IF e = i THEN [plan[i] EXCEPT !.status = status]
                                ELSE plan[e]
  BY <1>2 DEF IInv, TypeOK
<1> QED
  BY <1>1, <1>3 DEF Rows

LEMMA AppendStep ==
  ASSUME IInv, Next, NEW d \in Ids, plan[d] # Absent, plan'[d] # plan[d]
  PROVE  Rewritten(d)
<1>1. ASSUME NEW new \in Ids, NEW row, plan[new] = Absent,
             plan' = [plan EXCEPT ![new] = row]
      PROVE  FALSE
  BY <1>1 DEF IInv, TypeOK
<1>2. ASSUME NEW r \in Requests, Activate(r) \/ Cancel(r)
      PROVE  Rewritten(d)
  <2> PICK i : i = req[r].id
    OBVIOUS
  <2>1. StillValid(req[r]) /\ i \in Ids /\ plan[i] # Absent
    BY <1>2, OpTyped
    DEF Activate, Cancel, Finish, IInv, LocksHold, StillValid, Transactions
  <2>2. PICK status \in {"active", "cancelled"} :
           /\ plan' = [plan EXCEPT ![i].status = status]
           /\ CanTransition(plan[i].status, status)
    BY <1>2, <2>1 DEF Activate, Cancel, Finish, StillValid, SetStatus
  <2>3. /\ d = i /\ plan'[d].status = status
        /\ plan'[d] = [plan[d] EXCEPT !.status = status]
    BY <2>1, <2>2, StatusRewritten
  <2> QED
    BY <2>2, <2>3 DEF Rewritten
<1>3. ASSUME NEW r \in Requests, NEW new \in Ids, Supersede(r, new)
      PROVE  Rewritten(d)
  <2> PICK i : i = req[r].id
    OBVIOUS
  <2> PICK row : row = NewRow(req[r].target, req[r].hours, i, plan[i].origin)
    OBVIOUS
  <2> PICK old : old = [plan[i] EXCEPT !.status = "superseded"]
    OBVIOUS
  <2>1. /\ StillValid(req[r]) /\ i \in Ids /\ plan[i] # Absent
        /\ plan[i].status \in Live
    BY <1>3, OpTyped
    DEF Supersede, Finish, IInv, LocksHold, StillValid, Transactions
  <2>2. plan[i] \in Rows /\ i # new /\ plan[new] = Absent
    BY <1>3, <2>1 DEF IInv, TypeOK, Supersede
  <2>3. plan' = [plan EXCEPT ![i] = old, ![new] = row]
    BY <1>3, <2>1, <2>2 DEF Supersede, IInv, TypeOK
  <2>4. d = i /\ plan'[d] = old
    BY <2>1, <2>2, <2>3 DEF IInv, TypeOK
  <2>5. old.status = "superseded"
    BY <2>2 DEF Rows
  <2> QED
    BY <2>1, <2>4, <2>5 DEF Rewritten
<1>4. plan' # plan
  OBVIOUS
<1>5. ~ \E r \in Requests, e \in Ids :
           \/ LockActivate(r, e) \/ LockCancel(r, e) \/ Rollback(r)
           \/ \E hours \in Hours : LockClaim(r, e, hours)
           \/ \E target \in {"user", "wg"}, hours \in Hours \cup {Unset} :
                 LockSupersede(r, e, target, hours)
  BY <1>4 DEF LockActivate, LockCancel, LockClaim, LockSupersede, Lock, Rollback
<1>6. ~ \E e \in Ids, target \in {"user", "wg"}, hours \in Hours \cup {Unset} :
           Create(e, target, hours)
  BY <1>1 DEF Create
<1>7. ~ \E r \in Requests, e \in Ids : Claim(r, e)
  BY <1>1 DEF Claim
<1> QED
  BY <1>2, <1>3, <1>5, <1>6, <1>7 DEF Next

(* Hours, target and references of a row never change, by any interleaving,   *)
(* and its status only moves along the matrix or ends in superseded.          *)
THEOREM PlanIsAppendOnly == Spec => PlanAppendOnly
<1>1. ASSUME IInv, [Next]_vars
      PROVE  [\A d \in Ids : plan[d] # Absent /\ plan'[d] # plan[d] =>
                /\ plan'[d] = [plan[d] EXCEPT !.status = plan'[d].status]
                /\ \/ CanTransition(plan[d].status, plan'[d].status)
                   \/ plan[d].status \in Live /\ plan'[d].status = "superseded"]_vars
  BY <1>1, AppendStep DEF Rewritten
<1> QED
  BY <1>1, Invariance, PTL DEF Spec, PlanAppendOnly

LEMMA NewClaimStep ==
  ASSUME IInv, Next, NEW d \in Ids, plan[d] = Absent, plan'[d].origin # None,
         plan'[d].supersedes = None
  PROVE  plan[plan'[d].origin].status = "active"
<1>1. plan'[d] # plan[d]
  BY DEF Absent
<1>2. PICK r \in Requests : \/ \E new \in Ids : Claim(r, new) \/ Supersede(r, new)
                            \/ Activate(r) \/ Cancel(r)
  <2>1. plan' # plan
    BY <1>1
  <2>2. ~ \E e \in Ids, target \in {"user", "wg"}, hours \in Hours \cup {Unset} :
             Create(e, target, hours)
    BY <1>1 DEF Create, NewRow, IInv, TypeOK
  <2> QED
    BY <2>1, <2>2
    DEF Next, LockActivate, LockCancel, LockClaim, LockSupersede, Lock, Rollback
<1> PICK i : i = req[r].id
  OBVIOUS
<1>3. StillValid(req[r]) /\ i \in Ids /\ plan[i] # Absent
  BY <1>2, OpTyped
  DEF Activate, Cancel, Claim, Supersede, Finish, IInv, LocksHold, StillValid,
      Transactions
<1>4. CASE \E new \in Ids : Claim(r, new)
  <2> PICK new \in Ids : Claim(r, new)
    BY <1>4
  <2>1. plan' = [plan EXCEPT ![new] = NewRow("user", req[r].hours, None, i)]
    BY DEF Claim
  <2>2. d = new /\ plan'[d].origin = i
    BY <1>1, <2>1 DEF NewRow, IInv, TypeOK
  <2> QED
    BY <1>3, <2>2 DEF Claim, Finish, StillValid
<1>5. CASE \E new \in Ids : Supersede(r, new)
  <2> PICK new \in Ids : Supersede(r, new)
    BY <1>5
  <2> PICK row : row = NewRow(req[r].target, req[r].hours, i, plan[i].origin)
    OBVIOUS
  <2>1. row.supersedes = i /\ i # None
    BY <1>3, NoneAssumption DEF NewRow
  <2>2. i # new /\ d # i
    BY <1>3 DEF Supersede
  <2>3. plan'[new] = row
    BY <2>2 DEF Supersede, IInv, TypeOK
  <2>4. d = new
    BY <1>1, <1>3, <2>2 DEF Supersede, IInv, TypeOK
  <2> QED
    BY <2>1, <2>3, <2>4
<1>6. CASE Activate(r) \/ Cancel(r)
  <2>1. PICK status : plan' = [plan EXCEPT ![i].status = status]
    BY <1>6 DEF Activate, Cancel, SetStatus
  <2> QED
    BY <1>1, <1>3, <2>1, StatusRewritten
<1> QED
  BY <1>2, <1>4, <1>5, <1>6

(* A claim commits only on a working-group row that is active at that moment. *)
THEOREM ClaimsLand == Spec => ClaimsLandOnActive
<1>1. ASSUME IInv, [Next]_vars
      PROVE  [\A d \in Ids :
                plan[d] = Absent /\ plan'[d].origin # None
                   /\ plan'[d].supersedes = None
                => plan[plan'[d].origin].status = "active"]_vars
  BY <1>1, NewClaimStep
<1> QED
  BY <1>1, Invariance, PTL DEF Spec, ClaimsLandOnActive
-----------------------------------------------------------------------------
(* The hours of a set of rows.  Induction is over sets of numbers, then over  *)
(* the subsets of a finite set.                                               *)

LEMMA BelowIsWellFounded ==
    \E R : IsWellFoundedOn(R, Nat) /\ \A x, y \in Nat : y < x => <<y, x>> \in R
<1>1. IsWellFoundedOn(OpToRel(<, Nat), Nat)
    BY NatLessThanWellFounded
<1>2. \A x, y \in Nat : y < x => <<y, x>> \in OpToRel(<, Nat)
    BY Zenon DEF OpToRel
<1> QED BY <1>1, <1>2, Zenon

LEMMA LeastNat ==
    ASSUME NEW T \in SUBSET Nat, T # {}
    PROVE  \E x \in T : \A y \in T : x <= y
<1>1. PICK R : IsWellFoundedOn(R, Nat) /\ \A x, y \in Nat : y < x => <<y, x>> \in R
    BY BelowIsWellFounded
<1>2. PICK x \in T : \A y \in T : ~(<<y, x>> \in R)
    BY <1>1, WFMin
<1>3. ASSUME NEW y \in T PROVE x <= y
    <2>1. x \in Nat /\ y \in Nat
        OBVIOUS
    <2>2. ~(y < x)
        BY <1>1, <1>2, <2>1, Zenon
    <2> QED BY <2>1, <2>2
<1> QED BY <1>2, <1>3

LEMMA SetInduction ==
    ASSUME NEW S, 0 \in S, \A n \in Nat : n \in S => n + 1 \in S
    PROVE  Nat \subseteq S
<1> SUFFICES ASSUME Nat \ S # {} PROVE FALSE
    OBVIOUS
<1>1. PICK x \in Nat \ S : \A y \in Nat \ S : x <= y
    BY LeastNat
<1>2. x # 0 /\ x - 1 \in Nat
    OBVIOUS
<1>3. x - 1 \in S
    BY <1>1, <1>2
<1> QED BY <1>1, <1>2, <1>3

LEMMA ByRemoval ==
    ASSUME NEW D, IsFiniteSet(D), NEW G, {} \in G,
           \A s \in SUBSET D : s # {} /\ (\A x \in s : s \ {x} \in G) => s \in G
    PROVE  SUBSET D \subseteq G
<1> DEFINE Good == {n \in Nat : \A s \in SUBSET D : Cardinality(s) = n => s \in G}
<1>1. \A s \in SUBSET D : IsFiniteSet(s) /\ Cardinality(s) \in Nat
    BY FS_Subset, FS_CardinalityType
<1>2. 0 \in Good
    BY <1>1, FS_EmptySet
<1>3. ASSUME NEW n \in Nat, n \in Good PROVE n + 1 \in Good
    <2> SUFFICES ASSUME NEW s \in SUBSET D, Cardinality(s) = n + 1 PROVE s \in G
        OBVIOUS
    <2>1. s # {}
        <3>1. Cardinality({}) = 0 /\ n + 1 # 0
            BY FS_EmptySet
        <3> QED BY <3>1
    <2>2. ASSUME NEW x \in s PROVE s \ {x} \in G
        <3>1. Cardinality(s \ {x}) = n
            BY <1>1, FS_RemoveElement
        <3> QED BY <1>3, <3>1
    <2> QED BY <2>1, <2>2
<1>4. Nat \subseteq Good
    <2> HIDE DEF Good
    <2> QED BY <1>2, <1>3, SetInduction
<1> QED BY <1>1, <1>4

(* MapThenSumSet, unfolded: f adds the hours of the rows of a subset of D one *)
(* picked row at a time.                                                      *)
Pick(s) == CHOOSE x \in s : TRUE
Sums(p, D, f) ==
    f = [s \in SUBSET D |-> IF s = {} THEN 0 ELSE p[Pick(s)].hours + f[s \ {Pick(s)}]]
StepOf(p, D, f) ==
    /\ f[{}] = 0
    /\ \A s \in SUBSET D : s # {} => /\ Pick(s) \in s
                                     /\ f[s] = p[Pick(s)].hours + f[s \ {Pick(s)}]
RemoveOf(p, D, f) == \A s \in SUBSET D : \A x \in s : f[s] = p[x].hours + f[s \ {x}]
Total(p, D) == (CHOOSE f : Sums(p, D, f))[D]

LEMMA SumsExist ==
    ASSUME NEW p, NEW D, IsFiniteSet(D)
    PROVE  \E f : Sums(p, D, f)
<1> DEFINE Small(n) == {s \in SUBSET D : Cardinality(s) <= n}
           Sum(f, s) == IF s = {} THEN 0 ELSE p[Pick(s)].hours + f[s \ {Pick(s)}]
           Good == {n \in Nat : \E f : f = [s \in Small(n) |-> Sum(f, s)]}
<1>1. \A s \in SUBSET D : IsFiniteSet(s) /\ Cardinality(s) \in Nat
    BY FS_Subset, FS_CardinalityType
<1>2. 0 \in Good
    <2>1. PICK f : f = [s \in Small(0) |-> 0]
        OBVIOUS
    <2>2. ASSUME NEW s \in Small(0) PROVE f[s] = Sum(f, s)
        <3>1. s = {}
            BY <1>1, FS_EmptySet
        <3> QED BY <2>1, <3>1
    <2>3. f = [s \in Small(0) |-> Sum(f, s)]
        BY <2>1, <2>2
    <2> QED BY <2>3
<1>3. ASSUME NEW n \in Nat, n \in Good PROVE n + 1 \in Good
    <2>1. PICK f : f = [s \in Small(n) |-> Sum(f, s)]
        BY <1>3
    <2>2. PICK g : g = [s \in Small(n + 1) |-> IF Cardinality(s) = n + 1 THEN Sum(f, s) ELSE f[s]]
        OBVIOUS
    <2>3. ASSUME NEW s \in Small(n + 1) PROVE g[s] = Sum(g, s)
        <3>1. CASE s = {}
            <4>1. Cardinality(s) = 0 /\ s \in Small(n) /\ Cardinality(s) # n + 1
                BY <3>1, FS_EmptySet
            <4> QED BY <2>1, <2>2, <3>1, <4>1
        <3>2. CASE s # {}
            <4>1. PICK x : x = Pick(s)
                OBVIOUS
            <4>2. x \in s
                BY <3>2, <4>1 DEF Pick
            <4>3. PICK t : t = s \ {x}
                OBVIOUS
            <4>4. Cardinality(t) = Cardinality(s) - 1 /\ Cardinality(s) \in Nat
                BY <1>1, <4>2, <4>3, FS_RemoveElement
            <4>5. Cardinality(s) <= n + 1
                OBVIOUS
            <4>6. t \in Small(n) /\ t \in Small(n + 1) /\ Cardinality(t) # n + 1
                BY <4>3, <4>4, <4>5
            <4>7. g[t] = f[t]
                BY <2>2, <4>6
            <4>8. Sum(f, s) = p[x].hours + f[t] /\ Sum(g, s) = p[x].hours + g[t]
                BY <3>2, <4>1, <4>3
            <4>9. g[s] = Sum(f, s)
                <5>1. CASE Cardinality(s) = n + 1
                    BY <2>2, <5>1
                <5>2. CASE Cardinality(s) # n + 1
                    <6>1. s \in Small(n)
                        BY <4>4, <4>5, <5>2
                    <6> QED BY <2>1, <2>2, <5>2, <6>1
                <5> QED BY <5>1, <5>2
            <4> QED BY <4>7, <4>8, <4>9
        <3> QED BY <3>1, <3>2
    <2>4. g = [s \in Small(n + 1) |-> Sum(g, s)]
        <3> HIDE DEF Sum
        <3> QED BY <2>2, <2>3
    <2>5. n + 1 \in Nat
        OBVIOUS
    <2> QED BY <2>4, <2>5
<1>4. Nat \subseteq Good
    <2> HIDE DEF Good
    <2> QED BY <1>2, <1>3, SetInduction
<1>5. PICK N \in Nat : N = Cardinality(D)
    BY FS_CardinalityType
<1>6. PICK f : f = [s \in Small(N) |-> Sum(f, s)]
    BY <1>4
<1>7. Small(N) = SUBSET D
    BY <1>5, FS_Subset
<1>8. Sums(p, D, f)
    BY <1>6, <1>7 DEF Sums
<1> QED BY <1>8

LEMMA SumsStep ==
    ASSUME NEW p, NEW D, NEW f, Sums(p, D, f)
    PROVE  StepOf(p, D, f)
<1>1. f[{}] = 0
    <2>1. {} \in SUBSET D
        OBVIOUS
    <2> QED BY <2>1 DEF Sums
<1>2. ASSUME NEW s \in SUBSET D, s # {}
      PROVE  Pick(s) \in s /\ f[s] = p[Pick(s)].hours + f[s \ {Pick(s)}]
    <2>1. Pick(s) \in s
        BY <1>2 DEF Pick
    <2> QED BY <1>2, <2>1 DEF Sums
<1> QED BY <1>1, <1>2 DEF StepOf

LEMMA SumsNat ==
    ASSUME NEW p, NEW D, IsFiniteSet(D), NEW f, Sums(p, D, f), \A d \in D : p[d].hours \in Nat
    PROVE  \A s \in SUBSET D : f[s] \in Nat
<1> DEFINE G == {s \in SUBSET D : f[s] \in Nat}
<1>0. StepOf(p, D, f)
    BY SumsStep
<1>1. {} \in G
    BY <1>0 DEF StepOf
<1>2. ASSUME NEW s \in SUBSET D, s # {}, \A x \in s : s \ {x} \in G PROVE s \in G
    <2>1. PICK x : x = Pick(s) /\ x \in s /\ f[s] = p[x].hours + f[s \ {x}]
        BY <1>0, <1>2 DEF StepOf
    <2>2. f[s \ {x}] \in Nat /\ p[x].hours \in Nat
        BY <1>2, <2>1
    <2> QED BY <2>1, <2>2
<1>3. SUBSET D \subseteq G
    <2> HIDE DEF G
    <2> QED BY <1>1, <1>2, ByRemoval
<1> QED BY <1>3

(* The order in which the rows are picked does not matter.                    *)
LEMMA SumsRemove ==
    ASSUME NEW p, NEW D, IsFiniteSet(D), NEW f, Sums(p, D, f), \A d \in D : p[d].hours \in Nat
    PROVE  RemoveOf(p, D, f)
<1> DEFINE G == {s \in SUBSET D : \A x \in s : f[s] = p[x].hours + f[s \ {x}]}
<1>0. \A s \in SUBSET D : s # {} => /\ Pick(s) \in s
                                    /\ f[s] = p[Pick(s)].hours + f[s \ {Pick(s)}]
    <2>1. StepOf(p, D, f)
        BY SumsStep
    <2> QED BY <2>1 DEF StepOf
<1>1. {} \in G
    OBVIOUS
<1>2. ASSUME NEW s \in SUBSET D, s # {}, \A x \in s : s \ {x} \in G PROVE s \in G
    <2> SUFFICES ASSUME NEW x \in s PROVE f[s] = p[x].hours + f[s \ {x}]
        OBVIOUS
    <2>1. PICK y : y = Pick(s) /\ y \in s /\ f[s] = p[y].hours + f[s \ {y}]
        BY <1>0, <1>2
    <2>2. CASE x = y
        BY <2>1, <2>2
    <2>3. CASE x # y
        <3>1. PICK r : r = (s \ {x}) \ {y}
            OBVIOUS
        <3>2. r = (s \ {y}) \ {x} /\ r \in SUBSET D
            BY <3>1
        <3>3. x \in s \ {y} /\ y \in s \ {x}
            BY <2>1, <2>3
        <3>4. f[s \ {y}] = p[x].hours + f[r]
            BY <1>2, <2>1, <3>2, <3>3
        <3>5. f[s \ {x}] = p[y].hours + f[r]
            BY <1>2, <2>1, <3>1, <3>3
        <3>6. p[x].hours \in Nat /\ p[y].hours \in Nat /\ f[r] \in Nat
            BY <2>1, <3>2, SumsNat
        <3> QED BY <2>1, <3>4, <3>5, <3>6
    <2> QED BY <2>2, <2>3
<1>3. SUBSET D \subseteq G
    <2> HIDE DEF G
    <2> QED BY <1>1, <1>2, ByRemoval
<1> QED BY <1>3 DEF RemoveOf

LEMMA SumsAgree ==
    ASSUME NEW p, NEW q, NEW D, IsFiniteSet(D), NEW E \in SUBSET D, NEW f, NEW g,
           Sums(p, D, f), Sums(q, E, g), \A d \in E : p[d].hours = q[d].hours
    PROVE  f[E] = g[E]
<1> DEFINE G == {s \in SUBSET E : f[s] = g[s]}
<1>0. /\ f[{}] = 0 /\ g[{}] = 0
      /\ \A s \in SUBSET E : s # {} => /\ Pick(s) \in s
                                       /\ f[s] = p[Pick(s)].hours + f[s \ {Pick(s)}]
                                       /\ g[s] = q[Pick(s)].hours + g[s \ {Pick(s)}]
    <2>1. StepOf(p, D, f) /\ StepOf(q, E, g)
        BY SumsStep
    <2>2. f[{}] = 0 /\ g[{}] = 0
        BY <2>1 DEF StepOf
    <2>3. \A s \in SUBSET D : s # {} => /\ Pick(s) \in s
                                       /\ f[s] = p[Pick(s)].hours + f[s \ {Pick(s)}]
        BY <2>1 DEF StepOf
    <2>4. \A s \in SUBSET E : s # {} => g[s] = q[Pick(s)].hours + g[s \ {Pick(s)}]
        BY <2>1 DEF StepOf
    <2> QED BY <2>2, <2>3, <2>4
<1>1. {} \in G
    BY <1>0
<1>2. ASSUME NEW s \in SUBSET E, s # {}, \A x \in s : s \ {x} \in G PROVE s \in G
    <2>1. PICK x : x = Pick(s)
        OBVIOUS
    <2>2. x \in s /\ f[s] = p[x].hours + f[s \ {x}]
        BY <1>0, <1>2, <2>1
    <2>3. g[s] = q[x].hours + g[s \ {x}]
        BY <1>0, <1>2, <2>1
    <2> QED BY <1>2, <2>2, <2>3
<1>3. IsFiniteSet(E)
    BY FS_Subset
<1>4. SUBSET E \subseteq G
    <2> HIDE DEF G
    <2> QED BY <1>1, <1>2, <1>3, ByRemoval
<1> QED BY <1>4

LEMMA TotalIs ==
    ASSUME NEW p, NEW D, IsFiniteSet(D)
    PROVE  \E f : Sums(p, D, f) /\ Total(p, D) = f[D]
    BY SumsExist DEF Total

LEMMA TotalEmpty ==
    ASSUME NEW p
    PROVE  Total(p, {}) = 0
    BY TotalIs, SumsStep, FS_EmptySet DEF StepOf

(* Fewer rows of the same hours have no more of them.                         *)
LEMMA TotalFewer ==
    ASSUME NEW p, NEW q, NEW D, IsFiniteSet(D), NEW E \in SUBSET D,
           \A d \in D : p[d].hours \in Nat, \A d \in E : p[d].hours = q[d].hours
    PROVE  Total(q, E) \in Nat /\ Total(p, D) \in Nat /\ Total(q, E) <= Total(p, D)
<1>1. PICK f : Sums(p, D, f) /\ Total(p, D) = f[D]
    BY TotalIs
<1>2. PICK g : Sums(q, E, g) /\ Total(q, E) = g[E]
    BY TotalIs, FS_Subset
<1>3. Total(q, E) = f[E]
    <2>1. f[E] = g[E]
        BY <1>1, <1>2, SumsAgree
    <2> QED BY <1>2, <2>1
<1>4. \A s \in SUBSET D : f[s] \in Nat
    BY <1>1, SumsNat
<1>9. \A s \in SUBSET D : \A x \in s : f[s] = p[x].hours + f[s \ {x}]
    <2>1. RemoveOf(p, D, f)
        BY <1>1, SumsRemove
    <2> QED BY <2>1 DEF RemoveOf
<1> DEFINE G == {s \in SUBSET (D \ E) : f[E] <= f[E \cup s]}
<1>5. {} \in G
    <2>1. E \cup {} = E /\ f[E] <= f[E]
        BY <1>4
    <2> QED BY <2>1
<1>6. ASSUME NEW s \in SUBSET (D \ E), s # {}, \A x \in s : s \ {x} \in G PROVE s \in G
    <2>1. PICK x \in s : TRUE
        BY <1>6
    <2>2. /\ E \cup s \in SUBSET D /\ x \in E \cup s /\ x \in D
          /\ (E \cup s) \ {x} = E \cup (s \ {x})
        OBVIOUS
    <2>3. f[E \cup s] = p[x].hours + f[E \cup (s \ {x})]
        BY <1>9, <2>2
    <2>4. f[E] <= f[E \cup (s \ {x})]
        BY <1>6
    <2>5. /\ p[x].hours \in Nat /\ f[E] \in Nat /\ f[E \cup (s \ {x})] \in Nat
        BY <1>4, <2>2
    <2> QED BY <2>3, <2>4, <2>5
<1>7. SUBSET (D \ E) \subseteq G
    <2>1. IsFiniteSet(D \ E)
        BY FS_Subset
    <2> HIDE DEF G
    <2> QED BY <1>5, <1>6, <2>1, ByRemoval
<1>8. D \ E \in G /\ E \cup (D \ E) = D
    BY <1>7
<1> QED BY <1>1, <1>3, <1>4, <1>8

LEMMA TotalMore ==
    ASSUME NEW p, NEW D, IsFiniteSet(D), NEW x, x \notin D, \A d \in D \cup {x} : p[d].hours \in Nat
    PROVE  Total(p, D \cup {x}) = p[x].hours + Total(p, D)
<1>1. IsFiniteSet(D \cup {x})
    BY FS_AddElement
<1>2. PICK f : Sums(p, D \cup {x}, f) /\ Total(p, D \cup {x}) = f[D \cup {x}]
    BY <1>1, TotalIs
<1>3. PICK g : Sums(p, D, g) /\ Total(p, D) = g[D]
    BY TotalIs
<1>4. f[D] = g[D]
    BY <1>1, <1>2, <1>3, SumsAgree
<1>5. (D \cup {x}) \ {x} = D
    OBVIOUS
<1>6. f[D \cup {x}] = p[x].hours + f[D]
    <2>1. RemoveOf(p, D \cup {x}, f)
        BY <1>1, <1>2, SumsRemove
    <2> QED BY <1>5, <2>1 DEF RemoveOf
<1> QED BY <1>2, <1>3, <1>4, <1>6

-----------------------------------------------------------------------------
(* The budget of a working-group row.                                         *)

FirstClaims(w) == {d \in LiveClaims(w) : plan[d].supersedes = None}

Present == {d \in Ids : plan[d] # Absent}

(* A claim names a row that is there.                                         *)
OriginsGrounded ==
    \A d \in Ids : plan[d].origin # None =>
        plan[d].origin \in Ids /\ plan[plan[d].origin] # Absent

(* The room a claim found under the lock of the working-group row is still    *)
(* there when its row is written.                                             *)
ClaimRoom ==
    \A r \in Requests : req[r].op = "claim" =>
        LET w == req[r].id IN
        plan[w].hours # Unset => Claimed(FirstClaims(w)) + req[r].hours <= plan[w].hours

FInv == IInv /\ IsFiniteSet(Present) /\ OriginsGrounded /\ ClaimRoom /\ FirstClaimsFit

(* Rows keep everything but their status, and none comes back to life.        *)
Keeps ==
    \A d \in Ids : plan[d] # Absent =>
        /\ plan'[d] # Absent
        /\ plan'[d].target = plan[d].target /\ plan'[d].hours = plan[d].hours
        /\ plan'[d].supersedes = plan[d].supersedes /\ plan'[d].origin = plan[d].origin
        /\ plan'[d].status \in Live => plan[d].status \in Live

(* At most one row is new, and its origin, if any, is there.                  *)
AddsOne(new) ==
    \A d \in Ids : plan[d] = Absent /\ plan'[d] # Absent =>
        /\ d = new
        /\ plan'[d].origin # None =>
              plan'[d].origin \in Ids /\ plan[plan'[d].origin] # Absent

NoFirstClaim ==
    \A d \in Ids : plan[d] = Absent /\ plan'[d] # Absent =>
        plan'[d].origin = None \/ plan'[d].supersedes # None

LEMMA SentHours == \A h \in Hours \cup {Unset} : h \in Nat
  BY HoursAssumption DEF Unset

LEMMA HoursNat ==
  ASSUME TypeOK
  PROVE  \A d \in Present : plan[d] \in Rows /\ plan[d].hours \in Nat
<1> SUFFICES ASSUME NEW d \in Ids, plan[d] # Absent
             PROVE  plan[d] \in Rows /\ plan[d].hours \in Nat
  BY DEF Present
<1>1. plan[d] \in Rows
  BY DEF TypeOK
<1>2. plan[d].hours \in Hours \cup {Unset}
  BY <1>1 DEF Rows
<1> QED
  BY <1>1, <1>2, SentHours

LEMMA ClaimsPresent ==
  ASSUME NEW w \in Ids
  PROVE  FirstClaims(w) \subseteq LiveClaims(w) /\ LiveClaims(w) \subseteq Present
  BY DEF FirstClaims, LiveClaims, Present, Absent, Live

LEMMA FirstClaimed ==
  \A w : /\ Claimed(FirstClaims(w)) = Total(plan, FirstClaims(w))
         /\ Claimed(FirstClaims(w))' = Total(plan', FirstClaims(w)')
         /\ Claimed(LiveClaims(w)) = Total(plan, LiveClaims(w))
  BY DEF Claimed, MapThenSumSet, MapThenFoldSet, Total, Sums, Pick

LEMMA FirstsFinite ==
  ASSUME TypeOK, IsFiniteSet(Present), NEW w \in Ids
  PROVE  /\ IsFiniteSet(FirstClaims(w)) /\ IsFiniteSet(LiveClaims(w))
         /\ Claimed(FirstClaims(w)) \in Nat
         /\ Claimed(FirstClaims(w)) <= Claimed(LiveClaims(w))
<1>1. IsFiniteSet(FirstClaims(w)) /\ IsFiniteSet(LiveClaims(w))
  <2>1. FirstClaims(w) \in SUBSET Present /\ LiveClaims(w) \in SUBSET Present
    BY ClaimsPresent
  <2> QED
    BY <2>1, FS_Subset
<1>2. \A d \in LiveClaims(w) : plan[d].hours \in Nat
  BY ClaimsPresent, HoursNat
<1>3. FirstClaims(w) \in SUBSET LiveClaims(w)
  BY ClaimsPresent
<1>4. /\ Total(plan, FirstClaims(w)) \in Nat
      /\ Total(plan, FirstClaims(w)) <= Total(plan, LiveClaims(w))
  BY <1>1, <1>2, <1>3, TotalFewer
<1> QED
  BY <1>1, <1>4, FirstClaimed

(* What keeps the rows and adds no first claim frees hours at most.           *)
LEMMA FirstsShrink ==
  ASSUME TypeOK, IsFiniteSet(Present), Keeps, NEW w \in Ids,
         \A d \in FirstClaims(w)' : plan[d] # Absent
  PROVE  /\ FirstClaims(w)' \subseteq FirstClaims(w)
         /\ Claimed(FirstClaims(w))' \in Nat /\ Claimed(FirstClaims(w)) \in Nat
         /\ Claimed(FirstClaims(w))' <= Claimed(FirstClaims(w))
<1>1. FirstClaims(w)' \subseteq FirstClaims(w)
  BY DEF Keeps, FirstClaims, LiveClaims
<1>2. IsFiniteSet(FirstClaims(w))
  BY FirstsFinite
<1>3. \A d \in FirstClaims(w) : d \in Ids /\ plan[d] # Absent /\ plan[d].hours \in Nat
  BY ClaimsPresent, HoursNat DEF Present
<1>4. \A d \in FirstClaims(w)' : plan[d].hours = plan'[d].hours
  BY <1>1, <1>3 DEF Keeps
<1> PICK E : E = FirstClaims(w)'
  OBVIOUS
<1>5. /\ Total(plan', E) \in Nat /\ Total(plan, FirstClaims(w)) \in Nat
      /\ Total(plan', E) <= Total(plan, FirstClaims(w))
  BY <1>1, <1>2, <1>3, <1>4, TotalFewer
<1> QED
  BY <1>1, <1>5, FirstClaimed

LEMMA PlanKeeps ==
  ASSUME IInv, Next
  PROVE  Keeps
<1> SUFFICES ASSUME NEW d \in Ids, plan[d] # Absent
             PROVE  /\ plan'[d] # Absent
                    /\ plan'[d].target = plan[d].target
                    /\ plan'[d].hours = plan[d].hours
                    /\ plan'[d].supersedes = plan[d].supersedes
                    /\ plan'[d].origin = plan[d].origin
                    /\ plan'[d].status \in Live => plan[d].status \in Live
  BY DEF Keeps
<1>1. plan[d] \in Rows
  BY DEF IInv, TypeOK
<1>2. CASE plan'[d] = plan[d]
  BY <1>2
<1>3. CASE plan'[d] # plan[d]
  <2>1. /\ plan'[d] = [plan[d] EXCEPT !.status = plan'[d].status]
        /\ plan[d].status \in Live /\ plan'[d].status # "absent"
    BY <1>3, AppendStep DEF Rewritten, CanTransition, Live
  <2> QED
    BY <1>1, <2>1 DEF Rows, Absent
<1> QED
  BY <1>2, <1>3

(* A new row has no claims yet.                                               *)
LEMMA NewRowUnclaimed ==
  ASSUME OriginsGrounded, NEW w \in Ids, plan[w] = Absent
  PROVE  FirstClaims(w) = {}
  BY NoneAssumption DEF OriginsGrounded, FirstClaims, LiveClaims

LEMMA Grounded ==
  ASSUME OriginsGrounded, Keeps, NEW new, AddsOne(new),
         \A d \in Ids : plan'[d] = Absent => plan'[d].origin = None
  PROVE  OriginsGrounded'
<1> SUFFICES ASSUME NEW d \in Ids, plan'[d].origin # None
             PROVE  plan'[d].origin \in Ids /\ plan'[plan'[d].origin] # Absent
  BY DEF OriginsGrounded
<1>1. plan'[d].origin \in Ids /\ plan[plan'[d].origin] # Absent
  <2>1. CASE plan[d] # Absent
    BY <2>1 DEF Keeps, OriginsGrounded
  <2>2. CASE plan[d] = Absent
    BY <2>2 DEF AddsOne
  <2> QED
    BY <2>1, <2>2
<1> QED
  BY <1>1 DEF Keeps

LEMMA PresentFinite ==
  ASSUME IsFiniteSet(Present), NEW new, AddsOne(new)
  PROVE  IsFiniteSet(Present')
<1>1. Present' \in SUBSET (Present \cup {new})
  BY DEF Present, AddsOne
<1>2. IsFiniteSet(Present \cup {new})
  BY FS_AddElement
<1> QED
  BY <1>1, <1>2, FS_Subset

(* Every step but a claim.                                                    *)
LEMMA RoomKept ==
  ASSUME FInv, IInv', Keeps, NEW new, AddsOne(new), NoFirstClaim,
         \A r \in Requests : req'[r].op = "claim" => req'[r] = req[r]
  PROVE  FInv'
<1>1. TypeOK /\ TypeOK' /\ IsFiniteSet(Present) /\ OriginsGrounded /\ LocksHold
  BY DEF FInv, IInv
<1>2. \A d \in Ids : plan'[d] = Absent => plan'[d].origin = None
  BY DEF Absent
<1>3. OriginsGrounded' /\ IsFiniteSet(Present')
  BY <1>1, <1>2, Grounded, PresentFinite
<1>4. ASSUME NEW w \in Ids
      PROVE  /\ FirstClaims(w)' \subseteq FirstClaims(w)
             /\ Claimed(FirstClaims(w))' \in Nat /\ Claimed(FirstClaims(w)) \in Nat
             /\ Claimed(FirstClaims(w))' <= Claimed(FirstClaims(w))
  <2>1. \A d \in FirstClaims(w)' : plan[d] # Absent
    BY NoneAssumption DEF NoFirstClaim, FirstClaims, LiveClaims, Live, Absent
  <2> QED
    BY <1>1, <2>1, FirstsShrink
<1>5. FirstClaimsFit'
  <2> SUFFICES ASSUME NEW w \in Ids, plan'[w] # Absent, plan'[w].target = "wg",
                      plan'[w].hours # Unset
               PROVE  Claimed(FirstClaims(w))' <= plan'[w].hours
    BY DEF FirstClaimsFit, FirstClaims
  <2>1. CASE plan[w] # Absent
    <3>1. Claimed(FirstClaims(w)) <= plan[w].hours /\ plan'[w].hours = plan[w].hours
      BY <2>1 DEF FInv, FirstClaimsFit, FirstClaims, Keeps
    <3>2. plan[w].hours \in Nat
      BY <1>1, <2>1, HoursNat DEF Present
    <3> QED
      BY <1>4, <3>1, <3>2
  <2>2. CASE plan[w] = Absent
    <3>1. FirstClaims(w) = {}
      BY <1>1, <2>2, NewRowUnclaimed
    <3>2. Claimed(FirstClaims(w)) = 0
      BY <3>1, FirstClaimed, TotalEmpty
    <3>3. plan'[w].hours \in Nat
      BY <1>1, HoursAssumption DEF TypeOK, Rows, Unset
    <3> QED
      BY <1>4, <3>2, <3>3
  <2> QED
    BY <2>1, <2>2
<1>6. ClaimRoom'
  <2> SUFFICES ASSUME NEW r \in Requests, req'[r].op = "claim", NEW w, w = req'[r].id,
                      plan'[w].hours # Unset
               PROVE  Claimed(FirstClaims(w))' + req'[r].hours <= plan'[w].hours
    BY DEF ClaimRoom
  <2>1. req'[r] = req[r] /\ req[r].op = "claim"
    OBVIOUS
  <2>2. req[r] \in Transactions /\ req[r] # Idle
    BY <1>1, <2>1, OpTyped
  <2>3. w \in Ids /\ req[r].hours \in Nat /\ plan[w] # Absent
    <3>1. w \in Ids /\ req[r].hours \in Hours \cup {Unset}
      BY <2>1, <2>2 DEF Transactions
    <3>2. plan[w] # Absent
      BY <1>1, <2>1, <2>2 DEF LocksHold, StillValid
    <3> QED
      BY <3>1, <3>2, SentHours
  <2>4. plan'[w].hours = plan[w].hours /\ plan[w].hours \in Nat
    BY <1>1, <2>3, HoursNat DEF Keeps, Present
  <2>5. Claimed(FirstClaims(w)) + req[r].hours <= plan[w].hours
    BY <2>1, <2>4 DEF FInv, ClaimRoom
  <2> QED
    BY <1>4, <2>1, <2>3, <2>4, <2>5
<1> QED
  BY <1>3, <1>5, <1>6 DEF FInv

LEMMA InsertRoom ==
  ASSUME FInv, IInv', Keeps, NEW new \in Ids, NEW target, NEW hours, req' = req,
         plan' = [plan EXCEPT ![new] = NewRow(target, hours, None, None)]
  PROVE  FInv'
<1>1. \A d \in Ids : plan[d] = Absent /\ plan'[d] # Absent =>
         d = new /\ plan'[d].origin = None
  BY DEF FInv, IInv, TypeOK, NewRow
<1>2. AddsOne(new) /\ NoFirstClaim
  BY <1>1 DEF AddsOne, NoFirstClaim
<1> QED
  BY <1>2, RoomKept

(* Activate, cancel, roll back: no row is new.                                *)
LEMMA NoRowRoom ==
  ASSUME FInv, IInv', Keeps, NEW r \in Requests, req' = [req EXCEPT ![r] = Idle],
         \A d \in Ids : plan[d] = Absent => plan'[d] = Absent
  PROVE  FInv'
<1>1. AddsOne(None) /\ NoFirstClaim
  BY DEF AddsOne, NoFirstClaim
<1>2. \A s \in Requests : req'[s].op = "claim" => req'[s] = req[s]
  BY DEF FInv, IInv, TypeOK, Idle
<1> QED
  BY <1>1, <1>2, RoomKept

(* The row that supersedes a claim is not a first claim.                      *)
LEMMA SupersedeRoom ==
  ASSUME FInv, IInv', Keeps, NEW r \in Requests, NEW new \in Ids, Supersede(r, new)
  PROVE  FInv'
<1> PICK i : i = req[r].id
  OBVIOUS
<1> PICK row : row = NewRow(req[r].target, req[r].hours, i, plan[i].origin)
  OBVIOUS
<1>1. i \in Ids /\ plan[i] # Absent /\ plan[new] = Absent /\ i # new /\ i # None
  BY OpTyped, NoneAssumption
  DEF Supersede, Finish, FInv, IInv, LocksHold, StillValid, Transactions
<1>2. row.supersedes = i /\ row.origin = plan[i].origin
  BY DEF NewRow
<1>3. \A d \in Ids : plan[d] = Absent /\ plan'[d] # Absent => d = new /\ plan'[d] = row
  BY <1>1 DEF Supersede, FInv, IInv, TypeOK
<1>4. AddsOne(new)
  BY <1>1, <1>2, <1>3 DEF AddsOne, FInv, OriginsGrounded
<1>5. NoFirstClaim
  BY <1>1, <1>2, <1>3 DEF NoFirstClaim
<1>6. \A s \in Requests : req'[s].op = "claim" => req'[s] = req[s]
  BY DEF Supersede, Finish, FInv, IInv, TypeOK, Idle
<1> QED
  BY <1>4, <1>5, <1>6, RoomKept

LEMMA SamePlan ==
  ASSUME plan' = plan
  PROVE  /\ \A w : Claimed(FirstClaims(w))' = Claimed(FirstClaims(w))
         /\ FirstClaimsFit => FirstClaimsFit'
<1>1. \A w : FirstClaims(w)' = FirstClaims(w)
  BY DEF FirstClaims, LiveClaims
<1>2. \A w : Claimed(FirstClaims(w))' = Claimed(FirstClaims(w))
  BY <1>1, FirstClaimed
<1>3. FirstClaimsFit <=>
      \A w \in Ids : plan[w] # Absent /\ plan[w].target = "wg" /\ plan[w].hours # Unset =>
          Claimed(FirstClaims(w)) <= plan[w].hours
  BY DEF FirstClaimsFit, FirstClaims
<1>4. FirstClaimsFit' <=>
      \A w \in Ids : plan'[w] # Absent /\ plan'[w].target = "wg" /\ plan'[w].hours # Unset =>
          Claimed(FirstClaims(w))' <= plan'[w].hours
  BY DEF FirstClaimsFit, FirstClaims
<1> QED
  BY <1>2, <1>3, <1>4

(* What a claim sees under the lock is the room of its hours.                 *)
LEMMA LockRoom ==
  ASSUME FInv, IInv', NEW r \in Requests, NEW d \in Ids, NEW op, NEW target, NEW hours,
         Lock(r, op, d, target, hours),
         op = "claim" => /\ hours \in Hours
                         /\ plan[d].hours # Unset =>
                               Claimed(LiveClaims(d)) + hours <= plan[d].hours
  PROVE  FInv'
<1>1. plan' = plan /\ TypeOK /\ IsFiniteSet(Present) /\ plan[d] # Absent
  BY DEF Lock, FInv, IInv
<1>2. IsFiniteSet(Present') /\ OriginsGrounded'
  BY <1>1 DEF FInv, Present, OriginsGrounded
<1>3. FirstClaimsFit'
  BY <1>1, SamePlan DEF FInv
<1>4. \A s \in Requests : s # r => req'[s] = req[s]
  BY DEF Lock, FInv, IInv, TypeOK
<1>5. req'[r] = [op |-> op, id |-> d, target |-> target, hours |-> hours]
  BY DEF Lock, FInv, IInv, TypeOK
<1>6. \A w : Claimed(FirstClaims(w))' = Claimed(FirstClaims(w))
  BY <1>1, SamePlan
<1>7. ASSUME op = "claim", plan[d].hours # Unset
      PROVE  Claimed(FirstClaims(d)) + hours <= plan[d].hours
  <2>1. /\ Claimed(FirstClaims(d)) \in Nat
        /\ Claimed(FirstClaims(d)) <= Claimed(LiveClaims(d))
        /\ IsFiniteSet(LiveClaims(d))
    BY <1>1, FirstsFinite
  <2>2. Claimed(LiveClaims(d)) \in Nat
    <3>1. \A e \in LiveClaims(d) : plan[e].hours \in Nat
      BY <1>1, ClaimsPresent, HoursNat
    <3>2. Total(plan, LiveClaims(d)) \in Nat
      BY <2>1, <3>1, TotalFewer
    <3> QED
      BY <3>2, FirstClaimed
  <2>3. hours \in Nat /\ plan[d].hours \in Nat
    BY <1>1, <1>7, HoursNat, SentHours DEF Present
  <2> QED
    BY <1>7, <2>1, <2>2, <2>3
<1>8. ASSUME NEW s \in Requests, req'[s].op = "claim", NEW w, w = req'[s].id,
             plan'[w].hours # Unset
      PROVE  Claimed(FirstClaims(w))' + req'[s].hours <= plan'[w].hours
  <2>1. CASE s = r
    BY <1>1, <1>5, <1>6, <1>7, <1>8, <2>1
  <2>2. CASE s # r
    BY <1>1, <1>4, <1>6, <1>8, <2>2 DEF FInv, ClaimRoom
  <2> QED
    BY <2>1, <2>2
<1> QED
  BY <1>2, <1>3, <1>8 DEF FInv, ClaimRoom

(* The claim takes the room it found.                                         *)
LEMMA ClaimRoomStep ==
  ASSUME FInv, IInv', Keeps, NEW r \in Requests, NEW new \in Ids, Claim(r, new)
  PROVE  FInv'
<1> PICK i : i = req[r].id
  OBVIOUS
<1> PICK h : h = req[r].hours
  OBVIOUS
<1> PICK row : row = NewRow("user", h, None, i)
  OBVIOUS
<1>1. TypeOK /\ TypeOK' /\ IsFiniteSet(Present) /\ OriginsGrounded /\ LocksHold
  BY DEF FInv, IInv
<1>2. req[r] \in Transactions /\ req[r] # Idle /\ req[r].op = "claim"
  BY <1>1, OpTyped DEF Claim, Finish
<1>3. i \in Ids /\ h \in Nat
  BY <1>2, SentHours DEF Transactions
<1>4. plan[i] # Absent /\ plan[new] = Absent /\ i # new /\ i # None
  BY <1>1, <1>2, <1>3, NoneAssumption DEF LocksHold, StillValid, Claim
<1>5. row.origin = i /\ row.supersedes = None /\ row.hours = h
  BY DEF NewRow
<1>6. \A d \in Ids : plan'[d] = IF d = new THEN row ELSE plan[d]
  BY <1>1 DEF Claim, TypeOK
<1>7. AddsOne(new)
  BY <1>3, <1>4, <1>5, <1>6 DEF AddsOne
<1>8. OriginsGrounded' /\ IsFiniteSet(Present')
  <2>1. \A d \in Ids : plan'[d] = Absent => plan'[d].origin = None
    BY DEF Absent
  <2> QED
    BY <1>1, <1>7, <2>1, Grounded, PresentFinite
<1>9. ASSUME NEW w \in Ids, w # i
      PROVE  /\ FirstClaims(w)' \subseteq FirstClaims(w)
             /\ Claimed(FirstClaims(w))' \in Nat /\ Claimed(FirstClaims(w)) \in Nat
             /\ Claimed(FirstClaims(w))' <= Claimed(FirstClaims(w))
  <2>1. \A d \in FirstClaims(w)' : plan[d] # Absent
    BY <1>5, <1>6, <1>9 DEF FirstClaims, LiveClaims, Live, Absent
  <2> QED
    BY <1>1, <2>1, FirstsShrink
<1>10. /\ Claimed(FirstClaims(i)) \in Nat /\ Claimed(FirstClaims(i))' \in Nat
       /\ Claimed(FirstClaims(i))' <= h + Claimed(FirstClaims(i))
  <2> PICK F : F = FirstClaims(i)
    OBVIOUS
  <2> PICK E : E = FirstClaims(i)'
    OBVIOUS
  <2>1. E \subseteq F \cup {new}
    BY <1>6 DEF FirstClaims, LiveClaims
  <2>2. IsFiniteSet(F) /\ IsFiniteSet(F \cup {new})
    BY <1>1, <1>3, FirstsFinite, FS_AddElement
  <2>3. \A d \in F : d \in Ids /\ plan[d] # Absent /\ plan[d].hours \in Nat /\ d # new
    BY <1>1, <1>3, <1>4, ClaimsPresent, HoursNat DEF Present
  <2>4. \A d \in F : plan'[d].hours = plan[d].hours /\ plan[d].hours = plan'[d].hours
    BY <1>6, <2>3
  <2>5. \A d \in F \cup {new} : plan'[d].hours \in Nat
    BY <1>3, <1>5, <1>6, <2>3, <2>4
  <2>6. Total(plan', E) \in Nat /\ Total(plan', E) <= Total(plan', F \cup {new})
    BY <2>1, <2>2, <2>5, TotalFewer
  <2>7. Total(plan', F \cup {new}) = plan'[new].hours + Total(plan', F)
    BY <2>2, <2>3, <2>5, TotalMore
  <2>8. /\ Total(plan', F) \in Nat /\ Total(plan, F) \in Nat
        /\ Total(plan', F) <= Total(plan, F)
    BY <2>2, <2>3, <2>4, TotalFewer
  <2>9. plan'[new].hours = h
    BY <1>5, <1>6
  <2>10. Total(plan', E) \in Nat /\ Total(plan', E) <= h + Total(plan, F)
    BY <1>3, <2>6, <2>7, <2>8, <2>9
  <2>11. Claimed(FirstClaims(i)) = Total(plan, F) /\ Claimed(FirstClaims(i))' = Total(plan', E)
    BY FirstClaimed
  <2> QED
    BY <2>8, <2>10, <2>11
<1>11. plan'[i] = plan[i] /\ plan[i].hours \in Nat
  BY <1>1, <1>3, <1>4, <1>6, HoursNat DEF Present
<1>12. FirstClaimsFit'
  <2> SUFFICES ASSUME NEW w \in Ids, plan'[w] # Absent, plan'[w].target = "wg",
                      plan'[w].hours # Unset
               PROVE  Claimed(FirstClaims(w))' <= plan'[w].hours
    BY DEF FirstClaimsFit, FirstClaims
  <2>1. CASE w = i
    <3>1. Claimed(FirstClaims(i)) + h <= plan[i].hours
      BY <1>2, <1>11, <2>1 DEF FInv, ClaimRoom
    <3> QED
      BY <1>3, <1>10, <1>11, <2>1, <3>1
  <2>2. CASE w # i
    <3>1. w # new
      BY <1>6 DEF NewRow
    <3>2. plan'[w] = plan[w]
      BY <1>6, <3>1
    <3>3. Claimed(FirstClaims(w)) <= plan[w].hours /\ plan[w].hours \in Nat
      BY <1>1, <3>2, HoursNat DEF FInv, FirstClaimsFit, FirstClaims, Present
    <3> QED
      BY <1>9, <2>2, <3>2, <3>3
  <2> QED
    BY <2>1, <2>2
<1>13. ClaimRoom'
  <2> SUFFICES ASSUME NEW s \in Requests, req'[s].op = "claim", NEW w, w = req'[s].id,
                      plan'[w].hours # Unset
               PROVE  Claimed(FirstClaims(w))' + req'[s].hours <= plan'[w].hours
    BY DEF ClaimRoom
  <2>1. s # r /\ req'[s] = req[s] /\ req[s].op = "claim"
    BY <1>1 DEF Claim, Finish, TypeOK, Idle
  <2>2. req[s] \in Transactions /\ req[s] # Idle
    BY <1>1, <2>1, OpTyped
  <2>3. w \in Ids /\ req[s].hours \in Nat
    BY <2>1, <2>2, SentHours DEF Transactions
  <2>4. w # i /\ plan[w] # Absent
    BY <1>1, <1>2, <2>1, <2>2 DEF LocksHold, StillValid
  <2>5. plan'[w].hours = plan[w].hours /\ plan[w].hours \in Nat
    BY <1>1, <2>3, <2>4, HoursNat DEF Keeps, Present
  <2>6. Claimed(FirstClaims(w)) + req[s].hours <= plan[w].hours
    BY <2>1, <2>5 DEF FInv, ClaimRoom
  <2> QED
    BY <1>9, <2>1, <2>3, <2>4, <2>5, <2>6
<1> QED
  BY <1>8, <1>12, <1>13 DEF FInv

LEMMA InitRoom == Init => FInv
<1> SUFFICES ASSUME Init PROVE FInv
  OBVIOUS
<1>1. IInv
  BY InitInv
<1>2. Present = {} /\ OriginsGrounded /\ ClaimRoom /\ FirstClaimsFit
  BY DEF Init, Present, OriginsGrounded, ClaimRoom, FirstClaimsFit, Absent, Idle
<1>3. IsFiniteSet(Present)
  BY <1>2, FS_EmptySet
<1> QED
  BY <1>1, <1>2, <1>3 DEF FInv

LEMMA NextRoom == FInv /\ [Next]_vars => FInv'
<1> SUFFICES ASSUME FInv, [Next]_vars PROVE FInv'
  OBVIOUS
<1>1. IInv /\ IInv'
  BY NextInv DEF FInv
<1>2. CASE Next
  <2>1. Keeps
    BY <1>1, <1>2, PlanKeeps
  <2>2. ASSUME NEW new \in Ids, NEW target \in {"user", "wg"},
               NEW hours \in Hours \cup {Unset}, Create(new, target, hours)
        PROVE  FInv'
    BY <1>1, <2>1, <2>2, InsertRoom DEF Create
  <2>3. ASSUME NEW r \in Requests, NEW d \in Ids,
               \/ LockActivate(r, d) \/ LockCancel(r, d)
               \/ \E hours \in Hours : LockClaim(r, d, hours)
               \/ \E target \in {"user", "wg"}, hours \in Hours \cup {Unset} :
                     LockSupersede(r, d, target, hours)
        PROVE  FInv'
    <3>1. CASE LockActivate(r, d)
      BY <1>1, <3>1, LockRoom DEF LockActivate
    <3>2. CASE LockCancel(r, d)
      BY <1>1, <3>2, LockRoom DEF LockCancel
    <3>3. CASE \E hours \in Hours : LockClaim(r, d, hours)
      BY <1>1, <3>3, LockRoom DEF LockClaim
    <3>4. CASE \E target \in {"user", "wg"}, hours \in Hours \cup {Unset} :
                  LockSupersede(r, d, target, hours)
      BY <1>1, <3>4, LockRoom DEF LockSupersede
    <3> QED
      BY <2>3, <3>1, <3>2, <3>3, <3>4
  <2>4. ASSUME NEW r \in Requests, NEW d \in Ids, Supersede(r, d) \/ Claim(r, d)
        PROVE  FInv'
    BY <1>1, <2>1, <2>4, SupersedeRoom, ClaimRoomStep
  <2>5. ASSUME NEW r \in Requests, Activate(r) \/ Cancel(r) \/ Rollback(r)
        PROVE  FInv'
    <3>1. req' = [req EXCEPT ![r] = Idle]
      BY <2>5 DEF Activate, Cancel, Finish, Rollback
    <3>2. \A d \in Ids : plan[d] = Absent => plan'[d] = Absent
      <4>1. CASE Rollback(r)
        BY <4>1 DEF Rollback
      <4>2. CASE Activate(r) \/ Cancel(r)
        <5> PICK i : i = req[r].id
          OBVIOUS
        <5>1. plan[i] # Absent /\ i \in Ids
          BY <1>1, <4>2, OpTyped
          DEF Activate, Cancel, Finish, IInv, LocksHold, StillValid, Transactions
        <5>2. PICK status : plan' = [plan EXCEPT ![i].status = status]
          BY <4>2 DEF Activate, Cancel, SetStatus
        <5> QED
          BY <1>1, <5>1, <5>2 DEF IInv, TypeOK
      <4> QED
        BY <2>5, <4>1, <4>2
    <3> QED
      BY <1>1, <2>1, <3>1, <3>2, NoRowRoom
  <2> QED
    BY <1>2, <2>2, <2>3, <2>4, <2>5 DEF Next
<1>3. CASE UNCHANGED vars
  <2>1. plan' = plan /\ req' = req
    BY <1>3 DEF vars
  <2>2. FirstClaimsFit' /\ ClaimRoom'
    BY <2>1, SamePlan DEF FInv, ClaimRoom
  <2> QED
    BY <1>1, <2>1, <2>2 DEF FInv, Present, OriginsGrounded
<1> QED
  BY <1>2, <1>3

(* The claims made on a working-group row never exceed its budget, however    *)
(* many members claim at the same time: the lock of the row is held from the  *)
(* sum to the insert, and nothing else adds a first claim.                    *)
THEOREM FirstClaimsAlwaysFit == Spec => []FirstClaimsFit
<1>1. FInv => FirstClaimsFit
  BY DEF FInv
<1> QED
  BY <1>1, InitRoom, NextRoom, PTL DEF Spec
=============================================================================
