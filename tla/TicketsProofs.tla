---------------------------- MODULE TicketsProofs ----------------------------
(* For any number of tickets and racing handlers: the matrix is never left,   *)
(* and a ticket is planned once.                                              *)
EXTENDS Tickets, TLAPS

Held(r) == treq[r].stage \in {"locked", "checked"}

(* A ticket has one lock holder at a time, and the edge the holder asked the  *)
(* matrix for is still one from the status of the row: nobody else moves it.  *)
LocksHold ==
    /\ \A r, s \in TicketRequests :
          Held(r) /\ Held(s) /\ treq[r].id = treq[s].id => r = s
    /\ \A r \in TicketRequests :
          Held(r) => CanTransition(ticket[treq[r].id], treq[r].to)

(* A plan was inserted at most once, and never for a ticket that can still be *)
(* planned: no edge leads back to triage.                                     *)
PlansCounted ==
    \A t \in Tickets :
        plans[t] # 0 => plans[t] = 1 /\ ticket[t] \notin {"absent", "open", "triage"}

TriagesPlan ==
    \A r \in TicketRequests : treq[r].op = "triage" => treq[r].to = "planned"

IInv == TicketsTypeOK /\ LocksHold /\ PlansCounted /\ TriagesPlan

LEMMA HandlerTyped ==
  ASSUME TicketsTypeOK, NEW r \in TicketRequests,
         treq[r].stage # "none" \/ treq[r] # NoRequest
  PROVE  treq[r] \in Handlers
  BY DEF TicketsTypeOK, NoRequest

(* What the proofs need of a request to be idle.                              *)
LEMMA NoRequestHolds ==
  /\ NoRequest.op = "none" /\ NoRequest.stage = "none"
  /\ NoRequest \notin Handlers
  BY DEF NoRequest, Handlers

LEMMA BeginStep ==
  ASSUME IInv, NEW r \in TicketRequests, NEW t \in Tickets,
         NEW op \in {"transition", "dismiss", "triage"}, NEW to \in TicketStatuses,
         op = "triage" => to = "planned", Begin(r, op, t, to)
  PROVE  IInv'
<1> DEFINE q == [op |-> op, id |-> t, to |-> to, stage |-> "read"]
<1>1. q \in Handlers
  BY DEF Handlers
<1>2. \A s \in TicketRequests : treq'[s] = IF s = r THEN q ELSE treq[s]
  BY DEF Begin, IInv, TicketsTypeOK
<1>3. TicketsTypeOK'
  BY <1>1 DEF Begin, IInv, TicketsTypeOK
<1>4. LocksHold'
  BY <1>2 DEF Begin, IInv, LocksHold, Held, CanTransition
<1>5. PlansCounted' /\ TriagesPlan'
  BY <1>2 DEF Begin, IInv, PlansCounted, TriagesPlan
<1> QED
  BY <1>3, <1>4, <1>5 DEF IInv

(* A handler that holds the row moves on, or one that nobody precludes takes  *)
(* the row when the matrix lets it.                                           *)
LEMMA StageStep ==
  ASSUME IInv, NEW r \in TicketRequests, NEW stage \in {"locked", "checked"},
         treq[r] \in Handlers,
         Held(r) \/ (~RowLocked(treq[r].id) /\ CanTransition(ticket[treq[r].id], treq[r].to)),
         treq' = [treq EXCEPT ![r].stage = stage], UNCHANGED <<ticket, plans>>
  PROVE  IInv'
<1> DEFINE q == [treq[r] EXCEPT !.stage = stage]
<1>1. /\ q \in Handlers /\ q.stage = stage
      /\ q.id = treq[r].id /\ q.to = treq[r].to /\ q.op = treq[r].op
  BY DEF Handlers
<1>2. \A s \in TicketRequests : treq'[s] = IF s = r THEN q ELSE treq[s]
  BY DEF IInv, TicketsTypeOK
<1>3. TicketsTypeOK'
  BY <1>1 DEF IInv, TicketsTypeOK
<1>4. \A s \in TicketRequests : s # r /\ Held(s) => treq[s].id # q.id
  BY <1>1 DEF IInv, LocksHold, RowLocked, Held
<1>5. CanTransition(ticket[q.id], q.to)
  BY <1>1 DEF IInv, LocksHold
<1>6. LocksHold'
  BY <1>1, <1>2, <1>4, <1>5 DEF IInv, LocksHold, Held, CanTransition
<1>7. PlansCounted' /\ TriagesPlan'
  BY <1>1, <1>2 DEF IInv, PlansCounted, TriagesPlan
<1> QED
  BY <1>3, <1>6, <1>7 DEF IInv

LEMMA LockStep ==
  ASSUME IInv, NEW r \in TicketRequests, Lock(r) \/ Check(r)
  PROVE  IInv'
<1>1. treq[r] \in Handlers
  BY HandlerTyped DEF Lock, Check, IInv
<1> QED
  BY <1>1, StageStep DEF Lock, Check, Held

LEMMA CommitStep ==
  ASSUME IInv, NEW r \in TicketRequests, Commit(r)
  PROVE  IInv'
<1> PICK q : q = treq[r]
  OBVIOUS
<1>1. q \in Handlers /\ q.stage = "checked" /\ Held(r)
  BY HandlerTyped DEF Commit, IInv, Held
<1>2. q.id \in Tickets /\ q.to \in TicketStatuses /\ CanTransition(ticket[q.id], q.to)
  BY <1>1 DEF Handlers, IInv, LocksHold
<1>3. /\ \A t \in Tickets : ticket'[t] = IF t = q.id THEN q.to ELSE ticket[t]
      /\ \A t \in Tickets :
            plans'[t] = IF t = q.id /\ q.op = "triage" THEN plans[t] + 1 ELSE plans[t]
      /\ \A s \in TicketRequests : treq'[s] = IF s = r THEN NoRequest ELSE treq[s]
  BY <1>2 DEF Commit, Written, IInv, TicketsTypeOK
<1>4. TicketsTypeOK'
  BY <1>2 DEF Commit, Written, IInv, TicketsTypeOK
<1>5. PlansCounted'
  <2>1. q.op = "triage" => ticket[q.id] = "triage" /\ q.to = "planned"
    BY <1>2 DEF IInv, TriagesPlan, CanTransition, Edges
  <2>2. ticket[q.id] \notin {"absent", "open", "triage"} => q.to \notin {"absent", "open", "triage"}
    BY <1>2 DEF CanTransition, Edges
  <2>3. \A t \in Tickets : plans[t] \in Nat
    BY DEF IInv, TicketsTypeOK
  <2> QED
    BY <1>3, <2>1, <2>2, <2>3 DEF IInv, PlansCounted
<1>6. TriagesPlan'
  BY <1>3, NoRequestHolds DEF IInv, TriagesPlan
<1>7. LocksHold'
  <2>1. ASSUME NEW s \in TicketRequests, Held(s)'
        PROVE  /\ s # r /\ Held(s) /\ treq'[s] = treq[s]
               /\ ticket'[treq[s].id] = ticket[treq[s].id]
    <3>1. s # r /\ treq'[s] = treq[s] /\ Held(s)
      BY <1>3, <2>1, NoRequestHolds DEF Held
    <3>2. treq[s].id \in Tickets /\ treq[s].id # q.id
      BY <1>1, <3>1, HandlerTyped DEF IInv, LocksHold, Held, Handlers
    <3> QED
      BY <1>3, <3>1, <3>2
  <2> QED
    BY <2>1 DEF IInv, LocksHold, CanTransition
<1> QED
  BY <1>4, <1>5, <1>6, <1>7 DEF IInv

LEMMA RollbackStep ==
  ASSUME IInv, NEW r \in TicketRequests, Rollback(r)
  PROVE  IInv'
<1>1. \A s \in TicketRequests : treq'[s] = IF s = r THEN NoRequest ELSE treq[s]
  BY DEF Rollback, IInv, TicketsTypeOK
<1>2. TicketsTypeOK' /\ PlansCounted'
  BY DEF Rollback, IInv, TicketsTypeOK, PlansCounted
<1>3. LocksHold' /\ TriagesPlan'
  BY <1>1, NoRequestHolds DEF Rollback, IInv, LocksHold, Held, CanTransition, TriagesPlan
<1> QED
  BY <1>2, <1>3 DEF IInv

LEMMA CreateTicketStep ==
  ASSUME IInv, NEW t \in Tickets, CreateTicket(t)
  PROVE  IInv'
<1>1. TicketsTypeOK' /\ TriagesPlan'
  BY DEF CreateTicket, IInv, TicketsTypeOK, TicketStatuses, TriagesPlan
<1>2. PlansCounted'
  BY DEF CreateTicket, IInv, TicketsTypeOK, PlansCounted
<1>3. LocksHold'
  <2>1. \A s \in TicketRequests : Held(s) => ticket'[treq[s].id] = ticket[treq[s].id]
    <3> SUFFICES ASSUME NEW s \in TicketRequests, Held(s)
                 PROVE  ticket'[treq[s].id] = ticket[treq[s].id]
      OBVIOUS
    <3>1. treq[s].id \in Tickets
      BY HandlerTyped DEF IInv, Held, Handlers
    <3>2. ticket[treq[s].id] # "absent"
      BY DEF IInv, LocksHold, CanTransition, Edges
    <3> QED
      BY <3>1, <3>2 DEF CreateTicket, IInv, TicketsTypeOK
  <2> QED
    BY <2>1 DEF CreateTicket, IInv, LocksHold, Held, CanTransition
<1> QED
  BY <1>1, <1>2, <1>3 DEF IInv

LEMMA TicketsStep ==
  ASSUME IInv, [Next]_vars
  PROVE  IInv'
<1>1. ASSUME NEW t \in Tickets, CreateTicket(t) PROVE IInv'
  BY <1>1, CreateTicketStep
<1>2. ASSUME NEW t \in Tickets, NEW r \in TicketRequests,
             \/ \E to \in TicketStatuses : TransitionBegin(r, t, to)
             \/ DismissBegin(r, t)
             \/ TriageBegin(r, t)
      PROVE  IInv'
  BY <1>2, BeginStep DEF TransitionBegin, DismissBegin, TriageBegin, TicketStatuses
<1>3. ASSUME NEW r \in TicketRequests, Lock(r) \/ Check(r) \/ Commit(r) \/ Rollback(r)
      PROVE  IInv'
  BY <1>3, LockStep, CommitStep, RollbackStep
<1>4. CASE UNCHANGED ticketVars
  BY <1>4 DEF ticketVars, IInv, TicketsTypeOK, LocksHold, Held, CanTransition, PlansCounted,
              TriagesPlan
<1> QED
  BY <1>1, <1>2, <1>3, <1>4 DEF Next, TicketStep, WorkChanges, ticketVars, vars

LEMMA TicketsInductive == Spec => []IInv
<1>1. Init => IInv
  BY DEF Init, TicketsInit, IInv, TicketsTypeOK, LocksHold, Held, PlansCounted, TriagesPlan,
         NoRequest
<1>2. IInv /\ [Next]_vars => IInv'
  BY TicketsStep
<1> QED
  BY <1>1, <1>2, PTL DEF Spec

(* The activities of a plan are inserted once, however many triages race: the *)
(* matrix is asked again under the row lock, and has no edge back to triage.  *)
THEOREM PlannedAtMostOnce == Spec => []PlannedOnce
<1>1. IInv => PlannedOnce
  BY DEF IInv, PlansCounted, PlannedOnce
<1> QED
  BY <1>1, TicketsInductive, PTL

(* Type correctness of the tickets, their handlers and the work under them.   *)
THEOREM TicketsTyped == Spec => []TypeOK
<1> DEFINE WorkTyped == work \in [Tickets -> SUBSET EntryStatuses]
<1>1. Init => WorkTyped
  BY DEF Init
<1>2. WorkTyped /\ [Next]_vars => WorkTyped'
  BY DEF Next, WorkChanges, vars
<1>3. IInv /\ WorkTyped => TypeOK
  BY DEF IInv, TypeOK
<1> QED
  BY <1>1, <1>2, <1>3, TicketsInductive, PTL DEF Spec

(* No race of stale handlers takes a ticket off the matrix, so a dismissed or *)
(* closed ticket is never revived: the edge is checked again under the lock   *)
(* that is held until the status is written.                                  *)
THEOREM MatrixHolds == Spec => OnlyMatrixMoves
<1> DEFINE Moves == \A t \in Tickets : ticket'[t] # ticket[t] =>
                       \/ ticket[t] = "absent" /\ ticket'[t] = "open"
                       \/ CanTransition(ticket[t], ticket'[t])
<1>1. IInv /\ [Next]_vars => [Moves]_vars
  <2> SUFFICES ASSUME IInv, Next PROVE Moves
    OBVIOUS
  <2>1. ASSUME NEW s \in Tickets, CreateTicket(s) PROVE Moves
    BY <2>1 DEF CreateTicket, IInv, TicketsTypeOK
  <2>2. ASSUME NEW r \in TicketRequests, Commit(r) PROVE Moves
    <3>1. /\ treq[r].id \in Tickets
          /\ CanTransition(ticket[treq[r].id], treq[r].to)
      BY <2>2, HandlerTyped DEF Commit, IInv, LocksHold, Held, Handlers
    <3> QED
      BY <2>2, <3>1 DEF Commit, Written, IInv, TicketsTypeOK
  <2>3. CASE UNCHANGED ticket
    BY <2>3
  <2> QED
    BY <2>1, <2>2, <2>3 DEF Next, TicketStep, TransitionBegin, DismissBegin,
       TriageBegin, Begin, Lock, Check, Rollback, WorkChanges, ticketVars
<1> QED
  BY <1>1, TicketsInductive, PTL DEF Spec, OnlyMatrixMoves
=============================================================================
