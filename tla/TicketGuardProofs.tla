--------------------------- MODULE TicketGuardProofs ---------------------------
(* Tickets, activities and time entries together, for any number of each: the *)
(* types, that no entry arrives on the activities that a resolution or a      *)
(* dismissal has locked, and that none of them then has a draft.              *)
EXTENDS TicketGuard, TLAPS

(* The two components with what was proved of them.                           *)
TP == INSTANCE TicketsProofs WITH
        work <- [t \in Tickets |-> {table[i].status : i \in LiveOn(Subtree(t))}]
EP == INSTANCE TimeEntriesProofs WITH dismissed <- {a \in Targets : UnderDismissed(a)}

-----------------------------------------------------------------------------
(* The steps of the components are the steps that were proved about.          *)

LEMMA SameTicketSteps ==
  ASSUME NEW r \in TicketRequests, NEW t, NEW to
  PROVE  /\ T!CreateTicket(t) <=> TP!CreateTicket(t)
         /\ T!TransitionBegin(r, t, to) => TP!Begin(r, "transition", t, to)
         /\ T!DismissBegin(r, t) => TP!Begin(r, "dismiss", t, "dismissed")
         /\ T!TriageBegin(r, t) => TP!Begin(r, "triage", t, "planned")
         /\ T!Lock(r) <=> TP!Lock(r)
         /\ T!Check(r) <=> TP!Check(r)
         /\ T!Commit(r) <=> TP!Commit(r)
         /\ T!Rollback(r) <=> TP!Rollback(r)
<1>1. /\ \A op, x : T!Begin(r, op, t, x) <=> TP!Begin(r, op, t, x)
      /\ T!Rollback(r) <=> TP!Rollback(r)
  BY DEF T!Begin, TP!Begin, T!NoRequest, TP!NoRequest, T!CanTransition, TP!CanTransition,
         T!Edges, TP!Edges, T!Rollback, TP!Rollback
<1>2. T!CreateTicket(t) <=> TP!CreateTicket(t)
  BY DEF T!CreateTicket, TP!CreateTicket
<1>3. T!Lock(r) <=> TP!Lock(r)
  BY DEF T!Lock, TP!Lock, T!CanTransition, TP!CanTransition, T!Edges, TP!Edges,
         T!RowLocked, TP!RowLocked
<1>4. T!Check(r) <=> TP!Check(r)
  BY DEF T!Check, TP!Check, T!NonTerminal, TP!NonTerminal, T!HoursLogged, TP!HoursLogged
<1>5. T!Commit(r) <=> TP!Commit(r)
  BY DEF T!Commit, TP!Commit, T!NoRequest, TP!NoRequest, T!Written, TP!Written
<1> QED
  BY <1>1, <1>2, <1>3, <1>4, <1>5 DEF T!TransitionBegin, T!DismissBegin, T!TriageBegin

LEMMA SameStatement ==
  TE!Statement <=> EP!Statement
<1>1. \A r, op, u, i, pc, row : TE!Start(r, op, u, i, pc, row) <=> EP!Start(r, op, u, i, pc, row)
  BY DEF TE!Start, EP!Start, TE!Idle, EP!Idle
<1>2. \A r : TE!Refuse(r) <=> EP!Refuse(r)
  BY DEF TE!Refuse, EP!Refuse, TE!Idle, EP!Idle
<1>3. \A r, pc, status : TE!Advance(r, pc, status) <=> EP!Advance(r, pc, status)
  BY DEF TE!Advance, EP!Advance
<1>4. \A r, op, pc : TE!At(r, op, pc) <=> EP!At(r, op, pc)
  BY DEF TE!At, EP!At
<1>5. \A u, i, t, a : TE!Create(u, i, t, a) <=> EP!Create(u, i, t, a)
  BY DEF TE!Create, EP!Create, TE!Absent, EP!Absent
<1>6. \A r, u, i, t, a : TE!UpdateRead(r, u, i, t, a) <=> EP!UpdateRead(r, u, i, t, a)
  BY <1>1 DEF TE!UpdateRead, EP!UpdateRead, TE!CanEdit, EP!CanEdit, TE!IsOwner, EP!IsOwner
<1>7. \A r, u, i : TE!DeleteRead(r, u, i) <=> EP!DeleteRead(r, u, i)
  BY <1>1 DEF TE!DeleteRead, EP!DeleteRead, TE!IsOwner, EP!IsOwner
<1>8. \A r, u, i : TE!SubmitRead(r, u, i, "ticket") <=> EP!SubmitRead(r, u, i, "ticket")
  BY <1>1 DEF TE!SubmitRead, EP!SubmitRead, TE!CanSubmit, EP!CanSubmit, TE!IsOwner, EP!IsOwner
<1>9. \A r, u, i : TE!ApproveRead(r, u, i) <=> EP!ApproveRead(r, u, i)
  BY <1>1 DEF TE!ApproveRead, EP!ApproveRead, TE!IsOwner, EP!IsOwner, TE!Absent, EP!Absent
<1>10. \A r, u, i : TE!RejectRead(r, u, i) <=> EP!RejectRead(r, u, i)
  BY <1>1 DEF TE!RejectRead, EP!RejectRead
<1>11. \A r : TE!SubmitTicketCheck(r) <=> EP!SubmitTicketCheck(r)
  BY <1>2, <1>3, <1>4 DEF TE!SubmitTicketCheck, EP!SubmitTicketCheck
<1>12. \A r : TE!SubmitRoute(r) <=> EP!SubmitRoute(r)
  BY <1>2, <1>3, <1>4 DEF TE!SubmitRoute, EP!SubmitRoute, TE!SubmittedStatus, EP!SubmittedStatus
<1>13. \A r : TE!ApproveRoute(r) <=> EP!ApproveRoute(r)
  BY <1>2, <1>3, <1>4 DEF TE!ApproveRoute, EP!ApproveRoute, TE!MayManage, EP!MayManage
<1>14. \A r : TE!Write(r) <=> EP!Write(r)
  BY DEF TE!Write, EP!Write, TE!Stored, EP!Stored, TE!ClearsOf, EP!ClearsOf,
         TE!AfterWrite, EP!AfterWrite, TE!Idle, EP!Idle
<1>15. \A r : TE!Erase(r) <=> EP!Erase(r)
  BY <1>4 DEF TE!Erase, EP!Erase, TE!Idle, EP!Idle
<1>16. \A r : TE!Record(r) <=> EP!Record(r)
  BY DEF TE!Record, EP!Record, TE!Idle, EP!Idle
<1>17. \A r : TE!Abort(r) <=> EP!Abort(r)
  BY <1>2 DEF TE!Abort, EP!Abort, TE!Idle, EP!Idle
<1>18. \A t, x : TE!Reroute(t, x) <=> EP!Reroute(t, x)
  BY DEF TE!Reroute, EP!Reroute
<1> QED
  BY <1>5, <1>6, <1>7, <1>8, <1>9, <1>10, <1>11, <1>12, <1>13, <1>14, <1>15, <1>16, <1>17, <1>18
  DEF TE!Statement, EP!Statement

-----------------------------------------------------------------------------
-----------------------------------------------------------------------------
(* For the entries, tickets and activities are what TimeEntries says of them: *)
(* a set of targets whose submissions are refused, which may become any other.*)

LEMMA SameDismissed ==
  ASSUME UNCHANGED <<ticket, link, parent>>
  PROVE  UNCHANGED {a \in Targets : UnderDismissed(a)}
<1>1. \A R, S : Reached(R, S)' = Reached(R', S')
  BY DEF Reached, Closed
<1> QED
  BY <1>1 DEF UnderDismissed, Subtree, Linked

LEMMA StepImplements ==
  ASSUME [Next]_vars
  PROVE  [EP!Next]_(EP!vars)
<1> DEFINE Dismissed == {a \in Targets : UnderDismissed(a)}
<1>1. CASE EntryStep
  <2>1. EP!Statement
    BY <1>1, SameStatement DEF EntryStep
  <2>2. UNCHANGED Dismissed
    BY <1>1, SameDismissed DEF EntryStep, guardVars, ticketVars, activityVars
  <2> QED
    BY <2>1, <2>2 DEF EP!Next
<1>2. CASE UNCHANGED chainVars
  <2>1. UNCHANGED EP!chainVars
    BY <1>2 DEF chainVars, EP!chainVars
  <2>2. EP!DismissedBecomes(Dismissed')
    BY <2>1 DEF EP!DismissedBecomes
  <2>3. Dismissed' \in SUBSET Targets
    OBVIOUS
  <2> QED
    BY <2>2, <2>3 DEF EP!Next
<1>3. CASE UNCHANGED vars
  BY <1>2, <1>3 DEF vars, chainVars
<1>4. TicketStep \/ ActivityStep => UNCHANGED chainVars
  BY DEF TicketStep, ActivityStep, CreatePlain, LinkBegin, LinkInsert, MoveBegin, MoveWrite,
         PostFails, MoveFails, DeleteActivity
<1> QED
  BY <1>1, <1>2, <1>3, <1>4 DEF Next

LEMMA GuardImplements == Spec => EP!Spec
<1>1. Init => EP!Init
  <2> SUFFICES ASSUME Init PROVE EP!Init
    OBVIOUS
  <2>1. {a \in Targets : UnderDismissed(a)} = {}
    BY DEF Init, T!TicketsInit, UnderDismissed
  <2>2. EP!ChainInit
    BY DEF Init, ChainInit, EP!ChainInit, Absent, EP!Absent, Idle, EP!Idle
  <2> QED
    BY <2>1, <2>2 DEF EP!Init
<1>2. [Next]_vars => [EP!Next]_(EP!vars)
  BY StepImplements
<1> QED
  BY <1>1, <1>2, PTL DEF Spec, EP!Spec

(* What TimeEntriesProofs proves of the entries holds of them here.            *)
LEMMA EntriesInvariant == Spec => []EP!IInv
<1>1. EP!Spec => []EP!IInv
  BY EP!TimeEntriesInductive, RoleAssumption, ClaimantAssumption, RouteAssumption,
     ReceiptAssumption, AbortAssumption DEF EP!OrgRoles, OrgRoles, EP!Routings, Routings
<1> QED
  BY <1>1, GuardImplements, PTL

(* With one writer of entries, a row is written as its checks were made.       *)
LEMMA EntriesSerial ==
  ASSUME EP!OneAtATime
  PROVE  Spec => [](EP!IInv /\ EP!Current)
<1>1. EP!Spec => [](EP!IInv /\ EP!Current)
  BY EP!SerialInductive, RoleAssumption, ClaimantAssumption, RouteAssumption,
     ReceiptAssumption, AbortAssumption DEF EP!OrgRoles, OrgRoles, EP!Routings, Routings
<1> QED
  BY <1>1, GuardImplements, PTL

-----------------------------------------------------------------------------
(* Tickets and activities.                                                    *)

ActivitiesOK ==
    /\ link \in [Targets -> Tickets \cup {None, Uncreated, Deleted}]
    /\ parent \in [Targets -> Targets \cup {None}]
    /\ linking \in [Targets -> Tickets \cup {None}]
    /\ moving \in Moves \cup {NoMove}

(* An activity that is not there is part of none, so no query finds it.       *)
GoneStandAlone == \A a \in Targets : ~Exists(a) => parent[a] = None

(* What a lock statement found was there when it began.                       *)
HeldOK ==
    /\ held \in [TicketRequests -> SUBSET Targets]
    /\ \A r \in TicketRequests : \A a \in held[r] : link[a] # Uncreated

GuardInv == TP!IInv /\ ActivitiesOK /\ GoneStandAlone /\ HeldOK

LEMMA TicketsKept ==
  ASSUME TP!IInv, UNCHANGED ticketVars
  PROVE  TP!IInv'
  BY DEF ticketVars, TP!IInv, TP!TicketsTypeOK, TP!LocksHold, TP!Held, TP!CanTransition,
         TP!PlansCounted, TP!TriagesPlan

LEMMA TicketsMove ==
  ASSUME TP!IInv, TicketStep
  PROVE  TP!IInv'
<1>1. "dismissed" \in TP!TicketStatuses /\ "planned" \in TP!TicketStatuses
      /\ T!TicketStatuses = TP!TicketStatuses
  BY DEF T!TicketStatuses, TP!TicketStatuses
<1>2. ASSUME NEW t \in Tickets, T!CreateTicket(t) PROVE TP!IInv'
  <2>1. TP!CreateTicket(t)
    BY <1>2 DEF T!CreateTicket, TP!CreateTicket
  <2> QED
    BY <2>1, TP!CreateTicketStep
<1>3. ASSUME NEW r \in TicketRequests, NEW t \in Tickets,
             \/ \E to \in T!TicketStatuses : T!TransitionBegin(r, t, to)
             \/ T!DismissBegin(r, t) \/ T!TriageBegin(r, t)
      PROVE  TP!IInv'
  <2>1. ASSUME NEW op \in {"transition", "dismiss", "triage"}, NEW to \in TP!TicketStatuses,
               op = "triage" => to = "planned", TP!Begin(r, op, t, to)
        PROVE  TP!IInv'
    BY <2>1, TP!BeginStep
  <2> QED
    BY <1>1, <1>3, <2>1, SameTicketSteps
<1>4. ASSUME NEW r \in TicketRequests, T!Lock(r) \/ T!Check(r) PROVE TP!IInv'
  BY <1>4, SameTicketSteps, TP!LockStep
<1>5. ASSUME NEW r \in TicketRequests, T!Commit(r) \/ T!Rollback(r) PROVE TP!IInv'
  BY <1>5, SameTicketSteps, TP!CommitStep, TP!RollbackStep
<1> QED
  BY <1>2, <1>3, <1>4, <1>5 DEF TicketStep, TicketBegin, TicketLock, TicketCheck, TicketCommit

(* A request that has got as far as its transaction is a real one.            *)
LEMMA HandlerOf ==
  ASSUME TP!IInv, NEW r \in TicketRequests, treq[r].stage # "none"
  PROVE  treq[r] \in TP!Handlers /\ treq[r].id \in Tickets
  BY TP!HandlerTyped DEF TP!IInv, TP!Handlers

(* The ways an activity changes: one is created, moved or deleted.            *)
LEMMA ActivitiesMove ==
  ASSUME GuardInv, Next
  PROVE  \/ UNCHANGED <<link, parent>>
         \/ \E a \in Targets, t \in Tickets \cup {None}, p \in Targets \cup {None} :
               Insert(a, t, p)
         \/ \E a, p \in Targets : /\ Exists(a) /\ ~Locked(a) /\ CanRefer(p)
                                  /\ parent' = [parent EXCEPT ![a] = p] /\ UNCHANGED link
         \/ \E a \in Targets : DeleteActivity(a)
<1>1. CASE EntryStep
  BY <1>1 DEF EntryStep, guardVars, activityVars
<1>2. CASE TicketStep
  <2>1. ASSUME NEW r \in TicketRequests, TicketCommit(r), ~ UNCHANGED <<link, parent>>
        PROVE  \E a \in Targets, t \in Tickets \cup {None}, p \in Targets \cup {None} :
                  Insert(a, t, p)
    <3>1. treq[r].id \in Tickets
      BY <2>1, HandlerOf DEF TicketCommit, T!Commit, GuardInv
    <3> QED
      BY <2>1, <3>1 DEF TicketCommit
  <2> QED
    BY <1>2, <2>1 DEF TicketStep
<1>3. ASSUME NEW a \in Targets, NEW p \in Targets \cup {None}, LinkInsert(a, p)
      PROVE  linking[a] \in Tickets \cup {None} /\ Insert(a, linking[a], p)
  BY <1>3 DEF LinkInsert, GuardInv, ActivitiesOK
<1>4. CASE MoveWrite
  BY <1>4 DEF MoveWrite, GuardInv, ActivitiesOK, Moves
<1>5. ASSUME NEW a \in Targets, NEW p \in Targets \cup {None}, CreatePlain(a, p)
      PROVE  Insert(a, None, p)
  BY <1>5 DEF CreatePlain
<1>6. ASSUME NEW a, NEW t, LinkBegin(a, t) PROVE UNCHANGED <<link, parent>>
  BY <1>6 DEF LinkBegin
<1>7. ASSUME NEW a, PostFails(a) PROVE UNCHANGED <<link, parent>>
  BY <1>7 DEF PostFails
<1>8. ASSUME NEW a, NEW p, MoveBegin(a, p) PROVE UNCHANGED <<link, parent>>
  BY <1>8 DEF MoveBegin
<1>9. CASE MoveFails
  BY <1>9 DEF MoveFails
<1> QED
  BY <1>1, <1>2, <1>3, <1>4, <1>5, <1>6, <1>7, <1>8, <1>9 DEF Next, ActivityStep

(* The recursive queries find activities that are there.                      *)
LEMMA FoundExist ==
  ASSUME ActivitiesOK, GoneStandAlone, NEW t \in Tickets, NEW a \in Subtree(t)
  PROVE  Exists(a)
<1> DEFINE U == {b \in Targets : Exists(b)}
<1>1. Linked(t) \cap Targets \subseteq U
  BY IdAssumption DEF Linked, Exists
<1>2. Closed(U, Targets)
  BY IdAssumption DEF Closed, GoneStandAlone
<1>3. \A W \in SUBSET Targets : Linked(t) \cap Targets \subseteq W /\ Closed(W, Targets) => a \in W
  BY DEF Subtree, Reached
<1>4. U \in SUBSET Targets
  OBVIOUS
<1> HIDE DEF U
<1>5. a \in U
  BY <1>1, <1>2, <1>3, <1>4
<1> QED
  BY <1>5 DEF U

LEMMA LinkKinds ==
  ASSUME NEW t \in Tickets \cup {None}
  PROVE  t # Uncreated /\ t # Deleted
  BY IdAssumption DEF None, Uncreated, Deleted

LEMMA GuardStep ==
  ASSUME GuardInv, Next
  PROVE  GuardInv'
<1>1. TP!IInv'
  <2>1. ActivityStep => UNCHANGED ticketVars
    BY DEF ActivityStep, CreatePlain, LinkBegin, LinkInsert, MoveBegin, MoveWrite, PostFails,
           MoveFails, DeleteActivity
  <2>2. EntryStep => UNCHANGED ticketVars
    BY DEF EntryStep, guardVars
  <2> QED
    BY <2>1, <2>2, TicketsMove, TicketsKept DEF Next, GuardInv
<1>2. ActivitiesOK' /\ GoneStandAlone' /\ \A a \in Targets : link[a] # Uncreated => link'[a] # Uncreated
  <2> DEFINE Goal == /\ link' \in [Targets -> Tickets \cup {None, Uncreated, Deleted}]
                     /\ parent' \in [Targets -> Targets \cup {None}]
                     /\ GoneStandAlone'
                     /\ \A a \in Targets : link[a] # Uncreated => link'[a] # Uncreated
  <2>1. ASSUME UNCHANGED <<link, parent>> PROVE Goal
    BY <2>1 DEF GuardInv, ActivitiesOK, GoneStandAlone, Exists
  <2>2. ASSUME NEW a \in Targets, NEW t \in Tickets \cup {None}, NEW p \in Targets \cup {None},
               Insert(a, t, p)
        PROVE  Goal
    <3>1. /\ link' = [link EXCEPT ![a] = t] /\ parent' = [parent EXCEPT ![a] = p]
          /\ t # Uncreated /\ t # Deleted
      BY <2>2, LinkKinds DEF Insert
    <3> QED
      BY <3>1 DEF GuardInv, ActivitiesOK, GoneStandAlone, Exists
  <2>3. ASSUME NEW a \in Targets, NEW p \in Targets, Exists(a),
               parent' = [parent EXCEPT ![a] = p], UNCHANGED link
        PROVE  Goal
    BY <2>3 DEF GuardInv, ActivitiesOK, GoneStandAlone, Exists
  <2>4. ASSUME NEW a \in Targets, DeleteActivity(a) PROVE Goal
    <3>1. /\ link' = [link EXCEPT ![a] = Deleted] /\ parent' = [parent EXCEPT ![a] = None]
          /\ Deleted # Uncreated
      BY <2>4 DEF DeleteActivity, Deleted, Uncreated
    <3> QED
      BY <3>1 DEF GuardInv, ActivitiesOK, GoneStandAlone, Exists
  <2>5. Goal
    BY <2>1, <2>2, <2>3, <2>4, ActivitiesMove
  <2>6. linking' \in [Targets -> Tickets \cup {None}] /\ moving' \in Moves \cup {NoMove}
    <3>1. CASE EntryStep \/ TicketStep
      BY <3>1 DEF EntryStep, guardVars, activityVars, TicketStep, GuardInv, ActivitiesOK
    <3>2. CASE ActivityStep
      <4>1. ASSUME NEW a \in Targets, NEW t \in Tickets \cup {None},
                   linking' = [linking EXCEPT ![a] = t], UNCHANGED moving
            PROVE  linking' \in [Targets -> Tickets \cup {None}] /\ moving' \in Moves \cup {NoMove}
        BY <4>1 DEF GuardInv, ActivitiesOK
      <4>2. ASSUME NEW m \in Moves \cup {NoMove}, moving' = m, UNCHANGED linking
            PROVE  linking' \in [Targets -> Tickets \cup {None}] /\ moving' \in Moves \cup {NoMove}
        BY <4>2 DEF GuardInv, ActivitiesOK
      <4>3. /\ \A a, p \in Targets : MoveBegin(a, p) => \E m \in Moves : moving' = m /\ UNCHANGED linking
            /\ MoveWrite \/ MoveFails => moving' = NoMove /\ UNCHANGED linking
        BY DEF MoveBegin, MoveWrite, MoveFails, Moves
      <4>4. /\ \A a, p : CreatePlain(a, p) \/ DeleteActivity(a) => UNCHANGED <<linking, moving>>
            /\ \A a, t : LinkBegin(a, t) => linking' = [linking EXCEPT ![a] = t] /\ UNCHANGED moving
            /\ \A a, p : LinkInsert(a, p) \/ PostFails(a) =>
                  linking' = [linking EXCEPT ![a] = None] /\ UNCHANGED moving
        BY DEF CreatePlain, DeleteActivity, LinkBegin, LinkInsert, PostFails
      <4>5. CASE UNCHANGED <<linking, moving>>
        BY <4>5 DEF GuardInv, ActivitiesOK
      <4> QED
        BY <3>2, <4>1, <4>2, <4>3, <4>4, <4>5 DEF ActivityStep
    <3> QED
      BY <3>1, <3>2 DEF Next
  <2> QED
    BY <2>5, <2>6 DEF ActivitiesOK
<1>3. HeldOK'
  <2>1. ASSUME NEW S \in SUBSET Targets, NEW r \in TicketRequests,
               held' = [held EXCEPT ![r] = S], \A a \in S : link[a] # Uncreated
        PROVE  HeldOK'
    BY <1>2, <2>1 DEF GuardInv, HeldOK
  <2>2. ASSUME NEW r \in TicketRequests, TicketLock(r) PROVE HeldOK'
    <3>1. treq[r].id \in Tickets
      BY <2>2, HandlerOf DEF TicketLock, T!Lock, GuardInv
    <3>2. \A a \in Subtree(treq[r].id) : link[a] # Uncreated
      BY <3>1, FoundExist DEF Exists, GuardInv
    <3>3. Subtree(treq[r].id) \in SUBSET Targets
      BY DEF Subtree, Reached
    <3>4. PICK S : S = IF treq[r].to \in {"resolved", "dismissed"}
                       THEN Subtree(treq[r].id) ELSE {}
      OBVIOUS
    <3>5. held' = [held EXCEPT ![r] = S]
      BY <2>2, <3>4 DEF TicketLock
    <3>6. S \in SUBSET Targets /\ \A a \in S : link[a] # Uncreated
      BY <3>2, <3>3, <3>4
    <3> QED
      BY <2>1, <3>5, <3>6
  <2>3. ASSUME NEW r \in TicketRequests, TicketEnds(r) PROVE HeldOK'
    BY <1>2, <2>3 DEF TicketEnds, GuardInv, HeldOK
  <2>4. CASE UNCHANGED held
    BY <1>2, <2>4 DEF GuardInv, HeldOK
  <2>5. \/ UNCHANGED held
        \/ \E r \in TicketRequests : TicketLock(r) \/ TicketEnds(r)
    BY DEF Next, EntryStep, guardVars, TicketStep, TicketCheck, TicketCommit, ActivityStep,
           CreatePlain, LinkBegin, LinkInsert, MoveBegin, MoveWrite, PostFails, MoveFails,
           DeleteActivity
  <2> QED
    BY <2>2, <2>3, <2>4, <2>5
<1> QED
  BY <1>1, <1>2, <1>3 DEF GuardInv

LEMMA GuardInductive == Spec => []GuardInv
<1>1. Init => GuardInv
  <2> SUFFICES ASSUME Init PROVE GuardInv
    OBVIOUS
  <2>1. TP!IInv
    BY DEF Init, T!TicketsInit, TP!IInv, TP!TicketsTypeOK, TP!LocksHold, TP!Held,
           TP!PlansCounted, TP!TriagesPlan, T!NoRequest, TP!NoRequest
  <2>2. ActivitiesOK /\ GoneStandAlone /\ HeldOK
    BY DEF Init, ActivitiesOK, GoneStandAlone, HeldOK
  <2> QED
    BY <2>1, <2>2 DEF GuardInv
<1>2. GuardInv /\ [Next]_vars => GuardInv'
  <2>1. ASSUME GuardInv, UNCHANGED vars PROVE GuardInv'
    <3>1. UNCHANGED <<ticketVars, link, parent, linking, moving, held>>
      BY <2>1 DEF vars, ticketVars
    <3>2. TP!IInv'
      BY <2>1, <3>1, TicketsKept DEF GuardInv
    <3> QED
      BY <2>1, <3>1, <3>2 DEF GuardInv, ActivitiesOK, GoneStandAlone, Exists, HeldOK
  <2> QED
    BY <2>1, GuardStep
<1> QED
  BY <1>1, <1>2, PTL DEF Spec

(* Every reachable state of tickets, activities and entries has its types.    *)
THEOREM GuardTyped == Spec => []TypeOK
<1>1. EP!IInv => ChainTypeOK
  BY DEF EP!IInv, EP!ChainInv, EP!ChainTypeOK, ChainTypeOK, EP!Rows, Rows, EP!Absent, Absent,
         EP!Statuses, Statuses, EP!Routings, Routings, EP!Flights, Flights, EP!Idle, Idle,
         EP!Approvals, Approvals, EP!Clearances, Clearances
<1>2. GuardInv => T!TicketsTypeOK
  BY DEF GuardInv, TP!IInv, TP!TicketsTypeOK, T!TicketsTypeOK, TP!TicketStatuses,
         T!TicketStatuses, TP!Handlers, T!Handlers, TP!NoRequest, T!NoRequest
<1>3. GuardInv /\ EP!IInv => TypeOK
  BY <1>1, <1>2 DEF TypeOK, GuardInv, ActivitiesOK, HeldOK
<1> QED
  BY <1>3, GuardInductive, EntriesInvariant, PTL

-----------------------------------------------------------------------------
(* What the locks keep.  Whoever inserts, moves or deletes an activity needs  *)
(* its row, or does not find it yet; whoever books an entry on an activity    *)
(* needs a share of its row.                                                  *)

(* The locked rows, and what is reached through them, stay as they are.       *)
LEMMA ProtectedStays ==
  ASSUME GuardInv, Next, NEW r \in TicketRequests, treq[r].stage = "checked",
         treq'[r].id = treq[r].id, held'[r] = held[r]
  PROVE  Protected(r)' = Protected(r)
<1> PICK S : S = held[r]
  OBVIOUS
<1>1. \A a \in S : a \in Targets /\ Locked(a) /\ link[a] # Uncreated
  BY DEF GuardInv, HeldOK, Locked
<1>2. link \in [Targets -> Tickets \cup {None, Uncreated, Deleted}]
      /\ parent \in [Targets -> Targets \cup {None}]
  BY DEF GuardInv, ActivitiesOK
<1>3. \A a \in S : link'[a] = link[a] /\ parent'[a] = parent[a]
  <2>1. ASSUME NEW b \in Targets, NEW t \in Tickets \cup {None},
               NEW p \in Targets \cup {None}, Insert(b, t, p)
        PROVE  \A a \in S : link'[a] = link[a] /\ parent'[a] = parent[a]
    BY <1>1, <1>2, <2>1 DEF Insert
  <2>2. ASSUME NEW b \in Targets, NEW p \in Targets, ~Locked(b),
               parent' = [parent EXCEPT ![b] = p], UNCHANGED link
        PROVE  \A a \in S : link'[a] = link[a] /\ parent'[a] = parent[a]
    BY <1>1, <1>2, <2>2
  <2>3. ASSUME NEW b \in Targets, DeleteActivity(b)
        PROVE  \A a \in S : link'[a] = link[a] /\ parent'[a] = parent[a]
    BY <1>1, <1>2, <2>3 DEF DeleteActivity
  <2> QED
    BY <2>1, <2>2, <2>3, ActivitiesMove
<1>4. \A U \in SUBSET S : Closed(U, S)' <=> Closed(U, S)
  BY <1>3 DEF Closed
<1>5. (Linked(treq[r].id) \cap S)' = Linked(treq[r].id) \cap S
  BY <1>1, <1>3 DEF Linked
<1> QED
  BY <1>4, <1>5 DEF Protected, Reached, Closed

(* A transaction keeps its locks until it ends.                               *)
LEMMA HeldStays ==
  ASSUME GuardInv, Next, NEW r \in TicketRequests,
         treq[r].stage = "checked", treq'[r].stage = "checked"
  PROVE  held'[r] = held[r]
<1>1. treq \in [TicketRequests -> TP!Handlers \cup {TP!NoRequest}]
      /\ held \in [TicketRequests -> SUBSET Targets]
  BY DEF GuardInv, HeldOK, TP!IInv, TP!TicketsTypeOK
<1>2. ASSUME NEW s \in TicketRequests, TicketLock(s) PROVE held'[r] = held[r]
  BY <1>1, <1>2 DEF TicketLock, T!Lock
<1>3. ASSUME NEW s \in TicketRequests, T!Rollback(s) \/ T!Commit(s), TicketEnds(s)
      PROVE  held'[r] = held[r]
  BY <1>1, <1>3 DEF TicketEnds, T!Rollback, T!Commit, T!NoRequest
<1> QED
  BY <1>2, <1>3 DEF Next, EntryStep, guardVars, TicketStep, TicketCheck, TicketCommit,
     ActivityStep, CreatePlain, LinkBegin, LinkInsert, MoveBegin, MoveWrite, PostFails,
     MoveFails, DeleteActivity

(* An entry that is found on locked activities after a statement was found on *)
(* them before.                                                               *)
LEMMA EntriesStay ==
  ASSUME GuardInv, EP!IInv, EntryStep, NEW S \in SUBSET Targets, \A a \in S : Locked(a),
         NEW i \in Entries, table'[i] # Absent, ~table'[i].deleted, table'[i].target \in S
  PROVE  /\ table[i] # Absent /\ ~table[i].deleted /\ table[i].target = table'[i].target
         /\ i \in LiveOn(S)
<1>1. TargetOf(table'[i]) = TargetOf(table[i])
  BY IdAssumption DEF EntryStep, CanRefer
<1>2. table[i] # Absent /\ table[i].target = table'[i].target
  BY <1>1, IdAssumption DEF TargetOf
<1>3. EP!Statement
  BY SameStatement DEF EntryStep
<1>4. ~table[i].deleted
  <2>1. table[i] # EP!Absent
    BY <1>2 DEF Absent, EP!Absent
  <2>2. table[i].deleted => table'[i].deleted
    BY <1>3, <2>1, EP!DeletedForGood, RoleAssumption, ClaimantAssumption, RouteAssumption,
       ReceiptAssumption, AbortAssumption
    DEF EP!IInv, EP!OrgRoles, OrgRoles, EP!Routings, Routings
  <2> QED
    BY <2>2
<1> QED
  BY <1>2, <1>4 DEF LiveOn, Live

LEMMA NothingArrivesStep ==
  ASSUME GuardInv, EP!IInv, Next, NEW r \in TicketRequests,
         treq[r].stage = "checked", treq'[r].id = treq[r].id, treq'[r].stage = "checked"
  PROVE  LiveOn(Protected(r))' \subseteq LiveOn(Protected(r))
<1> PICK P : P = Protected(r)
  OBVIOUS
<1>1. Protected(r)' = P
  BY ProtectedStays, HeldStays
<1>2. P \in SUBSET Targets /\ \A a \in P : Locked(a)
  BY DEF Protected, Reached, GuardInv, HeldOK, Locked
<1>3. CASE EntryStep
  BY <1>1, <1>2, <1>3, EntriesStay DEF LiveOn, Live
<1>4. CASE UNCHANGED table
  BY <1>1, <1>4 DEF LiveOn, Live
<1> QED
  BY <1>3, <1>4 DEF Next, TicketStep, ActivityStep, chainVars, CreatePlain, LinkBegin,
     LinkInsert, MoveBegin, MoveWrite, PostFails, MoveFails, DeleteActivity

(* While a resolution or a dismissal has checked and not committed, no entry  *)
(* arrives on the activities its locks protect, however many requests create  *)
(* and move entries, and create, move and delete activities.                  *)
THEOREM LocksKeepEntriesOut == Spec => NothingArrives
<1> DEFINE Kept == \A r \in TicketRequests :
                      treq[r].stage = "checked" /\ treq'[r] = treq[r] =>
                         LiveOn(Protected(r))' \subseteq LiveOn(Protected(r))
<1>1. GuardInv /\ EP!IInv /\ [Next]_vars => [Kept]_vars
  BY NothingArrivesStep
<1> QED
  BY <1>1, GuardInductive, EntriesInvariant, PTL DEF Spec, NothingArrives

-----------------------------------------------------------------------------
(* With one writer of entries, what the check of a resolution has found out   *)
(* lasts: nothing arrives, and nothing that is there becomes a draft again.   *)

(* What is reached through locked activities is under the ticket.             *)
LEMMA ProtectedUnder ==
  ASSUME GuardInv, NEW r \in TicketRequests
  PROVE  Protected(r) \subseteq Subtree(treq[r].id)
<1> PICK S, R : S = held[r] /\ R = Linked(treq[r].id)
  OBVIOUS
<1>1. S \subseteq Targets /\ R \subseteq Targets
  BY DEF GuardInv, HeldOK, Linked
<1> SUFFICES ASSUME NEW a \in Reached(R, S) PROVE a \in Reached(R, Targets)
  BY DEF Protected, Subtree
<1>2. a \in S /\ \A U \in SUBSET S : R \cap S \subseteq U /\ Closed(U, S) => a \in U
  BY DEF Reached
<1>3. ASSUME NEW U \in SUBSET Targets, R \cap Targets \subseteq U, Closed(U, Targets)
      PROVE  a \in U
  <2>1. U \cap S \in SUBSET S /\ R \cap S \subseteq U \cap S /\ Closed(U \cap S, S)
    BY <1>1, <1>3 DEF Closed
  <2> QED
    BY <1>2, <2>1
<1> QED
  BY <1>1, <1>2, <1>3 DEF Reached

LEMMA CheckedWithoutDrafts ==
  ASSUME GuardInv, EP!IInv, NEW r \in TicketRequests, T!Check(r), treq[r].to = "resolved",
         NEW i \in LiveOn(Protected(r))
  PROVE  table[i].status # "draft"
<1>1. treq[r].id \in Tickets
  BY HandlerOf DEF T!Check, GuardInv
<1>2. ~T!NonTerminal(treq[r].id)
  BY DEF T!Check
<1>3. i \in LiveOn(Subtree(treq[r].id))
  BY ProtectedUnder DEF LiveOn
<1> QED
  BY <1>1, <1>2, <1>3 DEF T!NonTerminal

(* A statement of the entries makes no draft of an entry that is there.       *)
LEMMA NoNewDraft ==
  ASSUME EP!IInv, EP!Current, EntryStep, NEW i \in Entries,
         table[i] # Absent, table[i].status # "draft"
  PROVE  table'[i].status # "draft"
<1>1. table \in [Entries -> EP!Rows \cup {Absent}]
  BY DEF EP!IInv, EP!ChainInv, EP!ChainTypeOK, EP!Absent, Absent
<1>2. EP!Statement
  BY SameStatement DEF EntryStep
<1>3. \/ table' = table
      \/ \E j \in Entries, new \in EP!Rows :
            /\ table' = [table EXCEPT ![j] = new]
            /\ \/ table[j] = EP!Absent /\ new.status = "draft"
               \/ /\ table[j] \in EP!Rows /\ table[j].status # "approved"
                  /\ EP!LifecycleEdge(table[j], new)
                  /\ table[j].deleted => new.deleted
  BY <1>2, EP!RowsFollow, RoleAssumption, ClaimantAssumption, RouteAssumption,
     ReceiptAssumption, AbortAssumption
  DEF EP!IInv, EP!OrgRoles, OrgRoles, EP!Routings, Routings
<1>4. \A new \in EP!Rows : EP!LifecycleEdge(table[i], new) => new.status # "draft"
  BY DEF EP!LifecycleEdge
<1> QED
  BY <1>1, <1>3, <1>4 DEF EP!Absent, Absent

LEMMA NoDraftStep ==
  ASSUME GuardInv, EP!IInv, EP!Current, NoDraftBehindLocks, Next
  PROVE  NoDraftBehindLocks'
<1>1. treq \in [TicketRequests -> TP!Handlers \cup {TP!NoRequest}]
  BY DEF GuardInv, TP!IInv, TP!TicketsTypeOK
<1> SUFFICES ASSUME NEW r \in TicketRequests,
                    treq'[r].stage = "checked", treq'[r].to = "resolved",
                    NEW i \in Entries, Live(i)', i \in LiveOn(Protected(r))'
             PROVE  table'[i].status # "draft"
  BY DEF NoDraftBehindLocks, LiveOn
<1>2. CASE \E s \in TicketRequests : T!Check(s) /\ s = r /\ UNCHANGED <<table, link, parent, held>>
  <2>1. T!Check(r) /\ UNCHANGED <<table, link, parent, held>>
    BY <1>2
  <2>2. treq'[r].to = treq[r].to /\ treq'[r].id = treq[r].id
    BY <1>1, <2>1, HandlerOf DEF T!Check, TP!Handlers, GuardInv
  <2>3. Protected(r)' = Protected(r)
    BY <2>1, <2>2 DEF Protected, Reached, Closed, Linked
  <2>4. i \in LiveOn(Protected(r))
    BY <2>1, <2>3 DEF LiveOn, Live
  <2> QED
    BY <2>1, <2>2, <2>4, CheckedWithoutDrafts
<1>3. CASE treq'[r] = treq[r]
  <2>1. i \in LiveOn(Protected(r))
    BY <1>3, NothingArrivesStep
  <2>2. table[i].status # "draft" /\ table[i] # Absent
    BY <1>3, <2>1 DEF NoDraftBehindLocks, LiveOn, Live
  <2>3. EntryStep \/ UNCHANGED table
    BY DEF Next, TicketStep, ActivityStep, chainVars, CreatePlain, LinkBegin,
       LinkInsert, MoveBegin, MoveWrite, PostFails, MoveFails, DeleteActivity
  <2> QED
    BY <2>2, <2>3, NoNewDraft
<1>4. treq'[r] = treq[r] \/ (T!Check(r) /\ TicketStep /\ UNCHANGED <<link, parent, held>>)
  <2>1. ASSUME NEW s \in TicketRequests, NEW t, NEW to,
               \/ T!TransitionBegin(s, t, to) \/ T!DismissBegin(s, t) \/ T!TriageBegin(s, t)
               \/ T!Lock(s) \/ T!Rollback(s) \/ T!Commit(s)
        PROVE  treq'[r] = treq[r]
    <3>1. CASE T!Lock(s)
      <4>1. treq[s] \in TP!Handlers /\ treq' = [treq EXCEPT ![s].stage = "locked"]
        BY <3>1, HandlerOf DEF T!Lock, GuardInv
      <4>2. treq'[s].stage = "locked"
        BY <1>1, <4>1 DEF TP!Handlers
      <4> QED
        BY <1>1, <4>1, <4>2
    <3>2. CASE T!Rollback(s) \/ T!Commit(s)
      BY <1>1, <3>2 DEF T!Rollback, T!Commit, T!NoRequest
    <3>3. CASE T!TransitionBegin(s, t, to) \/ T!DismissBegin(s, t) \/ T!TriageBegin(s, t)
      BY <1>1, <3>3 DEF T!TransitionBegin, T!DismissBegin, T!TriageBegin, T!Begin
    <3> QED
      BY <2>1, <3>1, <3>2, <3>3
  <2>2. ASSUME NEW s \in TicketRequests, T!Check(s), s # r PROVE treq'[r] = treq[r]
    BY <1>1, <2>2 DEF T!Check
  <2>3. ASSUME NEW t, T!CreateTicket(t) PROVE treq'[r] = treq[r]
    BY <2>3 DEF T!CreateTicket
  <2>4. CASE TicketStep
    BY <2>1, <2>2, <2>3, <2>4 DEF TicketStep, TicketBegin, TicketLock, TicketCheck, TicketCommit
  <2>5. CASE EntryStep \/ ActivityStep
    BY <2>5 DEF EntryStep, guardVars, ticketVars, ActivityStep, CreatePlain, LinkBegin,
       LinkInsert, MoveBegin, MoveWrite, PostFails, MoveFails, DeleteActivity
  <2> QED
    BY <2>4, <2>5 DEF Next
<1> QED
  BY <1>2, <1>3, <1>4 DEF TicketStep, chainVars

(* With one writer of entries the locks of a resolution do their part: from   *)
(* its check to its commit no draft is on an activity they protect, although  *)
(* activities are created, moved and deleted all the time.  (What is created  *)
(* below a linked activity while the locks are being taken they do not        *)
(* protect: NoDraftWhenResolved fails.)                                       *)
THEOREM ResolvesWithoutDrafts ==
  ASSUME EP!OneAtATime
  PROVE  Spec => []NoDraftBehindLocks
<1>1. Init => NoDraftBehindLocks
  BY DEF Init, T!TicketsInit, T!NoRequest, NoDraftBehindLocks
<1>2. GuardInv /\ (EP!IInv /\ EP!Current) /\ NoDraftBehindLocks /\ [Next]_vars
         => NoDraftBehindLocks'
  <2>1. ASSUME NoDraftBehindLocks, UNCHANGED vars PROVE NoDraftBehindLocks'
    BY <2>1 DEF vars, NoDraftBehindLocks, Protected, Reached, Closed, Linked, LiveOn, Live
  <2> QED
    BY <2>1, NoDraftStep
<1> QED
  BY <1>1, <1>2, GuardInductive, EntriesSerial, PTL DEF Spec
=============================================================================
