------------------------------ MODULE Direction ------------------------------
(* The plan: direction rows, their lifecycle, the supersede chain and the     *)
(* claims on working-group rows.  Rows are never rewritten: a change of plan  *)
(* is a new row that supersedes the old one.  Every mutator is a transaction  *)
(* that locks one row, checks it again under the lock (one action here) and   *)
(* then writes and commits (another); the locked row is the one being         *)
(* activated, cancelled or superseded, and for a claim the working-group row. *)
EXTENDS Naturals, FiniteSets, FiniteSetsExt

CONSTANTS
    Ids,        \* row ids
    Requests,   \* mutators in flight
    Hours       \* the est_hours a client may send, in cents

ASSUME HoursAssumption == Hours \subseteq Nat \ {0}

VARIABLES
    plan,       \* the rows, by id
    req         \* Requests -> the transaction in flight there

vars == <<plan, req>>

Unset == 0              \* est_hours IS NULL
None == "none"          \* a NULL reference

ASSUME NoneAssumption == None \notin Ids

Statuses == {"draft", "active", "superseded", "cancelled"}

Live == {"draft", "active"}

Rows == [target : {"user", "wg"}, hours : Hours \cup {Unset}, status : Statuses,
         supersedes : Ids \cup {None}, origin : Ids \cup {None}]

Absent == [status |-> "absent", supersedes |-> None, origin |-> None]

Idle == [op |-> "idle"]

(* A transaction: the row it has locked, and the row it will insert, if any.  *)
Transactions == [op : {"activate", "cancel", "supersede", "claim"}, id : Ids,
                 target : {"user", "wg"}, hours : Hours \cup {Unset}]

TypeOK ==
    /\ plan \in [Ids -> Rows \cup {Absent}]
    /\ req \in [Requests -> Transactions \cup {Idle}]

Init ==
    /\ plan = [d \in Ids |-> Absent]
    /\ req = [r \in Requests |-> Idle]

-----------------------------------------------------------------------------
CanTransition(from, to) ==
    <<from, to>> \in {<<"draft", "active">>, <<"draft", "cancelled">>,
                      <<"active", "cancelled">>}

IsClaim(d) == plan[d].origin # None

(* Claim rows that consume the budget of the working-group row w.             *)
LiveClaims(w) == {d \in Ids : plan[d].origin = w /\ plan[d].status \in Live}

Claimed(D) == MapThenSumSet(LAMBDA d : plan[d].hours, D)

(* Defects: a row born in a status the schema has not; the origin of a claim  *)
(* lost when it is superseded.                                                *)
NewRowProposed(target, hours, supersedes, origin) ==
    [target |-> target, hours |-> hours, status |-> "proposed",
     supersedes |-> supersedes, origin |-> origin]

NewRowForgetsOrigin(target, hours, supersedes, origin) ==
    [target |-> target, hours |-> hours, status |-> "draft",
     supersedes |-> supersedes,
     origin |-> IF supersedes = None THEN origin ELSE None]

NewRow(target, hours, supersedes, origin) ==
    [target |-> target, hours |-> hours, status |-> "draft",
     supersedes |-> supersedes, origin |-> origin]

-----------------------------------------------------------------------------
(* Defect: no lock, the row is only read.                                     *)
NoLock(d) == FALSE

(* SELECT ... FOR UPDATE: the row is there and nobody else holds it.          *)
RowLocked(d) == \E r \in Requests : req[r] # Idle /\ req[r].id = d

Lock(r, op, d, target, hours) ==
    /\ req[r] = Idle
    /\ plan[d] # Absent /\ ~RowLocked(d)
    /\ req' = [req EXCEPT ![r] =
                 [op |-> op, id |-> d, target |-> target, hours |-> hours]]
    /\ UNCHANGED plan

LockActivate(r, d) ==
    /\ CanTransition(plan[d].status, "active")
    /\ Lock(r, "activate", d, "user", Unset)

(* Cancel, and unclaim, which is the cancel of a claim row.                   *)
LockCancel(r, d) ==
    /\ CanTransition(plan[d].status, "cancelled")
    /\ Lock(r, "cancel", d, "user", Unset)

(* Create with supersedes_id: the target must be live, and what supersedes a  *)
(* claim must be for a user.                                                  *)
LockSupersede(r, d, target, hours) ==
    /\ plan[d].status \in Live
    /\ IsClaim(d) => target = "user"
    /\ Lock(r, "supersede", d, target, hours)

(* Claim: the working-group row is active, and the claims on it leave room.   *)
LockClaim(r, w, hours) ==
    /\ plan[w].status = "active" /\ plan[w].target = "wg"
    /\ hours # Unset
    /\ plan[w].hours # Unset => Claimed(LiveClaims(w)) + hours <= plan[w].hours
    /\ Lock(r, "claim", w, "user", hours)

-----------------------------------------------------------------------------
(* The writes, and the end of the transaction.                                *)

Finish(r, op) ==
    /\ req[r].op = op
    /\ req' = [req EXCEPT ![r] = Idle]

SetStatus(d, status) == plan' = [plan EXCEPT ![d].status = status]

Activate(r) == Finish(r, "activate") /\ SetStatus(req[r].id, "active")

Cancel(r) == Finish(r, "cancel") /\ SetStatus(req[r].id, "cancelled")

(* The new row inherits the origin of the claim it supersedes; its foreign    *)
(* key waits while the working-group row is locked.                           *)
Supersede(r, new) ==
    /\ Finish(r, "supersede")
    /\ ~RowLocked(plan[req[r].id].origin)
    /\ plan[new] = Absent
    /\ plan' = [plan EXCEPT
          ![req[r].id].status = "superseded",
          ![new] = NewRow(req[r].target, req[r].hours, req[r].id,
                          plan[req[r].id].origin)]

Claim(r, new) ==
    /\ Finish(r, "claim")
    /\ plan[new] = Absent
    /\ plan' = [plan EXCEPT ![new] = NewRow("user", req[r].hours, None, req[r].id)]

(* Any statement of the transaction can fail.                                 *)
Rollback(r) ==
    /\ req[r] # Idle
    /\ req' = [req EXCEPT ![r] = Idle]
    /\ UNCHANGED plan

(* Create without supersedes_id locks nothing.                                *)
Create(new, target, hours) ==
    /\ plan[new] = Absent
    /\ plan' = [plan EXCEPT ![new] = NewRow(target, hours, None, None)]
    /\ UNCHANGED req

-----------------------------------------------------------------------------
Next ==
    \/ \E new \in Ids, target \in {"user", "wg"}, hours \in Hours \cup {Unset} :
          \/ Create(new, target, hours)
          \/ \E r \in Requests : LockSupersede(r, new, target, hours)
    \/ \E r \in Requests, d \in Ids :
          \/ LockActivate(r, d)
          \/ LockCancel(r, d)
          \/ \E hours \in Hours : LockClaim(r, d, hours)
          \/ Supersede(r, d)
          \/ Claim(r, d)
    \/ \E r \in Requests : Activate(r) \/ Cancel(r) \/ Rollback(r)

Spec == Init /\ [][Next]_vars

-----------------------------------------------------------------------------
(* The chain is append-only and never forks: a row is superseded exactly when *)
(* one row names it, and at most one does, whoever raced to replace it.       *)
ChainLinear ==
    /\ \A d, e, f \in Ids :
          plan[e].supersedes = d /\ plan[f].supersedes = d => e = f
    /\ \A d \in Ids :
          plan[d].status = "superseded" <=> \E e \in Ids : plan[e].supersedes = d

(* What was planned is never rewritten: hours, target, and the references of  *)
(* a row stay, and its status follows the matrix or ends in superseded.       *)
PlanAppendOnly ==
    [][\A d \in Ids : plan[d] # Absent /\ plan'[d] # plan[d] =>
          /\ plan'[d] = [plan[d] EXCEPT !.status = plan'[d].status]
          /\ \/ CanTransition(plan[d].status, plan'[d].status)
             \/ plan[d].status \in Live /\ plan'[d].status = "superseded"]_vars

(* The claims made on a working-group row, however many members claim at the  *)
(* same time, fit its budget.                                                 *)
FirstClaimsFit ==
    \A w \in Ids : plan[w] # Absent /\ plan[w].target = "wg" /\ plan[w].hours # Unset =>
        Claimed({d \in LiveClaims(w) : plan[d].supersedes = None}) <= plan[w].hours

(* A claim lands on a working-group row that is active when it commits, not   *)
(* only when it was looked at.                                                *)
ClaimsLandOnActive ==
    [][\A d \in Ids :
          plan[d] = Absent /\ plan'[d].origin # None /\ plan'[d].supersedes = None
          => plan[plan'[d].origin].status = "active"]_vars

(* Hours move along the chain of a claim: what supersedes a claim on a        *)
(* working-group row counts against the same row, and is for a user.          *)
ClaimsKeepOrigin ==
    \A d \in Ids : plan[d].supersedes # None =>
        /\ plan[d].origin = plan[plan[d].supersedes].origin
        /\ plan[d].origin # None => plan[d].target = "user"

(* The working-group budget is never over-subscribed, superseded claims       *)
(* included.                                                                  *)
WithinBudget ==
    \A w \in Ids : plan[w] # Absent /\ plan[w].target = "wg" /\ plan[w].hours # Unset =>
        Claimed(LiveClaims(w)) <= plan[w].hours
=============================================================================
