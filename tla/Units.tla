--------------------------------- MODULE Units ---------------------------------
(* The units of an organization at the server: creation, re-parenting with    *)
(* its rewrite of every descendant, renaming, deletion, and whether they have *)
(* members.  An update is several statements outside a transaction; each      *)
(* caller has at most one.                                                    *)
EXTENDS Naturals, FiniteSets

CONSTANTS
    Units,          \* unit ids
    Callers,        \* connections that serve updates
    FirstUnits,     \* the hierarchy at first
    Top,            \* parent of a root unit
    Absent, Gone,   \* parent of a unit not stored yet, and of one deleted
    MaxLevel,       \* bound: depth
    MaxStaffed      \* bound: units with members

VARIABLES
    units,      \* units[u]: its row, [parent, level]
    staffed,    \* the units that have members
    calls,      \* the updates in progress
    overlapped  \* history: has a re-parent ever run beside another update?

unitVars == <<units, staffed, calls, overlapped>>

Rows == [parent : Units \cup {Top, Absent, Gone}, level : 0..MaxLevel]
(* An update of a unit: the parent to store, whether it is a re-parent, the   *)
(* unit whose descendants the cascade reads next, and what it has still to    *)
(* store: a unit, the parent it was read with, and below which unit.          *)
Update(at, u, p, move) ==
    [at |-> at, unit |-> u, to |-> p, move |-> move, list |-> Absent, left |-> {}]
Idle == Update("idle", Absent, Absent, FALSE)

UnitsTypeOK ==
    /\ units \in [Units -> Rows]
    /\ staffed \subseteq Units
    /\ \A c \in Callers : /\ calls[c].at \in {"idle", "read", "checked"}
                          /\ calls[c].list \in Units \cup {Absent}
                          /\ calls[c].left \subseteq Units \X (Units \cup {Top}) \X Units
    /\ overlapped \in BOOLEAN

Init ==
    /\ units = FirstUnits
    /\ staffed = {}
    /\ calls = [c \in Callers |-> Idle]
    /\ overlapped = FALSE

Stored == {u \in Units : units[u].parent \notin {Absent, Gone}}
Children(u) == {d \in Units : units[d].parent = u}

(* The recursive query of the repository: everything below, never the unit.  *)
Descendants(u) ==
    LET below[n \in 0..Cardinality(Units)] ==
            IF n = 0 THEN Children(u) ELSE below[n - 1] \cup UNION {Children(d) : d \in below[n - 1]}
    IN below[Cardinality(Units)] \ {u}

-----------------------------------------------------------------------------
(* One action per statement or single-statement operation.                   *)

Create(u, p) ==
    /\ units[u].parent = Absent /\ p \in Stored \cup {Top}
    /\ p # Top => units[p].level < MaxLevel
    /\ units' = [units EXCEPT ![u] = [parent |-> p,
                                      level |-> IF p = Top THEN 0 ELSE units[p].level + 1]]
    /\ UNCHANGED <<staffed, calls, overlapped>>

(* An update begins with the unit as it is read.                             *)
Begins(c, w) ==
    /\ calls[c].at = "idle"
    /\ calls' = [calls EXCEPT ![c] = w]
    /\ overlapped' = (overlapped \/ \E e \in Callers : /\ calls[e].at # "idle"
                                                       /\ w.move \/ calls[e].move)
    /\ UNCHANGED <<units, staffed>>

ReparentReads(c, u, p) ==
    /\ u \in Stored /\ p \in (Units \cup {Top}) \ {units[u].parent}
    /\ Begins(c, Update("read", u, p, TRUE))

(* A change of name stores the parent too, as it was read.                   *)
RenameReads(c, u) ==
    /\ u \in Stored
    /\ Begins(c, Update("checked", u, units[u].parent, FALSE))

(* A variant that trusts the client to have checked what lies below.         *)
MayMoveUnderClientChecked(u, p) == p # u
(* The request is refused if the new parent is the unit or lies below it.    *)
MayMoveUnder(u, p) == p # u /\ p \notin Descendants(u)

(* A move to the root is checked against nothing.                            *)
ReparentChecks(c) ==
    /\ calls[c].at = "read"
    /\ calls[c].to # Top => calls[c].to \in Stored /\ MayMoveUnder(calls[c].unit, calls[c].to)
    /\ calls' = [calls EXCEPT ![c].at = "checked", ![c].list = calls[c].unit]
    /\ UNCHANGED <<units, staffed, overlapped>>

(* A unit is stored: its parent unless that is the root, never the level.    *)
(* The statement fails if either is gone.                                    *)
Updated(u, p) ==
    /\ u \in Stored /\ p \in Stored \cup {Top}
    /\ units' = IF p = Top THEN units ELSE [units EXCEPT ![u].parent = p]

(* The cascade lists all that lies below a unit, stores each as it was read, *)
(* and goes on below that one before it stores the next.                     *)
CascadeReads(c) ==
    /\ calls[c].list # Absent
    /\ calls' = [calls EXCEPT ![c].list = Absent,
                              ![c].left = @ \cup {<<d, units[d].parent, calls[c].list>> :
                                                      d \in Descendants(calls[c].list)}]
    /\ UNCHANGED <<units, staffed, overlapped>>

CascadeWrites(c, d) ==
    /\ calls[c].list = Absent /\ d \in calls[c].left
    /\ Updated(d[1], d[2])
    /\ calls' = [calls EXCEPT ![c].list = d[1], ![c].left = @ \ {d}]
    /\ UNCHANGED <<staffed, overlapped>>

UnitWrites(c) ==
    /\ calls[c].at = "checked" /\ calls[c].list = Absent /\ calls[c].left = {}
    /\ Updated(calls[c].unit, calls[c].to)
    /\ calls' = [calls EXCEPT ![c] = Idle]
    /\ UNCHANGED <<staffed, overlapped>>

(* The update is refused or a statement fails: what was written stays.       *)
UpdateFails(c) ==
    /\ calls[c].at # "idle"
    /\ calls' = [calls EXCEPT ![c] = Idle]
    /\ UNCHANGED <<units, staffed, overlapped>>

Delete(u) ==
    /\ u \in Stored /\ units[u].level # 0
    /\ Children(u) = {} /\ u \notin staffed
    /\ units' = [units EXCEPT ![u] = [parent |-> Gone, level |-> 0]]
    /\ UNCHANGED <<staffed, calls, overlapped>>

(* A first member joins; the last one leaves.                                *)
AddMember(u) ==
    /\ u \in Stored \ staffed /\ Cardinality(staffed) < MaxStaffed
    /\ staffed' = staffed \cup {u}
    /\ UNCHANGED <<units, calls, overlapped>>

RemoveMember(u) ==
    /\ u \in staffed
    /\ staffed' = staffed \ {u}
    /\ UNCHANGED <<units, calls, overlapped>>

Next ==
    \/ \E u \in Units : \/ Delete(u) \/ AddMember(u) \/ RemoveMember(u)
                        \/ \E p \in Units \cup {Top} : Create(u, p)
                        \/ \E c \in Callers :
                               \/ RenameReads(c, u)
                               \/ \E p \in Units \cup {Top} : ReparentReads(c, u, p)
    \/ \E c \in Callers : \/ ReparentChecks(c) \/ CascadeReads(c)
                          \/ UnitWrites(c) \/ UpdateFails(c)
                          \/ \E d \in calls[c].left : CascadeWrites(c, d)

Spec == Init /\ [][Next]_unitVars

-----------------------------------------------------------------------------
(* No unit lies below itself, as long as no re-parent has run beside another *)
(* update, a change of name included: otherwise the tree loses it with       *)
(* everything below, and the recursive query never ends.                     *)
Acyclic == ~overlapped => \A u \in Units : u \notin UNION {Children(d) : d \in Descendants(u) \cup {u}}

(* hierarchy_level is 0 at the company and 1+ for subunits: one more than    *)
(* the parent's, whenever no update is in progress.                          *)
LevelsAreDepths ==
    (\A c \in Callers : calls[c] = Idle) =>
        \A u \in Stored : units[u].level = IF units[u].parent = Top THEN 0
                                           ELSE units[units[u].parent].level + 1
=============================================================================
